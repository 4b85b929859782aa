-------------------------------- MODULE Keys --------------------------------
(***************************************************************************)
(* The key two nodes share, which changes with the hour of their clocks    *)
(* (--crypto-key-update-interval hour, gnb_keys.c), and what is encrypted  *)
(* with it: the UR1 frames of applications, which the primary worker       *)
(* handles while the node worker replaces the keys (gnb_primary_worker.c). *)
(* With the cipher arc4 the packet filter builds the keys too, and makes   *)
(* its boxes of them (packet_filter/gnb_pf_crypto_arc4.c).                 *)
(*                                                                         *)
(* A key, and the time seed it is made of, is a hash, which sha512 stores  *)
(* where others read and write it without a lock: eight words, each of     *)
(* them at once or in bytes.  A word is here what is stored at once.  A    *)
(* key is the set of the pads a frame is encrypted with, one for each      *)
(* word, as in NodeSend: the cipher is an exclusive or.  Days are Day      *)
(* hours long; the clocks of the nodes are never more than an hour apart.  *)
(***************************************************************************)
EXTENDS Naturals, FiniteSets, Sequences

CONSTANTS
  Node,
  Relay,        \* nodes that only pass frames on; their keys are left out
  Tun,          \* the nodes with a virtual interface, which have packets to filter
  Ciphers,      \* what all nodes are configured with: xor, arc4 or either
  Words,        \* in a hash; each is stored by itself
  Day,          \* the hours of a day
  FirstHour,    \* when the first node may start, counted from 1970
  LastHour,     \* when the clocks stop
  Hops,         \* whom a node may send a frame for another node to
  MaxFrames,    \* with each cipher: the frames that applications send
  MaxCrashes    \* and the crashes

ASSUME KeysAssumption ==
  /\ {Day, FirstHour, LastHour, Words} \subseteq Nat /\ Words > 0
  /\ Ciphers \subseteq {"xor", "arc4"} /\ Ciphers # {}
  /\ MaxFrames \in [Ciphers -> Nat] /\ MaxCrashes \in [Ciphers -> Nat]
  /\ Day > 1 /\ Day <= FirstHour /\ FirstHour <= LastHour
  /\ Node \cap Relay = {} /\ Tun \subseteq Node
  /\ Hops \in [Node \cup Relay -> [Node -> SUBSET (Node \cup Relay)]]

VARIABLES
  cipher,
  hour,             \* the clocks
  up, crashes,
  time_seed_update_factor, time_seed,
  now_sec,          \* the time the node worker works with
  at,               \* where it is in update_node_crypto_key
  word,             \* the word it stores next, of the seed or of a key
  todo,             \* the nodes whose keys are still to be built
  crypto_key, pre_crypto_key,
  seen,             \* the hours whose keys a node has had since its start
  save_time_seed_update_factor, arc4_ctx_map,
  pf_at,            \* where the packet filter is in init_arc4_keys
  pf_word, pf_todo, pf_buffer,
  overlapped,       \* for the properties: whether it was there while the node
                    \* worker dealt with this hour
  noticed,          \* and the hour in which it came there
  net, sent, received

workervars == <<time_seed_update_factor, time_seed, now_sec, at, word, todo>>
keyvars == <<crypto_key, pre_crypto_key, seen>>
pfvars == <<save_time_seed_update_factor, arc4_ctx_map, pf_at, pf_word, pf_todo,
            pf_buffer, noticed>>
ur1vars == <<net, sent, received>>
vars == <<cipher, hour, up, crashes, workervars, keyvars, pfvars, overlapped,
          ur1vars>>

(* Year, month, day and hour are added up.                                 *)
Seed(h) == (h \div Day) + (h % Day)
FactorOfCount(h) == h + 1    \* faulty variant
Factor(h) == (h % Day) + 1

Word == 1 .. Words
TimeSeed(h) == [w \in Word |-> Seed(h)]

(* gnb_build_crypto_key: every word of the key depends on the whole seed.  *)
PadOfReader(n, m, w, seed) == <<{n}, w, seed>>    \* faulty variant
PadOf(n, m, w, seed) == <<{n, m}, w, seed>>
Key(n, m, seed) == {PadOf(n, m, w, seed) : w \in Word}
WithPad(key, pad) == {p \in key : p[2] # pad[2]} \cup {pad}
NoKey == {}
Crypted(layers, key) == (layers \ key) \cup (key \ layers)

Pads == (SUBSET Node) \X Word \X [Word -> 0 .. LastHour]
Frame == [id : Nat, src : Node, dst : Node, ttl : Nat,
          layers : SUBSET Pads, hour : Nat, to : Node \cup Relay,
          path : Seq(Node \cup Relay)]

TypeOK ==
  /\ cipher \in Ciphers
  /\ hour \in [Node -> FirstHour .. LastHour]
  /\ up \in [Node -> BOOLEAN] /\ crashes \in 0 .. MaxCrashes[cipher]
  /\ time_seed_update_factor \in [Node -> 0 .. Day]
  /\ {time_seed, pf_buffer} \subseteq [Node -> [Word -> 0 .. LastHour]]
  /\ now_sec \in [Node -> 0 .. LastHour]
  /\ at \in [Node -> {"loop", "verified", "seeded", "hashing"}]
  /\ {word, pf_word} \subseteq [Node -> Word] /\ todo \in [Node -> SUBSET Node]
  /\ {crypto_key, pre_crypto_key, arc4_ctx_map} \subseteq [Node -> [Node -> SUBSET Pads]]
  /\ seen \in [Node -> SUBSET (0 .. LastHour)]
  /\ save_time_seed_update_factor \in [Node -> 0 .. Day]
  /\ pf_at \in [Node -> {"packets", "building", "hashing", "boxing"}]
  /\ pf_todo \in [Node -> SUBSET Node]
  /\ overlapped \in [Node -> BOOLEAN] /\ noticed \in [Node -> 0 .. LastHour]
  /\ net \subseteq Frame
  /\ sent \in 0 .. MaxFrames[cipher] /\ received \subseteq 1 .. MaxFrames[cipher]

Init ==
  /\ cipher \in Ciphers
  /\ hour \in [Node -> {FirstHour}]
  /\ up = [n \in Node |-> FALSE] /\ crashes = 0
  /\ time_seed_update_factor = [n \in Node |-> 0]
  /\ time_seed = [n \in Node |-> TimeSeed(0)] /\ now_sec = [n \in Node |-> 0]
  /\ at = [n \in Node |-> "loop"] /\ todo = [n \in Node |-> {}]
  /\ word = [n \in Node |-> 1]
  /\ crypto_key = [n \in Node |-> [m \in Node |-> NoKey]]
  /\ pre_crypto_key = crypto_key
  /\ seen = [n \in Node |-> {}]
  /\ save_time_seed_update_factor = [n \in Node |-> 0]
  /\ arc4_ctx_map = crypto_key
  /\ pf_at = [n \in Node |-> "packets"] /\ pf_todo = [n \in Node |-> {}]
  /\ pf_word = word /\ pf_buffer = time_seed
  /\ overlapped = [n \in Node |-> FALSE] /\ noticed = now_sec
  /\ net = {} /\ sent = 0 /\ received = {}

-----------------------------------------------------------------------------
(* gnb_verify_seed_time: a new factor starts the rest.                     *)
DueIfLater(n) == Factor(hour[n]) > time_seed_update_factor[n]
Due(n) == Factor(hour[n]) # time_seed_update_factor[n]

(* The node worker looks at the clock every 150 ms: it has noticed an hour *)
(* and built its keys, and the packet filter is done with its packet, long *)
(* before the next hour begins.                                            *)
Tick(n) ==
  /\ hour[n] < LastHour /\ \A m \in Node : hour[n] <= hour[m]
  /\ up[n] => ~Due(n) /\ at[n] = "loop" /\ pf_at[n] = "packets"
  /\ hour' = [hour EXCEPT ![n] = @ + 1]
  /\ UNCHANGED <<cipher, up, crashes, workervars, keyvars, pfvars, overlapped,
                 ur1vars>>

(* gnb_core_create builds the keys of this hour if the cipher is arc4, in  *)
(* pf_init and pf_conf.  gnb_core_start then calls update_node_crypto_key  *)
(* with the time 1.                                                        *)
FirstKeys(n) ==
  [m \in Node |-> IF m = n \/ cipher = "xor" THEN NoKey
                                            ELSE Key(n, m, TimeSeed(hour[n]))]

Start(n) ==
  /\ ~up[n]
  /\ up' = [up EXCEPT ![n] = TRUE]
  /\ time_seed_update_factor' = [time_seed_update_factor EXCEPT ![n] = Factor(0)]
  /\ time_seed' = [time_seed EXCEPT ![n] = TimeSeed(0)]
  /\ crypto_key' = [crypto_key EXCEPT ![n] =
       [m \in Node |-> IF m = n THEN NoKey ELSE Key(n, m, TimeSeed(0))]]
  /\ pre_crypto_key' = [pre_crypto_key EXCEPT ![n] = FirstKeys(n)]
  /\ arc4_ctx_map' = [arc4_ctx_map EXCEPT ![n] = FirstKeys(n)]
  /\ save_time_seed_update_factor' = [save_time_seed_update_factor EXCEPT ![n] = 0]
  /\ pf_at' = [pf_at EXCEPT ![n] = "packets"] /\ pf_todo' = [pf_todo EXCEPT ![n] = {}]
  /\ pf_word' = [pf_word EXCEPT ![n] = 1]
  /\ pf_buffer' = [pf_buffer EXCEPT ![n] = TimeSeed(0)]
  /\ overlapped' = [overlapped EXCEPT ![n] = FALSE]
  /\ noticed' = [noticed EXCEPT ![n] = 0]
  /\ seen' = [seen EXCEPT ![n] = {}]
  /\ at' = [at EXCEPT ![n] = "loop"] /\ todo' = [todo EXCEPT ![n] = {}]
  /\ word' = [word EXCEPT ![n] = 1]
  /\ UNCHANGED <<cipher, hour, crashes, now_sec, ur1vars>>

Crash(n) ==
  /\ up[n] /\ crashes < MaxCrashes[cipher]
  /\ crashes' = crashes + 1
  /\ up' = [up EXCEPT ![n] = FALSE]
  /\ UNCHANGED <<cipher, hour, workervars, keyvars, pfvars, overlapped,
                 ur1vars>>

-----------------------------------------------------------------------------
(* update_node_crypto_key, in the loop of the node worker.                 *)

(* The keys are built one after the other, in the order of the node table. *)
First(S) == CHOOSE m \in S : TRUE

Verify(n) ==
  /\ up[n] /\ at[n] = "loop" /\ Due(n)
  /\ now_sec' = [now_sec EXCEPT ![n] = hour[n]]
  /\ time_seed_update_factor' =
       [time_seed_update_factor EXCEPT ![n] = Factor(hour[n])]
  /\ at' = [at EXCEPT ![n] = "verified"]
  /\ overlapped' = [overlapped EXCEPT ![n] = pf_at[n] # "packets"]
  /\ UNCHANGED <<cipher, hour, up, crashes, time_seed, word, todo, keyvars, pfvars,
                 ur1vars>>

(* sha512_final stores the words one after the other; an action that       *)
(* stores one goes on when it was the last.                                *)
After(w) == IF w = Words THEN 1 ELSE w + 1

UpdateTimeSeed(n) ==
  /\ up[n] /\ at[n] = "verified"
  /\ time_seed' = [time_seed EXCEPT ![n][word[n]] = Seed(now_sec[n])]
  /\ word' = [word EXCEPT ![n] = After(@)]
  /\ IF word[n] = Words
     THEN /\ todo' = [todo EXCEPT ![n] = Node \ {n}]
          /\ at' = [at EXCEPT ![n] = "seeded"]
     ELSE UNCHANGED <<todo, at>>
  /\ UNCHANGED <<cipher, hour, up, crashes, time_seed_update_factor, now_sec,
                 keyvars, pfvars, overlapped, ur1vars>>

(* gnb_build_crypto_key for one node: the seed is read, which nobody else  *)
(* writes, and the old key copied away (in one step; no property says      *)
(* anything of the copy with arc4, where the other thread may write it     *)
(* too); then the words of the new key are stored in its place.  Who reads *)
(* a key meanwhile may get words of both.                                  *)
SetAsideLate(n, m) ==    \* faulty variant
  pre_crypto_key' = [pre_crypto_key EXCEPT ![n][m] = Key(n, m, time_seed[n])]
SetAside(n, m) ==
  pre_crypto_key' = [pre_crypto_key EXCEPT ![n][m] = crypto_key[n][m]]

BuildBegins(n) ==
  /\ up[n] /\ at[n] = "seeded" /\ todo[n] # {}
  /\ SetAside(n, First(todo[n]))
  /\ at' = [at EXCEPT ![n] = "hashing"]
  /\ UNCHANGED <<cipher, hour, up, crashes, time_seed_update_factor, time_seed,
                 now_sec, word, todo, crypto_key, seen, pfvars, overlapped, ur1vars>>

StoreWord(n, m, w, seed) ==
  crypto_key' = [crypto_key EXCEPT ![n][m] = WithPad(@, PadOf(n, m, w, seed))]

BuildWord(n) ==
  /\ up[n] /\ at[n] = "hashing"
  /\ LET m == First(todo[n])
     IN /\ StoreWord(n, m, word[n], time_seed[n])
        /\ word' = [word EXCEPT ![n] = After(@)]
        /\ IF word[n] = Words
           THEN /\ todo' = [todo EXCEPT ![n] = @ \ {m}]
                /\ at' = [at EXCEPT ![n] = IF todo[n] = {m} THEN "loop" ELSE "seeded"]
                /\ seen' = [seen EXCEPT ![n] =
                              IF todo[n] = {m} THEN @ \cup {now_sec[n]} ELSE @]
           ELSE UNCHANGED <<todo, at, seen>>
  /\ UNCHANGED <<cipher, hour, up, crashes, time_seed_update_factor, time_seed,
                 now_sec, pre_crypto_key, pfvars, overlapped, ur1vars>>

-----------------------------------------------------------------------------
(* init_arc4_keys, in the packet filter, at the first packet that finds    *)
(* another factor: it builds all keys again, with the time seed there is,  *)
(* and its boxes from them.                                                *)

PfNotices(n) ==
  /\ up[n] /\ n \in Tun /\ cipher = "arc4" /\ pf_at[n] = "packets"
  /\ save_time_seed_update_factor[n] # time_seed_update_factor[n]
  /\ save_time_seed_update_factor' =
       [save_time_seed_update_factor EXCEPT ![n] = time_seed_update_factor[n]]
  /\ pf_todo' = [pf_todo EXCEPT ![n] = Node \ {n}]
  /\ pf_at' = [pf_at EXCEPT ![n] = "building"]
  /\ overlapped' = [overlapped EXCEPT ![n] = @ \/ at[n] # "loop"]
  /\ noticed' = [noticed EXCEPT ![n] = hour[n]]
  /\ UNCHANGED <<cipher, hour, up, crashes, workervars, keyvars, arc4_ctx_map,
                 pf_word, pf_buffer, ur1vars>>

(* gnb_build_crypto_key again; here the seed may be read while the node    *)
(* worker stores it, and the key while it is stored.                       *)
PfBuildBegins(n) ==
  /\ up[n] /\ pf_at[n] = "building" /\ pf_todo[n] # {}
  /\ pf_buffer' = [pf_buffer EXCEPT ![n][pf_word[n]] = time_seed[n][pf_word[n]]]
  /\ pf_word' = [pf_word EXCEPT ![n] = After(@)]
  /\ IF pf_word[n] = Words
     THEN /\ SetAside(n, First(pf_todo[n]))
          /\ pf_at' = [pf_at EXCEPT ![n] = "hashing"]
     ELSE UNCHANGED <<pre_crypto_key, pf_at>>
  /\ UNCHANGED <<cipher, hour, up, crashes, workervars, crypto_key, seen, noticed,
                 save_time_seed_update_factor, arc4_ctx_map, pf_todo, overlapped,
                 ur1vars>>

PfBuildWord(n) ==
  /\ up[n] /\ pf_at[n] = "hashing"
  /\ StoreWord(n, First(pf_todo[n]), pf_word[n], pf_buffer[n])
  /\ pf_word' = [pf_word EXCEPT ![n] = After(@)]
  /\ IF pf_word[n] = Words
     THEN /\ pf_buffer' = [pf_buffer EXCEPT ![n] = TimeSeed(0)]
          /\ pf_at' = [pf_at EXCEPT ![n] = "boxing"]
     ELSE UNCHANGED <<pf_buffer, pf_at>>
  /\ UNCHANGED <<cipher, hour, up, crashes, workervars, pre_crypto_key, seen, noticed,
                 save_time_seed_update_factor, arc4_ctx_map, pf_todo, overlapped,
                 ur1vars>>

(* arc4_init reads the key in several rounds; if it is stored meanwhile,   *)
(* the box is of a mixture, this or another one.                           *)
PfBoxes(n) ==
  /\ up[n] /\ pf_at[n] = "boxing"
  /\ LET m == First(pf_todo[n])
     IN /\ arc4_ctx_map' = [arc4_ctx_map EXCEPT ![n][m] = crypto_key[n][m]]
        /\ pf_todo' = [pf_todo EXCEPT ![n] = @ \ {m}]
        /\ pf_at' = [pf_at EXCEPT ![n] = IF pf_todo[n] = {m} THEN "packets"
                                                             ELSE "building"]
  /\ UNCHANGED <<cipher, hour, up, crashes, workervars, keyvars, noticed,
                 save_time_seed_update_factor, pf_word, pf_buffer, overlapped, ur1vars>>

-----------------------------------------------------------------------------
(* handle_ur1_frame.  The nodes a frame may be sent to next stand for the  *)
(* choice of gnb_std_uf_forward_payload_to_node.                           *)
SentOn(n, f) == {[f EXCEPT !.to = h, !.path = Append(@, n)] : h \in Hops[n][f.dst]}
SendsOne(frames, rest) ==
  \/ \E f \in frames : net' = rest \cup {f}
  \/ frames = {} /\ net' = rest

FromApp(n, d) ==
  /\ up[n] /\ d # n /\ sent < MaxFrames[cipher]
  /\ sent' = sent + 1
  /\ LET f == [id |-> sent + 1, src |-> n, dst |-> d, ttl |-> 2,
               layers |-> crypto_key[n][d], hour |-> now_sec[n],
               to |-> n, path |-> <<>>]
     IN SendsOne(SentOn(n, f), net)
  /\ UNCHANGED <<cipher, hour, up, crashes, workervars, keyvars, pfvars, overlapped,
                 received>>

(* Decrypted with the current key and, when the verify code differs, with  *)
(* the previous one, on top of it.                                         *)
Opens(n, f) ==
  LET first == Crypted(f.layers, crypto_key[n][f.src])
  IN first = {} \/ Crypted(first, pre_crypto_key[n][f.src]) = {}

RelayedKeepsTtl(n, f) == SentOn(n, f)
Relayed(n, f) == IF f.ttl > 1 THEN SentOn(n, [f EXCEPT !.ttl = @ - 1]) ELSE {}

FromNode(f) ==
  LET n == f.to IN
  /\ f \in net /\ (n \in Node => up[n])
  /\ IF n = f.dst
     THEN /\ net' = net \ {f}
          /\ received' = IF Opens(n, f) THEN received \cup {f.id} ELSE received
     ELSE SendsOne(Relayed(n, f), net \ {f}) /\ UNCHANGED received
  /\ UNCHANGED <<cipher, hour, up, crashes, workervars, keyvars, pfvars, overlapped,
                 sent>>

NodeWorker(n) == Verify(n) \/ UpdateTimeSeed(n) \/ BuildBegins(n) \/ BuildWord(n)

PacketFilter(n) ==
  PfNotices(n) \/ PfBuildBegins(n) \/ PfBuildWord(n) \/ PfBoxes(n)

Next ==
  \/ \E n \in Node : Tick(n) \/ Start(n) \/ Crash(n) \/ NodeWorker(n)
                                 \/ PacketFilter(n)
  \/ \E n, d \in Node : FromApp(n, d)
  \/ \E f \in net : FromNode(f)

Spec == Init /\ [][Next]_vars

-----------------------------------------------------------------------------
(* A node worker that is back in its loop and sees no change of the hour.  *)
(* One that has not built keys since the start of the node may be there    *)
(* with those of 1970: if it starts in the first hour of a day, there is   *)
(* no change to see (gnb_core.c:605).                                      *)
Settled(n) == up[n] /\ at[n] = "loop" /\ ~Due(n) /\ seen[n] # {}

(* Two nodes whose clocks show the same hour and whose node workers have   *)
(* dealt with it have the same key for each other, whenever they were      *)
(* started.  With xor, the keys are built by the node worker only.         *)
KeysAgree ==
  \A n, m \in Node :
    (cipher = "xor" /\ n # m /\ Settled(n) /\ Settled(m) /\ hour[n] = hour[m])
      => crypto_key[n][m] = crypto_key[m][n]

(* A frame that is encrypted with the key of an hour that its receiver has *)
(* had, this one or the one before.                                        *)
Timely(f) ==
  LET n == f.dst IN
  /\ Settled(n)
  /\ f.layers = Key(f.src, n, TimeSeed(f.hour))
  /\ f.hour \in seen[n] \cap {hour[n], hour[n] - 1}

(* It is under one of the two keys the receiver keeps: the one before is   *)
(* not lost when the node worker builds the keys.                          *)
PreviousKept ==
  \A f \in net : (cipher = "xor" /\ Timely(f)) =>
    f.layers \in {crypto_key[f.dst][f.src], pre_crypto_key[f.dst][f.src]}

(* A frame is sent at most twice, although nodes that choose each other as *)
(* the next hop would pass it on for ever.                                 *)
Ur1HopsBounded == \A f \in net : Len(f.path) <= 2

(* gnb_keys.c:131: the keys are changed by the clock.  Two nodes that have *)
(* done so, in the packet filter too, have boxes that fit together.        *)
HasRebuilt(n) ==
  /\ Settled(n) /\ pf_at[n] = "packets"
  /\ save_time_seed_update_factor[n] = time_seed_update_factor[n]
BoxesAgree ==
  \A n, m \in Tun :
    (cipher = "arc4" /\ n # m /\ HasRebuilt(n) /\ HasRebuilt(m) /\ hour[n] = hour[m])
      => arc4_ctx_map[n][m] = arc4_ctx_map[m][n]

(* The node worker and, with arc4, the packet filter may build the same    *)
(* key at once, each from the words of the seed there are, so that words   *)
(* of different keys remain; but none is older than the hour before, or it *)
(* is of 1970.  And an overlap is the only way to come to this: if the     *)
(* packet filter was not at it while the node worker dealt with the hour,  *)
(* the key is whole and that of the hour, even while the packet filter     *)
(* builds it again; and so are boxes that were made in this hour.          *)
KeysOfTheHour ==
  \A n, m \in Node : (n # m /\ Settled(n)) =>
    /\ \A p \in crypto_key[n][m] :
         /\ p[1] = {n, m}
         /\ \A w \in Word : p[3][w] \in {Seed(h) : h \in {0, hour[n] - 1, hour[n]}}
    /\ ~overlapped[n] =>
         /\ crypto_key[n][m] = Key(n, m, TimeSeed(hour[n]))
         /\ HasRebuilt(n) /\ noticed[n] = hour[n] => arc4_ctx_map[n][m] = crypto_key[n][m]

(* gnb_node_type.h:129: the old key is kept to decrypt what was encrypted  *)
(* with it, which ur1 frames support.                                      *)
PreviousKeyReads ==
  [][\A f \in net :
       FromNode(f) /\ f.to = f.dst /\ Timely(f) => f.id \in received']_vars
=============================================================================
