----------------------------- MODULE Keys_proof -----------------------------
(***************************************************************************)
(* For any number of nodes, words of a hash, hours of a day, frames and    *)
(* crashes: the variables keep their types, nodes whose clocks agree have  *)
(* the same key, the key before is kept, keys are those of the hour unless *)
(* two threads build them at once, and a UR1 frame is sent at most twice.  *)
(***************************************************************************)
EXTENDS Keys, TLAPS, SequenceTheorems

-----------------------------------------------------------------------------
(* Hours, seeds and factors.                                               *)

LEMMA Constants == Day \in Nat /\ Day > 1 /\ FirstHour \in Nat /\ LastHour \in Nat
                   /\ Day <= FirstHour /\ FirstHour <= LastHour
                   /\ Words \in Nat /\ Words > 0
BY KeysAssumption

(* The seed of an hour is no greater than the hour.                        *)
LEMMA SeedType ==
  ASSUME NEW h \in 0 .. LastHour
  PROVE  Seed(h) \in 0 .. LastHour
<1>1. /\ h \div Day \in Nat /\ h % Day \in Nat
      /\ h = Day * (h \div Day) + (h % Day)
  BY Constants
<1>2. ASSUME NEW q \in Nat, NEW r \in Nat, NEW D \in Nat, D > 1
      PROVE  D * q + r >= q + r
  BY <1>2
<1>3. Day * (h \div Day) + (h % Day) >= (h \div Day) + (h % Day)
  BY <1>1, <1>2, Constants
<1> QED
  BY <1>1, <1>3, Constants DEF Seed

(* The factor of an hour is one of those of a day.                         *)
LEMMA FactorType ==
  ASSUME NEW h \in Nat
  PROVE  Factor(h) \in 0 .. Day
BY Constants DEF Factor

(* It is not that of the hour before.                                      *)
LEMMA FactorChanges ==
  ASSUME NEW h \in Nat
  PROVE  Factor(h) # Factor(h + 1)
<1>1. /\ h \div Day \in Nat /\ h % Day \in 0 .. Day - 1
      /\ h = Day * (h \div Day) + (h % Day)
      /\ (h + 1) \div Day \in Nat /\ (h + 1) % Day \in 0 .. Day - 1
      /\ h + 1 = Day * ((h + 1) \div Day) + ((h + 1) % Day)
  BY Constants
<1>2. ASSUME NEW p \in Nat, NEW q \in Nat, NEW r \in Nat, NEW D \in Nat, D > 1,
             D * p + r + 1 = D * q + r
      PROVE  FALSE
  <2>1. D * (q - p) = 1
    BY <1>2
  <2>2. q - p \in Int
    OBVIOUS
  <2>3. ASSUME NEW k \in Int, D * k = 1
        PROVE  FALSE
    <3>1. CASE k <= 0
      BY <2>3, <3>1, <1>2
    <3>2. CASE k >= 1
      BY <2>3, <3>2, <1>2
    <3> QED
      BY <3>1, <3>2
  <2> QED
    BY <2>1, <2>2, <2>3
<1> SUFFICES ASSUME h % Day = (h + 1) % Day
             PROVE  FALSE
  BY <1>1 DEF Factor
<1> DEFINE p == h \div Day  q == (h + 1) \div Day  r == h % Day
<1>3. p \in Nat /\ q \in Nat /\ r \in Nat /\ h = Day * p + r /\ h + 1 = Day * q + r
  BY <1>1, Constants
<1> HIDE DEF p, q, r
<1>4. Day * p + r + 1 = Day * q + r
  BY <1>3
<1> QED
  BY <1>2, <1>3, <1>4, Constants

-----------------------------------------------------------------------------
(* What changing one key, or the keys of one node, does.                   *)

LEMMA KeyPut ==
  ASSUME NEW S, NEW t \in [Node -> [Node -> S]], NEW n \in Node, NEW m \in Node,
         NEW v \in S, NEW u, u = [t EXCEPT ![n][m] = v]
  PROVE  /\ u \in [Node -> [Node -> S]]
         /\ u[n][m] = v
         /\ \A i, j \in Node : (i # n \/ j # m) => u[i][j] = t[i][j]
OBVIOUS

LEMMA KeysPut ==
  ASSUME NEW S, NEW t \in [Node -> [Node -> S]], NEW n \in Node,
         NEW r \in [Node -> S], NEW u, u = [t EXCEPT ![n] = r]
  PROVE  /\ u \in [Node -> [Node -> S]]
         /\ u[n] = r
         /\ \A i \in Node \ {n} : u[i] = t[i]
OBVIOUS

(* One of the nodes that are left is a node that is left.                  *)
LEMMA FirstIn ==
  ASSUME NEW S, S # {}
  PROVE  First(S) \in S
BY DEF First

(* The word after another one, and the first one after the last.           *)
LEMMA AfterType ==
  ASSUME NEW w \in Word
  PROVE  /\ After(w) \in Word /\ 1 \in Word
         /\ w = Words => After(w) = 1
         /\ w # Words => After(w) = w + 1 /\ w < Words
BY Constants DEF After, Word

LEMMA TimeSeedType ==
  ASSUME NEW h \in 0 .. LastHour
  PROVE  /\ TimeSeed(h) \in [Word -> 0 .. LastHour]
         /\ \A w \in Word : TimeSeed(h)[w] = Seed(h)
BY SeedType DEF TimeSeed

(* A seed that has the words of an hour's is the hour's.                   *)
LEMMA SameSeed ==
  ASSUME NEW h \in 0 .. LastHour, NEW s \in [Word -> 0 .. LastHour],
         \A w \in Word : s[w] = Seed(h)
  PROVE  s = TimeSeed(h)
BY DEF TimeSeed

(* Keys are sets of pads.                                                  *)
LEMMA PadType ==
  ASSUME NEW n \in Node, NEW m \in Node, NEW w \in Word,
         NEW seed \in [Word -> 0 .. LastHour]
  PROVE  PadOf(n, m, w, seed) \in Pads
BY DEF PadOf, Pads

LEMMA KeyType ==
  ASSUME NEW n \in Node, NEW m \in Node, NEW seed \in [Word -> 0 .. LastHour]
  PROVE  Key(n, m, seed) \in SUBSET Pads
BY PadType DEF Key

LEMMA NoKeyType == NoKey \in SUBSET Pads
BY DEF NoKey

(* A key is the same from both ends.                                       *)
LEMMA KeySymmetric == \A n, m, seed : Key(n, m, seed) = Key(m, n, seed)
BY DEF Key, PadOf

(* The pads of a key for one word.  A key that has just one for each word  *)
(* is a whole one.                                                         *)
WordsOf(key, w) == {p \in key : p[2] = w}

LEMMA WholeKey ==
  ASSUME NEW n, NEW m, NEW seed, NEW key \in SUBSET Pads,
         \A w \in Word : WordsOf(key, w) = {PadOf(n, m, w, seed)}
  PROVE  key = Key(n, m, seed)
<1>1. ASSUME NEW p \in key
      PROVE  p \in Key(n, m, seed)
  <2>1. p[2] \in Word
    BY DEF Pads
  <2>2. p \in WordsOf(key, p[2])
    BY DEF WordsOf
  <2> QED
    BY <2>1, <2>2 DEF Key
<1>2. ASSUME NEW p \in Key(n, m, seed)
      PROVE  p \in key
  <2>1. PICK w \in Word : p = PadOf(n, m, w, seed)
    BY DEF Key
  <2>2. p \in WordsOf(key, w)
    BY <2>1
  <2> QED
    BY <2>2 DEF WordsOf
<1> QED
  BY <1>1, <1>2

HasWord(key, n, m, w, seed) == WordsOf(key, w) = {PadOf(n, m, w, seed)}

(* Storing a word of one key.                                              *)
LEMMA StoreWordDoes ==
  ASSUME NEW n \in Node, NEW m \in Node, NEW w \in Word,
         NEW seed \in [Word -> 0 .. LastHour],
         crypto_key \in [Node -> [Node -> SUBSET Pads]], StoreWord(n, m, w, seed)
  PROVE  /\ crypto_key' \in [Node -> [Node -> SUBSET Pads]]
         /\ \A i, j \in Node : (i # n \/ j # m) => crypto_key'[i][j] = crypto_key[i][j]
         /\ HasWord(crypto_key'[n][m], n, m, w, seed)
         /\ \A v \in Word \ {w} : WordsOf(crypto_key'[n][m], v) = WordsOf(crypto_key[n][m], v)
<1> DEFINE pad == PadOf(n, m, w, seed)
           key == WithPad(crypto_key[n][m], pad)
<1>1. pad \in Pads /\ pad[2] = w
  BY PadType DEF PadOf
<1> HIDE DEF pad
<1>2. key \in SUBSET Pads
  BY <1>1 DEF WithPad
<1>3. crypto_key' = [crypto_key EXCEPT ![n][m] = key]
  BY DEF StoreWord, pad
<1>4. /\ WordsOf(key, w) = {pad}
      /\ \A v \in Word \ {w} : WordsOf(key, v) = WordsOf(crypto_key[n][m], v)
  BY <1>1 DEF WordsOf, WithPad
<1> HIDE DEF key
<1>5. /\ crypto_key' \in [Node -> [Node -> SUBSET Pads]]
      /\ crypto_key'[n][m] = key
      /\ \A i, j \in Node : (i # n \/ j # m) => crypto_key'[i][j] = crypto_key[i][j]
  BY <1>2, <1>3, KeyPut
<1> QED
  BY <1>4, <1>5 DEF pad, HasWord

-----------------------------------------------------------------------------
(* Types.  Whoever hashes has a node to do it for, and a frame on its way  *)
(* has been sent, to another node, with some time to live.                 *)

TodoInv ==
  \A n \in Node :
    /\ todo[n] \subseteq Node \ {n} /\ pf_todo[n] \subseteq Node \ {n}
    /\ at[n] = "hashing" => todo[n] # {}
    /\ pf_at[n] \in {"hashing", "boxing"} => pf_todo[n] # {}
    /\ at[n] \in {"loop", "seeded"} => word[n] = 1
    /\ pf_at[n] \in {"packets", "boxing"} => pf_word[n] = 1

FrameInv ==
  \A f \in net :
    /\ f.src # f.dst /\ f.id \in 1 .. sent
    /\ f.ttl >= 1 /\ Len(f.path) + f.ttl <= 3

Typed == TypeOK /\ TodoInv /\ FrameInv

(* A frame that n sends on is a frame.                                     *)
LEMMA SentOnType ==
  ASSUME NEW n \in Node \cup Relay, NEW f \in Frame, NEW g \in SentOn(n, f)
  PROVE  /\ g \in Frame
         /\ g.id = f.id /\ g.src = f.src /\ g.dst = f.dst /\ g.ttl = f.ttl
         /\ Len(g.path) = Len(f.path) + 1
<1>1. PICK h \in Hops[n][f.dst] : g = [f EXCEPT !.to = h, !.path = Append(@, n)]
  BY DEF SentOn
<1>2. f.dst \in Node /\ f.path \in Seq(Node \cup Relay)
  BY DEF Frame
<1>3. h \in Node \cup Relay
  BY <1>1, <1>2, KeysAssumption
<1>4. /\ Append(f.path, n) \in Seq(Node \cup Relay)
      /\ Len(Append(f.path, n)) = Len(f.path) + 1
  BY <1>2, AppendProperties
<1> QED
  BY <1>1, <1>3, <1>4 DEF Frame

LEMMA TypedInit == Init => Typed
<1> SUFFICES ASSUME Init
             PROVE  Typed
  OBVIOUS
<1>1. [m \in Node |-> NoKey] \in [Node -> SUBSET Pads]
  BY NoKeyType
<1>2. crypto_key \in [Node -> [Node -> SUBSET Pads]]
  BY <1>1 DEF Init
<1>3. MaxFrames[cipher] \in Nat /\ MaxCrashes[cipher] \in Nat
  BY KeysAssumption DEF Init
<1>4. FirstHour \in FirstHour .. LastHour /\ 0 \in 0 .. LastHour /\ 0 \in 0 .. Day
  BY Constants
<1>5. hour \in [Node -> FirstHour .. LastHour]
  BY <1>4 DEF Init
<1>6. /\ time_seed \in [Node -> [Word -> 0 .. LastHour]]
      /\ pf_buffer \in [Node -> [Word -> 0 .. LastHour]]
      /\ now_sec \in [Node -> 0 .. LastHour] /\ noticed \in [Node -> 0 .. LastHour]
      /\ word \in [Node -> Word] /\ pf_word \in [Node -> Word]
      /\ time_seed_update_factor \in [Node -> 0 .. Day]
      /\ save_time_seed_update_factor \in [Node -> 0 .. Day]
  <2>1. TimeSeed(0) \in [Word -> 0 .. LastHour] /\ 1 \in Word
    <3>1. TimeSeed(0) \in [Word -> 0 .. LastHour]
      BY <1>4, TimeSeedType
    <3>2. 1 \in Word
      BY Constants DEF Word
    <3> QED
      BY <3>1, <3>2
  <2>2. time_seed \in [Node -> [Word -> 0 .. LastHour]] /\ word \in [Node -> Word]
    BY <2>1 DEF Init
  <2>3. now_sec \in [Node -> 0 .. LastHour]
    BY <1>4 DEF Init
  <2>4. /\ time_seed_update_factor \in [Node -> 0 .. Day]
        /\ save_time_seed_update_factor \in [Node -> 0 .. Day]
    BY <1>4 DEF Init
  <2>5. pf_buffer = time_seed /\ pf_word = word /\ noticed = now_sec
    BY DEF Init
  <2> QED
    BY <2>2, <2>3, <2>4, <2>5
<1>7. TypeOK
  BY <1>2, <1>3, <1>5, <1>6 DEF Init, TypeOK
<1> QED
  BY <1>7 DEF Init, Typed, TodoInv, FrameInv

(* The frames left, and those sent, are frames that have been sent.        *)
LEMMA SendsOneTyped ==
  ASSUME Typed, NEW frames, NEW rest \in SUBSET net, SendsOne(frames, rest),
         sent' \in Nat, sent <= sent', sent' <= MaxFrames[cipher],
         \A g \in frames : /\ g \in Frame /\ g.src # g.dst /\ g.id \in 1 .. sent'
                           /\ g.ttl >= 1 /\ Len(g.path) + g.ttl <= 3
  PROVE  net' \subseteq Frame /\ FrameInv'
<1>1. \A f \in net' : f \in rest \/ f \in frames
  BY DEF SendsOne
<1>2. \A f \in net : /\ f \in Frame /\ f.src # f.dst /\ f.id \in 1 .. sent'
                     /\ f.ttl >= 1 /\ Len(f.path) + f.ttl <= 3
  BY DEF Typed, TypeOK, FrameInv
<1> QED
  BY <1>1, <1>2 DEF FrameInv

LEMMA TypedStep ==
  ASSUME Typed, [Next]_vars
  PROVE  Typed'
<1> USE DEF Typed
<1>0. /\ 0 \in 0 .. LastHour /\ 0 \in 0 .. Day
      /\ MaxFrames[cipher] \in Nat /\ MaxCrashes[cipher] \in Nat
  BY Constants, KeysAssumption DEF TypeOK
<1>1. ASSUME NEW n \in Node, Tick(n)
      PROVE  Typed'
  <2>1. hour[n] + 1 \in FirstHour .. LastHour
    BY <1>1, Constants DEF Tick, TypeOK
  <2>2. hour' \in [Node -> FirstHour .. LastHour]
    BY <1>1, <2>1 DEF Tick, TypeOK
  <2> QED
    BY <1>1, <2>2 DEF Tick, TypeOK, TodoInv, FrameInv, workervars, keyvars, pfvars,
                      ur1vars
<1>2. ASSUME NEW n \in Node, Start(n)
      PROVE  Typed'
  <2>1. TimeSeed(0) \in [Word -> 0 .. LastHour] /\ Factor(0) \in 0 .. Day /\ 1 \in Word
    <3>1. TimeSeed(0) \in [Word -> 0 .. LastHour]
      BY <1>0, TimeSeedType
    <3>2. Factor(0) \in 0 .. Day
      BY FactorType
    <3>3. 1 \in Word
      BY Constants DEF Word
    <3> QED
      BY <3>1, <3>2, <3>3
  <2>2. hour[n] \in 0 .. LastHour
    BY Constants DEF TypeOK
  <2>3. FirstKeys(n) \in [Node -> SUBSET Pads]
    BY <2>2, TimeSeedType, KeyType, NoKeyType DEF FirstKeys
  <2>4. [m \in Node |-> IF m = n THEN NoKey ELSE Key(n, m, TimeSeed(0))]
          \in [Node -> SUBSET Pads]
    BY <2>1, KeyType, NoKeyType
  <2>5. {crypto_key', pre_crypto_key', arc4_ctx_map'} \subseteq [Node -> [Node -> SUBSET Pads]]
    <3>1. /\ crypto_key \in [Node -> [Node -> SUBSET Pads]]
          /\ pre_crypto_key \in [Node -> [Node -> SUBSET Pads]]
          /\ arc4_ctx_map \in [Node -> [Node -> SUBSET Pads]]
      BY DEF TypeOK
    <3>2. crypto_key' \in [Node -> [Node -> SUBSET Pads]]
      BY <1>2, <2>4, <3>1, KeysPut DEF Start
    <3>3. pre_crypto_key' \in [Node -> [Node -> SUBSET Pads]]
      BY <1>2, <2>3, <3>1, KeysPut DEF Start
    <3>4. arc4_ctx_map' \in [Node -> [Node -> SUBSET Pads]]
      BY <1>2, <2>3, <3>1, KeysPut DEF Start
    <3> QED
      BY <3>2, <3>3, <3>4
  <2>6. /\ time_seed' \in [Node -> [Word -> 0 .. LastHour]]
        /\ pf_buffer' \in [Node -> [Word -> 0 .. LastHour]]
        /\ word' \in [Node -> Word] /\ pf_word' \in [Node -> Word]
    BY <1>2, <2>1 DEF Start, TypeOK
  <2>7. TypeOK'
    BY <1>0, <1>2, <2>1, <2>5, <2>6 DEF Start, TypeOK, ur1vars
  <2>8. TodoInv'
    BY <1>2 DEF Start, TypeOK, TodoInv
  <2>9. FrameInv'
    BY <1>2 DEF Start, FrameInv, ur1vars
  <2> QED
    BY <2>7, <2>8, <2>9
<1>3. ASSUME NEW n \in Node, Crash(n)
      PROVE  Typed'
  <2>1. crashes' \in 0 .. MaxCrashes[cipher]
    BY <1>0, <1>3 DEF Crash, TypeOK
  <2> QED
    BY <1>3, <2>1 DEF Crash, TypeOK, TodoInv, FrameInv, workervars, keyvars, pfvars,
                      ur1vars
<1>4. ASSUME NEW n \in Node, Verify(n)
      PROVE  Typed'
  <2>1. hour[n] \in 0 .. LastHour /\ Factor(hour[n]) \in 0 .. Day
    BY Constants, FactorType DEF TypeOK
  <2> QED
    BY <1>4, <2>1 DEF Verify, TypeOK, TodoInv, FrameInv, keyvars, pfvars, ur1vars
<1>5. ASSUME NEW n \in Node, UpdateTimeSeed(n)
      PROVE  Typed'
  <2>1. /\ Seed(now_sec[n]) \in 0 .. LastHour /\ word[n] \in Word
        /\ time_seed \in [Node -> [Word -> 0 .. LastHour]] /\ word \in [Node -> Word]
    BY SeedType DEF TypeOK
  <2>2. After(word[n]) \in Word
    BY <2>1, AfterType
  <2>3. time_seed' \in [Node -> [Word -> 0 .. LastHour]] /\ word' \in [Node -> Word]
    BY <1>5, <2>1, <2>2 DEF UpdateTimeSeed
  <2>4. /\ todo' \in [Node -> SUBSET Node]
        /\ at' \in [Node -> {"loop", "verified", "seeded", "hashing"}]
    <3>0. /\ todo \in [Node -> SUBSET Node] /\ Node \ {n} \in SUBSET Node
          /\ at \in [Node -> {"loop", "verified", "seeded", "hashing"}]
      BY DEF TypeOK
    <3>1. CASE word[n] = Words
      <4>1. /\ todo' = [todo EXCEPT ![n] = Node \ {n}]
            /\ at' = [at EXCEPT ![n] = "seeded"]
        BY <1>5, <3>1 DEF UpdateTimeSeed
      <4> QED
        BY <3>0, <4>1
    <3>2. CASE word[n] # Words
      BY <1>5, <3>0, <3>2 DEF UpdateTimeSeed
    <3> QED
      BY <3>1, <3>2
  <2>5. TypeOK'
    BY <1>5, <2>3, <2>4 DEF UpdateTimeSeed, TypeOK, keyvars, pfvars, ur1vars
  <2>6. TodoInv'
    <3>1. ASSUME NEW i \in Node
          PROVE  /\ todo'[i] \subseteq Node \ {i}
                 /\ at'[i] = "hashing" => todo'[i] # {}
                 /\ at'[i] \in {"loop", "seeded"} => word'[i] = 1
      <4>1. CASE word[n] = Words
        BY <1>5, <2>1, <4>1, AfterType DEF UpdateTimeSeed, TypeOK, TodoInv
      <4>2. CASE word[n] # Words
        BY <1>5, <2>1, <4>2 DEF UpdateTimeSeed, TypeOK, TodoInv
      <4> QED
        BY <4>1, <4>2
    <3> QED
      BY <1>5, <3>1 DEF UpdateTimeSeed, TodoInv, pfvars
  <2> QED
    BY <1>5, <2>5, <2>6 DEF UpdateTimeSeed, FrameInv, ur1vars
<1>6. ASSUME NEW n \in Node, NEW m \in Node, SetAside(n, m)
      PROVE  pre_crypto_key' \in [Node -> [Node -> SUBSET Pads]]
  <2>1. /\ crypto_key \in [Node -> [Node -> SUBSET Pads]]
        /\ pre_crypto_key \in [Node -> [Node -> SUBSET Pads]]
    BY DEF TypeOK
  <2>2. crypto_key[n][m] \in SUBSET Pads
    BY <2>1
  <2> QED
    BY <1>6, <2>1, <2>2, KeyPut DEF SetAside
<1>8. ASSUME NEW n \in Node, BuildBegins(n)
      PROVE  Typed'
  <2>1. First(todo[n]) \in Node
    BY <1>8, FirstIn DEF BuildBegins, TodoInv
  <2>2. pre_crypto_key' \in [Node -> [Node -> SUBSET Pads]]
    BY <1>6, <1>8, <2>1 DEF BuildBegins
  <2>3. TypeOK'
    BY <1>8, <2>2 DEF BuildBegins, TypeOK, pfvars, ur1vars
  <2>4. TodoInv'
    BY <1>8 DEF BuildBegins, TypeOK, TodoInv, pfvars
  <2> QED
    BY <1>8, <2>3, <2>4 DEF BuildBegins, FrameInv, ur1vars
<1>9. ASSUME NEW n \in Node, BuildWord(n)
      PROVE  Typed'
  <2> DEFINE m == First(todo[n])
  <2>1. m \in todo[n] /\ m \in Node
    BY <1>9, FirstIn DEF BuildWord, TodoInv
  <2>2. /\ word[n] \in Word /\ time_seed[n] \in [Word -> 0 .. LastHour]
        /\ crypto_key \in [Node -> [Node -> SUBSET Pads]] /\ word \in [Node -> Word]
    BY DEF TypeOK
  <2>3. StoreWord(n, m, word[n], time_seed[n])
    BY <1>9 DEF BuildWord
  <2>4. /\ at[n] = "hashing" /\ word' = [word EXCEPT ![n] = After(word[n])]
        /\ word[n] = Words =>
             /\ todo' = [todo EXCEPT ![n] = todo[n] \ {m}]
             /\ at' = [at EXCEPT ![n] = IF todo[n] = {m} THEN "loop" ELSE "seeded"]
             /\ seen' = [seen EXCEPT ![n] =
                           IF todo[n] = {m} THEN seen[n] \cup {now_sec[n]} ELSE seen[n]]
        /\ word[n] # Words => UNCHANGED <<todo, at, seen>>
    BY <1>9 DEF BuildWord
  <2> HIDE DEF m
  <2>5. crypto_key' \in [Node -> [Node -> SUBSET Pads]]
    BY <2>1, <2>2, <2>3, StoreWordDoes
  <2>6. word' \in [Node -> Word]
    BY <2>2, <2>4, AfterType
  <2>7. /\ seen' \in [Node -> SUBSET (0 .. LastHour)] /\ todo' \in [Node -> SUBSET Node]
        /\ at' \in [Node -> {"loop", "verified", "seeded", "hashing"}]
    <3>1. /\ seen \in [Node -> SUBSET (0 .. LastHour)] /\ now_sec[n] \in 0 .. LastHour
          /\ todo \in [Node -> SUBSET Node]
          /\ at \in [Node -> {"loop", "verified", "seeded", "hashing"}]
      BY DEF TypeOK
    <3>2. CASE word[n] = Words
      <4>1. seen[n] \cup {now_sec[n]} \in SUBSET (0 .. LastHour)
        BY <3>1
      <4>2. todo[n] \ {m} \in SUBSET Node
        BY <3>1
      <4> QED
        BY <2>4, <3>1, <3>2, <4>1, <4>2
    <3>3. CASE word[n] # Words
      BY <2>4, <3>1, <3>3
    <3> QED
      BY <3>2, <3>3
  <2>8. TypeOK'
    BY <1>9, <2>5, <2>6, <2>7 DEF BuildWord, TypeOK, pfvars, ur1vars
  <2>9. ASSUME NEW i \in Node
        PROVE  /\ todo'[i] \subseteq Node \ {i}
               /\ at'[i] = "hashing" => todo'[i] # {}
               /\ at'[i] \in {"loop", "seeded"} => word'[i] = 1
    <3>1. CASE word[n] = Words
      BY <2>2, <2>4, <3>1, AfterType DEF TypeOK, TodoInv
    <3>2. CASE word[n] # Words
      BY <2>2, <2>4, <3>2 DEF TypeOK, TodoInv
    <3> QED
      BY <3>1, <3>2
  <2>10. TodoInv'
    BY <1>9, <2>9 DEF BuildWord, TodoInv, pfvars
  <2> QED
    BY <1>9, <2>8, <2>10 DEF BuildWord, FrameInv, ur1vars
<1>10. ASSUME NEW n \in Node, PfNotices(n)
       PROVE  Typed'
  <2>1. hour[n] \in 0 .. LastHour
    BY Constants DEF TypeOK
  <2> QED
    BY <1>10, <2>1 DEF PfNotices, TypeOK, TodoInv, FrameInv, workervars, keyvars, ur1vars
<1>11. ASSUME NEW n \in Node, PfBuildBegins(n)
       PROVE  Typed'
  <2>1. First(pf_todo[n]) \in Node
    BY <1>11, FirstIn DEF PfBuildBegins, TodoInv
  <2>2. /\ pf_word[n] \in Word /\ pf_word \in [Node -> Word]
        /\ time_seed[n][pf_word[n]] \in 0 .. LastHour
        /\ pf_buffer \in [Node -> [Word -> 0 .. LastHour]]
    BY DEF TypeOK
  <2>3. /\ pf_at[n] = "building" /\ pf_todo[n] # {}
        /\ pf_word' = [pf_word EXCEPT ![n] = After(pf_word[n])]
        /\ pf_word[n] = Words => /\ SetAside(n, First(pf_todo[n]))
                                 /\ pf_at' = [pf_at EXCEPT ![n] = "hashing"]
        /\ pf_word[n] # Words => UNCHANGED <<pre_crypto_key, pf_at>>
    BY <1>11 DEF PfBuildBegins
  <2>4. pre_crypto_key' \in [Node -> [Node -> SUBSET Pads]]
    BY <1>6, <2>1, <2>3 DEF TypeOK
  <2>5. pf_word' \in [Node -> Word]
    BY <2>2, <2>3, AfterType
  <2>6. pf_buffer' \in [Node -> [Word -> 0 .. LastHour]]
    BY <1>11, <2>2 DEF PfBuildBegins
  <2>7. pf_at' \in [Node -> {"packets", "building", "hashing", "boxing"}]
    <3>1. pf_at \in [Node -> {"packets", "building", "hashing", "boxing"}]
      BY DEF TypeOK
    <3>2. pf_at' = pf_at \/ pf_at' = [pf_at EXCEPT ![n] = "hashing"]
      BY <2>3
    <3> QED
      BY ONLY <3>1, <3>2
  <2>8. TypeOK'
    BY <1>11, <2>4, <2>5, <2>6, <2>7 DEF PfBuildBegins, TypeOK, workervars, ur1vars
  <2>9. ASSUME NEW i \in Node
        PROVE  /\ pf_at'[i] \in {"hashing", "boxing"} => pf_todo[i] # {}
               /\ pf_at'[i] \in {"packets", "boxing"} => pf_word'[i] = 1
    <3>1. CASE pf_word[n] = Words
      BY <2>2, <2>3, <3>1, AfterType DEF TypeOK, TodoInv
    <3>2. CASE pf_word[n] # Words
      BY <2>2, <2>3, <3>2 DEF TypeOK, TodoInv
    <3> QED
      BY <3>1, <3>2
  <2>10. TodoInv'
    BY <1>11, <2>9 DEF PfBuildBegins, TodoInv, workervars
  <2> QED
    BY <1>11, <2>8, <2>10 DEF PfBuildBegins, FrameInv, ur1vars
<1>12. ASSUME NEW n \in Node, PfBuildWord(n)
       PROVE  Typed'
  <2>1. First(pf_todo[n]) \in Node
    BY <1>12, FirstIn DEF PfBuildWord, TodoInv
  <2>2. /\ pf_word[n] \in Word /\ pf_word \in [Node -> Word]
        /\ pf_buffer[n] \in [Word -> 0 .. LastHour]
        /\ pf_buffer \in [Node -> [Word -> 0 .. LastHour]]
        /\ crypto_key \in [Node -> [Node -> SUBSET Pads]]
    BY DEF TypeOK
  <2>3. /\ pf_at[n] = "hashing" /\ StoreWord(n, First(pf_todo[n]), pf_word[n], pf_buffer[n])
        /\ pf_word' = [pf_word EXCEPT ![n] = After(pf_word[n])]
        /\ pf_word[n] = Words => /\ pf_buffer' = [pf_buffer EXCEPT ![n] = TimeSeed(0)]
                                 /\ pf_at' = [pf_at EXCEPT ![n] = "boxing"]
        /\ pf_word[n] # Words => UNCHANGED <<pf_buffer, pf_at>>
    BY <1>12 DEF PfBuildWord
  <2>4. crypto_key' \in [Node -> [Node -> SUBSET Pads]]
    BY <2>1, <2>2, <2>3, StoreWordDoes
  <2>5. pf_word' \in [Node -> Word]
    BY <2>2, <2>3, AfterType
  <2>6. pf_buffer' \in [Node -> [Word -> 0 .. LastHour]]
    BY <1>0, <2>2, <2>3, TimeSeedType
  <2>7. pf_at' \in [Node -> {"packets", "building", "hashing", "boxing"}]
    <3>1. pf_at \in [Node -> {"packets", "building", "hashing", "boxing"}]
      BY DEF TypeOK
    <3>2. pf_at' = pf_at \/ pf_at' = [pf_at EXCEPT ![n] = "boxing"]
      BY <2>3
    <3> QED
      BY ONLY <3>1, <3>2
  <2>8. TypeOK'
    BY <1>12, <2>4, <2>5, <2>6, <2>7 DEF PfBuildWord, TypeOK, workervars, ur1vars
  <2>9. ASSUME NEW i \in Node
        PROVE  /\ pf_at'[i] \in {"hashing", "boxing"} => pf_todo[i] # {}
               /\ pf_at'[i] \in {"packets", "boxing"} => pf_word'[i] = 1
    <3>1. CASE pf_word[n] = Words
      BY <2>2, <2>3, <3>1, AfterType DEF TypeOK, TodoInv
    <3>2. CASE pf_word[n] # Words
      BY <2>2, <2>3, <3>2 DEF TypeOK, TodoInv
    <3> QED
      BY <3>1, <3>2
  <2>10. TodoInv'
    BY <1>12, <2>9 DEF PfBuildWord, TodoInv, workervars
  <2> QED
    BY <1>12, <2>8, <2>10 DEF PfBuildWord, FrameInv, ur1vars
<1>13. ASSUME NEW n \in Node, PfBoxes(n)
       PROVE  Typed'
  <2>1. First(pf_todo[n]) \in Node
    BY <1>13, FirstIn DEF PfBoxes, TodoInv
  <2>2. crypto_key[n][First(pf_todo[n])] \in SUBSET Pads
    BY <2>1 DEF TypeOK
  <2>3. arc4_ctx_map' \in [Node -> [Node -> SUBSET Pads]]
    BY <1>13, <2>1, <2>2, KeyPut DEF PfBoxes, TypeOK
  <2>4. TypeOK'
    BY <1>13, <2>3 DEF PfBoxes, TypeOK, workervars, keyvars, ur1vars
  <2> QED
    <3>1. /\ pf_at[n] = "boxing" /\ pf_at'[n] \in {"packets", "building"}
          /\ \A i \in Node \ {n} : pf_at'[i] = pf_at[i] /\ pf_todo'[i] = pf_todo[i]
          /\ \A i \in Node : pf_todo'[i] \subseteq pf_todo[i]
      BY <1>13 DEF PfBoxes, TypeOK
    <3>2. TodoInv'
      BY <1>13, <3>1 DEF PfBoxes, TodoInv, workervars
    <3> QED
      BY <1>13, <2>4, <3>2 DEF PfBoxes, FrameInv, ur1vars
<1>14. ASSUME NEW n \in Node, NEW d \in Node, FromApp(n, d)
       PROVE  Typed'
  <2> DEFINE f == [id |-> sent + 1, src |-> n, dst |-> d, ttl |-> 2,
                   layers |-> crypto_key[n][d], hour |-> now_sec[n],
                   to |-> n, path |-> <<>>]
  <2>1. sent' \in 0 .. MaxFrames[cipher] /\ sent' = sent + 1 /\ sent \in Nat
    <3>1. sent \in 0 .. MaxFrames[cipher]
      BY DEF TypeOK
    <3>2. sent' = sent + 1 /\ sent < MaxFrames[cipher]
      BY <1>14 DEF FromApp
    <3> QED
      BY <1>0, <3>1, <3>2
  <2>2. crypto_key[n][d] \in SUBSET Pads /\ now_sec[n] \in Nat
    BY Constants DEF TypeOK
  <2>3. f \in Frame
    BY <2>1, <2>2 DEF Frame
  <2>4. \A g \in SentOn(n, f) :
          /\ g \in Frame /\ g.src # g.dst /\ g.id \in 1 .. sent'
          /\ g.ttl >= 1 /\ Len(g.path) + g.ttl <= 3
    BY <1>14, <2>1, <2>3, SentOnType DEF FromApp
  <2>5. SendsOne(SentOn(n, f), net)
    BY <1>14 DEF FromApp
  <2> HIDE DEF f
  <2>6. net' \subseteq Frame /\ FrameInv'
    BY <2>1, <2>4, <2>5, SendsOneTyped
  <2>7. TypeOK'
    BY <1>14, <2>1, <2>6 DEF FromApp, TypeOK, workervars, keyvars, pfvars
  <2> QED
    BY <1>14, <2>6, <2>7 DEF FromApp, TodoInv, workervars, pfvars
<1>15. ASSUME NEW f \in net, FromNode(f)
       PROVE  Typed'
  <2>1. f \in Frame /\ f.id \in 1 .. sent /\ sent \in 0 .. MaxFrames[cipher]
    BY DEF TypeOK, FrameInv
  <2>2. sent' = sent /\ received' \subseteq 1 .. MaxFrames[cipher]
    <3>1. f.id \in 1 .. MaxFrames[cipher] /\ received \subseteq 1 .. MaxFrames[cipher]
      BY <1>0, <2>1 DEF TypeOK
    <3>2. received' = received \/ received' = received \cup {f.id}
      BY <1>15 DEF FromNode
    <3> QED
      BY <1>15, <3>1, <3>2 DEF FromNode
  <2>3. net' \subseteq Frame /\ FrameInv'
    <3>1. CASE f.to = f.dst
      BY <1>15, <2>2, <3>1 DEF FromNode, TypeOK, FrameInv
    <3>2. CASE f.to # f.dst
      <4>1. SendsOne(Relayed(f.to, f), net \ {f})
        BY <1>15, <3>2 DEF FromNode
      <4>2. f.to \in Node \cup Relay /\ f.ttl \in Nat
        BY <2>1 DEF Frame
      <4>3. ASSUME NEW g \in Relayed(f.to, f)
            PROVE  /\ g \in Frame /\ g.src # g.dst /\ g.id \in 1 .. sent'
                   /\ g.ttl >= 1 /\ Len(g.path) + g.ttl <= 3
        <5> DEFINE h == [f EXCEPT !.ttl = @ - 1]
        <5>1. f.ttl > 1 /\ g \in SentOn(f.to, h)
          BY <4>3 DEF Relayed
        <5>2. /\ h \in Frame /\ h.id = f.id /\ h.src = f.src /\ h.dst = f.dst
              /\ h.ttl = f.ttl - 1 /\ h.path = f.path
          BY <2>1, <4>2, <5>1 DEF Frame
        <5> HIDE DEF h
        <5>3. Len(f.path) + f.ttl <= 3 /\ f.src # f.dst
          BY DEF FrameInv
        <5>4. Len(f.path) \in Nat
          BY <2>1, LenProperties DEF Frame
        <5> QED
          BY <2>1, <2>2, <4>2, <5>1, <5>2, <5>3, <5>4, SentOnType
      <4> QED
        BY <1>0, <2>1, <2>2, <4>1, <4>3, SendsOneTyped
    <3> QED
      BY <3>1, <3>2
  <2>4. TypeOK'
    BY <1>15, <2>1, <2>2, <2>3 DEF FromNode, TypeOK, workervars, keyvars, pfvars
  <2> QED
    BY <1>15, <2>3, <2>4 DEF FromNode, TodoInv, workervars, pfvars
<1>16. CASE UNCHANGED vars
  BY <1>16 DEF vars, TypeOK, TodoInv, FrameInv, workervars, keyvars, pfvars, ur1vars
<1> QED
  BY <1>1, <1>2, <1>3, <1>4, <1>5, <1>8, <1>9, <1>10, <1>11, <1>12, <1>13, <1>14,
     <1>15, <1>16 DEF Next, NodeWorker, PacketFilter

-----------------------------------------------------------------------------
(* What a step does to a node: nothing, unless it is a step of the node.   *)

ClockSame(i) == up'[i] = up[i] /\ hour'[i] = hour[i]
WorkerSame(i) ==
  /\ time_seed'[i] = time_seed[i]
  /\ time_seed_update_factor'[i] = time_seed_update_factor[i]
  /\ now_sec'[i] = now_sec[i] /\ at'[i] = at[i] /\ word'[i] = word[i]
  /\ todo'[i] = todo[i] /\ seen'[i] = seen[i]
KeysSame(i) == crypto_key'[i] = crypto_key[i] /\ pre_crypto_key'[i] = pre_crypto_key[i]
FilterSame(i) ==
  /\ save_time_seed_update_factor'[i] = save_time_seed_update_factor[i]
  /\ arc4_ctx_map'[i] = arc4_ctx_map[i] /\ pf_at'[i] = pf_at[i]
  /\ pf_word'[i] = pf_word[i] /\ pf_todo'[i] = pf_todo[i]
  /\ pf_buffer'[i] = pf_buffer[i] /\ noticed'[i] = noticed[i]
OverlapSame(i) == overlapped'[i] = overlapped[i]

Same(i) ==
  ClockSame(i) /\ WorkerSame(i) /\ KeysSame(i) /\ FilterSame(i) /\ OverlapSame(i)

LEMMA OthersSame ==
  ASSUME Typed, NEW n \in Node, NEW i \in Node \ {n},
         \/ Tick(n) \/ Start(n) \/ Crash(n) \/ NodeWorker(n) \/ PacketFilter(n)
  PROVE  Same(i)
<1> USE DEF Same, ClockSame, WorkerSame, KeysSame, FilterSame, OverlapSame
<1>1. CASE Tick(n)
  BY <1>1 DEF Tick, Typed, TypeOK, workervars, keyvars, pfvars
<1>2. CASE Start(n)
  BY <1>2 DEF Start, Typed, TypeOK
<1>3. CASE Crash(n)
  BY <1>3 DEF Crash, Typed, TypeOK, workervars, keyvars, pfvars
<1>4. CASE Verify(n)
  BY <1>4 DEF Verify, Typed, TypeOK, keyvars, pfvars
<1>5. CASE UpdateTimeSeed(n)
  BY <1>5 DEF UpdateTimeSeed, Typed, TypeOK, keyvars, pfvars
<1>6. CASE BuildBegins(n)
  BY <1>6 DEF BuildBegins, SetAside, Typed, TypeOK, pfvars
<1>7. CASE BuildWord(n)
  BY <1>7 DEF BuildWord, StoreWord, Typed, TypeOK, pfvars
<1>8. CASE PfNotices(n)
  BY <1>8 DEF PfNotices, Typed, TypeOK, workervars, keyvars
<1>9. CASE PfBuildBegins(n)
  BY <1>9 DEF PfBuildBegins, SetAside, Typed, TypeOK, workervars
<1>10. CASE PfBuildWord(n)
  BY <1>10 DEF PfBuildWord, StoreWord, Typed, TypeOK, workervars
<1>11. CASE PfBoxes(n)
  BY <1>11 DEF PfBoxes, Typed, TypeOK, workervars, keyvars
<1> QED
  BY <1>1, <1>2, <1>3, <1>4, <1>5, <1>6, <1>7, <1>8, <1>9, <1>10, <1>11
  DEF NodeWorker, PacketFilter

LEMMA Moves ==
  ASSUME Typed, [Next]_vars, NEW i \in Node, up'[i]
  PROVE  \/ Same(i) /\ up[i]
         \/ Tick(i) /\ up[i]
         \/ Start(i) \/ NodeWorker(i) \/ PacketFilter(i)
<1>1. ASSUME NEW n \in Node,
             Tick(n) \/ Start(n) \/ Crash(n) \/ NodeWorker(n) \/ PacketFilter(n)
      PROVE  \/ Same(i) /\ up[i]
             \/ Tick(i) /\ up[i]
         \/ Start(i) \/ NodeWorker(i) \/ PacketFilter(i)
  <2>1. CASE n # i
    BY <1>1, <2>1, OthersSame DEF Same, ClockSame
  <2>2. CASE n = i
    <3>1. ~Crash(n)
      BY <2>2 DEF Crash, Typed, TypeOK
    <3>2. Tick(n) => up[n]
      BY <2>2 DEF Tick
    <3> QED
      BY <1>1, <2>2, <3>1, <3>2
  <2> QED
    BY <2>1, <2>2
<1>2. CASE \/ \E n, d \in Node : FromApp(n, d)
           \/ \E f \in net : FromNode(f)
           \/ UNCHANGED vars
  <2>1. UNCHANGED <<hour, up, workervars, keyvars, pfvars, overlapped>>
    BY <1>2 DEF FromApp, FromNode, vars
  <2> QED
    BY <2>1 DEF Same, ClockSame, WorkerSame, KeysSame, FilterSame, OverlapSame,
                workervars, keyvars, pfvars
<1> QED
  BY <1>1, <1>2 DEF Next

(* The steps of the node.                                                  *)
LEMMA TickDoes ==
  ASSUME Typed, NEW n \in Node, Tick(n)
  PROVE  /\ hour'[n] = hour[n] + 1
         /\ up[n] => ~Due(n) /\ at[n] = "loop" /\ pf_at[n] = "packets"
         /\ WorkerSame(n) /\ KeysSame(n) /\ FilterSame(n) /\ OverlapSame(n)
BY DEF Tick, Typed, TypeOK, workervars, keyvars, pfvars, WorkerSame, KeysSame,
       FilterSame, OverlapSame

LEMMA StartDoes ==
  ASSUME Typed, NEW n \in Node, Start(n)
  PROVE  /\ at'[n] = "loop" /\ todo'[n] = {} /\ seen'[n] = {} /\ word'[n] = 1
         /\ time_seed'[n] = TimeSeed(0) /\ hour'[n] = hour[n] /\ noticed'[n] = 0
         /\ pf_at'[n] = "packets" /\ overlapped'[n] = FALSE
BY DEF Start, Typed, TypeOK

LEMMA VerifyDoes ==
  ASSUME Typed, NEW n \in Node, Verify(n)
  PROVE  /\ up[n] /\ at[n] = "loop" /\ Due(n) /\ at'[n] = "verified"
         /\ now_sec'[n] = hour[n] /\ hour'[n] = hour[n]
         /\ time_seed_update_factor'[n] = Factor(hour[n])
         /\ overlapped'[n] = (pf_at[n] # "packets")
         /\ time_seed'[n] = time_seed[n] /\ todo'[n] = todo[n] /\ word'[n] = word[n]
         /\ seen'[n] = seen[n] /\ KeysSame(n) /\ FilterSame(n)
<1>1. overlapped'[n] = (pf_at[n] # "packets")
  BY Zenon DEF Verify, Typed, TypeOK
<1> QED
  BY <1>1 DEF Verify, Typed, TypeOK, keyvars, pfvars, KeysSame, FilterSame

LEMMA UpdateTimeSeedDoes ==
  ASSUME Typed, NEW n \in Node, UpdateTimeSeed(n)
  PROVE  /\ up[n] /\ at[n] = "verified" /\ word[n] \in Word
         /\ time_seed'[n][word[n]] = Seed(now_sec[n])
         /\ \A w \in Word \ {word[n]} : time_seed'[n][w] = time_seed[n][w]
         /\ word[n] = Words => at'[n] = "seeded" /\ todo'[n] = Node \ {n}
         /\ word[n] # Words => /\ at'[n] = "verified" /\ todo'[n] = todo[n]
                               /\ word'[n] = word[n] + 1
         /\ hour'[n] = hour[n] /\ now_sec'[n] = now_sec[n] /\ seen'[n] = seen[n]
         /\ time_seed_update_factor'[n] = time_seed_update_factor[n]
         /\ KeysSame(n) /\ FilterSame(n) /\ OverlapSame(n)
<1>1. /\ word[n] \in Word /\ time_seed \in [Node -> [Word -> 0 .. LastHour]]
      /\ word \in [Node -> Word] /\ todo \in [Node -> SUBSET Node]
      /\ at \in [Node -> {"loop", "verified", "seeded", "hashing"}]
  BY DEF Typed, TypeOK
<1>2. /\ time_seed' = [time_seed EXCEPT ![n][word[n]] = Seed(now_sec[n])]
      /\ word' = [word EXCEPT ![n] = After(word[n])]
      /\ word[n] = Words => /\ todo' = [todo EXCEPT ![n] = Node \ {n}]
                            /\ at' = [at EXCEPT ![n] = "seeded"]
      /\ word[n] # Words => UNCHANGED <<todo, at>>
      /\ at[n] = "verified" /\ up[n]
  BY DEF UpdateTimeSeed
<1>3. /\ time_seed'[n][word[n]] = Seed(now_sec[n])
      /\ \A w \in Word \ {word[n]} : time_seed'[n][w] = time_seed[n][w]
  BY <1>1, <1>2
<1>4. /\ word[n] = Words => at'[n] = "seeded" /\ todo'[n] = Node \ {n}
      /\ word[n] # Words => at'[n] = "verified" /\ todo'[n] = todo[n]
  BY <1>1, <1>2
<1>5. word[n] # Words => word'[n] = word[n] + 1
  BY <1>1, <1>2, AfterType
<1>6. /\ hour'[n] = hour[n] /\ now_sec'[n] = now_sec[n] /\ seen'[n] = seen[n]
      /\ time_seed_update_factor'[n] = time_seed_update_factor[n]
      /\ KeysSame(n) /\ FilterSame(n) /\ OverlapSame(n)
  BY DEF UpdateTimeSeed, keyvars, pfvars, KeysSame, FilterSame, OverlapSame
<1> QED
  BY <1>1, <1>2, <1>3, <1>4, <1>5, <1>6

LEMMA BuildBeginsDoes ==
  ASSUME Typed, NEW n \in Node, BuildBegins(n)
  PROVE  /\ up[n] /\ at[n] = "seeded" /\ at'[n] = "hashing" /\ word[n] = 1
         /\ First(todo[n]) \in todo[n] /\ First(todo[n]) \in Node
         /\ pre_crypto_key'[n][First(todo[n])] = crypto_key[n][First(todo[n])]
         /\ \A m \in Node \ {First(todo[n])} : pre_crypto_key'[n][m] = pre_crypto_key[n][m]
         /\ crypto_key'[n] = crypto_key[n]
         /\ time_seed'[n] = time_seed[n] /\ hour'[n] = hour[n] /\ now_sec'[n] = now_sec[n]
         /\ time_seed_update_factor'[n] = time_seed_update_factor[n]
         /\ word'[n] = word[n] /\ todo'[n] = todo[n] /\ seen'[n] = seen[n]
         /\ FilterSame(n) /\ OverlapSame(n)
<1>1. First(todo[n]) \in todo[n] /\ First(todo[n]) \in Node /\ word[n] = 1
  BY FirstIn DEF BuildBegins, Typed, TodoInv
<1>2. /\ pre_crypto_key'[n][First(todo[n])] = crypto_key[n][First(todo[n])]
      /\ \A m \in Node \ {First(todo[n])} : pre_crypto_key'[n][m] = pre_crypto_key[n][m]
  BY <1>1 DEF BuildBegins, SetAside, Typed, TypeOK
<1> QED
  BY <1>1, <1>2 DEF BuildBegins, Typed, TypeOK, pfvars, FilterSame, OverlapSame

(* One word of the key for the first node that is left, the last one or    *)
(* not; and then it was the last node or not.                              *)
LEMMA BuildWordDoes ==
  ASSUME Typed, NEW n \in Node, NEW m, m = First(todo[n]), BuildWord(n)
  PROVE  /\ up[n] /\ at[n] = "hashing" /\ m \in todo[n] /\ m \in Node /\ word[n] \in Word
         /\ StoreWord(n, m, word[n], time_seed[n])
         /\ word[n] = Words => todo'[n] = todo[n] \ {m}
         /\ word[n] = Words /\ todo[n] = {m} =>
              at'[n] = "loop" /\ seen'[n] = seen[n] \cup {now_sec[n]}
         /\ word[n] = Words /\ todo[n] # {m} => at'[n] = "seeded" /\ seen'[n] = seen[n]
         /\ word[n] # Words =>
              /\ at'[n] = "hashing" /\ todo'[n] = todo[n] /\ seen'[n] = seen[n]
              /\ word'[n] = word[n] + 1
         /\ pre_crypto_key' = pre_crypto_key
         /\ time_seed'[n] = time_seed[n] /\ hour'[n] = hour[n] /\ now_sec'[n] = now_sec[n]
         /\ time_seed_update_factor'[n] = time_seed_update_factor[n]
         /\ FilterSame(n) /\ OverlapSame(n)
<1>1. /\ at[n] = "hashing" /\ up[n] /\ word' = [word EXCEPT ![n] = After(word[n])]
      /\ StoreWord(n, m, word[n], time_seed[n])
      /\ word[n] = Words =>
           /\ todo' = [todo EXCEPT ![n] = todo[n] \ {m}]
           /\ at' = [at EXCEPT ![n] = IF todo[n] = {m} THEN "loop" ELSE "seeded"]
           /\ seen' = [seen EXCEPT ![n] =
                         IF todo[n] = {m} THEN seen[n] \cup {now_sec[n]} ELSE seen[n]]
      /\ word[n] # Words => UNCHANGED <<todo, at, seen>>
  BY DEF BuildWord
<1>2. /\ word[n] \in Word /\ word \in [Node -> Word] /\ todo \in [Node -> SUBSET Node]
      /\ at \in [Node -> {"loop", "verified", "seeded", "hashing"}]
      /\ seen \in [Node -> SUBSET (0 .. LastHour)]
  BY DEF Typed, TypeOK
<1>3. m \in todo[n] /\ m \in Node
  BY <1>1, FirstIn DEF Typed, TodoInv
<1>4. word[n] # Words => word'[n] = word[n] + 1
  BY <1>1, <1>2, AfterType
<1>5. /\ word[n] = Words => todo'[n] = todo[n] \ {m}
      /\ word[n] # Words => at'[n] = "hashing" /\ todo'[n] = todo[n] /\ seen'[n] = seen[n]
  BY <1>1, <1>2
<1>6. /\ word[n] = Words /\ todo[n] = {m} =>
           at'[n] = "loop" /\ seen'[n] = seen[n] \cup {now_sec[n]}
      /\ word[n] = Words /\ todo[n] # {m} => at'[n] = "seeded" /\ seen'[n] = seen[n]
  BY <1>1, <1>2
<1>7. /\ pre_crypto_key' = pre_crypto_key
      /\ time_seed'[n] = time_seed[n] /\ hour'[n] = hour[n] /\ now_sec'[n] = now_sec[n]
      /\ time_seed_update_factor'[n] = time_seed_update_factor[n]
      /\ FilterSame(n) /\ OverlapSame(n)
  BY DEF BuildWord, pfvars, FilterSame, OverlapSame
<1> QED
  BY <1>1, <1>2, <1>3, <1>4, <1>5, <1>6, <1>7

LEMMA PacketFilterDoes ==
  ASSUME Typed, NEW n \in Node, PacketFilter(n)
  PROVE  up[n] /\ cipher' = cipher /\ ClockSame(n) /\ WorkerSame(n)
<1> USE DEF ClockSame, WorkerSame, workervars, keyvars
<1>1. CASE PfNotices(n)
  BY <1>1 DEF PfNotices
<1>2. CASE PfBuildBegins(n)
  BY <1>2 DEF PfBuildBegins
<1>3. CASE PfBuildWord(n)
  BY <1>3 DEF PfBuildWord
<1>4. CASE PfBoxes(n)
  BY <1>4 DEF PfBoxes
<1> QED
  BY <1>1, <1>2, <1>3, <1>4 DEF PacketFilter

LEMMA PfNoticesDoes ==
  ASSUME Typed, NEW n \in Node, PfNotices(n)
  PROVE  /\ cipher = "arc4" /\ pf_at[n] = "packets" /\ pf_at'[n] = "building"
         /\ pf_word[n] = 1 /\ pf_word'[n] = 1 /\ pf_todo'[n] = Node \ {n}
         /\ save_time_seed_update_factor[n] # time_seed_update_factor[n]
         /\ save_time_seed_update_factor'[n] = time_seed_update_factor[n]
         /\ overlapped[n] \/ at[n] # "loop" => overlapped'[n]
         /\ ~overlapped[n] /\ at[n] = "loop" => ~overlapped'[n]
         /\ noticed'[n] = hour[n]
         /\ KeysSame(n) /\ pf_buffer'[n] = pf_buffer[n]
<1>1. overlapped'[n] = (overlapped[n] \/ at[n] # "loop")
  BY Zenon DEF PfNotices, Typed, TypeOK
<1>2. /\ cipher = "arc4" /\ pf_at[n] = "packets" /\ pf_at'[n] = "building"
      /\ pf_todo'[n] = Node \ {n}
      /\ save_time_seed_update_factor[n] # time_seed_update_factor[n]
      /\ save_time_seed_update_factor'[n] = time_seed_update_factor[n]
      /\ noticed'[n] = hour[n]
      /\ KeysSame(n) /\ pf_buffer'[n] = pf_buffer[n] /\ pf_word' = pf_word
  BY DEF PfNotices, Typed, TypeOK, keyvars, KeysSame
<1>3. pf_word[n] = 1
  BY <1>2 DEF Typed, TodoInv
<1> QED
  BY <1>1, <1>2, <1>3

LEMMA PfBuildBeginsDoes ==
  ASSUME Typed, NEW n \in Node, PfBuildBegins(n)
  PROVE  /\ pf_at[n] = "building" /\ pf_word[n] \in Word
         /\ pf_buffer'[n][pf_word[n]] = time_seed[n][pf_word[n]]
         /\ \A w \in Word \ {pf_word[n]} : pf_buffer'[n][w] = pf_buffer[n][w]
         /\ pf_word[n] = Words => pf_at'[n] = "hashing" /\ pf_word'[n] = 1
         /\ pf_word[n] # Words => pf_at'[n] = "building" /\ pf_word'[n] = pf_word[n] + 1
         /\ crypto_key'[n] = crypto_key[n] /\ arc4_ctx_map'[n] = arc4_ctx_map[n]
         /\ save_time_seed_update_factor'[n] = save_time_seed_update_factor[n]
         /\ pf_todo'[n] = pf_todo[n] /\ noticed'[n] = noticed[n] /\ OverlapSame(n)
<1>1. /\ pf_word[n] \in Word /\ pf_word \in [Node -> Word]
      /\ pf_buffer \in [Node -> [Word -> 0 .. LastHour]]
      /\ pf_at \in [Node -> {"packets", "building", "hashing", "boxing"}]
  BY DEF Typed, TypeOK
<1>2. /\ pf_at[n] = "building" /\ pf_word' = [pf_word EXCEPT ![n] = After(pf_word[n])]
      /\ pf_buffer' = [pf_buffer EXCEPT ![n][pf_word[n]] = time_seed[n][pf_word[n]]]
      /\ pf_word[n] = Words => pf_at' = [pf_at EXCEPT ![n] = "hashing"]
      /\ pf_word[n] # Words => pf_at' = pf_at
  BY DEF PfBuildBegins
<1>3. /\ pf_buffer'[n][pf_word[n]] = time_seed[n][pf_word[n]]
      /\ \A w \in Word \ {pf_word[n]} : pf_buffer'[n][w] = pf_buffer[n][w]
  BY <1>1, <1>2
<1>4. /\ pf_word[n] = Words => pf_at'[n] = "hashing" /\ pf_word'[n] = 1
      /\ pf_word[n] # Words => pf_at'[n] = "building" /\ pf_word'[n] = pf_word[n] + 1
  BY <1>1, <1>2, AfterType
<1>5. /\ crypto_key'[n] = crypto_key[n] /\ arc4_ctx_map'[n] = arc4_ctx_map[n]
      /\ save_time_seed_update_factor'[n] = save_time_seed_update_factor[n]
      /\ pf_todo'[n] = pf_todo[n] /\ noticed'[n] = noticed[n] /\ OverlapSame(n)
  BY DEF PfBuildBegins, OverlapSame
<1> QED
  BY <1>1, <1>2, <1>3, <1>4, <1>5

LEMMA PfBuildWordDoes ==
  ASSUME Typed, NEW n \in Node, PfBuildWord(n)
  PROVE  /\ pf_at[n] = "hashing" /\ pf_word[n] \in Word /\ First(pf_todo[n]) \in Node
         /\ StoreWord(n, First(pf_todo[n]), pf_word[n], pf_buffer[n])
         /\ pf_word[n] = Words => pf_at'[n] = "boxing"
         /\ pf_word[n] # Words => pf_at'[n] = "hashing" /\ pf_buffer'[n] = pf_buffer[n]
         /\ arc4_ctx_map'[n] = arc4_ctx_map[n]
         /\ save_time_seed_update_factor'[n] = save_time_seed_update_factor[n]
         /\ pf_todo'[n] = pf_todo[n] /\ noticed'[n] = noticed[n] /\ OverlapSame(n)
<1>1. First(pf_todo[n]) \in Node
  BY FirstIn DEF PfBuildWord, Typed, TodoInv
<1>2. /\ pf_word[n] \in Word
      /\ pf_at \in [Node -> {"packets", "building", "hashing", "boxing"}]
  BY DEF Typed, TypeOK
<1>3. /\ pf_at[n] = "hashing"
      /\ StoreWord(n, First(pf_todo[n]), pf_word[n], pf_buffer[n])
      /\ pf_word[n] = Words => pf_at' = [pf_at EXCEPT ![n] = "boxing"]
      /\ pf_word[n] # Words => pf_at' = pf_at /\ pf_buffer' = pf_buffer
  BY DEF PfBuildWord
<1>4. /\ arc4_ctx_map'[n] = arc4_ctx_map[n]
      /\ save_time_seed_update_factor'[n] = save_time_seed_update_factor[n]
      /\ pf_todo'[n] = pf_todo[n] /\ noticed'[n] = noticed[n] /\ OverlapSame(n)
  BY DEF PfBuildWord, OverlapSame
<1> QED
  BY <1>1, <1>2, <1>3, <1>4

LEMMA PfBoxesDoes ==
  ASSUME Typed, NEW n \in Node, NEW m, m = First(pf_todo[n]), PfBoxes(n)
  PROVE  /\ pf_at[n] = "boxing" /\ m \in Node
         /\ arc4_ctx_map'[n][m] = crypto_key[n][m]
         /\ \A j \in Node \ {m} : arc4_ctx_map'[n][j] = arc4_ctx_map[n][j]
         /\ pf_todo'[n] = pf_todo[n] \ {m}
         /\ pf_todo[n] = {m} => pf_at'[n] = "packets"
         /\ pf_todo[n] # {m} => pf_at'[n] = "building" /\ pf_word[n] = 1 /\ pf_word'[n] = 1
         /\ KeysSame(n) /\ noticed'[n] = noticed[n] /\ OverlapSame(n)
         /\ save_time_seed_update_factor'[n] = save_time_seed_update_factor[n]
<1>1. m \in Node /\ pf_word[n] = 1
  BY FirstIn DEF PfBoxes, Typed, TodoInv
<1>2. /\ arc4_ctx_map'[n][m] = crypto_key[n][m]
      /\ \A j \in Node \ {m} : arc4_ctx_map'[n][j] = arc4_ctx_map[n][j]
  BY <1>1 DEF PfBoxes, Typed, TypeOK
<1> QED
  BY <1>1, <1>2 DEF PfBoxes, Typed, TypeOK, keyvars, KeysSame, OverlapSame

-----------------------------------------------------------------------------
(* The hours of a node worker: it works with this hour or the one before,  *)
(* with this one while it builds keys.                                     *)

Fresh(n) == at[n] = "loop" /\ seen[n] = {}
Current(n) == at[n] \in {"seeded", "hashing"} \/ (at[n] = "loop" /\ seen[n] # {})

HourOf(n) ==
  /\ at[n] = "loop" => todo[n] = {}
  /\ seen[n] \subseteq 0 .. now_sec[n]
  /\ ~Fresh(n) => /\ time_seed_update_factor[n] = Factor(now_sec[n])
                  /\ hour[n] \in {now_sec[n], now_sec[n] + 1}
  /\ at[n] # "loop" => hour[n] = now_sec[n] /\ now_sec[n] \notin seen[n]
  /\ Current(n) => \A w \in Word : time_seed[n][w] = Seed(now_sec[n])
  /\ at[n] = "verified" =>
       \A w \in Word : w < word[n] => time_seed[n][w] = Seed(now_sec[n])

HourInv == \A n \in Node : up[n] => HourOf(n)

(* A change of the hour is due exactly when the hour is not the one the    *)
(* node works with.                                                        *)
LEMMA DueMeansNext ==
  ASSUME Typed, NEW n \in Node, HourOf(n), ~Fresh(n)
  PROVE  Due(n) <=> hour[n] = now_sec[n] + 1
<1>1. now_sec[n] \in Nat /\ hour[n] \in {now_sec[n], now_sec[n] + 1}
  BY Constants DEF Typed, TypeOK, HourOf
<1>2. Factor(now_sec[n]) # Factor(now_sec[n] + 1)
  BY <1>1, FactorChanges
<1> QED
  BY <1>1, <1>2 DEF Due, HourOf

(* The seed a node worker builds its keys of.                              *)
LEMMA CurrentSeed ==
  ASSUME Typed, NEW n \in Node, HourOf(n), Current(n)
  PROVE  time_seed[n] = TimeSeed(now_sec[n])
<1>1. now_sec[n] \in 0 .. LastHour /\ time_seed[n] \in [Word -> 0 .. LastHour]
  BY DEF Typed, TypeOK
<1> QED
  BY <1>1, SameSeed DEF HourOf

LEMMA HourInit == Init => HourInv
BY DEF Init, HourInv

LEMMA HourStep ==
  ASSUME Typed, HourInv, [Next]_vars
  PROVE  HourInv'
<1> SUFFICES ASSUME NEW i \in Node, up'[i]
             PROVE  HourOf(i)'
  BY DEF HourInv
<1>0. now_sec[i] \in Nat /\ hour[i] \in Nat
  BY Constants DEF Typed, TypeOK
<1>1. CASE up[i] /\ ClockSame(i) /\ WorkerSame(i)
  BY <1>1 DEF HourInv, HourOf, Fresh, Current, ClockSame, WorkerSame
<1>2. CASE Tick(i) /\ up[i]
  <2>1. /\ HourOf(i) /\ hour'[i] = hour[i] + 1 /\ ~Due(i) /\ at[i] = "loop"
        /\ WorkerSame(i)
    BY <1>2, TickDoes DEF HourInv
  <2>2. CASE Fresh(i)
    BY <2>1, <2>2 DEF HourOf, Fresh, Current, WorkerSame
  <2>3. CASE ~Fresh(i)
    <3>1. hour[i] = now_sec[i]
      BY <2>1, <2>3, DueMeansNext DEF HourOf
    <3> QED
      BY <1>0, <2>1, <2>3, <3>1 DEF HourOf, Fresh, Current, WorkerSame
  <2> QED
    BY <2>2, <2>3
<1>3. CASE Start(i)
  BY <1>3, StartDoes DEF HourOf, Fresh, Current
<1>4. CASE Verify(i)
  <2>1. /\ HourOf(i) /\ at[i] = "loop" /\ Due(i) /\ at'[i] = "verified"
        /\ now_sec'[i] = hour[i] /\ hour'[i] = hour[i] /\ seen'[i] = seen[i]
        /\ time_seed_update_factor'[i] = Factor(hour[i]) /\ word'[i] = 1
    BY <1>4, VerifyDoes DEF HourInv, Typed, TodoInv
  <2>2. seen[i] \subseteq 0 .. hour[i] /\ hour[i] \notin seen[i]
    BY <1>0, <2>1, DueMeansNext DEF HourOf, Fresh
  <2>3. \A w \in Word : ~(w < word'[i])
    BY <2>1, Constants DEF Word
  <2> QED
    BY <2>1, <2>2, <2>3 DEF HourOf, Fresh, Current
<1>5. CASE UpdateTimeSeed(i)
  <2>1. HourOf(i)
    BY <1>5, UpdateTimeSeedDoes DEF HourInv
  <2>2. /\ at[i] = "verified" /\ word[i] \in Word
        /\ time_seed'[i][word[i]] = Seed(now_sec[i])
        /\ \A w \in Word \ {word[i]} : time_seed'[i][w] = time_seed[i][w]
        /\ word[i] = Words => at'[i] = "seeded"
        /\ word[i] # Words => at'[i] = "verified" /\ word'[i] = word[i] + 1
        /\ hour'[i] = hour[i] /\ now_sec'[i] = now_sec[i] /\ seen'[i] = seen[i]
        /\ time_seed_update_factor'[i] = time_seed_update_factor[i]
    BY <1>5, UpdateTimeSeedDoes
  <2>3. \A w \in Word : w <= word[i] => time_seed'[i][w] = Seed(now_sec[i])
    BY <2>1, <2>2, Constants DEF HourOf, Word
  <2>4. word[i] = Words => \A w \in Word : time_seed'[i][w] = Seed(now_sec[i])
    BY <2>3, Constants DEF Word
  <2>5. word[i] # Words =>
          \A w \in Word : w < word'[i] => time_seed'[i][w] = Seed(now_sec[i])
    BY <2>2, <2>3, Constants DEF Word
  <2> QED
    BY <2>1, <2>2, <2>4, <2>5 DEF HourOf, Fresh, Current
<1>6. CASE BuildBegins(i)
  BY <1>6, BuildBeginsDoes DEF HourInv, HourOf, Fresh, Current
<1>7. CASE BuildWord(i)
  <2> DEFINE m == First(todo[i])
  <2>1. /\ HourOf(i) /\ at[i] = "hashing" /\ m \in todo[i]
        /\ word[i] = Words => todo'[i] = todo[i] \ {m}
        /\ word[i] = Words /\ todo[i] = {m} =>
             at'[i] = "loop" /\ seen'[i] = seen[i] \cup {now_sec[i]}
        /\ word[i] = Words /\ todo[i] # {m} => at'[i] = "seeded" /\ seen'[i] = seen[i]
        /\ word[i] # Words =>
             at'[i] = "hashing" /\ todo'[i] = todo[i] /\ seen'[i] = seen[i]
        /\ time_seed'[i] = time_seed[i] /\ hour'[i] = hour[i] /\ now_sec'[i] = now_sec[i]
        /\ time_seed_update_factor'[i] = time_seed_update_factor[i]
    BY <1>7, BuildWordDoes DEF HourInv
  <2> HIDE DEF m
  <2>2. CASE word[i] = Words /\ todo[i] = {m}
    BY <1>0, <2>1, <2>2 DEF HourOf, Fresh, Current
  <2>3. CASE word[i] = Words /\ todo[i] # {m}
    BY <2>1, <2>3 DEF HourOf, Fresh, Current
  <2>4. CASE word[i] # Words
    BY <2>1, <2>4 DEF HourOf, Fresh, Current
  <2> QED
    BY <2>2, <2>3, <2>4
<1> QED
  BY <1>1, <1>2, <1>3, <1>4, <1>5, <1>6, <1>7, Moves, PacketFilterDoes
  DEF Same, NodeWorker

-----------------------------------------------------------------------------
(* What the packet filter has read of the seed, if it did not come in the  *)
(* way of the node worker: the words of the hour they both work with.      *)

PfOf(n) ==
  ~overlapped[n] =>
    /\ pf_at[n] # "packets" => at[n] = "loop"
    /\ pf_at[n] \in {"building", "hashing"} /\ ~Fresh(n) =>
         \A w \in Word : (pf_at[n] = "hashing" \/ w < pf_word[n])
                            => pf_buffer[n][w] = Seed(now_sec[n])

PfInv == \A n \in Node : up[n] => PfOf(n)

LEMMA PfInit == Init => PfInv
BY DEF Init, PfInv

LEMMA PfStep ==
  ASSUME Typed, HourInv, PfInv, [Next]_vars
  PROVE  PfInv'
<1> SUFFICES ASSUME NEW i \in Node, up'[i], ~overlapped'[i]
             PROVE  PfOf(i)'
  BY DEF PfInv, PfOf
<1>0. up[i] => PfOf(i) /\ HourOf(i)
  BY DEF PfInv, HourInv
<1>1. CASE Same(i) /\ up[i]
  BY <1>0, <1>1 DEF PfOf, Fresh, Same, WorkerSame, FilterSame, OverlapSame
<1>2. CASE Tick(i) /\ up[i]
  <2>1. pf_at'[i] = "packets"
    BY <1>2, TickDoes DEF FilterSame
  <2> QED
    BY <2>1 DEF PfOf
<1>3. CASE Start(i)
  <2>1. pf_at'[i] = "packets"
    BY <1>3, StartDoes
  <2> QED
    BY <2>1 DEF PfOf
<1>4. CASE Verify(i)
  <2>1. pf_at'[i] = "packets"
    BY <1>4, VerifyDoes DEF FilterSame
  <2> QED
    BY <2>1 DEF PfOf
<1>5. CASE UpdateTimeSeed(i) \/ BuildBegins(i) \/ BuildWord(i)
  <2>1. /\ up[i] /\ at[i] # "loop" /\ overlapped'[i] = overlapped[i]
        /\ pf_at'[i] = pf_at[i]
    BY <1>5, UpdateTimeSeedDoes, BuildBeginsDoes, BuildWordDoes DEF FilterSame, OverlapSame
  <2>2. pf_at'[i] = "packets"
    BY <1>0, <2>1 DEF PfOf
  <2> QED
    BY <2>2 DEF PfOf
<1>6. CASE PfNotices(i)
  <2>1. /\ pf_at'[i] = "building" /\ pf_word'[i] = 1 /\ at[i] = "loop"
        /\ at'[i] = at[i]
    BY <1>6, PfNoticesDoes, PacketFilterDoes DEF PacketFilter, WorkerSame
  <2>2. \A w \in Word : ~(w < pf_word'[i])
    BY <2>1, Constants DEF Word
  <2> QED
    BY <2>1, <2>2 DEF PfOf
<1>7. CASE PfBuildBegins(i)
  <2>1. up[i] /\ WorkerSame(i)
    BY <1>7, PacketFilterDoes DEF PacketFilter
  <2>2. /\ pf_at[i] = "building" /\ pf_word[i] \in Word
        /\ pf_buffer'[i][pf_word[i]] = time_seed[i][pf_word[i]]
        /\ \A w \in Word \ {pf_word[i]} : pf_buffer'[i][w] = pf_buffer[i][w]
        /\ pf_word[i] = Words => pf_at'[i] = "hashing" /\ pf_word'[i] = 1
        /\ pf_word[i] # Words => pf_at'[i] = "building" /\ pf_word'[i] = pf_word[i] + 1
        /\ ~overlapped[i]
    BY <1>7, PfBuildBeginsDoes DEF OverlapSame
  <2>3. PfOf(i) /\ at[i] = "loop"
    BY <1>0, <2>1, <2>2 DEF PfOf
  <2>4. ASSUME ~Fresh(i)
        PROVE  \A w \in Word : w <= pf_word[i] => pf_buffer'[i][w] = Seed(now_sec[i])
    <3>1. \A w \in Word : time_seed[i][w] = Seed(now_sec[i])
      BY <1>0, <2>1, <2>3, <2>4 DEF HourOf, Fresh, Current
    <3>2. \A w \in Word : w < pf_word[i] => pf_buffer[i][w] = Seed(now_sec[i])
      BY <2>2, <2>3, <2>4 DEF PfOf
    <3> QED
      BY <2>2, <3>1, <3>2, Constants DEF Word
  <2>5. CASE pf_word[i] = Words
    <3>1. \A w \in Word : w <= pf_word[i]
      BY <2>5, Constants DEF Word
    <3> QED
      BY <2>1, <2>2, <2>3, <2>4, <2>5, <3>1 DEF PfOf, Fresh, WorkerSame
  <2>6. CASE pf_word[i] # Words
    <3>1. \A w \in Word : w < pf_word'[i] => w <= pf_word[i]
      BY <2>2, <2>6, Constants DEF Word
    <3> QED
      BY <2>1, <2>2, <2>3, <2>4, <2>6, <3>1 DEF PfOf, Fresh, WorkerSame
  <2> QED
    BY <2>5, <2>6
<1>8. CASE PfBuildWord(i)
  <2>1. up[i] /\ WorkerSame(i)
    BY <1>8, PacketFilterDoes DEF PacketFilter
  <2>2. /\ pf_at[i] = "hashing" /\ ~overlapped[i]
        /\ pf_word[i] = Words => pf_at'[i] = "boxing"
        /\ pf_word[i] # Words => pf_at'[i] = "hashing" /\ pf_buffer'[i] = pf_buffer[i]
    BY <1>8, PfBuildWordDoes DEF OverlapSame
  <2> QED
    BY <1>0, <2>1, <2>2 DEF PfOf, Fresh, WorkerSame
<1>9. CASE PfBoxes(i)
  <2> DEFINE m == First(pf_todo[i])
  <2>1. up[i] /\ WorkerSame(i)
    BY <1>9, PacketFilterDoes DEF PacketFilter
  <2>2. /\ pf_at[i] = "boxing" /\ ~overlapped[i]
        /\ pf_todo[i] = {m} => pf_at'[i] = "packets"
        /\ pf_todo[i] # {m} => pf_at'[i] = "building" /\ pf_word'[i] = 1
    BY <1>9, PfBoxesDoes DEF OverlapSame
  <2> HIDE DEF m
  <2>3. pf_at'[i] = "building" => \A w \in Word : ~(w < pf_word'[i])
    BY <2>2, Constants DEF Word
  <2> QED
    BY <1>0, <2>1, <2>2, <2>3 DEF PfOf, Fresh, WorkerSame
<1> QED
  BY <1>1, <1>2, <1>3, <1>4, <1>5, <1>6, <1>7, <1>8, <1>9, Moves
  DEF NodeWorker, PacketFilter

-----------------------------------------------------------------------------
(* The words that are built, of keys that are done and of the one that is  *)
(* not, are those of the hour, if the two threads did not come in each     *)
(* other's way.                                                            *)

Built(n, m, w) ==
  m \notin todo[n] \/ (at[n] = "hashing" /\ m = First(todo[n]) /\ w < word[n])

KeyOf(n, m) ==
  Current(n) /\ ~overlapped[n] =>
    \A w \in Word : Built(n, m, w) =>
      WordsOf(crypto_key[n][m], w) = {PadOf(n, m, w, TimeSeed(now_sec[n]))}

KeyInv == \A n \in Node : up[n] => \A m \in Node \ {n} : KeyOf(n, m)

(* So a key that is done is whole.                                         *)
LEMMA BuiltKey ==
  ASSUME Typed, NEW n \in Node, NEW m \in Node, KeyOf(n, m), Current(n), ~overlapped[n],
         m \notin todo[n]
  PROVE  crypto_key[n][m] = Key(n, m, TimeSeed(now_sec[n]))
<1>1. crypto_key[n][m] \in SUBSET Pads
  BY DEF Typed, TypeOK
<1>2. \A w \in Word :
        WordsOf(crypto_key[n][m], w) = {PadOf(n, m, w, TimeSeed(now_sec[n]))}
  BY DEF KeyOf, Built
<1> QED
  BY <1>1, <1>2, WholeKey

LEMMA KeyInit == Init => KeyInv
BY DEF Init, KeyInv

LEMMA KeyStep ==
  ASSUME Typed, HourInv, PfInv, KeyInv, [Next]_vars
  PROVE  KeyInv'
<1> SUFFICES ASSUME NEW i \in Node, up'[i], NEW j \in Node, j # i,
                    Current(i)', ~overlapped'[i]
             PROVE  KeyOf(i, j)'
  BY DEF KeyInv, KeyOf
<1>0. up[i] => KeyOf(i, j) /\ HourOf(i) /\ PfOf(i)
  BY DEF KeyInv, HourInv, PfInv
<1>1. crypto_key \in [Node -> [Node -> SUBSET Pads]]
  BY DEF Typed, TypeOK
<1>2. CASE /\ up[i] /\ WorkerSame(i) /\ crypto_key'[i] = crypto_key[i]
           /\ overlapped[i] => overlapped'[i]
  BY <1>0, <1>2 DEF KeyOf, Built, Current, WorkerSame
<1>3. CASE Tick(i) /\ up[i]
  BY <1>2, <1>3, TickDoes DEF KeysSame, OverlapSame
<1>4. CASE Start(i)
  BY <1>4, StartDoes DEF Current
<1>5. CASE Verify(i)
  BY <1>5, VerifyDoes DEF Current
<1>6. CASE UpdateTimeSeed(i)
  <2>1. at'[i] = "seeded" /\ todo'[i] = Node \ {i}
    BY <1>6, UpdateTimeSeedDoes DEF Current
  <2> QED
    BY <2>1 DEF KeyOf, Built
<1>7. CASE BuildBegins(i)
  <2>1. /\ up[i] /\ at[i] = "seeded" /\ at'[i] = "hashing" /\ word'[i] = 1
        /\ crypto_key'[i] = crypto_key[i] /\ overlapped'[i] = overlapped[i]
        /\ now_sec'[i] = now_sec[i] /\ todo'[i] = todo[i]
    BY <1>7, BuildBeginsDoes DEF OverlapSame
  <2>2. \A w \in Word : ~(w < word'[i])
    BY <2>1, Constants DEF Word
  <2> QED
    BY <1>0, <2>1, <2>2 DEF KeyOf, Built, Current
<1>8. CASE BuildWord(i)
  <2> DEFINE m == First(todo[i])
  <2>1. /\ up[i] /\ at[i] = "hashing" /\ m \in todo[i] /\ m \in Node /\ word[i] \in Word
        /\ StoreWord(i, m, word[i], time_seed[i])
        /\ word[i] = Words => todo'[i] = todo[i] \ {m} /\ at'[i] # "hashing"
        /\ word[i] # Words => /\ at'[i] = "hashing" /\ todo'[i] = todo[i]
                              /\ word'[i] = word[i] + 1
        /\ now_sec'[i] = now_sec[i] /\ overlapped'[i] = overlapped[i]
    BY <1>8, BuildWordDoes DEF OverlapSame
  <2>2. /\ time_seed[i] = TimeSeed(now_sec[i]) /\ Current(i)
        /\ time_seed[i] \in [Word -> 0 .. LastHour]
    BY <1>0, <2>1, CurrentSeed DEF Current, Typed, TypeOK
  <2>3. /\ \A p, q \in Node : (p # i \/ q # m) => crypto_key'[p][q] = crypto_key[p][q]
        /\ WordsOf(crypto_key'[i][m], word[i])
             = {PadOf(i, m, word[i], TimeSeed(now_sec[i]))}
        /\ \A v \in Word \ {word[i]} :
             WordsOf(crypto_key'[i][m], v) = WordsOf(crypto_key[i][m], v)
    <3> HIDE DEF m
    <3>1. /\ \A p, q \in Node : (p # i \/ q # m) => crypto_key'[p][q] = crypto_key[p][q]
          /\ WordsOf(crypto_key'[i][m], word[i]) = {PadOf(i, m, word[i], time_seed[i])}
          /\ \A v \in Word \ {word[i]} :
               WordsOf(crypto_key'[i][m], v) = WordsOf(crypto_key[i][m], v)
      <4> DEFINE s == time_seed[i]
                 w == word[i]
      <4>1. /\ m \in Node /\ w \in Word /\ s \in [Word -> 0 .. LastHour]
            /\ StoreWord(i, m, w, s)
        BY <2>1, <2>2
      <4> HIDE DEF s, w
      <4>2. /\ \A p, q \in Node : (p # i \/ q # m) => crypto_key'[p][q] = crypto_key[p][q]
            /\ WordsOf(crypto_key'[i][m], w) = {PadOf(i, m, w, s)}
            /\ \A v \in Word \ {w} :
                 WordsOf(crypto_key'[i][m], v) = WordsOf(crypto_key[i][m], v)
        <5>1. \A p, q \in Node : (p # i \/ q # m) => crypto_key'[p][q] = crypto_key[p][q]
          BY <1>1, <4>1, StoreWordDoes
        <5>2. HasWord(crypto_key'[i][m], i, m, w, s)
          BY <1>1, <4>1, StoreWordDoes
        <5>3. \A v \in Word \ {w} :
                WordsOf(crypto_key'[i][m], v) = WordsOf(crypto_key[i][m], v)
          BY <1>1, <4>1, StoreWordDoes
        <5> QED
          BY <5>1, <5>2, <5>3 DEF HasWord
      <4> QED
        BY <4>2 DEF s, w
    <3> QED
      BY <2>2, <3>1
  <2>4. KeyOf(i, j) /\ ~overlapped[i]
    BY <1>0, <2>1
  <2>5. SUFFICES ASSUME NEW w \in Word, Built(i, j, w)'
                 PROVE  WordsOf(crypto_key'[i][j], w)
                          = {PadOf(i, j, w, TimeSeed(now_sec[i]))}
    BY <2>1 DEF KeyOf
  <2>6. CASE j # m
    <3>1. Built(i, j, w)
      BY <2>1, <2>5, <2>6 DEF Built
    <3> QED
      BY <2>2, <2>3, <2>4, <2>6, <3>1 DEF KeyOf
  <2>7. CASE j = m /\ w = word[i]
    BY <2>3, <2>7
  <2>8. CASE j = m /\ w # word[i]
    <3>1. w < word[i]
      BY <2>1, <2>5, <2>8, Constants DEF Built, Word
    <3>2. Built(i, j, w)
      BY <2>1, <2>8, <3>1 DEF Built
    <3>3. WordsOf(crypto_key'[i][j], w) = WordsOf(crypto_key[i][j], w)
      BY <2>3, <2>8
    <3> QED
      BY <2>2, <2>4, <3>2, <3>3 DEF KeyOf
  <2> QED
    BY <2>6, <2>7, <2>8
<1>9. CASE PfNotices(i) \/ PfBuildBegins(i) \/ PfBoxes(i)
  <2>1. crypto_key'[i] = crypto_key[i] /\ (overlapped[i] => overlapped'[i])
    BY <1>9, PfNoticesDoes, PfBuildBeginsDoes, PfBoxesDoes DEF KeysSame, OverlapSame
  <2> QED
    BY <1>2, <1>9, <2>1, PacketFilterDoes DEF PacketFilter
<1>10. CASE PfBuildWord(i)
  <2> DEFINE m == First(pf_todo[i])
  <2>1. up[i] /\ WorkerSame(i)
    BY <1>10, PacketFilterDoes DEF PacketFilter
  <2>2. /\ pf_at[i] = "hashing" /\ pf_word[i] \in Word /\ m \in Node
        /\ StoreWord(i, m, pf_word[i], pf_buffer[i]) /\ overlapped'[i] = overlapped[i]
    BY <1>10, PfBuildWordDoes DEF OverlapSame
  <2>3. pf_buffer[i] \in [Word -> 0 .. LastHour] /\ now_sec[i] \in 0 .. LastHour
    BY DEF Typed, TypeOK
  <2>4. /\ ~overlapped[i] /\ at[i] = "loop" /\ ~Fresh(i) /\ Current(i)
        /\ KeyOf(i, j) /\ todo[i] = {}
    BY <1>0, <2>1, <2>2 DEF PfOf, HourOf, Current, Fresh, WorkerSame
  <2>5. pf_buffer[i] = TimeSeed(now_sec[i])
    <3>1. \A w \in Word : pf_buffer[i][w] = Seed(now_sec[i])
      BY <1>0, <2>1, <2>2, <2>4 DEF PfOf
    <3> QED
      BY <2>3, <3>1, SameSeed
  <2>6. /\ \A p, q \in Node : (p # i \/ q # m) => crypto_key'[p][q] = crypto_key[p][q]
        /\ WordsOf(crypto_key'[i][m], pf_word[i])
             = {PadOf(i, m, pf_word[i], TimeSeed(now_sec[i]))}
        /\ \A v \in Word \ {pf_word[i]} :
             WordsOf(crypto_key'[i][m], v) = WordsOf(crypto_key[i][m], v)
    <3> HIDE DEF m
    <3>1. /\ \A p, q \in Node : (p # i \/ q # m) => crypto_key'[p][q] = crypto_key[p][q]
          /\ WordsOf(crypto_key'[i][m], pf_word[i])
               = {PadOf(i, m, pf_word[i], pf_buffer[i])}
          /\ \A v \in Word \ {pf_word[i]} :
               WordsOf(crypto_key'[i][m], v) = WordsOf(crypto_key[i][m], v)
      <4> DEFINE s == pf_buffer[i]
                 w == pf_word[i]
      <4>1. /\ m \in Node /\ w \in Word /\ s \in [Word -> 0 .. LastHour]
            /\ StoreWord(i, m, w, s)
        BY <2>2, <2>3
      <4> HIDE DEF s, w
      <4>2. /\ \A p, q \in Node : (p # i \/ q # m) => crypto_key'[p][q] = crypto_key[p][q]
            /\ WordsOf(crypto_key'[i][m], w) = {PadOf(i, m, w, s)}
            /\ \A v \in Word \ {w} :
                 WordsOf(crypto_key'[i][m], v) = WordsOf(crypto_key[i][m], v)
        <5>1. \A p, q \in Node : (p # i \/ q # m) => crypto_key'[p][q] = crypto_key[p][q]
          BY <1>1, <4>1, StoreWordDoes
        <5>2. HasWord(crypto_key'[i][m], i, m, w, s)
          BY <1>1, <4>1, StoreWordDoes
        <5>3. \A v \in Word \ {w} :
                WordsOf(crypto_key'[i][m], v) = WordsOf(crypto_key[i][m], v)
          BY <1>1, <4>1, StoreWordDoes
        <5> QED
          BY <5>1, <5>2, <5>3 DEF HasWord
      <4> QED
        BY <4>2 DEF s, w
    <3> QED
      BY <2>5, <3>1
  <2>7. \A w \in Word : WordsOf(crypto_key[i][j], w)
                          = {PadOf(i, j, w, TimeSeed(now_sec[i]))}
    BY <2>4 DEF KeyOf, Built
  <2>8. \A w \in Word : WordsOf(crypto_key'[i][j], w)
                          = {PadOf(i, j, w, TimeSeed(now_sec[i]))}
    BY <2>6, <2>7
  <2>9. now_sec'[i] = now_sec[i]
    BY <2>1 DEF WorkerSame
  <2> QED
    BY <2>8, <2>9 DEF KeyOf
<1> QED
  BY <1>2, <1>3, <1>4, <1>5, <1>6, <1>7, <1>8, <1>9, <1>10, Moves
  DEF Same, KeysSame, OverlapSame, NodeWorker, PacketFilter

-----------------------------------------------------------------------------
(* With xor there is no packet filter to come in the way; and if the node  *)
(* has had the hour before, the key of that is there until it is set       *)
(* aside, and then aside.                                                  *)

PreOf(n, m) ==
  now_sec[n] - 1 \in seen[n] =>
    LET k == Key(n, m, TimeSeed(now_sec[n] - 1)) IN
    /\ at[n] = "verified" => crypto_key[n][m] = k
    /\ at[n] = "seeded" /\ m \in todo[n] => crypto_key[n][m] = k
    /\ at[n] = "seeded" /\ m \notin todo[n] => pre_crypto_key[n][m] = k
    /\ at[n] = "hashing" /\ m \in todo[n] \ {First(todo[n])} => crypto_key[n][m] = k
    /\ at[n] = "hashing" /\ m \notin todo[n] \ {First(todo[n])} => pre_crypto_key[n][m] = k
    /\ at[n] = "loop" => pre_crypto_key[n][m] = k

XorInv ==
  cipher = "xor" =>
    \A n \in Node :
      up[n] => /\ pf_at[n] = "packets" /\ ~overlapped[n]
               /\ \A m \in Node \ {n} : PreOf(n, m)

LEMMA XorInit == Init => XorInv
BY DEF Init, XorInv

LEMMA XorStep ==
  ASSUME Typed, HourInv, KeyInv, XorInv, [Next]_vars
  PROVE  XorInv'
<1>0. cipher' = cipher
  BY DEF Next, NodeWorker, PacketFilter, Tick, Start, Crash, Verify, UpdateTimeSeed,
         BuildBegins, BuildWord, PfNotices, PfBuildBegins, PfBuildWord, PfBoxes,
         FromApp, FromNode, vars
<1> SUFFICES ASSUME cipher = "xor", NEW i \in Node, up'[i]
             PROVE  /\ pf_at'[i] = "packets" /\ ~overlapped'[i]
                    /\ \A m \in Node \ {i} : PreOf(i, m)'
  BY <1>0 DEF XorInv
<1>1. up[i] => /\ pf_at[i] = "packets" /\ ~overlapped[i] /\ HourOf(i)
               /\ \A m \in Node \ {i} : PreOf(i, m) /\ KeyOf(i, m)
  BY DEF XorInv, HourInv, KeyInv
<1>2. ~PacketFilter(i)
  <2>1. PacketFilter(i) => up[i]
    BY PacketFilterDoes
  <2> QED
    BY <1>1, <2>1 DEF PacketFilter, PfNotices, PfBuildBegins, PfBuildWord, PfBoxes
<1>3. pf_at'[i] = "packets" /\ ~overlapped'[i]
  <2>1. CASE Same(i) /\ up[i]
    BY <1>1, <2>1 DEF Same, FilterSame, OverlapSame
  <2>2. CASE Tick(i) /\ up[i]
    BY <1>1, <2>2, TickDoes DEF FilterSame, OverlapSame
  <2>3. CASE Start(i)
    BY <2>3, StartDoes
  <2>4. CASE Verify(i)
    BY <1>1, <2>4, VerifyDoes DEF FilterSame
  <2>5. CASE UpdateTimeSeed(i)
    BY <1>1, <2>5, UpdateTimeSeedDoes DEF FilterSame, OverlapSame
  <2>6. CASE BuildBegins(i)
    BY <1>1, <2>6, BuildBeginsDoes DEF FilterSame, OverlapSame
  <2>7. CASE BuildWord(i)
    BY <1>1, <2>7, BuildWordDoes DEF FilterSame, OverlapSame
  <2> QED
    BY <1>2, <2>1, <2>2, <2>3, <2>4, <2>5, <2>6, <2>7, Moves DEF NodeWorker
<1> SUFFICES ASSUME NEW j \in Node, j # i
             PROVE  PreOf(i, j)'
  BY <1>3
<1>4. now_sec[i] \in Nat /\ now_sec[i] \in 0 .. LastHour
  BY Constants DEF Typed, TypeOK
<1>5. CASE up[i] /\ WorkerSame(i) /\ KeysSame(i)
  BY <1>1, <1>5 DEF PreOf, WorkerSame, KeysSame, Key, PadOf, TimeSeed, Seed
<1>6. CASE Start(i)
  BY <1>6, StartDoes DEF PreOf
<1>7. CASE Verify(i)
  <2>1. /\ KeyOf(i, j) /\ HourOf(i) /\ ~overlapped[i] /\ at[i] = "loop" /\ Due(i)
        /\ at'[i] = "verified" /\ now_sec'[i] = hour[i] /\ seen'[i] = seen[i]
        /\ crypto_key'[i] = crypto_key[i]
    BY <1>1, <1>7, VerifyDoes DEF KeysSame
  <2>2. ASSUME hour[i] - 1 \in seen[i]
        PROVE  crypto_key[i][j] = Key(i, j, TimeSeed(hour[i] - 1))
    <3>1. hour[i] = now_sec[i] + 1
      BY <1>4, <2>1, <2>2, DueMeansNext DEF HourOf, Fresh
    <3>2. hour[i] - 1 = now_sec[i]
      BY <1>4, <3>1
    <3>3. Current(i) /\ j \notin todo[i]
      BY <2>1, <2>2 DEF HourOf, Current
    <3> QED
      BY <2>1, <3>2, <3>3, BuiltKey
  <2> QED
    BY <2>1, <2>2 DEF PreOf, Key, PadOf, TimeSeed, Seed
<1>8. CASE UpdateTimeSeed(i)
  <2>1. /\ PreOf(i, j) /\ at[i] = "verified" /\ now_sec'[i] = now_sec[i]
        /\ seen'[i] = seen[i] /\ crypto_key'[i] = crypto_key[i]
        /\ at'[i] = "verified" \/ (at'[i] = "seeded" /\ j \in todo'[i])
    BY <1>1, <1>8, UpdateTimeSeedDoes DEF KeysSame
  <2> QED
    BY <2>1 DEF PreOf, Key, PadOf, TimeSeed, Seed
<1>9. CASE BuildBegins(i)
  <2> DEFINE m == First(todo[i])
  <2>1. /\ PreOf(i, j) /\ at[i] = "seeded" /\ at'[i] = "hashing"
        /\ m \in todo[i] /\ m \in Node
        /\ pre_crypto_key'[i][m] = crypto_key[i][m]
        /\ j # m => pre_crypto_key'[i][j] = pre_crypto_key[i][j]
        /\ crypto_key'[i] = crypto_key[i] /\ now_sec'[i] = now_sec[i]
        /\ todo'[i] = todo[i] /\ seen'[i] = seen[i]
    BY <1>1, <1>9, BuildBeginsDoes
  <2> DEFINE k == Key(i, j, TimeSeed(now_sec[i] - 1))
  <2>2. ASSUME now_sec[i] - 1 \in seen[i]
        PROVE  /\ j \in todo[i] \ {m} => crypto_key'[i][j] = k
               /\ j \notin todo[i] \ {m} => pre_crypto_key'[i][j] = k
    <3>1. /\ j \in todo[i] => crypto_key[i][j] = k
          /\ j \notin todo[i] => pre_crypto_key[i][j] = k
      BY <2>1, <2>2 DEF PreOf
    <3> HIDE DEF k, m
    <3> QED
      BY <2>1, <3>1
  <2> QED
    BY <2>1, <2>2 DEF PreOf, Key, PadOf, TimeSeed, Seed
<1>10. CASE BuildWord(i)
  <2> DEFINE m == First(todo[i])
             k == Key(i, j, TimeSeed(now_sec[i] - 1))
  <2>1. /\ PreOf(i, j) /\ at[i] = "hashing" /\ m \in todo[i] /\ m \in Node
        /\ StoreWord(i, m, word[i], time_seed[i])
        /\ word[i] = Words => todo'[i] = todo[i] \ {m}
        /\ word[i] = Words /\ todo[i] = {m} =>
             at'[i] = "loop" /\ seen'[i] = seen[i] \cup {now_sec[i]}
        /\ word[i] = Words /\ todo[i] # {m} => at'[i] = "seeded" /\ seen'[i] = seen[i]
        /\ word[i] # Words =>
             at'[i] = "hashing" /\ todo'[i] = todo[i] /\ seen'[i] = seen[i]
        /\ pre_crypto_key'[i] = pre_crypto_key[i] /\ now_sec'[i] = now_sec[i]
    BY <1>1, <1>10, BuildWordDoes
  <2>2. j # m => crypto_key'[i][j] = crypto_key[i][j]
    BY <2>1 DEF StoreWord, Typed, TypeOK
  <2>3. now_sec[i] - 1 \in seen'[i] => now_sec[i] - 1 \in seen[i]
    BY <1>4, <2>1
  <2>4. ASSUME now_sec[i] - 1 \in seen[i]
        PROVE  /\ j \in todo[i] \ {m} => crypto_key[i][j] = k
               /\ j \notin todo[i] \ {m} => pre_crypto_key[i][j] = k
    BY <2>1, <2>4 DEF PreOf
  <2>5. m = First(todo[i])
    OBVIOUS
  <2> HIDE DEF k, m
  <2>6. ASSUME now_sec[i] - 1 \in seen[i]
        PROVE  /\ at'[i] = "seeded" /\ j \in todo'[i] => crypto_key'[i][j] = k
               /\ at'[i] = "seeded" /\ j \notin todo'[i] => pre_crypto_key'[i][j] = k
               /\ at'[i] = "hashing" =>
                    /\ todo'[i] = todo[i]
                    /\ j \in todo[i] \ {m} => crypto_key'[i][j] = k
                    /\ j \notin todo[i] \ {m} => pre_crypto_key'[i][j] = k
               /\ at'[i] = "loop" => pre_crypto_key'[i][j] = k
               /\ at'[i] # "verified"
    <3>1. CASE word[i] = Words /\ todo[i] = {m}
      BY <2>1, <2>2, <2>4, <2>6, <3>1
    <3>2. CASE word[i] = Words /\ todo[i] # {m}
      BY <2>1, <2>2, <2>4, <2>6, <3>2
    <3>3. CASE word[i] # Words
      BY <2>1, <2>2, <2>4, <2>6, <3>3
    <3> QED
      BY <3>1, <3>2, <3>3
  <2> QED
    BY <2>1, <2>3, <2>5, <2>6 DEF PreOf, k, Key, PadOf, TimeSeed, Seed
<1> QED
  BY <1>2, <1>5, <1>6, <1>7, <1>8, <1>9, <1>10, Moves, TickDoes DEF Same, NodeWorker

-----------------------------------------------------------------------------
(* With both ciphers, whoever came in whose way: the words of the seed are *)
(* those of this hour, of the one before or of 1970, and so are those that *)
(* the packet filter has read.                                             *)

Seeds(n) == {Seed(0), Seed(hour[n] - 1), Seed(hour[n])}

SeedOf(n) ==
  /\ Fresh(n) => \A w \in Word : time_seed[n][w] = Seed(0)
  /\ at[n] = "verified" => \A w \in Word : time_seed[n][w] \in Seeds(n)
  /\ pf_at[n] \in {"building", "hashing"} =>
       \A w \in Word : (pf_at[n] = "hashing" \/ w < pf_word[n])
                          => pf_buffer[n][w] \in Seeds(n)

SeedInv == \A n \in Node : up[n] => SeedOf(n)

LEMMA RecentSeed ==
  ASSUME Typed, NEW n \in Node, HourOf(n), SeedOf(n)
  PROVE  \A w \in Word : time_seed[n][w] \in Seeds(n)
<1>1. now_sec[n] \in Nat /\ hour[n] \in Nat /\ (now_sec[n] + 1) - 1 = now_sec[n]
  BY Constants DEF Typed, TypeOK
<1>2. at[n] \in {"loop", "verified", "seeded", "hashing"}
  BY DEF Typed, TypeOK
<1>3. CASE Fresh(n)
  BY <1>3 DEF SeedOf, Seeds
<1>4. CASE at[n] = "verified"
  BY <1>4 DEF SeedOf
<1>5. CASE Current(n)
  <2>1. /\ \A w \in Word : time_seed[n][w] = Seed(now_sec[n])
        /\ hour[n] \in {now_sec[n], now_sec[n] + 1}
    BY <1>5 DEF HourOf, Current, Fresh
  <2>2. CASE hour[n] = now_sec[n]
    BY <2>1, <2>2 DEF Seeds
  <2>3. CASE hour[n] = now_sec[n] + 1
    <3>1. hour[n] - 1 = now_sec[n]
      BY <1>1, <2>3
    <3> QED
      BY <2>1, <3>1 DEF Seeds
  <2> QED
    BY <2>1, <2>2, <2>3
<1> QED
  BY <1>2, <1>3, <1>4, <1>5 DEF Fresh, Current

LEMMA SeedInit == Init => SeedInv
BY DEF Init, SeedInv

LEMMA SeedStep ==
  ASSUME Typed, HourInv, SeedInv, [Next]_vars
  PROVE  SeedInv'
<1> SUFFICES ASSUME NEW i \in Node, up'[i]
             PROVE  SeedOf(i)'
  BY DEF SeedInv
<1>0. up[i] => SeedOf(i) /\ HourOf(i)
  BY DEF SeedInv, HourInv
<1>1. CASE Same(i) /\ up[i]
  BY <1>0, <1>1 DEF SeedOf, Seeds, Fresh, Seed, Same, ClockSame, WorkerSame, FilterSame
<1>2. CASE Tick(i) /\ up[i]
  <2>1. SeedOf(i) /\ WorkerSame(i) /\ at[i] = "loop" /\ pf_at'[i] = "packets"
    BY <1>0, <1>2, TickDoes DEF FilterSame
  <2> QED
    BY <2>1 DEF SeedOf, Fresh, Seed, WorkerSame
<1>3. CASE Start(i)
  <2>1. /\ at'[i] = "loop" /\ pf_at'[i] = "packets" /\ time_seed'[i] = TimeSeed(0)
    BY <1>3, StartDoes
  <2> QED
    BY <2>1 DEF SeedOf, TimeSeed, Seed
<1>4. CASE Verify(i)
  <2>1. /\ SeedOf(i) /\ HourOf(i) /\ at[i] = "loop" /\ at'[i] = "verified"
        /\ time_seed'[i] = time_seed[i] /\ hour'[i] = hour[i] /\ FilterSame(i)
    BY <1>0, <1>4, VerifyDoes
  <2>2. \A w \in Word : time_seed[i][w] \in Seeds(i)
    BY <2>1, RecentSeed
  <2> QED
    BY <2>1, <2>2 DEF SeedOf, Seeds, Fresh, Seed, FilterSame
<1>5. CASE UpdateTimeSeed(i)
  <2>1. /\ SeedOf(i) /\ HourOf(i) /\ at[i] = "verified" /\ at'[i] \in {"verified", "seeded"}
        /\ time_seed'[i][word[i]] = Seed(now_sec[i])
        /\ \A w \in Word \ {word[i]} : time_seed'[i][w] = time_seed[i][w]
        /\ hour'[i] = hour[i] /\ FilterSame(i)
    BY <1>0, <1>5, UpdateTimeSeedDoes
  <2>2. \A w \in Word : time_seed'[i][w] \in Seeds(i)
    <3>1. Seed(now_sec[i]) \in Seeds(i)
      BY <2>1 DEF HourOf, Seeds
    <3> QED
      BY <2>1, <3>1 DEF SeedOf
  <2> QED
    BY <2>1, <2>2 DEF SeedOf, Seeds, Fresh, Seed, FilterSame
<1>6. CASE BuildBegins(i) \/ BuildWord(i)
  <2>1. /\ SeedOf(i) /\ hour'[i] = hour[i] /\ FilterSame(i)
        /\ at'[i] # "verified" /\ ~(at'[i] = "loop" /\ seen'[i] = {})
    <3>1. CASE BuildBegins(i)
      BY <1>0, <3>1, BuildBeginsDoes
    <3>2. CASE BuildWord(i)
      <4> DEFINE m == First(todo[i])
      <4>1. /\ up[i] /\ hour'[i] = hour[i] /\ FilterSame(i)
            /\ word[i] = Words /\ todo[i] = {m} =>
                 at'[i] = "loop" /\ seen'[i] = seen[i] \cup {now_sec[i]}
            /\ word[i] = Words /\ todo[i] # {m} => at'[i] = "seeded"
            /\ word[i] # Words => at'[i] = "hashing"
        BY <3>2, BuildWordDoes
      <4> HIDE DEF m
      <4> QED
        BY <1>0, <4>1
    <3> QED
      BY <1>6, <3>1, <3>2
  <2> QED
    BY <2>1 DEF SeedOf, Seeds, Fresh, Seed, FilterSame
<1>7. CASE PfNotices(i) \/ PfBoxes(i)
  <2>1. SeedOf(i) /\ ClockSame(i) /\ WorkerSame(i)
    BY <1>0, <1>7, PacketFilterDoes DEF PacketFilter
  <2>2. pf_at'[i] # "hashing" /\ (pf_at'[i] = "building" => pf_word'[i] = 1)
    BY <1>7, PfNoticesDoes, PfBoxesDoes
  <2>3. pf_at'[i] = "building" => \A w \in Word : ~(w < pf_word'[i])
    BY <2>2, Constants DEF Word
  <2> QED
    BY <2>1, <2>2, <2>3 DEF SeedOf, Seeds, Fresh, Seed, ClockSame, WorkerSame
<1>8. CASE PfBuildBegins(i)
  <2>1. SeedOf(i) /\ HourOf(i) /\ ClockSame(i) /\ WorkerSame(i)
    BY <1>0, <1>8, PacketFilterDoes DEF PacketFilter
  <2>2. /\ pf_at[i] = "building" /\ pf_word[i] \in Word
        /\ pf_buffer'[i][pf_word[i]] = time_seed[i][pf_word[i]]
        /\ \A w \in Word \ {pf_word[i]} : pf_buffer'[i][w] = pf_buffer[i][w]
        /\ pf_word[i] = Words => pf_at'[i] = "hashing"
        /\ pf_word[i] # Words => pf_at'[i] = "building" /\ pf_word'[i] = pf_word[i] + 1
    BY <1>8, PfBuildBeginsDoes
  <2>3. \A w \in Word : w < pf_word[i] => pf_buffer[i][w] \in Seeds(i)
    BY <2>1, <2>2 DEF SeedOf
  <2>4. \A w \in Word : w <= pf_word[i] => pf_buffer'[i][w] \in Seeds(i)
    BY <2>1, <2>2, <2>3, RecentSeed, Constants DEF Word
  <2>5. \A w \in Word : pf_at'[i] = "hashing" \/ w < pf_word'[i] => w <= pf_word[i]
    BY <2>2, Constants DEF Word
  <2> QED
    BY <2>1, <2>4, <2>5 DEF SeedOf, Seeds, Fresh, Seed, ClockSame, WorkerSame
<1>9. CASE PfBuildWord(i)
  <2>1. SeedOf(i) /\ ClockSame(i) /\ WorkerSame(i)
    BY <1>0, <1>9, PacketFilterDoes DEF PacketFilter
  <2>2. /\ pf_at[i] = "hashing"
        /\ pf_at'[i] = "boxing" \/ (pf_at'[i] = "hashing" /\ pf_buffer'[i] = pf_buffer[i])
    BY <1>9, PfBuildWordDoes
  <2> QED
    BY <2>1, <2>2 DEF SeedOf, Seeds, Fresh, Seed, ClockSame, WorkerSame
<1> QED
  BY <1>1, <1>2, <1>3, <1>4, <1>5, <1>6, <1>7, <1>8, <1>9, Moves
  DEF NodeWorker, PacketFilter

-----------------------------------------------------------------------------
(* So the words that are built in an hour are of the two nodes, and of     *)
(* these seeds.                                                            *)

RecentPad(n, m, p) == p[1] = {n, m} /\ \A w \in Word : p[3][w] \in Seeds(n)

RecentOf(n, m) ==
  Current(n) /\ hour[n] = now_sec[n] =>
    \A p \in crypto_key[n][m] : Built(n, m, p[2]) => RecentPad(n, m, p)

RecentInv == \A n \in Node : up[n] => \A m \in Node \ {n} : RecentOf(n, m)

LEMMA RecentInit == Init => RecentInv
BY DEF Init, RecentInv

(* A word that is stored is of the seed, or was there before.              *)
LEMMA StoredRecent ==
  ASSUME Typed, NEW n \in Node, NEW m \in Node, NEW k \in Node, NEW w \in Word, NEW seed,
         StoreWord(n, k, w, seed), \A v \in Word : seed[v] \in Seeds(n),
         NEW p \in crypto_key'[n][m]
  PROVE  \/ p \in crypto_key[n][m] /\ (m = k => p[2] # w)
         \/ RecentPad(n, m, p) /\ m = k
<1>1. crypto_key \in [Node -> [Node -> SUBSET Pads]]
  BY DEF Typed, TypeOK
<1>2. CASE m # k
  BY <1>1, <1>2 DEF StoreWord
<1>3. CASE m = k
  <2>1. crypto_key'[n][m] = WithPad(crypto_key[n][m], PadOf(n, m, w, seed))
    BY <1>1, <1>3 DEF StoreWord
  <2> QED
    BY <1>3, <2>1 DEF WithPad, PadOf, RecentPad
<1> QED
  BY <1>2, <1>3

LEMMA RecentStep ==
  ASSUME Typed, HourInv, SeedInv, RecentInv, [Next]_vars
  PROVE  RecentInv'
<1> SUFFICES ASSUME NEW i \in Node, up'[i], NEW j \in Node, j # i,
                    Current(i)', hour'[i] = now_sec'[i],
                    NEW p \in crypto_key'[i][j], Built(i, j, p[2])'
             PROVE  RecentPad(i, j, p)'
  BY DEF RecentInv, RecentOf
<1>0. up[i] => RecentOf(i, j) /\ HourOf(i) /\ SeedOf(i)
  BY DEF RecentInv, HourInv, SeedInv
<1>1. hour'[i] = hour[i] => (RecentPad(i, j, p)' <=> RecentPad(i, j, p))
  BY DEF RecentPad, Seeds, Seed
<1>2. CASE up[i] /\ ClockSame(i) /\ WorkerSame(i) /\ crypto_key'[i] = crypto_key[i]
  BY <1>0, <1>1, <1>2 DEF RecentOf, Built, Current, ClockSame, WorkerSame
<1>3. CASE Tick(i) /\ up[i]
  <2>1. at[i] = "loop" /\ ~Due(i) /\ HourOf(i) /\ hour'[i] = hour[i] + 1 /\ WorkerSame(i)
    BY <1>0, <1>3, TickDoes
  <2>2. hour[i] \in {now_sec[i], now_sec[i] + 1} /\ now_sec[i] \in Nat
    BY <2>1, Constants DEF HourOf, Fresh, Current, WorkerSame, Typed, TypeOK
  <2>3. hour[i] + 1 = now_sec[i]
    BY <2>1 DEF WorkerSame
  <2> QED
    BY <2>2, <2>3
<1>4. CASE Start(i)
  BY <1>4, StartDoes DEF Current
<1>5. CASE Verify(i)
  BY <1>5, VerifyDoes DEF Current
<1>6. CASE UpdateTimeSeed(i)
  <2>1. at'[i] = "seeded" /\ todo'[i] = Node \ {i}
    BY <1>6, UpdateTimeSeedDoes DEF Current
  <2> QED
    BY <2>1 DEF Built
<1>7. CASE BuildBegins(i)
  <2>1. /\ at[i] = "seeded" /\ word'[i] = 1 /\ crypto_key'[i] = crypto_key[i]
        /\ now_sec'[i] = now_sec[i] /\ hour'[i] = hour[i] /\ todo'[i] = todo[i]
        /\ up[i]
    BY <1>7, BuildBeginsDoes
  <2>2. p[2] \in Word
    BY <2>1 DEF Typed, TypeOK, Pads
  <2>3. ~(p[2] < word'[i])
    BY <2>1, <2>2, Constants DEF Word
  <2> QED
    BY <1>0, <1>1, <2>1, <2>3 DEF RecentOf, Built, Current
<1>8. CASE BuildWord(i)
  <2> DEFINE m == First(todo[i])
  <2>1. /\ up[i] /\ at[i] = "hashing" /\ m \in todo[i] /\ m \in Node /\ word[i] \in Word
        /\ StoreWord(i, m, word[i], time_seed[i])
        /\ word[i] = Words => todo'[i] = todo[i] \ {m} /\ at'[i] # "hashing"
        /\ word[i] # Words => /\ at'[i] = "hashing" /\ todo'[i] = todo[i]
                              /\ word'[i] = word[i] + 1
        /\ now_sec'[i] = now_sec[i] /\ hour'[i] = hour[i]
    BY <1>8, BuildWordDoes
  <2>2. \A w \in Word : time_seed[i][w] \in Seeds(i)
    BY <1>0, <2>1, RecentSeed
  <2>3. \/ p \in crypto_key[i][j] /\ (j = m => p[2] # word[i])
        \/ RecentPad(i, j, p) /\ j = m
    <3> HIDE DEF m
    <3> QED
      BY <2>1, <2>2, StoredRecent
  <2>4. CASE RecentPad(i, j, p)
    BY <1>1, <2>1, <2>4
  <2>5. CASE p \in crypto_key[i][j] /\ (j = m => p[2] # word[i])
    <3>1. p[2] \in Word
      BY <2>5 DEF Typed, TypeOK, Pads
    <3>2. Built(i, j, p[2])
      <4>1. CASE j # m
        BY <2>1, <4>1 DEF Built
      <4>2. CASE j = m
        <5>1. p[2] < word[i]
          <6>1. CASE word[i] = Words
            BY <2>5, <3>1, <4>2, <6>1, Constants DEF Word
          <6>2. CASE word[i] # Words
            <7>1. p[2] < word[i] + 1
              BY <2>1, <4>2, <6>2 DEF Built
            <7> QED
              BY <2>1, <2>5, <3>1, <4>2, <7>1, Constants DEF Word
          <6> QED
            BY <6>1, <6>2
        <5> QED
          BY <2>1, <4>2, <5>1 DEF Built
      <4> QED
        BY <4>1, <4>2
    <3> QED
      BY <1>0, <1>1, <2>1, <2>5, <3>2 DEF RecentOf, Current
  <2> QED
    BY <2>3, <2>4, <2>5
<1>9. CASE PfNotices(i) \/ PfBuildBegins(i) \/ PfBoxes(i)
  <2>1. crypto_key'[i] = crypto_key[i]
    BY <1>9, PfNoticesDoes, PfBuildBeginsDoes, PfBoxesDoes DEF KeysSame
  <2> QED
    BY <1>2, <1>9, <2>1, PacketFilterDoes DEF PacketFilter
<1>10. CASE PfBuildWord(i)
  <2> DEFINE m == First(pf_todo[i])
  <2>1. up[i] /\ ClockSame(i) /\ WorkerSame(i)
    BY <1>10, PacketFilterDoes DEF PacketFilter
  <2>2. /\ pf_at[i] = "hashing" /\ pf_word[i] \in Word /\ m \in Node
        /\ StoreWord(i, m, pf_word[i], pf_buffer[i])
    BY <1>10, PfBuildWordDoes
  <2>3. \A w \in Word : pf_buffer[i][w] \in Seeds(i)
    BY <1>0, <2>1, <2>2 DEF SeedOf
  <2>4. p \in crypto_key[i][j] \/ RecentPad(i, j, p)
    <3> HIDE DEF m
    <3> QED
      BY <2>2, <2>3, StoredRecent
  <2>5. CASE p \in crypto_key[i][j]
    BY <1>0, <1>1, <2>1, <2>5 DEF RecentOf, Built, Current, ClockSame, WorkerSame
  <2> QED
    BY <1>1, <2>1, <2>4, <2>5 DEF ClockSame
<1> QED
  BY <1>2, <1>3, <1>4, <1>5, <1>6, <1>7, <1>8, <1>9, <1>10, Moves
  DEF Same, KeysSame, NodeWorker, PacketFilter

-----------------------------------------------------------------------------
(* The boxes: those made in an hour the node worker has dealt with are of  *)
(* the keys of that hour, if the two did not come in each other's way.     *)

MadeInHour(n) ==
  /\ Current(n) /\ at[n] = "loop" /\ ~overlapped[n]
  /\ hour[n] = now_sec[n] /\ noticed[n] = hour[n]
  /\ save_time_seed_update_factor[n] = time_seed_update_factor[n]

BoxOf(n) ==
  /\ noticed[n] <= hour[n]
  /\ noticed[n] = hour[n] /\ Due(n) =>
       save_time_seed_update_factor[n] = time_seed_update_factor[n]
  /\ noticed[n] = hour[n] /\ at[n] # "loop" /\ ~overlapped[n] =>
       save_time_seed_update_factor[n] # time_seed_update_factor[n]
  /\ pf_at[n] = "packets" => pf_todo[n] = {}
  /\ MadeInHour(n) =>
       \A m \in Node \ {n} : m \notin pf_todo[n] =>
         arc4_ctx_map[n][m] = Key(n, m, TimeSeed(now_sec[n]))

BoxInv == \A n \in Node : up[n] => BoxOf(n)

LEMMA BoxInit == Init => BoxInv
BY DEF Init, BoxInv

LEMMA BoxStep ==
  ASSUME Typed, HourInv, KeyInv, BoxInv, [Next]_vars
  PROVE  BoxInv'
<1> SUFFICES ASSUME NEW i \in Node, up'[i]
             PROVE  BoxOf(i)'
  BY DEF BoxInv
<1>0. up[i] => /\ BoxOf(i) /\ HourOf(i)
               /\ \A m \in Node \ {i} : KeyOf(i, m)
  BY DEF BoxInv, HourInv, KeyInv
<1>1. /\ hour[i] \in Nat /\ hour[i] > 0 /\ noticed[i] \in Nat
      /\ now_sec[i] \in Nat
  BY Constants DEF Typed, TypeOK
<1>2. CASE /\ up[i] /\ ClockSame(i) /\ WorkerSame(i) /\ OverlapSame(i)
           /\ save_time_seed_update_factor'[i] = save_time_seed_update_factor[i]
           /\ noticed'[i] = noticed[i] /\ pf_todo'[i] = pf_todo[i]
           /\ pf_at'[i] = "packets" => pf_at[i] = "packets"
           /\ arc4_ctx_map'[i] = arc4_ctx_map[i]
  BY <1>0, <1>2 DEF BoxOf, MadeInHour, Due, Factor, Current, Key, PadOf, TimeSeed, Seed,
                    ClockSame, WorkerSame, OverlapSame
<1>3. CASE Tick(i) /\ up[i]
  <2>1. /\ BoxOf(i) /\ hour'[i] = hour[i] + 1 /\ noticed'[i] = noticed[i]
        /\ pf_at'[i] = pf_at[i] /\ pf_todo'[i] = pf_todo[i]
    BY <1>0, <1>3, TickDoes DEF FilterSame
  <2>2. noticed'[i] <= hour'[i] /\ noticed'[i] # hour'[i]
    BY <1>1, <2>1 DEF BoxOf
  <2> QED
    BY <2>1, <2>2 DEF BoxOf, MadeInHour
<1>4. CASE Start(i)
  <2>1. /\ noticed'[i] = 0 /\ hour'[i] = hour[i] /\ pf_todo'[i] = {}
    BY <1>4, StartDoes DEF Start, Typed, TypeOK
  <2>2. noticed'[i] <= hour'[i] /\ noticed'[i] # hour'[i]
    BY <1>1, <2>1
  <2> QED
    BY <2>1, <2>2 DEF BoxOf, MadeInHour
<1>5. CASE Verify(i)
  <2>1. /\ BoxOf(i) /\ Due(i) /\ at'[i] = "verified" /\ hour'[i] = hour[i]
        /\ time_seed_update_factor'[i] = Factor(hour[i]) /\ FilterSame(i)
    BY <1>0, <1>5, VerifyDoes
  <2>2. ~Due(i)'
    BY <2>1 DEF Due, Factor
  <2>3. noticed[i] = hour[i] =>
          save_time_seed_update_factor'[i] # time_seed_update_factor'[i]
    BY <2>1 DEF BoxOf, Due, FilterSame
  <2> QED
    BY <2>1, <2>2, <2>3 DEF BoxOf, MadeInHour, FilterSame
<1>6. CASE UpdateTimeSeed(i) \/ BuildBegins(i) \/ BuildWord(i)
  <2>1. /\ BoxOf(i) /\ at[i] # "loop" /\ hour'[i] = hour[i] /\ FilterSame(i)
        /\ OverlapSame(i) /\ time_seed_update_factor'[i] = time_seed_update_factor[i]
    BY <1>0, <1>6, UpdateTimeSeedDoes, BuildBeginsDoes, BuildWordDoes
  <2>2. Due(i)' <=> Due(i)
    BY <2>1 DEF Due, Factor
  <2>3. ~MadeInHour(i)'
    BY <2>1 DEF BoxOf, MadeInHour, FilterSame, OverlapSame
  <2> QED
    BY <2>1, <2>2, <2>3 DEF BoxOf, FilterSame, OverlapSame
<1>7. CASE PfNotices(i)
  <2>1. ClockSame(i) /\ WorkerSame(i)
    BY <1>7, PacketFilterDoes DEF PacketFilter
  <2>2. /\ pf_at'[i] = "building" /\ pf_todo'[i] = Node \ {i}
        /\ save_time_seed_update_factor'[i] = time_seed_update_factor[i]
        /\ at[i] # "loop" => overlapped'[i]
        /\ noticed'[i] = hour[i]
    BY <1>7, PfNoticesDoes
  <2> QED
    BY <1>1, <2>1, <2>2 DEF BoxOf, ClockSame, WorkerSame
<1>8. CASE PfBuildBegins(i)
  BY <1>2, <1>8, PfBuildBeginsDoes, PacketFilterDoes DEF PacketFilter
<1>9. CASE PfBuildWord(i)
  BY <1>2, <1>9, PfBuildWordDoes, PacketFilterDoes DEF PacketFilter
<1>10. CASE PfBoxes(i)
  <2> DEFINE b == First(pf_todo[i])
  <2>1. BoxOf(i) /\ HourOf(i) /\ ClockSame(i) /\ WorkerSame(i) /\ up[i]
    BY <1>0, <1>10, PacketFilterDoes DEF PacketFilter
  <2>2. /\ arc4_ctx_map'[i][b] = crypto_key[i][b] /\ b \in Node
        /\ \A j \in Node \ {b} : arc4_ctx_map'[i][j] = arc4_ctx_map[i][j]
        /\ pf_todo'[i] = pf_todo[i] \ {b}
        /\ pf_todo[i] = {b} => pf_at'[i] = "packets"
        /\ pf_todo[i] # {b} => pf_at'[i] = "building"
        /\ noticed'[i] = noticed[i] /\ OverlapSame(i)
        /\ save_time_seed_update_factor'[i] = save_time_seed_update_factor[i]
    BY <1>10, PfBoxesDoes
  <2> HIDE DEF b
  <2>3. ASSUME MadeInHour(i), NEW m \in Node \ {i}, m \notin pf_todo'[i]
        PROVE  arc4_ctx_map'[i][m] = Key(i, m, TimeSeed(now_sec[i]))
    <3>1. CASE m = b
      <4>1. KeyOf(i, m) /\ Current(i) /\ ~overlapped[i] /\ todo[i] = {}
        BY <1>0, <2>1, <2>3 DEF MadeInHour, HourOf
      <4>2. crypto_key[i][m] = Key(i, m, TimeSeed(now_sec[i]))
        BY <4>1, BuiltKey
      <4> QED
        BY <2>2, <3>1, <4>2
    <3>2. CASE m # b
      BY <2>1, <2>2, <2>3, <3>2 DEF BoxOf
    <3> QED
      BY <3>1, <3>2
  <2>4. (MadeInHour(i)' <=> MadeInHour(i)) /\ (Due(i)' <=> Due(i))
    BY <2>1, <2>2 DEF MadeInHour, Due, Factor, Current, ClockSame, WorkerSame, OverlapSame
  <2>5. pf_at'[i] = "packets" => pf_todo'[i] = {}
    BY <2>2
  <2> QED
    BY <2>1, <2>2, <2>3, <2>4, <2>5 DEF BoxOf, Key, PadOf, TimeSeed, Seed, ClockSame,
                                       WorkerSame, OverlapSame
<1> QED
  BY <1>2, <1>3, <1>4, <1>5, <1>6, <1>7, <1>8, <1>9, <1>10, Moves
  DEF Same, FilterSame, NodeWorker, PacketFilter

-----------------------------------------------------------------------------
(* The theorems.                                                           *)

KInv == /\ Typed /\ HourInv /\ PfInv /\ KeyInv /\ XorInv
        /\ SeedInv /\ RecentInv /\ BoxInv

LEMMA Invariant == Spec => []KInv
<1>1. Init => KInv
  BY TypedInit, HourInit, PfInit, KeyInit, XorInit, SeedInit, RecentInit, BoxInit DEF KInv
<1>2. KInv /\ [Next]_vars => KInv'
  BY TypedStep, HourStep, PfStep, KeyStep, XorStep, SeedStep, RecentStep, BoxStep DEF KInv
<1> QED
  BY <1>1, <1>2, PTL DEF Spec

(* A node worker that is back and has nothing to do works with this hour,  *)
(* and has built all its keys.                                             *)
LEMMA SettledNow ==
  ASSUME KInv, NEW n \in Node, Settled(n)
  PROVE  /\ up[n] /\ HourOf(n) /\ Current(n) /\ hour[n] = now_sec[n] /\ todo[n] = {}
         /\ at[n] = "loop"
<1>1. up[n] /\ HourOf(n) /\ ~Fresh(n) /\ Current(n) /\ at[n] = "loop" /\ ~Due(n)
  BY DEF KInv, HourInv, Settled, Fresh, Current
<1>2. hour[n] = now_sec[n]
  BY <1>1, DueMeansNext DEF KInv, HourOf
<1> QED
  BY <1>1, <1>2 DEF HourOf

LEMMA SettledKey ==
  ASSUME KInv, NEW n \in Node, NEW m \in Node, n # m, Settled(n), ~overlapped[n]
  PROVE  crypto_key[n][m] = Key(n, m, TimeSeed(hour[n]))
<1>1. KeyOf(n, m)
  BY SettledNow DEF KInv, KeyInv
<1> QED
  BY <1>1, SettledNow, BuiltKey DEF KInv

(* Types, for any number of nodes, hours, frames and crashes.              *)
THEOREM TypeCorrect == Spec => []TypeOK
<1>1. KInv => TypeOK
  BY DEF KInv, Typed
<1> QED
  BY <1>1, Invariant, PTL

(* Nodes whose clocks show the same hour and whose node workers have dealt *)
(* with it have the same keys for each other.                              *)
THEOREM SameKeys == Spec => []KeysAgree
<1>1. KInv => KeysAgree
  <2> SUFFICES ASSUME KInv, cipher = "xor", NEW n \in Node, NEW m \in Node, n # m,
                      Settled(n), Settled(m), hour[n] = hour[m]
               PROVE  crypto_key[n][m] = crypto_key[m][n]
    BY DEF KeysAgree
  <2>1. ~overlapped[n] /\ ~overlapped[m]
    BY DEF KInv, XorInv, Settled
  <2>2. /\ crypto_key[n][m] = Key(n, m, TimeSeed(hour[n]))
        /\ crypto_key[m][n] = Key(m, n, TimeSeed(hour[n]))
    BY <2>1, SettledKey
  <2> QED
    BY <2>2, KeySymmetric
<1> QED
  BY <1>1, Invariant, PTL

(* Whatever words node worker and packet filter store over each other,     *)
(* none is older than the hour before, or it is of 1970; and if they did   *)
(* not come in each other's way, keys and boxes are those of the hour.     *)
THEOREM HourKeys == Spec => []KeysOfTheHour
<1>1. KInv => KeysOfTheHour
  <2> SUFFICES ASSUME KInv, NEW n \in Node, NEW m \in Node, n # m, Settled(n)
               PROVE  /\ \A p \in crypto_key[n][m] :
                           /\ p[1] = {n, m}
                           /\ \A w \in Word :
                                p[3][w] \in {Seed(h) : h \in {0, hour[n] - 1, hour[n]}}
                      /\ ~overlapped[n] =>
                           /\ crypto_key[n][m] = Key(n, m, TimeSeed(hour[n]))
                           /\ HasRebuilt(n) /\ noticed[n] = hour[n] =>
                                arc4_ctx_map[n][m] = crypto_key[n][m]
    BY DEF KeysOfTheHour
  <2>1. /\ up[n] /\ Current(n) /\ hour[n] = now_sec[n] /\ todo[n] = {} /\ at[n] = "loop"
        /\ RecentOf(n, m) /\ BoxOf(n)
    BY SettledNow DEF KInv, RecentInv, BoxInv
  <2>2. \A p \in crypto_key[n][m] : RecentPad(n, m, p)
    BY <2>1 DEF RecentOf, Built
  <2>3. Seeds(n) = {Seed(h) : h \in {0, hour[n] - 1, hour[n]}}
    BY DEF Seeds
  <2>4. ~overlapped[n] => crypto_key[n][m] = Key(n, m, TimeSeed(hour[n]))
    BY SettledKey
  <2>5. ASSUME ~overlapped[n], HasRebuilt(n), noticed[n] = hour[n]
        PROVE  arc4_ctx_map[n][m] = crypto_key[n][m]
    <3>1. MadeInHour(n) /\ pf_todo[n] = {}
      BY <2>1, <2>5 DEF MadeInHour, HasRebuilt, BoxOf
    <3>2. arc4_ctx_map[n][m] = Key(n, m, TimeSeed(now_sec[n]))
      BY <2>1, <3>1 DEF BoxOf
    <3> QED
      BY <2>1, <2>4, <2>5, <3>2
  <2>6. \A p \in crypto_key[n][m] :
          /\ p[1] = {n, m}
          /\ \A w \in Word : p[3][w] \in {Seed(h) : h \in {0, hour[n] - 1, hour[n]}}
    BY <2>2, <2>3 DEF RecentPad
  <2> QED
    BY <2>4, <2>5, <2>6
<1> QED
  BY <1>1, Invariant, PTL

(* A frame under the key of this hour or of the one before is under one of *)
(* the two keys its receiver has.                                          *)
THEOREM TwoKeys == Spec => []PreviousKept
<1>1. KInv => PreviousKept
  <2> SUFFICES ASSUME KInv, cipher = "xor", NEW f \in net, Timely(f)
               PROVE  f.layers \in {crypto_key[f.dst][f.src], pre_crypto_key[f.dst][f.src]}
    BY DEF PreviousKept
  <2> DEFINE n == f.dst
             m == f.src
  <2>1. n \in Node /\ m \in Node /\ m # n
    BY DEF KInv, Typed, TypeOK, FrameInv, Frame
  <2>2. /\ Settled(n) /\ f.layers = Key(m, n, TimeSeed(f.hour))
        /\ f.hour \in seen[n] /\ f.hour \in {hour[n], hour[n] - 1}
    BY DEF Timely
  <2> HIDE DEF n, m
  <2>3. ~overlapped[n] /\ PreOf(n, m)
    BY <2>1, <2>2 DEF KInv, XorInv, Settled
  <2>4. f.layers = Key(n, m, TimeSeed(f.hour))
    BY <2>2, KeySymmetric
  <2>5. CASE f.hour = hour[n]
    <3>1. crypto_key[n][m] = Key(n, m, TimeSeed(hour[n]))
      BY <2>1, <2>2, <2>3, SettledKey
    <3> QED
      BY <2>4, <2>5, <3>1 DEF n, m
  <2>6. CASE f.hour = hour[n] - 1
    <3>1. hour[n] = now_sec[n] /\ at[n] = "loop"
      BY <2>1, <2>2, SettledNow
    <3>2. pre_crypto_key[n][m] = Key(n, m, TimeSeed(now_sec[n] - 1))
      BY <2>2, <2>3, <2>6, <3>1 DEF PreOf
    <3> QED
      BY <2>4, <2>6, <3>1, <3>2 DEF n, m
  <2> QED
    BY <2>2, <2>5, <2>6
<1> QED
  BY <1>1, Invariant, PTL

(* A UR1 frame is sent at most twice, wherever nodes send it.              *)
THEOREM TwoHops == Spec => []Ur1HopsBounded
<1>1. KInv => Ur1HopsBounded
  <2> SUFFICES ASSUME KInv, NEW f \in net
               PROVE  Len(f.path) <= 2
    BY DEF Ur1HopsBounded
  <2>1. f.ttl \in Nat /\ f.path \in Seq(Node \cup Relay)
    BY DEF KInv, Typed, TypeOK, Frame
  <2>2. f.ttl >= 1 /\ Len(f.path) + f.ttl <= 3 /\ Len(f.path) \in Nat
    BY <2>1, LenProperties DEF KInv, Typed, FrameInv
  <2> QED
    BY <2>1, <2>2
<1> QED
  BY <1>1, Invariant, PTL
=============================================================================
