---------------------------- MODULE DetectWorker ----------------------------
(***************************************************************************)
(* gnb_detect_worker.c: the thread that, as long as there is no path to a  *)
(* peer, tries all ports of a range at the addresses an index node has     *)
(* pushed, one port at each turn.  The index worker, another thread, puts  *)
(* new addresses in front of the same array without a lock.  The module is *)
(* about one peer; addresses are IPv4 addresses, ages are in ticks.        *)
(***************************************************************************)
EXTENDS Naturals

CONSTANTS
  Addr,             \* addresses of the peer that may be pushed
  NoAddr,           \* 0.0.0.0, in a place of the array never written
  Ports,            \* the number of values of a uint16_t
  Range,            \* port_detect_start and port_detect_end: those to try
  PUSH_INTERVAL,    \* GNB_DETECT_PUSH_ADDRESS_INTERVAL_SEC
  FULL_INTERVAL     \* full_detect_interval_sec

DetectAssumption ==
  /\ NoAddr \notin Addr
  /\ Ports \in Nat \ {0}
  /\ Range \subseteq {r \in [from : 0 .. Ports - 1, to : 0 .. Ports - 1] :
                        r.from <= r.to}
  /\ {PUSH_INTERVAL, FULL_INTERVAL} \subseteq Nat

VARIABLES
  range,
  list,         \* detect_address4_block, its three places
  shifting,     \* where gnb_address_list3_fifo is: <<>>, or what it writes
  idx,          \* detect_address4_idx, counted from 1
  port,         \* detect_port4
  sent,         \* the probe just sent, <<address, port>>, or <<>>
  push_age,     \* since last_push_addr_sec
  full_age,     \* since last_full_detect_sec
  lag,          \* how far now_time_sec of the detect worker is behind
  pc,           \* "loop", "check" or "walk"
  ran,          \* a whole turn has fallen between two ticks
  pong,         \* a PONG bit of the peer is set
  late          \* history: the probes since then

vars == <<range, list, shifting, idx, port, sent, push_age, full_age, lag,
          pc, ran, pong, late>>

Cell == 1 .. 3
MaxLag == 1                       \* bound: a turn takes less than two ticks
PUSH_OVER == PUSH_INTERVAL + 1 + MaxLag
FULL_OVER == FULL_INTERVAL + MaxLag

Init ==
  /\ range \in Range
  /\ list = [k \in Cell |-> NoAddr]
  /\ shifting = <<>>
  /\ idx = 1 /\ port = 0 /\ sent = <<>>
  /\ push_age = PUSH_OVER /\ full_age = FULL_OVER
  /\ lag = 0 /\ pc = "loop" /\ ran = FALSE
  /\ pong = FALSE /\ late = 0

-----------------------------------------------------------------------------
(* The index worker.  A PUSH with an address that is in the list renews    *)
(* only the time; for another one gnb_address_list3_fifo moves the array   *)
(* on, a place at a time.                                                  *)
Occupied == {k \in Cell : list[k] # NoAddr}
LastCell == IF 3 \in Occupied THEN 3
            ELSE CHOOSE k \in Cell \ Occupied :
                   \A l \in Cell \ Occupied : k <= l

Push(a) ==
  /\ shifting = <<>>
  /\ \/ /\ \E k \in Cell : list[k] = a
        /\ push_age' = 0
        /\ UNCHANGED shifting
     \/ /\ \A k \in Cell : list[k] # a
        /\ shifting' = <<a, LastCell>>
        /\ UNCHANGED push_age
  /\ UNCHANGED <<range, list, idx, port, sent, full_age, lag, pc, ran, pong,
                 late>>

Shift ==
  /\ shifting # <<>>
  /\ LET k == shifting[2]
     IN  \/ /\ k > 1
            /\ list' = [list EXCEPT ![k] = list[k - 1]]
            /\ shifting' = <<shifting[1], k - 1>>
            /\ UNCHANGED push_age
         \/ /\ k = 1
            /\ list' = [list EXCEPT ![1] = shifting[1]]
            /\ shifting' = <<>>
            /\ push_age' = 0
  /\ UNCHANGED <<range, idx, port, sent, full_age, lag, pc, ran, pong, late>>

(* A path is found, by whatever probe or ping, and lost.                   *)
Connect ==
  /\ ~pong
  /\ pong' = TRUE
  /\ UNCHANGED <<range, list, shifting, idx, port, sent, push_age, full_age,
                 lag, pc, ran, late>>

Expire ==
  /\ pong
  /\ pong' = FALSE
  /\ late' = 0
  /\ UNCHANGED <<range, list, shifting, idx, port, sent, push_age, full_age,
                 lag, pc, ran>>

-----------------------------------------------------------------------------
(* The detect worker takes the time once for a turn over all peers, ...    *)
SyncTime ==
  /\ pc = "loop"
  /\ pc' = "check"
  /\ lag' = 0
  /\ UNCHANGED <<range, list, shifting, idx, port, sent, push_age, full_age,
                 ran, pong, late>>

(* ... so a time the index worker has taken since is in the future, and    *)
(* the unsigned difference larger than any interval.                       *)
Future(age) == age < lag
RecentlyPushed == ~Future(push_age) /\ push_age - lag <= PUSH_INTERVAL
Rested == Future(full_age) \/ full_age - lag >= FULL_INTERVAL

(* Faulty variant: PONG not looked at.                                     *)
WantedIfPong == RecentlyPushed /\ Rested

Wanted == ~pong /\ RecentlyPushed /\ Rested

(* detect_loop up to the pause before the probe.                           *)
Check ==
  /\ pc = "check"
  /\ pc' = IF Wanted THEN "walk" ELSE "loop"
  /\ ran' = (ran \/ lag = 0)
  /\ UNCHANGED <<range, list, shifting, idx, port, sent, push_age, full_age,
                 lag, pong, late>>

(* Faulty variant: the third place left out.                               *)
NextIdxOfTwo == IF idx = 2 THEN 1 ELSE idx + 1

(* detect_node_set_address.  The address is read before idx goes on.       *)
NextIdx == IF idx = 3 THEN 1 ELSE idx + 1

Step == IF port < range.from THEN range.from ELSE (port + 1) % Ports
Past == list[idx] = NoAddr \/ Step > range.to

SetAddress ==
  /\ idx' = IF Past THEN NextIdx ELSE idx
  /\ port' = IF Past THEN range.from ELSE Step

(* detect_node_address, which sends nothing to port 0; an empty place is   *)
(* passed over before that.                                                *)
Probe ==
  \/ /\ list[idx] = NoAddr \/ port' = 0
     /\ sent' = <<>>
     /\ UNCHANGED late
  \/ /\ list[idx] # NoAddr /\ port' # 0
     /\ sent' = <<list[idx], port'>>
     /\ late' = IF pong THEN late + 1 ELSE 0

(* The rest of the loop, and the rest after the last port.                 *)
Walk ==
  /\ pc = "walk"
  /\ pc' = "loop"
  /\ SetAddress
  /\ Probe
  /\ full_age' = IF list[idx] # NoAddr /\ port' = range.to THEN lag
                 ELSE full_age
  /\ UNCHANGED <<range, list, shifting, push_age, lag, ran, pong>>

-----------------------------------------------------------------------------
(* A tick of the clock, of two or three minutes.  The thread sleeps for a  *)
(* second at most, so a whole turn falls between two ticks; others are cut *)
(* by one.                                                                 *)
Older(age, limit) == IF age < limit THEN age + 1 ELSE age

Tick ==
  /\ ran
  /\ pc # "loop" => lag < MaxLag
  /\ ran' = FALSE
  /\ lag' = IF pc = "loop" THEN 0 ELSE lag + 1
  /\ push_age' = Older(push_age, PUSH_OVER)
  /\ full_age' = Older(full_age, FULL_OVER)
  /\ UNCHANGED <<range, list, shifting, idx, port, sent, pc, pong, late>>

Detecting == SyncTime \/ Check \/ Walk

Next ==
  \/ Detecting \/ Tick \/ Shift
  \/ \E a \in Addr : Push(a)
  \/ Connect \/ Expire

Spec == Init /\ [][Next]_vars

(* The threads run, a handler ends, and time passes.                       *)
FairSpec ==
  Spec /\ WF_vars(Detecting) /\ WF_vars(Shift) /\ WF_vars(Tick)

-----------------------------------------------------------------------------
TypeOK ==
  /\ range \in Range
  /\ list \in [Cell -> Addr \cup {NoAddr}]
  /\ shifting \in {<<>>} \cup (Addr \X Cell)
  /\ idx \in Cell
  /\ port \in 0 .. Ports - 1
  /\ sent \in {<<>>} \cup (Addr \X (1 .. Ports - 1))
  /\ push_age \in 0 .. PUSH_OVER
  /\ full_age \in 0 .. FULL_OVER
  /\ lag \in 0 .. MaxLag
  /\ pc \in {"loop", "check", "walk"}
  /\ {ran, pong} \subseteq BOOLEAN
  /\ late \in 0 .. 1

(* Once there is a path to the peer, at most one more probe is sent, that  *)
(* of a turn which looked before the other thread found the path; and no   *)
(* probe, however ranges and lists change meanwhile, goes to a port out of *)
(* the range.                                                              *)
StopsProbing ==
  /\ late <= 1
  /\ sent # <<>> => sent[2] \in range.from .. range.to

(* gnb_index_worker.c:288 lists the addresses so that the newest is probed *)
(* first, and the manual (line 574) says that the thread detects a wide    *)
(* range of ports of peers without a path: as long as a peer has none and  *)
(* index nodes push it again and again, every port of the range is tried   *)
(* at every address that stays in the list.                                *)
Scannable(a, p) ==
  /\ ~pong /\ \E k \in Cell : list[k] = a
  /\ p \in range.from .. range.to

EveryPortProbed ==
  \A a \in Addr, p \in 1 .. Ports - 1 :
    <>[]Scannable(a, p) /\ []<>(push_age = 0) => <>(sent = <<a, p>>)
=============================================================================
