-------------------------- MODULE UnifiedForwarding --------------------------
(***************************************************************************)
(* Unified forwarding (gnb_unified_forwarding.c): nodes tell each other    *)
(* whom they reach, and a packet for a node that cannot be reached goes    *)
(* through one that has told so, or through several at once; then the      *)
(* receiver keeps the numbers it has seen to write a packet only once.     *)
(*                                                                         *)
(* Times are not kept: an announcement and the chosen node are marked as   *)
(* expired by steps of their own, and of the live announcements any may    *)
(* have the time stamp that decides.                                       *)
(***************************************************************************)
EXTENDS NodeSend

CONSTANTS
  ArraySize,      \* GNB_UNIFIED_FORWARDING_NODE_ARRAY_SIZE
  SeqArraySize,   \* UNIFIED_FORWARDING_RECV_SEQ_ARRAY_SIZE
  Junk            \* an id that is not 0 and that no node has

ASSUME SizeAssumption ==
  /\ ArraySize \in Nat \ {0} /\ SeqArraySize \in Nat \ {0}
  /\ Junk \notin Node \cup {None}

VARIABLES
  uf_nodeid,    \* unified_forwarding_nodeid: the node chosen for another
  uf_recent,    \* and whether it was used within the last 15 seconds
  uf_array,     \* unified_forwarding_node_array: who said to reach another
  send_seq,     \* unified_forwarding_send_seq
  recv_seq,     \* unified_forwarding_recv_seq_array of the node itself
  notes         \* announcements on their way: <<from, to, whom it reaches>>

ufvars == <<uf_nodeid, uf_recent, uf_array, send_seq, recv_seq, notes>>

Slot == [uuid64 : Node \cup {None}, live : BOOLEAN]
EmptySlot == [uuid64 |-> None, live |-> FALSE]

UfType ==
  /\ uf_nodeid \in [Node -> [Node -> Node \cup {None, Junk}]]
  /\ uf_recent \in [Node -> [Node -> BOOLEAN]]
  /\ uf_array \in [Node -> [Node -> [1 .. ArraySize -> Slot]]]
  /\ send_seq \in [Node -> [Node -> Nat]]
  /\ recv_seq \in [Node -> [1 .. SeqArraySize -> Nat]]
  /\ notes \subseteq Node \X Node \X Node

UfInit ==
  /\ uf_nodeid = [n \in Node |-> [d \in Node |-> None]]
  /\ uf_recent = [n \in Node |-> [d \in Node |-> FALSE]]
  /\ uf_array = [n \in Node |-> [d \in Node |->
                   [i \in 1 .. ArraySize |-> EmptySlot]]]
  /\ send_seq = [n \in Node |-> [d \in Node |-> 0]]
  /\ recv_seq = [n \in Node |-> [i \in 1 .. SeqArraySize |-> 0]]
  /\ notes = {}

-----------------------------------------------------------------------------
(* Announcements.                                                          *)

(* unifield_forwarding_notify for one node m that n reaches.               *)
SendNotify(n, to, m) ==
  /\ <<n, to, m>> \in Cf.announcements
  /\ Cf.unified_forwarding[n] # "off"
  /\ Live(n, to) /\ Live(n, m) /\ Cardinality({n, to, m}) = 3
  /\ notes' = notes \cup {<<n, to, m>>}
  /\ UNCHANGED <<uf_nodeid, uf_recent, uf_array, send_seq, recv_seq>>

(* The slot for the announcement of a node: the first that is empty, its   *)
(* own or expired, and when all are taken that with the latest time stamp. *)
Takes(slot, n) == slot.uuid64 \in {None, n} \/ ~slot.live
SlotsFor(array, n) ==
  LET free == {i \in 1 .. ArraySize : Takes(array[i], n)}
  IN IF free = {} THEN 1 .. ArraySize ELSE {Min(free)}

HandleNotify(n, from, m) ==
  /\ <<from, n, m>> \in notes
  /\ notes' = notes \ {<<from, n, m>>}
  /\ IF Knows(n, from) /\ Knows(n, m)
     THEN \E i \in SlotsFor(uf_array[n][m], from) :
            uf_array' = [uf_array EXCEPT ![n][m][i] =
                           [uuid64 |-> from, live |-> TRUE]]
     ELSE UNCHANGED uf_array
  /\ UNCHANGED <<uf_nodeid, uf_recent, send_seq, recv_seq>>

UfExpires(n, m) ==
  /\ "expire" \in Cf.faults
  /\ \/ /\ uf_recent[n][m]
        /\ uf_recent' = [uf_recent EXCEPT ![n][m] = FALSE]
        /\ UNCHANGED uf_array
     \/ \E i \in 1 .. ArraySize :
          /\ uf_array[n][m][i].live
          /\ uf_array' = [uf_array EXCEPT ![n][m][i].live = FALSE]
          /\ UNCHANGED uf_recent
  /\ UNCHANGED <<uf_nodeid, send_seq, recv_seq, notes>>

-----------------------------------------------------------------------------
(* From the TUN device.                                                    *)

(* gnb_setup_unified_forwarding_nodeid: a node chosen before is kept when  *)
(* it has NOT been used lately.  The first slot wins against younger ones  *)
(* whether it has expired or not.                                          *)
Candidates(n, d) ==
  LET array == uf_array[n][d]
  IN IF array[1].live
     THEN {array[i].uuid64 : i \in {j \in 1 .. ArraySize : array[j].live}}
     ELSE {array[1].uuid64}
Keeps(n, d) == uf_nodeid[n][d] # None /\ ~uf_recent[n][d]
SetupNodeid(n, d) ==
  IF Keeps(n, d) THEN {uf_nodeid[n][d]} ELSE Candidates(n, d)

NextSeq(n, d) == Max({send_seq[n][d], Cf.clock[n]}) + 1

(* gnb_unified_forwarding_tun; it succeeds when the chosen node is known.  *)
UnifiedTun(n, d, uf, f) ==
  /\ uf \in SetupNodeid(n, d)
  /\ uf_nodeid' = [uf_nodeid EXCEPT ![n][d] = uf]
  /\ IF Knows(n, uf)
     THEN /\ net' = net \cup
               {Sent(n, uf, [f EXCEPT !.sub = @ \cup {"unified"},
                               !.foot = [uf |-> uf, seq |-> NextSeq(n, d)]])}
          /\ send_seq' = [send_seq EXCEPT ![n][d] = NextSeq(n, d)]
          /\ uf_recent' = [uf_recent EXCEPT ![n][d] = TRUE]
     ELSE /\ UNCHANGED <<net, send_seq>>
          /\ uf_recent' = [uf_recent EXCEPT ![n][d] = ~Keeps(n, d)]

(* gnb_unified_forwarding_with_multi_path_tun: a copy to the destination   *)
(* and, through the live announcements in the order of the slots, to six   *)
(* others.  The first copy carries in place of the forwarding node what    *)
(* the block held there: that of a frame before, for this destination or   *)
(* another one, or anything.                                               *)
MostPaths == 6
MultiPathTun(n, d, f) ==
  LET usable == {i \in 1 .. ArraySize :
                   uf_array[n][d][i].live /\ Knows(n, uf_array[n][d][i].uuid64)}
      used == {i \in usable : Cardinality({j \in usable : j < i}) < MostPaths}
      Copy(uf, to) ==
        Sent(n, to, [f EXCEPT !.sub = @ \cup {"multi_path"},
                       !.foot = [uf |-> uf, seq |-> NextSeq(n, d)]])
      copies == {Copy(uf_array[n][d][i].uuid64, uf_array[n][d][i].uuid64) : i \in used}
  IN /\ \E held \in {uf_nodeid[n][m] : m \in Node} \cup {Junk} :
          net' = net \cup {Copy(held, d)} \cup copies
     /\ send_seq' = [send_seq EXCEPT ![n][d] = NextSeq(n, d)]
     /\ uf_nodeid' = [uf_nodeid EXCEPT ![n][d] =
                        IF used = {} THEN @ ELSE uf_array[n][d][Max(used)].uuid64]
     /\ uf_recent' = [uf_recent EXCEPT ![n][d] = TRUE]

-----------------------------------------------------------------------------
(* From the network.                                                       *)

(* A frame for somebody else goes on as it is.                             *)
UnifiedInet(n, f) ==
  IF /\ Knows(n, f.src) /\ Knows(n, f.dst) /\ n \notin Cf.silent
  THEN {Sent(n, f.dst, f)} ELSE {}

NotesPath(n, f) ==
  /\ uf_nodeid' = [uf_nodeid EXCEPT ![n][f.src] = f.foot.uf]
  /\ uf_recent' = [uf_recent EXCEPT ![n][f.src] = TRUE]

(* The place of the least number, which a new one takes.                   *)
MinIdx(array) ==
  CHOOSE i \in DOMAIN array : \A j \in DOMAIN array : array[i] <= array[j]
IsNewIfNotOld(array, seq) == seq >= array[MinIdx(array)]
IsNew(array, seq) ==
  /\ \A i \in DOMAIN array : array[i] # seq
  /\ seq >= array[MinIdx(array)]
RememberedAtEnd(array, seq) == Append(array, seq)
Remembered(array, seq) == [array EXCEPT ![MinIdx(array)] = seq]
=============================================================================
