------------------------- MODULE DetectWorker_proof -------------------------
(***************************************************************************)
(* For every range of ports and all intervals: once there is a path, at    *)
(* most one more probe is sent, and none goes to a port out of the range,  *)
(* whatever the index worker does to the list meanwhile.                   *)
(***************************************************************************)
EXTENDS DetectWorker, Integers, TLAPS

(* A turn that may still probe has counted nothing since the path was      *)
(* found, so the one probe it sends is the first.                          *)
LateOnce == (~pong \/ pc = "walk") => late = 0

InRange == sent # <<>> => sent[2] \in range.from .. range.to

IInv == TypeOK /\ LateOnce /\ InRange

(* The arithmetic of detect_port4: it wraps to 0 after the last port.      *)
LEMMA PortValue ==
  ASSUME DetectAssumption, NEW p \in 0 .. Ports - 1
  PROVE  (p + 1) % Ports = IF p = Ports - 1 THEN 0 ELSE p + 1
<1> USE DEF DetectAssumption
<1>1. CASE p = Ports - 1
  <2>1. p + 1 = Ports
    BY <1>1
  <2>2. Ports % Ports = 0
    BY SMT
  <2> QED BY <1>1, <2>1, <2>2
<1>2. CASE p # Ports - 1
  <2>1. \A k \in 0 .. Ports - 1 : k % Ports = k
    BY SMT
  <2>2. p + 1 \in 0 .. Ports - 1
    BY <1>2
  <2> QED BY <1>2, <2>1, <2>2
<1> QED BY <1>1, <1>2

LEMMA RangeValue ==
  ASSUME DetectAssumption, range \in Range
  PROVE  /\ range.from \in 0 .. Ports - 1 /\ range.to \in 0 .. Ports - 1
         /\ range.from <= range.to
BY DEF DetectAssumption

(* Where the next probe goes, unless it is to port 0.                      *)
LEMMA StepValue ==
  ASSUME DetectAssumption, TypeOK
  PROVE  /\ Step \in 0 .. Ports - 1
         /\ Step # 0 => Step >= range.from
<1>1. /\ port \in 0 .. Ports - 1 /\ Ports \in Nat \ {0}
      /\ range.from \in 0 .. Ports - 1
  BY RangeValue DEF TypeOK, DetectAssumption
<1>2. (port + 1) % Ports = IF port = Ports - 1 THEN 0 ELSE port + 1
  BY <1>1, PortValue
<1> QED BY <1>1, <1>2 DEF Step

LEMMA ProbedPort ==
  ASSUME DetectAssumption, TypeOK, SetAddress
  PROVE  /\ port' \in 0 .. Ports - 1
         /\ port' # 0 => port' \in range.from .. range.to
         /\ idx' \in Cell
<1>1. /\ Ports \in Nat \ {0} /\ range.from \in 0 .. Ports - 1
      /\ range.to \in 0 .. Ports - 1 /\ range.from <= range.to
  BY RangeValue DEF TypeOK, DetectAssumption
<1>2. port' \in 0 .. Ports - 1 /\ (port' # 0 => port' \in range.from .. range.to)
  <2>1. CASE Past
    BY <1>1, <2>1 DEF SetAddress
  <2>2. CASE ~Past
    <3>1. port' = Step /\ ~(Step > range.to)
      BY <2>2 DEF SetAddress, Past
    <3> QED BY <1>1, <3>1, StepValue
  <2> QED BY <2>1, <2>2
<1>3. idx' \in Cell
  BY DEF SetAddress, NextIdx, TypeOK, Cell
<1> QED BY <1>2, <1>3

LEMMA LastCellValue == TypeOK => LastCell \in Cell
<1> SUFFICES ASSUME TypeOK, 3 \notin Occupied PROVE LastCell \in Cell
  BY DEF LastCell, Cell
<1> DEFINE Least(k) == \A l \in Cell \ Occupied : k <= l
<1>1. \E k \in Cell \ Occupied : Least(k)
  <2>1. CASE 1 \notin Occupied
    BY <2>1 DEF Cell
  <2>2. CASE 1 \in Occupied /\ 2 \notin Occupied
    BY <2>2 DEF Cell
  <2>3. CASE 1 \in Occupied /\ 2 \in Occupied
    BY <2>3 DEF Cell
  <2> QED BY <2>1, <2>2, <2>3
<1>2. (CHOOSE k \in Cell \ Occupied : Least(k)) \in Cell
  BY <1>1
<1> QED BY <1>2 DEF LastCell

LEMMA OlderValue ==
  ASSUME NEW limit \in Nat, NEW age \in 0 .. limit
  PROVE  Older(age, limit) \in 0 .. limit
BY DEF Older

LEMMA Limits ==
  ASSUME DetectAssumption
  PROVE  PUSH_OVER \in Nat /\ FULL_OVER \in Nat /\ MaxLag = 1
         /\ MaxLag <= FULL_OVER
BY DEF DetectAssumption, PUSH_OVER, FULL_OVER, MaxLag

LEMMA InitInv == ASSUME DetectAssumption PROVE Init => IInv
<1> SUFFICES ASSUME Init PROVE IInv
  OBVIOUS
<1>1. Ports \in Nat \ {0}
  BY DEF DetectAssumption
<1>2. /\ PUSH_OVER \in 0 .. PUSH_OVER /\ FULL_OVER \in 0 .. FULL_OVER
      /\ 0 \in 0 .. MaxLag
  BY Limits
<1>3. list \in [Cell -> Addr \cup {NoAddr}]
  BY DEF Init
<1>4. LateOnce /\ InRange
  BY DEF Init, LateOnce, InRange
<1>5. {ran, pong} \subseteq BOOLEAN
  BY DEF Init
<1>6. idx \in Cell /\ port \in 0 .. Ports - 1
  BY <1>1 DEF Init, Cell
<1> QED BY <1>2, <1>3, <1>4, <1>5, <1>6 DEF Init, IInv, TypeOK

LEMMA StepInv ==
  ASSUME DetectAssumption, IInv, [Next]_vars
  PROVE  IInv'
<1> USE DEF IInv
<1>0. Ports \in Nat \ {0}
  BY DEF DetectAssumption
<1>1. ASSUME NEW a \in Addr, Push(a) PROVE IInv'
  <2>1. shifting' = shifting \/ shifting' = <<a, LastCell>>
    BY <1>1 DEF Push
  <2>2. shifting' \in {<<>>} \cup (Addr \X Cell)
    BY <2>1, LastCellValue DEF TypeOK
  <2>3. push_age' \in 0 .. PUSH_OVER
    BY <1>1, Limits DEF Push, TypeOK
  <2> QED BY <1>1, <2>2, <2>3 DEF Push, TypeOK, LateOnce, InRange
<1>2. CASE Shift
  <2>1. shifting \in Addr \X Cell
    BY <1>2 DEF Shift, TypeOK
  <2>2. shifting[1] \in Addr /\ shifting[2] \in Cell
    BY <2>1
  <2>3. CASE shifting[2] > 1
    <3>1. shifting[2] - 1 \in Cell
      BY <2>2, <2>3 DEF Cell
    <3>2. /\ list' = [list EXCEPT ![shifting[2]] = list[shifting[2] - 1]]
          /\ shifting' = <<shifting[1], shifting[2] - 1>>
          /\ push_age' = push_age
      BY <1>2, <2>3 DEF Shift
    <3>3. list' \in [Cell -> Addr \cup {NoAddr}]
      BY <3>1, <3>2 DEF TypeOK
    <3>4. shifting' \in Addr \X Cell
      BY <2>2, <3>1, <3>2
    <3> QED BY <1>2, <3>2, <3>3, <3>4 DEF Shift, TypeOK, LateOnce, InRange
  <2>4. CASE ~(shifting[2] > 1)
    <3>1. /\ list' = [list EXCEPT ![1] = shifting[1]]
          /\ shifting' = <<>>
          /\ push_age' = 0
      BY <1>2, <2>4 DEF Shift
    <3>2. list' \in [Cell -> Addr \cup {NoAddr}]
      BY <2>2, <3>1 DEF TypeOK
    <3> QED BY <1>2, <3>1, <3>2, Limits DEF Shift, TypeOK, LateOnce, InRange
  <2> QED BY <2>3, <2>4
<1>3. CASE Connect
  BY <1>3 DEF Connect, TypeOK, LateOnce, InRange
<1>4. CASE Expire
  <2>1. LateOnce' /\ InRange'
    BY <1>4 DEF Expire, LateOnce, InRange
  <2>2. {ran, pong}' \subseteq BOOLEAN
    BY <1>4 DEF Expire, TypeOK
  <2>3. late' \in 0 .. 1
    BY <1>4 DEF Expire
  <2> QED BY <1>4, <2>1, <2>2, <2>3 DEF Expire, TypeOK
<1>5. CASE SyncTime
  BY <1>5, Limits DEF SyncTime, TypeOK, LateOnce, InRange
<1>6. CASE Check
  BY <1>6 DEF Check, Wanted, TypeOK, LateOnce, InRange
<1>7. CASE Walk
  <2>1. /\ port' \in 0 .. Ports - 1
        /\ port' # 0 => port' \in range.from .. range.to
        /\ idx' \in Cell
    BY <1>7, ProbedPort DEF Walk
  <2>2. late = 0
    BY <1>7 DEF Walk, LateOnce
  <2>3. late' \in 0 .. 1 /\ (~pong' => late' = 0)
    BY <1>7, <2>2 DEF Walk, Probe
  <2>4. full_age' \in 0 .. FULL_OVER
    BY <1>7, Limits DEF Walk, TypeOK
  <2>5. /\ sent' \in {<<>>} \cup (Addr \X (1 .. Ports - 1))
        /\ sent' # <<>> => sent'[2] \in range.from .. range.to
    <3>1. CASE sent' = <<>>
      BY <3>1
    <3>2. CASE sent' # <<>>
      <4>1. list[idx] # NoAddr /\ port' # 0 /\ sent' = <<list[idx], port'>>
        BY <1>7, <3>2 DEF Walk, Probe
      <4>2. list[idx] \in Addr /\ port' \in 1 .. Ports - 1
        BY <1>0, <2>1, <4>1 DEF TypeOK
      <4> QED BY <2>1, <4>1, <4>2
    <3> QED BY <3>1, <3>2
  <2> QED BY <1>7, <2>1, <2>3, <2>4, <2>5 DEF Walk, TypeOK, LateOnce, InRange
<1>8. CASE Tick
  <2>1. /\ push_age' \in 0 .. PUSH_OVER /\ full_age' \in 0 .. FULL_OVER
    BY <1>8, Limits, OlderValue DEF Tick, TypeOK
  <2>2. lag' \in 0 .. MaxLag
    BY <1>8, Limits DEF Tick, TypeOK
  <2> QED BY <1>8, <2>1, <2>2 DEF Tick, TypeOK, LateOnce, InRange
<1>9. CASE UNCHANGED vars
  BY <1>9 DEF vars, TypeOK, LateOnce, InRange
<1> QED
  BY <1>1, <1>2, <1>3, <1>4, <1>5, <1>6, <1>7, <1>8, <1>9 DEF Next, Detecting

LEMMA Invariant == ASSUME DetectAssumption PROVE Spec => []IInv
<1>1. Init => IInv
  BY InitInv
<1>2. IInv /\ [Next]_vars => IInv'
  BY StepInv
<1> QED BY <1>1, <1>2, PTL DEF Spec

(* The list, the place in it and the port stay what they are meant to be,  *)
(* although the index worker moves the list on while it is walked, and the *)
(* port goes back to 0 by overflow.                                        *)
THEOREM TypeCorrect == ASSUME DetectAssumption PROVE Spec => []TypeOK
<1>1. IInv => TypeOK
  BY DEF IInv
<1> QED BY <1>1, Invariant, PTL

(* Once a path has been found, one probe at most is still sent, and no     *)
(* probe leaves the range of ports (detect_loop, detect_node_set_address). *)
THEOREM ProbingStops == ASSUME DetectAssumption PROVE Spec => []StopsProbing
<1>1. IInv => StopsProbing
  BY DEF IInv, TypeOK, InRange, StopsProbing
<1> QED BY <1>1, Invariant, PTL
=============================================================================
