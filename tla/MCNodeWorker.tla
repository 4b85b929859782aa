---------------------------- MODULE MCNodeWorker ----------------------------
(***************************************************************************)
(* NodeWorker for TLC, with three sets of nodes.  A behaviour is one of    *)
(* the first, for the path between two nodes, or, with variables of their  *)
(* own, one of the others, for what never leaves a node; their properties  *)
(* are invariants, and no fairness is assumed of them.                     *)
(***************************************************************************)
EXTENDS NodeWorker

CONSTANTS a, b, s, pa, pb, pc, pd,
          Subject     \* which of "path", "families" and "silent"

(* "path": a, which moves between two places, and b, whose place is in     *)
(* address.conf.                                                           *)
TwoNodes == {a, b}
ThreePlaces == {pa, pb, pc}
PoolOf == [n \in TwoNodes |-> IF n = a THEN {pa, pc} ELSE {pb}]
OnlyB == [n \in TwoNodes |-> IF n = b THEN pb ELSE NoPlace]
NoneSilent == [n \in TwoNodes |-> {}]

(* With a silent node s, whose place is in address.conf too.               *)
ThreeNodes == {a, b, s}
PoolOfThree ==
  [n \in ThreeNodes |-> CASE n = a -> {pa, pc} [] n = b -> {pb} [] n = s -> {pd}]
BAndS ==
  [n \in ThreeNodes |-> CASE n = a -> NoPlace [] n = b -> pb [] n = s -> pd]
OnlyItself == [n \in ThreeNodes |-> IF n = s THEN {s} ELSE {}]

VARIABLES subject, up2, status2, sockaddr2, update2, ping2, notify2, synced2,
          network2, home2, cut2, faults2, heard2

vars2 == <<up2, status2, sockaddr2, update2, ping2, notify2, synced2,
           network2, home2, cut2, faults2, heard2>>

(* Both families, and a place of a that is in the virtual network.         *)
Families == INSTANCE NodeWorker WITH
  Family <- {4, 6}, TunPlace <- {pc}, IndexConfigured <- TRUE,
  UnifiedForwarding <- FALSE, MaxFaults <- 1,
  up <- up2, udp_addr_status <- status2, udp_sockaddr <- sockaddr2,
  update_age <- update2, ping_age <- ping2, notify_age <- notify2,
  synced <- synced2, network <- network2, home <- home2, cut <- cut2,
  faults <- faults2, heard <- heard2

Silence == INSTANCE NodeWorker WITH
  Node <- ThreeNodes, Place <- {pa, pb, pc, pd}, Pool <- PoolOfThree,
  ConfPlace <- BAndS, Silent <- OnlyItself, IndexConfigured <- TRUE,
  UnifiedForwarding <- FALSE, MaxFaults <- 1,
  up <- up2, udp_addr_status <- status2, udp_sockaddr <- sockaddr2,
  update_age <- update2, ping_age <- ping2, notify_age <- notify2,
  synced <- synced2, network <- network2, home <- home2, cut <- cut2,
  faults <- faults2, heard <- heard2

EitherInit ==
  /\ subject \in Subject
  /\ Init
  /\ subject \in {"path", "families"} => Families!Init
  /\ subject = "silent" => Silence!Init

EitherNext ==
  \/ subject = "path" /\ Next /\ UNCHANGED <<subject, vars2>>
  \/ subject = "families" /\ Families!Next /\ UNCHANGED <<subject, vars>>
  \/ subject = "silent" /\ Silence!Next /\ UNCHANGED <<subject, vars>>

(* The fairness of "path"; a behaviour of another subject that met it      *)
(* would have to take a step of "path", so it says nothing of them.        *)
EitherSpec ==
  EitherInit /\ [][EitherNext]_<<subject, vars, vars2>> /\ WF_vars(Progress)

(* No peer is ever placed inside the tunnel (see NodeWorker).              *)
NeverNested == subject = "families" => Families!TunnelNotNested

(* A silent node sends nothing, whoever knows its place (see NodeWorker).  *)
NothingFromSilent == subject = "silent" => Silence!SilentHides
=============================================================================
