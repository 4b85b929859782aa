---------------------------- MODULE IndexNetwork ----------------------------
(***************************************************************************)
(* What the index worker of a node and the index service worker of an      *)
(* index node share: the frames between them and the network that carries  *)
(* them.  Addresses are of one family, which is IPv6 where a node's own    *)
(* idea of its address plays a part.  Datagrams arrive in the order in     *)
(* which they were sent, but for those the network holds back.             *)
(***************************************************************************)
EXTENDS Naturals, Sequences, FiniteSets, SequencesExt

CONSTANTS
  Node,       \* the nodes that look for each other
  Service,    \* the index nodes, in the order of address.conf
  Place,      \* the addresses (with port) nodes can have
  Pool,       \* the addresses each node can have
  NoPlace,    \* the address when nothing is known, with port 0
  Conf        \* the configurations the nodes may share

VARIABLES
  conf,       \* safe_index, and of each node multi_index_type and wan6: what
              \* core_zone->wan6_addr may hold when it posts, which is one of
              \* its addresses, however old, or none
  up,         \* running nodes and index nodes
  home,       \* where a node is: its address as others see it
  network,    \* datagrams on their way, in the order of sending
  held        \* datagrams the network holds back, each with its age in ticks

netvars == <<conf, up, home, network, held>>

Count == Len(Service)
ServiceNode == {Service[k] : k \in 1 .. Count}

ASSUME NetworkAssumption ==
  /\ IsFiniteSet(Place)
  /\ Service \in Seq(ServiceNode) /\ Service # <<>>
  /\ Node \cap ServiceNode = {}
  /\ Place \cap (Node \cup ServiceNode) = {}
  /\ NoPlace \notin Place
  /\ Pool \in [Node -> SUBSET Place]
  /\ Conf \subseteq
       [safe_index : BOOLEAN,
        multi_index_type : [Node -> {"fault-tolerant", "load-balance", "full"}],
        wan6 : [Node -> SUBSET (Place \cup {NoPlace})]]
  /\ \A c \in Conf, n \in Node :
       c.wan6[n] # {} /\ c.wan6[n] \subseteq Pool[n] \cup {NoPlace}
  /\ \A n \in Node : Pool[n] # {}
  /\ \A n, m \in Node : n # m => Pool[n] \cap Pool[m] = {}

(* An age in ticks, which stops at a limit.                                *)
Older(age, limit) == IF age < limit THEN age + 1 ELSE age

-----------------------------------------------------------------------------
(* The frames of gnb_index_frame_type.h.  `to' is the destination address, *)
(* an index node being its own address.                                    *)
Post(n, x, w) ==
  [type |-> "POST", src |-> n, from |-> home[n], to |-> x, wan6 |-> w]

(* A POST that the key of another hour opens to a key nobody has.          *)
Junk(d) == [type |-> "JUNK", from |-> d.from, to |-> d.to]

Echo(x, p, n) ==
  [type |-> "ECHO", src |-> x, to |-> p, dst |-> n]

Request(n, x, m) ==
  [type |-> "REQUEST", src |-> n, from |-> home[n], to |-> x, dst |-> m]

PushAddr(x, p, m, addrs) ==
  [type |-> "PUSH", src |-> x, to |-> p, node |-> m, addrs |-> addrs]

DetectSwapped(n, p, m, arg) ==
  [type |-> "DETECT", src |-> m, from |-> home[n], to |-> p, dst |-> n,
   arg |-> arg]
Detect(n, p, m, arg) ==
  [type |-> "DETECT", src |-> n, from |-> home[n], to |-> p, dst |-> m,
   arg |-> arg]

Frame ==
  [type : {"POST"}, src : Node, from : Place, to : ServiceNode,
   wan6 : Place \cup {NoPlace}]
    \cup [type : {"JUNK"}, from : Place, to : ServiceNode]
    \cup [type : {"ECHO"}, src : ServiceNode, to : Place, dst : Node]
    \cup [type : {"REQUEST"}, src : Node, from : Place, to : ServiceNode,
          dst : Node]
    \cup [type : {"PUSH"}, src : ServiceNode, to : Place, node : Node,
          addrs : SUBSET Place]
    \cup [type : {"DETECT"}, src : Node, from : Place, to : Place, dst : Node,
          arg : {"d", "e"}]

(* A datagram reaches whoever is at its destination.                       *)
Reaches(d, n) == n \in up /\ d.to = (IF n \in Node THEN home[n] ELSE n)

(* The datagrams of a set, sent one after the other.                       *)
Burst(frames) == SetToSeq(frames)

(* The receiver has taken d, which is the first datagram on its way or one *)
(* that was held back, and has sent the sequence out of datagrams.         *)
Exchange(d, out) ==
  \/ /\ network # <<>> /\ d = Head(network)
     /\ network' = Tail(network) \o out
     /\ UNCHANGED held
  \/ \E h \in held :
       /\ d = h.frame
       /\ held' = held \ {h}
       /\ network' = network \o out

(* The datagrams that may arrive next, and all that are on their way.      *)
Arriving ==
  (IF network = <<>> THEN {} ELSE {Head(network)}) \cup {h.frame : h \in held}
OnTheWay == {network[i] : i \in 1 .. Len(network)}
InFlight == OnTheWay \cup {h.frame : h \in held}
=============================================================================
