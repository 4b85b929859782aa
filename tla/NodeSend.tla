------------------------------ MODULE NodeSend ------------------------------
(***************************************************************************)
(* What the packet filter uses of gnb_node.c: the choice of a forward node *)
(* and the sending of a payload to a node; and the frames of IP packets    *)
(* with the network that carries them.                                     *)
(*                                                                         *)
(* The configuration is a variable no step changes, so that one run can go *)
(* through many of them.  Its fields have the names of gnb_conf_t,         *)
(* gnb_node_t and gnb_core_t; the last ones describe the surroundings: who *)
(* sends to whom and how many packets; what may happen, which links may    *)
(* change and who may tell whom whom it reaches, and how often; the links  *)
(* there are at the start, and the clocks.                                 *)
(***************************************************************************)
EXTENDS Naturals, Sequences, FiniteSets, FiniteSetsExt, Functions

CONSTANTS
  Node,       \* the nodes
  None,       \* no node: the NULL and 0 of the code
  Conf        \* the configurations, in a list

VARIABLES
  conf,       \* the number of the one in use
  link,       \* what a node knows of its way to another: udp_addr_status
  fwd_cur,    \* fwd_node_ring.cur_index of each node
  net         \* the frames on their way

netvars == <<conf, link, fwd_cur, net>>

Modes == {"off", "auto", "force", "super", "hyper"}
RelayModes == {"auto", "force", "static", "balance"}
Links == {"none", "ping", "pong"}
Faults == {"lose", "duplicate", "expire"}
SubTypes == {"std", "relay", "unified", "multi_path"}

Cf == Conf[conf]

ConfType ==
  [fwd_node_ring : [Node -> Seq(Node)],
   load_balance : SUBSET Node,            \* multi_forward_type, no pf_worker
   direct_forwarding : SUBSET Node,
   standard_forwarding : SUBSET Node,
   silent : SUBSET Node,
   unified_forwarding : [Node -> Modes],
   uuid_node_map : [Node -> SUBSET Node],
   node_relay_mode : [Node -> [Node -> SUBSET RelayModes]],
   route_node : [Node -> [Node -> Seq(Seq(Node))]],
   pf_crypto : BOOLEAN,
   traffic : SUBSET (Node \X Node),
   packets : Nat,
   faults : SUBSET Faults,
   links : SUBSET (Node \X Node),
   announcements : SUBSET (Node \X Node \X Node),
   budget : Nat,
   first_link : [Node -> [Node -> Links]],
   clock : [Node -> Nat]]

(* Every node knows itself, those it talks to and the nodes its            *)
(* configuration names, and nobody is set up to talk to itself.            *)
ASSUME ConfAssumption ==
  /\ None \notin Node
  /\ Conf \in Seq(ConfType)
  /\ \A c \in Range(Conf), n \in Node :
       /\ n \in c.uuid_node_map[n]
       /\ Range(c.fwd_node_ring[n]) \subseteq c.uuid_node_map[n] \ {n}
       /\ \A d \in Node :
            /\ <<n, d>> \in c.traffic => d \in c.uuid_node_map[n] \ {n}
            /\ \A k \in 1 .. Len(c.route_node[n][d]) :
                 /\ c.route_node[n][d][k] # <<>>
                 /\ Range(c.route_node[n][d][k]) \subseteq c.uuid_node_map[n]

-----------------------------------------------------------------------------
(* `path' is not part of a frame: it keeps the nodes that sent it.  `ids'  *)
(* is the list of relays at its end, `foot' that of unified forwarding,    *)
(* `inner' and `outer' are the keys its IP packet and all of it but the    *)
(* last relay are encrypted with.  Foot has what may name a node there.    *)
FrameType(Foot) ==
  [id : Nat, src : Node, dst : Node, ttl : Nat, sub : SUBSET SubTypes,
   ids : Seq(Node), inner : SUBSET SUBSET Node, outer : SUBSET SUBSET Node,
   foot : [uf : Foot, seq : Nat], to : Node, path : Seq(Node)]

(* The key two nodes share.  The ciphers are streams: encrypting again     *)
(* with the same key undoes it, in any order.                              *)
Layer(n, m) == IF Cf.pf_crypto THEN {{n, m}} ELSE {}
Crypted(layers, key) == (layers \ key) \cup (key \ layers)

Knows(n, m) == m \in Cf.uuid_node_map[n]
Live(n, m) == link[n][m] = "pong"

SelectForwardNode(n) ==
  LET ring == Cf.fwd_node_ring[n]
      live == {i \in 1 .. Len(ring) : Live(n, ring[i])}
  IN CASE ring = <<>> -> None
       [] n \in Cf.load_balance /\ fwd_cur[n] \in live -> ring[fwd_cur[n]]
       [] n \notin Cf.load_balance /\ live # {} -> ring[Min(live)]
       [] OTHER -> ring[1]

(* The index moves on only when the node it points at is used.             *)
AdvanceRing(n) ==
  LET ring == Cf.fwd_node_ring[n]
      moves == /\ n \in Cf.load_balance /\ Len(ring) > 1
               /\ Live(n, ring[fwd_cur[n]])
  IN fwd_cur' = [fwd_cur EXCEPT ![n] =
                   IF ~moves THEN @ ELSE IF @ = Len(ring) THEN 1 ELSE @ + 1]

(* gnb_p2p_forward_payload_to_node: whatever is known of the way.          *)
Sent(n, m, f) == [f EXCEPT !.to = m, !.path = Append(@, n)]

=============================================================================
