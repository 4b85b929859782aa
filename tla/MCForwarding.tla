---------------------------- MODULE MCForwarding ----------------------------
(***************************************************************************)
(* Networks of up to six nodes.                                            *)
(***************************************************************************)
EXTENDS Forwarding

CONSTANTS a, b, c, d, e, z

SixNodes == {a, b, c, d, e, z}

(* Nobody is in touch with anybody, everybody knows everybody.             *)
Base ==
  [fwd_node_ring |-> [n \in Node |-> <<>>],
   load_balance |-> {},
   direct_forwarding |-> Node,
   standard_forwarding |-> Node,
   silent |-> {},
   unified_forwarding |-> [n \in Node |-> "off"],
   uuid_node_map |-> [n \in Node |-> Node],
   node_relay_mode |-> [n \in Node |-> [m \in Node |-> {}]],
   route_node |-> [n \in Node |-> [m \in Node |-> <<>>]],
   pf_crypto |-> TRUE,
   traffic |-> {},
   packets |-> 2,
   faults |-> {},
   links |-> {},
   announcements |-> {},
   budget |-> 0,
   first_link |-> [n \in Node |-> [m \in Node |-> "none"]],
   clock |-> [n \in Node |-> 0]]

Linked(pairs) ==
  [n \in Node |-> [m \in Node |-> IF {n, m} \in pairs THEN "pong" ELSE "none"]]

(* a sends to d through b and c, and d back through the last relay or its  *)
(* own route.                                                              *)
RelayBothWays ==
  [Base EXCEPT
     !.node_relay_mode[a][d] = {"force", "static"},
     !.node_relay_mode[d][a] = {"auto"},
     !.route_node[a][d] = <<<<c, b>>>>,
     !.route_node[d][a] = <<<<e>>>>,
     !.traffic = {<<a, d>>, <<d, a>>}, !.packets = 3,
     !.first_link = Linked({{c, d}}), !.links = {<<d, c>>, <<d, a>>},
     !.faults = {"expire", "duplicate"}, !.budget = 2]

(* Two routes in turn, the second with four relays.                        *)
Balanced ==
  [Base EXCEPT
     !.node_relay_mode[a][z] = {"force", "balance"},
     !.route_node[a][z] = <<<<b>>, <<e, d, c, b>>>>,
     !.traffic = {<<a, z>>}, !.packets = 3,
     !.first_link = Linked({{a, z}}),
     !.faults = {"duplicate"}, !.budget = 1]

(* b and c are each other's forward node and know a only; e has left, z    *)
(* has nothing to send through, and nothing is encrypted.                  *)
Bounce ==
  [Base EXCEPT
     !.fwd_node_ring[a] = <<b, c>>, !.load_balance = {a},
     !.fwd_node_ring[b] = <<c>>, !.fwd_node_ring[c] = <<b>>,
     !.uuid_node_map[b] = {a, b, c}, !.uuid_node_map[c] = {a, b, c},
     !.direct_forwarding = Node \ {z}, !.pf_crypto = FALSE,
     !.traffic = {<<a, e>>, <<z, a>>},
     !.first_link = Linked({{a, b}, {a, c}, {b, c}}),
     !.links = {<<a, b>>, <<a, e>>}, !.faults = {"lose"}, !.budget = 2]

(* Forward nodes that know the destination, or a relay when none answers.  *)
Forwarded ==
  [Base EXCEPT
     !.fwd_node_ring[a] = <<b, c>>, !.fwd_node_ring[d] = <<b>>,
     !.direct_forwarding = Node \ {d},
     !.node_relay_mode[a][d] = {"auto"}, !.route_node[a][d] = <<<<e>>>>,
     !.traffic = {<<a, d>>, <<d, a>>}, !.first_link = Linked({{a, b}, {a, c}}),
     !.links = {<<a, b>>, <<a, c>>, <<a, d>>},
     !.faults = {"duplicate"}, !.budget = 2]

(* a and b meet through c or d.                                            *)
Unified ==
  [Base EXCEPT
     !.unified_forwarding = [n \in Node |-> IF n = b THEN "force" ELSE "auto"],
     !.silent = {d},
     !.traffic = {<<a, b>>, <<b, a>>},
     !.first_link = Linked({{a, c}, {b, c}, {a, d}, {b, d}}),
     !.announcements = {<<c, a, b>>, <<d, a, b>>, <<c, b, a>>},
     !.faults = {"expire"}, !.budget = 3]

(* Packets of a to b over several paths at once.                           *)
ManyPaths ==
  [Base EXCEPT
     !.unified_forwarding = [n \in Node |-> IF n = a THEN "hyper" ELSE "auto"],
     !.traffic = {<<a, b>>}, !.packets = 3,
     !.first_link = Linked({{a, c}, {b, c}, {a, e}, {b, e}}),
     !.announcements = {<<c, a, b>>, <<e, a, b>>},
     !.budget = 1]

(* And of two nodes, whose clocks differ.                                  *)
TwoSources ==
  [ManyPaths EXCEPT
     !.unified_forwarding[d] = "super",
     !.traffic = {<<a, b>>, <<d, b>>}, !.packets = 3,
     !.announcements = {<<c, d, b>>},
     !.faults = {"duplicate", "expire"}, !.budget = 1,
     !.clock = [n \in Node |-> IF n = d THEN 5 ELSE 0],
     !.first_link = Linked({{d, c}, {b, c}})]

(* b has not been told of a.                                               *)
Strangers ==
  [Base EXCEPT
     !.unified_forwarding[c] = "auto",
     !.uuid_node_map[b] = {b, c}, !.traffic = {<<a, b>>}, !.packets = 1,
     !.first_link = Linked({{a, b}, {a, c}, {b, c}}),
     !.announcements = {<<c, b, a>>}, !.budget = 1]

Networks ==
  <<RelayBothWays, Balanced, Bounce, Forwarded, Unified, ManyPaths, TwoSources,
    Strangers>>

(* A forward node beside several paths.                                    *)
WithForward ==
  <<[ManyPaths EXCEPT !.fwd_node_ring[a] = <<d>>,
                      !.first_link = Linked({{a, c}, {b, c}, {a, e}, {b, e}, {a, d}})]>>
=============================================================================
