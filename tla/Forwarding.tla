----------------------------- MODULE Forwarding -----------------------------
(***************************************************************************)
(* The data plane: the packet filters of all nodes, the network between    *)
(* them, links that come and go as the node workers see them, and time.    *)
(* Frames may be lost, overtake each other and come twice; the configuration says *)
(* which of it happens, and how often.                                     *)
(***************************************************************************)
EXTENDS PacketFilter

VARIABLE spent    \* how much of the budget

vars == <<netvars, ufvars, pfvars, spent>>

TypeOK ==
  /\ conf \in DOMAIN Conf
  /\ link \in [Node -> [Node -> Links]]
  /\ fwd_cur \in [Node -> Nat]
  /\ net \subseteq FrameType(Node \cup {None, Junk})
  /\ UfType /\ PfType
  /\ spent \in Nat

Init ==
  /\ conf \in DOMAIN Conf
  /\ link = Cf.first_link
  /\ fwd_cur = [n \in Node |-> Len(Cf.fwd_node_ring[n])]
  /\ net = {}
  /\ UfInit /\ PfInit
  /\ spent = 0

-----------------------------------------------------------------------------
Spend == spent < Cf.budget /\ spent' = spent + 1
May(fault) == fault \in Cf.faults /\ Spend

(* The surroundings.                                                       *)
Link(n, m, s) ==
  /\ Spend /\ <<n, m>> \in Cf.links /\ link[n][m] # s
  /\ link' = [link EXCEPT ![n][m] = s]
  /\ UNCHANGED <<conf, fwd_cur, net, ufvars, pfvars>>

Lose(f) ==
  /\ May("lose")
  /\ net' = net \ {f}
  /\ UNCHANGED <<conf, link, fwd_cur, ufvars, pfvars>>

LastRelayExpires(n, m) ==
  /\ May("expire") /\ last_relay[n][m] # None
  /\ last_relay' = [last_relay EXCEPT ![n][m] = None]
  /\ UNCHANGED <<netvars, ufvars, selected_route, sent, tun>>

Announce(n, to, m) ==
  /\ Spend /\ SendNotify(n, to, m)
  /\ UNCHANGED <<netvars, pfvars>>
Announced(n, from, m) ==
  HandleNotify(n, from, m) /\ UNCHANGED <<netvars, pfvars, spent>>
Expire(n, m) ==
  May("expire") /\ UfExpires(n, m) /\ UNCHANGED <<netvars, pfvars>>

(* The two operations of the packet filter.                                *)
FromTun(n, d, proto) == TunFrame(n, d, proto) /\ UNCHANGED spent
FromInet(f) == InetFrame(f.to, f, net \ {f}) /\ UNCHANGED spent
FromInetAgain(f) == May("duplicate") /\ InetFrame(f.to, f, net)

Next ==
  \/ \E n, d \in Node, proto \in {"tcp", "other"} : FromTun(n, d, proto)
  \/ \E f \in net : FromInet(f) \/ FromInetAgain(f) \/ Lose(f)
  \/ \E n, m \in Node, s \in Links : Link(n, m, s)
  \/ \E n, m \in Node : LastRelayExpires(n, m) \/ Expire(n, m)
  \/ \E n, k, m \in Node : Announce(n, k, m) \/ Announced(n, k, m)

Spec == Init /\ [][Next]_vars

(* A packet filter goes on with the frames that have come.                 *)
FairSpec == Spec /\ WF_vars(\E f \in net : FromInet(f))

-----------------------------------------------------------------------------
(* No frame is sent more than MaxTtl times, forward nodes that send each   *)
(* other what neither knows the destination of included.                   *)
HopsBounded == \A f \in net : Len(f.path) <= MaxTtl

(* Whoever gets a frame of a relay route can read it: it is encrypted with *)
(* the key it shares with the node the frame names as the last sender, and *)
(* there are as many relays in it as its time to live says.                *)
NextHopReads ==
  \A f \in net : IsRelay(f) =>
    /\ Len(f.ids) = f.ttl
    /\ f.outer = Layer(Last(f.ids), f.to) /\ Last(f.path) = Last(f.ids)

(* What is written to a TUN device is what its source took from its own,   *)
(* whichever way it came: no layer of encryption is left on it.            *)
InClear == \A n \in Node : \A i \in 1 .. Len(tun[n]) : tun[n][i].inner = {}

(* A packet that came along a relay route was sent by the source and the   *)
(* relays of one of its routes in their order, and by nobody else.         *)
FollowsRoute ==
  \A n \in Node : \A i \in 1 .. Len(tun[n]) :
    LET w == tun[n][i]
        routes == Cf.route_node[w.src][n]
    IN "relay" \in w.kind =>
         \E k \in 1 .. Len(routes) : w.path = <<w.src>> \o Reverse(routes[k])

(* The relay a node answers through is the one the last packet of the      *)
(* other node came from.                                                   *)
AnswersTheSameWay ==
  \A n, m \in Node :
    last_relay[n][m] # None =>
      \E i \in 1 .. Len(tun[n]) :
        /\ tun[n][i].src = m /\ "relay" \in tun[n][i].kind
        /\ Last(tun[n][i].path) = last_relay[n][m]
        /\ \A j \in i + 1 .. Len(tun[n]) : tun[n][j].src # m

(* A packet sent over several paths is written once, however many copies   *)
(* come.                                                                   *)
WrittenOnce ==
  \A n \in Node : \A i, j \in 1 .. Len(tun[n]) :
    /\ "multi_path" \in tun[n][i].kind /\ "multi_path" \in tun[n][j].kind
    /\ tun[n][i].src = tun[n][j].src /\ tun[n][i].seq = tun[n][j].seq
    => i = j

(* A relay that is forced is used for every packet.                        *)
Forced(n, d) ==
  "force" \in Cf.node_relay_mode[n][d] /\ Cf.route_node[n][d] # <<>>
ForceIsForced ==
  [][\A f \in net' \ net :
       Len(f.path) = 1 /\ Forced(f.src, f.dst) => IsRelay(f)]_vars

(* A frame on a relay route or on its way through forward nodes arrives    *)
(* where nothing is lost and the nodes know each other.                    *)
Sound == Cf.faults \subseteq {"duplicate"}
         /\ \A n \in Node : Cf.uuid_node_map[n] = Node
InFlight(i) == \E f \in net : f.id = i /\ f.sub \subseteq {"std", "relay"}
Arrives ==
  \A i \in 1 .. 3 :
    (Sound /\ InFlight(i))
      ~> \E n \in Node : \E j \in 1 .. Len(tun[n]) : tun[n][j].id = i
=============================================================================
