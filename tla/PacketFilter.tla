---------------------------- MODULE PacketFilter ----------------------------
(***************************************************************************)
(* The packet filter: gnb_pf_tun and gnb_pf_inet of gnb_pf.c with the      *)
(* route module (packet_filter/gnb_pf_route.c) and one of the two stream   *)
(* ciphers.  A packet from the TUN device goes to its destination, along a *)
(* relay route, to a forward node or by unified forwarding; a frame from   *)
(* the network goes to the TUN device or on to another node.               *)
(*                                                                         *)
(* Packets fit their blocks, are not compressed, are for addresses of      *)
(* nodes, and the public UDP relays of the ur0 frames are not configured.  *)
(***************************************************************************)
EXTENDS UnifiedForwarding, SequencesExt

CONSTANTS
  MaxTtl,      \* GNB_PAYLOAD_MAX_TTL
  MaxRelay,    \* GNB_MAX_NODE_RELAY
  MaxRoute     \* GNB_MAX_NODE_ROUTE

ASSUME LimitAssumption ==
  /\ MaxTtl \in Nat \ {0, 1} /\ MaxRelay \in Nat /\ MaxRoute \in Nat
  /\ MaxRelay < MaxRoute
  /\ \A c \in Range(Conf), n, d \in Node :
       /\ Len(c.route_node[n][d]) <= MaxRoute
       /\ \A k \in 1 .. Len(c.route_node[n][d]) :
            Len(c.route_node[n][d][k]) <= MaxRelay
       /\ ~({"static", "balance"} \subseteq c.node_relay_mode[n][d])

VARIABLES
  last_relay,       \* last_relay_nodeid, None once it has expired
  selected_route,   \* selected_route_node, which counts from 0
  sent,             \* how many packets have come from the TUN devices
  tun               \* what each node has written to its TUN device

pfvars == <<last_relay, selected_route, sent, tun>>

Written == [id : Nat, src : Node, kind : SUBSET SubTypes, seq : Nat,
            inner : SUBSET SUBSET Node, path : Seq(Node)]

PfType ==
  /\ last_relay \in [Node -> [Node -> Node \cup {None}]]
  /\ selected_route \in [Node -> [Node -> 0 .. MaxRoute]]
  /\ sent \in Nat
  /\ tun \in [Node -> Seq(Written)]

PfInit ==
  /\ last_relay = [n \in Node |-> [d \in Node |-> None]]
  /\ selected_route = [n \in Node |-> [d \in Node |-> 0]]
  /\ sent = 0
  /\ tun = [n \in Node |-> <<>>]

-----------------------------------------------------------------------------
(* pf_tun_route_cb: where a packet of n for d goes.                        *)

Way(fwd, ret, sub) == [fwd |-> fwd, ret |-> ret, sub |-> sub]
Direct(n, d) == \/ Live(n, d)
                \/ /\ link[n][d] = "ping" /\ Cf.fwd_node_ring[n] = <<>>
                   /\ Cf.unified_forwarding[n] = "off"

FirstChoice(n, d) ==
  LET select == SelectForwardNode(n)
  IN CASE n \notin Cf.direct_forwarding ->
            Way(select, IF select # None THEN "next" ELSE "error", {})
       [] n \in Cf.direct_forwarding /\ Direct(n, d) -> Way(d, "next", {})
       [] OTHER -> IF select # None /\ Live(n, select)
                   THEN Way(select, "next", {"std"}) ELSE Way(None, "drop", {})

(* route_node_ttls[selected_route_node]; past its end lies the index       *)
(* itself.                                                                 *)
RelayCount(n, d) ==
  LET at == selected_route[n][d]
  IN CASE at < Len(Cf.route_node[n][d]) -> Len(Cf.route_node[n][d][at + 1])
       [] at = MaxRoute -> at
       [] OTHER -> 0

Relays(n, d, ret) ==
  LET mode == Cf.node_relay_mode[n][d]
  IN /\ mode \cap {"force", "auto"} # {}
     /\ ~("auto" \in mode /\ ret = "next")
     /\ RelayCount(n, d) \in 1 .. MaxRelay

RouteAsWritten(n, d) ==
  IF "static" \in Cf.node_relay_mode[n][d]
  THEN Reverse(Cf.route_node[n][d][1])
  ELSE Reverse(Cf.route_node[n][d][selected_route[n][d] + 1])
Route(n, d) ==
  IF "static" \in Cf.node_relay_mode[n][d]
  THEN Cf.route_node[n][d][1]
  ELSE Cf.route_node[n][d][selected_route[n][d] + 1]

(* Static goes back to the first route, balance on to the next: past the   *)
(* last of MaxRoute ones lie the lengths of the routes, which are not 0.   *)
NextRouteOneMore(n, d) ==
  IF "balance" \in Cf.node_relay_mode[n][d]
  THEN LET next == selected_route[n][d] + 1
       IN IF next <= Len(Cf.route_node[n][d]) THEN next ELSE 0
  ELSE selected_route[n][d]
NextRoute(n, d) ==
  LET mode == Cf.node_relay_mode[n][d]
      next == selected_route[n][d] + 1
  IN CASE "static" \in mode -> 0
       [] "balance" \in mode ->
            IF next < Len(Cf.route_node[n][d]) \/ next = MaxRoute THEN next ELSE 0
       [] OTHER -> selected_route[n][d]

UsesLastRelay(n, d) ==
  last_relay[n][d] # None /\ Knows(n, last_relay[n][d]) /\ Live(n, last_relay[n][d])

-----------------------------------------------------------------------------
(* gnb_pf_tun for a packet of protocol `proto'.                            *)

Packet(n, d) ==
  [id |-> sent + 1, src |-> n, dst |-> d, ttl |-> MaxTtl, sub |-> {},
   ids |-> <<>>, inner |-> Layer(n, d), outer |-> {},
   foot |-> [uf |-> None, seq |-> 0], to |-> n, path |-> <<>>]

TunRelay(n, d) ==
  LET route == Route(n, d)
      hop == route[Len(route)]
      f == [Packet(n, d) EXCEPT !.sub = FirstChoice(n, d).sub \cup {"relay"},
              !.ids = Append(route, n), !.ttl = Len(route) + 1,
              !.outer = Layer(n, hop)]
  IN /\ net' = net \cup {Sent(n, hop, f)}
     /\ selected_route' = [selected_route EXCEPT ![n][d] = NextRoute(n, d)]
     /\ UNCHANGED ufvars

(* Without a relay; `way' is what the route module has found.              *)
TunForward(n, d, way, proto) ==
  LET f == [Packet(n, d) EXCEPT !.sub = way.sub]
      mode == Cf.unified_forwarding[n]
      Unified ==
        \E uf \in Node \cup {None, Junk} : UnifiedTun(n, d, uf, f)
      OrToItself ==     \* when that fails
        \E uf \in SetupNodeid(n, d) :
          IF Knows(n, uf) THEN UnifiedTun(n, d, uf, f)
          ELSE /\ net' = net \cup {Sent(n, d, f)}
               /\ uf_nodeid' = [uf_nodeid EXCEPT ![n][d] = uf]
               /\ uf_recent' = [uf_recent EXCEPT ![n][d] = ~Keeps(n, d)]
               /\ UNCHANGED send_seq
  IN \/ /\ way.ret = "error"
        /\ UNCHANGED <<net, ufvars>>
     \/ /\ way.ret # "error"
        /\ UNCHANGED <<uf_array, recv_seq, notes>>
        /\ \/ /\ mode = "force" \/ (mode = "auto" /\ way.fwd = None)
              /\ Unified
           \/ mode = "super" /\ proto # "tcp" /\ OrToItself
           \/ /\ mode = "hyper" \/ (mode = "super" /\ proto = "tcp")
              /\ MultiPathTun(n, d, f)
           \/ /\ mode = "off" \/ (mode = "auto" /\ way.fwd # None)
              /\ net' = IF way.fwd = None THEN net
                        ELSE net \cup {Sent(n, way.fwd, f)}
              /\ UNCHANGED <<uf_nodeid, uf_recent, send_seq>>

TunFrame(n, d, proto) ==
  LET first == FirstChoice(n, d)
      way == IF UsesLastRelay(n, d)
             THEN Way(last_relay[n][d], "next", first.sub) ELSE first
  IN /\ sent < Cf.packets
     /\ <<n, d>> \in Cf.traffic
     /\ sent' = sent + 1
     /\ AdvanceRing(n)
     /\ IF Relays(n, d, first.ret) THEN TunRelay(n, d)
        ELSE TunForward(n, d, way, proto) /\ UNCHANGED selected_route
     /\ UNCHANGED <<conf, link, last_relay, tun>>

-----------------------------------------------------------------------------
(* gnb_pf_inet.  Received(n, f) is the frame after pf_inet_frame: the      *)
(* layer of the hop taken off, the time to live one less.                  *)

IsRelay(f) == "relay" \in f.sub
ReceivedKeepsTtl(n, f) ==
  [f EXCEPT !.outer = IF IsRelay(f) /\ Knows(n, Last(f.ids))
                      THEN Crypted(@, Layer(n, Last(f.ids))) ELSE @,
            !.ttl = IF IsRelay(f) THEN @ - 1 ELSE @]
Received(n, f) ==
  [f EXCEPT !.outer = IF IsRelay(f) /\ Knows(n, Last(f.ids))
                      THEN Crypted(@, Layer(n, Last(f.ids))) ELSE @,
            !.ttl = IF @ > 0 THEN @ - 1 ELSE 0]

(* Its head can be read, and the time to live it came with is in range.    *)
Readable(g, ttl) == g.outer = {} /\ ttl <= MaxTtl

(* The frame a relay route asks n to send on, if it is the turn of n.      *)
NextHopFirst(f) == IF f.ttl = 2 THEN f.dst ELSE f.ids[1]
NextHop(f) ==
  IF f.ttl = 2 THEN f.dst ELSE f.ids[f.ttl - 2]
OnRoute(n, f) ==
  /\ f.ttl > 1
  /\ f.ttl > 2 => f.ids[f.ttl - 1] = n /\ f.ids[f.ttl - 2] # n
  /\ Knows(n, NextHop(f))

(* The layer of the two ends is taken off.                                 *)
OpenedOfHop(n, f, g) ==
  Crypted(g.inner, Layer(n, IF IsRelay(f) THEN f.ids[f.ttl] ELSE g.src))
Opened(n, f, g) == Crypted(g.inner, Layer(n, g.src))

LastRelayKept(n, f) ==
  IF IsRelay(f) THEN f.ids[f.ttl] ELSE last_relay[n][f.src]
LastRelay(n, f) == IF IsRelay(f) THEN f.ids[f.ttl] ELSE None

ToTun(n, f, g) ==
  /\ tun' = [tun EXCEPT ![n] = Append(@,
        [id |-> g.id, src |-> g.src, kind |-> f.sub, seq |-> f.foot.seq,
         inner |-> Opened(n, f, g), path |-> g.path])]
  /\ last_relay' = [last_relay EXCEPT ![n][f.src] = LastRelay(n, f)]

(* Sent on along the route: without the last relay, under the next key.    *)
RelayedWithId(n, g, hop) ==
  Sent(n, hop, [g EXCEPT !.outer = Crypted(@, Layer(n, hop))])
Relayed(n, g, hop) ==
  Sent(n, hop, [g EXCEPT !.ids = Front(@), !.outer = Crypted(@, Layer(n, hop))])

(* What goes on to other nodes: nothing when the frame is dropped.         *)
ToInet(n, f, g) ==
  LET default == IF Knows(n, f.dst) THEN f.dst ELSE SelectForwardNode(n)
  IN CASE g.ttl = 0 -> {}
       [] g.ttl > 0 /\ IsRelay(f) ->
            IF OnRoute(n, f) THEN {Relayed(n, g, NextHop(f))} ELSE {}
       [] OTHER -> IF n \in Cf.standard_forwarding /\ default # None
                   THEN {Sent(n, default, g)} ELSE {}

(* The route and forward steps of the filter.                              *)
Filter(n, f, rest) ==
  LET g == Received(n, f)
      passes == Readable(g, f.ttl) /\ Knows(n, f.src)
  IN IF n = f.dst
     THEN /\ net' = rest
          /\ IF passes THEN ToTun(n, f, g) ELSE UNCHANGED <<last_relay, tun>>
     ELSE /\ net' = IF passes THEN rest \cup ToInet(n, f, g) ELSE rest
          /\ UNCHANGED <<last_relay, tun>>

(* A frame of unified forwarding is recognised by its type alone.          *)
MultiPathInet(n, f, rest) ==
  LET array == recv_seq[n]
      seq == f.foot.seq
  IN IF n # f.dst \/ ~Knows(n, f.src)
     THEN /\ net' = rest \cup UnifiedInet(n, f)
          /\ UNCHANGED <<uf_nodeid, uf_recent, recv_seq, last_relay, tun>>
     ELSE IF IsNew(array, seq)
          THEN /\ recv_seq' = [recv_seq EXCEPT ![n] = Remembered(array, seq)]
               /\ NotesPath(n, f)
               /\ Filter(n, f, rest)
          ELSE /\ net' = rest
               /\ UNCHANGED <<uf_nodeid, uf_recent, recv_seq, last_relay, tun>>

(* `rest' is what remains on the network: the frame too if it comes again. *)
InetFrame(n, f, rest) ==
  /\ f \in net /\ f.to = n
  /\ AdvanceRing(n)
  /\ \/ /\ f.sub = {"unified"}
        /\ IF n # f.dst \/ ~Knows(n, f.src)
           THEN /\ net' = rest \cup UnifiedInet(n, f)
                /\ UNCHANGED <<uf_nodeid, uf_recent, last_relay, tun>>
           ELSE NotesPath(n, f) /\ Filter(n, f, rest)
        /\ UNCHANGED recv_seq
     \/ f.sub = {"multi_path"} /\ MultiPathInet(n, f, rest)
     \/ /\ f.sub \notin {{"unified"}, {"multi_path"}}
        /\ Filter(n, f, rest)
        /\ UNCHANGED <<uf_nodeid, uf_recent, recv_seq>>
  /\ UNCHANGED <<conf, link, uf_array, send_seq, notes, selected_route, sent>>
=============================================================================
