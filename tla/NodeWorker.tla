----------------------------- MODULE NodeWorker -----------------------------
(***************************************************************************)
(* gnb_node_worker.c: the ping-pong protocol with which every node keeps   *)
(* track of which peers it can reach directly, over a network that loses,  *)
(* delays, duplicates and reorders datagrams, while nodes crash, restart   *)
(* and change address.                                                     *)
(*                                                                         *)
(* The node worker is one thread: each handler, and one pass of sync_node  *)
(* over all peers, is one action.  Time is counted in ticks, the period at *)
(* which thread_worker_func calls sync_node (a little over                 *)
(* GNB_NODE_SYNC_INTERVAL_TIME_SEC, so about 11 s); a timestamp ts is      *)
(* kept as the age now - ts, up to the largest value a test compares it    *)
(* with.  An address is a Place, the same for every family.                *)
(***************************************************************************)
EXTENDS Integers, FiniteSets

CONSTANTS
  Node,             \* uuid64 of every node; each knows all the others
  Family,           \* address families in use: 4, 6 or both
  Place,            \* socket addresses
  NoPlace,          \* 0.0.0.0 and ::
  TunPlace,         \* the places inside the virtual network
  Pool,             \* Pool[n]: the places node n may be at
  ConfPlace,        \* ConfPlace[n]: n's place in address.conf, or NoPlace
  Index, Forward, Relay,           \* attributes i, f, r of address.conf
  Silent,           \* Silent[n]: the nodes n's own address.conf marks s
  IndexConfigured,     \* index_address_ring is not empty
  UnifiedForwarding,   \* --unified-forwarding is not "off"
  PING_INTERVAL, UPDATE_INTERVAL, NOTIFY_INTERVAL,   \* in ticks
  MaxDelay,         \* ticks a datagram may be on its way
  MaxFaults         \* how many faults a behaviour may have

ASSUME ParameterAssumption ==
  /\ NoPlace \notin Place
  /\ TunPlace \subseteq Place
  /\ Pool \in [Node -> SUBSET Place]
  /\ ConfPlace \in [Node -> Place \cup {NoPlace}]
  /\ Silent \in [Node -> SUBSET Node]
  /\ {IndexConfigured, UnifiedForwarding} \subseteq BOOLEAN
  /\ {PING_INTERVAL, UPDATE_INTERVAL, NOTIFY_INTERVAL} \subseteq Nat \ {0}
  /\ {MaxDelay, MaxFaults} \subseteq Nat

(* udp_addr_status is a set of these bits; {} is GNB_NODE_STATUS_UNREACHABL.*)
Bit == {"PING", "PONG"} \X Family
Pongs == {"PONG"} \X Family

(* The peers in address.conf.  GNB_NODE_STATUS_IPVx_STATIC is the same bit *)
(* as GNB_NODE_STATUS_IPVx_PONG.                                           *)
Static == {m \in Node : ConfPlace[m] # NoPlace}

(* The peers with GNB_NODE_TYPE_IDX: gnb_add_forward_node_ring sets it for *)
(* forward nodes too.                                                      *)
TypeIdx == Index \cup Forward

VARIABLES
  up,               \* the process runs
  udp_addr_status,  \* [n][m]: what n knows of peer m, a set of Bit
  udp_sockaddr,     \* [n][m][f]: where n sends frames for m
  update_age,       \* [n][m][f]: since addr4_update_ts_sec, addr6_...
  ping_age,         \* [n][m]: since ping_ts_sec
  notify_age,       \* [n][m]: since last_notify_uf_nodes_ts_sec
  synced,           \* [n]: sync_node has run in this tick
  network,          \* the datagrams on their way
  home,             \* [n]: where node n is
  cut,              \* the network delivers nothing
  faults,           \* faults so far
  heard             \* <<n, m>> once n has accepted a frame from m

peerVars == <<udp_addr_status, udp_sockaddr, update_age, ping_age, notify_age>>
faultVars == <<up, home, cut, faults>>
vars == <<up, udp_addr_status, udp_sockaddr, update_age, ping_age, notify_age,
          synced, network, home, cut, faults, heard>>

Older(age, limit) == IF age < limit THEN age + 1 ELSE limit
UPDATE_OVER == UPDATE_INTERVAL + 1

Datagram == [type : {"PING", "PONG", "PONG2"}, src : Node, dst : Node,
             fam : Family, from : Place, to : Place, age : 0 .. MaxDelay]

Frame(type, n, m, f, to) ==
  [type |-> type, src |-> n, dst |-> m, fam |-> f, from |-> home[n], to |-> to,
   age |-> 0]

-----------------------------------------------------------------------------
(* What address.conf gives a node that starts (address_file_config).       *)
ConfStatus == [m \in Node |-> IF m \in Static THEN Pongs ELSE {}]
ConfSockaddr == [m \in Node |-> [f \in Family |-> ConfPlace[m]]]
NeverUpdated == [m \in Node |-> [f \in Family |-> UPDATE_OVER]]
NeverPinged == [m \in Node |-> PING_INTERVAL]
NeverNotified == [m \in Node |-> NOTIFY_INTERVAL]

Init ==
  /\ up = [n \in Node |-> TRUE]
  /\ udp_addr_status = [n \in Node |-> ConfStatus]
  /\ udp_sockaddr = [n \in Node |-> ConfSockaddr]
  /\ update_age = [n \in Node |-> NeverUpdated]
  /\ ping_age = [n \in Node |-> NeverPinged]
  /\ notify_age = [n \in Node |-> NeverNotified]
  /\ synced = [n \in Node |-> FALSE]
  /\ network = {}
  /\ home \in {h \in [Node -> Place] : \A n \in Node : h[n] \in Pool[n]}
  /\ cut = FALSE
  /\ faults = 0
  /\ heard = {}

-----------------------------------------------------------------------------
(* sync_node.                                                              *)

(* Faulty variant: a silent node forgets that it is silent.                *)
IgnoresOnlySilentPeers(n, m) == m \in Silent[n]

(* A silent peer is left alone; a silent node minds only forward nodes.    *)
Ignores(n, m) == m \in Silent[n] \/ (n \in Silent[n] /\ m \notin Forward)

HasPong(n, m) == udp_addr_status[n][m] \cap Pongs # {}
PingDue(n, m) == ping_age[n][m] >= PING_INTERVAL
NotifyDue(n, m) == UnifiedForwarding /\ notify_age[n][m] >= NOTIFY_INTERVAL
HasPlace(n, m) == \E f \in Family : udp_sockaddr[n][m][f] # NoPlace

(* Faulty variant: no peer is exempt from the UNREACHABL test.             *)
PingsOnlyReachable(n, m) == HasPlace(n, m) /\ udp_addr_status[n][m] # {}

(* send_ping_frame's early returns.  Nothing in the program sets           *)
(* GNB_NODE_TYPE_STATIC_ADDR, so it exempts no peer.                       *)
MayPing(n, m) ==
  /\ HasPlace(n, m)
  /\ udp_addr_status[n][m] # {} \/ m \in TypeIdx \cup Relay

(* The peers for which the loop body gets to each of its parts.            *)
Visited(n) == {m \in Node \ {n} : ~Ignores(n, m)}
Nowhere(n) == {m \in Visited(n) : ~HasPlace(n, m) /\ IndexConfigured}
GivenUp(n) == {m \in Nowhere(n) : PingDue(n, m)}
Reached(n) == Visited(n) \ Nowhere(n)
Pinged(n) == {m \in Reached(n) : PingDue(n, m) /\ MayPing(n, m)}
Notified(n) == {m \in Reached(n) : NotifyDue(n, m) /\ HasPong(n, m)}
SkippedWhenDue(n) == {m \in Reached(n) : NotifyDue(n, m)}   \* faulty variant
Skipped(n) == {m \in Reached(n) : NotifyDue(n, m) /\ ~HasPong(n, m)}
Checked(n) == (Reached(n) \ Skipped(n)) \ TypeIdx

(* Faulty variant: only the PING bit expires.                              *)
UnexpiredPings(n, m) ==
  {b \in udp_addr_status[n][m] :
     b \in Pongs \/ update_age[n][m][b[2]] <= UPDATE_INTERVAL}

Unexpired(n, m) ==
  {b \in udp_addr_status[n][m] : update_age[n][m][b[2]] <= UPDATE_INTERVAL}

StatusAfterSync(n, m) ==
  CASE m \in GivenUp(n) -> {}
    [] m \in Checked(n) -> Unexpired(n, m)
    [] OTHER -> udp_addr_status[n][m]

(* gnb_send_to_node with both families: "PING frame 尽可能 ipv4 和 ipv6    *)
(* 都发送".                                                                *)
PingTargets(n) ==
  {t \in Pinged(n) \X Family : udp_sockaddr[n][t[1]][t[2]] # NoPlace}

PingFrames(n) ==
  {Frame("PING", n, t[1], t[2], udp_sockaddr[n][t[1]][t[2]]) :
     t \in PingTargets(n)}

Sync(n) ==
  /\ up[n]
  /\ ~synced[n]
  /\ synced' = [synced EXCEPT ![n] = TRUE]
  /\ udp_addr_status' = [udp_addr_status EXCEPT
       ![n] = [m \in Node |-> StatusAfterSync(n, m)]]
  /\ ping_age' = [ping_age EXCEPT
       ![n] = [m \in Node |-> IF m \in Pinged(n) \cup GivenUp(n)
                              THEN 0 ELSE ping_age[n][m]]]
  /\ notify_age' = [notify_age EXCEPT
       ![n] = [m \in Node |-> IF m \in Notified(n)
                              THEN 0 ELSE notify_age[n][m]]]
  /\ network' = network \cup PingFrames(n)
  /\ UNCHANGED <<udp_sockaddr, update_age, faultVars, heard>>

-----------------------------------------------------------------------------
(* handle_node_frame.                                                      *)

(* handle_ping_frame and handle_pong_frame record the same things, but for *)
(* the bit they set.                                                       *)
Record(n, d, bit) ==
  /\ udp_addr_status' = [udp_addr_status EXCEPT ![n][d.src] =
                           @ \cup {<<bit, d.fam>>}]
  /\ udp_sockaddr' = [udp_sockaddr EXCEPT ![n][d.src][d.fam] = d.from]
  /\ update_age' = [update_age EXCEPT ![n][d.src][d.fam] = 0]
  /\ heard' = heard \cup {<<n, d.src>>}
  /\ UNCHANGED <<ping_age, notify_age, synced, up, home, cut>>

(* Faulty variant: without gnb_determine_subnet4.                          *)
AcceptsAnyPlace(n, d) == d.src # n /\ ~Ignores(n, d.src)

(* A frame from inside the virtual network has come through our own tunnel.*)
Accepts(n, d) == d.src # n /\ ~Ignores(n, d.src) /\ d.from \notin TunPlace

(* Faulty variant: the wrong bit.                                          *)
HandlePingAsPong(n, d, left) ==
  /\ d.type = "PING"
  /\ Accepts(n, d)
  /\ Record(n, d, "PONG")
  /\ network' = left \cup {Frame("PONG", n, d.src, d.fam, d.from)}

(* A ping is answered with a pong, whoever it was meant for.               *)
HandlePing(n, d, left) ==
  /\ d.type = "PING"
  /\ Accepts(n, d)
  /\ Record(n, d, "PING")
  /\ network' = left \cup {Frame("PONG", n, d.src, d.fam, d.from)}

(* A pong is answered with a pong2, a pong2 with nothing.                  *)
HandlePong(n, d, left) ==
  /\ d.type = "PONG"
  /\ d.dst = n
  /\ Accepts(n, d)
  /\ Record(n, d, "PONG")
  /\ network' = left \cup {Frame("PONG2", n, d.src, d.fam, d.from)}

(* Faulty variant: the frame's type taken for the bit.                     *)
HandlePong2ByType(n, d, left) ==
  /\ d.type = "PONG2"
  /\ d.dst = n
  /\ Accepts(n, d)
  /\ Record(n, d, d.type)
  /\ network' = left

HandlePong2(n, d, left) ==
  /\ d.type = "PONG2"
  /\ d.dst = n
  /\ Accepts(n, d)
  /\ Record(n, d, "PONG")
  /\ network' = left

(* The handlers' early returns.                                            *)
Refuse(n, d, left) ==
  /\ ~Accepts(n, d) \/ (d.type # "PING" /\ d.dst # n)
  /\ network' = left
  /\ UNCHANGED <<peerVars, synced, up, home, cut, heard>>

Handle(n, d, left) ==
  \/ HandlePing(n, d, left)
  \/ HandlePong(n, d, left)
  \/ HandlePong2(n, d, left)
  \/ Refuse(n, d, left)

Arrives(n, d) == up[n] /\ ~cut /\ home[n] = d.to

Receive(n, d) ==
  /\ Arrives(n, d)
  /\ Handle(n, d, network \ {d})
  /\ UNCHANGED faults

-----------------------------------------------------------------------------
(* Time, and the network's and the nodes' faults.                          *)

(* Nobody is there to receive the datagram.                                *)
Vanish(d) ==
  /\ \A n \in Node : ~Arrives(n, d)
  /\ network' = network \ {d}
  /\ UNCHANGED <<peerVars, synced, faultVars, heard>>

(* Every running node syncs once per tick, and a datagram that is neither  *)
(* lost nor undeliverable arrives within MaxDelay ticks.                   *)
Tick ==
  /\ \A n \in Node : up[n] => synced[n]
  /\ \A d \in network : d.age < MaxDelay
  /\ synced' = [n \in Node |-> FALSE]
  /\ network' = {[d EXCEPT !.age = @ + 1] : d \in network}
  /\ update_age' = [n \in Node |-> [m \in Node |-> [f \in Family |->
                      Older(update_age[n][m][f], UPDATE_OVER)]]]
  /\ ping_age' = [n \in Node |-> [m \in Node |->
                    Older(ping_age[n][m], PING_INTERVAL)]]
  /\ notify_age' = [n \in Node |-> [m \in Node |->
                      Older(notify_age[n][m], NOTIFY_INTERVAL)]]
  /\ UNCHANGED <<udp_addr_status, udp_sockaddr, faultVars, heard>>

Fault == faults < MaxFaults /\ faults' = faults + 1

(* A frame is lost on the way, or dropped because the ring is full.        *)
Lose(d) ==
  /\ Fault
  /\ network' = network \ {d}
  /\ UNCHANGED <<peerVars, synced, up, home, cut, heard>>

(* A frame arrives and will arrive again.                                  *)
Duplicate(n, d) ==
  /\ Fault
  /\ Arrives(n, d)
  /\ Handle(n, d, network)

(* The process ends; the next one starts from the configuration.           *)
Crash(n) ==
  /\ Fault
  /\ up[n]
  /\ up' = [up EXCEPT ![n] = FALSE]
  /\ udp_addr_status' = [udp_addr_status EXCEPT ![n] = ConfStatus]
  /\ udp_sockaddr' = [udp_sockaddr EXCEPT ![n] = ConfSockaddr]
  /\ update_age' = [update_age EXCEPT ![n] = NeverUpdated]
  /\ ping_age' = [ping_age EXCEPT ![n] = NeverPinged]
  /\ notify_age' = [notify_age EXCEPT ![n] = NeverNotified]
  /\ synced' = [synced EXCEPT ![n] = FALSE]
  /\ UNCHANGED <<network, home, cut, heard>>

Start(n) ==
  /\ ~up[n]
  /\ up' = [up EXCEPT ![n] = TRUE]
  /\ synced' = [synced EXCEPT ![n] = FALSE]
  /\ UNCHANGED <<peerVars, network, home, cut, faults, heard>>

(* The node gets another address: a new network, or a new NAT mapping.     *)
Roam(n) ==
  /\ Fault
  /\ \E p \in Pool[n] \ {home[n]} : home' = [home EXCEPT ![n] = p]
  /\ UNCHANGED <<peerVars, synced, network, up, cut, heard>>

Cut ==
  /\ Fault
  /\ ~cut
  /\ cut' = TRUE
  /\ UNCHANGED <<peerVars, synced, network, up, home, heard>>

Heal ==
  /\ cut
  /\ cut' = FALSE
  /\ UNCHANGED <<peerVars, synced, network, up, home, faults, heard>>

-----------------------------------------------------------------------------
Progress ==
  \/ \E n \in Node : Sync(n)
  \/ \E n \in Node, d \in network : Receive(n, d)
  \/ \E d \in network : Vanish(d)
  \/ Tick

Disturb ==
  \/ \E d \in network : Lose(d)
  \/ \E n \in Node, d \in network : Duplicate(n, d)
  \/ \E n \in Node : Crash(n) \/ Start(n) \/ Roam(n)
  \/ Cut
  \/ Heal

Next == Progress \/ Disturb

Spec == Init /\ [][Next]_vars

(* The worker's loop runs for ever and its sleep is 150 ms; a datagram is  *)
(* only late by a bounded time.                                            *)
FairSpec == Spec /\ WF_vars(Progress)

-----------------------------------------------------------------------------
TypeOK ==
  /\ up \in [Node -> BOOLEAN]
  /\ udp_addr_status \in [Node -> [Node -> SUBSET Bit]]
  /\ udp_sockaddr \in [Node -> [Node -> [Family -> Place \cup {NoPlace}]]]
  /\ update_age \in [Node -> [Node -> [Family -> 0 .. UPDATE_OVER]]]
  /\ ping_age \in [Node -> [Node -> 0 .. PING_INTERVAL]]
  /\ notify_age \in [Node -> [Node -> 0 .. NOTIFY_INTERVAL]]
  /\ synced \in [Node -> BOOLEAN]
  /\ network \subseteq Datagram
  /\ home \in [Node -> Place]
  /\ cut \in BOOLEAN
  /\ faults \in 0 .. MaxFaults
  /\ heard \subseteq Node \X Node

(* PONG means the path works both ways: a node sets it only for a peer it  *)
(* has heard from and that has heard from it, whatever was lost, repeated, *)
(* overtaken or left over from before a restart.  A peer of address.conf   *)
(* has the bit from the start, the STATIC bit being the same bit.          *)
Handshake ==
  \A n \in Node, m \in Node \ Static :
    HasPong(n, m) => {<<n, m>>, <<m, n>>} \subseteq heard

(* Traffic goes only to peers heard from within the last                   *)
(* GNB_NODE_UPDATE_INTERVAL_SEC: no path of sync_node's loop leaves a PONG *)
(* bit that is out of date, but for index and forward nodes, which are     *)
(* exempt, and for peers it never visits.                                  *)
PongFresh ==
  \A n \in Node : \A m \in Visited(n) \ TypeIdx, f \in Family :
    up[n] /\ synced[n] /\ <<"PONG", f>> \in udp_addr_status[n][m]
      => update_age[n][m][f] <= UPDATE_INTERVAL

(* A peer that is gone for good stops being a destination for direct       *)
(* traffic, also when its frames were still on their way as it went.       *)
GoneIsNoticed ==
  \A n \in Node : \A m \in Visited(n) \ TypeIdx :
    <>[](up[n] /\ ~up[m]) => <>[](~up[m] /\ ~HasPong(n, m))

Connected(n, m) ==
  \A f \in Family : /\ <<"PONG", f>> \in udp_addr_status[n][m]
                    /\ udp_sockaddr[n][m][f] = home[m]

(* Once the faults are over, two running nodes end up connected, each with *)
(* the other's present address, for good: across losses, an outage,        *)
(* restarts of either and changes of address, and with no one but          *)
(* themselves to help.                                                     *)
Reconnects ==
  \A n \in Node : \A m \in Visited(n) :
    <>[](up[n] /\ up[m] /\ ~cut) => <>[](Connected(n, m))

(* No frame from inside the virtual network changes where a peer is        *)
(* believed to be, or the tunnel would be routed through itself.           *)
TunnelNotNested ==
  \A n, m \in Node, f \in Family : udp_sockaddr[n][m][f] \notin TunPlace

(* A silent node's frames go to forward nodes only: no frame of another    *)
(* node, that knows its place or met it by chance, makes it answer.        *)
SilentHides ==
  \A d \in network : d.src \in Silent[d.src] => d.dst \in Forward

-----------------------------------------------------------------------------
(* What comments in the source say and the code does not do.               *)

(* The manual offers a fault-tolerant choice among several forward nodes,  *)
(* which gnb_select_forward_node makes by the PONG bit.  But a forward     *)
(* node has GNB_NODE_TYPE_IDX as well, so sync_node never clears the bit.  *)
ForwardGoneIsNoticed ==
  \A n \in Node : \A m \in Visited(n) \cap (Forward \ Index) :
    <>[](up[n] /\ ~up[m]) => <>[](~up[m] /\ ~HasPong(n, m))
=============================================================================
