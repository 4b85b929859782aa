----------------------------- MODULE Rendezvous -----------------------------
(***************************************************************************)
(* Nodes that do not know each other's addresses, the index nodes they     *)
(* post to, and a network that loses, repeats and delays datagrams: the    *)
(* index workers and index service workers together.                       *)
(***************************************************************************)
EXTENDS IndexService, IndexWorker

CONSTANTS
  Mortal,       \* the nodes and index nodes that may crash
  MaxFaults,    \* of the network
  MaxMoves      \* crashes and changes of address

VARIABLES
  faults,       \* faults of the network so far
  moves,        \* crashes and changes of address so far
  gone          \* history: ticks since node n was at place p

vars == <<netvars, table, workvars, faults, moves, gone>>

ASSUME FaultAssumption ==
  /\ {MaxFaults, MaxMoves} \subseteq Nat
  /\ Mortal \subseteq Node \cup ServiceNode
  /\ Nobody # {}

(* An address in a PUSH was its node's within the life time, give or take  *)
(* the tick a POST may be late.                                            *)
GONE_MAX == LIFE_TIME + 2

-----------------------------------------------------------------------------
Init ==
  /\ conf \in Conf
  /\ up = Node \cup ServiceNode
  /\ home = [n \in Node |-> CHOOSE p \in Pool[n] : TRUE]
  /\ network = <<>>
  /\ held = {}
  /\ ServiceInit
  /\ WorkerInit
  /\ faults = 0
  /\ moves = 0
  /\ gone = [n \in Node |-> [p \in Place |->
               IF p = home[n] THEN 0 ELSE GONE_MAX]]

ServiceStep ==
  /\ \E x \in ServiceNode, d \in Arriving :
       HandlePost(x, d) \/ HandleRequest(x, d) \/ HandleJunk(x, d)
  /\ UNCHANGED <<conf, up, home, workvars, faults, moves, gone>>

WorkerStep ==
  /\ \/ \E n \in Node, d \in Arriving :
          /\ HandlePush(n, d) \/ HandleEcho(n, d) \/ HandleDetect(n, d)
          /\ UNCHANGED <<up, home>>
     \/ \E n \in Node : Loop(n)
     \/ \E n, m \in Node : SyncPeer(n, m)
  /\ UNCHANGED <<conf, table, faults, moves, gone>>

(* Nobody is at the address.                                               *)
Vanish ==
  /\ \E d \in Arriving :
       /\ \A n \in Node \cup ServiceNode : ~Reaches(d, n)
       /\ Exchange(d, <<>>)
  /\ UNCHANGED <<conf, up, home, table, workvars, faults, moves, gone>>

(* Some time passes, in which all datagrams arrive that are not held back  *)
(* and every loop is run.  What is held back arrives before the next tick  *)
(* is over, or never.                                                      *)
Tick ==
  /\ network = <<>>
  /\ \A n \in Node \cap up : ran[n] /\ todo[n] = {}
  /\ held' = {[h EXCEPT !.old = TRUE] : h \in {g \in held : ~g.old}}
  /\ ServiceTick
  /\ WorkerTick
  /\ gone' = [n \in Node |-> [p \in Place |->
                IF p = home[n] THEN 0 ELSE Older(gone[n][p], GONE_MAX)]]
  /\ UNCHANGED <<conf, up, home, network, faults, moves>>

-----------------------------------------------------------------------------
(* The next datagram is lost, late, or arrives once more later.            *)
Lose ==
  /\ network # <<>> /\ network' = Tail(network)
  /\ UNCHANGED held
Hold ==
  /\ network # <<>> /\ network' = Tail(network)
  /\ held' = held \cup {[frame |-> Head(network), old |-> FALSE]}
Repeat ==
  /\ network # <<>>
  /\ held' = held \cup {[frame |-> Head(network), old |-> FALSE]}
  /\ UNCHANGED network

(* Sender and receiver are not in the same hour.                           *)
OtherHour ==
  /\ conf.safe_index
  /\ network # <<>> /\ Head(network).type = "POST"
  /\ network' = <<Junk(Head(network))>> \o Tail(network)
  /\ UNCHANGED held

NetworkFault ==
  /\ faults < MaxFaults /\ faults' = faults + 1
  /\ Lose \/ Hold \/ Repeat \/ OtherHour
  /\ UNCHANGED <<conf, up, home, table, workvars, moves, gone>>

Move ==
  /\ moves < MaxMoves /\ moves' = moves + 1
  /\ UNCHANGED faults

(* A node gets another address: its router restarts, or it moves.          *)
Roam(n) ==
  /\ Move
  /\ \E p \in Pool[n] \ {home[n]} :
       /\ home' = [home EXCEPT ![n] = p]
       /\ gone' = [gone EXCEPT ![n][p] = 0]
  /\ UNCHANGED <<conf, up, network, held, table, workvars>>

Crash(n) ==
  /\ Move
  /\ n \in up \cap Mortal /\ up' = up \ {n}
  /\ UNCHANGED <<conf, home, network, held, table, workvars, gone>>

(* The process is started again; it knows nothing of before.               *)
Start(n) ==
  /\ n \notin up /\ up' = up \cup {n}
  /\ IF n \in Node THEN Fresh(n) /\ UNCHANGED table
                   ELSE ForgetAll(n) /\ UNCHANGED workvars
  /\ UNCHANGED <<conf, home, network, held, faults, moves, gone>>

Progress == ServiceStep \/ WorkerStep \/ Vanish \/ Tick
Disturb ==
  \/ NetworkFault
  \/ \E n \in Node : Roam(n)
  \/ \E n \in Node \cup ServiceNode : Crash(n) \/ Start(n)

Next == Progress \/ Disturb

Spec == Init /\ [][Next]_vars

(* The threads' loops run for ever with a sleep of 150 ms, and a datagram  *)
(* that is not lost arrives.                                               *)
FairSpec == Spec /\ WF_vars(Progress)

-----------------------------------------------------------------------------
TypeOK ==
  /\ conf \in Conf
  /\ up \subseteq Node \cup ServiceNode
  /\ home \in [Node -> Place]
  /\ network \in Seq(Frame)
  /\ held \subseteq [frame : Frame, old : BOOLEAN]
  /\ ServiceTypeOK
  /\ WorkerTypeOK
  /\ faults \in 0 .. MaxFaults /\ moves \in 0 .. MaxMoves
  /\ gone \in [Node -> [Place -> 0 .. GONE_MAX]]

(* No address is ever taken for another node's: whatever two requests, two *)
(* posts and the probes they cause do in between.                          *)
OnlyItsOwn ==
  \A n, m \in Node :
    known[n][m] \cup ({udp_sockaddr[n][m]} \ {NoPlace}) \subseteq Pool[m]

(* An index node hands out no address its node left longer ago than        *)
(* GNB_ADDRESS_LIFE_TIME_TS_SEC, although a POST or REQUEST that was held  *)
(* back renews it when the node has already left: but for one in a frame,  *)
(* which its node gave as its own (wan6_addr), and of which nobody looks   *)
(* at the age.                                                             *)
FreshButOne(n, addrs) ==
  \E q \in conf.wan6[n] \cup {NoPlace} :
    \A p \in addrs \ {q} : gone[n][p] <= LIFE_TIME

PushIsFresh ==
  \A d \in {f \in OnTheWay : f.type = "PUSH"} : FreshButOne(d.node, d.addrs)

(* PONG set by a probe's answer means that each of the two has accepted a  *)
(* frame of the other, also across restarts and held back frames.          *)
Handshake ==
  \A n, m \in Node : "PONG" \in udp_addr_status[n][m] =>
    {<<n, m>>, <<m, n>>} \subseteq heard

(* Two nodes that keep running find each other again, wherever they moved, *)
(* as long as an index node keeps running.                                 *)
Meets ==
  \A n \in Node : \A m \in Node \ {n} :
    (<>[]({n, m} \subseteq up) /\ (\E x \in ServiceNode : <>[](x \in up)))
      => <>[](Path(n, m))

(* A node does not probe a peer that is gone for ever.                     *)
GivesUp ==
  \A n \in Node : \A m \in Node \ {n} :
    (<>[](m \notin up) =>
       <>[](\A d \in OnTheWay : ~(d.type = "DETECT" /\ d.dst = m)))
=============================================================================
