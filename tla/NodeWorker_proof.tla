-------------------------- MODULE NodeWorker_proof --------------------------
(***************************************************************************)
(* For any number of nodes, address families and places, any intervals,    *)
(* any configuration and any number of faults: a node's table of peers     *)
(* keeps its type, PONG is never out of date after sync_node and only ever *)
(* set by a handshake that went both ways, silent nodes keep silent, and   *)
(* no peer is placed inside the tunnel.                                    *)
(***************************************************************************)
EXTENDS NodeWorker, TLAPS

LEMMA OlderType ==
  ASSUME NEW limit \in Nat, NEW age \in 0 .. limit
  PROVE  Older(age, limit) \in 0 .. limit
BY DEF Older

LEMMA FrameType ==
  ASSUME TypeOK, NEW n \in Node, NEW m \in Node, NEW f \in Family,
         NEW p \in Place, NEW t \in {"PING", "PONG", "PONG2"}
  PROVE  Frame(t, n, m, f, p) \in Datagram
BY ParameterAssumption DEF Frame, Datagram, TypeOK

(* The table of peers, the part of the type invariant most actions change. *)
PeersOK ==
  /\ udp_addr_status \in [Node -> [Node -> SUBSET Bit]]
  /\ udp_sockaddr \in [Node -> [Node -> [Family -> Place \cup {NoPlace}]]]
  /\ update_age \in [Node -> [Node -> [Family -> 0 .. UPDATE_OVER]]]
  /\ ping_age \in [Node -> [Node -> 0 .. PING_INTERVAL]]
  /\ notify_age \in [Node -> [Node -> 0 .. NOTIFY_INTERVAL]]

LEMMA ConfType ==
  /\ ConfStatus \in [Node -> SUBSET Bit]
  /\ ConfSockaddr \in [Node -> [Family -> Place \cup {NoPlace}]]
  /\ NeverUpdated \in [Node -> [Family -> 0 .. UPDATE_OVER]]
  /\ NeverPinged \in [Node -> 0 .. PING_INTERVAL]
  /\ NeverNotified \in [Node -> 0 .. NOTIFY_INTERVAL]
BY ParameterAssumption
   DEF ConfStatus, ConfSockaddr, NeverUpdated, NeverPinged, NeverNotified,
       Bit, Pongs, UPDATE_OVER, Static

LEMMA TypeInit == Init => TypeOK
<1> SUFFICES ASSUME Init PROVE TypeOK
  OBVIOUS
<1>1. PeersOK
  BY ConfType DEF Init, PeersOK
<1>2. /\ home \in [Node -> Place]
      /\ up \in [Node -> BOOLEAN] /\ synced \in [Node -> BOOLEAN]
      /\ network \subseteq Datagram /\ heard \subseteq Node \X Node
      /\ cut \in BOOLEAN
  BY DEF Init
<1>3. faults \in 0 .. MaxFaults
  BY ParameterAssumption DEF Init
<1> QED BY <1>1, <1>2, <1>3 DEF TypeOK, PeersOK

LEMMA SyncType ==
  ASSUME TypeOK, NEW n \in Node, Sync(n)
  PROVE  TypeOK'
<1>1. [m \in Node |-> StatusAfterSync(n, m)] \in [Node -> SUBSET Bit]
  BY DEF StatusAfterSync, Unexpired, TypeOK
<1>2. udp_addr_status' \in [Node -> [Node -> SUBSET Bit]]
  BY <1>1 DEF Sync, TypeOK
<1>3. ping_age' \in [Node -> [Node -> 0 .. PING_INTERVAL]]
  BY ParameterAssumption DEF Sync, TypeOK
<1>4. notify_age' \in [Node -> [Node -> 0 .. NOTIFY_INTERVAL]]
  BY ParameterAssumption DEF Sync, TypeOK
<1>5. network' \subseteq Datagram
  <2>1. ASSUME NEW t \in PingTargets(n)
        PROVE  Frame("PING", n, t[1], t[2], udp_sockaddr[n][t[1]][t[2]])
                 \in Datagram
    <3>1. t[1] \in Node /\ t[2] \in Family
      BY DEF PingTargets, Pinged, Reached, Visited
    <3>2. udp_sockaddr[n][t[1]][t[2]] \in Place
      BY <3>1 DEF PingTargets, TypeOK
    <3> QED BY <3>1, <3>2, FrameType
  <2>2. PingFrames(n) \subseteq Datagram
    BY <2>1 DEF PingFrames
  <2> QED BY <2>2 DEF Sync, TypeOK
<1> QED BY <1>2, <1>3, <1>4, <1>5 DEF Sync, TypeOK, faultVars

(* What the frame handlers do to the type, whatever is left in the network.*)
LEMMA HandleType ==
  ASSUME TypeOK, NEW n \in Node, NEW d \in Datagram,
         NEW left \in SUBSET Datagram, Handle(n, d, left)
  PROVE  /\ PeersOK'
         /\ network' \in SUBSET Datagram
         /\ heard' \subseteq Node \X Node
         /\ UNCHANGED <<synced, up, home, cut>>
<1>1. /\ d.src \in Node /\ d.dst \in Node /\ d.fam \in Family
      /\ d.from \in Place
  BY DEF Datagram
<1>2. ASSUME NEW bit \in {"PING", "PONG"}, Record(n, d, bit)
      PROVE  /\ PeersOK'
             /\ heard' \subseteq Node \X Node
             /\ UNCHANGED <<synced, up, home, cut>>
  <2>1. <<bit, d.fam>> \in Bit
    BY <1>1 DEF Bit
  <2>2. udp_addr_status' \in [Node -> [Node -> SUBSET Bit]]
    BY <1>1, <1>2, <2>1 DEF Record, TypeOK
  <2>3. udp_sockaddr' \in [Node -> [Node -> [Family -> Place \cup {NoPlace}]]]
    BY <1>1, <1>2 DEF Record, TypeOK
  <2>4. update_age' \in [Node -> [Node -> [Family -> 0 .. UPDATE_OVER]]]
    <3>1. 0 \in 0 .. UPDATE_OVER
      BY ParameterAssumption DEF UPDATE_OVER
    <3> QED BY <1>1, <1>2, <3>1 DEF Record, TypeOK
  <2> QED BY <1>1, <1>2, <2>2, <2>3, <2>4 DEF Record, TypeOK, PeersOK
<1>3. CASE HandlePing(n, d, left)
  BY <1>1, <1>2, <1>3, FrameType DEF HandlePing
<1>4. CASE HandlePong(n, d, left)
  BY <1>1, <1>2, <1>4, FrameType DEF HandlePong
<1>5. CASE HandlePong2(n, d, left)
  BY <1>2, <1>5 DEF HandlePong2
<1>6. CASE Refuse(n, d, left)
  BY <1>6 DEF Refuse, peerVars, PeersOK, TypeOK
<1> QED BY <1>3, <1>4, <1>5, <1>6 DEF Handle

LEMMA TickType == TypeOK /\ Tick => TypeOK'
<1> SUFFICES ASSUME TypeOK, Tick PROVE TypeOK'
  OBVIOUS
<1>1. network' \subseteq Datagram
  <2>1. ASSUME NEW d \in network
        PROVE  [d EXCEPT !.age = @ + 1] \in Datagram
    <3>1. d \in Datagram /\ d.age \in 0 .. MaxDelay /\ d.age < MaxDelay
      BY DEF Tick, TypeOK, Datagram
    <3>2. d.age + 1 \in 0 .. MaxDelay
      BY <3>1, ParameterAssumption
    <3> QED BY <3>1, <3>2 DEF Datagram
  <2> QED BY <2>1 DEF Tick
<1>2. /\ UPDATE_OVER \in Nat /\ PING_INTERVAL \in Nat
      /\ NOTIFY_INTERVAL \in Nat
  BY ParameterAssumption DEF UPDATE_OVER
<1>3. ASSUME NEW n \in Node, NEW m \in Node
      PROVE  /\ \A f \in Family :
                   Older(update_age[n][m][f], UPDATE_OVER) \in 0 .. UPDATE_OVER
             /\ Older(ping_age[n][m], PING_INTERVAL) \in 0 .. PING_INTERVAL
             /\ Older(notify_age[n][m], NOTIFY_INTERVAL)
                  \in 0 .. NOTIFY_INTERVAL
  <2>1. /\ \A f \in Family : update_age[n][m][f] \in 0 .. UPDATE_OVER
        /\ ping_age[n][m] \in 0 .. PING_INTERVAL
        /\ notify_age[n][m] \in 0 .. NOTIFY_INTERVAL
    BY DEF TypeOK
  <2> QED BY <1>2, <2>1, OlderType
<1>4. PeersOK'
  BY <1>3 DEF Tick, TypeOK, PeersOK
<1>5. synced' \in [Node -> BOOLEAN]
  BY DEF Tick
<1> QED BY <1>1, <1>4, <1>5 DEF Tick, TypeOK, PeersOK, faultVars

LEMMA CrashType ==
  ASSUME TypeOK, NEW n \in Node, Crash(n)
  PROVE  PeersOK'
<1>1. /\ udp_addr_status' \in [Node -> [Node -> SUBSET Bit]]
      /\ udp_sockaddr' \in [Node -> [Node -> [Family -> Place \cup {NoPlace}]]]
  BY ConfType DEF Crash, TypeOK
<1>2. update_age' \in [Node -> [Node -> [Family -> 0 .. UPDATE_OVER]]]
  BY ConfType DEF Crash, TypeOK
<1>3. /\ ping_age' \in [Node -> [Node -> 0 .. PING_INTERVAL]]
      /\ notify_age' \in [Node -> [Node -> 0 .. NOTIFY_INTERVAL]]
  BY ConfType DEF Crash, TypeOK
<1> QED BY <1>1, <1>2, <1>3 DEF PeersOK

LEMMA FaultType ==
  ASSUME TypeOK, Fault
  PROVE  faults' \in 0 .. MaxFaults
BY ParameterAssumption DEF TypeOK, Fault

LEMMA TypeStep == TypeOK /\ [Next]_vars => TypeOK'
<1> SUFFICES ASSUME TypeOK, [Next]_vars PROVE TypeOK'
  OBVIOUS
<1>1. ASSUME NEW n \in Node, Sync(n) PROVE TypeOK'
  BY <1>1, SyncType
<1>2. ASSUME NEW n \in Node, NEW d \in network, Receive(n, d) PROVE TypeOK'
  <2>1. d \in Datagram /\ network \ {d} \in SUBSET Datagram
    BY DEF TypeOK
  <2>2. PeersOK' /\ network' \in SUBSET Datagram /\ heard' \subseteq Node \X Node
        /\ UNCHANGED <<synced, up, home, cut>>
    BY <1>2, <2>1, HandleType DEF Receive
  <2> QED BY <1>2, <2>2 DEF Receive, TypeOK, PeersOK
<1>3. ASSUME NEW d \in network, Vanish(d) PROVE TypeOK'
  BY <1>3 DEF Vanish, TypeOK, peerVars, faultVars
<1>4. CASE Tick
  BY <1>4, TickType
<1>5. ASSUME NEW d \in network, Lose(d) PROVE TypeOK'
  BY <1>5, FaultType DEF Lose, TypeOK, peerVars
<1>6. ASSUME NEW n \in Node, NEW d \in network, Duplicate(n, d) PROVE TypeOK'
  <2>1. d \in Datagram /\ network \in SUBSET Datagram
    BY DEF TypeOK
  <2>2. PeersOK' /\ network' \in SUBSET Datagram /\ heard' \subseteq Node \X Node
        /\ UNCHANGED <<synced, up, home, cut>>
    BY <1>6, <2>1, HandleType DEF Duplicate
  <2> QED BY <1>6, <2>2, FaultType DEF Duplicate, TypeOK, PeersOK
<1>7. ASSUME NEW n \in Node, Crash(n) PROVE TypeOK'
  <2>1. up' \in [Node -> BOOLEAN] /\ synced' \in [Node -> BOOLEAN]
    BY <1>7 DEF Crash, TypeOK
  <2> QED BY <1>7, <2>1, CrashType, FaultType DEF Crash, TypeOK, PeersOK
<1>8. ASSUME NEW n \in Node, Start(n) PROVE TypeOK'
  <2>1. up' \in [Node -> BOOLEAN] /\ synced' \in [Node -> BOOLEAN]
    BY <1>8 DEF Start, TypeOK
  <2> QED BY <1>8, <2>1 DEF Start, TypeOK, peerVars
<1>9. ASSUME NEW n \in Node, Roam(n) PROVE TypeOK'
  <2>1. PICK p \in Pool[n] : home' = [home EXCEPT ![n] = p]
    BY <1>9 DEF Roam
  <2>2. p \in Place
    BY ParameterAssumption
  <2>3. home' \in [Node -> Place]
    BY <2>1, <2>2 DEF TypeOK
  <2> QED BY <1>9, <2>3, FaultType DEF Roam, TypeOK, peerVars
<1>10. CASE Cut
  BY <1>10, FaultType DEF Cut, TypeOK, peerVars
<1>11. CASE Heal
  BY <1>11 DEF Heal, TypeOK, peerVars
<1>12. CASE UNCHANGED vars
  BY <1>12 DEF vars, TypeOK
<1> QED
  BY <1>1, <1>2, <1>3, <1>4, <1>5, <1>6, <1>7, <1>8, <1>9, <1>10, <1>11, <1>12
     DEF Next, Progress, Disturb

(* Every entry of a node's table, and every datagram, keeps to its range:  *)
(* whatever arrives, in whatever order, at whatever time.                  *)
THEOREM TypeCorrect == Spec => []TypeOK
BY TypeInit, TypeStep, PTL DEF Spec

-----------------------------------------------------------------------------
(* PONG is never out of date.                                              *)

(* A peer with any bit set has a place: sync_node's branch for peers that  *)
(* have none, which goes on to the next peer without looking at the ages,  *)
(* is never taken for a peer with a bit to lose.                           *)
Located ==
  \A n, m \in Node, b \in Bit :
    b \in udp_addr_status[n][m] => udp_sockaddr[n][m][b[2]] # NoPlace

FreshInv == TypeOK /\ Located /\ PongFresh

LEMMA FreshInit == Init => FreshInv
<1> SUFFICES ASSUME Init PROVE FreshInv
  OBVIOUS
<1>1. TypeOK BY TypeInit
<1>2. Located
  BY DEF Init, Located, ConfStatus, ConfSockaddr, Static, Bit
<1>3. PongFresh
  BY DEF Init, PongFresh, Visited
<1> QED BY <1>1, <1>2, <1>3 DEF FreshInv

LEMMA FreshUnchanged ==
  ASSUME FreshInv, TypeOK',
         UNCHANGED <<udp_addr_status, udp_sockaddr, update_age>>,
         \A n \in Node : up'[n] /\ synced'[n] => up[n] /\ synced[n]
  PROVE  FreshInv'
BY DEF FreshInv, Located, PongFresh, Visited, Ignores

(* A pass of sync_node.  A PONG bit that is left stands for a peer whose   *)
(* age was compared: had the loop gone on before that, the peer would have *)
(* had no place, hence no bit, or no PONG.                                 *)
LEMMA FreshSync ==
  ASSUME FreshInv, TypeOK', NEW n \in Node, Sync(n)
  PROVE  FreshInv'
<1>1. /\ udp_sockaddr' = udp_sockaddr /\ update_age' = update_age
      /\ up' = up
      /\ \A k \in Node : udp_addr_status'[k] =
           IF k = n THEN [m \in Node |-> StatusAfterSync(n, m)]
                    ELSE udp_addr_status[k]
      /\ \A k \in Node \ {n} : synced'[k] = synced[k]
  BY DEF Sync, FreshInv, TypeOK, faultVars
<1>2. ASSUME NEW m \in Node
      PROVE  udp_addr_status'[n][m] \subseteq udp_addr_status[n][m]
  BY <1>1 DEF StatusAfterSync, Unexpired
<1>3. Located'
  BY <1>1, <1>2 DEF FreshInv, Located
<1>4. ASSUME NEW m \in Visited(n) \ TypeIdx, NEW f \in Family,
             <<"PONG", f>> \in udp_addr_status'[n][m]
      PROVE  update_age[n][m][f] <= UPDATE_INTERVAL
  <2>1. m \in Node /\ <<"PONG", f>> \in Bit /\ <<"PONG", f>> \in Pongs
    BY DEF Visited, Bit, Pongs
  <2>2. <<"PONG", f>> \in udp_addr_status[n][m]
    BY <1>2, <1>4, <2>1
  <2>3. m \notin Nowhere(n)
    BY <2>1, <2>2 DEF FreshInv, Located, Nowhere, HasPlace
  <2>4. m \notin Skipped(n)
    BY <2>1, <2>2 DEF Skipped, HasPong
  <2>5. m \in Checked(n) /\ m \notin GivenUp(n)
    BY <2>3, <2>4 DEF Checked, Reached, GivenUp
  <2>6. udp_addr_status'[n][m] = Unexpired(n, m)
    BY <1>1, <2>1, <2>5 DEF StatusAfterSync
  <2> QED BY <1>4, <2>6 DEF Unexpired
<1>5. PongFresh'
  BY <1>1, <1>4 DEF FreshInv, PongFresh, Visited, Ignores
<1> QED BY <1>3, <1>5 DEF FreshInv

(* A handler sets a bit together with the place and the age.               *)
LEMMA FreshHandle ==
  ASSUME FreshInv, TypeOK', NEW n \in Node, NEW d \in Datagram, NEW left,
         Handle(n, d, left)
  PROVE  FreshInv'
<1>1. CASE Refuse(n, d, left)
  BY <1>1, FreshUnchanged DEF Refuse, peerVars
<1>2. ASSUME NEW bit \in {"PING", "PONG"}, Record(n, d, bit)
      PROVE  FreshInv'
  <2>1. d.src \in Node /\ d.fam \in Family /\ d.from # NoPlace
    BY ParameterAssumption DEF Datagram
  <2>2. /\ up' = up /\ synced' = synced
        /\ \A k, m \in Node : \A b \in Bit :
             b \in udp_addr_status'[k][m] =>
               \/ b \in udp_addr_status[k][m]
               \/ k = n /\ m = d.src /\ b[2] = d.fam
    BY <1>2, <2>1 DEF Record, FreshInv, TypeOK, Bit
  <2>3. \A k, m \in Node, f \in Family :
          /\ udp_sockaddr'[k][m][f] =
               IF k = n /\ m = d.src /\ f = d.fam THEN d.from
                                                  ELSE udp_sockaddr[k][m][f]
          /\ update_age'[k][m][f] =
               IF k = n /\ m = d.src /\ f = d.fam THEN 0
                                                  ELSE update_age[k][m][f]
    BY <1>2, <2>1 DEF Record, FreshInv, TypeOK
  <2>4. Located'
    BY <2>1, <2>2, <2>3 DEF FreshInv, Located, Bit
  <2>5. PongFresh'
    <3>1. 0 <= UPDATE_INTERVAL
      BY ParameterAssumption
    <3>2. ASSUME NEW k \in Node, NEW m \in Visited(k) \ TypeIdx,
                 NEW f \in Family, up[k], synced[k],
                 <<"PONG", f>> \in udp_addr_status'[k][m]
          PROVE  update_age'[k][m][f] <= UPDATE_INTERVAL
      <4>1. m \in Node /\ <<"PONG", f>> \in Bit /\ <<"PONG", f>>[2] = f
        BY DEF Visited, Bit
      <4>2. CASE k = n /\ m = d.src /\ f = d.fam
        BY <2>3, <3>1, <4>1, <4>2
      <4>3. CASE ~(k = n /\ m = d.src /\ f = d.fam)
        <5>1. <<"PONG", f>> \in udp_addr_status[k][m]
          BY <2>2, <3>2, <4>1, <4>3
        <5>2. update_age[k][m][f] <= UPDATE_INTERVAL
          BY <3>2, <5>1 DEF FreshInv, PongFresh
        <5> QED BY <2>3, <4>1, <4>3, <5>2
      <4> QED BY <4>2, <4>3
    <3> QED BY <2>2, <3>2 DEF PongFresh, Visited, Ignores
  <2> QED BY <2>4, <2>5 DEF FreshInv
<1>3. CASE HandlePing(n, d, left)
  BY <1>2, <1>3 DEF HandlePing
<1>4. CASE HandlePong(n, d, left)
  BY <1>2, <1>4 DEF HandlePong
<1>5. CASE HandlePong2(n, d, left)
  BY <1>2, <1>5 DEF HandlePong2
<1> QED BY <1>1, <1>3, <1>4, <1>5 DEF Handle

(* A process that ends leaves what the configuration says; no sync_node    *)
(* has run when the next one starts.                                       *)
LEMMA FreshCrash ==
  ASSUME FreshInv, TypeOK', NEW n \in Node, Crash(n)
  PROVE  FreshInv'
<1>1. /\ \A k \in Node \ {n} : /\ udp_addr_status'[k] = udp_addr_status[k]
                               /\ udp_sockaddr'[k] = udp_sockaddr[k]
                               /\ update_age'[k] = update_age[k]
                               /\ up'[k] = up[k] /\ synced'[k] = synced[k]
      /\ udp_addr_status'[n] = ConfStatus /\ udp_sockaddr'[n] = ConfSockaddr
      /\ ~up'[n]
  BY DEF Crash, FreshInv, TypeOK
<1>2. \A m \in Node, b \in Bit : b \in ConfStatus[m] =>
                                   ConfSockaddr[m][b[2]] # NoPlace
  BY DEF ConfStatus, ConfSockaddr, Static, Bit
<1>3. Located'
  BY <1>1, <1>2 DEF FreshInv, Located
<1>4. PongFresh'
  BY <1>1 DEF FreshInv, PongFresh, Visited, Ignores
<1> QED BY <1>3, <1>4 DEF FreshInv

LEMMA FreshStep == FreshInv /\ [Next]_vars => FreshInv'
<1> SUFFICES ASSUME FreshInv, [Next]_vars PROVE FreshInv'
  OBVIOUS
<1>0. TypeOK /\ TypeOK'
  BY TypeStep DEF FreshInv
<1>1. ASSUME NEW n \in Node, Sync(n) PROVE FreshInv'
  BY <1>0, <1>1, FreshSync
<1>2. ASSUME NEW n \in Node, NEW d \in network, Receive(n, d) PROVE FreshInv'
  BY <1>0, <1>2, FreshHandle DEF Receive, TypeOK
<1>3. ASSUME NEW d \in network, Vanish(d) PROVE FreshInv'
  BY <1>0, <1>3, FreshUnchanged DEF Vanish, peerVars, faultVars
<1>4. CASE Tick
  <2>1. \A n \in Node : ~synced'[n]
    BY <1>4 DEF Tick
  <2>2. udp_addr_status' = udp_addr_status /\ udp_sockaddr' = udp_sockaddr
    BY <1>4 DEF Tick
  <2>3. Located' /\ PongFresh'
    BY <2>1, <2>2 DEF FreshInv, Located, PongFresh
  <2> QED BY <1>0, <2>3 DEF FreshInv
<1>5. ASSUME NEW d \in network, Lose(d) PROVE FreshInv'
  BY <1>0, <1>5, FreshUnchanged DEF Lose, peerVars
<1>6. ASSUME NEW n \in Node, NEW d \in network, Duplicate(n, d) PROVE FreshInv'
  BY <1>0, <1>6, FreshHandle DEF Duplicate, TypeOK
<1>7. ASSUME NEW n \in Node, Crash(n) PROVE FreshInv'
  BY <1>0, <1>7, FreshCrash
<1>8. ASSUME NEW n \in Node, Start(n) PROVE FreshInv'
  <2>1. \A k \in Node : up'[k] /\ synced'[k] => up[k] /\ synced[k]
    BY <1>0, <1>8 DEF Start, TypeOK
  <2> QED BY <1>0, <1>8, <2>1, FreshUnchanged DEF Start, peerVars
<1>9. ASSUME NEW n \in Node, Roam(n) PROVE FreshInv'
  BY <1>0, <1>9, FreshUnchanged DEF Roam, peerVars
<1>10. CASE Cut
  BY <1>0, <1>10, FreshUnchanged DEF Cut, peerVars
<1>11. CASE Heal
  BY <1>0, <1>11, FreshUnchanged DEF Heal, peerVars
<1>12. CASE UNCHANGED vars
  BY <1>0, <1>12, FreshUnchanged DEF vars
<1> QED
  BY <1>1, <1>2, <1>3, <1>4, <1>5, <1>6, <1>7, <1>8, <1>9, <1>10, <1>11, <1>12
     DEF Next, Progress, Disturb

(* After sync_node, a PONG bit is never older than                         *)
(* GNB_NODE_UPDATE_INTERVAL_SEC, for all intervals and configurations.     *)
THEOREM NoStalePong == Spec => []PongFresh
<1>1. FreshInv => PongFresh BY DEF FreshInv
<1> QED BY <1>1, FreshInit, FreshStep, PTL DEF Spec

-----------------------------------------------------------------------------
(* PONG is only set by a handshake that went both ways.                    *)

(* A pong on its way was sent by a node that had heard from the receiver.  *)
PongFollowsPing ==
  \A d \in network : d.type \in {"PONG", "PONG2"} => <<d.src, d.dst>> \in heard

HandshakeInv == TypeOK /\ PongFollowsPing /\ Handshake

LEMMA HandshakeUnchanged ==
  ASSUME HandshakeInv, TypeOK', network' \subseteq network,
         UNCHANGED <<udp_addr_status, heard>>
  PROVE  HandshakeInv'
BY DEF HandshakeInv, PongFollowsPing, Handshake, HasPong

(* A handler answers only the node it has just heard from, and believes    *)
(* only a pong that was meant for it.                                      *)
LEMMA HandshakeHandle ==
  ASSUME HandshakeInv, TypeOK', NEW n \in Node, NEW d \in network,
         NEW left \in SUBSET network, Handle(n, d, left)
  PROVE  HandshakeInv'
<1>1. d.src \in Node /\ d.fam \in Family /\ heard \subseteq Node \X Node
  BY DEF HandshakeInv, TypeOK, Datagram
<1>2. CASE Refuse(n, d, left)
  <2>1. network' \subseteq network
    BY <1>2 DEF Refuse
  <2> QED BY <1>2, <2>1, HandshakeUnchanged DEF Refuse, peerVars
<1>3. CASE HandlePing(n, d, left)
  <2>1. /\ heard' = heard \cup {<<n, d.src>>}
        /\ network' = left \cup {Frame("PONG", n, d.src, d.fam, d.from)}
    BY <1>3 DEF HandlePing, Record
  <2>2. PongFollowsPing'
    BY <2>1 DEF HandshakeInv, PongFollowsPing, Frame
  <2>3. ASSUME NEW k \in Node, NEW m \in Node
        PROVE  HasPong(k, m)' => HasPong(k, m)
    BY <1>1, <1>3 DEF HandlePing, Record, HandshakeInv, TypeOK, HasPong, Pongs
  <2>4. Handshake'
    BY <2>1, <2>3 DEF HandshakeInv, Handshake
  <2> QED BY <2>2, <2>4 DEF HandshakeInv
<1>4. CASE HandlePong(n, d, left) \/ HandlePong2(n, d, left)
  <2>1. /\ heard' = heard \cup {<<n, d.src>>}
        /\ d.dst = n
        /\ d.type \in {"PONG", "PONG2"}
        /\ Record(n, d, "PONG")
    BY <1>4 DEF HandlePong, HandlePong2, Record
  <2>2. <<d.src, n>> \in heard
    BY <2>1 DEF HandshakeInv, PongFollowsPing
  <2>3. PongFollowsPing'
    <3>1. network' \subseteq left \cup {Frame("PONG2", n, d.src, d.fam, d.from)}
      BY <1>4 DEF HandlePong, HandlePong2
    <3> QED BY <2>1, <3>1 DEF HandshakeInv, PongFollowsPing, Frame
  <2>4. ASSUME NEW k \in Node, NEW m \in Node, ~(k = n /\ m = d.src)
        PROVE  HasPong(k, m)' => HasPong(k, m)
    BY <1>1, <2>1, <2>4 DEF Record, HandshakeInv, TypeOK, HasPong, Pongs
  <2>5. Handshake'
    BY <2>1, <2>2, <2>4 DEF HandshakeInv, Handshake
  <2> QED BY <2>3, <2>5 DEF HandshakeInv
<1> QED BY <1>2, <1>3, <1>4 DEF Handle

LEMMA HandshakeInit == Init => HandshakeInv
<1> SUFFICES ASSUME Init PROVE HandshakeInv
  OBVIOUS
<1>1. TypeOK BY TypeInit
<1>2. PongFollowsPing BY DEF Init, PongFollowsPing
<1>3. Handshake BY DEF Init, Handshake, HasPong, ConfStatus
<1> QED BY <1>1, <1>2, <1>3 DEF HandshakeInv

LEMMA HandshakeSync ==
  ASSUME HandshakeInv, TypeOK', NEW n \in Node, Sync(n)
  PROVE  HandshakeInv'
<1>1. heard' = heard /\ network' = network \cup PingFrames(n)
  BY DEF Sync
<1>2. PongFollowsPing'
  BY <1>1 DEF HandshakeInv, PongFollowsPing, PingFrames, Frame
<1>3. ASSUME NEW k \in Node, NEW m \in Node
      PROVE  udp_addr_status'[k][m] \subseteq udp_addr_status[k][m]
  BY DEF Sync, StatusAfterSync, Unexpired, HandshakeInv, TypeOK
<1>4. Handshake'
  BY <1>1, <1>3 DEF HandshakeInv, Handshake, HasPong
<1> QED BY <1>2, <1>4 DEF HandshakeInv

LEMMA HandshakeCrash ==
  ASSUME HandshakeInv, TypeOK', NEW n \in Node, Crash(n)
  PROVE  HandshakeInv'
<1>1. ASSUME NEW k \in Node, NEW m \in Node \ Static
      PROVE  HasPong(k, m)' => HasPong(k, m)
  BY DEF Crash, HandshakeInv, TypeOK, HasPong, ConfStatus
<1>2. heard' = heard /\ network' = network
  BY DEF Crash
<1>3. Handshake'
  BY <1>1, <1>2 DEF HandshakeInv, Handshake
<1>4. PongFollowsPing'
  BY <1>2 DEF HandshakeInv, PongFollowsPing
<1> QED BY <1>3, <1>4 DEF HandshakeInv

LEMMA HandshakeStep == HandshakeInv /\ [Next]_vars => HandshakeInv'
<1> SUFFICES ASSUME HandshakeInv, [Next]_vars PROVE HandshakeInv'
  OBVIOUS
<1>0. TypeOK'
  BY TypeStep DEF HandshakeInv
<1>1. ASSUME NEW n \in Node, Sync(n) PROVE HandshakeInv'
  BY <1>0, <1>1, HandshakeSync
<1>2. ASSUME NEW n \in Node, NEW d \in network, Receive(n, d)
      PROVE  HandshakeInv'
  BY <1>0, <1>2, HandshakeHandle DEF Receive
<1>3. ASSUME NEW d \in network, Vanish(d) PROVE HandshakeInv'
  BY <1>0, <1>3, HandshakeUnchanged DEF Vanish, peerVars
<1>4. CASE Tick
  <2>1. PongFollowsPing'
    BY <1>4 DEF Tick, HandshakeInv, TypeOK, Datagram, PongFollowsPing
  <2>2. Handshake'
    BY <1>4 DEF Tick, HandshakeInv, Handshake, HasPong
  <2> QED BY <1>0, <2>1, <2>2 DEF HandshakeInv
<1>5. ASSUME NEW d \in network, Lose(d) PROVE HandshakeInv'
  BY <1>0, <1>5, HandshakeUnchanged DEF Lose, peerVars
<1>6. ASSUME NEW n \in Node, NEW d \in network, Duplicate(n, d)
      PROVE  HandshakeInv'
  BY <1>0, <1>6, HandshakeHandle DEF Duplicate
<1>7. ASSUME NEW n \in Node, Crash(n) PROVE HandshakeInv'
  BY <1>0, <1>7, HandshakeCrash
<1>8. ASSUME NEW n \in Node, Start(n) PROVE HandshakeInv'
  BY <1>0, <1>8, HandshakeUnchanged DEF Start, peerVars
<1>9. ASSUME NEW n \in Node, Roam(n) PROVE HandshakeInv'
  BY <1>0, <1>9, HandshakeUnchanged DEF Roam, peerVars
<1>10. CASE Cut
  BY <1>0, <1>10, HandshakeUnchanged DEF Cut, peerVars
<1>11. CASE Heal
  BY <1>0, <1>11, HandshakeUnchanged DEF Heal, peerVars
<1>12. CASE UNCHANGED vars
  BY <1>0, <1>12, HandshakeUnchanged DEF vars
<1> QED
  BY <1>1, <1>2, <1>3, <1>4, <1>5, <1>6, <1>7, <1>8, <1>9, <1>10, <1>11, <1>12
     DEF Next, Progress, Disturb

(* A node has PONG for a peer outside address.conf only after each has     *)
(* heard the other, under any loss, delay, duplication and restart.        *)
THEOREM PongMeansBothWays == Spec => []Handshake
<1>1. HandshakeInv => Handshake BY DEF HandshakeInv
<1> QED BY <1>1, HandshakeInit, HandshakeStep, PTL DEF Spec

-----------------------------------------------------------------------------
(* What never leaves a node, or enters its table.                          *)

(* A silent node answers only those it does not ignore, and pings no other.*)
LEMMA SilentFrame ==
  ASSUME NEW n \in Node, NEW m \in Node, ~Ignores(n, m),
         NEW f, NEW p, NEW type
  PROVE  LET d == Frame(type, n, m, f, p)
         IN  d.src \in Silent[d.src] => d.dst \in Forward
BY DEF Frame, Ignores

SilentInv == TypeOK /\ SilentHides

LEMMA SilentHandle ==
  ASSUME SilentInv, NEW n \in Node, NEW d \in network,
         NEW left \in SUBSET network, Handle(n, d, left)
  PROVE  SilentHides'
<1>1. d.src \in Node
  BY DEF SilentInv, TypeOK, Datagram
<1>2. CASE Refuse(n, d, left) \/ HandlePong2(n, d, left)
  BY <1>2 DEF Refuse, HandlePong2, SilentInv, SilentHides
<1>3. CASE HandlePing(n, d, left)
  BY <1>1, <1>3, SilentFrame DEF HandlePing, Accepts, SilentInv, SilentHides
<1>4. CASE HandlePong(n, d, left)
  BY <1>1, <1>4, SilentFrame DEF HandlePong, Accepts, SilentInv, SilentHides
<1> QED BY <1>2, <1>3, <1>4 DEF Handle

LEMMA SilentStep == SilentInv /\ [Next]_vars => SilentInv'
<1> SUFFICES ASSUME SilentInv, [Next]_vars PROVE SilentHides'
  BY TypeStep DEF SilentInv
<1>1. ASSUME NEW n \in Node, Sync(n) PROVE SilentHides'
  <2>1. ASSUME NEW d \in PingFrames(n)
        PROVE  d.src \in Silent[d.src] => d.dst \in Forward
    <3>1. PICK t \in PingTargets(n) :
            d = Frame("PING", n, t[1], t[2], udp_sockaddr[n][t[1]][t[2]])
      BY DEF PingFrames
    <3>2. t[1] \in Node /\ ~Ignores(n, t[1])
      BY DEF PingTargets, Pinged, Reached, Visited
    <3> QED BY <3>1, <3>2, SilentFrame
  <2> QED BY <1>1, <2>1 DEF Sync, SilentInv, SilentHides
<1>2. ASSUME NEW n \in Node, NEW d \in network,
             Receive(n, d) \/ Duplicate(n, d)
      PROVE  SilentHides'
  BY <1>2, SilentHandle DEF Receive, Duplicate
<1>3. CASE Tick
  BY <1>3 DEF Tick, SilentInv, TypeOK, Datagram, SilentHides
<1>4. CASE network' \subseteq network
  BY <1>4 DEF SilentInv, SilentHides
<1> QED
  BY <1>1, <1>2, <1>3, <1>4
     DEF Next, Progress, Disturb, Vanish, Lose, Crash, Start, Roam, Cut, Heal,
         vars

(* A silent node sends nothing but to forward nodes, whoever pings it,     *)
(* from whatever place, and whatever it knew before a restart.             *)
THEOREM SilenceKept == Spec => []SilentHides
<1>1. Init => SilentInv
  BY TypeInit DEF Init, SilentInv, SilentHides
<1>2. SilentInv => SilentHides
  BY DEF SilentInv
<1> QED BY <1>1, <1>2, SilentStep, PTL DEF Spec

(* address.conf places no peer inside the virtual network.                 *)
ConfOutside == \A n \in Node : ConfPlace[n] \notin TunPlace

OutsideInv == TypeOK /\ TunnelNotNested

LEMMA OutsideRecord ==
  ASSUME OutsideInv, NEW n \in Node, NEW d \in Datagram,
         d.from \notin TunPlace, NEW bit, Record(n, d, bit)
  PROVE  TunnelNotNested'
<1>1. d.src \in Node /\ d.fam \in Family
  BY DEF Datagram
<1>2. \A k, m \in Node, f \in Family :
        udp_sockaddr'[k][m][f] \in {d.from, udp_sockaddr[k][m][f]}
  BY <1>1 DEF Record, OutsideInv, TypeOK
<1> QED BY <1>2 DEF OutsideInv, TunnelNotNested

LEMMA OutsideStep ==
  ASSUME ConfOutside, OutsideInv, [Next]_vars
  PROVE  OutsideInv'
<1> SUFFICES TunnelNotNested'
  BY TypeStep DEF OutsideInv
<1>1. CASE udp_sockaddr' = udp_sockaddr
  BY <1>1 DEF OutsideInv, TunnelNotNested
<1>2. ASSUME NEW n \in Node, NEW d \in network,
             Receive(n, d) \/ Duplicate(n, d)
      PROVE  TunnelNotNested'
  <2>1. d \in Datagram
    BY DEF OutsideInv, TypeOK
  <2>2. PICK left : Handle(n, d, left)
    BY <1>2 DEF Receive, Duplicate
  <2>3. CASE Refuse(n, d, left)
    BY <1>1, <2>3 DEF Refuse, peerVars
  <2>4. CASE ~Refuse(n, d, left)
    <3>1. d.from \notin TunPlace /\ (Record(n, d, "PING") \/ Record(n, d, "PONG"))
      BY <2>2, <2>4 DEF Handle, HandlePing, HandlePong, HandlePong2, Accepts
    <3> QED BY <2>1, <3>1, OutsideRecord
  <2> QED BY <2>3, <2>4
<1>3. ASSUME NEW n \in Node, Crash(n) PROVE TunnelNotNested'
  <2>1. \A k \in Node : udp_sockaddr'[k] \in {ConfSockaddr, udp_sockaddr[k]}
    BY <1>3 DEF Crash, OutsideInv, TypeOK
  <2>2. \A m \in Node, f \in Family : ConfSockaddr[m][f] \notin TunPlace
    BY DEF ConfSockaddr, ConfOutside
  <2> QED BY <2>1, <2>2 DEF OutsideInv, TunnelNotNested
<1> QED
  BY <1>1, <1>2, <1>3
     DEF Next, Progress, Disturb, Sync, Vanish, Tick, Lose, Start, Roam, Cut,
         Heal, peerVars, vars

(* A peer is never placed inside the tunnel, for any families and any      *)
(* nodes that move into it, if address.conf does not place one there.      *)
THEOREM NoNesting == ASSUME ConfOutside PROVE Spec => []TunnelNotNested
<1>1. Init => OutsideInv
  <2> SUFFICES ASSUME Init PROVE TunnelNotNested
    BY TypeInit DEF OutsideInv
  <2> QED BY DEF Init, ConfSockaddr, ConfOutside, TunnelNotNested
<1>2. OutsideInv /\ [Next]_vars => OutsideInv'
  BY OutsideStep
<1>3. OutsideInv => TunnelNotNested
  BY DEF OutsideInv
<1> QED BY <1>1, <1>2, <1>3, PTL DEF Spec
=============================================================================
