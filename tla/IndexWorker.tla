---------------------------- MODULE IndexWorker -----------------------------
(***************************************************************************)
(* gnb_index_worker.c: the thread of a node that posts its address to all  *)
(* index nodes, asks them for the peers it has no path to, and probes the  *)
(* addresses it knows of a peer with DETECT frames.                        *)
(***************************************************************************)
EXTENDS IndexNetwork

CONSTANTS
  POST_INTERVAL,      \* GNB_POST_ADDR_INTERVAL_TIME_SEC
  REQUEST_INTERVAL,   \* GNB_REQUEST_ADDR_INTERVAL_SEC
  INDEX_LIFE,         \* GNB_ADDRESS_LIFE_TIME_TS_SEC, for index addresses
  UPDATE_INTERVAL,    \* GNB_NODE_UPDATE_INTERVAL_SEC of the node worker
  MAX_DETECT,         \* GNB_NODE_MAX_DETECT_TIMES
  Sockets             \* udp_socket_type: the families of the node's sockets

VARIABLES
  post_age,       \* since last_post_addr_ts_sec
  request_age,    \* since last_request_addr_sec, per peer
  detect_count,   \* detect_count, per peer
  known,          \* push_address_block and dynamic_address_block, per peer
  udp_addr_status, udp_sockaddr, update_age,      \* as the node worker's
  index_age,      \* since ts_sec of each address of index_address_ring
  index_pong,     \* the index nodes with PONG, by their places in Service
  cur_index,      \* cur_index of index_address_ring, or of index_node_ring
                  \* in the secure variant, counted from 1
  ran,            \* the loop body has begun since the last tick
  todo,           \* the peers its sync_index_node has not come to yet
  heard           \* history: <<n, m>>, n has accepted a probe of m

workvars == <<post_age, request_age, detect_count, known, udp_addr_status,
              udp_sockaddr, update_age, index_age, index_pong, cur_index,
              ran, todo, heard>>

ASSUME WorkerAssumption ==
  /\ {POST_INTERVAL, REQUEST_INTERVAL, INDEX_LIFE, UPDATE_INTERVAL,
      MAX_DETECT} \subseteq Nat \ {0}
  /\ Sockets \subseteq {4, 6}

-----------------------------------------------------------------------------
(* gnb_select_index_address.  The condition that is to leave out addresses *)
(* the node has no socket for leaves out IPv6 addresses when there are no  *)
(* IPv4 sockets.  Addresses of index nodes are of the family of the        *)
(* sockets, IPv6 only when there is no other.                              *)
Usable(n, k) == 4 \in Sockets /\ index_age[n][k] < INDEX_LIFE

(* gnb_select_index_address and the case of all of them: the indices in    *)
(* Service of those a request goes to.  The search begins at cur_index, or *)
(* at the first.                                                           *)
Turn(c, i) == ((c + i - 2) % Count) + 1
Tries(n, c) ==
  {i \in 1 .. Count :
     IF conf.safe_index THEN Turn(c, i) \in index_pong[n]
     ELSE Usable(n, Turn(c, i))}
FirstTry(n, c) == CHOOSE i \in Tries(n, c) : \A j \in Tries(n, c) : i <= j
Multi(n) == conf.multi_index_type[n]
Balances(n) == Multi(n) = "load-balance" /\ Count > 1

Selected(n) ==
  LET c == IF Balances(n) THEN cur_index[n] ELSE 1
  IN  IF Count = 1 \/ Tries(n, c) = {} THEN 1
      ELSE Turn(c, FirstTry(n, c))

(* gnb_select_index_nodes of the secure variant goes by PONG.  When it     *)
(* balances, it returns the node at the number of the turn, which need not *)
(* be the one whose PONG it has seen.                                      *)
SelectedNode(n) ==
  IF Balances(n) /\ Tries(n, cur_index[n]) # {}
  THEN FirstTry(n, cur_index[n])
  ELSE Selected(n)

Asked(n) ==
  IF Multi(n) = "full" THEN 1 .. Count
  ELSE {IF conf.safe_index THEN SelectedNode(n) ELSE Selected(n)}

(* Where cur_index is after that: past the chosen one, or after a whole    *)
(* turn where it was.                                                      *)
NextIndex(n) ==
  IF Balances(n) /\ Tries(n, cur_index[n]) # {}
  THEN Turn(cur_index[n], FirstTry(n, cur_index[n]) + 1)
  ELSE cur_index[n]

-----------------------------------------------------------------------------
(* The loop's body once in a tick: what the thread does again after 150 ms *)
(* is nothing.  First send_post_addr_frame, to all index nodes, with the   *)
(* address gnb_es has put into the control block, if any.                  *)
Due(n) == post_age[n] > POST_INTERVAL

Loop(n) ==
  /\ n \in up /\ ~ran[n]
  /\ ran' = [ran EXCEPT ![n] = TRUE]
  /\ todo' = [todo EXCEPT ![n] = Node \ {n}]
  /\ \E w \in conf.wan6[n] : network' = network \o
       (IF Due(n) THEN Burst({Post(n, x, w) : x \in ServiceNode}) ELSE <<>>)
  /\ post_age' = [post_age EXCEPT ![n] = IF Due(n) THEN 0 ELSE @]
  /\ UNCHANGED <<up, home, held, request_age, detect_count, known,
                 udp_addr_status, udp_sockaddr, update_age, index_age,
                 index_pong, cur_index, heard>>

(* Then sync_index_node: a peer without a path is probed at all addresses  *)
(* known of it (detect_node_addr), some times, and asked for.              *)
Sought(n, m) ==
  /\ "PONG" \notin udp_addr_status[n][m]
  /\ request_age[n][m] >= REQUEST_INTERVAL
ProbedOnceMore(n, m) ==
  Sought(n, m) /\ detect_count[n][m] <= MAX_DETECT
Probed(n, m) == Sought(n, m) /\ detect_count[n][m] < MAX_DETECT

Probes(n, m) == {Detect(n, p, m, "d") : p \in known[n][m]}
Requests(n, m) == {Request(n, Service[k], m) : k \in Asked(n)}

CountAfterResets(n, m) == IF Probed(n, m) THEN detect_count[n][m] + 1 ELSE 0
CountAfter(n, m) ==
  IF Probed(n, m) THEN detect_count[n][m] + 1 ELSE detect_count[n][m]

SyncPeer(n, m) ==
  /\ n \in up /\ m \in todo[n]
  /\ todo' = [todo EXCEPT ![n] = @ \ {m}]
  /\ network' = network
       \o (IF Probed(n, m) THEN Burst(Probes(n, m)) ELSE <<>>)
       \o (IF Sought(n, m) THEN Burst(Requests(n, m)) ELSE <<>>)
  /\ cur_index' = [cur_index EXCEPT ![n] =
                     IF Sought(n, m) THEN NextIndex(n) ELSE @]
  /\ request_age' = [request_age EXCEPT ![n][m] =
                       IF Sought(n, m) THEN 0 ELSE @]
  /\ detect_count' = [detect_count EXCEPT ![n][m] = CountAfter(n, m)]
  /\ UNCHANGED <<up, home, held, post_age, known, udp_addr_status,
                 udp_sockaddr, update_age, index_age, index_pong, ran, heard>>

-----------------------------------------------------------------------------
(* handle_recv_queue is the same thread: not in the middle of a pass.      *)
Takes(n, d) == Reaches(d, n) /\ todo[n] = {}

(* handle_push_addr_frame: the addresses are kept, probed at once, and the *)
(* count of probes starts again.                                           *)
HandlePush(n, d) ==
  LET m == d.node
  IN  /\ d.type = "PUSH" /\ Takes(n, d)
      /\ \/ /\ m = n \/ d.addrs = {}
            /\ Exchange(d, <<>>)
            /\ UNCHANGED <<known, detect_count>>
         \/ /\ m # n /\ d.addrs # {}
            /\ Exchange(d, Burst({Detect(n, p, m, "d") : p \in d.addrs}))
            /\ known' = [known EXCEPT ![n][m] = @ \cup d.addrs]
            /\ detect_count' = [detect_count EXCEPT ![n][m] = 0]
      /\ UNCHANGED <<post_age, request_age, udp_addr_status, udp_sockaddr,
                     update_age, index_age, index_pong, cur_index, ran, todo,
                     heard>>

(* handle_echo_addr_frame, from an address of index_address_ring.  The     *)
(* secure variant drops an ECHO in which index_node_uuid64 is 0, and       *)
(* send_echo_addr_frame leaves it so in every one.                         *)
EchoOfFirst(n, d, k) == ~conf.safe_index /\ d.dst = n /\ k = 1
EchoOf(n, d, k) == ~conf.safe_index /\ d.dst = n /\ Service[k] = d.src

HandleEcho(n, d) ==
  /\ d.type = "ECHO" /\ Takes(n, d)
  /\ Exchange(d, <<>>)
  /\ index_age' = [index_age EXCEPT ![n] =
       [k \in 1 .. Count |->
          IF EchoOf(n, d, k) THEN 0 ELSE index_age[n][k]]]
  /\ UNCHANGED <<post_age, request_age, detect_count, known, udp_addr_status,
                 udp_sockaddr, update_age, index_pong, cur_index, ran, todo,
                 heard>>

(* handle_detect_addr_frame: where a probe or an answer comes from is      *)
(* where the peer is; only an answer proves the path in both directions.   *)
LearntAlwaysPong(arg) == "PONG"
Learnt(arg) == IF arg = "e" THEN "PONG" ELSE "PING"

HandleDetect(n, d) ==
  LET m == d.src
  IN  /\ d.type = "DETECT" /\ Takes(n, d)
      /\ udp_sockaddr' = [udp_sockaddr EXCEPT ![n][m] = d.from]
      /\ known' = [known EXCEPT ![n][m] = @ \cup {d.from}]
      /\ heard' = heard \cup {<<n, m>>}
      /\ udp_addr_status' = [udp_addr_status EXCEPT ![n][m] =
                               @ \cup {Learnt(d.arg)}]
      /\ \/ /\ d.arg = "e"
            /\ Exchange(d, <<>>)
            /\ update_age' = [update_age EXCEPT ![n][m] = 0]
         \/ /\ d.arg # "e"
            /\ Exchange(d, <<Detect(n, d.from, m, "e")>>)
            /\ UNCHANGED update_age
      /\ UNCHANGED <<post_age, request_age, detect_count, index_age,
                     index_pong, cur_index, ran, todo>>

-----------------------------------------------------------------------------
UPDATE_OVER == UPDATE_INTERVAL + 1

(* What the node worker does meanwhile: it keeps up a path both ends know, *)
(* and drops a peer it has not heard from for longer than the interval.    *)
(* (That it does this much is what module NodeWorker shows.)               *)
Path(n, m) ==
  /\ {n, m} \subseteq up
  /\ "PONG" \in udp_addr_status[n][m] /\ udp_sockaddr[n][m] = home[m]

UpdateAge(n, m) ==
  IF Path(n, m) /\ Path(m, n) THEN 0 ELSE Older(update_age[n][m], UPDATE_OVER)

(* Index nodes answer pings; one that has answered keeps PONG although it  *)
(* may answer no more, because its status does not expire.                 *)
Answering(n) ==
  IF n \in up THEN {k \in 1 .. Count : Service[k] \in up} ELSE {}

(* gnb_add_index_node_ring leaves cur_index at the last.                   *)
FirstIndex == IF conf.safe_index THEN Count ELSE 1

(* A tick of the clock, with the node workers' work.                       *)
WorkerTick ==
  /\ update_age' = [n \in Node |-> [m \in Node |-> UpdateAge(n, m)]]
  /\ udp_addr_status' = [n \in Node |-> [m \in Node |->
       IF UpdateAge(n, m) = UPDATE_OVER THEN {} ELSE udp_addr_status[n][m]]]
  /\ post_age' = [n \in Node |-> Older(post_age[n], POST_INTERVAL + 1)]
  /\ request_age' = [n \in Node |-> [m \in Node |->
       Older(request_age[n][m], REQUEST_INTERVAL)]]
  /\ index_age' = [n \in Node |-> [k \in 1 .. Count |->
       Older(index_age[n][k], INDEX_LIFE)]]
  /\ index_pong' = [n \in Node |-> index_pong[n] \cup Answering(n)]
  /\ ran' = [n \in Node |-> FALSE]
  /\ UNCHANGED <<detect_count, known, udp_sockaddr, cur_index, todo, heard>>

(* The process starts: all time stamps are 0 and all lists empty.          *)
Fresh(n) ==
  /\ post_age' = [post_age EXCEPT ![n] = POST_INTERVAL + 1]
  /\ request_age' = [request_age EXCEPT ![n] =
                       [m \in Node |-> REQUEST_INTERVAL]]
  /\ detect_count' = [detect_count EXCEPT ![n] = [m \in Node |-> 0]]
  /\ known' = [known EXCEPT ![n] = [m \in Node |-> {}]]
  /\ udp_addr_status' = [udp_addr_status EXCEPT ![n] = [m \in Node |-> {}]]
  /\ udp_sockaddr' = [udp_sockaddr EXCEPT ![n] = [m \in Node |-> NoPlace]]
  /\ update_age' = [update_age EXCEPT ![n] = [m \in Node |-> UPDATE_OVER]]
  /\ index_age' = [index_age EXCEPT ![n] = [k \in 1 .. Count |-> INDEX_LIFE]]
  /\ index_pong' = [index_pong EXCEPT ![n] = {}]
  /\ cur_index' = [cur_index EXCEPT ![n] = FirstIndex]
  /\ ran' = [ran EXCEPT ![n] = FALSE]
  /\ todo' = [todo EXCEPT ![n] = {}]
  /\ UNCHANGED heard

WorkerInit ==
  /\ post_age = [n \in Node |-> POST_INTERVAL + 1]
  /\ request_age = [n \in Node |-> [m \in Node |-> REQUEST_INTERVAL]]
  /\ detect_count = [n \in Node |-> [m \in Node |-> 0]]
  /\ known = [n \in Node |-> [m \in Node |-> {}]]
  /\ udp_addr_status = [n \in Node |-> [m \in Node |-> {}]]
  /\ udp_sockaddr = [n \in Node |-> [m \in Node |-> NoPlace]]
  /\ update_age = [n \in Node |-> [m \in Node |-> UPDATE_OVER]]
  /\ index_age = [n \in Node |-> [k \in 1 .. Count |-> INDEX_LIFE]]
  /\ index_pong = [n \in Node |-> {}]
  /\ cur_index = [n \in Node |-> FirstIndex]
  /\ ran = [n \in Node |-> FALSE]
  /\ todo = [n \in Node |-> {}]
  /\ heard = {}

WorkerTypeOK ==
  /\ post_age \in [Node -> 0 .. POST_INTERVAL + 1]
  /\ request_age \in [Node -> [Node -> 0 .. REQUEST_INTERVAL]]
  /\ detect_count \in [Node -> [Node -> 0 .. MAX_DETECT]]
  /\ known \in [Node -> [Node -> SUBSET Place]]
  /\ udp_addr_status \in [Node -> [Node -> SUBSET {"PING", "PONG"}]]
  /\ udp_sockaddr \in [Node -> [Node -> Place \cup {NoPlace}]]
  /\ update_age \in [Node -> [Node -> 0 .. UPDATE_OVER]]
  /\ index_age \in [Node -> [1 .. Count -> 0 .. INDEX_LIFE]]
  /\ index_pong \in [Node -> SUBSET (1 .. Count)]
  /\ cur_index \in [Node -> 1 .. Count]
  /\ ran \in [Node -> BOOLEAN]
  /\ todo \in [Node -> SUBSET Node]
  /\ heard \subseteq Node \X Node
=============================================================================
