# A TLA+ model of opengnb

opengnb is a peer-to-peer VPN. Every node runs the same program; nodes find
each other with the help of public index nodes or of forward nodes, keep UDP
paths open by ping and pong, and carry the IP packets of a virtual interface
over these paths, directly or through other nodes.

This directory holds TLA+ modules that model parts of that program, TLC
configurations that check them on small instances, and TLAPS proofs of the
theorems that matter most. Paths below are relative to `src/src/src/` unless they
start otherwise.

## 1. The system

One process has these threads, each with its own loop. They share the node
table (`ctl_block->node_zone`), which nobody locks, and pass frames through
rings.

| Component | State | Operations | Talks to |
|---|---|---|---|
| primary worker (`gnb_primary_worker.c`) | sockets, tun device, its packet filter context | `handle_udp`, `handle_tun`, ur0/ur1 relay | pushes into every other worker's ring |
| ring buffer (`gnb_ring_buffer_fixed.c`) | `head_idx`, `tail_idx`, blocks | push, push_submit, pop, pop_submit | one producer, one consumer |
| node worker (`gnb_node_worker.c`) | per peer: `udp_addr_status`, `udp_sockaddr4/6`, update, ping and notify timestamps | `sync_node`, ping, pong, pong2, unified-forwarding notify | the node workers of all peers |
| index worker (`gnb_index_worker.c`, secure variant) | per peer: address lists, request timestamps | post, request, handle echo, push, detect | index service of an index node; index workers of peers |
| index service worker (`gnb_index_service_worker.c`, secure variant) | an LRU table of key to addresses | handle post, handle request, push | index workers |
| detect worker (`gnb_detect_worker.c`) | per peer: `detect_address4_idx`, `detect_port4`, `last_full_detect_sec`; the list the index worker fills | probes the ports of a range, one a turn | index workers of peers |
| packet filter worker (`gnb_pf_worker.c`) | two rings, a packet filter context | `gnb_pf_inet`, `gnb_pf_tun` | the primary worker |
| packet filters (`gnb_pf.c`, `packet_filter/`) | none across frames | route, zip, xor, arc4 | `gnb_node.c` to send |
| unified forwarding (`gnb_unified_forwarding.c`) | per peer: forwarders, time-stamp window | choose forwarders, drop duplicates | packet filters, node worker |
| node selection (`gnb_node.c`) | rings of forward and index nodes | select route, forward node, index nodes; send | everything that sends |
| LRU cache, hash, pool, list, address list | their own | put, get, evict | index service, node table |
| core, keys, worker framework | keys by the hour; run flags | start, stop, key change | all workers |
| environment services (`es/`) | a second process on the same control block | resolve, discover in LAN, UPnP | node table |
| configuration | `conf` | options, `node.conf`, `route.conf`, `address.conf` | read once at start |

What is hard in it: two threads in one ring without a lock; peers whose
knowledge of each other rests on datagrams that are lost, late or repeated and
on three interlocking intervals; restarts that forget everything while peers do
not; several threads that modify one peer's status word; index nodes that relay
stale addresses; key changes that the two ends do not make at the same moment.
`PROJECT.json` lists these hazards at their lines with the properties that cover
them, or the reason why none does.

What makes each component correct:

* ring buffer: a bounded FIFO; the two threads never touch the same block;
* node worker: PONG means the path works in both directions, it is never older
  than the update interval, and once faults end peers find each other again;
* index worker and service: a peer asked for learns an address that was posted
  and not older than what it has;
* detect worker: without a path every port of the range is tried at every pushed address; with one, none is;
* LRU cache: list, hash and pools agree; the least recently used entry goes;
* unified forwarding: every packet reaches the tun at most once and, if a path
  works, at least once; route: no frame travels round for ever;
* keys: two ends with clocks a little apart can always decrypt each other;
* workers: after stop no worker runs; shutdown ends.

## 2. The ring: `BoundedQueue`, `RingBufferFixed`, `QueueLength`, `MCThreads`

`RingBufferFixed` is the ring with its two users. `head_idx`, `tail_idx` and
`blocks` are the fields of `gnb_ring_buffer_fixed_t`; `frame`, `filled`,
`pushing` are where the producer is between `_push` and `_push_submit`; `popping`
and `seen` where the consumer is between `_pop` and `_pop_submit`.

| Action | Code |
|---|---|
| `Push`, `PushFull` | `gnb_ring_buffer_fixed_push` returns a block, or NULL and the frame is dropped |
| `Fill(p)` | one of the copies in `make_worker_receive_queue_data`, or the `recvfrom` of `handle_udp` |
| `PushSubmit` | `gnb_ring_buffer_fixed_push_submit` |
| `Abandon` | `handle_udp` with packet filter workers: the block was filled but the payload is not an IP frame |
| `Pop`, `Read(p)`, `PopSubmit` | `handle_recv_queue`: `_pop`, the handler reading in place, `_pop_submit` |

A frame has two parts, address and payload, copied and read in any order, so
that a frame mixed from two can be told from a whole one. Stores are seen in
program order: the code has no barriers, so on machines that reorder stores the
model says nothing.

`BoundedQueue` is the abstract specification: a sequence of at most Capacity
frames. `ImplementsQueue` states that the ring implements it, mapping the queue
to the payloads of the submitted, unhandled blocks.

`QueueLength` follows the configured length from the command line to the mask
(`gnb_argv.c`) and does the index arithmetic with `&` as the code does, which
`RingBufferFixed` replaces by a modulo. The limits raise a length to 15 or cut it to 8191 and do nothing else. If it is
2^k - 1 (as the defaults are), `&` is the modulo, and `RingBufferFixed` is the ring. Any other length
makes a ring that goes round in fewer blocks, as many as the lowest bit counts that the length lacks (`Slots`): 16
of a length of 47, one of 100 or 300, so that the ring is full when empty and every frame is dropped (`Dropped`).
`LosesNothing` says what holds for every length: no frame is refused before those blocks are used, none is lost when
an index wraps, and the indices stay in them. That a ring takes as many frames as its length
is therefore not claimed (section 10). `MCThreads` has both and the detect worker of section 8, a
behaviour being about one of them (`subject`) while the variables of the others keep one initial value; the fairness
of each is stated for the behaviours about it.

## 3. The node worker: `NodeWorker`, `MCNodeWorker`

All nodes with their node workers, and the network between them. A node's
knowledge of a peer is `udp_addr_status[n][m]` (a set of `<<"PING"|"PONG", family>>`, the
four bits), `udp_sockaddr[n][m][family]`, and the ages of the three timestamps.

| Action | Code |
|---|---|
| `Sync(n)` | one pass of `sync_node` over all peers, `send_ping_frame` included |
| `Receive(n, d)` | `handle_recv_queue` and `handle_node_frame` on one datagram: `HandlePing`, `HandlePong`, `HandlePong2`, or `Refuse` for their early returns |
| `Tick` | about 11 s pass (`GNB_NODE_SYNC_INTERVAL_TIME_SEC` and the loop's granularity); every running node syncs once per tick |
| `Crash(n)`, `Start(n)` | the process ends and is started; it knows what `address.conf` says |
| `Lose`, `Duplicate`, `Vanish`, `Cut`, `Heal`, `Roam` | the network: a datagram is lost, repeated or addressed to nobody; an outage; a node's address changes |

`sync_node` is a loop with several `continue`s. The model states for each part
of the loop body which peers reach it: `Visited` (not silent), `Nowhere` and
`GivenUp` (no address), `Reached`, `Pinged`, `Notified`, `Skipped` (the
`continue` at line 507), `Checked` (the expiry tests). `StatusAfterSync` is what the
whole body leaves of a peer's status.

Abstractions: an age stands for `now - ts`, capped at the largest value a test
compares it with; a node has one place for all families; payload, signature,
latency, address lists and the tun port are left out; the attributes i, f, r of
`address.conf` are the same for all nodes, s is per node; notify frames for
unified forwarding appear only by the pause they cause in the loop; LAN pings are
not modelled; identical datagrams on their way count as one.

Bounds: `MaxFaults` counts losses, duplicates, crashes, moves and outages;
`MaxDelay` is the number of ticks a datagram may be on its way. The intervals are
in ticks: ping 37 s is 4, update 75 s is 6 (the 7th is over), notify is 4.

Fairness: `WF_vars(Progress)`. The worker's loop sleeps for 150 ms and runs as long as
the process, so `Sync` and `Receive` are taken; a datagram is either lost, which
is a fault, or arrives in bounded time; faults and repairs (`Disturb`) are never forced.

`MCNodeWorker` has three sets of nodes: `"path"`, for everything about the path between two nodes and the only one with
fairness; `"families"`, with both families and a place inside the tunnel, for `NeverNested` (the instance's
`TunnelNotNested`); `"silent"`, with a third node that is silent, for `NothingFromSilent` (`SilentHides`). The last two
are instances of `NodeWorker` with variables of their own; a behaviour is of one of the three, and their properties
are invariants, which need no fairness.

`TypeIdx` is `Index \cup Forward`: `gnb_add_forward_node_ring` gives a forward
node the type `GNB_NODE_TYPE_IDX` too, so it is exempt from expiry like an index node.

## 4. The LRU table: `LruCache`, `Lru32`, `Hash32`, `MCLru32`, `Lru32_proof`

`Lru32` is the table with the structures it is built of: the list with its head and
tail pointers, the hash from key to node, the pools of free lru nodes, of free list nodes and
of free payload blocks. One record `lru` holds them, and `call` what the last call was and
returned. `FixedStore`, `Get` (also `gnb_lru32_movetohead`), `PopHead`, `PopTail`, `PopByKey` and
`HashGetAndWrite` are `gnb_lru32.h`'s functions; the operators `DlAdd`, `DlPop`, `DlMoveHead`, ...
are those of `gnb_doubly_linked_list.c`, one case per branch.

`Hash32` is `gnb_hash32.c`: as many buckets as the table has entries, and in each a chain of keys with their values.
`Set` appends to the chain or changes the value where the key already is, `Get` stops at the first match, `Del`
unlinks it, at the front of the chain or behind another entry. It has no state of its own: `lru.map` holds the buckets,
and `HashGet` and `HashDel` are the calls that the table makes. `murmurhash_hash` is a constant, any function from keys to numbers, so the
keys of a bucket are whichever the hash sends there. Of the hash table, `gnb_hash32_store`, which only unused macros call, and
the listings of its keys are left out.

`LruCache` is what the table promises: a sequence of entries in the order of last
use, whose last one makes room. A table of one or two entries may keep its order when one
is used: `gnb_doubly_linked_list_move_head` returns at once for such lists, although
the comment in `gnb_lru32.h` says that a hit moves the node to the head.

Bounds: a table of three has lists of none, one, two and three, which the list operations treat differently, and evicts the
fourth key. With three keys in one bucket a chain has up to three entries, and one is unlinked at its front, in its middle and at its end.

## 5. Finding each other: `IndexNetwork`, `IndexService`, `IndexWorker`, `Rendezvous`, `MCRendezvous`

Nodes that know nothing of each other post their address to all index nodes, ask one of
them (or all) for the peers they have no path to, are told each other's addresses,
and probe these. `IndexNetwork` has the frames and the network, `IndexService` the thread of an index
node, `IndexWorker` that of a node; `Rendezvous` puts them together with faults,
restarts and changes of address.

| Action | Code |
|---|---|
| `HandlePost` | `handle_post_addr_frame` (`TakePost`) with `send_echo_addr_frame`; a post within `GNB_POST_ADDR_LIMIT_SEC` of the last renews only `last_post_addr` |
| `HandleJunk` | `handle_post_addr_frame` (`TakePost`) of the secure variant, when the sender's key was that of another hour |
| `HandleRequest` | `handle_request_addr_frame`, whose early returns leave the table or move only the asker; `send_push_addr_frame` twice |
| `Loop(n)`, `SyncPeer(n, m)` | one turn of `thread_worker_func`: `send_post_addr_frame` when due, then `sync_index_node`, a peer at a time: `detect_node_addr` up to `GNB_NODE_MAX_DETECT_TIMES` times and `send_request_addr_frame` |
| `HandlePush`, `HandleEcho`, `HandleDetect` | the three handlers of `handle_index_frame` |
| `Tick` | about 40 s pass; the node workers' part of it is `WorkerTick` |
| `Lose`, `Hold`, `Repeat`, `OtherHour`, `Vanish`, `Roam`, `Crash`, `Start` | the network, the clocks and the processes |

State: `table[x]` is the LRU table of index node x as a sequence, most recent first, of
key, age of the last post, the address list of `gnb_address_list3_fifo`, and the address the node last gave as
its own (`wan6`), which has no time stamp, is kept when a later post gives none, and fills a field of a PUSH that is
free (`Filled`); of a node,
`known` is the union of its push and dynamic address lists, `index_age` and
`cur_index` are those of `index_address_ring`. `Usable`, `Selected` and
`NextIndex` are `gnb_select_index_address`. `heard` and `gone` are history variables: who has accepted
a probe of whom, and since when a node has left an address.

Abstractions: one address family, IPv6 where `wan6` plays a part; datagrams arrive in the order of sending except for those that
`Hold` or `Repeat` keeps back, which arrive later, within a tick or never; address lists as sets
(with fewer addresses than they have room for); the ranges of ports
probed, attachments, signatures, static addresses and silent nodes are left out. What
`NodeWorker` models in detail is reduced to what that module shows: a path that both ends know is kept up,
and a peer from which nothing comes for longer than the update interval is dropped.
What a node takes for its own address is an input: another process, `gnb_es`, writes it into the control block
(`gnb_es_resolv.c:183`). `conf.wan6` has what a node may find there at a post, read whole: an address of its own, however
old, or none.

The secure variant (`--safe-index`, `gnb_secure_index_worker.c` and `gnb_secure_index_service_worker.c`) is a
value of `conf`, which a behaviour chooses at its start from `Conf`. It differs in four ways:

* A frame is encrypted with a key that changes with the hour, and its signature is of what was encrypted. A
  frame sealed with another hour's key (`OtherHour`, a fault) therefore passes the signature check and opens to
  junk. All handlers but one then miss a key, a node or the equality of two fields and drop it;
  `handle_post_addr_frame` makes an entry for the key it reads (`HandleJunk`), one of `Nobody`, or refreshes the one
  it made before: with xor two such posts of one hour open to the same key. Its echo finds no node.
* Requests go to the node that `gnb_select_index_nodes` chooses by PONG (`SelectedNode`, `index_pong`). When it
  balances, it looks at `nodes[cur_index]` and returns `nodes[i]` (`gnb_node.c:459`).
* An ECHO is dropped, because nothing fills in its `index_node_uuid64` (`EchoOf`).
* `cur_index` begins at the last index node (`FirstIndex`).

Signatures themselves are taken to prove the sender.

Bounds: `MaxFaults` for the network, `MaxMoves` for crashes and moves, both 1; with two index nodes, no fault of the
network. With one junk entry the table of two places already overflows. In the plain variant one node
keeps giving the address it may move away from as its own (`OldIdea`); in `rendezvous_failover` it gives that or none. Intervals in ticks of 40 s:
post 60 s is 1 (a post is due at the second tick), request 39 s is 1,
life time 120 s is 3, twice the post interval 3, the post limit 20 s is 1, update 75 s is 2; probes are
limited to 2 instead of 32.

Fairness: `WF_vars(Progress)`, for the same reasons as for the node worker; faults, moves and restarts are never forced.

## 6. The data plane: `NodeSend`, `UnifiedForwarding`, `PacketFilter`, `Forwarding`, `MCForwarding`

An IP packet from a TUN device goes to its destination directly, along a relay
route, through a forward node, or by unified forwarding; a frame from the network
goes to the TUN device or on to another node. The frames of a packet filter worker are
handled one at a time, so that an action is a whole call of `gnb_pf_tun` or `gnb_pf_inet`;
several nodes interleave, and frames are lost, overtake each other and come twice.

| Module | Code |
|---|---|
| `NodeSend` | the frame and the configuration; `gnb_select_forward_node` with the index of its ring, `gnb_p2p_forward_payload_to_node` |
| `UnifiedForwarding` | announcements (`unifield_forwarding_notify`, `handle_uf_node_notify_frame`), the choice of a forwarding node, one path, several paths, passing on, the window of numbers |
| `PacketFilter` | `TunFrame` is `gnb_pf_tun` with `pf_tun_route_cb`, `pf_tun_fwd_cb` and the cipher; `InetFrame` is `gnb_pf_inet` with `pf_inet_frame_cb`, `pf_inet_route_cb`, `pf_inet_fwd_cb` |
| `Forwarding` | the network; links as the node workers leave them; announcements and last relays that expire |
| `MCForwarding` | the networks of the run |

State: `link[n][m]` is what `NodeWorker` calls `udp_addr_status`, as
`GNB_NODE_STATUS_UNREACHABL`, `PING` or `PONG`; `fwd_cur` is `fwd_node_ring.cur_index`;
`uf_nodeid`, `uf_array`, `send_seq`, `recv_seq`, `last_relay`, `selected_route` have the names of the
fields of `gnb_node_t` (short forms are explained at their declaration); `tun` is what was written to
each TUN device. Of a frame, `ids` is the list of relays at its end and `ttl` its time to live;
`inner` and `outer` are the sets of keys it is encrypted with: encrypting twice with a key takes
it off again, as with the two stream ciphers. `path` is a history variable.

The configuration is a variable that no step changes: one run goes through eight
networks, each with who talks to whom, which faults happen and how many of them (`budget`).

Abstractions: frames fit their blocks and are not compressed; packets are for addresses of nodes, the
subnets of `route.conf` are left out; the public UDP relays of UR0 frames and frames of the first
version (`pf_route_bits` 0) are left out; 15, 45 and 145 seconds are steps of expiry that may
happen at any time within the budget. What the block holds in place of the forwarding
node of a first copy (`gnb_unified_forwarding.c:139` writes it after sending) is that of a frame
before, to any destination, or anything (`Junk`).

Bounds: `SeqArraySize` 2 instead of 32, `ArraySize` 2 instead of 32, at most three packets.
`MaxTtl`, `MaxRelay`, `MaxRoute` are the code's.

Fairness: a packet filter goes on with the frames that have come,
`WF_vars(\E f \in net : FromInet(f))`: the worker's loop takes frame after frame and nothing blocks it. It
is asked only for `Arrives`, in networks in which nothing is lost.

## 7. The keys: `Keys`, `MCKeys`

With `--crypto-key-update-interval hour` the key two nodes share depends on the hour.
Three threads use it: the node worker, which looks at the clock in every turn of its
loop, the primary worker, which encrypts and decrypts the UR1 frames of applications, and with
`arc4` the packet filter, which builds the same keys again, and its boxes of them. None takes a lock.

| Action | Code |
|---|---|
| `Start(n)` | `gnb_core_create`, `gnb_core_start`: keys for the time 1, and with arc4 the boxes of the present hour |
| `Verify`, `UpdateTimeSeed`, `BuildBegins`, `BuildWord` | `update_node_crypto_key`: the new factor, each word of the new seed, and for each node the copy to `pre_crypto_key` and each word of the new key |
| `PfNotices`, `PfBuildBegins`, `PfBuildWord`, `PfBoxes` | the test in `pf_tun_route_cb` and `pf_inet_route_cb` of arc4 and `init_arc4_keys`: for each node the words of the seed are read, those of the key stored, and the box made |
| `FromApp`, `FromNode` | `handle_ur1_frame` with `gnb_std_uf_forward_payload_to_node` |
| `Tick(n)`, `Crash(n)` | the clock of a node moves on by an hour; the process ends |

Seeds and keys are hashes, which `sha512_final` stores piece by piece where they are used. Each action of the
two threads stores or reads one piece (a word; `Words` says how many there are), so that a seed may be read, or
a key boxed, sent with or overwritten, while the other thread is in the middle of it. A word of a key stands for the pair
of nodes, its position and the whole seed it is computed from (`PadOf`); a key is the set of its words, and may be
a mixture. `Seed` adds up day and hour as `gnb_update_time_seed` adds up year, month, day and hour: seeds repeat, and so do
factors, every day. Three history variables are for the properties only: `seen` has the hours whose keys a node has
had, `overlapped` says whether the packet filter was at the keys while the node worker dealt with the hour, and
`noticed` when it last began to build its boxes.

`KeysOfTheHour` says how far the lack of a lock can go. If the threads overlap, a key may remain, for the rest of the
hour, a mixture of words of this hour's key, of the key before and of keys of a seed that is itself a mixture; but no
word is of a seed older than the hour before (or it is of 1970, from the start of the node), and if they do not
overlap, the key is the hour's, while the packet filter builds it once more too, and so are boxes made in the hour.

Assumptions: clocks are at most an hour apart, and the node worker (a loop of 150 ms) and the packet filter are
done with an hour before the next one begins (`Tick`). Keys of nodes that only relay are left out: they do
not touch the frames. The nodes a UR1 frame may be sent to next are the constant `Hops`, any
of which the code may choose.

Bounds: a day has 4 hours, the clocks run from hour 6 to 9 with a midnight at 8; one restart and
one frame with xor, none with arc4, whose frames are those of the packet filter (section 6). A hash has two
words, the least that can be mixed; the theorems hold for any number.

## 8. Scanning ports: `DetectWorker`, `MCThreads`

As long as there is no path to a peer and an index node has lately pushed addresses of it, a thread of its own
tries all ports of a range at these addresses, one port a turn. The index worker puts new addresses in front of
the same array of three, in several copies, without a lock. The module is about one peer.

| Action | Code |
|---|---|
| `Push(a)`, `Shift` | `handle_push_addr_frame` and `gnb_address_list3_fifo`: an address that is in the list renews the time only, another one moves the array on, one place at a step |
| `SyncTime` | `gnb_worker_sync_time` at the head of a turn |
| `Check` | `detect_loop` up to the pause: PONG, the last push, the rest after a scan |
| `Walk` | `detect_node_set_address` (`SetAddress`), `detect_node_address` (`Probe`) and what follows |
| `Connect`, `Expire` | a PONG bit is set by the index or the node worker, and cleared by `sync_node` |
| `Tick` | time passes |

`idx` is `detect_address4_idx`, counted from 1; `port` is `detect_port4`, a number below `Ports`, with the overflow
of a `uint16_t`. `push_age` and `full_age` are the ages of `last_push_addr_sec` and `last_full_detect_sec`; `lag` is how far
the time that the turn works with is behind, so that a push during the turn is in the future, where the unsigned
difference is larger than any interval (`Future`). `sent` is the last probe, `late` counts (history) those since
the path was found.

Abstractions: the IPv4 addresses of a list differ (the code may also hold one with two ports, which the scan
takes for two); a PUSH has one address; other peers, the silent local node and the seal of the secure variant are
left out; there is an index node, without which the thread only sleeps.

Bounds: three addresses, so that all places of the list fill up and none falls out; ports 0 to 3 with the ranges 1-2, 2-2
and 0-1, and in the run `detect_wide` 1-3, which ends, as 65535 does by default, with the last number there is; intervals of
one and two ticks for 145 and 367 s; a turn is cut by at most one tick (`MaxLag`).

Fairness: the thread's loop never ends and sleeps for a second at most (`Detecting`), `gnb_address_list3_fifo` ends (`Shift`), and time
passes (`Tick`), not faster than the thread gets through a whole turn in two or three minutes. Pushes, paths and their
loss are never forced: `EveryPortProbed` is about a peer that stays without a path and is pushed again and again.

## 9. Runs

| Run | Configuration | Shows |
|---|---|---|
| `threads` | four blocks, two frames; lengths typed 0, 31, 47, 63, 100, 300, 65663; three addresses, three ranges of ports | `BlockExclusion`, `WholeFrames`, the refinement `ImplementsQueue`, and `OldestLeaves`: an accepted frame is handled; what rings of lengths that are masks and of lengths that are not (47, 100, 300) hold: `LosesNothing`; `StopsProbing`, `EveryPortProbed` |
| `node` | two nodes, one a relay node, unified forwarding, two faults; or two nodes, IPv4 and IPv6, a place inside the tunnel, one fault; or three nodes, one of them silent, one fault | `Handshake`, `PongFresh`, `GoneIsNoticed`, `Reconnects`; `NeverNested`; `NothingFromSilent` |
| `node_forward` | two nodes, one a forward node | violates `ForwardGoneIsNoticed` |
| `lru32` | three entries, four keys, two values; three keys meet in one bucket, the fourth has its own; symmetric in the three and in the values | `WellLinked`, `Conserved`, `HashAgrees`, the refinement `ImplementsCache` |
| `rendezvous` | two nodes, one index node, plain or secure, one fault of the network, one move or restart of the index node; plain, one node gives an old address as its own | `OnlyItsOwn`, `PushIsFresh`, `Handshake`, `Meets` |
| `rendezvous_failover` | two nodes and two index nodes, one crash or move; plain, one node failing over, giving an old address or none as its own, and one balancing; or secure, both asking all index nodes | `Meets`, `GivesUp` |
| `forwarding` | eight networks of six nodes | `HopsBounded`, `NextHopReads`, `InClear`, `FollowsRoute`, `AnswersTheSameWay`, `WrittenOnce`, `ForceIsForced`, `Arrives` |
| `detect_wide` | the range of ports up to the last | violates `EveryPortProbed` |
| `forwarding_hyper` | several paths, and a forward node | violates `WrittenOnce` |
| `keys` | two nodes, a relay, four hours, both ciphers | `KeysAgree`, `KeysOfTheHour`, `PreviousKept`, `Ur1HopsBounded` |
| `keys_ur1` | the same, xor | violates `PreviousKeyReads` |
| `keys_arc4` | the same, arc4 at both nodes | violates `BoxesAgree` |

The ring is the smallest whose indices wrap while it is neither full nor empty,
and two frames tell a mixed one from a whole one. Two nodes are enough for the
node worker's properties of pairs: a node's handling of a peer reads
and writes nothing of another peer. The silent node needs a third to be the
relay node. One fault already gives lost handshakes, restarts with old frames
and outages; two allow a fault during the recovery from another. Datagrams are not
delayed past a tick in these runs (`MaxDelay` 0); the theorems on `Handshake` and `PongFresh` (section 11) hold for
any delay. A table of three entries is the
smallest with a head, a middle and a tail; the fourth key evicts. Two nodes and up to two index nodes are
enough for `Rendezvous`, whose properties speak of pairs of nodes: entries of different peers do not touch
each other but for the eviction, which `Lru32` shows (and `OnlyTheLastIsLost`, section 11, for any number of nodes).

Each network of `forwarding` is there for one mechanism: `RelayBothWays` a route of two relays and
the answer through the last of them; `Balanced` two routes in turn, the longer one with the four relays
that still arrive; `Bounce` two forward nodes that send each other what neither knows; `Forwarded` forward nodes
that fail over; `Unified` forwarding through one of two announced nodes, one of which is silent; `ManyPaths` and
`TwoSources` copies, from one source and from two whose clocks differ; `Strangers` a source the destination does
not know. A window of two is overrun by three packets as one of 32 is by more.
Three hours and a midnight show a key that is current, one that is previous and one that is gone, and factors
that have come back.

## 10. What the violated runs show, and what was seen beside them

1. `node_forward`: `gnb_add_forward_node_ring` (`gnb_node.c:130`) marks a forward node
   as an index node, whose status does not expire. A dead forward node keeps PONG,
   and `gnb_select_forward_node`, which goes by that bit, keeps choosing it.
2. `forwarding_hyper`: a copy that a node with a forward node sends over several paths is
   marked `IPFRAME_STD` too (`packet_filter/gnb_pf_route.c:186`), is not recognised as a
   copy (`gnb_pf.c:479`), and is written again.
3. `keys_ur1`: `handle_ur1_frame` tries the previous key on what the current one has made of the
   frame (`gnb_primary_worker.c:248, 256`), so frames under the previous key are dropped.
4. `keys_arc4`: the packet filter takes the new factor, which is stored first (`gnb_core.c:347`), as the sign
   that the new seed and keys are there. It may build its boxes from old or half-written keys, and keeps
   them for an hour.
5. `detect_wide`: `detect_port4` is a `uint16_t`, so it never exceeds `port_detect_end`, which is 65535 by default
   (`gnb_detect_worker.c:116`): the port overflows to 0 and the scan begins again at the same address. Of the three
   addresses that were pushed only the first is ever scanned.

Seen while modelling, without a run of its own:

* The mark of the first finding keeps the secure variant from leaving an index node that has died: it goes by PONG, which an
  index node keeps. (`Meets` is violated by `rendezvous_failover` with `Conf <- OnlySafe` and `MaxMoves = 2`, although
  the manual, line 825, says of the same setting that it is fault-tolerant. With `full`, which the run checks, all are asked.)
* `send_echo_addr_frame` of the secure variant leaves `index_node_uuid64` 0, for which `handle_echo_addr_frame` drops
  the frame (`gnb_secure_index_worker.c:426`): no node learns its own address from an ECHO.
* The address a node gives as its own is handed out whatever its age, as long as the node's entry lives: a PUSH takes it where a
  field is free (`gnb_index_service_worker.c:202-217`), and a post that gives none does not clear it (124-127).
  `PushIsFresh` allows just that one address.
* `--safe-index` also sets `systemd_daemon`, for want of a `break` (`gnb_argv.c:452`).
* `send_ping_frame` means to keep pinging peers with static addresses
  (`GNB_NODE_TYPE_STATIC_ADDR`, `gnb_node_worker.c:174`), but nothing sets that flag. Two
  such peers, neither index, forward nor relay node, forget each other after one outage longer than the
  update interval. (`Reconnects` is violated with two nodes of `ConfPlace` and no relay node.)
* `gnb_select_index_address` (`gnb_node.c:400` and 416) means to leave out addresses of a family the
  node has no sockets for, but tests for IPv6 addresses where there are no IPv4 sockets. (`Meets` is
  violated by `rendezvous_failover` with `Sockets = {6}`.)
* A queue length that is not 2^k - 1 is let through (`gnb_argv.c:810-833`) and taken as a mask. With an even one
  (`--node-woker-queue 100`) the ring is full when it is empty, and the worker never gets a frame; with
  others it holds less than its length, and with 1535, say, whose nine lowest bits are set, the indices go to
  511 in the 256 blocks that `gnb_ring_buffer_fixed.c:44-46` asked memory for. (`Slots`; in the run
  are 47, 100 and 300.)
* A route of five relays, which the manual (line 289) and the configuration allow, starts with the time to live
  6, which every receiver drops (`packet_filter/gnb_pf_route.c:220, 297`).
* With eight balanced routes the index goes on to 8, where the length is read from what follows the array, the
  index itself (`packet_filter/gnb_pf_route.c:205`, 235-239): it is more than five, no relay is taken, the index stays,
  and after the eighth packet none takes a relay any more. `RelayCount` and `NextRoute` have that case, and
  the theorem `ForceHolds` excludes it.
* A chosen forwarding node is kept when it has *not* been used for 15 seconds, and the first announcement wins although
  expired (`gnb_unified_forwarding.c:41`); `Keeps` and `Candidates` are so.
* The window of numbers is shared by all sources and compares numbers made of their clocks: packets of a source whose
  clock is behind are dropped as copies. A comment says that a packet is passed to at most five others; the
  loop sends six (`gnb_unified_forwarding.c:167`, `MostPaths`).
* A node that is started in the first hour of a day (UTC) finds the factor already there
  (`gnb_core.c:605`, `gnb_keys.c:160`) and uses keys of 1970 until one o'clock; `Settled` leaves such nodes out
  of `KeysAgree`. With arc4 a key may stay a mixture of two hours' for the hour, when the packet filter and the node worker
  store it at the same time (`gnb_keys.c:127`; section 7). The rebuilding of arc4 also copies `crypto_key` to `pre_crypto_key` once more, so that
  the previous key is lost, and a packet filter without packets for exactly a day sees no change.
* `gnb_std_uf_forward_payload_to_node` compares an IPv6 address with zero the wrong way round (`gnb_node.c:634`): such frames go over IPv4
  or not at all.

## 11. Proofs

`RingBufferFixed_proof` (for any mask greater than 0 and any set of frames):
`TypeCorrect`, `Exclusion`, `FramesWhole`, `RingImplementsQueue`. The inductive
invariant `IInv` adds to the types: a pushing producer sees a ring that is not
full, a popping consumer one that is not empty; every submitted block is filled
with one frame in all parts; the parts filled so far hold the frame being copied; the parts
read so far are those of the block at `head_idx`. Exclusion follows from the first
two by index arithmetic, and the refinement from how each submit changes `Count`
and `Slot`.

`DetectWorker_proof` (any addresses, number of ports, ranges and intervals that satisfy `DetectAssumption`, which the theorems have as
their hypothesis, and `MCThreads` has TLC evaluate): `TypeCorrect`, `ProbingStops`. The invariant adds that nothing has been counted
while there is no path or a turn is about to probe (`LateOnce`): PONG found in between leaves that turn one probe, and the next
one looks first. That a port is in the range needs the overflow: the one port below the range that counting up
can lead to is 0, to which nothing is sent.

`NodeWorker_proof` (any nodes, families, places, attributes and intervals, any
number of faults): `TypeCorrect`; `NoStalePong`, from the invariant that holds between
`Sync` and the next `Tick`, during which no timestamp ages; `PongMeansBothWays`, from
an invariant about the network: a PONG on its way proves that its sender has heard its
addressee, a PONG2 likewise, and a frame of any kind that is accepted proves it to the receiver; `SilenceKept`, `SilentHides`
with the types; `NoNesting`, `TunnelNotNested` if `address.conf` places no peer inside the virtual network (`ConfOutside`).

`Rendezvous_proof` (any nodes, index nodes, address pools that are disjoint, table
sizes and intervals, plain or secure, any number of faults, restarts and moves): `TypeCorrect`,
`OwnAddresses`, `FreshPushes`, `PongMeansBothWays`. No one of them is inductive.
`IInv` adds what is true of every datagram (`Truthful`, `Timely`): it comes from
an address of its sender; a POST or REQUEST from one that was its sender's at
most one tick ago, and gives as its own what `conf.wan6` allows; a PUSH speaks of the node's own addresses; an answer to a probe
goes to an address of one whom its sender has heard. And of every entry of a table:
its addresses are its node's, their ages are right but for the tick a POST may be
late, and its `wan6` is one its node may have given; so a PUSH has fresh addresses and at most that one (`FreshPushes`). `StaysTrue` carries this over steps in which no time passes, `TickKeeps`
over a tick, where it needs that the network has delivered what it does not hold
back and that `LIFE_TIME` is below the cap of ages. No relation between
the intervals is assumed, only that one tick ages everything alike and that no two
nodes share an address.

`Lru32_proof` (any keys and values, any size but 0, any hash function): `HashIsMap`, `ListWellLinked`, `NothingLost`,
`HashAndListAgree`, `HashFinds` and the refinement `IsCache`. The hash comes first, on its own. In `Buckets` each chain has the keys of its bucket only, each
once (`WellChained`); that is what makes `Del` enough, which unlinks one entry and would otherwise bring a second one to light.
`ChainReplaced` says that a chain may be changed if it keeps what it has for all other keys (`Keeps`), and `SetSets` and
`DelDeletes` show that of an appended, a changed and an unlinked entry; `HashIsMap` sums them up: for searches, the chains are a finite map,
and the rest of the argument uses nothing else of them, but that a chain hides no entry (`NothingHidden`), for `HashAgrees`. No one of the three that the run checks is inductive:
`gnb_lru32_pop_tail` reads the key of the entry to remove through the list, deletes it from the hash and returns its
blocks to the pools before it unlinks the node. `IInv` is `Table(lru, s)` for the sequence `s` that a walk from `head` meets: the
links are those of `s` in both directions (`Chained`); each of its nodes has its lru node, which has its data block, and
the key there leads back to it through the hash, and there is no other key (`Filed`); the hash is in `Buckets`; and each pool has every other block once
(`Pooled`). The argument has three layers: each list operation turns `Chained(l, s)` into `Chained` of another sequence, branch by
branch (`MoveHeadChained`, `CutHeadChained`, `CutTailChained`, `PopChained`, `AddChained`); a change of the list,
of the hash and of the pools together turns one `Table` into another (`Reordered`, `RemovedTable`, `EnteredTable`, `Writes`); and for each call, what
the sequence lists has become what `LruCache` says (`Becomes`). So one case per call gives both the invariant's step and the
refinement's (`StepIInv`).

`IndexService_proof` (as `Rendezvous_proof`, on whose invariant it rests): `OneEntryEach`, `TablesAreCaches`,
`OnlyTheLastIsLost`. `IndexService` describes the LRU table by what its calls do to a sequence of entries. Here each of these descriptions is
shown to be the operator of `LruCache` (`StoreSeen`, `MoveSeen`, `ReplaceSeen`), which needs that no key is
there twice; and each handler to be the calls it makes, in their order (`ByCalls`): a POST of a known key a write, of a new one a store and
a write; a REQUEST one move to the head, or two and a write. With `IsCache`, the tables of `Rendezvous`
behave like the linked structures of `Lru32`. `OnlyTheLastIsLost` is what a node may rely on: nothing
another node sends drops its entry, but a key that is new in a full table whose last entry it is.

`Keys_proof` (any nodes, relays, words of a hash, hours, lengths of a day, either cipher, any number of frames and
restarts): `TypeCorrect`, `SameKeys`, `HourKeys`, `TwoKeys`, `TwoHops`. A step of one node leaves the others as they
are (`Moves`), so each part of the invariant `KInv` is about one node:

- `HourInv`: a node that is not due has the factor of its hour, between `Verify` and the last word the time it works
  with is that hour (which rests on clocks that are never more than one hour apart), and the words of the seed that are
  stored are those of this time;
- `PfInv`, `KeyInv`: unless the two threads overlapped, the words of the seed the packet filter has read, and the words of
  keys that are built, of those that are done and of the one that is not, are those of the hour;
- `XorInv`: with xor they do not overlap, and the keys of the nodes still to do are those of the last hour with keys, which
  are then set aside;
- `SeedInv`, `RecentInv`: overlapped or not, every word of a seed a thread has stored or read is of this hour, of the hour
  before or of 1970, and so are those of the seeds that the built words of keys are computed from;
- `BoxInv`: boxes begun in an hour the node worker had dealt with are of that hour's keys; those begun before are given
  away by the factor;

and, in the types, the length of a frame's path with its time to live. That Day > 1 is needed: with one hour a day the
factor would never change.

`Forwarding_proof` (any nodes and any list of configurations that satisfies the assumptions of `NodeSend` and
`PacketFilter`, any numbers of packets, changes of links and faults): all the safety properties of the data plane.
`FInv` describes every frame on its way (`Good`): its packet is under the key of its two ends; on a relay route the
list of relays is a prefix of one of the routes with the source behind it, the nodes that have sent it are the
rest in the opposite order, and it is addressed to, and under the key of, the relay before
(`OnItsRoute`); any other frame has used no more sends than its time to live allows, or is one of unified
forwarding, which keeps its time to live and has been sent once, or twice and is for its destination (`OnItsOwn`).
`TypeCorrect`, `BoundedHops`, `ReadableByNext`, `PacketsInClear` and `AnswerWay` follow from it. That `MaxRelay <
MaxRoute` (5 and 8 in the code) is needed: the index of a balanced route may run to `MaxRoute`, where it
reads itself as a length, and only because that is more than `MaxRelay` no relay is taken. Three more have a
hypothesis about the configuration, which the networks of the run satisfy:

- `RoutesFollowed` (`NoDetour`: no route has its destination among its relays), since a relay that is the destination
  takes the frame as its own;
- `CopiesOnce` (`OneMark`: who sends over several paths has no forward node), from `OnceInv`: every number that has
  been written is in the window or below all that are in it. Without `OneMark` it is false, as the run
  `forwarding_hyper` shows;
- `ForceHolds` (`ForceAlone`: a forced relay is not left to the filter as well, and there are less than `MaxRoute` routes),
  since with `MaxRoute` balanced routes no packet takes a relay once each of them has been used.

Assumptions are only the named `ASSUME`s of the modules, which TLC evaluates in
the runs. Only model-checked: liveness under fairness (`OldestLeaves`, `GoneIsNoticed`, `Reconnects`, `Meets`,
`GivesUp`, `Arrives`, `EveryPortProbed`), and the index arithmetic with `&` (`LosesNothing`; `Bitwise` is out of the prover's
reach). `StopsProbing` of `MCThreads`, `NeverNested` and `NothingFromSilent` of `MCNodeWorker` are the invariants of `ProbingStops`,
`NoNesting` and `SilenceKept` for one instance.

## 12. What is left

What a next step would be, in this order: `udp_addr_status` under the node worker and the index worker, whose
accesses interleave without a lock; a ring with store buffers; several peers in one turn of the detect worker; the
writes of the environment services into the node table.

Not modelled: drivers for the virtual interface, logging, files, the text formats of the
configuration, the control tool's dumps, which have no state that the
properties above depend on; and the vendored libraries under `src/src/libs` (zlib, miniupnpc, ed25519, more
than half of the repository's lines of C) and the platform code, which are used through a few calls: compression is
the identity on what the properties tell apart, signatures are taken to be what they promise, UPnP only opens
a port. This, and the text handling of the configuration and of the tools, is why the map covers a small share of
all lines.
