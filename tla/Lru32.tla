------------------------------- MODULE Lru32 --------------------------------
(***************************************************************************)
(* gnb_lru32.c with gnb_doubly_linked_list.c and gnb_fixed_pool.c: the     *)
(* table of the index service, as the code keeps it: a hash from keys to   *)
(* lru nodes (Hash32), a doubly linked list that orders them, and three    *)
(* pools from which lru nodes, list nodes and data blocks are taken.  Each *)
(* pool's blocks are numbered; a block in a pool keeps whatever it last    *)
(* held.  The one thread of the index service makes all the calls.         *)
(***************************************************************************)
EXTENDS Naturals, Sequences, SequencesExt

CONSTANTS
  Key,
  Value,       \* contents of a data block
  MaxSize,     \* max_size
  murmurhash_hash,
  NULL         \* no block; also the contents of a block never stored into

ASSUME SizeAssumption == MaxSize \in Nat \ {0} /\ NULL \notin Nat \cup Value
ASSUME HashAssumption == murmurhash_hash \in [Key -> Nat]

VARIABLES
  lru,         \* gnb_lru32_t with its parts
  call         \* the last call, for Cache

vars == <<lru, call>>

Block == 1 .. MaxSize
Pointer == Block \cup {NULL}
Pool == [i \in Block |-> i]

(* The table has as many buckets as entries.                               *)
Hash == INSTANCE Hash32 WITH bucket_num <- MaxSize

Created ==
  [size |-> 0,
   map |-> Hash!Create,                       \* lru_node_map
   head |-> NULL, tail |-> NULL, num |-> 0,   \* doubly_linked_list
   pre |-> [d \in Block |-> NULL],            \* list nodes
   nex |-> [d \in Block |-> NULL],
   data |-> [d \in Block |-> NULL],
   dl_node |-> [n \in Block |-> NULL],        \* lru nodes
   kv |-> [n \in Block |-> NULL],
   udata |-> [n \in Block |-> NULL],
   block |-> [b \in Block |-> NULL],          \* data blocks
   lru_node_pool |-> Pool,
   dl_node_pool |-> Pool,
   udata_pool |-> Pool]

Init == lru = Created /\ call = << >>

-----------------------------------------------------------------------------
(* gnb_doubly_linked_list.c; l is the whole record.                        *)

DlAdd(l, d) ==
  IF l.num = 0
  THEN [l EXCEPT !.pre[d] = NULL, !.nex[d] = NULL,
                 !.head = d, !.tail = d, !.num = 1]
  ELSE [l EXCEPT !.pre[d] = NULL, !.nex[d] = l.head, !.pre[l.head] = d,
                 !.tail = IF l.num = 1 THEN l.head ELSE @,
                 !.head = d, !.num = @ + 1]

(* The list is empty, or num contradicts head and tail.                    *)
DlNothing(l) == l.num = 0 \/ (l.num = 1) # (l.head = l.tail)

DlEmptied(l) == [l EXCEPT !.head = NULL, !.tail = NULL, !.num = 0]

DlPopHead(l) ==
  IF DlNothing(l) THEN l
  ELSE IF l.num = 1 THEN DlEmptied(l)
  ELSE [l EXCEPT !.head = l.nex[l.head], !.pre[l.nex[l.head]] = NULL,
                 !.num = @ - 1]

DlPopTail(l) ==
  IF DlNothing(l) THEN l
  ELSE IF l.num = 1 THEN DlEmptied(l)
  ELSE [l EXCEPT !.tail = l.pre[l.tail], !.nex[l.pre[l.tail]] = NULL,
                 !.num = @ - 1]

(* Faulty variant: the tail's move leaves tail behind.                     *)
DlMoveHeadKeepsTail(l, d) ==
  IF l.num \in {1, 2} \/ l.pre[d] = NULL THEN l
  ELSE LET pre_node == l.pre[d]
           nex_node == l.nex[d]
           cut == IF nex_node = NULL THEN l
                  ELSE [l EXCEPT !.pre[nex_node] = pre_node]
       IN [cut EXCEPT !.nex[pre_node] = nex_node, !.nex[d] = l.head,
                      !.pre[l.head] = d, !.head = d, !.pre[d] = NULL]

(* A list of one or two keeps its order.                                   *)
DlMoveHead(l, d) ==
  IF l.num \in {1, 2} \/ l.pre[d] = NULL THEN l
  ELSE LET pre_node == l.pre[d]
           nex_node == l.nex[d]
           cut == IF nex_node = NULL THEN [l EXCEPT !.tail = pre_node]
                  ELSE [l EXCEPT !.pre[nex_node] = pre_node]
       IN [cut EXCEPT !.nex[pre_node] = nex_node, !.nex[d] = l.head,
                      !.pre[l.head] = d, !.head = d, !.pre[d] = NULL]

DlPop(l, d) ==
  LET pre_node == l.pre[d]
      nex_node == l.nex[d]
  IN CASE l.num = 0 -> l
       [] pre_node = NULL /\ nex_node = NULL ->
            IF l.head = d /\ l.tail = d /\ l.num = 1 THEN DlEmptied(l) ELSE l
       [] pre_node = NULL /\ nex_node # NULL ->
            IF l.head # d \/ l.num = 1 THEN l
            ELSE [l EXCEPT !.pre[nex_node] = NULL, !.head = nex_node,
                           !.num = @ - 1]
       [] pre_node # NULL /\ nex_node = NULL ->
            IF l.tail # d \/ l.num = 1 THEN l
            ELSE [l EXCEPT !.nex[pre_node] = NULL, !.tail = pre_node,
                           !.num = @ - 1]
       [] OTHER -> [l EXCEPT !.nex[pre_node] = nex_node,
                             !.pre[nex_node] = pre_node, !.num = @ - 1]

-----------------------------------------------------------------------------
(* The pools: gnb_fixed_pool_pop takes the last block, _push puts one      *)
(* behind the last, unless the pool is full.                               *)

Push(pool, b) == IF Len(pool) = MaxSize THEN pool ELSE Append(pool, b)

NodePop(l) ==
  LET n == Last(l.lru_node_pool)
  IN [l EXCEPT !.dl_node[n] = Last(l.dl_node_pool),
               !.udata[n] = Last(l.udata_pool),
               !.lru_node_pool = Front(@),
               !.dl_node_pool = Front(@),
               !.udata_pool = Front(@)]

(* Faulty variant: the data block is not given back.                       *)
NodePushWithoutBlock(l, n) ==
  [l EXCEPT !.dl_node_pool = Push(@, l.dl_node[n]),
            !.lru_node_pool = Push(@, n)]

NodePush(l, n) ==
  [l EXCEPT !.dl_node_pool = Push(@, l.dl_node[n]),
            !.udata_pool = Push(@, l.udata[n]),
            !.lru_node_pool = Push(@, n)]

HashDel(l, k) == [l EXCEPT !.map = Hash!Del(@, k)]
HashGet(l, k) == Hash!Get(l.map, k)

-----------------------------------------------------------------------------
(* gnb_lru32.c.                                                            *)

Get(l, k) ==
  IF HashGet(l, k) = NULL THEN l ELSE DlMoveHead(l, l.dl_node[HashGet(l, k)])

PopHead(l) ==
  IF l.size = 0 \/ l.head = NULL THEN l
  ELSE LET n == l.data[l.head]
       IN [DlPopHead(NodePush(HashDel(l, l.kv[n]), n)) EXCEPT !.size = @ - 1]

PopTail(l) ==
  IF l.size = 0 \/ l.tail = NULL THEN l
  ELSE LET n == l.data[l.tail]
       IN [DlPopTail(NodePush(HashDel(l, l.kv[n]), n)) EXCEPT !.size = @ - 1]

PopByKey(l, k) ==
  LET n == HashGet(l, k)
  IN IF n = NULL THEN l
     ELSE [NodePush(HashDel(DlPop(Get(l, k), l.dl_node[n]), l.kv[n]), n)
             EXCEPT !.size = @ - 1]

(* Faulty variant: the entry used last makes room.                         *)
RoomAtHead(l) == IF l.size >= MaxSize THEN PopHead(l) ELSE l

Room(l) == IF l.size >= MaxSize THEN PopTail(l) ELSE l

Enter(l, k, v) ==
  LET n == Last(l.lru_node_pool)
      d == Last(l.dl_node_pool)
  IN [DlAdd(NodePop(l), d) EXCEPT
        !.block[Last(l.udata_pool)] = v,
        !.map = Hash!Set(@, k, n),
        !.kv[n] = k,
        !.data[d] = n,
        !.size = @ + 1]

FixedStore(l, k, v) ==
  IF HashGet(l, k) # NULL
  THEN [Get(l, k) EXCEPT !.block[l.udata[HashGet(l, k)]] = v]
  ELSE Enter(Room(l), k, v)

(* A caller writes into the block that gnb_lru32_hash_get found.           *)
HashGetAndWrite(l, k, v) ==
  IF HashGet(l, k) = NULL THEN l
  ELSE [l EXCEPT !.block[l.udata[HashGet(l, k)]] = v]

Call(c, l) == call' = c /\ lru' = l

Next ==
  \/ \E k \in Key, v \in Value :
       \/ Call(<<"store", k, v>>, FixedStore(lru, k, v))
       \/ Call(<<"write", k, v>>, HashGetAndWrite(lru, k, v))
  \/ \E k \in Key :
       \/ Call(<<"use", k>>, Get(lru, k))    \* gnb_lru32_get, _movetohead
       \/ Call(<<"drop", k>>, PopByKey(lru, k))
  \/ Call(<<"drop_first">>, PopHead(lru))
  \/ Call(<<"drop_last">>, PopTail(lru))

Spec == Init /\ [][Next]_vars

-----------------------------------------------------------------------------
TypeOK ==
  /\ {lru.size, lru.num} \subseteq 0 .. MaxSize
  /\ lru.map \in [0 .. MaxSize - 1 -> Seq([key : Key, value : Block])]
  /\ {lru.head, lru.tail} \subseteq Pointer
  /\ {lru.pre, lru.nex, lru.data, lru.dl_node, lru.udata}
       \subseteq [Block -> Pointer]
  /\ lru.kv \in [Block -> Key \cup {NULL}]
  /\ lru.block \in [Block -> Value \cup {NULL}]
  /\ {lru.lru_node_pool, lru.dl_node_pool, lru.udata_pool}
       \subseteq Seq(Block)

(* The list nodes met from head along nex.                                 *)
Walk(l) ==
  LET node[i \in 1 .. l.num] ==
        IF i = 1 THEN l.head
        ELSE IF node[i - 1] = NULL THEN NULL ELSE l.nex[node[i - 1]]
  IN node

(* From head along nex one meets num different nodes, the last of which is *)
(* tail; pre leads back the same way; and the list is as long as the table *)
(* believes.  Every operation relinks up to four nodes, in another way at  *)
(* each end of the list and for lists of one and two.                      *)
WellLinked ==
  /\ lru.num = lru.size
  /\ IsInjective(Walk(lru))
  /\ \A i \in 1 .. lru.num :
       /\ Walk(lru)[i] # NULL
       /\ lru.pre[Walk(lru)[i]] = IF i = 1 THEN NULL ELSE Walk(lru)[i - 1]
       /\ i = lru.num => lru.nex[Walk(lru)[i]] = NULL /\ lru.tail = Walk(lru)[i]
  /\ lru.num = 0 => lru.head = NULL /\ lru.tail = NULL

Live == {n \in Block : \E k \in Key : HashGet(lru, k) = n}

(* No block is lost or used twice: each lru node, list node and data block *)
(* is either in its pool, once, or belongs to exactly one entry, although  *)
(* eviction returns them to the pools while they are still linked.         *)
Conserved ==
  /\ TypeOK
  /\ IsInjective(lru.lru_node_pool)
  /\ IsInjective(lru.dl_node_pool)
  /\ IsInjective(lru.udata_pool)
  /\ Block \ ToSet(lru.lru_node_pool) = Live
  /\ Block \ ToSet(lru.dl_node_pool) = {lru.dl_node[n] : n \in Live}
  /\ Block \ ToSet(lru.udata_pool) = {lru.udata[n] : n \in Live}
  /\ Len(lru.lru_node_pool) = MaxSize - lru.size

(* The hash and the list hold the same entries: a key leads to the lru     *)
(* node that carries the key, and that node's list node leads back to it;  *)
(* and no entry of a chain is behind another that hides it.                *)
HashAgrees ==
  /\ \A k \in Key : HashGet(lru, k) # NULL =>
       /\ lru.kv[HashGet(lru, k)] = k
       /\ lru.data[lru.dl_node[HashGet(lru, k)]] = HashGet(lru, k)
  /\ {lru.dl_node[n] : n \in Live} = {Walk(lru)[i] : i \in 1 .. lru.num}
  /\ \A b \in DOMAIN lru.map : \A i \in DOMAIN lru.map[b] :
       HashGet(lru, lru.map[b][i].key) = lru.map[b][i].value

Entry(l, d) ==
  LET n == l.data[d] IN [key |-> l.kv[n], value |-> l.block[l.udata[n]]]

Entries == [i \in 1 .. lru.num |-> Entry(lru, Walk(lru)[i])]

(* All of it is a table in the order of last use that keeps the order of   *)
(* lists of up to two, although gnb_lru32.h says that a hit moves the node *)
(* to the head of the list.                                                *)
Cache == INSTANCE LruCache WITH cache <- Entries
ImplementsCache == Cache!Spec
=============================================================================
