---------------------------- MODULE IndexService ----------------------------
(***************************************************************************)
(* gnb_index_service_worker.c: the thread of an index node that keeps, in  *)
(* an LRU table, from where each node last posted, and introduces two      *)
(* nodes to each other when one of them asks.                              *)
(*                                                                         *)
(* table[x] is the LRU table of index node x, its list from head to tail.  *)
(* An entry holds the node's key, how long ago it posted (last_post), its  *)
(* address list, up to three addresses, each with the time since it was    *)
(* last refreshed, and the address it last gave as its own (wan6).  Ages   *)
(* are in ticks and stop at AGE_MAX.                                       *)
(***************************************************************************)
EXTENDS IndexNetwork

CONSTANTS
  LruSize,          \* index_service_lru_size
  Nobody,           \* keys that no node has
  POST_LIMIT,       \* GNB_POST_ADDR_LIMIT_SEC
  POST_TWICE,       \* GNB_POST_ADDR_INTERVAL_TIME_SEC * 2
  LIFE_TIME,        \* GNB_ADDRESS_LIFE_TIME_TS_SEC
  AGE_MAX           \* an age over all limits

VARIABLE table

ASSUME ServiceAssumption ==
  /\ Nobody \cap Node = {}
  /\ LruSize \in Nat \ {0}
  /\ {POST_LIMIT, POST_TWICE, LIFE_TIME, AGE_MAX} \subseteq Nat
  /\ \A t \in {POST_LIMIT, POST_TWICE, LIFE_TIME} : t < AGE_MAX

KEY_ADDRESS_NUM == 3

Address == [addr : Place, age : 0 .. AGE_MAX]
Entry == [key : Node \cup Nobody, last_post : 0 .. AGE_MAX,
          list : Seq(Address), wan6 : Place \cup {NoPlace}]

-----------------------------------------------------------------------------
(* gnb_address_list3_fifo: a known address is refreshed where it is, a new *)
(* one goes in front and the third falls out.                              *)
Fifo(list, p) ==
  IF \E i \in 1 .. Len(list) : list[i].addr = p
  THEN [i \in 1 .. Len(list) |->
          IF list[i].addr = p THEN [addr |-> p, age |-> 0] ELSE list[i]]
  ELSE [i \in 1 .. (IF Len(list) < KEY_ADDRESS_NUM THEN Len(list) + 1
                                                   ELSE KEY_ADDRESS_NUM) |->
          IF i = 1 THEN [addr |-> p, age |-> 0] ELSE list[i - 1]]

At(t, n) == {i \in 1 .. Len(t) : t[i].key = n}
EntryOf(t, n) == t[CHOOSE i \in At(t, n) : TRUE]
Replace(t, e) == [i \in 1 .. Len(t) |-> IF t[i].key = e.key THEN e ELSE t[i]]

(* GNB_LRU32_FIXED_STORE of a key that is not in the table: at the head,   *)
(* and the last entry of a full table is thrown out.                       *)
Store(t, e) ==
  [i \in 1 .. (IF Len(t) < LruSize THEN Len(t) + 1 ELSE LruSize) |->
     IF i = 1 THEN e ELSE t[i - 1]]

(* GNB_LRU32_MOVETOHEAD, which leaves tables of one or two entries alone.  *)
MoveToHead(t, n) ==
  IF Len(t) <= 2 THEN t
  ELSE LET at == CHOOSE i \in At(t, n) : TRUE
       IN  [i \in 1 .. Len(t) |-> IF i = 1 THEN t[at]
                                  ELSE IF i <= at THEN t[i - 1] ELSE t[i]]

NewEntry(n) ==
  [key |-> n, last_post |-> AGE_MAX, list |-> <<>>, wan6 |-> NoPlace]

(* The addresses of an entry's list that a PUSH carries (its fields a, b   *)
(* and c), and those that gnb_send_available_address_list sends to.        *)
LivingAnyAge(e) == {e.list[i].addr : i \in 1 .. Len(e.list)}
Living(e) ==
  {e.list[i].addr : i \in {k \in 1 .. Len(e.list) : e.list[k].age < LIFE_TIME}}
AvailableIfOld(e) ==
  {e.list[i].addr : i \in {k \in 1 .. Len(e.list) : e.list[k].age >= LIFE_TIME}}
Available(e) ==
  {e.list[i].addr : i \in {k \in 1 .. Len(e.list) : e.list[k].age <= LIFE_TIME}}

(* A field that is free takes the address the node gave as its own,        *)
(* whatever its age.                                                       *)
FreeField(e) ==
  \E i \in 1 .. KEY_ADDRESS_NUM : i > Len(e.list) \/ e.list[i].age >= LIFE_TIME
Filled(e) == IF FreeField(e) THEN {e.wan6} \ {NoPlace} ELSE {}

(* send_push_addr_frame: where src is, to every address of dst.            *)
PushToOfReceiver(x, src, dst) ==
  {PushAddr(x, p, src.key, Living(dst) \cup Filled(dst)) : p \in Available(dst)}
PushTo(x, src, dst) ==
  {PushAddr(x, p, src.key, Living(src) \cup Filled(src)) : p \in Available(dst)}

Recent(e) == e.last_post < POST_TWICE

-----------------------------------------------------------------------------
(* handle_post_addr_frame, of a post with key k and its own address w.  A  *)
(* post too soon after the last one counts as a post, but its addresses    *)
(* are not looked at and there is no echo.  A node that gives no address   *)
(* of its own keeps the one it gave before.                                *)
TakePost(x, d, k, w, echo) ==
  LET t == IF At(table[x], k) # {} THEN table[x]
           ELSE Store(table[x], NewEntry(k))
      e == EntryOf(t, k)
      posted == [e EXCEPT !.last_post = 0]
  IN  \/ /\ e.last_post < POST_LIMIT
         /\ table' = [table EXCEPT ![x] = Replace(t, posted)]
         /\ Exchange(d, <<>>)
      \/ /\ e.last_post >= POST_LIMIT
         /\ table' = [table EXCEPT ![x] =
               Replace(t, [posted EXCEPT !.list = Fifo(@, d.from),
                                         !.wan6 = IF w = NoPlace THEN @ ELSE w])]
         /\ Exchange(d, echo)

HandlePost(x, d) ==
  /\ d.type = "POST" /\ Reaches(d, x)
  /\ TakePost(x, d, d.src, d.wan6, <<Echo(x, d.from, d.src)>>)

(* handle_request_addr_frame: l asks for r.  Both must have posted lately; *)
(* then l's list takes the address the request came from, and each is told *)
(* where the other is.                                                     *)
HandleRequest(x, d) ==
  LET t == table[x]
      knows(n) == At(t, n) # {} /\ Recent(EntryOf(t, n))
      moved == MoveToHead(t, d.src)
      l == [EntryOf(t, d.src) EXCEPT !.list = Fifo(@, d.from)]
      r == EntryOf(t, d.dst)
  IN  /\ d.type = "REQUEST" /\ Reaches(d, x)
      /\ \/ /\ ~knows(d.src)
            /\ Exchange(d, <<>>)
            /\ UNCHANGED table
         \/ /\ knows(d.src) /\ ~knows(d.dst)
            /\ Exchange(d, <<>>)
            /\ table' = [table EXCEPT ![x] = moved]
         \/ /\ knows(d.src) /\ knows(d.dst)
            /\ Exchange(d, Burst(PushTo(x, l, r)) \o Burst(PushTo(x, r, l)))
            /\ table' = [table EXCEPT ![x] =
                            Replace(MoveToHead(moved, d.dst), l)]

(* The handler of the secure variant checks the signature, which is of the *)
(* sealed frame, and so accepts a POST that was sealed with the key of     *)
(* another hour.  What it opens then is junk: its key, which is no node's, *)
(* but the same for two posts of one hour, takes a place in the table.     *)
(* There is no node to echo to, and nobody asks for what the entry holds.  *)
(* (All other frames are dropped when they open to junk.)                  *)
HandleJunk(x, d) ==
  /\ conf.safe_index
  /\ d.type = "JUNK" /\ Reaches(d, x)
  /\ \E k \in Nobody : TakePost(x, d, k, NoPlace, <<>>)

(* gnb_lru32_create in init: a restarted index node knows nobody.          *)
ForgetAll(x) == table' = [table EXCEPT ![x] = <<>>]

Aged(e) ==
  [key |-> e.key, last_post |-> Older(e.last_post, AGE_MAX),
   list |-> [i \in 1 .. Len(e.list) |->
               [addr |-> e.list[i].addr, age |-> Older(e.list[i].age, AGE_MAX)]],
   wan6 |-> e.wan6]

(* A tick of the clock that now_time_sec follows.                          *)
ServiceTick ==
  table' = [x \in ServiceNode |->
              [i \in 1 .. Len(table[x]) |-> Aged(table[x][i])]]

ServiceInit == table = [x \in ServiceNode |-> <<>>]

ServiceTypeOK == table \in [ServiceNode -> Seq(Entry)]
=============================================================================
