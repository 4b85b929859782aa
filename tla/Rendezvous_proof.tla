-------------------------- MODULE Rendezvous_proof --------------------------
(***************************************************************************)
(* For any number of nodes and index nodes, any addresses and intervals,   *)
(* and any number of faults, restarts and moves: the variables keep their  *)
(* types, no address is taken for another node's, an index node hands out  *)
(* no address after its life time but the one a node gave as its own, and  *)
(* PONG is set only by a handshake                                         *)
(* that went both ways.                                                    *)
(***************************************************************************)
EXTENDS Rendezvous, TLAPS, FiniteSetTheorems, SequenceTheorems,
        WellFoundedInduction

-----------------------------------------------------------------------------
(* Sequences of datagrams and entries.                                     *)

(* A burst of datagrams of S is a sequence of datagrams of S.              *)
LEMMA BurstType ==
  ASSUME NEW S, IsFiniteSet(S)
  PROVE  Burst(S) \in Seq(S)
<1> DEFINE P(f) == f \in [1 .. Cardinality(S) -> S] /\ IsInjective(f)
<1>1. PICK f : f \in Bijection(1 .. Cardinality(S), S)
  BY FS_CardinalityType DEF ExistsBijection
<1>2. P(f)
  BY <1>1 DEF Bijection, Injection
<1>3. Burst(S) \in [1 .. Cardinality(S) -> S]
  BY <1>2 DEF Burst, SetToSeq
<1>4. Cardinality(S) \in Nat
  BY FS_CardinalityType
<1> QED
  BY <1>3, <1>4

(* The image of a finite set is finite: of the addresses a datagram is     *)
(* sent to, and of the index nodes.                                        *)
LEMMA ImageFinite ==
  ASSUME NEW S, IsFiniteSet(S), NEW f
  PROVE  IsFiniteSet({f[p] : p \in S})
<1> DEFINE T == {f[p] : p \in S}
           g == [p \in S |-> f[p]]
<1>1. g \in Surjection(S, T)
  BY DEF Surjection
<1> HIDE DEF T, g
<1> SUFFICES IsFiniteSet(T)
  BY DEF T
<1> QED
  BY <1>1, FS_Surjection

(* A node has finitely many addresses.                                     *)
LEMMA PlacesFinite ==
  ASSUME NEW S \in SUBSET Place
  PROVE  IsFiniteSet(S)
BY NetworkAssumption, FS_Subset

(* There are finitely many index nodes.                                    *)
LEMMA ServicesFinite == IsFiniteSet(1 .. Count) /\ IsFiniteSet(ServiceNode)
<1>1. Count \in Nat
  BY NetworkAssumption, LenProperties DEF Count
<1>2. IsFiniteSet(1 .. Count)
  BY <1>1, FS_Interval
<1>3. IsFiniteSet({Service[k] : k \in 1 .. Count})
  BY <1>2, ImageFinite
<1> QED
  BY <1>2, <1>3 DEF ServiceNode

(* What a step that takes a datagram does to the network.                  *)
LEMMA ExchangeNetwork ==
  ASSUME NEW S, network \in Seq(S), NEW out \in Seq(S), NEW d, Exchange(d, out)
  PROVE  /\ network' \in Seq(S)
         /\ held' \subseteq held
         /\ d \in Arriving
<1>1. CASE /\ network # <<>> /\ d = Head(network)
           /\ network' = Tail(network) \o out
           /\ UNCHANGED held
  <2>1. Tail(network) \in Seq(S)
    BY <1>1, HeadTailProperties
  <2> QED
    BY <1>1, <2>1, ConcatProperties DEF Arriving
<1>2. ASSUME NEW h \in held, d = h.frame, held' = held \ {h},
             network' = network \o out
      PROVE  /\ network' \in Seq(S)
             /\ held' \subseteq held
             /\ d \in Arriving
  BY <1>2, ConcatProperties DEF Arriving
<1> QED
  BY <1>1, <1>2 DEF Exchange

(* The operators on tables, for entries of any kind.                       *)
LEMMA LookUp ==
  ASSUME NEW S, NEW t \in Seq(S), NEW n, At(t, n) # {}
  PROVE  EntryOf(t, n) \in S /\ EntryOf(t, n).key = n
<1>1. (CHOOSE i \in At(t, n) : TRUE) \in At(t, n)
  OBVIOUS
<1> QED
  BY <1>1 DEF At, EntryOf

(* An entry is overwritten.                                                *)
LEMMA ReplaceType ==
  ASSUME NEW S, NEW t \in Seq(S), NEW e \in S
  PROVE  Replace(t, e) \in Seq(S)
<1>1. Replace(t, e) \in [1 .. Len(t) -> S]
  BY DEF Replace
<1>2. Len(t) \in Nat
  OBVIOUS
<1> QED
  BY <1>1, <1>2

(* A new entry enters, and can be found there.                             *)
LEMMA StoreType ==
  ASSUME NEW S, NEW t \in Seq(S), NEW e \in S
  PROVE  Store(t, e) \in Seq(S) /\ At(Store(t, e), e.key) # {}
<1> DEFINE k == IF Len(t) < LruSize THEN Len(t) + 1 ELSE LruSize
<1>1. k \in Nat \ {0} /\ k <= Len(t) + 1
  BY ServiceAssumption
<1>2. Store(t, e) = [i \in 1 .. k |-> IF i = 1 THEN e ELSE t[i - 1]]
  BY DEF Store
<1> HIDE DEF k
<1>3. ASSUME NEW i \in 1 .. k
      PROVE  (IF i = 1 THEN e ELSE t[i - 1]) \in S
  BY <1>1, <1>3, ElementOfSeq
<1>4. Store(t, e) \in [1 .. k -> S]
  BY <1>2, <1>3
<1>5. Store(t, e) \in Seq(S) /\ Len(Store(t, e)) = k
  BY <1>1, <1>4
<1>6. 1 \in At(Store(t, e), e.key)
  BY <1>1, <1>2, <1>5 DEF At
<1> QED
  BY <1>5, <1>6

(* An entry is moved to the head, and none is lost.                        *)
LEMMA MoveToHeadType ==
  ASSUME NEW S, NEW t \in Seq(S), NEW n, At(t, n) # {}
  PROVE  /\ MoveToHead(t, n) \in Seq(S)
         /\ \A m : At(t, m) # {} => At(MoveToHead(t, n), m) # {}
<1> DEFINE at == CHOOSE i \in At(t, n) : TRUE
<1>1. at \in 1 .. Len(t)
  BY DEF At
<1>2. Len(t) \in Nat
  OBVIOUS
<1>3. CASE Len(t) <= 2
  BY <1>3 DEF MoveToHead
<1>4. CASE ~(Len(t) <= 2)
  <2>1. MoveToHead(t, n) =
          [i \in 1 .. Len(t) |-> IF i = 1 THEN t[at]
                                 ELSE IF i <= at THEN t[i - 1] ELSE t[i]]
    BY <1>4 DEF MoveToHead
  <2> DEFINE u == MoveToHead(t, n)
  <2> HIDE DEF at
  <2>2. ASSUME NEW i \in 1 .. Len(t)
        PROVE  (IF i = 1 THEN t[at] ELSE IF i <= at THEN t[i - 1] ELSE t[i])
                 \in S
    BY <1>1, <1>2, ElementOfSeq
  <2>3. u \in [1 .. Len(t) -> S]
    BY <2>1, <2>2
  <2>4. u \in Seq(S) /\ Len(u) = Len(t)
    BY <2>3, <1>2
  <2>5. ASSUME NEW m, NEW i \in At(t, m)
        PROVE  \E j \in 1 .. Len(t) : u[j] = t[i]
    <3>0. i \in 1 .. Len(t)
      BY DEF At
    <3>1. CASE i = at
      BY <1>1, <1>2, <2>1, <3>1
    <3>2. CASE i < at
      <4>1. i + 1 \in 1 .. Len(t) /\ u[i + 1] = t[i]
        BY <1>1, <1>2, <2>1, <3>0, <3>2
      <4> QED
        BY <4>1
    <3>3. CASE i > at
      <4>1. u[i] = t[i]
        BY <1>1, <1>2, <2>1, <3>0, <3>3
      <4> QED
        BY <3>0, <4>1
    <3> QED
      BY <1>1, <3>0, <3>1, <3>2, <3>3
  <2> HIDE DEF u
  <2>6. ASSUME NEW m, At(t, m) # {}
        PROVE  At(u, m) # {}
    <3>1. PICK i \in At(t, m) : TRUE
      BY <2>6
    <3>2. PICK j \in 1 .. Len(t) : u[j] = t[i]
      BY <2>5
    <3>3. j \in At(u, m)
      BY <2>4, <3>1, <3>2 DEF At
    <3> QED
      BY <3>3
  <2> QED
    BY <2>4, <2>6 DEF u
<1> QED
  BY <1>3, <1>4

(* The address list: a known address is renewed, a new one enters.         *)
LEMMA FifoType ==
  ASSUME NEW A, NEW list \in Seq(A), NEW p, [addr |-> p, age |-> 0] \in A
  PROVE  Fifo(list, p) \in Seq(A)
<1>1. Len(list) \in Nat
  OBVIOUS
<1>2. CASE \E i \in 1 .. Len(list) : list[i].addr = p
  <2>1. Fifo(list, p) = [i \in 1 .. Len(list) |->
          IF list[i].addr = p THEN [addr |-> p, age |-> 0] ELSE list[i]]
    BY <1>2 DEF Fifo
  <2>2. Fifo(list, p) \in [1 .. Len(list) -> A]
    BY <2>1
  <2> QED
    BY <1>1, <2>2
<1>3. CASE ~(\E i \in 1 .. Len(list) : list[i].addr = p)
  <2> DEFINE k == IF Len(list) < KEY_ADDRESS_NUM THEN Len(list) + 1
                                                ELSE KEY_ADDRESS_NUM
             a == [addr |-> p, age |-> 0]
  <2>1. k \in Nat \ {0} /\ k <= Len(list) + 1
    BY <1>1 DEF KEY_ADDRESS_NUM
  <2>2. Fifo(list, p) = [i \in 1 .. k |-> IF i = 1 THEN a ELSE list[i - 1]]
    BY <1>3 DEF Fifo
  <2>3. a \in A
    OBVIOUS
  <2> HIDE DEF k, a
  <2>4. ASSUME NEW i \in 1 .. k
        PROVE  (IF i = 1 THEN a ELSE list[i - 1]) \in A
    BY <1>1, <2>1, <2>3, ElementOfSeq
  <2>5. Fifo(list, p) \in [1 .. k -> A]
    BY <2>2, <2>4
  <2> QED
    BY <2>1, <2>5
<1> QED
  BY <1>2, <1>3
-----------------------------------------------------------------------------
(* The invariant.                                                          *)

(* What is true of a datagram that was sent at most late ticks ago: it     *)
(* comes from an address its sender had, a POST or REQUEST from one it had *)
(* then; a POST gives the sender's own idea of its address; a PUSH speaks  *)
(* of the node's own addresses; an answer to a probe goes to an address of *)
(* the node that the sender has heard.                                     *)
Truthful(late) ==
  {d \in Frame :
     /\ d.type \in {"POST", "REQUEST", "DETECT"} => d.from \in Pool[d.src]
     /\ d.type \in {"POST", "REQUEST"} => gone[d.src][d.from] <= late
     /\ d.type = "POST" => d.wan6 \in conf.wan6[d.src]
     /\ d.type = "PUSH" => d.addrs \subseteq Pool[d.node]
     /\ d.type = "DETECT" /\ d.arg = "e" =>
          d.to \in Pool[d.dst] /\ <<d.src, d.dst>> \in heard}

(* A datagram that was sent in this tick.                                  *)
Timely ==
  {d \in Truthful(0) : d.type = "PUSH" => FreshButOne(d.node, d.addrs)}

(* An address of node n with an age that is right but for a tick.  (Of an  *)
(* entry that no node has posted nothing is known.)                        *)
TrueAddress(n) ==
  {q \in Address : q.addr \in Pool[n] /\ gone[n][q.addr] <= q.age + 1}

TrueEntry ==
  {e \in Entry : e.key \in Node =>
     /\ e.list \in Seq(TrueAddress(e.key))
     /\ e.wan6 \in conf.wan6[e.key] \cup {NoPlace}}

AtHome ==
  \A n \in Node : home[n] \in Pool[n] /\ gone[n][home[n]] = 0

NetworkOK ==
  /\ network \in Seq(Timely)
  /\ held \subseteq [frame : Frame, old : BOOLEAN]
  /\ \A h \in held : h.frame \in Truthful(IF h.old THEN 1 ELSE 0)

EntriesOK == table \in [ServiceNode -> Seq(TrueEntry)]

WorldOK ==
  /\ up \subseteq Node \cup ServiceNode
  /\ home \in [Node -> Place]
  /\ conf \in Conf
  /\ faults \in 0 .. MaxFaults /\ moves \in 0 .. MaxMoves
  /\ gone \in [Node -> [Place -> 0 .. GONE_MAX]]

IInv ==
  /\ WorldOK
  /\ WorkerTypeOK
  /\ AtHome
  /\ NetworkOK
  /\ EntriesOK
  /\ OnlyItsOwn
  /\ Handshake

(* The invariant holds what the runs check.                                *)
LEMMA IInvImplies == IInv => TypeOK /\ PushIsFresh
<1> SUFFICES ASSUME IInv PROVE TypeOK /\ PushIsFresh
  OBVIOUS
<1>1. network \in Seq(Frame)
  <2>1. Timely \subseteq Frame
    BY DEF Timely, Truthful
  <2> QED
    BY <2>1, SeqMonotonic DEF IInv, NetworkOK
<1>2. ServiceTypeOK
  <2>1. TrueEntry \subseteq Entry
    BY DEF TrueEntry
  <2>2. Seq(TrueEntry) \subseteq Seq(Entry)
    BY <2>1, SeqMonotonic
  <2> QED
    BY <2>2 DEF IInv, EntriesOK, ServiceTypeOK
<1>3. PushIsFresh
  <2>1. ASSUME NEW d \in OnTheWay
        PROVE  d \in Timely
    BY <2>1, ElementOfSeq DEF OnTheWay, IInv, NetworkOK
  <2> QED
    BY <2>1 DEF PushIsFresh, Timely
<1> QED
  BY <1>1, <1>2, <1>3 DEF IInv, WorldOK, NetworkOK, TypeOK

(* What may arrive is true, if perhaps a tick late.                        *)
LEMMA ArrivingTruthful ==
  ASSUME NetworkOK, WorldOK, NEW d \in Arriving
  PROVE  d \in Truthful(1)
<1>1. Truthful(0) \subseteq Truthful(1)
  BY NetworkAssumption DEF Truthful, Frame, WorldOK, GONE_MAX
<1>2. CASE network # <<>> /\ d = Head(network)
  BY <1>1, <1>2, HeadTailProperties DEF NetworkOK, Timely
<1>3. CASE \E h \in held : d = h.frame
  BY <1>1, <1>3 DEF NetworkOK
<1> QED
  BY <1>2, <1>3 DEF Arriving

(* As long as no time passes, what was true stays true.                    *)
LEMMA StaysTrue ==
  ASSUME WorldOK, WorldOK', UNCHANGED conf,
         \A n \in Node, p \in Place : gone'[n][p] <= gone[n][p],
         heard \subseteq heard'
  PROVE  /\ Truthful(0) \subseteq Truthful(0)'
         /\ Truthful(1) \subseteq Truthful(1)'
         /\ Timely \subseteq Timely'
         /\ TrueEntry \subseteq TrueEntry'
<1>0. /\ Pool \in [Node -> SUBSET Place]
      /\ LIFE_TIME \in Nat /\ AGE_MAX \in Nat
      /\ gone \in [Node -> [Place -> Nat]] /\ gone' \in [Node -> [Place -> Nat]]
  BY NetworkAssumption, ServiceAssumption DEF WorldOK, GONE_MAX
<1>1. ASSUME NEW late \in Nat, NEW d \in Truthful(late)
      PROVE  d \in Truthful(late)'
  <2>1. ASSUME d.type \in {"POST", "REQUEST"}
        PROVE  gone'[d.src][d.from] <= late
    <3>1. d.src \in Node /\ d.from \in Place
      BY <1>1, <2>1 DEF Truthful, Frame
    <3> QED
      BY <1>0, <1>1, <2>1, <3>1 DEF Truthful
  <2> QED
    BY <1>1, <2>1 DEF Truthful
<1>2. ASSUME NEW d \in Timely
      PROVE  d \in Timely'
  <2>1. ASSUME d.type = "PUSH"
        PROVE  FreshButOne(d.node, d.addrs)'
    <3>1. d.node \in Node /\ d.addrs \subseteq Place
      BY <1>2, <2>1 DEF Timely, Truthful, Frame
    <3>2. PICK q \in conf.wan6[d.node] \cup {NoPlace} :
            \A p \in d.addrs \ {q} : gone[d.node][p] <= LIFE_TIME
      BY <1>2, <2>1 DEF Timely, FreshButOne
    <3>3. ASSUME NEW p \in d.addrs \ {q}
          PROVE  gone'[d.node][p] <= LIFE_TIME
      <4>1. gone[d.node][p] \in Nat /\ gone'[d.node][p] \in Nat
        BY <1>0, <3>1
      <4>2. gone'[d.node][p] <= gone[d.node][p]
        BY <3>1
      <4> QED
        BY <1>0, <3>2, <4>1, <4>2
    <3> QED
      BY <3>3 DEF FreshButOne
  <2> QED
    BY <1>1, <1>2, <2>1 DEF Timely
<1>3. ASSUME NEW e \in TrueEntry
      PROVE  e \in TrueEntry'
  <2>1. SUFFICES ASSUME e.key \in Node
                 PROVE  e.list \in Seq(TrueAddress(e.key)')
    BY <1>3 DEF TrueEntry, TrueAddress
  <2>2. ASSUME NEW q \in TrueAddress(e.key)
        PROVE  q \in TrueAddress(e.key)'
    BY <1>0, <2>1, <2>2 DEF TrueAddress, Address
  <2>3. e.list \in Seq(TrueAddress(e.key)')
    BY <1>3, <2>1, <2>2, SeqMonotonic DEF TrueEntry
  <2> QED
    BY <1>3, <2>3 DEF TrueEntry, TrueAddress
<1> QED
  BY <1>1, <1>2, <1>3
-----------------------------------------------------------------------------
(* The datagrams the two workers send.                                     *)

(* What a node says of itself is true when it is sent.                     *)
LEMMA SentTimely ==
  ASSUME WorldOK, AtHome, NEW n \in Node
  PROVE  /\ \A x \in ServiceNode, w \in conf.wan6[n] : Post(n, x, w) \in Timely
         /\ \A x \in ServiceNode, m \in Node : Request(n, x, m) \in Timely
         /\ \A p \in Place, m \in Node : Detect(n, p, m, "d") \in Timely
         /\ \A x \in ServiceNode, p \in Place : Echo(x, p, n) \in Timely
<1>1. home[n] \in Place /\ home[n] \in Pool[n] /\ gone[n][home[n]] = 0
  BY DEF WorldOK, AtHome
<1>2. ASSUME NEW x \in ServiceNode, NEW w \in conf.wan6[n]
      PROVE  Post(n, x, w) \in Timely
  <2>1. w \in Place \cup {NoPlace}
    <3>1. conf.wan6[n] \subseteq Pool[n] \cup {NoPlace} /\ Pool[n] \subseteq Place
      BY NetworkAssumption DEF WorldOK
    <3> QED
      BY <3>1
  <2> QED
    BY <1>1, <2>1 DEF Post, Timely, Truthful, Frame
<1>3. ASSUME NEW x \in ServiceNode, NEW m \in Node
      PROVE  Request(n, x, m) \in Timely
  BY <1>1 DEF Request, Timely, Truthful, Frame
<1>4. ASSUME NEW p \in Place, NEW m \in Node
      PROVE  Detect(n, p, m, "d") \in Timely
  BY <1>1 DEF Detect, Timely, Truthful, Frame
<1>5. ASSUME NEW x \in ServiceNode, NEW p \in Place
      PROVE  Echo(x, p, n) \in Timely
  BY DEF Echo, Timely, Truthful, Frame
<1> QED
  BY <1>2, <1>3, <1>4, <1>5

(* Probes of a set of addresses.                                           *)
LEMMA ProbesTimely ==
  ASSUME WorldOK, AtHome, NEW n \in Node, NEW m \in Node,
         NEW S \in SUBSET Place
  PROVE  Burst({Detect(n, p, m, "d") : p \in S}) \in Seq(Timely)
<1> DEFINE f == [p \in S |-> Detect(n, p, m, "d")]
           T == {Detect(n, p, m, "d") : p \in S}
<1>1. T = {f[p] : p \in S}
  OBVIOUS
<1>2. IsFiniteSet(T)
  <2> HIDE DEF f, T
  <2> QED
    BY <1>1, ImageFinite, PlacesFinite
<1>3. T \subseteq Timely
  BY SentTimely
<1> HIDE DEF T
<1>4. Burst(T) \in Seq(Timely)
  BY <1>2, <1>3, BurstType, SeqMonotonic
<1> QED
  BY <1>4 DEF T

(* A post to all index nodes.                                              *)
LEMMA PostsTimely ==
  ASSUME WorldOK, AtHome, NEW n \in Node, NEW w \in conf.wan6[n]
  PROVE  Burst({Post(n, x, w) : x \in ServiceNode}) \in Seq(Timely)
<1> DEFINE f == [x \in ServiceNode |-> Post(n, x, w)]
           T == {Post(n, x, w) : x \in ServiceNode}
<1>1. T = {f[x] : x \in ServiceNode}
  OBVIOUS
<1>2. IsFiniteSet(T)
  <2> HIDE DEF f, T
  <2> QED
    BY <1>1, ImageFinite, ServicesFinite
<1>3. T \subseteq Timely
  BY SentTimely
<1> HIDE DEF T
<1>4. Burst(T) \in Seq(Timely)
  BY <1>2, <1>3, BurstType, SeqMonotonic
<1> QED
  BY <1>4 DEF T

(* A set of numbers has a smallest one: of the initial segments that end   *)
(* in it, one is minimal.                                                  *)
LEMMA Smallest ==
  ASSUME NEW S \in SUBSET Nat, S # {}
  PROVE  \E i \in S : \A j \in S : i <= j
<1> DEFINE T == {0 .. i : i \in S}
           R == StrictSubsetOrdering(Nat)
           F == FiniteSubsetsOf(Nat)
<1>1. T \subseteq F
  <2>1. ASSUME NEW i \in S
        PROVE  0 .. i \subseteq Nat /\ IsFiniteSet(0 .. i)
    BY FS_Interval
  <2> QED
    BY <2>1 DEF FiniteSubsetsOf
<1>2. T # {}
  OBVIOUS
<1>3. \E X \in T : \A Y \in T : <<Y, X>> \notin R
  <2>1. IsWellFoundedOn(R, F)
    BY FS_StrictSubsetOrderingWellFounded
  <2> HIDE DEF T, R, F
  <2> QED
    BY <1>1, <1>2, <2>1, WFMin
<1>4. PICK i \in S : \A j \in S : <<0 .. j, 0 .. i>> \notin R
  BY <1>3
<1>5. ASSUME NEW j \in S, j < i
      PROVE  FALSE
  <2>1. 0 .. j \subseteq 0 .. i /\ 0 .. j \subseteq Nat /\ 0 .. i \subseteq Nat
    BY <1>5
  <2>2. i \in 0 .. i /\ i \notin 0 .. j
    BY <1>5
  <2> QED
    BY <1>4, <2>1, <2>2 DEF StrictSubsetOrdering
<1> QED
  BY <1>5

(* The index node a request goes to exists, and the turn stays in range.   *)
LEMMA SelectedType ==
  ASSUME WorkerTypeOK, NEW n \in Node
  PROVE  Asked(n) \subseteq 1 .. Count /\ NextIndex(n) \in 1 .. Count
<1>1. Count \in Nat \ {0}
  BY NetworkAssumption, EmptySeq, LenProperties DEF Count
<1>2. cur_index[n] \in 1 .. Count
  BY DEF WorkerTypeOK
<1>3. ASSUME NEW c \in Int, NEW i \in Int
      PROVE  Turn(c, i) \in 1 .. Count
  BY <1>1 DEF Turn
<1>4. ASSUME NEW c, Tries(n, c) # {}
      PROVE  FirstTry(n, c) \in 1 .. Count
  <2>1. PICK i \in Tries(n, c) : \A j \in Tries(n, c) : i <= j
    <3>1. Tries(n, c) \in SUBSET Nat
      BY <1>1 DEF Tries
    <3> QED
      BY <1>4, <3>1, Smallest
  <2> QED
    BY <2>1 DEF FirstTry, Tries
<1>5. Selected(n) \in 1 .. Count
  <2> DEFINE c == IF Balances(n) THEN cur_index[n] ELSE 1
  <2>1. c \in Int
    BY <1>2
  <2>2. Selected(n) = (IF Count = 1 \/ Tries(n, c) = {} THEN 1
                       ELSE Turn(c, FirstTry(n, c)))
    BY DEF Selected
  <2> HIDE DEF c
  <2>3. 1 \in 1 .. Count
    BY <1>1
  <2>4. ASSUME Tries(n, c) # {}
        PROVE  Turn(c, FirstTry(n, c)) \in 1 .. Count
    <3>1. FirstTry(n, c) \in Int
      BY <1>4, <2>4
    <3> QED
      BY <1>3, <2>1, <3>1
  <2> QED
    BY <2>2, <2>3, <2>4
<1>6. NextIndex(n) \in 1 .. Count
  <2>1. CASE Balances(n) /\ Tries(n, cur_index[n]) # {}
    <3>1. FirstTry(n, cur_index[n]) + 1 \in Int /\ cur_index[n] \in Int
      BY <1>2, <1>4, <2>1
    <3>2. NextIndex(n) = Turn(cur_index[n], FirstTry(n, cur_index[n]) + 1)
      BY <2>1 DEF NextIndex
    <3> QED
      BY <1>3, <3>1, <3>2
  <2> QED
    BY <1>2, <2>1 DEF NextIndex
<1>7. SelectedNode(n) \in 1 .. Count
  BY <1>4, <1>5 DEF SelectedNode
<1>8. Asked(n) \subseteq 1 .. Count
  BY <1>5, <1>7 DEF Asked
<1> QED
  BY <1>6, <1>8

(* The requests to the index nodes selected.                               *)
LEMMA RequestsTimely ==
  ASSUME WorldOK, WorkerTypeOK, AtHome, NEW n \in Node, NEW m \in Node
  PROVE  Burst(Requests(n, m)) \in Seq(Timely)
<1> DEFINE f == [k \in Asked(n) |-> Request(n, Service[k], m)]
<1>1. Requests(n, m) = {f[k] : k \in Asked(n)}
  BY DEF Requests
<1>2. IsFiniteSet(Requests(n, m))
  <2>1. IsFiniteSet(Asked(n))
    BY SelectedType, ServicesFinite, FS_Subset
  <2> HIDE DEF f
  <2> QED
    BY <1>1, <2>1, ImageFinite
<1>3. Requests(n, m) \subseteq Timely
  <2>1. \A k \in Asked(n) : Service[k] \in ServiceNode
    BY SelectedType DEF ServiceNode
  <2> QED
    BY <2>1, SentTimely DEF Requests
<1> QED
  BY <1>2, <1>3, BurstType, SeqMonotonic

(* The two PUSHes of a request.                                            *)
LEMMA PushTimely ==
  ASSUME WorldOK, NEW x \in ServiceNode, NEW src \in TrueEntry,
         NEW dst \in TrueEntry, src.key \in Node, dst.key \in Node
  PROVE  Burst(PushTo(x, src, dst)) \in Seq(Timely)
<1> DEFINE told == Living(src) \cup Filled(src)
           f == [p \in Available(dst) |-> PushAddr(x, p, src.key, told)]
<1>1. /\ src.key \in Node /\ src.list \in Seq(TrueAddress(src.key))
      /\ src.wan6 \in conf.wan6[src.key] \cup {NoPlace}
  BY DEF TrueEntry, Entry
<1>2. Available(dst) \subseteq Place
  BY ElementOfSeq DEF Available, TrueEntry, TrueAddress, Address
<1>3. ASSUME NEW p \in Living(src)
      PROVE  p \in Place /\ p \in Pool[src.key]
             /\ gone[src.key][p] <= LIFE_TIME
  <2>1. PICK i \in 1 .. Len(src.list) :
          src.list[i].age < LIFE_TIME /\ p = src.list[i].addr
    BY <1>3 DEF Living
  <2>2. src.list[i] \in TrueAddress(src.key)
    BY <1>1, ElementOfSeq
  <2>3. p \in Place
    BY <2>1, <2>2 DEF TrueAddress, Address
  <2>4. gone[src.key][p] \in 0 .. GONE_MAX
    BY <1>1, <2>3 DEF WorldOK
  <2>5. gone[src.key][p] \in Nat
    BY <2>4
  <2> QED
    BY <2>1, <2>2, <2>3, <2>5, ServiceAssumption DEF TrueAddress, Address
<1>4. told \subseteq Place /\ told \subseteq Pool[src.key]
  <2>1. conf.wan6[src.key] \subseteq Pool[src.key] \cup {NoPlace}
    BY <1>1, NetworkAssumption DEF WorldOK
  <2>2. Pool[src.key] \subseteq Place
    BY <1>1, NetworkAssumption
  <2>3. Filled(src) \subseteq Pool[src.key]
    BY <1>1, <2>1 DEF Filled
  <2> QED
    BY <1>3, <2>2, <2>3
<1>5. FreshButOne(src.key, told)
  <2>1. ASSUME NEW p \in told \ {src.wan6}
        PROVE  p \in Living(src)
    BY DEF Filled
  <2>2. \A p \in told \ {src.wan6} : gone[src.key][p] <= LIFE_TIME
    BY <1>3, <2>1
  <2> HIDE DEF told
  <2> QED
    BY <1>1, <2>2 DEF FreshButOne
<1>6. PushTo(x, src, dst) = {f[p] : p \in Available(dst)}
  BY DEF PushTo
<1>7. PushTo(x, src, dst) = {PushAddr(x, p, src.key, told) : p \in Available(dst)}
  BY DEF PushTo
<1> HIDE DEF told
<1>8. ASSUME NEW p \in Available(dst)
      PROVE  PushAddr(x, p, src.key, told) \in Timely
  BY <1>1, <1>2, <1>4, <1>5 DEF PushAddr, Timely, Truthful, Frame
<1>9. IsFiniteSet(PushTo(x, src, dst))
  <2> HIDE DEF f
  <2> QED
    BY <1>2, <1>6, ImageFinite, PlacesFinite
<1>10. PushTo(x, src, dst) \subseteq Timely
  BY <1>7, <1>8
<1> QED
  BY <1>9, <1>10, BurstType, SeqMonotonic
-----------------------------------------------------------------------------
(* The entries of the index nodes.                                         *)

(* An entry without addresses says nothing false.                          *)
LEMMA NewEntryTrue ==
  ASSUME NEW n \in Node \cup Nobody
  PROVE  NewEntry(n) \in TrueEntry /\ NewEntry(n).key = n
<1>1. <<>> \in Seq(Address) /\ <<>> \in Seq(TrueAddress(n))
  OBVIOUS
<1>2. AGE_MAX \in 0 .. AGE_MAX
  BY ServiceAssumption
<1> QED
  BY <1>1, <1>2 DEF NewEntry, TrueEntry, Entry

(* An entry stays true when its node has posted.                           *)
LEMMA PostedTrue ==
  ASSUME NEW e \in TrueEntry
  PROVE  /\ [e EXCEPT !.last_post = 0] \in TrueEntry
         /\ [e EXCEPT !.last_post = 0].key = e.key
<1> DEFINE f == [e EXCEPT !.last_post = 0]
<1>1. e \in Entry
  BY DEF TrueEntry
<1>2. f \in Entry /\ f.key = e.key /\ f.list = e.list /\ f.wan6 = e.wan6
  BY <1>1, ServiceAssumption DEF Entry
<1> HIDE DEF f
<1>3. f \in TrueEntry
  BY <1>2 DEF TrueEntry
<1> QED
  BY <1>2, <1>3 DEF f

(* And when its list takes an address the node had at most a tick ago.  Of *)
(* an entry of nobody there is nothing to show.                            *)
LEMMA ListedTrue ==
  ASSUME NEW e \in TrueEntry, NEW p \in Place,
         e.key \in Node => p \in Pool[e.key] /\ gone[e.key][p] <= 1
  PROVE  /\ [e EXCEPT !.list = Fifo(@, p)] \in TrueEntry
         /\ [e EXCEPT !.list = Fifo(@, p)].key = e.key
<1> DEFINE f == [e EXCEPT !.list = Fifo(@, p)]
           a == [addr |-> p, age |-> 0]
<1>1. e \in Entry /\ e.list \in Seq(Address)
  BY DEF TrueEntry, Entry
<1>2. a \in Address
  BY ServiceAssumption DEF Address
<1>3. Fifo(e.list, p) \in Seq(Address)
  BY <1>1, <1>2, FifoType
<1>4. ASSUME e.key \in Node
      PROVE  Fifo(e.list, p) \in Seq(TrueAddress(e.key))
  <2>1. e.list \in Seq(TrueAddress(e.key))
    BY <1>4 DEF TrueEntry
  <2>2. a \in TrueAddress(e.key)
    BY <1>2, <1>4 DEF TrueAddress
  <2> QED
    BY <2>1, <2>2, FifoType
<1>5. /\ f \in Entry /\ f.key = e.key
      /\ f.list = Fifo(e.list, p) /\ f.wan6 = e.wan6
  BY <1>1, <1>3 DEF Entry
<1> HIDE DEF f
<1>6. f \in TrueEntry
  BY <1>4, <1>5 DEF TrueEntry
<1> QED
  BY <1>5, <1>6 DEF f

(* And when its node says what it takes for its own address, or nothing.   *)
LEMMA OwnTrue ==
  ASSUME NEW e \in TrueEntry, NEW w \in Place \cup {NoPlace},
         e.key \in Node => w \in conf.wan6[e.key] \cup {NoPlace}
  PROVE  [e EXCEPT !.wan6 = IF w = NoPlace THEN @ ELSE w] \in TrueEntry
<1> DEFINE v == IF w = NoPlace THEN e.wan6 ELSE w
           f == [e EXCEPT !.wan6 = v]
<1>1. e \in Entry /\ e.wan6 \in Place \cup {NoPlace}
  BY DEF TrueEntry, Entry
<1>2. /\ v \in Place \cup {NoPlace}
      /\ e.key \in Node => v \in conf.wan6[e.key] \cup {NoPlace}
  BY <1>1 DEF TrueEntry
<1>3. [e EXCEPT !.wan6 = IF w = NoPlace THEN @ ELSE w] = f
  OBVIOUS
<1> HIDE DEF v
<1>4. f \in Entry /\ f.key = e.key /\ f.list = e.list /\ f.wan6 = v
  BY <1>1, <1>2 DEF Entry
<1> HIDE DEF f
<1>5. f \in TrueEntry
  BY <1>2, <1>4 DEF TrueEntry
<1> QED
  BY <1>3, <1>5
-----------------------------------------------------------------------------
(* A step in which no time passes and no node moves keeps the parts of the *)
(* invariant that it does not touch.                                       *)

(* What is on its way stays true when what is sent is timely.              *)
LEMMA NetworkStays ==
  ASSUME NetworkOK, WorldOK, WorldOK', UNCHANGED <<conf, gone>>, heard \subseteq heard',
         network' \in Seq(Timely'), held' \subseteq held
  PROVE  NetworkOK'
<1>1. \A n \in Node, p \in Place : gone'[n][p] <= gone[n][p]
  <2>1. ASSUME NEW n \in Node, NEW p \in Place
        PROVE  gone[n][p] <= gone[n][p]
    <3>1. gone[n][p] \in 0 .. GONE_MAX
      BY DEF WorldOK
    <3> QED
      BY <3>1
  <2> QED
    BY <2>1
<1>2. Truthful(0) \subseteq Truthful(0)' /\ Truthful(1) \subseteq Truthful(1)'
  BY <1>1, StaysTrue
<1>3. ASSUME NEW h \in held'
      PROVE  h.frame \in Truthful(IF h.old THEN 1 ELSE 0)'
  BY <1>2 DEF NetworkOK
<1> QED
  BY <1>3 DEF NetworkOK

(* The same for what is sent and for the tables.                           *)
LEMMA TrueStays ==
  ASSUME WorldOK, WorldOK', UNCHANGED <<conf, gone>>, heard \subseteq heard'
  PROVE  Timely \subseteq Timely' /\ TrueEntry \subseteq TrueEntry'
<1>1. \A n \in Node, p \in Place : gone'[n][p] <= gone[n][p]
  <2>1. ASSUME NEW n \in Node, NEW p \in Place
        PROVE  gone[n][p] <= gone[n][p]
    <3>1. gone[n][p] \in 0 .. GONE_MAX
      BY DEF WorldOK
    <3> QED
      BY <3>1
  <2> QED
    BY <2>1
<1> QED
  BY <1>1, StaysTrue

(* A datagram is taken and answered with timely ones.                      *)
LEMMA Taken ==
  ASSUME IInv, WorldOK', UNCHANGED <<conf, gone>>, heard \subseteq heard',
         NEW d, NEW out \in Seq(Timely'), Exchange(d, out)
  PROVE  NetworkOK' /\ d \in Truthful(1)
<1>1. Timely \subseteq Timely'
  BY TrueStays DEF IInv
<1>2. network \in Seq(Timely')
  BY <1>1, SeqMonotonic DEF IInv, NetworkOK
<1>3. network' \in Seq(Timely') /\ held' \subseteq held /\ d \in Arriving
  BY <1>2, ExchangeNetwork
<1>4. NetworkOK'
  BY <1>3, NetworkStays DEF IInv
<1>5. d \in Truthful(1)
  BY <1>3, ArrivingTruthful DEF IInv
<1> QED
  BY <1>4, <1>5

(* A table in which an entry is replaced, with all others as they are.     *)
LEMMA TableStays ==
  ASSUME IInv, NEW x \in ServiceNode, NEW t \in Seq(TrueEntry),
         table' = [table EXCEPT ![x] = t], UNCHANGED <<conf, gone>>
  PROVE  EntriesOK'
<1>1. table' \in [ServiceNode -> Seq(TrueEntry)]
  BY DEF IInv, EntriesOK
<1>2. TrueEntry' = TrueEntry
  BY DEF TrueEntry, TrueAddress
<1> QED
  BY <1>1, <1>2 DEF EntriesOK

(* A step leaves the nodes alone.                                          *)
LEMMA NodesStay ==
  ASSUME IInv, UNCHANGED <<conf, home, workvars, gone>>,
         up' \subseteq Node \cup ServiceNode,
         faults' \in 0 .. MaxFaults, moves' \in 0 .. MaxMoves
  PROVE  /\ WorldOK' /\ heard \subseteq heard'
         /\ Timely' = Timely
         /\ NetworkOK' /\ EntriesOK' => IInv'
<1>1. WorldOK'
  BY DEF IInv, WorldOK
<1>2. heard' = heard
  BY DEF workvars
<1>3. Timely' = Timely
  BY <1>2 DEF Timely, Truthful, FreshButOne
<1>4. WorkerTypeOK' /\ OnlyItsOwn' /\ Handshake'
  BY DEF IInv, workvars, WorkerTypeOK, OnlyItsOwn, Handshake
<1>5. AtHome'
  BY DEF IInv, AtHome
<1> QED
  BY <1>1, <1>2, <1>3, <1>4, <1>5 DEF IInv

(* A step of an index node.                                                *)
LEMMA ServiceKeeps ==
  ASSUME IInv, UNCHANGED <<conf, up, home, workvars, faults, moves, gone>>
  PROVE  /\ WorldOK' /\ heard \subseteq heard'
         /\ Timely' = Timely
         /\ NetworkOK' /\ EntriesOK' => IInv'
<1>1. /\ up' \subseteq Node \cup ServiceNode
      /\ faults' \in 0 .. MaxFaults /\ moves' \in 0 .. MaxMoves
  BY DEF IInv, WorldOK
<1> QED
  BY <1>1, NodesStay
-----------------------------------------------------------------------------
(* The index node's handlers.                                              *)

(* What a post writes into the table is true, if its key is nobody's or    *)
(* what it says of its node is.                                            *)
LEMMA TakenTrue ==
  ASSUME IInv, UNCHANGED <<conf, gone>>, NEW x \in ServiceNode, NEW d,
         NEW k \in Node \cup Nobody, NEW w \in Place \cup {NoPlace}, NEW echo,
         d.from \in Place, TakePost(x, d, k, w, echo),
         k \in Node => /\ d.from \in Pool[k] /\ gone[k][d.from] <= 1
                      /\ w \in conf.wan6[k] \cup {NoPlace}
  PROVE  EntriesOK'
<1> DEFINE t == IF At(table[x], k) # {} THEN table[x]
                ELSE Store(table[x], NewEntry(k))
           e == EntryOf(t, k)
           posted == [e EXCEPT !.last_post = 0]
           listed == [posted EXCEPT !.list = Fifo(@, d.from)]
           owned == [listed EXCEPT !.wan6 = IF w = NoPlace THEN @ ELSE w]
<1>1. t \in Seq(TrueEntry) /\ At(t, k) # {}
  <2>1. table[x] \in Seq(TrueEntry)
    BY DEF IInv, EntriesOK
  <2>2. /\ Store(table[x], NewEntry(k)) \in Seq(TrueEntry)
        /\ At(Store(table[x], NewEntry(k)), k) # {}
    BY <2>1, NewEntryTrue, StoreType
  <2> QED
    BY <2>1, <2>2
<1>2. \/ table' = [table EXCEPT ![x] = Replace(t, posted)]
      \/ table' = [table EXCEPT ![x] = Replace(t, owned)]
  BY DEF TakePost
<1> HIDE DEF t
<1>3. e \in TrueEntry /\ e.key = k
  BY <1>1, LookUp
<1> HIDE DEF e
<1>4. posted \in TrueEntry /\ posted.key = k
  BY <1>3, PostedTrue
<1> HIDE DEF posted
<1>5. listed \in TrueEntry /\ listed.key = k
  BY <1>4, ListedTrue
<1> HIDE DEF listed
<1>6. owned \in TrueEntry
  BY <1>5, OwnTrue
<1> HIDE DEF owned
<1>7. Replace(t, posted) \in Seq(TrueEntry) /\ Replace(t, owned) \in Seq(TrueEntry)
  BY <1>1, <1>4, <1>6, ReplaceType
<1> QED
  BY <1>2, <1>7, TableStays

(* A POST, which may be a tick late, enters the table.                     *)
LEMMA PostKeeps ==
  ASSUME IInv, NEW x \in ServiceNode, NEW d, HandlePost(x, d),
         UNCHANGED <<conf, up, home, workvars, faults, moves, gone>>
  PROVE  IInv'
<1>1. WorldOK' /\ heard \subseteq heard' /\ Timely' = Timely
  BY ServiceKeeps
<1>2. PICK out \in {<<>>, <<Echo(x, d.from, d.src)>>} : Exchange(d, out)
  BY DEF HandlePost, TakePost
<1>3. d \in Truthful(1)
  <2>1. d \in Arriving
    BY <1>2 DEF Exchange, Arriving
  <2> QED
    BY <2>1, ArrivingTruthful DEF IInv
<1>4. /\ d.src \in Node /\ d.from \in Place /\ d.wan6 \in Place \cup {NoPlace}
      /\ d.from \in Pool[d.src] /\ gone[d.src][d.from] <= 1
      /\ d.wan6 \in conf.wan6[d.src]
  BY <1>3 DEF HandlePost, Truthful, Frame
<1>5. EntriesOK'
  <2>1. TakePost(x, d, d.src, d.wan6, <<Echo(x, d.from, d.src)>>)
    BY DEF HandlePost
  <2> QED
    BY <1>4, <2>1, TakenTrue
<1>6. NetworkOK'
  <2>1. Echo(x, d.from, d.src) \in Timely
    BY <1>4, SentTimely DEF IInv
  <2>2. out \in Seq(Timely)
    <3> DEFINE a == Echo(x, d.from, d.src)
    <3>1. a \in Timely /\ out \in {<<>>, <<a>>}
      BY <1>2, <2>1
    <3> HIDE DEF a
    <3>2. <<>> \in Seq(Timely) /\ <<a>> \in Seq(Timely)
      BY <3>1
    <3> QED
      BY <3>1, <3>2
  <2>3. out \in Seq(Timely')
    BY <1>1, <2>2
  <2> QED
    BY <1>1, <1>2, <2>3, Taken
<1> QED
  BY <1>5, <1>6, ServiceKeeps

(* A POST that opens to junk enters the table under a key of nobody.       *)
LEMMA JunkKeeps ==
  ASSUME IInv, NEW x \in ServiceNode, NEW d, HandleJunk(x, d),
         UNCHANGED <<conf, up, home, workvars, faults, moves, gone>>
  PROVE  IInv'
<1>1. WorldOK' /\ heard \subseteq heard' /\ Timely' = Timely
  BY ServiceKeeps
<1>2. PICK k \in Nobody : TakePost(x, d, k, NoPlace, <<>>)
  BY DEF HandleJunk
<1>3. Exchange(d, <<>>)
  BY <1>2 DEF TakePost
<1>4. NetworkOK' /\ d \in Truthful(1)
  <2>1. <<>> \in Seq(Timely')
    OBVIOUS
  <2> QED
    BY <1>1, <1>3, <2>1, Taken
<1>5. d.from \in Place
  BY <1>4 DEF HandleJunk, Truthful, Frame
<1>6. EntriesOK'
  <2>1. k \notin Node
    BY ServiceAssumption
  <2> QED
    BY <1>2, <1>5, <2>1, TakenTrue
<1> QED
  BY <1>4, <1>6, ServiceKeeps

(* A REQUEST makes an index node introduce two nodes.                      *)
LEMMA RequestKeeps ==
  ASSUME IInv, NEW x \in ServiceNode, NEW d, HandleRequest(x, d),
         UNCHANGED <<conf, up, home, workvars, faults, moves, gone>>
  PROVE  IInv'
<1> DEFINE t == table[x]
           knows(n) == At(t, n) # {} /\ Recent(EntryOf(t, n))
           moved == MoveToHead(t, d.src)
           l == [EntryOf(t, d.src) EXCEPT !.list = Fifo(@, d.from)]
           r == EntryOf(t, d.dst)
<1>1. WorldOK' /\ heard \subseteq heard' /\ Timely' = Timely
  BY ServiceKeeps
<1>2. t \in Seq(TrueEntry)
  BY DEF IInv, EntriesOK
<1>3. CASE ~knows(d.src)
  <2>1. Exchange(d, <<>>) /\ UNCHANGED table
    BY <1>3 DEF HandleRequest
  <2>2. NetworkOK'
    <3>1. <<>> \in Seq(Timely')
      OBVIOUS
    <3> QED
      BY <1>1, <2>1, <3>1, Taken
  <2>3. EntriesOK'
    BY <2>1 DEF IInv, EntriesOK, TrueEntry, TrueAddress
  <2> QED
    BY <2>2, <2>3, ServiceKeeps
<1>4. CASE knows(d.src) /\ ~knows(d.dst)
  <2>1. Exchange(d, <<>>) /\ table' = [table EXCEPT ![x] = moved]
    BY <1>4 DEF HandleRequest
  <2>2. moved \in Seq(TrueEntry)
    BY <1>2, <1>4, MoveToHeadType
  <2> HIDE DEF moved
  <2>3. EntriesOK'
    BY <2>1, <2>2, TableStays
  <2>4. NetworkOK'
    <3>1. <<>> \in Seq(Timely')
      OBVIOUS
    <3> QED
      BY <1>1, <2>1, <3>1, Taken
  <2> QED
    BY <2>3, <2>4, ServiceKeeps
<1>5. CASE knows(d.src) /\ knows(d.dst)
  <2> DEFINE out == Burst(PushTo(x, l, r)) \o Burst(PushTo(x, r, l))
             table2 == Replace(MoveToHead(moved, d.dst), l)
  <2>1. Exchange(d, out) /\ table' = [table EXCEPT ![x] = table2]
    BY <1>5 DEF HandleRequest
  <2>2. d \in Truthful(1)
    <3>1. d \in Arriving
      BY <2>1 DEF Exchange, Arriving
    <3> QED
      BY <3>1, ArrivingTruthful DEF IInv
  <2>3. /\ d.src \in Node /\ d.from \in Place
        /\ d.from \in Pool[d.src] /\ gone[d.src][d.from] <= 1
        /\ d.dst \in Node
    BY <2>2 DEF HandleRequest, Truthful, Frame
  <2>4. /\ EntryOf(t, d.src) \in TrueEntry /\ EntryOf(t, d.src).key = d.src
        /\ r \in TrueEntry /\ r.key = d.dst
    BY <1>2, <1>5, LookUp
  <2>5. l \in TrueEntry /\ l.key = d.src
    BY <2>3, <2>4, ListedTrue
  <2>6. moved \in Seq(TrueEntry) /\ At(moved, d.dst) # {}
    BY <1>2, <1>5, MoveToHeadType
  <2>7. table2 \in Seq(TrueEntry)
    <3>1. MoveToHead(moved, d.dst) \in Seq(TrueEntry)
      BY <2>6, MoveToHeadType
    <3> QED
      BY <2>5, <3>1, ReplaceType
  <2> HIDE DEF l, r, t, moved
  <2>8. out \in Seq(Timely')
    <3>1. /\ Burst(PushTo(x, l, r)) \in Seq(Timely)
          /\ Burst(PushTo(x, r, l)) \in Seq(Timely)
      BY <2>3, <2>4, <2>5, PushTimely DEF IInv
    <3> QED
      BY <1>1, <3>1, ConcatProperties
  <2> HIDE DEF out, table2
  <2>9. EntriesOK'
    BY <2>1, <2>7, TableStays
  <2>10. NetworkOK'
    BY <1>1, <2>1, <2>8, Taken
  <2> QED
    BY <2>9, <2>10, ServiceKeeps
<1> QED
  BY <1>3, <1>4, <1>5
-----------------------------------------------------------------------------
(* The node's loop and handlers.                                           *)

(* What a node keeps about a peer is changed.                              *)
LEMMA UpdateType ==
  ASSUME NEW V, NEW f \in [Node -> [Node -> V]], NEW n \in Node, NEW m \in Node,
         NEW v \in V
  PROVE  [f EXCEPT ![n][m] = v] \in [Node -> [Node -> V]]
OBVIOUS

(* A step of a node leaves the index nodes alone.                          *)
LEMMA WorkerKeeps ==
  ASSUME IInv, UNCHANGED <<conf, up, home, table, faults, moves, gone>>,
         heard \subseteq heard'
  PROVE  /\ WorldOK' /\ Timely \subseteq Timely'
         /\ NetworkOK' /\ WorkerTypeOK' /\ OnlyItsOwn' /\ Handshake' => IInv'
<1>1. WorldOK'
  BY DEF IInv, WorldOK
<1>2. Timely \subseteq Timely'
  BY <1>1, TrueStays DEF IInv
<1>3. AtHome'
  BY DEF IInv, AtHome
<1>4. EntriesOK'
  BY DEF IInv, EntriesOK, TrueEntry, TrueAddress
<1> QED
  BY <1>1, <1>2, <1>3, <1>4 DEF IInv

(* Timely datagrams are appended.                                          *)
LEMMA Appended ==
  ASSUME IInv, UNCHANGED <<conf, up, home, table, faults, moves, gone, held, heard>>,
         NEW out \in Seq(Timely), network' = network \o out
  PROVE  NetworkOK'
<1>1. WorldOK' /\ Timely \subseteq Timely'
  BY WorkerKeeps
<1>2. network' \in Seq(Timely)
  BY ConcatProperties DEF IInv, NetworkOK
<1>3. network' \in Seq(Timely')
  BY <1>1, <1>2, SeqMonotonic
<1> QED
  BY <1>1, <1>3, NetworkStays DEF IInv

(* A node posts its address.                                               *)
LEMMA LoopKeeps ==
  ASSUME IInv, NEW n \in Node, Loop(n),
         UNCHANGED <<conf, table, faults, moves, gone>>
  PROVE  IInv'
<1>1. NetworkOK'
  <2>0. PICK w \in conf.wan6[n] : network' = network \o
          (IF Due(n) THEN Burst({Post(n, x, w) : x \in ServiceNode}) ELSE <<>>)
    BY DEF Loop
  <2> DEFINE posts == Burst({Post(n, x, w) : x \in ServiceNode})
             out == IF Due(n) THEN posts ELSE <<>>
  <2>1. posts \in Seq(Timely)
    <3>1. WorldOK /\ AtHome
      BY DEF IInv
    <3>2. w \in conf.wan6[n]
      BY <2>0
    <3> QED
      BY <3>1, <3>2, PostsTimely
  <2>4. <<>> \in Seq(Timely)
    OBVIOUS
  <2>2. out \in Seq(Timely)
    BY <2>1, <2>4
  <2>3. network' = network \o out
    BY <2>0
  <2> HIDE DEF out
  <2> QED
    BY <2>2, <2>3, Appended DEF Loop
<1>2. WorkerTypeOK'
  <2>1. POST_INTERVAL \in Nat
    BY WorkerAssumption
  <2>2. post_age' \in [Node -> 0 .. POST_INTERVAL + 1]
    BY <2>1 DEF Loop, IInv, WorkerTypeOK
  <2>3. ran' \in [Node -> BOOLEAN] /\ todo' \in [Node -> SUBSET Node]
    BY DEF Loop, IInv, WorkerTypeOK
  <2> QED
    BY <2>2, <2>3 DEF Loop, IInv, WorkerTypeOK
<1>3. OnlyItsOwn' /\ Handshake'
  BY DEF Loop, IInv, OnlyItsOwn, Handshake
<1> QED
  BY <1>1, <1>2, <1>3, WorkerKeeps DEF Loop

(* A node probes a peer and asks for it.                                   *)
LEMMA SyncKeeps ==
  ASSUME IInv, NEW n \in Node, NEW m \in Node, SyncPeer(n, m),
         UNCHANGED <<conf, table, faults, moves, gone>>
  PROVE  IInv'
<1>1. NetworkOK'
  <2> DEFINE probes == IF Probed(n, m) THEN Burst(Probes(n, m)) ELSE <<>>
             asks == IF Sought(n, m) THEN Burst(Requests(n, m)) ELSE <<>>
  <2>1. /\ <<>> \in Seq(Timely)
        /\ Burst(Probes(n, m)) \in Seq(Timely)
        /\ Burst(Requests(n, m)) \in Seq(Timely)
    <3>1. known[n][m] \in SUBSET Place
      BY DEF IInv, WorkerTypeOK
    <3>2. Burst({Detect(n, p, m, "d") : p \in known[n][m]}) \in Seq(Timely)
      BY <3>1, ProbesTimely DEF IInv
    <3>3. Burst(Requests(n, m)) \in Seq(Timely)
      BY RequestsTimely DEF IInv
    <3>4. <<>> \in Seq(Timely)
      OBVIOUS
    <3> QED
      BY <3>2, <3>3, <3>4 DEF Probes
  <2>2. probes \in Seq(Timely) /\ asks \in Seq(Timely)
    BY <2>1
  <2>3. network' = (network \o probes) \o asks
    BY DEF SyncPeer
  <2> HIDE DEF probes, asks
  <2>4. probes \o asks \in Seq(Timely) /\ network' = network \o (probes \o asks)
    BY <2>2, <2>3, ConcatProperties, ConcatAssociative DEF IInv, NetworkOK
  <2> QED
    BY <2>4, Appended DEF SyncPeer
<1>2. WorkerTypeOK'
  <2>1. todo' \in [Node -> SUBSET Node]
    BY DEF SyncPeer, IInv, WorkerTypeOK
  <2>2. cur_index' \in [Node -> 1 .. Count]
    BY SelectedType DEF SyncPeer, IInv, WorkerTypeOK
  <2>3. request_age' \in [Node -> [Node -> 0 .. REQUEST_INTERVAL]]
    <3> DEFINE v == IF Sought(n, m) THEN 0 ELSE request_age[n][m]
    <3>1. request_age \in [Node -> [Node -> 0 .. REQUEST_INTERVAL]]
      BY DEF IInv, WorkerTypeOK
    <3>2. REQUEST_INTERVAL \in Nat
      BY WorkerAssumption
    <3>3. v \in 0 .. REQUEST_INTERVAL
      BY <3>1, <3>2
    <3>4. request_age' = [request_age EXCEPT ![n][m] = v]
      BY DEF SyncPeer
    <3> HIDE DEF v
    <3> QED
      BY <3>1, <3>3, <3>4, UpdateType
  <2>4. detect_count' \in [Node -> [Node -> 0 .. MAX_DETECT]]
    <3>1. detect_count \in [Node -> [Node -> 0 .. MAX_DETECT]]
      BY DEF IInv, WorkerTypeOK
    <3>2. MAX_DETECT \in Nat /\ detect_count[n][m] \in 0 .. MAX_DETECT
      BY <3>1, WorkerAssumption
    <3>3. CountAfter(n, m) \in 0 .. MAX_DETECT
      BY <3>2 DEF CountAfter, Probed
    <3> QED
      BY <3>1, <3>3, UpdateType DEF SyncPeer
  <2> QED
    BY <2>1, <2>2, <2>3, <2>4 DEF SyncPeer, IInv, WorkerTypeOK
<1>3. OnlyItsOwn' /\ Handshake'
  BY DEF SyncPeer, IInv, OnlyItsOwn, Handshake
<1> QED
  BY <1>1, <1>2, <1>3, WorkerKeeps DEF SyncPeer

(* A node learns addresses of a peer.                                      *)
LEMMA PushKeeps ==
  ASSUME IInv, NEW n \in Node, NEW d, HandlePush(n, d),
         UNCHANGED <<conf, up, home, table, faults, moves, gone>>
  PROVE  IInv'
<1>1. WorldOK' /\ Timely \subseteq Timely' /\ heard' = heard
  BY WorkerKeeps DEF HandlePush
<1>2. CASE /\ Exchange(d, <<>>)
           /\ UNCHANGED <<known, detect_count>>
  <2>1. NetworkOK'
    <3>1. <<>> \in Seq(Timely')
      OBVIOUS
    <3> QED
      BY <1>1, <1>2, <3>1, Taken
  <2>2. WorkerTypeOK'
    BY <1>2 DEF HandlePush, IInv, WorkerTypeOK
  <2>3. OnlyItsOwn' /\ Handshake'
    BY <1>2 DEF HandlePush, IInv, OnlyItsOwn, Handshake
  <2> QED
    BY <1>1, <2>1, <2>2, <2>3, WorkerKeeps
<1>3. CASE /\ Exchange(d, Burst({Detect(n, p, d.node, "d") : p \in d.addrs}))
           /\ known' = [known EXCEPT ![n][d.node] = @ \cup d.addrs]
           /\ detect_count' = [detect_count EXCEPT ![n][d.node] = 0]
  <2> DEFINE out == Burst({Detect(n, p, d.node, "d") : p \in d.addrs})
  <2>1. d \in Truthful(1)
    <3>1. d \in Arriving
      BY <1>3 DEF Exchange, Arriving
    <3> QED
      BY <3>1, ArrivingTruthful DEF IInv
  <2>2. /\ d.node \in Node
        /\ d.addrs \subseteq Place /\ d.addrs \subseteq Pool[d.node]
    BY <2>1 DEF HandlePush, Truthful, Frame
  <2>3. out \in Seq(Timely)
    BY <2>2, ProbesTimely DEF IInv
  <2>4. out \in Seq(Timely') /\ Exchange(d, out)
    BY <1>1, <1>3, <2>3, SeqMonotonic
  <2> HIDE DEF out
  <2>5. NetworkOK'
    BY <1>1, <2>4, Taken
  <2>6. WorkerTypeOK'
    <3>0. known \in [Node -> [Node -> SUBSET Place]]
      BY DEF IInv, WorkerTypeOK
    <3>1. known' \in [Node -> [Node -> SUBSET Place]]
      <4>1. known[n][d.node] \cup d.addrs \in SUBSET Place
        BY <2>2, <3>0
      <4>2. known' = [known EXCEPT ![n][d.node] =
                        known[n][d.node] \cup d.addrs]
        BY <1>3
      <4> QED
        BY <2>2, <3>0, <4>1, <4>2, UpdateType
    <3>2. 0 \in 0 .. MAX_DETECT
      BY WorkerAssumption
    <3>3. detect_count' \in [Node -> [Node -> 0 .. MAX_DETECT]]
      BY <1>3, <2>2, <3>2 DEF IInv, WorkerTypeOK
    <3> QED
      BY <3>1, <3>3 DEF HandlePush, IInv, WorkerTypeOK
  <2>7. OnlyItsOwn'
    BY <1>3, <2>2 DEF HandlePush, IInv, WorkerTypeOK, OnlyItsOwn
  <2>8. Handshake'
    BY DEF HandlePush, IInv, Handshake
  <2> QED
    BY <1>1, <2>5, <2>6, <2>7, <2>8, WorkerKeeps
<1> QED
  BY <1>2, <1>3 DEF HandlePush

(* A node learns that an index node is there.                              *)
LEMMA EchoKeeps ==
  ASSUME IInv, NEW n \in Node, NEW d, HandleEcho(n, d),
         UNCHANGED <<conf, up, home, table, faults, moves, gone>>
  PROVE  IInv'
<1>1. WorldOK' /\ heard' = heard
  BY WorkerKeeps DEF HandleEcho
<1>2. NetworkOK'
  <2>1. <<>> \in Seq(Timely')
    OBVIOUS
  <2> QED
    BY <1>1, <2>1, Taken DEF HandleEcho
<1>3. WorkerTypeOK'
  <2>1. 0 \in 0 .. INDEX_LIFE
    BY WorkerAssumption
  <2>2. index_age' \in [Node -> [1 .. Count -> 0 .. INDEX_LIFE]]
    BY <2>1 DEF HandleEcho, IInv, WorkerTypeOK
  <2> QED
    BY <2>2 DEF HandleEcho, IInv, WorkerTypeOK
<1>4. OnlyItsOwn' /\ Handshake'
  BY DEF HandleEcho, IInv, OnlyItsOwn, Handshake
<1> QED
  BY <1>1, <1>2, <1>3, <1>4, WorkerKeeps

(* An answer was sent to the address that the node has now, so it is meant *)
(* for it: its sender has heard it.                                        *)
LEMMA DetectKeeps ==
  ASSUME IInv, NEW n \in Node, NEW d, HandleDetect(n, d),
         UNCHANGED <<conf, up, home, table, faults, moves, gone>>
  PROVE  IInv'
<1> DEFINE m == d.src
           answer == Detect(n, d.from, m, "e")
<1>1. WorldOK' /\ Timely \subseteq Timely' /\ heard \subseteq heard'
  BY WorkerKeeps DEF HandleDetect
<1>2. PICK out \in {<<>>, <<answer>>} : Exchange(d, out)
  BY DEF HandleDetect
<1>3. d \in Truthful(1)
  <2>1. d \in Arriving
    BY <1>2 DEF Exchange, Arriving
  <2> QED
    BY <2>1, ArrivingTruthful DEF IInv
<1>4. m \in Node /\ d.from \in Place /\ d.from \in Pool[m] /\ d.dst \in Node
  BY <1>3 DEF HandleDetect, Truthful, Frame
<1>5. <<n, m>> \in heard'
  BY DEF HandleDetect
<1>6. ASSUME d.arg = "e"
      PROVE  <<m, n>> \in heard'
  <2>1. d.to \in Pool[d.dst] /\ <<m, d.dst>> \in heard
    BY <1>3, <1>6 DEF HandleDetect, Truthful
  <2>2. d.to = home[n] /\ home[n] \in Pool[n]
    BY DEF HandleDetect, Takes, Reaches, IInv, AtHome
  <2>3. d.dst = n
    BY <1>4, <2>1, <2>2, NetworkAssumption
  <2> QED
    BY <1>1, <2>1, <2>3
<1>7. answer \in Timely'
  <2>1. home'[n] = home[n] /\ home[n] \in Place /\ home[n] \in Pool[n]
    BY DEF IInv, WorldOK, AtHome
  <2> QED
    BY <1>4, <1>5, <2>1 DEF Detect, Timely, Truthful, Frame
<1> HIDE DEF answer
<1>8. NetworkOK'
  <2>1. <<>> \in Seq(Timely') /\ <<answer>> \in Seq(Timely')
    BY <1>7
  <2> QED
    BY <1>1, <1>2, <2>1, Taken
<1>9. WorkerTypeOK'
  <2>1. known' \in [Node -> [Node -> SUBSET Place]]
    <3>1. known \in [Node -> [Node -> SUBSET Place]]
      BY DEF IInv, WorkerTypeOK
    <3>2. known[n][m] \cup {d.from} \in SUBSET Place
      BY <1>4, <3>1
    <3>3. known' = [known EXCEPT ![n][m] = known[n][m] \cup {d.from}]
      BY DEF HandleDetect
    <3> QED
      BY <1>4, <3>1, <3>2, <3>3, UpdateType
  <2>2. udp_sockaddr' \in [Node -> [Node -> Place \cup {NoPlace}]]
    BY <1>4 DEF HandleDetect, IInv, WorkerTypeOK
  <2>3. udp_addr_status' \in [Node -> [Node -> SUBSET {"PING", "PONG"}]]
    <3> DEFINE v == udp_addr_status[n][m] \cup {Learnt(d.arg)}
    <3>1. udp_addr_status \in [Node -> [Node -> SUBSET {"PING", "PONG"}]]
      BY DEF IInv, WorkerTypeOK
    <3>2. v \in SUBSET {"PING", "PONG"}
      BY <1>4, <3>1 DEF Learnt
    <3>3. udp_addr_status' = [udp_addr_status EXCEPT ![n][m] = v]
      BY DEF HandleDetect
    <3> HIDE DEF v
    <3> QED
      BY <1>4, <3>1, <3>2, <3>3, UpdateType
  <2>4. update_age' \in [Node -> [Node -> 0 .. UPDATE_OVER]]
    <3>1. update_age \in [Node -> [Node -> 0 .. UPDATE_OVER]]
      BY DEF IInv, WorkerTypeOK
    <3>2. 0 \in 0 .. UPDATE_OVER
      BY WorkerAssumption DEF UPDATE_OVER
    <3>3. \/ update_age' = update_age
          \/ update_age' = [update_age EXCEPT ![n][m] = 0]
      BY DEF HandleDetect
    <3>4. [update_age EXCEPT ![n][m] = 0]
            \in [Node -> [Node -> 0 .. UPDATE_OVER]]
      BY <1>4, <3>1, <3>2, UpdateType
    <3> QED
      BY <3>1, <3>3, <3>4
  <2>5. heard' \subseteq Node \X Node
    <3>1. heard \subseteq Node \X Node
      BY DEF IInv, WorkerTypeOK
    <3>2. heard' = heard \cup {<<n, m>>}
      BY DEF HandleDetect
    <3> QED
      BY <1>4, <3>1, <3>2
  <2> QED
    BY <2>1, <2>2, <2>3, <2>4, <2>5 DEF HandleDetect, IInv, WorkerTypeOK
<1>10. OnlyItsOwn'
  BY <1>4 DEF HandleDetect, IInv, WorkerTypeOK, OnlyItsOwn
<1>11. Handshake'
  <2> SUFFICES ASSUME NEW k \in Node, NEW j \in Node,
                      "PONG" \in udp_addr_status'[k][j]
               PROVE  {<<k, j>>, <<j, k>>} \subseteq heard'
    BY DEF Handshake
  <2>1. CASE k = n /\ j = m /\ d.arg = "e"
    BY <1>5, <1>6, <2>1
  <2>2. CASE ~(k = n /\ j = m /\ d.arg = "e")
    <3>1. "PONG" \in udp_addr_status[k][j]
      BY <1>4, <2>2 DEF HandleDetect, Learnt, IInv, WorkerTypeOK
    <3> QED
      BY <1>1, <3>1 DEF IInv, Handshake
  <2> QED
    BY <2>1, <2>2
<1> QED
  BY <1>1, <1>8, <1>9, <1>10, <1>11, WorkerKeeps
-----------------------------------------------------------------------------
(* The network, the clock, and the nodes' fate.                            *)

(* A datagram arrives where nobody is.                                     *)
LEMMA VanishKeeps == IInv /\ Vanish => IInv'
<1> SUFFICES ASSUME IInv, Vanish PROVE IInv'
  OBVIOUS
<1>1. PICK d : Exchange(d, <<>>)
  BY DEF Vanish
<1>2. UNCHANGED <<conf, up, home, table, workvars, faults, moves, gone>>
  BY DEF Vanish
<1>3. WorldOK' /\ heard \subseteq heard'
  BY <1>2, ServiceKeeps
<1>4. NetworkOK'
  <2>1. <<>> \in Seq(Timely')
    OBVIOUS
  <2> QED
    BY <1>1, <1>2, <1>3, <2>1, Taken
<1>5. EntriesOK'
  BY <1>2 DEF IInv, EntriesOK, TrueEntry, TrueAddress
<1> QED
  BY <1>2, <1>4, <1>5, ServiceKeeps

(* A datagram is lost, late or repeated.                                   *)
LEMMA FaultKeeps == IInv /\ NetworkFault => IInv'
<1> SUFFICES ASSUME IInv, NetworkFault PROVE IInv'
  OBVIOUS
<1>1. /\ UNCHANGED <<conf, up, home, table, workvars, moves, gone>>
      /\ faults' \in 0 .. MaxFaults
  BY FaultAssumption DEF NetworkFault, IInv, WorldOK
<1>2. up' \subseteq Node \cup ServiceNode /\ moves' \in 0 .. MaxMoves
  BY <1>1 DEF IInv, WorldOK
<1>3. WorldOK' /\ heard' = heard /\ Timely' = Timely
  BY <1>1, <1>2, NodesStay DEF workvars
<1>4. Head(network) \in Timely /\ Tail(network) \in Seq(Timely)
  <2>1. network # <<>> /\ network \in Seq(Timely)
    BY DEF NetworkFault, Lose, Hold, Repeat, OtherHour, IInv, NetworkOK
  <2> QED
    BY <2>1, HeadTailProperties
<1>5. network' \in Seq(Timely')
  <2>1. CASE Lose \/ Hold \/ Repeat
    BY <1>3, <1>4, <2>1 DEF Lose, Hold, Repeat, IInv, NetworkOK
  <2>2. CASE OtherHour
    <3> DEFINE junk == Junk(Head(network))
    <3>1. /\ Head(network) \in Frame /\ Head(network).type = "POST"
          /\ network' = <<junk>> \o Tail(network)
      BY <1>4, <2>2 DEF OtherHour, Timely, Truthful
    <3>2. junk \in Timely
      BY <3>1 DEF Junk, Timely, Truthful, Frame
    <3> HIDE DEF junk
    <3> QED
      BY <1>3, <1>4, <3>1, <3>2, ConcatProperties
  <2> QED
    BY <2>1, <2>2 DEF NetworkFault
<1>6. ASSUME NEW h \in held'
      PROVE  /\ h \in [frame : Frame, old : BOOLEAN]
             /\ h.frame \in Truthful(IF h.old THEN 1 ELSE 0)
  <2>1. CASE h \in held
    BY <2>1 DEF IInv, NetworkOK
  <2>2. CASE h = [frame |-> Head(network), old |-> FALSE]
    <3>1. Head(network) \in Truthful(0) /\ Head(network) \in Frame
      BY <1>4 DEF Timely, Truthful
    <3> QED
      BY <2>2, <3>1
  <2> QED
    BY <2>1, <2>2 DEF NetworkFault, Lose, Hold, Repeat, OtherHour
<1>7. \A k : Truthful(k)' = Truthful(k)
  BY <1>1, <1>3 DEF Truthful
<1>8. NetworkOK'
  BY <1>5, <1>6, <1>7 DEF NetworkOK
<1>9. EntriesOK'
  BY <1>1 DEF IInv, EntriesOK, TrueEntry, TrueAddress
<1> QED
  BY <1>1, <1>2, <1>8, <1>9, NodesStay

(* A process ends.                                                         *)
LEMMA CrashKeeps ==
  ASSUME IInv, NEW n, Crash(n)
  PROVE  IInv'
<1>1. /\ UNCHANGED <<conf, home, network, held, table, workvars, gone, faults>>
      /\ moves' \in 0 .. MaxMoves /\ up' = up \ {n}
  BY FaultAssumption DEF Crash, Move, IInv, WorldOK
<1>2. up' \subseteq Node \cup ServiceNode /\ faults' \in 0 .. MaxFaults
  BY <1>1 DEF IInv, WorldOK
<1>3. NetworkOK'
  BY <1>1 DEF workvars, IInv, NetworkOK, Timely, Truthful, FreshButOne
<1>4. EntriesOK'
  BY <1>1 DEF IInv, EntriesOK, TrueEntry, TrueAddress
<1> QED
  BY <1>1, <1>2, <1>3, <1>4, NodesStay

(* A process starts, and knows nothing.                                    *)
LEMMA StartKeeps ==
  ASSUME IInv, NEW n \in Node \cup ServiceNode, Start(n)
  PROVE  IInv'
<1>1. /\ UNCHANGED <<conf, home, network, held, faults, moves, gone>>
      /\ up' \subseteq Node \cup ServiceNode
  BY DEF Start, IInv, WorldOK
<1>2. faults' \in 0 .. MaxFaults /\ moves' \in 0 .. MaxMoves
  BY <1>1 DEF IInv, WorldOK
<1>3. heard' = heard
  BY DEF Start, Fresh, workvars
<1>4. NetworkOK'
  BY <1>1, <1>3 DEF IInv, NetworkOK, Timely, Truthful, FreshButOne
<1>5. CASE n \in Node
  <2>1. Fresh(n) /\ UNCHANGED table
    BY <1>5 DEF Start
  <2>2. EntriesOK'
    BY <1>1, <2>1 DEF IInv, EntriesOK, TrueEntry, TrueAddress
  <2>3. WorkerTypeOK'
    <3>1. /\ POST_INTERVAL + 1 \in 0 .. POST_INTERVAL + 1
          /\ REQUEST_INTERVAL \in 0 .. REQUEST_INTERVAL
          /\ 0 \in 0 .. MAX_DETECT /\ UPDATE_OVER \in 0 .. UPDATE_OVER
          /\ INDEX_LIFE \in 0 .. INDEX_LIFE
      BY WorkerAssumption DEF UPDATE_OVER
    <3>2. FirstIndex \in 1 .. Count
      BY NetworkAssumption, EmptySeq, LenProperties DEF Count, FirstIndex
    <3>3. /\ post_age' \in [Node -> 0 .. POST_INTERVAL + 1]
          /\ request_age' \in [Node -> [Node -> 0 .. REQUEST_INTERVAL]]
          /\ detect_count' \in [Node -> [Node -> 0 .. MAX_DETECT]]
      BY <2>1, <3>1 DEF Fresh, IInv, WorkerTypeOK
    <3>4. /\ known' \in [Node -> [Node -> SUBSET Place]]
          /\ udp_addr_status' \in [Node -> [Node -> SUBSET {"PING", "PONG"}]]
      BY <2>1 DEF Fresh, IInv, WorkerTypeOK
    <3>5. /\ udp_sockaddr' \in [Node -> [Node -> Place \cup {NoPlace}]]
          /\ update_age' \in [Node -> [Node -> 0 .. UPDATE_OVER]]
      BY <2>1, <3>1 DEF Fresh, IInv, WorkerTypeOK
    <3>6. /\ index_age' \in [Node -> [1 .. Count -> 0 .. INDEX_LIFE]]
          /\ cur_index' \in [Node -> 1 .. Count]
      BY <2>1, <3>1, <3>2 DEF Fresh, IInv, WorkerTypeOK
    <3>8. index_pong' \in [Node -> SUBSET (1 .. Count)]
      BY <2>1 DEF Fresh, IInv, WorkerTypeOK
    <3>7. ran' \in [Node -> BOOLEAN] /\ todo' \in [Node -> SUBSET Node]
      BY <2>1 DEF Fresh, IInv, WorkerTypeOK
    <3> QED
      BY <1>3, <3>3, <3>4, <3>5, <3>6, <3>7, <3>8 DEF IInv, WorkerTypeOK
  <2>4. OnlyItsOwn'
    BY <2>1 DEF Fresh, IInv, WorkerTypeOK, OnlyItsOwn
  <2>5. Handshake'
    BY <1>3, <2>1 DEF Fresh, IInv, WorkerTypeOK, Handshake
  <2> QED
    BY <1>1, <1>2, <1>4, <2>2, <2>3, <2>4, <2>5 DEF IInv, WorldOK, AtHome
<1>6. CASE n \notin Node
  <2>1. ForgetAll(n) /\ UNCHANGED workvars
    BY <1>6 DEF Start
  <2>2. EntriesOK'
    <3>1. <<>> \in Seq(TrueEntry)
      OBVIOUS
    <3> QED
      BY <1>1, <1>6, <2>1, <3>1, TableStays DEF ForgetAll
  <2> QED
    BY <1>1, <1>2, <1>4, <2>1, <2>2, NodesStay
<1> QED
  BY <1>5, <1>6

(* A node gets another address; the old one was right till now.            *)
LEMMA RoamKeeps ==
  ASSUME IInv, NEW n \in Node, Roam(n)
  PROVE  IInv'
<1>1. PICK p \in Pool[n] : /\ home' = [home EXCEPT ![n] = p]
                           /\ gone' = [gone EXCEPT ![n][p] = 0]
  BY DEF Roam
<1>2. p \in Place
  BY NetworkAssumption
<1>3. /\ gone \in [Node -> [Place -> 0 .. GONE_MAX]]
      /\ GONE_MAX \in Nat
  BY ServiceAssumption DEF IInv, WorldOK, GONE_MAX
<1>4. WorldOK'
  <2>1. gone' \in [Node -> [Place -> 0 .. GONE_MAX]]
    BY <1>1, <1>2, <1>3
  <2>2. moves' \in 0 .. MaxMoves /\ UNCHANGED <<conf, faults, up>>
    BY FaultAssumption DEF Roam, Move, IInv, WorldOK
  <2>3. home' \in [Node -> Place]
    BY <1>1, <1>2 DEF IInv, WorldOK
  <2> QED
    BY <2>1, <2>2, <2>3 DEF IInv, WorldOK
<1>5. ASSUME NEW m \in Node, NEW q \in Place
      PROVE  gone'[m][q] <= gone[m][q]
  BY <1>1, <1>3
<1>6. heard' = heard /\ UNCHANGED <<conf, network, held, table, workvars>>
  BY DEF Roam, workvars
<1>7. /\ Truthful(0) \subseteq Truthful(0)'
      /\ Truthful(1) \subseteq Truthful(1)'
      /\ Timely \subseteq Timely'
      /\ TrueEntry \subseteq TrueEntry'
  BY <1>4, <1>5, <1>6, StaysTrue DEF IInv
<1>8. NetworkOK'
  <2>1. network' \in Seq(Timely')
    BY <1>6, <1>7, SeqMonotonic DEF IInv, NetworkOK
  <2>2. ASSUME NEW h \in held'
        PROVE  h.frame \in Truthful(IF h.old THEN 1 ELSE 0)'
    BY <1>6, <1>7 DEF IInv, NetworkOK
  <2> QED
    BY <1>6, <2>1, <2>2 DEF IInv, NetworkOK
<1>9. EntriesOK'
  <2>1. Seq(TrueEntry) \subseteq Seq(TrueEntry')
    BY <1>7, SeqMonotonic
  <2> QED
    BY <1>6, <2>1 DEF IInv, EntriesOK
<1>10. AtHome'
  BY <1>1, <1>2, <1>3 DEF IInv, AtHome, WorldOK
<1>11. WorkerTypeOK' /\ OnlyItsOwn' /\ Handshake'
  <2>1. UNCHANGED workvars
    BY <1>6
  <2> QED
    BY <2>1 DEF IInv, workvars, WorkerTypeOK, OnlyItsOwn, Handshake
<1> QED
  BY <1>4, <1>8, <1>9, <1>10, <1>11 DEF IInv

(* An entry grows older with its node's absence.                           *)
LEMMA AgedTrue ==
  ASSUME NEW e \in TrueEntry, WorldOK, WorldOK', UNCHANGED conf,
         \A n \in Node, p \in Place : gone'[n][p] <= gone[n][p] + 1
  PROVE  Aged(e) \in TrueEntry'
<1> DEFINE age(i) == Older(e.list[i].age, AGE_MAX)
           list == [i \in 1 .. Len(e.list) |->
                      [addr |-> e.list[i].addr, age |-> age(i)]]
<1>1. /\ e \in Entry /\ e.last_post \in 0 .. AGE_MAX
      /\ e.list \in Seq(Address)
      /\ e.key \in Node => e.list \in Seq(TrueAddress(e.key))
  BY DEF TrueEntry, Entry
<1>2. /\ AGE_MAX \in Nat /\ LIFE_TIME \in Nat /\ LIFE_TIME < AGE_MAX
  BY ServiceAssumption
<1>3. ASSUME NEW i \in 1 .. Len(e.list)
      PROVE  /\ list[i] \in Address
             /\ e.key \in Node => list[i] \in TrueAddress(e.key)'
  <2> DEFINE q == e.list[i]
  <2>0. q \in Address
    BY <1>1, ElementOfSeq
  <2>1. q.addr \in Place /\ q.age \in 0 .. AGE_MAX
    BY <2>0 DEF Address
  <2>2. ASSUME e.key \in Node
        PROVE  q.addr \in Pool[e.key] /\ gone[e.key][q.addr] <= q.age + 1
    BY <1>1, <2>2, ElementOfSeq DEF TrueAddress
  <2> HIDE DEF q
  <2>3. age(i) \in 0 .. AGE_MAX /\ (age(i) = q.age + 1 \/ age(i) = AGE_MAX)
    BY <1>2, <2>1 DEF Older, q
  <2>7. list[i] = [addr |-> q.addr, age |-> age(i)]
    BY DEF q
  <2>8. list[i] \in Address
    <3> HIDE DEF list, age
    <3> QED
      BY <2>1, <2>3, <2>7 DEF Address
  <2>9. ASSUME e.key \in Node
        PROVE  list[i] \in TrueAddress(e.key)'
    <3>4. /\ gone[e.key][q.addr] \in 0 .. GONE_MAX
          /\ gone'[e.key][q.addr] \in 0 .. GONE_MAX
      BY <2>1, <2>9 DEF WorldOK
    <3>5. gone'[e.key][q.addr] <= gone[e.key][q.addr] + 1
      BY <2>1, <2>9
    <3>6. gone'[e.key][q.addr] <= age(i) + 1
      <4>1. gone[e.key][q.addr] <= q.age + 1
        BY <2>2, <2>9
      <4>2. ASSUME NEW then \in 0 .. GONE_MAX, NEW now \in 0 .. GONE_MAX,
                   NEW was \in 0 .. AGE_MAX, NEW is \in 0 .. AGE_MAX,
                   now <= then + 1, then <= was + 1,
                   is = was + 1 \/ is = AGE_MAX
            PROVE  now <= is + 1
        BY <1>2, <4>2 DEF GONE_MAX
      <4> HIDE DEF age
      <4> QED
        BY <2>1, <2>3, <3>4, <3>5, <4>1, <4>2
    <3> HIDE DEF list, age
    <3> QED
      BY <2>2, <2>7, <2>8, <2>9, <3>6 DEF TrueAddress
  <2> QED
    BY <2>8, <2>9
<1>4. Len(e.list) \in Nat
  BY <1>1
<1>5. /\ list \in Seq(Address)
      /\ e.key \in Node => list \in Seq(TrueAddress(e.key)')
  <2>1. list = [i \in 1 .. Len(e.list) |-> list[i]]
    OBVIOUS
  <2> HIDE DEF list
  <2>2. /\ list \in [1 .. Len(e.list) -> Address]
        /\ e.key \in Node => list \in [1 .. Len(e.list) -> TrueAddress(e.key)']
    BY <1>3, <2>1
  <2> QED
    BY <1>4, <2>2
<1>6. Aged(e) = [key |-> e.key, last_post |-> Older(e.last_post, AGE_MAX),
                 list |-> list, wan6 |-> e.wan6]
  BY DEF Aged
<1>7. Older(e.last_post, AGE_MAX) \in 0 .. AGE_MAX
  BY <1>1, <1>2 DEF Older
<1> HIDE DEF list
<1>8. /\ Aged(e) \in Entry /\ Aged(e).key = e.key
      /\ Aged(e).list = list /\ Aged(e).wan6 = e.wan6
  BY <1>1, <1>5, <1>6, <1>7 DEF Entry
<1> QED
  BY <1>5, <1>8 DEF TrueEntry, TrueAddress

(* Everything is a tick older, and the network was empty.                  *)
LEMMA TickKeeps == IInv /\ Tick => IInv'
<1> SUFFICES ASSUME IInv, Tick PROVE IInv'
  OBVIOUS
<1>1. /\ gone \in [Node -> [Place -> 0 .. GONE_MAX]]
      /\ GONE_MAX \in Nat
  BY ServiceAssumption DEF IInv, WorldOK, GONE_MAX
<1>2. /\ UNCHANGED <<conf, up, home, network, faults, moves, heard>>
      /\ network = <<>>
  BY DEF Tick, WorkerTick
<1>3. ASSUME NEW n \in Node, NEW p \in Place
      PROVE  /\ gone'[n][p] \in 0 .. GONE_MAX
             /\ gone'[n][p] <= gone[n][p] + 1
             /\ p = home[n] => gone'[n][p] = 0
  <2>1. gone[n][p] \in 0 .. GONE_MAX
    BY <1>1
  <2>2. gone'[n][p] = IF p = home[n] THEN 0 ELSE Older(gone[n][p], GONE_MAX)
    BY DEF Tick
  <2> QED
    BY <1>1, <2>1, <2>2 DEF Older
<1>4. WorldOK'
  <2>1. gone' = [n \in Node |-> [p \in Place |-> gone'[n][p]]]
    BY DEF Tick
  <2>2. gone' \in [Node -> [Place -> 0 .. GONE_MAX]]
    BY <1>3, <2>1
  <2> QED
    BY <1>2, <2>2 DEF IInv, WorldOK
<1>5. AtHome'
  BY <1>2, <1>3 DEF IInv, AtHome, WorldOK
<1>6. NetworkOK'
  <2>1. network' \in Seq(Timely')
    BY <1>2
  <2>2. ASSUME NEW h \in held, ~h.old
        PROVE  h.frame \in Truthful(1)'
    <3>1. h.frame \in Truthful(0)
      BY <2>2 DEF IInv, NetworkOK
    <3>2. ASSUME h.frame.type \in {"POST", "REQUEST"}
          PROVE  gone'[h.frame.src][h.frame.from] <= 1
      <4> DEFINE f == h.frame
      <4>1. /\ f.src \in Node /\ f.from \in Place
            /\ gone[f.src][f.from] <= 0
        BY <3>1, <3>2 DEF Truthful, Frame
      <4>2. gone[f.src][f.from] \in 0 .. GONE_MAX
        BY <1>1, <4>1
      <4> HIDE DEF f
      <4>3. gone'[f.src][f.from] <= 1
        BY <1>1, <1>3, <4>1, <4>2
      <4> QED
        BY <4>3 DEF f
    <3> QED
      BY <1>2, <3>1, <3>2 DEF Truthful
  <2>3. ASSUME NEW k \in held'
        PROVE  /\ k \in [frame : Frame, old : BOOLEAN]
               /\ k.frame \in Truthful(1)' /\ k.old
    <3>1. PICK h \in held : ~h.old /\ k = [h EXCEPT !.old = TRUE]
      BY DEF Tick
    <3>2. h \in [frame : Frame, old : BOOLEAN]
      BY DEF IInv, NetworkOK
    <3>3. k = [frame |-> h.frame, old |-> TRUE] /\ h.frame \in Frame
      BY <3>1, <3>2
    <3> QED
      BY <2>2, <3>1, <3>3
  <2> QED
    BY <2>1, <2>3 DEF NetworkOK
<1>7. EntriesOK'
  <2>1. ASSUME NEW x \in ServiceNode
        PROVE  table'[x] \in Seq(TrueEntry')
    <3>1. table[x] \in Seq(TrueEntry)
      BY DEF IInv, EntriesOK
    <3>2. table'[x] = [i \in 1 .. Len(table[x]) |-> Aged(table[x][i])]
      BY DEF Tick, ServiceTick
    <3>3. ASSUME NEW i \in 1 .. Len(table[x])
          PROVE  Aged(table[x][i]) \in TrueEntry'
      <4>1. table[x][i] \in TrueEntry
        BY <3>1, ElementOfSeq
      <4> QED
        BY <1>2, <1>3, <1>4, <4>1, AgedTrue DEF IInv
    <3>4. table'[x] \in [1 .. Len(table[x]) -> TrueEntry']
      BY <3>2, <3>3
    <3>5. Len(table[x]) \in Nat
      BY <3>1
    <3> QED
      BY <3>4, <3>5
  <2>2. table' = [x \in ServiceNode |-> table'[x]]
    BY DEF Tick, ServiceTick
  <2> QED
    BY <2>1, <2>2 DEF EntriesOK
<1>8. WorkerTypeOK'
  <2>1. /\ POST_INTERVAL + 1 \in Nat /\ REQUEST_INTERVAL \in Nat
        /\ INDEX_LIFE \in Nat /\ UPDATE_OVER \in Nat
    BY WorkerAssumption DEF UPDATE_OVER
  <2>2. ASSUME NEW limit \in Nat, NEW age \in 0 .. limit
        PROVE  Older(age, limit) \in 0 .. limit
    BY DEF Older
  <2>3. post_age' \in [Node -> 0 .. POST_INTERVAL + 1]
    <3>1. post_age' = [n \in Node |-> Older(post_age[n], POST_INTERVAL + 1)]
      BY DEF Tick, WorkerTick
    <3>2. post_age \in [Node -> 0 .. POST_INTERVAL + 1]
      BY DEF IInv, WorkerTypeOK
    <3> QED
      BY <2>1, <2>2, <3>1, <3>2
  <2>4. request_age' \in [Node -> [Node -> 0 .. REQUEST_INTERVAL]]
    BY <2>1, <2>2 DEF Tick, WorkerTick, IInv, WorkerTypeOK
  <2>5. index_age' \in [Node -> [1 .. Count -> 0 .. INDEX_LIFE]]
    BY <2>1, <2>2 DEF Tick, WorkerTick, IInv, WorkerTypeOK
  <2>6. ASSUME NEW n \in Node, NEW m \in Node
        PROVE  UpdateAge(n, m) \in 0 .. UPDATE_OVER
    <3>1. update_age[n][m] \in 0 .. UPDATE_OVER
      BY DEF IInv, WorkerTypeOK
    <3> QED
      BY <2>1, <2>2, <3>1 DEF UpdateAge
  <2>7. update_age' \in [Node -> [Node -> 0 .. UPDATE_OVER]]
    BY <2>6 DEF Tick, WorkerTick
  <2>8. udp_addr_status' \in [Node -> [Node -> SUBSET {"PING", "PONG"}]]
    BY DEF Tick, WorkerTick, IInv, WorkerTypeOK
  <2>9. ran' \in [Node -> BOOLEAN]
    BY DEF Tick, WorkerTick
  <2>10. index_pong' \in [Node -> SUBSET (1 .. Count)]
    BY DEF Tick, WorkerTick, Answering, IInv, WorkerTypeOK
  <2> QED
    BY <1>2, <2>3, <2>4, <2>5, <2>7, <2>8, <2>9, <2>10
       DEF Tick, WorkerTick, IInv, WorkerTypeOK
<1>9. OnlyItsOwn'
  BY DEF Tick, WorkerTick, IInv, OnlyItsOwn
<1>10. Handshake'
  <2> SUFFICES ASSUME NEW n \in Node, NEW m \in Node,
                      "PONG" \in udp_addr_status'[n][m]
               PROVE  {<<n, m>>, <<m, n>>} \subseteq heard'
    BY DEF Handshake
  <2>1. "PONG" \in udp_addr_status[n][m]
    BY DEF Tick, WorkerTick
  <2> QED
    BY <1>2, <2>1 DEF IInv, Handshake
<1> QED
  BY <1>4, <1>5, <1>6, <1>7, <1>8, <1>9, <1>10 DEF IInv
-----------------------------------------------------------------------------
(* The theorems.                                                           *)

(* Nothing is known and nothing on its way.                                *)
LEMMA InitIInv == Init => IInv
<1> SUFFICES ASSUME Init PROVE IInv
  OBVIOUS
<1>1. GONE_MAX \in Nat /\ LIFE_TIME \in Nat
  BY ServiceAssumption DEF GONE_MAX
<1>2. ASSUME NEW n \in Node
      PROVE  home[n] \in Pool[n] /\ home[n] \in Place
  <2>1. Pool[n] # {} /\ Pool[n] \subseteq Place
    BY NetworkAssumption
  <2>2. home[n] = CHOOSE p \in Pool[n] : TRUE
    BY DEF Init
  <2> QED
    BY <2>1, <2>2
<1>3. WorldOK
  <2>1. home \in [Node -> Place]
    BY <1>2 DEF Init
  <2>2. gone \in [Node -> [Place -> 0 .. GONE_MAX]]
    BY <1>1 DEF Init
  <2>3. faults \in 0 .. MaxFaults /\ moves \in 0 .. MaxMoves
    BY FaultAssumption DEF Init
  <2> QED
    BY <2>1, <2>2, <2>3 DEF Init, WorldOK
<1>4. AtHome
  BY <1>2 DEF Init, AtHome
<1>5. WorkerTypeOK
  <2>1. /\ POST_INTERVAL + 1 \in 0 .. POST_INTERVAL + 1
        /\ REQUEST_INTERVAL \in 0 .. REQUEST_INTERVAL
        /\ 0 \in 0 .. MAX_DETECT /\ UPDATE_OVER \in 0 .. UPDATE_OVER
        /\ INDEX_LIFE \in 0 .. INDEX_LIFE
    BY WorkerAssumption DEF UPDATE_OVER
  <2>2. FirstIndex \in 1 .. Count
    BY NetworkAssumption, EmptySeq, LenProperties DEF Count, FirstIndex
  <2> QED
    BY <2>1, <2>2 DEF Init, WorkerInit, WorkerTypeOK
<1>6. NetworkOK
  BY DEF Init, NetworkOK
<1>7. EntriesOK
  BY DEF Init, ServiceInit, EntriesOK
<1>8. OnlyItsOwn /\ Handshake
  BY DEF Init, WorkerInit, OnlyItsOwn, Handshake
<1> QED
  BY <1>3, <1>4, <1>5, <1>6, <1>7, <1>8 DEF IInv

(* Nothing happens.                                                        *)
LEMMA StutterIInv == IInv /\ UNCHANGED vars => IInv'
<1> SUFFICES ASSUME IInv, UNCHANGED vars PROVE IInv'
  OBVIOUS
<1>1. UNCHANGED <<conf, up, home, network, held, table, workvars, faults, moves,
                  gone>>
  BY DEF vars, netvars
<1>2. NetworkOK'
  BY <1>1 DEF workvars, IInv, NetworkOK, Timely, Truthful, FreshButOne
<1>3. EntriesOK'
  BY <1>1 DEF IInv, EntriesOK, TrueEntry, TrueAddress
<1> QED
  BY <1>1, <1>2, <1>3, ServiceKeeps

(* Every step keeps the invariant.                                         *)
LEMMA NextIInv == IInv /\ [Next]_vars => IInv'
<1> SUFFICES ASSUME IInv, [Next]_vars PROVE IInv'
  OBVIOUS
<1>1. CASE ServiceStep
  BY <1>1, PostKeeps, RequestKeeps, JunkKeeps DEF ServiceStep
<1>2. CASE WorkerStep
  BY <1>2, PushKeeps, EchoKeeps, DetectKeeps, LoopKeeps, SyncKeeps
     DEF WorkerStep, Loop, SyncPeer
<1>3. CASE Vanish
  BY <1>3, VanishKeeps
<1>4. CASE Tick
  BY <1>4, TickKeeps
<1>5. CASE NetworkFault
  BY <1>5, FaultKeeps
<1>6. CASE \E n \in Node : Roam(n)
  BY <1>6, RoamKeeps
<1>7. CASE \E n \in Node \cup ServiceNode : Crash(n) \/ Start(n)
  BY <1>7, CrashKeeps, StartKeeps
<1>8. CASE UNCHANGED vars
  BY <1>8, StutterIInv
<1> QED
  BY <1>1, <1>2, <1>3, <1>4, <1>5, <1>6, <1>7, <1>8
     DEF Next, Progress, Disturb

(* The invariant holds in every reachable state.                           *)
LEMMA Inductive == Spec => []IInv
<1> QED
  BY InitIInv, NextIInv, PTL DEF Spec

(* Whatever is sent, lost, repeated or late, the variables keep types.     *)
THEOREM TypeCorrect == Spec => []TypeOK
<1>1. IInv => TypeOK
  BY IInvImplies
<1> QED
  BY <1>1, Inductive, PTL

(* A node keeps no address for a peer that is another node's: not through  *)
(* an index node's table nor through a probe (gnb_index_worker.c).         *)
THEOREM OwnAddresses == Spec => []OnlyItsOwn
<1>1. IInv => OnlyItsOwn
  BY DEF IInv
<1> QED
  BY <1>1, Inductive, PTL

(* An index node hands out no address that its node left longer ago than   *)
(* the life time of addresses, but for one that the node gave as its own   *)
(* (send_push_addr_frame).                                                 *)
THEOREM FreshPushes == Spec => []PushIsFresh
<1>1. IInv => PushIsFresh
  BY IInvImplies
<1> QED
  BY <1>1, Inductive, PTL

(* PONG means that each of the two has accepted a frame of the other       *)
(* (handle_detect_addr_frame).                                             *)
THEOREM PongMeansBothWays == Spec => []Handshake
<1>1. IInv => Handshake
  BY DEF IInv
<1> QED
  BY <1>1, Inductive, PTL
=============================================================================
