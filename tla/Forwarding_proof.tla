-------------------------- MODULE Forwarding_proof --------------------------
(***************************************************************************)
(* For any configurations, numbers of packets and faults: the variables    *)
(* keep their types, no frame is sent more than MaxTtl times, whoever gets *)
(* a frame of a relay route can read it, what is written to a TUN device   *)
(* is in clear, and the relay a node answers through is the last one the   *)
(* other node's packets came from.                                         *)
(***************************************************************************)
EXTENDS Forwarding, TLAPS, FiniteSetTheorems, SequenceTheorems

-----------------------------------------------------------------------------
(* Least and greatest numbers, and sequences.                              *)

LEMMA LeastExists ==
  ASSUME NEW S \in SUBSET Nat, S # {}
  PROVE  \E x \in S : \A y \in S : x <= y
<1> DEFINE T == {1 .. x : x \in S}
<1>1. T \subseteq FiniteSubsetsOf(Nat)
  BY FS_Interval DEF FiniteSubsetsOf
<1>2. T # {}
  OBVIOUS
<1>3. PICK t \in T : \A u \in T : <<u, t>> \notin StrictSubsetOrdering(Nat)
  <2> HIDE DEF T
  <2> QED
    BY <1>1, <1>2, FS_StrictSubsetOrderingWellFounded, WFMin
<1>4. PICK x \in S : t = 1 .. x
  BY <1>3
<1>5. ASSUME NEW y \in S, y < x
      PROVE  FALSE
  <2>1. 1 .. y \in T
    OBVIOUS
  <2>2. 1 .. y \subseteq 1 .. x /\ x \in 1 .. x /\ x \notin 1 .. y
    BY <1>5
  <2>3. <<1 .. y, 1 .. x>> \in StrictSubsetOrdering(Nat)
    BY <2>2 DEF StrictSubsetOrdering
  <2> QED
    BY <1>3, <1>4, <2>1, <2>3
<1> QED
  BY <1>4, <1>5

LEMMA MinIsIn ==
  ASSUME NEW S \in SUBSET Nat, S # {}
  PROVE  Min(S) \in S /\ \A y \in S : Min(S) <= y
BY LeastExists DEF Min

LEMMA MaxOfTwo ==
  ASSUME NEW x \in Nat, NEW y \in Nat
  PROVE  Max({x, y}) \in Nat
<1>1. \E m \in {x, y} : \A k \in {x, y} : m >= k
  BY x >= y \/ y >= x
<1> QED
  BY <1>1 DEF Max

LEMMA MaxIsIn ==
  ASSUME NEW k \in Nat, NEW S \in SUBSET (1 .. k), S # {}
  PROVE  Max(S) \in S
<1> DEFINE T == {k - x : x \in S}
<1>1. T \in SUBSET Nat /\ T # {}
  OBVIOUS
<1>2. PICK t \in T : \A u \in T : t <= u
  <2> HIDE DEF T
  <2> QED
    BY <1>1, LeastExists
<1>3. PICK x \in S : t = k - x
  BY <1>2
<1>4. ASSUME NEW y \in S
      PROVE  x >= y
  <2>1. k - x <= k - y
    BY <1>2, <1>3
  <2>2. x \in Int /\ y \in Int
    OBVIOUS
  <2> HIDE DEF T
  <2> QED
    BY <2>1, <2>2
<1> QED
  BY <1>3, <1>4 DEF Max

-----------------------------------------------------------------------------
(* The configuration.                                                      *)

USE DEF netvars, ufvars, pfvars

LEMMA Config ==
  ASSUME conf \in DOMAIN Conf
  PROVE  Cf \in ConfType
BY ConfAssumption, LenProperties DEF Cf

LEMMA CfNode ==
  ASSUME conf \in DOMAIN Conf, NEW n \in Node
  PROVE  /\ Cf.uuid_node_map[n] \subseteq Node
         /\ Cf.fwd_node_ring[n] \in Seq(Node)
         /\ Cf.clock[n] \in Nat
         /\ Cf.first_link \in [Node -> [Node -> Links]]
BY Config DEF ConfType

LEMMA CfRoute ==
  ASSUME conf \in DOMAIN Conf, NEW n \in Node, NEW d \in Node
  PROVE  /\ Cf.route_node[n][d] \in Seq(Seq(Node))
         /\ Len(Cf.route_node[n][d]) <= MaxRoute
         /\ \A k \in 1 .. Len(Cf.route_node[n][d]) :
               /\ Cf.route_node[n][d][k] \in Seq(Node)
               /\ Cf.route_node[n][d][k] # <<>>
<1>1. Cf.route_node[n][d] \in Seq(Seq(Node))
  BY Config DEF ConfType
<1>2. Cf \in Range(Conf)
  BY DEF Range, Cf
<1>3. Len(Cf.route_node[n][d]) <= MaxRoute
  BY <1>2, LimitAssumption
<1>4. \A k \in 1 .. Len(Cf.route_node[n][d]) : Cf.route_node[n][d][k] # <<>>
  BY <1>2, ConfAssumption
<1>5. \A k \in 1 .. Len(Cf.route_node[n][d]) : Cf.route_node[n][d][k] \in Seq(Node)
  BY <1>1, ElementOfSeq
<1> QED
  BY <1>1, <1>3, <1>4, <1>5

LEMMA ConfStays ==
  ASSUME conf' = conf, NEW n, NEW m
  PROVE  /\ Cf' = Cf /\ Layer(n, m)' = Layer(n, m)
         /\ Knows(n, m)' = Knows(n, m)
BY DEF Cf, Layer, Knows

-----------------------------------------------------------------------------
(* The invariant.                                                          *)

FT == FrameType(Node \cup {None, Junk})

(* Full(f, R) is the list of relays the source has put on it.              *)
Full(f, R) == Append(R, f.src)

RelayAs(f, R) ==
  /\ f.ttl \in 1 .. Len(R) + 1 /\ Len(f.ids) = f.ttl
  /\ \A i \in 1 .. f.ttl : f.ids[i] = Full(f, R)[i]
  /\ Len(f.path) = Len(R) + 2 - f.ttl
  /\ \A i \in 1 .. Len(f.path) : f.path[i] = Full(f, R)[Len(R) + 2 - i]
  /\ f.to = IF f.ttl = 1 THEN f.dst ELSE f.ids[f.ttl - 1]
  /\ f.outer = Layer(f.ids[f.ttl], f.to)
  /\ Len(f.path) = 1 \/ Len(R) < MaxTtl

OnItsRoute(f) ==
  /\ f.sub \subseteq {"std", "relay"}
  /\ \E k \in 1 .. Len(Cf.route_node[f.src][f.dst]) :
       RelayAs(f, Cf.route_node[f.src][f.dst][k])

(* Frames of unified forwarding keep their time to live.                   *)
OnItsOwn(f) ==
  /\ f.outer = {} /\ f.ttl >= 1
  /\ IF f.sub \in {{"unified"}, {"multi_path"}}
     THEN Len(f.path) = 1 \/ (Len(f.path) = 2 /\ f.to = f.dst)
     ELSE Len(f.path) >= 1 /\ Len(f.path) + f.ttl <= MaxTtl + 1

Good(f) ==
  /\ f \in FT
  /\ f.inner = Layer(f.src, f.dst)
  /\ IF IsRelay(f) THEN OnItsRoute(f) ELSE OnItsOwn(f)

FInv == TypeOK /\ (\A f \in net : Good(f)) /\ InClear /\ AnswersTheSameWay

LEMMA GoodStays ==
  ASSUME conf' = conf, NEW f, Good(f)
  PROVE  Good(f)'
BY ConfStays DEF Good, OnItsRoute, OnItsOwn, RelayAs, IsRelay, FT, Full

-----------------------------------------------------------------------------
(* Helpers of the model.                                                   *)

LEMMA SelectType ==
  ASSUME conf \in DOMAIN Conf, NEW n \in Node
  PROVE  SelectForwardNode(n) \in Node \cup {None}
<1> DEFINE ring == Cf.fwd_node_ring[n]
           live == {i \in 1 .. Len(ring) : Live(n, ring[i])}
<1>1. ring \in Seq(Node)
  BY CfNode
<1>2. \A i \in 1 .. Len(ring) : ring[i] \in Node
  BY <1>1, ElementOfSeq
<1>3. live # {} => Min(live) \in 1 .. Len(ring)
  <2>1. live \in SUBSET Nat /\ live \subseteq 1 .. Len(ring)
    OBVIOUS
  <2> HIDE DEF live
  <2> QED
    BY <2>1, MinIsIn
<1>4. ring # <<>> => 1 \in 1 .. Len(ring)
  BY <1>1, EmptySeq
<1> HIDE DEF live
<1>5. live \subseteq 1 .. Len(ring)
  BY DEF live
<1> HIDE DEF ring
<1>6. SelectForwardNode(n) =
        CASE ring = <<>> -> None
          [] n \in Cf.load_balance /\ fwd_cur[n] \in live -> ring[fwd_cur[n]]
          [] n \notin Cf.load_balance /\ live # {} -> ring[Min(live)]
          [] OTHER -> ring[1]
  BY DEF SelectForwardNode, ring, live
<1> QED
  BY <1>2, <1>3, <1>4, <1>5, <1>6

LEMMA AdvanceType ==
  ASSUME NEW n \in Node, fwd_cur \in [Node -> Nat], AdvanceRing(n)
  PROVE  fwd_cur' \in [Node -> Nat]
BY DEF AdvanceRing

LEMMA SentFields ==
  ASSUME NEW f \in FT, NEW n \in Node, NEW m \in Node
  PROVE  LET g == Sent(n, m, f)
         IN /\ g \in FT
            /\ g.id = f.id /\ g.src = f.src /\ g.dst = f.dst /\ g.ttl = f.ttl
            /\ g.sub = f.sub /\ g.ids = f.ids /\ g.foot = f.foot
            /\ g.inner = f.inner /\ g.outer = f.outer
            /\ g.to = m /\ g.path = Append(f.path, n)
            /\ Len(g.path) = Len(f.path) + 1
<1>1. f.path \in Seq(Node)
  BY DEF FT, FrameType
<1>2. Append(f.path, n) \in Seq(Node) /\ Len(Append(f.path, n)) = Len(f.path) + 1
  BY <1>1, AppendProperties
<1> QED
  BY <1>2 DEF FT, FrameType, Sent

(* A frame its source has made and sent on.                                *)
Unsent(f, n, d) ==
  /\ f \in FT /\ f.src = n /\ f.dst = d /\ f.ttl = MaxTtl
  /\ f.sub \subseteq {"std"} /\ f.outer = {} /\ f.inner = Layer(n, d)
  /\ Len(f.path) = 0
Fresh(f, n, d) ==
  /\ f \in FT /\ f.src = n /\ f.dst = d /\ f.ttl = MaxTtl
  /\ "relay" \notin f.sub /\ f.outer = {} /\ f.inner = Layer(n, d)
  /\ Len(f.path) = 1

LEMMA FreshIsGood ==
  ASSUME NEW n \in Node, NEW d \in Node, NEW f, Fresh(f, n, d)
  PROVE  Good(f)
BY LimitAssumption DEF Fresh, Good, OnItsOwn, IsRelay

LEMMA SentFresh ==
  ASSUME NEW n \in Node, NEW d \in Node, NEW m \in Node, NEW f, Unsent(f, n, d),
         NEW s \in {"unified", "multi_path"},
         NEW foot \in [uf : Node \cup {None, Junk}, seq : Nat]
  PROVE  /\ Fresh(Sent(n, m, f), n, d)
         /\ Fresh(Sent(n, m, [f EXCEPT !.sub = @ \cup {s}, !.foot = foot]), n, d)
<1> DEFINE g == [f EXCEPT !.sub = @ \cup {s}, !.foot = foot]
<1>1. g \in FT
  BY DEF Unsent, FT, FrameType, SubTypes
<1>2. /\ g.src = n /\ g.dst = d /\ g.ttl = MaxTtl /\ "relay" \notin g.sub
      /\ g.outer = {} /\ g.inner = Layer(n, d) /\ Len(g.path) = 0
  BY DEF Unsent, FT, FrameType
<1> HIDE DEF g
<1>3. Fresh(Sent(n, m, g), n, d)
  <2> DEFINE h == Sent(n, m, g)
  <2>1. /\ h \in FT /\ h.src = g.src /\ h.dst = g.dst /\ h.ttl = g.ttl
        /\ h.sub = g.sub /\ h.inner = g.inner /\ h.outer = g.outer
        /\ Len(h.path) = Len(g.path) + 1
    BY <1>1, SentFields
  <2> HIDE DEF h
  <2>2. Fresh(h, n, d)
    BY <1>2, <2>1 DEF Fresh
  <2> QED
    BY <2>2 DEF h
<1>4. Fresh(Sent(n, m, f), n, d)
  <2> DEFINE h == Sent(n, m, f)
  <2>1. /\ h \in FT /\ h.src = f.src /\ h.dst = f.dst /\ h.ttl = f.ttl
        /\ h.sub = f.sub /\ h.inner = f.inner /\ h.outer = f.outer
        /\ Len(h.path) = Len(f.path) + 1
    <3>1. f \in FT
      BY DEF Unsent
    <3> QED
      BY <3>1, SentFields
  <2> HIDE DEF h
  <2>2. Fresh(h, n, d)
    BY <2>1 DEF Fresh, Unsent
  <2> QED
    BY <2>2 DEF h
<1> QED
  BY <1>3, <1>4 DEF g

LEMMA PacketUnsent ==
  ASSUME NEW n \in Node, NEW d \in Node, sent \in Nat, NEW sub \in SUBSET {"std"},
         conf \in DOMAIN Conf
  PROVE  Unsent([Packet(n, d) EXCEPT !.sub = sub], n, d)
<1>1. Layer(n, d) \in SUBSET SUBSET Node
  BY DEF Layer
<1>2. <<>> \in Seq(Node) /\ Len(<<>>) = 0
  BY EmptySeq
<1> DEFINE p == Packet(n, d)
<1>3. p \in FT
  BY <1>1, <1>2, LimitAssumption DEF Packet, FT, FrameType, SubTypes
<1>4. /\ p.src = n /\ p.dst = d /\ p.ttl = MaxTtl /\ p.outer = {}
      /\ p.inner = Layer(n, d) /\ p.path = <<>>
  BY DEF Packet
<1> HIDE DEF p
<1>5. Unsent([p EXCEPT !.sub = sub], n, d)
  BY <1>2, <1>3, <1>4 DEF Unsent, FT, FrameType, SubTypes
<1> QED
  BY <1>5 DEF p

-----------------------------------------------------------------------------
(* From the TUN device.                                                    *)

LEMMA PutPut ==
  ASSUME NEW S, NEW F \in [Node -> [Node -> S]], NEW x \in S,
         NEW n \in Node, NEW d \in Node
  PROVE  [F EXCEPT ![n][d] = x] \in [Node -> [Node -> S]]
OBVIOUS

LEMMA SetupType ==
  ASSUME UfType, NEW n \in Node, NEW d \in Node
  PROVE  SetupNodeid(n, d) \subseteq Node \cup {None, Junk}
<1>1. 1 \in 1 .. ArraySize
  BY SizeAssumption
<1>2. /\ uf_nodeid[n][d] \in Node \cup {None, Junk}
      /\ \A i \in 1 .. ArraySize : uf_array[n][d][i].uuid64 \in Node \cup {None}
  <2>1. uf_array[n][d] \in [1 .. ArraySize -> Slot]
    BY DEF UfType
  <2>2. \A i \in 1 .. ArraySize : uf_array[n][d][i] \in Slot
    BY <2>1
  <2> QED
    BY <2>2 DEF UfType, Slot
<1>3. Candidates(n, d) \subseteq Node \cup {None}
  BY <1>1, <1>2 DEF Candidates
<1> QED
  BY <1>2, <1>3 DEF SetupNodeid

LEMMA NextSeqType ==
  ASSUME UfType, conf \in DOMAIN Conf, NEW n \in Node, NEW d \in Node
  PROVE  NextSeq(n, d) \in Nat
<1>1. send_seq[n][d] \in Nat /\ Cf.clock[n] \in Nat
  BY CfNode DEF UfType
<1> QED
  BY <1>1, MaxOfTwo DEF NextSeq

(* What a step of the TUN side leaves of the variables of unified          *)
(* forwarding, and of the network.                                         *)
Made(n, d) ==
  /\ uf_nodeid' \in [Node -> [Node -> Node \cup {None, Junk}]]
  /\ uf_recent' \in [Node -> [Node -> BOOLEAN]]
  /\ send_seq' \in [Node -> [Node -> Nat]]
  /\ \A g \in net' : g \in net \/ Fresh(g, n, d)

LEMMA UnifiedTunMakes ==
  ASSUME TypeOK, NEW n \in Node, NEW d \in Node, NEW uf, NEW f,
         Unsent(f, n, d), UnifiedTun(n, d, uf, f)
  PROVE  Made(n, d)
<1> DEFINE g == Sent(n, uf, [f EXCEPT !.sub = @ \cup {"unified"},
                                !.foot = [uf |-> uf, seq |-> NextSeq(n, d)]])
<1>1. conf \in DOMAIN Conf /\ UfType
  BY DEF TypeOK
<1>2. uf \in Node \cup {None, Junk}
  BY <1>1, SetupType DEF UnifiedTun
<1>3. NextSeq(n, d) \in Nat
  BY <1>1, NextSeqType
<1>4. Knows(n, uf) => uf \in Node
  BY <1>1, CfNode DEF Knows
<1>5. Knows(n, uf) => Fresh(g, n, d)
  <2> DEFINE ft == [uf |-> uf, seq |-> NextSeq(n, d)]
  <2>1. ft \in [uf : Node \cup {None, Junk}, seq : Nat]
    BY <1>2, <1>3
  <2> HIDE DEF ft
  <2>2. Knows(n, uf) => Fresh(Sent(n, uf, [f EXCEPT !.sub = @ \cup {"unified"},
                                             !.foot = ft]), n, d)
    BY <1>4, <2>1, SentFresh
  <2> QED
    BY <2>2 DEF ft
<1> HIDE DEF g
<1>6. /\ uf_nodeid' = [uf_nodeid EXCEPT ![n][d] = uf]
      /\ Knows(n, uf) => /\ net' = net \cup {g}
                         /\ send_seq' = [send_seq EXCEPT ![n][d] = NextSeq(n, d)]
                         /\ uf_recent' = [uf_recent EXCEPT ![n][d] = TRUE]
      /\ ~Knows(n, uf) => /\ UNCHANGED <<net, send_seq>>
                          /\ uf_recent' = [uf_recent EXCEPT ![n][d] = ~Keeps(n, d)]
  BY DEF UnifiedTun, g
<1>7. uf_nodeid' \in [Node -> [Node -> Node \cup {None, Junk}]]
  BY <1>1, <1>2, <1>6 DEF UfType
<1>8. send_seq' \in [Node -> [Node -> Nat]]
  <2>1. send_seq \in [Node -> [Node -> Nat]]
    BY <1>1 DEF UfType
  <2> QED
    BY <1>3, <1>6, <2>1
<1>9. uf_recent' \in [Node -> [Node -> BOOLEAN]]
  <2>1. uf_recent \in [Node -> [Node -> BOOLEAN]]
    BY <1>1 DEF UfType
  <2>2. Keeps(n, d) \in BOOLEAN
    BY DEF Keeps
  <2>3. PICK b \in BOOLEAN : uf_recent' = [uf_recent EXCEPT ![n][d] = b]
    BY <1>6, <2>2
  <2> QED
    BY <2>1, <2>3
<1> QED
  BY <1>5, <1>6, <1>7, <1>8, <1>9 DEF Made

LEMMA MultiPathTunMakes ==
  ASSUME TypeOK, NEW n \in Node, NEW d \in Node, NEW f,
         Unsent(f, n, d), MultiPathTun(n, d, f)
  PROVE  Made(n, d)
<1> DEFINE usable == {i \in 1 .. ArraySize :
                        /\ uf_array[n][d][i].live
                        /\ Knows(n, uf_array[n][d][i].uuid64)}
           used == {i \in usable : Cardinality({j \in usable : j < i}) < MostPaths}
           Copy(uf, to) ==
             Sent(n, to, [f EXCEPT !.sub = @ \cup {"multi_path"},
                            !.foot = [uf |-> uf, seq |-> NextSeq(n, d)]])
           copies == {Copy(uf_array[n][d][i].uuid64, uf_array[n][d][i].uuid64) :
                        i \in used}
<1>1. conf \in DOMAIN Conf /\ UfType
  BY DEF TypeOK
<1>2. NextSeq(n, d) \in Nat
  BY <1>1, NextSeqType
<1>3. \A i \in used : i \in 1 .. ArraySize /\ uf_array[n][d][i].uuid64 \in Node
  BY <1>1, CfNode DEF Knows
<1>4. ASSUME NEW uf \in Node \cup {None, Junk}, NEW to \in Node
      PROVE  Fresh(Copy(uf, to), n, d)
  <2> DEFINE ft == [uf |-> uf, seq |-> NextSeq(n, d)]
  <2>1. ft \in [uf : Node \cup {None, Junk}, seq : Nat]
    BY <1>2
  <2> HIDE DEF ft
  <2>2. Fresh(Sent(n, to, [f EXCEPT !.sub = @ \cup {"multi_path"}, !.foot = ft]), n, d)
    BY <2>1, SentFresh
  <2> QED
    BY <2>2 DEF ft
<1>5. PICK held \in {uf_nodeid[n][m] : m \in Node} \cup {Junk} :
       net' = net \cup {Copy(held, d)} \cup copies
  BY DEF MultiPathTun
<1>6. /\ send_seq' = [send_seq EXCEPT ![n][d] = NextSeq(n, d)]
      /\ uf_nodeid' = [uf_nodeid EXCEPT ![n][d] =
                         IF used = {} THEN @ ELSE uf_array[n][d][Max(used)].uuid64]
      /\ uf_recent' = [uf_recent EXCEPT ![n][d] = TRUE]
  BY DEF MultiPathTun
<1>7. used # {} => Max(used) \in used
  <2>1. used \in SUBSET (1 .. ArraySize)
    OBVIOUS
  <2> HIDE DEF used
  <2> QED
    BY <2>1, SizeAssumption, MaxIsIn
<1> HIDE DEF used
<1>8. held \in Node \cup {None, Junk}
  BY <1>1 DEF UfType
<1>9. ASSUME NEW g \in net' PROVE g \in net \/ Fresh(g, n, d)
  <2> HIDE DEF Copy
  <2> QED
    BY <1>3, <1>4, <1>5, <1>8
<1> HIDE DEF Copy, copies, usable
<1>10. uf_nodeid' \in [Node -> [Node -> Node \cup {None, Junk}]]
  BY <1>1, <1>3, <1>6, <1>7 DEF UfType
<1>11. send_seq' \in [Node -> [Node -> Nat]]
  <2>1. send_seq \in [Node -> [Node -> Nat]]
    BY <1>1 DEF UfType
  <2> QED
    BY <1>2, <1>6, <2>1
<1>12. uf_recent' \in [Node -> [Node -> BOOLEAN]]
  <2>1. uf_recent \in [Node -> [Node -> BOOLEAN]]
    BY <1>1 DEF UfType
  <2> QED
    BY <1>6, <2>1
<1> QED
  BY <1>9, <1>10, <1>11, <1>12 DEF Made

LEMMA WayType ==
  ASSUME TypeOK, NEW n \in Node, NEW d \in Node
  PROVE  /\ FirstChoice(n, d).fwd \in Node \cup {None}
         /\ FirstChoice(n, d).sub \in SUBSET {"std"}
<1>1. SelectForwardNode(n) \in Node \cup {None}
  BY SelectType DEF TypeOK
<1> QED
  BY <1>1 DEF FirstChoice, Way

LEMMA TunForwardMakes ==
  ASSUME TypeOK, NEW n \in Node, NEW d \in Node, NEW way, NEW proto,
         way.fwd \in Node \cup {None}, way.sub \in SUBSET {"std"},
         TunForward(n, d, way, proto)
  PROVE  Made(n, d) /\ UNCHANGED <<uf_array, recv_seq, notes>>
<1> DEFINE f == [Packet(n, d) EXCEPT !.sub = way.sub]
<1>1. conf \in DOMAIN Conf /\ UfType /\ sent \in Nat
  BY DEF TypeOK, PfType
<1>2. Unsent(f, n, d)
  BY <1>1, PacketUnsent
<1> HIDE DEF f
<1>3. \A m \in Node : Fresh(Sent(n, m, f), n, d)
  <2>1. [uf |-> None, seq |-> 0] \in [uf : Node \cup {None, Junk}, seq : Nat]
    OBVIOUS
  <2> QED
    BY <1>2, <2>1, SentFresh
<1>4. UNCHANGED <<net, uf_nodeid, uf_recent, send_seq>> => Made(n, d)
  BY <1>1 DEF Made, UfType
<1>5. ASSUME NEW uf \in SetupNodeid(n, d),
             net' = net \cup {Sent(n, d, f)},
             uf_nodeid' = [uf_nodeid EXCEPT ![n][d] = uf],
             uf_recent' = [uf_recent EXCEPT ![n][d] = ~Keeps(n, d)],
             UNCHANGED send_seq
      PROVE  Made(n, d)
  <2>1. uf \in Node \cup {None, Junk}
    BY <1>1, SetupType
  <2>2. uf_nodeid' \in [Node -> [Node -> Node \cup {None, Junk}]]
    BY <1>1, <1>5, <2>1, PutPut DEF UfType
  <2>3. uf_recent' \in [Node -> [Node -> BOOLEAN]]
    BY <1>1, <1>5, PutPut DEF UfType, Keeps
  <2>4. send_seq' \in [Node -> [Node -> Nat]]
    BY <1>1, <1>5 DEF UfType
  <2>5. \A g \in net' : g \in net \/ Fresh(g, n, d)
    BY <1>3, <1>5
  <2> QED
    BY <2>2, <2>3, <2>4, <2>5 DEF Made
<1>6. ASSUME net' = IF way.fwd = None THEN net ELSE net \cup {Sent(n, way.fwd, f)},
             UNCHANGED <<uf_nodeid, uf_recent, send_seq>>
      PROVE  Made(n, d)
  BY <1>1, <1>3, <1>6 DEF Made, UfType
<1>7. UNCHANGED <<uf_array, recv_seq, notes>>
  BY DEF TunForward
<1>8. \/ UNCHANGED <<net, uf_nodeid, uf_recent, send_seq>>
      \/ \E uf \in Node \cup {None, Junk} : UnifiedTun(n, d, uf, f)
      \/ \E uf \in SetupNodeid(n, d) :
           \/ UnifiedTun(n, d, uf, f)
           \/ /\ net' = net \cup {Sent(n, d, f)}
              /\ uf_nodeid' = [uf_nodeid EXCEPT ![n][d] = uf]
              /\ uf_recent' = [uf_recent EXCEPT ![n][d] = ~Keeps(n, d)]
              /\ UNCHANGED send_seq
      \/ MultiPathTun(n, d, f)
      \/ /\ net' = IF way.fwd = None THEN net ELSE net \cup {Sent(n, way.fwd, f)}
         /\ UNCHANGED <<uf_nodeid, uf_recent, send_seq>>
  BY Zenon DEF TunForward, f
<1> QED
  BY <1>2, <1>4, <1>5, <1>6, <1>7, <1>8, UnifiedTunMakes, MultiPathTunMakes

(* A relay route as the source starts it.                                  *)
LEMMA TunRelayMakes ==
  ASSUME TypeOK, NEW n \in Node, NEW d \in Node,
         Relays(n, d, FirstChoice(n, d).ret), TunRelay(n, d), conf' = conf
  PROVE  /\ \A g \in net' : g \in net \/ Good(g)
         /\ selected_route' \in [Node -> [Node -> 0 .. MaxRoute]]
<1> DEFINE routes == Cf.route_node[n][d]
           at == selected_route[n][d]
<1>1. conf \in DOMAIN Conf /\ sent \in Nat /\ at \in 0 .. MaxRoute
      /\ selected_route \in [Node -> [Node -> 0 .. MaxRoute]]
  BY DEF TypeOK, PfType
<1>2. routes \in Seq(Seq(Node)) /\ Len(routes) \in Nat /\ Len(routes) <= MaxRoute
      /\ \A k \in 1 .. Len(routes) : routes[k] \in Seq(Node) /\ routes[k] # <<>>
  BY <1>1, CfRoute, LenProperties
<1>3. MaxRoute \in Nat /\ MaxRelay \in Nat /\ MaxRelay < MaxRoute /\ MaxTtl \in Nat
  BY LimitAssumption
<1>4. at < Len(routes)
  BY <1>1, <1>2, <1>3 DEF Relays, RelayCount
<1>5. PICK k \in 1 .. Len(routes) : Route(n, d) = routes[k]
  <2>1. 1 \in 1 .. Len(routes) /\ at + 1 \in 1 .. Len(routes)
    BY <1>1, <1>2, <1>4
  <2>2. Route(n, d) = routes[1] \/ Route(n, d) = routes[at + 1]
    BY DEF Route
  <2> QED
    BY <2>1, <2>2
<1> DEFINE R == routes[k]
<1>6. R \in Seq(Node) /\ Len(R) \in Nat /\ Len(R) >= 1
  BY <1>2, <1>5, EmptySeq, LenProperties
<1> HIDE DEF R
<1> DEFINE hop == R[Len(R)]
           ids == Append(R, n)
           sub == FirstChoice(n, d).sub
           f == [Packet(n, d) EXCEPT !.sub = sub \cup {"relay"}, !.ids = ids,
                   !.ttl = Len(R) + 1, !.outer = Layer(n, hop)]
           g == Sent(n, hop, f)
<1>7. hop \in Node
  BY <1>6, ElementOfSeq
<1>8. /\ ids \in Seq(Node) /\ Len(ids) = Len(R) + 1
      /\ \A i \in 1 .. Len(R) : ids[i] = R[i]
      /\ ids[Len(R) + 1] = n
  BY <1>6, AppendProperties
<1>9. sub \in SUBSET {"std"}
  BY WayType
<1>10. /\ f \in FT /\ f.src = n /\ f.dst = d /\ f.ttl = Len(R) + 1 /\ f.ids = ids
       /\ f.sub = sub \cup {"relay"} /\ f.inner = Layer(n, d)
       /\ f.outer = Layer(n, hop) /\ f.path = <<>>
  <2> DEFINE p == [Packet(n, d) EXCEPT !.sub = sub]
  <2>1. Unsent(p, n, d)
    BY <1>1, <1>9, PacketUnsent
  <2>2. /\ f = [p EXCEPT !.sub = sub \cup {"relay"}, !.ids = ids,
                  !.ttl = Len(R) + 1, !.outer = Layer(n, hop)]
        /\ p.path = <<>>
    BY DEF Packet
  <2>3. Layer(n, hop) \in SUBSET SUBSET Node
    BY <1>7 DEF Layer
  <2> DEFINE sr == sub \cup {"relay"}
             o == Layer(n, hop)
             t == Len(R) + 1
  <2>4. sr \in SUBSET SubTypes /\ o \in SUBSET SUBSET Node /\ t \in Nat
    BY <1>6, <1>9, <2>3 DEF SubTypes
  <2>5. p \in FT /\ p.src = n /\ p.dst = d /\ p.inner = Layer(n, d)
    BY <2>1 DEF Unsent
  <2>6. f = [p EXCEPT !.sub = sr, !.ids = ids, !.ttl = t, !.outer = o]
    BY <2>2
  <2> HIDE DEF p, ids, sub, hop, sr, o, t, f
  <2>7. /\ f \in FT /\ f.src = n /\ f.dst = d /\ f.ttl = t /\ f.ids = ids
        /\ f.sub = sr /\ f.inner = Layer(n, d)
        /\ f.outer = o /\ f.path = <<>>
    BY <1>8, <2>2, <2>4, <2>5, <2>6 DEF FT, FrameType
  <2> QED
    BY <2>7 DEF sr, o, t
<1> HIDE DEF f, ids, sub, hop
<1>11. /\ g \in FT /\ g.src = n /\ g.dst = d /\ g.ttl = Len(R) + 1 /\ g.ids = ids
       /\ g.sub = sub \cup {"relay"} /\ g.inner = Layer(n, d)
       /\ g.outer = Layer(n, hop) /\ g.to = hop /\ g.path = Append(<<>>, n)
  <2>1. f \in FT
    BY <1>10
  <2>2. /\ g \in FT /\ g.src = f.src /\ g.dst = f.dst /\ g.ttl = f.ttl
        /\ g.sub = f.sub /\ g.ids = f.ids /\ g.inner = f.inner
        /\ g.outer = f.outer /\ g.to = hop /\ g.path = Append(f.path, n)
    BY <1>7, <2>1, SentFields
  <2> HIDE DEF g
  <2> QED
    BY <1>10, <2>2
<1>12. Append(<<>>, n) = <<n>>
  OBVIOUS
<1> HIDE DEF g
<1>13. RelayAs(g, R)
  <2>1. Full(g, R) = ids
    BY <1>11 DEF Full, ids
  <2>2. Len(g.path) = 1 /\ g.path[1] = n
    BY <1>11, <1>12
  <2>3. ids[Len(R)] = hop
    BY <1>6, <1>8 DEF hop
  <2> QED
    BY <1>6, <1>8, <1>11, <2>1, <2>2, <2>3 DEF RelayAs
<1>14. Good(g)
  <2>1. R = Cf.route_node[g.src][g.dst][k]
    BY <1>11 DEF R
  <2>2. OnItsRoute(g)
    BY <1>5, <1>9, <1>11, <1>13, <2>1 DEF OnItsRoute
  <2> QED
    BY <1>11, <2>2 DEF Good, IsRelay
<1>15. net' = net \cup {g}
  <2>1. Route(n, d) = R
    BY <1>5 DEF R
  <2> QED
    BY <2>1 DEF TunRelay, g, f, hop, ids, sub
<1>16. NextRoute(n, d) \in 0 .. MaxRoute
  <2> DEFINE next == at + 1
  <2>1. /\ at \in 0 .. MaxRoute /\ 0 \in 0 .. MaxRoute /\ MaxRoute \in 0 .. MaxRoute
        /\ next < Len(routes) => next \in 0 .. MaxRoute
    BY <1>1, <1>2, <1>3
  <2>2. NextRoute(n, d) \in {0, at} \/ (NextRoute(n, d) = next /\ next < Len(routes))
        \/ NextRoute(n, d) = MaxRoute
    BY DEF NextRoute
  <2> QED
    BY <2>1, <2>2
<1> QED
  BY <1>1, <1>14, <1>15, <1>16, PutPut DEF TunRelay

-----------------------------------------------------------------------------
(* From the network.                                                       *)

LEMMA ReceivedFields ==
  ASSUME conf \in DOMAIN Conf, NEW f \in FT, NEW n \in Node
  PROVE  LET g == Received(n, f)
         IN /\ g \in FT
            /\ g.id = f.id /\ g.src = f.src /\ g.dst = f.dst /\ g.sub = f.sub
            /\ g.ids = f.ids /\ g.foot = f.foot /\ g.inner = f.inner
            /\ g.path = f.path
            /\ ~IsRelay(f) => g.outer = f.outer
            /\ g.ttl = IF f.ttl > 0 THEN f.ttl - 1 ELSE 0
<1> DEFINE o == IF IsRelay(f) /\ Knows(n, Last(f.ids))
                THEN Crypted(f.outer, Layer(n, Last(f.ids))) ELSE f.outer
           t == IF f.ttl > 0 THEN f.ttl - 1 ELSE 0
<1>1. f.outer \in SUBSET SUBSET Node /\ f.ttl \in Nat
  BY DEF FT, FrameType
<1>2. o \in SUBSET SUBSET Node
  <2>1. CASE IsRelay(f) /\ Knows(n, Last(f.ids))
    <3>1. \A k : k \in Layer(n, Last(f.ids)) => k = {n, Last(f.ids)}
      BY DEF Layer
    <3>2. Last(f.ids) \in Node
      BY <2>1, CfNode DEF Knows
    <3> QED
      BY <1>1, <2>1, <3>1, <3>2 DEF Crypted
  <2> QED
    BY <1>1, <2>1
<1>3. t \in Nat
  BY <1>1
<1>4. Received(n, f) = [f EXCEPT !.outer = o, !.ttl = t]
  BY DEF Received
<1>5. ~IsRelay(f) => o = f.outer
  OBVIOUS
<1> HIDE DEF o, t
<1>6. LET g == [f EXCEPT !.outer = o, !.ttl = t]
      IN /\ g \in FT
         /\ g.id = f.id /\ g.src = f.src /\ g.dst = f.dst /\ g.sub = f.sub
         /\ g.ids = f.ids /\ g.foot = f.foot /\ g.inner = f.inner
         /\ g.path = f.path /\ g.outer = o /\ g.ttl = t
  BY <1>2, <1>3 DEF FT, FrameType
<1> QED
  BY <1>4, <1>5, <1>6 DEF t

LEMMA UnifiedInetGood ==
  ASSUME conf \in DOMAIN Conf, NEW f, Good(f), NEW n \in Node, f.to = n,
         f.sub \in {{"unified"}, {"multi_path"}},
         n # f.dst \/ ~Knows(n, f.src), NEW g \in UnifiedInet(n, f)
  PROVE  Good(g)
<1>1. f \in FT /\ f.dst \in Node /\ OnItsOwn(f) /\ f.inner = Layer(f.src, f.dst)
      /\ f.path \in Seq(Node)
  BY DEF Good, IsRelay, FT, FrameType
<1>2. n # f.dst /\ g = Sent(n, f.dst, f)
  BY DEF UnifiedInet
<1>3. /\ g \in FT /\ g.src = f.src /\ g.dst = f.dst /\ g.ttl = f.ttl
      /\ g.sub = f.sub /\ g.inner = f.inner /\ g.outer = f.outer
      /\ g.to = f.dst /\ Len(g.path) = Len(f.path) + 1
  BY <1>1, <1>2, SentFields
<1>4. Len(f.path) = 1
  BY <1>1, <1>2 DEF OnItsOwn
<1>5. OnItsOwn(g)
  BY <1>1, <1>3, <1>4 DEF OnItsOwn
<1> QED
  BY <1>1, <1>3, <1>5 DEF Good, IsRelay

LEMMA RelayedGood ==
  ASSUME conf \in DOMAIN Conf, NEW f, Good(f), NEW n \in Node, f.to = n,
         n # f.dst, IsRelay(f), OnRoute(n, f), Readable(Received(n, f), f.ttl)
  PROVE  Good(Relayed(n, Received(n, f), NextHop(f)))
<1> DEFINE r == Received(n, f)
           hop == NextHop(f)
           cut == [r EXCEPT !.ids = Front(@), !.outer = Crypted(@, Layer(n, hop))]
           g == Sent(n, hop, cut)
<1>1. /\ f \in FT /\ f.ids \in Seq(Node) /\ f.ttl \in Nat /\ f.dst \in Node
      /\ f.src \in Node /\ f.path \in Seq(Node) /\ f.inner = Layer(f.src, f.dst)
      /\ f.sub \subseteq {"std", "relay"} /\ "relay" \in f.sub
  BY DEF Good, IsRelay, FT, FrameType, OnItsRoute
<1>2. PICK k \in 1 .. Len(Cf.route_node[f.src][f.dst]) :
        RelayAs(f, Cf.route_node[f.src][f.dst][k])
  BY DEF Good, OnItsRoute
<1> DEFINE R == Cf.route_node[f.src][f.dst][k]
<1>3. R \in Seq(Node) /\ Len(R) \in Nat /\ R # <<>>
  BY <1>1, <1>2, CfRoute, LenProperties
<1>4. RelayAs(f, R)
  BY <1>2
<1> HIDE DEF R
<1>5. f.ttl > 1 /\ f.ttl <= Len(R) + 1 /\ Len(f.ids) = f.ttl
  BY <1>4 DEF OnRoute, RelayAs
<1>6. hop \in Node
  <2>1. f.ttl > 2 => f.ids[f.ttl - 2] \in Node
    BY <1>1, <1>5, ElementOfSeq
  <2> QED
    BY <1>1, <1>5, <2>1 DEF NextHop
<1>7. /\ r \in FT /\ r.src = f.src /\ r.dst = f.dst /\ r.sub = f.sub
      /\ r.ids = f.ids /\ r.inner = f.inner /\ r.path = f.path
      /\ r.ttl = f.ttl - 1 /\ r.outer = {}
  <2>1. f \in FT
    BY <1>1
  <2>2. /\ r \in FT /\ r.src = f.src /\ r.dst = f.dst /\ r.sub = f.sub
        /\ r.ids = f.ids /\ r.inner = f.inner /\ r.path = f.path
        /\ r.ttl = IF f.ttl > 0 THEN f.ttl - 1 ELSE 0
    BY <2>1, ReceivedFields
  <2>3. r.outer = {}
    BY DEF Readable
  <2> HIDE DEF r
  <2> QED
    BY <1>1, <1>5, <2>2, <2>3
<1>8. /\ Front(f.ids) \in Seq(Node) /\ Len(Front(f.ids)) = f.ttl - 1
      /\ \A i \in 1 .. f.ttl - 1 : Front(f.ids)[i] = f.ids[i]
  <2>1. \A i \in 1 .. f.ttl - 1 : f.ids[i] \in Node
    BY <1>1, <1>5, ElementOfSeq
  <2> QED
    BY <1>1, <1>5, <2>1, SubSeqProperties DEF Front
<1>9. Crypted({}, Layer(n, hop)) = Layer(n, hop)
  BY DEF Crypted
<1>10. Layer(n, hop) \in SUBSET SUBSET Node
  BY <1>6 DEF Layer
<1> HIDE DEF r, hop
<1>11. /\ cut \in FT /\ cut.src = f.src /\ cut.dst = f.dst /\ cut.sub = f.sub
       /\ cut.ids = Front(f.ids) /\ cut.inner = f.inner /\ cut.path = f.path
       /\ cut.ttl = f.ttl - 1 /\ cut.outer = Layer(n, hop)
  <2> DEFINE o == Layer(n, hop)
             fr == Front(f.ids)
  <2>1. cut = [r EXCEPT !.ids = fr, !.outer = o]
    BY <1>7, <1>9 DEF FT, FrameType
  <2>2. fr \in Seq(Node) /\ o \in SUBSET SUBSET Node
    BY <1>8, <1>10
  <2> HIDE DEF o, fr, cut
  <2>3. /\ cut \in FT /\ cut.src = f.src /\ cut.dst = f.dst /\ cut.sub = f.sub
        /\ cut.ids = fr /\ cut.inner = f.inner /\ cut.path = f.path
        /\ cut.ttl = f.ttl - 1 /\ cut.outer = o
    BY <1>7, <2>1, <2>2 DEF FT, FrameType
  <2> QED
    BY <2>3 DEF o, fr
<1> HIDE DEF cut
<1>12. /\ g \in FT /\ g.src = f.src /\ g.dst = f.dst /\ g.sub = f.sub
       /\ g.ids = Front(f.ids) /\ g.inner = f.inner /\ g.path = Append(f.path, n)
       /\ g.ttl = f.ttl - 1 /\ g.outer = Layer(n, hop) /\ g.to = hop
  <2>1. cut \in FT
    BY <1>11
  <2>2. /\ g \in FT /\ g.src = cut.src /\ g.dst = cut.dst /\ g.ttl = cut.ttl
        /\ g.sub = cut.sub /\ g.ids = cut.ids /\ g.inner = cut.inner
        /\ g.outer = cut.outer /\ g.to = hop /\ g.path = Append(cut.path, n)
    BY <1>6, <2>1, SentFields
  <2> HIDE DEF g
  <2> QED
    BY <1>11, <2>2
<1> HIDE DEF g
<1>13. /\ Len(g.path) = Len(f.path) + 1
       /\ \A i \in 1 .. Len(f.path) : g.path[i] = f.path[i]
       /\ g.path[Len(f.path) + 1] = n
  BY <1>1, <1>12, AppendProperties
<1>14. f.ids[f.ttl - 1] = n
  BY <1>4, <1>5 DEF RelayAs
<1>15. RelayAs(g, R)
  <2> DEFINE t == f.ttl
             L == Len(R)
  <2>1. Full(g, R) = Full(f, R)
    BY <1>12 DEF Full
  <2>2. /\ t \in 2 .. L + 1 /\ Len(f.path) = L + 2 - t
        /\ \A i \in 1 .. t : f.ids[i] = Full(f, R)[i]
        /\ \A i \in 1 .. Len(f.path) : f.path[i] = Full(f, R)[L + 2 - i]
        /\ Len(f.path) = 1 \/ L < MaxTtl
    BY <1>1, <1>3, <1>4, <1>5 DEF RelayAs
  <2>0. /\ L \in Nat /\ t \in Nat /\ Len(f.path) \in Nat /\ g.ttl = t - 1
        /\ Len(g.ids) = t - 1
        /\ \A i \in 1 .. t - 1 : g.ids[i] = f.ids[i]
    BY <1>1, <1>3, <1>8, <1>12, LenProperties
  <2>01. f.ids[t - 1] = n
    BY <1>14
  <2>02. /\ g.to = hop /\ g.dst = f.dst /\ g.outer = Layer(n, hop) /\ n # f.dst
         /\ hop = IF t = 2 THEN f.dst ELSE f.ids[t - 2]
    BY <1>12 DEF NextHop, hop
  <2>03. t <= MaxTtl
    BY DEF Readable
  <2> HIDE DEF t, L
  <2>3. g.ttl \in 1 .. L + 1 /\ Len(g.ids) = g.ttl /\ Len(g.path) = L + 2 - g.ttl
    <3>1. t \in 2 .. L + 1 /\ Len(f.path) = L + 2 - t
      BY <2>2
    <3>2. L + 2 - (t - 1) = (L + 2 - t) + 1 /\ t - 1 \in 1 .. L + 1
      BY <2>0, <3>1
    <3> QED
      BY <1>13, <2>0, <3>1, <3>2
  <2>4. \A i \in 1 .. g.ttl : g.ids[i] = Full(g, R)[i]
    BY <2>0, <2>1, <2>2
  <2>5. \A i \in 1 .. Len(g.path) : g.path[i] = Full(g, R)[L + 2 - i]
    <3>1. t - 1 \in 1 .. t /\ L + 2 - (Len(f.path) + 1) = t - 1
      BY <2>0, <2>2
    <3>2. g.path[Len(f.path) + 1] = Full(f, R)[t - 1]
      BY <1>13, <2>01, <2>2, <3>1
    <3>3. ASSUME NEW i \in 1 .. Len(g.path)
          PROVE  g.path[i] = Full(g, R)[L + 2 - i]
      <4>1. CASE i = Len(f.path) + 1
        BY <2>1, <3>1, <3>2, <4>1
      <4>2. CASE i \in 1 .. Len(f.path)
        BY <1>13, <2>1, <2>2, <4>2
      <4> QED
        BY <1>13, <2>0, <4>1, <4>2
    <3> QED
      BY <3>3
  <2>6. g.to = IF g.ttl = 1 THEN g.dst ELSE g.ids[g.ttl - 1]
    <3>1. t > 2 => t - 2 \in 1 .. t - 1 /\ g.ids[t - 2] = f.ids[t - 2]
      BY <2>0, <2>2
    <3>2. (g.ttl = 1 <=> t = 2) /\ g.ttl - 1 = t - 2 /\ (t # 2 => t > 2)
      BY <2>0, <2>2
    <3> QED
      BY <2>02, <3>1, <3>2
  <2>7. g.outer = Layer(g.ids[g.ttl], g.to)
    <3>1. t - 1 \in 1 .. t - 1
      BY <2>0, <2>2
    <3>2. g.ids[g.ttl] = n
      BY <2>0, <2>01, <3>1
    <3> QED
      BY <2>02, <3>2
  <2>8. Len(g.path) = 1 \/ L < MaxTtl
    BY <2>0, <2>03, <2>2, LimitAssumption
  <2> QED
    BY <2>3, <2>4, <2>5, <2>6, <2>7, <2>8 DEF RelayAs, L
<1>16. Good(g)
  <2>1. R = Cf.route_node[g.src][g.dst][k]
    BY <1>12 DEF R
  <2>2. OnItsRoute(g)
    BY <1>1, <1>2, <1>12, <1>15, <2>1 DEF OnItsRoute
  <2> QED
    BY <1>1, <1>12, <2>2 DEF Good, IsRelay
<1>17. Relayed(n, r, hop) = g
  BY DEF Relayed, g, cut
<1> QED
  BY <1>16, <1>17 DEF r, hop

LEMMA ToInetGood ==
  ASSUME conf \in DOMAIN Conf, NEW f, Good(f), NEW n \in Node, f.to = n,
         n # f.dst, f.sub \notin {{"unified"}, {"multi_path"}},
         Readable(Received(n, f), f.ttl), NEW g \in ToInet(n, f, Received(n, f))
  PROVE  Good(g)
<1> DEFINE r == Received(n, f)
<1>1. f \in FT /\ f.ttl \in Nat /\ f.dst \in Node /\ f.path \in Seq(Node)
  BY DEF Good, FT, FrameType
<1>2. /\ r \in FT /\ r.src = f.src /\ r.dst = f.dst /\ r.sub = f.sub
      /\ r.inner = f.inner /\ r.path = f.path
      /\ ~IsRelay(f) => r.outer = f.outer
      /\ r.ttl = IF f.ttl > 0 THEN f.ttl - 1 ELSE 0
  <2>1. f \in FT
    BY <1>1
  <2> QED
    BY <2>1, ReceivedFields
<1>3. r.ttl > 0
  BY <1>1, <1>2 DEF ToInet
<1>4. CASE IsRelay(f)
  <2>1. OnRoute(n, f) /\ g = Relayed(n, r, NextHop(f))
    BY <1>2, <1>3, <1>4 DEF ToInet
  <2> QED
    BY <1>4, <2>1, RelayedGood
<1>5. CASE ~IsRelay(f)
  <2>1. PICK hop \in Node : g = Sent(n, hop, r)
    <3>1. SelectForwardNode(n) \in Node \cup {None}
      BY SelectType
    <3> HIDE DEF r
    <3> QED
      BY <1>1, <1>3, <1>5, <3>1 DEF ToInet, r
  <2>2. OnItsOwn(f) /\ f.inner = Layer(f.src, f.dst)
    BY <1>5 DEF Good
  <2> HIDE DEF r
  <2>3. /\ g \in FT /\ g.src = r.src /\ g.dst = r.dst /\ g.ttl = r.ttl
        /\ g.sub = r.sub /\ g.inner = r.inner /\ g.outer = r.outer
        /\ Len(g.path) = Len(r.path) + 1
    BY <1>2, <2>1, SentFields
  <2>4. Len(f.path) \in Nat
    BY <1>1, LenProperties
  <2> QED
    BY <1>1, <1>2, <1>3, <1>5, <2>2, <2>3, <2>4, LimitAssumption
       DEF OnItsOwn, Good, IsRelay
<1> QED
  BY <1>4, <1>5

(* What the next hop finds on a frame of a relay route.                    *)
LEMMA RelayLast ==
  ASSUME conf \in DOMAIN Conf, NEW f, Good(f), IsRelay(f)
  PROVE  /\ Len(f.ids) = f.ttl /\ f.ids[f.ttl] \in Node
         /\ f.outer = Layer(Last(f.ids), f.to) /\ Last(f.path) = Last(f.ids)
         /\ Len(f.path) <= MaxTtl
<1>1. /\ f.ids \in Seq(Node) /\ f.ttl \in Nat /\ f.dst \in Node
      /\ f.src \in Node /\ f.path \in Seq(Node)
  BY DEF Good, FT, FrameType
<1>2. PICK k \in 1 .. Len(Cf.route_node[f.src][f.dst]) :
        RelayAs(f, Cf.route_node[f.src][f.dst][k])
  BY DEF Good, OnItsRoute
<1> DEFINE R == Cf.route_node[f.src][f.dst][k]
           t == f.ttl
           L == Len(R)
<1>3. L \in Nat
  BY <1>1, <1>2, CfRoute, LenProperties
<1>4. /\ t \in 1 .. L + 1 /\ Len(f.ids) = t /\ Len(f.path) = L + 2 - t
      /\ \A i \in 1 .. t : f.ids[i] = Full(f, R)[i]
      /\ \A i \in 1 .. Len(f.path) : f.path[i] = Full(f, R)[L + 2 - i]
      /\ f.outer = Layer(f.ids[t], f.to)
      /\ Len(f.path) = 1 \/ L < MaxTtl
  BY <1>2 DEF RelayAs
<1> HIDE DEF R, t, L
<1>5. f.ids[t] \in Node
  BY <1>1, <1>3, <1>4, ElementOfSeq
<1>6. t \in 1 .. t /\ L + 2 - t \in 1 .. (L + 2 - t) /\ L + 2 - (L + 2 - t) = t
  <2>1. t \in 1 .. L + 1
    BY <1>4
  <2>2. t \in Nat /\ 1 <= t /\ t <= L + 1
    BY <1>3, <2>1
  <2>3. t \in 1 .. t
    BY <2>2
  <2>4. L + 2 - t \in 1 .. (L + 2 - t)
    BY <1>3, <2>2
  <2>5. L + 2 - (L + 2 - t) = t
    BY <1>3, <2>2
  <2> QED
    BY <2>3, <2>4, <2>5
<1>7. f.path[L + 2 - t] = f.ids[t]
  BY <1>4, <1>6
<1>8. L < MaxTtl => L + 2 - t <= MaxTtl
  BY <1>3, <1>4, LimitAssumption
<1> QED
  BY <1>4, <1>5, <1>7, <1>8, LimitAssumption DEF Last, t

LEMMA ToTunStep ==
  ASSUME FInv, NEW f, Good(f), NEW n \in Node, n = f.dst,
         ToTun(n, f, Received(n, f))
  PROVE  /\ last_relay' \in [Node -> [Node -> Node \cup {None}]]
         /\ tun' \in [Node -> Seq(Written)]
         /\ InClear' /\ AnswersTheSameWay'
<1> DEFINE r == Received(n, f)
           w == [id |-> r.id, src |-> r.src, kind |-> f.sub, seq |-> f.foot.seq,
                 inner |-> Opened(n, f, r), path |-> r.path]
<1>1. conf \in DOMAIN Conf /\ tun \in [Node -> Seq(Written)]
      /\ last_relay \in [Node -> [Node -> Node \cup {None}]]
  BY DEF FInv, TypeOK, PfType
<1>2. f \in FT
  BY DEF Good
<1>3. /\ f.id \in Nat /\ f.src \in Node /\ f.dst \in Node /\ f.sub \in SUBSET SubTypes
      /\ f.foot.seq \in Nat /\ f.path \in Seq(Node) /\ f.inner = Layer(f.src, f.dst)
  BY DEF Good, FT, FrameType
<1>4. r.id = f.id /\ r.src = f.src /\ r.inner = f.inner /\ r.path = f.path
  BY <1>1, <1>2, ReceivedFields
<1>5. Opened(n, f, r) = {}
  <2>1. Layer(n, f.src) = Layer(f.src, f.dst)
    BY DEF Layer
  <2> QED
    BY <1>3, <1>4, <2>1 DEF Opened, Crypted
<1>6. /\ w \in Written /\ w.src = f.src /\ w.kind = f.sub /\ w.inner = {}
      /\ w.path = f.path
  BY <1>3, <1>4, <1>5 DEF Written
<1>7. tun' = [tun EXCEPT ![n] = Append(tun[n], w)]
  BY DEF ToTun
<1>8. last_relay' = [last_relay EXCEPT ![n][f.src] = LastRelay(n, f)]
  BY DEF ToTun
<1> HIDE DEF r, w
<1> DEFINE old == tun[n]
           new == Append(old, w)
<1>9. /\ old \in Seq(Written) /\ Len(old) \in Nat
      /\ new \in Seq(Written) /\ Len(new) = Len(old) + 1
      /\ \A i \in 1 .. Len(old) : new[i] = old[i]
      /\ new[Len(old) + 1] = w
  BY <1>1, <1>6, AppendProperties, LenProperties
<1>10. tun'[n] = new /\ \A k \in Node : k # n => tun'[k] = tun[k]
  BY <1>1, <1>7
<1>11. tun' \in [Node -> Seq(Written)]
  BY <1>1, <1>7, <1>9
<1>12. LastRelay(n, f) \in Node \cup {None}
  BY <1>1, RelayLast DEF LastRelay
<1>13. last_relay' \in [Node -> [Node -> Node \cup {None}]]
  BY <1>1, <1>3, <1>8, <1>12, PutPut
<1> HIDE DEF old, new
<1>14. InClear'
  <2> SUFFICES ASSUME NEW k \in Node, NEW i \in 1 .. Len(tun'[k])
               PROVE  tun'[k][i].inner = {}
    BY DEF InClear
  <2>1. CASE k # n
    BY <1>10, <2>1 DEF FInv, InClear
  <2>2. CASE k = n /\ i = Len(old) + 1
    BY <1>6, <1>9, <1>10, <2>2
  <2>3. CASE k = n /\ i # Len(old) + 1
    <3>1. i \in 1 .. Len(old)
      BY <1>9, <1>10, <2>3
    <3> QED
      BY <1>9, <1>10, <2>3, <3>1 DEF FInv, InClear, old
  <2> QED
    BY <2>1, <2>2, <2>3
<1>15. AnswersTheSameWay'
  <2> SUFFICES ASSUME NEW k \in Node, NEW m \in Node, last_relay'[k][m] # None
               PROVE  \E i \in 1 .. Len(tun'[k]) :
                        /\ tun'[k][i].src = m /\ "relay" \in tun'[k][i].kind
                        /\ Last(tun'[k][i].path) = last_relay'[k][m]
                        /\ \A j \in i + 1 .. Len(tun'[k]) : tun'[k][j].src # m
    BY DEF AnswersTheSameWay
  <2>1. CASE k = n /\ m = f.src
    <3>1. last_relay'[k][m] = LastRelay(n, f)
      BY <1>1, <1>3, <1>8, <2>1
    <3>2. IsRelay(f) /\ last_relay'[k][m] = f.ids[f.ttl]
      BY <3>1 DEF LastRelay
    <3>3. Last(f.path) = f.ids[f.ttl]
      BY <1>1, <3>2, RelayLast DEF Last
    <3>4. Len(old) + 1 \in 1 .. Len(new)
          /\ \A j \in Len(old) + 1 + 1 .. Len(new) : FALSE
      BY <1>9
    <3>5. /\ tun'[k][Len(old) + 1].src = m
          /\ "relay" \in tun'[k][Len(old) + 1].kind
          /\ Last(tun'[k][Len(old) + 1].path) = last_relay'[k][m]
      BY <1>6, <1>9, <1>10, <2>1, <3>2, <3>3 DEF IsRelay
    <3> QED
      BY <1>10, <2>1, <3>4, <3>5
  <2>2. CASE k # n \/ m # f.src
    <3>1. last_relay'[k][m] = last_relay[k][m]
      BY <1>1, <1>3, <1>8, <2>2
    <3>2. PICK i \in 1 .. Len(tun[k]) :
            /\ tun[k][i].src = m /\ "relay" \in tun[k][i].kind
            /\ Last(tun[k][i].path) = last_relay[k][m]
            /\ \A j \in i + 1 .. Len(tun[k]) : tun[k][j].src # m
      BY <3>1 DEF FInv, AnswersTheSameWay
    <3>3. CASE k # n
      BY <1>10, <3>1, <3>2, <3>3
    <3>4. CASE k = n
      <4>1. tun[k] = old /\ tun'[k] = new /\ m # f.src
        BY <1>10, <2>2, <3>4 DEF old
      <4>2. i \in 1 .. Len(new) /\ new[i] = old[i] /\ i \in 1 .. Len(old)
        BY <1>9, <3>2, <4>1
      <4>3. ASSUME NEW j \in i + 1 .. Len(new)
            PROVE  new[j].src # m
        <5>1. CASE j = Len(old) + 1
          BY <1>6, <1>9, <4>1, <5>1
        <5>2. CASE j # Len(old) + 1
          <6>1. j \in i + 1 .. Len(old) /\ j \in 1 .. Len(old)
            BY <1>9, <4>2, <5>2
          <6> QED
            BY <1>9, <3>2, <4>1, <6>1
        <5> QED
          BY <5>1, <5>2
      <4> QED
        BY <3>1, <3>2, <4>1, <4>2, <4>3
    <3> QED
      BY <3>3, <3>4
  <2> QED
    BY <2>1, <2>2
<1> QED
  BY <1>11, <1>13, <1>14, <1>15

(* What a step leaves of the TUN devices and the relays to answer through. *)
Delivered ==
  /\ last_relay' \in [Node -> [Node -> Node \cup {None}]]
  /\ tun' \in [Node -> Seq(Written)]
  /\ InClear' /\ AnswersTheSameWay'

LEMMA NothingDelivered ==
  ASSUME FInv, UNCHANGED <<last_relay, tun>>
  PROVE  Delivered
BY DEF FInv, TypeOK, PfType, InClear, AnswersTheSameWay, Delivered

LEMMA FilterStep ==
  ASSUME FInv, NEW f \in net, NEW n \in Node, f.to = n, NEW rest \in SUBSET net,
         n = f.dst \/ f.sub \notin {{"unified"}, {"multi_path"}},
         Filter(n, f, rest)
  PROVE  (\A g \in net' : Good(g)) /\ Delivered
<1>1. conf \in DOMAIN Conf /\ Good(f) /\ \A g \in rest : Good(g)
  BY DEF FInv, TypeOK
<1>2. CASE n = f.dst
  <2>1. net' = rest /\ (ToTun(n, f, Received(n, f)) \/ UNCHANGED <<last_relay, tun>>)
    BY <1>2 DEF Filter
  <2> QED
    BY <1>1, <1>2, <2>1, ToTunStep, NothingDelivered DEF Delivered
<1>3. CASE n # f.dst
  <2>1. /\ UNCHANGED <<last_relay, tun>>
        /\ \/ net' = rest
           \/ /\ net' = rest \cup ToInet(n, f, Received(n, f))
              /\ Readable(Received(n, f), f.ttl)
    BY <1>3 DEF Filter
  <2> QED
    BY <1>1, <1>3, <2>1, ToInetGood, NothingDelivered
<1> QED
  BY <1>2, <1>3

LEMMA InetStep ==
  ASSUME FInv, NEW f \in net, NEW rest \in SUBSET net, InetFrame(f.to, f, rest),
         UNCHANGED spent \/ spent' = spent + 1
  PROVE  FInv'
<1> DEFINE n == f.to
<1>1. /\ conf \in DOMAIN Conf /\ Good(f) /\ (\A g \in rest : Good(g))
      /\ UfType /\ PfType /\ spent \in Nat /\ link \in [Node -> [Node -> Links]]
      /\ fwd_cur \in [Node -> Nat]
  BY DEF FInv, TypeOK
<1>2. n \in Node /\ f.src \in Node /\ f.dst \in Node /\ f.foot.seq \in Nat
      /\ f.foot.uf \in Node \cup {None, Junk}
  BY <1>1 DEF Good, FT, FrameType
<1>3. /\ UNCHANGED <<conf, link, uf_array, send_seq, notes, selected_route, sent>>
      /\ fwd_cur' \in [Node -> Nat]
  BY <1>1, <1>2, AdvanceType DEF InetFrame
<1> HIDE DEF n
<1>4. UNCHANGED <<uf_nodeid, uf_recent>> \/ NotesPath(n, f) =>
        /\ uf_nodeid' \in [Node -> [Node -> Node \cup {None, Junk}]]
        /\ uf_recent' \in [Node -> [Node -> BOOLEAN]]
  <2>1. /\ uf_nodeid \in [Node -> [Node -> Node \cup {None, Junk}]]
        /\ uf_recent \in [Node -> [Node -> BOOLEAN]]
    BY <1>1 DEF UfType
  <2>2. CASE NotesPath(n, f)
    <3> DEFINE uf == f.foot.uf
               m == f.src
    <3>1. /\ uf_nodeid' = [uf_nodeid EXCEPT ![n][m] = uf]
          /\ uf_recent' = [uf_recent EXCEPT ![n][m] = TRUE]
          /\ uf \in Node \cup {None, Junk} /\ m \in Node
      BY <1>2, <2>2 DEF NotesPath
    <3> HIDE DEF uf, m
    <3> QED
      BY <1>2, <2>1, <3>1
  <2>3. CASE UNCHANGED <<uf_nodeid, uf_recent>>
    BY <2>1, <2>3
  <2> QED
    BY <2>2, <2>3
<1>5. ASSUME recv_seq' = [recv_seq EXCEPT ![n] = Remembered(recv_seq[n], f.foot.seq)]
      PROVE  recv_seq' \in [Node -> [1 .. SeqArraySize -> Nat]]
  <2>1. recv_seq \in [Node -> [1 .. SeqArraySize -> Nat]]
    BY <1>1 DEF UfType
  <2>2. Remembered(recv_seq[n], f.foot.seq) \in [1 .. SeqArraySize -> Nat]
    BY <1>2, <2>1 DEF Remembered
  <2> QED
    BY <1>2, <1>5, <2>1, <2>2
<1>6. UNCHANGED recv_seq => recv_seq' \in [Node -> [1 .. SeqArraySize -> Nat]]
  BY <1>1 DEF UfType
<1> DEFINE special == f.sub \in {{"unified"}, {"multi_path"}}
<1>7. ASSUME special, n # f.dst \/ ~Knows(n, f.src),
             net' = rest \cup UnifiedInet(n, f), UNCHANGED <<last_relay, tun>>
      PROVE  (\A g \in net' : Good(g)) /\ Delivered
  BY <1>1, <1>2, <1>7, UnifiedInetGood, NothingDelivered DEF n
<1>8. ASSUME n = f.dst \/ ~special, Filter(n, f, rest)
      PROVE  (\A g \in net' : Good(g)) /\ Delivered
  BY <1>2, <1>8, FilterStep DEF n
<1>9. /\ (\A g \in net' : Good(g)) /\ Delivered
      /\ UNCHANGED <<uf_nodeid, uf_recent>> \/ NotesPath(n, f)
      /\ recv_seq' \in [Node -> [1 .. SeqArraySize -> Nat]]
  <2>1. CASE f.sub = {"unified"}
    <3>1. UNCHANGED recv_seq
      BY <2>1 DEF InetFrame, n
    <3>2. CASE n # f.dst \/ ~Knows(n, f.src)
      <4>1. /\ net' = rest \cup UnifiedInet(n, f)
            /\ UNCHANGED <<uf_nodeid, uf_recent, last_relay, tun>>
        BY <2>1, <3>2 DEF InetFrame, n
      <4> QED
        BY <1>6, <1>7, <2>1, <3>1, <3>2, <4>1
    <3>3. CASE n = f.dst /\ Knows(n, f.src)
      <4>1. NotesPath(n, f) /\ Filter(n, f, rest)
        BY <2>1, <3>3 DEF InetFrame, n
      <4> QED
        BY <1>6, <1>8, <3>1, <3>3, <4>1
    <3> QED
      BY <3>2, <3>3
  <2>2. CASE f.sub = {"multi_path"}
    <3>1. MultiPathInet(n, f, rest)
      BY <2>2 DEF InetFrame, n
    <3>2. CASE n # f.dst \/ ~Knows(n, f.src)
      BY <1>6, <1>7, <2>2, <3>1, <3>2 DEF MultiPathInet
    <3>3. CASE n = f.dst /\ Knows(n, f.src) /\ IsNew(recv_seq[n], f.foot.seq)
      <4>1. /\ recv_seq' = [recv_seq EXCEPT ![n] = Remembered(recv_seq[n], f.foot.seq)]
            /\ NotesPath(n, f) /\ Filter(n, f, rest)
        BY <3>1, <3>3 DEF MultiPathInet
      <4> QED
        BY <1>5, <1>8, <3>3, <4>1
    <3>4. CASE n = f.dst /\ Knows(n, f.src) /\ ~IsNew(recv_seq[n], f.foot.seq)
      <4>1. net' = rest /\ UNCHANGED <<uf_nodeid, uf_recent, recv_seq, last_relay, tun>>
        BY <3>1, <3>4 DEF MultiPathInet
      <4> QED
        BY <1>1, <1>6, <4>1, NothingDelivered
    <3> QED
      BY <3>2, <3>3, <3>4
  <2>3. CASE ~special
    <3>1. Filter(n, f, rest) /\ UNCHANGED <<uf_nodeid, uf_recent, recv_seq>>
      BY <2>3 DEF InetFrame, n
    <3> QED
      BY <1>6, <1>8, <2>3, <3>1
  <2> QED
    BY <2>1, <2>2, <2>3
<1>10. \A g \in net' : Good(g)'
  BY <1>3, <1>9, GoodStays
<1>11. TypeOK'
  <2>1. net' \subseteq FrameType(Node \cup {None, Junk})
    BY <1>9 DEF Good, FT
  <2>2. UfType'
    BY <1>1, <1>3, <1>4, <1>9 DEF UfType
  <2>3. PfType'
    BY <1>1, <1>3, <1>9 DEF PfType, Delivered
  <2>4. spent' \in Nat
    BY <1>1
  <2> QED
    BY <1>1, <1>3, <2>1, <2>2, <2>3, <2>4 DEF TypeOK
<1> QED
  BY <1>9, <1>10, <1>11 DEF FInv, Delivered

LEMMA TunStep ==
  ASSUME FInv, NEW n \in Node, NEW d \in Node, NEW proto,
         FromTun(n, d, proto)
  PROVE  FInv'
<1> DEFINE first == FirstChoice(n, d)
           way == IF UsesLastRelay(n, d)
                  THEN Way(last_relay[n][d], "next", first.sub) ELSE first
<1>1. /\ conf \in DOMAIN Conf /\ (\A g \in net : Good(g)) /\ TypeOK
      /\ UfType /\ PfType /\ spent \in Nat /\ link \in [Node -> [Node -> Links]]
      /\ fwd_cur \in [Node -> Nat]
  BY DEF FInv, TypeOK
<1>2. way.fwd \in Node \cup {None} /\ way.sub \in SUBSET {"std"}
  <2>1. last_relay[n][d] \in Node \cup {None}
    BY <1>1 DEF PfType
  <2> QED
    BY <1>1, <2>1, WayType DEF Way
<1>3. /\ UNCHANGED <<conf, link, last_relay, tun, spent>> /\ sent' = sent + 1
      /\ fwd_cur' \in [Node -> Nat]
  BY <1>1, AdvanceType DEF FromTun, TunFrame
<1>4. \/ Relays(n, d, first.ret) /\ TunRelay(n, d)
      \/ TunForward(n, d, way, proto) /\ UNCHANGED selected_route
  BY DEF FromTun, TunFrame
<1> HIDE DEF way
<1>5. /\ \A g \in net' : Good(g)
      /\ selected_route' \in [Node -> [Node -> 0 .. MaxRoute]]
      /\ UfType'
  <2>1. CASE Relays(n, d, first.ret) /\ TunRelay(n, d)
    <3>1. UNCHANGED ufvars
      BY <2>1 DEF TunRelay
    <3> QED
      BY <1>1, <1>3, <2>1, <3>1, TunRelayMakes DEF UfType
  <2>2. CASE TunForward(n, d, way, proto) /\ UNCHANGED selected_route
    <3>1. Made(n, d) /\ UNCHANGED <<uf_array, recv_seq, notes>>
      BY <1>1, <1>2, <2>2, TunForwardMakes
    <3>2. \A g \in net' : Good(g)
      BY <1>1, <3>1, FreshIsGood DEF Made
    <3> QED
      BY <1>1, <2>2, <3>1, <3>2 DEF Made, UfType, PfType
  <2> QED
    BY <1>4, <2>1, <2>2
<1>6. \A g \in net' : Good(g)'
  BY <1>3, <1>5, GoodStays
<1>7. Delivered
  BY <1>3, NothingDelivered
<1>8. TypeOK'
  <2>1. net' \subseteq FrameType(Node \cup {None, Junk})
    BY <1>5 DEF Good, FT
  <2>2. PfType'
    BY <1>1, <1>3, <1>5, <1>7 DEF PfType, Delivered
  <2> QED
    BY <1>1, <1>3, <1>5, <2>1, <2>2 DEF TypeOK
<1> QED
  BY <1>6, <1>7, <1>8 DEF FInv, Delivered

-----------------------------------------------------------------------------
(* The surroundings.                                                       *)

LEMMA SlotExpires ==
  ASSUME uf_array \in [Node -> [Node -> [1 .. ArraySize -> Slot]]],
         NEW n \in Node, NEW m \in Node, NEW i \in 1 .. ArraySize
  PROVE  [uf_array EXCEPT ![n][m][i].live = FALSE]
           \in [Node -> [Node -> [1 .. ArraySize -> Slot]]]
<1> DEFINE s == [uf_array[n][m][i] EXCEPT !.live = FALSE]
           F == [uf_array[n][m] EXCEPT ![i] = s]
<1>0. uf_array[n][m] \in [1 .. ArraySize -> Slot]
  OBVIOUS
<1>1. uf_array[n][m] \in [1 .. ArraySize -> Slot] /\ uf_array[n][m][i] \in Slot
  BY <1>0
<1>2. s \in Slot
  BY <1>1 DEF Slot
<1>3. [uf_array EXCEPT ![n][m][i].live = FALSE] = [uf_array EXCEPT ![n][m] = F]
  OBVIOUS
<1> HIDE DEF s
<1>4. F \in [1 .. ArraySize -> Slot]
  BY <1>1, <1>2
<1> HIDE DEF F
<1>5. [uf_array EXCEPT ![n][m] = F] \in [Node -> [Node -> [1 .. ArraySize -> Slot]]]
  BY <1>4, PutPut
<1> QED
  BY <1>3, <1>5

LEMMA SlotTaken ==
  ASSUME uf_array \in [Node -> [Node -> [1 .. ArraySize -> Slot]]],
         NEW n \in Node, NEW m \in Node, NEW k \in Node, NEW i
  PROVE  [uf_array EXCEPT ![n][m][i] = [uuid64 |-> k, live |-> TRUE]]
           \in [Node -> [Node -> [1 .. ArraySize -> Slot]]]
<1> DEFINE s == [uuid64 |-> k, live |-> TRUE]
           F == [uf_array[n][m] EXCEPT ![i] = s]
<1>1. uf_array[n][m] \in [1 .. ArraySize -> Slot]
  OBVIOUS
<1>2. s \in Slot
  BY DEF Slot
<1>3. [uf_array EXCEPT ![n][m][i] = s] = [uf_array EXCEPT ![n][m] = F]
  OBVIOUS
<1> HIDE DEF s
<1>4. F \in [1 .. ArraySize -> Slot]
  BY <1>1, <1>2
<1> HIDE DEF F
<1>5. [uf_array EXCEPT ![n][m] = F] \in [Node -> [Node -> [1 .. ArraySize -> Slot]]]
  BY <1>4, PutPut
<1> QED
  BY <1>3, <1>5 DEF s

LEMMA OtherStep ==
  ASSUME FInv,
         \/ \E f \in net : Lose(f)
         \/ \E n, m \in Node, s \in Links : Link(n, m, s)
         \/ \E n, m \in Node : LastRelayExpires(n, m) \/ Expire(n, m)
         \/ \E n, k, m \in Node : Announce(n, k, m) \/ Announced(n, k, m)
  PROVE  FInv'
<1>1. /\ conf \in DOMAIN Conf /\ (\A g \in net : Good(g)) /\ TypeOK
      /\ UfType /\ PfType /\ spent \in Nat /\ link \in [Node -> [Node -> Links]]
      /\ fwd_cur \in [Node -> Nat] /\ net \subseteq FrameType(Node \cup {None, Junk})
  BY DEF FInv, TypeOK
<1>2. ASSUME UNCHANGED <<conf, fwd_cur>>, net' \subseteq net,
             link' \in [Node -> [Node -> Links]], UfType', PfType',
             spent' \in Nat, InClear', AnswersTheSameWay'
      PROVE  FInv'
  <2>1. \A g \in net' : Good(g)'
    BY <1>1, <1>2, GoodStays
  <2> QED
    BY <1>1, <1>2, <2>1 DEF FInv, TypeOK
<1>3. UNCHANGED <<last_relay, tun>> => InClear' /\ AnswersTheSameWay'
  BY NothingDelivered DEF Delivered
<1>4. UNCHANGED pfvars => PfType'
  BY <1>1 DEF PfType
<1>5. UNCHANGED ufvars => UfType'
  BY <1>1 DEF UfType
<1>6. ASSUME NEW f \in net, Lose(f)
      PROVE  FInv'
  BY <1>1, <1>2, <1>3, <1>4, <1>5, <1>6 DEF Lose, May, Spend
<1>7. ASSUME NEW n \in Node, NEW m \in Node, NEW s \in Links, Link(n, m, s)
      PROVE  FInv'
  <2>1. link' \in [Node -> [Node -> Links]]
    BY <1>1, <1>7 DEF Link
  <2> QED
    BY <1>1, <1>2, <1>3, <1>4, <1>5, <1>7, <2>1 DEF Link, Spend
<1>8. ASSUME NEW n \in Node, NEW m \in Node, LastRelayExpires(n, m)
      PROVE  FInv'
  <2>1. /\ last_relay' = [last_relay EXCEPT ![n][m] = None]
        /\ UNCHANGED <<netvars, ufvars, selected_route, sent, tun>>
        /\ spent' = spent + 1
    BY <1>8 DEF LastRelayExpires, May, Spend
  <2>2. last_relay \in [Node -> [Node -> Node \cup {None}]]
    BY <1>1 DEF PfType
  <2>3. last_relay' \in [Node -> [Node -> Node \cup {None}]]
    BY <2>1, <2>2
  <2>4. PfType'
    BY <1>1, <2>1, <2>3 DEF PfType
  <2>5. \A k, j \in Node : last_relay'[k][j] # None => last_relay'[k][j] = last_relay[k][j]
    BY <2>1, <2>2
  <2>6. AnswersTheSameWay'
    BY <2>1, <2>5 DEF FInv, AnswersTheSameWay
  <2>7. InClear'
    BY <2>1 DEF FInv, InClear
  <2> QED
    BY <1>1, <1>2, <1>5, <2>1, <2>4, <2>6, <2>7
<1>9. ASSUME NEW n \in Node, NEW m \in Node, Expire(n, m)
      PROVE  FInv'
  <2>1. /\ UfExpires(n, m) /\ UNCHANGED <<netvars, pfvars>> /\ spent' = spent + 1
    BY <1>9 DEF Expire, May, Spend
  <2>2. UfType'
    <3>1. CASE uf_recent' = [uf_recent EXCEPT ![n][m] = FALSE] /\ UNCHANGED uf_array
      BY <1>1, <2>1, <3>1, PutPut DEF UfType, UfExpires
    <3>2. CASE \E i \in 1 .. ArraySize :
                 uf_array' = [uf_array EXCEPT ![n][m][i].live = FALSE]
               /\ UNCHANGED uf_recent
      <4>1. PICK i \in 1 .. ArraySize :
              uf_array' = [uf_array EXCEPT ![n][m][i].live = FALSE]
        BY <3>2
      <4>2. uf_array' \in [Node -> [Node -> [1 .. ArraySize -> Slot]]]
        BY <1>1, <4>1, SlotExpires DEF UfType
      <4> QED
        BY <1>1, <2>1, <3>2, <4>2 DEF UfType, UfExpires
    <3> QED
      BY <2>1, <3>1, <3>2 DEF UfExpires
  <2> QED
    BY <1>1, <1>2, <1>3, <1>4, <2>1, <2>2
<1>10. ASSUME NEW n \in Node, NEW k \in Node, NEW m \in Node, Announce(n, k, m)
       PROVE  FInv'
  <2>0. /\ notes' = notes \cup {<<n, k, m>>}
        /\ UNCHANGED <<uf_nodeid, uf_recent, uf_array, send_seq, recv_seq>>
    BY <1>10 DEF Announce, SendNotify
  <2>1. UfType'
    <3>1. <<n, k, m>> \in Node \X Node \X Node
      OBVIOUS
    <3>2. notes' \subseteq Node \X Node \X Node
      BY <1>1, <2>0, <3>1 DEF UfType
    <3> QED
      BY <1>1, <2>0, <3>2 DEF UfType
  <2> QED
    BY <1>1, <1>2, <1>3, <1>4, <1>10, <2>1 DEF Announce, Spend
<1>11. ASSUME NEW n \in Node, NEW k \in Node, NEW m \in Node, Announced(n, k, m)
       PROVE  FInv'
  <2>1. /\ UNCHANGED <<netvars, pfvars, spent>> /\ HandleNotify(n, k, m)
    BY <1>11 DEF Announced
  <2>2. uf_array' \in [Node -> [Node -> [1 .. ArraySize -> Slot]]]
    <3>1. CASE UNCHANGED uf_array
      BY <1>1, <3>1 DEF UfType
    <3>2. CASE \E i \in SlotsFor(uf_array[n][m], k) :
                 uf_array' = [uf_array EXCEPT ![n][m][i] = [uuid64 |-> k, live |-> TRUE]]
      <4>1. PICK i :
              uf_array' = [uf_array EXCEPT ![n][m][i] = [uuid64 |-> k, live |-> TRUE]]
        BY <3>2
      <4>2. uf_array \in [Node -> [Node -> [1 .. ArraySize -> Slot]]]
        BY <1>1 DEF UfType
      <4> QED
        BY <4>1, <4>2, SlotTaken
    <3> QED
      BY <2>1, <3>1, <3>2 DEF HandleNotify
  <2>3. UfType'
    BY <1>1, <2>1, <2>2 DEF UfType, HandleNotify
  <2> QED
    BY <1>1, <1>2, <1>3, <1>4, <2>1, <2>3
<1> QED
  BY <1>6, <1>7, <1>8, <1>9, <1>10, <1>11

-----------------------------------------------------------------------------
(* The theorems.                                                           *)

LEMMA InitInv == Init => FInv
<1> SUFFICES ASSUME Init PROVE FInv
  OBVIOUS
<1>1. conf \in DOMAIN Conf /\ net = {}
  BY DEF Init
<1>2. link \in [Node -> [Node -> Links]] /\ fwd_cur \in [Node -> Nat]
  <2>1. \A n \in Node : Len(Cf.fwd_node_ring[n]) \in Nat
    BY <1>1, CfNode, LenProperties
  <2>3. Cf.first_link \in [Node -> [Node -> Links]]
    BY <1>1, Config DEF ConfType
  <2> QED
    BY <2>1, <2>3 DEF Init
<1>3. UfType
  BY DEF Init, UfInit, UfType, EmptySlot, Slot
<1>4. PfType
  BY EmptySeq, LimitAssumption DEF Init, PfInit, PfType
<1>5. InClear /\ AnswersTheSameWay
  BY DEF Init, PfInit, InClear, AnswersTheSameWay
<1> QED
  BY <1>1, <1>2, <1>3, <1>4, <1>5 DEF FInv, TypeOK, Init

LEMMA StepInv == FInv /\ [Next]_vars => FInv'
<1> SUFFICES ASSUME FInv, [Next]_vars PROVE FInv'
  OBVIOUS
<1>1. CASE UNCHANGED vars
  <2>1. UNCHANGED <<conf, link, fwd_cur, net, spent, last_relay, tun>>
        /\ UNCHANGED <<ufvars, pfvars>>
    BY <1>1 DEF vars
  <2>2. \A g \in net' : Good(g)'
    BY <2>1, GoodStays DEF FInv
  <2>3. TypeOK'
    BY <2>1 DEF FInv, TypeOK, UfType, PfType
  <2> QED
    BY <2>1, <2>2, <2>3, NothingDelivered DEF FInv, Delivered
<1>2. ASSUME NEW n \in Node, NEW d \in Node, NEW proto, FromTun(n, d, proto)
      PROVE  FInv'
  BY <1>2, TunStep
<1>3. ASSUME NEW f \in net, FromInet(f)
      PROVE  FInv'
  <2>1. InetFrame(f.to, f, net \ {f}) /\ UNCHANGED spent
    BY <1>3 DEF FromInet
  <2> QED
    BY <2>1, InetStep
<1>4. ASSUME NEW f \in net, FromInetAgain(f)
      PROVE  FInv'
  <2>1. InetFrame(f.to, f, net) /\ spent' = spent + 1
    BY <1>4 DEF FromInetAgain, May, Spend
  <2> QED
    BY <2>1, InetStep
<1> QED
  BY <1>1, <1>2, <1>3, <1>4, OtherStep DEF Next

LEMMA Invariant == Spec => []FInv
BY InitInv, StepInv, PTL DEF Spec

(* Types, for any networks.                                                *)
THEOREM TypeCorrect == Spec => []TypeOK
<1>1. FInv => TypeOK
  BY DEF FInv
<1> QED
  BY <1>1, Invariant, PTL

(* No frame is sent more than MaxTtl times, whatever nodes choose each     *)
(* other as the next hop, and however links and announcements change.      *)
THEOREM BoundedHops == Spec => []HopsBounded
<1>1. FInv => HopsBounded
  <2> SUFFICES ASSUME FInv, NEW f \in net PROVE Len(f.path) <= MaxTtl
    BY DEF HopsBounded
  <2>1. Good(f) /\ conf \in DOMAIN Conf
    BY DEF FInv, TypeOK
  <2>2. Len(f.path) \in Nat /\ f.ttl \in Nat
    BY <2>1, LenProperties DEF Good, FT, FrameType
  <2>3. CASE IsRelay(f)
    BY <2>1, <2>3, RelayLast
  <2>4. CASE ~IsRelay(f)
    <3>1. OnItsOwn(f)
      BY <2>1, <2>4 DEF Good
    <3>2. /\ f.ttl >= 1
          /\ Len(f.path) \in {1, 2} \/ Len(f.path) + f.ttl <= MaxTtl + 1
      BY <3>1 DEF OnItsOwn
    <3>3. MaxTtl \in Nat /\ MaxTtl >= 2
      BY LimitAssumption
    <3>4. \A x, t \in Nat : t >= 1 /\ (x \in {1, 2} \/ x + t <= MaxTtl + 1) => x <= MaxTtl
      BY <3>3
    <3> QED
      BY <2>2, <3>2, <3>4
  <2> QED
    BY <2>3, <2>4
<1> QED
  BY <1>1, Invariant, PTL

(* Every hop of a relay route can read what it gets.                       *)
THEOREM ReadableByNext == Spec => []NextHopReads
<1>1. FInv => NextHopReads
  BY RelayLast DEF FInv, TypeOK, NextHopReads
<1> QED
  BY <1>1, Invariant, PTL

(* Whatever way a packet came, no layer of encryption is left on it.       *)
THEOREM PacketsInClear == Spec => []InClear
<1>1. FInv => InClear
  BY DEF FInv
<1> QED
  BY <1>1, Invariant, PTL

(* The relay to answer through is that of the last packet.                 *)
THEOREM AnswerWay == Spec => []AnswersTheSameWay
<1>1. FInv => AnswersTheSameWay
  BY DEF FInv
<1> QED
  BY <1>1, Invariant, PTL

-----------------------------------------------------------------------------
(* What steps do to the TUN devices, the windows and the marks of frames.  *)

(* A frame that n takes for a copy it has not had.                         *)
TakesCopy(n, f) ==
  /\ f.sub = {"multi_path"} /\ n = f.dst /\ Knows(n, f.src)
  /\ IsNew(recv_seq[n], f.foot.seq)

WritesOf(f) ==
  \/ UNCHANGED tun
  \/ f.to = f.dst /\ ToTun(f.to, f, Received(f.to, f))

LEMMA InetWrites ==
  ASSUME NEW f, NEW rest, InetFrame(f.to, f, rest)
  PROVE  /\ conf' = conf /\ WritesOf(f)
         /\ TakesCopy(f.to, f) =>
              recv_seq' = [recv_seq EXCEPT ![f.to] =
                             Remembered(recv_seq[f.to], f.foot.seq)]
         /\ ~TakesCopy(f.to, f) =>
              UNCHANGED recv_seq /\ (f.sub = {"multi_path"} => UNCHANGED tun)
<1> DEFINE n == f.to
<1>1. ASSUME Filter(n, f, rest) PROVE WritesOf(f)
  BY <1>1 DEF Filter, WritesOf
<1>2. conf' = conf
  BY DEF InetFrame
<1>3. CASE f.sub = {"multi_path"}
  <2>1. MultiPathInet(n, f, rest)
    BY <1>3 DEF InetFrame
  <2>2. CASE TakesCopy(n, f)
    BY <1>1, <1>2, <2>1, <2>2 DEF MultiPathInet, TakesCopy
  <2>3. CASE ~TakesCopy(n, f)
    BY <1>2, <1>3, <2>1, <2>3 DEF MultiPathInet, TakesCopy, WritesOf
  <2> QED
    BY <2>2, <2>3
<1>4. CASE f.sub = {"unified"}
  <2>1. UNCHANGED recv_seq /\ (UNCHANGED tun \/ Filter(n, f, rest))
    BY <1>4 DEF InetFrame
  <2> QED
    BY <1>1, <1>2, <1>4, <2>1 DEF WritesOf, TakesCopy
<1>5. CASE f.sub \notin {{"unified"}, {"multi_path"}}
  <2>1. UNCHANGED recv_seq /\ Filter(n, f, rest)
    BY <1>5 DEF InetFrame
  <2> QED
    BY <1>1, <1>2, <1>5, <2>1 DEF TakesCopy
<1> QED
  BY <1>3, <1>4, <1>5

LEMMA ElseWrites ==
  ASSUME [Next]_vars, ~ \E f \in net : FromInet(f) \/ FromInetAgain(f)
  PROVE  UNCHANGED <<conf, tun, recv_seq>>
<1>1. ASSUME NEW n, NEW d, NEW proto, FromTun(n, d, proto)
      PROVE  UNCHANGED <<conf, tun, recv_seq>>
  <2>1. UNCHANGED <<conf, tun>> /\ (TunRelay(n, d) \/ \E way : TunForward(n, d, way, proto))
    BY <1>1 DEF FromTun, TunFrame
  <2> QED
    BY <2>1 DEF TunRelay, TunForward
<1> QED
  BY <1>1 DEF Next, vars, Lose, Link, LastRelayExpires, Expire, UfExpires,
              Announce, Announced, SendNotify, HandleNotify

(* The entry a frame makes.                                                *)
LEMMA Written1 ==
  ASSUME FInv, NEW f, Good(f), NEW n \in Node, ToTun(n, f, Received(n, f))
  PROVE  \E w \in Written :
           /\ tun' = [tun EXCEPT ![n] = Append(tun[n], w)]
           /\ w.src = f.src /\ w.kind = f.sub /\ w.seq = f.foot.seq
           /\ w.path = f.path
<1> DEFINE r == Received(n, f)
           w == [id |-> r.id, src |-> r.src, kind |-> f.sub, seq |-> f.foot.seq,
                 inner |-> Opened(n, f, r), path |-> r.path]
<1>1. conf \in DOMAIN Conf /\ f \in FT
  BY DEF FInv, TypeOK, Good
<1>2. f \in FT
  BY <1>1
<1>3. /\ r \in FT /\ r.id = f.id /\ r.src = f.src /\ r.inner = f.inner
      /\ r.path = f.path
  BY <1>1, <1>2, ReceivedFields
<1> HIDE DEF r
<1>4. Opened(n, f, r) \in SUBSET SUBSET Node
  BY <1>3 DEF Opened, Crypted, Layer, FT, FrameType
<1>5. w \in Written
  BY <1>2, <1>3, <1>4 DEF Written, FT, FrameType
<1>6. tun' = [tun EXCEPT ![n] = Append(tun[n], w)]
  BY DEF ToTun, r
<1> QED
  BY <1>3, <1>5, <1>6

LEMMA Appended ==
  ASSUME tun \in [Node -> Seq(Written)], NEW n \in Node, NEW w \in Written,
         tun' = [tun EXCEPT ![n] = Append(tun[n], w)],
         NEW k \in Node, NEW i \in 1 .. Len(tun'[k])
  PROVE  \/ i \in 1 .. Len(tun[k]) /\ tun'[k][i] = tun[k][i]
         \/ k = n /\ i = Len(tun[n]) + 1 /\ tun'[k][i] = w
<1>1. /\ tun[n] \in Seq(Written) /\ Len(tun[n]) \in Nat
      /\ Len(Append(tun[n], w)) = Len(tun[n]) + 1
      /\ \A j \in 1 .. Len(tun[n]) : Append(tun[n], w)[j] = tun[n][j]
      /\ Append(tun[n], w)[Len(tun[n]) + 1] = w
  BY AppendProperties, LenProperties
<1>2. CASE k # n
  BY <1>2
<1>3. CASE k = n
  <2>1. tun'[k] = Append(tun[n], w)
    BY <1>3
  <2> QED
    BY <1>1, <1>3, <2>1
<1> QED
  BY <1>2, <1>3

-----------------------------------------------------------------------------
(* Relay routes: no relay of a route is its destination.                   *)

NoDetour ==
  \A c \in Range(Conf), n, d \in Node :
    \A k \in 1 .. Len(c.route_node[n][d]) : d \notin Range(c.route_node[n][d][k])

LEMMA ReverseProperties ==
  ASSUME NEW R \in Seq(Node)
  PROVE  /\ Reverse(R) \in Seq(Node) /\ Len(Reverse(R)) = Len(R)
         /\ \A i \in 1 .. Len(R) : Reverse(R)[i] = R[Len(R) - i + 1]
<1> DEFINE L == Len(R)
<1>1. L \in Nat
  BY LenProperties
<1>2. \A i \in 1 .. L : R[i] \in Node
  BY ElementOfSeq
<1> HIDE DEF L
<1>3. \A i \in 1 .. L : L - i + 1 \in 1 .. L
  BY <1>1
<1>4. Reverse(R) \in [1 .. L -> Node]
  BY <1>1, <1>2, <1>3 DEF Reverse, L
<1>5. Reverse(R) \in Seq(Node)
  BY <1>1, <1>4, SeqDef
<1>6. DOMAIN Reverse(R) = 1 .. Len(Reverse(R)) /\ Len(Reverse(R)) \in Nat
  BY <1>5, LenProperties
<1>7. 1 .. L = 1 .. Len(Reverse(R))
  BY <1>4, <1>6
<1>8. Len(Reverse(R)) = L
  <2>1. \A a, b \in Nat : 1 .. a = 1 .. b => a = b
    <3> SUFFICES ASSUME NEW a \in Nat, NEW b \in Nat, 1 .. a = 1 .. b, a < b
                 PROVE  FALSE
      OBVIOUS
    <3>1. b \in 1 .. b /\ b \notin 1 .. a
      OBVIOUS
    <3> QED
      BY <3>1
  <2>2. L \in Nat /\ Len(Reverse(R)) \in Nat
    BY <1>1, <1>6
  <2> DEFINE m == Len(Reverse(R))
  <2> HIDE DEF m
  <2>3. m \in Nat /\ 1 .. L = 1 .. m
    BY <1>7, <2>2 DEF m
  <2>4. m = L
    BY <1>1, <2>1, <2>3
  <2> QED
    BY <2>4 DEF m
<1>9. \A i \in 1 .. L : Reverse(R)[i] = R[L - i + 1]
  BY DEF Reverse, L
<1> QED
  BY <1>5, <1>8, <1>9 DEF L

LEMMA ArrivedAlongRoute ==
  ASSUME NoDetour, FInv, NEW f, Good(f), IsRelay(f), f.to = f.dst
  PROVE  \E k \in 1 .. Len(Cf.route_node[f.src][f.dst]) :
           f.path = <<f.src>> \o Reverse(Cf.route_node[f.src][f.dst][k])
<1>1. /\ conf \in DOMAIN Conf /\ f.ids \in Seq(Node) /\ f.dst \in Node
      /\ f.src \in Node /\ f.path \in Seq(Node)
  BY DEF Good, FT, FrameType, FInv, TypeOK
<1>2. PICK k \in 1 .. Len(Cf.route_node[f.src][f.dst]) :
        RelayAs(f, Cf.route_node[f.src][f.dst][k])
  BY DEF Good, OnItsRoute
<1> DEFINE R == Cf.route_node[f.src][f.dst][k]
           L == Len(R)
           p == <<f.src>> \o Reverse(R)
<1>3. R \in Seq(Node) /\ L \in Nat
  BY <1>1, <1>2, CfRoute, LenProperties
<1>4. f.dst \notin Range(R)
  <2>1. Cf \in Range(Conf)
    BY <1>1 DEF Range, Cf
  <2> QED
    BY <1>1, <2>1 DEF NoDetour
<1>5. \A i \in 1 .. L : R[i] # f.dst
  BY <1>3, <1>4, LenProperties DEF Range
<1>6. /\ Full(f, R) \in Seq(Node)
      /\ \A i \in 1 .. L : Full(f, R)[i] = R[i]
      /\ Full(f, R)[L + 1] = f.src
  <2> DEFINE s == f.src
             Q == R
             A == Append(Q, s)
  <2>1. s \in Node /\ Q \in Seq(Node)
    BY <1>1, <1>3
  <2> HIDE DEF s, Q
  <2>2. /\ A \in Seq(Node)
        /\ \A i \in 1 .. Len(Q) : A[i] = Q[i]
        /\ A[Len(Q) + 1] = s
    BY <2>1, AppendProperties
  <2> HIDE DEF A
  <2>3. Full(f, R) = A
    BY DEF Full, A, Q, s
  <2>4. Len(Q) = L
    BY DEF Q
  <2> QED
    BY <2>2, <2>3, <2>4 DEF Q, s
<1>7. /\ f.ttl \in 1 .. L + 1
      /\ \A i \in 1 .. f.ttl : f.ids[i] = Full(f, R)[i]
      /\ Len(f.path) = L + 2 - f.ttl
      /\ \A i \in 1 .. Len(f.path) : f.path[i] = Full(f, R)[L + 2 - i]
      /\ f.to = IF f.ttl = 1 THEN f.dst ELSE f.ids[f.ttl - 1]
  BY <1>2 DEF RelayAs
<1> HIDE DEF R, L
<1>8. f.ttl = 1
  <2> SUFFICES ASSUME f.ttl # 1 PROVE FALSE
    OBVIOUS
  <2>1. f.ttl - 1 \in 1 .. L /\ f.ttl - 1 \in 1 .. f.ttl
    BY <1>3, <1>7
  <2>2. f.to = R[f.ttl - 1]
    BY <1>6, <1>7, <2>1
  <2> QED
    BY <1>5, <2>1, <2>2
<1>9. Len(f.path) = L + 1
  BY <1>3, <1>7, <1>8
<1>10. /\ Reverse(R) \in Seq(Node) /\ Len(Reverse(R)) = L
       /\ \A i \in 1 .. L : Reverse(R)[i] = R[L - i + 1]
  BY <1>3, ReverseProperties DEF L
<1>11. <<f.src>> \in Seq(Node) /\ Len(<<f.src>>) = 1 /\ <<f.src>>[1] = f.src
  <2> DEFINE s == f.src
  <2>1. s \in Node
    BY <1>1
  <2> HIDE DEF s
  <2>2. <<s>> \in Seq(Node) /\ Len(<<s>>) = 1 /\ <<s>>[1] = s
    BY <2>1
  <2> QED
    BY <2>2 DEF s
<1>12. /\ p \in Seq(Node) /\ Len(p) = L + 1
       /\ \A i \in 1 .. L + 1 : p[i] = IF i <= 1 THEN <<f.src>>[i] ELSE Reverse(R)[i - 1]
  BY <1>3, <1>10, <1>11, ConcatProperties
<1> HIDE DEF p
<1>13. ASSUME NEW i \in 1 .. L + 1
       PROVE  f.path[i] = p[i]
  <2>1. f.path[i] = Full(f, R)[L + 2 - i]
    BY <1>7, <1>9
  <2>2. CASE i = 1
    <3>1. L + 2 - i = L + 1 /\ p[1] = f.src
      BY <1>3, <1>11, <1>12, <2>2
    <3> QED
      BY <1>6, <2>1, <2>2, <3>1
  <2>3. CASE i # 1
    <3>1. i - 1 \in 1 .. L /\ L + 2 - i \in 1 .. L /\ L - (i - 1) + 1 = L + 2 - i
      BY <1>3, <2>3
    <3>2. p[i] = Reverse(R)[i - 1]
      BY <1>3, <1>12, <2>3
    <3>3. p[i] = R[L + 2 - i]
      BY <1>10, <3>1, <3>2
    <3> QED
      BY <1>6, <2>1, <3>1, <3>3
  <2> QED
    BY <2>2, <2>3
<1>14. f.path = p
  BY <1>1, <1>3, <1>9, <1>12, <1>13, SeqEqual
<1> QED
  BY <1>2, <1>14 DEF p, R

(* A packet came the way of one of its routes, in the order of its relays. *)
THEOREM RoutesFollowed ==
  ASSUME NoDetour
  PROVE  Spec => []FollowsRoute
<1>1. Init => FollowsRoute
  BY DEF Init, PfInit, FollowsRoute
<1>2. ASSUME FInv, FollowsRoute, [Next]_vars
      PROVE  FollowsRoute'
  <2>0. conf \in DOMAIN Conf /\ tun \in [Node -> Seq(Written)]
        /\ \A f \in net : Good(f)
    BY <1>2 DEF FInv, TypeOK, PfType
  <2>1. ASSUME UNCHANGED <<conf, tun>>
        PROVE  FollowsRoute'
    <3>1. Cf' = Cf
      BY <2>1 DEF Cf
    <3> QED
      BY <1>2, <2>1, <3>1 DEF FollowsRoute
  <2>2. ASSUME NEW f \in net, NEW rest, InetFrame(f.to, f, rest)
        PROVE  FollowsRoute'
    <3>1. conf' = conf /\ WritesOf(f) /\ Good(f)
      BY <2>0, <2>2, InetWrites
    <3>2. CASE f.to = f.dst /\ ToTun(f.to, f, Received(f.to, f))
      <4> DEFINE n == f.dst
      <4>1. n \in Node
        BY <3>1 DEF Good, FT, FrameType
      <4>2. PICK w \in Written :
              /\ tun' = [tun EXCEPT ![n] = Append(tun[n], w)]
              /\ w.src = f.src /\ w.kind = f.sub /\ w.path = f.path
        BY <1>2, <3>1, <3>2, <4>1, Written1
      <4>3. Cf' = Cf
        BY <3>1 DEF Cf
      <4> SUFFICES ASSUME NEW k \in Node, NEW i \in 1 .. Len(tun'[k]),
                          "relay" \in tun'[k][i].kind
                   PROVE  \E j \in 1 .. Len(Cf.route_node[tun'[k][i].src][k]) :
                            tun'[k][i].path = <<tun'[k][i].src>> \o
                              Reverse(Cf.route_node[tun'[k][i].src][k][j])
        BY <4>3 DEF FollowsRoute
      <4>4. CASE i \in 1 .. Len(tun[k]) /\ tun'[k][i] = tun[k][i]
        BY <1>2, <4>4 DEF FollowsRoute
      <4>5. CASE k = n /\ tun'[k][i] = w
        <5> DEFINE v == tun'[k][i]
        <5>1. v.src = f.src /\ v.kind = f.sub /\ v.path = f.path /\ k = f.dst
          BY <4>2, <4>5
        <5>2. "relay" \in v.kind
          OBVIOUS
        <5> HIDE DEF v
        <5>3. IsRelay(f)
          BY <5>1, <5>2 DEF IsRelay
        <5>4. PICK j \in 1 .. Len(Cf.route_node[f.src][f.dst]) :
                f.path = <<f.src>> \o Reverse(Cf.route_node[f.src][f.dst][j])
          BY <1>2, <3>1, <3>2, <5>3, ArrivedAlongRoute
        <5>5. \E h \in 1 .. Len(Cf.route_node[v.src][k]) :
                v.path = <<v.src>> \o Reverse(Cf.route_node[v.src][k][h])
          BY <5>1, <5>4
        <5> QED
          BY <5>5 DEF v
      <4>6. tun \in [Node -> Seq(Written)]
            /\ tun' = [tun EXCEPT ![n] = Append(tun[n], w)]
        BY <2>0, <4>2
      <4> HIDE DEF n
      <4>7. \/ i \in 1 .. Len(tun[k]) /\ tun'[k][i] = tun[k][i]
            \/ k = n /\ i = Len(tun[n]) + 1 /\ tun'[k][i] = w
        BY <4>1, <4>6, Appended
      <4> QED
        BY <4>4, <4>5, <4>7
    <3> QED
      BY <2>1, <3>1, <3>2 DEF WritesOf
  <2> QED
    BY <1>2, <2>1, <2>2, ElseWrites DEF FromInet, FromInetAgain
<1> QED
  BY <1>1, <1>2, Invariant, PTL DEF Spec

-----------------------------------------------------------------------------
(* Windows.                                                                *)

(* Nodes that send over several paths have no forward nodes.               *)
OneMark ==
  \A c \in Range(Conf), n \in Node :
    c.unified_forwarding[n] \in {"super", "hyper"} => c.fwd_node_ring[n] = <<>>

(* Copies are recognised by their type, which has this mark alone.         *)
Alone(f) == "multi_path" \in f.sub => f.sub = {"multi_path"}

(* A number that is in the window, or is too old for it.                   *)
Past(array, s) ==
  (\E j \in DOMAIN array : array[j] = s) \/ (\A j \in DOMAIN array : s < array[j])

CopiesPast ==
  \A n \in Node : \A i \in 1 .. Len(tun[n]) :
    "multi_path" \in tun[n][i].kind => Past(recv_seq[n], tun[n][i].seq)

OnceInv == (\A f \in net : Alone(f)) /\ CopiesPast /\ WrittenOnce

LEMMA WindowMoves ==
  ASSUME NEW array \in [1 .. SeqArraySize -> Nat], NEW seq \in Nat, IsNew(array, seq)
  PROVE  /\ Past(Remembered(array, seq), seq) /\ ~Past(array, seq)
         /\ \A s \in Nat : Past(array, s) => Past(Remembered(array, seq), s)
<1> DEFINE D == 1 .. SeqArraySize
           m == MinIdx(array)
           A == Remembered(array, seq)
<1>1. m \in D /\ \A j \in D : array[m] <= array[j]
  <2> DEFINE T == {array[j] : j \in D}
  <2>1. T \in SUBSET Nat /\ T # {}
    <3>1. 1 \in D
      BY SizeAssumption
    <3> QED
      BY <3>1
  <2>2. PICK t \in T : \A y \in T : t <= y
    <3> HIDE DEF T
    <3> QED
      BY <2>1, LeastExists
  <2>3. \E i \in D : \A j \in D : array[i] <= array[j]
    BY <2>2
  <2>4. DOMAIN array = D
    OBVIOUS
  <2> QED
    BY <2>3, <2>4 DEF MinIdx
<1>2. (\A j \in D : array[j] # seq) /\ seq >= array[m] /\ DOMAIN array = D
  BY DEF IsNew
<1>3. DOMAIN A = D /\ A[m] = seq /\ \A j \in D : j # m => A[j] = array[j]
  BY <1>1 DEF Remembered
<1>4. \A j \in D : array[j] \in Nat /\ A[j] \in Nat
  BY DEF Remembered
<1> HIDE DEF D, m, A
<1>5. Past(A, seq)
  BY <1>1, <1>3 DEF Past
<1>6. ~Past(array, seq)
  <2>1. ~(seq < array[m])
    BY <1>1, <1>2, <1>4
  <2> QED
    BY <1>1, <1>2, <2>1 DEF Past
<1>7. ASSUME NEW s \in Nat, Past(array, s)
      PROVE  Past(A, s)
  <2>1. CASE \E j \in D : j # m /\ array[j] = s
    BY <1>3, <2>1 DEF Past
  <2>2. CASE array[m] = s /\ \A j \in D : j # m => array[j] # s
    <3>1. ASSUME NEW j \in D PROVE s < A[j]
      <4>1. CASE j = m
        BY <1>1, <1>2, <1>3, <1>4, <2>2, <4>1
      <4>2. CASE j # m
        <5>1. array[m] <= array[j] /\ array[j] # s /\ array[j] \in Nat /\ A[j] = array[j]
          BY <1>1, <1>3, <1>4, <2>2, <4>2
        <5> QED
          BY <2>2, <5>1
      <4> QED
        BY <4>1, <4>2
    <3> QED
      BY <1>3, <3>1 DEF Past
  <2>3. CASE \A j \in D : s < array[j]
    <3>1. s < array[m] /\ array[m] \in Nat
      BY <1>1, <1>4, <2>3
    <3>2. s < seq
      BY <1>2, <3>1
    <3>3. \A j \in D : s < A[j]
      BY <1>3, <2>3, <3>2
    <3> QED
      BY <1>3, <3>3 DEF Past
  <2> QED
    BY <1>2, <1>7, <2>1, <2>2, <2>3 DEF Past
<1> QED
  BY <1>5, <1>6, <1>7 DEF A

LEMMA TunAlone ==
  ASSUME OneMark, FInv, \A f \in net : Alone(f),
         NEW n \in Node, NEW d \in Node, NEW proto, FromTun(n, d, proto)
  PROVE  \A g \in net' : Alone(g)
<1> DEFINE sub == FirstChoice(n, d).sub
<1>1. conf \in DOMAIN Conf /\ TypeOK
  BY DEF FInv, TypeOK
<1>2. sub \in SUBSET {"std"}
  BY <1>1, WayType
<1>3. Cf.unified_forwarding[n] \in {"super", "hyper"} => sub = {}
  <2>1. Cf \in Range(Conf)
    BY <1>1 DEF Range, Cf
  <2>2. Cf.unified_forwarding[n] \in {"super", "hyper"} => Cf.fwd_node_ring[n] = <<>>
    BY <2>1 DEF OneMark
  <2>3. Cf.fwd_node_ring[n] = <<>> => SelectForwardNode(n) = None
    BY DEF SelectForwardNode
  <2> QED
    BY <2>2, <2>3 DEF FirstChoice, Way
<1>4. CASE TunRelay(n, d)
  <2> DEFINE route == Route(n, d)
             hop == route[Len(route)]
             g == Sent(n, hop, [Packet(n, d) EXCEPT
                    !.sub = FirstChoice(n, d).sub \cup {"relay"},
                    !.ids = Append(route, n), !.ttl = Len(route) + 1,
                    !.outer = Layer(n, hop)])
  <2>1. net' = net \cup {g}
    BY <1>4 DEF TunRelay
  <2>2. g.sub = sub \cup {"relay"}
    BY DEF Sent, Packet
  <2> HIDE DEF g
  <2>3. \A h \in net' : h \in net \/ h = g
    BY <2>1
  <2> QED
    BY <1>2, <2>2, <2>3 DEF Alone
<1>5. ASSUME NEW way, way.sub = sub, TunForward(n, d, way, proto)
      PROVE  \A g \in net' : Alone(g)
  <2> DEFINE f == [Packet(n, d) EXCEPT !.sub = way.sub]
             Marked(m, s, ft) ==
               Sent(n, m, [f EXCEPT !.sub = @ \cup {s}, !.foot = ft])
  <2>1. \A m : Sent(n, m, f).sub = sub
    BY <1>5 DEF Sent, Packet
  <2>2. \A m, s, ft : Marked(m, s, ft).sub = sub \cup {s}
    BY <1>5 DEF Sent, Packet
  <2> HIDE DEF f
  <2>3. \/ net' = net
        \/ \E uf : UnifiedTun(n, d, uf, f)
        \/ \E m : net' = net \cup {Sent(n, m, f)}
        \/ /\ Cf.unified_forwarding[n] \in {"super", "hyper"}
           /\ MultiPathTun(n, d, f)
    BY <1>5, Zenon DEF TunForward, f
  <2>4. CASE net' = net
    BY <2>4
  <2>5. CASE \E m : net' = net \cup {Sent(n, m, f)}
    BY <1>2, <2>1, <2>5 DEF Alone
  <2>6. CASE \E uf : UnifiedTun(n, d, uf, f)
    <3>1. PICK uf : \/ net' = net
                    \/ net' = net \cup {Marked(uf, "unified",
                                          [uf |-> uf, seq |-> NextSeq(n, d)])}
      BY <2>6 DEF UnifiedTun
    <3> HIDE DEF Marked
    <3> QED
      BY <1>2, <2>2, <3>1 DEF Alone
  <2>7. CASE /\ Cf.unified_forwarding[n] \in {"super", "hyper"}
             /\ MultiPathTun(n, d, f)
    <3> DEFINE array == uf_array[n][d]
               Copy(uf, to) ==
                 Marked(to, "multi_path", [uf |-> uf, seq |-> NextSeq(n, d)])
    <3>1. PICK held, used :
            net' = net \cup {Copy(held, d)} \cup
                     {Copy(array[i].uuid64, array[i].uuid64) : i \in used}
      BY <2>7 DEF MultiPathTun
    <3>2. \A uf, to : Copy(uf, to).sub = sub \cup {"multi_path"}
      BY <2>2
    <3>3. sub = {}
      BY <1>3, <2>7
    <3> HIDE DEF Copy, Marked
    <3> QED
      BY <3>1, <3>2, <3>3 DEF Alone
  <2> QED
    BY <2>3, <2>4, <2>5, <2>6, <2>7
<1>6. TunRelay(n, d) \/ \E way : way.sub = sub /\ TunForward(n, d, way, proto)
  BY DEF FromTun, TunFrame, Way
<1> QED
  BY <1>4, <1>5, <1>6

LEMMA InetAlone ==
  ASSUME FInv, \A f \in net : Alone(f),
         NEW f \in net, NEW rest \in SUBSET net, InetFrame(f.to, f, rest)
  PROVE  \A g \in net' : Alone(g)
<1> DEFINE n == f.to
           r == Received(n, f)
<1>1. conf \in DOMAIN Conf /\ f \in FT /\ n \in Node
  BY DEF FInv, TypeOK, Good, FT, FrameType
<1>2. r \in FT /\ r.sub = f.sub
  BY <1>1, ReceivedFields
<1>3. \A m : Sent(n, m, f).sub = f.sub /\ Sent(n, m, r).sub = f.sub
             /\ Relayed(n, r, m).sub = f.sub
  <2> HIDE DEF r, n
  <2> QED
    BY <1>1, <1>2 DEF Sent, Relayed, FT, FrameType
<1>4. \A g \in ToInet(n, f, r) : g.sub = f.sub
  <2> HIDE DEF r, n
  <2> QED
    BY <1>3 DEF ToInet
<1>5. \A g \in UnifiedInet(n, f) : g.sub = f.sub
  BY <1>3 DEF UnifiedInet
<1>6. \A g \in net' : g \in rest \/ g \in ToInet(n, f, r) \/ g \in UnifiedInet(n, f)
  BY DEF InetFrame, MultiPathInet, Filter
<1> QED
  BY <1>4, <1>5, <1>6 DEF Alone

(* However many copies of a packet come, in whatever order, one is written, *)
(* where nodes that send over several paths have no forward nodes.         *)
THEOREM CopiesOnce ==
  ASSUME OneMark
  PROVE  Spec => []WrittenOnce
<1>1. Init => OnceInv
  BY DEF Init, PfInit, OnceInv, CopiesPast, WrittenOnce
<1>2. ASSUME FInv, OnceInv, [Next]_vars
      PROVE  OnceInv'
  <2>0. /\ tun \in [Node -> Seq(Written)] /\ \A f \in net : Good(f)
        /\ recv_seq \in [Node -> [1 .. SeqArraySize -> Nat]]
    BY <1>2 DEF FInv, TypeOK, PfType, UfType
  <2>1. ASSUME UNCHANGED <<tun, recv_seq>>
        PROVE  (CopiesPast /\ WrittenOnce)'
    BY <1>2, <2>1 DEF OnceInv, CopiesPast, WrittenOnce
  <2>2. ASSUME NEW f \in net, NEW rest \in SUBSET net, InetFrame(f.to, f, rest)
        PROVE  OnceInv'
    <3> DEFINE n == f.to
    <3>1. Good(f) /\ n \in Node /\ f.foot.seq \in Nat
      BY <2>0 DEF Good, FT, FrameType
    <3>2. \A g \in net' : Alone(g)
      BY <1>2, <2>2, InetAlone DEF OnceInv
    <3>3. Alone(f)
      BY <1>2 DEF OnceInv
    <3>4. /\ UNCHANGED tun \/ ToTun(n, f, Received(n, f))
          /\ TakesCopy(n, f) =>
               recv_seq' = [recv_seq EXCEPT ![n] = Remembered(recv_seq[n], f.foot.seq)]
          /\ ~TakesCopy(n, f) =>
               UNCHANGED recv_seq /\ (f.sub = {"multi_path"} => UNCHANGED tun)
      BY <2>2, InetWrites DEF WritesOf
    <3> HIDE DEF n
    <3>5. ASSUME NEW k \in Node, NEW s \in Nat, Past(recv_seq[k], s)
          PROVE  Past(recv_seq'[k], s)
      <4>1. CASE TakesCopy(n, f) /\ k = n
        <5>1. IsNew(recv_seq[n], f.foot.seq) /\ recv_seq[n] \in [1 .. SeqArraySize -> Nat]
          BY <2>0, <3>1, <4>1 DEF TakesCopy
        <5>2. recv_seq'[n] = Remembered(recv_seq[n], f.foot.seq)
          BY <2>0, <3>1, <3>4, <4>1
        <5> QED
          BY <3>1, <3>5, <4>1, <5>1, <5>2, WindowMoves
      <4>2. CASE ~TakesCopy(n, f) \/ k # n
        <5>1. recv_seq'[k] = recv_seq[k]
          BY <2>0, <3>4, <4>2
        <5> QED
          BY <3>5, <5>1
      <4> QED
        BY <4>1, <4>2
    <3>6. \A k \in Node : \A i \in 1 .. Len(tun[k]) : tun[k][i].seq \in Nat
      <4>1. \A k \in Node : tun[k] \in Seq(Written)
        BY <2>0
      <4>2. \A k \in Node : \A i \in 1 .. Len(tun[k]) : tun[k][i] \in Written
        BY <4>1, ElementOfSeq
      <4> QED
        BY <4>2 DEF Written
    <3>7. CASE UNCHANGED tun
      BY <1>2, <3>2, <3>5, <3>6, <3>7 DEF OnceInv, CopiesPast, WrittenOnce
    <3>8. CASE ToTun(n, f, Received(n, f))
      <4>1. PICK w \in Written :
              /\ tun' = [tun EXCEPT ![n] = Append(tun[n], w)]
              /\ w.kind = f.sub /\ w.seq = f.foot.seq
        BY <1>2, <3>1, <3>8, Written1
      <4>2. \A k \in Node : \A i \in 1 .. Len(tun'[k]) :
              \/ i \in 1 .. Len(tun[k]) /\ tun'[k][i] = tun[k][i]
              \/ k = n /\ i = Len(tun[n]) + 1 /\ tun'[k][i] = w
        BY <2>0, <3>1, <4>1, Appended
      <4>3. ASSUME "multi_path" \in w.kind, ~UNCHANGED tun
            PROVE  /\ Past(recv_seq'[n], w.seq) /\ ~Past(recv_seq[n], w.seq)
        <5>1. TakesCopy(n, f)
          BY <3>3, <3>4, <4>1, <4>3 DEF Alone
        <5>2. IsNew(recv_seq[n], f.foot.seq) /\ recv_seq[n] \in [1 .. SeqArraySize -> Nat]
          BY <2>0, <3>1, <5>1 DEF TakesCopy
        <5>3. recv_seq'[n] = Remembered(recv_seq[n], f.foot.seq)
          BY <2>0, <3>1, <3>4, <5>1
        <5> QED
          BY <3>1, <4>1, <5>2, <5>3, WindowMoves
      <4>4. ASSUME ~UNCHANGED tun
            PROVE  CopiesPast'
        <5> SUFFICES ASSUME NEW k \in Node, NEW i \in 1 .. Len(tun'[k]),
                            "multi_path" \in tun'[k][i].kind
                     PROVE  Past(recv_seq'[k], tun'[k][i].seq)
          BY DEF CopiesPast
        <5>1. CASE i \in 1 .. Len(tun[k]) /\ tun'[k][i] = tun[k][i]
          BY <1>2, <3>5, <3>6, <5>1 DEF OnceInv, CopiesPast
        <5>2. CASE k = n /\ tun'[k][i] = w
          BY <4>3, <4>4, <5>2
        <5> QED
          BY <4>2, <5>1, <5>2
      <4>5. ASSUME ~UNCHANGED tun
            PROVE  WrittenOnce'
        <5> SUFFICES ASSUME NEW k \in Node,
                            NEW i \in 1 .. Len(tun'[k]), NEW j \in 1 .. Len(tun'[k]),
                            "multi_path" \in tun'[k][i].kind,
                            "multi_path" \in tun'[k][j].kind,
                            tun'[k][i].src = tun'[k][j].src,
                            tun'[k][i].seq = tun'[k][j].seq
                     PROVE  i = j
          BY DEF WrittenOnce
        <5>1. CASE /\ i \in 1 .. Len(tun[k]) /\ tun'[k][i] = tun[k][i]
                   /\ j \in 1 .. Len(tun[k]) /\ tun'[k][j] = tun[k][j]
          BY <1>2, <5>1 DEF OnceInv, WrittenOnce
        <5>2. CASE /\ i \in 1 .. Len(tun[k]) /\ tun'[k][i] = tun[k][i]
                   /\ k = n /\ tun'[k][j] = w
          BY <1>2, <4>3, <4>5, <5>2 DEF OnceInv, CopiesPast
        <5>3. CASE /\ j \in 1 .. Len(tun[k]) /\ tun'[k][j] = tun[k][j]
                   /\ k = n /\ tun'[k][i] = w
          BY <1>2, <4>3, <4>5, <5>3 DEF OnceInv, CopiesPast
        <5>4. CASE i = Len(tun[n]) + 1 /\ j = Len(tun[n]) + 1
          BY <5>4
        <5> QED
          BY <4>2, <5>1, <5>2, <5>3, <5>4
      <4> QED
        BY <3>2, <3>7, <4>4, <4>5 DEF OnceInv, Alone
    <3> QED
      BY <3>4, <3>7, <3>8
  <2>3. ASSUME ~ \E f \in net : FromInet(f) \/ FromInetAgain(f)
        PROVE  OnceInv'
    <3>1. UNCHANGED <<tun, recv_seq>>
      BY <1>2, <2>3, ElseWrites
    <3>2. \A g \in net' : Alone(g)
      <4>1. ASSUME NEW n \in Node, NEW d \in Node, NEW proto, FromTun(n, d, proto)
            PROVE  \A g \in net' : Alone(g)
        BY <1>2, <4>1, TunAlone DEF OnceInv
      <4>2. ASSUME ~ \E n, d \in Node, proto \in {"tcp", "other"} : FromTun(n, d, proto)
            PROVE  net' \subseteq net
        BY <1>2, <2>3, <4>2 DEF Next, vars, Lose, Link, LastRelayExpires, Expire,
                                UfExpires, Announce, Announced
      <4> QED
        BY <1>2, <4>1, <4>2 DEF OnceInv
    <3> QED
      BY <2>1, <3>1, <3>2 DEF OnceInv, Alone
  <2> QED
    BY <2>2, <2>3 DEF FromInet, FromInetAgain, May
<1>3. OnceInv => WrittenOnce
  BY DEF OnceInv
<1> QED
  BY <1>1, <1>2, <1>3, Invariant, PTL DEF Spec

-----------------------------------------------------------------------------
(* Forced relays.                                                          *)

(* Who forces a relay does not leave it to the filter as well, and has     *)
(* less than MaxRoute routes.                                              *)
ForceAlone ==
  \A c \in Range(Conf), n, d \in Node :
    "force" \in c.node_relay_mode[n][d] =>
      /\ "auto" \notin c.node_relay_mode[n][d]
      /\ Len(c.route_node[n][d]) < MaxRoute

TurnInRange ==
  \A n, d \in Node :
    Forced(n, d) => selected_route[n][d] < Len(Cf.route_node[n][d])

LEMMA ForcedRoutes ==
  ASSUME ForceAlone, conf \in DOMAIN Conf, NEW n \in Node, NEW d \in Node, Forced(n, d)
  PROVE  /\ {"force", "auto"} \cap Cf.node_relay_mode[n][d] = {"force"}
         /\ Len(Cf.route_node[n][d]) \in 1 .. MaxRoute - 1
         /\ \A k \in 1 .. Len(Cf.route_node[n][d]) :
              Len(Cf.route_node[n][d][k]) \in 1 .. MaxRelay
<1> DEFINE routes == Cf.route_node[n][d]
<1>1. Cf \in Range(Conf)
  BY DEF Range, Cf
<1>2. /\ routes \in Seq(Seq(Node)) /\ routes # <<>>
      /\ \A k \in 1 .. Len(routes) : routes[k] \in Seq(Node) /\ routes[k] # <<>>
  BY CfRoute DEF Forced
<1>3. MaxRoute \in Nat /\ Len(routes) < MaxRoute
      /\ \A k \in 1 .. Len(routes) : Len(routes[k]) <= MaxRelay
  BY <1>1, LimitAssumption DEF ForceAlone, Forced
<1>4. {"force", "auto"} \cap Cf.node_relay_mode[n][d] = {"force"}
  BY <1>1 DEF ForceAlone, Forced
<1> HIDE DEF routes
<1>5. \A k \in 1 .. Len(routes) : Len(routes[k]) \in Nat /\ Len(routes[k]) # 0
  BY <1>2, EmptySeq, LenProperties
<1>6. Len(routes) \in Nat /\ Len(routes) # 0
  BY <1>2, EmptySeq, LenProperties
<1>7. MaxRelay \in Nat
  BY LimitAssumption
<1>8. \A k \in 1 .. Len(routes) : Len(routes[k]) \in 1 .. MaxRelay
  BY <1>3, <1>5, <1>7
<1>9. Len(routes) \in 1 .. MaxRoute - 1
  BY <1>3, <1>6
<1> QED
  BY <1>4, <1>8, <1>9 DEF routes

LEMMA ForcedRelays ==
  ASSUME ForceAlone, TypeOK, TurnInRange, NEW n \in Node, NEW d \in Node,
         Forced(n, d), NEW ret
  PROVE  Relays(n, d, ret) /\ NextRoute(n, d) < Len(Cf.route_node[n][d])
<1> DEFINE L == Len(Cf.route_node[n][d])
           at == selected_route[n][d]
<1>1. at \in Nat /\ at < L /\ conf \in DOMAIN Conf
  BY DEF TypeOK, PfType, TurnInRange
<1>2. /\ {"force", "auto"} \cap Cf.node_relay_mode[n][d] = {"force"}
      /\ L \in 1 .. MaxRoute - 1
      /\ \A k \in 1 .. L : Len(Cf.route_node[n][d][k]) \in 1 .. MaxRelay
  BY <1>1, ForcedRoutes
<1>3. MaxRoute \in Nat
  BY LimitAssumption
<1>4. RelayCount(n, d) \in 1 .. MaxRelay
  <2>1. RelayCount(n, d) = Len(Cf.route_node[n][d][at + 1])
    <3>1. at # MaxRoute
      BY <1>1, <1>2, <1>3
    <3> QED
      BY <1>1, <3>1 DEF RelayCount
  <2>2. at + 1 \in 1 .. L
    BY <1>1, <1>2, <1>3
  <2> QED
    BY <1>2, <2>1, <2>2
<1>5. Relays(n, d, ret)
  BY <1>2, <1>4 DEF Relays
<1>6. NextRoute(n, d) < L
  <2> DEFINE next == at + 1
  <2>1. next # MaxRoute /\ 0 < L
    BY <1>1, <1>2, <1>3
  <2>2. NextRoute(n, d) \in {0, at} \/ (NextRoute(n, d) = next /\ next < L)
    BY <2>1 DEF NextRoute
  <2> QED
    BY <1>1, <2>1, <2>2
<1> QED
  BY <1>5, <1>6

LEMMA SentBefore ==
  ASSUME conf \in DOMAIN Conf, NEW f, Good(f)
  PROVE  Len(f.path) \in Nat /\ Len(f.path) >= 1
<1>1. f.path \in Seq(Node) /\ f.src \in Node /\ f.dst \in Node
  BY DEF Good, FT, FrameType
<1>2. Len(f.path) \in Nat
  BY <1>1, LenProperties
<1>3. CASE IsRelay(f)
  <2>1. PICK k \in 1 .. Len(Cf.route_node[f.src][f.dst]) :
          RelayAs(f, Cf.route_node[f.src][f.dst][k])
    BY <1>3 DEF Good, OnItsRoute
  <2> DEFINE L == Len(Cf.route_node[f.src][f.dst][k])
  <2>2. L \in Nat
    BY <1>1, CfRoute, LenProperties
  <2>3. f.ttl \in 1 .. L + 1 /\ Len(f.path) = L + 2 - f.ttl
    BY <2>1 DEF RelayAs
  <2> HIDE DEF L
  <2> QED
    BY <1>2, <2>2, <2>3
<1>4. CASE ~IsRelay(f)
  <2>1. OnItsOwn(f)
    BY <1>4 DEF Good
  <2>2. Len(f.path) \in {1, 2} \/ Len(f.path) >= 1
    BY <2>1 DEF OnItsOwn
  <2> QED
    BY <1>2, <2>2
<1> QED
  BY <1>3, <1>4

LEMMA InetIsLater ==
  ASSUME FInv, NEW f \in net, NEW rest \in SUBSET net, InetFrame(f.to, f, rest),
         NEW g \in net', g \notin net
  PROVE  Len(g.path) > 1
<1> DEFINE n == f.to
           r == Received(n, f)
<1>1. conf \in DOMAIN Conf /\ f \in FT /\ n \in Node /\ Good(f)
      /\ f.path \in Seq(Node)
  BY DEF FInv, TypeOK, Good, FT, FrameType
<1>2. r \in FT /\ r.path = f.path
  BY <1>1, ReceivedFields
<1>3. \A m : /\ Sent(n, m, f).path = Append(f.path, n)
             /\ Sent(n, m, r).path = Append(f.path, n)
             /\ Relayed(n, r, m).path = Append(f.path, n)
  <2> HIDE DEF r, n
  <2> QED
    BY <1>1, <1>2 DEF Sent, Relayed, FT, FrameType
<1>4. \A h \in ToInet(n, f, r) : h.path = Append(f.path, n)
  <2> HIDE DEF r, n
  <2> QED
    BY <1>3 DEF ToInet
<1>5. \A h \in UnifiedInet(n, f) : h.path = Append(f.path, n)
  BY <1>3 DEF UnifiedInet
<1>6. g \in rest \/ g \in ToInet(n, f, r) \/ g \in UnifiedInet(n, f)
  BY DEF InetFrame, MultiPathInet, Filter
<1>7. g.path = Append(f.path, n)
  BY <1>4, <1>5, <1>6
<1>8. Len(Append(f.path, n)) = Len(f.path) + 1
  BY <1>1, AppendProperties
<1>9. Len(f.path) \in Nat /\ Len(f.path) >= 1
  BY <1>1, SentBefore
<1> QED
  BY <1>7, <1>8, <1>9

(* What one packet brings on the network.                                  *)
LEMMA TunBrings ==
  ASSUME FInv, NEW n \in Node, NEW d \in Node, NEW proto, FromTun(n, d, proto)
  PROVE  /\ conf' = conf
         /\ \/ /\ Relays(n, d, FirstChoice(n, d).ret)
               /\ selected_route' = [selected_route EXCEPT ![n][d] = NextRoute(n, d)]
               /\ \A g \in net' : g \in net \/ IsRelay(g)
            \/ /\ ~Relays(n, d, FirstChoice(n, d).ret) /\ UNCHANGED selected_route
               /\ \A g \in net' : g \in net \/ Fresh(g, n, d)
<1> DEFINE first == FirstChoice(n, d)
           way == IF UsesLastRelay(n, d)
                  THEN Way(last_relay[n][d], "next", first.sub) ELSE first
<1>1. /\ TypeOK /\ PfType /\ conf' = conf
      /\ \/ Relays(n, d, first.ret) /\ TunRelay(n, d)
         \/ /\ ~Relays(n, d, first.ret)
            /\ TunForward(n, d, way, proto) /\ UNCHANGED selected_route
  BY DEF FromTun, TunFrame, FInv, TypeOK
<1>2. way.fwd \in Node \cup {None} /\ way.sub \in SUBSET {"std"}
  <2>1. last_relay[n][d] \in Node \cup {None}
    BY <1>1 DEF PfType
  <2> QED
    BY <1>1, <2>1, WayType DEF Way
<1>3. CASE Relays(n, d, first.ret) /\ TunRelay(n, d)
  <2> DEFINE route == Route(n, d)
             hop == route[Len(route)]
             g == Sent(n, hop, [Packet(n, d) EXCEPT
                    !.sub = FirstChoice(n, d).sub \cup {"relay"},
                    !.ids = Append(route, n), !.ttl = Len(route) + 1,
                    !.outer = Layer(n, hop)])
  <2>1. /\ net' = net \cup {g}
        /\ selected_route' = [selected_route EXCEPT ![n][d] = NextRoute(n, d)]
    BY <1>3 DEF TunRelay
  <2>2. IsRelay(g)
    BY DEF Sent, Packet, IsRelay
  <2> HIDE DEF g
  <2> QED
    BY <1>1, <1>3, <2>1, <2>2
<1> HIDE DEF way
<1>4. CASE /\ ~Relays(n, d, first.ret)
           /\ TunForward(n, d, way, proto) /\ UNCHANGED selected_route
  BY <1>1, <1>2, <1>4, TunForwardMakes DEF Made
<1> QED
  BY <1>1, <1>3, <1>4

(* A relay that is forced is used for every packet, whatever links and     *)
(* forward nodes there are, and whichever route's turn it is.              *)
THEOREM ForceHolds ==
  ASSUME ForceAlone
  PROVE  Spec => ForceIsForced
<1> DEFINE A == \A f \in net' \ net :
                  Len(f.path) = 1 /\ Forced(f.src, f.dst) => IsRelay(f)
<1>1. Init => TurnInRange
  <2> SUFFICES ASSUME Init, NEW n \in Node, NEW d \in Node, Forced(n, d)
               PROVE  selected_route[n][d] < Len(Cf.route_node[n][d])
    BY DEF TurnInRange
  <2>1. conf \in DOMAIN Conf /\ selected_route[n][d] = 0
    BY DEF Init, PfInit
  <2>2. Len(Cf.route_node[n][d]) \in 1 .. MaxRoute - 1 /\ MaxRoute \in Nat
    BY <2>1, ForcedRoutes, LimitAssumption
  <2> QED
    BY <2>1, <2>2
<1>2. ASSUME FInv, TurnInRange, [Next]_vars
      PROVE  TurnInRange' /\ A
  <2>0. conf \in DOMAIN Conf /\ TypeOK
        /\ selected_route \in [Node -> [Node -> 0 .. MaxRoute]]
    BY <1>2 DEF FInv, TypeOK, PfType
  <2>1. ASSUME UNCHANGED <<conf, selected_route>>
        PROVE  TurnInRange'
    <3>1. Cf' = Cf
      BY <2>1 DEF Cf
    <3> QED
      BY <1>2, <2>1, <3>1 DEF TurnInRange, Forced
  <2>2. ASSUME NEW n \in Node, NEW d \in Node, NEW proto, FromTun(n, d, proto)
        PROVE  TurnInRange' /\ A
    <3>1. CASE /\ conf' = conf
               /\ Relays(n, d, FirstChoice(n, d).ret)
               /\ selected_route' = [selected_route EXCEPT ![n][d] = NextRoute(n, d)]
               /\ \A g \in net' : g \in net \/ IsRelay(g)
      <4>1. Cf' = Cf
        BY <3>1 DEF Cf
      <4>2. ASSUME NEW k \in Node, NEW e \in Node, Forced(k, e)
            PROVE  selected_route'[k][e] < Len(Cf.route_node[k][e])
        <5>1. CASE k = n /\ e = d
          <6>1. NextRoute(n, d) < Len(Cf.route_node[n][d])
            BY <1>2, <2>0, <4>2, <5>1, ForcedRelays
          <6>2. selected_route'[n][d] = NextRoute(n, d)
            BY <2>0, <3>1
          <6> QED
            BY <5>1, <6>1, <6>2
        <5>2. CASE ~(k = n /\ e = d)
          <6>1. selected_route'[k][e] = selected_route[k][e]
            BY <2>0, <3>1, <5>2
          <6> QED
            BY <1>2, <4>2, <6>1 DEF TurnInRange
        <5> QED
          BY <5>1, <5>2
      <4>3. TurnInRange'
        BY <4>1, <4>2 DEF TurnInRange, Forced
      <4> QED
        BY <3>1, <4>3
    <3>2. CASE /\ conf' = conf
               /\ ~Relays(n, d, FirstChoice(n, d).ret) /\ UNCHANGED selected_route
               /\ \A g \in net' : g \in net \/ Fresh(g, n, d)
      <4>1. ~Forced(n, d)
        BY <1>2, <2>0, <3>2, ForcedRelays
      <4>2. A
        BY <3>2, <4>1 DEF Fresh
      <4> QED
        BY <2>1, <3>2, <4>2
    <3> QED
      BY <1>2, <2>2, <3>1, <3>2, TunBrings
  <2>3. ASSUME NEW f \in net, NEW rest \in SUBSET net, InetFrame(f.to, f, rest)
        PROVE  TurnInRange' /\ A
    <3>1. \A g \in net' \ net : Len(g.path) > 1
      BY <1>2, <2>3, InetIsLater
    <3>2. A
      <4>1. \A x : x > 1 => x # 1
        OBVIOUS
      <4> QED
        BY <3>1, <4>1
    <3>3. UNCHANGED <<conf, selected_route>>
      BY <2>3 DEF InetFrame
    <3> QED
      BY <2>1, <3>2, <3>3
  <2>4. ASSUME ~ \E n, d \in Node, proto \in {"tcp", "other"} : FromTun(n, d, proto),
               ~ \E f \in net : FromInet(f) \/ FromInetAgain(f)
        PROVE  TurnInRange' /\ A
    <3>1. UNCHANGED <<conf, selected_route>> /\ net' \subseteq net
      BY <1>2, <2>4 DEF Next, vars, Lose, Link, LastRelayExpires, Expire,
                        UfExpires, Announce, Announced
    <3> QED
      BY <2>1, <3>1
  <2> QED
    BY <2>2, <2>3, <2>4 DEF FromInet, FromInetAgain
<1>3. TurnInRange /\ FInv /\ [Next]_vars => [A]_vars
  BY <1>2
<1> QED
  BY <1>1, <1>2, <1>3, Invariant, PTL DEF Spec, ForceIsForced
=============================================================================
