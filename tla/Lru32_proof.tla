----------------------------- MODULE Lru32_proof -----------------------------
(***************************************************************************)
(* For every set of keys and values, every size and every hash function:   *)
(* the chains of the hash table are a finite map, the list, the hash and   *)
(* the pools of gnb_lru32_t agree, and the whole is a table in the order   *)
(* of last use.                                                            *)
(***************************************************************************)
EXTENDS Lru32, SequenceTheorems, WellFoundedInduction, TLAPS

ChainRecord == [key : Key, value : Block]

(* A chain has the keys of its bucket only, each of them once.             *)
WellChained(c, b) ==
  \A i \in 1 .. Len(c) :
    /\ Hash!bucket_idx(c[i].key) = b
    /\ \A j \in 1 .. Len(c) : c[i].key = c[j].key => i = j

Buckets ==
  {h \in [0 .. MaxSize - 1 -> Seq(ChainRecord)] :
     \A b \in 0 .. MaxSize - 1 : WellChained(h[b], b)}

LruRecord ==
  [size : Nat, map : Buckets,
   head : Pointer, tail : Pointer, num : Nat,
   pre : [Block -> Pointer], nex : [Block -> Pointer],
   data : [Block -> Pointer],
   dl_node : [Block -> Pointer], kv : [Block -> Key \cup {NULL}],
   udata : [Block -> Pointer], block : [Block -> Value \cup {NULL}],
   lru_node_pool : Seq(Block), dl_node_pool : Seq(Block),
   udata_pool : Seq(Block)]

(* s is what one meets from head along nex, and back along pre.            *)
Chained(l, s) ==
  /\ s \in Seq(Block)
  /\ IsInjective(s)
  /\ l.num = Len(s)
  /\ l.num = 0 => l.head = NULL /\ l.tail = NULL
  /\ l.num # 0 => l.head = s[1] /\ l.tail = s[Len(s)]
  /\ \A i \in 1 .. Len(s) :
       /\ l.pre[s[i]] = IF i = 1 THEN NULL ELSE s[i - 1]
       /\ l.nex[s[i]] = IF i = Len(s) THEN NULL ELSE s[i + 1]

(* A pool has n blocks, those of F, each once.                             *)
Holds(pool, F, n) ==
  /\ pool \in Seq(Block)
  /\ IsInjective(pool)
  /\ Len(pool) = n
  /\ ToSet(pool) = F

(* Each list node of D has an lru node, which has it, a key that leads to  *)
(* that lru node, and a data block; there are no other keys; and what D    *)
(* does not use is in the pools.                                           *)
Filed(l, D) ==
  /\ \A d \in D :
       /\ l.data[d] \in Block
       /\ l.dl_node[l.data[d]] = d
       /\ l.kv[l.data[d]] \in Key
       /\ HashGet(l, l.kv[l.data[d]]) = l.data[d]
       /\ l.udata[l.data[d]] \in Block
       /\ l.block[l.udata[l.data[d]]] \in Value
  /\ \A d, e \in D : l.udata[l.data[d]] = l.udata[l.data[e]] => d = e
  /\ \A k \in Key : HashGet(l, k) # NULL =>
       \E d \in D : l.data[d] = HashGet(l, k) /\ l.kv[l.data[d]] = k

Pooled(l, D) ==
  LET n == MaxSize - l.size
  IN  /\ Holds(l.lru_node_pool, Block \ {l.data[d] : d \in D}, n)
      /\ Holds(l.dl_node_pool, Block \ D, n)
      /\ Holds(l.udata_pool, Block \ {l.udata[l.data[d]] : d \in D}, n)

(* The table is made of the list nodes s, in this order.                   *)
Table(l, s) ==
  /\ l \in LruRecord
  /\ Chained(l, s)
  /\ l.size = l.num
  /\ l.size <= MaxSize
  /\ Filed(l, ToSet(s))
  /\ Pooled(l, ToSet(s))

(* The inductive invariant.                                                *)
IInv == Table(lru, Walk(lru))
-----------------------------------------------------------------------------
(* Sequences.                                                              *)

(* A sequence without its p-th element.                                    *)
LEMMA WithoutAt ==
  ASSUME NEW S, NEW c \in Seq(S), NEW p \in 1 .. Len(c)
  PROVE  /\ Cache!Without(c, p) \in Seq(S)
         /\ Len(Cache!Without(c, p)) = Len(c) - 1
         /\ \A i \in 1 .. Len(c) - 1 :
              Cache!Without(c, p)[i] = IF i < p THEN c[i] ELSE c[i + 1]
<1> DEFINE a == SubSeq(c, 1, p - 1)
           b == SubSeq(c, p + 1, Len(c))
<1>1. /\ Len(c) \in Nat
      /\ p \in Int /\ p >= 1 /\ p <= Len(c)
  OBVIOUS
<1>2. /\ a \in Seq(S)
      /\ Len(a) = p - 1
      /\ \A i \in 1 .. p - 1 : a[i] = c[i]
  <2>1. \A i \in 1 .. p - 1 : c[i] \in S
    OBVIOUS
  <2> QED BY <1>1, <2>1, SubSeqProperties
<1>3. /\ b \in Seq(S)
      /\ Len(b) = Len(c) - p
      /\ \A i \in 1 .. Len(c) - p : b[i] = c[p + i]
  <2>1. \A i \in p + 1 .. Len(c) : c[i] \in S
    OBVIOUS
  <2> QED BY <1>1, <2>1, SubSeqProperties
<1>4. /\ a \o b \in Seq(S)
      /\ Len(a \o b) = Len(a) + Len(b)
      /\ \A i \in 1 .. Len(a) + Len(b) :
           (a \o b)[i] = IF i <= Len(a) THEN a[i] ELSE b[i - Len(a)]
  BY <1>2, <1>3, ConcatProperties
<1> HIDE DEF a, b
<1>5. ASSUME NEW i \in 1 .. Len(c) - 1
      PROVE  (a \o b)[i] = IF i < p THEN c[i] ELSE c[i + 1]
  <2>1. CASE i < p
    BY <1>1, <1>2, <1>3, <1>4, <2>1
  <2>2. CASE ~(i < p)
    <3>1. i - (p - 1) \in 1 .. Len(c) - p
      BY <1>1, <2>2
    <3>2. (a \o b)[i] = b[i - (p - 1)]
      BY <1>1, <1>2, <1>3, <1>4, <2>2
    <3> QED BY <1>1, <1>3, <2>2, <3>1, <3>2
  <2> QED BY <2>1, <2>2
<1>6. Len(a \o b) = Len(c) - 1
  BY <1>1, <1>2, <1>3, <1>4
<1>7. Cache!Without(c, p) = a \o b
  BY DEF Cache!Without, a, b
<1> QED BY <1>4, <1>5, <1>6, <1>7

(* A sequence with one element more in front.                              *)
LEMMA PrependAt ==
  ASSUME NEW S, NEW c \in Seq(S), NEW e \in S
  PROVE  /\ <<e>> \o c \in Seq(S)
         /\ Len(<<e>> \o c) = Len(c) + 1
         /\ \A i \in 1 .. Len(c) + 1 :
              (<<e>> \o c)[i] = IF i = 1 THEN e ELSE c[i - 1]
<1>1. <<e>> \in Seq(S) /\ Len(<<e>>) = 1 /\ <<e>>[1] = e
  OBVIOUS
<1>2. /\ <<e>> \o c \in Seq(S)
      /\ Len(<<e>> \o c) = Len(<<e>>) + Len(c)
      /\ \A i \in 1 .. Len(<<e>>) + Len(c) :
           (<<e>> \o c)[i] =
              IF i <= Len(<<e>>) THEN <<e>>[i] ELSE c[i - Len(<<e>>)]
  BY <1>1, ConcatProperties
<1>3. Len(c) \in Nat
  OBVIOUS
<1> QED BY <1>1, <1>2, <1>3

(* A sequence with its p-th element moved to the front.                    *)
ToFront(c, p) == <<c[p]>> \o Cache!Without(c, p)

LEMMA ToFrontAt ==
  ASSUME NEW S, NEW c \in Seq(S), NEW p \in 1 .. Len(c)
  PROVE  /\ ToFront(c, p) \in Seq(S)
         /\ Len(ToFront(c, p)) = Len(c)
         /\ \A i \in 1 .. Len(c) :
              ToFront(c, p)[i] = IF i = 1 THEN c[p]
                                 ELSE IF i <= p THEN c[i - 1] ELSE c[i]
<1> DEFINE w == Cache!Without(c, p)
<1>1. /\ w \in Seq(S)
      /\ Len(w) = Len(c) - 1
      /\ \A i \in 1 .. Len(c) - 1 : w[i] = IF i < p THEN c[i] ELSE c[i + 1]
  BY WithoutAt
<1>2. c[p] \in S /\ Len(c) \in Nat /\ p \in Nat
  OBVIOUS
<1>3. /\ <<c[p]>> \o w \in Seq(S)
      /\ Len(<<c[p]>> \o w) = Len(w) + 1
      /\ \A i \in 1 .. Len(w) + 1 :
           (<<c[p]>> \o w)[i] = IF i = 1 THEN c[p] ELSE w[i - 1]
  BY <1>1, <1>2, PrependAt
<1> HIDE DEF w
<1>4. ASSUME NEW i \in 2 .. Len(c)
      PROVE  w[i - 1] = IF i <= p THEN c[i - 1] ELSE c[i]
  <2>1. i - 1 \in 1 .. Len(c) - 1 /\ i - 1 + 1 = i
    BY <1>2
  <2> QED BY <1>1, <1>2, <2>1
<1> QED BY <1>1, <1>2, <1>3, <1>4 DEF ToFront, w

(* Taking an element away, or moving it, keeps the others different.       *)
LEMMA WithoutSet ==
  ASSUME NEW S, NEW c \in Seq(S), IsInjective(c), NEW p \in 1 .. Len(c)
  PROVE  /\ IsInjective(Cache!Without(c, p))
         /\ ToSet(Cache!Without(c, p)) = ToSet(c) \ {c[p]}
<1> DEFINE w == Cache!Without(c, p)
<1>1. /\ w \in Seq(S)
      /\ Len(w) = Len(c) - 1
      /\ \A i \in 1 .. Len(c) - 1 : w[i] = IF i < p THEN c[i] ELSE c[i + 1]
  BY WithoutAt
<1>2. /\ Len(c) \in Nat /\ p \in Nat /\ DOMAIN c = 1 .. Len(c)
      /\ DOMAIN w = 1 .. Len(c) - 1
  BY <1>1
<1> HIDE DEF w
<1>3. \A i, j \in 1 .. Len(c) : c[i] = c[j] => i = j
  BY <1>2 DEF IsInjective
<1>4. IsInjective(w)
  BY <1>1, <1>2, <1>3 DEF IsInjective
<1>5. ASSUME NEW x \in ToSet(w) PROVE x \in ToSet(c) \ {c[p]}
  <2>1. PICK i \in 1 .. Len(c) - 1 : x = w[i]
    BY <1>2 DEF ToSet
  <2>2. CASE i < p
    BY <1>1, <1>2, <1>3, <2>1, <2>2 DEF ToSet
  <2>3. CASE ~(i < p)
    BY <1>1, <1>2, <1>3, <2>1, <2>3 DEF ToSet
  <2> QED BY <2>2, <2>3
<1>6. ASSUME NEW x \in ToSet(c) \ {c[p]} PROVE x \in ToSet(w)
  <2>1. PICK i \in 1 .. Len(c) : x = c[i]
    BY <1>2 DEF ToSet
  <2>2. CASE i < p
    BY <1>1, <1>2, <2>1, <2>2 DEF ToSet
  <2>3. CASE ~(i < p)
    <3>1. i - 1 \in 1 .. Len(c) - 1 /\ ~(i - 1 < p) /\ i - 1 + 1 = i
      BY <1>2, <2>1, <2>3
    <3>2. w[i - 1] = x
      BY <1>1, <2>1, <3>1
    <3> QED BY <1>2, <3>1, <3>2 DEF ToSet
  <2> QED BY <2>2, <2>3
<1> QED BY <1>4, <1>5, <1>6 DEF w

LEMMA ToFrontSet ==
  ASSUME NEW S, NEW c \in Seq(S), IsInjective(c), NEW p \in 1 .. Len(c)
  PROVE  /\ IsInjective(ToFront(c, p))
         /\ ToSet(ToFront(c, p)) = ToSet(c)
<1> DEFINE f == ToFront(c, p)
<1>1. /\ f \in Seq(S)
      /\ Len(f) = Len(c)
      /\ \A i \in 1 .. Len(c) :
           f[i] = IF i = 1 THEN c[p] ELSE IF i <= p THEN c[i - 1] ELSE c[i]
  BY ToFrontAt
<1>2. /\ Len(c) \in Nat /\ p \in Nat /\ p >= 1 /\ p <= Len(c)
      /\ DOMAIN c = 1 .. Len(c) /\ DOMAIN f = 1 .. Len(c)
  BY <1>1
<1> HIDE DEF f
<1>3. \A i, j \in 1 .. Len(c) : c[i] = c[j] => i = j
  BY <1>2 DEF IsInjective
<1> DEFINE At(i) == IF i = 1 THEN p ELSE IF i <= p THEN i - 1 ELSE i
           Back(i) == IF i = p THEN 1 ELSE IF i < p THEN i + 1 ELSE i
<1>4. \A i \in 1 .. Len(c) : At(i) \in 1 .. Len(c) /\ f[i] = c[At(i)]
  BY <1>1, <1>2
<1>5. \A i \in 1 .. Len(c) : Back(i) \in 1 .. Len(c) /\ At(Back(i)) = i
  BY <1>2
<1>6. \A i, j \in 1 .. Len(c) : At(i) = At(j) => i = j
  BY <1>2
<1> HIDE DEF At, Back
<1>7. IsInjective(f)
  BY <1>2, <1>3, <1>4, <1>6 DEF IsInjective
<1>8. ToSet(f) \subseteq ToSet(c)
  BY <1>2, <1>4 DEF ToSet
<1>9. ToSet(c) \subseteq ToSet(f)
  <2> SUFFICES ASSUME NEW i \in 1 .. Len(c) PROVE c[i] \in ToSet(f)
    BY <1>2 DEF ToSet
  <2>1. f[Back(i)] = c[i]
    BY <1>4, <1>5
  <2> QED BY <1>2, <1>5, <2>1 DEF ToSet
<1> QED BY <1>7, <1>8, <1>9 DEF f

LEMMA PrependSet ==
  ASSUME NEW S, NEW c \in Seq(S), IsInjective(c), NEW e \in S \ ToSet(c)
  PROVE  /\ IsInjective(<<e>> \o c)
         /\ ToSet(<<e>> \o c) = ToSet(c) \cup {e}
<1> DEFINE w == <<e>> \o c
<1>1. /\ w \in Seq(S)
      /\ Len(w) = Len(c) + 1
      /\ \A i \in 1 .. Len(c) + 1 : w[i] = IF i = 1 THEN e ELSE c[i - 1]
  BY PrependAt
<1>2. /\ Len(c) \in Nat /\ DOMAIN c = 1 .. Len(c)
      /\ DOMAIN w = 1 .. Len(c) + 1
  BY <1>1
<1> HIDE DEF w
<1>3. \A i, j \in 1 .. Len(c) : c[i] = c[j] => i = j
  BY <1>2 DEF IsInjective
<1>4. \A i \in 1 .. Len(c) : c[i] \in ToSet(c)
  BY <1>2 DEF ToSet
<1>5. \A i \in 1 .. Len(c) + 1 :
        i # 1 => i - 1 \in 1 .. Len(c) /\ w[i] \in ToSet(c)
  BY <1>1, <1>2, <1>4
<1>6. IsInjective(w)
  <2> SUFFICES ASSUME NEW i \in 1 .. Len(c) + 1, NEW j \in 1 .. Len(c) + 1,
                      w[i] = w[j]
               PROVE  i = j
    BY <1>2 DEF IsInjective
  <2>1. CASE i = 1 \/ j = 1
    BY <1>1, <1>2, <1>5, <2>1
  <2>2. CASE i # 1 /\ j # 1
    <3>1. c[i - 1] = c[j - 1]
      BY <1>1, <2>2
    <3> QED BY <1>2, <1>3, <1>5, <2>2, <3>1
  <2> QED BY <2>1, <2>2
<1>7. ToSet(w) \subseteq ToSet(c) \cup {e}
  <2> SUFFICES ASSUME NEW i \in 1 .. Len(c) + 1
               PROVE  w[i] \in ToSet(c) \cup {e}
    BY <1>2 DEF ToSet
  <2> QED BY <1>1, <1>5
<1>8. ToSet(c) \cup {e} \subseteq ToSet(w)
  <2>1. e \in ToSet(w)
    BY <1>1, <1>2 DEF ToSet
  <2>2. ASSUME NEW i \in 1 .. Len(c) PROVE c[i] \in ToSet(w)
    <3>1. i + 1 \in 1 .. Len(c) + 1 /\ i + 1 # 1 /\ i + 1 - 1 = i
      BY <1>2
    <3>2. w[i + 1] = c[i]
      BY <1>1, <3>1
    <3> QED BY <1>2, <3>1, <3>2 DEF ToSet
  <2> QED BY <1>2, <2>1, <2>2 DEF ToSet
<1> QED BY <1>6, <1>7, <1>8 DEF w

(* Pools.                                                                  *)
LEMMA PushPool ==
  ASSUME NEW pool, NEW F, NEW n \in Nat, Holds(pool, F, n), n < MaxSize,
         NEW b \in Block \ F
  PROVE  Holds(Push(pool, b), F \cup {b}, n + 1)
<1>1. pool \in Seq(Block) /\ Len(pool) = n /\ ToSet(pool) = F
  BY DEF Holds
<1> DEFINE w == Append(pool, b)
<1>2. Push(pool, b) = w
  BY <1>1 DEF Push
<1>3. /\ w \in Seq(Block)
      /\ Len(w) = n + 1
      /\ \A i \in 1 .. n : w[i] = pool[i]
      /\ w[n + 1] = b
  BY <1>1, AppendProperties
<1>4. DOMAIN pool = 1 .. n /\ DOMAIN w = 1 .. n + 1
  BY <1>1, <1>3
<1> HIDE DEF w
<1>5. \A i, j \in 1 .. n : pool[i] = pool[j] => i = j
  BY <1>4 DEF Holds, IsInjective
<1>6. \A i \in 1 .. n : pool[i] \in F
  BY <1>1, <1>4 DEF ToSet
<1>7. IsInjective(w)
  <2> SUFFICES ASSUME NEW i \in 1 .. n + 1, NEW j \in 1 .. n + 1, w[i] = w[j]
               PROVE  i = j
    BY <1>4 DEF IsInjective
  <2> QED BY <1>3, <1>5, <1>6
<1>8. ToSet(w) = F \cup {b}
  <2>1. ASSUME NEW i \in 1 .. n + 1 PROVE w[i] \in F \cup {b}
    BY <1>3, <1>6
  <2>2. F \subseteq ToSet(w)
    BY <1>1, <1>3, <1>4 DEF ToSet
  <2>3. n + 1 \in 1 .. n + 1
    OBVIOUS
  <2> QED BY <1>3, <1>4, <2>1, <2>2, <2>3 DEF ToSet
<1> QED BY <1>2, <1>3, <1>7, <1>8 DEF Holds

LEMMA PopPool ==
  ASSUME NEW pool, NEW F, NEW n \in Nat, Holds(pool, F, n), n # 0
  PROVE  /\ Last(pool) \in F
         /\ Last(pool) \in Block
         /\ Holds(Front(pool), F \ {Last(pool)}, n - 1)
<1>1. pool \in Seq(Block) /\ Len(pool) = n /\ ToSet(pool) = F
  BY DEF Holds
<1>2. DOMAIN pool = 1 .. n /\ \A i \in 1 .. n : pool[i] \in Block
  BY <1>1
<1> DEFINE w == Front(pool)
<1>3. /\ w \in Seq(Block)
      /\ Len(w) = n - 1
      /\ \A i \in 1 .. n - 1 : w[i] = pool[i]
  <2>1. \A i \in 1 .. n - 1 : pool[i] \in Block
    BY <1>2
  <2> QED BY <1>1, <2>1, SubSeqProperties DEF Front
<1>4. DOMAIN w = 1 .. n - 1
  BY <1>3
<1> HIDE DEF w
<1>5. \A i, j \in 1 .. n : pool[i] = pool[j] => i = j
  BY <1>2 DEF Holds, IsInjective
<1>6. Last(pool) = pool[n] /\ n \in 1 .. n
  BY <1>1 DEF Last
<1>7. Last(pool) \in F /\ Last(pool) \in Block
  BY <1>1, <1>2, <1>6 DEF ToSet
<1>8. IsInjective(w)
  BY <1>3, <1>4, <1>5 DEF IsInjective
<1>9. ToSet(w) = F \ {Last(pool)}
  <2>1. ASSUME NEW i \in 1 .. n - 1 PROVE w[i] \in F \ {Last(pool)}
    BY <1>1, <1>2, <1>3, <1>5, <1>6 DEF ToSet
  <2>2. ASSUME NEW x \in F \ {Last(pool)} PROVE x \in ToSet(w)
    <3>1. PICK i \in 1 .. n : x = pool[i]
      BY <1>1, <1>2 DEF ToSet
    <3>2. i \in 1 .. n - 1
      BY <1>6, <3>1
    <3> QED BY <1>3, <1>4, <3>1, <3>2 DEF ToSet
  <2> QED BY <1>4, <2>1, <2>2 DEF ToSet
<1> QED BY <1>3, <1>7, <1>8, <1>9 DEF Holds, w

LEMMA NewPool == Holds(Pool, Block, MaxSize)
<1>1. MaxSize \in Nat
  BY SizeAssumption
<1>2. Pool \in [1 .. MaxSize -> Block] /\ \A i \in 1 .. MaxSize : Pool[i] = i
  BY DEF Pool, Block
<1>3. Pool \in Seq(Block) /\ Len(Pool) = MaxSize /\ DOMAIN Pool = 1 .. MaxSize
  BY <1>1, <1>2
<1>4. ToSet(Pool) = Block
  BY <1>2, <1>3 DEF ToSet, Block
<1>5. IsInjective(Pool)
  BY <1>2, <1>3 DEF IsInjective
<1> QED BY <1>3, <1>4, <1>5 DEF Holds

-----------------------------------------------------------------------------
(* The hash table.                                                         *)

LEMMA BucketIs ==
  ASSUME NEW k \in Key
  PROVE  Hash!bucket_idx(k) \in 0 .. MaxSize - 1
<1>1. murmurhash_hash[k] \in Nat /\ MaxSize \in Nat /\ MaxSize > 0
  BY HashAssumption, SizeAssumption
<1> QED BY <1>1 DEF Hash!bucket_idx

LEMMA ChainIs ==
  ASSUME NEW h \in Buckets, NEW k \in Key
  PROVE  /\ Hash!Chain(h, k) \in Seq(ChainRecord)
         /\ WellChained(Hash!Chain(h, k), Hash!bucket_idx(k))
         /\ DOMAIN Hash!Chain(h, k) = 1 .. Len(Hash!Chain(h, k))
         /\ Len(Hash!Chain(h, k)) \in Nat
         /\ \A i \in 1 .. Len(Hash!Chain(h, k)) :
              Hash!Chain(h, k)[i] \in ChainRecord
<1>1. /\ Hash!Chain(h, k) \in Seq(ChainRecord)
      /\ WellChained(Hash!Chain(h, k), Hash!bucket_idx(k))
  BY BucketIs DEF Buckets, Hash!Chain
<1> QED BY <1>1

(* A search ends at the one place that has the key.                        *)
LEMMA SearchFinds ==
  ASSUME NEW h \in Buckets, NEW k \in Key,
         NEW p \in 1 .. Len(Hash!Chain(h, k)), Hash!Chain(h, k)[p].key = k
  PROVE  /\ Hash!Places(h, k) = {p}
         /\ Hash!Place(h, k) = p
         /\ Hash!Get(h, k) = Hash!Chain(h, k)[p].value
         /\ Hash!Get(h, k) \in Block
<1>1. Hash!Places(h, k) = {p}
  BY ChainIs DEF Hash!Places, WellChained
<1>2. Hash!Place(h, k) = p
  <2>1. p <= p
    OBVIOUS
  <2> QED BY <1>1, <2>1, Zenon DEF Hash!Place
<1>3. Hash!Get(h, k) = Hash!Chain(h, k)[p].value
  BY <1>1, <1>2 DEF Hash!Get
<1>4. Hash!Chain(h, k)[p] \in ChainRecord
  BY ChainIs
<1> QED BY <1>1, <1>2, <1>3, <1>4 DEF ChainRecord

LEMMA SearchFails ==
  ASSUME NEW h \in Buckets, NEW k \in Key,
         \A i \in 1 .. Len(Hash!Chain(h, k)) : Hash!Chain(h, k)[i].key # k
  PROVE  Hash!Places(h, k) = {} /\ Hash!Get(h, k) = NULL
<1>1. Hash!Places(h, k) = {}
  BY ChainIs DEF Hash!Places
<1> QED BY <1>1 DEF Hash!Get

LEMMA GetGives ==
  ASSUME NEW h \in Buckets, NEW k \in Key
  PROVE  Hash!Get(h, k) \in Pointer
<1>1. CASE \A i \in 1 .. Len(Hash!Chain(h, k)) : Hash!Chain(h, k)[i].key # k
  BY <1>1, SearchFails DEF Pointer
<1>2. CASE \E i \in 1 .. Len(Hash!Chain(h, k)) : Hash!Chain(h, k)[i].key = k
  BY <1>2, SearchFinds DEF Pointer
<1> QED BY <1>1, <1>2

(* A key is searched in its own chain only.                                *)
LEMMA GetSame ==
  ASSUME NEW h, NEW g, NEW k, Hash!Chain(g, k) = Hash!Chain(h, k)
  PROVE  Hash!Get(g, k) = Hash!Get(h, k)
<1>1. Hash!Places(g, k) = Hash!Places(h, k)
  BY DEF Hash!Places
<1>2. Hash!Place(g, k) = Hash!Place(h, k)
  BY <1>1 DEF Hash!Place
<1> QED BY <1>1, <1>2 DEF Hash!Get

(* One chain takes the place of another; the other chains stay.            *)
Replaced(h, k, c) == [h EXCEPT ![Hash!bucket_idx(k)] = c]

LEMMA OneChain ==
  ASSUME NEW h \in Buckets, NEW k \in Key, NEW c \in Seq(ChainRecord),
         WellChained(c, Hash!bucket_idx(k)),
         NEW g, g = Replaced(h, k, c)
  PROVE  /\ g \in Buckets
         /\ Hash!Chain(g, k) = c
         /\ \A x \in Key : \/ Hash!Chain(g, x) = Hash!Chain(h, x)
                           \/ /\ Hash!Chain(g, x) = c
                              /\ Hash!Chain(h, x) = Hash!Chain(h, k)
<1> DEFINE b == Hash!bucket_idx(k)
<1>1. b \in 0 .. MaxSize - 1
  BY BucketIs
<1>2. /\ h \in [0 .. MaxSize - 1 -> Seq(ChainRecord)]
      /\ \A a \in 0 .. MaxSize - 1 : WellChained(h[a], a)
  BY DEF Buckets
<1>3. WellChained(c, b) /\ g = [h EXCEPT ![b] = c]
  BY DEF Replaced
<1>4. \A x \in Key : Hash!bucket_idx(x) \in 0 .. MaxSize - 1
  BY BucketIs
<1>5. \A x \in Key : /\ Hash!Chain(g, x) = g[Hash!bucket_idx(x)]
                    /\ Hash!Chain(h, x) = h[Hash!bucket_idx(x)]
  BY DEF Hash!Chain
<1>6. Hash!bucket_idx(k) = b
  OBVIOUS
<1> HIDE DEF b
<1>7. g \in [0 .. MaxSize - 1 -> Seq(ChainRecord)]
  BY <1>1, <1>2, <1>3
<1>8. \A a \in 0 .. MaxSize - 1 : g[a] = IF a = b THEN c ELSE h[a]
  BY <1>1, <1>2, <1>3
<1>9. \A a \in 0 .. MaxSize - 1 : WellChained(g[a], a)
  BY <1>2, <1>3, <1>8
<1>10. g \in Buckets
  BY <1>7, <1>9 DEF Buckets
<1> QED BY <1>1, <1>4, <1>5, <1>6, <1>8, <1>10

(* gnb_hash32_create.                                                      *)
LEMMA CreateEmpty ==
  /\ Hash!Create \in Buckets
  /\ \A k \in Key : Hash!Get(Hash!Create, k) = NULL
<1>1. Hash!Create = [b \in 0 .. MaxSize - 1 |-> << >>]
  BY DEF Hash!Create
<1>2. << >> \in Seq(ChainRecord) /\ Len(<< >>) = 0
  OBVIOUS
<1>3. \A b : WellChained(<< >>, b)
  BY <1>2 DEF WellChained
<1>4. Hash!Create \in Buckets
  BY <1>1, <1>2, <1>3 DEF Buckets
<1>5. ASSUME NEW k \in Key
      PROVE  Hash!Get(Hash!Create, k) = NULL
  <2>1. Hash!Chain(Hash!Create, k) = << >>
    BY <1>1, BucketIs DEF Hash!Chain
  <2>2. \A i \in 1 .. Len(Hash!Chain(Hash!Create, k)) :
          Hash!Chain(Hash!Create, k)[i].key # k
    BY <1>2, <2>1
  <2> QED BY <1>4, <2>2, SearchFails
<1> QED BY <1>4, <1>5

(* The chain e has for the key x what the chain c has for it.              *)
Keyed(c, i, x) == i \in 1 .. Len(c) /\ c[i].key = x

Keeps(c, e, x) ==
  /\ \A i : Keyed(e, i, x) => \E j : Keyed(c, j, x) /\ c[j].value = e[i].value
  /\ \A j : Keyed(c, j, x) => \E i : Keyed(e, i, x)

LEMMA KeepsGet ==
  ASSUME NEW h \in Buckets, NEW g \in Buckets, NEW x \in Key,
         Keeps(Hash!Chain(h, x), Hash!Chain(g, x), x)
  PROVE  Hash!Get(g, x) = Hash!Get(h, x)
<1> DEFINE c == Hash!Chain(h, x)
           e == Hash!Chain(g, x)
<1>1. CASE \E i : Keyed(e, i, x)
  <2>1. PICK i : Keyed(e, i, x)
    BY <1>1
  <2>2. PICK j : Keyed(c, j, x) /\ c[j].value = e[i].value
    BY <2>1 DEF Keeps
  <2>3. Hash!Get(g, x) = e[i].value
    BY <2>1, SearchFinds DEF Keyed
  <2>4. Hash!Get(h, x) = c[j].value
    BY <2>2, SearchFinds DEF Keyed
  <2> QED BY <2>2, <2>3, <2>4
<1>2. CASE ~ \E i : Keyed(e, i, x)
  <2>1. ~ \E j : Keyed(c, j, x)
    BY <1>2 DEF Keeps
  <2>2. Hash!Get(g, x) = NULL
    BY <1>2, SearchFails DEF Keyed
  <2>3. Hash!Get(h, x) = NULL
    BY <2>1, SearchFails DEF Keyed
  <2> QED BY <2>2, <2>3
<1> QED BY <1>1, <1>2

(* The chain of k changes, but not what it has for other keys.             *)
LEMMA ChainReplaced ==
  ASSUME NEW h \in Buckets, NEW k \in Key, NEW e \in Seq(ChainRecord),
         WellChained(e, Hash!bucket_idx(k)),
         \A x \in Key : x # k => Keeps(Hash!Chain(h, k), e, x),
         NEW g, g = Replaced(h, k, e)
  PROVE  /\ g \in Buckets
         /\ Hash!Chain(g, k) = e
         /\ \A x \in Key : x # k => Hash!Get(g, x) = Hash!Get(h, x)
<1>1. /\ g \in Buckets
      /\ Hash!Chain(g, k) = e
      /\ \A x \in Key : \/ Hash!Chain(g, x) = Hash!Chain(h, x)
                        \/ /\ Hash!Chain(g, x) = e
                           /\ Hash!Chain(h, x) = Hash!Chain(h, k)
  BY OneChain
<1>2. ASSUME NEW x \in Key, x # k
      PROVE  Hash!Get(g, x) = Hash!Get(h, x)
  <2>1. CASE Hash!Chain(g, x) = Hash!Chain(h, x)
    BY <2>1, GetSame
  <2>2. CASE /\ Hash!Chain(g, x) = e
             /\ Hash!Chain(h, x) = Hash!Chain(h, k)
    <3>1. Keeps(Hash!Chain(h, x), Hash!Chain(g, x), x)
      BY <1>2, <2>2
    <3> QED BY <1>1, <3>1, KeepsGet
  <2> QED BY <1>1, <2>1, <2>2
<1> QED BY <1>1, <1>2

(* gnb_hash32_set: from now on the key is found with this value, and all   *)
(* others as before.                                                       *)
LEMMA SetSets ==
  ASSUME NEW h \in Buckets, NEW k \in Key, NEW v \in Block
  PROVE  /\ Hash!Set(h, k, v) \in Buckets
         /\ \A x \in Key : Hash!Get(Hash!Set(h, k, v), x) =
                             IF x = k THEN v ELSE Hash!Get(h, x)
<1> DEFINE b == Hash!bucket_idx(k)
           c == Hash!Chain(h, k)
           g == Hash!Set(h, k, v)
           new == [key |-> k, value |-> v]
<1>1. /\ c \in Seq(ChainRecord) /\ Len(c) \in Nat
      /\ WellChained(c, b)
      /\ \A i \in 1 .. Len(c) : c[i] \in ChainRecord
  BY ChainIs
<1>2. b \in 0 .. MaxSize - 1 /\ c = h[b]
  BY BucketIs DEF Hash!Chain
<1>3. new \in ChainRecord /\ new.key = k /\ new.value = v
  BY DEF ChainRecord
<1>4. CASE \A i \in 1 .. Len(c) : c[i].key # k
  <2> DEFINE e == Append(c, new)
  <2>1. g = Replaced(h, k, e)
    BY <1>2, <1>4, SearchFails DEF Hash!Set, Replaced
  <2>2. /\ e \in Seq(ChainRecord)
        /\ Len(e) = Len(c) + 1
        /\ \A i \in 1 .. Len(c) : e[i] = c[i]
        /\ e[Len(c) + 1] = new
    BY <1>1, <1>3
  <2>3. Hash!bucket_idx(new.key) = b
    BY <1>3
  <2> HIDE DEF e, c, new
  <2>4. WellChained(e, b)
    <3>1. \A i \in 1 .. Len(c) + 1 : i \in 1 .. Len(c) \/ i = Len(c) + 1
      BY <1>1
    <3>2. \A i \in 1 .. Len(e) :
            i \in 1 .. Len(c) \/ (e[i] = new /\ i = Len(c) + 1)
      BY <2>2, <3>1
    <3> QED BY <1>1, <1>3, <1>4, <2>2, <2>3, <3>2 DEF WellChained
  <2>5. ASSUME NEW x \in Key, x # k
        PROVE  Keeps(c, e, x)
    <3>1. \A i \in 1 .. Len(c) + 1 : i \in 1 .. Len(c) \/ i = Len(c) + 1
      BY <1>1
    <3>2. \A i \in 1 .. Len(c) : i \in 1 .. Len(c) + 1
      BY <1>1
    <3>3. \A i : Keyed(e, i, x) <=> Keyed(c, i, x)
      BY <1>3, <2>2, <2>5, <3>1, <3>2 DEF Keyed
    <3>4. \A i : Keyed(c, i, x) => e[i] = c[i]
      BY <2>2 DEF Keyed
    <3> QED BY <3>3, <3>4 DEF Keeps
  <2>6. /\ g \in Buckets
        /\ Hash!Chain(g, k) = e
        /\ \A x \in Key : x # k => Hash!Get(g, x) = Hash!Get(h, x)
    BY <2>1, <2>2, <2>4, <2>5, ChainReplaced DEF c
  <2>7. Hash!Get(g, k) = v
    <3>1. Len(c) + 1 \in 1 .. Len(e)
      BY <1>1, <2>2
    <3> QED BY <1>3, <2>2, <2>6, <3>1, SearchFinds
  <2> QED BY <2>6, <2>7
<1>5. ASSUME NEW p \in 1 .. Len(c), c[p].key = k
      PROVE  /\ g \in Buckets
             /\ \A x \in Key : Hash!Get(g, x) =
                                 IF x = k THEN v ELSE Hash!Get(h, x)
  <2> DEFINE e == [c EXCEPT ![p].value = v]
             w == [i \in 1 .. Len(c) |-> IF i = p THEN new ELSE c[i]]
  <2>1. Hash!Places(h, k) = {p} /\ Hash!Place(h, k) = p
    BY <1>5, SearchFinds
  <2>2. g = Replaced(h, k, e)
    BY <1>2, <2>1 DEF Hash!Set, Replaced
  <2>3. [c[p] EXCEPT !.value = v] = new
    BY <1>1, <1>5 DEF ChainRecord
  <2>4. e = w
    BY <1>1, <2>3
  <2>5. /\ w \in Seq(ChainRecord)
        /\ Len(w) = Len(c)
        /\ \A i \in 1 .. Len(c) : w[i] = IF i = p THEN new ELSE c[i]
    <3>1. w \in [1 .. Len(c) -> ChainRecord]
      BY <1>1, <1>3
    <3> QED BY <1>1, <3>1
  <2>6. \A i \in 1 .. Len(c) : w[i].key = c[i].key
    BY <1>3, <1>5, <2>5
  <2>7. g = Replaced(h, k, w)
    BY <2>2, <2>4
  <2> HIDE DEF e, w, c, new, g
  <2>8. WellChained(w, b)
    BY <1>1, <2>5, <2>6 DEF WellChained
  <2>9. ASSUME NEW x \in Key, x # k
        PROVE  Keeps(c, w, x)
    <3>1. \A i : Keyed(w, i, x) <=> Keyed(c, i, x)
      BY <2>5, <2>6 DEF Keyed
    <3>2. \A i : Keyed(c, i, x) => w[i] = c[i]
      BY <1>5, <2>5, <2>9 DEF Keyed
    <3> QED BY <3>1, <3>2 DEF Keeps
  <2>10. /\ g \in Buckets
         /\ Hash!Chain(g, k) = w
         /\ \A x \in Key : x # k => Hash!Get(g, x) = Hash!Get(h, x)
    BY <2>5, <2>7, <2>8, <2>9, ChainReplaced DEF c
  <2>11. Hash!Get(g, k) = v
    <3>1. p \in 1 .. Len(w) /\ w[p] = new
      BY <1>5, <2>5
    <3> QED BY <1>3, <2>10, <3>1, SearchFinds
  <2> QED BY <2>10, <2>11
<1> QED BY <1>4, <1>5

(* gnb_hash32_del: the key is no longer found, and all others as before.   *)
LEMMA DelDeletes ==
  ASSUME NEW h \in Buckets, NEW k \in Key
  PROVE  /\ Hash!Del(h, k) \in Buckets
         /\ \A x \in Key : Hash!Get(Hash!Del(h, k), x) =
                             IF x = k THEN NULL ELSE Hash!Get(h, x)
<1> DEFINE b == Hash!bucket_idx(k)
           c == Hash!Chain(h, k)
           g == Hash!Del(h, k)
<1>1. /\ c \in Seq(ChainRecord) /\ Len(c) \in Nat
      /\ WellChained(c, b)
  BY ChainIs
<1>2. b \in 0 .. MaxSize - 1 /\ c = h[b]
  BY BucketIs DEF Hash!Chain
<1>3. CASE \A i \in 1 .. Len(c) : c[i].key # k
  BY <1>3, SearchFails DEF Hash!Del
<1>4. ASSUME NEW p \in 1 .. Len(c), c[p].key = k
      PROVE  /\ g \in Buckets
             /\ \A x \in Key : Hash!Get(g, x) =
                                 IF x = k THEN NULL ELSE Hash!Get(h, x)
  <2> DEFINE e == Cache!Without(c, p)
             Old(i) == IF i < p THEN i ELSE i + 1
             New(j) == IF j < p THEN j ELSE j - 1
  <2>1. Hash!Places(h, k) = {p} /\ Hash!Place(h, k) = p
    BY <1>4, SearchFinds
  <2>2. Hash!Unlinked(c, p) = e
    BY DEF Hash!Unlinked, Cache!Without
  <2>3. g = Replaced(h, k, e)
    BY <1>2, <2>1, <2>2 DEF Hash!Del, Replaced
  <2>4. /\ e \in Seq(ChainRecord)
        /\ Len(e) = Len(c) - 1
        /\ \A i \in 1 .. Len(c) - 1 : e[i] = IF i < p THEN c[i] ELSE c[i + 1]
    BY <1>1, <1>4, WithoutAt
  <2> HIDE DEF e, c, g
  <2>5. p \in Nat /\ p >= 1 /\ p <= Len(c)
    BY <1>1, <1>4
  <2>6. \A i \in 1 .. Len(c) - 1 :
          /\ Old(i) \in 1 .. Len(c) /\ Old(i) # p
          /\ \A j \in 1 .. Len(c) - 1 : Old(i) = Old(j) => i = j
    BY <1>1, <2>5
  <2>7. \A j \in 1 .. Len(c) : j # p =>
          New(j) \in 1 .. Len(c) - 1 /\ Old(New(j)) = j
    BY <1>1, <2>5
  <2>8. \A i \in 1 .. Len(c) - 1 : e[i] = c[Old(i)]
    BY <2>4
  <2> HIDE DEF Old, New
  <2>9. WellChained(e, b)
    BY <1>1, <2>4, <2>6, <2>8 DEF WellChained
  <2>10. ASSUME NEW x \in Key, x # k
         PROVE  Keeps(c, e, x)
    <3>1. \A i : Keyed(e, i, x) => Keyed(c, Old(i), x) /\ c[Old(i)] = e[i]
      BY <2>4, <2>6, <2>8 DEF Keyed
    <3>2. \A j : Keyed(c, j, x) => Keyed(e, New(j), x)
      BY <1>4, <2>4, <2>7, <2>8, <2>10 DEF Keyed
    <3> QED BY <3>1, <3>2 DEF Keeps
  <2>11. /\ g \in Buckets
         /\ Hash!Chain(g, k) = e
         /\ \A x \in Key : x # k => Hash!Get(g, x) = Hash!Get(h, x)
    BY <2>3, <2>4, <2>9, <2>10, ChainReplaced DEF c
  <2>12. Hash!Get(g, k) = NULL
    <3>1. \A i \in 1 .. Len(e) : e[i].key # k
      BY <1>1, <1>4, <2>4, <2>6, <2>8 DEF WellChained
    <3> QED BY <2>11, <3>1, SearchFails
  <2> QED BY <2>11, <2>12
<1> QED BY <1>3, <1>4

(* Whatever stands in a chain is what a search for its key finds.          *)
LEMMA NothingHidden ==
  ASSUME NEW h \in Buckets, NEW b \in DOMAIN h, NEW i \in DOMAIN h[b]
  PROVE  Hash!Get(h, h[b][i].key) = h[b][i].value
<1>1. /\ b \in 0 .. MaxSize - 1 /\ h[b] \in Seq(ChainRecord)
      /\ WellChained(h[b], b)
  BY DEF Buckets
<1>2. i \in 1 .. Len(h[b]) /\ h[b][i] \in ChainRecord
  BY <1>1
<1>3. h[b][i].key \in Key /\ Hash!bucket_idx(h[b][i].key) = b
  BY <1>1, <1>2 DEF ChainRecord, WellChained
<1>4. Hash!Chain(h, h[b][i].key) = h[b]
  BY <1>3 DEF Hash!Chain
<1> QED BY <1>2, <1>3, <1>4, SearchFinds

(* What searches for all keys find.                                        *)
Finds(h) == [k \in Key |-> Hash!Get(h, k)]

(* The chains of gnb_hash32.c are a finite map, whichever keys meet in a   *)
(* bucket: gnb_hash32_create makes the empty one, gnb_hash32_set changes   *)
(* it at one key, gnb_hash32_del makes one key be missing, and all three   *)
(* leave each chain with the keys of its bucket, each once.                *)
THEOREM HashIsMap ==
  /\ Hash!Create \in Buckets
  /\ Finds(Hash!Create) = [k \in Key |-> NULL]
  /\ \A h \in Buckets, k \in Key :
       /\ Finds(h) \in [Key -> Pointer]
       /\ Hash!Del(h, k) \in Buckets
       /\ Finds(Hash!Del(h, k)) = [Finds(h) EXCEPT ![k] = NULL]
       /\ \A v \in Block :
            /\ Hash!Set(h, k, v) \in Buckets
            /\ Finds(Hash!Set(h, k, v)) = [Finds(h) EXCEPT ![k] = v]
<1>1. /\ Hash!Create \in Buckets
      /\ Finds(Hash!Create) = [k \in Key |-> NULL]
  BY CreateEmpty DEF Finds
<1>2. ASSUME NEW h \in Buckets, NEW k \in Key
      PROVE  /\ Finds(h) \in [Key -> Pointer]
             /\ Hash!Del(h, k) \in Buckets
             /\ Finds(Hash!Del(h, k)) = [Finds(h) EXCEPT ![k] = NULL]
  <2>1. \A x \in Key : Hash!Get(h, x) \in Pointer
    BY GetGives
  <2>2. /\ Hash!Del(h, k) \in Buckets
        /\ \A x \in Key : Hash!Get(Hash!Del(h, k), x) =
                            IF x = k THEN NULL ELSE Hash!Get(h, x)
    BY DelDeletes
  <2> QED BY <2>1, <2>2 DEF Finds
<1>3. ASSUME NEW h \in Buckets, NEW k \in Key, NEW v \in Block
      PROVE  /\ Hash!Set(h, k, v) \in Buckets
             /\ Finds(Hash!Set(h, k, v)) = [Finds(h) EXCEPT ![k] = v]
  <2>1. /\ Hash!Set(h, k, v) \in Buckets
        /\ \A x \in Key : Hash!Get(Hash!Set(h, k, v), x) =
                            IF x = k THEN v ELSE Hash!Get(h, x)
    BY SetSets
  <2> QED BY <2>1 DEF Finds
<1> QED BY <1>1, <1>2, <1>3

(* A lookup of the table is one of its hash.                               *)
USE DEF HashGet

-----------------------------------------------------------------------------
(* Induction, for a set of numbers.                                        *)
LEMMA Least ==
  ASSUME NEW T \in SUBSET Nat, T # {}
  PROVE  \E x \in T : \A y \in T : x <= y
<1> DEFINE R == OpToRel(<, Nat)
<1>1. IsWellFoundedOn(R, Nat)
  BY NatLessThanWellFounded
<1>2. \A x, y \in Nat : y < x => <<y, x>> \in R
  BY DEF OpToRel
<1> HIDE DEF R
<1>3. PICK x \in T : \A y \in T : ~ (<<y, x>> \in R)
  BY <1>1, WFMin
<1>4. \A y \in T : ~ (y < x)
  BY <1>2, <1>3
<1> QED BY <1>4

(* The walk along a list that is chained as s meets s.                     *)
LEMMA WalkIs ==
  ASSUME NEW l, NEW s, Chained(l, s)
  PROVE  Walk(l) = s
<1> DEFINE Step(w) == [i \in 1 .. l.num |->
                         IF i = 1 THEN l.head
                         ELSE IF w[i - 1] = NULL THEN NULL
                         ELSE l.nex[w[i - 1]]]
           n == Len(s)
<1>1. s \in Seq(Block) /\ n \in Nat /\ l.num = n /\ DOMAIN s = 1 .. n
  BY DEF Chained
<1>2. \A i \in 1 .. n : s[i] \in Block /\ s[i] # NULL
  BY <1>1, SizeAssumption DEF Block
<1>3. \A i \in 1 .. n : i # 1 => i - 1 \in 1 .. n /\ i - 1 # n /\ i - 1 + 1 = i
  BY <1>1
<1>4. \A i \in 1 .. n : i # 1 => l.nex[s[i - 1]] = s[i]
  BY <1>3 DEF Chained
<1>5. n # 0 => l.head = s[1]
  BY <1>1 DEF Chained
<1>6. \A i \in 1 .. n : Step(s)[i] = s[i]
  BY <1>1, <1>2, <1>3, <1>4, <1>5
<1>7. s = Step(s)
  BY <1>1, <1>6
<1>8. Walk(l) = CHOOSE w : w = Step(w)
  BY DEF Walk
<1> HIDE DEF Step
<1>9. Walk(l) = Step(Walk(l))
  BY <1>7, <1>8, Zenon
<1> USE DEF Step
<1> DEFINE w == Walk(l)
           T == {i \in 1 .. n : w[i] # s[i]}
<1> HIDE DEF w
<1>10. \A i \in 1 .. n : w[i] = IF i = 1 THEN l.head
                                ELSE IF w[i - 1] = NULL THEN NULL
                                ELSE l.nex[w[i - 1]]
  BY <1>1, <1>9 DEF w
<1>11. DOMAIN w = 1 .. n
  BY <1>1, <1>9 DEF w
<1>12. T = {}
  <2> SUFFICES ASSUME T # {} PROVE FALSE
    OBVIOUS
  <2>1. T \in SUBSET Nat
    BY <1>1
  <2> HIDE DEF T
  <2>2. PICK i \in T : \A j \in T : i <= j
    BY <2>1, Least
  <2> USE DEF T
  <2>3. i # 1
    BY <1>5, <1>10, <2>2
  <2>4. i - 1 \notin T /\ i - 1 \in 1 .. n
    BY <1>1, <2>2, <2>3
  <2>5. w[i - 1] = s[i - 1]
    BY <2>4
  <2>6. w[i] = s[i]
    BY <1>2, <1>4, <1>10, <2>2, <2>3, <2>4, <2>5
  <2> QED BY <2>2, <2>6
<1>13. w = Step(w) /\ w = [i \in 1 .. n |-> w[i]]
  BY <1>1, <1>9 DEF w
<1>14. s = [i \in 1 .. n |-> s[i]]
  BY <1>1
<1> QED BY <1>12, <1>13, <1>14 DEF w

-----------------------------------------------------------------------------
(* The list.                                                               *)
SameFiles(r, l) ==
  /\ r.size = l.size /\ r.map = l.map
  /\ r.data = l.data /\ r.dl_node = l.dl_node /\ r.kv = l.kv
  /\ r.udata = l.udata /\ r.block = l.block
  /\ r.lru_node_pool = l.lru_node_pool
  /\ r.dl_node_pool = l.dl_node_pool
  /\ r.udata_pool = l.udata_pool

SameList(r, l) ==
  /\ r.num = l.num /\ r.head = l.head /\ r.tail = l.tail
  /\ r.pre = l.pre /\ r.nex = l.nex

LEMMA NullIsNoBlock == NULL \notin Block
BY SizeAssumption DEF Block

(* What a list that is chained as s has at a place.                        *)
LEMMA ChainFacts ==
  ASSUME NEW l, NEW s, Chained(l, s)
  PROVE  /\ Len(s) \in Nat /\ DOMAIN s = 1 .. Len(s) /\ l.num = Len(s)
         /\ \A i \in 1 .. Len(s) : s[i] \in Block
         /\ \A i, j \in 1 .. Len(s) : s[i] = s[j] => i = j
         /\ l.num # 0 => l.head = s[1] /\ l.tail = s[Len(s)]
         /\ \A i \in 1 .. Len(s) :
              /\ l.pre[s[i]] = IF i = 1 THEN NULL ELSE s[i - 1]
              /\ l.nex[s[i]] = IF i = Len(s) THEN NULL ELSE s[i + 1]
<1>1. s \in Seq(Block) /\ l.num = Len(s) /\ IsInjective(s)
  BY DEF Chained
<1>2. Len(s) \in Nat /\ DOMAIN s = 1 .. Len(s)
  BY <1>1
<1>3. \A i \in 1 .. Len(s) : s[i] \in Block
  BY <1>1
<1>4. \A i, j \in 1 .. Len(s) : s[i] = s[j] => i = j
  BY <1>1, <1>2 DEF IsInjective
<1> QED BY <1>1, <1>2, <1>3, <1>4 DEF Chained

(* The same for a list that is not empty, with a name for its length.      *)
Laid(l, s, n) ==
  /\ DOMAIN s = 1 .. n /\ l.num = n
  /\ \A i \in 1 .. n : s[i] \in Block
  /\ \A i, j \in 1 .. n : s[i] = s[j] => i = j
  /\ l.head = s[1] /\ l.tail = s[n]
  /\ \A i \in 1 .. n :
       /\ l.pre[s[i]] = IF i = 1 THEN NULL ELSE s[i - 1]
       /\ l.nex[s[i]] = IF i = n THEN NULL ELSE s[i + 1]

LEMMA ChainLaid ==
  ASSUME NEW l, NEW s, Chained(l, s), Len(s) # 0
  PROVE  Laid(l, s, Len(s))
BY ChainFacts DEF Laid

(* r is a record with the fields of l.                                     *)
SameFields(r, l) == DOMAIN r = DOMAIN l /\ r = [x \in DOMAIN r |-> r[x]]

(* What relinking leaves of the type.                                      *)
LEMMA Relinked ==
  ASSUME NEW l \in LruRecord, NEW r, SameFields(r, l), SameFiles(r, l),
         r.head \in Pointer, r.tail \in Pointer, r.num \in Nat,
         r.pre \in [Block -> Pointer], r.nex \in [Block -> Pointer]
  PROVE  r \in LruRecord
BY DEF LruRecord, SameFields, SameFiles

(* Moving a node that is not the first: the fields it leaves behind.       *)
LEMMA MoveHeadFields ==
  ASSUME NEW l \in LruRecord, NEW s, Chained(l, s), Len(s) > 2,
         NEW p \in 2 .. Len(s), NEW r, r = DlMoveHead(l, s[p])
  PROVE  /\ r \in LruRecord
         /\ SameFiles(r, l)
         /\ r.num = l.num
         /\ r.head = s[p]
         /\ r.tail = IF p = Len(s) THEN s[p - 1] ELSE l.tail
         /\ \A x \in Block :
              /\ r.pre[x] = IF x = s[p] THEN NULL
                            ELSE IF x = s[1] THEN s[p]
                            ELSE IF p # Len(s) /\ x = s[p + 1] THEN s[p - 1]
                            ELSE l.pre[x]
              /\ r.nex[x] = IF x = s[p] THEN s[1]
                            ELSE IF x = s[p - 1] THEN l.nex[s[p]]
                            ELSE l.nex[x]
<1> DEFINE d == s[p]
           a == s[p - 1]
           b == s[p + 1]
           e == s[1]
           cut == IF p = Len(s) THEN l.pre ELSE [l.pre EXCEPT ![b] = a]
           t == IF p = Len(s) THEN a ELSE l.tail
           pre == [[cut EXCEPT ![e] = d] EXCEPT ![d] = NULL]
           nex == [[l.nex EXCEPT ![a] = l.nex[d]] EXCEPT ![d] = e]
<1>1. /\ Len(s) \in Nat /\ l.num = Len(s) /\ l.head = e
      /\ l.pre[d] = a
      /\ l.nex[d] = IF p = Len(s) THEN NULL ELSE b
      /\ d \in Block /\ e \in Block /\ a \in Block
      /\ p # Len(s) => b \in Block
  BY ChainFacts
<1>2. a # NULL /\ (p # Len(s) => b # NULL)
  BY <1>1, NullIsNoBlock
<1>3. ~ (l.num \in {1, 2} \/ l.pre[d] = NULL)
  BY <1>1, <1>2
<1>4. /\ l.num \in Nat /\ l.tail \in Pointer
      /\ l.pre \in [Block -> Pointer] /\ l.nex \in [Block -> Pointer]
  BY DEF LruRecord
<1>5. cut \in [Block -> Pointer] /\ t \in Pointer
  BY <1>1, <1>4 DEF Pointer
<1> HIDE DEF a, b, d, e, cut, t
<1> HIDE DEF pre, nex
<1>6. /\ SameFields(r, l) /\ SameFiles(r, l)
      /\ r.head = d /\ r.tail = t /\ r.num = l.num
      /\ r.pre = pre /\ r.nex = nex
  <2>1. CASE p = Len(s)
    <3>1. r = [[l EXCEPT !.tail = a] EXCEPT
                 !.nex[a] = NULL, !.nex[d] = e,
                 !.pre[e] = d, !.head = d, !.pre[d] = NULL]
      BY <1>1, <1>3, <2>1 DEF DlMoveHead, LruRecord, d
    <3>2. cut = l.pre /\ t = a /\ l.nex[d] = NULL
      BY <1>1, <2>1 DEF cut, t
    <3>3. SameFields(r, l)
      BY <3>1 DEF SameFields
    <3>4. SameFiles(r, l) /\ r.head = d /\ r.tail = a /\ r.num = l.num
      BY <3>1 DEF LruRecord, SameFiles
    <3>5. r.pre = pre
      BY <3>1, <3>2 DEF LruRecord, pre
    <3>6. r.nex = nex
      BY <3>1, <3>2 DEF LruRecord, nex
    <3> QED BY <3>2, <3>3, <3>4, <3>5, <3>6
  <2>2. CASE p # Len(s)
    <3>1. r = [[l EXCEPT !.pre[b] = a] EXCEPT
                 !.nex[a] = b, !.nex[d] = e,
                 !.pre[e] = d, !.head = d, !.pre[d] = NULL]
      BY <1>1, <1>2, <1>3, <2>2 DEF DlMoveHead, LruRecord, d
    <3>2. cut = [l.pre EXCEPT ![b] = a] /\ t = l.tail /\ l.nex[d] = b
      BY <1>1, <2>2 DEF cut, t
    <3>3. SameFields(r, l)
      BY <3>1 DEF SameFields
    <3>4. SameFiles(r, l) /\ r.head = d /\ r.tail = l.tail /\ r.num = l.num
      BY <3>1 DEF LruRecord, SameFiles
    <3>5. r.pre = pre
      BY <3>1, <3>2 DEF LruRecord, pre
    <3>6. r.nex = nex
      BY <3>1, <3>2 DEF LruRecord, nex
    <3> QED BY <3>2, <3>3, <3>4, <3>5, <3>6
  <2> QED BY <2>1, <2>2
<1> USE DEF pre, nex
<1>7. /\ d \in Pointer
      /\ pre \in [Block -> Pointer] /\ nex \in [Block -> Pointer]
  BY <1>1, <1>4, <1>5 DEF Pointer
<1>8. \A x \in Block :
        /\ pre[x] = IF x = d THEN NULL ELSE IF x = e THEN d ELSE cut[x]
        /\ nex[x] = IF x = d THEN e ELSE IF x = a THEN l.nex[d] ELSE l.nex[x]
        /\ cut[x] = IF p # Len(s) /\ x = b THEN a ELSE l.pre[x]
  BY <1>1, <1>4, <1>5 DEF cut
<1> HIDE DEF pre, nex
<1>9. r \in LruRecord
  BY <1>4, <1>5, <1>6, <1>7, Relinked
<1> QED BY <1>6, <1>8, <1>9 DEF a, b, d, e, t

LEMMA MoveHeadChained ==
  ASSUME NEW l \in LruRecord, NEW s, Chained(l, s), Len(s) > 2,
         NEW p \in 1 .. Len(s), NEW r, r = DlMoveHead(l, s[p])
  PROVE  r \in LruRecord /\ SameFiles(r, l) /\ Chained(r, ToFront(s, p))
<1> DEFINE n == Len(s)
           t == ToFront(s, p)
<1>1. /\ n \in Nat /\ DOMAIN s = 1 .. n /\ l.num = n
      /\ \A i \in 1 .. n : s[i] \in Block
      /\ \A i, j \in 1 .. n : s[i] = s[j] => i = j
      /\ l.num # 0 => l.head = s[1] /\ l.tail = s[n]
      /\ \A i \in 1 .. n :
           /\ l.pre[s[i]] = IF i = 1 THEN NULL ELSE s[i - 1]
           /\ l.nex[s[i]] = IF i = n THEN NULL ELSE s[i + 1]
  BY ChainFacts
<1>2. s \in Seq(Block) /\ IsInjective(s)
  BY DEF Chained
<1>3. /\ t \in Seq(Block)
      /\ Len(t) = n
      /\ \A i \in 1 .. n :
           t[i] = IF i = 1 THEN s[p] ELSE IF i <= p THEN s[i - 1] ELSE s[i]
  BY <1>2, ToFrontAt
<1>4. IsInjective(t)
  BY <1>2, ToFrontSet
<1>5. CASE p = 1
  <2>1. r = l
    BY <1>1, <1>5 DEF DlMoveHead
  <2>2. \A i \in 1 .. n : t[i] = s[i]
    BY <1>1, <1>3, <1>5
  <2>3. t = s
    BY <1>2, <1>3, <2>2, SeqEqual
  <2> QED BY <2>1, <2>3 DEF SameFiles
<1>6. CASE p # 1
  <2>1. p \in 2 .. n
    BY <1>6
  <2>2. /\ r \in LruRecord
        /\ SameFiles(r, l)
        /\ r.num = l.num
        /\ r.head = s[p]
        /\ r.tail = IF p = n THEN s[p - 1] ELSE l.tail
        /\ \A x \in Block :
             /\ r.pre[x] = IF x = s[p] THEN NULL
                           ELSE IF x = s[1] THEN s[p]
                           ELSE IF p # n /\ x = s[p + 1] THEN s[p - 1]
                           ELSE l.pre[x]
             /\ r.nex[x] = IF x = s[p] THEN s[1]
                           ELSE IF x = s[p - 1] THEN l.nex[s[p]]
                           ELSE l.nex[x]
    BY <2>1, MoveHeadFields
  <2> HIDE DEF t, n
  <2>4. r.head = t[1] /\ r.tail = t[n] /\ r.num = n /\ n # 0
    BY <1>1, <1>3, <2>1, <2>2
  <2>7. \A i \in 1 .. n :
          r.pre[s[i]] = IF i = p THEN NULL ELSE IF i = 1 THEN s[p]
                        ELSE IF i = p + 1 THEN s[p - 1] ELSE s[i - 1]
    BY <1>1, <2>1, <2>2
  <2>8. \A i \in 1 .. n :
          r.nex[s[i]] = IF i = p THEN s[1]
                        ELSE IF i = p - 1
                        THEN IF p = n THEN NULL ELSE s[p + 1]
                        ELSE IF i = n THEN NULL ELSE s[i + 1]
    BY <1>1, <2>1, <2>2
  <2>9. \A i \in 1 .. n : r.pre[t[i]] = IF i = 1 THEN NULL ELSE t[i - 1]
    <3> SUFFICES ASSUME NEW i \in 1 .. n, i # 1
                 PROVE  r.pre[t[i]] = t[i - 1]
      BY <1>1, <1>3, <2>1, <2>7
    <3>1. i - 1 \in 1 .. n
      BY <1>1
    <3>2. CASE i <= p
      <4>1. t[i] = s[i - 1] /\ i - 1 # p /\ i - 1 # p + 1
        BY <1>1, <1>3, <2>1, <3>2
      <4>2. r.pre[t[i]] = IF i - 1 = 1 THEN s[p] ELSE s[i - 2]
        BY <1>1, <2>7, <3>1, <4>1
      <4> QED BY <1>1, <1>3, <2>1, <3>1, <3>2, <4>2
    <3>3. CASE i = p + 1
      BY <1>1, <1>3, <2>1, <2>7, <3>1, <3>3
    <3>4. CASE i > p + 1
      BY <1>1, <1>3, <2>1, <2>7, <3>1, <3>4
    <3> QED BY <1>1, <2>1, <3>2, <3>3, <3>4
  <2>10. \A i \in 1 .. n : r.nex[t[i]] = IF i = n THEN NULL ELSE t[i + 1]
    <3> SUFFICES ASSUME NEW i \in 1 .. n
                 PROVE  r.nex[t[i]] = IF i = n THEN NULL ELSE t[i + 1]
      OBVIOUS
    <3>1. CASE i = 1
      BY <1>1, <1>3, <2>1, <2>8, <3>1
    <3>2. CASE i # 1 /\ i < p
      <4>1. t[i] = s[i - 1] /\ i - 1 \in 1 .. n /\ i - 1 # p /\ i - 1 # p - 1
        BY <1>1, <1>3, <2>1, <3>2
      <4> QED BY <1>1, <1>3, <2>1, <2>8, <3>2, <4>1
    <3>3. CASE i = p
      <4>1. t[i] = s[p - 1] /\ p - 1 \in 1 .. n
        BY <1>1, <1>3, <2>1, <3>3
      <4> QED BY <1>1, <1>3, <2>1, <2>8, <3>3, <4>1
    <3>4. CASE i > p
      BY <1>1, <1>3, <2>1, <2>8, <3>4
    <3> QED BY <1>1, <2>1, <3>1, <3>2, <3>3, <3>4
  <2>11. Chained(r, t)
    BY <1>3, <1>4, <2>4, <2>9, <2>10 DEF Chained
  <2> QED BY <2>2, <2>11 DEF t
<1> QED BY <1>5, <1>6

(* A list of one that loses its node.                                      *)
LEMMA EmptiedChained ==
  ASSUME NEW l \in LruRecord, NEW s, Chained(l, s), Len(s) = 1,
         NEW r, r = DlEmptied(l)
  PROVE  r \in LruRecord /\ SameFiles(r, l) /\ Chained(r, Cache!Without(s, 1))
<1>1. r = [l EXCEPT !.head = NULL, !.tail = NULL, !.num = 0]
  BY DEF DlEmptied
<1>2. SameFields(r, l)
  BY <1>1 DEF SameFields
<1>3. /\ SameFiles(r, l) /\ r.head = NULL /\ r.tail = NULL /\ r.num = 0
      /\ r.pre = l.pre /\ r.nex = l.nex
  BY <1>1 DEF LruRecord, SameFiles
<1>4. l.pre \in [Block -> Pointer] /\ l.nex \in [Block -> Pointer]
  BY DEF LruRecord
<1>5. r \in LruRecord
  BY <1>2, <1>3, <1>4, Relinked DEF Pointer
<1>6. s \in Seq(Block) /\ IsInjective(s) /\ 1 \in 1 .. Len(s)
  BY DEF Chained
<1>7. Cache!Without(s, 1) \in Seq(Block) /\ Len(Cache!Without(s, 1)) = 0
  <2>1. /\ Cache!Without(s, 1) \in Seq(Block)
        /\ Len(Cache!Without(s, 1)) = Len(s) - 1
    BY <1>6, WithoutAt
  <2> QED BY <2>1
<1>8. IsInjective(Cache!Without(s, 1))
  BY <1>6, WithoutSet
<1> QED BY <1>3, <1>5, <1>7, <1>8 DEF Chained

(* A longer list that loses its first node.                                *)
CutHead(l) ==
  [l EXCEPT !.head = l.nex[l.head], !.pre[l.nex[l.head]] = NULL,
            !.num = @ - 1]

LEMMA CutHeadChained ==
  ASSUME NEW l \in LruRecord, NEW s, Chained(l, s),
         NEW n \in Nat, n = Len(s), n > 1, NEW r, r = CutHead(l)
  PROVE  r \in LruRecord /\ SameFiles(r, l) /\ Chained(r, Cache!Without(s, 1))
<1> DEFINE w == Cache!Without(s, 1)
           b == s[2]
<1>0. n \in Nat /\ l.num = n /\ n > 1 /\ n # 0 /\ n # 1
  BY ChainFacts
<1>1. Laid(l, s, n)
  BY <1>0, ChainLaid
<1>2. s \in Seq(Block) /\ IsInjective(s)
  BY DEF Chained
<1>17. 1 \in 1 .. n /\ 2 \in 1 .. n /\ 1 # n
  BY <1>0
<1>3. /\ w \in Seq(Block)
      /\ Len(w) = n - 1
      /\ \A i \in 1 .. n - 1 : w[i] = IF i < 1 THEN s[i] ELSE s[i + 1]
  BY <1>2, <1>17, WithoutAt
<1>4. IsInjective(w)
  BY <1>2, <1>17, WithoutSet
<1>5. l.nex[l.head] = b /\ b \in Block
  BY <1>1, <1>17 DEF Laid
<1> HIDE DEF b, w
<1>6. r = [l EXCEPT !.head = b, !.pre[b] = NULL, !.num = @ - 1]
  BY <1>5 DEF CutHead
<1>7. SameFields(r, l)
  BY <1>6 DEF SameFields
<1>8. /\ SameFiles(r, l) /\ r.head = b /\ r.tail = l.tail
      /\ r.num = l.num - 1 /\ r.nex = l.nex
  BY <1>6 DEF LruRecord, SameFiles
<1>9. r.pre = [l.pre EXCEPT ![b] = NULL]
  BY <1>6 DEF LruRecord
<1>10. /\ l.pre \in [Block -> Pointer] /\ l.nex \in [Block -> Pointer]
       /\ l.tail \in Pointer
  BY DEF LruRecord
<1>11. r.pre \in [Block -> Pointer] /\ r.num \in Nat /\ r.head \in Pointer
  BY <1>0, <1>1, <1>5, <1>8, <1>9, <1>10 DEF Laid, Pointer
<1>12. r \in LruRecord
  BY <1>7, <1>8, <1>10, <1>11, Relinked
<1>13. \A i \in 1 .. n - 1 : r.pre[w[i]] = IF i = 1 THEN NULL ELSE w[i - 1]
  BY <1>0, <1>1, <1>3, <1>17, <1>9, <1>10 DEF Laid, b
<1>14. \A i \in 1 .. n - 1 : r.nex[w[i]] = IF i = n - 1 THEN NULL ELSE w[i + 1]
  <2> SUFFICES ASSUME NEW i \in 1 .. n - 1
               PROVE  r.nex[w[i]] = IF i = n - 1 THEN NULL ELSE w[i + 1]
    OBVIOUS
  <2>1. w[i] = s[i + 1] /\ i + 1 \in 1 .. n
    BY <1>0, <1>3
  <2>2. r.nex[w[i]] = IF i + 1 = n THEN NULL ELSE s[i + 2]
    BY <1>1, <1>8, <2>1 DEF Laid
  <2>3. i # n - 1 => i + 1 \in 1 .. n - 1 /\ w[i + 1] = s[i + 2]
    BY <1>0, <1>3
  <2> QED BY <1>0, <2>2, <2>3
<1>15. r.num = n - 1 /\ n - 1 # 0 /\ r.head = w[1] /\ r.tail = w[n - 1]
  BY <1>0, <1>1, <1>3, <1>8 DEF Laid, b
<1>16. Chained(r, w)
  BY <1>3, <1>4, <1>13, <1>14, <1>15 DEF Chained
<1> QED BY <1>8, <1>12, <1>16 DEF w

(* A longer list that loses its last node.                                 *)
CutTail(l) ==
  [l EXCEPT !.tail = l.pre[l.tail], !.nex[l.pre[l.tail]] = NULL,
            !.num = @ - 1]

LEMMA CutTailChained ==
  ASSUME NEW l \in LruRecord, NEW s, Chained(l, s),
         NEW n \in Nat, n = Len(s), n > 1, NEW r, r = CutTail(l)
  PROVE  /\ r \in LruRecord /\ SameFiles(r, l)
         /\ Chained(r, Cache!Without(s, n))
<1> DEFINE w == Cache!Without(s, n)
           a == s[n - 1]
<1>0. n \in Nat /\ l.num = n /\ n > 1 /\ n # 0 /\ n # 1
  BY ChainFacts
<1>1. Laid(l, s, n)
  BY <1>0, ChainLaid
<1>2. s \in Seq(Block) /\ IsInjective(s)
  BY DEF Chained
<1>17. n \in 1 .. n /\ n - 1 \in 1 .. n /\ n # 1
  BY <1>0
<1>3. /\ w \in Seq(Block)
      /\ Len(w) = n - 1
      /\ \A i \in 1 .. n - 1 : w[i] = IF i < n THEN s[i] ELSE s[i + 1]
  BY <1>2, <1>17, WithoutAt
<1>4. IsInjective(w)
  BY <1>2, <1>17, WithoutSet
<1>5. l.pre[l.tail] = a /\ a \in Block
  BY <1>1, <1>17 DEF Laid
<1> HIDE DEF a, w
<1>6. r = [l EXCEPT !.tail = a, !.nex[a] = NULL, !.num = @ - 1]
  BY <1>5 DEF CutTail
<1>7. SameFields(r, l)
  BY <1>6 DEF SameFields
<1>8. /\ SameFiles(r, l) /\ r.head = l.head /\ r.tail = a
      /\ r.num = l.num - 1 /\ r.pre = l.pre
  BY <1>6 DEF LruRecord, SameFiles
<1>9. r.nex = [l.nex EXCEPT ![a] = NULL]
  BY <1>6 DEF LruRecord
<1>10. /\ l.pre \in [Block -> Pointer] /\ l.nex \in [Block -> Pointer]
       /\ l.head \in Pointer
  BY DEF LruRecord
<1>11. r.nex \in [Block -> Pointer] /\ r.num \in Nat /\ r.tail \in Pointer
  BY <1>0, <1>1, <1>5, <1>8, <1>9, <1>10 DEF Laid, Pointer
<1>12. r \in LruRecord
  BY <1>7, <1>8, <1>10, <1>11, Relinked
<1>18. \A i \in 1 .. n - 1 : w[i] = s[i] /\ i \in 1 .. n /\ i # n
  BY <1>0, <1>3
<1>13. \A i \in 1 .. n - 1 : r.pre[w[i]] = IF i = 1 THEN NULL ELSE w[i - 1]
  <2> SUFFICES ASSUME NEW i \in 1 .. n - 1
               PROVE  r.pre[w[i]] = IF i = 1 THEN NULL ELSE w[i - 1]
    OBVIOUS
  <2>1. l.pre[s[i]] = IF i = 1 THEN NULL ELSE s[i - 1]
    BY <1>1, <1>18 DEF Laid
  <2>2. i # 1 => i - 1 \in 1 .. n - 1
    BY <1>0
  <2> QED BY <1>8, <1>18, <2>1, <2>2
<1>14. \A i \in 1 .. n - 1 : r.nex[w[i]] = IF i = n - 1 THEN NULL ELSE w[i + 1]
  <2> SUFFICES ASSUME NEW i \in 1 .. n - 1
               PROVE  r.nex[w[i]] = IF i = n - 1 THEN NULL ELSE w[i + 1]
    OBVIOUS
  <2>1. w[i] = s[i] /\ i \in 1 .. n /\ i # n
    BY <1>18
  <2>2. r.nex[w[i]] = IF i = n - 1 THEN NULL ELSE s[i + 1]
    BY <1>1, <1>9, <1>10, <1>17, <2>1 DEF Laid, a
  <2>3. i # n - 1 => i + 1 \in 1 .. n - 1 /\ w[i + 1] = s[i + 1]
    BY <1>0, <1>3
  <2> QED BY <2>2, <2>3
<1>15. r.num = n - 1 /\ n - 1 # 0 /\ r.head = w[1] /\ r.tail = w[n - 1]
  <2>1. n - 1 \in 1 .. n - 1 /\ 1 \in 1 .. n - 1
    BY <1>0
  <2>2. w[1] = s[1] /\ w[n - 1] = a
    BY <1>18, <2>1 DEF a
  <2>3. l.head = s[1]
    BY <1>1 DEF Laid
  <2> QED BY <1>0, <1>8, <2>2, <2>3
<1>16. Chained(r, w)
  BY <1>3, <1>4, <1>13, <1>14, <1>15 DEF Chained
<1> QED BY <1>8, <1>12, <1>16 DEF w

(* The list of l without its p-th node.                                    *)
Unlinked(r, l, s, p) ==
  /\ r \in LruRecord
  /\ SameFiles(r, l)
  /\ Chained(r, Cache!Without(s, p))

(* The three ways in which the list loses its first or its last node.      *)
LEMMA PopChained ==
  ASSUME NEW l \in LruRecord, NEW s, Chained(l, s), Len(s) # 0
  PROVE  /\ Unlinked(DlPopHead(l), l, s, 1)
         /\ Unlinked(DlPopTail(l), l, s, Len(s))
         /\ Unlinked(DlPop(l, s[1]), l, s, 1)
         /\ Unlinked(DlPop(l, s[Len(s)]), l, s, Len(s))
<1> DEFINE n == Len(s)
<1>0. n \in Nat /\ l.num = n /\ n # 0
  BY ChainFacts
<1> HIDE DEF n
<1>1. Laid(l, s, n)
  BY <1>0, ChainLaid DEF n
<1>2. ~ DlNothing(l)
  BY <1>0, <1>1 DEF Laid, DlNothing
<1>3. CASE n = 1
  <2>1. Unlinked(DlEmptied(l), l, s, 1)
    BY <1>3, EmptiedChained DEF n, Unlinked
  <2>2. DlPopHead(l) = DlEmptied(l) /\ DlPopTail(l) = DlEmptied(l)
    BY <1>1, <1>2, <1>3 DEF Laid, DlPopHead, DlPopTail
  <2>3. DlPop(l, s[1]) = DlEmptied(l)
    BY <1>1, <1>3 DEF Laid, DlPop
  <2> QED BY <1>3, <2>1, <2>2, <2>3 DEF n
<1>4. CASE n # 1
  <2>1. /\ n > 1 /\ 1 \in 1 .. n /\ n \in 1 .. n
        /\ 2 \in 1 .. n /\ n - 1 \in 1 .. n
    BY <1>0, <1>4
  <2>2. Unlinked(CutHead(l), l, s, 1)
    BY <1>0, <2>1, CutHeadChained DEF n, Unlinked
  <2>3. Unlinked(CutTail(l), l, s, n)
    BY <1>0, <2>1, CutTailChained DEF n, Unlinked
  <2>4. DlPopHead(l) = CutHead(l) /\ DlPopTail(l) = CutTail(l)
    BY <1>1, <1>2, <1>4 DEF Laid, DlPopHead, DlPopTail, CutHead, CutTail
  <2>5. s[2] # NULL /\ s[n - 1] # NULL
    BY <1>1, <2>1, NullIsNoBlock DEF Laid
  <2>6. DlPop(l, s[1]) = CutHead(l)
    <3>1. l.pre[s[1]] = NULL /\ l.nex[s[1]] = s[2] /\ l.num # 0
      BY <1>1, <1>4, <2>1 DEF Laid
    <3> QED BY <1>1, <1>4, <2>5, <3>1 DEF Laid, DlPop, CutHead
  <2>7. DlPop(l, s[n]) = CutTail(l)
    <3>1. l.pre[s[n]] = s[n - 1] /\ l.nex[s[n]] = NULL /\ l.num # 0
      BY <1>1, <1>4, <2>1 DEF Laid
    <3> QED BY <1>1, <1>4, <2>5, <3>1 DEF Laid, DlPop, CutTail
  <2> QED BY <2>2, <2>3, <2>4, <2>6, <2>7 DEF n
<1> QED BY <1>3, <1>4

(* A list that gets a new first node.                                      *)
LEMMA AddFields ==
  ASSUME NEW l \in LruRecord, NEW s, Chained(l, s), Len(s) # 0,
         NEW d \in Block \ ToSet(s), NEW r, r = DlAdd(l, d)
  PROVE  /\ r \in LruRecord
         /\ SameFiles(r, l)
         /\ r.num = l.num + 1
         /\ r.head = d
         /\ r.tail = s[Len(s)]
         /\ \A x \in Block :
              /\ r.pre[x] = IF x = s[1] THEN d
                            ELSE IF x = d THEN NULL ELSE l.pre[x]
              /\ r.nex[x] = IF x = d THEN s[1] ELSE l.nex[x]
<1> DEFINE n == Len(s)
           e == s[1]
           t == s[n]
<1>0. n \in Nat /\ l.num = n /\ n # 0 /\ 1 \in 1 .. n /\ n \in 1 .. n
  BY ChainFacts
<1> HIDE DEF n
<1>1. Laid(l, s, n)
  BY <1>0, ChainLaid DEF n
<1>2. e \in Block /\ t \in Block /\ l.head = e /\ l.tail = t /\ (n = 1 => t = e)
  BY <1>0, <1>1 DEF Laid
<1> HIDE DEF e, t
<1>3. r = [l EXCEPT !.pre[d] = NULL, !.nex[d] = e, !.pre[e] = d,
                    !.tail = t, !.head = d, !.num = @ + 1]
  <2>1. CASE n = 1
    BY <1>0, <1>2, <2>1 DEF DlAdd, LruRecord
  <2>2. CASE n # 1
    <3>1. r = [l EXCEPT !.pre[d] = NULL, !.nex[d] = e, !.pre[e] = d,
                        !.tail = l.tail, !.head = d, !.num = @ + 1]
      BY <1>0, <1>2, <2>2 DEF DlAdd, LruRecord
    <3> QED BY <1>2, <3>1
  <2> QED BY <2>1, <2>2
<1>4. SameFields(r, l)
  BY <1>3 DEF SameFields
<1>5. SameFiles(r, l) /\ r.head = d /\ r.tail = t /\ r.num = l.num + 1
  BY <1>3 DEF LruRecord, SameFiles
<1>6. r.pre = [[l.pre EXCEPT ![d] = NULL] EXCEPT ![e] = d]
  BY <1>3 DEF LruRecord
<1>7. r.nex = [l.nex EXCEPT ![d] = e]
  BY <1>3 DEF LruRecord
<1>8. l.pre \in [Block -> Pointer] /\ l.nex \in [Block -> Pointer]
  BY DEF LruRecord
<1>9. /\ r.pre \in [Block -> Pointer] /\ r.nex \in [Block -> Pointer]
      /\ r.head \in Pointer /\ r.tail \in Pointer /\ r.num \in Nat
  BY <1>0, <1>2, <1>5, <1>6, <1>7, <1>8 DEF Pointer
<1>10. r \in LruRecord
  BY <1>4, <1>5, <1>9, Relinked
<1>11. \A x \in Block :
         /\ r.pre[x] = IF x = e THEN d ELSE IF x = d THEN NULL ELSE l.pre[x]
         /\ r.nex[x] = IF x = d THEN e ELSE l.nex[x]
  BY <1>2, <1>6, <1>7, <1>8
<1> QED BY <1>5, <1>10, <1>11 DEF e, t, n

LEMMA AddChained ==
  ASSUME NEW l \in LruRecord, NEW s, Chained(l, s),
         NEW d \in Block \ ToSet(s), NEW r, r = DlAdd(l, d)
  PROVE  r \in LruRecord /\ SameFiles(r, l) /\ Chained(r, <<d>> \o s)
<1> DEFINE n == Len(s)
           w == <<d>> \o s
<1>1. n \in Nat /\ l.num = n /\ DOMAIN s = 1 .. n
  BY ChainFacts
<1>2. s \in Seq(Block) /\ IsInjective(s) /\ Len(s) = n
  BY DEF Chained
<1>3. /\ w \in Seq(Block)
      /\ Len(w) = n + 1
      /\ \A i \in 1 .. n + 1 : w[i] = IF i = 1 THEN d ELSE s[i - 1]
  BY <1>2, PrependAt
<1>4. IsInjective(w)
  BY <1>2, PrependSet
<1> HIDE DEF n, w
<1>5. CASE n = 0
  <2>1. r = [l EXCEPT !.pre[d] = NULL, !.nex[d] = NULL,
                      !.head = d, !.tail = d, !.num = 1]
    BY <1>1, <1>5 DEF DlAdd
  <2>2. SameFields(r, l)
    BY <2>1 DEF SameFields
  <2>3. SameFiles(r, l) /\ r.head = d /\ r.tail = d /\ r.num = 1
    BY <2>1 DEF LruRecord, SameFiles
  <2>4. r.pre = [l.pre EXCEPT ![d] = NULL] /\ r.nex = [l.nex EXCEPT ![d] = NULL]
    BY <2>1 DEF LruRecord
  <2>5. l.pre \in [Block -> Pointer] /\ l.nex \in [Block -> Pointer]
    BY DEF LruRecord
  <2>6. /\ r.pre \in [Block -> Pointer] /\ r.nex \in [Block -> Pointer]
        /\ r.pre[d] = NULL /\ r.nex[d] = NULL /\ d \in Pointer
    BY <2>4, <2>5 DEF Pointer
  <2>7. r \in LruRecord
    BY <2>2, <2>3, <2>6, Relinked
  <2>8. Len(w) = 1 /\ w[1] = d
    BY <1>3, <1>5
  <2>9. \A i \in 1 .. Len(w) : i = 1
    BY <2>8
  <2>10. w \in Seq(Block)
    BY <1>3
  <2>11. Chained(r, w)
    BY <1>4, <2>3, <2>6, <2>8, <2>9, <2>10 DEF Chained
  <2> QED BY <2>3, <2>7, <2>11 DEF w
<1>6. CASE n # 0
  <2>1. Laid(l, s, n)
    BY <1>2, <1>6, ChainLaid
  <2>2. /\ r \in LruRecord
        /\ SameFiles(r, l)
        /\ r.num = l.num + 1
        /\ r.head = d
        /\ r.tail = s[n]
        /\ \A x \in Block :
             /\ r.pre[x] = IF x = s[1] THEN d
                           ELSE IF x = d THEN NULL ELSE l.pre[x]
             /\ r.nex[x] = IF x = d THEN s[1] ELSE l.nex[x]
    BY <1>2, <1>6, AddFields
  <2>3. \A i \in 1 .. n : s[i] # d /\ s[i] \in Block
    BY <1>1, <2>1 DEF Laid, ToSet
  <2>4. r.num = n + 1 /\ r.head = w[1] /\ r.tail = w[n + 1] /\ n + 1 # 0
    BY <1>1, <1>3, <1>6, <2>2
  <2>5. \A i \in 1 .. n + 1 : r.pre[w[i]] = IF i = 1 THEN NULL ELSE w[i - 1]
    <3> SUFFICES ASSUME NEW i \in 1 .. n + 1
                 PROVE  r.pre[w[i]] = IF i = 1 THEN NULL ELSE w[i - 1]
      OBVIOUS
    <3>1. CASE i = 1
      <4>1. w[i] = d /\ d # s[1]
        BY <1>1, <1>3, <1>6, <2>3, <3>1
      <4> QED BY <2>2, <3>1, <4>1
    <3>2. CASE i # 1
      <4>1. /\ i - 1 \in 1 .. n /\ w[i] = s[i - 1] /\ i - 1 \in 1 .. n + 1
            /\ w[i - 1] = IF i - 1 = 1 THEN d ELSE s[i - 2]
        BY <1>1, <1>3, <3>2
      <4>2. r.pre[s[i - 1]] = IF i - 1 = 1 THEN d ELSE s[i - 2]
        BY <1>1, <1>6, <2>1, <2>2, <2>3, <4>1 DEF Laid
      <4> QED BY <3>2, <4>1, <4>2
    <3> QED BY <3>1, <3>2
  <2>6. \A i \in 1 .. n + 1 : r.nex[w[i]] = IF i = n + 1 THEN NULL ELSE w[i + 1]
    <3> SUFFICES ASSUME NEW i \in 1 .. n + 1
                 PROVE  r.nex[w[i]] = IF i = n + 1 THEN NULL ELSE w[i + 1]
      OBVIOUS
    <3>1. CASE i = 1
      <4>1. w[i] = d /\ i # n + 1 /\ w[i + 1] = s[1]
        BY <1>1, <1>3, <1>6, <3>1
      <4> QED BY <2>2, <4>1
    <3>2. CASE i # 1
      <4>1. i - 1 \in 1 .. n /\ w[i] = s[i - 1]
        BY <1>1, <1>3, <3>2
      <4>2. r.nex[s[i - 1]] = IF i - 1 = n THEN NULL ELSE s[i]
        BY <1>1, <2>1, <2>2, <2>3, <4>1 DEF Laid
      <4>3. i # n + 1 => w[i + 1] = s[i]
        BY <1>1, <1>3, <3>2
      <4> QED BY <1>1, <3>2, <4>1, <4>2, <4>3
    <3> QED BY <3>1, <3>2
  <2>7. Chained(r, w)
    BY <1>3, <1>4, <2>4, <2>5, <2>6 DEF Chained
  <2> QED BY <2>2, <2>7 DEF w
<1> QED BY <1>5, <1>6

-----------------------------------------------------------------------------
(* The hash and the pools.                                                 *)

(* What refiling leaves of the type.                                       *)
LEMMA Refiled ==
  ASSUME NEW l \in LruRecord, NEW r, SameFields(r, l), SameList(r, l),
         r.size \in Nat, r.map \in Buckets,
         r.data \in [Block -> Pointer], r.dl_node \in [Block -> Pointer],
         r.kv \in [Block -> Key \cup {NULL}], r.udata \in [Block -> Pointer],
         r.block \in [Block -> Value \cup {NULL}],
         r.lru_node_pool \in Seq(Block), r.dl_node_pool \in Seq(Block),
         r.udata_pool \in Seq(Block)
  PROVE  r \in LruRecord
BY DEF LruRecord, SameFields, SameList

(* A list that is only filed anew stays as it is linked.                   *)
LEMMA SameListChained ==
  ASSUME NEW l, NEW s, NEW r, Chained(l, s), SameList(r, l)
  PROVE  Chained(r, s)
BY DEF Chained, SameList

SameContents(r, l) ==
  /\ r.data = l.data /\ r.dl_node = l.dl_node /\ r.kv = l.kv
  /\ r.udata = l.udata /\ r.block = l.block

(* r is l after the key of the lru node n has left the hash, and n, its    *)
(* list node and its data block are in the pools again.                    *)
Freed(r, l, n) ==
  /\ SameContents(r, l)
  /\ r.map = Hash!Del(l.map, l.kv[n])
  /\ r.lru_node_pool = Push(l.lru_node_pool, n)
  /\ r.dl_node_pool = Push(l.dl_node_pool, l.dl_node[n])
  /\ r.udata_pool = Push(l.udata_pool, l.udata[n])

LEMMA PushType ==
  ASSUME NEW pool \in Seq(Block), NEW b \in Block
  PROVE  Push(pool, b) \in Seq(Block)
BY AppendProperties DEF Push

LEMMA PushFreed ==
  ASSUME NEW l \in LruRecord, NEW n \in Block, l.kv[n] \in Key,
         l.dl_node[n] \in Block, l.udata[n] \in Block,
         NEW r, r = NodePush(HashDel(l, l.kv[n]), n)
  PROVE  /\ r \in LruRecord
         /\ SameList(r, l)
         /\ Freed(r, l, n)
         /\ r.size = l.size
<1>1. r = [l EXCEPT !.map = Hash!Del(@, l.kv[n]),
                    !.dl_node_pool = Push(@, l.dl_node[n]),
                    !.udata_pool = Push(@, l.udata[n]),
                    !.lru_node_pool = Push(@, n)]
  BY DEF NodePush, HashDel, LruRecord
<1>2. SameFields(r, l)
  BY <1>1 DEF SameFields
<1>3. SameList(r, l) /\ SameContents(r, l) /\ r.size = l.size
  BY <1>1 DEF LruRecord, SameList, SameContents
<1>4. r.map = Hash!Del(l.map, l.kv[n])
  BY <1>1 DEF LruRecord
<1>5. /\ r.lru_node_pool = Push(l.lru_node_pool, n)
      /\ r.dl_node_pool = Push(l.dl_node_pool, l.dl_node[n])
      /\ r.udata_pool = Push(l.udata_pool, l.udata[n])
  BY <1>1 DEF LruRecord
<1>6. /\ l.size \in Nat /\ l.map \in Buckets
      /\ l.lru_node_pool \in Seq(Block) /\ l.dl_node_pool \in Seq(Block)
      /\ l.udata_pool \in Seq(Block)
  BY DEF LruRecord
<1>7. /\ r.lru_node_pool \in Seq(Block) /\ r.dl_node_pool \in Seq(Block)
      /\ r.udata_pool \in Seq(Block)
  BY <1>5, <1>6, PushType
<1>8. r.map \in Buckets
  BY <1>4, <1>6, DelDeletes
<1>9. /\ r.data \in [Block -> Pointer] /\ r.dl_node \in [Block -> Pointer]
      /\ r.kv \in [Block -> Key \cup {NULL}] /\ r.udata \in [Block -> Pointer]
      /\ r.block \in [Block -> Value \cup {NULL}]
  BY <1>3 DEF LruRecord, SameContents
<1>10. r \in LruRecord
  BY <1>2, <1>3, <1>6, <1>7, <1>8, <1>9, Refiled
<1> QED BY <1>3, <1>4, <1>5, <1>10 DEF Freed

(* What is filed under the p-th list node of a table.                      *)
LEMMA PlaceFacts ==
  ASSUME NEW l, NEW s, Table(l, s), NEW p \in 1 .. Len(s),
         NEW n, n = l.data[s[p]]
  PROVE  /\ s[p] \in ToSet(s) /\ s[p] \in Block
         /\ n \in Block
         /\ l.dl_node[n] = s[p]
         /\ l.kv[n] \in Key
         /\ HashGet(l, l.kv[n]) = n
         /\ l.udata[n] \in Block
         /\ l.block[l.udata[n]] \in Value
<1>1. s[p] \in ToSet(s) /\ s[p] \in Block
  BY ChainFacts DEF Table, ToSet
<1> QED BY <1>1 DEF Table, Filed

(* A table with the files of another, and the same list nodes.             *)
LEMMA Reordered ==
  ASSUME NEW l, NEW s, Table(l, s), NEW r \in LruRecord, SameFiles(r, l),
         NEW t, Chained(r, t), Len(t) = Len(s), ToSet(t) = ToSet(s)
  PROVE  Table(r, t)
<1>1. r.num = r.size /\ r.size <= MaxSize
  BY ChainFacts DEF Table, SameFiles
<1>2. Filed(r, ToSet(t))
  BY DEF Table, Filed, SameFiles
<1>3. Pooled(r, ToSet(t))
  BY DEF Table, Pooled, SameFiles
<1> QED BY <1>1, <1>2, <1>3 DEF Table

(* An entry that leaves the table.                                         *)
LEMMA RemovedTable ==
  ASSUME NEW l, NEW s, Table(l, s), NEW p \in 1 .. Len(s),
         NEW n, n = l.data[s[p]], NEW r \in LruRecord, Freed(r, l, n),
         r.size = l.size - 1, Chained(r, Cache!Without(s, p))
  PROVE  Table(r, Cache!Without(s, p))
<1> DEFINE w == Cache!Without(s, p)
           D == ToSet(s)
           d == s[p]
           E == D \ {d}
           k == l.kv[n]
<1>1. /\ d \in D /\ d \in Block /\ n \in Block
      /\ l.dl_node[n] = d /\ k \in Key /\ HashGet(l, k) = n
      /\ l.udata[n] \in Block
  BY PlaceFacts
<1>2. /\ s \in Seq(Block) /\ IsInjective(s) /\ Len(s) \in Nat /\ Len(s) = l.size
      /\ l.size <= MaxSize /\ MaxSize \in Nat
  BY ChainFacts, SizeAssumption DEF Table, Chained
<1>3. ToSet(w) = E
  BY <1>2, WithoutSet
<1>4. Len(w) = Len(s) - 1
  BY <1>2, WithoutAt
<1> HIDE DEF w, D, d, k
<1>5. /\ l.map \in Buckets /\ NULL \notin Block
  BY NullIsNoBlock DEF Table, LruRecord
<1>6. \A x \in Key : HashGet(r, x) = IF x = k THEN NULL ELSE HashGet(l, x)
  BY <1>1, <1>5, DelDeletes DEF Freed, k
<1>7. /\ \A e \in D :
           /\ l.data[e] \in Block
           /\ l.dl_node[l.data[e]] = e
           /\ l.kv[l.data[e]] \in Key
           /\ HashGet(l, l.kv[l.data[e]]) = l.data[e]
           /\ l.udata[l.data[e]] \in Block
           /\ l.block[l.udata[l.data[e]]] \in Value
      /\ \A e, f \in D : l.udata[l.data[e]] = l.udata[l.data[f]] => e = f
      /\ \A x \in Key : HashGet(l, x) # NULL =>
           \E e \in D : l.data[e] = HashGet(l, x) /\ l.kv[l.data[e]] = x
  BY DEF Table, Filed, D
<1>8. l.data[d] = n
  BY DEF d
<1>9. Filed(r, E)
  <2>1. \A e \in E : l.kv[l.data[e]] # k
    BY <1>1, <1>7
  <2>2. \A e \in E :
          /\ r.data[e] \in Block
          /\ r.dl_node[r.data[e]] = e
          /\ r.kv[r.data[e]] \in Key
          /\ HashGet(r, r.kv[r.data[e]]) = r.data[e]
          /\ r.udata[r.data[e]] \in Block
          /\ r.block[r.udata[r.data[e]]] \in Value
    BY <1>6, <1>7, <2>1 DEF Freed, SameContents
  <2>3. \A e, f \in E : r.udata[r.data[e]] = r.udata[r.data[f]] => e = f
    BY <1>7 DEF Freed, SameContents
  <2>4. ASSUME NEW x \in Key, HashGet(r, x) # NULL
        PROVE  \E e \in E : r.data[e] = HashGet(r, x) /\ r.kv[r.data[e]] = x
    <3>1. x # k /\ HashGet(r, x) = HashGet(l, x)
      BY <1>6, <2>4
    <3>2. PICK e \in D : l.data[e] = HashGet(l, x) /\ l.kv[l.data[e]] = x
      BY <1>7, <2>4, <3>1
    <3>3. e # d
      BY <1>8, <3>1, <3>2 DEF k
    <3> QED BY <3>1, <3>2, <3>3 DEF Freed, SameContents
  <2> QED BY <2>2, <2>3, <2>4 DEF Filed
<1>10. Pooled(r, E)
  <2> DEFINE m == MaxSize - l.size
             N(F) == {l.data[e] : e \in F}
             U(F) == {l.udata[l.data[e]] : e \in F}
  <2>1. Len(s) # 0
    BY <1>2
  <2>2. m \in Nat /\ m < MaxSize /\ MaxSize - r.size = m + 1
    BY <1>2, <2>1
  <2>3. /\ Holds(l.lru_node_pool, Block \ N(D), m)
        /\ Holds(l.dl_node_pool, Block \ D, m)
        /\ Holds(l.udata_pool, Block \ U(D), m)
    BY DEF Table, Pooled, D
  <2> HIDE DEF m
  <2>4. n \in N(D) /\ l.udata[n] \in U(D)
    BY <1>1, <1>8
  <2>5. /\ n \in Block \ (Block \ N(D))
        /\ d \in Block \ (Block \ D)
        /\ l.udata[n] \in Block \ (Block \ U(D))
    BY <1>1, <2>4
  <2>6. /\ (Block \ N(D)) \cup {n} = Block \ N(E)
        /\ (Block \ D) \cup {d} = Block \ E
        /\ (Block \ U(D)) \cup {l.udata[n]} = Block \ U(E)
    <3>1. N(D) = N(E) \cup {n} /\ n \notin N(E)
      BY <1>1, <1>7, <1>8
    <3>2. U(D) = U(E) \cup {l.udata[n]} /\ l.udata[n] \notin U(E)
      BY <1>1, <1>7, <1>8
    <3> HIDE DEF N, U
    <3> QED BY <1>1, <3>1, <3>2
  <2> HIDE DEF N, U
  <2>7. /\ Holds(Push(l.lru_node_pool, n), Block \ N(E), m + 1)
        /\ Holds(Push(l.dl_node_pool, d), Block \ E, m + 1)
        /\ Holds(Push(l.udata_pool, l.udata[n]), Block \ U(E), m + 1)
    <3>1. Holds(Push(l.lru_node_pool, n), (Block \ N(D)) \cup {n}, m + 1)
      BY <2>2, <2>3, <2>5, PushPool
    <3>2. Holds(Push(l.dl_node_pool, d), (Block \ D) \cup {d}, m + 1)
      BY <2>2, <2>3, <2>5, PushPool
    <3>3. Holds(Push(l.udata_pool, l.udata[n]),
                (Block \ U(D)) \cup {l.udata[n]}, m + 1)
      BY <2>2, <2>3, <2>5, PushPool
    <3> QED BY <2>6, <3>1, <3>2, <3>3
  <2>8. /\ Holds(r.lru_node_pool, Block \ N(E), m + 1)
        /\ Holds(r.dl_node_pool, Block \ E, m + 1)
        /\ Holds(r.udata_pool, Block \ U(E), m + 1)
    BY <1>1, <2>7 DEF Freed
  <2>9. N(E) = {r.data[e] : e \in E} /\ U(E) = {r.udata[r.data[e]] : e \in E}
    BY DEF Freed, SameContents, N, U
  <2> QED BY <2>2, <2>8, <2>9 DEF Pooled
<1>11. r.num = Len(w)
  BY DEF Chained, w
<1>12. r.size = r.num /\ r.size <= MaxSize
  BY <1>2, <1>4, <1>11
<1>13. Table(r, w)
  BY <1>3, <1>9, <1>10, <1>12 DEF Table, w
<1> QED BY <1>13 DEF w

(* r is l with a new entry: the lru node n, the list node d and the data   *)
(* block u, taken from the pools, for the key k with the contents v.       *)
Entered(r, l, n, d, u, k, v) ==
  /\ r.size = l.size + 1
  /\ r.map = Hash!Set(l.map, k, n)
  /\ r.data = [l.data EXCEPT ![d] = n]
  /\ r.dl_node = [l.dl_node EXCEPT ![n] = d]
  /\ r.kv = [l.kv EXCEPT ![n] = k]
  /\ r.udata = [l.udata EXCEPT ![n] = u]
  /\ r.block = [l.block EXCEPT ![u] = v]
  /\ r.lru_node_pool = Front(l.lru_node_pool)
  /\ r.dl_node_pool = Front(l.dl_node_pool)
  /\ r.udata_pool = Front(l.udata_pool)

LEMMA EnterFields ==
  ASSUME NEW l \in LruRecord, NEW s, Chained(l, s),
         NEW n \in Block, n = Last(l.lru_node_pool),
         Front(l.lru_node_pool) \in Seq(Block),
         NEW d \in Block \ ToSet(s), d = Last(l.dl_node_pool),
         Front(l.dl_node_pool) \in Seq(Block),
         NEW u \in Block, u = Last(l.udata_pool),
         Front(l.udata_pool) \in Seq(Block),
         NEW k \in Key, NEW v \in Value, NEW r, r = Enter(l, k, v)
  PROVE  /\ r \in LruRecord /\ Chained(r, <<d>> \o s)
         /\ Entered(r, l, n, d, u, k, v)
<1> DEFINE m == NodePop(l)
           q == DlAdd(m, d)
<1>1. /\ l.size \in Nat /\ l.map \in Buckets
      /\ l.data \in [Block -> Pointer] /\ l.dl_node \in [Block -> Pointer]
      /\ l.kv \in [Block -> Key \cup {NULL}] /\ l.udata \in [Block -> Pointer]
      /\ l.block \in [Block -> Value \cup {NULL}]
  BY DEF LruRecord
<1>2. m = [l EXCEPT !.dl_node[n] = d, !.udata[n] = u,
                    !.lru_node_pool = Front(@), !.dl_node_pool = Front(@),
                    !.udata_pool = Front(@)]
  BY DEF NodePop
<1> HIDE DEF m
<1>3. SameFields(m, l)
  BY <1>2 DEF SameFields
<1>4. /\ SameList(m, l) /\ m.size = l.size /\ m.map = l.map /\ m.data = l.data
      /\ m.kv = l.kv /\ m.block = l.block
  BY <1>2 DEF LruRecord, SameList
<1>5. /\ m.dl_node = [l.dl_node EXCEPT ![n] = d]
      /\ m.udata = [l.udata EXCEPT ![n] = u]
  BY <1>2 DEF LruRecord
<1>6. /\ m.lru_node_pool = Front(l.lru_node_pool)
      /\ m.dl_node_pool = Front(l.dl_node_pool)
      /\ m.udata_pool = Front(l.udata_pool)
  BY <1>2 DEF LruRecord
<1>7. m.dl_node \in [Block -> Pointer] /\ m.udata \in [Block -> Pointer]
  BY <1>1, <1>5 DEF Pointer
<1>8. m \in LruRecord
  BY <1>1, <1>3, <1>4, <1>6, <1>7, Refiled
<1>9. Chained(m, s)
  BY <1>4, SameListChained
<1>10. q \in LruRecord /\ SameFiles(q, m) /\ Chained(q, <<d>> \o s)
  BY <1>8, <1>9, AddChained
<1>11. r = [q EXCEPT !.block[u] = v, !.map = Hash!Set(@, k, n), !.kv[n] = k,
                     !.data[d] = n, !.size = @ + 1]
  BY DEF Enter, m, q
<1> HIDE DEF q
<1>12. SameFields(r, q)
  BY <1>11 DEF SameFields
<1>13. /\ SameList(r, q) /\ r.size = q.size + 1
       /\ r.dl_node = q.dl_node /\ r.udata = q.udata
       /\ r.lru_node_pool = q.lru_node_pool
       /\ r.dl_node_pool = q.dl_node_pool /\ r.udata_pool = q.udata_pool
  BY <1>10, <1>11 DEF LruRecord, SameList
<1>14. /\ r.block = [q.block EXCEPT ![u] = v] /\ r.map = Hash!Set(q.map, k, n)
  BY <1>10, <1>11 DEF LruRecord
<1>15. /\ r.kv = [q.kv EXCEPT ![n] = k] /\ r.data = [q.data EXCEPT ![d] = n]
  BY <1>10, <1>11 DEF LruRecord
<1>16. Entered(r, l, n, d, u, k, v)
  BY <1>4, <1>5, <1>6, <1>10, <1>13, <1>14, <1>15 DEF SameFiles, Entered
<1>17. /\ r.size \in Nat /\ r.map \in Buckets
       /\ r.data \in [Block -> Pointer] /\ r.dl_node \in [Block -> Pointer]
       /\ r.kv \in [Block -> Key \cup {NULL}] /\ r.udata \in [Block -> Pointer]
       /\ r.block \in [Block -> Value \cup {NULL}]
  <2>1. r.map \in Buckets
    BY <1>1, <1>16, SetSets DEF Entered
  <2> QED BY <1>1, <1>16, <2>1 DEF Entered, Pointer
<1>18. /\ r.lru_node_pool \in Seq(Block) /\ r.dl_node_pool \in Seq(Block)
       /\ r.udata_pool \in Seq(Block)
  BY <1>16 DEF Entered
<1>19. r \in LruRecord
  BY <1>10, <1>12, <1>13, <1>17, <1>18, Refiled
<1>20. Chained(r, <<d>> \o s)
  BY <1>10, <1>13, SameListChained
<1> QED BY <1>16, <1>19, <1>20

(* An entry that comes into a table that has room for it.                  *)
LEMMA EnteredTable ==
  ASSUME NEW l, NEW s, Table(l, s), l.size < MaxSize,
         NEW k \in Key, HashGet(l, k) = NULL, NEW v \in Value,
         NEW r, r = Enter(l, k, v)
  PROVE  \E n, d, u \in Block :
           /\ d \notin ToSet(s)
           /\ \A e \in ToSet(s) : l.data[e] # n /\ l.udata[l.data[e]] # u
           /\ Entered(r, l, n, d, u, k, v)
           /\ Table(r, <<d>> \o s)
<1> DEFINE D == ToSet(s)
           m == MaxSize - l.size
           n == Last(l.lru_node_pool)
           d == Last(l.dl_node_pool)
           u == Last(l.udata_pool)
           w == <<d>> \o s
           E == D \cup {d}
           N == {l.data[e] : e \in D}
           U == {l.udata[l.data[e]] : e \in D}
<1>1. /\ s \in Seq(Block) /\ IsInjective(s) /\ Len(s) \in Nat /\ Len(s) = l.size
      /\ MaxSize \in Nat /\ l \in LruRecord /\ Chained(l, s)
  BY ChainFacts, SizeAssumption DEF Table, Chained
<1>2. m \in Nat /\ m # 0 /\ MaxSize - (l.size + 1) = m - 1
  BY <1>1
<1>3. /\ Holds(l.lru_node_pool, Block \ N, m)
      /\ Holds(l.dl_node_pool, Block \ D, m)
      /\ Holds(l.udata_pool, Block \ U, m)
  BY DEF Table, Pooled
<1> HIDE DEF m, N, U, D
<1>4. /\ n \in Block \ N /\ d \in Block \ D /\ u \in Block \ U
      /\ Holds(Front(l.lru_node_pool), (Block \ N) \ {n}, m - 1)
      /\ Holds(Front(l.dl_node_pool), (Block \ D) \ {d}, m - 1)
      /\ Holds(Front(l.udata_pool), (Block \ U) \ {u}, m - 1)
  BY <1>2, <1>3, PopPool
<1>5. /\ Front(l.lru_node_pool) \in Seq(Block)
      /\ Front(l.dl_node_pool) \in Seq(Block)
      /\ Front(l.udata_pool) \in Seq(Block)
  BY <1>4 DEF Holds
<1>6. r \in LruRecord /\ Chained(r, w) /\ Entered(r, l, n, d, u, k, v)
  BY <1>1, <1>4, <1>5, EnterFields DEF D
<1> HIDE DEF n, d, u
<1>7. ToSet(w) = E
  BY <1>1, <1>4, PrependSet DEF D
<1>8. Len(w) = Len(s) + 1
  BY <1>1, <1>4, PrependAt
<1> HIDE DEF w
<1>9. /\ l.map \in Buckets /\ NULL \notin Block
      /\ l.data \in [Block -> Pointer] /\ l.dl_node \in [Block -> Pointer]
      /\ l.kv \in [Block -> Key \cup {NULL}] /\ l.udata \in [Block -> Pointer]
      /\ l.block \in [Block -> Value \cup {NULL}]
  BY <1>1, NullIsNoBlock DEF LruRecord
<1>21. \A x \in Key : HashGet(r, x) = IF x = k THEN n ELSE HashGet(l, x)
  BY <1>4, <1>6, <1>9, SetSets DEF Entered
<1>10. /\ \A e \in D :
            /\ l.data[e] \in Block
            /\ l.dl_node[l.data[e]] = e
            /\ l.kv[l.data[e]] \in Key
            /\ HashGet(l, l.kv[l.data[e]]) = l.data[e]
            /\ l.udata[l.data[e]] \in Block
            /\ l.block[l.udata[l.data[e]]] \in Value
       /\ \A e, f \in D : l.udata[l.data[e]] = l.udata[l.data[f]] => e = f
       /\ \A x \in Key : HashGet(l, x) # NULL =>
            \E e \in D : l.data[e] = HashGet(l, x) /\ l.kv[l.data[e]] = x
  BY DEF Table, Filed, D
<1>11. D \subseteq Block
  BY <1>1, ChainFacts DEF ToSet, D
<1>12. \A e \in D : e # d /\ l.data[e] # n /\ l.udata[l.data[e]] # u
  BY <1>4 DEF N, U
<1>13. \A e \in D : l.kv[l.data[e]] # k
  BY <1>9, <1>10
<1>14. \A e \in D :
         /\ r.data[e] = l.data[e]
         /\ r.dl_node[r.data[e]] = e
         /\ r.kv[r.data[e]] = l.kv[l.data[e]]
         /\ HashGet(r, r.kv[r.data[e]]) = r.data[e]
         /\ r.udata[r.data[e]] = l.udata[l.data[e]]
         /\ r.block[r.udata[r.data[e]]] = l.block[l.udata[l.data[e]]]
  <2> SUFFICES ASSUME NEW e \in D
               PROVE  /\ r.data[e] = l.data[e]
                      /\ r.dl_node[r.data[e]] = e
                      /\ r.kv[r.data[e]] = l.kv[l.data[e]]
                      /\ HashGet(r, r.kv[r.data[e]]) = r.data[e]
                      /\ r.udata[r.data[e]] = l.udata[l.data[e]]
                      /\ r.block[r.udata[r.data[e]]] =
                           l.block[l.udata[l.data[e]]]
    OBVIOUS
  <2>1. /\ r.data[e] = l.data[e]
        /\ r.dl_node[r.data[e]] = e
        /\ r.kv[r.data[e]] = l.kv[l.data[e]]
        /\ r.udata[r.data[e]] = l.udata[l.data[e]]
        /\ r.block[r.udata[r.data[e]]] = l.block[l.udata[l.data[e]]]
    BY <1>6, <1>9, <1>10, <1>11, <1>12 DEF Entered
  <2>2. HashGet(r, l.kv[l.data[e]]) = l.data[e]
    BY <1>10, <1>13, <1>21
  <2> QED BY <2>1, <2>2
<1>15. /\ r.data[d] = n /\ r.dl_node[n] = d /\ r.kv[n] = k /\ HashGet(r, k) = n
       /\ r.udata[n] = u /\ r.block[u] = v
  BY <1>4, <1>6, <1>9, <1>21 DEF Entered
<1>16. Filed(r, E)
  <2>1. \A e \in E :
          /\ r.data[e] \in Block
          /\ r.dl_node[r.data[e]] = e
          /\ r.kv[r.data[e]] \in Key
          /\ HashGet(r, r.kv[r.data[e]]) = r.data[e]
          /\ r.udata[r.data[e]] \in Block
          /\ r.block[r.udata[r.data[e]]] \in Value
    BY <1>4, <1>10, <1>14, <1>15
  <2>2. \A e, f \in E : r.udata[r.data[e]] = r.udata[r.data[f]] => e = f
    BY <1>10, <1>12, <1>14, <1>15
  <2>3. ASSUME NEW x \in Key, HashGet(r, x) # NULL
        PROVE  \E e \in E : r.data[e] = HashGet(r, x) /\ r.kv[r.data[e]] = x
    <3>1. CASE x = k
      BY <1>15, <3>1
    <3>2. CASE x # k
      <4>1. HashGet(r, x) = HashGet(l, x)
        BY <1>21, <3>2
      <4>2. PICK e \in D : l.data[e] = HashGet(l, x) /\ l.kv[l.data[e]] = x
        BY <1>10, <2>3, <4>1
      <4> QED BY <1>14, <4>1, <4>2
    <3> QED BY <3>1, <3>2
  <2> QED BY <2>1, <2>2, <2>3 DEF Filed
<1>17. Pooled(r, E)
  <2>1. {r.data[e] : e \in E} = N \cup {n}
    BY <1>14, <1>15 DEF N
  <2>2. {r.udata[r.data[e]] : e \in E} = U \cup {u}
    BY <1>14, <1>15 DEF U
  <2>3. /\ (Block \ N) \ {n} = Block \ (N \cup {n})
        /\ (Block \ D) \ {d} = Block \ E
        /\ (Block \ U) \ {u} = Block \ (U \cup {u})
    OBVIOUS
  <2>4. r.size = l.size + 1
    BY <1>6 DEF Entered
  <2> QED BY <1>2, <1>4, <1>6, <2>1, <2>2, <2>3, <2>4 DEF Pooled, Entered
<1>18. r.num = Len(w)
  BY <1>6 DEF Chained
<1>19. r.size = r.num /\ r.size <= MaxSize
  BY <1>1, <1>6, <1>8, <1>18 DEF Entered
<1>20. Table(r, w)
  BY <1>6, <1>7, <1>16, <1>17, <1>19 DEF Table
<1> QED BY <1>4, <1>6, <1>12, <1>20 DEF w, D

-----------------------------------------------------------------------------
(* The table as its users see it.                                          *)
Listed(l, s) == [i \in 1 .. Len(s) |-> Entry(l, s[i])]

LEMMA SameListed ==
  ASSUME NEW l, NEW r, NEW s, SameContents(r, l)
  PROVE  Listed(r, s) = Listed(l, s)
BY DEF Listed, Entry, SameContents

LEMMA ListedIs ==
  ASSUME NEW l, NEW s \in Seq(Block), NEW S, S = {Entry(l, d) : d \in Block}
  PROVE  /\ Listed(l, s) \in Seq(S)
         /\ Len(Listed(l, s)) = Len(s)
         /\ \A i \in 1 .. Len(s) : Listed(l, s)[i] = Entry(l, s[i])
<1>1. Len(s) \in Nat /\ \A i \in 1 .. Len(s) : s[i] \in Block
  OBVIOUS
<1>2. \A i \in 1 .. Len(s) : Entry(l, s[i]) \in S
  BY <1>1
<1> QED BY <1>1, <1>2 DEF Listed

(* To rearrange the list nodes is to rearrange the entries.                *)
LEMMA ListedWithout ==
  ASSUME NEW l, NEW s \in Seq(Block), NEW p \in 1 .. Len(s)
  PROVE  Listed(l, Cache!Without(s, p)) = Cache!Without(Listed(l, s), p)
<1> DEFINE S == {Entry(l, d) : d \in Block}
           w == Cache!Without(s, p)
           c == Listed(l, s)
           a == Listed(l, w)
           b == Cache!Without(c, p)
<1>1. /\ w \in Seq(Block)
      /\ Len(w) = Len(s) - 1
      /\ \A i \in 1 .. Len(s) - 1 : w[i] = IF i < p THEN s[i] ELSE s[i + 1]
  BY WithoutAt
<1> HIDE DEF w, S
<1>2. /\ c \in Seq(S)
      /\ Len(c) = Len(s)
      /\ \A i \in 1 .. Len(s) : c[i] = Entry(l, s[i])
  BY ListedIs DEF S
<1>3. /\ a \in Seq(S)
      /\ Len(a) = Len(w)
      /\ \A i \in 1 .. Len(w) : a[i] = Entry(l, w[i])
  BY <1>1, ListedIs DEF S
<1> HIDE DEF c, a
<1>4. /\ b \in Seq(S)
      /\ Len(b) = Len(c) - 1
      /\ \A i \in 1 .. Len(c) - 1 : b[i] = IF i < p THEN c[i] ELSE c[i + 1]
  BY <1>2, WithoutAt
<1> HIDE DEF b
<1>5. \A i \in 1 .. Len(s) - 1 : i \in 1 .. Len(s) /\ i + 1 \in 1 .. Len(s)
  OBVIOUS
<1>6. Len(a) = Len(b) /\ \A i \in 1 .. Len(a) : a[i] = b[i]
  BY <1>1, <1>2, <1>3, <1>4, <1>5
<1>7. a = b
  BY <1>3, <1>4, <1>6, SeqEqual
<1> QED BY <1>7 DEF a, b, c, w

LEMMA ListedToFront ==
  ASSUME NEW l, NEW s \in Seq(Block), NEW p \in 1 .. Len(s)
  PROVE  Listed(l, ToFront(s, p)) = ToFront(Listed(l, s), p)
<1> DEFINE S == {Entry(l, d) : d \in Block}
           w == ToFront(s, p)
           c == Listed(l, s)
           a == Listed(l, w)
           b == ToFront(c, p)
<1>1. /\ w \in Seq(Block)
      /\ Len(w) = Len(s)
      /\ \A i \in 1 .. Len(s) :
           w[i] = IF i = 1 THEN s[p] ELSE IF i <= p THEN s[i - 1] ELSE s[i]
  BY ToFrontAt
<1> HIDE DEF w, S
<1>2. /\ c \in Seq(S)
      /\ Len(c) = Len(s)
      /\ \A i \in 1 .. Len(s) : c[i] = Entry(l, s[i])
  BY ListedIs DEF S
<1>3. /\ a \in Seq(S)
      /\ Len(a) = Len(w)
      /\ \A i \in 1 .. Len(w) : a[i] = Entry(l, w[i])
  BY <1>1, ListedIs DEF S
<1> HIDE DEF c, a
<1>4. /\ b \in Seq(S)
      /\ Len(b) = Len(c)
      /\ \A i \in 1 .. Len(c) :
           b[i] = IF i = 1 THEN c[p] ELSE IF i <= p THEN c[i - 1] ELSE c[i]
  BY <1>2, ToFrontAt
<1> HIDE DEF b
<1>5. ASSUME NEW i \in 1 .. Len(s) PROVE a[i] = b[i]
  <2>1. a[i] = Entry(l, w[i])
    BY <1>1, <1>3
  <2>2. CASE i = 1
    BY <1>1, <1>2, <1>4, <2>1, <2>2
  <2>3. CASE i # 1
    <3>1. i - 1 \in 1 .. Len(s)
      BY <2>3
    <3>2. w[i] = IF i <= p THEN s[i - 1] ELSE s[i]
      BY <1>1, <2>3
    <3>3. b[i] = IF i <= p THEN c[i - 1] ELSE c[i]
      BY <1>2, <1>4, <2>3
    <3> QED BY <1>2, <2>1, <3>1, <3>2, <3>3
  <2> QED BY <2>2, <2>3
<1>6. Len(a) = Len(b) /\ \A i \in 1 .. Len(a) : a[i] = b[i]
  BY <1>1, <1>2, <1>3, <1>4, <1>5
<1>7. a = b
  BY <1>3, <1>4, <1>6, SeqEqual
<1> QED BY <1>7 DEF a, b, c, w

(* Where the key of a table is, seen from the hash and by its users.       *)
LEMMA KeyPlace ==
  ASSUME NEW l, NEW s, Table(l, s), NEW k \in Key, HashGet(l, k) # NULL
  PROVE  \E p \in 1 .. Len(s) :
           /\ HashGet(l, k) = l.data[s[p]]
           /\ l.dl_node[HashGet(l, k)] = s[p]
           /\ Cache!Has(Listed(l, s), k)
           /\ Cache!PlaceOf(Listed(l, s), k) = p
<1> DEFINE c == Listed(l, s)
<1>1. s \in Seq(Block)
  BY DEF Table, Chained
<1>2. /\ DOMAIN s = 1 .. Len(s)
      /\ \A i, j \in 1 .. Len(s) : s[i] = s[j] => i = j
  BY ChainFacts DEF Table
<1>3. /\ DOMAIN c = 1 .. Len(s)
      /\ \A i \in 1 .. Len(s) : c[i].key = l.kv[l.data[s[i]]]
  BY <1>1, ListedIs DEF Listed, Entry
<1> HIDE DEF c
<1>4. PICK d \in ToSet(s) : l.data[d] = HashGet(l, k) /\ l.kv[l.data[d]] = k
  BY DEF Table, Filed
<1>5. PICK p \in 1 .. Len(s) : d = s[p]
  BY <1>2 DEF ToSet
<1>6. /\ HashGet(l, k) = l.data[s[p]] /\ l.dl_node[HashGet(l, k)] = s[p]
      /\ c[p].key = k
  BY <1>3, <1>4, <1>5, PlaceFacts
<1>7. ASSUME NEW i \in 1 .. Len(s), c[i].key = k PROVE i = p
  <2>1. /\ HashGet(l, l.kv[l.data[s[i]]]) = l.data[s[i]]
        /\ l.dl_node[l.data[s[i]]] = s[i]
    BY PlaceFacts
  <2>2. s[i] = s[p]
    BY <1>3, <1>6, <1>7, <2>1
  <2> QED BY <1>2, <2>2
<1>8. Cache!Has(c, k) /\ Cache!PlaceOf(c, k) = p
  <2>1. Cache!Has(c, k)
    BY <1>3, <1>6 DEF Cache!Has
  <2>2. Cache!PlaceOf(c, k) = CHOOSE i \in DOMAIN c : c[i].key = k
    BY DEF Cache!PlaceOf
  <2>3. p \in DOMAIN c /\ \A i \in DOMAIN c : c[i].key = k => i = p
    BY <1>3, <1>7
  <2> QED BY <1>6, <2>1, <2>2, <2>3, Zenon
<1> QED BY <1>6, <1>8 DEF c

LEMMA NoPlace ==
  ASSUME NEW l, NEW s, Table(l, s), NEW k \in Key, HashGet(l, k) = NULL
  PROVE  ~ Cache!Has(Listed(l, s), k)
<1>1. s \in Seq(Block)
  BY DEF Table, Chained
<1>2. /\ DOMAIN Listed(l, s) = 1 .. Len(s)
      /\ \A i \in 1 .. Len(s) : Listed(l, s)[i].key = l.kv[l.data[s[i]]]
  BY <1>1, ListedIs DEF Listed, Entry
<1>3. \A i \in 1 .. Len(s) : l.kv[l.data[s[i]]] # k
  <2> SUFFICES ASSUME NEW i \in 1 .. Len(s), l.kv[l.data[s[i]]] = k PROVE FALSE
    OBVIOUS
  <2>1. l.data[s[i]] \in Block /\ HashGet(l, l.kv[l.data[s[i]]]) = l.data[s[i]]
    BY PlaceFacts
  <2> QED BY <2>1, NullIsNoBlock
<1> QED BY <1>2, <1>3 DEF Cache!Has

-----------------------------------------------------------------------------
(* The calls.  What one leaves behind is a table again, and its users see  *)
(* the entries c.                                                          *)
Becomes(r, c) == \E t : Table(r, t) /\ Listed(r, t) = c

(* To be used: the entry moves to the front, unless there are only two.    *)
LEMMA Moves ==
  ASSUME NEW l, NEW s, Table(l, s), NEW p \in 1 .. Len(s),
         NEW r, r = DlMoveHead(l, s[p]),
         NEW t, t = IF Len(s) <= 2 THEN s ELSE ToFront(s, p)
  PROVE  /\ SameFiles(r, l)
         /\ Table(r, t)
         /\ Listed(r, t) = IF Len(s) <= 2 THEN Listed(l, s)
                           ELSE ToFront(Listed(l, s), p)
<1>1. /\ s \in Seq(Block) /\ IsInjective(s) /\ l \in LruRecord /\ Chained(l, s)
      /\ l.num = Len(s) /\ Len(s) \in Nat
  BY DEF Table, Chained
<1>2. CASE Len(s) <= 2
  <2> DEFINE n == Len(s)
  <2> HIDE DEF n
  <2>1. n \in Nat /\ n <= 2 /\ p \in 1 .. n
    BY <1>1, <1>2 DEF n
  <2>2. n = 1 \/ n = 2
    BY <2>1
  <2>3. l.num \in {1, 2}
    BY <1>1, <2>2 DEF n
  <2>4. r = l
    BY <2>3 DEF DlMoveHead
  <2> QED BY <1>2, <2>4 DEF SameFiles
<1>3. CASE ~ (Len(s) <= 2)
  <2>1. Len(s) > 2 /\ t = ToFront(s, p)
    BY <1>1, <1>3
  <2>2. r \in LruRecord /\ SameFiles(r, l) /\ Chained(r, t)
    BY <1>1, <2>1, MoveHeadChained
  <2>3. Len(t) = Len(s)
    BY <1>1, <2>1, ToFrontAt
  <2>4. ToSet(t) = ToSet(s)
    BY <1>1, <2>1, ToFrontSet
  <2>5. Table(r, t)
    BY <2>2, <2>3, <2>4, Reordered
  <2>6. Listed(l, t) = ToFront(Listed(l, s), p)
    BY <1>1, <2>1, ListedToFront
  <2>7. Listed(r, t) = Listed(l, t)
    BY <2>2, SameListed DEF SameFiles, SameContents
  <2> QED BY <1>3, <2>2, <2>5, <2>6, <2>7
<1> QED BY <1>2, <1>3

LEMMA Gets ==
  ASSUME NEW l, NEW s, Table(l, s), NEW k \in Key, HashGet(l, k) # NULL,
         NEW r, r = Get(l, k)
  PROVE  \E t : /\ SameFiles(r, l)
                /\ Table(r, t)
                /\ Listed(r, t) = Cache!Used(Listed(l, s), k)
<1> DEFINE c == Listed(l, s)
<1>1. PICK p \in 1 .. Len(s) :
        l.dl_node[HashGet(l, k)] = s[p] /\ Cache!PlaceOf(c, k) = p
  BY KeyPlace
<1>2. Len(c) = Len(s)
  BY ListedIs DEF Table, Chained
<1>3. r = DlMoveHead(l, s[p])
  BY <1>1 DEF Get
<1> DEFINE t == IF Len(s) <= 2 THEN s ELSE ToFront(s, p)
<1>4. /\ SameFiles(r, l)
      /\ Table(r, t)
      /\ Listed(r, t) = IF Len(s) <= 2 THEN c ELSE ToFront(c, p)
  BY <1>3, Moves
<1> HIDE DEF t, c
<1>5. Cache!Used(c, k) = IF Len(s) <= 2 THEN c ELSE ToFront(c, p)
  BY <1>1, <1>2 DEF Cache!Used, ToFront
<1> QED BY <1>4, <1>5 DEF c

(* Writing into the data block of an entry.                                *)
LEMMA Writes ==
  ASSUME NEW l, NEW s, Table(l, s), NEW k \in Key, HashGet(l, k) # NULL,
         NEW v \in Value,
         NEW r, r = [l EXCEPT !.block[l.udata[HashGet(l, k)]] = v]
  PROVE  /\ Table(r, s)
         /\ Listed(r, s) = Cache!Written(Listed(l, s), k, v)
<1> DEFINE c == Listed(l, s)
           S == {Entry(l, d) : d \in Block}
           u == l.udata[HashGet(l, k)]
<1>1. PICK p \in 1 .. Len(s) :
        HashGet(l, k) = l.data[s[p]] /\ Cache!PlaceOf(c, k) = p
  BY KeyPlace
<1>2. s[p] \in ToSet(s) /\ u \in Block
  BY <1>1, PlaceFacts
<1>3. l \in LruRecord /\ Chained(l, s) /\ s \in Seq(Block)
  BY DEF Table, Chained
<1>4. /\ c \in Seq(S)
      /\ Len(c) = Len(s)
      /\ \A i \in 1 .. Len(s) : c[i] = Entry(l, s[i])
  BY <1>3, ListedIs
<1>5. /\ DOMAIN s = 1 .. Len(s)
      /\ \A i, j \in 1 .. Len(s) : s[i] = s[j] => i = j
  BY <1>3, ChainFacts
<1> HIDE DEF c, S, u
<1>6. r = [l EXCEPT !.block[u] = v]
  BY DEF u
<1>7. SameFields(r, l)
  BY <1>6 DEF SameFields
<1>8. /\ SameList(r, l) /\ r.size = l.size /\ r.map = l.map /\ r.data = l.data
      /\ r.dl_node = l.dl_node /\ r.kv = l.kv /\ r.udata = l.udata
      /\ r.lru_node_pool = l.lru_node_pool
      /\ r.dl_node_pool = l.dl_node_pool
      /\ r.udata_pool = l.udata_pool
  BY <1>3, <1>6 DEF LruRecord, SameList
<1>9. r.block = [l.block EXCEPT ![u] = v]
  BY <1>3, <1>6 DEF LruRecord
<1>10. /\ l.block \in [Block -> Value \cup {NULL}] /\ l.size \in Nat
       /\ l.map \in Buckets /\ l.data \in [Block -> Pointer]
       /\ l.dl_node \in [Block -> Pointer] /\ l.kv \in [Block -> Key \cup {NULL}]
       /\ l.udata \in [Block -> Pointer]
       /\ l.lru_node_pool \in Seq(Block) /\ l.dl_node_pool \in Seq(Block)
       /\ l.udata_pool \in Seq(Block)
  BY <1>3 DEF LruRecord
<1>11. r.block \in [Block -> Value \cup {NULL}]
  <2> DEFINE X == Value \cup {NULL}
  <2>1. v \in X
    OBVIOUS
  <2> HIDE DEF X
  <2>2. l.block \in [Block -> X]
    BY <1>10 DEF X
  <2>3. r.block \in [Block -> X]
    BY <1>9, <2>1, <2>2
  <2> QED BY <2>3 DEF X
<1>12. r \in LruRecord
  BY <1>3, <1>7, <1>8, <1>10, <1>11, Refiled
<1>13. Chained(r, s)
  BY <1>3, <1>8, SameListChained
<1>14. \A b \in Block : r.block[b] = IF b = u THEN v ELSE l.block[b]
  BY <1>9, <1>10
<1>15. Filed(r, ToSet(s))
  <2>1. \A d \in ToSet(s) :
          l.udata[l.data[d]] \in Block /\ l.block[l.udata[l.data[d]]] \in Value
    BY DEF Table, Filed
  <2>2. \A d \in ToSet(s) : r.block[r.udata[r.data[d]]] \in Value
    BY <1>8, <1>14, <2>1
  <2> QED BY <1>8, <2>2 DEF Table, Filed
<1>16. Pooled(r, ToSet(s))
  BY <1>8 DEF Table, Pooled
<1>17. Table(r, s)
  BY <1>8, <1>12, <1>13, <1>15, <1>16 DEF Table, SameList
<1>18. DOMAIN c = 1 .. Len(s)
  BY <1>4
<1>19. ASSUME NEW i \in 1 .. Len(s)
       PROVE  Entry(r, s[i]) = IF i = p THEN [c[i] EXCEPT !.value = v] ELSE c[i]
  <2>1. c[i] = [key |-> l.kv[l.data[s[i]]],
                value |-> l.block[l.udata[l.data[s[i]]]]]
    BY <1>4 DEF Entry
  <2>2. Entry(r, s[i]) =
          [key |-> l.kv[l.data[s[i]]], value |-> r.block[l.udata[l.data[s[i]]]]]
    BY <1>8 DEF Entry
  <2>3. s[i] \in ToSet(s) /\ l.udata[l.data[s[i]]] \in Block
    BY PlaceFacts
  <2>4. i # p => l.udata[l.data[s[i]]] # u
    BY <1>1, <1>2, <1>5, <2>3 DEF Table, Filed, u
  <2>5. i = p => l.udata[l.data[s[i]]] = u
    BY <1>1 DEF u
  <2> QED BY <1>14, <2>1, <2>2, <2>3, <2>4, <2>5
<1>20. Cache!Written(c, k, v) = [c EXCEPT ![p] = [c[p] EXCEPT !.value = v]]
  BY <1>1 DEF Cache!Written
<1>21. Listed(r, s) = Cache!Written(c, k, v)
  BY <1>4, <1>18, <1>19, <1>20 DEF Listed
<1> QED BY <1>17, <1>21 DEF c

(* To leave the table.                                                     *)
LEMMA Shrunk ==
  ASSUME NEW q \in LruRecord, q.size # 0, NEW r, r = [q EXCEPT !.size = @ - 1]
  PROVE  /\ r \in LruRecord
         /\ SameList(r, q)
         /\ SameContents(r, q)
         /\ r.size = q.size - 1
         /\ r.map = q.map /\ r.lru_node_pool = q.lru_node_pool
         /\ r.dl_node_pool = q.dl_node_pool /\ r.udata_pool = q.udata_pool
<1>1. SameFields(r, q)
  BY DEF SameFields
<1>2. SameList(r, q) /\ SameContents(r, q) /\ r.size = q.size - 1
  BY DEF LruRecord, SameList, SameContents
<1>3. /\ r.map = q.map /\ r.lru_node_pool = q.lru_node_pool
      /\ r.dl_node_pool = q.dl_node_pool /\ r.udata_pool = q.udata_pool
  BY DEF LruRecord
<1>4. q.size \in Nat
  BY DEF LruRecord
<1>5. /\ q.map \in Buckets
      /\ q.data \in [Block -> Pointer] /\ q.dl_node \in [Block -> Pointer]
      /\ q.kv \in [Block -> Key \cup {NULL}] /\ q.udata \in [Block -> Pointer]
      /\ q.block \in [Block -> Value \cup {NULL}]
      /\ q.lru_node_pool \in Seq(Block) /\ q.dl_node_pool \in Seq(Block)
      /\ q.udata_pool \in Seq(Block)
  BY DEF LruRecord
<1>6. r.size \in Nat
  BY <1>2, <1>4
<1>7. /\ r.map \in Buckets
      /\ r.data \in [Block -> Pointer] /\ r.dl_node \in [Block -> Pointer]
      /\ r.kv \in [Block -> Key \cup {NULL}] /\ r.udata \in [Block -> Pointer]
      /\ r.block \in [Block -> Value \cup {NULL}]
      /\ r.lru_node_pool \in Seq(Block) /\ r.dl_node_pool \in Seq(Block)
      /\ r.udata_pool \in Seq(Block)
  BY <1>2, <1>3, <1>5 DEF SameContents
<1>8. r \in LruRecord
  BY <1>1, <1>2, <1>6, <1>7, Refiled
<1> QED BY <1>2, <1>3, <1>8

LEMMA Removed ==
  ASSUME NEW l, NEW s, Table(l, s), NEW p \in 1 .. Len(s),
         NEW n, n = l.data[s[p]], NEW r \in LruRecord, Freed(r, l, n),
         r.size = l.size - 1, Chained(r, Cache!Without(s, p))
  PROVE  Becomes(r, Cache!Without(Listed(l, s), p))
<1>1. Table(r, Cache!Without(s, p))
  BY RemovedTable
<1>2. s \in Seq(Block)
  BY DEF Table, Chained
<1>3. Listed(r, Cache!Without(s, p)) = Listed(l, Cache!Without(s, p))
  BY SameListed DEF Freed
<1>4. Listed(l, Cache!Without(s, p)) = Cache!Without(Listed(l, s), p)
  BY <1>2, ListedWithout
<1> QED BY <1>1, <1>3, <1>4 DEF Becomes

(* First the entry is freed, then it is unlinked.                          *)
LEMMA FreedThenUnlinked ==
  ASSUME NEW l, NEW s, Table(l, s), NEW p \in 1 .. Len(s),
         NEW n, n = l.data[s[p]],
         NEW m, m = NodePush(HashDel(l, l.kv[n]), n),
         NEW q, Chained(m, s) /\ m \in LruRecord => Unlinked(q, m, s, p),
         NEW r, r = [q EXCEPT !.size = @ - 1]
  PROVE  Becomes(r, Cache!Without(Listed(l, s), p))
<1>1. /\ n \in Block /\ l.kv[n] \in Key /\ l.dl_node[n] \in Block
      /\ l.udata[n] \in Block
  BY PlaceFacts, ChainFacts DEF Table
<1>2. l \in LruRecord /\ Chained(l, s) /\ l.size = Len(s) /\ Len(s) # 0
  BY ChainFacts DEF Table
<1>3. /\ m \in LruRecord
      /\ SameList(m, l)
      /\ Freed(m, l, n)
      /\ m.size = l.size
  BY <1>1, <1>2, PushFreed
<1>4. Chained(m, s)
  BY <1>2, <1>3, SameListChained
<1>5. q \in LruRecord /\ SameFiles(q, m) /\ Chained(q, Cache!Without(s, p))
  BY <1>3, <1>4 DEF Unlinked
<1>6. q.size = l.size /\ q.size # 0
  BY <1>2, <1>3, <1>5 DEF SameFiles
<1>7. /\ r \in LruRecord
      /\ SameList(r, q)
      /\ SameContents(r, q)
      /\ r.size = q.size - 1
      /\ r.map = q.map /\ r.lru_node_pool = q.lru_node_pool
      /\ r.dl_node_pool = q.dl_node_pool /\ r.udata_pool = q.udata_pool
  BY <1>5, <1>6, Shrunk
<1>8. Freed(r, l, n)
  BY <1>3, <1>5, <1>7 DEF Freed, SameFiles, SameContents
<1>9. Chained(r, Cache!Without(s, p))
  BY <1>5, <1>7, SameListChained
<1> QED BY <1>6, <1>7, <1>8, <1>9, Removed

LEMMA WithoutNone ==
  ASSUME NEW c, Len(c) = 0
  PROVE  Cache!Without(c, 1) = << >> /\ Cache!Without(c, Len(c)) = << >>
<1>1. /\ Cache!Without(c, 1) = SubSeq(c, 1, 0) \o SubSeq(c, 2, 0)
      /\ Cache!Without(c, Len(c)) = SubSeq(c, 1, -1) \o SubSeq(c, 1, 0)
  BY DEF Cache!Without
<1>2. /\ SubSeq(c, 1, 0) = << >> /\ SubSeq(c, 2, 0) = << >>
      /\ SubSeq(c, 1, -1) = << >>
  BY SubSeqEmpty
<1>3. << >> \o << >> = << >>
  OBVIOUS
<1> QED BY <1>1, <1>2, <1>3

LEMMA NoneListed ==
  ASSUME NEW l, NEW s, Table(l, s), l.size = 0
  PROVE  /\ Becomes(l, Cache!Without(Listed(l, s), 1))
         /\ Becomes(l, Cache!Without(Listed(l, s), Len(Listed(l, s))))
<1>1. s \in Seq(Block) /\ Len(s) = 0
  BY DEF Table, Chained
<1>2. Len(Listed(l, s)) = 0 /\ Listed(l, s) \in Seq({Entry(l, d) : d \in Block})
  BY <1>1, ListedIs
<1>3. Listed(l, s) = << >>
  BY <1>2
<1> QED BY <1>2, <1>3, WithoutNone DEF Becomes

LEMMA PopsHead ==
  ASSUME NEW l, NEW s, Table(l, s), NEW r, r = PopHead(l)
  PROVE  Becomes(r, Cache!Without(Listed(l, s), 1))
<1>1. CASE l.size = 0
  <2>1. r = l
    BY <1>1 DEF PopHead
  <2> QED BY <1>1, <2>1, NoneListed
<1>2. CASE l.size # 0
  <2>1. /\ Len(s) # 0 /\ Len(s) \in Nat /\ l.head = s[1]
        /\ \A i \in 1 .. Len(s) : s[i] \in Block
    BY <1>2, ChainFacts DEF Table
  <2>2. 1 \in 1 .. Len(s)
    BY <2>1
  <2>3. l.head # NULL
    BY <2>1, <2>2, NullIsNoBlock
  <2> DEFINE n == l.data[s[1]]
             m == NodePush(HashDel(l, l.kv[n]), n)
             q == DlPopHead(m)
  <2>4. r = [q EXCEPT !.size = @ - 1]
    BY <1>2, <2>1, <2>3 DEF PopHead
  <2> HIDE DEF m
  <2>5. Chained(m, s) /\ m \in LruRecord => Unlinked(q, m, s, 1)
    BY <2>1, PopChained
  <2> HIDE DEF q
  <2> QED BY <2>2, <2>4, <2>5, FreedThenUnlinked DEF m
<1> QED BY <1>1, <1>2

LEMMA PopsTail ==
  ASSUME NEW l, NEW s, Table(l, s), NEW r, r = PopTail(l)
  PROVE  Becomes(r, Cache!Without(Listed(l, s), Len(Listed(l, s))))
<1>1. CASE l.size = 0
  <2>1. r = l
    BY <1>1 DEF PopTail
  <2> QED BY <1>1, <2>1, NoneListed
<1>2. CASE l.size # 0
  <2>1. /\ Len(s) # 0 /\ Len(s) \in Nat /\ l.tail = s[Len(s)]
        /\ \A i \in 1 .. Len(s) : s[i] \in Block
    BY <1>2, ChainFacts DEF Table
  <2>2. Len(s) \in 1 .. Len(s)
    BY <2>1
  <2>3. l.tail # NULL
    BY <2>1, <2>2, NullIsNoBlock
  <2> DEFINE n == l.data[s[Len(s)]]
             m == NodePush(HashDel(l, l.kv[n]), n)
             q == DlPopTail(m)
  <2>4. r = [q EXCEPT !.size = @ - 1]
    BY <1>2, <2>1, <2>3 DEF PopTail
  <2> HIDE DEF m
  <2>5. Chained(m, s) /\ m \in LruRecord => Unlinked(q, m, s, Len(s))
    BY <2>1, PopChained
  <2> HIDE DEF q
  <2>6. Becomes(r, Cache!Without(Listed(l, s), Len(s)))
    BY <2>2, <2>4, <2>5, FreedThenUnlinked DEF m
  <2>7. Len(Listed(l, s)) = Len(s)
    BY ListedIs DEF Table, Chained
  <2> QED BY <2>6, <2>7
<1> QED BY <1>1, <1>2

(* An entry that was moved to the front leaves the others as they were.    *)
LEMMA FrontWithout ==
  ASSUME NEW S, NEW s \in Seq(S), NEW p \in 1 .. Len(s)
  PROVE  Cache!Without(ToFront(s, p), 1) = Cache!Without(s, p)
<1> DEFINE f == ToFront(s, p)
           a == Cache!Without(f, 1)
           b == Cache!Without(s, p)
<1>1. /\ f \in Seq(S)
      /\ Len(f) = Len(s)
      /\ \A i \in 1 .. Len(s) :
           f[i] = IF i = 1 THEN s[p] ELSE IF i <= p THEN s[i - 1] ELSE s[i]
  BY ToFrontAt
<1>2. /\ b \in Seq(S)
      /\ Len(b) = Len(s) - 1
      /\ \A i \in 1 .. Len(s) - 1 : b[i] = IF i < p THEN s[i] ELSE s[i + 1]
  BY WithoutAt
<1> HIDE DEF f
<1>3. /\ a \in Seq(S)
      /\ Len(a) = Len(f) - 1
      /\ \A i \in 1 .. Len(f) - 1 : a[i] = IF i < 1 THEN f[i] ELSE f[i + 1]
  <2>1. 1 \in 1 .. Len(f)
    BY <1>1
  <2> QED BY <1>1, <2>1, WithoutAt
<1> HIDE DEF a, b
<1>4. ASSUME NEW i \in 1 .. Len(s) - 1 PROVE a[i] = b[i]
  <2>1. a[i] = f[i + 1]
    BY <1>1, <1>3
  <2>2. i + 1 \in 1 .. Len(s) /\ i + 1 # 1 /\ i + 1 - 1 = i
    OBVIOUS
  <2>3. f[i + 1] = IF i + 1 <= p THEN s[i] ELSE s[i + 1]
    BY <1>1, <2>2
  <2>4. i + 1 <= p <=> i < p
    OBVIOUS
  <2> QED BY <1>2, <2>1, <2>3, <2>4
<1>5. a = b
  BY <1>1, <1>2, <1>3, <1>4, SeqEqual
<1> QED BY <1>5 DEF a, b, f

LEMMA PopsByKey ==
  ASSUME NEW l, NEW s, Table(l, s), NEW k \in Key, NEW r, r = PopByKey(l, k)
  PROVE  LET c == Listed(l, s)
         IN  Becomes(r, IF Cache!Has(c, k)
                        THEN Cache!Without(c, Cache!PlaceOf(c, k)) ELSE c)
<1> DEFINE c == Listed(l, s)
           n == HashGet(l, k)
<1>1. CASE n = NULL
  <2>1. r = l
    BY <1>1 DEF PopByKey
  <2> QED BY <1>1, <2>1, NoPlace DEF Becomes
<1>2. CASE n # NULL
  <2>1. PICK p \in 1 .. Len(s) :
          /\ n = l.data[s[p]]
          /\ l.dl_node[n] = s[p]
          /\ Cache!Has(c, k)
          /\ Cache!PlaceOf(c, k) = p
    BY <1>2, KeyPlace
  <2> HIDE DEF c, n
  <2>2. /\ n \in Block /\ l.kv[n] \in Key
        /\ l.udata[n] \in Block /\ s[p] \in Block
    BY <2>1, PlaceFacts
  <2>3. /\ l \in LruRecord /\ Chained(l, s) /\ l.size = Len(s) /\ Len(s) # 0
        /\ s \in Seq(Block) /\ IsInjective(s) /\ Len(s) \in Nat
    BY ChainFacts DEF Table, Chained
  <2> DEFINE g == DlMoveHead(l, s[p])
             q == DlPop(g, s[p])
             m == NodePush(HashDel(q, l.kv[n]), n)
             w == Cache!Without(s, p)
  <2>4. r = [m EXCEPT !.size = @ - 1]
    BY <1>2, <2>1 DEF PopByKey, Get, n
  <2> HIDE DEF g
  <2>5. \/ Unlinked(q, g, s, p) /\ SameFiles(g, l)
        \/ Unlinked(q, g, ToFront(s, p), 1) /\ SameFiles(g, l)
    <3> DEFINE t == IF Len(s) <= 2 THEN s ELSE ToFront(s, p)
    <3>1. SameFiles(g, l) /\ Table(g, t)
      BY Moves DEF g
    <3>2. g \in LruRecord /\ Chained(g, t)
      BY <3>1 DEF Table
    <3>3. CASE Len(s) <= 2
      <4>1. p = 1 \/ p = Len(s)
        BY <2>3, <3>3
      <4> QED BY <2>3, <3>1, <3>2, <3>3, <4>1, PopChained
    <3>4. CASE ~ (Len(s) <= 2)
      <4>1. t = ToFront(s, p) /\ Len(t) = Len(s)
        BY <2>3, <3>4, ToFrontAt
      <4>2. t[1] = s[p]
        <5>1. 1 \in 1 .. Len(s)
          BY <2>3
        <5> QED BY <2>3, <4>1, <5>1, ToFrontAt
      <4> HIDE DEF t
      <4>3. Unlinked(DlPop(g, t[1]), g, t, 1)
        BY <2>3, <3>2, <4>1, PopChained
      <4> QED BY <3>1, <4>1, <4>2, <4>3
    <3> QED BY <3>3, <3>4
  <2>6. q \in LruRecord /\ SameFiles(q, l) /\ Chained(q, w)
    BY <2>3, <2>5, FrontWithout DEF Unlinked, SameFiles
  <2> HIDE DEF q, w
  <2>7. m = NodePush(HashDel(q, q.kv[n]), n)
    BY <2>6 DEF SameFiles
  <2> HIDE DEF m
  <2>8. /\ q.kv[n] \in Key /\ q.dl_node[n] \in Block /\ q.udata[n] \in Block
    BY <2>1, <2>2, <2>6 DEF SameFiles
  <2>9. /\ m \in LruRecord
        /\ SameList(m, q)
        /\ Freed(m, q, n)
        /\ m.size = q.size
    BY <2>2, <2>6, <2>7, <2>8, PushFreed
  <2>10. m.size = l.size /\ m.size # 0
    BY <2>3, <2>6, <2>9 DEF SameFiles
  <2>11. /\ r \in LruRecord
         /\ SameList(r, m)
         /\ SameContents(r, m)
         /\ r.size = m.size - 1
         /\ r.map = m.map /\ r.lru_node_pool = m.lru_node_pool
         /\ r.dl_node_pool = m.dl_node_pool /\ r.udata_pool = m.udata_pool
    BY <2>4, <2>9, <2>10, Shrunk
  <2>12. Freed(r, l, n)
    BY <2>6, <2>9, <2>11 DEF Freed, SameFiles, SameContents
  <2>13. Chained(m, w)
    BY <2>6, <2>9, SameListChained
  <2>14. Chained(r, w)
    BY <2>11, <2>13, SameListChained
  <2>15. Becomes(r, Cache!Without(c, p))
    BY <2>1, <2>10, <2>11, <2>12, <2>14, Removed DEF c, w
  <2> QED BY <2>1, <2>15 DEF c
<1> QED BY <1>1, <1>2

Record == [key : Key, value : Value]

LEMMA ListedType ==
  ASSUME NEW l, NEW s, Table(l, s)
  PROVE  /\ Listed(l, s) \in Seq(Record)
         /\ Len(Listed(l, s)) = Len(s)
         /\ \A i \in 1 .. Len(s) : Listed(l, s)[i] = Entry(l, s[i])
<1>1. s \in Seq(Block) /\ Len(s) \in Nat
  BY DEF Table, Chained
<1>2. /\ Len(Listed(l, s)) = Len(s)
      /\ \A i \in 1 .. Len(s) : Listed(l, s)[i] = Entry(l, s[i])
  BY <1>1, ListedIs
<1>3. \A i \in 1 .. Len(s) : Entry(l, s[i]) \in Record
  BY PlaceFacts DEF Entry, Record
<1> QED BY <1>1, <1>2, <1>3 DEF Listed

(* What Cache keeps of a table with one more entry.                        *)
LEMMA Kept ==
  ASSUME NEW S, NEW c \in Seq(S), NEW e \in S, Len(c) <= MaxSize
  PROVE  SubSeq(<<e>> \o c, 1, IF Len(c) < MaxSize THEN Len(c) + 1 ELSE MaxSize)
           = <<e>> \o (IF Len(c) < MaxSize THEN c ELSE Cache!Without(c, Len(c)))
<1> DEFINE f == <<e>> \o c
           h == IF Len(c) < MaxSize THEN Len(c) + 1 ELSE MaxSize
           a == SubSeq(f, 1, h)
           w == IF Len(c) < MaxSize THEN c ELSE Cache!Without(c, Len(c))
           b == <<e>> \o w
<1>1. MaxSize \in Nat /\ MaxSize # 0 /\ Len(c) \in Nat
  BY SizeAssumption
<1>2. /\ f \in Seq(S)
      /\ Len(f) = Len(c) + 1
      /\ \A i \in 1 .. Len(c) + 1 : f[i] = IF i = 1 THEN e ELSE c[i - 1]
  BY PrependAt
<1> HIDE DEF f
<1>3. h \in Nat /\ h >= 1 /\ h <= Len(c) + 1
  BY <1>1
<1>4. w \in Seq(S) /\ Len(w) = h - 1 /\ \A i \in 1 .. h - 1 : w[i] = c[i]
  <2>1. CASE Len(c) < MaxSize
    BY <1>1, <2>1
  <2>2. CASE ~ (Len(c) < MaxSize)
    <3>1. Len(c) = MaxSize /\ Len(c) \in 1 .. Len(c)
      BY <1>1, <2>2
    <3>2. /\ Cache!Without(c, Len(c)) \in Seq(S)
          /\ Len(Cache!Without(c, Len(c))) = Len(c) - 1
          /\ \A i \in 1 .. Len(c) - 1 :
               Cache!Without(c, Len(c))[i] = IF i < Len(c) THEN c[i] ELSE c[i + 1]
      BY <3>1, WithoutAt
    <3> QED BY <1>1, <2>2, <3>1, <3>2
  <2> QED BY <2>1, <2>2
<1> HIDE DEF h, w
<1>5. /\ a \in Seq(S)
      /\ Len(a) = h
      /\ \A i \in 1 .. h : a[i] = f[i]
  <2>1. \A i \in 1 .. h : f[i] \in S
    BY <1>1, <1>2, <1>3
  <2>2. /\ a \in Seq(S)
        /\ Len(a) = IF 1 <= h THEN h - 1 + 1 ELSE 0
        /\ \A i \in 1 .. h - 1 + 1 : a[i] = f[1 + i - 1]
    BY <1>3, <2>1, SubSeqProperties
  <2> QED BY <1>3, <2>2
<1>6. /\ b \in Seq(S)
      /\ Len(b) = Len(w) + 1
      /\ \A i \in 1 .. Len(w) + 1 : b[i] = IF i = 1 THEN e ELSE w[i - 1]
  BY <1>4, PrependAt
<1> HIDE DEF a, b
<1>7. ASSUME NEW i \in 1 .. h PROVE a[i] = b[i]
  <2>1. a[i] = IF i = 1 THEN e ELSE c[i - 1]
    BY <1>1, <1>2, <1>3, <1>5
  <2>2. b[i] = IF i = 1 THEN e ELSE w[i - 1]
    BY <1>3, <1>4, <1>6
  <2>3. i # 1 => i - 1 \in 1 .. h - 1
    BY <1>3
  <2> QED BY <1>4, <2>1, <2>2, <2>3
<1>8. Len(a) = Len(b)
  BY <1>3, <1>4, <1>5, <1>6
<1>9. a = b
  BY <1>5, <1>6, <1>7, <1>8, SeqEqual
<1> QED BY <1>9 DEF a, b, f, h, w

(* The entry that comes to the front of the others.                        *)
LEMMA Enters ==
  ASSUME NEW l, NEW s, Table(l, s), l.size < MaxSize,
         NEW k \in Key, HashGet(l, k) = NULL, NEW v \in Value,
         NEW r, r = Enter(l, k, v)
  PROVE  Becomes(r, <<[key |-> k, value |-> v]>> \o Listed(l, s))
<1> DEFINE e == [key |-> k, value |-> v]
           c == Listed(l, s)
<1>1. PICK n, d, u \in Block :
        /\ d \notin ToSet(s)
        /\ \A x \in ToSet(s) : l.data[x] # n /\ l.udata[l.data[x]] # u
        /\ Entered(r, l, n, d, u, k, v)
        /\ Table(r, <<d>> \o s)
  BY EnteredTable
<1> DEFINE w == <<d>> \o s
           a == Listed(r, w)
           b == <<e>> \o c
<1>2. s \in Seq(Block) /\ Len(s) \in Nat /\ l \in LruRecord
  BY DEF Table, Chained
<1>3. /\ c \in Seq(Record)
      /\ Len(c) = Len(s)
      /\ \A i \in 1 .. Len(s) : c[i] = Entry(l, s[i])
  BY ListedType
<1>4. /\ Len(w) = Len(s) + 1
      /\ \A i \in 1 .. Len(s) + 1 : w[i] = IF i = 1 THEN d ELSE s[i - 1]
  BY <1>2, PrependAt
<1> HIDE DEF w, c
<1>5. /\ a \in Seq(Record)
      /\ Len(a) = Len(w)
      /\ \A i \in 1 .. Len(w) : a[i] = Entry(r, w[i])
  BY <1>1, ListedType DEF w
<1>6. e \in Record
  BY DEF Record
<1>7. /\ b \in Seq(Record)
      /\ Len(b) = Len(c) + 1
      /\ \A i \in 1 .. Len(c) + 1 : b[i] = IF i = 1 THEN e ELSE c[i - 1]
  BY <1>3, <1>6, PrependAt
<1> HIDE DEF a, b, e
<1>8. /\ l.data \in [Block -> Pointer] /\ l.kv \in [Block -> Key \cup {NULL}]
      /\ l.udata \in [Block -> Pointer]
      /\ l.block \in [Block -> Value \cup {NULL}]
  BY <1>2 DEF LruRecord
<1>9. Entry(r, d) = e
  <2>1. r.data[d] = n /\ r.kv[n] = k /\ r.udata[n] = u /\ r.block[u] = v
    BY <1>1, <1>8 DEF Entered
  <2> QED BY <2>1 DEF Entry, e
<1>10. ASSUME NEW i \in 1 .. Len(s) PROVE Entry(r, s[i]) = Entry(l, s[i])
  <2> DEFINE x == s[i]
  <2>1. /\ x \in ToSet(s) /\ x \in Block /\ l.data[x] \in Block
        /\ l.udata[l.data[x]] \in Block
    BY PlaceFacts
  <2>2. x # d /\ l.data[x] # n /\ l.udata[l.data[x]] # u
    BY <1>1, <2>1
  <2> HIDE DEF x
  <2>3. /\ r.data[x] = l.data[x]
        /\ r.kv[l.data[x]] = l.kv[l.data[x]]
        /\ r.udata[l.data[x]] = l.udata[l.data[x]]
        /\ r.block[l.udata[l.data[x]]] = l.block[l.udata[l.data[x]]]
    BY <1>1, <1>8, <2>1, <2>2 DEF Entered
  <2>4. Entry(r, x) = Entry(l, x)
    BY <2>3 DEF Entry
  <2> QED BY <2>4 DEF x
<1>11. ASSUME NEW i \in 1 .. Len(s) + 1 PROVE a[i] = b[i]
  <2>1. a[i] = Entry(r, w[i])
    BY <1>4, <1>5
  <2>2. CASE i = 1
    BY <1>3, <1>4, <1>7, <1>9, <2>1, <2>2
  <2>3. CASE i # 1
    <3>1. i - 1 \in 1 .. Len(s)
      BY <1>2, <2>3
    <3>2. w[i] = s[i - 1] /\ b[i] = c[i - 1]
      BY <1>3, <1>4, <1>7, <2>3
    <3> QED BY <1>3, <1>10, <2>1, <3>1, <3>2
  <2> QED BY <2>2, <2>3
<1>12. Len(a) = Len(b) /\ Len(a) = Len(s) + 1
  BY <1>3, <1>4, <1>5, <1>7
<1>13. a = b
  BY <1>5, <1>7, <1>11, <1>12, SeqEqual
<1> QED BY <1>1, <1>13 DEF Becomes, a, b, c, e, w

LEMMA WithoutHasNot ==
  ASSUME NEW S, NEW c \in Seq(S), NEW p \in 1 .. Len(c),
         NEW k, ~ Cache!Has(c, k)
  PROVE  ~ Cache!Has(Cache!Without(c, p), k)
<1> DEFINE w == Cache!Without(c, p)
<1>1. /\ w \in Seq(S)
      /\ Len(w) = Len(c) - 1
      /\ \A i \in 1 .. Len(c) - 1 : w[i] = IF i < p THEN c[i] ELSE c[i + 1]
  BY WithoutAt
<1> HIDE DEF w
<1>2. DOMAIN w = 1 .. Len(c) - 1 /\ DOMAIN c = 1 .. Len(c)
  BY <1>1
<1>3. \A i \in 1 .. Len(c) - 1 : i \in 1 .. Len(c) /\ i + 1 \in 1 .. Len(c)
  OBVIOUS
<1>4. \A i \in 1 .. Len(c) : c[i].key # k
  BY <1>2 DEF Cache!Has
<1>5. \A i \in 1 .. Len(c) - 1 : w[i].key # k
  BY <1>1, <1>3, <1>4
<1> QED BY <1>2, <1>5 DEF Cache!Has, w

(* Making room for a new entry.                                            *)
LEMMA MakesRoom ==
  ASSUME NEW l, NEW s, Table(l, s), NEW k \in Key, HashGet(l, k) = NULL,
         NEW r, r = Room(l), NEW c, c = Listed(l, s)
  PROVE  \E t : /\ Table(r, t)
                /\ r.size < MaxSize
                /\ HashGet(r, k) = NULL
                /\ Listed(r, t) = IF Len(c) < MaxSize THEN c
                                  ELSE Cache!Without(c, Len(c))
<1>1. /\ MaxSize \in Nat /\ MaxSize # 0 /\ Len(c) = l.size /\ l.size \in Nat
      /\ l.size <= MaxSize /\ c \in Seq(Record)
  BY ListedType, SizeAssumption, ChainFacts DEF Table
<1>2. CASE l.size < MaxSize
  <2>1. r = l
    BY <1>1, <1>2 DEF Room
  <2> QED BY <1>1, <1>2, <2>1
<1>3. CASE ~ (l.size < MaxSize)
  <2> DEFINE w == Cache!Without(c, Len(c))
  <2>1. r = PopTail(l)
    BY <1>1, <1>3 DEF Room
  <2>2. PICK t : Table(r, t) /\ Listed(r, t) = w
    BY <2>1, PopsTail DEF Becomes
  <2>3. Len(c) \in 1 .. Len(c)
    BY <1>1, <1>3
  <2>4. Len(w) = Len(c) - 1
    BY <1>1, <2>3, WithoutAt
  <2>5. ~ Cache!Has(w, k)
    BY <1>1, <2>3, NoPlace, WithoutHasNot
  <2> HIDE DEF w
  <2>6. HashGet(r, k) = NULL
    BY <2>2, <2>5, KeyPlace
  <2>7. r.size = Len(w)
    BY <2>2, ListedType, ChainFacts DEF Table
  <2>8. r.size < MaxSize
    BY <1>1, <2>4, <2>7
  <2> QED BY <1>1, <1>3, <2>2, <2>6, <2>8 DEF w
<1> QED BY <1>2, <1>3

LEMMA Stores ==
  ASSUME NEW l, NEW s, Table(l, s), NEW k \in Key, NEW v \in Value,
         NEW r, r = FixedStore(l, k, v), NEW c, c = Listed(l, s)
  PROVE  Becomes(r, Cache!Stored(c, k, v))
<1>1. CASE HashGet(l, k) # NULL
  <2> DEFINE g == Get(l, k)
  <2>1. PICK t :
          SameFiles(g, l) /\ Table(g, t) /\ Listed(g, t) = Cache!Used(c, k)
    BY <1>1, Gets
  <2>2. r = [g EXCEPT !.block[l.udata[HashGet(l, k)]] = v]
    BY <1>1 DEF FixedStore
  <2> HIDE DEF g
  <2>3. /\ r = [g EXCEPT !.block[g.udata[HashGet(g, k)]] = v]
        /\ HashGet(g, k) # NULL
    BY <1>1, <2>1, <2>2 DEF SameFiles
  <2>4. Table(r, t) /\ Listed(r, t) = Cache!Written(Cache!Used(c, k), k, v)
    BY <2>1, <2>3, Writes
  <2>5. Cache!Has(c, k)
    BY <1>1, KeyPlace
  <2> QED BY <2>4, <2>5 DEF Becomes, Cache!Stored
<1>2. CASE HashGet(l, k) = NULL
  <2> DEFINE m == Room(l)
             e == [key |-> k, value |-> v]
             w == IF Len(c) < MaxSize THEN c ELSE Cache!Without(c, Len(c))
  <2>1. PICK t : /\ Table(m, t)
                 /\ m.size < MaxSize
                 /\ HashGet(m, k) = NULL
                 /\ Listed(m, t) = w
    BY <1>2, MakesRoom
  <2>2. r = Enter(m, k, v)
    BY <1>2 DEF FixedStore
  <2> HIDE DEF m, w
  <2>3. Becomes(r, <<e>> \o w)
    BY <2>1, <2>2, Enters
  <2>4. c \in Seq(Record) /\ e \in Record /\ Len(c) <= MaxSize
    <3>1. c \in Seq(Record) /\ Len(c) = Len(s)
      BY ListedType
    <3>2. Len(s) <= MaxSize
      BY ChainFacts DEF Table
    <3>3. e \in Record
      BY DEF Record
    <3> QED BY <3>1, <3>2, <3>3
  <2>5. SubSeq(<<e>> \o c, 1, IF Len(c) < MaxSize THEN Len(c) + 1 ELSE MaxSize)
          = <<e>> \o w
    BY <2>4, Kept DEF w
  <2>6. ~ Cache!Has(c, k)
    BY <1>2, NoPlace
  <2> QED BY <2>3, <2>5, <2>6 DEF Cache!Stored
<1> QED BY <1>1, <1>2

(* What a call leaves behind is read along the links.                      *)
LEMMA WalkBecomes ==
  ASSUME NEW l, NEW c, Becomes(l, c)
  PROVE  /\ Table(l, Walk(l))
         /\ Listed(l, Walk(l)) = c
BY WalkIs DEF Becomes, Table

LEMMA EntriesListed == IInv => Entries = Listed(lru, Walk(lru))
BY ChainFacts DEF IInv, Table, Entries, Listed

-----------------------------------------------------------------------------
(* The new table is a table, and empty.                                    *)
LEMMA StartsEmpty == Becomes(Created, << >>)
<1> DEFINE s == << >>
<1>1. s \in Seq(Block) /\ Len(s) = 0 /\ IsInjective(s) /\ ToSet(s) = {}
  BY DEF IsInjective, ToSet
<1>2. MaxSize \in Nat
  BY SizeAssumption
<1>3. Pool \in Seq(Block) /\ Holds(Pool, Block, MaxSize)
  BY NewPool DEF Holds
<1>4. Created \in LruRecord
  BY <1>3, CreateEmpty DEF Created, LruRecord, Pointer
<1>5. Chained(Created, s)
  BY <1>1 DEF Chained, Created
<1>6. Filed(Created, {})
  BY CreateEmpty DEF Filed, Created
<1>7. Pooled(Created, {})
  <2>1. Block \ {} = Block /\ MaxSize - 0 = MaxSize
    BY <1>2
  <2>2. /\ {Created.data[d] : d \in {}} = {}
        /\ {Created.udata[Created.data[d]] : d \in {}} = {}
    OBVIOUS
  <2>3. /\ Created.size = 0 /\ Created.lru_node_pool = Pool
        /\ Created.dl_node_pool = Pool /\ Created.udata_pool = Pool
    BY DEF Created
  <2> QED BY <1>3, <2>1, <2>2, <2>3 DEF Pooled
<1>8. Created.size = Created.num /\ Created.size <= MaxSize
  BY <1>2 DEF Created
<1>9. Table(Created, s)
  BY <1>1, <1>4, <1>5, <1>6, <1>7, <1>8 DEF Table
<1>10. Listed(Created, s) = << >>
  BY <1>1 DEF Listed
<1> QED BY <1>9, <1>10 DEF Becomes

LEMMA InitIInv == Init => IInv /\ Cache!Init
<1> SUFFICES ASSUME Init PROVE IInv /\ Cache!Init
  OBVIOUS
<1>1. Becomes(lru, << >>) /\ call = << >>
  BY StartsEmpty DEF Init
<1>2. IInv
  BY <1>1, WalkBecomes DEF IInv
<1>3. Entries = << >>
  BY <1>1, <1>2, WalkBecomes, EntriesListed
<1> QED BY <1>1, <1>2, <1>3 DEF Cache!Init

(* Every call is a call of Cache.                                          *)
LEMMA StepIInv == IInv /\ [Next]_vars => IInv' /\ [Cache!Next]_<<Entries, call>>
<1> SUFFICES ASSUME IInv, [Next]_vars
             PROVE  IInv' /\ [Cache!Next]_<<Entries, call>>
  OBVIOUS
<1> DEFINE s == Walk(lru)
           c == Listed(lru, s)
<1>1. Table(lru, s) /\ Entries = c
  BY EntriesListed DEF IInv
<1> HIDE DEF s, c
<1>2. ASSUME NEW d, Becomes(lru', d)
      PROVE  IInv' /\ Entries' = d
  <2>1. Table(lru', Walk(lru')) /\ Listed(lru', Walk(lru')) = d
    BY <1>2, WalkBecomes
  <2>2. IInv'
    BY <2>1 DEF IInv
  <2>3. Entries' = Listed(lru', Walk(lru'))
    BY <2>1, ChainFacts DEF Table, Entries, Listed
  <2> QED BY <2>1, <2>2, <2>3
<1>3. ASSUME NEW k \in Key, NEW v \in Value,
             Call(<<"store", k, v>>, FixedStore(lru, k, v))
      PROVE  IInv' /\ Cache!Store(k, v)
  <2>1. Becomes(lru', Cache!Stored(c, k, v))
    BY <1>1, <1>3, Stores DEF Call, c
  <2> QED BY <1>1, <1>2, <1>3, <2>1 DEF Call, Cache!Store
<1>4. ASSUME NEW k \in Key, NEW v \in Value,
             Call(<<"write", k, v>>, HashGetAndWrite(lru, k, v))
      PROVE  IInv' /\ Cache!Write(k, v)
  <2>1. Becomes(lru', IF Cache!Has(c, k) THEN Cache!Written(c, k, v) ELSE c)
    <3>1. CASE HashGet(lru, k) = NULL
      <4>1. lru' = lru /\ ~ Cache!Has(c, k)
        BY <1>1, <1>4, <3>1, NoPlace DEF Call, HashGetAndWrite, c
      <4> QED BY <1>1, <4>1 DEF Becomes, c
    <3>2. CASE HashGet(lru, k) # NULL
      <4>1. lru' = [lru EXCEPT !.block[lru.udata[HashGet(lru, k)]] = v]
        BY <1>4, <3>2 DEF Call, HashGetAndWrite
      <4>2. Cache!Has(c, k)
        BY <1>1, <3>2, KeyPlace DEF c
      <4>3. Table(lru', s) /\ Listed(lru', s) = Cache!Written(c, k, v)
        BY <1>1, <3>2, <4>1, Writes DEF c
      <4> QED BY <4>2, <4>3 DEF Becomes
    <3> QED BY <3>1, <3>2
  <2> QED BY <1>1, <1>2, <1>4, <2>1 DEF Call, Cache!Write
<1>5. ASSUME NEW k \in Key, Call(<<"use", k>>, Get(lru, k))
      PROVE  IInv' /\ Cache!Use(k)
  <2>1. Becomes(lru', IF Cache!Has(c, k) THEN Cache!Used(c, k) ELSE c)
    <3>1. CASE HashGet(lru, k) = NULL
      <4>1. lru' = lru /\ ~ Cache!Has(c, k)
        BY <1>1, <1>5, <3>1, NoPlace DEF Call, Get, c
      <4> QED BY <1>1, <4>1 DEF Becomes, c
    <3>2. CASE HashGet(lru, k) # NULL
      <4>1. Cache!Has(c, k)
        BY <1>1, <3>2, KeyPlace DEF c
      <4>2. PICK t : Table(lru', t) /\ Listed(lru', t) = Cache!Used(c, k)
        BY <1>1, <1>5, <3>2, Gets DEF Call, c
      <4> QED BY <4>1, <4>2 DEF Becomes
    <3> QED BY <3>1, <3>2
  <2> QED BY <1>1, <1>2, <1>5, <2>1 DEF Call, Cache!Use
<1>6. ASSUME NEW k \in Key, Call(<<"drop", k>>, PopByKey(lru, k))
      PROVE  IInv' /\ Cache!Drop(k)
  <2>1. Becomes(lru', IF Cache!Has(c, k)
                      THEN Cache!Without(c, Cache!PlaceOf(c, k)) ELSE c)
    BY <1>1, <1>6, PopsByKey DEF Call, c
  <2> QED BY <1>1, <1>2, <1>6, <2>1 DEF Call, Cache!Drop
<1>7. ASSUME Call(<<"drop_first">>, PopHead(lru))
      PROVE  IInv' /\ Cache!DropFirst
  <2>1. Becomes(lru', Cache!Without(c, 1))
    BY <1>1, <1>7, PopsHead DEF Call, c
  <2> QED BY <1>1, <1>2, <1>7, <2>1 DEF Call, Cache!DropFirst
<1>8. ASSUME Call(<<"drop_last">>, PopTail(lru))
      PROVE  IInv' /\ Cache!DropLast
  <2>1. Becomes(lru', Cache!Without(c, Len(c)))
    BY <1>1, <1>8, PopsTail DEF Call, c
  <2> QED BY <1>1, <1>2, <1>8, <2>1 DEF Call, Cache!DropLast
<1>9. CASE UNCHANGED vars
  <2>1. lru' = lru /\ call' = call
    BY <1>9 DEF vars
  <2>2. IInv' /\ Entries' = Entries
    BY <2>1 DEF IInv, Entries
  <2> QED BY <2>1, <2>2
<1> QED BY <1>3, <1>4, <1>5, <1>6, <1>7, <1>8, <1>9 DEF Next, Cache!Next

(* The inductive invariant holds of every run.                             *)
THEOREM Invariant == Spec => []IInv
BY InitIInv, StepIInv, PTL DEF Spec

(* Walking from head along nex one meets num = size different nodes, pre   *)
(* leads back the same way, and tail is the last of them: no sequence of   *)
(* stores, uses, drops and evictions leaves the list cut or crossed        *)
(* (gnb_doubly_linked_list.c).                                             *)
THEOREM ListWellLinked == Spec => []WellLinked
<1>1. IInv => WellLinked
  <2> SUFFICES ASSUME IInv PROVE WellLinked
    OBVIOUS
  <2> DEFINE s == Walk(lru)
  <2> HIDE DEF s
  <2>1. Table(lru, s)
    BY DEF IInv, s
  <2>2. Chained(lru, s) /\ lru.num = lru.size
    BY <2>1 DEF Table
  <2>3. s \in Seq(Block) /\ IsInjective(s) /\ Len(s) = lru.num
    BY <2>2 DEF Chained
  <2>4. \A i \in 1 .. lru.num :
          /\ s[i] # NULL
          /\ lru.pre[s[i]] = IF i = 1 THEN NULL ELSE s[i - 1]
          /\ i = lru.num => lru.nex[s[i]] = NULL /\ lru.tail = s[i]
    <3> SUFFICES ASSUME NEW i \in 1 .. lru.num
                 PROVE  /\ s[i] # NULL
                        /\ lru.pre[s[i]] = IF i = 1 THEN NULL ELSE s[i - 1]
                        /\ i = lru.num => lru.nex[s[i]] = NULL /\ lru.tail = s[i]
      OBVIOUS
    <3>1. lru.num # 0
      BY <2>3
    <3>2. Laid(lru, s, lru.num)
      BY <2>2, <2>3, <3>1, ChainLaid
    <3> QED BY <3>2, NullIsNoBlock DEF Laid
  <2>5. lru.num = 0 => lru.head = NULL /\ lru.tail = NULL
    BY <2>2 DEF Chained
  <2> QED BY <2>2, <2>3, <2>4, <2>5 DEF WellLinked, s
<1> QED BY <1>1, Invariant, PTL

(* The lru nodes that keys lead to are those of the list.                  *)
LEMMA LiveAre ==
  ASSUME IInv, NEW D, D = ToSet(Walk(lru))
  PROVE  /\ Live = {lru.data[d] : d \in D}
         /\ {lru.dl_node[n] : n \in Live} = D
         /\ {lru.udata[n] : n \in Live} = {lru.udata[lru.data[d]] : d \in D}
<1>1. /\ \A d \in D :
           /\ lru.data[d] \in Block
           /\ lru.dl_node[lru.data[d]] = d
           /\ lru.kv[lru.data[d]] \in Key
           /\ HashGet(lru, lru.kv[lru.data[d]]) = lru.data[d]
      /\ \A k \in Key : HashGet(lru, k) # NULL =>
           \E d \in D : lru.data[d] = HashGet(lru, k) /\ lru.kv[lru.data[d]] = k
  BY DEF IInv, Table, Filed
<1>2. Live = {lru.data[d] : d \in D}
  BY <1>1, NullIsNoBlock DEF Live
<1> QED BY <1>1, <1>2

(* Every lru node, list node and data block is in its pool, once, or       *)
(* belongs to one entry (gnb_fixed_pool.c).                                *)
THEOREM NothingLost == Spec => []Conserved
<1>1. IInv => Conserved
  <2> SUFFICES ASSUME IInv PROVE Conserved
    OBVIOUS
  <2> DEFINE s == Walk(lru)
             D == ToSet(s)
             N == {lru.data[d] : d \in D}
             U == {lru.udata[lru.data[d]] : d \in D}
  <2>1. Table(lru, s)
    BY DEF IInv
  <2>2. /\ Live = N /\ {lru.dl_node[n] : n \in Live} = D
        /\ {lru.udata[n] : n \in Live} = U
    BY LiveAre
  <2>3. /\ Holds(lru.lru_node_pool, Block \ N, MaxSize - lru.size)
        /\ Holds(lru.dl_node_pool, Block \ D, MaxSize - lru.size)
        /\ Holds(lru.udata_pool, Block \ U, MaxSize - lru.size)
    BY <2>1 DEF Table, Pooled
  <2>4. N \subseteq Block /\ D \subseteq Block /\ U \subseteq Block
    <3>1. D \subseteq Block
      BY <2>1, ChainFacts DEF Table, ToSet
    <3> QED BY <2>1, <3>1 DEF Table, Filed
  <2>5. TypeOK
    <3>1. lru \in LruRecord /\ lru.size = lru.num /\ lru.size <= MaxSize
      BY <2>1 DEF Table
    <3>2. {lru.size, lru.num} \subseteq 0 .. MaxSize
      BY <3>1, SizeAssumption DEF LruRecord
    <3>3. lru.map \in [0 .. MaxSize - 1 -> Seq([key : Key, value : Block])]
      BY <3>1 DEF LruRecord, Buckets, ChainRecord
    <3> QED BY <3>1, <3>2, <3>3 DEF LruRecord, TypeOK
  <2> HIDE DEF s, D, N, U
  <2>6. /\ Block \ (Block \ N) = N /\ Block \ (Block \ D) = D
        /\ Block \ (Block \ U) = U
    BY <2>4
  <2> QED BY <2>2, <2>3, <2>5, <2>6 DEF Holds, Conserved
<1> QED BY <1>1, Invariant, PTL

(* A key leads to the lru node that carries it, whose list node leads back *)
(* to it, and the hash and the list have the same entries (gnb_lru32.c).   *)
THEOREM HashAndListAgree == Spec => []HashAgrees
<1>1. IInv => HashAgrees
  <2> SUFFICES ASSUME IInv PROVE HashAgrees
    OBVIOUS
  <2> DEFINE s == Walk(lru)
  <2>1. Table(lru, s)
    BY DEF IInv
  <2>2. /\ \A d \in ToSet(s) : lru.dl_node[lru.data[d]] = d
        /\ \A k \in Key : HashGet(lru, k) # NULL =>
             \E d \in ToSet(s) :
               lru.data[d] = HashGet(lru, k) /\ lru.kv[lru.data[d]] = k
    BY <2>1 DEF Table, Filed
  <2>3. {lru.dl_node[n] : n \in Live} = ToSet(s)
    BY LiveAre
  <2>4. ToSet(s) = {s[i] : i \in 1 .. lru.num}
    BY <2>1, ChainFacts DEF Table, ToSet
  <2> HIDE DEF s
  <2>5. \A k \in Key : HashGet(lru, k) # NULL =>
          /\ lru.kv[HashGet(lru, k)] = k
          /\ lru.data[lru.dl_node[HashGet(lru, k)]] = HashGet(lru, k)
    BY <2>2
  <2>6. lru.map \in Buckets
    BY <2>1 DEF Table, LruRecord
  <2>7. \A b \in DOMAIN lru.map : \A i \in DOMAIN lru.map[b] :
          HashGet(lru, lru.map[b][i].key) = lru.map[b][i].value
    BY <2>6, NothingHidden
  <2> QED BY <2>3, <2>4, <2>5, <2>7 DEF HashAgrees, s
<1> QED BY <1>1, Invariant, PTL

(* gnb_lru32_hash_get finds a key if and only if the table has an entry    *)
(* for it.  There is never more than one, and its value is what stands in  *)
(* the data block that is found.                                           *)
GetFinds ==
  \A k \in Key :
    IF HashGet(lru, k) = NULL THEN ~ Cache!Has(Entries, k)
    ELSE \E i \in DOMAIN Entries :
           /\ Entries[i] =
                [key |-> k, value |-> lru.block[lru.udata[HashGet(lru, k)]]]
           /\ \A j \in DOMAIN Entries : Entries[j].key = k => j = i

THEOREM HashFinds == Spec => []GetFinds
<1>1. IInv => GetFinds
  <2> SUFFICES ASSUME IInv, NEW k \in Key, HashGet(lru, k) # NULL
               PROVE  \E i \in DOMAIN Entries :
                        /\ Entries[i] =
                             [key |-> k,
                              value |-> lru.block[lru.udata[HashGet(lru, k)]]]
                        /\ \A j \in DOMAIN Entries : Entries[j].key = k => j = i
    BY NoPlace, EntriesListed DEF IInv, GetFinds
  <2> DEFINE s == Walk(lru)
             c == Listed(lru, s)
  <2>1. Table(lru, s) /\ Entries = c
    BY EntriesListed DEF IInv
  <2> HIDE DEF s, c
  <2>2. /\ DOMAIN s = 1 .. Len(s)
        /\ \A i, j \in 1 .. Len(s) : s[i] = s[j] => i = j
    BY <2>1, ChainFacts DEF Table
  <2>3. /\ DOMAIN c = 1 .. Len(s)
        /\ \A i \in 1 .. Len(s) : c[i] = Entry(lru, s[i])
    BY <2>1, ListedType DEF c
  <2>4. PICK p \in 1 .. Len(s) :
          HashGet(lru, k) = lru.data[s[p]] /\ lru.dl_node[HashGet(lru, k)] = s[p]
    BY <2>1, KeyPlace
  <2>5. PICK d \in ToSet(s) :
          lru.data[d] = HashGet(lru, k) /\ lru.kv[lru.data[d]] = k
    BY <2>1 DEF Table, Filed
  <2>6. c[p] = [key |-> k, value |-> lru.block[lru.udata[HashGet(lru, k)]]]
    BY <2>3, <2>4, <2>5 DEF Entry
  <2>7. ASSUME NEW j \in 1 .. Len(s), c[j].key = k PROVE j = p
    <3>1. lru.kv[lru.data[s[j]]] = k
      BY <2>3, <2>7 DEF Entry
    <3>2. /\ HashGet(lru, lru.kv[lru.data[s[j]]]) = lru.data[s[j]]
          /\ lru.dl_node[lru.data[s[j]]] = s[j]
      BY <2>1, PlaceFacts
    <3>3. s[j] = s[p]
      BY <2>4, <3>1, <3>2
    <3> QED BY <2>2, <3>3
  <2> QED BY <2>1, <2>3, <2>6, <2>7
<1> QED BY <1>1, Invariant, PTL

(* The hash, the list and the pools together are the table in the order of *)
(* last use that LruCache specifies: what is used comes to the front, what *)
(* is written stays under its key, and what makes room is the entry at the *)
(* end.                                                                    *)
THEOREM IsCache == Spec => ImplementsCache
BY InitIInv, StepIInv, Invariant, PTL DEF Spec, ImplementsCache, Cache!Spec
=============================================================================
