------------------------- MODULE IndexService_proof -------------------------
(***************************************************************************)
(* For any number of nodes and index nodes, any size of the tables and any *)
(* faults, restarts and moves: the table of an index node, for which       *)
(* IndexService writes down what comes out of the calls of gnb_lru32.h, is *)
(* changed by those calls only, in the order of the handlers.  LruCache    *)
(* says what they do, and Lru32_proof that the linked structures do it.    *)
(***************************************************************************)
EXTENDS Rendezvous_proof

(* Only the operators of LruCache on sequences are used here.              *)
Cache == INSTANCE LruCache WITH
  Key <- Node \cup Nobody, Value <- Entry, MaxSize <- LruSize,
  cache <- << >>, call <- << >>

(* A table as LruCache sees it: a key, and the data block of that key.     *)
Seen(t) == [i \in 1 .. Len(t) |-> [key |-> t[i].key, value |-> t[i]]]

OneEach(t) ==
  /\ Len(t) <= LruSize
  /\ \A i, j \in 1 .. Len(t) : t[i].key = t[j].key => i = j

KeysOnce == \A x \in ServiceNode : OneEach(table[x])

(* The calls of each handler, one after the other.                         *)
KnownPosts(c, d) ==
  \E n \in Node \cup Nobody : \E e :
    Cache!Has(c, n) /\ d = Cache!Written(c, n, e)
NewPosts(c, d) ==
  \E n \in Node \cup Nobody : \E e :
    /\ ~ Cache!Has(c, n)
    /\ d = Cache!Written(Cache!Stored(c, n, NewEntry(n)), n, e)
Refused(c, d) ==
  \E n \in Node : Cache!Has(c, n) /\ d = Cache!Used(c, n)
Introduces(c, d) ==
  \E n, m \in Node : \E e :
    /\ Cache!Has(c, n) /\ Cache!Has(c, m)
    /\ d = Cache!Written(Cache!Used(Cache!Used(c, n), m), n, e)

(* Nothing happens, or time passes, which only the data blocks show.       *)
Ages(c, d) ==
  Len(d) = Len(c) /\ \A i \in 1 .. Len(c) : d[i].key = c[i].key

ByCalls(c, d) ==
  \/ KnownPosts(c, d)
  \/ NewPosts(c, d)
  \/ Refused(c, d)
  \/ Introduces(c, d)
  \/ Ages(c, d)
  \/ d = << >>       \* the index node is started

TablesByCalls ==
  \A x \in ServiceNode : ByCalls(Seen(table[x]), Seen(table'[x]))

(* A key is lost only from the end of a full table, to a key that was not  *)
(* there and is now the first, or when the index node is started.          *)
LostToNewer(t, u) ==
  \A k : At(t, k) # {} /\ At(u, k) = {} =>
    \/ u = << >>
    \/ Len(t) = LruSize /\ t[LruSize].key = k /\ At(t, u[1].key) = {}

LastIsLost == \A x \in ServiceNode : LostToNewer(table[x], table'[x])

-----------------------------------------------------------------------------
(* Sequences.                                                              *)

(* A sequence without its p-th element.                                    *)
LEMMA WithoutAt ==
  ASSUME NEW S, NEW c \in Seq(S), NEW p \in 1 .. Len(c)
  PROVE  /\ Cache!Without(c, p) \in Seq(S)
         /\ Len(Cache!Without(c, p)) = Len(c) - 1
         /\ \A i \in 1 .. Len(c) - 1 :
              Cache!Without(c, p)[i] = IF i < p THEN c[i] ELSE c[i + 1]
<1> DEFINE a == SubSeq(c, 1, p - 1)
           b == SubSeq(c, p + 1, Len(c))
<1>1. /\ Len(c) \in Nat
      /\ p \in Int /\ p >= 1 /\ p <= Len(c)
  OBVIOUS
<1>2. /\ a \in Seq(S)
      /\ Len(a) = p - 1
      /\ \A i \in 1 .. p - 1 : a[i] = c[i]
  <2>1. \A i \in 1 .. p - 1 : c[i] \in S
    OBVIOUS
  <2> QED BY <1>1, <2>1, SubSeqProperties
<1>3. /\ b \in Seq(S)
      /\ Len(b) = Len(c) - p
      /\ \A i \in 1 .. Len(c) - p : b[i] = c[p + i]
  <2>1. \A i \in p + 1 .. Len(c) : c[i] \in S
    OBVIOUS
  <2> QED BY <1>1, <2>1, SubSeqProperties
<1>4. /\ a \o b \in Seq(S)
      /\ Len(a \o b) = Len(a) + Len(b)
      /\ \A i \in 1 .. Len(a) + Len(b) :
           (a \o b)[i] = IF i <= Len(a) THEN a[i] ELSE b[i - Len(a)]
  BY <1>2, <1>3, ConcatProperties
<1> HIDE DEF a, b
<1>5. ASSUME NEW i \in 1 .. Len(c) - 1
      PROVE  (a \o b)[i] = IF i < p THEN c[i] ELSE c[i + 1]
  <2>1. CASE i < p
    BY <1>1, <1>2, <1>3, <1>4, <2>1
  <2>2. CASE ~(i < p)
    <3>1. i - (p - 1) \in 1 .. Len(c) - p
      BY <1>1, <2>2
    <3>2. (a \o b)[i] = b[i - (p - 1)]
      BY <1>1, <1>2, <1>3, <1>4, <2>2
    <3> QED BY <1>1, <1>3, <2>2, <3>1, <3>2
  <2> QED BY <2>1, <2>2
<1>6. Len(a \o b) = Len(c) - 1
  BY <1>1, <1>2, <1>3, <1>4
<1>7. Cache!Without(c, p) = a \o b
  BY DEF Cache!Without, a, b
<1> QED BY <1>4, <1>5, <1>6, <1>7

(* A sequence with one element more in front.                              *)
LEMMA PrependAt ==
  ASSUME NEW S, NEW c \in Seq(S), NEW e \in S
  PROVE  /\ <<e>> \o c \in Seq(S)
         /\ Len(<<e>> \o c) = Len(c) + 1
         /\ \A i \in 1 .. Len(c) + 1 :
              (<<e>> \o c)[i] = IF i = 1 THEN e ELSE c[i - 1]
<1>1. <<e>> \in Seq(S) /\ Len(<<e>>) = 1 /\ <<e>>[1] = e
  OBVIOUS
<1>2. /\ <<e>> \o c \in Seq(S)
      /\ Len(<<e>> \o c) = Len(<<e>>) + Len(c)
      /\ \A i \in 1 .. Len(<<e>>) + Len(c) :
           (<<e>> \o c)[i] =
              IF i <= Len(<<e>>) THEN <<e>>[i] ELSE c[i - Len(<<e>>)]
  BY <1>1, ConcatProperties
<1>3. Len(c) \in Nat
  OBVIOUS
<1> QED BY <1>1, <1>2, <1>3

(* A sequence with its p-th element moved to the front.                    *)
ToFront(c, p) == <<c[p]>> \o Cache!Without(c, p)

LEMMA ToFrontAt ==
  ASSUME NEW S, NEW c \in Seq(S), NEW p \in 1 .. Len(c)
  PROVE  /\ ToFront(c, p) \in Seq(S)
         /\ Len(ToFront(c, p)) = Len(c)
         /\ \A i \in 1 .. Len(c) :
              ToFront(c, p)[i] = IF i = 1 THEN c[p]
                                 ELSE IF i <= p THEN c[i - 1] ELSE c[i]
<1> DEFINE w == Cache!Without(c, p)
<1>1. /\ w \in Seq(S)
      /\ Len(w) = Len(c) - 1
      /\ \A i \in 1 .. Len(c) - 1 : w[i] = IF i < p THEN c[i] ELSE c[i + 1]
  BY WithoutAt
<1>2. c[p] \in S /\ Len(c) \in Nat /\ p \in Nat
  OBVIOUS
<1>3. /\ <<c[p]>> \o w \in Seq(S)
      /\ Len(<<c[p]>> \o w) = Len(w) + 1
      /\ \A i \in 1 .. Len(w) + 1 :
           (<<c[p]>> \o w)[i] = IF i = 1 THEN c[p] ELSE w[i - 1]
  BY <1>1, <1>2, PrependAt
<1> HIDE DEF w
<1>4. ASSUME NEW i \in 2 .. Len(c)
      PROVE  w[i - 1] = IF i <= p THEN c[i - 1] ELSE c[i]
  <2>1. i - 1 \in 1 .. Len(c) - 1 /\ i - 1 + 1 = i
    BY <1>2
  <2> QED BY <1>1, <1>2, <2>1
<1> QED BY <1>1, <1>2, <1>3, <1>4 DEF ToFront, w

-----------------------------------------------------------------------------
(* Tables and what LruCache sees of them.                                  *)

(* What is seen of a sequence is a sequence as long.                       *)
LEMMA SeenAt ==
  ASSUME NEW S, NEW t \in Seq(S)
  PROVE  /\ Seen(t) \in Seq({[key |-> e.key, value |-> e] : e \in S})
         /\ Len(Seen(t)) = Len(t) /\ DOMAIN Seen(t) = 1 .. Len(t)
         /\ \A i \in 1 .. Len(t) :
              Seen(t)[i] = [key |-> t[i].key, value |-> t[i]]
<1> DEFINE R == {[key |-> e.key, value |-> e] : e \in S}
<1>1. Len(t) \in Nat
  OBVIOUS
<1>2. \A i \in 1 .. Len(t) : t[i] \in S
  OBVIOUS
<1>3. \A i \in 1 .. Len(t) : [key |-> t[i].key, value |-> t[i]] \in R
  BY <1>2
<1> HIDE DEF R
<1>4. Seen(t) \in [1 .. Len(t) -> R]
  BY <1>3 DEF Seen
<1>5. Seen(t) \in Seq(R) /\ Len(Seen(t)) = Len(t)
  BY <1>1, <1>4
<1> QED BY <1>4, <1>5 DEF R, Seen

(* Two sequences that agree everywhere are the same.                       *)
LEMMA SameSeq ==
  ASSUME NEW S, NEW a \in Seq(S), NEW b \in Seq(S), Len(a) = Len(b),
         \A i \in 1 .. Len(a) : a[i] = b[i]
  PROVE  a = b
OBVIOUS

(* A key is seen where it is in the table.                                 *)
LEMMA SeenKey ==
  ASSUME NEW S, NEW t \in Seq(S), NEW n
  PROVE  /\ Cache!Has(Seen(t), n) <=> At(t, n) # {}
         /\ Cache!PlaceOf(Seen(t), n) = CHOOSE i \in At(t, n) : TRUE
<1>1. /\ DOMAIN Seen(t) = 1 .. Len(t)
      /\ \A i \in 1 .. Len(t) : Seen(t)[i].key = t[i].key
  <2>1. /\ DOMAIN Seen(t) = 1 .. Len(t)
        /\ \A i \in 1 .. Len(t) :
             Seen(t)[i] = [key |-> t[i].key, value |-> t[i]]
    BY SeenAt
  <2> QED BY <2>1
<1>2. \A i : i \in At(t, n) <=> i \in DOMAIN Seen(t) /\ Seen(t)[i].key = n
  BY <1>1 DEF At
<1>3. Cache!Has(Seen(t), n) <=> At(t, n) # {}
  BY <1>2 DEF Cache!Has
<1>4. (CHOOSE i \in DOMAIN Seen(t) : Seen(t)[i].key = n) =
        CHOOSE i \in At(t, n) : TRUE
  BY <1>2
<1> QED BY <1>3, <1>4 DEF Cache!PlaceOf

(* GNB_LRU32_FIXED_STORE of a key that is not in the table.                *)
LEMMA StoreSeen ==
  ASSUME NEW S, NEW t \in Seq(S), NEW e \in S, OneEach(t), At(t, e.key) = {}
  PROVE  /\ Seen(Store(t, e)) = Cache!Stored(Seen(t), e.key, e)
         /\ OneEach(Store(t, e))
         /\ Store(t, e)[1] = e
         /\ LostToNewer(t, Store(t, e))
<1> DEFINE k == IF Len(t) < LruSize THEN Len(t) + 1 ELSE LruSize
           R == {[key |-> f.key, value |-> f] : f \in S}
           c == Seen(t)
           s == <<[key |-> e.key, value |-> e]>> \o c
           u == Store(t, e)
           v == SubSeq(s, 1, k)
<1>1. /\ Len(t) \in Nat /\ LruSize \in Nat /\ k \in Nat
      /\ 1 <= k /\ k <= Len(t) + 1 /\ k <= LruSize
  BY ServiceAssumption DEF OneEach
<1>2. u = [i \in 1 .. k |-> IF i = 1 THEN e ELSE t[i - 1]]
  BY DEF Store
<1>3. u \in Seq(S)
  BY StoreType
<1>4. /\ c \in Seq(R) /\ Len(c) = Len(t)
      /\ \A i \in 1 .. Len(t) : c[i] = [key |-> t[i].key, value |-> t[i]]
  BY SeenAt
<1>5. [key |-> e.key, value |-> e] \in R
  OBVIOUS
<1>6. ~ Cache!Has(c, e.key)
  BY SeenKey
<1>7. Cache!Stored(c, e.key, e) = v
  BY <1>4, <1>6 DEF Cache!Stored
<1>8. Seen(u) \in Seq(R)
  BY <1>3, SeenAt
<1> HIDE DEF k, R, c
<1>9. /\ s \in Seq(R) /\ Len(s) = Len(t) + 1
      /\ \A i \in 1 .. Len(t) + 1 :
           s[i] = IF i = 1 THEN [key |-> e.key, value |-> e] ELSE c[i - 1]
  BY <1>4, <1>5, PrependAt
<1> HIDE DEF s
<1>10. v \in Seq(R) /\ Len(v) = k /\ \A i \in 1 .. k : v[i] = s[i]
  <2>1. \A i \in 1 .. k : s[i] \in R
    BY <1>1, <1>9
  <2>2. 1 \in Int /\ k \in Int
    BY <1>1
  <2> QED BY <1>1, <1>9, <2>1, <2>2, SubSeqProperties
<1> HIDE DEF v
<1>11. Len(u) = k /\ \A i \in 1 .. k : u[i] = IF i = 1 THEN e ELSE t[i - 1]
  BY <1>1, <1>2
<1>12. \A i \in 2 .. k : i - 1 \in 1 .. Len(t)
  BY <1>1
<1> HIDE DEF u
<1>13. Len(Seen(u)) = k
       /\ \A i \in 1 .. k : Seen(u)[i] = [key |-> u[i].key, value |-> u[i]]
  BY <1>3, <1>11, SeenAt
<1>14. ASSUME NEW i \in 1 .. k
       PROVE  Seen(u)[i] = v[i]
  <2>1. CASE i = 1
    BY <1>1, <1>9, <1>10, <1>11, <1>13, <2>1
  <2>2. CASE i # 1
    <3>1. i \in 2 .. k /\ i \in 1 .. Len(t) + 1
      BY <1>1, <2>2
    <3> QED BY <1>4, <1>9, <1>10, <1>11, <1>12, <1>13, <2>2, <3>1
  <2> QED BY <2>1, <2>2
<1>15. Seen(u) = v
  BY <1>8, <1>10, <1>13, <1>14, SameSeq
<1>16. \A i \in 1 .. Len(t) : t[i].key # e.key
  BY DEF At
<1>17. \A i \in 1 .. k : u[i].key = e.key => i = 1
  BY <1>11, <1>12, <1>16
<1>18. u[1] = e
  BY <1>1, <1>11
<1>19. ASSUME NEW i \in 1 .. k, NEW j \in 1 .. k, u[i].key = u[j].key
       PROVE  i = j
  <2>1. CASE i = 1 \/ j = 1
    BY <1>1, <1>11, <1>17, <1>19, <2>1
  <2>2. CASE i # 1 /\ j # 1
    <3>1. i - 1 \in 1 .. Len(t) /\ j - 1 \in 1 .. Len(t)
      BY <1>1, <2>2
    <3>2. t[i - 1].key = t[j - 1].key
      BY <1>11, <1>19, <2>2
    <3>3. i - 1 = j - 1
      BY <3>1, <3>2 DEF OneEach
    <3> QED BY <1>1, <3>3
  <2> QED BY <2>1, <2>2
<1>20. OneEach(u)
  BY <1>1, <1>11, <1>19 DEF OneEach
<1>21. ASSUME NEW n, At(t, n) # {}, At(u, n) = {}
       PROVE  Len(t) = LruSize /\ t[LruSize].key = n
  <2>1. PICK i \in 1 .. Len(t) : t[i].key = n
    BY <1>21 DEF At
  <2>2. i + 1 \in Nat /\ i + 1 # 1 /\ i + 1 - 1 = i /\ i + 1 >= 1
    BY <1>1
  <2>3. ~(i + 1 \in 1 .. k)
    <3>1. ASSUME i + 1 \in 1 .. k PROVE FALSE
      <4>1. u[i + 1] = t[i]
        BY <1>11, <2>2, <3>1
      <4>2. i + 1 \in At(u, n)
        BY <1>11, <2>1, <3>1, <4>1 DEF At
      <4> QED BY <1>21, <4>2
    <3> QED BY <3>1
  <2>4. i >= k
    BY <1>1, <2>2, <2>3
  <2>5. k = LruSize /\ Len(t) <= LruSize
    BY <1>1, <2>4 DEF k, OneEach
  <2> QED BY <1>1, <2>1, <2>4, <2>5
<1>22. LostToNewer(t, u)
  BY <1>18, <1>21 DEF LostToNewer
<1> QED BY <1>7, <1>15, <1>18, <1>20, <1>22 DEF u, c

(* GNB_LRU32_MOVETOHEAD of a key that is in the table.                     *)
LEMMA MoveSeen ==
  ASSUME NEW S, NEW t \in Seq(S), NEW n, OneEach(t), At(t, n) # {}
  PROVE  /\ Seen(MoveToHead(t, n)) = Cache!Used(Seen(t), n)
         /\ OneEach(MoveToHead(t, n))
<1> DEFINE p == CHOOSE i \in At(t, n) : TRUE
           R == {[key |-> f.key, value |-> f] : f \in S}
           c == Seen(t)
           u == MoveToHead(t, n)
<1>1. p \in 1 .. Len(t) /\ Len(t) \in Nat
  BY DEF At
<1>2. /\ c \in Seq(R) /\ Len(c) = Len(t)
      /\ \A i \in 1 .. Len(t) : c[i] = [key |-> t[i].key, value |-> t[i]]
  BY SeenAt
<1>3. Cache!Used(c, n) = IF Len(t) <= 2 THEN c ELSE ToFront(c, p)
  BY <1>2, SeenKey DEF Cache!Used, ToFront
<1>4. u = IF Len(t) <= 2 THEN t
          ELSE [i \in 1 .. Len(t) |->
                  IF i = 1 THEN t[p] ELSE IF i <= p THEN t[i - 1] ELSE t[i]]
  BY DEF MoveToHead
<1>5. u \in Seq(S)
  BY MoveToHeadType
<1>6. Seen(u) \in Seq(R)
  BY <1>5, SeenAt
<1> HIDE DEF p, R, u
<1>7. CASE Len(t) <= 2
  BY <1>3, <1>4, <1>7 DEF u
<1>8. CASE ~(Len(t) <= 2)
  <2>1. /\ Len(u) = Len(t)
        /\ \A i \in 1 .. Len(t) :
             u[i] = IF i = 1 THEN t[p] ELSE IF i <= p THEN t[i - 1] ELSE t[i]
    BY <1>1, <1>4, <1>8
  <2>2. /\ Len(Seen(u)) = Len(t)
        /\ \A i \in 1 .. Len(t) :
             Seen(u)[i] = [key |-> u[i].key, value |-> u[i]]
    BY <1>5, <2>1, SeenAt
  <2> HIDE DEF c
  <2>3. /\ ToFront(c, p) \in Seq(R) /\ Len(ToFront(c, p)) = Len(t)
        /\ \A i \in 1 .. Len(t) :
             ToFront(c, p)[i] = IF i = 1 THEN c[p]
                                ELSE IF i <= p THEN c[i - 1] ELSE c[i]
    <3>1. p \in 1 .. Len(c)
      BY <1>1, <1>2
    <3> QED BY <1>2, <3>1, ToFrontAt
  <2>4. \A i \in 1 .. Len(t) : i # 1 => i - 1 \in 1 .. Len(t)
    BY <1>1
  <2>5. \A i \in 1 .. Len(t) : Seen(u)[i] = ToFront(c, p)[i]
    <3> SUFFICES ASSUME NEW i \in 1 .. Len(t)
                 PROVE  Seen(u)[i] = ToFront(c, p)[i]
      OBVIOUS
    <3>1. CASE i = 1
      <4>1. u[i] = t[p] /\ ToFront(c, p)[i] = c[p]
        BY <2>1, <2>3, <3>1
      <4>2. c[p] = [key |-> t[p].key, value |-> t[p]]
        BY <1>1, <1>2
      <4> QED BY <2>2, <4>1, <4>2
    <3>2. CASE i # 1 /\ i <= p
      <4>1. c[i - 1] = [key |-> t[i - 1].key, value |-> t[i - 1]]
        BY <1>2, <2>4, <3>2
      <4>2. u[i] = t[i - 1] /\ ToFront(c, p)[i] = c[i - 1]
        BY <2>1, <2>3, <3>2
      <4> QED BY <2>2, <4>1, <4>2
    <3>3. CASE i # 1 /\ ~(i <= p)
      <4>1. u[i] = t[i] /\ ToFront(c, p)[i] = c[i]
        BY <2>1, <2>3, <3>3
      <4> QED BY <1>2, <2>2, <4>1
    <3> QED BY <3>1, <3>2, <3>3
  <2>6. Seen(u) = ToFront(c, p)
    BY <1>6, <2>2, <2>3, <2>5, SameSeq
  <2> DEFINE from(i) == IF i = 1 THEN p ELSE IF i <= p THEN i - 1 ELSE i
  <2>7. \A i \in 1 .. Len(t) : from(i) \in 1 .. Len(t) /\ u[i] = t[from(i)]
    BY <1>1, <2>1, <2>4
  <2>8. \A i, j \in 1 .. Len(t) : from(i) = from(j) => i = j
    BY <1>1
  <2> HIDE DEF from
  <2>9. \A i, j \in 1 .. Len(t) : u[i].key = u[j].key => i = j
    <3> SUFFICES ASSUME NEW i \in 1 .. Len(t), NEW j \in 1 .. Len(t),
                        u[i].key = u[j].key
                 PROVE  i = j
      OBVIOUS
    <3>1. from(i) \in 1 .. Len(t) /\ u[i] = t[from(i)]
      BY <2>7
    <3>2. from(j) \in 1 .. Len(t) /\ u[j] = t[from(j)]
      BY <2>7
    <3>3. t[from(i)].key = t[from(j)].key
      BY <3>1, <3>2
    <3>4. from(i) = from(j)
      BY <3>1, <3>2, <3>3 DEF OneEach
    <3> QED BY <2>8, <3>4
  <2>10. OneEach(u)
    BY <2>1, <2>9 DEF OneEach
  <2> QED BY <1>3, <1>8, <2>6, <2>10 DEF u, c
<1> QED BY <1>7, <1>8

(* The data block of a key that is in the table is written.                *)
LEMMA ReplaceSeen ==
  ASSUME NEW S, NEW t \in Seq(S), NEW e \in S, OneEach(t), At(t, e.key) # {}
  PROVE  /\ Seen(Replace(t, e)) = Cache!Written(Seen(t), e.key, e)
         /\ OneEach(Replace(t, e))
         /\ Len(Replace(t, e)) = Len(t)
         /\ \A i \in 1 .. Len(t) : Replace(t, e)[i].key = t[i].key
<1> DEFINE p == CHOOSE i \in At(t, e.key) : TRUE
           R == {[key |-> f.key, value |-> f] : f \in S}
           c == Seen(t)
           u == Replace(t, e)
           w == [c EXCEPT ![p].value = e]
<1>1. p \in 1 .. Len(t) /\ t[p].key = e.key /\ Len(t) \in Nat
  BY DEF At
<1>2. /\ c \in Seq(R) /\ Len(c) = Len(t) /\ DOMAIN c = 1 .. Len(t)
      /\ \A i \in 1 .. Len(t) : c[i] = [key |-> t[i].key, value |-> t[i]]
  BY SeenAt
<1>3. Cache!Written(c, e.key, e) = w
  BY SeenKey DEF Cache!Written
<1>4. u \in Seq(S)
  BY ReplaceType
<1>5. /\ Len(u) = Len(t)
      /\ \A i \in 1 .. Len(t) : u[i] = IF t[i].key = e.key THEN e ELSE t[i]
  BY <1>1 DEF Replace
<1>6. [key |-> e.key, value |-> e] \in R
  OBVIOUS
<1>7. /\ Seen(u) \in Seq(R) /\ Len(Seen(u)) = Len(t)
      /\ \A i \in 1 .. Len(t) :
           Seen(u)[i] = [key |-> u[i].key, value |-> u[i]]
  BY <1>4, <1>5, SeenAt
<1> HIDE DEF p, R, c, u
<1>8. \A i \in 1 .. Len(t) : t[i].key = e.key => i = p
  BY <1>1 DEF OneEach
<1>9. w = [i \in 1 .. Len(t) |->
             IF i = p THEN [c[p] EXCEPT !.value = e] ELSE c[i]]
  BY <1>1, <1>2
<1>10. [c[p] EXCEPT !.value = e] = [key |-> e.key, value |-> e]
  BY <1>1, <1>2
<1>11. \A i \in 1 .. Len(t) :
         w[i] = IF i = p THEN [key |-> e.key, value |-> e] ELSE c[i]
  BY <1>9, <1>10
<1>12. \A i \in 1 .. Len(t) : c[i] \in R
  BY <1>2
<1>13. w \in Seq(R) /\ Len(w) = Len(t)
  <2>1. DOMAIN w = 1 .. Len(t) /\ w = [i \in 1 .. Len(t) |-> w[i]]
    BY <1>9
  <2> HIDE DEF w
  <2>2. \A i \in 1 .. Len(t) : w[i] \in R
    BY <1>6, <1>11, <1>12
  <2>3. w \in [1 .. Len(t) -> R]
    BY <2>1, <2>2
  <2> QED BY <1>1, <2>3
<1> HIDE DEF w
<1>14. \A i \in 1 .. Len(t) : Seen(u)[i] = w[i]
  BY <1>1, <1>2, <1>5, <1>7, <1>8, <1>11
<1>15. Seen(u) = w
  BY <1>7, <1>13, <1>14, SameSeq
<1>16. \A i \in 1 .. Len(t) : u[i].key = t[i].key
  BY <1>5
<1>17. OneEach(u)
  BY <1>5, <1>16 DEF OneEach
<1> QED BY <1>3, <1>5, <1>15, <1>16, <1>17 DEF u, c

(* Only the keys count for what is lost.                                   *)
LEMMA LostByKeys ==
  ASSUME NEW t, NEW u, NEW w, LostToNewer(t, u),
         Len(w) = Len(u), Len(u) \in Nat, Len(u) > 0,
         \A i \in 1 .. Len(u) : w[i].key = u[i].key
  PROVE  LostToNewer(t, w)
<1>1. \A k : At(w, k) = At(u, k)
  BY DEF At
<1>2. u # << >>
  OBVIOUS
<1>3. w[1].key = u[1].key
  OBVIOUS
<1> QED BY <1>1, <1>2, <1>3 DEF LostToNewer

-----------------------------------------------------------------------------
(* The steps.                                                              *)

(* A table that stays as it is, or ages.                                   *)
LEMMA SameTable ==
  ASSUME NEW S, NEW t \in Seq(S), OneEach(t), NEW T, NEW u \in Seq(T),
         Len(u) = Len(t), \A i \in 1 .. Len(t) : u[i].key = t[i].key
  PROVE  OneEach(u) /\ ByCalls(Seen(t), Seen(u)) /\ LostToNewer(t, u)
<1>1. /\ Len(Seen(t)) = Len(t)
      /\ \A i \in 1 .. Len(t) :
           Seen(t)[i] = [key |-> t[i].key, value |-> t[i]]
  BY SeenAt
<1>2. /\ Len(Seen(u)) = Len(t)
      /\ \A i \in 1 .. Len(t) :
           Seen(u)[i] = [key |-> u[i].key, value |-> u[i]]
  <2>1. /\ Len(Seen(u)) = Len(u)
        /\ \A i \in 1 .. Len(u) :
             Seen(u)[i] = [key |-> u[i].key, value |-> u[i]]
    BY SeenAt
  <2> QED BY <2>1
<1>3. Ages(Seen(t), Seen(u))
  <2>1. ASSUME NEW i \in 1 .. Len(t)
        PROVE  Seen(u)[i].key = Seen(t)[i].key
    <3>1. Seen(t)[i] = [key |-> t[i].key, value |-> t[i]]
      BY <1>1
    <3>2. Seen(u)[i] = [key |-> u[i].key, value |-> u[i]]
      BY <1>2
    <3> QED BY <3>1, <3>2
  <2> QED BY <1>1, <1>2, <2>1 DEF Ages
<1>4. OneEach(u)
  BY DEF OneEach
<1>5. \A k : At(u, k) = At(t, k)
  BY DEF At
<1> QED BY <1>3, <1>4, <1>5 DEF ByCalls, LostToNewer

(* No index node's table changes.                                          *)
LEMMA NoTable ==
  ASSUME IInv, KeysOnce, UNCHANGED table
  PROVE  KeysOnce' /\ TablesByCalls /\ LastIsLost
<1>1. ASSUME NEW x \in ServiceNode
      PROVE  /\ OneEach(table'[x])
             /\ ByCalls(Seen(table[x]), Seen(table'[x]))
             /\ LostToNewer(table[x], table'[x])
  <2>1. table[x] \in Seq(TrueEntry) /\ OneEach(table[x]) /\ table'[x] = table[x]
    BY DEF IInv, EntriesOK, KeysOnce
  <2> QED BY <2>1, SameTable
<1> QED BY <1>1 DEF KeysOnce, TablesByCalls, LastIsLost

(* One index node's table changes.                                         *)
LEMMA OneTable ==
  ASSUME IInv, KeysOnce, NEW x \in ServiceNode, NEW t,
         table' = [table EXCEPT ![x] = t],
         OneEach(t), ByCalls(Seen(table[x]), Seen(t)), LostToNewer(table[x], t)
  PROVE  KeysOnce' /\ TablesByCalls /\ LastIsLost
<1>1. ASSUME NEW y \in ServiceNode
      PROVE  /\ OneEach(table'[y])
             /\ ByCalls(Seen(table[y]), Seen(table'[y]))
             /\ LostToNewer(table[y], table'[y])
  <2>1. table \in [ServiceNode -> Seq(TrueEntry)]
    BY DEF IInv, EntriesOK
  <2>2. CASE y = x
    <3>1. table'[y] = t
      BY <2>1, <2>2
    <3> QED BY <2>2, <3>1
  <2>3. CASE y # x
    <3>1. table'[y] = table[y]
      BY <2>1, <2>3
    <3>2. table[y] \in Seq(TrueEntry) /\ OneEach(table[y])
      BY <2>1 DEF KeysOnce
    <3> QED BY <3>1, <3>2, SameTable
  <2> QED BY <2>2, <2>3
<1> QED BY <1>1 DEF KeysOnce, TablesByCalls, LastIsLost

(* What is taken from the network is a frame.                              *)
LEMMA TakenFrame ==
  ASSUME IInv, NEW d, NEW out, Exchange(d, out)
  PROVE  d \in Frame
<1>1. d \in Arriving
  BY DEF Exchange, Arriving
<1>2. d \in Truthful(1)
  BY <1>1, ArrivingTruthful DEF IInv
<1> QED BY <1>2 DEF Truthful

(* A POST is entered and written, or written where its key is.             *)
LEMMA TakeCalls ==
  ASSUME IInv, KeysOnce, NEW x \in ServiceNode, NEW d,
         NEW k \in Node \cup Nobody, NEW w, NEW echo, TakePost(x, d, k, w, echo)
  PROVE  KeysOnce' /\ TablesByCalls /\ LastIsLost
<1> DEFINE o == table[x]
           new == NewEntry(k)
           t == IF At(o, k) # {} THEN o ELSE Store(o, new)
           e == EntryOf(t, k)
           posted == [e EXCEPT !.last_post = 0]
           listed == [posted EXCEPT !.list = Fifo(@, d.from),
                                    !.wan6 = IF w = NoPlace THEN @ ELSE w]
<1>1. o \in Seq(TrueEntry) /\ OneEach(o)
  BY DEF IInv, EntriesOK, KeysOnce
<1>2. new \in TrueEntry /\ new.key = k
  BY NewEntryTrue
<1>3. PICK f \in {posted, listed} :
        table' = [table EXCEPT ![x] = Replace(t, f)]
  BY DEF TakePost
<1>4. t \in Seq(TrueEntry) /\ OneEach(t) /\ At(t, k) # {}
  <2>1. CASE At(o, k) # {}
    BY <1>1, <2>1
  <2>2. CASE At(o, k) = {}
    <3>1. Store(o, new) \in Seq(TrueEntry) /\ At(Store(o, new), k) # {}
      BY <1>1, <1>2, StoreType
    <3>2. OneEach(Store(o, new))
      BY <1>1, <1>2, <2>2, StoreSeen
    <3> QED BY <2>2, <3>1, <3>2
  <2> QED BY <2>1, <2>2
<1> HIDE DEF t
<1>5. e \in Entry /\ e.key = k
  BY <1>4, LookUp DEF TrueEntry
<1> HIDE DEF e
<1>6. posted.key = k /\ listed.key = k
  BY <1>5 DEF Entry
<1>7. f.key = k
  BY <1>3, <1>6
<1> HIDE DEF posted, listed
<1> DEFINE S == TrueEntry \cup {f}
<1>8. t \in Seq(S) /\ f \in S
  BY <1>4, SeqMonotonic
<1>9. /\ Seen(Replace(t, f)) = Cache!Written(Seen(t), k, f)
       /\ OneEach(Replace(t, f)) /\ Len(Replace(t, f)) = Len(t)
       /\ \A i \in 1 .. Len(t) : Replace(t, f)[i].key = t[i].key
  BY <1>4, <1>7, <1>8, ReplaceSeen
<1>10. ByCalls(Seen(o), Seen(Replace(t, f)))
  <2>1. CASE At(o, k) # {}
    <3>1. Cache!Has(Seen(o), k)
      BY <1>1, <2>1, SeenKey
    <3>2. t = o
      BY <2>1 DEF t
    <3>3. KnownPosts(Seen(o), Seen(Replace(t, f)))
      BY <1>9, <3>1, <3>2 DEF KnownPosts
    <3> QED BY <3>3 DEF ByCalls
  <2>2. CASE At(o, k) = {}
    <3>1. ~ Cache!Has(Seen(o), k)
      BY <1>1, <2>2, SeenKey
    <3>2. Seen(t) = Cache!Stored(Seen(o), k, new)
      BY <1>1, <1>2, <2>2, StoreSeen DEF t
    <3>3. NewPosts(Seen(o), Seen(Replace(t, f)))
      BY <1>9, <3>1, <3>2 DEF NewPosts
    <3> QED BY <3>3 DEF ByCalls
  <2> QED BY <2>1, <2>2
<1>11. LostToNewer(o, t)
  <2>1. CASE At(o, k) # {}
    BY <2>1 DEF t, LostToNewer
  <2>2. CASE At(o, k) = {}
    BY <1>1, <1>2, <2>2, StoreSeen DEF t
  <2> QED BY <2>1, <2>2
<1>12. Len(t) \in Nat /\ Len(t) > 0
  BY <1>4 DEF At
<1>13. LostToNewer(o, Replace(t, f))
  BY <1>9, <1>11, <1>12, LostByKeys
<1> QED BY <1>3, <1>9, <1>10, <1>13, OneTable

(* A POST is one of its sender's key.                                      *)
LEMMA PostCalls ==
  ASSUME IInv, KeysOnce, NEW x \in ServiceNode, NEW d, HandlePost(x, d)
  PROVE  KeysOnce' /\ TablesByCalls /\ LastIsLost
<1>1. TakePost(x, d, d.src, d.wan6, <<Echo(x, d.from, d.src)>>)
  BY DEF HandlePost
<1>2. d.src \in Node
  <2>1. PICK out : Exchange(d, out)
    BY <1>1 DEF TakePost
  <2>2. d \in Frame
    BY <2>1, TakenFrame
  <2> QED BY <2>2 DEF HandlePost, Frame
<1> QED BY <1>1, <1>2, TakeCalls

(* A POST that opens to junk is one of nobody's key.                       *)
LEMMA JunkCalls ==
  ASSUME IInv, KeysOnce, NEW x \in ServiceNode, NEW d, HandleJunk(x, d)
  PROVE  KeysOnce' /\ TablesByCalls /\ LastIsLost
<1>1. PICK k \in Nobody : TakePost(x, d, k, NoPlace, <<>>)
  BY DEF HandleJunk
<1> QED BY <1>1, TakeCalls

(* A REQUEST moves the entries of who asks and of whom it asks for.        *)
LEMMA RequestCalls ==
  ASSUME IInv, KeysOnce, NEW x \in ServiceNode, NEW d, HandleRequest(x, d)
  PROVE  KeysOnce' /\ TablesByCalls /\ LastIsLost
<1> DEFINE o == table[x]
           knows(n) == At(o, n) # {} /\ Recent(EntryOf(o, n))
           moved == MoveToHead(o, d.src)
           l == [EntryOf(o, d.src) EXCEPT !.list = Fifo(@, d.from)]
<1>1. d.src \in Node /\ d.dst \in Node
  <2>1. PICK out : Exchange(d, out)
    BY DEF HandleRequest
  <2>2. d \in Frame
    BY <2>1, TakenFrame
  <2> QED BY <2>2 DEF HandleRequest, Frame
<1>2. o \in Seq(TrueEntry) /\ OneEach(o)
  BY DEF IInv, EntriesOK, KeysOnce
<1>3. CASE ~knows(d.src)
  BY <1>3, NoTable DEF HandleRequest
<1>4. ASSUME knows(d.src)
      PROVE  /\ Cache!Has(Seen(o), d.src)
             /\ Seen(moved) = Cache!Used(Seen(o), d.src)
             /\ OneEach(moved) /\ moved \in Seq(TrueEntry)
             /\ \A m : At(o, m) # {} => At(moved, m) # {}
             /\ LostToNewer(o, moved)
  <2>1. /\ Seen(moved) = Cache!Used(Seen(o), d.src)
        /\ OneEach(moved) /\ moved \in Seq(TrueEntry)
        /\ \A m : At(o, m) # {} => At(moved, m) # {}
    BY <1>2, <1>4, MoveSeen, MoveToHeadType
  <2> QED BY <1>2, <1>4, <2>1, SeenKey DEF LostToNewer
<1>5. CASE knows(d.src) /\ ~knows(d.dst)
  <2>1. table' = [table EXCEPT ![x] = moved]
    BY <1>5 DEF HandleRequest
  <2>2. Refused(Seen(o), Seen(moved))
    BY <1>1, <1>4, <1>5 DEF Refused
  <2> QED BY <1>4, <1>5, <2>1, <2>2, OneTable DEF ByCalls
<1>6. CASE knows(d.src) /\ knows(d.dst)
  <2> DEFINE twice == MoveToHead(moved, d.dst)
             S == TrueEntry \cup {l}
  <2>1. table' = [table EXCEPT ![x] = Replace(twice, l)]
    BY <1>6 DEF HandleRequest
  <2>2. l.key = d.src
    <3>1. EntryOf(o, d.src) \in Entry /\ EntryOf(o, d.src).key = d.src
      BY <1>2, <1>6, LookUp DEF TrueEntry
    <3> QED BY <3>1 DEF Entry
  <2>3. Cache!Has(Seen(o), d.src) /\ Cache!Has(Seen(o), d.dst)
    BY <1>2, <1>6, SeenKey
  <2>4. /\ moved \in Seq(TrueEntry) /\ OneEach(moved)
        /\ \A m : At(o, m) # {} => At(moved, m) # {}
        /\ At(moved, d.src) # {} /\ At(moved, d.dst) # {}
        /\ Seen(moved) = Cache!Used(Seen(o), d.src)
    BY <1>4, <1>6
  <2> HIDE DEF moved, l
  <2>5. /\ Seen(twice) = Cache!Used(Seen(moved), d.dst)
        /\ OneEach(twice)
        /\ twice \in Seq(TrueEntry) /\ At(twice, d.src) # {}
        /\ \A m : At(moved, m) # {} => At(twice, m) # {}
    BY <2>4, MoveSeen, MoveToHeadType
  <2> HIDE DEF twice
  <2>6. twice \in Seq(S) /\ l \in S
    BY <2>5, SeqMonotonic
  <2>7. /\ Seen(Replace(twice, l)) = Cache!Written(Seen(twice), d.src, l)
        /\ OneEach(Replace(twice, l)) /\ Len(Replace(twice, l)) = Len(twice)
        /\ \A i \in 1 .. Len(twice) : Replace(twice, l)[i].key = twice[i].key
    BY <2>2, <2>5, <2>6, ReplaceSeen
  <2>8. Introduces(Seen(o), Seen(Replace(twice, l)))
    BY <1>1, <2>3, <2>4, <2>5, <2>7 DEF Introduces
  <2>9. LostToNewer(o, Replace(twice, l))
    <3>1. LostToNewer(o, twice)
      BY <2>4, <2>5 DEF LostToNewer
    <3>2. Len(twice) \in Nat /\ Len(twice) > 0
      BY <2>5 DEF At
    <3> QED BY <2>7, <3>1, <3>2, LostByKeys
  <2> QED BY <2>1, <2>7, <2>8, <2>9, OneTable DEF ByCalls
<1> QED BY <1>3, <1>5, <1>6

(* A started index node has an empty table.                                *)
LEMMA StartCalls ==
  ASSUME IInv, KeysOnce, NEW x \in ServiceNode, ForgetAll(x)
  PROVE  KeysOnce' /\ TablesByCalls /\ LastIsLost
<1>1. Len(<< >>) = 0 /\ Seen(<< >>) = << >>
  BY DEF Seen
<1>2. OneEach(<< >>)
  BY ServiceAssumption DEF OneEach
<1>3. ByCalls(Seen(table[x]), Seen(<< >>))
  BY <1>1 DEF ByCalls
<1>4. LostToNewer(table[x], << >>)
  BY DEF LostToNewer
<1> QED BY <1>2, <1>3, <1>4, OneTable DEF ForgetAll

(* Time passes.                                                            *)
LEMMA TickCalls ==
  ASSUME IInv, KeysOnce, ServiceTick
  PROVE  KeysOnce' /\ TablesByCalls /\ LastIsLost
<1>1. ASSUME NEW x \in ServiceNode
      PROVE  /\ OneEach(table'[x])
             /\ ByCalls(Seen(table[x]), Seen(table'[x]))
             /\ LostToNewer(table[x], table'[x])
  <2> DEFINE o == table[x]
             T == {Aged(e) : e \in TrueEntry}
             u == [i \in 1 .. Len(o) |-> Aged(o[i])]
  <2>1. o \in Seq(TrueEntry) /\ OneEach(o)
    BY DEF IInv, EntriesOK, KeysOnce
  <2>2. Len(o) \in Nat /\ \A i \in 1 .. Len(o) : o[i] \in TrueEntry
    BY <2>1
  <2>3. table'[x] = u
    BY DEF ServiceTick
  <2>4. \A i \in 1 .. Len(o) : Aged(o[i]).key = o[i].key
    BY DEF Aged
  <2> HIDE DEF o
  <2>5. u \in [1 .. Len(o) -> T]
    BY <2>2
  <2>6. u \in Seq(T) /\ Len(u) = Len(o)
    BY <2>2, <2>5
  <2>7. \A i \in 1 .. Len(o) : u[i].key = o[i].key
    BY <2>4
  <2> HIDE DEF u, T
  <2>8. OneEach(u) /\ ByCalls(Seen(o), Seen(u)) /\ LostToNewer(o, u)
    BY <2>1, <2>6, <2>7, SameTable
  <2> QED BY <2>3, <2>8 DEF o
<1> QED BY <1>1 DEF KeysOnce, TablesByCalls, LastIsLost

(* Every step.                                                             *)
LEMMA StepCalls ==
  ASSUME IInv, KeysOnce, [Next]_vars
  PROVE  KeysOnce' /\ TablesByCalls /\ LastIsLost
<1>1. CASE ServiceStep
  BY <1>1, PostCalls, RequestCalls, JunkCalls DEF ServiceStep
<1>2. CASE WorkerStep \/ Vanish \/ NetworkFault
  BY <1>2, NoTable DEF WorkerStep, Vanish, NetworkFault
<1>3. CASE Tick
  BY <1>3, TickCalls DEF Tick
<1>4. CASE \E n \in Node : Roam(n)
  BY <1>4, NoTable DEF Roam
<1>5. CASE \E n \in Node \cup ServiceNode : Crash(n)
  BY <1>5, NoTable DEF Crash
<1>6. CASE \E n \in Node \cup ServiceNode : Start(n)
  BY <1>6, NoTable, StartCalls DEF Start
<1>7. CASE UNCHANGED vars
  BY <1>7, NoTable DEF vars
<1> QED BY <1>1, <1>2, <1>3, <1>4, <1>5, <1>6, <1>7 DEF Next, Progress, Disturb

(* In the beginning the tables are empty.                                  *)
LEMMA InitKeys == Init => KeysOnce
<1>1. OneEach(<< >>)
  BY ServiceAssumption DEF OneEach
<1> QED BY <1>1 DEF Init, ServiceInit, KeysOnce

(* An index node has no two entries for one key, and no more entries than  *)
(* its table has room for, whichever posts, requests and junk it gets      *)
(* (handle_post_addr_frame, gnb_lru32_fixed_store).                        *)
THEOREM OneEntryEach == Spec => []KeysOnce
<1>1. IInv /\ KeysOnce /\ [Next]_vars => KeysOnce'
  BY StepCalls
<1> QED BY <1>1, InitKeys, Inductive, PTL DEF Spec

(* Between two starts, an index node's table changes only by the calls     *)
(* its handlers make on the LRU table, one after the other (FIXED_STORE,   *)
(* HASH_GET_VALUE and MOVETOHEAD in gnb_index_service_worker.c).           *)
THEOREM TablesAreCaches == Spec => [][TablesByCalls]_vars
<1>1. IInv /\ KeysOnce /\ [Next]_vars => [TablesByCalls]_vars
  BY StepCalls
<1> QED BY <1>1, OneEntryEach, Inductive, PTL DEF Spec

(* What a node has posted is forgotten only when the table is full and the *)
(* entry is its last one, for a key that was not in the table: no post,    *)
(* request or tick of the clock drops the entry of another node.           *)
THEOREM OnlyTheLastIsLost == Spec => [][LastIsLost]_vars
<1>1. IInv /\ KeysOnce /\ [Next]_vars => [LastIsLost]_vars
  BY StepCalls
<1> QED BY <1>1, OneEntryEach, Inductive, PTL DEF Spec
=============================================================================
