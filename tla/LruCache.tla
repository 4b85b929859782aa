------------------------------ MODULE LruCache ------------------------------
(***************************************************************************)
(* What the users of gnb_lru32_t rely on: a table of at most MaxSize       *)
(* entries in the order of their last use, the latest first.  Storing or   *)
(* looking up a key makes it the latest; a new key drives out the one      *)
(* unused for longest.  There is one concession to the implementation: a   *)
(* table of one or two entries keeps its order when one is used.           *)
(***************************************************************************)
EXTENDS Naturals, Sequences

CONSTANTS Key, Value, MaxSize

VARIABLES
  cache,     \* <<[key, value], ...>>
  call       \* the last call

Has(c, k) == \E i \in DOMAIN c : c[i].key = k
PlaceOf(c, k) == CHOOSE i \in DOMAIN c : c[i].key = k
Without(c, i) == SubSeq(c, 1, i - 1) \o SubSeq(c, i + 1, Len(c))

Written(c, k, v) == [c EXCEPT ![PlaceOf(c, k)].value = v]

Used(c, k) ==
  LET i == PlaceOf(c, k)
  IN IF Len(c) <= 2 THEN c ELSE <<c[i]>> \o Without(c, i)

Stored(c, k, v) ==
  IF Has(c, k) THEN Written(Used(c, k), k, v)
  ELSE SubSeq(<<[key |-> k, value |-> v]>> \o c, 1,
              IF Len(c) < MaxSize THEN Len(c) + 1 ELSE MaxSize)

Init == cache = << >> /\ call = << >>

Store(k, v) == call' = <<"store", k, v>> /\ cache' = Stored(cache, k, v)

Use(k) ==
  /\ call' = <<"use", k>>
  /\ cache' = IF Has(cache, k) THEN Used(cache, k) ELSE cache

Write(k, v) ==
  /\ call' = <<"write", k, v>>
  /\ cache' = IF Has(cache, k) THEN Written(cache, k, v) ELSE cache

Drop(k) ==
  /\ call' = <<"drop", k>>
  /\ cache' = IF Has(cache, k) THEN Without(cache, PlaceOf(cache, k)) ELSE cache

DropFirst == call' = <<"drop_first">> /\ cache' = Without(cache, 1)
DropLast == call' = <<"drop_last">> /\ cache' = Without(cache, Len(cache))

Next ==
  \/ \E k \in Key, v \in Value : Store(k, v) \/ Write(k, v)
  \/ \E k \in Key : Use(k) \/ Drop(k)
  \/ DropFirst
  \/ DropLast

Spec == Init /\ [][Next]_<<cache, call>>
=============================================================================
