------------------------------- MODULE Hash32 -------------------------------
(***************************************************************************)
(* gnb_hash32.c: a hash table as an array of buckets, each a chain of keys *)
(* with their values.  A bucket's kv_chain and nex are a sequence here,    *)
(* whose length is chain_len.                                              *)
(***************************************************************************)
EXTENDS Naturals, Sequences

CONSTANTS
  NULL,              \* the answer for a key that is not there
  bucket_num,
  murmurhash_hash    \* of every key

Create == [b \in 0 .. bucket_num - 1 |-> << >>]

bucket_idx(key) == murmurhash_hash[key] % bucket_num

Chain(map, key) == map[bucket_idx(key)]

(* The places of the key in its chain; a search stops at the first.        *)
Places(map, key) ==
  {i \in DOMAIN Chain(map, key) : Chain(map, key)[i].key = key}

Place(map, key) ==
  CHOOSE i \in Places(map, key) : \A j \in Places(map, key) : i <= j

Get(map, key) ==
  IF Places(map, key) = {} THEN NULL
  ELSE Chain(map, key)[Place(map, key)].value

Set(map, key, value) ==
  [map EXCEPT ![bucket_idx(key)] =
     IF Places(map, key) = {}
     THEN Append(@, [key |-> key, value |-> value])
     ELSE [@ EXCEPT ![Place(map, key)].value = value]]

Unlinked(chain, i) ==
  SubSeq(chain, 1, i - 1) \o SubSeq(chain, i + 1, Len(chain))

(* Faulty variant: the first of the chain is unlinked, whoever it is.      *)
DelFirst(map, key) ==
  IF Places(map, key) = {} THEN map
  ELSE [map EXCEPT ![bucket_idx(key)] = Unlinked(@, 1)]

Del(map, key) ==
  IF Places(map, key) = {} THEN map
  ELSE [map EXCEPT ![bucket_idx(key)] = Unlinked(@, Place(map, key))]
=============================================================================
