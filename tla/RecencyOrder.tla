---------------------------- MODULE RecencyOrder ----------------------------
(****************************************************************************)
(* The recency list of `clru::CLruCache`, the LRU map under both secret     *)
(* caches (src/src/lease_aware_cache.rs, src/src/bounded_ttl_cache.rs).     *)
(*                                                                          *)
(* The list is kept as the strict order it defines: `older` is a set of     *)
(* pairs, and <<a, b>> \in older says that a is nearer the back (the LRU    *)
(* end) than b.  `put` and `get_mut` move a key to the front, `pop` unlinks *)
(* it, `peek` and `iter` leave the list alone.                              *)
(****************************************************************************)

\* `pop(&key)`: unlink k, the other entries keep their places.
Unlink(older, k) == { p \in older : p[1] # k /\ p[2] # k }

\* `put(key, ..)` of an absent key, or `get_mut(&key)` of a present one:
\* k becomes the most recently used of the keys in `resident`.
Promote(older, resident, k) ==
    Unlink(older, k) \union { <<j, k>> : j \in resident \ {k} }

\* Walking `iter().rev()` (LRU to MRU) over S, k is reached before the others.
IsOldest(older, S, k) == k \in S /\ \A j \in S \ {k} : <<k, j>> \in older

\* `older` lists exactly the keys of `resident`, each in one place.
IsRecencyOrder(older, resident) ==
    /\ older \subseteq resident \X resident
    /\ \A a, b \in resident : a # b => (<<a, b>> \in older \/ <<b, a>> \in older)
    /\ \A a, b \in resident : <<a, b>> \in older => <<b, a>> \notin older
=============================================================================
