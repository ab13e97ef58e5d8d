---------------------------- MODULE UnorderedMap ----------------------------
(***************************************************************************)
(* std::unordered_map as the proxy uses it: a function whose domain is the  *)
(* set of keys present.                                                     *)
(***************************************************************************)
EXTENDS Functions

EmptyMap == [k \in {} |-> k]

(* map[k] = v *)
Assign(map, k, v) ==
    [x \in DOMAIN map \cup {k} |-> IF x = k THEN v ELSE map[x]]

(* Mutant: operator[] instead of emplace.                                  *)
EmplaceOverwrites(map, k, v) == Assign(map, k, v)

(* map.emplace(k, v): nothing happens when the key is present.              *)
Emplace(map, k, v) == IF k \in DOMAIN map THEN map ELSE Assign(map, k, v)

(* Mutant: the erase is missing.                                           *)
WithoutForgotten(map, K) == map

(* The entries that remain once the keys in K are erased.                   *)
Without(map, K) == Restrict(map, DOMAIN map \ K)
=============================================================================
