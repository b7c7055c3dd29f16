--------------------------------- MODULE Maps ---------------------------------
(* std::unordered_map: a function whose domain grows and shrinks. *)

EmptyMap == [k \in {} |-> {}]

Put(m, k, v) == [x \in DOMAIN m \cup {k} |-> IF x = k THEN v ELSE m[x]]

(* insert leaves a key that is there alone. *)
Insert(m, k, v) == IF k \in DOMAIN m THEN m ELSE Put(m, k, v)

Erase(m, k) == [x \in DOMAIN m \ {k} |-> m[x]]

IsMap(m, K, V) == DOMAIN m \subseteq K /\ m \in [DOMAIN m -> V]
=============================================================================
