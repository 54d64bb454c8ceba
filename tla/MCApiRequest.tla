---------------------------- MODULE MCApiRequest ----------------------------
(* Two creations and two report requests with one token, of which three come. *)
EXTENDS ApiRequest, TLC

CONSTANTS c1, c2, v1, v2, k1

MCTokenOf == [v \in {v1, v2} |-> k1]
Symmetry == Permutations({c1, c2}) \cup Permutations({v1, v2})
=============================================================================
