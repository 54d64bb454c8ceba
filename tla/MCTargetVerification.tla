------------------------ MODULE MCTargetVerification ------------------------
(* TargetVerification on small instances, and what the documents promise of it. *)
EXTENDS TargetVerification, TLC

Symmetry == Permutations(Requests)

\* docs/scan-lifecycle.md:50: "Rotation supersedes the live challenge and revokes
\* verification until re-checked": no target is verified when a new challenge appears.
RotationRevokes ==
  [][\A i \in Ids : challenges[i].status = "none" /\ challenges'[i].status = "pending"
                      => target'.status # "verified"]_vars
=============================================================================
