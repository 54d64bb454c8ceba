-------------------------- MODULE ChallengeLedger --------------------------
(***************************************************************************)
(* What the verification of a target promises, without requests, locks,    *)
(* waits, clocks or DNS: its challenges are a ledger whose entries change  *)
(* one at a time.  Whether the target counts as verified may lag behind,   *)
(* for a request writes what it loaded, but only an entry of the ledger    *)
(* moves it.  TargetVerification is shown to implement it.                 *)
(***************************************************************************)
EXTENDS Naturals

CONSTANT MaxChallenges  \* bound: challenges issued

VARIABLES
  status,   \* of each challenge, in order of issue
  verified  \* whether the target is marked verified

vars == <<status, verified>>

Ids == 1..MaxChallenges
Live(i) == status[i] \in {"pending", "verified"}

Init == status = [i \in Ids |-> "none"] /\ verified = FALSE

Moves(i, s) == status' = [status EXCEPT ![i] = s]
MayRevoke == verified' \in {verified, FALSE}
MayBind == verified' \in {verified, TRUE}

\* The next challenge is issued, and every live one is superseded with it.
Rotate(n) ==
  /\ \A i \in Ids : (status[i] = "none") <=> (i >= n)
  /\ status' = [i \in Ids |-> IF i = n THEN "pending"
                              ELSE IF Live(i) THEN "superseded" ELSE status[i]]
  /\ MayRevoke

\* The token of a live challenge was found, at its first check or a later one.
Verify(i) == Live(i) /\ Moves(i, "verified") /\ MayBind
\* It was not found in time.
Expire(i) == status[i] = "pending" /\ Moves(i, "expired") /\ MayRevoke
\* It was removed: the challenge can be met again.
Reopen(i) == status[i] = "verified" /\ Moves(i, "pending") /\ MayRevoke

Next == \E i \in Ids : Rotate(i) \/ Verify(i) \/ Expire(i) \/ Reopen(i)

Spec == Init /\ [][Next]_vars
=============================================================================
