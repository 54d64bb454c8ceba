------------------------- MODULE TargetVerification -------------------------
(***************************************************************************)
(* Ownership of one scan target, proved by a DNS TXT challenge             *)
(* (domain/verification.py) through two endpoints of api/v1/targets.py:    *)
(* "issue" starts or rotates a challenge, "check" looks its token up.      *)
(*                                                                         *)
(* Each request is one READ COMMITTED transaction.  It loads the target    *)
(* row without a lock, then selects the live challenge FOR UPDATE and so   *)
(* waits for whoever holds that row.  At commit the ORM writes only the    *)
(* columns of the target it believes to have changed since it loaded them: *)
(* what it loaded before the wait (loaded) decides what is written.        *)
(*                                                                         *)
(* A challenge is a number in order of issue; its token is that number.    *)
(* The hostname of a target never changes (no endpoint edits base_url), so *)
(* the domain mismatch branches of check and gate are out of reach and     *)
(* only the presence of verified_domain is kept.                           *)
(***************************************************************************)
EXTENDS Integers

CONSTANTS
  Requests,       \* concurrent calls of the two endpoints
  MaxChallenges,  \* bound: challenges issued
  Horizon,        \* bound: last instant of the clock
  Cooldown,       \* domain_verification_check_cooldown_seconds
  ChallengeTtl,   \* domain_verification_challenge_ttl_hours
  MaxAge,         \* domain_verification_max_age_days
  Null

Ids == 1..MaxChallenges

ASSUME TimesAssumption ==
  /\ MaxChallenges \in Nat /\ Horizon \in Nat /\ Cooldown \in Nat
  /\ ChallengeTtl \in Nat /\ MaxAge \in Nat
ASSUME NullAssumption == Null \notin Int

VARIABLES
  clock,       \* the time of the API's host
  dns,         \* the tokens published at _orchestrasec.<hostname>
  challenges,  \* the committed rows of domain_verification_challenges
  target,      \* the committed verification columns of the row of scan_targets
  req,         \* the requests in flight
  proof        \* history: when the token of a challenge was last seen in DNS

vars == <<clock, dns, challenges, target, req, proof>>

-----------------------------------------------------------------------------
(* Rows *)

Instants == Nat \cup {Null}

ChallengeRow == [status : {"none", "pending", "verified", "expired", "superseded"},
                 expires : Instants, checked : Instants]
TargetRow == [status : {"unverified", "pending", "verified"},
              domain : BOOLEAN, at : Instants, expires : Instants]
Request == [op : {"issue", "check"}, pc : {"idle", "loaded", "waiting", "ready", "answered"},
            now : Nat, loaded : TargetRow, id : Ids \cup {Null},
            reply : {"none", "match", "missing", "error"}]

Unissued == [status |-> "none", expires |-> Null, checked |-> Null]
Cleared(status) == [status |-> status, domain |-> FALSE, at |-> Null, expires |-> Null]
BoundVariant(now) ==           \* the age is taken off, not added
  [status |-> "verified", domain |-> TRUE, at |-> now, expires |-> now - MaxAge]
Bound(now) == [status |-> "verified", domain |-> TRUE, at |-> now, expires |-> now + MaxAge]
Idle == [op |-> "check", pc |-> "idle", now |-> 0, loaded |-> Cleared("unverified"),
         id |-> Null, reply |-> "none"]

LiveRow(rows, i) == rows[i].status \in {"pending", "verified"}

\* The two constraints the database checks when a transaction writes.
LiveIndexVariant(rows) ==      \* the index covers verified challenges only
  \A i, j \in Ids : rows[i].status = "verified" /\ rows[j].status = "verified" => i = j
LiveIndex(rows) == \A i, j \in Ids : LiveRow(rows, i) /\ LiveRow(rows, j) => i = j
VerifiedBinding(row) ==
  row.status = "verified" => row.domain /\ row.at # Null /\ row.expires # Null

\* What the ORM leaves in the row when a request that loaded "old" assigns "new".
Merge(old, new) ==
  [status  |-> IF new.status # old.status THEN new.status ELSE target.status,
   domain  |-> IF new.domain # old.domain THEN new.domain ELSE target.domain,
   at      |-> IF new.at # old.at THEN new.at ELSE target.at,
   expires |-> IF new.expires # old.expires THEN new.expires ELSE target.expires]

\* authorize_target_for_scan, at an instant.
Scannable(row, now) ==
  /\ row.status = "verified" /\ row.domain /\ row.at # Null
  /\ row.expires # Null /\ row.expires > now

-----------------------------------------------------------------------------
(* Requests *)

Locked(i) == \E q \in Requests : req[q].pc \in {"ready", "answered"} /\ req[q].id = i
At(r, op, pc) == req[r].op = op /\ req[r].pc = pc

Ends(r) == req' = [req EXCEPT ![r] = Idle]

\* The request commits "rows" and its assignment "new" to the target.
Commit(r, rows, new) ==
  /\ LiveIndex(rows) /\ VerifiedBinding(Merge(req[r].loaded, new))
  /\ challenges' = rows
  /\ target' = Merge(req[r].loaded, new)
  /\ Ends(r)
  /\ UNCHANGED <<clock, dns, proof>>

\* The endpoint loads the target and reads the clock.
Load(r, op) ==
  /\ req[r].pc = "idle"
  /\ req' = [req EXCEPT ![r] = [Idle EXCEPT !.op = op, !.pc = "loaded",
                                            !.now = clock, !.loaded = target]]
  /\ UNCHANGED <<clock, dns, challenges, target, proof>>

\* current_challenge(for_update=True): the statement sees the live row of its start.
Select(r) ==
  /\ req[r].pc = "loaded"
  /\ \/ \E i \in Ids :
          /\ LiveRow(challenges, i)
          /\ req' = [req EXCEPT ![r].pc = "waiting", ![r].id = i]
     \/ /\ \A i \in Ids : ~LiveRow(challenges, i)
        /\ req' = [req EXCEPT ![r].pc = "ready"]
  /\ UNCHANGED <<clock, dns, challenges, target, proof>>

\* It takes the row lock and reads the row again; a row no longer live is skipped.
AcquireVariant(r) ==           \* the row is not read again after the wait
  /\ req[r].pc = "waiting" /\ ~Locked(req[r].id)
  /\ req' = [req EXCEPT ![r].pc = "ready"]
  /\ UNCHANGED <<clock, dns, challenges, target, proof>>
Acquire(r) ==
  /\ req[r].pc = "waiting" /\ ~Locked(req[r].id)
  /\ req' = [req EXCEPT ![r].pc = "ready",
                        ![r].id = IF LiveRow(challenges, @) THEN @ ELSE Null]
  /\ UNCHANGED <<clock, dns, challenges, target, proof>>

\* The request fails or its client goes away: the transaction rolls back.
Abort(r) ==
  /\ req[r].pc # "idle"
  /\ Ends(r)
  /\ UNCHANGED <<clock, dns, challenges, target, proof>>

-----------------------------------------------------------------------------
(* issue_challenge *)

Superseded(i) ==
  IF i = Null THEN challenges ELSE [challenges EXCEPT ![i].status = "superseded"]

IssueChallenge(r) ==
  /\ At(r, "issue", "ready")
  /\ \E n \in Ids :
       /\ \A i \in Ids : (challenges[i].status = "none") <=> (i >= n)
       /\ Commit(r,
                 [Superseded(req[r].id) EXCEPT
                    ![n] = [status |-> "pending", expires |-> req[r].now + ChallengeTtl,
                            checked |-> Null]],
                 Cleared("pending"))

-----------------------------------------------------------------------------
(* check_challenge *)

Overdue(row, now) == row.status = "pending" /\ row.expires <= now
CoolingVariant(row, now) ==    \* a check that began before the last one is let through
  row.checked # Null /\ row.checked <= now /\ now - row.checked < Cooldown
Cooling(row, now) == row.checked # Null /\ now - row.checked < Cooldown
MatchesVariant(i) == dns # {}  \* the prefix is compared, not the token
Matches(i) == i \in dns

\* No live challenge: the endpoint raises 409.
CheckNothing(r) ==
  /\ At(r, "check", "ready") /\ req[r].id = Null
  /\ Ends(r)
  /\ UNCHANGED <<clock, dns, challenges, target, proof>>

\* Checked too recently: the endpoint raises 429.
CheckLimited(r) ==
  /\ At(r, "check", "ready") /\ req[r].id # Null
  /\ ~Overdue(challenges[req[r].id], req[r].now)
  /\ Cooling(challenges[req[r].id], req[r].now)
  /\ Ends(r)
  /\ UNCHANGED <<clock, dns, challenges, target, proof>>

CheckExpired(r) ==
  /\ At(r, "check", "ready") /\ req[r].id # Null
  /\ Overdue(challenges[req[r].id], req[r].now)
  /\ Commit(r, [challenges EXCEPT ![req[r].id].status = "expired"], Cleared("unverified"))

\* The TXT lookup; the row stays locked while it lasts.
Lookup(r) ==
  /\ At(r, "check", "ready") /\ req[r].id # Null
  /\ ~Overdue(challenges[req[r].id], req[r].now)
  /\ ~Cooling(challenges[req[r].id], req[r].now)
  /\ \E reply \in {"error", IF Matches(req[r].id) THEN "match" ELSE "missing"} :
       req' = [req EXCEPT ![r].pc = "answered", ![r].reply = reply]
  /\ proof' = IF req[r].id \in dns THEN [proof EXCEPT ![req[r].id] = clock] ELSE proof
  /\ UNCHANGED <<clock, dns, challenges, target>>

\* A DNS error is recorded; so is a token missing from a challenge still pending.
RecordOnly(r) ==
  /\ At(r, "check", "answered")
  /\ \/ req[r].reply = "error"
     \/ req[r].reply = "missing" /\ challenges[req[r].id].status # "verified"
  /\ Commit(r, [challenges EXCEPT ![req[r].id].checked = req[r].now], req[r].loaded)

RecordVerified(r) ==
  /\ At(r, "check", "answered") /\ req[r].reply = "match"
  /\ Commit(r, [challenges EXCEPT ![req[r].id].checked = req[r].now,
                                  ![req[r].id].status = "verified"],
            Bound(req[r].now))

\* The proof was removed from DNS: revoke and open a fresh window to restore it.
RecordRemovedVariant(r) ==     \* the target is revoked, its challenge is left verified
  /\ At(r, "check", "answered") /\ req[r].reply = "missing"
  /\ challenges[req[r].id].status = "verified"
  /\ Commit(r, [challenges EXCEPT ![req[r].id].checked = req[r].now], Cleared("pending"))
RecordRemoved(r) ==
  /\ At(r, "check", "answered") /\ req[r].reply = "missing"
  /\ challenges[req[r].id].status = "verified"
  /\ Commit(r, [challenges EXCEPT ![req[r].id] =
                  [status |-> "pending", checked |-> req[r].now,
                   expires |-> req[r].now + ChallengeTtl]],
            Cleared("pending"))

-----------------------------------------------------------------------------
(* The operator's zone and time *)

Publish(i) ==
  /\ challenges[i].status # "none" /\ i \notin dns
  /\ dns' = dns \cup {i}
  /\ UNCHANGED <<clock, challenges, target, req, proof>>

Unpublish(i) ==
  /\ i \in dns
  /\ dns' = dns \ {i}
  /\ UNCHANGED <<clock, challenges, target, req, proof>>

Tick ==
  /\ clock < Horizon
  /\ clock' = clock + 1
  /\ UNCHANGED <<dns, challenges, target, req, proof>>

-----------------------------------------------------------------------------
Init ==
  /\ clock = 0
  /\ dns = {}
  /\ challenges = [i \in Ids |-> Unissued]
  /\ target = Cleared("unverified")
  /\ req = [r \in Requests |-> Idle]
  /\ proof = [i \in Ids |-> Null]

Next ==
  \/ \E r \in Requests :
       \/ \E op \in {"issue", "check"} : Load(r, op)
       \/ Select(r) \/ Acquire(r) \/ Abort(r)
       \/ IssueChallenge(r)
       \/ CheckNothing(r) \/ CheckLimited(r) \/ CheckExpired(r) \/ Lookup(r)
       \/ RecordOnly(r) \/ RecordVerified(r) \/ RecordRemoved(r)
  \/ \E i \in Ids : Publish(i) \/ Unpublish(i)
  \/ Tick

Spec == Init /\ [][Next]_vars

-----------------------------------------------------------------------------
(* Properties *)

\* Every variable keeps its type: no instant is negative or of another kind.
TypeOK ==
  /\ clock \in Nat
  /\ dns \subseteq Ids
  /\ challenges \in [Ids -> ChallengeRow]
  /\ target \in TargetRow
  /\ req \in [Requests -> Request]
  /\ proof \in [Ids -> Instants]

\* The gate opens only for a target whose token, of some challenge issued for it,
\* was seen in DNS less than MaxAge ago: whatever requests overlap and whatever
\* columns they write over each other, no binding appears or outlives its proof.
ScannableProven ==
  Scannable(target, clock) => \E i \in Ids : proof[i] # Null /\ clock < proof[i] + MaxAge

\* Two rotations that overlap, or a rotation and a check, never leave two live
\* challenges: a target has one token that can verify it.
OneLiveChallenge ==
  \A i, j \in Ids : LiveRow(challenges, i) /\ LiveRow(challenges, j) => i = j

\* A superseded or expired challenge stays so: a check that was waiting for its row,
\* or whose lookup was under way, never revives a token that rotation has revoked.
RevokedTokenStaysRevoked ==
  [][\A i \in Ids : challenges[i].status \in {"superseded", "expired"}
                      => challenges'[i].status = challenges[i].status]_vars

\* The checks recorded for a challenge are at least the cooldown apart and in order,
\* even when they overlap and each took its time before it waited for the row.
ChecksSpaced ==
  [][\A i \in Ids :
       challenges[i].checked # Null /\ challenges'[i].checked # challenges[i].checked
         => challenges'[i].checked >= challenges[i].checked + Cooldown]_vars

\* A target loses its verification only together with its challenge: not by a DNS
\* error, a refused check or a rollback, and never while a challenge stays verified.
RevokedTogether ==
  [][target.status = "verified" /\ target'.status # "verified"
       => \A i \in Ids : challenges'[i].status # "verified"]_vars

\* Seen from the committed rows, requests that overlap, wait for each other and write what
\* they loaded before change one challenge at a time, each as if it had run alone.
Ledger == INSTANCE ChallengeLedger
            WITH status <- [i \in Ids |-> challenges[i].status],
                 verified <- target.status = "verified"
ImplementsLedger == Ledger!Spec
=============================================================================
