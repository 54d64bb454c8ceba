---------------------- MODULE TargetVerificationProofs ----------------------
(***************************************************************************)
(* Proofs about TargetVerification, for every number of requests and every *)
(* value of the times.  TypeCorrect comes first; IInv adds what a request  *)
(* knows while it holds its row: the row is live, no other request holds   *)
(* it, and what the lookup learned still describes it.                     *)
(***************************************************************************)
EXTENDS TargetVerification, TLAPS

Holds(r) == req[r].pc \in {"ready", "answered"} /\ req[r].id # Null

\* A row is held by one request, and is live while it is held.
LockInv ==
  /\ \A r \in Requests : Holds(r) => LiveRow(challenges, req[r].id)
  /\ \A r, s \in Requests : Holds(r) /\ Holds(s) /\ req[r].id = req[s].id => r = s

\* A request that waits knows its row; one with an answer checks a row it holds, whose
\* last check is far enough back, and a match is a token seen since the request began.
RequestInv ==
  \A r \in Requests :
    /\ req[r].now <= clock
    /\ req[r].pc = "loaded" => req[r].id = Null
    /\ req[r].pc = "waiting" => req[r].id # Null
    /\ req[r].pc = "answered" =>
         /\ req[r].op = "check" /\ req[r].id # Null
         /\ ~Cooling(challenges[req[r].id], req[r].now)
    /\ req[r].pc = "answered" /\ req[r].reply = "match" =>
         /\ proof[req[r].id] # Null
         /\ req[r].now <= proof[req[r].id]

\* No proof is of the future, and no expiry outlives some proof by more than MaxAge.
ProofInv ==
  /\ \A i \in Ids : proof[i] # Null => proof[i] <= clock
  /\ target.expires # Null =>
       \E i \in Ids : proof[i] # Null /\ target.expires <= proof[i] + MaxAge

\* A challenge not issued yet was never checked.
UnissuedInv == \A i \in Ids : challenges[i].status = "none" => challenges[i].checked = Null

\* The inductive invariant.
IInv == TypeOK /\ LockInv /\ RequestInv /\ ProofInv /\ UnissuedInv /\ OneLiveChallenge

-----------------------------------------------------------------------------
(* Types *)

\* The constants a request begins and ends with have their types.
LEMMA ConstantsType ==
  /\ Null \notin Nat /\ Null \notin Ids
  /\ Idle \in Request /\ Unissued \in ChallengeRow
  /\ \A s \in {"unverified", "pending", "verified"} : Cleared(s) \in TargetRow
  /\ \A now \in Nat : Bound(now) \in TargetRow
BY NullAssumption, TimesAssumption
   DEF Idle, Request, Unissued, ChallengeRow, Cleared, TargetRow, Bound, Instants, Ids

\* What the ORM leaves in the row is a row.
LEMMA MergeType ==
  ASSUME target \in TargetRow, NEW old \in TargetRow, NEW new \in TargetRow
  PROVE  Merge(old, new) \in TargetRow
BY DEF Merge, TargetRow

\* The rows a successful check of k commits.
VerifiedRows(k, now) == [challenges EXCEPT ![k].checked = now, ![k].status = "verified"]

\* They are rows, and differ from those before in the row of k only.
LEMMA VerifiedRowsType ==
  ASSUME challenges \in [Ids -> ChallengeRow], NEW k, NEW now \in Nat
  PROVE  /\ VerifiedRows(k, now) \in [Ids -> ChallengeRow]
         /\ \A i \in Ids : i # k => VerifiedRows(k, now)[i] = challenges[i]
         /\ \A i \in Ids : i = k => VerifiedRows(k, now)[i].status = "verified"
BY DEF VerifiedRows, ChallengeRow, Instants

\* A commit of well-typed rows keeps the types.
LEMMA CommitType ==
  ASSUME TypeOK, NEW r \in Requests, NEW rows \in [Ids -> ChallengeRow],
         NEW new \in TargetRow, Commit(r, rows, new)
  PROVE  TypeOK'
<1>1. req[r].loaded \in TargetRow
  BY DEF TypeOK, Request
<1>2. target' \in TargetRow
  BY <1>1, MergeType DEF TypeOK, Commit
<1>3. req' \in [Requests -> Request]
  BY ConstantsType DEF TypeOK, Commit, Ends
<1>. QED
  BY <1>2, <1>3 DEF TypeOK, Commit

\* Every step keeps the types.
LEMMA NextType == TypeOK /\ [Next]_vars => TypeOK'
<1>. SUFFICES ASSUME TypeOK, [Next]_vars PROVE TypeOK'
  OBVIOUS
<1>. USE ConstantsType
<1>1. ASSUME NEW r \in Requests, NEW op \in {"issue", "check"}, Load(r, op) PROVE TypeOK'
  <2>1. [Idle EXCEPT !.op = op, !.pc = "loaded", !.now = clock, !.loaded = target] \in Request
    BY DEF Idle, Request, TypeOK
  <2>. QED BY <1>1, <2>1 DEF Load, TypeOK
<1>2. ASSUME NEW r \in Requests, Select(r) PROVE TypeOK'
  <2>1. req[r] \in Request
    BY DEF TypeOK
  <2>2. req' \in [Requests -> Request]
    BY <1>2, <2>1 DEF Select, TypeOK, Request
  <2>. QED BY <1>2, <2>2 DEF Select, TypeOK
<1>3. ASSUME NEW r \in Requests, Acquire(r) PROVE TypeOK'
  <2>1. req[r] \in Request
    BY DEF TypeOK
  <2>2. req' \in [Requests -> Request]
    BY <1>3, <2>1 DEF Acquire, TypeOK, Request
  <2>. QED BY <1>3, <2>2 DEF Acquire, TypeOK
<1>4. ASSUME NEW r \in Requests, Abort(r) \/ CheckNothing(r) \/ CheckLimited(r)
      PROVE  TypeOK'
  <2>1. req' \in [Requests -> Request]
    BY <1>4 DEF Abort, CheckNothing, CheckLimited, Ends, TypeOK
  <2>. QED BY <1>4, <2>1 DEF Abort, CheckNothing, CheckLimited, TypeOK
<1>5. ASSUME NEW r \in Requests, IssueChallenge(r) PROVE TypeOK'
  <2>1. PICK n \in Ids :
          Commit(r, [Superseded(req[r].id) EXCEPT
                       ![n] = [status |-> "pending", expires |-> req[r].now + ChallengeTtl,
                               checked |-> Null]],
                 Cleared("pending"))
    BY <1>5 DEF IssueChallenge
  <2>. DEFINE rows == [Superseded(req[r].id) EXCEPT
                         ![n] = [status |-> "pending", expires |-> req[r].now + ChallengeTtl,
                                 checked |-> Null]]
  <2>2. req[r] \in Request /\ req[r].now + ChallengeTtl \in Nat
    BY TimesAssumption DEF TypeOK, Request
  <2>3. Superseded(req[r].id) \in [Ids -> ChallengeRow]
    BY DEF Superseded, TypeOK, ChallengeRow
  <2>4. rows \in [Ids -> ChallengeRow]
    BY <2>2, <2>3 DEF ChallengeRow, Instants
  <2>5. Cleared("pending") \in TargetRow /\ Commit(r, rows, Cleared("pending"))
    BY <2>1
  <2>. HIDE DEF rows
  <2>. QED BY <2>4, <2>5, CommitType
<1>6. ASSUME NEW r \in Requests, CheckExpired(r) PROVE TypeOK'
  <2>. DEFINE rows == [challenges EXCEPT ![req[r].id].status = "expired"]
  <2>1. rows \in [Ids -> ChallengeRow]
    BY DEF TypeOK, ChallengeRow
  <2>2. Cleared("unverified") \in TargetRow /\ Commit(r, rows, Cleared("unverified"))
    BY <1>6 DEF CheckExpired
  <2>. HIDE DEF rows
  <2>. QED BY <2>1, <2>2, CommitType
<1>7. ASSUME NEW r \in Requests, Lookup(r) PROVE TypeOK'
  <2>1. req[r] \in Request
    BY DEF TypeOK
  <2>2. PICK reply \in {"match", "missing", "error"} :
          req' = [req EXCEPT ![r].pc = "answered", ![r].reply = reply]
    BY <1>7 DEF Lookup
  <2>4. [req[r] EXCEPT !.pc = "answered", !.reply = reply] \in Request
    BY <2>1 DEF Request
  <2>5. req' \in [Requests -> Request]
    BY <2>2, <2>4 DEF TypeOK
  <2>3. proof' \in [Ids -> Instants]
    BY <1>7 DEF Lookup, TypeOK, Instants
  <2>. QED BY <1>7, <2>3, <2>5 DEF Lookup, TypeOK
<1>8. ASSUME NEW r \in Requests, RecordOnly(r) \/ RecordVerified(r) \/ RecordRemoved(r)
      PROVE  TypeOK'
  <2>1. /\ req[r] \in Request
        /\ req[r].now \in Nat /\ req[r].loaded \in TargetRow
        /\ req[r].now + ChallengeTtl \in Nat
    BY TimesAssumption DEF TypeOK, Request
  <2>2. CASE RecordOnly(r)
    <3>. DEFINE rows == [challenges EXCEPT ![req[r].id].checked = req[r].now]
    <3>1. rows \in [Ids -> ChallengeRow]
      BY <2>1 DEF TypeOK, ChallengeRow, Instants
    <3>2. req[r].loaded \in TargetRow /\ Commit(r, rows, req[r].loaded)
      BY <2>1, <2>2 DEF RecordOnly
    <3>. HIDE DEF rows
    <3>. QED BY <3>1, <3>2, CommitType
  <2>3. CASE RecordVerified(r)
    <3>. DEFINE rows == VerifiedRows(req[r].id, req[r].now)
    <3>1. rows \in [Ids -> ChallengeRow]
      BY <2>1, VerifiedRowsType DEF TypeOK
    <3>2. Bound(req[r].now) \in TargetRow /\ Commit(r, rows, Bound(req[r].now))
      BY <2>1, <2>3 DEF RecordVerified, VerifiedRows
    <3>. HIDE DEF rows
    <3>. QED BY <3>1, <3>2, CommitType
  <2>4. CASE RecordRemoved(r)
    <3>. DEFINE rows == [challenges EXCEPT ![req[r].id] =
                          [status |-> "pending", checked |-> req[r].now,
                           expires |-> req[r].now + ChallengeTtl]]
    <3>1. rows \in [Ids -> ChallengeRow]
      BY <2>1 DEF TypeOK, ChallengeRow, Instants
    <3>2. Cleared("pending") \in TargetRow /\ Commit(r, rows, Cleared("pending"))
      BY <2>1, <2>4 DEF RecordRemoved
    <3>. HIDE DEF rows
    <3>. QED BY <3>1, <3>2, CommitType
  <2>. QED BY <1>8, <2>2, <2>3, <2>4
<1>9. ASSUME NEW i \in Ids, Publish(i) \/ Unpublish(i) PROVE TypeOK'
  BY <1>9 DEF Publish, Unpublish, TypeOK
<1>10. ASSUME Tick PROVE TypeOK'
  BY <1>10 DEF Tick, TypeOK
<1>11. ASSUME UNCHANGED vars PROVE TypeOK'
  BY <1>11 DEF vars, TypeOK
<1>. QED
  BY <1>1, <1>2, <1>3, <1>4, <1>5, <1>6, <1>7, <1>8, <1>9, <1>10, <1>11 DEF Next

\* The first state is well typed.
LEMMA InitType == Init => TypeOK
BY ConstantsType DEF Init, TypeOK, Instants

\* Every reachable state is well typed (TypeOK): no endpoint stores a malformed row.
THEOREM TypeCorrect == Spec => []TypeOK
<1>. QED
  BY InitType, NextType, PTL DEF Spec

-----------------------------------------------------------------------------
(* The invariant *)

\* The first state satisfies the invariant: nothing is issued, held or proved.
LEMMA InitInv == Init => IInv
<1>. SUFFICES ASSUME Init PROVE IInv
  OBVIOUS
<1>1. TypeOK
  BY InitType
<1>2. LockInv /\ RequestInv /\ ProofInv /\ UnissuedInv /\ OneLiveChallenge
  BY DEF Init, Idle, Unissued, Cleared, Holds, LockInv, RequestInv, ProofInv,
         UnissuedInv, OneLiveChallenge, LiveRow
<1>. QED BY <1>1, <1>2 DEF IInv

\* A step that moves one request, and neither the rows nor the clock backwards, keeps
\* the invariant when what the request now holds and knows is right.
LEMMA RequestStep ==
  ASSUME IInv, TypeOK', NEW r \in Requests,
         UNCHANGED <<clock, challenges, target, proof>>,
         \A s \in Requests : s # r => req'[s] = req[s],
         Holds(r)' => /\ LiveRow(challenges, req'[r].id)
                      /\ \/ Holds(r) /\ req'[r].id = req[r].id
                         \/ ~Locked(req'[r].id),
         req'[r].now <= clock,
         req'[r].pc = "loaded" => req'[r].id = Null,
         req'[r].pc = "waiting" => req'[r].id # Null,
         req'[r].pc # "answered"
  PROVE  IInv'
<1>1. LockInv'
  <2>1. \A s \in Requests : s # r => (Holds(s)' <=> Holds(s))
    BY DEF Holds
  <2>2. ASSUME NEW s \in Requests, s # r, Holds(s), Holds(r)' PROVE req'[r].id # req[s].id
    BY <2>2 DEF IInv, LockInv, Holds, Locked
  <2>. QED BY <2>1, <2>2 DEF IInv, LockInv, LiveRow
<1>2. RequestInv'
  BY DEF IInv, RequestInv, Cooling
<1>3. ProofInv' /\ UnissuedInv' /\ OneLiveChallenge'
  BY DEF IInv, ProofInv, UnissuedInv, OneLiveChallenge, LiveRow
<1>. QED BY <1>1, <1>2, <1>3 DEF IInv

\* A commit by the holder of a row changes no row another request holds, so it keeps
\* the invariant when the expiry it leaves on the target is proved.
LEMMA CommitInv ==
  ASSUME IInv, TypeOK', NEW r \in Requests, NEW rows \in [Ids -> ChallengeRow],
         NEW new \in TargetRow, Commit(r, rows, new),
         Holds(r) \/ req[r].id = Null,
         \A i \in Ids : i # req[r].id /\ challenges[i].status # "none"
                          => rows[i] = challenges[i],
         \A i \in Ids : rows[i].status = "none" => rows[i] = challenges[i],
         new.expires # Null /\ new.expires # req[r].loaded.expires
           => \E i \in Ids : proof[i] # Null /\ new.expires <= proof[i] + MaxAge
  PROVE  IInv'
<1>1. \A s \in Requests : s # r => req'[s] = req[s]
  BY DEF Commit, Ends, IInv, TypeOK
<1>2. req'[r] = Idle
  BY DEF Commit, Ends, IInv, TypeOK
<1>3. ~Holds(r)' /\ req'[r].now = 0 /\ req'[r].pc = "idle"
  BY <1>2 DEF Holds, Idle
<1>4. ASSUME NEW s \in Requests, s # r, Holds(s)
      PROVE  req[s].id \in Ids /\ rows[req[s].id] = challenges[req[s].id]
  <2>1. req[s].id \in Ids
    BY <1>4 DEF Holds, IInv, TypeOK, Request
  <2>2. req[s].id # req[r].id
    BY <1>4, <2>1 DEF IInv, LockInv, Holds
  <2>3. challenges[req[s].id].status # "none"
    BY <1>4 DEF IInv, LockInv, LiveRow
  <2>. QED BY <2>1, <2>2, <2>3
<1>5. LockInv'
  <2>1. \A s \in Requests : s # r => (Holds(s)' <=> Holds(s))
    BY <1>1 DEF Holds
  <2>. QED BY <1>1, <1>3, <1>4, <2>1 DEF IInv, LockInv, LiveRow, Commit
<1>6. RequestInv'
  <2>1. \A s \in Requests : s # r /\ req[s].pc = "answered" => Holds(s)
    BY DEF IInv, RequestInv, Holds
  <2>. QED BY <1>1, <1>3, <1>4, <2>1 DEF IInv, RequestInv, TypeOK, Cooling, Commit
<1>7. ProofInv'
  BY DEF IInv, ProofInv, Commit, Merge
<1>8. OneLiveChallenge'
  BY DEF Commit, LiveIndex, OneLiveChallenge, LiveRow
<1>9. UnissuedInv'
  BY DEF IInv, UnissuedInv, Commit
<1>. QED BY <1>5, <1>6, <1>7, <1>8, <1>9 DEF IInv

\* Every step keeps the invariant.
LEMMA NextInv == IInv /\ [Next]_vars => IInv'
<1>. SUFFICES ASSUME IInv, [Next]_vars PROVE IInv'
  OBVIOUS
<1>0. TypeOK /\ TypeOK'
  BY NextType DEF IInv
<1>. USE <1>0
<1>1. ASSUME NEW r \in Requests, NEW op \in {"issue", "check"}, Load(r, op) PROVE IInv'
  <2>1. req'[r] = [Idle EXCEPT !.op = op, !.pc = "loaded", !.now = clock, !.loaded = target]
    BY <1>1 DEF Load, TypeOK
  <2>2. req'[r].now = clock /\ req'[r].pc = "loaded" /\ req'[r].id = Null /\ ~Holds(r)'
    BY <2>1 DEF Idle, Holds
  <2>3. \A s \in Requests : s # r => req'[s] = req[s]
    BY <1>1 DEF Load, TypeOK
  <2>. QED BY <1>1, <2>2, <2>3, RequestStep DEF Load, TypeOK
<1>2. ASSUME NEW r \in Requests, Select(r) PROVE IInv'
  <2>1. /\ \A s \in Requests : s # r => req'[s] = req[s]
        /\ req'[r].now = req[r].now
    BY <1>2 DEF Select, TypeOK, Request
  <2>2. \/ req'[r].pc = "waiting" /\ req'[r].id \in Ids
        \/ req'[r].pc = "ready" /\ req'[r].id = req[r].id
    BY <1>2 DEF Select, TypeOK, Request
  <2>3. req[r].pc = "loaded" /\ req[r].now <= clock
    BY <1>2 DEF Select, IInv, RequestInv
  <2>4. req[r].id = Null
    BY <2>3 DEF IInv, RequestInv
  <2>. QED BY <1>2, <2>1, <2>2, <2>3, <2>4, ConstantsType, RequestStep DEF Select, Holds
<1>3. ASSUME NEW r \in Requests, Acquire(r) PROVE IInv'
  <2>1. /\ \A s \in Requests : s # r => req'[s] = req[s]
        /\ req'[r].now = req[r].now /\ req'[r].pc = "ready"
        /\ req'[r].id = IF LiveRow(challenges, req[r].id) THEN req[r].id ELSE Null
    BY <1>3 DEF Acquire, TypeOK, Request
  <2>2. ~Locked(req[r].id) /\ req[r].now <= clock
    BY <1>3 DEF Acquire, IInv, RequestInv
  <2>3. Holds(r)' => LiveRow(challenges, req'[r].id) /\ ~Locked(req'[r].id)
    BY <2>1, <2>2 DEF Holds
  <2>. QED BY <1>3, <2>1, <2>2, <2>3, RequestStep DEF Acquire
<1>4. ASSUME NEW r \in Requests, Abort(r) \/ CheckNothing(r) \/ CheckLimited(r) PROVE IInv'
  <2>1. /\ req' = [req EXCEPT ![r] = Idle]
        /\ UNCHANGED <<clock, challenges, target, proof>>
    BY <1>4 DEF Abort, CheckNothing, CheckLimited, Ends
  <2>2. req'[r].now = 0 /\ req'[r].pc = "idle" /\ ~Holds(r)'
    BY <2>1 DEF Idle, Holds, TypeOK
  <2>3. \A s \in Requests : s # r => req'[s] = req[s]
    BY <2>1 DEF TypeOK
  <2>. QED BY <2>1, <2>2, <2>3, RequestStep DEF TypeOK
<1>5. ASSUME NEW r \in Requests, IssueChallenge(r) PROVE IInv'
  <2>1. PICK n \in Ids :
          /\ \A i \in Ids : (challenges[i].status = "none") <=> (i >= n)
          /\ Commit(r, [Superseded(req[r].id) EXCEPT
                          ![n] = [status |-> "pending", expires |-> req[r].now + ChallengeTtl,
                                  checked |-> Null]],
                    Cleared("pending"))
    BY <1>5 DEF IssueChallenge
  <2>. DEFINE rows == [Superseded(req[r].id) EXCEPT
                         ![n] = [status |-> "pending", expires |-> req[r].now + ChallengeTtl,
                                 checked |-> Null]]
  <2>2. req[r] \in Request /\ req[r].now + ChallengeTtl \in Nat
    BY TimesAssumption DEF TypeOK, Request
  <2>3. /\ Superseded(req[r].id) \in [Ids -> ChallengeRow]
        /\ \A i \in Ids : i # req[r].id => Superseded(req[r].id)[i] = challenges[i]
        /\ \A i \in Ids : Superseded(req[r].id)[i].status = "none"
                            => Superseded(req[r].id)[i] = challenges[i]
    BY DEF Superseded, TypeOK, ChallengeRow
  <2>4. rows \in [Ids -> ChallengeRow]
    BY <2>2, <2>3 DEF ChallengeRow, Instants
  <2>5. challenges[n].status = "none"
    BY <2>1 DEF Ids
  <2>6. \A i \in Ids : i # req[r].id /\ challenges[i].status # "none" => rows[i] = challenges[i]
    BY <2>3, <2>5
  <2>8. \A i \in Ids : rows[i].status = "none" => rows[i] = challenges[i]
    BY <2>3
  <2>7. /\ Cleared("pending") \in TargetRow /\ Cleared("pending").expires = Null
        /\ Commit(r, rows, Cleared("pending"))
        /\ Holds(r) \/ req[r].id = Null
    BY <1>5, <2>1, ConstantsType DEF Cleared, IssueChallenge, At, Holds
  <2>. HIDE DEF rows
  <2>. QED BY <2>4, <2>6, <2>7, <2>8, CommitInv
<1>6. ASSUME NEW r \in Requests, CheckExpired(r) PROVE IInv'
  <2>. DEFINE rows == [challenges EXCEPT ![req[r].id].status = "expired"]
  <2>1. rows \in [Ids -> ChallengeRow]
    BY DEF TypeOK, ChallengeRow
  <2>2. \A i \in Ids : /\ i # req[r].id => rows[i] = challenges[i]
                       /\ rows[i].status = "none" => rows[i] = challenges[i]
    BY DEF TypeOK, ChallengeRow
  <2>3. /\ Cleared("unverified") \in TargetRow /\ Cleared("unverified").expires = Null
        /\ Commit(r, rows, Cleared("unverified"))
        /\ Holds(r)
    BY <1>6, ConstantsType DEF Cleared, CheckExpired, At, Holds
  <2>. HIDE DEF rows
  <2>. QED BY <2>1, <2>2, <2>3, CommitInv
<1>7. ASSUME NEW r \in Requests, Lookup(r) PROVE IInv'
  <2>1. PICK reply \in {"error", IF Matches(req[r].id) THEN "match" ELSE "missing"} :
          req' = [req EXCEPT ![r].pc = "answered", ![r].reply = reply]
    BY <1>7 DEF Lookup
  <2>2. /\ \A s \in Requests : s # r => req'[s] = req[s]
        /\ req'[r].now = req[r].now /\ req'[r].id = req[r].id /\ req'[r].op = req[r].op
        /\ req'[r].pc = "answered" /\ req'[r].reply = reply
    BY <2>1 DEF TypeOK, Request
  <2>3. /\ Holds(r) /\ req[r].op = "check" /\ req[r].id \in Ids
        /\ ~Cooling(challenges[req[r].id], req[r].now)
        /\ UNCHANGED <<clock, challenges, target>>
        /\ proof' = IF req[r].id \in dns THEN [proof EXCEPT ![req[r].id] = clock] ELSE proof
    BY <1>7 DEF Lookup, At, Holds, TypeOK, Request
  <2>4. \A i \in Ids : /\ proof[i] # Null => proof'[i] # Null /\ proof'[i] >= proof[i]
                       /\ proof'[i] # Null => proof'[i] <= clock
    <3>. TAKE i \in Ids
    <3>1. /\ proof \in [Ids -> Instants] /\ clock \in Nat
          /\ proof[i] # Null => proof[i] \in Nat /\ proof[i] <= clock
      BY DEF IInv, ProofInv, TypeOK, Instants
    <3>2. proof'[i] = proof[i] \/ proof'[i] = clock
      BY <2>3, <3>1
    <3>. QED BY <3>1, <3>2, ConstantsType
  <2>5. LockInv'
    BY <2>2, <2>3 DEF IInv, LockInv, Holds, LiveRow
  <2>6. RequestInv'
    <3>1. reply = "match" => proof'[req[r].id] # Null /\ req[r].now <= proof'[req[r].id]
      BY <2>3, ConstantsType DEF Matches, IInv, RequestInv, TypeOK, Instants
    <3>2. req[r].now <= clock /\ req[r].id # Null
      BY <2>3 DEF IInv, RequestInv, Holds
    <3>3. ASSUME NEW s \in Requests, s # r, req[s].pc = "answered", req[s].reply = "match"
          PROVE  proof'[req[s].id] # Null /\ req[s].now <= proof'[req[s].id]
      <4>1. /\ proof[req[s].id] # Null /\ req[s].now <= proof[req[s].id]
            /\ req[s].id \in Ids /\ req[s].now \in Nat
        BY <3>3 DEF IInv, RequestInv, TypeOK, Request
      <4>. QED BY <4>1, <2>4 DEF TypeOK, Instants
    <3>. QED BY <2>2, <2>3, <3>1, <3>2, <3>3 DEF IInv, RequestInv, Cooling
  <2>7. ProofInv'
    BY <2>3, <2>4, TimesAssumption DEF IInv, ProofInv, TypeOK, Instants, TargetRow
  <2>8. UnissuedInv' /\ OneLiveChallenge'
    BY <2>3 DEF IInv, UnissuedInv, OneLiveChallenge, LiveRow
  <2>. QED BY <2>5, <2>6, <2>7, <2>8 DEF IInv
<1>8. ASSUME NEW r \in Requests, RecordOnly(r) \/ RecordVerified(r) \/ RecordRemoved(r)
      PROVE  IInv'
  <2>1. /\ req[r] \in Request
        /\ req[r].now \in Nat /\ req[r].loaded \in TargetRow
        /\ req[r].now + ChallengeTtl \in Nat
    BY TimesAssumption DEF TypeOK, Request
  <2>2. req[r].pc = "answered" /\ req[r].id # Null /\ Holds(r)
    BY <1>8 DEF RecordOnly, RecordVerified, RecordRemoved, At, Holds, IInv, RequestInv
  <2>3. CASE RecordOnly(r)
    <3>. DEFINE rows == [challenges EXCEPT ![req[r].id].checked = req[r].now]
    <3>1. /\ rows \in [Ids -> ChallengeRow]
          /\ \A i \in Ids : i # req[r].id => rows[i] = challenges[i]
      BY <2>1 DEF TypeOK, ChallengeRow, Instants
    <3>2. Commit(r, rows, req[r].loaded)
      BY <2>3 DEF RecordOnly
    <3>3. \A i \in Ids : rows[i].status = "none" => rows[i] = challenges[i]
      BY <2>2 DEF IInv, LockInv, LiveRow, TypeOK, ChallengeRow
    <3>. HIDE DEF rows
    <3>. QED BY <2>1, <2>2, <3>1, <3>2, <3>3, CommitInv
  <2>4. CASE RecordVerified(r)
    <3>. DEFINE rows == VerifiedRows(req[r].id, req[r].now)
    <3>1. /\ rows \in [Ids -> ChallengeRow]
          /\ \A i \in Ids : i # req[r].id => rows[i] = challenges[i]
          /\ \A i \in Ids : rows[i].status = "none" => rows[i] = challenges[i]
      <4>1. /\ rows \in [Ids -> ChallengeRow]
            /\ \A i \in Ids : i # req[r].id => rows[i] = challenges[i]
            /\ \A i \in Ids : i = req[r].id => rows[i].status = "verified"
        BY <2>1, VerifiedRowsType DEF TypeOK
      <4>. HIDE DEF rows
      <4>. QED BY <4>1
    <3>2. Commit(r, rows, Bound(req[r].now)) /\ Bound(req[r].now) \in TargetRow
      BY <2>1, <2>4, ConstantsType DEF RecordVerified, VerifiedRows
    <3>3. /\ req[r].id \in Ids /\ proof[req[r].id] # Null
          /\ Bound(req[r].now).expires <= proof[req[r].id] + MaxAge
      <4>1. req[r].id \in Ids /\ proof[req[r].id] # Null /\ req[r].now <= proof[req[r].id]
        BY <2>1, <2>2, <2>4 DEF RecordVerified, IInv, RequestInv, Request
      <4>2. proof[req[r].id] \in Nat
        BY <4>1 DEF TypeOK, Instants
      <4>. QED BY <2>1, <4>1, <4>2, TimesAssumption DEF Bound
    <3>. HIDE DEF rows
    <3>. QED BY <2>2, <3>1, <3>2, <3>3, CommitInv
  <2>5. CASE RecordRemoved(r)
    <3>. DEFINE rows == [challenges EXCEPT ![req[r].id] =
                          [status |-> "pending", checked |-> req[r].now,
                           expires |-> req[r].now + ChallengeTtl]]
    <3>1. /\ rows \in [Ids -> ChallengeRow]
          /\ \A i \in Ids : i # req[r].id => rows[i] = challenges[i]
          /\ \A i \in Ids : rows[i].status = "none" => rows[i] = challenges[i]
      BY <2>1 DEF TypeOK, ChallengeRow, Instants
    <3>2. /\ Commit(r, rows, Cleared("pending"))
          /\ Cleared("pending") \in TargetRow /\ Cleared("pending").expires = Null
      BY <2>5, ConstantsType DEF RecordRemoved, Cleared
    <3>. HIDE DEF rows
    <3>. QED BY <2>2, <3>1, <3>2, CommitInv
  <2>. QED BY <1>8, <2>3, <2>4, <2>5
<1>9. ASSUME (\E i \in Ids : Publish(i) \/ Unpublish(i)) \/ UNCHANGED vars PROVE IInv'
  <2>1. UNCHANGED <<clock, challenges, target, req, proof>>
    BY <1>9 DEF Publish, Unpublish, vars
  <2>. QED
    BY <2>1 DEF IInv, LockInv, RequestInv, ProofInv, UnissuedInv,
                 OneLiveChallenge, Holds, LiveRow, Cooling
<1>10. ASSUME Tick PROVE IInv'
  <2>1. clock' = clock + 1 /\ UNCHANGED <<challenges, target, req, proof>> /\ clock \in Nat
    BY <1>10 DEF Tick, TypeOK
  <2>2. \A r \in Requests : req[r].now \in Nat
    BY DEF TypeOK, Request
  <2>3. LockInv' /\ UnissuedInv' /\ OneLiveChallenge'
    BY <2>1 DEF IInv, LockInv, UnissuedInv, OneLiveChallenge, Holds, LiveRow
  <2>4. RequestInv'
    BY <2>1, <2>2 DEF IInv, RequestInv, Cooling
  <2>5. ProofInv'
    BY <2>1 DEF IInv, ProofInv, TypeOK, Instants
  <2>. QED BY <2>3, <2>4, <2>5 DEF IInv
<1>. QED
  BY <1>1, <1>2, <1>3, <1>4, <1>5, <1>6, <1>7, <1>8, <1>9, <1>10 DEF Next

\* The invariant holds throughout: a row is held by one request, which never acts on a
\* row that another has revoked or checked meanwhile.
THEOREM Inductive == Spec => []IInv
<1>. QED
  BY InitInv, NextInv, PTL DEF Spec

-----------------------------------------------------------------------------
(* Properties *)

\* The gate never opens without a token seen in DNS less than MaxAge ago, whatever the
\* requests write over each other (ScannableProven).
THEOREM GateNeedsProof == Spec => []ScannableProven
<1>1. IInv => ScannableProven
  BY TimesAssumption DEF IInv, ProofInv, ScannableProven, Scannable, TypeOK, TargetRow, Instants
<1>. QED
  BY <1>1, Inductive, PTL

\* A target never has two live challenges (OneLiveChallenge).
THEOREM LiveIsUnique == Spec => []OneLiveChallenge
<1>1. IInv => OneLiveChallenge
  BY DEF IInv
<1>. QED
  BY <1>1, Inductive, PTL

\* Which rows a step changes: a new one, or the live one its request holds.
LEMMA RowStep ==
  ASSUME IInv, [Next]_vars, NEW i \in Ids, challenges'[i] # challenges[i],
         challenges[i].status # "none"
  PROVE  \E r \in Requests :
           /\ req[r].id = i /\ Holds(r)
           /\ \/ IssueChallenge(r) /\ challenges'[i].checked = challenges[i].checked
              \/ CheckExpired(r) /\ challenges'[i].checked = challenges[i].checked
              \/ RecordOnly(r) \/ RecordVerified(r) \/ RecordRemoved(r)
<1>1. PICK r \in Requests : \/ IssueChallenge(r) \/ CheckExpired(r)
                            \/ RecordOnly(r) \/ RecordVerified(r) \/ RecordRemoved(r)
  BY DEF Next, vars, Load, Select, Acquire, Abort, CheckNothing, CheckLimited, Lookup,
         Publish, Unpublish, Tick
<1>2. challenges \in [Ids -> ChallengeRow]
  BY DEF IInv, TypeOK
<1>3. CASE IssueChallenge(r)
  <2>1. PICK n \in Ids :
          /\ \A k \in Ids : (challenges[k].status = "none") <=> (k >= n)
          /\ challenges' = [Superseded(req[r].id) EXCEPT
                              ![n] = [status |-> "pending", expires |-> req[r].now + ChallengeTtl,
                                      checked |-> Null]]
    BY <1>3 DEF IssueChallenge, Commit
  <2>2. i # n
    BY <2>1 DEF Ids
  <2>3. Superseded(req[r].id) \in [Ids -> ChallengeRow]
    BY <1>2 DEF Superseded, ChallengeRow
  <2>4. challenges'[i] = Superseded(req[r].id)[i]
    BY <2>1, <2>2, <2>3
  <2>5. req[r].id = i /\ challenges'[i].checked = challenges[i].checked
    BY <1>2, <2>4 DEF Superseded, ChallengeRow
  <2>6. req[r].id # Null
    BY <2>5, ConstantsType
  <2>. QED BY <1>3, <2>5, <2>6 DEF IssueChallenge, At, Holds
<1>4. CASE CheckExpired(r)
  BY <1>2, <1>4 DEF CheckExpired, Commit, At, Holds, ChallengeRow
<1>5. CASE RecordOnly(r) \/ RecordVerified(r) \/ RecordRemoved(r)
  <2>1. Holds(r)
    BY <1>5 DEF RecordOnly, RecordVerified, RecordRemoved, At, Holds, IInv, RequestInv
  <2>2. req[r].id = i
    BY <1>2, <1>5 DEF RecordOnly, RecordVerified, RecordRemoved, Commit
  <2>. QED BY <1>5, <2>1, <2>2
<1>. QED BY <1>1, <1>3, <1>4, <1>5

\* A token that rotation or expiry has revoked never verifies again, though a check
\* waited for its row or was looking it up (RevokedTokenStaysRevoked).
THEOREM RevocationIsFinal == Spec => RevokedTokenStaysRevoked
<1>1. IInv /\ [Next]_vars
        => [\A i \in Ids : challenges[i].status \in {"superseded", "expired"}
                             => challenges'[i].status = challenges[i].status]_vars
  <2>. SUFFICES ASSUME IInv, [Next]_vars, NEW i \in Ids,
                       challenges[i].status \in {"superseded", "expired"}
                PROVE  challenges'[i].status = challenges[i].status
    OBVIOUS
  <2>. QED BY RowStep DEF IInv, LockInv, LiveRow
<1>. QED
  BY <1>1, Inductive, PTL DEF Spec, RevokedTokenStaysRevoked

\* Two recorded checks of a challenge are at least the cooldown apart (ChecksSpaced).
THEOREM ChecksKeepCooldown == Spec => ChecksSpaced
<1>1. IInv /\ [Next]_vars
        => [\A i \in Ids :
              challenges[i].checked # Null /\ challenges'[i].checked # challenges[i].checked
                => challenges'[i].checked >= challenges[i].checked + Cooldown]_vars
  <2>. SUFFICES ASSUME IInv, [Next]_vars, NEW i \in Ids,
                       challenges[i].checked # Null,
                       challenges'[i].checked # challenges[i].checked
                PROVE  challenges'[i].checked >= challenges[i].checked + Cooldown
    OBVIOUS
  <2>1. challenges \in [Ids -> ChallengeRow] /\ req \in [Requests -> Request]
    BY DEF IInv, TypeOK
  <2>2. PICK r \in Requests : /\ req[r].id = i
                              /\ RecordOnly(r) \/ RecordVerified(r) \/ RecordRemoved(r)
    <3>1. challenges[i].status # "none"
      BY DEF IInv, UnissuedInv
    <3>. QED BY <3>1, RowStep
  <2>3. challenges'[i].checked = req[r].now
    BY <2>1, <2>2 DEF RecordOnly, RecordVerified, RecordRemoved, Commit, ChallengeRow
  <2>4. ~Cooling(challenges[i], req[r].now)
    BY <2>2 DEF RecordOnly, RecordVerified, RecordRemoved, At, IInv, RequestInv
  <2>5. challenges[i].checked \in Nat /\ req[r].now \in Nat
    BY <2>1 DEF ChallengeRow, Instants, Request
  <2>. QED BY <2>3, <2>4, <2>5, TimesAssumption DEF Cooling
<1>. QED
  BY <1>1, Inductive, PTL DEF Spec, ChecksSpaced

\* What a step that revokes the target leaves among the challenges: none verified
\* (RevokedTogether).
THEOREM RevocationIsShared == Spec => RevokedTogether
<1>1. IInv /\ [Next]_vars
        => [target.status = "verified" /\ target'.status # "verified"
              => \A i \in Ids : challenges'[i].status # "verified"]_vars
  <2>. SUFFICES ASSUME IInv, [Next]_vars, NEW i \in Ids,
                       target.status = "verified", target'.status # "verified"
                PROVE  challenges'[i].status # "verified"
    OBVIOUS
  <2>0. challenges \in [Ids -> ChallengeRow] /\ OneLiveChallenge /\ OneLiveChallenge'
    BY NextInv DEF IInv, TypeOK
  <2>1. PICK r \in Requests : IssueChallenge(r) \/ CheckExpired(r) \/ RecordRemoved(r)
    <3>1. PICK r \in Requests : \/ IssueChallenge(r) \/ CheckExpired(r)
                                \/ RecordOnly(r) \/ RecordVerified(r) \/ RecordRemoved(r)
      BY DEF Next, vars, Load, Select, Acquire, Abort, CheckNothing, CheckLimited, Lookup,
             Publish, Unpublish, Tick
    <3>2. ~RecordOnly(r)
      BY DEF RecordOnly, Commit, Merge
    <3>3. ~RecordVerified(r)
      <4>1. Bound(req[r].now).status = "verified"
        BY DEF Bound
      <4>2. ASSUME NEW old, NEW new, new.status = "verified"
            PROVE  Merge(old, new).status = "verified"
        BY <4>2 DEF Merge
      <4>. QED BY <4>1, <4>2 DEF RecordVerified, Commit
    <3>. QED BY <3>1, <3>2, <3>3
  <2>2. PICK n \in Ids : challenges'[n].status = "pending" \/
                         (/\ LiveRow(challenges, n) /\ challenges'[n].status = "expired"
                          /\ \A k \in Ids : k # n => challenges'[k] = challenges[k])
    <3>1. CASE IssueChallenge(r)
      <4>1. PICK n \in Ids :
              challenges' = [Superseded(req[r].id) EXCEPT
                               ![n] = [status |-> "pending", expires |-> req[r].now + ChallengeTtl,
                                       checked |-> Null]]
        BY <3>1 DEF IssueChallenge, Commit
      <4>2. Superseded(req[r].id) \in [Ids -> ChallengeRow]
        BY <2>0 DEF Superseded, ChallengeRow
      <4>. QED BY <4>1, <4>2
    <3>2. CASE CheckExpired(r)
      <4>1. req[r].id \in Ids /\ LiveRow(challenges, req[r].id)
        BY <3>2 DEF CheckExpired, At, IInv, LockInv, Holds, TypeOK, Request
      <4>. QED BY <2>0, <3>2, <4>1 DEF CheckExpired, Commit, ChallengeRow
    <3>3. CASE RecordRemoved(r)
      <4>1. req[r].id \in Ids
        BY <3>3 DEF RecordRemoved, At, IInv, RequestInv, TypeOK, Request
      <4>. QED BY <2>0, <3>3, <4>1 DEF RecordRemoved, Commit
    <3>. QED BY <2>1, <3>1, <3>2, <3>3
  <2>. QED BY <2>0, <2>2 DEF OneLiveChallenge, LiveRow
<1>. QED
  BY <1>1, Inductive, PTL DEF Spec, RevokedTogether

-----------------------------------------------------------------------------
(* The ledger of challenges *)

\* What is committed of a challenge changes in the row of its request only.
LEMMA LedgerRow ==
  ASSUME IInv, NEW k \in Ids, NEW s,
         \A i \in Ids : i # k => challenges'[i].status = challenges[i].status,
         challenges'[k].status = s
  PROVE  Ledger!Moves(k, s)
BY DEF Ledger!Moves, Ledger!Ids, Ids

\* A commit that assigns "verified" or another status to the target leaves that one or
\* the one there was.
LEMMA LedgerTarget ==
  ASSUME NEW old, NEW new, target' = Merge(old, new)
  PROVE  /\ new.status = "verified" => Ledger!MayBind
         /\ new.status # "verified" => Ledger!MayRevoke
<1>1. target'.status \in {new.status, target.status}
  BY DEF Merge
<1>. QED
  BY <1>1 DEF Ledger!MayBind, Ledger!MayRevoke

\* A rotation supersedes the live challenge: the index lets no other one stay.
LEMMA IssueRotates ==
  ASSUME IInv, NEW r \in Requests, IssueChallenge(r)
  PROVE  Ledger!Next
<1>. DEFINE now == [status |-> "pending", expires |-> req[r].now + ChallengeTtl, checked |-> Null]
<1>1. challenges \in [Ids -> ChallengeRow] /\ LockInv
  BY DEF IInv, TypeOK
<1>2. PICK n \in Ids :
        /\ \A i \in Ids : (challenges[i].status = "none") <=> (i >= n)
        /\ challenges' = [Superseded(req[r].id) EXCEPT ![n] = now]
        /\ LiveIndex(challenges') /\ target' = Merge(req[r].loaded, Cleared("pending"))
  BY DEF IssueChallenge, Commit
<1>3. Superseded(req[r].id) \in [Ids -> ChallengeRow]
  BY <1>1 DEF Superseded, ChallengeRow
<1>4. challenges'[n] = now /\ \A i \in Ids : i # n => challenges'[i] = Superseded(req[r].id)[i]
  BY <1>2, <1>3
<1>5. ASSUME NEW i \in Ids, i # n
      PROVE  challenges'[i].status =
               IF LiveRow(challenges, i) THEN "superseded" ELSE challenges[i].status
  <2>1. CASE req[r].id = i
    <3>1. Holds(r)
      BY <2>1, ConstantsType DEF IssueChallenge, At, Holds
    <3>2. LiveRow(challenges, i)
      BY <1>1, <2>1, <3>1 DEF LockInv
    <3>3. challenges'[i] = [challenges[i] EXCEPT !.status = "superseded"]
      BY <1>1, <1>4, <1>5, <2>1, ConstantsType DEF Superseded
    <3>. QED
      BY <1>1, <3>2, <3>3 DEF ChallengeRow
  <2>2. CASE req[r].id # i
    <3>1. challenges'[i] = challenges[i]
      BY <1>1, <1>4, <1>5, <2>2 DEF Superseded
    <3>2. ~LiveRow(challenges', i)
      BY <1>2, <1>4, <1>5 DEF LiveIndex, LiveRow
    <3>. QED
      BY <3>1, <3>2 DEF LiveRow
  <2>. QED BY <2>1, <2>2
<1>6. Ledger!Rotate(n)
  <2>1. Ledger!MayRevoke
    BY <1>2, LedgerTarget DEF Cleared
  <2>2. challenges'[n].status = "pending"
    BY <1>4
  <2>. QED
    BY <1>2, <1>5, <2>1, <2>2 DEF Ledger!Rotate, Ledger!Live, Ledger!Ids, Ids, LiveRow
<1>. QED
  BY <1>6 DEF Ledger!Next, Ledger!Ids, Ids

\* A check changes the challenge whose row it holds.
LEMMA CheckMoves ==
  ASSUME IInv, NEW r \in Requests, CheckExpired(r) \/ RecordVerified(r) \/ RecordRemoved(r)
  PROVE  Ledger!Next
<1>. DEFINE k == req[r].id
<1>1. challenges \in [Ids -> ChallengeRow]
  BY DEF IInv, TypeOK
<1>2. k \in Ids /\ LiveRow(challenges, k)
  BY DEF CheckExpired, RecordVerified, RecordRemoved, At, Holds, IInv, LockInv, RequestInv,
         TypeOK, Request
<1>3. Ledger!Live(k)
  BY <1>2 DEF Ledger!Live, LiveRow
<1>4. CASE CheckExpired(r)
  <2>1. challenges' = [challenges EXCEPT ![k].status = "expired"] /\ challenges[k].status = "pending"
    BY <1>4 DEF CheckExpired, Commit, Overdue
  <2>2. Ledger!MayRevoke
    BY <1>4, LedgerTarget DEF CheckExpired, Commit, Cleared
  <2>3. /\ challenges'[k].status = "expired"
        /\ \A i \in Ids : i # k => challenges'[i].status = challenges[i].status
    BY <1>1, <1>2, <2>1 DEF ChallengeRow
  <2>4. Ledger!Moves(k, "expired")
    BY <1>2, <2>3, LedgerRow
  <2>. QED
    BY <1>2, <2>1, <2>2, <2>4 DEF Ledger!Next, Ledger!Expire, Ledger!Ids, Ids
<1>5. CASE RecordVerified(r)
  <2>1. challenges' = VerifiedRows(k, req[r].now)
    BY <1>5 DEF RecordVerified, Commit, VerifiedRows
  <2>2. Ledger!MayBind
    BY <1>5, LedgerTarget DEF RecordVerified, Commit, Bound
  <2>3. req[r].now \in Nat
    BY DEF IInv, TypeOK, Request
  <2>4. /\ challenges'[k].status = "verified"
        /\ \A i \in Ids : i # k => challenges'[i].status = challenges[i].status
    BY <1>1, <1>2, <2>1, <2>3, VerifiedRowsType
  <2>5. Ledger!Moves(k, "verified")
    BY <1>2, <2>4, LedgerRow
  <2>. QED
    BY <1>2, <1>3, <2>2, <2>5 DEF Ledger!Next, Ledger!Verify, Ledger!Ids, Ids
<1>6. CASE RecordRemoved(r)
  <2>1. /\ challenges[k].status = "verified"
        /\ challenges' = [challenges EXCEPT ![k] =
              [status |-> "pending", checked |-> req[r].now, expires |-> req[r].now + ChallengeTtl]]
    BY <1>6 DEF RecordRemoved, Commit
  <2>2. Ledger!MayRevoke
    BY <1>6, LedgerTarget DEF RecordRemoved, Commit, Cleared
  <2>3. /\ challenges'[k].status = "pending"
        /\ \A i \in Ids : i # k => challenges'[i].status = challenges[i].status
    BY <1>1, <1>2, <2>1
  <2>4. Ledger!Moves(k, "pending")
    BY <1>2, <2>3, LedgerRow
  <2>. QED
    BY <1>2, <2>1, <2>2, <2>4 DEF Ledger!Next, Ledger!Reopen, Ledger!Ids, Ids
<1>. QED BY <1>4, <1>5, <1>6

LEMMA LedgerStep ==
  ASSUME IInv, [Next]_vars
  PROVE  [Ledger!Next]_(Ledger!vars)
<1>1. ASSUME UNCHANGED <<challenges, target>> PROVE UNCHANGED Ledger!vars
  BY <1>1 DEF Ledger!vars
<1>2. ASSUME NEW r \in Requests, RecordOnly(r) PROVE UNCHANGED Ledger!vars
  <2>1. challenges \in [Ids -> ChallengeRow]
    BY DEF IInv, TypeOK
  <2>2. challenges' = [challenges EXCEPT ![req[r].id].checked = req[r].now] /\ target'.status = target.status
    BY <1>2 DEF RecordOnly, Commit, Merge
  <2>3. \A i \in Ids : challenges'[i].status = challenges[i].status
    BY <2>1, <2>2 DEF ChallengeRow
  <2>. QED BY <2>2, <2>3 DEF Ledger!vars
<1>3. CASE UNCHANGED vars
  BY <1>1, <1>3 DEF vars
<1>4. ASSUME NEW r \in Requests, NEW op \in {"issue", "check"},
             Load(r, op) \/ Select(r) \/ Acquire(r) \/ Abort(r)
               \/ CheckNothing(r) \/ CheckLimited(r) \/ Lookup(r)
      PROVE  UNCHANGED <<challenges, target>>
  BY <1>4 DEF Load, Select, Acquire, Abort, CheckNothing, CheckLimited, Lookup
<1>5. ASSUME Tick \/ \E i \in Ids : Publish(i) \/ Unpublish(i) PROVE UNCHANGED <<challenges, target>>
  BY <1>5 DEF Tick, Publish, Unpublish
<1>. QED
  BY <1>1, <1>2, <1>3, <1>4, <1>5, IssueRotates, CheckMoves DEF Next

\* Requests that overlap, wait for a row and write what they loaded before it (targets.py,
\* domain/verification.py) change the challenges as if each had run alone, and the target
\* with them only (ImplementsLedger).
THEOREM ChallengesAreALedger == Spec => ImplementsLedger
<1>1. Init => Ledger!Init
  BY DEF Init, Unissued, Cleared, Ledger!Init, Ledger!Ids, Ids
<1>2. IInv /\ [Next]_vars => [Ledger!Next]_(Ledger!vars)
  BY LedgerStep
<1>. QED
  BY <1>1, <1>2, Inductive, PTL DEF Spec, ImplementsLedger, Ledger!Spec
=============================================================================
