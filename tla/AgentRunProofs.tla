--------------------------- MODULE AgentRunProofs ---------------------------
(* What AgentRun guarantees for any number of iterations, tools, requests and *)
(* findings.                                                                  *)
EXTENDS AgentRun, FiniteSetTheorems, TLAPS

\* A call in progress belongs to the executor, and past its audit record it has one
\* and has read the objects of the session.
CallInv ==
  /\ call.pc # "idle" => node = "executor" /\ calls > 0
  /\ call.pc \notin {"idle", "enter"} => CallId \in audits /\ objects = "loaded"
  /\ call.drafts # {} => call.pc = "persist"

\* The iterations that the graph has counted.
LoopInv ==
  /\ node = "planner" => iteration < MaxIterations
  /\ node \in {"executor", "critic"} => iteration > 0

\* What the process remembers as seen is in the database or on its way there, as long
\* as no rollback came between.
SeenInv ==
  /\ ~tx.open => tx.findings = {}
  /\ node \notin Ended /\ objects = "loaded" => seen \subseteq stored \cup tx.findings

IInv == TypeOK /\ CallInv /\ LoopInv /\ SeenInv /\ FindingsComplete /\ TrafficAudited

USE AgentAssumption DEF AgentAssumption

-----------------------------------------------------------------------------
(* A call leaves a record of the right type wherever it goes. *)

\* Every way a call ends: no call in progress is a call, and a closed transaction one.
LEMMA NoCallType == NoCall \in Call /\ Closed \in Transaction
BY DEF NoCall, Call, Tools, Closed, Transaction

\* Moving a call on changes its place only (Goto).
LEMMA GotoType ==
  ASSUME call \in Call, NEW pc \in {"idle", "enter", "audited", "fetch", "page", "persist", "write"},
         Goto(pc)
  PROVE  call' \in Call /\ call'.pc = pc /\ call'.tool = call.tool /\ call'.drafts = call.drafts
BY DEF Goto, Call

\* Opening the transaction leaves what is in it.
LEMMA OpenType ==
  ASSUME tx \in Transaction, tx' = [tx EXCEPT !.open = TRUE]
  PROVE  tx' \in Transaction /\ tx'.open /\ tx'.findings = tx.findings
BY DEF Transaction

\* The current call of an executor has an identifier.
LEMMA CallIdType ==
  ASSUME TypeOK, CallInv, LoopInv, call.pc # "idle"
  PROVE  CallId \in CallIds
BY DEF TypeOK, CallInv, LoopInv, CallId, CallIds

-----------------------------------------------------------------------------
LEMMA InitIInv == Init => IInv
<1> SUFFICES ASSUME Init PROVE IInv OBVIOUS
<1>1. TypeOK
  <2>1. node \in {"planner", "executor", "critic", "flush"} /\ objects \in {"loaded", "expired"}
    BY DEF Init
  <2>2. call \in Call /\ tx \in Transaction
    BY NoCallType DEF Init
  <2>3. iteration \in 0..MaxIterations /\ calls \in 0..MaxTools /\ used \in 0..MaxRequests
    BY DEF Init
  <2>4. QED BY <2>1, <2>2, <2>3 DEF Init, TypeOK
<1>2. CallInv
  BY DEF Init, CallInv, NoCall
<1>3. LoopInv /\ SeenInv /\ FindingsComplete /\ TrafficAudited
  BY DEF Init, LoopInv, SeenInv, FindingsComplete, TrafficAudited, Closed
<1>4. QED BY <1>1, <1>2, <1>3 DEF IInv

\* However the run ends with an exception or is cancelled, the invariant is left.
LEMMA EndsIInv ==
  ASSUME IInv, NEW how \in {"failed", "stopped"},
         NEW why \in {"none", "model", "database", "expired"}, Ends(how, why)
  PROVE  IInv'
BY NoCallType DEF Ends, IInv, TypeOK, CallInv, LoopInv, SeenInv, FindingsComplete,
  TrafficAudited, NoCall, Closed, Ended

LEMMA GraphIInv == IInv /\ Graph => IInv'
<1> SUFFICES ASSUME IInv, Graph PROVE IInv' OBVIOUS
<1> USE DEF IInv
<1>1. CASE Planner
  BY <1>1 DEF Planner, TypeOK, CallInv, LoopInv, SeenInv, FindingsComplete, TrafficAudited, Ended
<1>2. CASE ExecutorDone
  BY <1>2 DEF ExecutorDone, TypeOK, CallInv, LoopInv, SeenInv, FindingsComplete, TrafficAudited,
     Ended, CallId
<1>3. CASE Critic
  BY <1>3 DEF Critic, TypeOK, CallInv, LoopInv, SeenInv, FindingsComplete, TrafficAudited, Ended
<1>4. CASE ModelFails
  BY <1>4, EndsIInv DEF ModelFails
<1>5. CASE Flush
  BY <1>5, NoCallType DEF Flush, Commit, TypeOK, CallInv, LoopInv, SeenInv, FindingsComplete,
     TrafficAudited, Ended, Closed, Transaction
<1>6. CASE FlushFails
  BY <1>6, EndsIInv DEF FlushFails
<1>7. QED BY <1>1, <1>2, <1>3, <1>4, <1>5, <1>6 DEF Graph

\* A call that returns leaves the invariant whether its transaction was committed,
\* rolled back or not touched.
LEMMA ReturnsIInv ==
  ASSUME IInv, node = "executor", call.pc # "idle", Returns,
         UNCHANGED <<active, lost, cause>>,
         objects' \in {"loaded", "expired"}, tx' \in Transaction,
         ~tx'.open => tx'.findings = {},
         stored \subseteq stored', stored' \subseteq Fingerprints, seen' = seen,
         objects' = "loaded" => seen \subseteq stored' \cup tx'.findings,
         used' \in 0..MaxRequests, audits \subseteq audits', audits' \subseteq CallIds,
         traffic' \subseteq audits'
  PROVE  IInv'
<1> USE DEF IInv
<1>1. TypeOK'
  BY NoCallType DEF Returns, TypeOK, CallInv
<1>2. CallInv'
  BY DEF Returns, CallInv, NoCall
<1>3. LoopInv'
  BY DEF Returns, LoopInv
<1>4. SeenInv' /\ FindingsComplete' /\ TrafficAudited'
  BY DEF Returns, SeenInv, FindingsComplete, TrafficAudited
<1>5. QED BY <1>1, <1>2, <1>3, <1>4

LEMMA ExecuteIInv == IInv /\ Execute => IInv'
<1> SUFFICES ASSUME IInv, Execute PROVE IInv' OBVIOUS
<1> USE DEF IInv
<1>1. ASSUME NEW tool \in Tools, Enter(tool) PROVE IInv'
  BY <1>1 DEF Enter, graph, TypeOK, CallInv, LoopInv, SeenInv, FindingsComplete,
     TrafficAudited, Call
<1>2. CASE Audit
  <2>1. CallId \in CallIds BY <1>2, CallIdType DEF Audit
  <2>2. QED BY <1>2, <2>1, GotoType, NoCallType DEF Audit, Commit, graph, TypeOK, CallInv,
     LoopInv, SeenInv, FindingsComplete, TrafficAudited, Closed, Transaction, CallId
<1>3. CASE Denied
  <2>1. node = "executor" /\ call.pc # "idle" BY <1>3 DEF Denied, Deniable
  <2>2. CallId \in CallIds BY <2>1, CallIdType
  <2>3. QED BY <1>3, <2>1, <2>2, ReturnsIInv, NoCallType DEF Denied, Commit, TypeOK, SeenInv,
     TrafficAudited, Closed, Transaction, Ended
<1>4. CASE DenialFails
  BY <1>4, EndsIInv DEF DenialFails
<1>5. CASE ToolFails
  BY <1>5, ReturnsIInv, NoCallType DEF ToolFails, Rollback, TypeOK, SeenInv, TrafficAudited,
     Closed, Transaction, Ended
<1>6. CASE StatementFails
  BY <1>6, ReturnsIInv, NoCallType DEF StatementFails, TypeOK, SeenInv, TrafficAudited,
     Closed, Transaction, Ended
<1>7. CASE EnsureFails
  BY <1>7, EndsIInv DEF EnsureFails
<1>8. QED BY <1>1, <1>2, <1>3, <1>4, <1>5, <1>6, <1>7 DEF Execute

-----------------------------------------------------------------------------
(* The handlers *)

\* A handler that goes on leaves the invariant when it keeps its call on its way, a
\* record committed, and what it remembers in the transaction.
LEMMA GoesOnIInv ==
  ASSUME IInv, node = "executor", call.pc \notin {"idle", "enter"},
         UNCHANGED <<graph, active, objects, stored, lost, audits, cause>>,
         call' \in Call, call'.pc \notin {"idle", "enter"},
         call'.drafts # {} => call'.pc = "persist",
         tx' \in Transaction, ~tx'.open => tx'.findings = {},
         seen' \subseteq Fingerprints, seen' \subseteq stored \cup tx'.findings,
         used' \in 0..MaxRequests, traffic' \subseteq traffic \cup {CallId}
  PROVE  IInv'
<1> USE DEF IInv, graph
<1>1. CallId \in CallIds /\ CallId \in audits /\ calls > 0
  BY CallIdType DEF CallInv
<1>2. TypeOK'
  BY <1>1 DEF TypeOK
<1>3. CallInv' /\ LoopInv'
  BY <1>1 DEF CallInv, LoopInv, CallId
<1>4. SeenInv' /\ FindingsComplete' /\ TrafficAudited'
  BY <1>1 DEF SeenInv, FindingsComplete, TrafficAudited
<1>5. QED BY <1>2, <1>3, <1>4

LEMMA HandlerIInv == IInv /\ Handler => IInv'
<1> SUFFICES ASSUME IInv, Handler PROVE IInv' OBVIOUS
<1> USE DEF IInv
<1>1. call.pc \notin {"idle", "enter"} => seen \subseteq stored \cup tx.findings
  BY DEF CallInv, SeenInv, Ended
<1>2. CASE CrawlFetch
  BY <1>1, <1>2, GoesOnIInv DEF CrawlFetch, At, Send, HasBudget, TypeOK, CallInv, SeenInv
<1>3. CASE CrawlWrite
  BY <1>1, <1>3, GoesOnIInv, GotoType, OpenType DEF CrawlWrite, At, TypeOK, CallInv
<1>4. CASE CheckUnknown
  BY <1>1, <1>4, ReturnsIInv DEF CheckUnknown, At, TypeOK, SeenInv, TrafficAudited
<1>5. CASE CheckPage
  <2>1. (tx' = tx \/ tx' = [tx EXCEPT !.open = TRUE]) /\ (Goto("page") \/ Goto("fetch"))
    BY <1>5 DEF CheckPage
  <2>2. tx' \in Transaction /\ tx'.findings = tx.findings /\ (~tx'.open => tx'.findings = {})
    BY <2>1, OpenType DEF TypeOK, SeenInv
  <2>3. call' \in Call /\ call'.pc \in {"page", "fetch"} /\ call'.drafts = call.drafts
    BY <2>1, GotoType DEF TypeOK
  <2>4. QED BY <1>1, <1>5, <2>2, <2>3, GoesOnIInv DEF CheckPage, At, TypeOK, CallInv
<1>6. CASE CheckFetch
  <2>1. call' \in Call /\ call'.pc \in {"page", "fetch"} /\ call'.drafts = call.drafts
    BY <1>6, GotoType DEF CheckFetch, TypeOK
  <2>2. QED BY <1>1, <1>6, <2>1, GoesOnIInv
    DEF CheckFetch, At, Send, HasBudget, TypeOK, CallInv, SeenInv
<1>7. CASE CheckRun
  <2>1. call' \in Call /\ call'.pc = "persist" BY <1>7 DEF CheckRun, TypeOK, Call
  <2>2. QED BY <1>1, <1>7, <2>1, GoesOnIInv DEF CheckRun, At, TypeOK, SeenInv
<1>8. ASSUME NEW f \in Fingerprints, PersistDraft(f) PROVE IInv'
  <2>1. call' \in Call /\ call'.pc = "persist"
    BY <1>8 DEF PersistDraft, At, TypeOK, Call
  <2>2. /\ tx' \in Transaction /\ tx.findings \subseteq tx'.findings
        /\ ~tx'.open => tx'.findings = {}
        /\ f \in seen \cup stored \cup tx'.findings
    BY <1>8 DEF PersistDraft, TypeOK, SeenInv, Transaction
  <2>3. seen' \subseteq stored \cup tx'.findings
    BY <1>1, <1>8, <2>2 DEF PersistDraft, At
  <2>4. QED BY <1>8, <2>1, <2>2, <2>3, GoesOnIInv DEF PersistDraft, At, TypeOK
<1>9. CASE CheckCommit
  BY <1>1, <1>9, ReturnsIInv, NoCallType
  DEF CheckCommit, At, Commit, TypeOK, TrafficAudited, Closed, Transaction
<1>10. CASE ActiveProbe
  <2>1. call' \in Call /\ call'.pc = "write" /\ call'.drafts = call.drafts
    BY <1>10, GotoType DEF ActiveProbe, TypeOK
  <2>2. used' \in 0..MaxRequests /\ traffic' \subseteq traffic \cup {CallId}
    BY <1>10 DEF ActiveProbe, Send, HasBudget, TypeOK
  <2>3. QED BY <1>1, <1>10, <2>1, <2>2, GoesOnIInv DEF ActiveProbe, At, TypeOK, CallInv, SeenInv
<1>11. CASE LookupDone
  BY <1>1, <1>11, ReturnsIInv DEF LookupDone, At, TypeOK, SeenInv, TrafficAudited
<1>12. CASE PocRead
  BY <1>1, <1>12, GoesOnIInv, GotoType, OpenType DEF PocRead, At, TypeOK, CallInv
<1>13. CASE WriteDone
  BY <1>1, <1>13, ReturnsIInv, NoCallType
  DEF WriteDone, Commit, TypeOK, TrafficAudited, Closed, Transaction
<1>14. QED BY <1>2, <1>3, <1>4, <1>5, <1>6, <1>7, <1>8, <1>9, <1>10, <1>11, <1>12, <1>13
  DEF Handler

-----------------------------------------------------------------------------
LEMMA NextIInv == IInv /\ [Next]_vars => IInv'
<1> SUFFICES ASSUME IInv, [Next]_vars PROVE IInv' OBVIOUS
<1>1. CASE Graph BY <1>1, GraphIInv
<1>2. CASE Execute BY <1>2, ExecuteIInv
<1>3. CASE Handler BY <1>3, HandlerIInv
<1>4. CASE Stop \/ Cancel
  <2>1. cause \in {"none", "model", "database", "expired"} BY DEF IInv, TypeOK
  <2>2. QED BY <1>4, <2>1, EndsIInv DEF Stop, Cancel
<1>5. CASE LoseScan
  BY <1>5 DEF LoseScan, graph, IInv, TypeOK, CallInv, LoopInv, SeenInv, FindingsComplete,
     TrafficAudited, CallId
<1>6. ASSUME NEW f \in Fingerprints, OtherAttempt(f) PROVE IInv'
  BY <1>6 DEF OtherAttempt, graph, IInv, TypeOK, CallInv, LoopInv, SeenInv, FindingsComplete,
     TrafficAudited, CallId
<1>7. CASE UNCHANGED vars
  BY <1>7 DEF vars, IInv, TypeOK, CallInv, LoopInv, SeenInv, FindingsComplete,
     TrafficAudited, CallId
<1>8. QED BY <1>1, <1>2, <1>3, <1>4, <1>5, <1>6, <1>7 DEF Next

LEMMA Invariant == Spec => []IInv
BY InitIInv, NextIInv, PTL DEF Spec

-----------------------------------------------------------------------------
\* The budget, the iterations and the records of the run stay in their bounds
\* (RequestBudget.consume, planner_node).
THEOREM TypeCorrect == Spec => []TypeOK
<1>1. IInv => TypeOK BY DEF IInv
<1>2. QED BY Invariant, <1>1, PTL

\* A run that completes has every finding its checks reported committed: a rollback
\* leaves a session the last transaction cannot read (persist_findings, execute).
THEOREM CompleteRunStoresFindings == Spec => []FindingsComplete
<1>1. IInv => FindingsComplete BY DEF IInv
<1>2. QED BY Invariant, <1>1, PTL

\* No call sends a request to the target without a committed audit record (_audit).
THEOREM TrafficIsAudited == Spec => []TrafficAudited
<1>1. IInv => TrafficAudited BY DEF IInv
<1>2. QED BY Invariant, <1>1, PTL

-----------------------------------------------------------------------------
\* With drafts left, a step of the run commits nothing, and another attempt commits
\* nothing that is this run's.
LEMMA AtomicStep ==
  ASSUME IInv, [Next]_vars, call.drafts # {}
  PROVE  stored' \cap seen' \subseteq stored
<1> USE DEF IInv
<1>1. node = "executor" /\ call.pc = "persist" /\ objects = "loaded"
  BY DEF CallInv
<1>2. stored' = stored \/ \E f \in Fingerprints : OtherAttempt(f)
  <2>1. CASE Graph
    BY <1>1, <2>1 DEF Graph, Planner, ExecutorDone, Critic, ModelFails, Ends, Flush, FlushFails
  <2>2. CASE Execute
    BY <1>1, <2>2 DEF Execute, Enter, EnsureFails, Audit, Denied, Deniable, DenialFails, Ends, ToolFails,
       Rollback, StatementFails
  <2>3. CASE Handler
    BY <1>1, <2>3 DEF Handler, At, CrawlFetch, CrawlWrite, CheckUnknown, CheckPage, CheckFetch,
       CheckRun, PersistDraft, CheckCommit, ActiveProbe, LookupDone, PocRead, WriteDone
  <2>4. CASE Stop \/ Cancel \/ LoseScan \/ UNCHANGED vars
    BY <2>4 DEF Stop, Cancel, LoseScan, Ends, vars
  <2>5. QED BY <2>1, <2>2, <2>3, <2>4 DEF Next
<1>3. ASSUME NEW f \in Fingerprints, OtherAttempt(f) PROVE stored' \cap seen' \subseteq stored
  BY <1>1, <1>3 DEF OtherAttempt, SeenInv, Ended
<1>4. QED BY <1>2, <1>3

\* The findings of a check become visible together or not at all, whatever fails, and
\* whatever another attempt stores meanwhile (persist_findings, _run_check).
THEOREM ChecksAreAtomic == Spec => ChecksAtomic
<1>1. IInv /\ [Next]_vars => [call.drafts # {} => stored' \cap seen' \subseteq stored]_vars
  BY AtomicStep
<1>2. QED BY Invariant, <1>1, PTL DEF Spec, ChecksAtomic

-----------------------------------------------------------------------------
(* The steps left to a run *)

N == Cardinality(Fingerprints)
PerCall == N + 7
PerIteration == (MaxTools + 1) * PerCall + 4

CallLeft ==
  CASE call.pc = "idle" -> PerCall
    [] call.pc = "enter" -> N + 6
    [] call.pc = "audited" -> N + 5
    [] call.pc = "fetch" -> N + 4
    [] call.pc = "page" -> N + 3
    [] call.pc = "persist" -> Cardinality(call.drafts) + 1
    [] OTHER -> 1
NodeLeft ==
  CASE node = "executor" -> calls * PerCall + CallLeft + 3
    [] node = "critic" -> 2
    [] node \in {"planner", "flush"} -> 1
    [] OTHER -> 0
LoopLeft == (MaxIterations - iteration) * PerIteration
\* What others may still do to the scan.
OthersLeft == Cardinality(Fingerprints \ stored) + IF lost THEN 0 ELSE 1
StepsLeft == LoopLeft + NodeLeft + (MaxRequests - used) + OthersLeft

LEMMA Products ==
  /\ \A a, c \in Nat : a * c \in Nat /\ (a + 1) * c = a * c + c
  /\ \A a, b, c \in Nat : a <= b => a * c <= b * c
  /\ \A a, b, c \in Nat : a <= b => c - b <= c - a
BY SMT

LEMMA Sizes ==
  ASSUME IsFiniteSet(Fingerprints)
  PROVE  /\ N \in Nat /\ PerCall \in Nat /\ PerIteration \in Nat
         /\ \A D \in SUBSET Fingerprints : Cardinality(D) \in 0..N
         /\ \A D \in SUBSET Fingerprints : \A E \in SUBSET D : Cardinality(E) <= Cardinality(D)
         /\ \A D \in SUBSET Fingerprints : \A f \in D :
              Cardinality(D \ {f}) = Cardinality(D) - 1
<1>1. \A D \in SUBSET Fingerprints : IsFiniteSet(D) /\ Cardinality(D) <= N
  BY FS_Subset DEF N
<1>2. \A D \in SUBSET Fingerprints : Cardinality(D) \in Nat
  BY <1>1, FS_CardinalityType
<1>3. N \in Nat
  BY FS_CardinalityType DEF N
<1>4. PerCall \in Nat
  BY <1>3 DEF PerCall
<1>5. (MaxTools + 1) * PerCall \in Nat
  BY <1>4, Products
<1>6. PerIteration \in Nat
  BY <1>5 DEF PerIteration
<1>7. \A D \in SUBSET Fingerprints : \A E \in SUBSET D : Cardinality(E) <= Cardinality(D)
  BY <1>1, FS_Subset
<1>8. \A D \in SUBSET Fingerprints : \A f \in D : Cardinality(D \ {f}) = Cardinality(D) - 1
  BY <1>1, FS_RemoveElement
<1> QED
  BY <1>1, <1>2, <1>3, <1>4, <1>6, <1>7, <1>8

LEMMA LeftNatural ==
  ASSUME IsFiniteSet(Fingerprints), TypeOK
  PROVE  /\ CallLeft \in Nat \ {0} /\ NodeLeft \in Nat /\ LoopLeft \in Nat
         /\ MaxRequests - used \in Nat /\ OthersLeft \in Nat /\ StepsLeft \in Nat
         /\ node \notin Ended => NodeLeft > 0
<1>1. call.drafts \in SUBSET Fingerprints /\ calls \in Nat
  BY DEF TypeOK, Call
<1>2. N \in Nat /\ PerCall \in Nat \ {0} /\ Cardinality(call.drafts) \in Nat
  BY <1>1, Sizes DEF PerCall
<1>3. CallLeft \in Nat \ {0}
  BY <1>2 DEF CallLeft
<1>4. calls * PerCall \in Nat
  BY <1>1, <1>2, Products
<1>5. NodeLeft \in Nat /\ (node \notin Ended => NodeLeft > 0)
  BY <1>3, <1>4 DEF NodeLeft, TypeOK, Ended
<1>6. LoopLeft \in Nat
  <2>1. MaxIterations - iteration \in Nat
    BY DEF TypeOK
  <2> QED
    BY <2>1, Sizes, Products DEF LoopLeft
<1>7. MaxRequests - used \in Nat
  BY DEF TypeOK
<1>8. OthersLeft \in Nat
  <2>1. Cardinality(Fingerprints \ stored) \in Nat
    BY Sizes
  <2> QED
    BY <2>1 DEF OthersLeft
<1> QED
  BY <1>3, <1>5, <1>6, <1>7, <1>8 DEF StepsLeft

LEMMA LeftNaturalNext ==
  ASSUME IsFiniteSet(Fingerprints), TypeOK'
  PROVE  (/\ CallLeft \in Nat \ {0} /\ NodeLeft \in Nat /\ LoopLeft \in Nat
          /\ MaxRequests - used \in Nat /\ OthersLeft \in Nat /\ StepsLeft \in Nat
          /\ node \notin Ended => NodeLeft > 0)'
BY LeftNatural, PTL

\* Nothing is taken back: findings committed, requests counted, a scan lost.
LEMMA NothingTakenBack ==
  ASSUME IInv, [Next]_vars
  PROVE  stored \subseteq stored' /\ used <= used' /\ (lost => lost')
<1>1. used \in Nat
  BY DEF IInv, TypeOK
<1>2. CASE Graph
  BY <1>1, <1>2 DEF Graph, Planner, ExecutorDone, Critic, ModelFails, Ends, Flush, FlushFails, Commit
<1>3. CASE Execute
  BY <1>1, <1>3 DEF Execute, Enter, EnsureFails, Audit, Denied, DenialFails, Ends, ToolFails,
     Rollback, StatementFails, Commit
<1>4. CASE Handler
  <2>1. lost' = lost
    BY <1>4 DEF Handler, CrawlFetch, CrawlWrite, CheckUnknown, CheckPage, CheckFetch, CheckRun,
       PersistDraft, CheckCommit, ActiveProbe, LookupDone, PocRead, WriteDone
  <2>2. stored' = stored \/ stored' = stored \cup tx.findings
    BY <1>4 DEF Handler, CrawlFetch, CrawlWrite, CheckUnknown, CheckPage, CheckFetch, CheckRun,
       PersistDraft, CheckCommit, ActiveProbe, LookupDone, PocRead, WriteDone, Commit
  <2>3. used' = used \/ used' = used + 1
    BY <1>4 DEF Handler, CrawlFetch, CrawlWrite, CheckUnknown, CheckPage, CheckFetch, CheckRun,
       PersistDraft, CheckCommit, ActiveProbe, LookupDone, PocRead, WriteDone, Send
  <2> QED
    BY <1>1, <2>1, <2>2, <2>3
<1>5. CASE Stop \/ Cancel \/ LoseScan \/ UNCHANGED vars
  BY <1>1, <1>5 DEF Stop, Cancel, LoseScan, Ends, vars
<1>6. CASE \E f \in Fingerprints : OtherAttempt(f)
  BY <1>1, <1>6 DEF OtherAttempt
<1> QED
  BY <1>2, <1>3, <1>4, <1>5, <1>6 DEF Next

LEMMA OthersFewer ==
  ASSUME IsFiniteSet(Fingerprints), IInv, [Next]_vars
  PROVE  OthersLeft' <= OthersLeft /\ MaxRequests - used' <= MaxRequests - used
<1>1. stored \subseteq stored' /\ used <= used' /\ (lost => lost')
  BY NothingTakenBack
<1>2. /\ Fingerprints \ stored' \in SUBSET (Fingerprints \ stored)
      /\ Fingerprints \ stored \in SUBSET Fingerprints
  BY <1>1
<1>3. Cardinality(Fingerprints \ stored') <= Cardinality(Fingerprints \ stored)
  BY <1>2, Sizes
<1>4. Cardinality(Fingerprints \ stored') \in Nat /\ Cardinality(Fingerprints \ stored) \in Nat
  BY Sizes
<1>5. OthersLeft' <= OthersLeft
  BY <1>1, <1>3, <1>4 DEF OthersLeft
<1>6. used \in Nat /\ used' \in Nat
  BY NextIInv DEF IInv, TypeOK
<1>7. MaxRequests - used' <= MaxRequests - used
  <2>1. used <= used'
    BY <1>1
  <2> QED
    BY <1>6, <2>1, Products
<1> QED
  BY <1>5, <1>7

LEMMA Sums ==
  /\ \A a, b, c, d, p, q, r, s \in Nat :
       /\ p + q <= a + b /\ r <= c /\ s <= d
       /\ p + q < a + b \/ r < c \/ s < d
       => p + q + r + s < a + b + c + d
  /\ \A a, b, q \in Nat : (q <= b => a + q <= a + b) /\ (q < b => a + q < a + b)
  /\ \A l, m, x, c \in Nat : x <= m => l + (x + c + 3) < (l + (m + c + 4)) + 1
  /\ \A a, b \in Nat : a < b => a <= b
BY SMT

\* A step lowers one of the summands and raises none.
LEMMA OneLower ==
  ASSUME IsFiniteSet(Fingerprints), IInv, [Next]_vars,
         LoopLeft' + NodeLeft' <= LoopLeft + NodeLeft,
         \/ LoopLeft' + NodeLeft' < LoopLeft + NodeLeft
         \/ used' = used + 1
         \/ OthersLeft' < OthersLeft
  PROVE  StepsLeft' < StepsLeft
<1>1. TypeOK /\ TypeOK'
  BY NextIInv DEF IInv
<1>2. OthersLeft' <= OthersLeft /\ MaxRequests - used' <= MaxRequests - used
  BY OthersFewer
<1>3. /\ LoopLeft \in Nat /\ NodeLeft \in Nat /\ OthersLeft \in Nat /\ MaxRequests - used \in Nat
      /\ LoopLeft' \in Nat /\ NodeLeft' \in Nat /\ OthersLeft' \in Nat /\ MaxRequests - used' \in Nat
  BY <1>1, LeftNatural, LeftNaturalNext
<1>4. used' = used + 1 => MaxRequests - used' < MaxRequests - used
  BY <1>1, SMT DEF TypeOK
<1>5. /\ StepsLeft = LoopLeft + NodeLeft + (MaxRequests - used) + OthersLeft
      /\ StepsLeft' = LoopLeft' + NodeLeft' + (MaxRequests - used') + OthersLeft'
  BY DEF StepsLeft
<1> QED
  BY <1>2, <1>3, <1>4, <1>5, Sums

\* The steps of an iteration: the node comes closer to its end, or a request is used up.
LEMMA NodeStep ==
  ASSUME IsFiniteSet(Fingerprints), IInv, [Next]_vars, iteration' = iteration,
         NodeLeft' < NodeLeft \/ (NodeLeft' <= NodeLeft /\ used' = used + 1)
  PROVE  StepsLeft' < StepsLeft
<1>1. TypeOK /\ TypeOK'
  BY NextIInv DEF IInv
<1>2. LoopLeft' = LoopLeft
  BY DEF LoopLeft
<1>3. LoopLeft \in Nat /\ NodeLeft \in Nat /\ NodeLeft' \in Nat
  BY <1>1, LeftNatural, LeftNaturalNext
<1>4. NodeLeft' <= NodeLeft
  BY <1>3, Sums
<1>5. LoopLeft' + NodeLeft' <= LoopLeft + NodeLeft
  BY <1>2, <1>3, <1>4, Sums
<1>6. NodeLeft' < NodeLeft => LoopLeft' + NodeLeft' < LoopLeft + NodeLeft
  BY <1>2, <1>3, Sums
<1> QED
  BY <1>5, <1>6, OneLower

\* However a run ends early, nothing of it is left.
LEMMA EndsStep ==
  ASSUME IsFiniteSet(Fingerprints), IInv, [Next]_vars, node \notin Ended,
         NEW how \in Ended, NEW why, Ends(how, why)
  PROVE  StepsLeft' < StepsLeft
<1>1. NodeLeft' = 0 /\ iteration' = iteration
  BY DEF Ends, NodeLeft, Ended
<1>2. NodeLeft > 0
  BY LeftNatural DEF IInv
<1> QED
  BY <1>1, <1>2, NodeStep

\* A call that returns leaves one call less.
LEMMA ReturnsStep ==
  ASSUME IsFiniteSet(Fingerprints), IInv, [Next]_vars, node = "executor", call.pc # "idle", Returns
  PROVE  StepsLeft' < StepsLeft
<1>1. calls \in Nat \ {0} /\ calls' = calls - 1 /\ node' = "executor" /\ iteration' = iteration
  BY DEF IInv, TypeOK, CallInv, Returns
<1>2. CallLeft' = PerCall
  BY DEF Returns, NoCall, CallLeft, PerCall
<1>3. CallLeft \in Nat \ {0} /\ PerCall \in Nat
  BY LeftNatural, Sizes DEF IInv
<1>4. calls * PerCall = calls' * PerCall + PerCall
  <2>1. calls' \in Nat /\ calls = calls' + 1
    BY <1>1
  <2> QED
    BY <2>1, <1>3, Products
<1>5. calls * PerCall \in Nat /\ calls' * PerCall \in Nat
  <2>1. calls' \in Nat /\ calls \in Nat
    BY <1>1
  <2> QED
    BY <2>1, <1>3, Products
<1>6. NodeLeft = calls * PerCall + CallLeft + 3 /\ NodeLeft' = calls' * PerCall + PerCall + 3
  BY <1>1, <1>2 DEF NodeLeft
<1>7. NodeLeft' < NodeLeft
  BY <1>3, <1>4, <1>5, <1>6, SMT
<1> QED
  BY <1>1, <1>7, NodeStep

\* A call that goes on comes closer to its return, or sends a request.
LEMMA CallStep ==
  ASSUME IsFiniteSet(Fingerprints), IInv, [Next]_vars, node = "executor", UNCHANGED graph,
         CallLeft' < CallLeft \/ (CallLeft' <= CallLeft /\ used' = used + 1)
  PROVE  StepsLeft' < StepsLeft
<1>1. calls' = calls /\ node' = "executor" /\ iteration' = iteration
  BY DEF graph
<1>2. CallLeft \in Nat /\ CallLeft' \in Nat /\ calls * PerCall \in Nat
  <2>1. calls \in Nat /\ PerCall \in Nat
    BY Sizes DEF IInv, TypeOK
  <2>2. TypeOK /\ TypeOK'
    BY NextIInv DEF IInv
  <2> QED
    BY <2>1, <2>2, LeftNatural, LeftNaturalNext, Products
<1>3. NodeLeft = calls * PerCall + CallLeft + 3 /\ NodeLeft' = calls * PerCall + CallLeft' + 3
  BY <1>1 DEF NodeLeft
<1>4. NodeLeft' < NodeLeft \/ (NodeLeft' <= NodeLeft /\ used' = used + 1)
  BY <1>2, <1>3, SMT
<1> QED
  BY <1>1, <1>4, NodeStep

LEMMA PlannerStep ==
  ASSUME IsFiniteSet(Fingerprints), IInv, [Next]_vars, Planner
  PROVE  StepsLeft' < StepsLeft
<1>1. /\ node = "planner" /\ node' = "executor" /\ iteration' = iteration + 1
      /\ calls' \in 0..MaxTools /\ call' = call /\ used' = used
  BY DEF Planner
<1>2. call.pc = "idle" /\ iteration \in Nat /\ MaxIterations - iteration' \in Nat
  BY <1>1 DEF IInv, CallInv, LoopInv, TypeOK
<1>3. PerCall \in Nat /\ PerIteration \in Nat /\ calls' \in Nat /\ calls' <= MaxTools
  BY <1>1, Sizes
<1>4. calls' * PerCall \in Nat /\ calls' * PerCall <= MaxTools * PerCall /\ MaxTools * PerCall \in Nat
  BY <1>3, Products
<1>5. PerIteration = MaxTools * PerCall + PerCall + 4
  BY <1>3, Products DEF PerIteration
<1>6. LoopLeft = LoopLeft' + PerIteration
  <2>1. MaxIterations - iteration = (MaxIterations - iteration') + 1
    BY <1>1, <1>2
  <2> QED
    BY <2>1, <1>2, <1>3, Products DEF LoopLeft
<1>7. NodeLeft = 1 /\ NodeLeft' = calls' * PerCall + PerCall + 3
  BY <1>1, <1>2 DEF NodeLeft, CallLeft
<1>8. LoopLeft' \in Nat /\ NodeLeft' \in Nat /\ LoopLeft \in Nat
  <2>1. TypeOK /\ TypeOK'
    BY NextIInv DEF IInv
  <2> QED
    BY <2>1, LeftNatural, LeftNaturalNext
<1>9. LoopLeft' + NodeLeft' < LoopLeft + NodeLeft
  <2>1. LoopLeft' + (calls' * PerCall + PerCall + 3) < (LoopLeft' + (MaxTools * PerCall + PerCall + 4)) + 1
    BY <1>3, <1>4, <1>8, Sums
  <2> QED
    BY <1>5, <1>6, <1>7, <2>1
<1>10. LoopLeft' + NodeLeft' \in Nat /\ LoopLeft + NodeLeft \in Nat
  <2>1. \A a, b \in Nat : a + b \in Nat
    OBVIOUS
  <2>2. NodeLeft \in Nat
    BY <1>7
  <2> QED
    BY <1>8, <2>1, <2>2
<1> QED
  BY <1>9, <1>10, Sums, OneLower

LEMMA EveryStep ==
  ASSUME IsFiniteSet(Fingerprints), IInv, Next
  PROVE  StepsLeft' < StepsLeft
<1> TypeOK /\ CallInv /\ LoopInv
  BY DEF IInv
<1>1. CASE Graph
  <2>1. CASE Planner
    BY <2>1, PlannerStep
  <2>2. CASE ExecutorDone
    <3>1. node = "executor" /\ calls = 0 /\ node' = "critic" /\ iteration' = iteration
      BY <2>2 DEF ExecutorDone
    <3>2. 0 * PerCall = 0 /\ CallLeft \in Nat
      BY Sizes, LeftNatural
    <3>3. NodeLeft = 0 * PerCall + CallLeft + 3 /\ NodeLeft' = 2
      BY <3>1 DEF NodeLeft
    <3>4. NodeLeft' < NodeLeft
      BY <3>2, <3>3
    <3> QED
      BY <3>1, <3>4, NodeStep
  <2>3. CASE Critic
    <3>1. node = "critic" /\ node' \in {"flush", "planner"} /\ iteration' = iteration
      BY <2>3 DEF Critic
    <3>2. NodeLeft = 2 /\ NodeLeft' = 1
      BY <3>1 DEF NodeLeft
    <3> QED
      BY <3>1, <3>2, NodeStep
  <2>4. CASE Flush
    <3>1. node = "flush" /\ node' = "complete" /\ iteration' = iteration
      BY <2>4 DEF Flush
    <3>2. NodeLeft = 1 /\ NodeLeft' = 0
      BY <3>1 DEF NodeLeft
    <3> QED
      BY <3>1, <3>2, NodeStep
  <2>5. CASE ModelFails \/ FlushFails
    <3>1. node \notin Ended
      BY <2>5 DEF ModelFails, FlushFails, Ended
    <3> QED
      BY <2>5, <3>1, EndsStep DEF ModelFails, FlushFails, Ended
  <2> QED
    BY <1>1, <2>1, <2>2, <2>3, <2>4, <2>5 DEF Graph
<1>2. CASE Execute
  <2>1. ASSUME NEW tool \in Tools, Enter(tool) PROVE StepsLeft' < StepsLeft
    <3>1. call.pc = "idle" /\ call'.pc = "enter" /\ node = "executor" /\ UNCHANGED graph
      BY <2>1 DEF Enter
    <3>2. CallLeft = N + 7 /\ CallLeft' = N + 6 /\ N \in Nat
      BY <3>1, Sizes DEF CallLeft, PerCall
    <3> QED
      BY <3>1, <3>2, CallStep
  <2>2. CASE Audit
    <3>1. call.pc = "enter" /\ call'.pc = "audited" /\ node = "executor" /\ UNCHANGED graph
      BY <2>2, GotoType DEF Audit, TypeOK
    <3>2. CallLeft = N + 6 /\ CallLeft' = N + 5 /\ N \in Nat
      BY <3>1, Sizes DEF CallLeft
    <3> QED
      BY <3>1, <3>2, CallStep
  <2>3. CASE Denied \/ ToolFails \/ StatementFails
    <3>1. node = "executor" /\ call.pc # "idle" /\ Returns
      BY <2>3 DEF Denied, Deniable, ToolFails, StatementFails
    <3> QED
      BY <3>1, ReturnsStep
  <2>4. CASE EnsureFails \/ DenialFails
    <3>1. node \notin Ended
      BY <2>4 DEF EnsureFails, DenialFails, Deniable, Ended
    <3> QED
      BY <2>4, <3>1, EndsStep DEF EnsureFails, DenialFails, Ended
  <2> QED
    BY <1>2, <2>1, <2>2, <2>3, <2>4 DEF Execute
<1>3. CASE Handler
  <2> N \in Nat
    BY Sizes
  <2>1. CASE CheckUnknown \/ CheckCommit \/ LookupDone \/ WriteDone
    <3>1. node = "executor" /\ call.pc # "idle" /\ Returns
      BY <2>1 DEF CheckUnknown, CheckCommit, LookupDone, WriteDone, At
    <3> QED
      BY <3>1, ReturnsStep
  <2>2. CASE CrawlFetch
    <3>1. node = "executor" /\ UNCHANGED <<graph, call>> /\ used' = used + 1
      BY <2>2 DEF CrawlFetch, At, Send
    <3>2. CallLeft' = CallLeft /\ CallLeft \in Nat
      BY <3>1, LeftNatural DEF CallLeft
    <3>3. CallLeft' <= CallLeft
      BY <3>2
    <3> QED
      BY <3>1, <3>3, CallStep
  <2>3. CASE CrawlWrite \/ ActiveProbe \/ PocRead
    <3>1. call.pc = "audited" /\ call'.pc = "write" /\ node = "executor" /\ UNCHANGED graph
      BY <2>3, GotoType DEF CrawlWrite, ActiveProbe, PocRead, At, TypeOK
    <3>2. CallLeft = N + 5 /\ CallLeft' = 1
      BY <3>1 DEF CallLeft
    <3> QED
      BY <3>1, <3>2, CallStep
  <2>4. CASE CheckPage
    <3>1. call.pc = "audited" /\ call'.pc \in {"page", "fetch"} /\ node = "executor" /\ UNCHANGED graph
      BY <2>4, GotoType DEF CheckPage, At, TypeOK
    <3>2. CallLeft = N + 5 /\ CallLeft' \in {N + 3, N + 4}
      BY <3>1 DEF CallLeft
    <3> QED
      BY <3>1, <3>2, CallStep
  <2>5. CASE CheckFetch
    <3>1. /\ call.pc = "fetch" /\ call'.pc \in {"page", "fetch"} /\ node = "executor"
          /\ UNCHANGED graph /\ used' = used + 1
      BY <2>5, GotoType DEF CheckFetch, At, Send, TypeOK
    <3>2. CallLeft = N + 4 /\ CallLeft' \in {N + 3, N + 4}
      BY <3>1 DEF CallLeft
    <3>3. CallLeft' <= CallLeft
      BY <3>2
    <3> QED
      BY <3>1, <3>3, CallStep
  <2>6. CASE CheckRun
    <3>1. /\ call.pc = "page" /\ call'.pc = "persist" /\ call'.drafts \in SUBSET Fingerprints
          /\ node = "executor" /\ UNCHANGED graph
      BY <2>6 DEF CheckRun, At, TypeOK, Call
    <3>2. Cardinality(call'.drafts) \in 0..N
      BY <3>1, Sizes
    <3>3. CallLeft = N + 3 /\ CallLeft' = Cardinality(call'.drafts) + 1
      BY <3>1 DEF CallLeft
    <3> QED
      BY <3>1, <3>2, <3>3, CallStep
  <2>7. ASSUME NEW f \in Fingerprints, PersistDraft(f) PROVE StepsLeft' < StepsLeft
    <3>1. /\ call.pc = "persist" /\ call'.pc = "persist" /\ f \in call.drafts
          /\ call'.drafts = call.drafts \ {f} /\ call.drafts \in SUBSET Fingerprints
          /\ node = "executor" /\ UNCHANGED graph
      BY <2>7 DEF PersistDraft, At, TypeOK, Call
    <3>2. Cardinality(call'.drafts) = Cardinality(call.drafts) - 1 /\ Cardinality(call.drafts) \in Nat
      BY <3>1, Sizes
    <3>3. CallLeft = Cardinality(call.drafts) + 1 /\ CallLeft' = Cardinality(call'.drafts) + 1
      BY <3>1 DEF CallLeft
    <3> QED
      BY <3>1, <3>2, <3>3, CallStep
  <2> QED
    BY <1>3, <2>1, <2>2, <2>3, <2>4, <2>5, <2>6, <2>7 DEF Handler
<1>4. CASE Stop \/ Cancel
  <2>1. node \notin Ended
    BY <1>4 DEF Stop, Cancel, Ended
  <2> QED
    BY <1>4, <2>1, EndsStep DEF Stop, Cancel, Ended
<1>5. CASE LoseScan \/ \E f \in Fingerprints : OtherAttempt(f)
  <2>1. UNCHANGED <<graph, call>>
    BY <1>5 DEF LoseScan, OtherAttempt
  <2>2. LoopLeft' = LoopLeft /\ NodeLeft' = NodeLeft
    BY <2>1 DEF graph, LoopLeft, NodeLeft, CallLeft
  <2>3. LoopLeft \in Nat /\ NodeLeft \in Nat
    BY LeftNatural
  <2>4. LoopLeft' + NodeLeft' <= LoopLeft + NodeLeft
    <3>1. LoopLeft + NodeLeft <= LoopLeft + NodeLeft
      BY <2>3, Sums
    <3> QED
      BY <2>2, <3>1
  <2>5. OthersLeft' < OthersLeft
    <3>1. CASE LoseScan
      <4>1. ~lost /\ lost' /\ stored' = stored
        BY <3>1 DEF LoseScan
      <4>2. Cardinality(Fingerprints \ stored) \in Nat
        BY Sizes
      <4> QED
        BY <4>1, <4>2 DEF OthersLeft
    <3>2. ASSUME NEW f \in Fingerprints, OtherAttempt(f) PROVE OthersLeft' < OthersLeft
      <4>1. f \notin stored /\ stored' = stored \cup {f} /\ lost' = lost
        BY <3>2 DEF OtherAttempt
      <4>2. /\ Fingerprints \ stored' = (Fingerprints \ stored) \ {f} /\ f \in Fingerprints \ stored
            /\ Fingerprints \ stored \in SUBSET Fingerprints
        BY <4>1
      <4>3. /\ Cardinality(Fingerprints \ stored') = Cardinality(Fingerprints \ stored) - 1
            /\ Cardinality(Fingerprints \ stored) \in Nat
        BY <4>2, Sizes
      <4> QED
        BY <4>1, <4>3 DEF OthersLeft
    <3> QED
      BY <1>5, <3>1, <3>2
  <2> QED
    BY <2>4, <2>5, OneLower
<1> QED
  BY <1>1, <1>2, <1>3, <1>4, <1>5 DEF Next

\* Whatever the model plans and answers (planner_node, critic_node), whichever calls fail
\* and whatever another attempt stores meanwhile, every step brings the run closer to its
\* end, and there are at most StepsLeft of them: the iterations, the calls of a plan, the
\* request budget and the findings of a check bound each other.
THEOREM EveryStepIsNearer ==
  ASSUME IsFiniteSet(Fingerprints)
  PROVE  Spec => [](StepsLeft \in Nat) /\ [][StepsLeft' < StepsLeft]_vars
<1>1. IInv => StepsLeft \in Nat
  BY LeftNatural DEF IInv
<1>2. IInv /\ [Next]_vars => [StepsLeft' < StepsLeft]_vars
  BY EveryStep
<1> QED
  BY <1>1, <1>2, Invariant, PTL DEF Spec
=============================================================================
