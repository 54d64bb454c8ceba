---------------------------- MODULE FollowedScan ----------------------------
(***************************************************************************)
(* A scan and the pages that follow it: ScanLifecycle, with what its       *)
(* actors publish after their commits, composed with the pages, streams    *)
(* and requests of ScanPage, which leaves the scan to a row that ends      *)
(* once.  Here the row is the one that the API, the workers and the reaper *)
(* update, an execution announces itself when it starts its agent, not     *)
(* when it claims, and only agents store findings.                         *)
(***************************************************************************)
EXTENDS ScanLifecycle, Sequences

CONSTANTS
  Pages,        \* browser pages that show the scan
  Slots,        \* bound: loads a page has in flight
  MaxFindings,  \* bound: findings of the scan
  MaxFeed       \* bound: frames on their way to a page

VARIABLES
  findings,  \* how many findings are committed
  due,       \* history: how many of them were when the scan ended, or are until then
  pending,   \* statuses with a publication to come, after their commit
  page       \* what each page shows, was told, and waits for

followedVars == <<vars, findings, due, pending, page>>

-----------------------------------------------------------------------------
(* What ScanPage takes for the scan *)

\* A page is opened once the scan is created.
row == IF scan.status = "absent" THEN "queued" ELSE scan.status
started == scan.attempts > 0
\* For ScanPage, a claim has announced the execution that it begins.
Starting(j) == run[j].pc \in {"authorize", "start"}
announced == pending \cup {s \in {"running"} : \E j \in Jobs : Starting(j)}

Follower == INSTANCE ScanPage
              WITH pending <- announced, Outcomes <- {"completed", "failed", "timed_out"}

-----------------------------------------------------------------------------
(* Publications: after the commit, by whoever changed the row *)

Quietly == UNCHANGED <<findings, due, pending, page>>
Publishing(s) == pending' = pending \cup {s} /\ UNCHANGED <<findings, due, page>>
IfChanged(s) == IF scan' = scan THEN Quietly ELSE Publishing(s)

AnnouncedStep ==
  \/ CancelScan /\ Publishing("cancelled")
  \/ \E j \in Jobs :
       \/ StartAgent(j) /\ Publishing("running")
       \/ FinalizeCompleted(j) /\ IfChanged("completed")
       \/ FinalizeTimedOut(j) /\ IfChanged("timed_out")
       \/ FailScan(j) /\ IfChanged("failed")
  \/ \E r \in Reapers :
       \/ ReapDeadline(r) /\ IfChanged("timed_out")
       \/ ReapWorkerLost(r) /\ IfChanged("failed")

\* A scan that fails in the queue is not announced.
QuietStep ==
  /\ \/ Tick
     \/ CreateScan \/ EnqueueAccepted \/ EnqueueRefused \/ Compensate \/ ApiCrash
     \/ \E j \in Jobs :
          \/ QueueStep(j) \/ Heartbeat(j) \/ Probe(j) \/ WorkerFault(j)
          \/ Claim(j) \/ SkipClaim(j) \/ Authorize(j) \/ FinishAgent(j)
          \/ DeadlineReached(j) \/ StopRun(j)
     \/ \E r \in Reapers :
          ReaperRead(r) \/ ReapQueueTimeout(r) \/ ReapRequeue(r) \/ ReaperAbort(r)
  /\ Quietly

\* A check of an agent that may have lost the scan stores a finding.
StoreFinding(j) ==
  /\ run[j].pc = "agent" /\ findings < MaxFindings
  /\ findings' = findings + 1
  /\ due' = IF scan.status = "running" THEN findings' ELSE due
  /\ UNCHANGED <<vars, pending, page>>

\* publish_event: to the streams subscribed now, or to nobody.  Two executions may both
\* have started their agents.
Deliver(s) ==
  /\ s \in pending
  /\ pending' = pending \ {s} \/ (s = "running" /\ pending' = pending)
  /\ \A p \in Pages : page[p].stream = "live" => Len(page[p].feed) < MaxFeed
  /\ page' = [p \in Pages |->
       IF page[p].stream = "live" THEN [page[p] EXCEPT !.feed = Append(@, s)] ELSE page[p]]
  /\ UNCHANGED <<vars, findings, due>>
\* Redis refuses it, or the process dies first.
Drop(s) ==
  /\ s \in pending /\ pending' = pending \ {s}
  /\ UNCHANGED <<vars, findings, due, page>>

-----------------------------------------------------------------------------
(* The pages *)

\* Only a cancellation reaches the row.
PageStep(p) ==
  /\ scan.status # "absent"
  /\ UNCHANGED <<vars, findings, due, pending>>
  /\ \/ Follower!Stream(p) \/ Follower!AskCancel(p) \/ Follower!TakeCancel(p)
     \/ \E l \in Slots :
          Follower!Poll(p, l) \/ Follower!Answer(p, l) \/ Follower!CancelFails(p, l)

AnswerCancel(p) ==
  /\ page[p].cancel = "sent"
  /\ \/ /\ CancelScan /\ pending' = pending \cup {"cancelled"}
        /\ Follower!Becomes(p, [page[p] EXCEPT !.cancel = "done"])
     \/ /\ scan.status \in Terminal /\ UNCHANGED <<vars, pending>>
        /\ Follower!Becomes(p, [page[p] EXCEPT !.cancel = "refused"])
  /\ UNCHANGED <<findings, due>>

-----------------------------------------------------------------------------
FollowedInit ==
  /\ Init
  /\ findings = 0 /\ due = 0 /\ pending = {}
  /\ page = [p \in Pages |->
       [shown |-> "nothing", told |-> "nothing", stream |-> "none", feed |-> <<>>,
        cancel |-> "no", loads |-> [l \in Slots |-> Follower!Idle]]]

FollowedNext ==
  \/ AnnouncedStep \/ QuietStep
  \/ \E j \in Jobs : StoreFinding(j)
  \/ \E s \in Follower!Status : Deliver(s) \/ Drop(s)
  \/ \E p \in Pages : PageStep(p) \/ AnswerCancel(p)

FollowedSpec == FollowedInit /\ [][FollowedNext]_followedVars

-----------------------------------------------------------------------------
(* Properties *)

\* The pages may take the lifecycle for the scan that ScanPage assumes: a row that is
\* claimed, ends once and is announced after it changed.
FollowsScan == Follower!Init /\ [][Follower!Next]_(Follower!vars)

Says(p, s) == page[p].shown = s \/ page[p].told = s

\* What a page shows or is told of an end is how the scan ended, and a scan shown or
\* announced as completed has its report: a reader who asks for it gets it.
EndsAreReal ==
  \A p \in Pages, s \in Terminal :
    Says(p, s) => scan.status = s /\ (s = "completed" => scan.reports = 1)

\* Once an end was shown or told to anybody, no page shows or is told another, and no late
\* worker, reaper or cancellation changes it, its error code or its report.
EndsAgree ==
  [][ \A p \in Pages, s \in Terminal : Says(p, s) =>
        /\ scan'.status = s /\ scan'.error = scan.error /\ scan'.reports = scan.reports
        /\ \A q \in Pages, other \in Terminal : Says(q, other)' => other = s ]_followedVars
=============================================================================
