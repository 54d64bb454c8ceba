------------------------------ MODULE ScanPage ------------------------------
(***************************************************************************)
(* The page of one scan in the browser (web/src/app/scans/[id]/page.tsx),  *)
(* and what it learns the status from: GET /scans/{id} and the findings,   *)
(* polled; and the event stream GET /scans/{id}/events, fed by what the    *)
(* API, the worker and the reaper publish after their commits.             *)
(*                                                                         *)
(* Every request is asked, answered from the committed rows, and taken by  *)
(* the page later, in any order with others, or lost.  Publications reach  *)
(* the streams subscribed at that moment, or nobody.                       *)
(*                                                                         *)
(* Left out: a scan that does not exist, a session that expires, events    *)
(* without a status, the agent's trace, and closing the page.              *)
(***************************************************************************)
EXTENDS Naturals, Sequences

CONSTANTS
  Pages,        \* browser pages that show the scan
  Slots,        \* bound: loads a page has in flight
  Outcomes,     \* how a worker or the reaper may end the running scan
  MaxFindings,  \* bound: findings of the scan
  MaxFeed       \* bound: frames on their way to a page

Terminal == {"completed", "failed", "cancelled", "timed_out"}

ASSUME PageAssumption ==
  /\ Outcomes \subseteq {"completed", "failed", "timed_out"}
  /\ MaxFindings \in Nat /\ MaxFeed \in Nat \ {0}

VARIABLES
  row,       \* the committed status of the scan
  started,   \* whether an execution has claimed the scan
  findings,  \* how many findings are committed
  due,       \* history: how many of them were when the scan ended, or are until then
  pending,   \* statuses with a publication to come, after their commit
  page       \* what each page shows, was told, and waits for

vars == <<row, started, findings, due, pending, page>>
scanVars == <<row, started, findings, due>>

-----------------------------------------------------------------------------
(* Types *)

Active == {"queued", "running"}
Status == Active \cup Terminal

\* One call of load(): GET /scans/{id}, then the findings.
Load == [phase : {"idle", "asked", "scan", "rest", "list"}, status : Status,
         list : 0..MaxFindings]
Idle == [phase |-> "idle", status |-> "queued", list |-> 0]
Asked == [Idle EXCEPT !.phase = "asked"]

\* shown is the status of the state variable scan, told the eventStatus of the hook.  A
\* stream is none while the hook connects, closed while it is disabled.
Page ==
  [shown : Status \cup {"nothing"}, told : Status \cup {"nothing"},
   stream : {"none", "snapped", "live", "ended", "closed"}, feed : Seq(Status),
   cancel : {"no", "sent", "done", "refused"}, loads : [Slots -> Load]]

TypeOK ==
  /\ row \in Status /\ started \in BOOLEAN /\ pending \subseteq Status
  /\ findings \in 0..MaxFindings /\ due \in 0..findings
  /\ page \in [Pages -> Page]
  /\ \A p \in Pages : /\ Len(page[p].feed) <= MaxFeed
                      /\ page[p].feed # <<>> => page[p].stream \in {"snapped", "live"}

-----------------------------------------------------------------------------
(* The scan *)

\* Each claim is followed by the event of a running scan, a claim of an orphan too.
Claim ==
  /\ row \in Active
  /\ row' = "running" /\ started' = TRUE /\ pending' = pending \cup {"running"}
  /\ UNCHANGED <<findings, due, page>>

\* A check stores a finding, possibly after another process ended the scan: the agent looks
\* at the row before a tool call only.
Persist ==
  /\ started /\ findings < MaxFindings
  /\ findings' = findings + 1
  /\ due' = IF row = "running" THEN findings' ELSE due
  /\ UNCHANGED <<row, started, pending, page>>

EndVariant(s) ==               \* publishes it whether it changed the row or not
  /\ row' = IF row = "running" THEN s ELSE row
  /\ pending' = pending \cup {s}
  /\ UNCHANGED <<started, findings, due, page>>
\* The worker or the reaper ends the running scan and publishes the end if it changed.
End(s) ==
  /\ row = "running"
  /\ row' = s /\ pending' = pending \cup {s}
  /\ UNCHANGED <<started, findings, due, page>>

\* The scan was not queued, or waited too long: nothing is published.
EndQueued ==
  /\ row = "queued"
  /\ row' = "failed"
  /\ UNCHANGED <<started, findings, due, pending, page>>

CancelElsewhere ==
  /\ row \in Active
  /\ row' = "cancelled" /\ pending' = pending \cup {"cancelled"}
  /\ UNCHANGED <<started, findings, due, page>>

-----------------------------------------------------------------------------
(* Publishing: best effort, after the commit *)

\* A scan ends once, but the event of a running scan may still come from another claim.
Publish(s) ==
  /\ s \in pending
  /\ \A p \in Pages : page[p].stream = "live" => Len(page[p].feed) < MaxFeed
  /\ pending' = pending \ {s} \/ (s = "running" /\ pending' = pending)
  /\ page' = [p \in Pages |->
       IF page[p].stream = "live" THEN [page[p] EXCEPT !.feed = Append(@, s)] ELSE page[p]]
  /\ UNCHANGED scanVars

\* Redis refuses it, or the process dies between the commit and the call.
Lose(s) ==
  /\ s \in pending
  /\ pending' = pending \ {s}
  /\ UNCHANGED <<scanVars, page>>

-----------------------------------------------------------------------------
(* The page: helpers *)

ShowsVariant(pg, s) == [pg EXCEPT !.shown = s, !.stream = IF s \in Terminal THEN "closed" ELSE @]
\* setScan.  The hook is enabled while the status shown is not terminal: its stream is
\* aborted when that changes, and opened anew should it change back.
Shows(pg, s) ==
  [pg EXCEPT !.shown = s,
             !.feed = IF s \in Terminal THEN <<>> ELSE @,
             !.stream = IF s \in Terminal THEN "closed" ELSE IF @ = "closed" THEN "none" ELSE @]

Free(p, l) == page[p].loads[l].phase = "idle"
Loads(pg, l) == [pg EXCEPT !.loads[l] = Asked]
Becomes(p, pg) == page' = [page EXCEPT ![p] = pg]

-----------------------------------------------------------------------------
(* The event stream of a page *)

OpenStream(p) ==
  /\ page[p].stream = "none"
  /\ Becomes(p, [page[p] EXCEPT !.stream = "snapped", !.feed = <<row>>])
  /\ UNCHANGED <<scanVars, pending>>

\* After a terminal snapshot the stream ends without a subscription.
Subscribe(p) ==
  /\ page[p].stream = "snapped"
  /\ \A i \in DOMAIN page[p].feed : page[p].feed[i] \notin Terminal
  /\ Becomes(p, [page[p] EXCEPT !.stream = "live"])
  /\ UNCHANGED <<scanVars, pending>>

\* The request is refused or the connection breaks: the hook does not connect again.
BreakStream(p) ==
  /\ page[p].stream \in {"none", "snapped", "live"}
  /\ Becomes(p, [page[p] EXCEPT !.stream = "ended", !.feed = <<>>])
  /\ UNCHANGED <<scanVars, pending>>

\* A frame is forwarded and read.  The server ends the stream after a terminal one.  A
\* status that differs from the last one makes the page load.
Receive(p) ==
  /\ page[p].feed # <<>>
  /\ LET s == Head(page[p].feed)
         ends == s \in Terminal
         read == [page[p] EXCEPT !.told = s,
                    !.feed = IF ends THEN <<>> ELSE Tail(@),
                    !.stream = IF ends THEN "ended" ELSE @]
     IN IF s = page[p].told THEN Becomes(p, read)
        ELSE \E l \in Slots : Free(p, l) /\ Becomes(p, Loads(read, l))
  /\ UNCHANGED <<scanVars, pending>>

-----------------------------------------------------------------------------
(* load() *)

PollVariant(p, l) ==           \* a page with a live stream does not poll
  /\ page[p].shown \notin Terminal /\ Free(p, l) /\ page[p].stream # "live"
  /\ Becomes(p, Loads(page[p], l))
  /\ UNCHANGED <<scanVars, pending>>
\* When the page is opened, and every three seconds until the scan is shown as ended.
Poll(p, l) ==
  /\ page[p].shown \notin Terminal /\ Free(p, l)
  /\ Becomes(p, Loads(page[p], l))
  /\ UNCHANGED <<scanVars, pending>>

AnswerScan(p, l) ==
  /\ page[p].loads[l].phase = "asked"
  /\ Becomes(p, [page[p] EXCEPT !.loads[l] = [@ EXCEPT !.phase = "scan", !.status = row]])
  /\ UNCHANGED <<scanVars, pending>>

TakeScan(p, l) ==
  /\ page[p].loads[l].phase = "scan"
  /\ Becomes(p, [Shows(page[p], page[p].loads[l].status) EXCEPT !.loads[l].phase = "rest"])
  /\ UNCHANGED <<scanVars, pending>>

AnswerListVariant(p, l) ==     \* the findings are asked for together with the scan
  /\ \/ /\ page[p].loads[l].phase = "asked"
        /\ Becomes(p, [page[p] EXCEPT !.loads[l].list = findings])
     \/ /\ page[p].loads[l].phase = "rest"
        /\ Becomes(p, [page[p] EXCEPT !.loads[l].phase = "list"])
  /\ UNCHANGED <<scanVars, pending>>
AnswerList(p, l) ==
  /\ page[p].loads[l].phase = "rest"
  /\ Becomes(p, [page[p] EXCEPT !.loads[l] = [@ EXCEPT !.phase = "list", !.list = findings]])
  /\ UNCHANGED <<scanVars, pending>>

\* The findings are shown; or a request fails before its answer arrives, what is shown
\* stays, and load() ends with an error.
EndLoad(p, l) ==
  /\ page[p].loads[l].phase \in {"asked", "rest", "list"}
  /\ Becomes(p, [page[p] EXCEPT !.loads[l] = Idle])
  /\ UNCHANGED <<scanVars, pending>>

-----------------------------------------------------------------------------
(* cancel() *)

AskCancel(p) ==
  /\ page[p].shown \in Active /\ page[p].cancel = "no"
  /\ Becomes(p, [page[p] EXCEPT !.cancel = "sent"])
  /\ UNCHANGED <<scanVars, pending>>

\* cancel_scan, up to its commit.
AnswerCancel(p) ==
  /\ page[p].cancel = "sent"
  /\ IF row \in Active
     THEN /\ row' = "cancelled" /\ pending' = pending \cup {"cancelled"}
          /\ Becomes(p, [page[p] EXCEPT !.cancel = "done"])
     ELSE /\ Becomes(p, [page[p] EXCEPT !.cancel = "refused"])
          /\ UNCHANGED <<row, pending>>
  /\ UNCHANGED <<started, findings, due>>

TakeCancelVariant(p) ==        \* any answer is shown as a cancellation
  /\ page[p].cancel \in {"done", "refused"}
  /\ Becomes(p, [Shows(page[p], "cancelled") EXCEPT !.cancel = "no"])
  /\ UNCHANGED <<scanVars, pending>>
\* The answer carries the scan and follows the publication.
TakeCancel(p) ==
  /\ page[p].cancel = "done" /\ "cancelled" \notin pending
  /\ Becomes(p, [Shows(page[p], "cancelled") EXCEPT !.cancel = "no"])
  /\ UNCHANGED <<scanVars, pending>>

\* The conflict, or a request that fails before or after it took effect: the page loads.
CancelFails(p, l) ==
  /\ page[p].cancel # "no" /\ Free(p, l)
  /\ Becomes(p, [Loads(page[p], l) EXCEPT !.cancel = "no"])
  /\ UNCHANGED <<scanVars, pending>>

-----------------------------------------------------------------------------
(* Specification *)

Init ==
  /\ row = "queued" /\ started = FALSE /\ findings = 0 /\ due = 0 /\ pending = {}
  /\ page = [p \in Pages |->
       [shown |-> "nothing", told |-> "nothing", stream |-> "none", feed |-> <<>>,
        cancel |-> "no", loads |-> [l \in Slots |-> Idle]]]

Scan == Claim \/ Persist \/ (\E s \in Outcomes : End(s)) \/ EndQueued \/ CancelElsewhere
Stream(p) == OpenStream(p) \/ Subscribe(p) \/ BreakStream(p) \/ Receive(p)
Answer(p, l) == AnswerScan(p, l) \/ TakeScan(p, l) \/ AnswerList(p, l) \/ EndLoad(p, l)
Cancel(p) == AskCancel(p) \/ AnswerCancel(p) \/ TakeCancel(p)

Next ==
  \/ Scan
  \/ \E s \in Status : Publish(s) \/ Lose(s)
  \/ \E p \in Pages : Stream(p) \/ Cancel(p)
  \/ \E p \in Pages, l \in Slots : Poll(p, l) \/ Answer(p, l) \/ CancelFails(p, l)

\* The interval fires, a request is answered or fails, and not all of them fail.  Nothing
\* is assumed of publications and streams: "live events are best-effort; the page also
\* polls".
Fairness ==
  \A p \in Pages :
    /\ WF_vars(\E l \in Slots : Poll(p, l))
    /\ WF_vars(AnswerCancel(p) \/ TakeCancel(p) \/ \E l \in Slots : CancelFails(p, l))
    /\ \A l \in Slots : WF_vars(Answer(p, l)) /\ SF_vars(AnswerScan(p, l))

Spec == Init /\ [][Next]_vars /\ Fairness

-----------------------------------------------------------------------------
(* Properties *)

\* A page that shows an end shows the one the scan has, though answers arrive in any
\* order and a cancellation may come second: it stops polling on the strength of it.
NoFalseEnd == \A p \in Pages : page[p].shown \in Terminal => page[p].shown = row

\* An end that is published, on its way to a page or told to one is committed: the load it
\* triggers finds the scan ended, and the server may end the stream on it.
EventsNotEarly ==
  /\ \A s \in pending \cap Terminal : s = row
  /\ \A p \in Pages :
       /\ page[p].told \in Terminal => page[p].told = row
       /\ \A i \in DOMAIN page[p].feed : page[p].feed[i] \in Terminal => page[p].feed[i] = row

\* A load that found the scan ended brings every finding stored until then: they are asked
\* for after the status was answered.  Nothing promises those a late worker still stores.
FinalListComplete ==
  \A p \in Pages, l \in Slots :
    page[p].loads[l].phase = "list" /\ page[p].loads[l].status \in Terminal
      => page[p].loads[l].list >= due

\* A page that stays open ends up showing how the scan ended, though the end may be
\* published to nobody, fall between snapshot and subscription, or come before an answer
\* that still says running.  Then it falls silent: no stream stays open on the server, no
\* request is repeated.
Settled(p) ==
  /\ page[p].shown \in Terminal
  /\ page[p].stream = "closed" /\ page[p].cancel = "no"
  /\ \A l \in Slots : Free(p, l)
PageSettles == \A p \in Pages : row \in Terminal ~> []Settled(p)
=============================================================================
