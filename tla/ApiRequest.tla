----------------------------- MODULE ApiRequest -----------------------------
(***************************************************************************)
(* A request to /api/v1 and what replicas of the API share in Redis: the   *)
(* sliding window per client and the daily counter per organisation        *)
(* (api/middleware/rate_limit.py), and the report view tokens              *)
(* (api/services/report_tokens.py).                                        *)
(*                                                                         *)
(* The middleware runs the handler inside its own try: an exception of the *)
(* handler is taken for one of Redis, and a deployment that fails open     *)
(* runs the handler again.  The body of the request is gone by then, so a  *)
(* handler with a body waits for it until the client leaves.               *)
(*                                                                         *)
(* Two handlers stand for the others: POST /scans, which has a body and    *)
(* asks the daily counter, and GET /scans/{id}/report?token=, which has    *)
(* none.  All requests are of one client and one organisation.             *)
(*                                                                         *)
(* The keys of Redis expire by its clock.  Every replica reads a clock of  *)
(* its own, for the stamp of a request and for the date of a scan, and any *)
(* time may pass between that and the script: nothing in the code bounds   *)
(* it.                                                                     *)
(***************************************************************************)
EXTENDS Integers, FiniteSets

CONSTANTS
  Creates, Views,  \* requests to POST /scans and to GET /scans/{id}/report?token=
  Tokens,          \* report view tokens that may be issued
  TokenOf,         \* the token that a report request carries
  Limit,           \* rate_limit_requests_per_minute
  Window,          \* WINDOW_SECONDS
  PerDay,          \* rate_limit_scans_per_day
  Day,             \* DAY_SECONDS
  Skews,           \* how far the clock of a replica may be ahead of that of Redis
  MaxRequests,     \* bound: requests that come
  MaxClock         \* bound: time

ASSUME ApiAssumption ==
  /\ Creates \cap Views = {} /\ TokenOf \in [Views -> Tokens]
  /\ Limit \in Nat \ {0} /\ Window \in Nat \ {0} /\ PerDay \in Nat /\ Day \in Nat \ {0}
  /\ Skews \subseteq Int /\ MaxRequests \in Nat /\ MaxClock \in Nat

VARIABLES
  failOpen,  \* rate_limit_fail_open, a setting
  clock,     \* of Redis
  window,    \* the sorted set of the client: members with their scores
  expires,   \* when its key expires
  counters,  \* the daily counters, by date
  tokens,    \* the report_view keys
  issued,    \* history: tokens ever issued
  requests,  \* what the API does about each request
  scripts,   \* history: runs of the window script and what they decided
  scans,     \* history: scans committed, with the request and the date they count for
  served     \* history: report requests that were served a report

vars == <<failOpen, clock, window, expires, counters, tokens, issued, requests, scripts, scans,
          served>>
redis == <<window, expires, counters, tokens, issued>>
history == <<scripts, scans, served>>

-----------------------------------------------------------------------------
(* Types *)

\* The requests that client_ip assigns to the client.
Requests == Creates \cup Views
Dates == 0..(MaxClock \div Day)

\* guarded: the handler runs inside the try of the middleware.  metered: the daily counter
\* let the request through, at the time at, not the fail-open policy.
Request ==
  [pc : {"new", "stamped", "date", "count", "store", "consume", "serve", "reply", "done"},
   stamp : 0..MaxClock, date : Dates, guarded : BOOLEAN, metered : BOOLEAN,
   at : 0..MaxClock, answer : {"none", "ok", "limited", "error"}]
Fresh == [pc |-> "new", stamp |-> 0, date |-> 0, guarded |-> FALSE, metered |-> FALSE,
          at |-> 0, answer |-> "none"]
Member == [score : 0..MaxClock, id : Requests]
\* at: when Redis ran the script.
ScriptRun == [request : Requests, stamp : 0..MaxClock, at : 0..MaxClock, recorded : BOOLEAN,
              passed : BOOLEAN]

\* made: when the counter was made, which is when its time to live was set.
Counter == [count : Nat, made : 0..MaxClock]

TypeOK ==
  /\ failOpen \in BOOLEAN /\ clock \in 0..MaxClock
  /\ window \subseteq Member /\ Cardinality(window) <= Limit
  /\ expires \in 0..(MaxClock + Window + 1)
  /\ counters \in [Dates -> Counter] /\ tokens \subseteq issued /\ issued \subseteq Tokens
  /\ requests \in [Requests -> Request]
  /\ scripts \subseteq ScriptRun
  /\ scans \subseteq [request : Creates, date : Dates, metered : BOOLEAN, at : 0..MaxClock]
  /\ served \subseteq Views

-----------------------------------------------------------------------------
(* Steps of a request *)

At(r, pc) == requests[r].pc = pc
Goes(r, pc) == requests' = [requests EXCEPT ![r].pc = pc]
Answers(r, answer) ==
  requests' = [requests EXCEPT ![r] = [Fresh EXCEPT !.pc = "done", !.answer = answer]]

\* What the clocks of the replicas may show at time t.
Clocks(t) == {t + skew : skew \in Skews} \cap 0..MaxClock

\* call_next: the handler starts.
Handler(r) == IF r \in Creates THEN "date" ELSE "consume"
Enters(r, guarded) ==
  requests' = [requests EXCEPT ![r] = [Fresh EXCEPT !.pc = Handler(r), !.guarded = guarded]]

\* Redis did not answer, or so it seems: fail open, outside the try, or refuse.
Unavailable(r) == IF failOpen THEN Enters(r, FALSE) ELSE Answers(r, "error")

-----------------------------------------------------------------------------
(* The sliding window *)

Stamp(r) ==
  /\ At(r, "new") /\ Cardinality({q \in Requests : ~At(q, "new")}) < MaxRequests
  /\ \E now \in Clocks(clock) : requests' = [requests EXCEPT ![r].pc = "stamped", ![r].stamp = now]
  /\ UNCHANGED <<failOpen, clock, redis, history>>

PresentVariant(now) ==         \* the score at the start of the window stays
  IF clock >= expires THEN {} ELSE {m \in window : m.score >= now - Window}
\* The script prunes up to the start of the window of the request it runs for.
Present(now) == IF clock >= expires THEN {} ELSE {m \in window : m.score > now - Window}

MemberOf(r) == [score |-> requests[r].stamp, id |-> r]

\* The slots left after recording the request: 0 for the last slot as for a refusal.
Left(r) == LET count == Cardinality(Present(requests[r].stamp))
           IN IF count >= Limit THEN 0 ELSE Limit - count - 1
RecordedVariant(r) == Cardinality(Present(requests[r].stamp)) <= Limit
Recorded(r) == Cardinality(Present(requests[r].stamp)) < Limit

LifetimeVariant == Window      \* the key does not outlive the window
\* What EXPIRE is given.
Lifetime == Window + 1

Script(r) ==
  /\ At(r, "stamped")
  /\ window' = Present(requests[r].stamp) \cup (IF Recorded(r) THEN {MemberOf(r)} ELSE {})
  /\ expires' = IF Recorded(r) THEN clock + Lifetime ELSE expires
  /\ scripts' = scripts \cup {[request |-> r, stamp |-> requests[r].stamp, at |-> clock,
                               recorded |-> Recorded(r), passed |-> Left(r) > 0]}
  /\ IF Left(r) > 0 THEN Enters(r, TRUE) ELSE Answers(r, "limited")
  /\ UNCHANGED <<failOpen, clock, counters, tokens, issued, scans, served>>

ScriptFails(r) ==
  /\ At(r, "stamped")
  /\ Unavailable(r)
  /\ UNCHANGED <<failOpen, clock, redis, history>>

RaiseVariant(r) ==             \* the body is kept: the handler with a body runs again too
  /\ requests[r].pc \in {"date", "count", "store", "consume", "serve", "reply"}
  /\ IF requests[r].guarded THEN Unavailable(r) ELSE Answers(r, "error")
  /\ UNCHANGED <<failOpen, clock, redis, history>>
\* The handler raises: 500 outside the try, 503 where the deployment fails closed, and
\* otherwise it runs again, which ends with 400 for a handler with a body.
Raise(r) ==
  /\ requests[r].pc \in {"date", "count", "store", "consume", "serve", "reply"}
  /\ IF requests[r].guarded /\ r \in Views THEN Unavailable(r) ELSE Answers(r, "error")
  /\ UNCHANGED <<failOpen, clock, redis, history>>

-----------------------------------------------------------------------------
(* POST /scans *)

\* check_scan_daily_limit reads the date, before Redis is asked.
ReadDate(r) ==
  /\ At(r, "date")
  /\ \E now \in Clocks(clock) :
       requests' = [requests EXCEPT ![r].pc = "count", ![r].date = now \div Day]
  /\ UNCHANGED <<failOpen, clock, redis, history>>

\* What the script of the counter returns for the request that it counts as count.
DailyLeft(count) == IF count > PerDay THEN 0 ELSE PerDay - count + 1

\* The key is there until a day after the call that made it.
Live(date) == counters[date].count > 0 /\ clock < counters[date].made + Day
\* INCR, and EXPIRE when the key is new.
Incremented(date) ==
  IF Live(date) THEN [counters[date] EXCEPT !.count = @ + 1] ELSE [count |-> 1, made |-> clock]

\* The script, which lets the call through or not.
Counts(r, passed) ==
  /\ At(r, "count")
  /\ counters' = [counters EXCEPT ![requests[r].date] = Incremented(requests[r].date)]
  /\ IF passed THEN requests' = [requests EXCEPT ![r].pc = "store", ![r].metered = TRUE,
                                                 ![r].at = clock]
               ELSE Answers(r, "limited")
  /\ UNCHANGED <<failOpen, clock, window, expires, tokens, issued, history>>

CountVariant(r) ==             \* INCR is compared before it counts the request
  Counts(r, DailyLeft(Incremented(requests[r].date).count - 1) > 0)
\* check_scan_daily_limit: every call counts, also one that is refused or fails later.
Count(r) == Counts(r, DailyLeft(Incremented(requests[r].date).count) > 0)

CountFails(r) ==
  /\ At(r, "count")
  /\ IF failOpen THEN Goes(r, "store") ELSE Answers(r, "limited")
  /\ UNCHANGED <<failOpen, clock, redis, history>>

\* The commit; enqueueing, its compensation and the refresh of the row may still raise.
Store(r) ==
  /\ At(r, "store")
  /\ scans' = scans \cup {[request |-> r, date |-> requests[r].date,
                           metered |-> requests[r].metered, at |-> requests[r].at]}
  /\ Goes(r, "reply")
  /\ UNCHANGED <<failOpen, clock, redis, scripts, served>>

Reply(r) ==
  /\ At(r, "reply")
  /\ \E answer \in {"ok", "error"} : Answers(r, answer)
  /\ UNCHANGED <<failOpen, clock, redis, history>>

-----------------------------------------------------------------------------
(* Report view tokens *)

\* A token is random: it is never issued again.
SetToken(k) ==
  /\ k \notin issued
  /\ issued' = issued \cup {k} /\ tokens' = tokens \cup {k}

\* POST /scans/{id}/report/view-token.
Issue(k) ==
  /\ SetToken(k)
  /\ UNCHANGED <<failOpen, clock, window, expires, counters, requests, history>>

\* Its time to live has passed.
ExpireToken(k) ==
  /\ k \in tokens
  /\ tokens' = tokens \ {k}
  /\ UNCHANGED <<failOpen, clock, window, expires, counters, issued, requests, history>>

ConsumeVariant(r) ==           \* GET without DEL
  /\ At(r, "consume")
  /\ IF TokenOf[r] \in tokens THEN Goes(r, "serve") ELSE Answers(r, "error")
  /\ UNCHANGED <<failOpen, clock, redis, history>>
\* GETDEL: the token is gone whatever becomes of the request.
Consume(r) ==
  /\ At(r, "consume")
  /\ tokens' = tokens \ {TokenOf[r]}
  /\ IF TokenOf[r] \in tokens THEN Goes(r, "serve") ELSE Answers(r, "error")
  /\ UNCHANGED <<failOpen, clock, window, expires, counters, issued, history>>

Shown(r) == Answers(r, "ok") /\ served' = served \cup {r}
NotReady(r) == Answers(r, "error") /\ UNCHANGED served

\* The token is for this scan and format and the report is there, or not.
Serve(r) ==
  /\ At(r, "serve")
  /\ Shown(r) \/ NotReady(r)
  /\ UNCHANGED <<failOpen, clock, redis, scripts, scans>>

-----------------------------------------------------------------------------
(* Specification *)

Tick ==
  /\ clock < MaxClock
  /\ clock' = clock + 1
  /\ UNCHANGED <<failOpen, redis, requests, history>>

Init ==
  /\ failOpen \in BOOLEAN /\ clock = 0
  /\ window = {} /\ expires = 0 /\ counters = [d \in Dates |-> [count |-> 0, made |-> 0]]
  /\ tokens = {} /\ issued = {}
  /\ requests = [r \in Requests |-> Fresh]
  /\ scripts = {} /\ scans = {} /\ served = {}

RateLimit(r) == Stamp(r) \/ Script(r) \/ ScriptFails(r) \/ Raise(r)
Create(r) == ReadDate(r) \/ Count(r) \/ CountFails(r) \/ Store(r) \/ Reply(r)
View(r) == Consume(r) \/ Serve(r)

Next ==
  \/ \E r \in Requests : RateLimit(r)
  \/ \E r \in Creates : Create(r)
  \/ \E r \in Views : View(r)
  \/ \E k \in Tokens : Issue(k) \/ ExpireToken(k)
  \/ Tick

Spec == Init /\ [][Next]_vars

-----------------------------------------------------------------------------
(* Properties *)

\* Requests of several replicas reach the window out of order, late and with equal stamps.
\* Still fewer than Limit of those pass in the window that ends at the latest stamp seen
\* whose scripts run as long after their stamps, to a second: that second is all that the
\* key outlives the window for.  The clocks may be any fixed time apart.
BurstBounded ==
  \A last \in scripts, lag \in (-MaxClock)..MaxClock :
    (\A s \in scripts : s.stamp <= last.stamp) =>
      Cardinality({s \in scripts : /\ s.passed /\ s.stamp > last.stamp - Window
                                   /\ s.at - s.stamp \in lag..(lag + 1)}) < Limit

\* Nobody is refused without Limit - 1 other requests recorded after the start of his
\* window: pruning and expiry give back every slot in time.
RefusalsEarned ==
  \A r \in scripts :
    ~r.passed =>
      Cardinality({s \in scripts \ {r} : s.recorded /\ s.stamp > r.stamp - Window}) >= Limit - 1

\* The scans of a date that the counter lets through stay within the limit for a whole day
\* from the first moment that a replica may take for that date, whatever requests failed,
\* overlapped midnight or were run again.  A call that comes later may find that the counter
\* has expired, and a fresh one lets it through.
DailyBounded ==
  \A d \in Dates, from \in 0..MaxClock :
    (\A t \in 0..MaxClock : \A now \in Clocks(t) : now \div Day = d => from <= t) =>
      Cardinality({s \in scans : /\ s.metered /\ s.date = d
                                 /\ s.at \in from..(from + Day - 1)}) <= PerDay

\* A request creates one scan at most although its handler may raise after the commit,
\* and one that is told it exceeds a limit creates none.
CreateOnce ==
  /\ \A s, t \in scans : s.request = t.request => s = t
  /\ \A s \in scans : At(s.request, "done") => requests[s.request].answer # "limited"

\* A token serves one report, though two requests carry it at the same time, one of them
\* fails after the token is taken, or its handler runs again.
TokenOnce == \A r, q \in served : TokenOf[r] = TokenOf[q] => r = q
=============================================================================
