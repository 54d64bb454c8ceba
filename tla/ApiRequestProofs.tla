-------------------------- MODULE ApiRequestProofs --------------------------
(***************************************************************************)
(* The safety properties of ApiRequest hold for any number of requests and *)
(* tokens, any limits, any delays between reading a clock and asking Redis *)
(* and any clocks of the replicas.                                         *)
(***************************************************************************)
EXTENDS ApiRequest, FunctionTheorems, FiniteSetTheorems, TLAPS

USE ApiAssumption DEF ApiAssumption

-----------------------------------------------------------------------------
(* Steps of one request *)

Others(r) == \A q \in Requests : q # r => requests'[q] = requests[q]

LEMMA Fields ==
  ASSUME TypeOK, NEW r \in Requests
  PROVE  /\ requests[r] \in Request
         /\ requests[r].stamp \in 0..MaxClock /\ requests[r].date \in Dates
         /\ requests[r].metered \in BOOLEAN /\ requests[r].guarded \in BOOLEAN
         /\ requests[r].at \in 0..MaxClock
<1>1. requests[r] \in Request
  BY DEF TypeOK
<1> QED
  BY <1>1 DEF Request

LEMMA DateType ==
  ASSUME NEW t \in 0..MaxClock
  PROVE  t \div Day \in Dates
<1>1. t \in Int /\ MaxClock \in Int /\ Day \in Int /\ Day > 0 /\ 0 <= t /\ t <= MaxClock
  BY SMT
<1>2. t \div Day \in Int /\ MaxClock \div Day \in Int
  BY <1>1, SMT
<1>3. 0 <= t \div Day /\ t \div Day <= MaxClock \div Day
  BY <1>1, SMTT(30)
<1> QED
  BY <1>2, <1>3, SMT DEF Dates

LEMMA FreshFields ==
  /\ Fresh \in Request
  /\ Fresh.pc = "new" /\ Fresh.stamp = 0 /\ Fresh.date = 0
  /\ Fresh.guarded = FALSE /\ Fresh.metered = FALSE /\ Fresh.at = 0 /\ Fresh.answer = "none"
<1>1. 0 \in 0..MaxClock
  BY SMT
<1>2. 0 \in Dates
  <2>1. 0 \div Day = 0
    BY SMT
  <2> QED
    BY <1>1, <2>1, DateType
<1> QED
  BY <1>1, <1>2 DEF Fresh, Request

LEMMA AnswersStep ==
  ASSUME TypeOK, NEW r \in Requests, NEW a \in {"ok", "limited", "error"}, Answers(r, a)
  PROVE  /\ requests' \in [Requests -> Request] /\ Others(r)
         /\ requests'[r].pc = "done" /\ requests'[r].answer = a
<1> DEFINE new == [Fresh EXCEPT !.pc = "done", !.answer = a]
<1>1. new \in Request /\ new.pc = "done" /\ new.answer = a
  BY FreshFields DEF Request
<1>2. requests' = [requests EXCEPT ![r] = new] /\ requests \in [Requests -> Request]
  BY DEF Answers, TypeOK
<1> HIDE DEF new
<1> QED
  BY <1>1, <1>2 DEF Others

LEMMA EntersStep ==
  ASSUME TypeOK, NEW r \in Requests, NEW g \in BOOLEAN, Enters(r, g)
  PROVE  /\ requests' \in [Requests -> Request] /\ Others(r)
         /\ requests'[r].pc = Handler(r) /\ requests'[r].metered = FALSE
<1> DEFINE new == [Fresh EXCEPT !.pc = Handler(r), !.guarded = g]
<1>1. Handler(r) \in {"date", "consume"}
  BY DEF Handler
<1>2. new \in Request
  BY <1>1, FreshFields DEF Request
<1>3. new.pc = Handler(r) /\ new.metered = FALSE
  BY FreshFields DEF Request
<1>4. requests' = [requests EXCEPT ![r] = new] /\ requests \in [Requests -> Request]
  BY DEF Enters, TypeOK
<1> HIDE DEF new
<1> QED
  BY <1>2, <1>3, <1>4 DEF Others

\* A request goes on with another pc, and perhaps another stamp or the mark of the counter.
LEMMA PutStep ==
  ASSUME TypeOK, NEW r \in Requests, NEW new \in Request,
         requests' = [requests EXCEPT ![r] = new]
  PROVE  requests' \in [Requests -> Request] /\ Others(r) /\ requests'[r] = new
BY DEF TypeOK, Others

LEMMA GoesStep ==
  ASSUME TypeOK, NEW r \in Requests, NEW pc \in {"store", "serve", "reply"}, Goes(r, pc)
  PROVE  /\ requests' \in [Requests -> Request] /\ Others(r)
         /\ requests'[r].pc = pc /\ requests'[r].date = requests[r].date
         /\ requests'[r].metered = requests[r].metered /\ requests'[r].at = requests[r].at
<1> DEFINE new == [requests[r] EXCEPT !.pc = pc]
<1>1. requests[r] \in Request
  BY Fields
<1>2. /\ new \in Request /\ new.pc = pc /\ new.date = requests[r].date
      /\ new.metered = requests[r].metered /\ new.at = requests[r].at
  BY <1>1 DEF Request
<1>3. requests' = [requests EXCEPT ![r] = new]
  BY DEF Goes
<1> HIDE DEF new
<1> QED
  BY <1>2, <1>3, PutStep

\* What a request is after a step of it: begun anew, answered, or as the step says.
Begun(r) == requests'[r].pc = Handler(r) /\ requests'[r].metered = FALSE
Answered(r, a) == requests'[r].pc = "done" /\ requests'[r].answer = a
Moves(r) == requests' \in [Requests -> Request] /\ Others(r)

LEMMA StampEffect ==
  ASSUME TypeOK, NEW r \in Requests, Stamp(r)
  PROVE  Moves(r) /\ requests'[r].pc = "stamped"
<1>1. PICK now \in Clocks(clock) :
        requests' = [requests EXCEPT ![r].pc = "stamped", ![r].stamp = now]
  BY DEF Stamp
<1> DEFINE new == [requests[r] EXCEPT !.pc = "stamped", !.stamp = now]
<1>2. requests[r] \in Request /\ now \in 0..MaxClock
  BY Fields DEF Clocks
<1>3. new \in Request /\ new.pc = "stamped"
  BY <1>2 DEF Request
<1>4. requests' = [requests EXCEPT ![r] = new]
  BY <1>1
<1> HIDE DEF new
<1> QED
  BY <1>3, <1>4, PutStep DEF Moves

\* The date that a request counts for is read from a clock of now.
LEMMA ReadDateEffect ==
  ASSUME TypeOK, NEW r \in Requests, ReadDate(r)
  PROVE  /\ Moves(r) /\ requests'[r].pc = "count" /\ requests'[r].metered = requests[r].metered
         /\ \E now \in Clocks(clock) : requests'[r].date = now \div Day
<1>1. PICK now \in Clocks(clock) :
        requests' = [requests EXCEPT ![r].pc = "count", ![r].date = now \div Day]
  BY DEF ReadDate
<1> DEFINE date == now \div Day
           new == [requests[r] EXCEPT !.pc = "count", !.date = date]
<1>2. requests[r] \in Request /\ date \in Dates
  BY Fields, DateType DEF Clocks
<1>3. requests' = [requests EXCEPT ![r] = new]
  BY <1>1
<1> HIDE DEF date
<1>4. new \in Request /\ new.pc = "count" /\ new.date = date /\ new.metered = requests[r].metered
  BY <1>2 DEF Request
<1> HIDE DEF new
<1>5. Moves(r) /\ requests'[r] = new
  BY <1>3, <1>4, PutStep DEF Moves
<1> QED
  BY <1>4, <1>5 DEF date

LEMMA UnavailableEffect ==
  ASSUME TypeOK, NEW r \in Requests, Unavailable(r)
  PROVE  Moves(r) /\ (Begun(r) \/ Answered(r, "error"))
<1>1. CASE Enters(r, FALSE)
  BY <1>1, EntersStep DEF Moves, Begun
<1>2. CASE Answers(r, "error")
  BY <1>2, AnswersStep DEF Moves, Answered
<1> QED
  BY <1>1, <1>2 DEF Unavailable

LEMMA ScriptEffect ==
  ASSUME TypeOK, NEW r \in Requests, Script(r)
  PROVE  Moves(r) /\ (Begun(r) \/ Answered(r, "limited"))
<1>1. CASE Enters(r, TRUE)
  BY <1>1, EntersStep DEF Moves, Begun
<1>2. CASE Answers(r, "limited")
  BY <1>2, AnswersStep DEF Moves, Answered
<1> QED
  BY <1>1, <1>2 DEF Script

LEMMA RaiseEffect ==
  ASSUME TypeOK, NEW r \in Requests, Raise(r)
  PROVE  /\ Moves(r)
         /\ (Begun(r) /\ r \in Views) \/ Answered(r, "error")
<1>1. CASE requests[r].guarded /\ r \in Views
  BY <1>1, UnavailableEffect DEF Raise
<1>2. CASE ~(requests[r].guarded /\ r \in Views)
  <2>1. Answers(r, "error")
    BY <1>2 DEF Raise
  <2> QED
    BY <2>1, AnswersStep DEF Moves, Answered
<1> QED
  BY <1>1, <1>2

LEMMA IncrementedType ==
  ASSUME TypeOK, NEW d \in Dates
  PROVE  /\ counters[d] \in Counter /\ counters[d].count \in Nat
         /\ counters[d].made \in 0..MaxClock
         /\ Incremented(d) \in Counter /\ Incremented(d).count \in Nat
         /\ Live(d) => /\ Incremented(d).count = counters[d].count + 1
                       /\ Incremented(d).made = counters[d].made
         /\ ~Live(d) => Incremented(d).count = 1 /\ Incremented(d).made = clock
<1>1. counters[d] \in Counter /\ clock \in 0..MaxClock
  BY DEF TypeOK
<1>2. counters[d].count \in Nat /\ counters[d].made \in 0..MaxClock
  BY <1>1 DEF Counter
<1>3. counters[d].count + 1 \in Nat /\ 1 \in Nat
  BY <1>2, SMT
<1>4. CASE Live(d)
  BY <1>1, <1>2, <1>3, <1>4 DEF Incremented, Counter
<1>5. CASE ~Live(d)
  BY <1>1, <1>2, <1>3, <1>5 DEF Incremented, Counter
<1> QED
  BY <1>1, <1>2, <1>4, <1>5

LEMMA CountEffect ==
  ASSUME TypeOK, NEW r \in Requests, Count(r)
  PROVE  LET d == requests[r].date IN
           /\ Moves(r) /\ d \in Dates
           /\ counters' \in [Dates -> Counter] /\ counters'[d] = Incremented(d)
           /\ \A e \in Dates : e # d => counters'[e] = counters[e]
           /\ \/ /\ requests'[r].pc = "store" /\ requests'[r].metered = TRUE
                 /\ requests'[r].date = d /\ requests'[r].at = clock
                 /\ Incremented(d).count <= PerDay
              \/ Answered(r, "limited")
<1> DEFINE d == requests[r].date
           inc == Incremented(d)
           passed == DailyLeft(inc.count) > 0
           new == [requests[r] EXCEPT !.pc = "store", !.metered = TRUE, !.at = clock]
<1>1. /\ d \in Dates /\ requests[r] \in Request /\ counters \in [Dates -> Counter]
      /\ clock \in 0..MaxClock
  BY Fields DEF TypeOK
<1>2. counters' = [counters EXCEPT ![d] = inc]
  BY DEF Count, Counts
<1>3. inc \in Counter /\ inc.count \in Nat
  BY <1>1, IncrementedType
<1>4. /\ counters' \in [Dates -> Counter] /\ counters'[d] = inc
      /\ \A e \in Dates : e # d => counters'[e] = counters[e]
  <2> HIDE DEF inc, d
  <2> QED
    BY <1>1, <1>2, <1>3
<1>5. new \in Request /\ new.pc = "store" /\ new.metered = TRUE /\ new.date = d /\ new.at = clock
  BY <1>1 DEF Request
<1>6. CASE passed
  <2>1. requests' = [requests EXCEPT ![r] = new]
    BY <1>6 DEF Count, Counts
  <2>2. Moves(r) /\ requests'[r] = new
    <3> HIDE DEF new
    <3> QED
      BY <1>5, <2>1, PutStep DEF Moves
  <2>3. inc.count <= PerDay
    <3> HIDE DEF inc
    <3> QED
      BY <1>3, <1>6, SMT DEF DailyLeft
  <2> HIDE DEF new, d
  <2> QED
    BY <1>1, <1>4, <1>5, <2>2, <2>3 DEF d
<1>7. CASE ~passed
  <2>1. Answers(r, "limited")
    BY <1>7 DEF Count, Counts
  <2>2. Moves(r) /\ Answered(r, "limited")
    BY <2>1, AnswersStep DEF Moves, Answered
  <2> HIDE DEF d
  <2> QED
    BY <1>1, <1>4, <2>2 DEF d
<1> QED
  BY <1>6, <1>7

LEMMA CountFailsEffect ==
  ASSUME TypeOK, NEW r \in Requests, CountFails(r)
  PROVE  /\ Moves(r)
         /\ \/ requests'[r].pc = "store" /\ requests'[r].metered = requests[r].metered
            \/ Answered(r, "limited")
<1>1. CASE Goes(r, "store")
  BY <1>1, GoesStep DEF Moves
<1>2. CASE Answers(r, "limited")
  BY <1>2, AnswersStep DEF Moves, Answered
<1> QED
  BY <1>1, <1>2 DEF CountFails

LEMMA ReplyEffect ==
  ASSUME TypeOK, NEW r \in Requests, Reply(r)
  PROVE  Moves(r) /\ (Answered(r, "ok") \/ Answered(r, "error"))
BY AnswersStep DEF Reply, Moves, Answered

LEMMA ConsumeEffect ==
  ASSUME TypeOK, NEW r \in Requests, Consume(r)
  PROVE  /\ Moves(r) /\ tokens' = tokens \ {TokenOf[r]}
         /\ \/ TokenOf[r] \in tokens /\ requests'[r].pc = "serve"
            \/ Answered(r, "error")
<1>1. CASE TokenOf[r] \in tokens
  BY <1>1, GoesStep DEF Consume, Moves
<1>2. CASE TokenOf[r] \notin tokens
  BY <1>2, AnswersStep DEF Consume, Moves, Answered
<1> QED
  BY <1>1, <1>2 DEF Consume

LEMMA ServeEffect ==
  ASSUME TypeOK, NEW r \in Requests, Serve(r)
  PROVE  /\ Moves(r) /\ requests'[r].pc = "done"
         /\ served' = served \/ served' = served \cup {r}
<1>1. CASE Shown(r)
  BY <1>1, AnswersStep DEF Shown, Moves
<1>2. CASE NotReady(r)
  BY <1>2, AnswersStep DEF NotReady, Moves
<1> QED
  BY <1>1, <1>2 DEF Serve

-----------------------------------------------------------------------------
(* Type correctness *)

Finite == IsFiniteSet(window) /\ IsFiniteSet(scripts)

LEMMA PresentFacts ==
  ASSUME TypeOK, Finite, NEW now
  PROVE  /\ Present(now) \subseteq window /\ Present(now) \subseteq Member
         /\ IsFiniteSet(Present(now)) /\ Cardinality(Present(now)) \in Nat
<1>1. Present(now) \subseteq window
  BY DEF Present
<1>2. IsFiniteSet(Present(now))
  BY <1>1, FS_Subset DEF Finite
<1> QED
  BY <1>1, <1>2, FS_CardinalityType DEF TypeOK

\* Whether the script records a request, and whether it lets it pass.
LEMMA Decision ==
  ASSUME TypeOK, Finite, NEW r \in Requests
  PROVE  LET n == Cardinality(Present(requests[r].stamp)) IN
           /\ n \in Nat
           /\ Recorded(r) <=> n < Limit
           /\ Left(r) > 0 <=> n < Limit - 1
<1> DEFINE n == Cardinality(Present(requests[r].stamp))
<1>1. n \in Nat
  BY PresentFacts
<1>2. Recorded(r) <=> n < Limit
  BY DEF Recorded
<1>3. Left(r) = IF n >= Limit THEN 0 ELSE Limit - n - 1
  BY DEF Left
<1> HIDE DEF n
<1>4. Left(r) > 0 <=> n < Limit - 1
  BY <1>1, <1>3, SMT
<1> QED
  BY <1>1, <1>2, <1>4 DEF n

LEMMA WindowStep ==
  ASSUME TypeOK, Finite, NEW r \in Requests, Script(r)
  PROVE  /\ window' \subseteq Member /\ IsFiniteSet(window') /\ Cardinality(window') <= Limit
         /\ MemberOf(r) \in Member
<1> DEFINE P == Present(requests[r].stamp)
<1>1. /\ P \subseteq Member /\ IsFiniteSet(P) /\ Cardinality(P) \in Nat
      /\ P \subseteq window
  BY PresentFacts
<1>2. MemberOf(r) \in Member
  BY Fields DEF MemberOf, Member
<1>3. CASE Recorded(r)
  <2>1. window' = P \cup {MemberOf(r)}
    BY <1>3 DEF Script
  <2>2. Cardinality(P) < Limit
    BY <1>3 DEF Recorded
  <2>3. /\ IsFiniteSet(window')
        /\ Cardinality(window') = Cardinality(P) \/ Cardinality(window') = Cardinality(P) + 1
    BY <1>1, <2>1, FS_AddElement
  <2> HIDE DEF P
  <2>4. Cardinality(window') <= Limit
    BY <1>1, <2>2, <2>3, SMT
  <2> QED
    BY <1>1, <1>2, <2>1, <2>3, <2>4
<1>4. CASE ~Recorded(r)
  <2>1. window' = P
    BY <1>4 DEF Script
  <2>2. Cardinality(P) <= Cardinality(window)
    BY <1>1, FS_Subset DEF Finite
  <2>3. Cardinality(window) \in Nat /\ Cardinality(window) <= Limit
    BY FS_CardinalityType DEF Finite, TypeOK
  <2> HIDE DEF P
  <2>4. Cardinality(window') <= Limit
    BY <1>1, <2>1, <2>2, <2>3, SMT
  <2> QED
    BY <1>1, <1>2, <2>1, <2>4
<1> QED
  BY <1>3, <1>4

LEMMA ScriptType ==
  ASSUME TypeOK, Finite, NEW r \in Requests, Script(r)
  PROVE  TypeOK' /\ Finite'
<1> DEFINE run == [request |-> r, stamp |-> requests[r].stamp,
                   at |-> clock, recorded |-> Recorded(r), passed |-> Left(r) > 0]
<1>1. run \in ScriptRun
  BY Fields DEF ScriptRun, Recorded, TypeOK
<1>2. scripts' = scripts \cup {run}
  BY DEF Script
<1>3. scripts' \subseteq ScriptRun /\ IsFiniteSet(scripts')
  BY <1>1, <1>2, FS_AddElement DEF TypeOK, Finite
<1>4. expires' \in 0..(MaxClock + Window + 1)
  BY SMT DEF Script, Lifetime, TypeOK
<1>5. requests' \in [Requests -> Request]
  BY ScriptEffect DEF Moves
<1> QED
  BY <1>3, <1>4, <1>5, WindowStep DEF TypeOK, Finite, Script

\* The steps that leave the window and its script alone.
LEMMA OtherTypes ==
  ASSUME TypeOK, Finite, UNCHANGED <<failOpen, window, scripts>>,
         clock' \in 0..MaxClock, expires' = expires, counters' \in [Dates -> Counter],
         tokens' \subseteq issued', issued' \subseteq Tokens,
         requests' \in [Requests -> Request],
         scans' \subseteq [request : Creates, date : Dates, metered : BOOLEAN, at : 0..MaxClock],
         served' \subseteq Views
  PROVE  TypeOK' /\ Finite'
BY DEF TypeOK, Finite

LEMMA TypeStep ==
  ASSUME TypeOK, Finite, Next
  PROVE  TypeOK' /\ Finite'
<1> USE DEF redis, history
<1> /\ clock \in 0..MaxClock /\ counters \in [Dates -> Counter] /\ tokens \subseteq issued
    /\ issued \subseteq Tokens /\ requests \in [Requests -> Request]
    /\ scans \subseteq [request : Creates, date : Dates, metered : BOOLEAN, at : 0..MaxClock]
    /\ served \subseteq Views
  BY DEF TypeOK
<1>1. ASSUME NEW r \in Requests, RateLimit(r) PROVE TypeOK' /\ Finite'
  <2>1. CASE Stamp(r)
    BY <2>1, StampEffect, OtherTypes DEF Stamp, Moves
  <2>2. CASE Script(r)
    BY <2>2, ScriptType
  <2>3. CASE ScriptFails(r)
    BY <2>3, UnavailableEffect, OtherTypes DEF ScriptFails, Moves
  <2>4. CASE Raise(r)
    BY <2>4, RaiseEffect, OtherTypes DEF Raise, Moves
  <2> QED
    BY <1>1, <2>1, <2>2, <2>3, <2>4 DEF RateLimit
<1>2. ASSUME NEW r \in Creates, Create(r) PROVE TypeOK' /\ Finite'
  <2> r \in Requests
    BY DEF Requests
  <2>0. CASE ReadDate(r)
    BY <2>0, ReadDateEffect, OtherTypes DEF ReadDate, Moves
  <2>1. CASE Count(r)
    BY <2>1, CountEffect, OtherTypes DEF Count, Counts, Moves
  <2>2. CASE CountFails(r)
    BY <2>2, CountFailsEffect, OtherTypes DEF CountFails, Moves
  <2>3. CASE Store(r)
    <3>1. requests' \in [Requests -> Request]
      BY <2>3, GoesStep DEF Store
    <3>2. scans' \subseteq [request : Creates, date : Dates, metered : BOOLEAN, at : 0..MaxClock]
      BY <2>3, Fields DEF Store
    <3> QED
      BY <2>3, <3>1, <3>2, OtherTypes DEF Store
  <2>4. CASE Reply(r)
    BY <2>4, ReplyEffect, OtherTypes DEF Reply, Moves
  <2> QED
    BY <1>2, <2>0, <2>1, <2>2, <2>3, <2>4 DEF Create
<1>3. ASSUME NEW r \in Views, View(r) PROVE TypeOK' /\ Finite'
  <2> r \in Requests
    BY DEF Requests
  <2>1. CASE Consume(r)
    BY <2>1, ConsumeEffect, OtherTypes DEF Consume, Moves
  <2>2. CASE Serve(r)
    BY <2>2, ServeEffect, OtherTypes DEF Serve, Moves
  <2> QED
    BY <1>3, <2>1, <2>2 DEF View
<1>4. ASSUME NEW k \in Tokens, Issue(k) \/ ExpireToken(k) PROVE TypeOK' /\ Finite'
  BY <1>4, OtherTypes DEF Issue, SetToken, ExpireToken
<1>5. CASE Tick
  BY <1>5, OtherTypes, SMT DEF Tick
<1> QED
  BY <1>1, <1>2, <1>3, <1>4, <1>5 DEF Next

LEMMA InitType == Init => TypeOK /\ Finite
<1> SUFFICES ASSUME Init PROVE TypeOK /\ Finite
  OBVIOUS
<1>1. window = {} /\ scripts = {} /\ scans = {} /\ served = {} /\ tokens = {} /\ issued = {}
  BY DEF Init
<1>2. IsFiniteSet({}) /\ Cardinality({}) = 0
  BY FS_EmptySet
<1>3. requests \in [Requests -> Request] /\ counters \in [Dates -> Counter]
  <2>1. 0 \in 0..MaxClock /\ 0 \in Nat
    BY SMT
  <2> QED
    BY <2>1, FreshFields DEF Init, Counter
<1>4. /\ clock \in 0..MaxClock /\ expires \in 0..(MaxClock + Window + 1)
      /\ failOpen \in BOOLEAN /\ 0 <= Limit
  BY SMT DEF Init
<1> QED
  BY <1>1, <1>2, <1>3, <1>4 DEF TypeOK, Finite

-----------------------------------------------------------------------------
(* Creations *)

\* Who created a scan is about to answer, or did not answer that a limit was exceeded.
Past(r) ==
  \/ requests[r].pc = "reply"
  \/ requests[r].pc = "done" /\ requests[r].answer \in {"ok", "error"}
Created ==
  /\ \A s, t \in scans : s.request = t.request => s = t
  /\ \A s \in scans : Past(s.request)

LEMMA ScanRequests ==
  ASSUME TypeOK, NEW s \in scans
  PROVE  s.request \in Requests /\ s.request \in Creates /\ s.request \notin Views
<1>1. s.request \in Creates
  BY DEF TypeOK
<1> QED
  BY <1>1 DEF Requests

\* A step of a request keeps it if the request has no scan, or is past it also then.
LEMMA CreatedKept ==
  ASSUME TypeOK, Created, scans' = scans, NEW r \in Requests, Moves(r),
         r \in Views \/ ~Past(r) \/ Past(r)'
  PROVE  Created'
<1> SUFFICES ASSUME NEW s \in scans PROVE Past(s.request)'
  BY DEF Created
<1>1. s.request \in Creates /\ s.request \in Requests /\ s.request \notin Views
  BY ScanRequests
<1>2. Past(s.request)
  BY DEF Created
<1>3. CASE s.request # r
  BY <1>1, <1>2, <1>3 DEF Past, Moves, Others
<1>4. CASE s.request = r
  BY <1>1, <1>2, <1>4
<1> QED
  BY <1>3, <1>4

LEMMA CreatedStep ==
  ASSUME TypeOK, Created, Next
  PROVE  Created'
<1> USE DEF history
<1>1. ASSUME NEW r \in Requests, RateLimit(r) PROVE Created'
  <2>1. CASE Stamp(r)
    BY <2>1, StampEffect, CreatedKept DEF Stamp, At, Past
  <2>2. CASE Script(r)
    BY <2>2, ScriptEffect, CreatedKept DEF Script, At, Past
  <2>3. CASE ScriptFails(r)
    BY <2>3, UnavailableEffect, CreatedKept DEF ScriptFails, At, Past
  <2>4. CASE Raise(r)
    <3>1. Moves(r) /\ (r \in Views \/ Past(r)')
      BY <2>4, RaiseEffect DEF Answered, Past
    <3> QED
      BY <2>4, <3>1, CreatedKept DEF Raise
  <2> QED
    BY <1>1, <2>1, <2>2, <2>3, <2>4 DEF RateLimit
<1>2. ASSUME NEW r \in Creates, Create(r) PROVE Created'
  <2> r \in Requests
    BY DEF Requests
  <2>0. CASE ReadDate(r)
    <3>1. Moves(r) /\ ~Past(r) /\ scans' = scans
      BY <2>0, ReadDateEffect DEF ReadDate, At, Past
    <3> QED
      BY <3>1, CreatedKept
  <2>1. CASE Count(r)
    <3>1. Moves(r) /\ ~Past(r) /\ scans' = scans
      BY <2>1, CountEffect DEF Count, Counts, At, Past
    <3> QED
      BY <3>1, CreatedKept
  <2>2. CASE CountFails(r)
    <3>1. Moves(r) /\ ~Past(r) /\ scans' = scans
      BY <2>2, CountFailsEffect DEF CountFails, At, Past
    <3> QED
      BY <3>1, CreatedKept
  <2>3. CASE Store(r)
    <3> DEFINE new == [request |-> r, date |-> requests[r].date,
                       metered |-> requests[r].metered, at |-> requests[r].at]
    <3>1. scans' = scans \cup {new} /\ new.request = r /\ ~Past(r)
      BY <2>3 DEF Store, At, Past
    <3>2. Moves(r) /\ requests'[r].pc = "reply"
      BY <2>3, GoesStep DEF Store, Moves
    <3> HIDE DEF new
    <3>3. \A s \in scans : s.request # r
      BY <3>1 DEF Created
    <3>4. \A s \in scans : Past(s.request)'
      BY <3>2, <3>3, ScanRequests DEF Created, Past, Moves, Others
    <3>5. Past(r)'
      BY <3>2 DEF Past
    <3> QED
      BY <3>1, <3>3, <3>4, <3>5 DEF Created
  <2>4. CASE Reply(r)
    <3>1. Moves(r) /\ Past(r)'
      BY <2>4, ReplyEffect DEF Answered, Past
    <3> QED
      BY <2>4, <3>1, CreatedKept DEF Reply
  <2> QED
    BY <1>2, <2>0, <2>1, <2>2, <2>3, <2>4 DEF Create
<1>3. ASSUME NEW r \in Views, View(r) PROVE Created'
  <2> r \in Requests
    BY DEF Requests
  <2>1. CASE Consume(r)
    BY <2>1, ConsumeEffect, CreatedKept DEF Consume
  <2>2. CASE Serve(r)
    BY <2>2, ServeEffect, CreatedKept DEF Serve
  <2> QED
    BY <1>3, <2>1, <2>2 DEF View
<1>4. ASSUME UNCHANGED <<requests, scans>> PROVE Created'
  BY <1>4 DEF Created, Past
<1> QED
  BY <1>1, <1>2, <1>3, <1>4 DEF Next, Issue, ExpireToken, Tick

-----------------------------------------------------------------------------
(* Report view tokens *)

\* Who took a token, and may show a report for it or did.
Took(r) == requests[r].pc = "serve" \/ r \in served
Redeemed ==
  /\ \A r \in Views : Took(r) => TokenOf[r] \in issued \ tokens
  /\ \A r, q \in Views : Took(r) /\ Took(q) /\ TokenOf[r] = TokenOf[q] => r = q

LEMMA RedeemedKept ==
  ASSUME Redeemed, \A r \in Views : Took(r)' => Took(r),
         issued \subseteq issued', \A k \in issued : k \in tokens' => k \in tokens
  PROVE  Redeemed'
BY DEF Redeemed

\* A step of a request that does not take a token.
LEMMA TookKept ==
  ASSUME TypeOK, Redeemed, NEW r \in Requests, Moves(r), requests'[r].pc # "serve",
         UNCHANGED <<issued, served>>, tokens' \subseteq tokens
  PROVE  Redeemed'
<1>1. ASSUME NEW q \in Views, Took(q)' PROVE Took(q)
  <2>1. q \in Requests
    BY DEF Requests
  <2> QED
    BY <1>1, <2>1 DEF Took, Moves, Others
<1> QED
  BY <1>1, RedeemedKept

LEMMA RedeemedStep ==
  ASSUME TypeOK, Redeemed, Next
  PROVE  Redeemed'
<1> USE DEF history, redis
<1> \A r : Handler(r) # "serve"
  BY DEF Handler
<1>1. ASSUME NEW r \in Requests, RateLimit(r) PROVE Redeemed'
  <2>1. CASE Stamp(r)
    BY <2>1, StampEffect, TookKept DEF Stamp
  <2>2. CASE Script(r)
    BY <2>2, ScriptEffect, TookKept DEF Script, Begun, Answered
  <2>3. CASE ScriptFails(r)
    BY <2>3, UnavailableEffect, TookKept DEF ScriptFails, Begun, Answered
  <2>4. CASE Raise(r)
    BY <2>4, RaiseEffect, TookKept DEF Raise, Begun, Answered
  <2> QED
    BY <1>1, <2>1, <2>2, <2>3, <2>4 DEF RateLimit
<1>2. ASSUME NEW r \in Creates, Create(r) PROVE Redeemed'
  <2> r \in Requests
    BY DEF Requests
  <2>0. CASE ReadDate(r)
    BY <2>0, ReadDateEffect, TookKept DEF ReadDate
  <2>1. CASE Count(r)
    <3>1. Moves(r) /\ requests'[r].pc # "serve" /\ UNCHANGED <<issued, served, tokens>>
      BY <2>1, CountEffect DEF Count, Counts, Answered
    <3> QED
      BY <3>1, TookKept
  <2>2. CASE CountFails(r)
    <3>1. Moves(r) /\ requests'[r].pc # "serve" /\ UNCHANGED <<issued, served, tokens>>
      BY <2>2, CountFailsEffect DEF CountFails, Answered
    <3> QED
      BY <3>1, TookKept
  <2>3. CASE Store(r)
    <3>1. Moves(r) /\ requests'[r].pc # "serve"
      BY <2>3, GoesStep DEF Store, Moves
    <3> QED
      BY <2>3, <3>1, TookKept DEF Store
  <2>4. CASE Reply(r)
    BY <2>4, ReplyEffect, TookKept DEF Reply, Answered
  <2> QED
    BY <1>2, <2>0, <2>1, <2>2, <2>3, <2>4 DEF Create
<1>3. ASSUME NEW r \in Views, View(r) PROVE Redeemed'
  <2> r \in Requests
    BY DEF Requests
  <2>1. CASE Consume(r) /\ requests'[r].pc = "serve"
    <3>1. /\ Moves(r) /\ tokens' = tokens \ {TokenOf[r]} /\ TokenOf[r] \in tokens
          /\ UNCHANGED <<issued, served>> /\ tokens \subseteq issued
      BY <2>1, ConsumeEffect DEF Consume, Answered, TypeOK
    <3>2. \A q \in Views : Took(q) => TokenOf[q] # TokenOf[r]
      BY <3>1 DEF Redeemed
    <3>3. ASSUME NEW q \in Views, Took(q)' PROVE q = r \/ Took(q)
      <4>1. q \in Requests
        BY DEF Requests
      <4> QED
        BY <3>1, <3>3, <4>1 DEF Took, Moves, Others
    <3> QED
      BY <3>1, <3>2, <3>3 DEF Redeemed
  <2>2. CASE Consume(r) /\ requests'[r].pc # "serve"
    BY <2>2, ConsumeEffect, TookKept DEF Consume
  <2>3. CASE Serve(r)
    <3>1. /\ Moves(r) /\ requests'[r].pc = "done" /\ Took(r)
          /\ served' = served \/ served' = served \cup {r}
          /\ UNCHANGED <<issued, tokens>>
      BY <2>3, ServeEffect DEF Serve, At, Took
    <3>2. ASSUME NEW q \in Views, Took(q)' PROVE Took(q)
      <4>1. q \in Requests
        BY DEF Requests
      <4> QED
        BY <3>1, <3>2, <4>1 DEF Took, Moves, Others
    <3> QED
      BY <3>1, <3>2, RedeemedKept
  <2> QED
    BY <1>3, <2>1, <2>2, <2>3 DEF View
<1>4. ASSUME NEW k \in Tokens, Issue(k) \/ ExpireToken(k) PROVE Redeemed'
  <2>1. UNCHANGED <<requests, served>>
    BY <1>4 DEF Issue, ExpireToken
  <2>2. issued \subseteq issued' /\ \A c \in issued : c \in tokens' => c \in tokens
    BY <1>4 DEF Issue, SetToken, ExpireToken
  <2> QED
    BY <2>1, <2>2, RedeemedKept DEF Took
<1>5. CASE Tick
  BY <1>5, RedeemedKept DEF Tick, Took
<1> QED
  BY <1>1, <1>2, <1>3, <1>4, <1>5 DEF Next

-----------------------------------------------------------------------------
(* The daily counter *)

\* No replica takes a time before from for the date d.
Early(d, from) == \A t \in 0..MaxClock : \A now \in Clocks(t) : now \div Day = d => from <= t

\* A request is at the counter no earlier than the date it asks for may be read.
Unmetered(r) == requests[r].pc \in {"date", "count"} => requests[r].metered = FALSE
Dated(r) ==
  requests[r].pc = "count" =>
    \A from \in 0..MaxClock : Early(requests[r].date, from) => from <= clock
CounterDated(d) ==
  counters[d].count > 0 =>
    \A from \in 0..MaxClock : Early(d, from) => from <= counters[d].made

\* The scans of a date that the counter let through within a day, committed or about to be.
Storing(s) ==
  /\ requests[s.request].pc = "store" /\ requests[s.request].metered = TRUE
  /\ requests[s.request].date = s.date /\ requests[s.request].at = s.at
Scan(r, d, at) == [request |-> r, date |-> d, metered |-> TRUE, at |-> at]
Scans(d, from) ==
  [request : Creates, date : {d}, metered : {TRUE}, at : from..(from + Day - 1)]
Charged(d, from) == {s \in Scans(d, from) : s \in scans \/ Storing(s)}

\* While the day lasts, the counter has counted all of them.
Paid(d, from) ==
  Early(d, from) =>
    /\ IsFiniteSet(Charged(d, from)) /\ Cardinality(Charged(d, from)) <= PerDay
    /\ clock < from + Day => Cardinality(Charged(d, from)) <= counters[d].count

Charge ==
  /\ \A r \in Creates : Unmetered(r) /\ Dated(r)
  /\ \A d \in Dates : CounterDated(d)
  /\ \A d \in Dates, from \in 0..MaxClock : Paid(d, from)

\* Fewer scans are charged, or the same.
LEMMA ChargeKept ==
  ASSUME TypeOK, Charge, clock' \in Nat, clock <= clock', counters' = counters,
         \A r \in Creates : Unmetered(r)' /\ Dated(r)',
         \A d \in Dates, from \in 0..MaxClock : Charged(d, from)' \subseteq Charged(d, from)
  PROVE  Charge'
<1>1. \A d \in Dates : CounterDated(d)'
  BY DEF Charge, CounterDated, Early
<1>2. ASSUME NEW d \in Dates, NEW from \in 0..MaxClock PROVE Paid(d, from)'
  <2> SUFFICES ASSUME Early(d, from)
               PROVE  /\ IsFiniteSet(Charged(d, from)')
                      /\ Cardinality(Charged(d, from)') <= PerDay
                      /\ clock' < from + Day =>
                           Cardinality(Charged(d, from)') <= counters[d].count
    BY DEF Paid, Early
  <2> DEFINE a == Cardinality(Charged(d, from))
             b == Cardinality(Charged(d, from)')
             n == counters[d].count
  <2>1. /\ IsFiniteSet(Charged(d, from)) /\ a <= PerDay
        /\ clock < from + Day => a <= n
    BY DEF Charge, Paid
  <2>2. /\ IsFiniteSet(Charged(d, from)') /\ b <= a /\ a \in Nat /\ b \in Nat
    BY <2>1, FS_Subset, FS_CardinalityType
  <2>3. n \in Nat /\ clock \in Nat /\ from \in Nat
    BY IncrementedType, SMT DEF TypeOK
  <2> HIDE DEF a, b, n
  <2>4. b <= PerDay /\ (clock' < from + Day => b <= n)
    BY <2>1, <2>2, <2>3, SMT
  <2> QED
    BY <2>2, <2>4 DEF b, n
<1> QED
  BY <1>1, <1>2 DEF Charge

\* The requests at the counter or before it stay as they were, as time goes on.
LEMMA DatedKept ==
  ASSUME TypeOK, NEW r \in Creates, Dated(r), requests'[r] = requests[r], clock' \in Nat,
         clock <= clock'
  PROVE  Dated(r)'
<1> SUFFICES ASSUME requests[r].pc = "count", NEW from \in 0..MaxClock,
                    Early(requests[r].date, from)
             PROVE  from <= clock'
  BY DEF Dated, Early
<1>1. from <= clock /\ clock \in Nat /\ from \in Nat
  BY SMT DEF Dated, TypeOK
<1> QED
  BY <1>1, SMT

\* A step of a request that stores nothing and does not pass the counter.
LEMMA RequestKeepsCharge ==
  ASSUME TypeOK, Charge, UNCHANGED <<clock, scans, counters>>, NEW r \in Requests, Moves(r),
         Unmetered(r)', Dated(r)',
         requests'[r].pc = "store" => requests'[r].metered = FALSE
  PROVE  Charge'
<1>1. clock' \in Nat /\ clock <= clock'
  BY SMT DEF TypeOK
<1>2. ASSUME NEW q \in Creates PROVE Unmetered(q)' /\ Dated(q)'
  <2>1. q \in Requests
    BY DEF Requests
  <2>2. CASE q = r
    BY <2>2
  <2>3. CASE q # r
    <3>1. requests'[q] = requests[q] /\ Unmetered(q) /\ Dated(q)
      BY <2>1, <2>3 DEF Charge, Moves, Others
    <3>2. Dated(q)'
      BY <1>1, <3>1, DatedKept
    <3> QED
      BY <3>1, <3>2 DEF Unmetered
  <2> QED
    BY <2>2, <2>3
<1>3. ASSUME NEW d \in Dates, NEW from \in 0..MaxClock, NEW s \in Charged(d, from)'
      PROVE  s \in Charged(d, from)
  <2>1. s \in Scans(d, from)
    BY DEF Charged, Scans
  <2>2. s.request \in Creates /\ s.request \in Requests
    BY <2>1 DEF Requests, Scans
  <2>3. s \in scans \/ Storing(s)'
    BY <1>3 DEF Charged
  <2>4. Storing(s)' => Storing(s)
    BY <2>2 DEF Storing, Moves, Others
  <2> QED
    BY <2>1, <2>3, <2>4 DEF Charged
<1> QED
  BY <1>1, <1>2, <1>3, ChargeKept

\* A step of a request that leaves the handler, or begins it anew.
LEMMA LeavingKeepsCharge ==
  ASSUME TypeOK, Charge, UNCHANGED <<clock, scans, counters>>, NEW r \in Requests, Moves(r),
         requests'[r].pc \notin {"date", "count", "store"} \/ Begun(r)
  PROVE  Charge'
<1>1. requests'[r].pc \notin {"count", "store"} /\ Unmetered(r)'
  BY DEF Unmetered, Begun, Handler
<1>2. Dated(r)'
  BY <1>1 DEF Dated
<1> QED
  BY <1>1, <1>2, RequestKeepsCharge

LEMMA ReadDateKeepsCharge ==
  ASSUME TypeOK, Charge, NEW r \in Creates, ReadDate(r)
  PROVE  Charge'
<1> r \in Requests
  BY DEF Requests
<1>1. UNCHANGED <<clock, scans, counters>> /\ requests[r].pc = "date"
  BY DEF ReadDate, At, redis, history
<1>2. /\ Moves(r) /\ requests'[r].pc = "count" /\ requests'[r].metered = FALSE
      /\ \E now \in Clocks(clock) : requests'[r].date = now \div Day
  BY <1>1, ReadDateEffect DEF Charge, Unmetered
<1>3. Dated(r)'
  <2>1. clock \in 0..MaxClock
    BY DEF TypeOK
  <2>2. \A from : Early(requests'[r].date, from) => from <= clock
    BY <1>2, <2>1 DEF Early
  <2> QED
    BY <1>1, <2>2 DEF Dated, Early
<1> QED
  BY <1>1, <1>2, <1>3, RequestKeepsCharge DEF Unmetered

\* As long as the day that begins with from lasts, the key does not expire.
LEMMA CountsOn ==
  ASSUME TypeOK, Charge, NEW d \in Dates, NEW from \in 0..MaxClock, Early(d, from),
         clock < from + Day
  PROVE  Incremented(d).count = counters[d].count + 1
<1>1. /\ counters[d].count \in Nat /\ counters[d].made \in Nat /\ clock \in Nat /\ from \in Nat
  BY IncrementedType, SMT DEF TypeOK
<1>2. CASE counters[d].count > 0
  <2>1. from <= counters[d].made
    BY <1>2 DEF Charge, CounterDated
  <2>2. clock < counters[d].made + Day
    BY <1>1, <2>1, SMT
  <2> QED
    BY <1>2, <2>2, IncrementedType DEF Live
<1>3. CASE ~(counters[d].count > 0)
  <2>1. ~Live(d) /\ counters[d].count = 0
    BY <1>1, <1>3, SMT DEF Live
  <2>2. Incremented(d).count = 1
    BY <2>1, IncrementedType
  <2> QED
    BY <2>1, <2>2, SMT
<1> QED
  BY <1>2, <1>3

LEMMA CountCharges ==
  ASSUME TypeOK, Charge, NEW r \in Creates, Count(r)
  PROVE  Charge'
<1> DEFINE day == requests[r].date
           inc == Incremented(day)
<1> r \in Requests
  BY DEF Requests
<1>1. /\ Moves(r) /\ day \in Dates
      /\ counters' \in [Dates -> Counter] /\ counters'[day] = inc
      /\ \A e \in Dates : e # day => counters'[e] = counters[e]
      /\ \/ /\ requests'[r].pc = "store" /\ requests'[r].metered = TRUE
            /\ requests'[r].date = day /\ requests'[r].at = clock /\ inc.count <= PerDay
         \/ requests'[r].pc = "done"
  BY CountEffect DEF Answered
<1>2. scans' = scans /\ clock' = clock /\ requests[r].pc = "count"
  BY DEF Count, Counts, At, history
<1>3. Dated(r)
  BY DEF Charge
<1>4. \A q \in Creates : Unmetered(q)' /\ Dated(q)'
  <2> SUFFICES ASSUME NEW q \in Creates PROVE Unmetered(q)' /\ Dated(q)'
    OBVIOUS
  <2>1. CASE q = r
    BY <1>1, <2>1 DEF Unmetered, Dated
  <2>2. CASE q # r
    <3>1. requests'[q] = requests[q] /\ Unmetered(q) /\ Dated(q)
      BY <1>1, <2>2 DEF Charge, Moves, Others, Requests
    <3>2. clock' \in Nat /\ clock <= clock'
      BY <1>2, SMT DEF TypeOK
    <3>3. Dated(q)'
      BY <3>1, <3>2, DatedKept
    <3> QED
      BY <3>1, <3>3 DEF Unmetered
  <2> QED
    BY <2>1, <2>2
<1>5. \A d \in Dates : CounterDated(d)'
  <2> SUFFICES ASSUME NEW d \in Dates, counters'[d].count > 0, NEW from \in 0..MaxClock,
                      Early(d, from)
               PROVE  from <= counters'[d].made
    BY DEF CounterDated, Early
  <2>1. CASE d # day
    BY <1>1, <2>1 DEF Charge, CounterDated
  <2>2. CASE d = day /\ Live(d)
    <3>1. counters[d].count > 0 /\ inc.made = counters[d].made
      BY <2>2, IncrementedType DEF Live
    <3> QED
      BY <1>1, <2>2, <3>1 DEF Charge, CounterDated
  <2>3. CASE d = day /\ ~Live(d)
    <3>1. inc.made = clock
      BY <2>3, IncrementedType
    <3>2. from <= clock
      BY <1>2, <1>3, <2>3 DEF Dated
    <3> QED
      BY <1>1, <2>3, <3>1, <3>2
  <2> QED
    BY <2>1, <2>2, <2>3
<1>6. ASSUME NEW d \in Dates, NEW from \in 0..MaxClock
      PROVE  /\ Charged(d, from)' \subseteq Charged(d, from) \cup {Scan(r, d, clock)}
             /\ \/ d = day /\ requests'[r].pc = "store" /\ clock < from + Day
                \/ Charged(d, from)' \subseteq Charged(d, from)
  <2> DEFINE Passed == d = day /\ requests'[r].pc = "store" /\ clock < from + Day
  <2>1. ASSUME NEW s \in Charged(d, from)'
        PROVE  s \in Charged(d, from) \/ (s = Scan(r, d, clock) /\ Passed)
    <3>1. s \in Scans(d, from) /\ (s \in scans \/ Storing(s)')
      BY <1>2, <2>1 DEF Charged, Scans
    <3>2. /\ s.request \in Creates /\ s.request \in Requests /\ s.at \in from..(from + Day - 1)
          /\ s = Scan(s.request, d, s.at) /\ s.date = d
      BY <3>1 DEF Scans, Scan, Requests
    <3>3. s.request # r => (Storing(s)' => Storing(s))
      BY <1>1, <3>2 DEF Storing, Moves, Others
    <3>4. ASSUME s.request = r, Storing(s)' PROVE s = Scan(r, d, clock) /\ Passed
      <4>1. d = day /\ requests'[r].pc = "store" /\ s.at = clock
        BY <1>1, <3>2, <3>4 DEF Storing
      <4>2. clock < from + Day
        BY <3>2, <4>1, SMT DEF TypeOK
      <4> QED
        BY <3>2, <3>4, <4>1, <4>2
    <3> QED
      BY <3>1, <3>3, <3>4 DEF Charged
  <2> QED
    BY <2>1
<1> HIDE DEF day, inc
<1>7. ASSUME NEW d \in Dates, NEW from \in 0..MaxClock PROVE Paid(d, from)'
  <2> SUFFICES ASSUME Early(d, from)
               PROVE  /\ IsFiniteSet(Charged(d, from)')
                      /\ Cardinality(Charged(d, from)') <= PerDay
                      /\ clock < from + Day =>
                           Cardinality(Charged(d, from)') <= counters'[d].count
    BY <1>2 DEF Paid, Early
  <2> DEFINE C == Charged(d, from)
             D == Charged(d, from)'
             E == C \cup {Scan(r, d, clock)}
             n == counters[d].count
             m == counters'[d].count
  <2>1. /\ IsFiniteSet(C) /\ Cardinality(C) \in Nat /\ n \in Nat
        /\ clock < from + Day => Cardinality(C) <= n
        /\ Cardinality(C) <= PerDay
    BY FS_CardinalityType, IncrementedType DEF Charge, Paid
  <2>2. IsFiniteSet(E) /\ Cardinality(E) <= Cardinality(C) + 1 /\ Cardinality(E) \in Nat
    <3>1. /\ IsFiniteSet(E)
          /\ Cardinality(E) = Cardinality(C) \/ Cardinality(E) = Cardinality(C) + 1
      BY <2>1, FS_AddElement
    <3> HIDE DEF C, E
    <3> QED
      BY <2>1, <3>1, SMT
  <2>3. IsFiniteSet(D) /\ Cardinality(D) <= Cardinality(E) /\ Cardinality(D) \in Nat
    BY <1>6, <2>2, FS_Subset, FS_CardinalityType
  <2>4. clock < from + Day => (d = day /\ m = n + 1) \/ (d # day /\ m = n)
    BY <1>1, CountsOn DEF inc
  <2>5. CASE D \subseteq C
    <3>1. Cardinality(D) <= Cardinality(C)
      BY <2>1, <2>5, FS_Subset
    <3> HIDE DEF C, D, E, m, n
    <3>2. Cardinality(D) <= PerDay /\ (clock < from + Day => Cardinality(D) <= m)
      BY <2>1, <2>3, <2>4, <3>1, SMT
    <3> QED
      BY <2>3, <3>2 DEF D, m
  <2>6. CASE d = day /\ requests'[r].pc = "store" /\ clock < from + Day
    <3>1. m = n + 1 /\ m <= PerDay /\ Cardinality(C) <= n
      BY <1>1, <2>1, <2>4, <2>6 DEF inc
    <3> HIDE DEF C, D, E, m, n
    <3>2. Cardinality(D) <= PerDay /\ Cardinality(D) <= m
      BY <2>1, <2>2, <2>3, <3>1, SMT
    <3> QED
      BY <2>3, <3>2 DEF D, m
  <2> QED
    BY <1>6, <2>5, <2>6
<1> QED
  BY <1>4, <1>5, <1>7 DEF Charge

LEMMA StoreKeepsCharge ==
  ASSUME TypeOK, Charge, NEW r \in Creates, Store(r)
  PROVE  Charge'
<1> DEFINE new == [request |-> r, date |-> requests[r].date, metered |-> requests[r].metered,
                   at |-> requests[r].at]
<1> r \in Requests
  BY DEF Requests
<1>1. /\ Moves(r) /\ requests'[r].pc = "reply" /\ UNCHANGED <<clock, counters>>
      /\ scans' = scans \cup {new} /\ requests[r].pc = "store"
  BY GoesStep DEF Store, Moves, At, redis
<1>2. clock' \in Nat /\ clock <= clock'
  BY <1>1, SMT DEF TypeOK
<1>3. ASSUME NEW q \in Creates PROVE Unmetered(q)' /\ Dated(q)'
  <2>1. CASE q = r
    BY <1>1, <2>1 DEF Unmetered, Dated
  <2>2. CASE q # r
    <3>1. requests'[q] = requests[q] /\ Unmetered(q) /\ Dated(q)
      BY <1>1, <2>2 DEF Charge, Moves, Others, Requests
    <3>2. Dated(q)'
      BY <1>2, <3>1, DatedKept
    <3> QED
      BY <3>1, <3>2 DEF Unmetered
  <2> QED
    BY <2>1, <2>2
<1>4. ASSUME NEW d \in Dates, NEW from \in 0..MaxClock, NEW s \in Charged(d, from)'
      PROVE  s \in Charged(d, from)
  <2>1. s \in Scans(d, from) /\ (s \in scans \/ s = new \/ Storing(s)')
    BY <1>1, <1>4 DEF Charged, Scans
  <2>2. s.request \in Creates /\ s.request \in Requests /\ s.metered = TRUE
    BY <2>1 DEF Scans, Requests
  <2>3. Storing(s)' => Storing(s)
    BY <1>1, <2>2 DEF Storing, Moves, Others
  <2>4. s = new => Storing(s)
    BY <1>1, <2>2 DEF Storing
  <2> QED
    BY <2>1, <2>3, <2>4 DEF Charged
<1> QED
  BY <1>1, <1>2, <1>3, <1>4, ChargeKept

LEMMA ChargeStep ==
  ASSUME TypeOK, Charge, Next
  PROVE  Charge'
<1> USE DEF history, redis
<1>1. ASSUME NEW r \in Requests, RateLimit(r) PROVE Charge'
  <2>1. CASE Stamp(r)
    BY <2>1, StampEffect, LeavingKeepsCharge DEF Stamp
  <2>2. CASE Script(r)
    BY <2>2, ScriptEffect, LeavingKeepsCharge DEF Script, Answered
  <2>3. CASE ScriptFails(r)
    BY <2>3, UnavailableEffect, LeavingKeepsCharge DEF ScriptFails, Answered
  <2>4. CASE Raise(r)
    BY <2>4, RaiseEffect, LeavingKeepsCharge DEF Raise, Answered
  <2> QED
    BY <1>1, <2>1, <2>2, <2>3, <2>4 DEF RateLimit
<1>2. ASSUME NEW r \in Creates, Create(r) PROVE Charge'
  <2> r \in Requests
    BY DEF Requests
  <2>1. CASE CountFails(r)
    <3>1. requests[r].metered = FALSE
      BY <1>2, <2>1 DEF Charge, Unmetered, CountFails, At
    <3>2. /\ Moves(r) /\ UNCHANGED <<clock, scans, counters>>
          /\ requests'[r].pc \notin {"date", "count"}
          /\ requests'[r].pc = "store" => requests'[r].metered = FALSE
      BY <2>1, <3>1, CountFailsEffect DEF CountFails, Answered
    <3>3. Unmetered(r)' /\ Dated(r)'
      BY <3>2 DEF Unmetered, Dated
    <3> QED
      BY <3>2, <3>3, RequestKeepsCharge
  <2>2. CASE Reply(r)
    BY <2>2, ReplyEffect, LeavingKeepsCharge DEF Reply, Answered
  <2> QED
    BY <1>2, <2>1, <2>2, ReadDateKeepsCharge, CountCharges, StoreKeepsCharge DEF Create
<1>3. ASSUME NEW r \in Views, View(r) PROVE Charge'
  <2> r \in Requests
    BY DEF Requests
  <2>1. CASE Consume(r)
    BY <2>1, ConsumeEffect, LeavingKeepsCharge DEF Consume, Answered
  <2>2. CASE Serve(r)
    BY <2>2, ServeEffect, LeavingKeepsCharge DEF Serve
  <2> QED
    BY <1>3, <2>1, <2>2 DEF View
<1>4. ASSUME UNCHANGED <<requests, scans, counters>>, clock' \in Nat, clock <= clock'
      PROVE  Charge'
  <2>1. ASSUME NEW r \in Creates PROVE Unmetered(r)' /\ Dated(r)'
    <3>1. requests'[r] = requests[r] /\ Unmetered(r) /\ Dated(r)
      BY <1>4 DEF Charge
    <3>2. Dated(r)'
      BY <1>4, <3>1, DatedKept
    <3> QED
      BY <3>1, <3>2 DEF Unmetered
  <2>2. \A d, from : Charged(d, from)' = Charged(d, from)
    BY <1>4 DEF Charged, Scans, Storing
  <2> QED
    BY <1>4, <2>1, <2>2, ChargeKept
<1>5. clock \in Nat /\ clock <= clock
  BY SMT DEF TypeOK
<1>6. CASE Tick
  <2>1. clock' \in Nat /\ clock <= clock'
    BY <1>6, SMT DEF Tick, TypeOK
  <2> QED
    BY <1>4, <1>6, <2>1 DEF Tick
<1> QED
  BY <1>1, <1>2, <1>3, <1>4, <1>5, <1>6 DEF Next, Issue, ExpireToken

-----------------------------------------------------------------------------
(* The sliding window *)

\* The key of the window outlives every run that is recorded in it.
Stamps ==
  /\ expires <= clock + Window + 1
  /\ \A s \in scripts : s.recorded => s.at + Window + 1 <= expires

\* A request runs the script once, and who passes is recorded.
Once ==
  /\ \A s, t \in scripts : s.request = t.request => s = t
  /\ \A s \in scripts : requests[s.request].pc \notin {"new", "stamped"}
  /\ \A s \in scripts : s.passed => s.recorded

\* The window holds the recorded runs, but for those that a later one finds too old and
\* those that were lost when the key expired.
MemberFor(s) == [score |-> s.stamp, id |-> s.request]
TooOld(s) == \E l \in scripts : s.stamp <= l.stamp - Window
Lost(s) == s.at + Window + 1 <= clock
Traced ==
  /\ \A m \in window : \E s \in scripts : s.recorded /\ m = MemberFor(s)
  /\ \A s \in scripts : s.recorded => MemberFor(s) \in window \/ TooOld(s) \/ Lost(s)

\* BurstBounded for every time that no stamp is after.
Lags(s, lag) == s.at - s.stamp \in lag..(lag + 1)
PassedSince(t, lag) == {s \in scripts : s.passed /\ s.stamp > t - Window /\ Lags(s, lag)}
Bounded ==
  \A t \in 0..MaxClock, lag \in (-MaxClock)..MaxClock :
    (\A s \in scripts : s.stamp <= t) => Cardinality(PassedSince(t, lag)) < Limit

RecordedSince(r) == {s \in scripts \ {r} : s.recorded /\ s.stamp > r.stamp - Window}
WindowInv == Stamps /\ Once /\ Traced /\ Bounded /\ RefusalsEarned

\* The steps that do not run the script.
LEMMA QuietWindow ==
  ASSUME TypeOK, WindowInv, UNCHANGED <<scripts, window, expires>>, clock' \in Nat,
         clock <= clock',
         \A r \in Requests :
           requests'[r].pc \in {"new", "stamped"} => requests[r].pc \in {"new", "stamped"}
  PROVE  WindowInv'
<1>1. Stamps'
  <2>1. expires' <= clock' + Window + 1
    <3> DEFINE later == clock'
    <3>1. expires <= clock + Window + 1 /\ expires \in Nat /\ clock \in Nat
      BY SMT DEF WindowInv, Stamps, TypeOK
    <3>2. expires' = expires /\ later \in Nat /\ clock <= later
      OBVIOUS
    <3> HIDE DEF later
    <3>3. expires <= later + Window + 1
      BY <3>1, <3>2, SMT
    <3> QED
      BY <3>2, <3>3 DEF later
  <2> QED
    BY <2>1 DEF WindowInv, Stamps
<1>2. Once'
  <2>1. \A s \in scripts : s.request \in Requests
    BY DEF TypeOK, ScriptRun
  <2> QED
    BY <2>1 DEF WindowInv, Once
<1>3. Traced'
  <2>1. ASSUME NEW s \in scripts, Lost(s) PROVE Lost(s)'
    <3>1. s.at \in Nat /\ clock \in Nat
      BY SMT DEF TypeOK, ScriptRun
    <3> QED
      BY <2>1, <3>1, SMT DEF Lost
  <2> QED
    BY <2>1 DEF WindowInv, Traced, TooOld, MemberFor
<1>4. Bounded' /\ RefusalsEarned'
  BY DEF WindowInv, Bounded, PassedSince, RefusalsEarned
<1> QED
  BY <1>1, <1>2, <1>3, <1>4 DEF WindowInv

\* A step of one request that does not run its script.
LEMMA LaterStep ==
  ASSUME TypeOK, WindowInv, UNCHANGED <<scripts, window, expires, clock>>,
         NEW r \in Requests, Moves(r),
         requests[r].pc \in {"new", "stamped"} \/ requests'[r].pc \notin {"new", "stamped"}
  PROVE  WindowInv'
<1>1. clock' \in Nat /\ clock <= clock'
  BY SMT DEF TypeOK
<1>2. \A q \in Requests :
        requests'[q].pc \in {"new", "stamped"} => requests[q].pc \in {"new", "stamped"}
  BY DEF Moves, Others
<1> QED
  BY <1>1, <1>2, QuietWindow

LEMMA StampWindow ==
  ASSUME TypeOK, WindowInv, NEW r \in Requests, Stamp(r)
  PROVE  WindowInv'
BY StampEffect, LaterStep DEF Stamp, At, redis, history

LEMMA TickWindow ==
  ASSUME TypeOK, WindowInv, Tick
  PROVE  WindowInv'
<1>1. UNCHANGED <<scripts, window, expires, requests>>
  BY DEF Tick, redis, history
<1>2. clock' \in Nat /\ clock <= clock'
  BY SMT DEF Tick, TypeOK
<1> QED
  BY <1>1, <1>2, QuietWindow

-----------------------------------------------------------------------------
(* A run of the script *)

RunOf(r) == [request |-> r, stamp |-> requests[r].stamp, at |-> clock,
             recorded |-> Recorded(r), passed |-> Left(r) > 0]

LEMMA RunType ==
  ASSUME NEW r \in Requests, NEW t \in 0..MaxClock, NEW c \in 0..MaxClock,
         NEW a \in BOOLEAN, NEW b \in BOOLEAN
  PROVE  LET n == [request |-> r, stamp |-> t, at |-> c, recorded |-> a, passed |-> b] IN
           /\ n \in ScriptRun /\ n.request = r /\ n.stamp = t /\ n.at = c
           /\ n.recorded = a /\ n.passed = b
BY Zenon DEF ScriptRun

LEMMA RunFacts ==
  ASSUME TypeOK, Finite, NEW r \in Requests
  PROVE  LET n == RunOf(r)
             count == Cardinality(Present(requests[r].stamp)) IN
           /\ n \in ScriptRun /\ n.request = r /\ n.stamp = requests[r].stamp /\ n.at = clock
           /\ count \in Nat
           /\ n.recorded <=> count < Limit
           /\ n.passed <=> count < Limit - 1
           /\ n.passed => n.recorded
           /\ MemberFor(n) = MemberOf(r)
<1> DEFINE n == RunOf(r)
           count == Cardinality(Present(requests[r].stamp))
<1>1. n \in ScriptRun /\ n.request = r /\ n.stamp = requests[r].stamp /\ n.at = clock
      /\ (n.recorded <=> Recorded(r)) /\ (n.passed <=> Left(r) > 0)
  <2>1. requests[r].stamp \in 0..MaxClock /\ clock \in 0..MaxClock
    BY Fields DEF TypeOK
  <2>2. Recorded(r) \in BOOLEAN /\ (Left(r) > 0) \in BOOLEAN
    BY DEF Recorded
  <2>3. /\ n \in ScriptRun /\ n.request = r /\ n.stamp = requests[r].stamp /\ n.at = clock
        /\ n.recorded = Recorded(r) /\ n.passed = (Left(r) > 0)
    BY <2>1, <2>2, RunType, Zenon DEF RunOf
  <2> QED
    BY <2>3, Zenon
<1>2. count \in Nat /\ (Recorded(r) <=> count < Limit) /\ (Left(r) > 0 <=> count < Limit - 1)
  BY Decision
<1>3. MemberFor(n) = MemberOf(r)
  BY <1>1 DEF MemberFor, MemberOf
<1>4. count < Limit - 1 => count < Limit
  <2> HIDE DEF count
  <2> QED
    BY <1>2, SMT
<1> QED
  BY <1>1, <1>2, <1>3, <1>4, Zenon

LEMMA RunTypes ==
  ASSUME TypeOK, NEW s \in scripts
  PROVE  s \in ScriptRun /\ s.request \in Requests /\ s.stamp \in 0..MaxClock /\ s.at \in 0..MaxClock
BY DEF TypeOK, ScriptRun

\* A recorded run that the window does not hold any more when the script has pruned it
\* lies before the window of the request the script runs for, or the key has expired.
LEMMA GoneIsOld ==
  ASSUME TypeOK, WindowInv, NEW r \in Requests,
         NEW s \in scripts, s.recorded, MemberFor(s) \in window,
         MemberFor(s) \notin Present(requests[r].stamp)
  PROVE  s.stamp <= requests[r].stamp - Window \/ Lost(s)
<1> DEFINE t == requests[r].stamp
<1>1. /\ t \in Nat /\ s.stamp \in Nat /\ s.at \in Nat /\ clock \in Nat /\ expires \in Nat
  BY Fields, RunTypes, SMT DEF TypeOK
<1>2. s.at + Window + 1 <= expires
  BY DEF WindowInv, Stamps
<1>3. MemberFor(s).score = s.stamp
  BY DEF MemberFor
<1>4. clock >= expires \/ ~(s.stamp > t - Window)
  BY <1>3 DEF Present
<1> HIDE DEF t
<1>5. s.stamp <= t - Window \/ s.at + Window + 1 <= clock
  BY <1>1, <1>2, <1>4, SMT
<1> QED
  BY <1>5 DEF t, Lost

LEMMA ScriptParts ==
  ASSUME TypeOK, Finite, WindowInv, NEW r \in Requests, Script(r)
  PROVE  Stamps' /\ Once' /\ Traced'
<1> DEFINE n == RunOf(r)
           P == Present(requests[r].stamp)
           count == Cardinality(P)
<1>1. /\ n \in ScriptRun /\ n.request = r /\ n.stamp = requests[r].stamp /\ n.at = clock
      /\ count \in Nat /\ (n.recorded <=> count < Limit) /\ (n.passed => n.recorded)
      /\ MemberFor(n) = MemberOf(r)
  BY RunFacts
<1>2. /\ scripts' = scripts \cup {n} /\ UNCHANGED clock /\ requests[r].pc = "stamped"
      /\ window' = P \cup (IF n.recorded THEN {MemberOf(r)} ELSE {})
      /\ expires' = IF n.recorded THEN clock + Window + 1 ELSE expires
  BY <1>1, SMT DEF Script, RunOf, At, Recorded, Lifetime, TypeOK
<1>3. Moves(r) /\ requests'[r].pc \notin {"new", "stamped"}
  BY ScriptEffect DEF Begun, Answered, Handler
<1>4. \A s \in scripts : s.request # r
  BY <1>2 DEF WindowInv, Once
<1>5. P \subseteq window
  BY PresentFacts
<1> HIDE DEF n, P, count
<1>6. Stamps'
  <2>1. expires <= clock + Window + 1 /\ expires \in Nat /\ clock \in Nat
    BY SMT DEF WindowInv, Stamps, TypeOK
  <2>2. expires <= expires' /\ expires' <= clock' + Window + 1 /\ expires' \in Int
    BY <1>2, <2>1, SMT
  <2>3. ASSUME NEW s \in scripts', s.recorded PROVE s.at + Window + 1 <= expires'
    <3>1. CASE s = n
      BY <1>1, <1>2, <2>1, <2>3, <3>1, SMT
    <3>2. CASE s \in scripts
      <4>1. s.at + Window + 1 <= expires /\ s.at \in Nat
        BY <2>3, <3>2, RunTypes, SMT DEF WindowInv, Stamps
      <4> QED
        BY <2>1, <2>2, <4>1, SMT
    <3> QED
      BY <1>2, <3>1, <3>2
  <2> QED
    BY <2>2, <2>3 DEF Stamps
<1>7. Once'
  <2>1. \A s, t \in scripts' : s.request = t.request => s = t
    BY <1>1, <1>2, <1>4 DEF WindowInv, Once
  <2>2. \A s \in scripts' : requests'[s.request].pc \notin {"new", "stamped"}
    BY <1>1, <1>2, <1>3, <1>4, RunTypes DEF WindowInv, Once, Moves, Others
  <2>3. \A s \in scripts' : s.passed => s.recorded
    BY <1>1, <1>2 DEF WindowInv, Once
  <2> QED
    BY <2>1, <2>2, <2>3 DEF Once
<1>8. Traced'
  <2>1. ASSUME NEW m \in window' PROVE \E s \in scripts' : s.recorded /\ m = MemberFor(s)
    <3>1. CASE m \in P
      BY <1>2, <1>5, <3>1 DEF WindowInv, Traced
    <3>2. CASE m = MemberOf(r) /\ n.recorded
      BY <1>1, <1>2, <3>2
    <3> QED
      BY <1>2, <2>1, <3>1, <3>2
  <2>2. ASSUME NEW s \in scripts', s.recorded
        PROVE  MemberFor(s) \in window' \/ TooOld(s)' \/ Lost(s)'
    <3>1. CASE s = n
      BY <1>1, <1>2, <2>2, <3>1
    <3>2. CASE s \in scripts /\ MemberFor(s) \in P
      BY <1>2, <3>2
    <3>3. CASE s \in scripts /\ MemberFor(s) \in window /\ MemberFor(s) \notin P
      <4>1. s.stamp <= n.stamp - Window \/ Lost(s)
        BY <1>1, <2>2, <3>3, GoneIsOld DEF P
      <4> QED
        BY <1>2, <4>1 DEF TooOld, Lost
    <3>4. CASE s \in scripts /\ MemberFor(s) \notin window
      <4>1. TooOld(s) \/ Lost(s)
        BY <2>2, <3>4 DEF WindowInv, Traced
      <4> QED
        BY <1>2, <4>1 DEF TooOld, Lost
    <3> QED
      BY <1>2, <2>2, <3>1, <3>2, <3>3, <3>4
  <2> QED
    BY <2>1, <2>2 DEF Traced, MemberFor, TooOld
<1> QED
  BY <1>6, <1>7, <1>8

LEMMA FiniteRuns ==
  ASSUME Finite, NEW S \in SUBSET scripts
  PROVE  IsFiniteSet(S) /\ Cardinality(S) \in Nat
BY FS_Subset, FS_CardinalityType DEF Finite

\* Runs that the window still holds are at most as many as its members.
LEMMA HeldRuns ==
  ASSUME TypeOK, Finite, WindowInv, NEW now, NEW S \in SUBSET scripts,
         \A s \in S : MemberFor(s) \in Present(now)
  PROVE  Cardinality(S) <= Cardinality(Present(now))
<1> DEFINE f == [s \in S |-> MemberFor(s)]
<1>1. f \in [S -> Present(now)]
  OBVIOUS
<1>2. ASSUME NEW s \in S, NEW u \in S, f[s] = f[u] PROVE s = u
  <2>1. s.request = u.request
    BY <1>2 DEF MemberFor
  <2> QED
    BY <2>1 DEF WindowInv, Once
<1>3. f \in Injection(S, Present(now))
  <2> HIDE DEF f
  <2> QED
    BY <1>1, <1>2 DEF Injection, IsInjective
<1> QED
  BY <1>3, PresentFacts, FS_Injection

LEMMA ScriptBounded ==
  ASSUME TypeOK, Finite, WindowInv, NEW r \in Requests, Script(r)
  PROVE  Bounded'
<1> DEFINE n == RunOf(r)
           P == Present(requests[r].stamp)
           count == Cardinality(P)
<1>1. /\ n \in ScriptRun /\ n.stamp = requests[r].stamp /\ n.stamp \in 0..MaxClock
      /\ n.at = clock /\ clock \in 0..MaxClock /\ count \in Nat /\ (n.passed <=> count < Limit - 1)
      /\ scripts' = scripts \cup {n} /\ requests[r].pc = "stamped"
  BY RunFacts, Fields DEF Script, RunOf, At, TypeOK
<1> SUFFICES ASSUME NEW t \in 0..MaxClock, NEW lag \in (-MaxClock)..MaxClock,
                    \A s \in scripts' : s.stamp <= t
             PROVE  Cardinality(PassedSince(t, lag)') < Limit
  BY DEF Bounded
<1> DEFINE A == PassedSince(t, lag)
<1>2. A \subseteq scripts /\ IsFiniteSet(A) /\ Cardinality(A) \in Nat
  BY FiniteRuns DEF PassedSince
<1>3. Cardinality(A) < Limit
  BY <1>1 DEF WindowInv, Bounded
<1>4. CASE n.passed /\ Lags(n, lag)
  <2>1. /\ n.stamp <= t /\ n.stamp \in Int /\ t \in Int /\ lag \in Int /\ clock \in Int
        /\ clock - n.stamp <= lag + 1
    BY <1>1, <1>4, SMT DEF Lags
  <2>2. ASSUME NEW s \in A PROVE MemberFor(s) \in P
    <3>1. s \in scripts /\ s.passed /\ s.stamp > t - Window /\ s.recorded
      BY DEF PassedSince, WindowInv, Once
    <3>2. s.stamp \in Int /\ s.at \in Int /\ lag <= s.at - s.stamp
      <4>1. Lags(s, lag)
        BY DEF PassedSince
      <4> QED
        BY <3>1, <4>1, RunTypes, SMT DEF Lags
    <3>3. ASSUME NEW l \in scripts PROVE ~(s.stamp <= l.stamp - Window)
      <4>1. l.stamp <= t /\ l.stamp \in Int
        BY <1>1, RunTypes, SMT
      <4> QED
        BY <2>1, <3>1, <3>2, <4>1, SMT
    <3>4. ~Lost(s) /\ ~(s.stamp <= n.stamp - Window)
      BY <2>1, <3>1, <3>2, SMT DEF Lost
    <3>5. MemberFor(s) \in window
      BY <3>1, <3>3, <3>4 DEF WindowInv, Traced, TooOld
    <3> QED
      BY <1>1, <3>1, <3>4, <3>5, GoneIsOld
  <2>3. Cardinality(A) <= count
    BY <1>2, <2>2, HeldRuns
  <2>4. PassedSince(t, lag)' \subseteq A \cup {n}
    BY <1>1 DEF PassedSince
  <2>5. /\ IsFiniteSet(A \cup {n})
        /\ Cardinality(A \cup {n}) = Cardinality(A) \/ Cardinality(A \cup {n}) = Cardinality(A) + 1
    BY <1>2, FS_AddElement
  <2>6. /\ IsFiniteSet(PassedSince(t, lag)')
        /\ Cardinality(PassedSince(t, lag)') <= Cardinality(A \cup {n})
        /\ Cardinality(PassedSince(t, lag)') \in Nat
    BY <2>4, <2>5, FS_Subset, FS_CardinalityType
  <2> DEFINE a == Cardinality(A)
             b == Cardinality(A \cup {n})
             c == Cardinality(PassedSince(t, lag)')
  <2>7. /\ a \in Nat /\ a <= count /\ count < Limit - 1 /\ count \in Nat /\ c \in Nat
        /\ b = a \/ b = a + 1
        /\ c <= b
    BY <1>1, <1>2, <1>4, <2>3, <2>5, <2>6
  <2> HIDE DEF a, b, c, count
  <2>8. c < Limit
    BY <2>7, SMT
  <2> QED
    BY <2>8 DEF c
<1>5. CASE ~(n.passed /\ Lags(n, lag))
  <2>1. PassedSince(t, lag)' \subseteq A
    BY <1>1, <1>5 DEF PassedSince
  <2>2. Cardinality(PassedSince(t, lag)') <= Cardinality(A) /\ Cardinality(PassedSince(t, lag)') \in Nat
    BY <1>2, <2>1, FS_Subset, FS_CardinalityType
  <2> DEFINE a == Cardinality(A)
             c == Cardinality(PassedSince(t, lag)')
  <2>3. a \in Nat /\ a < Limit /\ c \in Nat /\ c <= a
    BY <1>2, <1>3, <2>2
  <2> HIDE DEF a, c
  <2>4. c < Limit
    BY <2>3, SMT
  <2> QED
    BY <2>4 DEF c
<1> QED
  BY <1>4, <1>5

\* Every member stands for a recorded run, and different ones for different runs.
LEMMA TracedRuns ==
  ASSUME TypeOK, Finite, WindowInv, NEW now, NEW T \in SUBSET scripts,
         \A s \in scripts : s.recorded /\ MemberFor(s) \in Present(now) => s \in T
  PROVE  Cardinality(Present(now)) <= Cardinality(T)
<1> DEFINE P == Present(now)
           Stands(m, s) == s.recorded /\ m = MemberFor(s)
           f == [m \in P |-> CHOOSE s \in scripts : Stands(m, s)]
<1>1. P \subseteq window
  BY PresentFacts
<1>2. ASSUME NEW m \in P PROVE f[m] \in scripts /\ Stands(m, f[m])
  <2>1. \E s \in scripts : Stands(m, s)
    BY <1>1 DEF WindowInv, Traced
  <2>2. f[m] = CHOOSE s \in scripts : Stands(m, s)
    OBVIOUS
  <2> HIDE DEF Stands, f
  <2> QED
    BY <2>1, <2>2, Zenon
<1>3. f \in [P -> T]
  <2>1. \A m \in P : f[m] \in T
    BY <1>2
  <2>2. f = [m \in P |-> f[m]]
    OBVIOUS
  <2> HIDE DEF f, P
  <2> QED
    BY <2>1, <2>2
<1>4. \A m, k \in P : f[m] = f[k] => m = k
  <2> HIDE DEF f, P
  <2> QED
    BY <1>2
<1>5. f \in Injection(P, T)
  <2> HIDE DEF f, P
  <2> QED
    BY <1>3, <1>4 DEF Injection, IsInjective
<1> QED
  BY <1>5, FiniteRuns, FS_Injection

LEMMA ScriptRefusals ==
  ASSUME TypeOK, Finite, WindowInv, NEW r \in Requests, Script(r)
  PROVE  RefusalsEarned'
<1> DEFINE n == RunOf(r)
           P == Present(requests[r].stamp)
           count == Cardinality(P)
<1>1. /\ n \in ScriptRun /\ n.request = r /\ n.stamp = requests[r].stamp
      /\ count \in Nat /\ (n.passed <=> count < Limit - 1)
      /\ scripts' = scripts \cup {n} /\ requests[r].pc = "stamped"
  BY RunFacts DEF Script, RunOf, At
<1>2. n \notin scripts
  BY <1>1 DEF WindowInv, Once
<1> HIDE DEF n
<1>3. IsFiniteSet(scripts')
  BY <1>1, FS_AddElement DEF Finite
<1> SUFFICES ASSUME NEW q \in scripts', ~q.passed
             PROVE  Cardinality(RecordedSince(q)') >= Limit - 1
  BY DEF RefusalsEarned, RecordedSince
<1>4. RecordedSince(q) \subseteq RecordedSince(q)'
  BY <1>1 DEF RecordedSince
<1>5. IsFiniteSet(RecordedSince(q)')
  BY <1>3, FS_Subset DEF RecordedSince
<1>6. /\ Cardinality(RecordedSince(q)') \in Nat /\ Cardinality(RecordedSince(q)) \in Nat
      /\ Cardinality(RecordedSince(q)) <= Cardinality(RecordedSince(q)')
  BY <1>4, <1>5, FS_Subset, FS_CardinalityType
<1>7. Cardinality(RecordedSince(q)) >= Limit - 1
  <2>1. CASE q \in scripts
    BY <2>1 DEF WindowInv, RefusalsEarned, RecordedSince
  <2>2. CASE q = n
    <3>1. RecordedSince(q) \subseteq scripts
      BY DEF RecordedSince
    <3>2. \A s \in scripts : s.recorded /\ MemberFor(s) \in P => s \in RecordedSince(q)
      BY <1>1, <1>2, <2>2 DEF RecordedSince, Present, MemberFor
    <3>3. count <= Cardinality(RecordedSince(q))
      BY <3>1, <3>2, TracedRuns
    <3>4. ~(count < Limit - 1)
      BY <1>1, <2>2
    <3> DEFINE c == Cardinality(RecordedSince(q))
    <3>5. c \in Nat
      BY <1>6
    <3> HIDE DEF c, count
    <3>6. c >= Limit - 1
      BY <1>1, <3>3, <3>4, <3>5, SMT DEF c
    <3> QED
      BY <3>6 DEF c
  <2> QED
    BY <1>1, <2>1, <2>2
<1> DEFINE c == Cardinality(RecordedSince(q))
           d == Cardinality(RecordedSince(q)')
<1>8. c \in Nat /\ d \in Nat /\ c <= d /\ c >= Limit - 1
  BY <1>6, <1>7
<1> HIDE DEF c, d
<1>9. d >= Limit - 1
  BY <1>8, SMT
<1> QED
  BY <1>9 DEF d

LEMMA WindowInvStep ==
  ASSUME TypeOK, Finite, WindowInv, Next
  PROVE  WindowInv'
<1> USE DEF history, redis
<1> \A r : Handler(r) \notin {"new", "stamped"}
  BY DEF Handler
<1>1. ASSUME NEW r \in Requests, RateLimit(r) PROVE WindowInv'
  <2>1. CASE Script(r)
    BY <2>1, ScriptParts, ScriptBounded, ScriptRefusals DEF WindowInv
  <2>2. CASE ScriptFails(r)
    BY <2>2, UnavailableEffect, LaterStep DEF ScriptFails, Begun, Answered
  <2>3. CASE Raise(r)
    BY <2>3, RaiseEffect, LaterStep DEF Raise, Begun, Answered
  <2> QED
    BY <1>1, <2>1, <2>2, <2>3, StampWindow DEF RateLimit
<1>2. ASSUME NEW r \in Creates, Create(r) PROVE WindowInv'
  <2> r \in Requests
    BY DEF Requests
  <2>0. CASE ReadDate(r)
    BY <2>0, ReadDateEffect, LaterStep DEF ReadDate
  <2>1. CASE Count(r)
    <3>1. Moves(r) /\ requests'[r].pc \notin {"new", "stamped"}
      BY <2>1, CountEffect DEF Answered
    <3> QED
      BY <2>1, <3>1, LaterStep DEF Count, Counts
  <2>2. CASE CountFails(r)
    BY <2>2, CountFailsEffect, LaterStep DEF CountFails, Answered
  <2>3. CASE Store(r)
    <3>1. Moves(r) /\ requests'[r].pc \notin {"new", "stamped"}
      BY <2>3, GoesStep DEF Store, Moves
    <3> QED
      BY <2>3, <3>1, LaterStep DEF Store
  <2>4. CASE Reply(r)
    BY <2>4, ReplyEffect, LaterStep DEF Reply, Answered
  <2> QED
    BY <1>2, <2>0, <2>1, <2>2, <2>3, <2>4 DEF Create
<1>3. ASSUME NEW r \in Views, View(r) PROVE WindowInv'
  <2> r \in Requests
    BY DEF Requests
  <2>1. CASE Consume(r)
    BY <2>1, ConsumeEffect, LaterStep DEF Consume, Answered
  <2>2. CASE Serve(r)
    BY <2>2, ServeEffect, LaterStep DEF Serve
  <2> QED
    BY <1>3, <2>1, <2>2 DEF View
<1>4. ASSUME UNCHANGED <<requests, scripts, window, expires, clock>> PROVE WindowInv'
  <2>1. clock' \in Nat /\ clock <= clock'
    BY <1>4, SMT DEF TypeOK
  <2> QED
    BY <1>4, <2>1, QuietWindow
<1> QED
  BY <1>1, <1>2, <1>3, <1>4, TickWindow DEF Next, Issue, ExpireToken

-----------------------------------------------------------------------------
(* Theorems *)

IInv == TypeOK /\ Finite /\ Created /\ Redeemed /\ Charge /\ WindowInv

LEMMA InitInvariant == Init => IInv
<1> SUFFICES ASSUME Init PROVE IInv
  OBVIOUS
<1>1. /\ scans = {} /\ served = {} /\ scripts = {} /\ window = {} /\ expires = 0 /\ clock = 0
      /\ \A r \in Requests : requests[r] = Fresh
      /\ \A d \in Dates : counters[d] = [count |-> 0, made |-> 0]
  BY DEF Init
<1>2. \A r \in Requests : requests[r].pc = "new"
  BY <1>1, FreshFields
<1>3. Created
  BY <1>1 DEF Created
<1>4. Redeemed
  BY <1>1, <1>2 DEF Redeemed, Took, Requests
<1>5. Charge
  <2>1. \A d, from : Charged(d, from) = {}
    BY <1>1, <1>2 DEF Charged, Scans, Storing, Requests
  <2>2. IsFiniteSet({}) /\ Cardinality({}) = 0 /\ 0 <= 0 /\ 0 <= PerDay /\ ~(0 > 0)
    BY FS_EmptySet, SMT
  <2>3. \A r \in Creates : Unmetered(r) /\ Dated(r)
    BY <1>2 DEF Unmetered, Dated, Requests
  <2>4. \A d \in Dates : counters[d].count = 0
    BY <1>1
  <2>5. \A d \in Dates : CounterDated(d)
    BY <2>2, <2>4 DEF CounterDated
  <2>6. \A d \in Dates, from \in 0..MaxClock : Paid(d, from)
    BY <2>1, <2>2, <2>4 DEF Paid
  <2> QED
    BY <2>3, <2>5, <2>6 DEF Charge
<1>6. WindowInv
  <2>1. Stamps
    <3>1. expires <= clock + Window + 1
      BY <1>1, SMT
    <3> QED
      BY <1>1, <1>2, <3>1 DEF Stamps
  <2>2. Once /\ Traced /\ RefusalsEarned
    BY <1>1 DEF Once, Traced, RefusalsEarned
  <2>3. Bounded
    <3>1. \A t, lag : PassedSince(t, lag) = {}
      BY <1>1 DEF PassedSince
    <3>2. Cardinality({}) = 0 /\ 0 < Limit
      BY FS_EmptySet, SMT
    <3> QED
      BY <3>1, <3>2 DEF Bounded
  <2> QED
    BY <2>1, <2>2, <2>3 DEF WindowInv
<1> QED
  BY <1>3, <1>4, <1>5, <1>6, InitType DEF IInv

LEMMA StepInvariant == IInv /\ [Next]_vars => IInv'
<1> SUFFICES ASSUME IInv, [Next]_vars PROVE IInv'
  OBVIOUS
<1> TypeOK /\ Finite /\ Created /\ Redeemed /\ Charge /\ WindowInv
  BY DEF IInv
<1>1. CASE Next
  BY <1>1, TypeStep, CreatedStep, RedeemedStep, ChargeStep, WindowInvStep DEF IInv
<1>2. CASE UNCHANGED vars
  <2> USE <1>2 DEF vars
  <2>1. TypeOK' /\ Finite'
    BY DEF TypeOK, Finite
  <2>2. Created' /\ Redeemed'
    BY DEF Created, Past, Redeemed, Took
  <2>4. Charge'
    <3>1. \A d, from : Charged(d, from)' = Charged(d, from) /\ (Early(d, from)' <=> Early(d, from))
      BY DEF Charged, Scans, Storing, Early
    <3> QED
      BY <3>1 DEF Charge, Unmetered, Dated, CounterDated, Paid
  <2>3. WindowInv'
    BY DEF WindowInv, Stamps, Once, Traced, TooOld, Lost, MemberFor, Bounded, PassedSince,
           RefusalsEarned
  <2> QED
    BY <2>1, <2>2, <2>3, <2>4 DEF IInv
<1> QED
  BY <1>1, <1>2

LEMMA Invariance == Spec => []IInv
BY InitInvariant, StepInvariant, PTL DEF Spec

LEMMA BurstIsBounded == ASSUME TypeOK, Bounded PROVE BurstBounded
<1> SUFFICES ASSUME NEW last \in scripts, NEW lag \in (-MaxClock)..MaxClock,
                    \A s \in scripts : s.stamp <= last.stamp
             PROVE  Cardinality(PassedSince(last.stamp, lag)) < Limit
  BY DEF BurstBounded, PassedSince, Lags
<1>1. last.stamp \in 0..MaxClock
  BY RunTypes
<1> QED
  BY <1>1 DEF Bounded

LEMMA DayIsBounded == ASSUME TypeOK, Charge PROVE DailyBounded
<1> SUFFICES ASSUME NEW d \in Dates, NEW from \in 0..MaxClock, Early(d, from)
             PROVE  Cardinality({s \in scans : /\ s.metered /\ s.date = d
                                              /\ s.at \in from..(from + Day - 1)}) <= PerDay
  BY DEF DailyBounded, Early
<1> DEFINE S == {s \in scans : s.metered /\ s.date = d /\ s.at \in from..(from + Day - 1)}
<1>1. S \subseteq Charged(d, from)
  <2> SUFFICES ASSUME NEW s \in S PROVE s \in Charged(d, from)
    OBVIOUS
  <2>1. /\ s \in [request : Creates, date : Dates, metered : BOOLEAN, at : 0..MaxClock]
        /\ s \in scans /\ s.metered /\ s.date = d /\ s.at \in from..(from + Day - 1)
    BY DEF TypeOK
  <2>2. s.metered = TRUE
    BY <2>1
  <2>3. s \in Scans(d, from)
    BY <2>1, <2>2 DEF Scans
  <2> QED
    BY <2>1, <2>3 DEF Charged
<1>2. /\ IsFiniteSet(Charged(d, from)) /\ Cardinality(Charged(d, from)) <= PerDay
  BY DEF Charge, Paid
<1>3. Cardinality(S) <= Cardinality(Charged(d, from)) /\ Cardinality(S) \in Nat
      /\ Cardinality(Charged(d, from)) \in Nat
  BY <1>1, <1>2, FS_Subset, FS_CardinalityType
<1> DEFINE a == Cardinality(S)
           b == Cardinality(Charged(d, from))
<1>4. a \in Nat /\ b \in Nat /\ a <= b /\ b <= PerDay
  BY <1>2, <1>3
<1> HIDE DEF a, b
<1>5. a <= PerDay
  BY <1>4, SMT
<1> QED
  BY <1>5 DEF a

\* Every variable keeps its type, and the window never holds more than Limit members.
THEOREM Typed == Spec => []TypeOK
BY Invariance, PTL DEF IInv

\* Fewer than Limit of the requests that pass in the latest window ran the script as long
\* after their stamps, to a second, for any number of requests, any delays and any clocks.
THEOREM BurstsAreBounded == Spec => []BurstBounded
<1>1. IInv => BurstBounded
  BY BurstIsBounded DEF IInv, WindowInv
<1> QED
  BY <1>1, Invariance, PTL

\* Who is refused met Limit - 1 recorded requests after the start of his window.
THEOREM RefusalsAreEarned == Spec => []RefusalsEarned
<1>1. IInv => RefusalsEarned
  BY DEF IInv, WindowInv
<1> QED
  BY <1>1, Invariance, PTL

\* For a day from the first moment that any replica may take for a date, the counter lets at
\* most PerDay scans of that date through, however late or early calls come.
THEOREM DaysAreBounded == Spec => []DailyBounded
<1>1. IInv => DailyBounded
  BY DayIsBounded DEF IInv
<1> QED
  BY <1>1, Invariance, PTL

\* A request creates at most one scan, and none if it is told that it exceeds a limit.
THEOREM CreatesOnce == Spec => []CreateOnce
<1>1. Created => CreateOnce
  BY DEF Created, Past, CreateOnce, At
<1> QED
  BY <1>1, Invariance, PTL DEF IInv

\* A report view token serves one request.
THEOREM TokensOnce == Spec => []TokenOnce
<1>1. TypeOK /\ Redeemed => TokenOnce
  BY DEF TypeOK, Redeemed, Took, TokenOnce
<1> QED
  BY <1>1, Invariance, PTL DEF IInv
=============================================================================
