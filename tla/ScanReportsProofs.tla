------------------------- MODULE ScanReportsProofs -------------------------
(***************************************************************************)
(* The safety properties of ScanReports hold for any number of jobs, tries *)
(* and findings.                                                           *)
(***************************************************************************)
EXTENDS ScanReports, TLAPS

USE ReportsAssumption DEF ReportsAssumption

-----------------------------------------------------------------------------
(* The invariant *)

RowOf(w, fmt, n) ==
  [format |-> fmt, version |-> n, doc |-> tx[w].doc, by |-> w, run |-> RunOf(w)]

\* Both formats are numbered 1..n, and a writer that has rows has those of version n + 1.
Height(n) == VersionsOf("json") = 1..n /\ VersionsOf("html") = 1..n
Holds(w, n) ==
  /\ tx[w].pc \in {"none", "queued", "think", "load", "after", "ended"} => tx[w].rows = {}
  /\ tx[w].pc \in {"pick", "insert"} =>
       tx[w].rows = IF tx[w].format = "json" THEN {} ELSE {RowOf(w, "json", n + 1)}
  /\ tx[w].pc = "insert" => tx[w].version \in 1..(n + 1)
  /\ tx[w].pc = "insert" /\ tx[w].format = "html" => tx[w].version = n + 1
  /\ tx[w].pc = "commit" =>
       tx[w].rows \in {{}, {RowOf(w, "json", n + 1), RowOf(w, "html", n + 1)}}
Numbered == \E n \in Nat : Height(n) /\ \A w \in Writers : Holds(w, n)
OneHolder == \A w, o \in Writers : tx[w].rows # {} /\ tx[o].rows # {} => w = o
UniqueKeys == \A r, s \in reports : SameKey(r, s) => r = s

\* A job that is queued has a try left; the automatic one is queued when the worker ends.
Queue ==
  /\ \A j \in Jobs : /\ tx[j].pc = "none" => tries[j] = 0
                     /\ tx[j].pc = "queued" => tries[j] < MaxTries
  /\ tx[Worker].pc # "ended" => tx[AutoJob].pc = "none"

\* Until the scan has ended with or without a report there is no report and no AI job.
ScanState ==
  /\ tx[Worker].pc \notin {"queued", "think"}
  /\ tx[Worker].pc \in {"load", "pick", "insert", "commit"} => scan = "running"
  /\ tx[Worker].pc = "after" => scan = "completed"
  /\ tx[Worker].pc = "commit" => tx[Worker].rows # {}
  /\ scan \notin Enrichable => reports = {} /\ \A j \in Jobs : tx[j].pc = "none"
Rows == Numbered /\ OneHolder /\ UniqueKeys /\ FormatsAgree

-----------------------------------------------------------------------------
(* Lemmas about rows and versions *)

LEMMA HtmlSecond == \A w : (CHOOSE fmt \in Formats : fmt # FirstFormat(w)) = "html"
<1> SUFFICES ASSUME NEW w PROVE (CHOOSE fmt \in Formats : fmt # FirstFormat(w)) = "html"
  OBVIOUS
<1>1. \A fmt \in Formats : (fmt # FirstFormat(w)) <=> fmt = "html"
  BY DEF Formats, FirstFormat
<1>2. "html" \in Formats
  BY DEF Formats
<1> DEFINE c == CHOOSE fmt \in Formats : fmt # FirstFormat(w)
<1>3. c \in Formats /\ c # FirstFormat(w)
  BY <1>1, <1>2, Zenon
<1> QED
  BY <1>1, <1>3

LEMMA NextIs ==
  ASSUME NEW n \in Nat, Height(n), NEW fmt \in Formats
  PROVE  NextVersion(fmt) = n + 1
<1>1. VersionsOf(fmt) = 1..n
  BY DEF Height, Formats
<1> DEFINE P(k) == \A v \in 1..n : v < k
           S == {1} \cup {v + 1 : v \in 1..n}
<1>2. n + 1 \in S /\ P(n + 1)
  BY SMT
<1>3. \A k \in S : P(k) => k = n + 1
  BY SMT
<1>4. NextVersion(fmt) = CHOOSE k \in S : P(k)
  BY <1>1 DEF NextVersion
<1> HIDE DEF P, S
<1> QED
  BY <1>2, <1>3, <1>4, Zenon

\* What matters of a step that stores nothing: a writer keeps its rows, or has none.
Still(o) == tx'[o] = tx[o] /\ RunOf(o)' = RunOf(o)
Empty(o) ==
  /\ tx'[o].rows = {} /\ tx'[o].pc # "insert"
  /\ tx'[o].pc = "pick" => tx'[o].format = "json"

LEMMA QuietStep ==
  ASSUME Rows, reports' = reports, \A o \in Writers : Still(o) \/ Empty(o)
  PROVE  Rows'
<1>1. PICK n \in Nat : Height(n) /\ \A w \in Writers : Holds(w, n)
  BY DEF Rows, Numbered
<1>2. Height(n)'
  BY <1>1 DEF Height, VersionsOf
<1>3. ASSUME NEW o \in Writers PROVE Holds(o, n)'
  <2>1. CASE Still(o)
    BY <1>1, <2>1 DEF Still, Holds, RowOf
  <2>2. CASE Empty(o)
    BY <2>2 DEF Empty, Holds
  <2> QED
    BY <2>1, <2>2
<1>4. Numbered'
  BY <1>2, <1>3 DEF Numbered
<1>5. OneHolder'
  BY DEF Rows, OneHolder, Still, Empty
<1>6. UniqueKeys' /\ FormatsAgree'
  BY DEF Rows, UniqueKeys, FormatsAgree, SameKey
<1> QED
  BY <1>4, <1>5, <1>6 DEF Rows

-----------------------------------------------------------------------------
(* Type correctness *)

LEMMA FreshTransaction ==
  ASSUME NEW pc \in {"none", "queued", "think", "load", "after", "ended"}
  PROVE  Fresh(pc) \in Transaction
BY SMT DEF Fresh, Transaction, Nothing, Documents, Enrichable, Formats

LEMMA InitType == Init => TypeOK
<1> SUFFICES ASSUME Init PROVE TypeOK
  OBVIOUS
<1>1. findings \in Documents
  BY SMT DEF Init, Nothing, Documents
<1>2. tx \in [Writers -> Transaction]
  BY FreshTransaction, SMT DEF Init
<1>3. tries \in [Jobs -> 0..MaxTries]
  BY SMT DEF Init
<1> QED
  BY <1>1, <1>2, <1>3 DEF Init, TypeOK

LEMMA RunOfType ==
  ASSUME TypeOK, NEW w \in Writers
  PROVE  RunOf(w) \in 0..MaxTries
BY SMT DEF TypeOK, RunOf, Writers

LEMMA LoadedType ==
  ASSUME TypeOK, NEW w \in Writers
  PROVE  [f \in Findings |-> IF tx[w].known[f] > 0 THEN tx[w].known[f] ELSE findings[f]]
           \in Documents
<1>1. tx[w].known \in Documents /\ findings \in Documents
  BY SMT DEF TypeOK, Transaction
<1> QED
  BY <1>1, SMT DEF Documents

\* The fields a step gives to a transaction keep its type.
LEMMA TypeOfLoad ==
  ASSUME NEW t \in Transaction, NEW fmt \in Formats, NEW d \in Documents
  PROVE  [t EXCEPT !.pc = "pick", !.format = fmt, !.doc = d] \in Transaction
BY Zenon DEF Transaction

LEMMA TypeOfPick ==
  ASSUME NEW t \in Transaction, NEW v \in Nat
  PROVE  [t EXCEPT !.pc = "insert", !.version = v] \in Transaction
BY Zenon DEF Transaction

LEMMA TypeOfInsert ==
  ASSUME NEW t \in Transaction, NEW R \in SUBSET Row, NEW pc \in {"pick", "commit"},
         NEW fmt \in Formats
  PROVE  [t EXCEPT !.rows = R, !.pc = pc, !.format = fmt] \in Transaction
BY Zenon DEF Transaction

LEMMA TypeOfThink ==
  ASSUME NEW t \in Transaction, NEW pc \in {"load", "commit"}, NEW ok \in BOOLEAN
  PROVE  [t EXCEPT !.pc = pc, !.ok = ok] \in Transaction
BY Zenon DEF Transaction

\* A step that gives one writer a new transaction and leaves the others alone.
LEMMA PutsType ==
  ASSUME TypeOK, NEW w \in Writers, NEW t \in Transaction, Puts(w, t)
  PROVE  /\ tx' \in [Writers -> Transaction]
         /\ tx'[w] = t
         /\ \A o \in Writers : o # w => tx'[o] = tx[o]
BY SMT DEF TypeOK, Puts

LEMMA PendingType ==
  ASSUME TypeOK, Numbered, NEW w \in Writers, At(w, "insert")
  PROVE  Pending(w) \in Row
<1>1. tx[w] \in Transaction
  BY DEF TypeOK
<1>2. PICK n \in Nat : Holds(w, n)
  BY DEF Numbered
<1>3. tx[w].version \in 1..(n + 1)
  BY <1>2 DEF Holds, At
<1>4. tx[w].version \in Nat \ {0}
  BY <1>3, SMT
<1> QED
  BY <1>1, <1>4, RunOfType, SMT DEF Pending, Row, Transaction

LEMMA AbortsType ==
  ASSUME TypeOK, NEW w \in Writers, Aborts(w)
  PROVE  TypeOK'
<1>1. tx' \in [Writers -> Transaction]
  BY FreshTransaction, PutsType DEF Aborts
<1> QED
  BY <1>1, SMT DEF Aborts, TypeOK, Enrichable

LEMMA StoreType ==
  ASSUME TypeOK, Numbered, NEW w \in Writers, Store(w)
  PROVE  TypeOK'
<1> tx[w] \in Transaction /\ tx[w].format \in Formats
  BY SMT DEF TypeOK, Transaction
<1>1. CASE Load(w)
  <2>1. FirstFormat(w) \in Formats
    BY DEF FirstFormat, Formats
  <2>2. tx' \in [Writers -> Transaction]
    BY <1>1, <2>1, LoadedType, TypeOfLoad, PutsType DEF Load
  <2> QED
    BY <1>1, <2>2 DEF Load, TypeOK
<1>2. CASE PickVersion(w)
  <2>1. NextVersion(tx[w].format) \in Nat
    BY NextIs, SMT DEF Numbered
  <2>2. tx' \in [Writers -> Transaction]
    BY <1>2, <2>1, TypeOfPick, PutsType DEF PickVersion
  <2> QED
    BY <1>2, <2>2 DEF PickVersion, TypeOK
<1>3. CASE Insert(w)
  <2>1. At(w, "insert") /\ Pending(w) \in Row
    BY <1>3, PendingType DEF Insert
  <2>2. tx[w].rows \cup {Pending(w)} \in SUBSET Row
    BY <2>1, SMT DEF Transaction
  <2>3. (CHOOSE fmt \in Formats : fmt # FirstFormat(w)) \in Formats
    BY HtmlSecond DEF Formats
  <2>4. (IF tx[w].format = FirstFormat(w) THEN "pick" ELSE "commit") \in {"pick", "commit"}
    OBVIOUS
  <2>5. tx' \in [Writers -> Transaction]
    BY <1>3, <2>2, <2>3, <2>4, TypeOfInsert, PutsType DEF Insert
  <2> QED
    BY <1>3, <2>5 DEF Insert, TypeOK
<1>4. CASE InsertConflict(w)
  BY <1>4, AbortsType DEF InsertConflict
<1> QED
  BY <1>1, <1>2, <1>3, <1>4 DEF Store

LEMMA TypeOfBegin ==
  ASSUME NEW t \in Transaction, NEW outcome \in Enrichable
  PROVE  [t EXCEPT !.outcome = outcome] \in Transaction
BY SMT DEF Transaction

LEMMA TypeOfStart ==
  ASSUME NEW t \in Transaction, NEW d \in Documents
  PROVE  [t EXCEPT !.known = d] \in Transaction
BY SMT DEF Transaction

LEMMA FinalizeType ==
  ASSUME TypeOK, Finalize
  PROVE  TypeOK'
<1> Worker \in Writers /\ AutoJob \in Writers
  BY DEF Writers
<1>1. CASE BeginFinalize
  <2>1. PICK outcome \in Enrichable :
          Puts(Worker, [Fresh("load") EXCEPT !.outcome = outcome])
    BY <1>1 DEF BeginFinalize
  <2>2. Fresh("load") \in Transaction
    BY FreshTransaction
  <2>3. [Fresh("load") EXCEPT !.outcome = outcome] \in Transaction
    BY <2>2, TypeOfBegin
  <2>4. tx' \in [Writers -> Transaction]
    BY <2>1, <2>3, PutsType
  <2> QED
    BY <1>1, <2>4 DEF BeginFinalize, TypeOK
<1>2. CASE CommitFinalize
  <2>1. tx[Worker].rows \subseteq Row /\ tx[Worker].outcome \in Enrichable
    BY SMT DEF TypeOK, Transaction
  <2>2. tx' \in [Writers -> Transaction]
    BY <1>2, FreshTransaction, PutsType DEF CommitFinalize
  <2> QED
    BY <1>2, <2>1, <2>2 DEF CommitFinalize, TypeOK
<1>3. CASE EnqueueAi
  <2>1. Fresh("ended") \in Transaction /\ Fresh("queued") \in Transaction
    BY FreshTransaction
  <2>2. tx' \in [Writers -> Transaction]
    BY <1>3, <2>1, SMT DEF EnqueueAi, TypeOK
  <2> QED
    BY <1>3, <2>2 DEF EnqueueAi, TypeOK
<1> QED
  BY <1>1, <1>2, <1>3 DEF Finalize

LEMMA JobType ==
  ASSUME TypeOK, Queue, NEW j \in Jobs, Reanalyze(j) \/ RunJob(j) \/ CrashJob(j)
  PROVE  TypeOK'
<1> j \in Writers /\ tx[j] \in Transaction
  BY DEF Writers, TypeOK
<1>1. CASE Reanalyze(j)
  BY <1>1, FreshTransaction, PutsType DEF Reanalyze, TypeOK
<1>2. CASE StartJob(j)
  <2>1. Fresh("think") \in Transaction /\ findings \in Documents
    BY FreshTransaction DEF TypeOK
  <2>3. [Fresh("think") EXCEPT !.known = findings] \in Transaction
    BY <2>1, TypeOfStart
  <2>4. tx' \in [Writers -> Transaction]
    BY <1>2, <2>3, PutsType DEF StartJob
  <2>2. tries[j] < MaxTries
    BY <1>2 DEF StartJob, Queue, At
  <2> QED
    BY <1>2, <2>2, <2>4, SMT DEF StartJob, TypeOK
<1>3. CASE Think(j)
  <2>1. PICK ok \in BOOLEAN :
          Puts(j, [tx[j] EXCEPT !.pc = IF ok THEN "load" ELSE "commit", !.ok = ok])
    BY <1>3 DEF Think
  <2>2. (IF ok THEN "load" ELSE "commit") \in {"load", "commit"}
    OBVIOUS
  <2>3. tx' \in [Writers -> Transaction]
    BY <2>1, <2>2, TypeOfThink, PutsType
  <2> QED
    BY <1>3, <2>3 DEF Think, TypeOK
<1>4. CASE CommitJob(j)
  <2>1. tx[j].rows \subseteq Row /\ tx[j].ok \in BOOLEAN /\ tries[j] \in 0..MaxTries
    BY SMT DEF TypeOK, Transaction
  <2>2. tx' \in [Writers -> Transaction]
    BY <1>4, FreshTransaction, PutsType DEF CommitJob
  <2>3. [job |-> j, run |-> tries[j], ok |-> tx[j].ok] \in Analysis
    BY <2>1 DEF Analysis
  <2> QED
    BY <1>4, <2>1, <2>2, <2>3 DEF CommitJob, TypeOK
<1>5. CASE EndJob(j)
  BY <1>5, FreshTransaction, PutsType DEF EndJob, TypeOK
<1>6. CASE CrashJob(j)
  BY <1>6, FreshTransaction, PutsType DEF CrashJob, TypeOK
<1> QED
  BY <1>1, <1>2, <1>3, <1>4, <1>5, <1>6 DEF RunJob

LEMMA TriageType ==
  ASSUME TypeOK, NEW f \in Findings, Triage(f)
  PROVE  TypeOK'
<1>1. findings' \in Documents
  BY SMT DEF TypeOK, Triage, PersistFinding, PatchFinding, Documents
<1> QED
  BY <1>1 DEF TypeOK, Triage, PersistFinding, PatchFinding

LEMMA FaultType ==
  ASSUME TypeOK, Queue, Fault
  PROVE  TypeOK'
<1>1. CASE WorkerCrash
  <2>1. Worker \in Writers
    BY DEF Writers
  <2>2. tx' \in [Writers -> Transaction]
    BY <1>1, <2>1, FreshTransaction, PutsType DEF WorkerCrash
  <2> QED
    BY <1>1, <2>2 DEF WorkerCrash, TypeOK
<1>2. CASE \E j \in Jobs : CrashJob(j)
  BY <1>2, JobType
<1>3. CASE \E w \in Writers : DatabaseFails(w)
  BY <1>3, AbortsType DEF DatabaseFails
<1> QED
  BY <1>1, <1>2, <1>3 DEF Fault

LEMMA TypeStep ==
  ASSUME TypeOK, Queue, Numbered, [Next]_vars
  PROVE  TypeOK'
<1>1. CASE \E w \in Writers : Store(w)
  BY <1>1, StoreType
<1>2. CASE Finalize
  BY <1>2, FinalizeType
<1>3. CASE EndOtherwise
  BY <1>3, SMT DEF EndOtherwise, TypeOK, Enrichable
<1>4. CASE \E j \in Jobs : Reanalyze(j) \/ RunJob(j)
  BY <1>4, JobType
<1>5. CASE \E f \in Findings : Triage(f)
  BY <1>5, TriageType
<1>6. CASE Fault
  BY <1>6, FaultType
<1>7. CASE UNCHANGED vars
  BY <1>7 DEF TypeOK, vars
<1> QED
  BY <1>1, <1>2, <1>3, <1>4, <1>5, <1>6, <1>7 DEF Next

-----------------------------------------------------------------------------
(* What the steps of a writer read and change *)

LEMMA LoadReads ==
  ASSUME TypeOK, NEW w \in Writers, Load(w)
  PROVE  /\ tx[w].pc = "load" /\ tx'[w].pc = "pick" /\ tx'[w].format = "json"
         /\ tx'[w].rows = tx[w].rows /\ tx'[w].known = tx[w].known /\ tx'[w].ok = tx[w].ok
         /\ tx'[w].outcome = tx[w].outcome
         /\ \A f \in Findings :
              tx'[w].doc[f] = IF tx[w].known[f] > 0 THEN tx[w].known[f] ELSE findings[f]
         /\ \A o \in Writers : o # w => tx'[o] = tx[o]
<1> DEFINE d == [f \in Findings |-> IF tx[w].known[f] > 0 THEN tx[w].known[f] ELSE findings[f]]
           t == [tx[w] EXCEPT !.pc = "pick", !.format = "json", !.doc = d]
<1>1. tx[w] \in Transaction /\ d \in Documents
  BY LoadedType DEF TypeOK
<1>2. Puts(w, t) /\ tx[w].pc = "load"
  BY DEF Load, FirstFormat, At
<1>3. t \in Transaction
  BY <1>1, TypeOfLoad DEF Formats
<1>4. tx'[w] = t /\ \A o \in Writers : o # w => tx'[o] = tx[o]
  BY <1>2, <1>3, PutsType
<1>5. /\ t.pc = "pick" /\ t.format = "json" /\ t.rows = tx[w].rows /\ t.known = tx[w].known
      /\ t.ok = tx[w].ok /\ t.doc = d /\ t.outcome = tx[w].outcome
  BY <1>1, SMT DEF Transaction
<1> QED
  BY <1>2, <1>4, <1>5

LEMMA PickReads ==
  ASSUME TypeOK, NEW w \in Writers, PickVersion(w), NEW n \in Nat, Height(n)
  PROVE  /\ tx[w].pc = "pick" /\ tx'[w].pc = "insert" /\ tx'[w].version = n + 1
         /\ tx'[w].format = tx[w].format /\ tx'[w].rows = tx[w].rows
         /\ tx'[w].known = tx[w].known /\ tx'[w].doc = tx[w].doc /\ tx'[w].ok = tx[w].ok
         /\ tx'[w].outcome = tx[w].outcome
         /\ \A o \in Writers : o # w => tx'[o] = tx[o]
<1> DEFINE t == [tx[w] EXCEPT !.pc = "insert", !.version = n + 1]
<1>1. tx[w] \in Transaction /\ tx[w].format \in Formats
  BY SMT DEF TypeOK, Transaction
<1>2. Puts(w, t) /\ tx[w].pc = "pick"
  BY <1>1, NextIs DEF PickVersion, At
<1>6. n + 1 \in Nat
  OBVIOUS
<1>3. t \in Transaction
  BY <1>1, <1>6, TypeOfPick
<1>4. tx'[w] = t /\ \A o \in Writers : o # w => tx'[o] = tx[o]
  BY <1>2, <1>3, PutsType
<1>5. /\ t.pc = "insert" /\ t.version = n + 1 /\ t.format = tx[w].format
      /\ t.rows = tx[w].rows /\ t.known = tx[w].known /\ t.doc = tx[w].doc
      /\ t.ok = tx[w].ok /\ t.outcome = tx[w].outcome
  BY <1>1, SMT DEF Transaction
<1> QED
  BY <1>2, <1>4, <1>5

LEMMA InsertReads ==
  ASSUME TypeOK, Numbered, NEW w \in Writers, Insert(w)
  PROVE  /\ tx[w].pc = "insert"
         /\ tx'[w].pc = IF tx[w].format = "json" THEN "pick" ELSE "commit"
         /\ tx'[w].format = "html" /\ tx'[w].rows = tx[w].rows \cup {Pending(w)}
         /\ tx'[w].known = tx[w].known /\ tx'[w].doc = tx[w].doc /\ tx'[w].ok = tx[w].ok
         /\ tx'[w].outcome = tx[w].outcome
         /\ \A o \in Writers : o # w => tx'[o] = tx[o]
<1> DEFINE pc == IF tx[w].format = "json" THEN "pick" ELSE "commit"
           R == tx[w].rows \cup {Pending(w)}
           t == [tx[w] EXCEPT !.rows = R, !.pc = pc, !.format = "html"]
<1>1. tx[w] \in Transaction
  BY DEF TypeOK
<1>2. Puts(w, t) /\ tx[w].pc = "insert"
  BY HtmlSecond DEF Insert, At, FirstFormat
<1>3. Pending(w) \in Row
  BY <1>2, PendingType DEF At
<1>4. R \in SUBSET Row /\ pc \in {"pick", "commit"} /\ "html" \in Formats
  BY <1>1, <1>3, SMT DEF Transaction, Formats
<1> HIDE DEF R, pc
<1>5. t \in Transaction
  BY <1>1, <1>4, TypeOfInsert
<1>6. tx'[w] = t /\ \A o \in Writers : o # w => tx'[o] = tx[o]
  BY <1>2, <1>5, PutsType
<1>7. /\ t.pc = pc /\ t.format = "html" /\ t.rows = R /\ t.known = tx[w].known
      /\ t.doc = tx[w].doc /\ t.ok = tx[w].ok /\ t.outcome = tx[w].outcome
  BY <1>1, <1>4, SMT DEF Transaction
<1> QED
  BY <1>2, <1>6, <1>7 DEF R, pc

LEMMA ThinkReads ==
  ASSUME TypeOK, NEW j \in Jobs, Think(j)
  PROVE  /\ tx[j].pc = "think"
         /\ tx'[j].ok \in BOOLEAN /\ tx'[j].pc = IF tx'[j].ok THEN "load" ELSE "commit"
         /\ tx'[j].rows = tx[j].rows /\ tx'[j].known = tx[j].known
         /\ \A o \in Writers : o # j => tx'[o] = tx[o]
<1>1. tx[j] \in Transaction /\ j \in Writers
  BY DEF TypeOK, Writers
<1>2. PICK ok \in BOOLEAN :
        Puts(j, [tx[j] EXCEPT !.pc = IF ok THEN "load" ELSE "commit", !.ok = ok])
  BY DEF Think
<1> DEFINE pc == IF ok THEN "load" ELSE "commit"
           t == [tx[j] EXCEPT !.pc = pc, !.ok = ok]
<1>3. pc \in {"load", "commit"}
  OBVIOUS
<1> HIDE DEF pc
<1>4. t \in Transaction
  BY <1>1, <1>3, TypeOfThink
<1>5. Puts(j, t)
  BY <1>2 DEF pc
<1>6. tx'[j] = t /\ \A o \in Writers : o # j => tx'[o] = tx[o]
  BY <1>1, <1>4, <1>5, PutsType
<1>7. t.pc = pc /\ t.ok = ok /\ t.rows = tx[j].rows /\ t.known = tx[j].known
  BY <1>1, <1>3, SMT DEF Transaction
<1>8. tx[j].pc = "think"
  BY DEF Think, At
<1> QED
  BY <1>6, <1>7, <1>8 DEF pc

LEMMA FreshReads ==
  ASSUME TypeOK, NEW w \in Writers, NEW t,
         NEW pc \in {"none", "queued", "think", "load", "after", "ended"},
         \/ t = Fresh(pc)
         \/ \E outcome \in Enrichable : t = [Fresh(pc) EXCEPT !.outcome = outcome]
         \/ t = [Fresh(pc) EXCEPT !.known = findings],
         Puts(w, t)
  PROVE  /\ tx'[w] = t /\ \A o \in Writers : o # w => tx'[o] = tx[o]
         /\ t.pc = pc /\ t.rows = {} /\ t.ok = FALSE /\ Empty(w)
<1>1. Fresh(pc) \in Transaction /\ findings \in Documents
  BY FreshTransaction DEF TypeOK
<1>2. t \in Transaction
  BY <1>1, TypeOfBegin, TypeOfStart
<1>3. tx'[w] = t /\ \A o \in Writers : o # w => tx'[o] = tx[o]
  BY <1>2, PutsType
<1>4. t.pc = pc /\ t.rows = {} /\ t.ok = FALSE
  BY SMT DEF Fresh
<1>5. Empty(w)
  BY <1>3, <1>4 DEF Empty
<1> QED
  BY <1>3, <1>4, <1>5

-----------------------------------------------------------------------------
(* Rows *)

LEMMA AbortsRows ==
  ASSUME TypeOK, Rows, NEW w \in Writers, Aborts(w)
  PROVE  Rows'
<1>1. Empty(w) /\ \A o \in Writers : o # w => Still(o)
  BY FreshReads DEF Aborts, Still, RunOf
<1> QED
  BY <1>1, QuietStep DEF Aborts

LEMMA PickRows ==
  ASSUME TypeOK, Rows, NEW w \in Writers, PickVersion(w)
  PROVE  Rows'
<1>1. PICK n \in Nat : Height(n) /\ \A o \in Writers : Holds(o, n)
  BY DEF Rows, Numbered
<1>2. \A o \in Writers : RunOf(o)' = RunOf(o)
  BY DEF PickVersion, RunOf
<1>3. /\ tx[w].pc = "pick" /\ tx'[w].pc = "insert" /\ tx'[w].version = n + 1
      /\ tx'[w].format = tx[w].format /\ tx'[w].rows = tx[w].rows /\ tx'[w].doc = tx[w].doc
      /\ \A o \in Writers : o # w => tx'[o] = tx[o]
  BY <1>1, PickReads
<1>4. Height(n)'
  BY <1>1 DEF Height, VersionsOf, PickVersion
<1>5. Holds(w, n)'
  BY <1>1, <1>2, <1>3, SMT DEF Holds, RowOf
<1>6. \A o \in Writers : o # w => Holds(o, n)'
  BY <1>1, <1>2, <1>3 DEF Holds, RowOf
<1>7. OneHolder'
  BY <1>3 DEF Rows, OneHolder
<1>8. UniqueKeys' /\ FormatsAgree'
  BY DEF Rows, UniqueKeys, FormatsAgree, SameKey, PickVersion
<1> QED
  BY <1>4, <1>5, <1>6, <1>7, <1>8 DEF Rows, Numbered

\* Whoever inserts the first row of version n + 1 is the only one with rows.
LEMMA InsertRows ==
  ASSUME TypeOK, Rows, NEW w \in Writers, Insert(w)
  PROVE  Rows'
<1>1. PICK n \in Nat : Height(n) /\ \A o \in Writers : Holds(o, n)
  BY DEF Rows, Numbered
<1>2. \A o \in Writers : RunOf(o)' = RunOf(o)
  BY DEF Insert, RunOf
<1>3. /\ tx[w].pc = "insert" /\ tx'[w].pc = IF tx[w].format = "json" THEN "pick" ELSE "commit"
      /\ tx'[w].format = "html" /\ tx'[w].rows = tx[w].rows \cup {Pending(w)}
      /\ tx'[w].doc = tx[w].doc
      /\ \A o \in Writers : o # w => tx'[o] = tx[o]
  BY InsertReads DEF Rows
<1>4. tx[w].format \in Formats /\ tx[w].version \in 1..(n + 1)
  <2>1. tx[w].format \in Formats
    BY SMT DEF TypeOK, Transaction
  <2> QED
    BY <2>1, <1>1, <1>3 DEF Holds
<1>5. tx[w].version = n + 1
  <2>1. tx[w].version \notin VersionsOf(tx[w].format)
    BY DEF Insert, SameKey, Pending, VersionsOf
  <2>2. VersionsOf(tx[w].format) = 1..n
    BY <1>1, <1>4 DEF Height, Formats
  <2> QED
    BY <1>4, <2>1, <2>2, SMT
<1>6. Pending(w) = RowOf(w, tx[w].format, n + 1)
  BY <1>5 DEF Pending, RowOf
<1>7. tx[w].rows = IF tx[w].format = "json" THEN {} ELSE {RowOf(w, "json", n + 1)}
  BY <1>1, <1>3 DEF Holds
<1>8. Height(n)'
  BY <1>1 DEF Height, VersionsOf, Insert
<1>9. Holds(w, n)'
  <2>1. CASE tx[w].format = "json"
    BY <2>1, <1>2, <1>3, <1>6, <1>7 DEF Holds, RowOf
  <2>2. CASE tx[w].format = "html"
    <3>1. tx'[w].rows = {RowOf(w, "json", n + 1), RowOf(w, "html", n + 1)}
      BY <2>2, <1>3, <1>6, <1>7
    <3> QED
      BY <2>2, <3>1, <1>2, <1>3 DEF Holds, RowOf
  <2> QED
    BY <2>1, <2>2, <1>4 DEF Formats
<1>10. \A o \in Writers : o # w => Holds(o, n)'
  BY <1>1, <1>2, <1>3 DEF Holds, RowOf
<1>11. \A o \in Writers : o # w => tx[o].rows = {}
  <2> SUFFICES ASSUME NEW o \in Writers, o # w, tx[o].rows # {} PROVE FALSE
    OBVIOUS
  <2>1. CASE tx[w].format = "json"
    <3>1. RowOf(o, "json", n + 1) \in tx[o].rows
      <4>1. tx[o] \in Transaction
        BY DEF TypeOK
      <4>2. tx[o].format \in Formats /\ Holds(o, n)
        BY <1>1, <4>1, SMT DEF Transaction
      <4> QED
        BY <4>1, <4>2, SMT DEF Transaction, Holds, Formats
    <3>2. SameKey(RowOf(o, "json", n + 1), Pending(w))
      BY <2>1, <1>5 DEF SameKey, RowOf, Pending
    <3> QED
      BY <3>1, <3>2 DEF Insert
  <2>2. CASE tx[w].format = "html"
    BY <2>2, <1>7 DEF Rows, OneHolder
  <2> QED
    BY <2>1, <2>2, <1>4 DEF Formats
<1>12. OneHolder'
  BY <1>3, <1>11 DEF OneHolder
<1>13. UniqueKeys' /\ FormatsAgree'
  BY DEF Rows, UniqueKeys, FormatsAgree, SameKey, Insert
<1> QED
  BY <1>8, <1>9, <1>10, <1>12, <1>13 DEF Rows, Numbered

\* A transaction with rows makes them the reports of version n + 1.
LEMMA CommitRows ==
  ASSUME TypeOK, Rows, NEW w \in Writers, tx[w].pc = "commit",
         reports' = reports \cup tx[w].rows, Empty(w), UNCHANGED tries,
         \A o \in Writers : o # w => tx'[o] = tx[o]
  PROVE  Rows'
<1>1. \A o \in Writers : o # w => Still(o)
  BY DEF Still, RunOf
<1>2. CASE tx[w].rows = {}
  BY <1>1, <1>2, QuietStep
<1>3. CASE tx[w].rows # {}
  <2>1. PICK n \in Nat : Height(n) /\ \A o \in Writers : Holds(o, n)
    BY DEF Rows, Numbered
  <2> DEFINE a == RowOf(w, "json", n + 1)
             b == RowOf(w, "html", n + 1)
  <2>2. reports' = reports \cup {a, b}
    BY <1>3, <2>1 DEF Holds
  <2>3. /\ a.format = "json" /\ a.version = n + 1 /\ b.format = "html" /\ b.version = n + 1
        /\ a.doc = b.doc /\ a.by = b.by /\ a.run = b.run
    BY DEF RowOf
  <2> HIDE DEF a, b
  <2>4. /\ VersionsOf("json")' = VersionsOf("json") \cup {n + 1}
        /\ VersionsOf("html")' = VersionsOf("html") \cup {n + 1}
    BY <2>2, <2>3 DEF VersionsOf
  <2>5. Height(n + 1)'
    <3>1. 1..(n + 1) = (1..n) \cup {n + 1}
      BY SMT
    <3> QED
      BY <2>1, <2>4, <3>1 DEF Height
  <2>6. \A o \in Writers : o # w => tx[o].rows = {}
    BY <1>3 DEF Rows, OneHolder
  <2>7. ASSUME NEW o \in Writers PROVE Holds(o, n + 1)'
    <3>1. CASE o = w
      BY <3>1 DEF Holds, Empty
    <3>2. CASE o # w
      <4>1. tx'[o] = tx[o] /\ tx[o].rows = {} /\ Holds(o, n)
        BY <3>2, <2>1, <2>6
      <4>2. tx[o].pc \in {"pick", "insert"} => tx[o].format = "json"
        BY <4>1 DEF Holds
      <4>3. tx[o].pc = "insert" => tx[o].version \in 1..((n + 1) + 1)
        BY <4>1, SMT DEF Holds
      <4> QED
        BY <4>1, <4>2, <4>3 DEF Holds
    <3> QED
      BY <3>1, <3>2
  <2>8. n + 1 \in Nat
    OBVIOUS
  <2>9. Numbered'
    BY <2>5, <2>7, <2>8 DEF Numbered
  <2>10. OneHolder'
    BY <2>6 DEF OneHolder, Empty
  <2>11. \A r \in reports : r.format \in Formats /\ r.version \in 1..n
    <3>1. \A r \in reports : r.format \in Formats
      BY SMT DEF TypeOK, Row
    <3>2. \A r \in reports : r.version \in VersionsOf(r.format)
      BY DEF VersionsOf
    <3> QED
      BY <2>1, <3>1, <3>2 DEF Height, Formats
  <2>12. UniqueKeys'
    BY <2>2, <2>3, <2>11, SMT DEF Rows, UniqueKeys, SameKey
  <2>13. FormatsAgree'
    <3> DEFINE Twin(r, s, fmt) == /\ s.format = fmt /\ s.version = r.version
                                  /\ s.doc = r.doc /\ s.by = r.by /\ s.run = r.run
    <3>1. ASSUME NEW r \in reports', NEW fmt \in Formats PROVE \E s \in reports' : Twin(r, s, fmt)
      <4>1. CASE r \in reports
        <5>1. \E s \in reports : Twin(r, s, fmt)
          BY <4>1 DEF Rows, FormatsAgree
        <5> QED
          BY <5>1, <2>2
      <4>2. CASE r \in {a, b}
        <5>1. Twin(r, a, "json") /\ Twin(r, b, "html")
          BY <4>2, <2>3
        <5> QED
          BY <5>1, <2>2 DEF Formats
      <4> QED
        BY <4>1, <4>2, <2>2
    <3> QED
      BY <3>1 DEF FormatsAgree
  <2> QED
    BY <2>9, <2>10, <2>12, <2>13 DEF Rows
<1> QED
  BY <1>2, <1>3

LEMMA RowsStep ==
  ASSUME TypeOK, Rows, [Next]_vars
  PROVE  Rows'
<1> Worker \in Writers /\ AutoJob \in Writers /\ \A j \in Jobs : j \in Writers
  BY DEF Writers
<1>1. ASSUME NEW w \in Writers, Load(w) PROVE Rows'
  <2>1. tx[w].rows = {}
    BY <1>1, LoadReads DEF Rows, Numbered, Holds
  <2>2. Empty(w) /\ \A o \in Writers : o # w => Still(o)
    BY <1>1, <2>1, LoadReads DEF Empty, Still, RunOf, Load
  <2> QED
    BY <1>1, <2>2, QuietStep DEF Load
<1>2. ASSUME NEW w \in Writers, Aborts(w) PROVE Rows'
  BY <1>2, AbortsRows
<1>3. CASE BeginFinalize
  <2>1. PICK outcome \in Enrichable :
          Puts(Worker, [Fresh("load") EXCEPT !.outcome = outcome])
    BY <1>3 DEF BeginFinalize
  <2>2. Empty(Worker) /\ \A o \in Writers : o # Worker => Still(o)
    BY <1>3, <2>1, FreshReads DEF Still, RunOf, BeginFinalize
  <2> QED
    BY <1>3, <2>2, QuietStep DEF BeginFinalize
<1>4. CASE CommitFinalize
  <2>1. Empty(Worker) /\ \A o \in Writers : o # Worker => tx'[o] = tx[o]
    BY <1>4, FreshReads DEF CommitFinalize
  <2> QED
    BY <1>4, <2>1, CommitRows DEF CommitFinalize, At
<1>5. CASE EnqueueAi
  <2>1. Fresh("ended").pc = "ended" /\ Fresh("ended").rows = {}
        /\ Fresh("queued").pc = "queued" /\ Fresh("queued").rows = {}
    BY DEF Fresh
  <2>2. \A o \in Writers : \/ tx'[o] = tx[o]
                           \/ tx'[o] = Fresh("ended") \/ tx'[o] = Fresh("queued")
    BY <1>5, SMT DEF EnqueueAi, TypeOK
  <2>3. \A o \in Writers : Still(o) \/ Empty(o)
    BY <1>5, <2>1, <2>2 DEF Still, Empty, RunOf, EnqueueAi
  <2> QED
    BY <1>5, <2>3, QuietStep DEF EnqueueAi
<1>6. CASE WorkerCrash
  <2>1. Empty(Worker) /\ \A o \in Writers : o # Worker => Still(o)
    BY <1>6, FreshReads DEF WorkerCrash, Still, RunOf
  <2> QED
    BY <1>6, <2>1, QuietStep DEF WorkerCrash
<1>7. ASSUME NEW j \in Jobs, Reanalyze(j) \/ EndJob(j) \/ CrashJob(j) PROVE Rows'
  <2>1. Empty(j) /\ \A o \in Writers : o # j => Still(o)
    BY <1>7, FreshReads DEF Reanalyze, EndJob, CrashJob, Still, RunOf
  <2> QED
    BY <1>7, <2>1, QuietStep DEF Reanalyze, EndJob, CrashJob
<1>8. ASSUME NEW j \in Jobs, StartJob(j) PROVE Rows'
  <2>1. Empty(j) /\ \A o \in Writers : o # j => tx'[o] = tx[o]
    BY <1>8, FreshReads DEF StartJob
  <2>2. \A o \in Writers : o # j => RunOf(o)' = RunOf(o)
    BY <1>8, SMT DEF StartJob, RunOf, TypeOK, Writers
  <2>3. \A o \in Writers : Still(o) \/ Empty(o)
    BY <2>1, <2>2 DEF Still
  <2> QED
    BY <1>8, <2>3, QuietStep DEF StartJob
<1>9. ASSUME NEW j \in Jobs, Think(j) PROVE Rows'
  <2>1. tx[j].rows = {}
    BY <1>9, ThinkReads DEF Rows, Numbered, Holds
  <2>2. Empty(j) /\ \A o \in Writers : o # j => Still(o)
    BY <1>9, <2>1, ThinkReads DEF Empty, Still, RunOf, Think
  <2> QED
    BY <1>9, <2>2, QuietStep DEF Think
<1>10. ASSUME NEW j \in Jobs, CommitJob(j) PROVE Rows'
  <2>1. Empty(j) /\ \A o \in Writers : o # j => tx'[o] = tx[o]
    BY <1>10, FreshReads DEF CommitJob
  <2> QED
    BY <1>10, <2>1, CommitRows DEF CommitJob, At
<1>11. ASSUME UNCHANGED <<reports, tx, tries>> PROVE Rows'
  <2>1. \A o \in Writers : Still(o)
    BY <1>11 DEF Still, RunOf
  <2> QED
    BY <1>11, <2>1, QuietStep
<1>12. CASE EndOtherwise \/ (\E f \in Findings : Triage(f)) \/ UNCHANGED vars
  BY <1>11, <1>12 DEF EndOtherwise, Triage, PersistFinding, PatchFinding, vars
<1>13. CASE \E w \in Writers : Store(w)
  BY <1>1, <1>2, <1>13, PickRows, InsertRows DEF Store, InsertConflict
<1>14. CASE Finalize
  BY <1>3, <1>4, <1>5, <1>14 DEF Finalize
<1>15. CASE \E j \in Jobs : Reanalyze(j) \/ RunJob(j)
  BY <1>7, <1>8, <1>9, <1>10, <1>15 DEF RunJob
<1>16. CASE Fault
  BY <1>2, <1>6, <1>7, <1>16 DEF Fault, DatabaseFails
<1> QED
  BY <1>12, <1>13, <1>14, <1>15, <1>16 DEF Next

-----------------------------------------------------------------------------
(* The queue and the scan *)

\* The steps of one transaction, which change nothing outside of it.
LEMMA InTransaction ==
  ASSUME TypeOK, Rows, NEW w \in Writers, Load(w) \/ PickVersion(w) \/ Insert(w)
  PROVE  /\ tx[w].pc \in {"load", "pick", "insert"}
         /\ tx'[w].pc \in {"pick", "insert", "commit"}
         /\ tx'[w].pc = "commit" => tx'[w].rows # {}
         /\ \A o \in Writers : o # w => tx'[o] = tx[o]
         /\ UNCHANGED <<scan, findings, reports, analyses, tries>>
<1>1. CASE Load(w)
  BY <1>1, LoadReads DEF Load
<1>2. CASE PickVersion(w)
  BY <1>2, PickReads DEF PickVersion, Rows, Numbered
<1>3. CASE Insert(w)
  BY <1>3, InsertReads DEF Insert, Rows
<1> QED
  BY <1>1, <1>2, <1>3

\* The steps that give a writer a fresh transaction.
LEMMA Renewed ==
  ASSUME TypeOK, NEW w \in Writers,
         NEW pc \in {"none", "queued", "think", "load", "after", "ended"}, Puts(w, Fresh(pc))
  PROVE  /\ tx'[w].pc = pc /\ tx'[w].rows = {} /\ tx'[w].ok = FALSE
         /\ \A o \in Writers : o # w => tx'[o] = tx[o]
BY FreshReads

LEMMA Begun ==
  ASSUME TypeOK, BeginFinalize
  PROVE  /\ tx'[Worker].pc = "load" /\ tx'[Worker].rows = {}
         /\ \A o \in Writers : o # Worker => tx'[o] = tx[o]
<1>1. PICK outcome \in Enrichable :
        Puts(Worker, [Fresh("load") EXCEPT !.outcome = outcome])
  BY DEF BeginFinalize
<1>2. Worker \in Writers
  BY DEF Writers
<1> QED
  BY <1>1, <1>2, FreshReads

LEMMA Started ==
  ASSUME TypeOK, NEW j \in Jobs, StartJob(j)
  PROVE  /\ tx'[j].pc = "think" /\ tx'[j].rows = {}
         /\ \A o \in Writers : o # j => tx'[o] = tx[o]
<1>1. Puts(j, [Fresh("think") EXCEPT !.known = findings]) /\ j \in Writers
  BY DEF StartJob, Writers
<1> QED
  BY <1>1, FreshReads

LEMMA Enqueued ==
  ASSUME TypeOK, EnqueueAi
  PROVE  /\ tx[Worker].pc = "after" /\ tx'[Worker].pc = "ended" /\ tx'[Worker].rows = {}
         /\ \/ tx'[AutoJob] = tx[AutoJob]
            \/ tx'[AutoJob].pc = "queued" /\ tx'[AutoJob].rows = {}
         /\ \A o \in Writers \ {Worker, AutoJob} : tx'[o] = tx[o]
<1>1. PICK taken \in BOOLEAN :
        tx' = [tx EXCEPT ![Worker] = Fresh("ended"),
                         ![AutoJob] = IF taken THEN Fresh("queued") ELSE @]
  BY DEF EnqueueAi
<1>2. /\ tx'[Worker] = Fresh("ended")
      /\ tx'[AutoJob] = tx[AutoJob] \/ tx'[AutoJob] = Fresh("queued")
      /\ \A o \in Writers \ {Worker, AutoJob} : tx'[o] = tx[o]
  BY <1>1, SMT DEF TypeOK, Writers
<1>3. /\ Fresh("ended").pc = "ended" /\ Fresh("ended").rows = {}
      /\ Fresh("queued").pc = "queued" /\ Fresh("queued").rows = {}
  BY DEF Fresh
<1>4. tx[Worker].pc = "after"
  BY DEF EnqueueAi, At
<1> QED
  BY <1>2, <1>3, <1>4

\* A job is queued by the worker that ended, by a user, or by ARQ after a crash.
LEMMA QueueStep ==
  ASSUME TypeOK, Rows, Queue, ScanState, [Next]_vars
  PROVE  Queue'
<1> Worker \in Writers /\ AutoJob \in Writers /\ \A j \in Jobs : j \in Writers /\ j # Worker
  BY DEF Writers
<1>1. ASSUME NEW w \in Writers, Load(w) \/ PickVersion(w) \/ Insert(w) PROVE Queue'
  BY <1>1, InTransaction DEF Queue
<1>2. ASSUME NEW w \in Writers, Aborts(w), tx[w].pc # "none" PROVE Queue'
  <2>1. tx'[w].pc = "ended" /\ \A o \in Writers : o # w => tx'[o] = tx[o]
    BY <1>2, Renewed DEF Aborts
  <2>2. tries' = tries
    BY <1>2 DEF Aborts
  <2> QED
    BY <1>2, <2>1, <2>2 DEF Queue
<1>3. CASE BeginFinalize
  BY <1>3, Begun DEF BeginFinalize, Queue, At
<1>4. CASE CommitFinalize
  <2>1. tx[Worker].pc = "commit" /\ tries' = tries /\ \A o \in Writers : o # Worker => tx'[o] = tx[o]
    BY <1>4, Renewed DEF CommitFinalize, At
  <2> QED
    BY <2>1 DEF Queue
<1>5. CASE EnqueueAi
  <2>1. tx[AutoJob].pc = "none" /\ tries[AutoJob] = 0 /\ tries' = tries
    BY <1>5, Enqueued DEF Queue, EnqueueAi
  <2> QED
    BY <1>5, <2>1, Enqueued, SMT DEF Queue
<1>6. CASE WorkerCrash
  <2>1. tx[Worker].pc # "ended" /\ tries' = tries
    BY <1>6 DEF WorkerCrash
  <2>2. \A o \in Writers : o # Worker => tx'[o] = tx[o]
    BY <1>6, Renewed DEF WorkerCrash
  <2> QED
    BY <2>1, <2>2 DEF Queue
<1>7. ASSUME NEW j \in Jobs, Reanalyze(j) PROVE Queue'
  <2>1. tx[j].pc = "none" /\ j # AutoJob /\ tries' = tries
    BY <1>7 DEF Reanalyze, At
  <2>2. tx'[j].pc = "queued" /\ \A o \in Writers : o # j => tx'[o] = tx[o]
    BY <1>7, Renewed DEF Reanalyze
  <2>3. tries[j] < MaxTries
    BY <2>1, SMT DEF Queue
  <2> QED
    BY <2>1, <2>2, <2>3 DEF Queue
<1>8. ASSUME NEW j \in Jobs, StartJob(j) PROVE Queue'
  <2>1. tx[j].pc = "queued" /\ \A i \in Jobs : i # j => tries'[i] = tries[i]
    BY <1>8, SMT DEF StartJob, At, TypeOK
  <2>2. tx'[j].pc = "think" /\ \A o \in Writers : o # j => tx'[o] = tx[o]
    BY <1>8, Started
  <2> QED
    BY <2>1, <2>2 DEF Queue
<1>9. ASSUME NEW j \in Jobs, Think(j) \/ CommitJob(j) \/ EndJob(j) PROVE Queue'
  <2>1. tx[j].pc \in {"think", "commit", "after"} /\ tries' = tries
    BY <1>9 DEF Think, CommitJob, EndJob, At
  <2>2. /\ tx'[j].pc \in {"load", "commit", "after", "ended"}
        /\ \A o \in Writers : o # j => tx'[o] = tx[o]
    BY <1>9, Renewed, ThinkReads DEF CommitJob, EndJob
  <2> QED
    BY <2>1, <2>2 DEF Queue
<1>10. ASSUME NEW j \in Jobs, CrashJob(j) PROVE Queue'
  <2>1. tx[j].pc # "none" /\ tries' = tries
    BY <1>10 DEF CrashJob
  <2>2. /\ tx'[j].pc = "ended" \/ (tx'[j].pc = "queued" /\ tries[j] < MaxTries)
        /\ \A o \in Writers : o # j => tx'[o] = tx[o]
    BY <1>10, Renewed DEF CrashJob
  <2> QED
    BY <2>1, <2>2 DEF Queue
<1>11. CASE EndOtherwise \/ (\E f \in Findings : Triage(f)) \/ UNCHANGED vars
  BY <1>11 DEF Queue, EndOtherwise, Triage, PersistFinding, PatchFinding, vars
<1>12. CASE \E w \in Writers : Store(w)
  BY <1>1, <1>2, <1>12 DEF Store, InsertConflict, At
<1>13. CASE Finalize
  BY <1>3, <1>4, <1>5, <1>13 DEF Finalize
<1>14. CASE \E j \in Jobs : Reanalyze(j) \/ RunJob(j)
  BY <1>7, <1>8, <1>9, <1>14 DEF RunJob
<1>15. CASE Fault
  BY <1>2, <1>6, <1>10, <1>15 DEF Fault, DatabaseFails
<1> QED
  BY <1>11, <1>12, <1>13, <1>14, <1>15 DEF Next

Lifecycle == ScanState /\ CompletedHasReport

\* The rows of a transaction name their writer and its run, and show its document.
LEMMA RowsNamed ==
  ASSUME Rows, NEW w \in Writers, tx[w].pc = "commit"
  PROVE  \A r \in tx[w].rows : /\ r.by = w /\ r.run = RunOf(w) /\ r.doc = tx[w].doc
                               /\ reports = {} => r.version = 1
<1>1. PICK n \in Nat : Height(n) /\ Holds(w, n)
  BY DEF Rows, Numbered
<1>2. tx[w].rows \in {{}, {RowOf(w, "json", n + 1), RowOf(w, "html", n + 1)}}
  BY <1>1 DEF Holds
<1>3. reports = {} => n = 0
  <2>1. reports = {} => 1..n = {}
    BY <1>1 DEF Height, VersionsOf
  <2> QED
    BY <2>1, SMT
<1>4. \A fmt : /\ RowOf(w, fmt, n + 1).by = w /\ RowOf(w, fmt, n + 1).version = n + 1
              /\ RowOf(w, fmt, n + 1).run = RunOf(w) /\ RowOf(w, fmt, n + 1).doc = tx[w].doc
  BY DEF RowOf
<1> QED
  BY <1>2, <1>3, <1>4

LEMMA LifecycleStep ==
  ASSUME TypeOK, Rows, Lifecycle, [Next]_vars
  PROVE  Lifecycle'
<1> Worker \in Writers /\ AutoJob \in Writers /\ \A j \in Jobs : j \in Writers /\ j # Worker
  BY DEF Writers
<1> ScanState /\ CompletedHasReport
  BY DEF Lifecycle
<1> USE DEF Lifecycle
<1>1. ASSUME NEW w \in Writers, Load(w) \/ PickVersion(w) \/ Insert(w) PROVE Lifecycle'
  <2>1. /\ tx[w].pc \in {"load", "pick", "insert"} /\ tx'[w].pc \in {"pick", "insert", "commit"}
        /\ tx'[w].pc = "commit" => tx'[w].rows # {}
        /\ \A o \in Writers : o # w => tx'[o] = tx[o]
        /\ scan' = scan /\ reports' = reports
    BY <1>1, InTransaction
  <2>2. CASE w = Worker
    BY <2>1, <2>2 DEF ScanState, CompletedHasReport
  <2>3. CASE w \in Jobs
    <3>1. scan \in Enrichable
      BY <2>1, <2>3 DEF ScanState
    <3>2. tx'[Worker] = tx[Worker]
      BY <2>1, <2>3
    <3> QED
      BY <2>1, <3>1, <3>2 DEF ScanState, CompletedHasReport
  <2> QED
    BY <2>2, <2>3 DEF Writers
<1>2. ASSUME NEW w \in Writers, Aborts(w),
             tx[w].pc \in {"think", "load", "pick", "insert", "commit"}
      PROVE  Lifecycle'
  <2>1. /\ tx'[w].pc = "ended" /\ \A o \in Writers : o # w => tx'[o] = tx[o]
    BY <1>2, Renewed DEF Aborts
  <2>2. /\ reports' = reports
        /\ scan' = IF w = Worker /\ tx[w].outcome = "completed" THEN "failed" ELSE scan
    BY <1>2 DEF Aborts
  <2>3. CASE w = Worker
    <3>1. reports = {} /\ \A j \in Jobs : tx[j].pc = "none"
      BY <1>2, <2>3 DEF ScanState, Enrichable
    <3>2. reports' = {} /\ \A j \in Jobs : tx'[j].pc = "none"
      BY <2>1, <2>2, <2>3, <3>1
    <3>3. scan' \in {"running", "failed"} /\ tx'[Worker].pc = "ended"
      BY <1>2, <2>1, <2>2, <2>3 DEF ScanState
    <3> QED
      BY <3>2, <3>3 DEF ScanState, CompletedHasReport
  <2>4. CASE w \in Jobs
    <3>1. scan \in Enrichable
      BY <1>2, <2>4 DEF ScanState
    <3>2. tx'[Worker] = tx[Worker] /\ scan' = scan
      BY <2>1, <2>2, <2>4
    <3> QED
      BY <2>2, <3>1, <3>2 DEF ScanState, CompletedHasReport
  <2> QED
    BY <2>3, <2>4 DEF Writers
<1>3. CASE BeginFinalize
  <2>1. scan = "running" /\ scan' = scan /\ reports' = reports
    BY <1>3 DEF BeginFinalize
  <2>2. tx'[Worker].pc = "load" /\ \A o \in Writers : o # Worker => tx'[o] = tx[o]
    BY <1>3, Begun
  <2> QED
    BY <2>1, <2>2 DEF ScanState, CompletedHasReport
<1>4. CASE CommitFinalize
  <2>1. /\ tx[Worker].pc = "commit" /\ scan' = tx[Worker].outcome
        /\ reports' = reports \cup tx[Worker].rows
    BY <1>4 DEF CommitFinalize, At
  <2>2. /\ tx'[Worker].pc = IF tx[Worker].outcome = "completed" THEN "after" ELSE "ended"
        /\ tx'[Worker].rows = {}
    BY <1>4, Renewed DEF CommitFinalize
  <2>3. tx[Worker].outcome \in Enrichable
    BY SMT DEF TypeOK, Transaction
  <2>4. reports = {} /\ tx[Worker].rows # {}
    BY <2>1 DEF ScanState, Enrichable
  <2>5. \A r \in tx[Worker].rows : r.by = Worker /\ r.version = 1
    BY <2>1, <2>4, RowsNamed
  <2>6. ScanState'
    BY <2>1, <2>2, <2>3 DEF ScanState, Enrichable
  <2>7. CompletedHasReport'
    BY <2>1, <2>3, <2>4, <2>5 DEF CompletedHasReport
  <2> QED
    BY <2>6, <2>7
<1>5. CASE EnqueueAi
  <2>1. scan = "completed" /\ scan' = scan /\ reports' = reports /\ tx'[Worker].pc = "ended"
    BY <1>5, Enqueued DEF ScanState, EnqueueAi
  <2> QED
    BY <2>1 DEF ScanState, CompletedHasReport, Enrichable
<1>6. CASE WorkerCrash
  <2>1. scan' = scan /\ reports' = reports /\ tx'[Worker].pc \in {"none", "ended"}
    BY <1>6, Renewed DEF WorkerCrash
  <2>2. \A o \in Writers : o # Worker => tx'[o] = tx[o]
    BY <1>6, Renewed DEF WorkerCrash
  <2> QED
    BY <2>1, <2>2 DEF ScanState, CompletedHasReport
<1>7. ASSUME NEW j \in Jobs, tx'[Worker] = tx[Worker], scan' = scan, reports' = reports,
             tx[j].pc # "none" \/ scan \in Enrichable
      PROVE  Lifecycle'
  <2>1. scan \in Enrichable
    BY <1>7 DEF ScanState
  <2> QED
    BY <1>7, <2>1 DEF ScanState, CompletedHasReport
<1>8. ASSUME NEW j \in Jobs, Reanalyze(j) \/ StartJob(j) PROVE Lifecycle'
  <2>1. tx'[Worker] = tx[Worker]
    BY <1>8, Renewed, Started DEF Reanalyze
  <2> QED
    BY <1>7, <1>8, <2>1 DEF Reanalyze, StartJob
<1>9. ASSUME NEW j \in Jobs, Think(j) \/ EndJob(j) \/ CrashJob(j) PROVE Lifecycle'
  <2>1. tx'[Worker] = tx[Worker]
    BY <1>9, Renewed, ThinkReads DEF EndJob, CrashJob
  <2>2. tx[j].pc # "none"
    BY <1>9 DEF Think, EndJob, CrashJob, At
  <2> QED
    BY <1>7, <1>9, <2>1, <2>2 DEF Think, EndJob, CrashJob
<1>10. ASSUME NEW j \in Jobs, CommitJob(j) PROVE Lifecycle'
  <2>1. tx[j].pc = "commit" /\ scan' = scan /\ reports' = reports \cup tx[j].rows
    BY <1>10 DEF CommitJob, At
  <2>2. tx'[Worker] = tx[Worker]
    BY <1>10, Renewed DEF CommitJob
  <2>3. scan \in Enrichable
    BY <2>1 DEF ScanState
  <2>4. \A r \in tx[j].rows : r.by # Worker
    BY <2>1, RowsNamed
  <2> QED
    BY <2>1, <2>2, <2>3, <2>4 DEF ScanState, CompletedHasReport
<1>11. CASE EndOtherwise
  <2>1. /\ scan = "running" /\ scan' \in {"timed_out", "failed"}
        /\ tx[Worker].pc \in {"none", "ended"} /\ UNCHANGED <<reports, tx>>
    BY <1>11 DEF EndOtherwise
  <2>2. reports = {} /\ \A j \in Jobs : tx[j].pc = "none"
    BY <2>1 DEF ScanState, Enrichable
  <2> QED
    BY <2>1, <2>2 DEF ScanState, CompletedHasReport
<1>12. CASE (\E f \in Findings : Triage(f)) \/ UNCHANGED vars
  <2>1. UNCHANGED <<scan, reports, tx>>
    BY <1>12 DEF Triage, PersistFinding, PatchFinding, vars
  <2> QED
    BY <2>1 DEF ScanState, CompletedHasReport
<1>13. CASE \E w \in Writers : Store(w)
  BY <1>1, <1>2, <1>13 DEF Store, InsertConflict, At
<1>14. CASE Finalize
  BY <1>3, <1>4, <1>5, <1>14 DEF Finalize
<1>15. CASE \E j \in Jobs : Reanalyze(j) \/ RunJob(j)
  BY <1>8, <1>9, <1>10, <1>15 DEF RunJob
<1>16. CASE Fault
  BY <1>2, <1>6, <1>9, <1>16 DEF Fault, DatabaseFails
<1> QED
  BY <1>11, <1>12, <1>13, <1>14, <1>15, <1>16 DEF Next

-----------------------------------------------------------------------------
(* The findings shown *)

InUse == {"think", "load", "pick", "insert", "commit"}
Below(d, e) == \A f \in Findings : d[f] <= e[f]

\* A writer shows at least what it knew and at most what is stored; a job knew what the
\* deterministic report shows.
Copy(w) ==
  /\ Below(tx[w].known, findings)
  /\ tx[w].pc \in {"pick", "insert"} \/ tx[w].rows # {} =>
       Below(tx[w].known, tx[w].doc) /\ Below(tx[w].doc, findings)
  /\ w \in Jobs /\ tx[w].pc \in InUse =>
       \A s \in reports : s.by = Worker => Below(s.doc, tx[w].known)
Kept == (\A w \in Writers : Copy(w)) /\ EnrichmentKeepsFindings

LEMMA BelowOrder ==
  ASSUME NEW d \in Documents
  PROVE  /\ Below(d, d) /\ Below(Nothing, d)
         /\ \A e, g \in Documents : Below(d, e) /\ Below(e, g) => Below(d, g)
<1>1. \A f \in Findings : d[f] \in Nat
  BY SMT DEF Documents
<1>2. Below(d, d) /\ Below(Nothing, d)
  BY <1>1 DEF Below, Nothing
<1>3. ASSUME NEW e \in Documents, NEW g \in Documents, Below(d, e), Below(e, g)
      PROVE  Below(d, g)
  <2>1. \A f \in Findings : e[f] \in Nat /\ g[f] \in Nat
    BY SMT DEF Documents
  <2> QED
    BY <1>1, <1>3, <2>1 DEF Below
<1> QED
  BY <1>2, <1>3

LEMMA DocumentTypes ==
  ASSUME TypeOK
  PROVE  /\ findings \in Documents
         /\ \A w \in Writers : tx[w].known \in Documents /\ tx[w].doc \in Documents
         /\ \A r \in reports : r.doc \in Documents
BY SMT DEF TypeOK, Transaction, Row

\* A step of one writer that commits nothing.
LEMMA KeptByOne ==
  ASSUME Kept, NEW w \in Writers, Copy(w)', UNCHANGED <<findings, reports>>,
         \A o \in Writers : o # w => tx'[o] = tx[o]
  PROVE  Kept'
<1>1. \A o \in Writers : o # w => Copy(o)'
  BY DEF Kept, Copy, Below
<1>2. EnrichmentKeepsFindings'
  BY DEF Kept, EnrichmentKeepsFindings
<1> QED
  BY <1>1, <1>2 DEF Kept

\* What a fresh transaction knows.
LEMMA FreshKnows ==
  ASSUME TypeOK, NEW w \in Writers,
         NEW pc \in {"none", "queued", "think", "load", "after", "ended"},
         \/ Puts(w, Fresh(pc))
         \/ \E outcome \in Enrichable : Puts(w, [Fresh(pc) EXCEPT !.outcome = outcome])
  PROVE  tx'[w].known = Nothing
<1>1. CASE Puts(w, Fresh(pc))
  <2>1. tx'[w] = Fresh(pc)
    BY <1>1, FreshReads
  <2> QED
    BY <2>1 DEF Fresh
<1>2. ASSUME NEW outcome \in Enrichable, Puts(w, [Fresh(pc) EXCEPT !.outcome = outcome])
      PROVE  tx'[w].known = Nothing
  <2>1. tx'[w] = [Fresh(pc) EXCEPT !.outcome = outcome]
    BY <1>2, FreshReads
  <2> QED
    BY <2>1 DEF Fresh
<1> QED
  BY <1>1, <1>2

LEMMA KeptRenewed ==
  ASSUME TypeOK, Kept, NEW w \in Writers, NEW pc \in {"none", "queued", "after", "ended"},
         Puts(w, Fresh(pc)), UNCHANGED <<findings, reports>>
  PROVE  Kept'
<1>1. tx'[w].known = Nothing
  BY FreshKnows
<1>2. tx'[w].pc = pc /\ tx'[w].rows = {} /\ \A o \in Writers : o # w => tx'[o] = tx[o]
  BY Renewed
<1>3. Below(Nothing, findings)
  BY DocumentTypes, BelowOrder
<1>4. Copy(w)'
  BY <1>1, <1>2, <1>3 DEF Copy, InUse, Below
<1> QED
  BY <1>2, <1>4, KeptByOne

LEMMA KeptInTransaction ==
  ASSUME TypeOK, Rows, Kept, NEW w \in Writers, Load(w) \/ PickVersion(w) \/ Insert(w)
  PROVE  Kept'
<1>1. /\ tx[w].pc \in {"load", "pick", "insert"} /\ tx'[w].pc \in {"pick", "insert", "commit"}
      /\ \A o \in Writers : o # w => tx'[o] = tx[o]
      /\ UNCHANGED <<findings, reports>>
  BY InTransaction
<1>2. tx'[w].known = tx[w].known
  BY LoadReads, PickReads, InsertReads DEF Rows, Numbered
<1>3. Copy(w)
  BY DEF Kept
<1>4. CASE Load(w)
  <2>1. \A f \in Findings :
          tx'[w].doc[f] = IF tx[w].known[f] > 0 THEN tx[w].known[f] ELSE findings[f]
    BY <1>4, LoadReads
  <2>2. \A f \in Findings : /\ findings[f] \in Nat /\ tx[w].known[f] \in Nat
                            /\ tx[w].known[f] <= findings[f]
    BY <1>3, DocumentTypes, SMT DEF Copy, Below, Documents
  <2>3. Below(tx[w].known, tx'[w].doc) /\ Below(tx'[w].doc, findings)
    BY <2>1, <2>2, SMT DEF Below
  <2>4. Copy(w)'
    BY <1>1, <1>2, <1>3, <2>3 DEF Copy, InUse, Below
  <2> QED
    BY <1>1, <2>4, KeptByOne
<1>5. CASE PickVersion(w) \/ Insert(w)
  <2>1. tx'[w].doc = tx[w].doc /\ tx[w].pc \in {"pick", "insert"}
    BY <1>5, PickReads, InsertReads DEF Rows, Numbered
  <2>2. Copy(w)'
    BY <1>1, <1>2, <1>3, <2>1 DEF Copy, InUse, Below
  <2> QED
    BY <1>1, <2>2, KeptByOne
<1> QED
  BY <1>4, <1>5

\* The deterministic report is committed before any job starts, so a job that commits
\* has known what it shows.
LEMMA KeptCommit ==
  ASSUME TypeOK, Rows, Kept, NEW w \in Writers, NEW pc \in {"after", "ended"},
         tx[w].pc = "commit", Puts(w, Fresh(pc)), UNCHANGED findings,
         reports' = reports \cup tx[w].rows,
         w = Worker => reports = {} /\ \A j \in Jobs : tx[j].pc = "none"
  PROVE  Kept'
<1>1. /\ tx'[w].pc = pc /\ tx'[w].rows = {} /\ tx'[w].known = Nothing
      /\ \A o \in Writers : o # w => tx'[o] = tx[o]
  BY Renewed, FreshKnows
<1>2. \A r \in tx[w].rows : r.by = w /\ r.doc = tx[w].doc
  BY RowsNamed
<1>3. ASSUME tx[w].rows # {}
      PROVE  Below(tx[w].known, tx[w].doc) /\ Below(tx[w].doc, findings)
  BY <1>3 DEF Kept, Copy
<1>4. Copy(w)'
  <2>1. Below(Nothing, findings)
    BY DocumentTypes, BelowOrder
  <2> QED
    BY <1>1, <2>1 DEF Copy, InUse, Below
<1>5. ASSUME NEW o \in Writers, o # w PROVE Copy(o)'
  <2>1. ASSUME o \in Jobs, tx[o].pc \in InUse, NEW s \in reports', s.by = Worker
        PROVE  s \in reports
    BY <2>1, <1>2 DEF InUse
  <2> QED
    BY <2>1, <1>1, <1>5 DEF Kept, Copy, Below
<1>6. ASSUME NEW r \in reports' PROVE Below(r.doc, findings)
  <2>1. CASE r \in reports
    BY <2>1 DEF Kept, EnrichmentKeepsFindings, Below
  <2> QED
    BY <2>1, <1>2, <1>3
<1>7. ASSUME NEW r \in reports', NEW s \in reports', s.by = Worker PROVE Below(s.doc, r.doc)
  <2>1. CASE r \in reports /\ s \in reports
    BY <1>7, <2>1 DEF Kept, EnrichmentKeepsFindings, Below
  <2>2. CASE w = Worker
    <3>1. r.doc = tx[w].doc /\ s.doc = tx[w].doc
      BY <1>2, <2>2
    <3> QED
      BY <3>1, DocumentTypes, BelowOrder
  <2>3. CASE w \in Jobs /\ r \in tx[w].rows
    <3>1. s \in reports
      BY <1>2, <1>7, <2>3
    <3>2. Below(s.doc, tx[w].known)
      BY <1>7, <2>3, <3>1 DEF Kept, Copy, InUse
    <3> QED
      BY <1>2, <1>3, <2>3, <3>1, <3>2, DocumentTypes, BelowOrder
  <2>4. s \in reports \/ w = Worker
    BY <1>2, <1>7
  <2> QED
    BY <2>1, <2>2, <2>3, <2>4 DEF Writers
<1>8. EnrichmentKeepsFindings'
  BY <1>6, <1>7 DEF EnrichmentKeepsFindings, Below
<1> QED
  BY <1>4, <1>5, <1>8 DEF Kept

\* Revisions only grow.
LEMMA KeptTriage ==
  ASSUME TypeOK, TypeOK', Kept, NEW f \in Findings, Triage(f)
  PROVE  Kept'
<1>1. Below(findings, findings')
  BY SMT DEF TypeOK, Documents, Triage, PersistFinding, PatchFinding, Below
<1>2. UNCHANGED <<reports, tx>>
  BY DEF Triage, PersistFinding, PatchFinding
<1>3. findings' \in Documents
  BY DEF TypeOK
<1>4. ASSUME NEW d \in Documents, Below(d, findings) PROVE Below(d, findings')
  BY <1>1, <1>3, <1>4, DocumentTypes, BelowOrder
<1>5. ASSUME NEW w \in Writers PROVE Copy(w)'
  <2>1. Copy(w) /\ tx[w].known \in Documents /\ tx[w].doc \in Documents
    BY DocumentTypes DEF Kept
  <2> QED
    BY <1>2, <1>4, <2>1 DEF Copy, Below
<1>6. EnrichmentKeepsFindings'
  <2>1. \A r \in reports : r.doc \in Documents /\ Below(r.doc, findings)
    BY DocumentTypes DEF Kept, EnrichmentKeepsFindings, Below
  <2>2. \A r \in reports : Below(r.doc, findings')
    BY <1>4, <2>1
  <2> QED
    BY <1>2, <2>2 DEF Kept, EnrichmentKeepsFindings, Below
<1> QED
  BY <1>5, <1>6 DEF Kept

LEMMA KeptStep ==
  ASSUME TypeOK, TypeOK', Rows, Lifecycle, Kept, [Next]_vars
  PROVE  Kept'
<1> Worker \in Writers /\ AutoJob \in Writers /\ \A j \in Jobs : j \in Writers /\ j # Worker
  BY DEF Writers
<1>1. ASSUME NEW w \in Writers, Aborts(w) PROVE Kept'
  BY <1>1, KeptRenewed DEF Aborts
<1>2. CASE BeginFinalize
  <2>1. tx'[Worker].known = Nothing
    BY <1>2, FreshKnows DEF BeginFinalize
  <2>2. /\ tx'[Worker].pc = "load" /\ tx'[Worker].rows = {}
        /\ \A o \in Writers : o # Worker => tx'[o] = tx[o]
    BY <1>2, Begun
  <2>3. Below(Nothing, findings) /\ UNCHANGED <<findings, reports>>
    BY <1>2, DocumentTypes, BelowOrder DEF BeginFinalize
  <2>4. Copy(Worker)'
    BY <2>1, <2>2, <2>3 DEF Copy, Below
  <2> QED
    BY <2>2, <2>3, <2>4, KeptByOne
<1>3. CASE CommitFinalize
  <2>1. tx[Worker].pc = "commit"
    BY <1>3 DEF CommitFinalize, At
  <2>2. reports = {} /\ \A j \in Jobs : tx[j].pc = "none"
    BY <2>1 DEF Lifecycle, ScanState, Enrichable
  <2> QED
    BY <1>3, <2>1, <2>2, KeptCommit DEF CommitFinalize
<1>4. CASE EnqueueAi
  <2>1. Below(Fresh("ended").known, findings) /\ Below(Fresh("queued").known, findings)
    BY DocumentTypes, BelowOrder DEF Fresh
  <2>2. \A w \in Writers : tx'[w] = tx[w] \/ tx'[w] = Fresh("ended") \/ tx'[w] = Fresh("queued")
    BY <1>4, SMT DEF EnqueueAi, TypeOK
  <2>3. /\ Fresh("ended").pc = "ended" /\ Fresh("ended").rows = {}
        /\ Fresh("queued").pc = "queued" /\ Fresh("queued").rows = {}
    BY DEF Fresh
  <2>4. UNCHANGED <<findings, reports>>
    BY <1>4 DEF EnqueueAi
  <2>5. ASSUME NEW w \in Writers PROVE Copy(w)'
    BY <2>1, <2>2, <2>3, <2>4 DEF Kept, Copy, InUse, Below
  <2> QED
    BY <2>4, <2>5 DEF Kept, EnrichmentKeepsFindings
<1>5. CASE WorkerCrash
  BY <1>5, KeptRenewed DEF WorkerCrash
<1>6. ASSUME NEW j \in Jobs, Reanalyze(j) \/ EndJob(j) \/ CrashJob(j) PROVE Kept'
  BY <1>6, KeptRenewed DEF Reanalyze, EndJob, CrashJob
<1>7. ASSUME NEW j \in Jobs, StartJob(j) PROVE Kept'
  <2>1. tx'[j] = [Fresh("think") EXCEPT !.known = findings]
    BY <1>7, FreshReads DEF StartJob
  <2>2. tx'[j].known = findings
    BY <2>1 DEF Fresh
  <2>3. tx'[j].pc = "think" /\ tx'[j].rows = {} /\ \A o \in Writers : o # j => tx'[o] = tx[o]
    BY <1>7, Started
  <2>4. UNCHANGED <<findings, reports>> /\ Below(findings, findings)
    BY <1>7, DocumentTypes, BelowOrder DEF StartJob
  <2>5. \A s \in reports : Below(s.doc, findings)
    BY DEF Kept, EnrichmentKeepsFindings, Below
  <2>6. Copy(j)'
    BY <2>2, <2>3, <2>4, <2>5 DEF Copy, Below
  <2> QED
    BY <2>3, <2>4, <2>6, KeptByOne
<1>8. ASSUME NEW j \in Jobs, Think(j) PROVE Kept'
  <2>1. /\ tx[j].pc = "think" /\ tx'[j].pc \in {"load", "commit"} /\ tx'[j].rows = tx[j].rows
        /\ tx'[j].known = tx[j].known /\ \A o \in Writers : o # j => tx'[o] = tx[o]
    BY <1>8, ThinkReads
  <2>2. tx[j].rows = {} /\ UNCHANGED <<findings, reports>>
    BY <1>8, <2>1 DEF Rows, Numbered, Holds, Think
  <2>3. Copy(j)'
    BY <2>1, <2>2 DEF Kept, Copy, InUse, Below
  <2> QED
    BY <2>1, <2>2, <2>3, KeptByOne
<1>9. ASSUME NEW j \in Jobs, CommitJob(j) PROVE Kept'
  BY <1>9, KeptCommit DEF CommitJob, At
<1>10. CASE EndOtherwise \/ UNCHANGED vars
  BY <1>10 DEF EndOtherwise, vars, Kept, Copy, Below, EnrichmentKeepsFindings
<1>11. CASE \E f \in Findings : Triage(f)
  BY <1>11, KeptTriage
<1>12. CASE \E w \in Writers : Store(w)
  BY <1>1, <1>12, KeptInTransaction DEF Store, InsertConflict
<1>13. CASE Finalize
  BY <1>2, <1>3, <1>4, <1>13 DEF Finalize
<1>14. CASE \E j \in Jobs : Reanalyze(j) \/ RunJob(j)
  BY <1>6, <1>7, <1>8, <1>9, <1>14 DEF RunJob
<1>15. CASE Fault
  BY <1>1, <1>5, <1>6, <1>15 DEF Fault, DatabaseFails
<1> QED
  BY <1>10, <1>11, <1>12, <1>13, <1>14, <1>15 DEF Next

-----------------------------------------------------------------------------
(* Analyses and their report *)

\* A job stores a report when, and only when, it has an analysis to show.
Shows(j) ==
  /\ tx[j].pc \in {"load", "pick", "insert"} => tx[j].ok
  /\ tx[j].pc = "commit" => (tx[j].ok <=> tx[j].rows # {})
Together == (\A j \in Jobs : Shows(j)) /\ EnrichmentAtomic

LEMMA TogetherByOne ==
  ASSUME Together, NEW w \in Writers, w \in Jobs => Shows(w)', UNCHANGED <<reports, analyses>>,
         \A o \in Writers : o # w => tx'[o] = tx[o]
  PROVE  Together'
<1>1. \A j \in Jobs : Shows(j)'
  BY DEF Together, Shows, Writers
<1> QED
  BY <1>1 DEF Together, EnrichmentAtomic

LEMMA TogetherRenewed ==
  ASSUME TypeOK, Together, NEW w \in Writers, NEW pc \in {"none", "queued", "after", "ended"},
         Puts(w, Fresh(pc)), UNCHANGED <<reports, analyses>>
  PROVE  Together'
<1>1. tx'[w].pc = pc /\ \A o \in Writers : o # w => tx'[o] = tx[o]
  BY Renewed
<1> QED
  BY <1>1, TogetherByOne DEF Shows

LEMMA TogetherStep ==
  ASSUME TypeOK, Rows, Together, [Next]_vars
  PROVE  Together'
<1> Worker \in Writers /\ AutoJob \in Writers /\ \A j \in Jobs : j \in Writers /\ j # Worker
  BY DEF Writers
<1>1. ASSUME NEW w \in Writers, Aborts(w) PROVE Together'
  BY <1>1, TogetherRenewed DEF Aborts
<1>2. ASSUME NEW w \in Writers, Load(w) \/ PickVersion(w) \/ Insert(w) PROVE Together'
  <2>1. /\ tx[w].pc \in {"load", "pick", "insert"} /\ tx'[w].pc \in {"pick", "insert", "commit"}
        /\ tx'[w].pc = "commit" => tx'[w].rows # {}
        /\ \A o \in Writers : o # w => tx'[o] = tx[o]
        /\ UNCHANGED <<reports, analyses>>
    BY <1>2, InTransaction
  <2>2. tx'[w].ok = tx[w].ok
    BY <1>2, LoadReads, PickReads, InsertReads DEF Rows, Numbered
  <2>3. w \in Jobs => Shows(w)'
    BY <2>1, <2>2 DEF Together, Shows
  <2> QED
    BY <2>1, <2>3, TogetherByOne
<1>3. CASE BeginFinalize
  <2>1. UNCHANGED <<reports, analyses>>
    BY <1>3 DEF BeginFinalize
  <2> QED
    BY <1>3, <2>1, Begun, TogetherByOne
<1>4. CASE CommitFinalize
  <2>1. tx[Worker].pc = "commit" /\ reports' = reports \cup tx[Worker].rows
        /\ analyses' = analyses
    BY <1>4 DEF CommitFinalize, At
  <2>2. \A r \in tx[Worker].rows : r.by = Worker
    BY <2>1, RowsNamed
  <2>3. \A o \in Writers : o # Worker => tx'[o] = tx[o]
    BY <1>4, Renewed DEF CommitFinalize
  <2>4. \A j \in Jobs : Shows(j)'
    BY <2>3 DEF Together, Shows
  <2>5. EnrichmentAtomic'
    BY <2>1, <2>2 DEF Together, EnrichmentAtomic
  <2> QED
    BY <2>4, <2>5 DEF Together
<1>5. CASE EnqueueAi
  <2>1. /\ tx'[AutoJob] = tx[AutoJob] \/ tx'[AutoJob].pc = "queued"
        /\ \A o \in Writers \ {Worker, AutoJob} : tx'[o] = tx[o]
    BY <1>5, Enqueued
  <2>2. UNCHANGED <<reports, analyses>>
    BY <1>5 DEF EnqueueAi
  <2>3. \A j \in Jobs : Shows(j)'
    BY <2>1 DEF Together, Shows
  <2> QED
    BY <2>2, <2>3 DEF Together, EnrichmentAtomic
<1>6. CASE WorkerCrash
  BY <1>6, TogetherRenewed DEF WorkerCrash
<1>7. ASSUME NEW j \in Jobs, Reanalyze(j) \/ EndJob(j) \/ CrashJob(j) PROVE Together'
  BY <1>7, TogetherRenewed DEF Reanalyze, EndJob, CrashJob
<1>8. ASSUME NEW j \in Jobs, StartJob(j) PROVE Together'
  <2>1. UNCHANGED <<reports, analyses>> /\ tx'[j].pc = "think"
    BY <1>8, Started DEF StartJob
  <2> QED
    BY <1>8, <2>1, Started, TogetherByOne DEF Shows
<1>9. ASSUME NEW j \in Jobs, Think(j) PROVE Together'
  <2>1. /\ tx'[j].ok \in BOOLEAN /\ tx'[j].pc = (IF tx'[j].ok THEN "load" ELSE "commit")
        /\ tx[j].rows = {} /\ tx'[j].rows = {}
        /\ \A o \in Writers : o # j => tx'[o] = tx[o]
    BY <1>9, ThinkReads DEF Rows, Numbered, Holds
  <2>2. UNCHANGED <<reports, analyses>>
    BY <1>9 DEF Think
  <2>3. Shows(j)'
    BY <2>1 DEF Shows
  <2> QED
    BY <2>1, <2>2, <2>3, TogetherByOne
<1>10. ASSUME NEW j \in Jobs, CommitJob(j) PROVE Together'
  <2>1. /\ tx[j].pc = "commit" /\ reports' = reports \cup tx[j].rows
        /\ analyses' = analyses \cup {[job |-> j, run |-> tries[j], ok |-> tx[j].ok]}
    BY <1>10 DEF CommitJob, At
  <2>2. tx'[j].pc = "after" /\ \A o \in Writers : o # j => tx'[o] = tx[o]
    BY <1>10, Renewed DEF CommitJob
  <2>3. \A r \in tx[j].rows : r.by = j /\ r.run = tries[j]
    BY <2>1, RowsNamed DEF RunOf
  <2>4. tx[j].ok <=> tx[j].rows # {}
    BY <2>1 DEF Together, Shows
  <2>5. \A i \in Jobs : Shows(i)'
    BY <2>2 DEF Together, Shows
  <2>6. ASSUME NEW a \in analyses', a.ok
        PROVE  \E r \in reports' : r.by = a.job /\ r.run = a.run
    <3>1. CASE a \in analyses
      BY <2>1, <2>6, <3>1 DEF Together, EnrichmentAtomic
    <3>2. CASE a = [job |-> j, run |-> tries[j], ok |-> tx[j].ok]
      <4>1. a.job = j /\ a.run = tries[j] /\ tx[j].ok
        BY <2>6, <3>2
      <4> QED
        BY <2>1, <2>3, <2>4, <4>1
    <3> QED
      BY <2>1, <3>1, <3>2
  <2>7. ASSUME NEW r \in reports', r.by # Worker
        PROVE  \E a \in analyses' : a.ok /\ a.job = r.by /\ a.run = r.run
    <3>1. CASE r \in reports
      BY <2>1, <2>7, <3>1 DEF Together, EnrichmentAtomic
    <3>2. CASE r \in tx[j].rows
      <4> DEFINE a == [job |-> j, run |-> tries[j], ok |-> tx[j].ok]
      <4>1. a \in analyses' /\ a.ok /\ a.job = r.by /\ a.run = r.run
        BY <2>1, <2>3, <2>4, <3>2
      <4> QED
        BY <4>1
    <3> QED
      BY <2>1, <3>1, <3>2
  <2> QED
    BY <2>5, <2>6, <2>7 DEF Together, EnrichmentAtomic
<1>11. CASE EndOtherwise \/ (\E f \in Findings : Triage(f)) \/ UNCHANGED vars
  <2>1. UNCHANGED <<reports, analyses, tx>>
    BY <1>11 DEF EndOtherwise, Triage, PersistFinding, PatchFinding, vars
  <2> QED
    BY <2>1 DEF Together, Shows, EnrichmentAtomic
<1>12. CASE \E w \in Writers : Store(w)
  BY <1>1, <1>2, <1>12 DEF Store, InsertConflict
<1>13. CASE Finalize
  BY <1>3, <1>4, <1>5, <1>13 DEF Finalize
<1>14. CASE \E j \in Jobs : Reanalyze(j) \/ RunJob(j)
  BY <1>7, <1>8, <1>9, <1>10, <1>14 DEF RunJob
<1>15. CASE Fault
  BY <1>1, <1>6, <1>7, <1>15 DEF Fault, DatabaseFails
<1> QED
  BY <1>11, <1>12, <1>13, <1>14, <1>15 DEF Next

-----------------------------------------------------------------------------
(* Theorems *)

IInv == TypeOK /\ Queue /\ Rows /\ Lifecycle /\ Kept /\ Together

LEMMA InitInvariant == Init => IInv
<1> SUFFICES ASSUME Init PROVE IInv
  OBVIOUS
<1>1. \A w \in Writers : tx[w].pc = "none" /\ tx[w].rows = {} /\ tx[w].known = Nothing
  BY DEF Init, Fresh
<1>2. reports = {} /\ analyses = {} /\ scan = "running" /\ findings = Nothing
      /\ \A j \in Jobs : tries[j] = 0
  BY DEF Init
<1>3. TypeOK
  BY InitType
<1>4. Queue
  BY <1>1, <1>2 DEF Queue, Writers
<1>5. Rows
  <2>1. Height(0)
    <3>1. 1..0 = {}
      BY SMT
    <3> QED
      BY <1>2, <3>1 DEF Height, VersionsOf
  <2>2. \A w \in Writers : Holds(w, 0)
    BY <1>1 DEF Holds
  <2>3. Numbered
    BY <2>1, <2>2 DEF Numbered
  <2> QED
    BY <2>3, <1>1, <1>2 DEF Rows, OneHolder, UniqueKeys, FormatsAgree
<1>6. Lifecycle
  BY <1>1, <1>2 DEF Lifecycle, ScanState, CompletedHasReport, Writers, Enrichable
<1>7. Kept
  <2>1. Below(Nothing, findings)
    BY <1>3, DocumentTypes, BelowOrder
  <2> QED
    BY <2>1, <1>1, <1>2 DEF Kept, Copy, InUse, EnrichmentKeepsFindings
<1>8. Together
  BY <1>1, <1>2 DEF Together, Shows, EnrichmentAtomic, Writers
<1> QED
  BY <1>3, <1>4, <1>5, <1>6, <1>7, <1>8 DEF IInv

LEMMA StepInvariant == IInv /\ [Next]_vars => IInv'
<1> SUFFICES ASSUME IInv, [Next]_vars PROVE IInv'
  OBVIOUS
<1> TypeOK /\ Queue /\ Rows /\ Lifecycle /\ Kept /\ Together
  BY DEF IInv
<1>1. TypeOK'
  BY TypeStep DEF Rows
<1>2. Queue' /\ Rows' /\ Lifecycle'
  BY QueueStep, RowsStep, LifecycleStep DEF Lifecycle
<1>3. Kept' /\ Together'
  BY <1>1, KeptStep, TogetherStep
<1> QED
  BY <1>1, <1>2, <1>3 DEF IInv

LEMMA Invariance == Spec => []IInv
BY InitInvariant, StepInvariant, PTL DEF Spec

LEMMA ContiguousRows ==
  ASSUME TypeOK, Rows
  PROVE  VersionsContiguous
<1>1. PICK n \in Nat : Height(n)
  BY DEF Rows, Numbered
<1> SUFFICES ASSUME NEW r \in reports, r.version > 1
             PROVE  \E s \in reports : s.format = r.format /\ s.version = r.version - 1
  BY DEF VersionsContiguous, Rows, UniqueKeys
<1>2. r.format \in Formats
  BY SMT DEF TypeOK, Row
<1>3. VersionsOf(r.format) = 1..n
  BY <1>1, <1>2 DEF Height, Formats
<1>4. r.version \in 1..n
  BY <1>3 DEF VersionsOf
<1>5. r.version - 1 \in VersionsOf(r.format)
  BY <1>3, <1>4, SMT
<1> QED
  BY <1>5 DEF VersionsOf

\* The committed rows and the transactions have their types.
THEOREM Typed == Spec => []TypeOK
BY Invariance, PTL DEF IInv

\* Reports of a format are numbered 1, 2, 3, ... without a gap or a double, whatever
\* writers run store_report (domain/reporting.py) at the same time, crash or repeat.
THEOREM Contiguous == Spec => []VersionsContiguous
<1>1. IInv => VersionsContiguous
  BY ContiguousRows DEF IInv
<1> QED
  BY <1>1, Invariance, PTL

\* The two formats of a version show the same document of the same run.
THEOREM Agree == Spec => []FormatsAgree
<1>1. IInv => FormatsAgree
  BY DEF IInv, Rows
<1> QED
  BY <1>1, Invariance, PTL

\* A completed scan has its deterministic report as version 1; an unfinished one has none.
THEOREM HasReport == Spec => []CompletedHasReport
<1>1. IInv => CompletedHasReport
  BY DEF IInv, Lifecycle
<1> QED
  BY <1>1, Invariance, PTL

\* An enriched report shows every finding of the deterministic one, no less triaged.
THEOREM KeepsFindings == Spec => []EnrichmentKeepsFindings
<1>1. IInv => EnrichmentKeepsFindings
  BY DEF IInv, Kept
<1> QED
  BY <1>1, Invariance, PTL

\* The analyses of a run and its report are committed together.
THEOREM Atomic == Spec => []EnrichmentAtomic
<1>1. IInv => EnrichmentAtomic
  BY DEF IInv, Together
<1> QED
  BY <1>1, Invariance, PTL

-----------------------------------------------------------------------------
(* Waiting *)

\* The INSERT of w waits for the transaction of o, which has inserted that key.
Waits(w, o) ==
  o # w /\ At(w, "insert") /\ \E r \in tx[o].rows : SameKey(r, Pending(w))
HoldersPass ==
  \A w \in Writers : At(w, "insert") /\ tx[w].rows # {} =>
    /\ \A o \in Writers : ~Waits(w, o)
    /\ \A r \in reports : ~SameKey(r, Pending(w))

LEMMA HolderPasses ==
  ASSUME TypeOK, Rows
  PROVE  HoldersPass
<1>1. PICK n \in Nat : Height(n) /\ \A w \in Writers : Holds(w, n)
  BY DEF Rows, Numbered
<1> SUFFICES ASSUME NEW w \in Writers, At(w, "insert"), tx[w].rows # {}
             PROVE  /\ \A o \in Writers : ~Waits(w, o)
                    /\ \A r \in reports : ~SameKey(r, Pending(w))
  BY DEF HoldersPass
<1>2. \A o \in Writers : ~Waits(w, o)
  BY DEF Waits, Rows, OneHolder
<1>3. ASSUME NEW r \in reports PROVE ~SameKey(r, Pending(w))
  <2>1. tx[w].format \in Formats
    BY SMT DEF TypeOK, Transaction
  <2>2. tx[w].format = "html" /\ tx[w].version = n + 1
    BY <1>1, <2>1 DEF Holds, At, Formats
  <2>3. r.format = "html" => r.version \in 1..n
    BY <1>1 DEF Height, VersionsOf
  <2> QED
    BY <2>2, <2>3, SMT DEF SameKey, Pending
<1> QED
  BY <1>2, <1>3

\* A transaction that has inserted its first report (domain/reporting.py) is neither kept
\* waiting nor refused at its second: no writer waits for one that waits.
THEOREM NoChainOfWaits ==
  Spec => [](HoldersPass /\ \A w, o, p \in Writers : Waits(w, o) => ~Waits(o, p))
<1>1. IInv => HoldersPass
  BY HolderPasses DEF IInv
<1>2. HoldersPass => \A w, o, p \in Writers : Waits(w, o) => ~Waits(o, p)
  BY DEF HoldersPass, Waits
<1> QED
  BY <1>1, <1>2, Invariance, PTL

-----------------------------------------------------------------------------
(* The steps left to a job *)

Phase(t) ==
  CASE t.pc = "think" -> 8
    [] t.pc = "load" -> 7
    [] t.pc = "pick" -> IF t.format = "json" THEN 6 ELSE 4
    [] t.pc = "insert" -> IF t.format = "json" THEN 5 ELSE 3
    [] t.pc = "commit" -> 2
    [] t.pc = "after" -> 1
    [] OTHER -> 0

\* A run has 8 steps at most, and the queueing of the next one is the ninth.
StepsLeft(j) ==
  CASE tx[j].pc = "none" -> 9 * MaxTries + 1
    [] tx[j].pc = "ended" -> 0
    [] OTHER -> 9 * (MaxTries - tries[j]) + Phase(tx[j])

WindsDown(j) == UNCHANGED <<tx[j], tries[j]>> \/ StepsLeft(j)' < StepsLeft(j)

LEMMA StepsNatural ==
  ASSUME TypeOK, NEW j \in Jobs
  PROVE  StepsLeft(j) \in Nat
<1>1. tries[j] \in 0..MaxTries /\ MaxTries \in Nat \ {0}
  BY DEF TypeOK
<1>2. Phase(tx[j]) \in 0..8
  BY SMT DEF Phase
<1> QED
  BY <1>1, <1>2, SMT DEF StepsLeft

\* A step of another writer, or of none.
LEMMA Untouched ==
  ASSUME TypeOK, NEW j \in Jobs, NEW w \in Writers, w # j, tries' = tries,
         \A o \in Writers : o # w => tx'[o] = tx[o]
  PROVE  WindsDown(j)
BY DEF WindsDown, Writers

\* The steps of one job.
LEMMA StepWindsDown ==
  ASSUME TypeOK, Rows, Queue, NEW j \in Jobs,
         Store(j) \/ Reanalyze(j) \/ RunJob(j) \/ CrashJob(j) \/ DatabaseFails(j)
  PROVE  StepsLeft(j)' < StepsLeft(j)
<1> j \in Writers /\ j # Worker
  BY DEF Writers
<1> tries[j] \in 0..MaxTries /\ MaxTries \in Nat \ {0} /\ tx[j].format \in Formats
  BY SMT DEF TypeOK, Transaction
<1>1. ASSUME Aborts(j), tx[j].pc \in {"think", "load", "pick", "insert", "commit"}
      PROVE  StepsLeft(j)' < StepsLeft(j)
  <2>1. tx'[j].pc = "ended"
    BY <1>1, Renewed DEF Aborts
  <2>2. Phase(tx[j]) \in 1..8
    BY <1>1, SMT DEF Phase
  <2> QED
    BY <1>1, <2>1, <2>2, SMT DEF StepsLeft
<1>2. CASE Load(j)
  <2>1. tx[j].pc = "load" /\ tx'[j].pc = "pick" /\ tx'[j].format = "json" /\ tries' = tries
    BY <1>2, LoadReads DEF Load
  <2> QED
    BY <2>1, SMT DEF StepsLeft, Phase
<1>3. CASE PickVersion(j)
  <2>1. tx[j].pc = "pick" /\ tx'[j].pc = "insert" /\ tx'[j].format = tx[j].format /\ tries' = tries
    BY <1>3, PickReads DEF PickVersion, Rows, Numbered
  <2> QED
    BY <2>1, SMT DEF StepsLeft, Phase, Formats
<1>4. CASE Insert(j)
  <2>1. /\ tx[j].pc = "insert" /\ tries' = tries /\ tx'[j].format = "html"
        /\ tx'[j].pc = IF tx[j].format = "json" THEN "pick" ELSE "commit"
    BY <1>4, InsertReads DEF Insert, Rows
  <2> QED
    BY <2>1, SMT DEF StepsLeft, Phase, Formats
<1>5. CASE Reanalyze(j)
  <2>1. tx[j].pc = "none" /\ tx'[j].pc = "queued" /\ tries' = tries
    BY <1>5, Renewed DEF Reanalyze, At
  <2> QED
    BY <2>1, SMT DEF StepsLeft, Phase
<1>6. CASE StartJob(j)
  <2>1. tx[j].pc = "queued" /\ tx'[j].pc = "think"
    BY <1>6, Started DEF StartJob, At
  <2>2. tries'[j] = tries[j] + 1
    BY <1>6, SMT DEF StartJob, TypeOK
  <2> QED
    BY <2>1, <2>2, SMT DEF StepsLeft, Phase
<1>7. CASE Think(j)
  <2>1. tx[j].pc = "think" /\ tx'[j].pc \in {"load", "commit"} /\ tries' = tries
    BY <1>7, ThinkReads DEF Think
  <2> QED
    BY <2>1, SMT DEF StepsLeft, Phase
<1>8. CASE CommitJob(j) \/ EndJob(j)
  <2>1. /\ tries' = tries
        /\ \/ tx[j].pc = "commit" /\ tx'[j].pc = "after"
           \/ tx[j].pc = "after" /\ tx'[j].pc = "ended"
    BY <1>8, Renewed DEF CommitJob, EndJob, At
  <2> QED
    BY <2>1, SMT DEF StepsLeft, Phase
<1>9. CASE CrashJob(j)
  <2>1. /\ tx[j].pc \in {"think", "load", "pick", "insert", "commit", "after"}
        /\ tx'[j].pc \in {"queued", "ended"} /\ tries' = tries
    BY <1>9, Renewed DEF CrashJob
  <2>2. Phase(tx[j]) \in 1..8
    BY <2>1, SMT DEF Phase
  <2> QED
    BY <2>1, <2>2, SMT DEF StepsLeft, Phase
<1> QED
  BY <1>1, <1>2, <1>3, <1>4, <1>5, <1>6, <1>7, <1>8, <1>9
     DEF Store, InsertConflict, RunJob, DatabaseFails, At

LEMMA WindDownStep ==
  ASSUME TypeOK, Rows, Queue, ScanState, [Next]_vars, NEW j \in Jobs
  PROVE  WindsDown(j)
<1> Worker \in Writers /\ AutoJob \in Writers /\ j \in Writers /\ j # Worker
  BY DEF Writers
<1>1. ASSUME NEW w \in Writers, Store(w) \/ DatabaseFails(w) PROVE WindsDown(j)
  <2>1. tries' = tries /\ \A o \in Writers : o # w => tx'[o] = tx[o]
    BY <1>1, InTransaction, Renewed DEF Store, InsertConflict, DatabaseFails, Aborts
  <2> QED
    BY <1>1, <2>1, Untouched, StepWindsDown DEF WindsDown
<1>2. CASE BeginFinalize \/ CommitFinalize \/ WorkerCrash
  <2>1. tries' = tries /\ \A o \in Writers : o # Worker => tx'[o] = tx[o]
    BY <1>2, Begun, Renewed DEF BeginFinalize, CommitFinalize, WorkerCrash
  <2> QED
    BY <2>1, Untouched
<1>3. CASE EnqueueAi
  <2>1. /\ tries' = tries /\ tx[AutoJob].pc = "none" /\ tries[AutoJob] = 0
        /\ tx'[AutoJob] = tx[AutoJob] \/ tx'[AutoJob].pc = "queued"
        /\ \A o \in Writers \ {Worker, AutoJob} : tx'[o] = tx[o]
    BY <1>3, Enqueued DEF EnqueueAi, Queue
  <2>2. CASE j = AutoJob /\ tx'[AutoJob].pc = "queued"
    BY <2>1, <2>2, SMT DEF WindsDown, StepsLeft, Phase
  <2> QED
    BY <2>1, <2>2 DEF WindsDown
<1>4. ASSUME NEW i \in Jobs, Reanalyze(i) \/ RunJob(i) \/ CrashJob(i) PROVE WindsDown(j)
  <2>1. CASE i = j
    BY <1>4, <2>1, StepWindsDown DEF WindsDown
  <2>2. CASE i # j
    <3>1. i \in Writers /\ \A o \in Writers : o # i => tx'[o] = tx[o]
      BY <1>4, Renewed, Started, ThinkReads
         DEF Writers, Reanalyze, RunJob, CommitJob, EndJob, CrashJob
    <3>2. tries \in [Jobs -> 0..MaxTries] /\ (tries' = tries \/ tries' = [tries EXCEPT ![i] = @ + 1])
      BY <1>4 DEF TypeOK, Reanalyze, RunJob, StartJob, Think, CommitJob, EndJob, CrashJob
    <3>3. tries'[j] = tries[j]
      BY <2>2, <3>2, SMT
    <3> QED
      BY <2>2, <3>1, <3>3 DEF WindsDown
  <2> QED
    BY <2>1, <2>2
<1>5. CASE EndOtherwise \/ (\E f \in Findings : Triage(f)) \/ UNCHANGED vars
  BY <1>5 DEF EndOtherwise, Triage, PersistFinding, PatchFinding, vars, WindsDown
<1> QED
  BY <1>1, <1>2, <1>3, <1>4, <1>5 DEF Next, Finalize, Fault

\* A job takes at most nine steps for each of its tries (max_tries, workers/settings.py)
\* and one to be queued, whatever crashes, conflicts and failures it meets: with the
\* fairness of Spec, that is why it ends.
THEOREM JobsWindDown ==
  Spec => /\ [](\A j \in Jobs : StepsLeft(j) \in Nat)
          /\ [][\A j \in Jobs : WindsDown(j)]_vars
<1>1. IInv => \A j \in Jobs : StepsLeft(j) \in Nat
  BY StepsNatural DEF IInv
<1>2. IInv /\ [Next]_vars => \A j \in Jobs : WindsDown(j)
  BY WindDownStep DEF IInv, Lifecycle
<1> QED
  BY <1>1, <1>2, Invariance, PTL DEF Spec
=============================================================================
