--------------------------- MODULE ScanPageProofs ---------------------------
(***************************************************************************)
(* The safety properties of ScanPage hold for any number of pages, loads   *)
(* in flight and findings.                                                 *)
(***************************************************************************)
EXTENDS ScanPage, TLAPS

USE PageAssumption DEF PageAssumption, scanVars

-----------------------------------------------------------------------------
(* The invariant *)

\* Whoever takes the scan for ended knows how it ended.
Known(s) == s \in Terminal => s = row

\* What a page shows, was told, or has answers for is known in this sense, and the list
\* of a load that found the scan ended has all that was stored until then.
LoadHonest(ld) ==
  /\ Known(ld.status)
  /\ ld.phase = "list" /\ ld.status \in Terminal => ld.list >= due
Honest(pg) ==
  /\ Known(pg.shown) /\ Known(pg.told)
  /\ \A i \in DOMAIN pg.feed : Known(pg.feed[i])
  /\ pg.cancel = "done" => row = "cancelled"
  /\ \A l \in Slots : LoadHonest(pg.loads[l])

WellFormed(pg) ==
  /\ pg \in Page
  /\ Len(pg.feed) <= MaxFeed
  /\ pg.feed # <<>> => pg.stream \in {"snapped", "live"}

RowType ==
  /\ row \in Status /\ started \in BOOLEAN /\ pending \subseteq Status
  /\ findings \in 0..MaxFindings /\ due \in 0..findings
IInv ==
  /\ TypeOK
  /\ \A s \in pending : Known(s)
  /\ \A p \in Pages : Honest(page[p])

-----------------------------------------------------------------------------
(* Steps of one page *)

LEMMA TypeParts == TypeOK <=> /\ RowType
                              /\ page \in [Pages -> Page]
                              /\ \A p \in Pages : WellFormed(page[p])
BY DEF TypeOK, RowType, WellFormed

\* A step of one page that leaves the scan alone needs to look at that page only.
LEMMA OnePage ==
  ASSUME IInv, NEW p \in Pages, NEW pg, Becomes(p, pg), UNCHANGED <<scanVars, pending>>,
         WellFormed(pg), Honest(pg)
  PROVE  IInv'
<1>1. /\ page' \in [Pages -> Page] /\ page'[p] = pg
      /\ \A o \in Pages : o # p => page'[o] = page[o]
  BY TypeParts, SMT DEF IInv, Becomes, WellFormed
<1>2. RowType'
  BY TypeParts DEF IInv, RowType
<1>3. \A o \in Pages : WellFormed(page[o])'
  <2> SUFFICES ASSUME NEW o \in Pages PROVE WellFormed(page[o])'
    OBVIOUS
  <2>1. WellFormed(page[o])
    BY TypeParts DEF IInv
  <2> QED
    BY <1>1, <2>1 DEF WellFormed
<1>4. \A o \in Pages : Honest(page[o])'
  <2> SUFFICES ASSUME NEW o \in Pages PROVE Honest(page'[o])
    BY DEF Honest, LoadHonest, Known
  <2> QED
    BY <1>1 DEF IInv
<1>5. \A s \in pending' : Known(s)'
  BY DEF IInv, Known
<1>6. TypeOK'
  BY <1>1, <1>2, <1>3, TypeParts DEF TypeOK, RowType, WellFormed
<1> QED
  BY <1>4, <1>5, <1>6 DEF IInv

\* While the scan is active nobody takes it for ended, so its status may change.
LEMMA RowStep ==
  ASSUME IInv, row \in Active, RowType', \A s \in pending' : Known(s)', page' = page
  PROVE  IInv'
<1>1. Terminal \cap Active = {}
  BY DEF Terminal, Active
<1>2. \A s : Known(s) => Known(s)'
  BY <1>1 DEF Known
<1>3. ASSUME NEW p \in Pages PROVE Honest(page[p])'
  <2>1. Honest(page[p])
    BY DEF IInv
  <2>2. \A l \in Slots : page[p].loads[l].status \notin Terminal
    BY <1>1, <2>1 DEF Honest, LoadHonest, Known
  <2>3. page[p].cancel # "done"
    BY <2>1 DEF Honest, Active
  <2> QED
    BY <1>2, <2>1, <2>2, <2>3 DEF Honest, LoadHonest
<1>4. TypeOK'
  BY DEF IInv, TypeOK, RowType
<1> QED
  BY <1>3, <1>4 DEF IInv

LEMMA ScanStep ==
  ASSUME IInv, Scan
  PROVE  IInv'
<1> RowType /\ \A s \in pending : Known(s)
  BY TypeParts DEF IInv
<1> USE DEF Active, Terminal, Status
<1>1. CASE Claim
  BY <1>1, RowStep DEF Claim, RowType, Known
<1>2. CASE Persist
  <2>1. RowType' /\ page' = page /\ UNCHANGED <<row, pending>>
    BY <1>2, SMT DEF Persist, RowType
  <2>2. CASE row \in Active
    BY <2>1, <2>2, RowStep DEF Known
  <2>3. CASE row \notin Active
    <3>1. due' = due
      BY <1>2, <2>3 DEF Persist
    <3>2. TypeOK'
      BY <2>1 DEF IInv, TypeOK, RowType
    <3> QED
      BY <2>1, <3>1, <3>2 DEF IInv, Honest, LoadHonest, Known
  <2> QED
    BY <2>2, <2>3
<1>3. ASSUME NEW s \in Outcomes, End(s) PROVE IInv'
  BY <1>3, RowStep DEF End, RowType, Known
<1>4. CASE EndQueued
  BY <1>4, RowStep DEF EndQueued, RowType, Known
<1>5. CASE CancelElsewhere
  BY <1>5, RowStep DEF CancelElsewhere, RowType, Known
<1> QED
  BY <1>1, <1>2, <1>3, <1>4, <1>5 DEF Scan

-----------------------------------------------------------------------------
(* Publications *)

LEMMA Appended ==
  ASSUME NEW feed \in Seq(Status), NEW s \in Status
  PROVE  /\ Append(feed, s) \in Seq(Status)
         /\ Len(Append(feed, s)) = Len(feed) + 1
         /\ \A i \in DOMAIN Append(feed, s) :
              \/ Append(feed, s)[i] = s
              \/ i \in DOMAIN feed /\ Append(feed, s)[i] = feed[i]
BY SMT

LEMMA FeedType ==
  ASSUME NEW pg \in Page, NEW feed \in Seq(Status)
  PROVE  /\ [pg EXCEPT !.feed = feed] \in Page
         /\ [pg EXCEPT !.feed = feed].feed = feed
         /\ [pg EXCEPT !.feed = feed].stream = pg.stream
         /\ [pg EXCEPT !.feed = feed].shown = pg.shown
         /\ [pg EXCEPT !.feed = feed].told = pg.told
         /\ [pg EXCEPT !.feed = feed].cancel = pg.cancel
         /\ [pg EXCEPT !.feed = feed].loads = pg.loads
<1>1. [pg EXCEPT !.feed = feed] \in Page
  BY Zenon DEF Page
<1> QED
  BY <1>1 DEF Page

LEMMA PublishStep ==
  ASSUME IInv, NEW s \in Status, Publish(s) \/ Lose(s)
  PROVE  IInv'
<1> RowType /\ page \in [Pages -> Page] /\ \A q \in pending : Known(q)
  BY TypeParts DEF IInv
<1>1. RowType' /\ \A q \in pending' : Known(q)'
  BY DEF Publish, Lose, RowType, Known
<1>2. CASE Lose(s)
  <2>1. UNCHANGED <<scanVars, page>>
    BY <1>2 DEF Lose
  <2> QED
    BY <1>1, <2>1 DEF IInv, TypeOK, RowType, Honest, LoadHonest, Known
<1>3. CASE Publish(s)
  <2>1. Known(s) /\ UNCHANGED scanVars
    BY <1>3 DEF Publish
  <2>2. ASSUME NEW p \in Pages
        PROVE  page'[p] \in Page /\ WellFormed(page'[p]) /\ Honest(page'[p])
    <3>1. WellFormed(page[p]) /\ Honest(page[p]) /\ page[p].feed \in Seq(Status)
      BY TypeParts, SMT DEF IInv, Page
    <3>2. CASE page[p].stream # "live"
      <4>1. page'[p] = page[p]
        BY <1>3, <3>2 DEF Publish
      <4> QED
        BY <3>1, <4>1 DEF WellFormed
    <3>3. CASE page[p].stream = "live"
      <4> DEFINE feed == Append(page[p].feed, s)
                 pg == [page[p] EXCEPT !.feed = feed]
      <4>1. page'[p] = pg
        BY <1>3, <3>3 DEF Publish
      <4>2. Len(page[p].feed) < MaxFeed
        BY <1>3, <3>3 DEF Publish
      <4>3. /\ feed \in Seq(Status) /\ Len(feed) = Len(page[p].feed) + 1
            /\ \A i \in DOMAIN feed :
                 feed[i] = s \/ (i \in DOMAIN page[p].feed /\ feed[i] = page[p].feed[i])
        BY <3>1, Appended
      <4>4. Len(feed) <= MaxFeed
        BY <3>1, <4>2, <4>3, SMT
      <4>5. \A i \in DOMAIN feed : Known(feed[i])
        BY <2>1, <3>1, <4>3 DEF Honest
      <4> HIDE DEF feed
      <4>6. /\ pg \in Page /\ pg.feed = feed /\ pg.stream = page[p].stream
            /\ pg.shown = page[p].shown /\ pg.told = page[p].told
            /\ pg.cancel = page[p].cancel /\ pg.loads = page[p].loads
        BY <4>3, FeedType
      <4> HIDE DEF pg
      <4> QED
        BY <3>1, <3>3, <4>1, <4>4, <4>5, <4>6 DEF WellFormed, Honest
    <3> QED
      BY <3>2, <3>3
  <2>3. page' = [p \in Pages |-> page'[p]]
    BY <1>3 DEF Publish
  <2>4. page' \in [Pages -> Page]
    BY <2>2, <2>3
  <2>5. \A p \in Pages : Honest(page[p])'
    BY <2>1, <2>2 DEF Honest, LoadHonest, Known
  <2> QED
    BY <1>1, <2>2, <2>4, <2>5 DEF IInv, TypeOK, RowType, WellFormed
<1> QED
  BY <1>2, <1>3

-----------------------------------------------------------------------------
(* The records of a page *)

LEMMA LoadTypes ==
  /\ Idle \in Load /\ Asked \in Load
  /\ Idle.status = "queued" /\ Asked.status = "queued"
  /\ Idle.phase # "list" /\ Asked.phase # "list"
BY SMT DEF Idle, Asked, Load, Status, Active

LEMMA PutLoad ==
  ASSUME NEW pg \in Page, NEW l \in Slots, NEW ld \in Load
  PROVE  LET new == [pg EXCEPT !.loads[l] = ld] IN
           /\ new \in Page
           /\ new.feed = pg.feed /\ new.stream = pg.stream /\ new.shown = pg.shown
           /\ new.told = pg.told /\ new.cancel = pg.cancel
           /\ new.loads[l] = ld
           /\ \A m \in Slots : m # l => new.loads[m] = pg.loads[m]
<1> DEFINE loads == [pg.loads EXCEPT ![l] = ld]
           new == [pg EXCEPT !.loads = loads]
<1>1. pg.loads \in [Slots -> Load]
  BY SMT DEF Page
<1>2. /\ loads \in [Slots -> Load] /\ loads[l] = ld
      /\ \A m \in Slots : m # l => loads[m] = pg.loads[m]
  BY <1>1, SMT
<1>3. [pg EXCEPT !.loads[l] = ld] = new
  OBVIOUS
<1> HIDE DEF loads
<1>4. new \in Page
  BY <1>2, Zenon DEF Page
<1>5. /\ new.feed = pg.feed /\ new.stream = pg.stream /\ new.shown = pg.shown
      /\ new.told = pg.told /\ new.cancel = pg.cancel /\ new.loads = loads
  BY DEF Page
<1> QED
  BY <1>2, <1>3, <1>4, <1>5

\* A page that gets another load is as good as before if the load is honest.
LEMMA LoadStep ==
  ASSUME NEW pg, WellFormed(pg), Honest(pg), NEW l \in Slots, NEW ld \in Load, LoadHonest(ld)
  PROVE  /\ WellFormed([pg EXCEPT !.loads[l] = ld])
         /\ Honest([pg EXCEPT !.loads[l] = ld])
<1> pg \in Page
  BY DEF WellFormed
<1> DEFINE new == [pg EXCEPT !.loads[l] = ld]
<1>1. /\ new \in Page
      /\ new.feed = pg.feed /\ new.stream = pg.stream /\ new.shown = pg.shown
      /\ new.told = pg.told /\ new.cancel = pg.cancel
      /\ new.loads[l] = ld
      /\ \A m \in Slots : m # l => new.loads[m] = pg.loads[m]
  BY PutLoad
<1> HIDE DEF new
<1>2. WellFormed(new)
  BY <1>1 DEF WellFormed
<1>3. Honest(new)
  BY <1>1 DEF Honest
<1> QED
  BY <1>2, <1>3 DEF new

LEMMA AskedHonest == LoadHonest(Asked) /\ LoadHonest(Idle)
BY LoadTypes DEF LoadHonest, Known, Terminal

\* The answer for a page that is shown something new.
LEMMA ShowsStep ==
  ASSUME NEW pg, WellFormed(pg), Honest(pg), NEW s \in Status, Known(s)
  PROVE  /\ WellFormed(Shows(pg, s)) /\ Honest(Shows(pg, s))
         /\ Shows(pg, s).loads = pg.loads
<1> DEFINE feed == IF s \in Terminal THEN <<>> ELSE pg.feed
           stream == IF s \in Terminal THEN "closed"
                     ELSE IF pg.stream = "closed" THEN "none" ELSE pg.stream
           new == [pg EXCEPT !.shown = s, !.feed = feed, !.stream = stream]
<1> pg \in Page
  BY DEF WellFormed
<1>1. pg.feed \in Seq(Status) /\ pg.stream \in {"none", "snapped", "live", "ended", "closed"}
  BY SMT DEF Page
<1>2. /\ feed \in Seq(Status)
      /\ stream \in {"none", "snapped", "live", "ended", "closed"}
      /\ feed = <<>> \/ feed = pg.feed
      /\ feed # <<>> => stream \in {"snapped", "live"}
      /\ Len(feed) <= MaxFeed
  BY <1>1, SMT DEF WellFormed
<1>3. Shows(pg, s) = new
  BY DEF Shows
<1> HIDE DEF feed, stream
<1>4. new \in Page
  BY <1>2, Zenon DEF Page
<1>5. /\ new.feed = feed /\ new.stream = stream /\ new.shown = s
      /\ new.told = pg.told /\ new.cancel = pg.cancel /\ new.loads = pg.loads
  BY DEF Page
<1> HIDE DEF new
<1>6. \A i \in DOMAIN feed : Known(feed[i])
  BY <1>2 DEF Honest
<1> QED
  BY <1>2, <1>3, <1>4, <1>5, <1>6 DEF WellFormed, Honest

\* The stream of a page goes on with another feed.
LEMMA FeedStep ==
  ASSUME NEW pg, WellFormed(pg), Honest(pg),
         NEW stream \in {"none", "snapped", "live", "ended", "closed"},
         NEW feed \in Seq(Status), Len(feed) <= MaxFeed,
         feed # <<>> => stream \in {"snapped", "live"},
         \A i \in DOMAIN feed : Known(feed[i]),
         NEW told \in Status \cup {"nothing"}, Known(told)
  PROVE  LET new == [pg EXCEPT !.told = told, !.feed = feed, !.stream = stream]
         IN  WellFormed(new) /\ Honest(new)
<1> DEFINE new == [pg EXCEPT !.told = told, !.feed = feed, !.stream = stream]
<1> pg \in Page
  BY DEF WellFormed
<1>1. new \in Page
  BY Zenon DEF Page
<1>2. /\ new.feed = feed /\ new.stream = stream /\ new.shown = pg.shown
      /\ new.told = told /\ new.cancel = pg.cancel /\ new.loads = pg.loads
  BY DEF Page
<1> HIDE DEF new
<1>3. WellFormed(new) /\ Honest(new)
  BY <1>1, <1>2 DEF WellFormed, Honest
<1> QED
  BY <1>3 DEF new

-----------------------------------------------------------------------------
(* The steps of a page *)

LEMMA PageParts ==
  ASSUME IInv, NEW p \in Pages
  PROVE  /\ WellFormed(page[p]) /\ Honest(page[p]) /\ page[p] \in Page
         /\ row \in Status /\ findings \in 0..MaxFindings /\ due \in 0..findings
         /\ page[p].feed \in Seq(Status) /\ page[p].told \in Status \cup {"nothing"}
         /\ page[p].stream \in {"none", "snapped", "live", "ended", "closed"}
         /\ page[p].loads \in [Slots -> Load]
<1>1. WellFormed(page[p]) /\ Honest(page[p])
  BY TypeParts DEF IInv
<1>2. page[p] \in Page
  BY <1>1 DEF WellFormed
<1>3. row \in Status /\ findings \in 0..MaxFindings /\ due \in 0..findings
  BY TypeParts DEF IInv, RowType
<1> QED
  BY <1>1, <1>2, <1>3, SMT DEF Page

LEMMA StreamStep ==
  ASSUME IInv, NEW p \in Pages, Stream(p)
  PROVE  IInv'
<1> DEFINE pg == page[p]
<1> /\ WellFormed(pg) /\ Honest(pg) /\ pg \in Page /\ row \in Status
    /\ pg.feed \in Seq(Status) /\ pg.told \in Status \cup {"nothing"}
    /\ pg.stream \in {"none", "snapped", "live", "ended", "closed"}
  BY PageParts
<1>0. UNCHANGED <<scanVars, pending>>
  BY DEF Stream, OpenStream, Subscribe, BreakStream, Receive
<1>1. CASE OpenStream(p)
  <2> DEFINE new == [pg EXCEPT !.told = pg.told, !.feed = <<row>>, !.stream = "snapped"]
  <2>1. <<row>> \in Seq(Status) /\ Len(<<row>>) <= MaxFeed
        /\ \A i \in DOMAIN <<row>> : Known(<<row>>[i])
    BY SMT DEF Known
  <2>2. WellFormed(new) /\ Honest(new)
    BY <2>1, FeedStep DEF Honest
  <2>3. [pg EXCEPT !.stream = "snapped", !.feed = <<row>>] = new
    BY DEF Page
  <2> QED
    BY <1>0, <1>1, <2>2, <2>3, OnePage DEF OpenStream
<1>2. CASE Subscribe(p)
  <2> DEFINE new == [pg EXCEPT !.told = pg.told, !.feed = pg.feed, !.stream = "live"]
  <2>1. WellFormed(new) /\ Honest(new)
    BY FeedStep DEF WellFormed, Honest
  <2>2. [pg EXCEPT !.stream = "live"] = new
    BY DEF Page
  <2> QED
    BY <1>0, <1>2, <2>1, <2>2, OnePage DEF Subscribe
<1>3. CASE BreakStream(p)
  <2> DEFINE new == [pg EXCEPT !.told = pg.told, !.feed = <<>>, !.stream = "ended"]
  <2>1. <<>> \in Seq(Status) /\ Len(<<>>) <= MaxFeed /\ DOMAIN <<>> = {}
    BY SMT
  <2>2. WellFormed(new) /\ Honest(new)
    BY <2>1, FeedStep DEF Honest
  <2>3. [pg EXCEPT !.stream = "ended", !.feed = <<>>] = new
    BY DEF Page
  <2> QED
    BY <1>0, <1>3, <2>2, <2>3, OnePage DEF BreakStream
<1>4. CASE Receive(p)
  <2> DEFINE s == Head(pg.feed)
             ends == s \in Terminal
             feed == IF ends THEN <<>> ELSE Tail(pg.feed)
             stream == IF ends THEN "ended" ELSE pg.stream
             read == [pg EXCEPT !.told = s, !.feed = feed, !.stream = stream]
  <2>1. pg.feed # <<>>
    BY <1>4 DEF Receive
  <2>2. /\ s \in Status /\ s = pg.feed[1] /\ 1 \in DOMAIN pg.feed
        /\ Tail(pg.feed) \in Seq(Status) /\ Len(Tail(pg.feed)) <= MaxFeed
        /\ \A i \in DOMAIN Tail(pg.feed) :
             i + 1 \in DOMAIN pg.feed /\ Tail(pg.feed)[i] = pg.feed[i + 1]
    BY <2>1, SMT DEF WellFormed
  <2>3. Known(s) /\ \A i \in DOMAIN Tail(pg.feed) : Known(Tail(pg.feed)[i])
    BY <2>2 DEF Honest
  <2>4. <<>> \in Seq(Status) /\ Len(<<>>) <= MaxFeed /\ DOMAIN <<>> = {}
    BY SMT
  <2>5. /\ feed \in Seq(Status) /\ Len(feed) <= MaxFeed /\ \A i \in DOMAIN feed : Known(feed[i])
        /\ stream \in {"none", "snapped", "live", "ended", "closed"}
        /\ feed # <<>> => stream \in {"snapped", "live"}
    BY <2>1, <2>2, <2>3, <2>4 DEF WellFormed
  <2>6. WellFormed(read) /\ Honest(read)
    <3> HIDE DEF s, feed, stream
    <3> QED
      BY <2>2, <2>3, <2>5, FeedStep
  <2>7. \/ Becomes(p, read)
        \/ \E l \in Slots : Becomes(p, Loads(read, l))
    BY <1>4 DEF Receive
  <2> HIDE DEF read
  <2>8. CASE Becomes(p, read)
    BY <1>0, <2>6, <2>8, OnePage
  <2>9. ASSUME NEW l \in Slots, Becomes(p, Loads(read, l)) PROVE IInv'
    <3>1. WellFormed(Loads(read, l)) /\ Honest(Loads(read, l))
      BY <2>6, LoadStep, LoadTypes, AskedHonest DEF Loads
    <3> QED
      BY <1>0, <2>9, <3>1, OnePage
  <2> QED
    BY <2>7, <2>8, <2>9
<1> QED
  BY <1>1, <1>2, <1>3, <1>4 DEF Stream

LEMMA AnswerStep ==
  ASSUME IInv, NEW p \in Pages, NEW l \in Slots, Answer(p, l)
  PROVE  IInv'
<1> DEFINE pg == page[p]
           ld == pg.loads[l]
<1> /\ WellFormed(pg) /\ Honest(pg) /\ pg \in Page /\ row \in Status
    /\ findings \in 0..MaxFindings /\ due \in 0..findings
    /\ pg.loads \in [Slots -> Load] /\ ld \in Load
  BY PageParts
<1>0. UNCHANGED <<scanVars, pending>>
  BY DEF Answer, AnswerScan, TakeScan, AnswerList, EndLoad
<1>1. LoadHonest(ld)
  BY DEF Honest
<1>2. CASE AnswerScan(p, l)
  <2> DEFINE new == [ld EXCEPT !.phase = "scan", !.status = row]
  <2>1. new \in Load /\ LoadHonest(new)
    BY DEF Load, LoadHonest, Known
  <2>2. WellFormed([pg EXCEPT !.loads[l] = new]) /\ Honest([pg EXCEPT !.loads[l] = new])
    BY <2>1, LoadStep
  <2> QED
    BY <1>0, <1>2, <2>2, OnePage DEF AnswerScan
<1>3. CASE TakeScan(p, l)
  <2> DEFINE new == [ld EXCEPT !.phase = "rest"]
             shows == Shows(pg, ld.status)
  <2>1. ld.status \in Status /\ new \in Load /\ LoadHonest(new)
    BY <1>1 DEF Load, LoadHonest, Known
  <2>2. WellFormed(shows) /\ Honest(shows) /\ shows.loads = pg.loads
    BY <1>1, <2>1, ShowsStep DEF LoadHonest
  <2>3. shows \in Page
    BY <2>2 DEF WellFormed
  <2> HIDE DEF shows
  <2>4. [shows EXCEPT !.loads[l].phase = "rest"] = [shows EXCEPT !.loads[l] = new]
    BY <2>2
  <2>5. WellFormed([shows EXCEPT !.loads[l] = new]) /\ Honest([shows EXCEPT !.loads[l] = new])
    BY <2>1, <2>2, LoadStep
  <2> QED
    BY <1>0, <1>3, <2>4, <2>5, OnePage DEF TakeScan, shows
<1>4. CASE AnswerList(p, l)
  <2> DEFINE new == [ld EXCEPT !.phase = "list", !.list = findings]
  <2>0. findings >= due
    BY SMT
  <2>1. new \in Load /\ LoadHonest(new)
    BY <1>1, <2>0 DEF Load, LoadHonest, Known
  <2>2. WellFormed([pg EXCEPT !.loads[l] = new]) /\ Honest([pg EXCEPT !.loads[l] = new])
    BY <2>1, LoadStep
  <2> QED
    BY <1>0, <1>4, <2>2, OnePage DEF AnswerList
<1>5. CASE EndLoad(p, l)
  BY <1>0, <1>5, LoadTypes, AskedHonest, LoadStep, OnePage DEF EndLoad
<1> QED
  BY <1>2, <1>3, <1>4, <1>5 DEF Answer

LEMMA PutCancel ==
  ASSUME NEW pg, WellFormed(pg), NEW c \in {"no", "sent", "done", "refused"}
  PROVE  LET new == [pg EXCEPT !.cancel = c] IN
           /\ WellFormed(new)
           /\ new.feed = pg.feed /\ new.stream = pg.stream /\ new.shown = pg.shown
           /\ new.told = pg.told /\ new.cancel = c /\ new.loads = pg.loads
<1> DEFINE new == [pg EXCEPT !.cancel = c]
<1> pg \in Page
  BY DEF WellFormed
<1>1. new \in Page
  BY Zenon DEF Page
<1>2. /\ new.feed = pg.feed /\ new.stream = pg.stream /\ new.shown = pg.shown
      /\ new.told = pg.told /\ new.cancel = c /\ new.loads = pg.loads
  BY DEF Page
<1> HIDE DEF new
<1>3. WellFormed(new)
  BY <1>1, <1>2 DEF WellFormed
<1> QED
  BY <1>2, <1>3 DEF new

\* A cancellation that is not done yet asks nothing of the page.
LEMMA CancelOpen ==
  ASSUME NEW pg, WellFormed(pg), Honest(pg), NEW c \in {"no", "sent", "refused"}
  PROVE  WellFormed([pg EXCEPT !.cancel = c]) /\ Honest([pg EXCEPT !.cancel = c])
<1>0. c \in {"no", "sent", "done", "refused"}
  OBVIOUS
<1> DEFINE new == [pg EXCEPT !.cancel = c]
<1>1. /\ WellFormed(new)
      /\ new.feed = pg.feed /\ new.shown = pg.shown
      /\ new.told = pg.told /\ new.cancel = c /\ new.loads = pg.loads
  BY <1>0, PutCancel
<1> HIDE DEF new
<1>2. Honest(new)
  BY <1>1 DEF Honest
<1> QED
  BY <1>1, <1>2 DEF new

LEMMA CancelStep ==
  ASSUME IInv, NEW p \in Pages, Cancel(p)
  PROVE  IInv'
<1> DEFINE pg == page[p]
<1> WellFormed(pg) /\ Honest(pg) /\ row \in Status
  BY PageParts
<1>1. CASE AskCancel(p)
  BY <1>1, CancelOpen, OnePage DEF AskCancel
<1>2. CASE AnswerCancel(p) /\ row \notin Active
  BY <1>2, CancelOpen, OnePage DEF AnswerCancel
<1>3. CASE AnswerCancel(p) /\ row \in Active
  <2> DEFINE new == [pg EXCEPT !.cancel = "done"]
  <2>1. /\ row' = "cancelled" /\ pending' = pending \cup {"cancelled"}
        /\ UNCHANGED <<started, findings, due>> /\ page' = [page EXCEPT ![p] = new]
    BY <1>3 DEF AnswerCancel, Becomes
  <2>2. /\ WellFormed(new)
        /\ new.feed = pg.feed /\ new.shown = pg.shown /\ new.told = pg.told
        /\ new.loads = pg.loads
    BY PutCancel
  <2>3. new \in Page /\ page \in [Pages -> Page] /\ RowType
    BY <2>2, TypeParts DEF WellFormed, IInv
  <2> HIDE DEF new
  <2>4. /\ page' \in [Pages -> Page] /\ page'[p] = new
        /\ \A o \in Pages : o # p => page'[o] = page[o]
    BY <2>1, <2>3, SMT
  <2>5. RowType'
    BY <2>1, <2>3 DEF RowType, Status, Terminal
  <2>6. \A s : Known(s) => Known(s)'
    BY <1>3 DEF Known, Active, Terminal
  <2>7. ASSUME NEW o \in Pages PROVE Honest(page[o])'
    <3>1. Honest(page[o])
      BY DEF IInv
    <3>2. \A m \in Slots : page[o].loads[m].status \notin Terminal
      BY <1>3, <3>1 DEF Honest, LoadHonest, Known, Active, Terminal
    <3>3. /\ page'[o].feed = page[o].feed /\ page'[o].shown = page[o].shown
          /\ page'[o].told = page[o].told /\ page'[o].loads = page[o].loads
      BY <2>2, <2>4
    <3>4. /\ Known(page[o].shown)' /\ Known(page[o].told)'
          /\ \A i \in DOMAIN page'[o].feed : Known(page[o].feed[i])'
      BY <2>6, <3>1, <3>3 DEF Honest
    <3>5. \A m \in Slots : LoadHonest(page[o].loads[m])'
      BY <3>2, <3>3 DEF LoadHonest, Known
    <3> QED
      BY <2>1, <3>4, <3>5 DEF Honest
  <2>8. \A s \in pending' : Known(s)'
    BY <2>1, <2>6 DEF IInv, Known
  <2>9. \A o \in Pages : WellFormed(page[o])'
    BY <2>2, <2>4, TypeParts DEF IInv, WellFormed
  <2> QED
    BY <2>4, <2>5, <2>7, <2>8, <2>9 DEF IInv, TypeOK, RowType, WellFormed
<1>4. CASE TakeCancel(p)
  <2> DEFINE shows == Shows(pg, "cancelled")
  <2>1. Known("cancelled") /\ "cancelled" \in Status
    BY <1>4 DEF TakeCancel, Honest, Known, Status, Terminal
  <2>2. WellFormed(shows) /\ Honest(shows)
    BY <2>1, ShowsStep
  <2> HIDE DEF shows
  <2>3. WellFormed([shows EXCEPT !.cancel = "no"]) /\ Honest([shows EXCEPT !.cancel = "no"])
    BY <2>2, CancelOpen
  <2> QED
    BY <1>4, <2>3, OnePage DEF TakeCancel, shows
<1> QED
  BY <1>1, <1>2, <1>3, <1>4 DEF Cancel

LEMMA LoadsStep ==
  ASSUME IInv, NEW p \in Pages, NEW l \in Slots, Poll(p, l) \/ CancelFails(p, l)
  PROVE  IInv'
<1> DEFINE pg == page[p]
<1>1. WellFormed(pg) /\ Honest(pg)
  BY PageParts
<1>2. WellFormed(Loads(pg, l)) /\ Honest(Loads(pg, l))
  BY <1>1, LoadStep, LoadTypes, AskedHonest DEF Loads
<1>3. CASE Poll(p, l)
  BY <1>2, <1>3, OnePage DEF Poll
<1>4. CASE CancelFails(p, l)
  <2> DEFINE new == Loads(pg, l)
  <2> HIDE DEF new
  <2>1. WellFormed([new EXCEPT !.cancel = "no"]) /\ Honest([new EXCEPT !.cancel = "no"])
    BY <1>2, CancelOpen DEF new
  <2> QED
    BY <1>4, <2>1, OnePage DEF CancelFails, new
<1> QED
  BY <1>3, <1>4

-----------------------------------------------------------------------------
(* Theorems *)

LEMMA InitInvariant == Init => IInv
<1> SUFFICES ASSUME Init PROVE IInv
  OBVIOUS
<1> DEFINE first == [shown |-> "nothing", told |-> "nothing", stream |-> "none",
                     feed |-> <<>>, cancel |-> "no", loads |-> [l \in Slots |-> Idle]]
<1>1. [l \in Slots |-> Idle] \in [Slots -> Load]
  BY LoadTypes
<1>2. <<>> \in Seq(Status) /\ Len(<<>>) <= MaxFeed /\ DOMAIN <<>> = {}
  BY SMT
<1>3. first \in Page
  BY <1>1, <1>2, Zenon DEF Page
<1>4. /\ first.feed = <<>> /\ first.shown = "nothing" /\ first.told = "nothing"
      /\ first.cancel = "no" /\ \A l \in Slots : first.loads[l] = Idle
  OBVIOUS
<1>5. page = [p \in Pages |-> first]
  BY DEF Init
<1> HIDE DEF first
<1>6. WellFormed(first)
  BY <1>2, <1>3, <1>4 DEF WellFormed
<1>7. Honest(first)
  BY <1>2, <1>4, AskedHonest DEF Honest, Known, Terminal
<1>8. RowType
  <2>1. 0 \in 0..MaxFindings /\ 0 \in 0..0
    BY SMT
  <2> QED
    BY <2>1 DEF Init, RowType, Status, Active
<1> QED
  BY <1>3, <1>5, <1>6, <1>7, <1>8, TypeParts DEF IInv, Init

LEMMA StepInvariant == IInv /\ [Next]_vars => IInv'
<1> SUFFICES ASSUME IInv, [Next]_vars PROVE IInv'
  OBVIOUS
<1>1. CASE UNCHANGED vars
  BY <1>1 DEF vars, IInv, TypeOK, Honest, LoadHonest, Known
<1>2. ASSUME NEW s \in Status, Publish(s) \/ Lose(s) PROVE IInv'
  BY <1>2, PublishStep
<1>3. ASSUME NEW p \in Pages, Stream(p) \/ Cancel(p) PROVE IInv'
  BY <1>3, StreamStep, CancelStep
<1>4. ASSUME NEW p \in Pages, NEW l \in Slots, Poll(p, l) \/ Answer(p, l) \/ CancelFails(p, l)
      PROVE  IInv'
  BY <1>4, LoadsStep, AnswerStep
<1> QED
  BY <1>1, <1>2, <1>3, <1>4, ScanStep DEF Next

LEMMA Invariance == Spec => []IInv
BY InitInvariant, StepInvariant, PTL DEF Spec

\* The scan, the publications and what every page holds have their types; a feed stays
\* within its bound and belongs to an open stream.
THEOREM Typed == Spec => []TypeOK
BY Invariance, PTL DEF IInv

\* A page that shows an end shows the one the scan has, for any number of pages and of
\* loads in flight.
THEOREM ShownIsTrue == Spec => []NoFalseEnd
<1>1. IInv => NoFalseEnd
  BY DEF IInv, Honest, Known, NoFalseEnd
<1> QED
  BY <1>1, Invariance, PTL

\* Every end that is published, on its way or told is committed, whoever published it.
THEOREM ToldIsTrue == Spec => []EventsNotEarly
<1>1. IInv => EventsNotEarly
  BY DEF IInv, Honest, Known, EventsNotEarly
<1> QED
  BY <1>1, Invariance, PTL

\* A load that found the scan ended brings every finding stored until then, whatever other
\* loads, pages and late workers do.
THEOREM ListIsComplete == Spec => []FinalListComplete
<1>1. IInv => FinalListComplete
  BY DEF IInv, Honest, LoadHonest, FinalListComplete
<1> QED
  BY <1>1, Invariance, PTL
=============================================================================
