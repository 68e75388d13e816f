--------------------------- MODULE ElnOutboxProofs ---------------------------
(***************************************************************************)
(* What publishing to the notebook promises, for any runs, publishes and    *)
(* pages, and however often calls fail and the application dies.            *)
(***************************************************************************)
EXTENDS ElnOutbox, SequenceTheorems, TLAPS

\* What was asked stays asked: every publish that is on its way was.
Asked(j) == j \in Publishes => asked[j] # NotAsked
PublishesAreAsked ==
    /\ \A i \in DOMAIN tasks : Asked(tasks[i])
    /\ \A j \in JobIds : journal[j] # None => Asked(j)

\* The worker performs jobs of the journal, each by steps of its own kind.
WorksOnTheJournal ==
    /\ \A j \in w.todo : journal[j] # None
    /\ w.job # None => journal[w.job] # None
    /\ \A pg \in Pages, p \in Publishes : sections[pg][p] > 0 => journal[p] # None
    /\ w.at \in {"create", "recordPage"} => w.job = Create
    /\ w.at \in {"section", "append", "recordAppended", "fields", "recordFields"} =>
         w.job \in Publishes
    /\ w.at \in {"send", "recordSent"} => w.job # Create

\* What the ledger knows of is on the page, and so are the figures of a section
\* that is about to be appended.
LedgerIsTrue ==
    /\ \A pg \in Pages : ledger[pg] \subseteq holds[pg]
    /\ w.at = "recordSent" => w.thing \in holds[w.page]
    /\ w.at \in {"section", "append", "recordAppended"} => ThingsOf(w.job) \subseteq holds[w.page]

\* The append is decided on what the page holds.
AppendsOnce ==
    /\ w.at = "append" => sections[w.page][w.job] = 0
    /\ w.at = "recordAppended" => sections[w.page][w.job] > 0

\* Whatever says that a section was appended says so of a page that has it.
HasSectionOf(p) == \E pg \in Pages : sections[pg][p] > 0
AppendedIsTrue ==
    /\ \A p \in Publishes : journal[p] # None /\ journal[p].appended => HasSectionOf(p)
    /\ w.job \in Publishes /\ (w.held.appended \/ w.cur.appended) => HasSectionOf(w.job)
    /\ w.at \in {"fields", "recordFields"} => w.cur.appended
    /\ w.at = "finish" /\ w.job \in Publishes => w.cur.appended

\* Whatever says that a publish is done says so of one that is on a page.
DoneIsTrue ==
    /\ \A p \in w.got \cap Publishes : HasSectionOf(p)
    /\ Create \in w.got => journal[Create] # None
    /\ \A i \in DOMAIN delivered : Create \in delivered[i] => journal[Create] # None
    /\ \A i \in DOMAIN delivered : \A p \in delivered[i] \cap Publishes : HasSectionOf(p)

\* The page of the experiment: the worker creates one while the journal knows
\* of none.
OneCreation ==
    /\ w.at \in {"create", "recordPage"} => journal[Create].entry = None
    /\ w.at = "create" => w.held.entry = None
    /\ w.at = "recordPage" => w.cur.entry \in Pages
    /\ w.at = "finish" /\ w.job = Create => w.cur.entry = journal[Create].entry

Ind == /\ TypeOK /\ PublishesAreAsked /\ WorksOnTheJournal /\ LedgerIsTrue
       /\ AppendsOnce /\ AppendedIsTrue /\ DoneIsTrue /\ OneCreation
       /\ SectionOnce /\ SectionHasItsFigures /\ PublishedIsOnAPage /\ PagesAccountedFor

USE PagesAssumption, JobsAssumption, DataAssumption, BoundsAssumption, RevisionAssumption
-----------------------------------------------------------------------------
(* Sequences, and what is asked.                                            *)

LEMMA Appended ==
    ASSUME NEW S, NEW s \in Seq(S), NEW e \in S
    PROVE  /\ Append(s, e) \in Seq(S)
           /\ \A i \in DOMAIN Append(s, e) :
                \/ i \in DOMAIN s /\ Append(s, e)[i] = s[i]
                \/ Append(s, e)[i] = e
BY AppendProperties, LenProperties

LEMMA Tailed ==
    ASSUME NEW S, NEW s \in Seq(S), s # <<>>
    PROVE  /\ Tail(s) \in Seq(S) /\ 1 \in DOMAIN s /\ Head(s) = s[1] /\ Head(s) \in S
           /\ \A i \in DOMAIN Tail(s) : i + 1 \in DOMAIN s /\ Tail(s)[i] = s[i + 1]
BY HeadTailProperties, LenProperties, EmptySeq

\* What a step leaves in the queue of tasks was asked for.
TasksAreAsked == tasks \in Seq(Msgs) /\ \A i \in DOMAIN tasks : Asked(tasks[i])

LEMMA DrainIsAsked ==
    ASSUME Ind, tasks' = DrainSoon, asked' = asked
    PROVE  TasksAreAsked'
<1>1. tasks \in Seq(Msgs) /\ "drain" \in Msgs /\ \A i \in DOMAIN tasks : Asked(tasks[i])
  BY DEF Ind, TypeOK, Msgs, PublishesAreAsked
<1>2. Asked("drain")' /\ \A j : Asked(j)' <=> Asked(j)
  BY DEF Asked
<1> HIDE DEF Asked
<1>3. CASE Queued(tasks)
  BY <1>1, <1>2, <1>3 DEF DrainSoon, TasksAreAsked
<1>4. CASE ~Queued(tasks)
  <2>1. tasks' = Append(tasks, "drain")
    BY <1>4 DEF DrainSoon
  <2> QED BY <1>1, <1>2, <2>1, Appended DEF TasksAreAsked
<1> QED BY <1>3, <1>4

LEMMA TaskTaken ==
    ASSUME Ind, tasks # <<>>, tasks' = Tail(tasks), asked' = asked
    PROVE  TasksAreAsked' /\ Asked(Head(tasks))
<1>1. tasks \in Seq(Msgs) /\ \A i \in DOMAIN tasks : Asked(tasks[i])
  BY DEF Ind, TypeOK, PublishesAreAsked
<1>2. \A j : Asked(j)' <=> Asked(j)
  BY DEF Asked
<1> HIDE DEF Asked
<1> QED BY <1>1, <1>2, Tailed DEF TasksAreAsked

LEMMA TasksStay ==
    ASSUME Ind, UNCHANGED <<tasks, asked>>
    PROVE  TasksAreAsked'
BY DEF Ind, TypeOK, PublishesAreAsked, TasksAreAsked, Asked
-----------------------------------------------------------------------------
(* Revisions of jobs that tell nothing new of the notebook: a job put back,  *)
(* pushed back, or new.                                                      *)

Revised ==
    /\ journal' \in [JobIds -> Revision \cup {None}]
    /\ \A j \in JobIds : journal[j] # None =>
         /\ journal'[j] # None
         /\ journal'[j].entry = journal[j].entry /\ journal'[j].appended = journal[j].appended
    /\ \A j \in JobIds : journal[j] = None /\ journal'[j] # None =>
         Asked(j) /\ ~journal'[j].appended

\* The worker is where it was, with at most fewer jobs to do.
WorkerStays ==
    /\ w'.todo \subseteq w.todo
    /\ w'.at = w.at /\ w'.job = w.job /\ w'.page = w.page /\ w'.thing = w.thing
    /\ w'.held = w.held /\ w'.cur = w.cur /\ w'.got = w.got

\* What Ind says of the journal and the worker.
Working == /\ \A j \in JobIds : journal[j] # None => Asked(j)
           /\ WorksOnTheJournal /\ LedgerIsTrue /\ AppendsOnce /\ AppendedIsTrue /\ OneCreation
           /\ SectionOnce /\ SectionHasItsFigures /\ PagesAccountedFor

LEMMA RevisedKeeps ==
    ASSUME Ind, Revised, WorkerStays,
           UNCHANGED <<asked, ledger, sections, holds, created, lost>>
    PROVE  Working'
<1>1. w.todo \subseteq JobIds /\ w.job \in JobIds \cup {None} /\ Create \in JobIds
      /\ Publishes \subseteq JobIds
  BY DEF Ind, TypeOK, JobIds
<1>2. \A j : (Asked(j)' <=> Asked(j)) /\ ThingsOf(j)' = ThingsOf(j)
  BY DEF Asked, ThingsOf
<1> HIDE DEF Asked, ThingsOf
<1>3. \A j \in JobIds : journal'[j] # None => Asked(j)'
  BY <1>2 DEF Ind, PublishesAreAsked, Revised
<1>4. WorksOnTheJournal'
  BY <1>1 DEF Ind, WorksOnTheJournal, Revised, WorkerStays
<1>5. LedgerIsTrue'
  BY <1>2 DEF Ind, LedgerIsTrue, WorkerStays
<1>6. AppendsOnce' /\ SectionOnce' /\ SectionHasItsFigures'
  BY <1>2 DEF Ind, AppendsOnce, SectionOnce, SectionHasItsFigures, WorkerStays
<1>7. AppendedIsTrue'
  BY <1>1 DEF Ind, AppendedIsTrue, HasSectionOf, Revised, WorkerStays
<1>8. w.at = "finish" => w.job # None
  BY DEF Ind, TypeOK
<1>9. OneCreation'
  <2>1. w.at \in {"create", "recordPage"} \/ (w.at = "finish" /\ w.job = Create) => journal[Create] # None
    BY DEF Ind, WorksOnTheJournal, TypeOK
  <2> QED BY <1>1, <2>1 DEF Ind, OneCreation, Revised, WorkerStays
<1>10. PagesAccountedFor'
  BY <1>1 DEF Ind, PagesAccountedFor, Revised, WorkerStays
<1> QED BY <1>3, <1>4, <1>5, <1>6, <1>7, <1>9, <1>10 DEF Working

\* The parts of Ind that are left.
LEMMA Together ==
    ASSUME TypeOK, TasksAreAsked, Working, DoneIsTrue, PublishedIsOnAPage
    PROVE  Ind
BY DEF Ind, TasksAreAsked, Working, PublishesAreAsked

LEMMA OutcomesStay ==
    ASSUME Ind, delivered' = delivered, sections' = sections, w'.got = w.got,
           journal[Create] # None => journal'[Create] # None
    PROVE  DoneIsTrue'
BY DEF Ind, DoneIsTrue, HasSectionOf

LEMMA PublishedStay ==
    ASSUME Ind, UNCHANGED <<asked, sections>>, record'.published = record.published
    PROVE  PublishedIsOnAPage'
BY DEF Ind, PublishedIsOnAPage

LEMMA NewJobs ==
    ASSUME NEW js \in SUBSET JobIds, NEW pin \in Nat, TypeOK, Enqueue(js, pin),
           \A j \in js : Asked(j)
    PROVE  Revised /\ older' \subseteq JobIds \X JobIds
<1>1. NewJob(pin) \in Revision /\ NewJob(pin).appended = FALSE
  BY DEF NewJob, Revision
<1> HIDE DEF Asked
<1>2. Revised
  BY <1>1 DEF TypeOK, Enqueue, Revised
<1> QED BY <1>2 DEF TypeOK, Enqueue

LEMMA PutBackRevises ==
    ASSUME Ind, NEW reasons, NEW pin \in Nat \cup {None}, PutBack(reasons, pin)
    PROVE  Revised
<1> DEFINE Back(r) == [r EXCEPT !.state = "pending", !.why = "", !.due = TRUE,
                                !.pin = IF pin = None THEN @ ELSE pin]
<1>1. ASSUME NEW r \in Revision
      PROVE  Back(r) \in Revision /\ Back(r).entry = r.entry /\ Back(r).appended = r.appended
  BY DEF Revision
<1>2. /\ journal \in [JobIds -> Revision \cup {None}]
      /\ journal' = [j \in JobIds |->
            IF journal[j] # None /\ journal[j].state = "attention" /\ journal[j].why \in reasons
            THEN Back(journal[j]) ELSE journal[j]]
  BY DEF Ind, TypeOK, PutBack
<1> HIDE DEF Back
<1> QED BY <1>1, <1>2 DEF Revised
-----------------------------------------------------------------------------
(* The steps of the GUI thread, and of the world.                           *)

LEMMA LinkKeeps ==
    ASSUME Ind, NEW page \in {None, Existing}, NEW items \in {{}, Items}, LinkExperiment(page, items)
    PROVE  Ind'
<1>1. /\ record' = [record EXCEPT !.linked = TRUE, !.entry = page, !.approved = FALSE, !.pin = code]
      /\ links' = links + 1 /\ tasks' = DrainSoon
      /\ UNCHANGED <<ledger, asked, delivered, confirmed, w, code, sections, holds, created, lost,
                     faults, crashes>>
      /\ TypeOK
  BY DEF Ind, LinkExperiment, notebook
<1>2. Revised /\ older' \subseteq JobIds \X JobIds
  <2>1. Create \in JobIds /\ Link \in JobIds /\ Asked(Create) /\ Asked(Link) /\ code \in Nat
    BY <1>1 DEF JobIds, Asked, TypeOK
  <2> DEFINE js == {j \in {Create, Link} : IF j = Create THEN page = None ELSE items # {}}
  <2>2. Enqueue(js, code)
    BY DEF LinkExperiment
  <2>3. js \in SUBSET JobIds /\ \A j \in js : Asked(j)
    BY <2>1
  <2> HIDE DEF js
  <2> QED BY <1>1, <2>1, <2>2, <2>3, NewJobs
<1>3. TasksAreAsked'
  BY <1>1, DrainIsAsked
<1>6. /\ record' \in [linked : BOOLEAN, entry : Pages \cup {None}, approved : BOOLEAN,
                      pin : Nat, published : SUBSET Runs]
      /\ record'.published = record.published /\ links' \in Nat
  <2>1. /\ record \in [linked : BOOLEAN, entry : Pages \cup {None}, approved : BOOLEAN,
                       pin : Nat, published : SUBSET Runs]
        /\ page \in Pages \cup {None} /\ code \in Nat
        /\ record' = [record EXCEPT !.linked = TRUE, !.entry = page, !.approved = FALSE, !.pin = code]
    BY <1>1 DEF TypeOK
  <2>2. links \in Nat /\ links' = links + 1
    BY <1>1 DEF TypeOK
  <2>3. record' \in [linked : BOOLEAN, entry : Pages \cup {None}, approved : BOOLEAN,
                     pin : Nat, published : SUBSET Runs]
    BY <2>1
  <2>4. record'.published = record.published
    BY <2>1
  <2> QED BY <2>2, <2>3, <2>4
<1>4. TypeOK'
  BY <1>1, <1>2, <1>3, <1>6 DEF TypeOK, Revised, TasksAreAsked
<1>5. Working'
  BY <1>1, <1>2, RevisedKeeps DEF WorkerStays
<1>7. DoneIsTrue' /\ PublishedIsOnAPage'
  BY <1>1, <1>2, <1>6, OutcomesStay, PublishedStay DEF Revised, JobIds
<1> QED BY <1>3, <1>4, <1>5, <1>7, Together, PTL

LEMMA PutBackKeeps ==
    ASSUME Ind, Retry \/ SaveKey \/ ConfirmConnector
    PROVE  Ind'
<1>1. /\ record' \in [linked : BOOLEAN, entry : Pages \cup {None}, approved : BOOLEAN,
                      pin : Nat, published : SUBSET Runs]
      /\ record'.published = record.published
      /\ tasks' = DrainSoon
      /\ UNCHANGED <<older, ledger, asked, delivered, confirmed, w, code, sections, holds, created,
                     lost, faults, crashes, links>>
      /\ TypeOK /\ code \in Nat
  BY DEF Ind, TypeOK, Retry, SaveKey, ConfirmConnector, notebook, counters
<1>2. Revised
  BY <1>1, PutBackRevises DEF Retry, SaveKey, ConfirmConnector
<1>3. TasksAreAsked'
  BY <1>1, DrainIsAsked
<1>4. TypeOK'
  BY <1>1, <1>2, <1>3 DEF TypeOK, Revised, TasksAreAsked
<1>5. Working'
  BY <1>1, <1>2, RevisedKeeps DEF WorkerStays
<1>6. DoneIsTrue' /\ PublishedIsOnAPage'
  BY <1>1, <1>2, OutcomesStay, PublishedStay DEF Revised, JobIds
<1> QED BY <1>3, <1>4, <1>5, <1>6, Together, PTL

LEMMA BackoffKeeps ==
    ASSUME Ind, NEW j \in JobIds, BackoffEnds(j)
    PROVE  Ind'
<1>1. /\ journal[j] # None /\ journal' = [journal EXCEPT ![j].due = TRUE]
      /\ UNCHANGED <<record, older, ledger, asked, tasks, delivered, confirmed, w, code, sections,
                     holds, created, lost, faults, crashes, links>>
      /\ TypeOK
  BY DEF Ind, BackoffEnds, memory, notebook, counters
<1>2. Revised
  <2>1. journal[j] \in Revision /\ journal \in [JobIds -> Revision \cup {None}]
    BY <1>1 DEF TypeOK
  <2> DEFINE r == [journal[j] EXCEPT !.due = TRUE]
  <2>2. r \in Revision /\ r.entry = journal[j].entry /\ r.appended = journal[j].appended
    BY <2>1 DEF Revision
  <2>3. journal' = [journal EXCEPT ![j] = r]
    BY <1>1
  <2> HIDE DEF r
  <2> QED BY <1>1, <2>1, <2>2, <2>3 DEF Revised
<1>3. TasksAreAsked'
  BY <1>1, TasksStay
<1>4. TypeOK'
  BY <1>1, <1>2 DEF TypeOK, Revised
<1>5. Working'
  BY <1>1, <1>2, RevisedKeeps DEF WorkerStays
<1>6. DoneIsTrue' /\ PublishedIsOnAPage'
  BY <1>1, <1>2, OutcomesStay, PublishedStay DEF Revised, JobIds
<1> QED BY <1>3, <1>4, <1>5, <1>6, Together, PTL

\* The steps that leave the journal and the notebook alone.
LEMMA QuietKeeps ==
    ASSUME Ind, TypeOK', TasksAreAsked', DoneIsTrue', PublishedIsOnAPage', w' = w,
           UNCHANGED <<journal, asked, ledger, sections, holds, created, lost>>
    PROVE  Ind'
<1>1. Revised
  BY DEF Ind, TypeOK, Revised
<1>2. Working'
  BY <1>1, RevisedKeeps DEF WorkerStays
<1> QED BY <1>2, Together, PTL

LEMMA ApproveKeeps ==
    ASSUME Ind, Approve
    PROVE  Ind'
<1>1. /\ record' = [record EXCEPT !.approved = TRUE]
      /\ UNCHANGED <<journal, older, ledger, asked, tasks, delivered, confirmed, w, code, sections,
                     holds, created, lost, faults, crashes, links>>
      /\ TypeOK
  BY DEF Ind, Approve, memory, notebook, counters
<1>2. TypeOK' /\ record'.published = record.published
  BY <1>1 DEF TypeOK
<1>3. TasksAreAsked' /\ DoneIsTrue' /\ PublishedIsOnAPage'
  BY <1>1, <1>2, TasksStay, OutcomesStay, PublishedStay
<1> QED BY <1>1, <1>2, <1>3, QuietKeeps

LEMMA TimerKeeps ==
    ASSUME Ind, TimerFires \/ ReplaceConnector \/ UNCHANGED vars
    PROVE  Ind'
<1>1. /\ UNCHANGED <<record, journal, older, ledger, asked, delivered, confirmed, w, sections,
                     holds, created, lost, faults, crashes, links>>
      /\ tasks' \in {tasks, DrainSoon} /\ code' \in {code, code + 1}
      /\ TypeOK
  BY DEF Ind, TimerFires, ReplaceConnector, vars, disk, memory, notebook, counters
<1>2. TasksAreAsked'
  BY <1>1, TasksStay, DrainIsAsked
<1>3. TypeOK'
  BY <1>1, <1>2 DEF TypeOK, TasksAreAsked
<1>4. DoneIsTrue' /\ PublishedIsOnAPage'
  BY <1>1, OutcomesStay, PublishedStay
<1> QED BY <1>1, <1>2, <1>3, <1>4, QuietKeeps

LEMMA DrainedKeeps ==
    ASSUME Ind, Drained
    PROVE  Ind'
<1>1. /\ delivered # <<>> /\ delivered' = Tail(delivered)
      /\ record' = [record EXCEPT
             !.linked = @ \/ Create \in Head(delivered),
             !.entry  = IF Create \in Head(delivered) THEN journal[Create].entry ELSE @,
             !.published = @ \cup UNION {asked[p].runs : p \in Head(delivered) \cap Publishes}]
      /\ UNCHANGED <<journal, older, ledger, asked, tasks, confirmed, w, code, sections, holds,
                     created, lost, faults, crashes, links>>
      /\ TypeOK
  BY DEF Ind, Drained, notebook, counters
<1>2. /\ Head(delivered) \subseteq JobIds /\ delivered' \in Seq(SUBSET JobIds)
      /\ \A p \in Head(delivered) \cap Publishes : HasSectionOf(p)
      /\ \A i \in DOMAIN delivered' : \A p \in delivered'[i] \cap Publishes : HasSectionOf(p)
      /\ Create \in Head(delivered) => journal[Create] # None
      /\ \A i \in DOMAIN delivered' : Create \in delivered'[i] => journal[Create] # None
  BY <1>1, Tailed DEF Ind, TypeOK, DoneIsTrue
<1> PICK done \in SUBSET JobIds : done = Head(delivered)
  BY <1>2
<1>3. /\ record'.published = record.published \cup UNION {asked[p].runs : p \in done \cap Publishes}
      /\ record.published \subseteq Runs /\ \A p \in Publishes : asked[p].runs \subseteq Runs
      /\ record' \in [linked : BOOLEAN, entry : Pages \cup {None}, approved : BOOLEAN,
                      pin : Nat, published : SUBSET Runs]
  <2>1. /\ record \in [linked : BOOLEAN, entry : Pages \cup {None}, approved : BOOLEAN,
                       pin : Nat, published : SUBSET Runs]
        /\ \A p \in Publishes : asked[p].runs \subseteq Runs
    BY <1>1 DEF TypeOK
  <2>2. Create \in done => journal[Create].entry \in Pages \cup {None}
    <3>1. ASSUME Create \in done  PROVE journal[Create] # None
      BY <1>1, <1>2, <3>1 DEF Ind, DoneIsTrue
    <3> QED BY <1>1, <3>1, ZenonT(60) DEF TypeOK, Revision, JobIds
  <2> DEFINE linked    == record.linked \/ Create \in done
             entry     == IF Create \in done THEN journal[Create].entry ELSE record.entry
             published == record.published \cup UNION {asked[p].runs : p \in done \cap Publishes}
  <2>3. linked \in BOOLEAN /\ entry \in Pages \cup {None} /\ published \in SUBSET Runs
    BY <2>1, <2>2
  <2>4. record' = [record EXCEPT !.linked = linked, !.entry = entry, !.published = published]
    BY <1>1
  <2> HIDE DEF linked, entry, published
  <2>5. /\ record' \in [linked : BOOLEAN, entry : Pages \cup {None}, approved : BOOLEAN,
                        pin : Nat, published : SUBSET Runs]
        /\ record'.published = published
    BY <2>1, <2>3, <2>4
  <2> QED BY <2>1, <2>5 DEF published
<1>4. TypeOK'
  BY <1>1, <1>2, <1>3 DEF TypeOK
<1>5. TasksAreAsked'
  BY <1>1, TasksStay
<1>6. DoneIsTrue'
  BY <1>1, <1>2 DEF Ind, DoneIsTrue, HasSectionOf
<1>7. PublishedIsOnAPage'
  <2> SUFFICES ASSUME NEW r \in record'.published
               PROVE  \E p \in Publishes, pg \in Pages : r \in asked'[p].runs /\ sections'[pg][p] > 0
    BY DEF PublishedIsOnAPage
  <2>1. CASE r \in record.published
    BY <1>1, <2>1 DEF Ind, PublishedIsOnAPage
  <2>2. CASE r \notin record.published
    <3> PICK p \in done \cap Publishes : r \in asked[p].runs
      BY <1>3, <2>2
    <3> QED BY <1>1, <1>2 DEF HasSectionOf
  <2> QED BY <2>1, <2>2
<1> QED BY <1>1, <1>4, <1>5, <1>6, <1>7, QuietKeeps

\* A publish is asked for once: nothing was queued, sent or appended for it yet.
LEMMA PublishKeeps ==
    ASSUME Ind, NEW p \in Publishes, Publish(p)
    PROVE  Ind'
<1>1. /\ asked[p] = NotAsked /\ tasks' = Append(tasks, p)
      /\ UNCHANGED <<record, journal, older, ledger, delivered, confirmed, w, code, sections, holds,
                     created, lost, faults, crashes, links>>
      /\ TypeOK
  BY DEF Ind, Publish, disk, notebook, counters
<1>2. PICK runs \in (SUBSET Runs) \ {{}} :
        asked' = [asked EXCEPT ![p] = [runs |-> runs, pin |-> record.pin]]
  BY DEF Publish
<1>3. /\ asked' \in [Publishes -> [runs : SUBSET Runs, pin : Nat]]
      /\ asked'[p].runs = runs /\ asked'[p] # NotAsked /\ \A q \in Publishes : q # p => asked'[q] = asked[q]
  BY <1>1, <1>2 DEF TypeOK, NotAsked
<1>4. p \in JobIds /\ p # Link /\ p # Create /\ ~Asked(p) /\ Asked(p)' /\ \A j : Asked(j) => Asked(j)'
  BY <1>1, <1>3 DEF JobIds, Asked
<1>5. \A j \in JobIds : j # p => ThingsOf(j)' = ThingsOf(j)
  BY <1>2, <1>3 DEF ThingsOf
<1> HIDE DEF Asked, ThingsOf
<1>6. journal[p] = None /\ w.job # p /\ \A pg \in Pages : ~(sections[pg][p] > 0)
  BY <1>4 DEF Ind, PublishesAreAsked, WorksOnTheJournal
<1>7. TasksAreAsked'
  <2>1. tasks \in Seq(Msgs) /\ p \in Msgs /\ \A i \in DOMAIN tasks : Asked(tasks[i])
    BY <1>1 DEF Ind, TypeOK, Msgs, PublishesAreAsked
  <2> QED BY <1>1, <1>4, <2>1, Appended DEF TasksAreAsked
<1>8. TypeOK'
  BY <1>1, <1>3, <1>7 DEF TypeOK, TasksAreAsked
<1>9. Working'
  <2>1. \A j \in JobIds : journal[j] # None => Asked(j)'
    BY <1>1, <1>4 DEF Ind, PublishesAreAsked
  <2>2. WorksOnTheJournal' /\ AppendsOnce' /\ AppendedIsTrue' /\ OneCreation'
    BY <1>1 DEF Ind, WorksOnTheJournal, AppendsOnce, AppendedIsTrue, HasSectionOf, OneCreation
  <2>3. LedgerIsTrue'
    BY <1>1, <1>5, <1>6 DEF Ind, TypeOK, LedgerIsTrue
  <2>4. SectionOnce' /\ PagesAccountedFor'
    BY <1>1 DEF Ind, SectionOnce, PagesAccountedFor
  <2>5. SectionHasItsFigures'
    BY <1>1, <1>5, <1>6 DEF Ind, SectionHasItsFigures, JobIds
  <2> QED BY <1>1, <2>1, <2>2, <2>3, <2>4, <2>5 DEF Working
<1>10. DoneIsTrue'
  BY <1>1, OutcomesStay
<1>11. PublishedIsOnAPage'
  BY <1>1, <1>3, <1>6 DEF Ind, PublishedIsOnAPage
<1> QED BY <1>7, <1>8, <1>9, <1>10, <1>11, Together, PTL

\* What was in memory is gone: nothing is under way.
LEMMA RestartKeeps ==
    ASSUME Ind, Restart
    PROVE  Ind'
<1>1. /\ crashes' = crashes + 1 /\ tasks' = <<"drain">> /\ delivered' = <<>> /\ confirmed' = None
      /\ w' = Resting
      /\ lost' = IF w.at = "recordPage" THEN lost \cup {w.cur.entry} ELSE lost
      /\ UNCHANGED <<record, journal, older, ledger, asked, code, sections, holds, created, faults, links>>
      /\ TypeOK
  BY DEF Ind, Restart, disk, notebook
<1>2. /\ w'.at = "rest" /\ w'.todo = {} /\ w'.job = None /\ w'.page = None /\ w'.thing = None
      /\ w'.got = {} /\ w'.held \in Revision /\ w'.cur \in Revision
      /\ w' \in [at : Steps, todo : SUBSET JobIds, job : JobIds \cup {None},
                 page : Pages \cup {None}, thing : Things \cup {None},
                 held : Revision, cur : Revision, got : SUBSET JobIds]
  BY <1>1 DEF Resting, NewJob, Revision, Steps
<1>3. TasksAreAsked'
  BY <1>1 DEF TasksAreAsked, Asked, Msgs
<1>4. lost' \subseteq Pages
  BY <1>1 DEF Ind, TypeOK, OneCreation
<1>5. TypeOK'
  <2>1. delivered' \in Seq(SUBSET JobIds) /\ None \notin Publishes \cup {Link}
    BY <1>1, EmptySeq
  <2>2. crashes' \in Nat
    BY <1>1 DEF TypeOK
  <2> QED BY <2>2, <1>1, <1>2, <1>3, <1>4, <2>1 DEF TypeOK, TasksAreAsked
<1>6. Working'
  <2>1. \A j \in JobIds : journal[j] # None => Asked(j)'
    BY <1>1 DEF Ind, PublishesAreAsked, Asked
  <2>2. WorksOnTheJournal' /\ AppendsOnce' /\ AppendedIsTrue' /\ OneCreation'
    BY <1>1, <1>2 DEF Ind, WorksOnTheJournal, AppendsOnce, AppendedIsTrue, HasSectionOf, OneCreation
  <2>3. LedgerIsTrue' /\ SectionOnce' /\ SectionHasItsFigures'
    BY <1>1, <1>2 DEF Ind, LedgerIsTrue, SectionOnce, SectionHasItsFigures, ThingsOf
  <2>4. PagesAccountedFor'
    BY <1>1, <1>2 DEF Ind, PagesAccountedFor
  <2> QED BY <1>1, <2>1, <2>2, <2>3, <2>4 DEF Working
<1>7. DoneIsTrue'
  BY <1>1, <1>2 DEF DoneIsTrue
<1>8. PublishedIsOnAPage'
  BY <1>1, PublishedStay
<1> QED BY <1>3, <1>5, <1>6, <1>7, <1>8, Together, PTL
-----------------------------------------------------------------------------
(* The steps of the worker.                                                 *)

WorkerType == [at : Steps, todo : SUBSET JobIds, job : JobIds \cup {None},
               page : Pages \cup {None}, thing : Things \cup {None},
               held : Revision, cur : Revision, got : SUBSET JobIds]

\* The notebook only gains, and a section only of the job that is performed.
Gains ==
    /\ sections' \in [Pages -> [Publishes -> Nat]] /\ holds' \in [Pages -> SUBSET Things]
    /\ \A pg \in Pages : holds[pg] \subseteq holds'[pg]
    /\ \A pg \in Pages, p \in Publishes : sections[pg][p] > 0 => sections'[pg][p] > 0
    /\ \A pg \in Pages, p \in Publishes : sections'[pg][p] > 0 => sections[pg][p] > 0 \/ p = w.job

LEMMA GainsNothing ==
    ASSUME TypeOK, UNCHANGED <<sections, holds>>
    PROVE  Gains
BY DEF TypeOK, Gains

LEMMA StillThere ==
    ASSUME Gains
    PROVE  \A p \in Publishes : HasSectionOf(p) => HasSectionOf(p)'
BY DEF Gains, HasSectionOf

LEMMA Carried ==
    ASSUME Ind, Gains, UNCHANGED <<record, asked, tasks, delivered>>, w'.got = w.got,
           journal[Create] # None => journal'[Create] # None
    PROVE  TasksAreAsked' /\ DoneIsTrue' /\ PublishedIsOnAPage'
<1>1. TasksAreAsked'
  BY TasksStay
<1>2. DoneIsTrue'
  BY StillThere DEF Ind, DoneIsTrue
<1>3. PublishedIsOnAPage'
  BY DEF Ind, PublishedIsOnAPage, Gains
<1> QED BY <1>1, <1>2, <1>3

\* The worker's job is revised, whatever by.
LEMMA JobRevised ==
    ASSUME Ind, NEW r \in Revision, w.job # None, journal' = [journal EXCEPT ![w.job] = r],
           Gains, asked' = asked,
           \A p \in Publishes : p = w.job /\ r.appended => HasSectionOf(p)'
    PROVE  /\ journal' \in [JobIds -> Revision \cup {None}]
           /\ \A j \in JobIds : journal[j] # None <=> journal'[j] # None
           /\ \A j \in JobIds : journal'[j] # None => Asked(j)'
           /\ \A p \in Publishes : journal'[p] # None /\ journal'[p].appended => HasSectionOf(p)'
           /\ w.job # Create => journal'[Create] = journal[Create]
           /\ w.job = Create => journal[Create] # None /\ journal'[Create] = r
           /\ w.job \in JobIds
<1>1. /\ journal \in [JobIds -> Revision \cup {None}] /\ w.job \in JobIds
      /\ journal[w.job] # None /\ r # None /\ Publishes \subseteq JobIds /\ Create \in JobIds
  BY DEF Ind, TypeOK, WorksOnTheJournal, JobIds
<1>2. \A j \in JobIds : (journal[j] # None => Asked(j)) /\ (Asked(j) => Asked(j)')
  BY DEF Ind, PublishesAreAsked, Asked
<1>3. \A p \in Publishes : journal[p] # None /\ journal[p].appended => HasSectionOf(p)'
  BY StillThere DEF Ind, AppendedIsTrue
<1> HIDE DEF Asked
<1> QED BY <1>1, <1>2, <1>3

\* What is true once the worker has put its job down.
LEMMA PutDown ==
    ASSUME Ind, NEW r \in Revision, w.job # None, journal' = [journal EXCEPT ![w.job] = r],
           Gains, UNCHANGED <<asked, ledger>>,
           \A p \in Publishes : p = w.job /\ r.appended => HasSectionOf(p)',
           w'.at = "next", w'.job = None, w'.todo = w.todo
    PROVE  /\ WorksOnTheJournal' /\ LedgerIsTrue' /\ AppendsOnce' /\ AppendedIsTrue' /\ OneCreation'
           /\ \A j \in JobIds : journal'[j] # None => Asked(j)'
<1>1. /\ \A j \in JobIds : journal[j] # None <=> journal'[j] # None
      /\ \A j \in JobIds : journal'[j] # None => Asked(j)'
      /\ \A p \in Publishes : journal'[p] # None /\ journal'[p].appended => HasSectionOf(p)'
  BY JobRevised
<1>2. w.todo \subseteq JobIds /\ Publishes \subseteq JobIds /\ None \notin Publishes /\ w.job \in JobIds
  BY DEF Ind, TypeOK, JobIds
<1>3. WorksOnTheJournal'
  <2>1. \A p \in Publishes : p = w.job => journal[p] # None
    BY DEF Ind, WorksOnTheJournal
  <2> QED BY <1>1, <1>2, <2>1 DEF Ind, WorksOnTheJournal, Gains
<1>4. LedgerIsTrue'
  BY DEF Ind, TypeOK, LedgerIsTrue, Gains
<1>5. AppendsOnce' /\ AppendedIsTrue' /\ OneCreation'
  BY <1>1, <1>2 DEF AppendsOnce, AppendedIsTrue, OneCreation
<1> QED BY <1>1, <1>3, <1>4, <1>5

\* A call failed: the journal keeps the revision that the job was begun with.
LEMMA GaveUp ==
    ASSUME Ind, NEW f \in FaultKinds, w.at \in Calls, GiveUp(f), Gains,
           UNCHANGED <<record, older, ledger, asked, tasks, delivered, confirmed, code, crashes, links>>,
           created' \subseteq Pages, lost' \subseteq Pages
    PROVE  /\ TypeOK' /\ TasksAreAsked' /\ DoneIsTrue' /\ PublishedIsOnAPage'
           /\ WorksOnTheJournal' /\ LedgerIsTrue' /\ AppendsOnce' /\ AppendedIsTrue' /\ OneCreation'
           /\ \A j \in JobIds : journal'[j] # None => Asked(j)'
           /\ journal[Create] # None => journal'[Create] # None /\ journal'[Create].entry = journal[Create].entry
           /\ w.at # "recordPage"
<1> DEFINE r == Failed(f)
<1>1. /\ w \in WorkerType /\ w.job # None /\ w.job \in JobIds /\ TypeOK /\ w.at # "recordPage"
  BY DEF Ind, TypeOK, WorkerType, Calls
<1>2. /\ r \in Revision /\ r.appended = w.held.appended /\ r.entry = w.held.entry
  <2>1. w.held \in Revision /\ f \in FaultKinds
    BY <1>1 DEF WorkerType
  <2> QED BY <2>1 DEF Failed, Revision
<1>3. /\ journal' = [journal EXCEPT ![w.job] = r]
      /\ w' = [w EXCEPT !.at = "next", !.job = None] /\ faults' = faults + 1
  BY DEF GiveUp
<1> HIDE DEF r
<1>4. /\ w'.at = "next" /\ w'.job = None /\ w'.todo = w.todo /\ w'.got = w.got /\ w'.thing = w.thing
      /\ w' \in WorkerType
  BY <1>1, <1>3 DEF WorkerType, Steps
<1>5. \A p \in Publishes : p = w.job /\ r.appended => HasSectionOf(p)'
  BY <1>2, StillThere DEF Ind, AppendedIsTrue
<1>6. /\ journal' \in [JobIds -> Revision \cup {None}]
      /\ journal[Create] # None => journal'[Create] # None
      /\ w.job # Create => journal'[Create] = journal[Create]
      /\ w.job = Create => journal[Create] # None /\ journal'[Create] = r
  BY <1>1, <1>2, <1>3, <1>5, JobRevised DEF JobIds
<1>7. /\ WorksOnTheJournal' /\ LedgerIsTrue' /\ AppendsOnce' /\ AppendedIsTrue' /\ OneCreation'
      /\ \A j \in JobIds : journal'[j] # None => Asked(j)'
  BY <1>1, <1>2, <1>3, <1>4, <1>5, PutDown
<1>8. TasksAreAsked' /\ DoneIsTrue' /\ PublishedIsOnAPage'
  BY <1>4, <1>6, Carried
<1>9. TypeOK'
  <2>1. faults' \in Nat
    BY <1>1, <1>3 DEF TypeOK
  <2>2. w.at # "recordSent" /\ None \notin Publishes \cup {Link}
    BY DEF Calls
  <2> QED BY <1>1, <1>4, <1>6, <2>1, <2>2 DEF TypeOK, WorkerType, Gains
<1>10. journal[Create] # None => journal'[Create].entry = journal[Create].entry
  <2>1. w.job = Create => w.at = "create"
    BY DEF Ind, WorksOnTheJournal, Calls
  <2> QED BY <1>2, <1>6, <2>1 DEF Ind, OneCreation
<1> QED BY <1>1, <1>6, <1>7, <1>8, <1>9, <1>10

LEMMA CallFailsKeeps ==
    ASSUME Ind, CallFails
    PROVE  Ind'
<1>1. PICK f \in FaultKinds : GiveUp(f)
  BY DEF CallFails
<1>2. /\ w.at \in Calls
      /\ UNCHANGED <<record, older, ledger, asked, tasks, delivered, confirmed, code, crashes, links,
                     sections, holds, created, lost>>
      /\ TypeOK
  BY DEF Ind, CallFails, WorkerUnchanged, notebook
<1>3. Gains /\ created' \subseteq Pages /\ lost' \subseteq Pages
  BY <1>2, GainsNothing DEF TypeOK
<1>4. /\ TypeOK' /\ TasksAreAsked' /\ DoneIsTrue' /\ PublishedIsOnAPage'
      /\ WorksOnTheJournal' /\ LedgerIsTrue' /\ AppendsOnce' /\ AppendedIsTrue' /\ OneCreation'
      /\ \A j \in JobIds : journal'[j] # None => Asked(j)'
      /\ journal[Create] # None => journal'[Create] # None /\ journal'[Create].entry = journal[Create].entry
      /\ w.at # "recordPage"
  BY <1>1, <1>2, <1>3, GaveUp
<1>5. SectionOnce' /\ SectionHasItsFigures'
  BY <1>2 DEF Ind, SectionOnce, SectionHasItsFigures, ThingsOf
<1>6. PagesAccountedFor'
  BY <1>2, <1>4 DEF Ind, PagesAccountedFor
<1>7. Working'
  BY <1>4, <1>5, <1>6 DEF Working
<1> QED BY <1>4, <1>7, Together, PTL

\* The worker goes on with its job.
WorkerGoes(at, thing, cur) ==
    /\ w'.at = at /\ w'.thing = thing /\ w'.cur = cur
    /\ w'.todo = w.todo /\ w'.job = w.job /\ w'.page = w.page /\ w'.held = w.held /\ w'.got = w.got
    /\ w' \in WorkerType

LEMMA CreateEntryKeeps ==
    ASSUME Ind, CreateEntry
    PROVE  Ind'
<1>1. PICK pg \in Pages \ created :
        /\ created' = created \cup {pg}
        /\ \/ Heard([w EXCEPT !.at = "recordPage", !.cur.entry = pg]) /\ UNCHANGED lost
           \/ GiveUp("unanswered") /\ lost' = lost \cup {pg}
  BY DEF CreateEntry
<1>2. /\ w.at = "create" /\ TypeOK /\ w \in WorkerType
      /\ UNCHANGED <<record, older, ledger, asked, tasks, delivered, confirmed, code, crashes, links,
                     sections, holds>>
  BY DEF Ind, TypeOK, WorkerType, CreateEntry, WorkerUnchanged
<1>3. Gains /\ created' \subseteq Pages /\ lost' \subseteq Pages
  <2>1. created \subseteq Pages /\ lost \subseteq Pages
    BY <1>2 DEF TypeOK
  <2> QED BY <1>1, <1>2, <2>1, GainsNothing
<1>4. w.job = Create /\ w.job # None /\ journal[Create] # None /\ journal[Create].entry = None
  BY <1>2 DEF Ind, TypeOK, WorksOnTheJournal, OneCreation
<1>5. SectionOnce' /\ SectionHasItsFigures'
  BY <1>2 DEF Ind, SectionOnce, SectionHasItsFigures, ThingsOf
<1>6. CASE GiveUp("unanswered") /\ lost' = lost \cup {pg}
  <2>1. "unanswered" \in FaultKinds /\ w.at \in Calls
    BY <1>2 DEF FaultKinds, Calls
  <2>2. /\ TypeOK' /\ TasksAreAsked' /\ DoneIsTrue' /\ PublishedIsOnAPage'
        /\ WorksOnTheJournal' /\ LedgerIsTrue' /\ AppendsOnce' /\ AppendedIsTrue' /\ OneCreation'
        /\ \A j \in JobIds : journal'[j] # None => Asked(j)'
        /\ journal[Create] # None => journal'[Create] # None /\ journal'[Create].entry = journal[Create].entry
    BY <1>2, <1>3, <1>6, <2>1, GaveUp
  <2>3. PagesAccountedFor'
    BY <1>1, <1>2, <1>4, <1>6, <2>2 DEF Ind, PagesAccountedFor
  <2>4. Working'
    BY <1>5, <2>2, <2>3 DEF Working
  <2> QED BY <2>2, <2>4, Together, PTL
<1>7. CASE Heard([w EXCEPT !.at = "recordPage", !.cur.entry = pg]) /\ UNCHANGED lost
  <2> DEFINE c == [w.cur EXCEPT !.entry = pg]
  <2>1. c \in Revision /\ c.entry = pg
    BY <1>2 DEF WorkerType, Revision
  <2>2. w' = [w EXCEPT !.at = "recordPage", !.cur = c] /\ UNCHANGED <<journal, faults>>
    BY <1>7 DEF Heard
  <2> HIDE DEF c
  <2>3. WorkerGoes("recordPage", w.thing, c)
    BY <1>2, <2>1, <2>2 DEF WorkerType, WorkerGoes, Steps
  <2>4. TypeOK'
    BY <1>2, <1>3, <1>4, <2>2, <2>3 DEF TypeOK, WorkerType, WorkerGoes
  <2>5. TasksAreAsked' /\ DoneIsTrue' /\ PublishedIsOnAPage'
    BY <1>2, <1>3, <1>4, <2>2, <2>3, Carried DEF WorkerGoes
  <2>6. \A j \in JobIds : journal'[j] # None => Asked(j)'
    BY <1>2, <2>2 DEF Ind, PublishesAreAsked, Asked
  <2>7. WorksOnTheJournal' /\ LedgerIsTrue' /\ AppendsOnce'
    BY <1>2, <1>4, <2>2, <2>3 DEF Ind, WorksOnTheJournal, LedgerIsTrue, AppendsOnce, WorkerGoes
  <2>8. AppendedIsTrue'
    <3>1. w'.job \notin Publishes /\ w'.at = "recordPage"
      BY <1>4, <2>3 DEF WorkerGoes
    <3> QED BY <1>2, <2>2, <3>1 DEF Ind, AppendedIsTrue, HasSectionOf
  <2>9. OneCreation'
    BY <1>4, <2>1, <2>2, <2>3 DEF OneCreation, WorkerGoes
  <2>10. PagesAccountedFor'
    BY <1>1, <1>2, <1>4, <1>7, <2>1, <2>2, <2>3 DEF Ind, PagesAccountedFor, WorkerGoes
  <2>11. Working'
    BY <1>5, <2>6, <2>7, <2>8, <2>9, <2>10 DEF Working
  <2> QED BY <2>4, <2>5, <2>11, Together, PTL
<1> QED BY <1>1, <1>6, <1>7

\* The steps of a job at which the worker only moves on.
LEMMA GoesOn ==
    ASSUME Ind, NEW at \in Steps \ {"rest", "next", "create", "recordPage"},
           NEW thing \in Things \cup {None}, WorkerGoes(at, thing, w.cur), w.job # None,
           at = "recordSent" <=> thing # None,
           w.at \notin {"create", "recordPage"},
           Gains, UNCHANGED <<record, journal, older, asked, tasks, delivered, confirmed, code,
                              created, lost, crashes, links>>,
           ledger' \in [Pages -> SUBSET Things], faults' \in Nat,
           \* what is left to show of the step it moves on to
           LedgerIsTrue', AppendsOnce', SectionOnce', SectionHasItsFigures',
           at \in {"section", "append", "recordAppended", "fields", "recordFields"} => w.job \in Publishes,
           w.job # Create,
           at \in {"fields", "recordFields", "finish"} =>
              w.cur.appended \/ (at = "finish" /\ w.job = Link)
    PROVE  Ind'
<1>1. w.job \in JobIds /\ journal[w.job] # None /\ TypeOK
  BY DEF Ind, TypeOK, WorksOnTheJournal
<1>2. TypeOK'
  <2>1. at \notin {"rest", "next"} /\ w' \in WorkerType /\ w'.at = at /\ w'.job = w.job /\ w'.page = w.page
        /\ w'.thing = thing
    BY DEF WorkerGoes
  <2> QED BY <1>1, <2>1 DEF TypeOK, WorkerType, Gains
<1>3. TasksAreAsked' /\ DoneIsTrue' /\ PublishedIsOnAPage'
  BY Carried DEF WorkerGoes
<1>4. \A j \in JobIds : journal'[j] # None => Asked(j)'
  BY DEF Ind, PublishesAreAsked, Asked
<1>5. WorksOnTheJournal'
  BY <1>1 DEF Ind, WorksOnTheJournal, WorkerGoes, Gains
<1>6. AppendedIsTrue'
  BY StillThere, <1>1 DEF Ind, AppendedIsTrue, WorkerGoes
<1>7. OneCreation' /\ PagesAccountedFor'
  BY DEF Ind, OneCreation, PagesAccountedFor, WorkerGoes
<1>8. Working'
  BY <1>4, <1>5, <1>6, <1>7 DEF Working
<1> QED BY <1>2, <1>3, <1>8, Together, PTL

LEMMA SendKeeps ==
    ASSUME Ind, Send
    PROVE  Ind'
<1>1. PICK t \in ThingsOf(w.job) \ ledger[w.page] :
        /\ holds' = [holds EXCEPT ![w.page] = @ \cup {t}]
        /\ Heard([w EXCEPT !.at = "recordSent", !.thing = t]) \/ GiveUp("unanswered")
  BY DEF Send
<1>2. /\ w.at = "send" /\ TypeOK /\ w \in WorkerType /\ w.job # None /\ w.job # Create /\ w.page \in Pages
      /\ UNCHANGED <<record, older, ledger, asked, tasks, delivered, confirmed, code, crashes, links,
                     sections, created, lost>>
  <2>1. w.at = "send" /\ TypeOK /\ w.job # Create
    BY DEF Ind, WorksOnTheJournal, Send
  <2>2. w.job \in JobIds /\ w.job # None /\ w.page \in Pages
    BY <2>1 DEF TypeOK, JobIds
  <2> QED BY <2>1, <2>2 DEF TypeOK, WorkerType, Send, WorkerUnchanged
<1>3. t \in Things
  <2>1. asked \in [Publishes -> [runs : SUBSET Runs, pin : Nat]]
    BY <1>2 DEF TypeOK
  <2> QED BY <1>1, <2>1 DEF ThingsOf, Things
<1>4. /\ holds \in [Pages -> SUBSET Things] /\ sections \in [Pages -> [Publishes -> Nat]]
      /\ created \subseteq Pages /\ lost \subseteq Pages /\ ledger \in [Pages -> SUBSET Things]
  BY <1>2 DEF TypeOK
<1>5. /\ Gains /\ created' \subseteq Pages /\ lost' \subseteq Pages
      /\ t \in holds'[w.page]
  BY <1>1, <1>2, <1>3, <1>4 DEF Gains
<1>6. SectionOnce' /\ SectionHasItsFigures'
  BY <1>2, <1>5 DEF Ind, SectionOnce, SectionHasItsFigures, ThingsOf, Gains
<1>7. CASE GiveUp("unanswered")
  <2>1. "unanswered" \in FaultKinds /\ w.at \in Calls
    BY <1>2 DEF FaultKinds, Calls
  <2>2. /\ TypeOK' /\ TasksAreAsked' /\ DoneIsTrue' /\ PublishedIsOnAPage'
        /\ WorksOnTheJournal' /\ LedgerIsTrue' /\ AppendsOnce' /\ AppendedIsTrue' /\ OneCreation'
        /\ \A j \in JobIds : journal'[j] # None => Asked(j)'
        /\ journal[Create] # None => journal'[Create] # None /\ journal'[Create].entry = journal[Create].entry
    BY <1>2, <1>5, <1>7, <2>1, GaveUp
  <2>3. PagesAccountedFor'
    BY <1>2, <2>2 DEF Ind, PagesAccountedFor
  <2>4. Working'
    BY <1>6, <2>2, <2>3 DEF Working
  <2> QED BY <2>2, <2>4, Together, PTL
<1>8. CASE Heard([w EXCEPT !.at = "recordSent", !.thing = t])
  <2>1. UNCHANGED <<journal, faults>> /\ WorkerGoes("recordSent", t, w.cur) /\ faults' \in Nat /\ t # None
    BY <1>2, <1>3, <1>8 DEF Heard, WorkerType, WorkerGoes, Steps, TypeOK, Things
  <2>2. LedgerIsTrue' /\ AppendsOnce'
    BY <1>2, <1>5, <2>1 DEF Ind, TypeOK, LedgerIsTrue, AppendsOnce, WorkerGoes, Gains
  <2>3. "recordSent" \in Steps
    BY DEF Steps
  <2> QED BY <1>2, <1>3, <1>4, <1>5, <1>6, <2>1, <2>2, <2>3, GoesOn
<1> QED BY <1>1, <1>7, <1>8

LEMMA RecordSentKeeps ==
    ASSUME Ind, RecordSent
    PROVE  Ind'
<1>1. /\ w.at = "recordSent" /\ TypeOK /\ w \in WorkerType /\ w.job # None /\ w.job # Create
      /\ w.page \in Pages /\ w.thing \in Things /\ w.thing \in holds[w.page]
      /\ ledger' = [ledger EXCEPT ![w.page] = @ \cup {w.thing}]
      /\ w' = [w EXCEPT !.at = "send", !.thing = None]
      /\ UNCHANGED <<record, journal, older, asked, tasks, delivered, confirmed, code, sections, holds,
                     created, lost, faults, crashes, links>>
  <2>1. w.at = "recordSent" /\ TypeOK /\ w.job # Create /\ w.thing \in holds[w.page]
    BY DEF Ind, WorksOnTheJournal, LedgerIsTrue, RecordSent
  <2>2. w.job \in JobIds /\ w.job # None /\ w.page \in Pages /\ w.thing \in Things
    BY <2>1 DEF TypeOK, JobIds
  <2> QED BY <2>1, <2>2 DEF TypeOK, WorkerType, RecordSent, WorkerUnchanged, notebook
<1>2. WorkerGoes("send", None, w.cur)
  BY <1>1 DEF WorkerType, WorkerGoes, Steps
<1>3. ledger \in [Pages -> SUBSET Things] /\ ledger' \in [Pages -> SUBSET Things] /\ faults' \in Nat
  BY <1>1 DEF TypeOK
<1>4. Gains
  BY <1>1, GainsNothing
<1>5. SectionOnce' /\ SectionHasItsFigures' /\ AppendsOnce'
  BY <1>1, <1>2 DEF Ind, SectionOnce, SectionHasItsFigures, AppendsOnce, ThingsOf, WorkerGoes
<1>6. LedgerIsTrue'
  BY <1>1, <1>2, <1>3 DEF Ind, LedgerIsTrue, WorkerGoes
<1>7. "send" \in Steps
  BY DEF Steps
<1> QED BY <1>1, <1>2, <1>3, <1>4, <1>5, <1>6, <1>7, GoesOn

LEMMA AllSentKeeps ==
    ASSUME Ind, AllSent
    PROVE  Ind'
<1>1. /\ w.at = "send" /\ TypeOK /\ w \in WorkerType /\ w.job # None /\ w.job # Create /\ w.thing = None
      /\ w.job \in JobIds /\ w.page \in Pages /\ ThingsOf(w.job) \subseteq ledger[w.page]
      /\ UNCHANGED <<record, journal, older, ledger, asked, tasks, delivered, confirmed, code, sections,
                     holds, created, lost, faults, crashes, links>>
  <2>1. w.at = "send" /\ TypeOK /\ w.job # Create
    BY DEF Ind, WorksOnTheJournal, AllSent
  <2>2. w.job \in JobIds /\ w.job # None /\ w.page \in Pages /\ w.thing = None
    BY <2>1 DEF TypeOK, JobIds
  <2> QED BY <2>1, <2>2 DEF TypeOK, WorkerType, AllSent, WorkerUnchanged, notebook
<1> PICK at : at = (CASE w.job = Link -> "finish" [] w.job # Link /\ w.cur.appended -> "fields" [] OTHER -> "section")
  OBVIOUS
<1>2. /\ at \in {"finish", "fields", "section"}
      /\ at = "finish" => w.job = Link
      /\ at # "finish" => w.job # Link
      /\ at = "fields" => w.cur.appended
  OBVIOUS
<1>3. WorkerGoes(at, None, w.cur)
  <2>1. w' = [w EXCEPT !.at = at] /\ at \in Steps
    BY <1>2 DEF AllSent, Steps
  <2> QED BY <1>1, <2>1 DEF WorkerType, WorkerGoes
<1>4. ledger' \in [Pages -> SUBSET Things] /\ faults' \in Nat
  BY <1>1 DEF TypeOK
<1>5. Gains
  BY <1>1, GainsNothing
<1>6. SectionOnce' /\ SectionHasItsFigures' /\ AppendsOnce'
  BY <1>1, <1>2, <1>3 DEF Ind, SectionOnce, SectionHasItsFigures, AppendsOnce, ThingsOf, WorkerGoes
<1>7. LedgerIsTrue'
  <2>1. ThingsOf(w.job)' = ThingsOf(w.job) /\ ledger[w.page] \subseteq holds[w.page]
    BY <1>1, <1>3 DEF Ind, LedgerIsTrue, ThingsOf, WorkerGoes
  <2> QED BY <1>1, <1>2, <1>3, <2>1 DEF Ind, LedgerIsTrue, WorkerGoes
<1>8. at \in Steps \ {"rest", "next", "create", "recordPage"} /\ (at # "finish" => w.job \in Publishes)
  BY <1>1, <1>2 DEF Steps, JobIds
<1> QED BY <1>1, <1>2, <1>3, <1>4, <1>5, <1>6, <1>7, <1>8, GoesOn

LEMMA HasSectionKeeps ==
    ASSUME Ind, HasSection
    PROVE  Ind'
<1>1. /\ w.at = "section" /\ TypeOK /\ w \in WorkerType /\ w.job \in Publishes /\ w.job # None
      /\ w.job # Create /\ w.thing = None /\ w.page \in Pages /\ sections[w.page][w.job] \in Nat
      /\ UNCHANGED <<record, journal, older, ledger, asked, tasks, delivered, confirmed, code, sections,
                     holds, created, lost, faults, crashes, links>>
  <2>1. w.at = "section" /\ TypeOK /\ w.job \in Publishes
    BY DEF Ind, WorksOnTheJournal, HasSection
  <2>2. w.job # None /\ w.job # Create /\ w.page \in Pages /\ w.thing = None /\ sections[w.page][w.job] \in Nat
    BY <2>1 DEF TypeOK
  <2> QED BY <2>1, <2>2 DEF TypeOK, WorkerType, HasSection, WorkerUnchanged, notebook
<1> PICK at : at = IF sections[w.page][w.job] > 0 THEN "recordAppended" ELSE "append"
  OBVIOUS
<1>2. /\ at \in {"recordAppended", "append"} /\ at \in Steps
      /\ at = "append" => sections[w.page][w.job] = 0
      /\ at = "recordAppended" => sections[w.page][w.job] > 0
  BY <1>1 DEF Steps
<1>3. WorkerGoes(at, None, w.cur)
  <2>1. w' = [w EXCEPT !.at = at]
    BY DEF HasSection
  <2> QED BY <1>1, <1>2, <2>1 DEF WorkerType, WorkerGoes
<1>4. ledger' \in [Pages -> SUBSET Things] /\ faults' \in Nat
  BY <1>1 DEF TypeOK
<1>5. Gains
  BY <1>1, GainsNothing
<1>6. SectionOnce' /\ SectionHasItsFigures' /\ AppendsOnce'
  BY <1>1, <1>2, <1>3 DEF Ind, SectionOnce, SectionHasItsFigures, AppendsOnce, ThingsOf, WorkerGoes
<1>7. LedgerIsTrue'
  BY <1>1, <1>2, <1>3 DEF Ind, LedgerIsTrue, ThingsOf, WorkerGoes
<1> QED BY <1>1, <1>2, <1>3, <1>4, <1>5, <1>6, <1>7, GoesOn

LEMMA AppendSectionKeeps ==
    ASSUME Ind, AppendSection
    PROVE  Ind'
<1>1. /\ w.at = "append" /\ TypeOK /\ w \in WorkerType /\ w.job \in Publishes /\ w.job # None
      /\ w.job # Create /\ w.thing = None /\ w.page \in Pages /\ sections[w.page][w.job] = 0
      /\ ThingsOf(w.job) \subseteq holds[w.page]
      /\ sections' = [sections EXCEPT ![w.page][w.job] = @ + 1]
      /\ UNCHANGED <<record, older, ledger, asked, tasks, delivered, confirmed, code,
                     holds, created, lost, crashes, links>>
  <2>1. w.at = "append" /\ TypeOK /\ w.job \in Publishes
    BY DEF Ind, WorksOnTheJournal, AppendSection
  <2>2. w.job # None /\ w.job # Create /\ w.page \in Pages /\ w.thing = None
    BY <2>1 DEF TypeOK
  <2>3. sections[w.page][w.job] = 0 /\ ThingsOf(w.job) \subseteq holds[w.page]
    BY <2>1 DEF Ind, AppendsOnce, LedgerIsTrue
  <2> QED BY <2>1, <2>2, <2>3 DEF TypeOK, WorkerType, AppendSection, WorkerUnchanged
<1>2. /\ sections \in [Pages -> [Publishes -> Nat]] /\ sections' \in [Pages -> [Publishes -> Nat]]
      /\ sections'[w.page][w.job] = 1
      /\ \A pg \in Pages, p \in Publishes : ~(pg = w.page /\ p = w.job) => sections'[pg][p] = sections[pg][p]
      /\ created' \subseteq Pages /\ lost' \subseteq Pages /\ ledger' \in [Pages -> SUBSET Things]
  <2>1. /\ sections \in [Pages -> [Publishes -> Nat]] /\ created \subseteq Pages /\ lost \subseteq Pages
        /\ ledger \in [Pages -> SUBSET Things]
    BY <1>1 DEF TypeOK
  <2> QED BY <1>1, <2>1
<1>3. Gains
  BY <1>1, <1>2 DEF TypeOK, Gains
<1>4. SectionOnce'
  BY <1>2 DEF Ind, SectionOnce
<1>5. SectionHasItsFigures'
  <2>1. \A j : ThingsOf(j)' = ThingsOf(j)
    BY <1>1 DEF ThingsOf
  <2> HIDE DEF ThingsOf
  <2> QED BY <1>1, <1>2, <2>1 DEF Ind, SectionHasItsFigures
<1>6. CASE GiveUp("unanswered")
  <2>1. "unanswered" \in FaultKinds /\ w.at \in Calls
    BY <1>1 DEF FaultKinds, Calls
  <2>2. /\ TypeOK' /\ TasksAreAsked' /\ DoneIsTrue' /\ PublishedIsOnAPage'
        /\ WorksOnTheJournal' /\ LedgerIsTrue' /\ AppendsOnce' /\ AppendedIsTrue' /\ OneCreation'
        /\ \A j \in JobIds : journal'[j] # None => Asked(j)'
        /\ journal[Create] # None => journal'[Create] # None /\ journal'[Create].entry = journal[Create].entry
    BY <1>1, <1>2, <1>3, <1>6, <2>1, GaveUp
  <2>3. PagesAccountedFor'
    BY <1>1, <2>2 DEF Ind, PagesAccountedFor
  <2>4. Working'
    BY <1>4, <1>5, <2>2, <2>3 DEF Working
  <2> QED BY <2>2, <2>4, Together, PTL
<1>7. CASE Heard([w EXCEPT !.at = "recordAppended"])
  <2>1. UNCHANGED <<journal, faults>> /\ WorkerGoes("recordAppended", None, w.cur)
    BY <1>1, <1>7 DEF Heard, WorkerType, WorkerGoes, Steps
  <2>2. faults' \in Nat
    BY <1>1, <2>1 DEF TypeOK
  <2>3. AppendsOnce'
    BY <1>2, <2>1 DEF AppendsOnce, WorkerGoes
  <2>4. LedgerIsTrue'
    BY <1>1, <2>1 DEF Ind, LedgerIsTrue, ThingsOf, WorkerGoes
  <2>5. "recordAppended" \in Steps \ {"rest", "next", "create", "recordPage"}
    BY DEF Steps
  <2> QED BY <1>1, <1>2, <1>3, <1>4, <1>5, <2>1, <2>2, <2>3, <2>4, <2>5, GoesOn
<1> QED BY <1>6, <1>7 DEF AppendSection

LEMMA SetFieldsKeeps ==
    ASSUME Ind, SetFields
    PROVE  Ind'
<1>1. /\ w.at = "fields" /\ TypeOK /\ w \in WorkerType /\ w.job \in Publishes /\ w.job # None
      /\ w.job # Create /\ w.thing = None /\ w.cur.appended
      /\ UNCHANGED <<record, older, ledger, asked, tasks, delivered, confirmed, code, sections,
                     holds, created, lost, crashes, links>>
      /\ \/ \E at \in {"finish", "recordFields"} : Heard([w EXCEPT !.at = at])
         \/ GiveUp("unanswered")
  <2>1. w.at = "fields" /\ TypeOK /\ w.job \in Publishes
    BY DEF Ind, WorksOnTheJournal, SetFields
  <2>2. w.job # None /\ w.job # Create /\ w.thing = None
    BY <2>1 DEF TypeOK
  <2>3. w.cur.appended
    BY <2>1 DEF Ind, AppendedIsTrue
  <2> QED BY <2>1, <2>2, <2>3 DEF TypeOK, WorkerType, SetFields, WorkerUnchanged, notebook
<1>2. Gains /\ created' \subseteq Pages /\ lost' \subseteq Pages /\ ledger' \in [Pages -> SUBSET Things]
  BY <1>1, GainsNothing DEF TypeOK
<1>3. SectionOnce' /\ SectionHasItsFigures'
  BY <1>1 DEF Ind, SectionOnce, SectionHasItsFigures, ThingsOf
<1>4. CASE GiveUp("unanswered")
  <2>1. "unanswered" \in FaultKinds /\ w.at \in Calls
    BY <1>1 DEF FaultKinds, Calls
  <2>2. /\ TypeOK' /\ TasksAreAsked' /\ DoneIsTrue' /\ PublishedIsOnAPage'
        /\ WorksOnTheJournal' /\ LedgerIsTrue' /\ AppendsOnce' /\ AppendedIsTrue' /\ OneCreation'
        /\ \A j \in JobIds : journal'[j] # None => Asked(j)'
        /\ journal[Create] # None => journal'[Create] # None /\ journal'[Create].entry = journal[Create].entry
    BY <1>1, <1>2, <1>4, <2>1, GaveUp
  <2>3. PagesAccountedFor'
    BY <1>1, <2>2 DEF Ind, PagesAccountedFor
  <2>4. Working'
    BY <1>3, <2>2, <2>3 DEF Working
  <2> QED BY <2>2, <2>4, Together, PTL
<1>5. ASSUME NEW at \in {"finish", "recordFields"}, Heard([w EXCEPT !.at = at])
      PROVE  Ind'
  <2>1. UNCHANGED <<journal, faults>> /\ WorkerGoes(at, None, w.cur)
    BY <1>1, <1>5 DEF Heard, WorkerType, WorkerGoes, Steps
  <2>2. faults' \in Nat
    BY <1>1, <2>1 DEF TypeOK
  <2>3. AppendsOnce'
    BY <2>1 DEF AppendsOnce, WorkerGoes
  <2>4. LedgerIsTrue'
    BY <1>1, <2>1 DEF Ind, LedgerIsTrue, WorkerGoes
  <2>5. at \in Steps \ {"rest", "next", "create", "recordPage"}
    BY DEF Steps
  <2> QED BY <1>1, <1>2, <1>3, <2>1, <2>2, <2>3, <2>4, <2>5, GoesOn
<1> QED BY <1>1, <1>4, <1>5

LEMMA RecordProgressKeeps ==
    ASSUME Ind, RecordProgress
    PROVE  Ind'
<1> DEFINE c == [w.cur EXCEPT !.appended = @ \/ w.at = "recordAppended",
                              !.fields = @ \/ w.at = "recordFields"]
<1>1. /\ w.at \in {"recordPage", "recordAppended", "recordFields"}
      /\ TypeOK /\ w \in WorkerType /\ w.job \in JobIds /\ w.job # None /\ w.thing = None /\ w.page \in Pages \cup {None}
      /\ journal' = [journal EXCEPT ![w.job] = c]
      /\ UNCHANGED <<record, older, ledger, asked, tasks, delivered, confirmed, code, sections,
                     holds, created, lost, faults, crashes, links>>
  <2>1. TypeOK /\ w.at \in {"recordPage", "recordAppended", "recordFields"}
    BY DEF Ind, RecordProgress
  <2>2. w.job \in JobIds /\ w.job # None /\ w.thing = None
    BY <2>1 DEF TypeOK
  <2> QED BY <2>1, <2>2 DEF TypeOK, WorkerType, RecordProgress, WorkerUnchanged, notebook
<1>2. /\ c \in Revision /\ c.entry = w.cur.entry
      /\ c.appended <=> w.cur.appended \/ w.at = "recordAppended"
  <2>1. w.cur \in Revision
    BY <1>1 DEF WorkerType
  <2>2. w.cur.appended \in BOOLEAN /\ w.cur.fields \in BOOLEAN
    BY <2>1 DEF Revision
  <2>3. (w.cur.appended \/ w.at = "recordAppended") \in BOOLEAN
        /\ (w.cur.fields \/ w.at = "recordFields") \in BOOLEAN
    OBVIOUS
  <2> QED BY <2>1, <2>3 DEF Revision
<1>3. /\ w.at = "recordPage" => w.job = Create
      /\ w.at # "recordPage" => w.job \in Publishes
      /\ w.at = "recordFields" => w.cur.appended
      /\ w.at = "recordAppended" => w.page \in Pages /\ sections[w.page][w.job] > 0
  <2>1. /\ w.at = "recordPage" => w.job = Create
        /\ w.at # "recordPage" => w.job \in Publishes
    BY <1>1 DEF Ind, WorksOnTheJournal
  <2>2. w.job \in Publishes => w.page \in Pages
    BY <1>1 DEF TypeOK
  <2> QED BY <1>1, <2>1, <2>2 DEF Ind, AppendedIsTrue, AppendsOnce
<1> PICK at : at = IF w.at = "recordAppended" THEN "fields" ELSE "finish"
  OBVIOUS
<1>4. at \in {"fields", "finish"} /\ at \in Steps /\ (at = "fields" <=> w.at = "recordAppended")
  BY DEF Steps
<1>5. WorkerGoes(at, None, c)
  <2>1. w' = [w EXCEPT !.cur = c, !.at = at]
    BY DEF RecordProgress
  <2> HIDE DEF c
  <2> QED BY <1>1, <1>2, <1>4, <2>1 DEF WorkerType, WorkerGoes
<1> HIDE DEF c
<1>6. Gains
  BY <1>1, GainsNothing
<1>7. \A p \in Publishes : p = w.job /\ c.appended => HasSectionOf(p)'
  <2>1. \A p \in Publishes : p = w.job /\ c.appended => HasSectionOf(p)
    BY <1>2, <1>3 DEF Ind, AppendedIsTrue, HasSectionOf
  <2> QED BY <1>6, <2>1, StillThere
<1>8. /\ journal' \in [JobIds -> Revision \cup {None}]
      /\ \A j \in JobIds : journal[j] # None <=> journal'[j] # None
      /\ \A j \in JobIds : journal'[j] # None => Asked(j)'
      /\ \A p \in Publishes : journal'[p] # None /\ journal'[p].appended => HasSectionOf(p)'
      /\ w.job # Create => journal'[Create] = journal[Create]
      /\ w.job = Create => journal[Create] # None /\ journal'[Create] = c
  BY <1>1, <1>2, <1>6, <1>7, JobRevised
<1>9. TypeOK'
  <2>1. at \notin {"rest", "next", "recordSent"} /\ (w.job \in Publishes \cup {Link} => w.page # None)
    BY <1>1, <1>4 DEF TypeOK
  <2> QED BY <1>1, <1>5, <1>8, <2>1 DEF TypeOK, WorkerType, WorkerGoes
<1>10. TasksAreAsked' /\ DoneIsTrue' /\ PublishedIsOnAPage'
  <2>1. journal[Create] # None => journal'[Create] # None
    BY <1>8 DEF JobIds
  <2> QED BY <1>1, <1>5, <1>6, <2>1, Carried DEF WorkerGoes
<1>11. WorksOnTheJournal'
  <2>1. w.todo \subseteq JobIds /\ Publishes \subseteq JobIds
    BY <1>1 DEF WorkerType, JobIds
  <2> QED BY <1>1, <1>3, <1>4, <1>5, <1>8, <2>1 DEF Ind, WorksOnTheJournal, WorkerGoes
<1>12. LedgerIsTrue' /\ AppendsOnce' /\ SectionOnce' /\ SectionHasItsFigures'
  <2>1. SectionOnce' /\ SectionHasItsFigures'
    BY <1>1 DEF Ind, SectionOnce, SectionHasItsFigures, ThingsOf
  <2>2. LedgerIsTrue' /\ AppendsOnce'
    BY <1>1, <1>4, <1>5 DEF Ind, LedgerIsTrue, AppendsOnce, WorkerGoes
  <2> QED BY <2>1, <2>2
<1>13. AppendedIsTrue'
  <2>1. \A p \in Publishes : w.job = p /\ (w.held.appended \/ c.appended) => HasSectionOf(p)'
    <3>1. \A p \in Publishes : w.job = p /\ w.held.appended => HasSectionOf(p)
      BY DEF Ind, AppendedIsTrue
    <3> QED BY <1>6, <1>7, <3>1, StillThere
  <2>2. at = "fields" => c.appended
    BY <1>2, <1>4
  <2>3. at = "finish" /\ w.job \in Publishes => c.appended
    BY <1>1, <1>2, <1>3, <1>4
  <2>4. /\ w'.job = w.job /\ w'.held = w.held /\ w'.cur = c /\ w'.at = at
    BY <1>5 DEF WorkerGoes
  <2>5. w'.job \in Publishes /\ (w'.held.appended \/ w'.cur.appended) => HasSectionOf(w.job)'
    <3> SUFFICES ASSUME w'.job \in Publishes, w'.held.appended \/ w'.cur.appended
                 PROVE  HasSectionOf(w.job)'
      OBVIOUS
    <3> PICK p \in Publishes : p = w'.job
      OBVIOUS
    <3>1. HasSectionOf(p)'
      BY <2>1, <2>4
    <3> QED BY <3>1 DEF HasSectionOf
  <2> QED BY <1>4, <1>8, <2>2, <2>3, <2>4, <2>5 DEF AppendedIsTrue
<1>14. OneCreation'
  BY <1>1, <1>2, <1>3, <1>4, <1>5, <1>8 DEF OneCreation, WorkerGoes
<1>15. PagesAccountedFor'
  <2>1. w.at = "recordPage" => journal[Create].entry = None /\ w.cur.entry \in Pages
    BY DEF Ind, OneCreation
  <2>2. c # None /\ created \subseteq Pages
    BY <1>1, <1>2 DEF TypeOK
  <2>3. CASE w.at = "recordPage"
    <3>1. journal'[Create] = c /\ c.entry = w.cur.entry
      BY <1>2, <1>3, <1>8, <2>3
    <3>2. ASSUME NEW pg \in created \ (lost \cup {Existing})  PROVE w.cur.entry = pg
      BY <2>1, <2>2, <2>3, <3>2 DEF Ind, PagesAccountedFor
    <3> QED BY <1>1, <2>2, <3>1, <3>2 DEF PagesAccountedFor
  <2>4. CASE w.at # "recordPage"
    <3>1. w.job # Create
      BY <1>3, <2>4
    <3> QED BY <1>1, <1>8, <2>4, <3>1 DEF Ind, PagesAccountedFor
  <2> QED BY <2>3, <2>4
<1>16. Working'
  BY <1>8, <1>11, <1>12, <1>13, <1>14, <1>15 DEF Working
<1> QED BY <1>9, <1>10, <1>16, Together, PTL

LEMMA FinishJobKeeps ==
    ASSUME Ind, FinishJob
    PROVE  Ind'
<1> DEFINE c == [w.cur EXCEPT !.state = "done"]
<1>1. /\ w.at = "finish" /\ TypeOK /\ w \in WorkerType /\ w.job \in JobIds /\ w.job # None
      /\ journal' = [journal EXCEPT ![w.job] = c]
      /\ confirmed' = IF w.job = Create THEN w.cur.entry ELSE confirmed
      /\ UNCHANGED <<record, older, ledger, asked, tasks, delivered, code, sections,
                     holds, created, lost, faults, crashes, links>>
  <2>1. TypeOK /\ w.at = "finish"
    BY DEF Ind, FinishJob
  <2>2. w.job \in JobIds /\ w.job # None
    BY <2>1 DEF TypeOK
  <2> QED BY <2>1, <2>2 DEF TypeOK, WorkerType, FinishJob, WorkerUnchanged, notebook
<1>2. /\ c \in Revision /\ c.entry = w.cur.entry /\ c.appended = w.cur.appended
      /\ w.cur.entry \in Pages \cup {None} /\ w.thing = None
  <2>1. w.cur \in Revision
    BY <1>1 DEF WorkerType
  <2>2. w.thing = None
    BY <1>1 DEF TypeOK
  <2> QED BY <2>1, <2>2 DEF Revision
<1>3. /\ w'.at = "next" /\ w'.job = None /\ w'.todo = w.todo /\ w'.thing = None
      /\ w'.got = w.got \cup {w.job} /\ w' \in WorkerType
  <2>1. w' = [w EXCEPT !.at = "next", !.job = None, !.got = @ \cup {w.job}]
    BY DEF FinishJob
  <2> HIDE DEF c
  <2> QED BY <1>1, <1>2, <2>1 DEF WorkerType, Steps
<1> HIDE DEF c
<1>4. Gains
  BY <1>1, GainsNothing
<1>5. \A p \in Publishes : p = w.job => HasSectionOf(p)
  BY <1>1 DEF Ind, AppendedIsTrue
<1>6. \A p \in Publishes : p = w.job /\ c.appended => HasSectionOf(p)'
  BY <1>4, <1>5, StillThere
<1>7. /\ journal' \in [JobIds -> Revision \cup {None}]
      /\ \A j \in JobIds : journal[j] # None <=> journal'[j] # None
      /\ w.job # Create => journal'[Create] = journal[Create]
      /\ w.job = Create => journal[Create] # None /\ journal'[Create] = c
  BY <1>1, <1>2, <1>4, <1>6, JobRevised
<1>8. /\ WorksOnTheJournal' /\ LedgerIsTrue' /\ AppendsOnce' /\ AppendedIsTrue' /\ OneCreation'
      /\ \A j \in JobIds : journal'[j] # None => Asked(j)'
  BY <1>1, <1>2, <1>3, <1>4, <1>6, PutDown
<1>9. TypeOK'
  <2>1. confirmed' \in Pages \cup {None} /\ None \notin Publishes \cup {Link}
    BY <1>1, <1>2 DEF TypeOK
  <2> QED BY <1>1, <1>3, <1>7, <2>1 DEF TypeOK, WorkerType
<1>10. TasksAreAsked'
  BY <1>1, TasksStay
<1>11. DoneIsTrue'
  <2>1. Create \in JobIds
    BY DEF JobIds
  <2>2. \A p \in w'.got \cap Publishes : HasSectionOf(p)
    BY <1>3, <1>5 DEF Ind, DoneIsTrue
  <2>3. Create \in w'.got => journal'[Create] # None
    BY <1>3, <1>7, <2>1 DEF Ind, DoneIsTrue
  <2> QED BY <1>1, <1>4, <1>7, <2>1, <2>2, <2>3, StillThere DEF Ind, DoneIsTrue
<1>12. PublishedIsOnAPage'
  BY <1>1, PublishedStay
<1>13. SectionOnce' /\ SectionHasItsFigures'
  BY <1>1 DEF Ind, SectionOnce, SectionHasItsFigures, ThingsOf
<1>14. PagesAccountedFor'
  <2>1. w.job = Create => w.cur.entry = journal[Create].entry
    BY <1>1 DEF Ind, OneCreation
  <2> QED BY <1>1, <1>2, <1>7, <2>1 DEF Ind, PagesAccountedFor
<1>15. Working'
  BY <1>8, <1>13, <1>14 DEF Working
<1> QED BY <1>9, <1>10, <1>11, <1>12, <1>15, Together, PTL

LEMMA RenderKeeps ==
    ASSUME Ind, RenderAndEnqueue
    PROVE  Ind'
<1>1. /\ tasks # <<>> /\ Head(tasks) \in Publishes /\ tasks' = Tail(tasks) /\ TypeOK
      /\ UNCHANGED <<record, asked, code, links, crashes, ledger, delivered, confirmed, w, sections,
                     holds, created, lost>>
  BY DEF Ind, RenderAndEnqueue, WorkerUnchanged, notebook
<1>2. TasksAreAsked' /\ Asked(Head(tasks))
  BY <1>1, TaskTaken
<1>3. Revised /\ older' \subseteq JobIds \X JobIds /\ faults' \in Nat
  <2>1. CASE Enqueue({Head(tasks)}, asked[Head(tasks)].pin) /\ UNCHANGED faults
    <3>1. {Head(tasks)} \in SUBSET JobIds /\ asked[Head(tasks)].pin \in Nat /\ faults \in Nat
      BY <1>1 DEF TypeOK, JobIds
    <3>2. \A j \in {Head(tasks)} : Asked(j)
      BY <1>2
    <3> QED BY <1>1, <2>1, <3>1, <3>2, NewJobs
  <2>2. CASE faults' = faults + 1 /\ UNCHANGED <<journal, older>>
    BY <1>1, <2>2 DEF TypeOK, Revised
  <2> QED BY <2>1, <2>2 DEF RenderAndEnqueue
<1>4. TypeOK'
  BY <1>1, <1>2, <1>3 DEF TypeOK, Revised, TasksAreAsked
<1>5. Working'
  BY <1>1, <1>3, RevisedKeeps DEF WorkerStays
<1>6. DoneIsTrue' /\ PublishedIsOnAPage'
  BY <1>1, <1>3, OutcomesStay, PublishedStay DEF Revised, JobIds
<1> QED BY <1>2, <1>4, <1>5, <1>6, Together, PTL

\* Between two jobs.
LEMMA BetweenJobs ==
    ASSUME Ind, w.job = None, w'.job = None, w'.at \in {"rest", "next"},
           \A j \in w'.todo : journal[j] # None,
           UNCHANGED <<journal, asked, ledger, sections, holds, created, lost>>
    PROVE  Working'
<1>1. w.at \in {"rest", "next"}
  BY DEF Ind, TypeOK
<1>2. \A j \in JobIds : journal'[j] # None => Asked(j)'
  BY DEF Ind, PublishesAreAsked, Asked
<1>3. WorksOnTheJournal' /\ AppendsOnce' /\ AppendedIsTrue' /\ OneCreation'
  BY DEF Ind, WorksOnTheJournal, AppendsOnce, AppendedIsTrue, HasSectionOf, OneCreation
<1>4. LedgerIsTrue' /\ SectionOnce' /\ SectionHasItsFigures'
  BY DEF Ind, LedgerIsTrue, SectionOnce, SectionHasItsFigures, ThingsOf
<1>5. PagesAccountedFor'
  BY <1>1 DEF Ind, PagesAccountedFor
<1> QED BY <1>2, <1>3, <1>4, <1>5 DEF Working

LEMMA BeginDrainKeeps ==
    ASSUME Ind, BeginDrain
    PROVE  Ind'
<1>1. /\ w.at = "rest" /\ tasks # <<>> /\ tasks' = Tail(tasks) /\ TypeOK
      /\ w' = [Resting EXCEPT !.at = "next", !.todo = {j \in JobIds : DueJob(j)}]
      /\ UNCHANGED <<record, asked, code, links, crashes, journal, older, ledger, delivered, confirmed,
                     sections, holds, created, lost, faults>>
  BY DEF Ind, BeginDrain, WorkerUnchanged, notebook
<1>2. /\ w'.at = "next" /\ w'.job = None /\ w'.thing = None /\ w'.got = {}
      /\ w'.todo = {j \in JobIds : DueJob(j)} /\ w' \in WorkerType
  BY <1>1 DEF Resting, WorkerType, NewJob, Revision, Steps
<1>3. w.job = None /\ None \notin Publishes \cup {Link}
  BY <1>1 DEF TypeOK
<1>4. TasksAreAsked'
  BY <1>1, TaskTaken
<1>5. TypeOK'
  BY <1>1, <1>2, <1>3, <1>4 DEF TypeOK, WorkerType, TasksAreAsked
<1>6. Working'
  BY <1>1, <1>2, <1>3, BetweenJobs DEF DueJob
<1>7. DoneIsTrue'
  BY <1>1, <1>2 DEF Ind, DoneIsTrue, HasSectionOf
<1>8. PublishedIsOnAPage'
  BY <1>1, PublishedStay
<1> QED BY <1>4, <1>5, <1>6, <1>7, <1>8, Together, PTL

LEMMA EndDrainKeeps ==
    ASSUME Ind, EndDrain
    PROVE  Ind'
<1>1. /\ w.at = "next" /\ TypeOK /\ w' = Resting
      /\ delivered' = IF w.got = {} THEN delivered ELSE Append(delivered, w.got)
      /\ UNCHANGED <<record, asked, code, links, crashes, journal, older, ledger, tasks, confirmed,
                     sections, holds, created, lost, faults>>
  BY DEF Ind, EndDrain, WorkerUnchanged, notebook
<1>2. /\ w'.at = "rest" /\ w'.job = None /\ w'.thing = None /\ w'.got = {}
      /\ w'.todo = {} /\ w' \in WorkerType
  BY <1>1 DEF Resting, WorkerType, NewJob, Revision, Steps
<1>3. w.job = None /\ None \notin Publishes \cup {Link} /\ w.got \in SUBSET JobIds
      /\ delivered \in Seq(SUBSET JobIds)
  BY <1>1 DEF TypeOK
<1>4. /\ delivered' \in Seq(SUBSET JobIds)
      /\ \A i \in DOMAIN delivered' : (i \in DOMAIN delivered /\ delivered'[i] = delivered[i]) \/ delivered'[i] = w.got
  BY <1>1, <1>3, Appended
<1>5. TasksAreAsked'
  BY <1>1, TasksStay
<1>6. TypeOK'
  BY <1>1, <1>2, <1>3, <1>4 DEF TypeOK, WorkerType
<1>7. Working'
  BY <1>1, <1>2, <1>3, BetweenJobs
<1>8. DoneIsTrue'
  BY <1>1, <1>2, <1>4 DEF Ind, DoneIsTrue, HasSectionOf
<1>9. PublishedIsOnAPage'
  BY <1>1, PublishedStay
<1> QED BY <1>5, <1>6, <1>7, <1>8, <1>9, Together, PTL

LEMMA BeginJobKeeps ==
    ASSUME Ind, BeginJob
    PROVE  Ind'
<1>1. PICK j \in {k \in w.todo : Comes(k, w.todo)} :
        LET rest == [w EXCEPT !.todo = @ \ {j}]
        IN  IF journal[j].pin # code
            THEN /\ journal' = [journal EXCEPT ![j] = [@ EXCEPT !.state = "attention", !.why = "changed"]]
                 /\ w' = rest
            ELSE /\ UNCHANGED journal
                 /\ w' = IF j # Create /\ EntryFor = None THEN rest
                         ELSE [rest EXCEPT !.job = j, !.held = journal[j], !.cur = journal[j],
                                 !.page = IF j = Create THEN None ELSE EntryFor,
                                 !.at = CASE j # Create -> "send"
                                          [] j = Create /\ journal[j].entry = None -> "create"
                                          [] OTHER -> "finish"]
  BY DEF BeginJob
<1>2. /\ w.at = "next" /\ TypeOK /\ w \in WorkerType /\ w.job = None /\ w.thing = None
      /\ UNCHANGED <<record, asked, code, links, crashes, older, ledger, tasks, delivered, confirmed,
                     sections, holds, created, lost, faults>>
  <2>1. w.at = "next" /\ TypeOK
    BY DEF Ind, BeginJob
  <2> QED BY <2>1 DEF TypeOK, WorkerType, BeginJob, WorkerUnchanged, notebook
<1>3. /\ j \in JobIds /\ journal[j] # None /\ journal[j] \in Revision
      /\ journal \in [JobIds -> Revision \cup {None}]
  BY <1>2 DEF Ind, TypeOK, WorksOnTheJournal
<1>4. Gains
  BY <1>2, GainsNothing
<1>5. TasksAreAsked'
  BY <1>2, TasksStay
<1>6. PublishedIsOnAPage'
  BY <1>2, PublishedStay
<1>7. CASE w' = [w EXCEPT !.todo = @ \ {j}] /\ Revised
  <2>1. WorkerStays /\ w' \in WorkerType
    BY <1>2, <1>7 DEF WorkerType, WorkerStays
  <2>2. Working'
    BY <1>2, <1>7, <2>1, RevisedKeeps
  <2>3. TypeOK'
    BY <1>2, <1>7, <2>1 DEF TypeOK, WorkerType, WorkerStays, Revised
  <2>4. DoneIsTrue'
    BY <1>2, <1>7, <2>1, OutcomesStay DEF WorkerStays, Revised, JobIds
  <2> QED BY <1>5, <1>6, <2>2, <2>3, <2>4, Together, PTL
<1>8. CASE journal[j].pin # code
  <2> DEFINE r == [journal[j] EXCEPT !.state = "attention", !.why = "changed"]
  <2>1. r \in Revision /\ r.entry = journal[j].entry /\ r.appended = journal[j].appended
    BY <1>3 DEF Revision
  <2>2. journal' = [journal EXCEPT ![j] = r] /\ w' = [w EXCEPT !.todo = @ \ {j}]
    BY <1>1, <1>8
  <2> HIDE DEF r
  <2>3. Revised
    BY <1>3, <2>1, <2>2 DEF Revised
  <2> QED BY <1>7, <2>2, <2>3
<1>9. CASE journal[j].pin = code /\ j # Create /\ EntryFor = None
  <2>1. journal' = journal /\ w' = [w EXCEPT !.todo = @ \ {j}]
    BY <1>1, <1>9
  <2>2. Revised
    BY <1>3, <2>1 DEF Revised
  <2> QED BY <1>7, <2>1, <2>2
<1>10. CASE journal[j].pin = code /\ ~(j # Create /\ EntryFor = None)
  <2> PICK at : at = CASE j # Create -> "send"
                       [] j = Create /\ journal[j].entry = None -> "create"
                       [] OTHER -> "finish"
    OBVIOUS
  <2> PICK page : page = IF j = Create THEN None ELSE EntryFor
    OBVIOUS
  <2> PICK r \in Revision : r = journal[j]
    BY <1>3
  <2>1. /\ at \in {"send", "create", "finish"} /\ at \in Steps
        /\ at = "send" <=> j # Create
        /\ at = "create" => j = Create /\ r.entry = None
        /\ at = "finish" => j = Create
    BY DEF Steps
  <2>2. page \in Pages \cup {None} /\ (j # Create => page # None)
    <3>1. EntryFor \in Pages \cup {None}
      BY <1>2 DEF TypeOK, EntryFor
    <3> QED BY <1>10, <3>1
  <2>3. journal' = journal
    BY <1>1, <1>10
  <2>4. /\ w'.at = at /\ w'.todo = w.todo \ {j} /\ w'.job = j /\ w'.page = page /\ w'.thing = None
        /\ w'.held = r /\ w'.cur = r /\ w'.got = w.got /\ w' \in WorkerType
    <3>1. w' = [w EXCEPT !.todo = w.todo \ {j}, !.job = j, !.held = r, !.cur = r,
                         !.page = page, !.at = at]
      BY <1>1, <1>2, <1>10 DEF WorkerType
    <3> QED BY <1>2, <1>3, <2>1, <2>2, <3>1 DEF WorkerType
  <2>5. j # None
    BY <1>3 DEF JobIds
  <2>6. TypeOK'
    BY <1>2, <2>1, <2>2, <2>3, <2>4, <2>5 DEF TypeOK, WorkerType
  <2>7. \A k \in JobIds : journal'[k] # None => Asked(k)'
    BY <1>2, <2>3 DEF Ind, PublishesAreAsked, Asked
  <2>8. WorksOnTheJournal'
    BY <1>2, <1>3, <2>1, <2>3, <2>4 DEF Ind, WorksOnTheJournal
  <2>9. LedgerIsTrue' /\ AppendsOnce' /\ SectionOnce' /\ SectionHasItsFigures'
    BY <1>2, <2>1, <2>4 DEF Ind, LedgerIsTrue, AppendsOnce, SectionOnce, SectionHasItsFigures, ThingsOf
  <2>10. AppendedIsTrue'
    BY <1>2, <1>3, <2>1, <2>3, <2>4 DEF Ind, AppendedIsTrue, HasSectionOf
  <2>11. OneCreation'
    BY <2>1, <2>3, <2>4 DEF OneCreation
  <2>12. PagesAccountedFor'
    BY <1>2, <2>3 DEF Ind, PagesAccountedFor
  <2>13. Working'
    BY <2>7, <2>8, <2>9, <2>10, <2>11, <2>12 DEF Working
  <2>14. DoneIsTrue'
    BY <1>2, <2>3, <2>4, OutcomesStay
  <2> QED BY <1>5, <1>6, <2>6, <2>13, <2>14, Together, PTL
<1> QED BY <1>8, <1>9, <1>10
-----------------------------------------------------------------------------
LEMMA InitHolds == Init => Ind
<1> SUFFICES ASSUME Init  PROVE Ind
  OBVIOUS
<1>1. /\ w.at = "rest" /\ w.todo = {} /\ w.job = None /\ w.page = None /\ w.thing = None
      /\ w.got = {} /\ w.held \in Revision /\ w.cur \in Revision /\ w \in WorkerType
  BY DEF Init, Resting, NewJob, Revision, Steps, WorkerType
<1>2. \A S : <<>> \in Seq(S) /\ DOMAIN <<>> = {}
  BY EmptySeq
<1>3. /\ record \in [linked : BOOLEAN, entry : Pages \cup {None}, approved : BOOLEAN,
                     pin : Nat, published : SUBSET Runs]
      /\ asked \in [Publishes -> [runs : SUBSET Runs, pin : Nat]]
      /\ None \notin Publishes \cup {Link}
  BY DEF Init, NotAsked
<1>4. TypeOK
  BY <1>1, <1>2, <1>3 DEF Init, TypeOK, WorkerType
<1>5. TasksAreAsked /\ DoneIsTrue /\ PublishedIsOnAPage
  BY <1>1, <1>2 DEF Init, TasksAreAsked, DoneIsTrue, PublishedIsOnAPage
<1>6. Working
  <2>1. WorksOnTheJournal /\ LedgerIsTrue /\ AppendsOnce /\ AppendedIsTrue /\ OneCreation
    BY <1>1 DEF Init, WorksOnTheJournal, LedgerIsTrue, AppendsOnce, AppendedIsTrue, OneCreation, JobIds
  <2>2. SectionOnce /\ SectionHasItsFigures /\ PagesAccountedFor
    BY DEF Init, SectionOnce, SectionHasItsFigures, PagesAccountedFor
  <2> QED BY <2>1, <2>2 DEF Init, Working
<1> QED BY <1>4, <1>5, <1>6, Together

LEMMA StepHolds == Ind /\ [Next]_vars => Ind'
<1> SUFFICES ASSUME Ind, [Next]_vars  PROVE Ind'
  OBVIOUS
<1>1. CASE Gui
  BY <1>1, LinkKeeps, ApproveKeeps, PublishKeeps, PutBackKeeps, DrainedKeeps, TimerKeeps DEF Gui
<1>2. CASE Worker
  BY <1>2, RenderKeeps, BeginDrainKeeps, EndDrainKeeps, BeginJobKeeps, CreateEntryKeeps, SendKeeps,
     RecordSentKeeps, AllSentKeeps, HasSectionKeeps, AppendSectionKeeps, SetFieldsKeeps,
     RecordProgressKeeps, FinishJobKeeps DEF Worker
<1> QED BY <1>1, <1>2, CallFailsKeeps, BackoffKeeps, TimerKeeps, RestartKeeps DEF Next

LEMMA Invariance == Spec => []Ind
BY InitHolds, StepHolds, PTL DEF Spec

\* Every variable has its type.
THEOREM TypesAreKept == Spec => []TypeOK
<1>1. Ind => TypeOK
  BY DEF Ind
<1> QED BY <1>1, Invariance, PTL

\* However often calls fail and the application dies, a publish is appended to a
\* page at most once, and its figures are there before it is.
THEOREM SectionsStayWhole == Spec => []SectionsAreWhole
<1>1. Ind => SectionsAreWhole
  BY DEF Ind, SectionsAreWhole
<1> QED BY <1>1, Invariance, PTL

\* A run that the record says is published is on a page.
THEOREM PublishedIsTrue == Spec => []PublishedIsOnAPage
<1>1. Ind => PublishedIsOnAPage
  BY DEF Ind
<1> QED BY <1>1, Invariance, PTL

\* No page is created twice but after an answer that was not recorded.
THEOREM PagesStayAccountedFor == Spec => []PagesAccountedFor
<1>1. Ind => PagesAccountedFor
  BY DEF Ind
<1> QED BY <1>1, Invariance, PTL
=============================================================================
