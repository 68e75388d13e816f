----------------------------- MODULE ElnOutbox -----------------------------
(***************************************************************************)
(* Publishing to the lab notebook: the GUI thread that asks, the worker    *)
(* thread that performs due jobs with the connector, the journal and the   *)
(* ledger on disk, and the notebook, which may do what it never            *)
(* acknowledges (i2as/session/eln/).                                       *)
(*                                                                         *)
(* One experiment with its outbox and one account.  Each step of the       *)
(* worker is one remote call or one write to disk, so that the application *)
(* may die between any two; closing it is the same, since the worker is a  *)
(* daemon thread and what it has delivered is then no longer handled.      *)
(***************************************************************************)
EXTENDS Naturals, Sequences

CONSTANTS None, Create, Link,  \* no page; the two jobs named by the experiment
          Publishes,           \* the publish ids, each the id of one job
          Runs, Figures, Items,
          FiguresOf,           \* the figures of a run's selected bundle
          Pages, Existing,     \* the notebook's pages; one that is there already
          Faults,              \* how calls may fail in this instance
          MaxFaults, MaxCrashes, MaxLinks, MaxCode

FaultKinds == {"transient", "unanswered", "auth", "refused", "block"}

ASSUME PagesAssumption == Existing \in Pages /\ None \notin Pages
ASSUME JobsAssumption ==
    /\ Create # Link /\ {Create, Link} \cap Publishes = {}
    /\ {None, "drain"} \cap ({Create, Link} \cup Publishes) = {}
ASSUME DataAssumption ==
    /\ FiguresOf \in [Runs -> SUBSET Figures]
    /\ Items \cap Figures = {} /\ None \notin Items \cup Figures
ASSUME BoundsAssumption ==
    /\ Faults \subseteq FaultKinds
    /\ {MaxFaults, MaxCrashes, MaxLinks, MaxCode} \subseteq Nat

JobIds == {Create, Link} \cup Publishes
Things == Figures \cup Items

VARIABLES
    record,     \* the experiment record: its page and its published runs
    journal,    \* outbox.jsonl: the last revision of each job, or None
    older,      \* the jobs' created_utc: the pairs of which the first is earlier
    ledger,     \* ledger.json: what each page is known to hold
    asked,      \* the runs of each publish asked for, and the code it pins
    tasks,      \* the worker's queue
    delivered,  \* outcomes of drains, on their way to the GUI thread
    confirmed,  \* the page of _confirmed_entries
    w,          \* the worker: the drain it performs, the job and the step
    code,       \* the version of the connector installed
    sections, holds, created,  \* the notebook
    lost,       \* history: pages created of which no answer was recorded
    faults, crashes, links     \* counters of the bounds

disk     == <<record, journal, older, ledger>>
memory   == <<tasks, delivered, confirmed, w>>
notebook == <<sections, holds, created>>
counters == <<faults, crashes, links>>
vars == <<disk, memory, notebook, counters, asked, code, lost>>
----------------------------------------------------------------------------
NotAsked == [runs |-> {}, pin |-> 0]

\* One revision of a job: its state, whether its backoff is over, the code it
\* is pinned to and its progress.
Revision == [state : {"pending", "done", "attention"}, why : FaultKinds \cup {"", "changed"},
             due : BOOLEAN, pin : Nat,
             entry : Pages \cup {None}, appended : BOOLEAN, fields : BOOLEAN]

ASSUME RevisionAssumption == None \notin Revision

NewJob(pin) == [state |-> "pending", why |-> "", due |-> TRUE, pin |-> pin,
                entry |-> None, appended |-> FALSE, fields |-> FALSE]

Steps == {"rest", "next", "create", "recordPage", "send", "recordSent", "section",
          "append", "recordAppended", "fields", "recordFields", "finish"}
Calls == {"create", "send", "section", "append", "fields"}

Resting == [at |-> "rest", todo |-> {}, job |-> None, page |-> None,
            thing |-> None, held |-> NewJob(0), cur |-> NewJob(0), got |-> {}]

Init ==
    /\ record = [linked |-> FALSE, entry |-> None, approved |-> FALSE, pin |-> 0,
                 published |-> {}]
    /\ journal = [j \in JobIds |-> None]
    /\ older = {}
    /\ ledger = [pg \in Pages |-> {}]
    /\ asked = [p \in Publishes |-> NotAsked]
    /\ tasks = <<>> /\ delivered = <<>> /\ confirmed = None /\ w = Resting
    /\ code = 1
    /\ sections = [pg \in Pages |-> [p \in Publishes |-> 0]]
    /\ holds = [pg \in Pages |-> {}]
    /\ created = {Existing} /\ lost = {}
    /\ faults = 0 /\ crashes = 0 /\ links = 0

ThingsOf(j) == CASE j = Link -> Items
                 [] j \in Publishes -> UNION {FiguresOf[r] : r \in asked[j].runs}
                 [] OTHER -> {}

Queued(ts)  == \E i \in DOMAIN ts : ts[i] = "drain"
\* drain_soon: at most one drain is queued.
DrainSoon   == IF Queued(tasks) THEN tasks ELSE Append(tasks, "drain")

\* enqueue: a job id already in the journal appends nothing.
Enqueue(js, pin) ==
    LET known == {j \in JobIds : journal[j] # None}
    IN  /\ journal' = [j \in JobIds |-> IF j \in js \ known THEN NewJob(pin) ELSE journal[j]]
        /\ older' = older \cup (known \X (js \ known))
----------------------------------------------------------------------------
(* The GUI thread.                                                         *)

\* link_experiment, to a new page or to an existing one.  The new binding is
\* not approved yet.  _confirmed_entries is not touched.
LinkExperiment(page, items) ==
    /\ links < MaxLinks
    /\ links' = links + 1
    /\ record' = [record EXCEPT !.linked = TRUE, !.entry = page, !.approved = FALSE,
                                !.pin = code]
    /\ Enqueue({j \in {Create, Link} : IF j = Create THEN page = None ELSE items # {}}, code)
    /\ tasks' = DrainSoon
    /\ UNCHANGED <<ledger, asked, delivered, confirmed, w, code, notebook, lost, faults, crashes>>

Approve ==
    /\ record.linked /\ ~record.approved
    /\ record' = [record EXCEPT !.approved = TRUE]
    /\ UNCHANGED <<journal, older, ledger, asked, memory, code, notebook, lost, counters>>

\* publish: the runs are chosen now, the section is rendered by the worker.
Publish(p) ==
    /\ record.approved
    /\ asked[p] = NotAsked
    /\ \E runs \in (SUBSET Runs) \ {{}} :
         asked' = [asked EXCEPT ![p] = [runs |-> runs, pin |-> record.pin]]
    /\ tasks' = Append(tasks, p)
    /\ UNCHANGED <<disk, delivered, confirmed, w, code, notebook, lost, counters>>

\* A person puts jobs back: those whose reason is one of reasons.
PutBack(reasons, pin) ==
    journal' = [j \in JobIds |->
        IF journal[j] # None /\ journal[j].state = "attention" /\ journal[j].why \in reasons
        THEN [journal[j] EXCEPT !.state = "pending", !.why = "", !.due = TRUE,
                                !.pin = IF pin = None THEN @ ELSE pin]
        ELSE journal[j]]

Waits(reasons) == \E j \in JobIds : /\ journal[j] # None
                                    /\ journal[j].state = "attention"
                                    /\ journal[j].why \in reasons

Retry ==    \* retry: every reason
    /\ Waits(FaultKinds \cup {"changed"})
    /\ PutBack(FaultKinds \cup {"changed"}, None)
    /\ tasks' = DrainSoon
    /\ UNCHANGED <<record, older, ledger, asked, delivered, confirmed, w, code, notebook, lost, counters>>

SaveKey ==  \* reload, after a new key is saved
    /\ Waits({"auth"})
    /\ PutBack({"auth"}, None)
    /\ tasks' = DrainSoon
    /\ UNCHANGED <<record, older, ledger, asked, delivered, confirmed, w, code, notebook, lost, counters>>

ConfirmConnector ==
    /\ record.linked
    /\ record.pin # code \/ Waits({"changed"})
    /\ record' = [record EXCEPT !.pin = code]
    /\ PutBack({"changed"}, code)
    /\ tasks' = DrainSoon
    /\ UNCHANGED <<older, ledger, asked, delivered, confirmed, w, code, notebook, lost, counters>>

\* _drained: what the worker reports reaches the record.
Drained ==
    /\ delivered # <<>>
    /\ LET done == Head(delivered) IN
         record' = [record EXCEPT
             !.linked = @ \/ Create \in done,
             !.entry  = IF Create \in done THEN journal[Create].entry ELSE @,
             !.published = @ \cup UNION {asked[p].runs : p \in done \cap Publishes}]
    /\ delivered' = Tail(delivered)
    /\ UNCHANGED <<journal, older, ledger, asked, tasks, confirmed, w, code, notebook, lost, counters>>

TimerFires ==
    /\ ~Queued(tasks)
    /\ tasks' = DrainSoon
    /\ UNCHANGED <<disk, asked, delivered, confirmed, w, code, notebook, lost, counters>>
----------------------------------------------------------------------------
(* The worker.                                                             *)

WorkerUnchanged == UNCHANGED <<record, asked, code, links, crashes>>

RenderAndEnqueue_MarksPublished ==
    /\ w.at = "rest" /\ tasks # <<>> /\ Head(tasks) \in Publishes
    /\ Enqueue({Head(tasks)}, asked[Head(tasks)].pin)
    /\ tasks' = Tail(tasks)
    /\ delivered' = Append(delivered, {Head(tasks)})
    /\ WorkerUnchanged /\ UNCHANGED <<ledger, confirmed, w, notebook, lost, faults>>
\* The task of publish(): plan, render, enqueue.  A renderer that fails
\* queues nothing.
RenderAndEnqueue ==
    /\ w.at = "rest" /\ tasks # <<>> /\ Head(tasks) \in Publishes
    /\ \/ Enqueue({Head(tasks)}, asked[Head(tasks)].pin) /\ UNCHANGED faults
       \/ /\ "block" \in Faults /\ faults < MaxFaults /\ faults' = faults + 1
          /\ UNCHANGED <<journal, older>>
    /\ tasks' = Tail(tasks)
    /\ WorkerUnchanged /\ UNCHANGED <<ledger, delivered, confirmed, w, notebook, lost>>

DueJob(j) == journal[j] # None /\ journal[j].state = "pending" /\ journal[j].due

\* _drain: the jobs that are due now.
BeginDrain ==
    /\ w.at = "rest" /\ tasks # <<>> /\ Head(tasks) = "drain"
    /\ tasks' = Tail(tasks)
    /\ w' = [Resting EXCEPT !.at = "next", !.todo = {j \in JobIds : DueJob(j)}]
    /\ WorkerUnchanged
    /\ UNCHANGED <<journal, older, ledger, delivered, confirmed, notebook, lost, faults>>

EndDrain ==
    /\ w.at = "next" /\ w.todo = {}
    /\ delivered' = IF w.got = {} THEN delivered ELSE Append(delivered, w.got)
    /\ w' = Resting
    /\ WorkerUnchanged
    /\ UNCHANGED <<journal, older, ledger, tasks, confirmed, notebook, lost, faults>>

\* _entry_for: the page just created, before the one the record names.
EntryFor == IF confirmed # None THEN confirmed ELSE record.entry

\* The order of a drain: creations first, then the oldest.
Comes(j, todo) == \A k \in todo \ {j} : j = Create \/ (k # Create /\ <<k, j>> \notin older)

\* run, up to the first call: the job goes back to attention when the
\* connector's code is not the one it pins, and is left alone while there is
\* no page.
BeginJob ==
    /\ w.at = "next"
    /\ \E j \in {k \in w.todo : Comes(k, w.todo)} :
       LET rest == [w EXCEPT !.todo = @ \ {j}]
       IN  IF journal[j].pin # code
           THEN /\ journal' = [journal EXCEPT ![j] = [@ EXCEPT !.state = "attention", !.why = "changed"]]
                /\ w' = rest
           ELSE /\ UNCHANGED journal
                /\ w' = IF j # Create /\ EntryFor = None THEN rest
                        ELSE [rest EXCEPT !.job = j, !.held = journal[j], !.cur = journal[j],
                                !.page = IF j = Create THEN None ELSE EntryFor,
                                !.at = CASE j # Create -> "send"
                                         [] j = Create /\ journal[j].entry = None -> "create"
                                         [] OTHER -> "finish"]
    /\ WorkerUnchanged
    /\ UNCHANGED <<older, ledger, tasks, delivered, confirmed, notebook, lost, faults>>

Failed_TimeoutWaits(f) ==
    IF f = "transient" THEN [w.held EXCEPT !.due = FALSE]
    ELSE [w.held EXCEPT !.state = "attention", !.why = f]
\* What run records of a call that failed: a revision of the job it was given,
\* not of the one the steps since have advanced.
Failed(f) ==
    IF f \in {"transient", "unanswered"} THEN [w.held EXCEPT !.due = FALSE]
    ELSE [w.held EXCEPT !.state = "attention", !.why = f]

GiveUp(f) ==
    /\ f \in Faults /\ faults < MaxFaults /\ faults' = faults + 1
    /\ journal' = [journal EXCEPT ![w.job] = Failed(f)]
    /\ w' = [w EXCEPT !.at = "next", !.job = None]

Heard(next) == w' = next /\ UNCHANGED <<journal, faults>>

\* A call that fails and has done nothing at the notebook.
CallFails ==
    /\ w.at \in Calls
    /\ w.at = "send" => ~(ThingsOf(w.job) \subseteq ledger[w.page])
    /\ w.at = "fields" => ~w.cur.fields
    /\ \E f \in FaultKinds \ {"unanswered"} : GiveUp(f)
    /\ WorkerUnchanged /\ UNCHANGED <<older, ledger, tasks, delivered, confirmed, notebook, lost>>

CreateEntry ==
    /\ w.at = "create"
    /\ \E pg \in Pages \ created :
         /\ created' = created \cup {pg}
         /\ \/ Heard([w EXCEPT !.at = "recordPage", !.cur.entry = pg]) /\ UNCHANGED lost
            \/ GiveUp("unanswered") /\ lost' = lost \cup {pg}
    /\ WorkerUnchanged
    /\ UNCHANGED <<older, ledger, tasks, delivered, confirmed, sections, holds>>

\* upload or link_item: the next thing the ledger does not know of.
Send ==
    /\ w.at = "send"
    /\ \E t \in ThingsOf(w.job) \ ledger[w.page] :
         /\ holds' = [holds EXCEPT ![w.page] = @ \cup {t}]
         /\ Heard([w EXCEPT !.at = "recordSent", !.thing = t]) \/ GiveUp("unanswered")
    /\ WorkerUnchanged
    /\ UNCHANGED <<older, ledger, tasks, delivered, confirmed, sections, created, lost>>

RecordSent ==
    /\ w.at = "recordSent"
    /\ ledger' = [ledger EXCEPT ![w.page] = @ \cup {w.thing}]
    /\ w' = [w EXCEPT !.at = "send", !.thing = None]
    /\ WorkerUnchanged
    /\ UNCHANGED <<journal, older, tasks, delivered, confirmed, notebook, lost, faults>>

AllSent ==
    /\ w.at = "send" /\ ThingsOf(w.job) \subseteq ledger[w.page]
    /\ w' = [w EXCEPT !.at = CASE w.job = Link -> "finish"
                               [] w.job # Link /\ w.cur.appended -> "fields"
                               [] OTHER -> "section"]
    /\ WorkerUnchanged
    /\ UNCHANGED <<journal, older, ledger, tasks, delivered, confirmed, notebook, lost, faults>>

HasSection_TrustsTheJournal ==
    /\ w.at = "section"
    /\ w' = [w EXCEPT !.at = IF w.cur.appended THEN "recordAppended" ELSE "append"]
    /\ WorkerUnchanged
    /\ UNCHANGED <<journal, older, ledger, tasks, delivered, confirmed, notebook, lost, faults>>
\* has_section: asked before every append, for an earlier attempt may have
\* reached the page.
HasSection ==
    /\ w.at = "section"
    /\ w' = [w EXCEPT !.at = IF sections[w.page][w.job] > 0 THEN "recordAppended" ELSE "append"]
    /\ WorkerUnchanged
    /\ UNCHANGED <<journal, older, ledger, tasks, delivered, confirmed, notebook, lost, faults>>

AppendSection ==
    /\ w.at = "append"
    /\ sections' = [sections EXCEPT ![w.page][w.job] = @ + 1]
    /\ Heard([w EXCEPT !.at = "recordAppended"]) \/ GiveUp("unanswered")
    /\ WorkerUnchanged
    /\ UNCHANGED <<older, ledger, tasks, delivered, confirmed, holds, created, lost>>

\* set_fields overwrites: that it is done twice changes nothing.
SetFields ==
    /\ w.at = "fields"
    /\ IF w.cur.fields THEN Heard([w EXCEPT !.at = "finish"])
       ELSE Heard([w EXCEPT !.at = "recordFields"]) \/ GiveUp("unanswered")
    /\ WorkerUnchanged
    /\ UNCHANGED <<older, ledger, tasks, delivered, confirmed, notebook, lost>>

RecordProgress_WhenDone ==
    /\ w.at \in {"recordPage", "recordAppended", "recordFields"}
    /\ w' = [w EXCEPT !.cur.appended = @ \/ w.at = "recordAppended",
                      !.cur.fields = @ \/ w.at = "recordFields",
                      !.at = IF w.at = "recordAppended" THEN "fields" ELSE "finish"]
    /\ WorkerUnchanged
    /\ UNCHANGED <<journal, older, ledger, tasks, delivered, confirmed, notebook, lost, faults>>
\* A step that succeeded is journalled in the job's progress.
RecordProgress ==
    /\ w.at \in {"recordPage", "recordAppended", "recordFields"}
    /\ LET cur == [w.cur EXCEPT !.appended = @ \/ w.at = "recordAppended",
                                !.fields = @ \/ w.at = "recordFields"]
       IN  /\ journal' = [journal EXCEPT ![w.job] = cur]
           /\ w' = [w EXCEPT !.cur = cur,
                             !.at = IF w.at = "recordAppended" THEN "fields" ELSE "finish"]
    /\ WorkerUnchanged
    /\ UNCHANGED <<older, ledger, tasks, delivered, confirmed, notebook, lost, faults>>

FinishJob ==
    /\ w.at = "finish"
    /\ journal' = [journal EXCEPT ![w.job] = [w.cur EXCEPT !.state = "done"]]
    /\ confirmed' = IF w.job = Create THEN w.cur.entry ELSE confirmed
    /\ w' = [w EXCEPT !.at = "next", !.job = None, !.got = @ \cup {w.job}]
    /\ WorkerUnchanged
    /\ UNCHANGED <<older, ledger, tasks, delivered, notebook, lost, faults>>

Worker == \/ RenderAndEnqueue \/ BeginDrain \/ EndDrain \/ BeginJob
          \/ CreateEntry \/ Send \/ RecordSent \/ AllSent
          \/ HasSection \/ AppendSection \/ SetFields
          \/ RecordProgress \/ FinishJob
----------------------------------------------------------------------------
(* The world.                                                              *)

\* The time a transient failure pushed the job back by is over.
BackoffEnds(j) ==
    /\ journal[j] # None /\ ~journal[j].due
    /\ journal' = [journal EXCEPT ![j].due = TRUE]
    /\ UNCHANGED <<record, older, ledger, asked, memory, code, notebook, lost, counters>>

ReplaceConnector ==
    /\ code < MaxCode
    /\ code' = code + 1
    /\ UNCHANGED <<disk, asked, memory, notebook, lost, counters>>

\* The application dies, or is closed, and is started again: start() asks for
\* a drain.  A page created and not journalled is forgotten.
Restart ==
    /\ crashes < MaxCrashes
    /\ crashes' = crashes + 1
    /\ tasks' = <<"drain">> /\ delivered' = <<>> /\ confirmed' = None /\ w' = Resting
    /\ lost' = IF w.at = "recordPage" THEN lost \cup {w.cur.entry} ELSE lost
    /\ UNCHANGED <<disk, asked, code, notebook, faults, links>>

Gui == \/ \E page \in {None, Existing}, items \in {{}, Items} : LinkExperiment(page, items)
       \/ Approve \/ (\E p \in Publishes : Publish(p))
       \/ Retry \/ SaveKey \/ ConfirmConnector \/ Drained \/ TimerFires

Next == \/ Gui \/ Worker \/ CallFails
        \/ (\E j \in JobIds : BackoffEnds(j))
        \/ ReplaceConnector \/ Restart

Spec == Init /\ [][Next]_vars

\* The worker thread goes on, the GUI thread handles what is delivered, the
\* timer fires, and time passes.
Fairness == /\ WF_vars(Worker) /\ WF_vars(Drained) /\ WF_vars(TimerFires)
            /\ \A j \in JobIds : WF_vars(BackoffEnds(j))

FairSpec == Spec /\ Fairness
----------------------------------------------------------------------------
(* Properties.                                                             *)

Msgs == {"drain"} \cup Publishes
TypeOK ==
    /\ record \in [linked : BOOLEAN, entry : Pages \cup {None}, approved : BOOLEAN,
                   pin : Nat, published : SUBSET Runs]
    /\ journal \in [JobIds -> Revision \cup {None}]
    /\ older \subseteq JobIds \X JobIds
    /\ ledger \in [Pages -> SUBSET Things]
    /\ asked \in [Publishes -> [runs : SUBSET Runs, pin : Nat]]
    /\ tasks \in Seq(Msgs) /\ delivered \in Seq(SUBSET JobIds)
    /\ confirmed \in Pages \cup {None}
    /\ w \in [at : Steps, todo : SUBSET JobIds, job : JobIds \cup {None},
              page : Pages \cup {None}, thing : Things \cup {None},
              held : Revision, cur : Revision, got : SUBSET JobIds]
    /\ code \in Nat
    /\ sections \in [Pages -> [Publishes -> Nat]]
    /\ holds \in [Pages -> SUBSET Things]
    /\ created \subseteq Pages /\ lost \subseteq Pages
    /\ faults \in Nat /\ crashes \in Nat /\ links \in Nat
    /\ w.at \in {"rest", "next"} <=> w.job = None
    /\ w.job \in Publishes \cup {Link} => w.page # None
    /\ w.at = "recordSent" <=> w.thing # None

\* A publish is appended to a page at most once, whatever answers are lost and
\* whenever the application dies ("a publish resumed after a crash never appends
\* twice").
SectionOnce == \A pg \in Pages, p \in Publishes : sections[pg][p] <= 1

\* A section refers to figures by name: they are on its page before it is, also
\* when the ledger knows of them from an earlier publish or another page.
SectionHasItsFigures ==
    \A pg \in Pages, p \in Publishes : sections[pg][p] > 0 => ThingsOf(p) \subseteq holds[pg]

SectionsAreWhole == SectionOnce /\ SectionHasItsFigures

\* "a run marked published really is on the page": through the journal, the
\* outcome, its delivery to the GUI thread and any link made meanwhile.
PublishedIsOnAPage ==
    \A r \in record.published :
        \E p \in Publishes, pg \in Pages : r \in asked[p].runs /\ sections[pg][p] > 0

\* The page of an experiment is created once: every other page is one of which
\* the answer was lost, or that was being journalled when the application died.
PagesAccountedFor ==
    \A pg \in created \ (lost \cup {Existing}) :
        \/ journal[Create] # None /\ journal[Create].entry = pg
        \/ w.at = "recordPage" /\ w.cur.entry = pg

\* Once queued, a publish reaches the page and the record, or a person is asked
\* for what only a person can mend; an answer that did not come is never one of
\* those ("Retried with backoff, indefinitely").
AsksAPerson(j) ==
    journal[j] # None /\ journal[j].state = "attention" /\ journal[j].why \notin {"transient", "unanswered"}

PublishArrives ==
    \A p \in Publishes :
        journal[p] # None ~> \/ asked[p].runs \subseteq record.published
                             \/ AsksAPerson(p) \/ AsksAPerson(Create)
=============================================================================
