--------------------------- MODULE TrainingHarness ---------------------------
(***************************************************************************)
(* The operator's training and working harness: RuntimeHarness             *)
(* (operator_harness.py), OperatorIDEHarness (operator_ide.py) and the     *)
(* local model's drafts (training_model.py), over one durable store.       *)
(*                                                                         *)
(* Every request runs in a thread of the HTTP server.  Most hold the       *)
(* harness lock from their mode check to their evidence event, but each    *)
(* write is a transaction of its own, and what follows the release of the  *)
(* lock runs beside the other threads.  doing[t] is the step thread t      *)
(* takes next.                                                             *)
(***************************************************************************)
EXTENDS TaskOutcome, RegistrationWorkflow

CONSTANTS
    Threads, NoThread,   \* requests served at once; nobody holds the lock
    Tasks,               \* task references
    Denials,             \* sets of reason codes the governed path answers with
    Floor,               \* default_ladder()
    Configurable,        \* ladders an operator may configure, rungs unnumbered
    ScenarioCount,       \* scenarios of the practice curriculum, 25 in the code
    WorkingReady,        \* both execution opt-ins and a document root at startup
    MaxBuffers,          \* MAX_DOCUMENT_BUFFERS
    MaxRequests,         \* bound: requests of a behaviour
    MaxFaults            \* bound: failed writes and restarts

Read == "document_read"
List == "document_list"
Malformed == "arc_listing_malformed"

ASSUME ThreadsAssumption == NoThread \notin Threads
\* A deployment starts with a ladder it accepts.
ASSUME LaddersAssumption ==
    Floor \in Seq(Tiers) /\ LadderAccepted(Floor) /\ Configurable \subseteq Seq(Tiers)
\* The registry classifies no code of the harness's own.
ASSUME MalformedAssumption == DenialDisposition(Malformed) = "forbidden"
ASSUME BoundsAssumption ==
    /\ MaxBuffers \in Nat \ {0} /\ ScenarioCount \in Nat \ {0}
    /\ MaxRequests \in Nat /\ MaxFaults \in Nat

VARIABLES
    mode,                \* _mode: in memory, training after every start
    holder,              \* who holds the harness lock
    doing,               \* the step each thread takes next
    ladder, docs,        \* in memory: the ladder in force, document buffers
    gaps,                \* table sop_gaps: gap id -> record
    alone, short,        \* table harness_metrics
    routed,              \* governed_*_routed events
    setting,             \* table harness_settings: the ladder, or none
    practised,           \* table registration_practice_attempts
    reviewAsked,         \* registration_mock_review_requested events
    reviews,             \* table registration_mock_reviews
    decided, decidedEv,  \* decisions Arc recorded; events that say so
    requests, faults

memory == <<mode, ladder, docs>>
teaching == <<gaps, setting>>
counts == <<alone, short, routed>>
practice == <<practised, reviewAsked, reviews>>
decisions == <<decided, decidedEv>>
bounds == <<requests, faults>>
vars == <<memory, holder, doing, teaching, counts, practice, decisions, bounds>>

NoLadder == <<>>

Idle == [at |-> "idle"]
At(step) == [at |-> step]
IsAt(t, step) == doing[t].at = step
Goes(t, step) == doing' = [doing EXCEPT ![t] = step]

\* A gap's id is derived from what stopped, so the same shortfall is one gap.
GapIds == [task : Tasks, capability : {Read, List}, codes : Denials \cup {{}}]
GapId(task, cap, codes) == [task |-> task, capability |-> cap, codes |-> codes]
Gap(status, source, tier) == [status |-> status, source |-> source, tier |-> tier]

\* upsert_gap: the record replaces the one stored under its id.
UpsertGap(id, g) ==
    gaps' = [i \in DOMAIN gaps \cup {id} |-> IF i = id THEN g ELSE gaps[i]]

\* instruction_for: whether some gap of the task and capability carries one.
Instructed(task, cap) ==
    \E i \in DOMAIN gaps :
        i.task = task /\ i.capability = cap /\ gaps[i].status \in {"instructed", "retired"}

\* training_progress refuses to measure more distinct gaps than stopped attempts.
ProgressAccepted(distinct, stopped) == distinct <= stopped

\* What a start puts in force: the stored ladder, or the default.
LoadedLadder == IF setting = NoLadder THEN Floor ELSE Numbered(setting)

-----------------------------------------------------------------------------
\* A request that finds the lock free takes it and passes its mode check.
Enter(t, required) ==
    /\ holder = NoThread /\ doing[t] = Idle
    /\ mode = required
    /\ requests < MaxRequests
    /\ requests' = requests + 1
    /\ holder' = t
    /\ UNCHANGED faults

\* The last transaction under the lock is the evidence event.
Release(t, step) == holder' = NoThread /\ Goes(t, step) /\ UNCHANGED bounds
Keep(t, step) == Goes(t, step) /\ UNCHANGED <<holder, bounds>>

RecordEvent(t) ==
    /\ IsAt(t, "event")
    /\ Release(t, Idle)
    /\ UNCHANGED <<memory, teaching, counts, practice, decisions>>

(* Modes *)

SetMode(t, m) ==
    /\ m = "working" => WorkingReady
    /\ Enter(t, mode)
    /\ mode' = m
    /\ Goes(t, At("modeEvent"))
    /\ UNCHANGED <<ladder, docs, teaching, counts, practice, decisions>>

ModeRecorded(t) ==
    /\ IsAt(t, "modeEvent")
    /\ Release(t, At("modeReturn"))
    /\ UNCHANGED <<memory, teaching, counts, practice, decisions>>

\* The answer is read from _mode after the lock was given back.
ModeReturned(t) ==
    /\ IsAt(t, "modeReturn")
    /\ Keep(t, IF mode = "training" THEN At("clear") ELSE Idle)
    /\ UNCHANGED <<memory, teaching, counts, practice, decisions>>

ClearDocuments(t) ==
    /\ IsAt(t, "clear") /\ holder = NoThread
    /\ docs' = <<>>
    /\ Keep(t, Idle)
    /\ UNCHANGED <<mode, ladder, teaching, counts, practice, decisions>>

(* Governed reads and listings *)

\* The outcome is decided from the ladder and the instructions known while the
\* lock is held; content says whether there is a document to buffer.
Routed(t, task, cap, performed, codes, content) ==
    LET out == RouteTaskOutcome(AtTier(1), performed, codes, Instructed(task, cap), ladder)
    IN  /\ Enter(t, "working")
        /\ Goes(t, [at |-> IF out.gap THEN "gap" ELSE "metric",
                    id |-> GapId(task, cap, codes), tier |-> out.gapTier,
                    completed |-> out.status = "completed", content |-> content])
        /\ UNCHANGED <<memory, teaching, counts, practice, decisions>>

GovernedRead(t, task, performed, codes) ==
    Routed(t, task, Read, performed, codes, performed)

\* A listing the harness cannot use counts as not performed, under a code no
\* registry knows.
GovernedList(t, task, performed, malformed, codes) ==
    IF performed /\ malformed
    THEN Routed(t, task, List, FALSE, codes \cup {Malformed}, FALSE)
    ELSE Routed(t, task, List, performed, codes, FALSE)

StoreGap(t) ==
    /\ IsAt(t, "gap")
    /\ UpsertGap(doing[t].id, Gap("open", "escalation", doing[t].tier))
    /\ Keep(t, [doing[t] EXCEPT !.at = "metric"])
    /\ UNCHANGED <<memory, setting, counts, practice, decisions>>

\* Mutated form: a read that climbed is not counted as stopped short.
CountOutcome_ClimbsUncounted(t) ==
    /\ IsAt(t, "metric")
    /\ alone' = IF doing[t].completed THEN alone + 1 ELSE alone
    /\ short' = IF doing[t].completed \/ doing[t].tier # NoTier THEN short ELSE short + 1
    /\ Keep(t, [doing[t] EXCEPT !.at = "routed"])
    /\ UNCHANGED <<memory, teaching, routed, practice, decisions>>

CountOutcome(t) ==
    /\ IsAt(t, "metric")
    /\ alone' = IF doing[t].completed THEN alone + 1 ELSE alone
    /\ short' = IF doing[t].completed THEN short ELSE short + 1
    /\ Keep(t, [doing[t] EXCEPT !.at = "routed"])
    /\ UNCHANGED <<memory, teaching, routed, practice, decisions>>

RecordRouted(t) ==
    /\ IsAt(t, "routed")
    /\ routed' = routed + 1
    /\ Release(t, IF doing[t].content THEN At("buffer") ELSE Idle)
    /\ UNCHANGED <<memory, teaching, alone, short, practice, decisions>>

\* Mutated form: no buffer is ever evicted.
BufferDocument_NoEviction(t) ==
    /\ IsAt(t, "buffer") /\ holder = NoThread
    /\ docs' = Append(docs, t)
    /\ Keep(t, Idle)
    /\ UNCHANGED <<mode, ladder, teaching, counts, practice, decisions>>

\* The content is buffered under a second hold of the lock, and its first page
\* cut from it afterwards; the oldest buffer goes when there are too many.
\* A buffer is named here for the thread that filled it.
BufferDocument(t) ==
    LET all == Append(docs, t) IN
    /\ IsAt(t, "buffer") /\ holder = NoThread
    /\ docs' = SubSeq(all, IF Len(all) > MaxBuffers THEN 2 ELSE 1, Len(all))
    /\ Keep(t, Idle)
    /\ UNCHANGED <<mode, ladder, teaching, counts, practice, decisions>>

\* document_page: a page of a buffered document, with its event.
DocumentPage(t) ==
    /\ Enter(t, "working") /\ docs # <<>>
    /\ Goes(t, At("event"))
    /\ UNCHANGED <<memory, teaching, counts, practice, decisions>>

\* refresh_office_workers and read_office_evidence: one call to the Supervisor
\* under the lock, in either mode, and its event.  The copy of the answer kept
\* for display is left out.
OfficeCall(t) ==
    /\ Enter(t, mode)
    /\ Goes(t, At("event"))
    /\ UNCHANGED <<memory, teaching, counts, practice, decisions>>

(* Instructions and the ladder *)

\* teach: SOP written ahead of any failure, under an id without reason codes.
Teach(t, task) ==
    /\ Enter(t, "training")
    /\ Goes(t, [at |-> "instruct", id |-> GapId(task, Read, {}),
                record |-> Gap("instructed", "operator_authored", NoTier)])
    /\ UNCHANGED <<memory, teaching, counts, practice, decisions>>

\* resolve_gap: only an open gap takes an instruction.
ResolveGap(t, id) ==
    /\ Enter(t, "training")
    /\ id \in DOMAIN gaps /\ gaps[id].status = "open"
    /\ Goes(t, [at |-> "instruct", id |-> id,
                record |-> [gaps[id] EXCEPT !.status = "instructed"]])
    /\ UNCHANGED <<memory, teaching, counts, practice, decisions>>

StoreInstruction(t) ==
    /\ IsAt(t, "instruct")
    /\ UpsertGap(doing[t].id, doing[t].record)
    /\ Keep(t, At("event"))
    /\ UNCHANGED <<memory, setting, counts, practice, decisions>>

\* Mutated form: the ladder is in force before it is stored.
ConfigureLadder_InForceFirst(t, raw) ==
    /\ Enter(t, "training")
    /\ LadderAccepted(Numbered(raw))
    /\ ladder' = Numbered(raw)
    /\ Goes(t, [at |-> "save", to |-> Numbered(raw)])
    /\ UNCHANGED <<mode, docs, teaching, counts, practice, decisions>>

\* configure_ladder: a refused ladder changes nothing; an accepted one is
\* stored first and then put in force.
ConfigureLadder(t, raw) ==
    /\ Enter(t, "training")
    /\ LadderAccepted(Numbered(raw))
    /\ Goes(t, [at |-> "save", to |-> Numbered(raw)])
    /\ UNCHANGED <<memory, teaching, counts, practice, decisions>>

SaveLadder(t) ==
    /\ IsAt(t, "save")
    /\ setting' = Rendered(doing[t].to)
    /\ ladder' = doing[t].to
    /\ Keep(t, At("event"))
    /\ UNCHANGED <<mode, docs, gaps, counts, practice, decisions>>

(* Registration practice *)

\* The scenarios still to be recorded: one, or the whole suite in its order.
RunPractice(t, scenarios, suite) ==
    /\ Enter(t, "training")
    /\ Goes(t, [at |-> "practise", left |-> scenarios, suite |-> suite])
    /\ UNCHANGED <<memory, teaching, counts, practice, decisions>>

\* What is kept of an attempt: the form itself is shown and forgotten.
Summary(scenario) ==
    [scenario |-> scenario, passed |-> Passed(scenario), issues |-> Issues(scenario)]

\* An attempt and its event are one transaction; the suite's event comes last.
RecordAttempt(t) ==
    LET left == Tail(doing[t].left) IN
    /\ IsAt(t, "practise")
    /\ practised' = Append(practised, Summary(Head(doing[t].left)))
    /\ IF left # <<>> THEN Keep(t, [doing[t] EXCEPT !.left = left])
       ELSE IF doing[t].suite THEN Keep(t, At("event"))
       ELSE Release(t, Idle)
    /\ UNCHANGED <<memory, teaching, counts, reviewAsked, reviews, decisions>>

Reviewed(a) == a \in DOMAIN reviews

\* Mutated form: an attempt that was reviewed can be reviewed again.
AskReview_Again(t, a, approved) ==
    /\ Enter(t, "training")
    /\ a \in 1..Len(practised)
    /\ Goes(t, [at |-> "ask", attempt |-> a, approved |-> approved])
    /\ UNCHANGED <<memory, teaching, counts, practice, decisions>>

\* review_registration_practice: the request event is written before Guardian
\* is asked, so that the decision can name it.
AskReview(t, a, approved) ==
    /\ Enter(t, "training")
    /\ a \in 1..Len(practised) /\ ~Reviewed(a)
    /\ Goes(t, [at |-> "ask", attempt |-> a, approved |-> approved])
    /\ UNCHANGED <<memory, teaching, counts, practice, decisions>>

ReviewAsked(t) ==
    /\ IsAt(t, "ask")
    /\ reviewAsked' = reviewAsked \cup {doing[t].attempt}
    /\ Keep(t, [doing[t] EXCEPT !.at = "review"])
    /\ UNCHANGED <<memory, teaching, counts, practised, reviews, decisions>>

\* Guardian allows the mock submission of an approved attempt only when no
\* field is left to a person.
ReviewOutcome(a, approved) ==
    IF ~approved THEN "operator_rejected"
    ELSE IF practised[a].issues # {} THEN "blocked" ELSE "mock_submitted"

\* registration_mock_reviews holds one row per attempt (UNIQUE, operator_ide.py:168);
\* a second row would raise.  That is left out: the question asked under the lock
\* is to suffice without it.
RecordReview(t) ==
    LET a == doing[t].attempt IN
    /\ IsAt(t, "review")
    /\ reviews' = [i \in DOMAIN reviews \cup {a} |->
            IF i = a THEN ReviewOutcome(a, doing[t].approved) ELSE reviews[i]]
    /\ Release(t, Idle)
    /\ UNCHANGED <<memory, teaching, counts, practised, reviewAsked, decisions>>

(* Approval decisions and drafts *)

\* Mutated form: the event is written before Arc was asked.
DecideApproval_EventFirst(t) ==
    /\ Enter(t, "working")
    /\ decidedEv' = decidedEv + 1
    /\ Goes(t, At("decision"))
    /\ UNCHANGED <<memory, teaching, counts, practice, decided>>

\* Arc records the decision (external) before the harness records its event.
DecideApproval(t) ==
    /\ Enter(t, "working")
    /\ decided' = decided + 1
    /\ Goes(t, At("decision"))
    /\ UNCHANGED <<memory, teaching, counts, practice, decidedEv>>

DecisionRecorded(t) ==
    /\ IsAt(t, "decision")
    /\ decidedEv' = decidedEv + 1
    /\ Release(t, Idle)
    /\ UNCHANGED <<memory, teaching, counts, practice, decided>>

\* draft_training checks the mode without the lock; the model drafts beside
\* whatever the other threads do, and the draft is never saved.
DraftTraining(t) ==
    /\ doing[t] = Idle /\ mode = "training"
    /\ requests < MaxRequests
    /\ requests' = requests + 1
    /\ Goes(t, At("draft"))
    /\ UNCHANGED <<memory, holder, faults, teaching, counts, practice, decisions>>

\* Guardian, LIMA and the grant's single use: refused, or one grant is spent.
DraftGranted(t) ==
    /\ IsAt(t, "draft")
    /\ \E next \in {"idle", "drafting"} : Keep(t, At(next))
    /\ UNCHANGED <<memory, teaching, counts, practice, decisions>>

\* The model answers, unusably or with a draft, in whatever mode it is by then.
DraftReturned(t) ==
    /\ IsAt(t, "drafting")
    /\ \E next \in {"idle", "draftEvent"} : Keep(t, At(next))
    /\ UNCHANGED <<memory, teaching, counts, practice, decisions>>

DraftRecorded(t) ==
    /\ IsAt(t, "draftEvent")
    /\ Keep(t, Idle)
    /\ UNCHANGED <<memory, teaching, counts, practice, decisions>>

(* Faults *)

\* Mutated form: an exception leaves the lock held.
WriteFails_LockHeld(t) ==
    /\ holder = t
    /\ faults < MaxFaults
    /\ faults' = faults + 1
    /\ Goes(t, Idle)
    /\ UNCHANGED <<holder, memory, teaching, counts, practice, decisions, requests>>

\* A transaction fails: the exception leaves the lock and ends the request;
\* what was written before it, in the store or in memory, stays.
WriteFails(t) ==
    /\ holder = t
    /\ faults < MaxFaults
    /\ faults' = faults + 1
    /\ holder' = NoThread
    /\ Goes(t, Idle)
    /\ UNCHANGED <<memory, teaching, counts, practice, decisions, requests>>

\* The process stops and starts: the store is kept, the mode is training.
Restart ==
    /\ faults < MaxFaults
    /\ faults' = faults + 1
    /\ mode' = "training" /\ docs' = <<>> /\ ladder' = LoadedLadder
    /\ holder' = NoThread
    /\ doing' = [t \in Threads |-> Idle]
    /\ UNCHANGED <<teaching, counts, practice, decisions, requests>>

-----------------------------------------------------------------------------

Init ==
    /\ mode = "training" /\ holder = NoThread
    /\ doing = [t \in Threads |-> Idle]
    /\ ladder = Floor /\ docs = <<>>
    /\ gaps = <<>> /\ setting = NoLadder
    /\ alone = 0 /\ short = 0 /\ routed = 0
    /\ practised = <<>> /\ reviewAsked = {} /\ reviews = <<>>
    /\ decided = 0 /\ decidedEv = 0
    /\ requests = 0 /\ faults = 0

Request(t) ==
    \/ \E m \in {"training", "working"} : SetMode(t, m)
    \/ \E task \in Tasks, p \in BOOLEAN, codes \in Denials \cup {{}} :
            GovernedRead(t, task, p, codes)
    \/ \E task \in Tasks, p, malformed \in BOOLEAN, codes \in Denials \cup {{}} :
            GovernedList(t, task, p, malformed, codes)
    \/ OfficeCall(t)
    \/ DocumentPage(t)
    \/ \E task \in Tasks : Teach(t, task)
    \/ \E id \in DOMAIN gaps : ResolveGap(t, id)
    \/ \E raw \in Configurable : ConfigureLadder(t, raw)
    \/ \E i \in 1..ScenarioCount : RunPractice(t, <<i>>, FALSE)
    \/ RunPractice(t, Suite(ScenarioCount), TRUE)
    \/ \E a \in 1..Len(practised), approved \in BOOLEAN : AskReview(t, a, approved)
    \/ DecideApproval(t)
    \/ DraftTraining(t)

Step(t) ==
    \/ ModeRecorded(t)
    \/ ModeReturned(t)
    \/ ClearDocuments(t)
    \/ StoreGap(t)
    \/ CountOutcome(t)
    \/ RecordRouted(t)
    \/ BufferDocument(t)
    \/ StoreInstruction(t)
    \/ SaveLadder(t)
    \/ RecordAttempt(t)
    \/ ReviewAsked(t)
    \/ RecordReview(t)
    \/ DecisionRecorded(t)
    \/ DraftGranted(t)
    \/ DraftReturned(t)
    \/ DraftRecorded(t)
    \/ RecordEvent(t)

Next ==
    \/ \E t \in Threads : Request(t) \/ Step(t) \/ WriteFails(t)
    \/ Restart

\* A request is served to its end; new ones and faults need not come.
Spec == Init /\ [][Next]_vars /\ \A t \in Threads : WF_vars(Step(t))

-----------------------------------------------------------------------------

Observed == {id \in DOMAIN gaps : gaps[id].source = "escalation"}

TypeOK ==
    /\ mode \in {"training", "working"}
    /\ holder \in Threads \cup {NoThread}
    /\ \A t \in Threads : doing[t].at \in
            {"idle", "event", "modeEvent", "modeReturn", "clear", "gap", "metric",
             "routed", "buffer", "instruct", "save", "practise", "ask", "review",
             "decision", "draft", "drafting", "draftEvent"}
    /\ ladder \in Seq(Tiers) /\ setting \in Seq(Tiers)
    /\ docs \in Seq(Threads) /\ Len(docs) <= MaxBuffers
    /\ DOMAIN gaps \subseteq GapIds
    /\ \A id \in DOMAIN gaps :
            /\ gaps[id].status \in {"open", "instructed", "retired"}
            /\ gaps[id].source \in {"escalation", "operator_authored"}
            /\ gaps[id].tier \in Nat
    /\ <<alone, short, routed, decided, decidedEv>> \in Nat \X Nat \X Nat \X Nat \X Nat
    /\ DOMAIN reviews \subseteq 1..Len(practised) /\ reviewAsked \subseteq 1..Len(practised)

\* training_progress refuses a store with more distinct observed gaps than
\* stopped attempts ("every gap came from at least one occurrence").  A read
\* writes its gap before its metric: only reads that failed in between leave
\* the store short, by at most one each.
ProgressComputable ==
    holder = NoThread => ProgressAccepted(Cardinality(Observed), short + faults)

\* The ladder that routes is the one a restart would load, whatever write of
\* its configuration failed, and it can always end with a person.
LadderSurvivesRestart ==
    ladder = LoadedLadder /\ LadderAccepted(ladder)

\* A human review of an attempt is final, and its attempt stays what was
\* reviewed.
ReviewsAreFinal ==
    [][\A a \in DOMAIN reviews :
            a \in DOMAIN reviews' /\ reviews'[a] = reviews[a]
            /\ practised'[a] = practised[a]]_vars

\* The harness never evidences an approval decision Arc did not record, and
\* loses the evidence of one only to a fault.
DecisionsEvidenced ==
    /\ decidedEv <= decided
    /\ holder = NoThread => decided <= decidedEv + faults

\* A gap that was instructed keeps its instruction: "a gap is open until
\* someone writes the instruction that closes it".
InstructionKept ==
    [][\A id \in DOMAIN gaps :
            gaps[id].status = "instructed" => gaps'[id].status # "open"]_vars

\* Every request ends: no thread waits for ever for the lock it needs again.
RequestsEnd == \A t \in Threads : doing[t] # Idle ~> doing[t] = Idle
=============================================================================
