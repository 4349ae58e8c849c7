---------------------------- MODULE MockLifecycles ----------------------------
(***************************************************************************)
(* The worker and the task lifecycle simulators                            *)
(* (worker_lifecycle_simulator.py, task_lifecycle_simulator.py) over one   *)
(* worker and one task.  Both are tables of transitions behind checks of   *)
(* the payload.  Neither sees the other: the caller hands the task         *)
(* simulator whatever metadata of a worker it has, an old copy included.   *)
(* A refused call raises and changes nothing; an update that keeps the     *)
(* state changes no variable here.                                         *)
(***************************************************************************)
EXTENDS GuardianReplay, Sequences, SequencesExt

CONSTANTS
    TaskPayloads,     \* task.execution payloads of the task, but for their status
    TaskDecisions,    \* guardian.decision payloads
    TokenSets,
    MaxMoves          \* bound on the moves of a worker and of a task

VARIABLES
    workerMoves,    \* states of the worker, without repetitions
    task,           \* _current: the latest payload of the task
    taskMoves       \* states of the task, without repetitions

taskVars == <<task, taskMoves>>
mockVars == <<workerMoves, task, taskMoves>>

NoTask == [kind |-> "none"]

WORKER_TRANSITIONS ==
    [provisioned |-> {"enrolled"},
     enrolled |-> {"active", "retired"},
     active |-> {"degraded", "quarantined", "revoked", "retired"},
     degraded |-> {"active", "quarantined", "revoked", "retired"},
     quarantined |-> {"reenrollment_pending", "revoked", "retired"},
     reenrollment_pending |-> {"enrolled", "revoked", "retired"},
     revoked |-> {"retired"},
     retired |-> {}]

TASK_TRANSITIONS ==
    [task_created |-> {"classified", "blocked", "denied", "cancelled"},
     classified |-> {"needs_approval", "assigned_to_worker", "blocked", "denied", "cancelled"},
     needs_approval |-> {"assigned_to_worker", "denied", "timed_out", "cancelled"},
     assigned_to_worker |-> {"accepted", "rejected", "blocked", "denied", "cancelled"},
     accepted |-> {"in_progress", "blocked", "denied", "cancelled"},
     rejected |-> {"assigned_to_worker", "denied", "cancelled"},
     in_progress |->
        {"draft_ready", "completed_mock", "blocked", "failed", "blocked_evidence_unavailable"},
     draft_ready |-> {"completed_mock", "blocked", "failed", "denied"},
     completed_mock |-> {"evidence_recorded"},
     blocked_evidence_unavailable |-> {"blocked", "denied", "cancelled"},
     blocked |-> {"needs_approval", "denied", "cancelled"},
     failed |-> {"cancelled"},
     timed_out |-> {"cancelled"},
     denied |-> {}, evidence_recorded |-> {}, cancelled |-> {}]

WORKER_REQUIRED_STATES == {"assigned_to_worker", "accepted", "in_progress", "draft_ready"}
COMPLETION_STATES == {"completed_mock", "evidence_recorded"}
EXECUTABLE_STATES == WORKER_REQUIRED_STATES \cup COMPLETION_STATES

MockInit ==
    /\ workerMoves = <<>>
    /\ task = NoTask /\ taskMoves = <<>>

----------------------------------------------------------------------------

\* A worker is registered in any state, in the active one if its metadata is safe.
register_worker(state, safe) ==
    /\ workerMoves = <<>>
    /\ state = "active" => safe
    /\ workerMoves' = <<state>>

\* Mutated form: one re-enrolment opens the gate for good.
GateOpen_Once ==
    (\E n \in DOMAIN workerMoves : workerMoves[n] = "quarantined") =>
        \E n \in DOMAIN workerMoves : workerMoves[n] = "reenrollment_pending"

\* _ensure_reenrollment_gate: a worker that was ever quarantined becomes active
\* only as the very next move of its re-enrolment.
GateOpen ==
    (\E n \in DOMAIN workerMoves : workerMoves[n] = "quarantined") =>
        /\ Len(workerMoves) > 2
        /\ SubSeq(workerMoves, Len(workerMoves) - 2, Len(workerMoves)) =
               <<"quarantined", "reenrollment_pending", "enrolled">>

transition_worker(to, safe) ==
    /\ workerMoves # <<>> /\ Len(workerMoves) < MaxMoves
    /\ to \in WORKER_TRANSITIONS[Last(workerMoves)]
    /\ to = "active" => safe /\ GateOpen
    /\ workerMoves' = Append(workerMoves, to)

----------------------------------------------------------------------------

\* _is_blocked_mvp_posture, _is_prohibited_action_class,
\* _has_prohibited_allowed_actions and the blocked execution modes.
Executable(t) == ~t.prohibited

\* _ensure_worker_ready: copy is the worker's state in the metadata the
\* caller brought.
WorkerReady(t, copy) == t.assigned /\ copy \in {"active", "enrolled"}

\* _enforce_state_safety; copies, decisions, tokens and bindings are what the
\* caller brought, {} for nothing.
StateSafe(t, state, copies, decisions, tokens, bindings) ==
    /\ state \in EXECUTABLE_STATES =>
        /\ Executable(t)
        /\ \E d \in decisions : ReplaySafe(d, ActionOf(t, d), {})
        /\ t.approval => bindings # {} /\ TokenAuthorizes(t, tokens, bindings)
    /\ state \in WORKER_REQUIRED_STATES => \E c \in copies : WorkerReady(t, c)
    /\ state \in COMPLETION_STATES => t.evidence # {}

\* register brings no worker and no decision, so no executable state.
register_task(t, state) ==
    /\ task = NoTask
    /\ StateSafe(t, state, {}, {}, {}, {})
    /\ task' = t /\ taskMoves' = <<state>>

\* Mutated form: a blocked task may be resumed where it stopped.
TaskMayMove_Resumed(from, to) ==
    to \in TASK_TRANSITIONS[from] \cup (IF from = "blocked" THEN {"in_progress"} ELSE {})

TaskMayMove(from, to) == to \in TASK_TRANSITIONS[from]

\* Every transition brings the whole payload anew.
transition_task(t, to, copies, decisions, tokens, bindings) ==
    /\ task # NoTask /\ Len(taskMoves) < MaxMoves
    /\ t.tenant = task.tenant
    /\ TaskMayMove(Last(taskMoves), to)
    /\ StateSafe(t, to, copies, decisions, tokens, bindings)
    /\ task' = t
    /\ taskMoves' = Append(taskMoves, to)

WorkerNext ==
    \E s \in DOMAIN WORKER_TRANSITIONS, safe \in BOOLEAN :
        register_worker(s, safe) \/ transition_worker(s, safe)

TaskNext ==
    \E t \in TaskPayloads, s \in DOMAIN TASK_TRANSITIONS :
        \/ register_task(t, s)
        \/ \E copies \in Brought(DOMAIN WORKER_TRANSITIONS), decisions \in Brought(TaskDecisions),
              tokens \in TokenSets, bindings \in BindingSets :
                transition_task(t, s, copies, decisions, tokens, bindings)

----------------------------------------------------------------------------

\* A re-enrolment is spent by the one return it led to: each time a worker that
\* was ever quarantined becomes active, it was re-enrolled since that quarantine
\* and since it was last active.  The history, not the state, decides, so a
\* returned worker that degrades does not come back as others do.
ReturnsReenrolled ==
    \A n \in DOMAIN workerMoves : workerMoves[n] = "active" =>
        \A q \in 1..n : workerMoves[q] = "quarantined" =>
            \E p \in q..n :
                /\ workerMoves[p] = "reenrollment_pending"
                /\ \A m \in p..(n - 1) : workerMoves[m] # "active"

\* Completed work was assigned, accepted and begun since it last stood still: a
\* task that was blocked, rejected, refused evidence or sent for approval
\* reaches completion only through a new assignment.
CompletedWorkWasAssigned ==
    \A n \in DOMAIN taskMoves : taskMoves[n] = "completed_mock" =>
        \E a, b, c \in 1..n :
            /\ a < b /\ b < c
            /\ taskMoves[a] = "assigned_to_worker" /\ taskMoves[b] = "accepted"
            /\ taskMoves[c] = "in_progress"
            /\ \A m \in a..n : taskMoves[m] \notin {"blocked", "rejected", "needs_approval",
                                                    "blocked_evidence_unavailable"}
=============================================================================
