---------------------------- MODULE WorkerFleet ----------------------------
(***************************************************************************)
(* The Arc workers as the Supervisor process knows them: WorkerRegistry    *)
(* (memory), the worker_records table it is restored from,                 *)
(* HeartbeatService, AuthenticatedWorkerLifecycleService and the startup   *)
(* of supervisor/cli.py, which restores the records and then registers and *)
(* polls every configured worker before it serves.                         *)
(*                                                                         *)
(* The process has one thread.  `turn' is what that thread is doing with a *)
(* worker; each of its steps ends at a write to the SQLite store or at an  *)
(* answer of the worker, because there the write may fail, the worker may  *)
(* not answer, and the process may stop.  The worker itself is external:   *)
(* any answer its channel and its contract let through.                    *)
(***************************************************************************)
EXTENDS Naturals, Sequences

CONSTANTS
    Workers,        \* workers bound on the command line
    Bindings,       \* the same, in command-line order
    Heartbeats      \* heartbeats a worker can report

WorkerStates ==
    {"pending_registration", "registered", "healthy", "degraded", "offline",
     "quarantined", "revoked"}
Absent == "absent"
Lifecycles == WorkerStates
Healths == {"healthy", "degraded", "offline", "quarantined", "revoked"}

\* A heartbeat, by what the Supervisor tells apart: `fresh' is that its boot
\* is new or its sequence above the last one, `stale' an age over 180 s.
\* The contract ties the health a worker claims to its other reports.
Heartbeat ==
    {hb \in [lifecycle: Lifecycles, health: Healths, fresh: BOOLEAN, stale: BOOLEAN,
             guardian: {"reachable", "degraded", "unreachable"},
             evidence: {"healthy", "degraded", "failed"}] :
        /\ hb.evidence # "healthy" => hb.health \in {"degraded", "quarantined"}
        /\ hb.health = "healthy" => hb.guardian = "reachable"}

ASSUME FleetAssumption ==
    /\ Heartbeats \subseteq Heartbeat
    /\ Bindings \in Seq(Workers) \ {<<>>}
    /\ \A w \in Workers : \E i \in DOMAIN Bindings : Bindings[i] = w

VARIABLES
    registry,       \* WorkerRegistry._workers: worker -> state
    stored,         \* worker_records: worker -> state
    evidenced,      \* workers with a worker_registration event
    mode,           \* the process: down, starting or serving
    pending,        \* bindings the startup has not polled yet
    turn            \* what the thread is doing with a worker

fleet == <<registry, stored, evidenced, mode, pending, turn>>

Modes == {"down", "starting", "serving"}
Outcomes == {"ok", "state_error", "unavailable", "auth_failed", "invalid",
             "evidence_error"}
Turns == {"idle", "register", "persist_registration", "registration_event",
          "poll", "persist_heartbeat", "heartbeat_event", "polled"}
Turn == [at: Turns, worker: Workers, outcome: Outcomes]

ASSIGNABLE_STATES == {"registered", "healthy"}
Contained == {"quarantined", "revoked"}

Assignable(w) == registry[w] \in ASSIGNABLE_STATES

\* Mutated form: a quarantined worker may report its way out.
MayEnter_RevokedOnly(from, to) == from = "revoked" => to = "revoked"

\* Sticky states: what update_state and update_heartbeat refuse to leave.
MayEnter(from, to) ==
    /\ from = "revoked" => to = "revoked"
    /\ from = "quarantined" => to \in Contained

IdleTurn == [at |-> "idle", worker |-> Bindings[1], outcome |-> "ok"]
Goto(stage) == turn' = [turn EXCEPT !.at = stage]
Polled(outcome) == turn' = [turn EXCEPT !.at = "polled", !.outcome = outcome]

\* WorkerRegistry.update_state; quarantine is update_state to "quarantined".
update_state(w, state) ==
    /\ MayEnter(registry[w], state)
    /\ registry' = [registry EXCEPT ![w] = state]

FleetInit ==
    /\ registry = [w \in Workers |-> Absent]
    /\ stored = [w \in Workers |-> Absent]
    /\ evidenced = {}
    /\ mode = "down"
    /\ pending = <<>>
    /\ turn = IdleTurn

-----------------------------------------------------------------------------
\* supervisor/cli.py main: startup

\* The process is gone and its memory with it: an exception out of main, a
\* crash, or an operator's interrupt.
Exit ==
    /\ mode' = "down"
    /\ registry' = [w \in Workers |-> Absent]
    /\ pending' = <<>>
    /\ turn' = IdleTurn
    /\ UNCHANGED <<stored, evidenced>>

\* A binding is registered first if no record of its worker was restored.
Bind(w, known) ==
    turn' = [at |-> IF known[w] = Absent THEN "register" ELSE "poll",
             worker |-> w, outcome |-> "ok"]

\* lifecycle.restore().  A record without a binding stops the startup; the
\* bindings are the same at every start, so there is none.
start ==
    /\ mode = "down"
    /\ mode' = "starting"
    /\ registry' = stored
    /\ pending' = Tail(Bindings)
    /\ Bind(Head(Bindings), stored)
    /\ UNCHANGED <<stored, evidenced>>

\* The startup poll succeeded: the next binding, or serve.
poll_succeeded ==
    /\ mode = "starting"
    /\ turn.at = "polled" /\ turn.outcome = "ok"
    /\ IF pending = <<>>
       THEN mode' = "serving" /\ turn' = IdleTurn /\ UNCHANGED pending
       ELSE Bind(Head(pending), registry) /\ pending' = Tail(pending) /\ UNCHANGED mode
    /\ UNCHANGED <<registry, stored, evidenced>>

\* Any other outcome is an exception that main does not catch.
poll_failed ==
    /\ mode = "starting"
    /\ turn.at = "polled" /\ turn.outcome # "ok"
    /\ Exit

-----------------------------------------------------------------------------
\* AuthenticatedWorkerLifecycleService.register

register ==
    /\ turn.at = "register"
    /\ registry[turn.worker] = Absent
    /\ registry' = [registry EXCEPT ![turn.worker] = "registered"]
    /\ Goto("persist_registration")
    /\ UNCHANGED <<stored, evidenced, mode, pending>>

persist_registration ==
    /\ turn.at = "persist_registration"
    /\ stored' = [stored EXCEPT ![turn.worker] = registry[turn.worker]]
    /\ Goto("registration_event")
    /\ UNCHANGED <<registry, evidenced, mode, pending>>

append_registration_event ==
    /\ turn.at = "registration_event"
    /\ evidenced' = evidenced \cup {turn.worker}
    /\ Goto("poll")
    /\ UNCHANGED <<registry, stored, mode, pending>>

\* The worker does not answer, its answer is refused, or a write fails: the
\* quarantine the handler sets is lost with the process that main ends.
register_fails ==
    /\ turn.at \in {"register", "persist_registration", "registration_event"}
    /\ Exit

-----------------------------------------------------------------------------
\* AuthenticatedWorkerLifecycleService.heartbeat and HeartbeatService.accept

\* The state a heartbeat proposes: a worst state of either field, else the
\* lifecycle state.
Worst == {"quarantined", "revoked", "offline"}
Proposed(hb) ==
    IF hb.lifecycle \in Worst \/ hb.health \notin Worst THEN hb.lifecycle ELSE hb.health

Demoted(state, to) == IF MayEnter(state, to) THEN to ELSE state

\* What HeartbeatService.accept makes of a worker in `state', and whether it
\* returns or raises a WorkerStateError.
Accepted(state, hb) ==
    IF ~hb.fresh \/ ~MayEnter(state, Proposed(hb))
    THEN [state |-> state, ok |-> FALSE]
    ELSE IF hb.stale THEN [state |-> Demoted(Proposed(hb), "offline"), ok |-> FALSE]
    ELSE IF hb.guardian # "reachable" \/ hb.evidence = "failed"
    THEN [state |-> Demoted(Proposed(hb), "quarantined"), ok |-> FALSE]
    ELSE IF hb.evidence = "degraded"
    THEN [state |-> Demoted(Proposed(hb), "degraded"),
          ok |-> MayEnter(Proposed(hb), "degraded")]
    ELSE [state |-> Proposed(hb), ok |-> TRUE]

\* No answer, or one that fails channel verification (a failed reservation of
\* its message included), one the heartbeat contract refuses (a
\* ContractValidationError), or one _normalize_heartbeat refuses.
poll_rejected(outcome) ==
    /\ turn.at = "poll"
    /\ Polled(outcome)
    /\ UNCHANGED <<registry, stored, evidenced, mode, pending>>

accept(hb) ==
    /\ turn.at = "poll"
    /\ LET accepted == Accepted(registry[turn.worker], hb) IN
       /\ registry' = [registry EXCEPT ![turn.worker] = accepted.state]
       /\ turn' = [turn EXCEPT !.at = "persist_heartbeat",
                     !.outcome = IF accepted.ok THEN "ok" ELSE "state_error"]
    /\ UNCHANGED <<stored, evidenced, mode, pending>>

persist_heartbeat ==
    /\ turn.at = "persist_heartbeat"
    /\ stored' = [stored EXCEPT ![turn.worker] = registry[turn.worker]]
    /\ Goto("heartbeat_event")
    /\ UNCHANGED <<registry, evidenced, mode, pending>>

append_heartbeat_event ==
    /\ turn.at = "heartbeat_event"
    /\ Goto("polled")
    /\ UNCHANGED <<registry, stored, evidenced, mode, pending>>

\* A failed write quarantines the worker in memory; if the worker is revoked
\* that raises a WorkerStateError in place of the EvidenceWriteError.
heartbeat_write_fails ==
    /\ turn.at \in {"persist_heartbeat", "heartbeat_event"}
    /\ registry' = [registry EXCEPT ![turn.worker] = Demoted(@, "quarantined")]
    /\ Polled(IF MayEnter(registry[turn.worker], "quarantined")
              THEN "evidence_error" ELSE "state_error")
    /\ UNCHANGED <<stored, evidenced, mode, pending>>

-----------------------------------------------------------------------------
\* A step of the startup, the registration or the heartbeat in progress.
FleetStep ==
    \/ poll_succeeded
    \/ poll_failed
    \/ register
    \/ persist_registration
    \/ append_registration_event
    \/ register_fails
    \/ \E o \in {"unavailable", "auth_failed", "invalid", "state_error"} : poll_rejected(o)
    \/ \E hb \in Heartbeats : accept(hb)
    \/ persist_heartbeat
    \/ append_heartbeat_event
    \/ heartbeat_write_fails

FleetTypeOK ==
    /\ registry \in [Workers -> WorkerStates \cup {Absent}]
    /\ stored \in [Workers -> WorkerStates \cup {Absent}]
    /\ evidenced \subseteq Workers
    /\ mode \in Modes
    /\ pending \in Seq(Workers)
    /\ turn \in Turn
=============================================================================
