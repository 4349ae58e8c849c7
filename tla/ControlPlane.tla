---------------------------- MODULE ControlPlane ----------------------------
(***************************************************************************)
(* SupervisorControlPlane: the governed path of one operator request, from *)
(* its reservation in the SQLite store to an assignment preview and its    *)
(* acknowledgement, over the workers of WorkerFleet.  The operator server  *)
(* is single-threaded and the path is synchronous, so one request is in    *)
(* flight; but each write of the path is a transaction of its own that may *)
(* fail, Guardian, LIMA and the worker may answer anything their contracts *)
(* let through, and the process may stop between any two steps.            *)
(*                                                                         *)
(* `trail' is the control_plane_events table by request id.  An event      *)
(* keeps its parent_event_id as the index of that event in the trail.      *)
(***************************************************************************)
EXTENDS WorkerFleet

CONSTANTS
    Submissions,        \* operator requests
    Batches,            \* what one call carries: a request, or one per worker
    Capabilities,       \* worker -> capabilities it registered
    Grants,             \* execution grant identities LIMA can issue
    execution_opt_in,   \* the deployment's opt-in
    MaxCalls            \* bound: operator calls handled

NoId == "no request"
Ids == {s.id : s \in Submissions}
Keys == {s.key : s \in Submissions}

\* A submission's capability is the one its action maps to: executable under a
\* grant, preview only, or none.
ArcCapabilities == {"executable", "preview"}

ASSUME ControlPlaneAssumption ==
    /\ Submissions # {}
    /\ \A s \in Submissions :
          /\ s = [id |-> s.id, key |-> s.key, worker |-> s.worker,
                  capability |-> s.capability, permitted |-> s.permitted]
          /\ s.worker \in Workers
          /\ s.capability \in ArcCapabilities \cup {"none"}
          /\ s.permitted \in BOOLEAN
    /\ NoId \notin Ids \cup Keys
    /\ Batches \subseteq Seq(Submissions) \ {<<>>}
    /\ \A b \in Batches : \A m, n \in DOMAIN b : b[m].worker = b[n].worker => m = n
    /\ Capabilities \in [Workers -> SUBSET ArcCapabilities]
    /\ execution_opt_in \in BOOLEAN
    /\ MaxCalls \in Nat

VARIABLES
    reserved,       \* control_plane_requests rows
    trail,          \* control_plane_events, by request id
    consumed,       \* execution_grant_consumptions rows
    released,       \* grants that left in a response, with the request's id
    governed,       \* _last_governed_call: its request id, or NoId
    call,           \* the submit() in progress
    handled         \* operator calls begun

vars == <<registry, stored, evidenced, mode, pending, turn,
          reserved, trail, consumed, released, governed, call, handled>>
plane == <<reserved, trail, consumed, released, governed, call, handled>>

GuardianDecisions == {"allow", "requires_approval", "deny"}
LimaStatuses == {"allowed_dry_run", "confirm_required", "privileged_required", "denied"}
EventTypes ==
    {"replay_rejected", "request_received", "guardian_request", "guardian_decision",
     "lima_decision", "denial", "failure", "approval_requested", "worker_heartbeat",
     "execution_grant_issued", "assignment_preview", "worker_acknowledgement"}
EventOutcomes ==
    LimaStatuses \cup {"received", "failed_closed", "blocked", "acknowledged", "rejected"}
ControlEvent == [type: EventTypes, outcome: EventOutcomes, parent: Nat]

Grant == [id: Grants, worker: Workers, request: Ids]

Stages == {"idle", "reserve", "replayed", "admit", "ask", "guardian", "lima",
           "lima_failed", "lima_event", "route", "refresh", "demote_refresh",
           "refreshed", "eligible", "mint", "grant_event", "offer", "acknowledge",
           "demote_answer", "answered", "blocked"}
Call == [at: Stages, sub: Submissions, rest: Seq(Submissions), parent: Nat,
         guardian: GuardianDecisions, lima: LimaStatuses, grant: SUBSET Grant,
         outcome: EventOutcomes]

\* The submit() of the first submission of a batch, before its first step.
Begin(batch) ==
    [at |-> "reserve", sub |-> Head(batch), rest |-> Tail(batch), parent |-> 0,
     guardian |-> "deny", lima |-> "denied", grant |-> {}, outcome |-> "denied"]
NoCall == [Begin(<<CHOOSE s \in Submissions : TRUE>>) EXCEPT !.at = "idle"]

PlaneInit ==
    /\ reserved = {}
    /\ trail = [i \in Ids |-> <<>>]
    /\ consumed = {}
    /\ released = {}
    /\ governed = NoId
    /\ call = NoCall
    /\ handled = 0

-----------------------------------------------------------------------------
At(stage) == call.at = stage
Now(stage) == call' = [call EXCEPT !.at = stage]
Id == call.sub.id
Worker == call.sub.worker

\* submit() returned: the next submission of submit_many, or the response.
Returned == call' = IF call.rest = <<>> THEN NoCall ELSE Begin(call.rest)

\* SQLiteEvidenceStore.append_event
append_event(type, outcome, parent) ==
    trail' = [trail EXCEPT ![Id] =
                Append(@, [type |-> type, outcome |-> outcome, parent |-> parent])]

\* An event that becomes the parent of the next one.
append_and_go(type, outcome, stage) ==
    /\ append_event(type, outcome, call.parent)
    /\ call' = [call EXCEPT !.at = stage, !.parent = Len(trail[Id]) + 1]

\* An event that ends the submission.
append_and_return(type, outcome, parent) ==
    /\ append_event(type, outcome, parent)
    /\ Returned

\* Mutated form: the parent the caller holds, which misses a failed refresh.
latest_event_id_OfCaller == call.parent

latest_event_id == Len(trail[Id])

-----------------------------------------------------------------------------
\* OperatorControlPlaneService.handle, handle_inventory: one authenticated call
operator_call(batch) ==
    /\ mode = "serving" /\ At("idle") /\ handled < MaxCalls
    /\ handled' = handled + 1
    /\ call' = Begin(batch)
    /\ UNCHANGED <<fleet, reserved, trail, consumed, released, governed>>

\* Mutated form: only the request id is unique.
Reservable_IdOnly(s) == \A r \in reserved : r.id # s.id

\* request_id PRIMARY KEY, UNIQUE (tenant_id, idempotency_key); the payload hash
\* is a digest of both and of what is asked.
Reservable(s) == \A r \in reserved : r.id # s.id /\ r.key # s.key

reserve_request ==
    /\ At("reserve")
    /\ IF Reservable(call.sub)
       THEN reserved' = reserved \cup {call.sub} /\ Now("admit")
       ELSE Now("replayed") /\ UNCHANGED reserved
    /\ UNCHANGED <<fleet, trail, consumed, released, governed, handled>>

\* Mutated form: a replay is recorded as a denial of the request.
reject_replay_AsDenial ==
    /\ At("replayed")
    /\ append_and_return("denial", "denied", 0)
    /\ UNCHANGED <<fleet, reserved, consumed, released, governed, handled>>

reject_replay ==
    /\ At("replayed")
    /\ append_and_return("replay_rejected", "denied", 0)
    /\ UNCHANGED <<fleet, reserved, consumed, released, governed, handled>>

admit ==
    /\ At("admit")
    /\ IF call.sub.permitted
       THEN append_and_go("request_received", "received", "ask")
       ELSE append_and_return("denial", "denied", 0)
    /\ UNCHANGED <<fleet, reserved, consumed, released, governed, handled>>

request_guardian ==
    /\ At("ask")
    /\ append_and_go("guardian_request", "received", "guardian")
    /\ UNCHANGED <<fleet, reserved, consumed, released, governed, handled>>

-----------------------------------------------------------------------------
\* Guardian and LIMA

guardian_outcome(decision) ==
    CASE decision = "allow" -> "allowed_dry_run"
      [] decision = "requires_approval" -> "confirm_required"
      [] decision = "deny" -> "denied"

\* A decision bound to the request and not expired.
guardian_decides(decision) ==
    /\ At("guardian")
    /\ append_event("guardian_decision", guardian_outcome(decision), call.parent)
    /\ call' = [call EXCEPT !.at = "lima", !.parent = Len(trail[Id]) + 1,
                            !.guardian = decision]
    /\ UNCHANGED <<fleet, reserved, consumed, released, governed, handled>>

\* No answer, or a decision that fails its contract, binding or expiry.
guardian_unavailable ==
    /\ At("guardian")
    /\ append_and_return("denial", "denied", call.parent)
    /\ UNCHANGED <<fleet, reserved, consumed, released, governed, handled>>

run_lima(decision) ==
    /\ At("lima")
    /\ governed' = Id
    /\ call' = [call EXCEPT !.at = "lima_event", !.lima = decision]
    /\ UNCHANGED <<fleet, reserved, trail, consumed, released, handled>>

run_lima_fails ==
    /\ At("lima")
    /\ governed' = NoId
    /\ Now("lima_failed")
    /\ UNCHANGED <<fleet, reserved, trail, consumed, released, handled>>

fail_closed ==
    /\ At("lima_failed")
    /\ append_and_return("failure", "failed_closed", call.parent)
    /\ UNCHANGED <<fleet, reserved, consumed, released, governed, handled>>

append_lima_event ==
    /\ At("lima_event")
    /\ append_and_go("lima_decision", call.lima, "route")
    /\ UNCHANGED <<fleet, reserved, consumed, released, governed, handled>>

\* Mutated form: with an approval requirement LIMA's status decides alone.
combined_status_LimaDecides(guardian, lima) ==
    IF guardian = "deny" THEN "denied" ELSE lima

combined_status(guardian, lima) ==
    CASE guardian = "deny" -> "denied"
      [] guardian = "requires_approval" ->
            IF lima \in {"confirm_required", "privileged_required"}
            THEN lima ELSE "confirm_required"
      [] guardian = "allow" -> IF lima = "allowed_dry_run" THEN lima ELSE "denied"

Status == combined_status(call.guardian, call.lima)

stop_before_assignment ==
    /\ At("route") /\ Status # "allowed_dry_run"
    /\ append_and_return(IF Status = "denied" THEN "denial" ELSE "approval_requested",
                         Status, call.parent)
    /\ UNCHANGED <<fleet, reserved, consumed, released, governed, handled>>

-----------------------------------------------------------------------------
\* _route_assignment, _refresh_worker_health

route_assignment ==
    /\ At("route") /\ Status = "allowed_dry_run"
    /\ IF call.sub.capability # "none" /\ Assignable(Worker)
       THEN /\ Now("refresh")
            /\ turn' = [at |-> "poll", worker |-> Worker, outcome |-> "ok"]
       ELSE Now("blocked") /\ UNCHANGED turn
    /\ UNCHANGED <<registry, stored, evidenced, mode, pending,
                   reserved, trail, consumed, released, governed, handled>>

Refresher(outcome) ==
    /\ At("refresh") /\ turn.at = "polled" /\ turn.outcome = outcome
    /\ turn' = IdleTurn
    /\ UNCHANGED <<stored, evidenced, mode, pending,
                   reserved, trail, consumed, released, governed, handled>>

\* Mutated form: the event is to carry the refresher's own outcome.
refresher_returns_OwnOutcome(outcome) ==
    /\ Refresher(outcome)
    /\ call' = [call EXCEPT !.at = "refreshed", !.outcome = outcome]
    /\ UNCHANGED registry

\* The heartbeat was accepted, or raised a WorkerStateError.
refresher_returns(outcome) ==
    /\ Refresher(outcome)
    /\ call' = [call EXCEPT !.at = "refreshed",
                   !.outcome = IF outcome = "ok" THEN "received" ELSE "blocked"]
    /\ UNCHANGED registry

\* No answer makes the worker offline, an unverifiable one quarantines it.
refresher_demotes(outcome, state) ==
    /\ Refresher(outcome)
    /\ update_state(Worker, state)
    /\ call' = [call EXCEPT !.at = "demote_refresh", !.outcome = "blocked"]

\* EvidenceWriteError, ContractValidationError
Uncaught == {"evidence_error", "invalid"}

\* Mutated form: the poll is retried.
refresher_aborts_Retries(outcome) ==
    /\ At("refresh") /\ turn.at = "polled" /\ turn.outcome = outcome
    /\ turn' = [turn EXCEPT !.at = "poll"]
    /\ UNCHANGED <<registry, stored, evidenced, mode, pending,
                   reserved, trail, consumed, released, governed, call, handled>>

\* Neither submit() nor what it calls catches these: no event is recorded.
refresher_aborts(outcome) ==
    /\ Refresher(outcome)
    /\ call' = NoCall
    /\ UNCHANGED registry

Demotions == {<<"unavailable", "offline">>, <<"auth_failed", "quarantined">>}

persist_worker(from, to) ==
    /\ At(from)
    /\ stored' = [stored EXCEPT ![Worker] = registry[Worker]]
    /\ Now(to)
    /\ UNCHANGED <<registry, evidenced, mode, pending, turn,
                   reserved, trail, consumed, released, governed, handled>>

\* A failed refresh raises: its event is not the parent of what follows.
append_refresh_event ==
    /\ At("refreshed")
    /\ IF call.outcome = "received"
       THEN append_and_go("worker_heartbeat", "received", "eligible")
       ELSE append_event("worker_heartbeat", "blocked", call.parent) /\ Now("blocked")
    /\ UNCHANGED <<fleet, reserved, consumed, released, governed, handled>>

\* Mutated form: the worker is not looked at again after its heartbeat.
eligible_NotRechecked ==
    /\ At("eligible")
    /\ Now(IF call.sub.capability \notin Capabilities[Worker] THEN "blocked"
           ELSE IF execution_opt_in /\ call.sub.capability = "executable" /\ governed # NoId
           THEN "mint" ELSE "offer")
    /\ UNCHANGED <<fleet, reserved, trail, consumed, released, governed, handled>>

\* require_assignable again, the capability, and the gates of
\* _issue_execution_grant that need no issuer.
eligible ==
    /\ At("eligible")
    /\ Now(IF ~Assignable(Worker) \/ call.sub.capability \notin Capabilities[Worker]
           THEN "blocked"
           ELSE IF execution_opt_in /\ call.sub.capability = "executable" /\ governed # NoId
           THEN "mint" ELSE "offer")
    /\ UNCHANGED <<fleet, reserved, trail, consumed, released, governed, handled>>

\* Mutated form: a consumed grant is accepted again.
Consumable_Always(grant) == TRUE

\* PRIMARY KEY (tenant_id, worker_id, grant_id, nonce)
Consumable(grant) ==
    \A row \in consumed : row.id # grant.id \/ row.worker # grant.worker

\* The issuer mints from the retained call.  The grant is consumed before it is
\* compared with the worker, and burned if it is another one's.
issue_execution_grant(grant) ==
    /\ At("mint")
    /\ grant.request = governed
    /\ IF Consumable(grant)
       THEN /\ consumed' = consumed \cup {[grant EXCEPT !.request = Id]}
            /\ IF grant.worker = Worker
               THEN call' = [call EXCEPT !.at = "grant_event", !.grant = {grant}]
               ELSE Now("offer")
       ELSE Now("offer") /\ UNCHANGED consumed
    /\ UNCHANGED <<fleet, reserved, trail, released, governed, handled>>

issuer_fails ==
    /\ At("mint")
    /\ Now("offer")
    /\ UNCHANGED <<fleet, reserved, trail, consumed, released, governed, handled>>

append_grant_event ==
    /\ At("grant_event")
    /\ append_and_go("execution_grant_issued", "allowed_dry_run", "offer")
    /\ UNCHANGED <<fleet, reserved, consumed, released, governed, handled>>

offer ==
    /\ At("offer")
    /\ append_and_go("assignment_preview", "allowed_dry_run", "acknowledge")
    /\ UNCHANGED <<fleet, reserved, consumed, released, governed, handled>>

-----------------------------------------------------------------------------
\* acknowledge_preview

endpoint_answers(outcome) ==
    /\ At("acknowledge")
    /\ call' = [call EXCEPT !.at = "answered", !.outcome = outcome]
    /\ UNCHANGED <<fleet, reserved, trail, consumed, released, governed, handled>>

endpoint_demotes(state) ==
    /\ At("acknowledge")
    /\ update_state(Worker, state)
    /\ call' = [call EXCEPT !.at = "demote_answer", !.outcome = "blocked"]
    /\ UNCHANGED <<stored, evidenced, mode, pending, turn,
                   reserved, trail, consumed, released, governed, handled>>

append_acknowledgement ==
    /\ At("answered")
    /\ append_and_return("worker_acknowledgement", call.outcome, call.parent)
    /\ released' = IF call.outcome = "acknowledged"
                   THEN released \cup {[grant |-> g, to |-> Id] : g \in call.grant}
                   ELSE released
    /\ UNCHANGED <<fleet, reserved, consumed, governed, handled>>

append_block ==
    /\ At("blocked")
    /\ append_and_return("denial", "blocked", latest_event_id)
    /\ UNCHANGED <<fleet, reserved, consumed, released, governed, handled>>

-----------------------------------------------------------------------------
\* An EvidenceWriteError leaves submit(); the server answers 503 and drops the
\* rest of the batch.  Every stage that is about to write may end so.
WriteStages == {"reserve", "replayed", "admit", "ask", "guardian", "lima_failed",
                "lima_event", "demote_refresh", "refreshed", "mint", "grant_event",
                "offer", "demote_answer", "answered", "blocked"}

write_fails ==
    /\ \/ call.at \in WriteStages
       \/ At("route") /\ Status # "allowed_dry_run"
    /\ call' = NoCall
    /\ UNCHANGED <<fleet, reserved, trail, consumed, released, governed, handled>>

\* The process stops; start brings up another over the same store.
crash ==
    /\ mode # "down"
    /\ Exit
    /\ call' = NoCall
    /\ governed' = NoId
    /\ UNCHANGED <<reserved, trail, consumed, released, handled>>

SubmitStep ==
    \/ reserve_request \/ reject_replay \/ admit \/ request_guardian
    \/ \E d \in GuardianDecisions : guardian_decides(d)
    \/ guardian_unavailable
    \/ \E d \in LimaStatuses : run_lima(d)
    \/ run_lima_fails \/ fail_closed \/ append_lima_event
    \/ stop_before_assignment \/ route_assignment
    \/ \E o \in {"ok", "state_error"} : refresher_returns(o)
    \/ \E d \in Demotions : refresher_demotes(d[1], d[2])
    \/ \E o \in Uncaught : refresher_aborts(o)
    \/ persist_worker("demote_refresh", "refreshed")
    \/ append_refresh_event \/ eligible
    \/ \E g \in Grant : issue_execution_grant(g)
    \/ issuer_fails \/ append_grant_event \/ offer
    \/ \E o \in {"acknowledged", "rejected", "failed_closed"} : endpoint_answers(o)
    \/ \E d \in Demotions : endpoint_demotes(d[2])
    \/ persist_worker("demote_answer", "answered")
    \/ append_acknowledgement \/ append_block
    \/ write_fails

Next ==
    \/ start /\ UNCHANGED plane
    \/ FleetStep /\ UNCHANGED plane
    \/ \E b \in Batches : operator_call(b)
    \/ SubmitStep
    \/ crash

Init == FleetInit /\ PlaneInit
Spec == Init /\ [][Next]_vars

\* Once begun, a startup and a submit() run on: a worker is waited for no longer
\* than the client's timeout, and every step ends in a return or an exception.
FairSpec ==
    Spec /\ WF_vars(FleetStep /\ UNCHANGED plane) /\ WF_vars(SubmitStep)

-----------------------------------------------------------------------------
TypeOK ==
    /\ FleetTypeOK
    /\ reserved \subseteq Submissions
    /\ trail \in [Ids -> Seq(ControlEvent)]
    /\ consumed \subseteq Grant
    /\ released \subseteq [grant: Grant, to: Ids]
    /\ governed \in Ids \cup {NoId}
    /\ call \in Call
    /\ handled \in Nat

\* A worker is only offered an assignment while the registry says it is
\* assignable and the store holds the same state, whatever its heartbeat, a
\* failed write or a restart did in between
\* (_refresh_worker_health, require_assignable before and after it).
OfferedWhenEligible ==
    call.at \in {"mint", "grant_event", "offer", "acknowledge"} =>
        /\ mode = "serving"
        /\ Assignable(Worker)
        /\ stored[Worker] = registry[Worker]

Has(i, before, type, outcome) ==
    \E k \in 1..before : trail[i][k].type = type /\ trail[i][k].outcome = outcome

\* Every assignment preview in the evidence was allowed by Guardian and by LIMA
\* and preceded by an accepted heartbeat, all recorded before it for the same
\* request: no denial, approval requirement, replay or restart leads to one
\* (submit, _combined_status).
OfferedOnlyIfAllowed ==
    \A i \in Ids : \A j \in DOMAIN trail[i] :
        trail[i][j].type = "assignment_preview" =>
            /\ Has(i, j, "guardian_decision", "allowed_dry_run")
            /\ Has(i, j, "lima_decision", "allowed_dry_run")
            /\ Has(i, j, "worker_heartbeat", "received")

\* An idempotency key is used for at most one request that is ever offered, and
\* that request is offered once: a retry, a batch that was cut short or a
\* restart never repeats an assignment (reserve_request).
OneOfferPerKey ==
    \A s, t \in reserved : \A j \in DOMAIN trail[s.id], k \in DOMAIN trail[t.id] :
        /\ s.key = t.key
        /\ trail[s.id][j].type = "assignment_preview"
        /\ trail[t.id][k].type = "assignment_preview"
        => s = t /\ j = k

\* The events of a request form one chain: each has the event before it as its
\* parent, except a rejected replay and the first event, which have none; a
\* refused heartbeat is a link of it too (parent_event_id, latest_event_id).
EvidenceChained ==
    \A i \in Ids : \A j \in DOMAIN trail[i] :
        trail[i][j].parent =
            IF \/ trail[i][j].type = "replay_rejected"
               \/ \A k \in 1..(j - 1) : trail[i][k].type = "replay_rejected"
            THEN 0 ELSE j - 1

\* A grant that left the Supervisor was minted from the very request it answers,
\* is in the consumption table for it, left with no other response, and its
\* issue and the worker's acknowledgement are in the request's evidence
\* (_issue_execution_grant, reserve_execution_grant).
GrantsAccountedFor ==
    \A r \in released :
        /\ r.grant.request = r.to
        /\ r.grant \in consumed
        /\ \A q \in released :
              q.grant.id = r.grant.id /\ q.grant.worker = r.grant.worker => q = r
        /\ Has(r.to, Len(trail[r.to]), "execution_grant_issued", "allowed_dry_run")
        /\ Has(r.to, Len(trail[r.to]), "worker_acknowledgement", "acknowledged")

\* A quarantine or a revocation that reached the store is never undone by a
\* heartbeat, a restart, a new registration or another request, and a revocation
\* never becomes a quarantine (update_state, update_heartbeat, restore).
ContainmentIsDurable ==
    [][\A w \in Workers :
          /\ stored[w] = "revoked" => stored'[w] = "revoked"
          /\ stored[w] = "quarantined" => stored'[w] \in {"quarantined", "revoked"}]_vars

\* Every operator call ends, whatever fails on the way: with a response, a 503
\* or the end of the process (submit, do_POST).
CallsEnd == call.at # "idle" ~> call.at = "idle"

\* Violated by the code.  A quarantine the Supervisor holds between two calls is
\* one a restart restores: docs/runbooks/worker-quarantine.md keeps the worker
\* quarantined until re-enrollment (heartbeat: except EvidenceWriteError).
QuarantineIsDurable ==
    \A w \in Workers :
        mode = "serving" /\ call.at = "idle" /\ registry[w] = "quarantined" =>
            stored[w] \in {"quarantined", "revoked"}

\* Violated by the code.  A worker in service has its registration in the
\* evidence: docs/CONTRACTS.md asks an artifact of every registration (register:
\* the record and the event are two transactions).
RegistrationEvidenced ==
    mode = "serving" =>
        \A w \in Workers : registry[w] # Absent => w \in evidenced

-----------------------------------------------------------------------------
\* Refinement: where a request stands, as its durable evidence says.

Recorded(i, type) == \E j \in DOMAIN trail[i] : trail[i][j].type = type

StatusOf(i) ==
    IF Recorded(i, "worker_acknowledgement") THEN "closed"
    ELSE IF Recorded(i, "assignment_preview") THEN "offered"
    ELSE IF \E type \in {"denial", "failure", "approval_requested"} : Recorded(i, type)
    THEN "refused"
    ELSE IF \E s \in reserved : s.id = i THEN "admitted" ELSE "new"

KeyOf(i) ==
    IF \E s \in reserved : s.id = i
    THEN (CHOOSE s \in reserved : s.id = i).key ELSE NoId

Admission == INSTANCE AdmissionLedger WITH
    NoKey <- NoId, status <- [i \in Ids |-> StatusOf(i)], key <- [i \in Ids |-> KeyOf(i)]

\* Every step of the control plane is one step of the ledger or none: no failure,
\* replay or restart admits a request twice, offers it twice or reopens it
\* (submit, reserve_request).
EveryStepIsALedgerStep == [][Admission!Next]_(Admission!ledger)

\* From the empty store the control plane implements the ledger.
ImplementsAdmission == Admission!Spec
=============================================================================
