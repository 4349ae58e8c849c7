# TLA+ models of LIMA Office OS

LIMA Office OS is a Phase 0 lab: an operator's console on localhost, a
Supervisor process that takes signed operator requests, up to eight Arc workers
that may be offered a read-only assignment, Guardian (policy) and LIMA
(governed runtime) that every request must pass, and two SQLite stores that keep
the evidence. Nothing in it executes unless several independent gates agree;
what makes it correct is the order in which it checks, records and commits, and
what survives when one of those steps fails or the process stops.

The models live in six families:

| family | modules | runs |
|---|---|---|
| approval lane of the console | `HarnessStore`, `OfficeLane`, `ApprovalLedger`, `OfficeLane_proofs`, `MCOfficeLane` | `lane`, `lane_stale_session` |
| Supervisor and its workers | `WorkerFleet`, `ControlPlane`, `AdmissionLedger`, `ControlPlane_proofs`, `MCControlPlane` | `control_plane`, `control_plane_retries`, `quarantine_durability`, `registration_evidence` |
| operator's endpoint and its channel | `Channel`, `OperatorService`, `OperatorService_proofs`, `MCOperatorService` | `operator_channel` |
| operator login | `ProfileBLogin`, `ProfileBLogin_proofs`, `MCProfileBLogin` | `profile_b`, `profile_b_credential` |
| training harness and task outcomes | `EscalationLadder`, `TaskOutcome`, `TaskWalk`, `TaskWalk_proofs`, `RegistrationWorkflow`, `TrainingHarness`, `TrainingHarness_proofs`, `MCTaskWalk`, `MCTrainingHarness` | `simulators` (the walk), `training_harness`, `harness_instruction` |
| policy, replay, reconciliation and the mock machines | `GuardianPolicy`, `Reconciliation`, `Verdicts_proofs`, `GuardianReplay`, `ReplayDrill`, `TransactionCoordinator`, `EvidenceLifecycle`, `MockLifecycles`, `MockQueue`, `Simulators_proofs`, `MCGuardianPolicy`, `MCReconciliation`, `MCSimulators` | `simulators` |

## 1. Inventory

Paths are below `src/lima_office/`.

| component | state | operations | hard part | what makes it correct |
|---|---|---|---|---|
| Approval-lane store `runtime/operator_harness.py` (HarnessStateStore) | SQLite tables of proposals, previews, requests, results, harness events, SOP gaps, metrics | one transaction per commit or event | unique keys and revision checks are the only concurrency control | one record per source, no lost update |
| Task proposals `runtime/task_proposal.py` | none of its own | create, edit, transition | read, pre-evidence, Guardian, evidence, commit: five store calls without a lock | each revision once, final states final |
| Approval previews `runtime/approval_preview.py` | none | create, review / deny / withdraw | the source proposal is checked long before the commit | the source is what was checked |
| Operator session `runtime/operator_session.py` | `_active`, in memory | bind, require_active | two binds race; a restart loses it | announced and allowed before it is active |
| Pending approval requests `runtime/pending_approval_request.py` | none | create | duplicate check against commit | one request per preview |
| Approval decisions `runtime/approval_decision.py` | none | deny, cancel, expire | clock and session read once, commit later | result and request agree, in the window |
| Worker registry, heartbeat `supervisor/worker_registry.py`, `heartbeat.py` | workers in memory: state, boot, sequence | register, restore, update_state, update_heartbeat, accept | a heartbeat first installs what it claims, then is demoted | quarantined and revoked are sticky |
| Worker lifecycle `supervisor/worker_lifecycle.py` | none | register, heartbeat, restore | memory, record and event are three writes | containment reaches the store |
| Startup `supervisor/cli.py` | none | restore, register or poll each binding, serve | fails for all if one fails | serves only after every poll succeeded |
| Control plane `supervisor/control_plane.py` | `_last_governed_call` | submit, submit_many | up to thirteen writes, three external parties, each of which may fail | no offer without both allows and a fresh heartbeat; no second offer |
| Evidence store `evidence/sqlite_store.py` | requests, events, grant consumptions, worker records, channel messages | reserve_*, append_event, upsert, read | a crash between any two | reservations are single-use |
| Operator service `supervisor/operator_service.py` | none | preflight, workers, evidence | one thread; any exception is a 503 | every call ends; traces only to their actor |
| Channels `supervisor/worker_channel.py`, `operator_channel.py` | none | sign, verify | replay, clock windows | a message is accepted once |
| Training harness `runtime/operator_harness.py` (RuntimeHarness), `runtime/sop.py` | mode, gaps, metrics | set_mode, teach, governed_read, state | a gap is overwritten by its own recurrence; gap and metric are two writes | an instruction is not lost; progress can be computed |
| Operator IDE `runtime/operator_ide.py`, registration practice `runtime/registration_workflow.py`, drafts `runtime/training_model.py` | document buffers in memory, ladder setting, practice attempts and reviews | resolve_gap, configure_ladder, governed_list, paging, practice, review, decide, draft | one re-entrant lock taken and released several times in a request; what follows a release runs beside other threads | every request gives the lock back; a review is final; the ladder in force is the stored one |
| Task outcomes, ladder `runtime/task_outcome.py`, `escalation.py` | none | route_task_outcome, run_to_rest | retries and escalation | every task comes to rest |
| Profile B login `runtime/profile_b_session.py` | challenges, session, in memory | begin, complete, require_active | no lock around the challenge table | one session per challenge, never past its expiry |
| Guardian `guardian/policy.py`, `authority.py` | none | decide, evaluate | external authority | deny by default |
| Authorisation checks `runtime/invariants.py` | none | pure predicates over a decision, a binding, a token and a replay record | time windows, tenants, reuse | nothing authorises twice or elsewhere |
| Replay: verifier, store, drill `guardian/replay.py`, `replay_store.py`, `replay_drill_simulator.py` | nonce sets, records | verify_once, authorize_first_use, mark_replay_denied, fail_closed; the drill's table | a refused call may leave half of its effect; states go by decision, nonces by tenant | a nonce is let through once |
| Transaction coordinator `runtime/transaction_coordinator.py` | log per transaction, key index | record_event | a key is bound before its event is judged | one consumption per key, with its evidence |
| Evidence lifecycle, writer `evidence/lifecycle_simulator.py`, `writer.py` | evidence by id, artifacts | plan, record, link, export; write | references to what is not known yet | evidence stays in its tenant |
| Mock worker and task lifecycles, mock queue `supervisor/*_lifecycle_simulator.py`, `task_queue.py` | one state per id; tasks with decision and token | register, transition; enqueue, complete_mock | ids are used again; metadata may be an old copy | completed work was assigned; a return from quarantine was re-enrolled; a task is held with what admitted it |
| Reconciliation `runtime/reconciliation.py` | none | reconcile | many optional payloads | reconciled means within one tenant, replayed, evidenced |
| Conversation and helper, classifiers, contract loader, UI, scripts | none | - | none | see section 10 |

How they interact: the console's HTTP threads call the approval-lane services,
which share nothing but the store; the console sends signed requests to the
Supervisor's single-threaded server; the Supervisor polls its workers over HTTP
in the middle of a request and writes every step to its own store; the training
harness sits on the console and uses the same Supervisor path.

## 2. The approval lane

`HarnessStore` is the four office tables and the evidence table. Each operator
with primed variables is one method of `HarnessStateStore`: the store's lock and
one transaction make it atomic, a false guard is the raised error with the
transaction rolled back. `OfficeLane` is the services that call it from the
threads of a `ThreadingHTTPServer`. A handler is a record in `calls`:

| stage | code |
|---|---|
| `read` | the first store read has returned (`read_preview`, `read_request`, ...) |
| `checked` | every check passed, the record to write is built, a token issued |
| `requested` | the pre-action event is written |
| `authorized` | Guardian allowed it and the authorized event is written |
| (gone) | committed, or an error was raised |

Between two stages any other handler may run. `restart` drops every handler and
the session. What is abstracted:

- Identifiers are tokens issued once (`uuid4().hex`). A record keeps the token
  of the write that made it, and a SHA-256 digest is that token: the code embeds
  the token in each record's evidence references, so digests are equal exactly
  when the writes are.
- Reads between a handler's first read and its pre-action event are one step.
  Nothing they look at (an accepted proposal, a reviewed preview) can change any
  more once it has the state they require (`SettledIsFinal`), and what can still
  change is checked again inside the commit.
- Texts, wording and the contract envelope of each record are left out; the body
  of a proposal is a model value.

`ApprovalLedger` is what the lane promises without threads: one atomic step per
creation, edit, transition and decision. `ImplementsLedger` says that
check-then-commit without a lock still behaves like it.

| property | what would break it |
|---|---|
| `OneRecordPerSource` | two handlers both find no duplicate |
| `SourcesCurrent` | a proposal or preview moves on after it was checked |
| `GaplessHistory` | a lost update, a commit without its event |
| `EvidenceFirst` | a record whose pre-action evidence or Guardian decision is missing |
| `ResultMatchesRequest` | half of a decision after a crash |
| `SettledIsFinal` | an older read written over a final state |
| `EveryCommitIsALedgerStep` | any of it, seen from outside |

That a decision is dated as its check read the clock, an expiry after the window
and the others inside it, and that only the requester cancels (`DecisionInWindow`)
is local to one call; it is part of the invariant that is proved, and no run lists it.

`lane_stale_session` shows a disagreement with the documents. `transition` in
`approval_decision.py` asks for the active session at line 109 and commits at
line 196 without asking again; `docs/runbooks/pending-approval-request.md` says a
decision fails for an inactive session or from a replacement session. TLC finds
a cancellation recorded after another handler has bound a new session.

Bounds of `MCOfficeLane`: two threads, one helper result, two bodies, ten
tokens, clock 0..1 with lifetimes of 1. Two threads are what a race between a
check and a commit needs; both tokens left after the staged stores allow the
racing writes and one more. From the empty store the later stages need more
tokens than TLC can explore, so the initial states are the four stores one
handler leaves at clock 0: empty, proposal accepted, preview reviewed, request
pending, in the same process or after a restart. Threads are symmetric (no
liveness is checked there).

## 3. The Supervisor and its workers

`WorkerFleet` is the registry in memory (`registry`), the `worker_records` table
it is restored from (`stored`), the workers whose registration is evidenced, and
what the process's one thread is doing with a worker (`turn`). `ControlPlane`
extends it with the governed path of one operator request: `call.at` names the
next step of `submit`, `trail` is the event table, `reserved` and `consumed` are
the two reservation tables, `governed` is `_last_governed_call`.

| actions | code |
|---|---|
| `start`, `poll_succeeded`, `poll_failed`, `Exit` | `cli.main` |
| `register`, `persist_registration`, `append_registration_event`, `register_fails` | `AuthenticatedWorkerLifecycleService.register` |
| `accept`, `poll_rejected`, `persist_heartbeat`, `append_heartbeat_event`, `heartbeat_write_fails` | `heartbeat`, `HeartbeatService.accept`, `WorkerRegistry.update_heartbeat` |
| `operator_call`, `reserve_request`, `reject_replay`, `admit`, `request_guardian`, `guardian_*`, `run_lima*`, `append_lima_event`, `stop_before_assignment` | `submit`, `_run_lima`, `_combined_status` |
| `route_assignment`, `refresher_*`, `persist_worker`, `append_refresh_event`, `eligible`, `append_block` | `_route_assignment`, `_refresh_worker_health` |
| `issue_execution_grant`, `issuer_fails`, `append_grant_event`, `offer`, `endpoint_*`, `append_acknowledgement` | `_issue_execution_grant`, `_route_assignment` |
| `write_fails`, `crash` | an `EvidenceWriteError` answered with a 503; the process stops |

Each step ends at a write to the store or at an answer of an external party,
because there the program can fail or stop. Guardian, LIMA, the grant issuer and
the workers are external: they answer anything their contracts let through. A
heartbeat is a record of the fields the Supervisor reads; its boot and sequence
are one flag, `fresh`, and the contract's cross-field rules hold of it. The
bindings of the command line are the same at every start, so the exit for a
record without a binding does not arise. Workers are authenticated and each has
a refresher and an endpoint, as `cli.py` sets them up.

`AdmissionLedger` is what the control plane promises of a request: admitted at
most once and under a key of its own, refused or offered, never both, offered at
most once, closed for good. `EveryStepIsALedgerStep` relates the two through
`StatusOf`, which reads the durable evidence only.

| property | what it says |
|---|---|
| `OfferedWhenEligible` | while an offer is made or a grant minted, the registry says the worker is assignable and the store says the same |
| `OfferedOnlyIfAllowed` | an assignment preview in the evidence has Guardian's allow, LIMA's allow and an accepted heartbeat before it |
| `OneOfferPerKey` | no retry, interrupted inventory or restart offers twice |
| `EvidenceChained` | the events of a request form one parent chain |
| `GrantsAccountedFor` | a grant that left was minted for this request, is consumed, and left once |
| `ContainmentIsDurable` | stored quarantine and revocation are never undone |
| `CallsEnd` | every operator call ends, whatever fails |
| `EveryStepIsALedgerStep` | no step admits, offers or reopens what it may not |

Two runs show disagreements with the documents:

- `quarantine_durability`: `worker-quarantine.md` keeps a worker quarantined
  until a runbook releases it. The code sets quarantine in memory first and
  persists it afterwards; when that write fails (or any failed write is itself
  the reason for the quarantine) the store keeps `healthy` and the next start
  restores it.
- `registration_evidence`: `CONTRACTS.md` asks an evidence artifact of every
  registration. The record and the event are two transactions and a start only
  registers workers without a record, so a stop in between loses the event for
  good.

Bounds of `MCControlPlane`: two workers, of which only the first registers the
executable capability in one instance; eight requests under two identities and
two keys (a read, a retry under its key, a second read of the same worker, a read
of the other one, the two of a worker inventory, an inadmissible and an unmapped
request); seven heartbeats, one per branch of `accept`, or two where retries
matter; one grant identity; one operator call per behaviour, with any number of
restarts before and after it. What earlier calls may have left is in the initial
states: a new store, healthy workers with the read not asked, asked, offered or
acknowledged when that process stopped, or the process that acknowledged it still
serving, with its governed call retained. The call then meets a used identity, a
used key, a consumed grant, an unfinished trail and a stale governed call, which
is all that one call can leave to another.

Fairness: weak fairness of the startup's and of `submit`'s steps. The code
justifies it: both are synchronous code of one thread, the client gives a worker
`timeout_seconds` to answer, and a store call returns or raises. The crash, the
start and a new operator call are not fair.

## 4. The operator's endpoint and its channel

`Channel` is what both channel classes accept: the binding of an envelope, its
time window, and an identity not seen before. `OperatorService` puts it in front
of the three operator calls. The messages a client signed may arrive at any time
and any number of times; the client's clock is behind, equal or ahead of the
Supervisor's; it may try a request again with a new message. `doing` is where the
server's one thread is: a transaction of the store ends each step, and between
two of them a write may fail or the process may stop. `submit` is here what its
caller sees of it (reserved, and how far it got); its inside is `ControlPlane`.

| property | what it says |
|---|---|
| `ActedOnce` | a message is acted on once, and within its lifetime but for the clocks' difference; a request and each part of an inventory are routed once |
| `TraceEvidenced` | a released trace has its own acknowledged route and its read in the store, in this order, and holds what the target had at the read, all of it the operator's |
| `InventoryHonest` | an inventory is healthy only on acknowledgements since its own message was taken |

Bounds: two requests, two workers, two messages, one fault, two readings of the
clock, a skew inside the allowed one, none, and one beyond it. Two messages are a
retry or a race of two requests; redelivery needs only one. The store is new or
holds a request of another operator. The run stops when messages and clock are
used up, so deadlock is not checked. The same three properties are proved for
every value of the constants (section 8).

## 5. Operator login

`ProfileBLogin` is `ProfileBSessionService` with the verifier's credential table.
The service has no lock, and every request is a thread: `complete` takes the
challenge out, verifies, evidences the request, commits the session and evidences
that, and another login, the clock, an expiry, a failed write or a restart may
come between any two. The assertion's cryptography is external: an answer is a
new credential, an assertion with a counter, or something that does not verify.

| property | what it says |
|---|---|
| `OneEndPerChallenge` | a challenge makes one session, or is evidenced as rejected, or neither |
| `SessionEvidenced` | a session in force, or one that served a request, has both its events in the store |
| `CounterNeverBack` | no interleaving of assertions moves the counter of a stored credential back; only its owner's enrolment of it again does |

An enrolment is verified against count 0 and stored without a look at what is
there (`webauthn_verifier.py:215-231`, `:290`). By one name that is meant: "a later
verified enrollment for that same name replaces it", with its counter.
`profile_b_credential` shows what is not: two names enrol one credential id and
both are stored with it, while `docs/PROFILE_B_WEBAUTHN_VERIFICATION.md:37` says that
"a different display name cannot use that credential id"
(`OneOwnerPerCredential`). It takes two logins and no fault.

Bounds: two threads, two owners, two credentials with counters 0..1, three
challenges, clock 0..1 with lifetimes of 1, one fault. Two threads race for one
challenge; a third challenge replaces a session and a credential in between.

## 6. The training harness and task outcomes

`EscalationLadder` says what makes a configured ladder acceptable and how it is
walked; `TaskOutcome` is `route_task_outcome` with the disposition of a denial
and the gap it leaves. Both are pure. `TaskWalk` walks a task over every accepted
ladder among those of three and four rungs that `MCTaskWalk` configures (24
of 160; a ladder that is refused never routes), each attempt with any answer.
The walk is one of the machines of the run `simulators` (section 7).

| property | what it says |
|---|---|
| `AttemptsBounded` | at most `max_attempts` for each rung already used, although a climb starts them anew |
| `ForbiddenNeverClimbs` | a forbidden or unclassified code never takes a task up, not even among others or under an alias |
| `AuthorityNeverLost` | a climb never ends at a rung that may permit less than one below it |
| `RestsEventually` | every walk comes to rest |

Fairness there: weak fairness of the attempt, which is a loop body of synchronous
code. `MaxAttempts` is 2: a retry and the last attempt are then different steps.

`TrainingHarness` is the operator's harness: `RuntimeHarness`,
`OperatorIDEHarness` and the model's drafts, over the store's gap, metric and
practice tables. `holder` is the one re-entrant lock; `doing[t]` the next step of
thread `t`. A request takes the lock with its mode check, writes in transactions
of its own, and what follows the release (clearing the buffers after a switch to
training mode, buffering a document, the answer to a switch) runs beside the
other threads. `WriteFails` ends a request at any of its writes and gives the
lock back; `Restart` drops the threads, the mode and the buffers.
`RegistrationWorkflow` is the practice form as a pure function.

| property | what it says |
|---|---|
| `ProgressComputable` | there are never more distinct gaps than stopped attempts and failed writes, so `training_progress` does not refuse its own store but after a fault |
| `LadderSurvivesRestart` | the ladder that routes is the one a restart loads, and ends with a person |
| `DecisionsEvidenced` | a decision Arc recorded loses its event only to a fault |
| `ReviewsAreFinal` | a review, and the attempt it is about, never change |
| `RequestsEnd` | every request gives the lock back and ends |

Fairness: weak fairness of each thread's steps: synchronous code in a thread of
the server. A step that waits for the lock needs no more, because the requests of
a behaviour are bounded and contention ends with them.

`harness_instruction` shows a disagreement: `upsert_gap` replaces the record, so
a read that stops on what was already instructed stores the gap as open and the
instruction is lost, while `sop.py:71` says that a gap is open until someone
writes the instruction that closes it. It takes a switch to working mode, a stopped
read, a switch back, an instruction, another switch and the same read: six
requests and no fault.

Bounds of `MCTrainingHarness`: two threads, four requests, one fault, one task,
two denials, one document buffer (so the second evicts), two configured ladders
(one accepted, one refused), two practice scenarios. Four requests cover any
three that prepare a state and the one that meets it; `training_harness` covers
all their interleavings. The unique key of a review's attempt
(`operator_ide.py:168`) is left out: that the attempt is asked for under the lock
the review is written under suffices for `ReviewsAreFinal` without it.

## 7. Policy, replay, reconciliation and the mock machines

Pure parts: `GuardianPolicy` is the local policy, the authority that asks
Guardian Core and the decision both build. A context is a function from keys to
values in which the missing keys read "absent". `Reconciliation` takes the
payloads of one approval and returns a status with its reasons.
`GuardianReplay` is what the cross-contract invariants say of when a decision, a
binding, a token or a replay record authorises. `MCGuardianPolicy` and
`MCReconciliation` hold assumptions TLC evaluates: each caller's context is
decided as the caller expects and no longer when one of its keys is missing or
another flag is raised; agreeing payloads are reconciled, each drift is named.

State machines, each of which a refused call leaves unchanged except where said:

| module | code | property |
|---|---|---|
| `ReplayDrill` | drill simulator; replay store and verifier | `FirstUseOnce`: of a tenant's decisions under one nonce one is validated at most, and the nonce is reserved or consumed for it. `AuthorisedOnce`: store and verifier let a nonce through once each |
| `TransactionCoordinator` | `record_event` with its key index | `ConsumedOnceAndEvidenced`: one consumption under a key, behind its token and its evidence |
| `EvidenceLifecycle` | plan, record, link, export | `RequiredRefsStayInTenant`: what a payload was required to refer to is evidence of its own tenant for ever |
| `MockLifecycles` | worker and task lifecycle simulators | `CompletedWorkWasAssigned`: no completion of work that stood still without a new assignment. `ReturnsReenrolled`: each return of a worker to work after a quarantine has a re-enrolment of its own |
| `MockQueue` | mock task queue and evidence writer | `HeldWithItsAuthority`: a task is held with the decision and the token that admitted it last |

No two of them call each other, so `MCSimulators` puts them and the task walk side by
side: the initial state picks one and only that one moves; only the walk is fair.
Bounds: two transactions and
keys with six events, two evidence ids of two tenants, one worker and one task
with seven moves, three decisions over two nonces, two uses, a queue of one task
id with two artifacts. A finished machine takes no further call, so deadlock is
not checked. Seven moves are a quarantine, the way back, and one more descent.

## 8. What is proved

Every property that a passing run checks, but for the three liveness properties,
is also a theorem: for every value of the constants that satisfies the named
assumptions, where the run is one small instance. TLC checked each inductive
invariant on the configuration of its run before it was proved.

`OfficeLane_proofs` proves, for every number of threads, tokens, helper results
and bodies and any lifetimes:

| theorem | property |
|---|---|
| `TypeCorrect` | `TypeOK` |
| `SourcesStayCurrent` | `SourcesCurrent` |
| `ResultsMatchRequests` | `ResultMatchesRequest` |
| `DecisionsInWindow` | `DecisionInWindow` |
| `OnePerSource` | `OneRecordPerSource` |
| `SettledStays` | `SettledIsFinal` |
| `CommitsAreLedgerSteps` | `EveryCommitIsALedgerStep` |
| `HistoryIsGapless` | `GaplessHistory` |
| `EvidenceComesFirst` | `EvidenceFirst` |
| `Refinement` | `ImplementsLedger` |

They rest on `LaneAssumption` and `MaxTokensAssumption` (lifetimes and bounds
are natural numbers, the default body is a body). The inductive invariant `IInv`
is the three properties and the type, with `CallsInv`: what each handler in
flight knows. A safety property alone is not inductive because the handler's
record was built from an older store; `CallInv` says which part of it still
holds. The argument is that tables only advance (`TablesAdvance`: settled records
stay, revisions grow), so a source found accepted or reviewed stays so, and that
the rest is checked again by the commit. `StepRefines` then maps every commit to
one ledger step and everything else to a stutter.

The last two rest on a second invariant over `IInv`, `EvidenceInv`. A record is
not the only thing that can be without its evidence: a handler past its
pre-action event will write one. `CallsAnnounced` says which events of a handler
in flight are in the store at each stage. `SingleCommits`: the completion of
a session names that session's own token, and a pending request has no completed
decision yet, so neither can be completed twice. Evidence is only ever added
(`RecordsStay`), so a commit finds what its earlier stages wrote, and the
compare-and-set of the commit gives the next revision to one handler only.

`ControlPlane_proofs` proves, for every set of workers, bindings, heartbeats,
requests, batches, capabilities and grants:

| theorem | property |
|---|---|
| `TypeCorrect` | `TypeOK` |
| `OfferedToEligible` | `OfferedWhenEligible` |
| `ContainmentStays` | `ContainmentIsDurable` |

They rest on `FleetAssumption` (every worker is bound, at least one binding, the
heartbeats are among those the contract accepts) and `ControlPlaneAssumption`
(what a request is; there is one; no identity or key
is the absent one; an inventory asks each worker once). `IInv` adds three parts to the types and to
`OfferedWhenEligible`, none of which could be left out. `StagesInv`: one thread,
so a request is polled for only inside its refresh, and nothing runs while the
process is down. `ContainedInMemory`: a record that is quarantined or revoked is
so in the registry, or more; it is what makes a write of a record harmless, and
it holds because `update_state` and `update_heartbeat` refuse to leave those
states and a start restores what is stored. `PersistedInv`: after a heartbeat is
persisted, and after it is accepted, the store holds the registry's state; with
the second `require_assignable` it gives the offer. `ContainmentStays` follows
from `ContainedInMemory` and from what any step may write to the worker records:
nothing, or the registry's state of one worker.

With `IInv` established, the second part of the module shows, for the same
constants, that the control plane implements its ledger:

| theorem | property |
|---|---|
| `OneOffer` | `OneOfferPerKey` |
| `StepsAreLedgerSteps` | `EveryStepIsALedgerStep` |
| `AdmissionRefinement` | `ImplementsAdmission` |

Only a reservation and the events that refuse, offer and close are visible to the
ledger; every action is one of six kinds of step (`QuietStep`, `NeutralStep`,
`ReserveStep`, `RefuseStep`, `PreviewStep`, `CloseStep`). The refinement needs to
know, at an event, where the request of the call in progress stands, which is
`CallStands`; that a new reservation finds an untouched identity is
`ReservedFirst`, and it in turn rests on the two unique constraints
(`ReservedOnce`). A 503 or a crash only ends the call, which leaves the ledger
alone; a request left admitted stays so, because its identity is taken.

The third part is about what the durable evidence can be relied on for:

| theorem | property |
|---|---|
| `OffersAreAllowed` | `OfferedOnlyIfAllowed` |
| `EvidenceIsChained` | `EvidenceChained` |
| `GrantsAreAccountedFor` | `GrantsAccountedFor` |

Its invariant `EvidenceInv` follows the call in progress through the stages.
`CallChained`: the parent it holds is the last event of its request, also after a
refresh has written events of its own. `CallCleared`: past Guardian, past LIMA
and past the heartbeat, the allowing event of each is in the trail, so an offer
finds all three. `CallGranted`: a grant in hand was minted for this request, is
consumed, and is evidenced once the code says so. `ReplaysFirst` says that the
trail of an identity that was never reserved holds replays only, which is what a
chain may start from; `ConsumedOnce` and `ReleasedWithEvidence` carry what an
earlier call left behind over a crash.

The fourth part is about the end of a call, as far as it is a safety property:

| theorem | property |
|---|---|
| `CallsAreBounded` | `CallsRunOut`: a call of n submissions takes at most 20 n steps |
| `DemotionsAreTaken` | `DemotionsGoThrough`: the except clause that demotes a worker never raises in its turn |

`StepsLeft` counts what a call may still take: 20 steps for each submission that
waits, the rank of the stage the present one has reached, and, inside a refresh,
what is left of the poll. Every step that anything takes while a call is in
progress, the polls, failed writes and crashes included, lowers it; only a new
call raises it, to 20 times its length. So no retry, demotion or replay goes in
circles. `DemotionsAreTaken` says that the one action of the call whose guard the
code answers with an exception never meets it: up to an accepted heartbeat the
worker is as assignable as `require_assignable` found it (`UnpolledInv`), and an
offer is only made to an assignable worker, so no sticky state is to be left.
What `CallsEnd` has beyond the two is that those steps are taken, which is
fairness. Both are definitions of the proof module and no run lists them; TLC
found them to hold in the configurations of `control_plane` and
`control_plane_retries` before they were proved.

`OperatorService_proofs` proves, for every number of requests, workers, messages
and faults, any lifetimes and any difference of the clocks:

| theorem | property |
|---|---|
| `ActedOnceHolds` | `ActedOnce` |
| `TraceEvidencedHolds` | `TraceEvidenced` |
| `InventoryHonestHolds` | `InventoryHonest` |

They rest on `ChannelAssumption` and `ServiceAssumption`. `MessageInv` says that
an accepted message is reserved, so the next delivery of it is refused;
`RouteInv` that a routed request is reserved and one about to be routed was not,
so a retry cannot route it again. `TraceInv` and `PartsInv` follow what the one
request in hand has of its own evidence, from the acknowledgement through the
read to the answer; events are only ever appended (`EventsGrow`), so what an
answer said of them stays true (`AnswersKept`). `WorkStep` sums up the actions as
eight kinds of step of the one thread.

`ProfileBLogin_proofs` proves, for every number of threads, owners, credentials,
challenges and faults and any lifetimes:

| theorem | property |
|---|---|
| `TypeCorrect` | `TypeOK` |
| `OneEnd` | `OneEndPerChallenge` |
| `SessionsEvidenced` | `SessionEvidenced` |
| `CountersAdvance` | `CounterNeverBack` |

They rest on `MaxCountAssumption`. `OneEndPerChallenge` alone is not inductive: a
thread about to commit could find its challenge ended by another one.
`ChallengeInv` adds where a challenge is: pending, with one thread, or ended, and
never in two of these, because taking it out of the table is one step.
`CountersAdvance` leaves one way back for a counter, the enrolment of that credential
by its owner (`Enrols`): the assertion's check and write are one step under the lock.
`SessionInv` adds what a thread past its Guardian check or its commit has in the
store.

`TrainingHarness_proofs` proves, for every number of threads, requests, faults,
tasks, buffers, scenarios and configurable ladders:

| theorem | property |
|---|---|
| `HarnessTypes` | `TypeOK` |
| `ProgressIsComputable` | `ProgressComputable` |
| `LadderIsDurable` | `LadderSurvivesRestart` |
| `DecisionsAreEvidenced` | `DecisionsEvidenced` |
| `ReviewsFinal` | `ReviewsAreFinal` |

They rest on `ThreadsAssumption` (the absent thread is none), `LaddersAssumption`
(a deployment starts with a ladder it accepts), `MalformedAssumption` (the
registry does not classify the harness's own code), `BoundsAssumption` and those
of `TaskOutcome`. What the properties stand on is the lock: a thread is at a
locked step exactly while it holds it (`Lockholders`), so what its mode check and
first reads found (`HolderHolds`) is still true at its last write, whatever other
threads did in between. `Progress` and `Decisions` are the two counting
properties in the middle of a request: one gap may be stored and its metric not,
one decision recorded and its event not, and only the holder of the lock can be
there, which is why one is enough. A failed write or a restart turns that one
into a fault.

`TaskWalk_proofs` proves, for every configured ladder, table of overrides, number
of attempts and answer:

| theorem | property |
|---|---|
| `WalksAreBounded` | `AttemptsBounded` |
| `ForbiddenStays` | `ForbiddenNeverClimbs` |
| `ClimbsKeepAuthority` | `AuthorityNeverLost` |

They rest on `ConfiguredAssumption`, `AnswersAssumption`, `OverridesAssumption`
and `MaxAttemptsAssumption`. `OutcomeShape` is the lemma about
`route_task_outcome`: it rests, tries the same rung again with one more attempt,
or goes to the first rung above that permits, and each under what conditions;
`ForbiddenWins` that no company a forbidden code is in makes a denial milder.
`WalkInv` adds to the properties that the ladder is accepted, that the attempt
about to be made is one of its rung, and that the authority of the rungs behind
is within that of the one in hand. That the first rung that permits exists is the
least element of a set of numbers (`LeastExists`), by well-founded induction over
finite sets; no recursive definition is involved.

`Simulators_proofs` proves the properties of each mock machine, under a
specification of its own, for every set of payloads and logs of any length:

| theorem | property |
|---|---|
| `SlotsAreUsedOnce` | `FirstUseOnce` |
| `NoncesAreAuthorisedOnce` | `AuthorisedOnce` |
| `DecisionsAreConsumedOnce` | `ConsumedOnceAndEvidenced` |
| `EvidenceStaysInTenant` | `RequiredRefsStayInTenant` |
| `ReturnsFollowReenrolment` | `ReturnsReenrolled` |
| `CompletionFollowsAssignment` | `CompletedWorkWasAssigned` |
| `TasksKeepTheirAuthority` | `HeldWithItsAuthority` |

`DrillInv` extends `FirstUseOnce` from the decisions in use to all that hold a
slot, denied ones included: a denial leaves its nonce reserved, and that is what
keeps the next reservation out. `UseInv`: a nonce that was let through is spent.
`CoordinatorInv` and `TaskInv` say that a log is a path of its transition table;
what must have come before a consumption or a completion is read off the table
backwards (`ConsumedBehind`, `BegunWork`), and a second consumption is excluded
because the states after one never lead back (`TableAroundConsumption`).
`EvidenceInv`: the table of references names no evidence that was not planned,
and no other tenant than the evidence does, so registering under a known id
cannot move it. `QueueInv` adds the fields the contract requires of a task. The
assumptions are `NoTransactionAssumption`, `MaxEventsAssumption`,
`NoTenantAssumption` (the absent transaction and tenant are none) and
`QueuePayloadsAssumption` (`contracts/v1/task.execution.schema.json`, "required").
`MCSimulators` checks the same machines side by side.

`Verdicts_proofs` proves facts of the pure parts, the policy and the reconciler,
for every action, context and dossier, of which TLC can only try a few:

| theorem | what it says |
|---|---|
| `DefaultDeny` | an action no rule names, or on the denied list, is denied in any context |
| `NothingAllowedAcross` | what is not denied names its tenant, and reaches no other tenant, live connector, unrestricted tool or tainted input |
| `ContextsServeOneKind` | a context accepted for one kind of attended work is denied for the actions of every other kind |
| `AttendedIsAttended` | none is allowed without evidence, nor, but for an expiry, without an operator |
| `ApprovalNeverAssumed` | where an approval is required, nothing is allowed without a valid token that lets it proceed |
| `RequestIsNotApproval` | only the creation of a request is answered "requires_approval", and it is never allowed |
| `AuthorityFailsClosed` | the authority allows only on Guardian Core's allow, once |
| `ReconciledWithinTenant` | a reconciled dossier is of one tenant and customer |
| `ReconciledHasItsReplay` | it has a decision, a replay and its record, which agree |
| `ReconciledIsUnblocked` | it is about no blocked action |
| `ReconciledDenialsAreEvidenced` | a denial in it refers to its evidence |

## 9. What is only model-checked

Liveness: `CallsEnd`, `RequestsEnd`, `RestsEventually`. The proof system has no
reasoning about fairness of actions. (That a walk is bounded, which is half of
`RestsEventually`, is proved, and so is that a call has a bounded number of steps
before it, which is half of `CallsEnd`.) The assumptions that
`MCGuardianPolicy` and `MCReconciliation` state are evaluated by TLC on the
values they name. The five disagreements are single counterexamples and need no
proof.

## 10. Not modelled

- Metadata classifiers (attestation, connectors, model routing, access matrix,
  most of the taxonomy): stateless functions from one record to a verdict, with a
  test per branch. Of the taxonomy the dispositions and aliases of reason codes
  are constants of `TaskOutcome`.
- Supervisor conversation and office helper: text in, text out, behind a Guardian
  check and two events; the helper's result is an input of the approval lane.
- Approval binding and linkage graph: hashes and renderings, and an index.
- Contract validation: the sets inputs are drawn from.
- HTTP framing, HMAC and WebAuthn, projections for the console, the browser UI,
  packaging, pins and smoke scripts.

`PROJECT.json` lists every component with its status and every hazard with the
properties that watch it.

## 11. What the models showed beside the findings

Behaviours of the code that no document contradicts, or contradicts only
by omission; no run is made for them.

- A message signed at the longest allowed lifetime is refused by its own verifier
  when the clock moves between the two readings of `sign`.
- An inventory cut short can never complete under its id: its parts are reserved.
- A document is buffered under a second hold of the lock, so a switch to training
  mode in between clears the buffers first and leaves that one in memory
  (`docs/ARC_RUNTIME_HARNESS.md:140-141`). A draft may finish in working mode.
- A worker of the simulator that returned from quarantine and then degrades comes
  back only through another quarantine
  (`docs/PHASE_1B_WORKER_LIFECYCLE_SIMULATOR.md:65-66`); a task may complete without
  worker metadata.
- The coordinator binds a key to a transaction before it judges the event.
- The replay store spends a nonce before it validates the committed record; a
  denial or a failure overwrites a consumed record; a denied decision of the drill
  leaves its nonce reserved, and a nonce presented under another decision has no
  path to a recorded denial. The store's and the verifier's nonces are global, the
  drill's are per tenant.
- Evidence references that are optional and unknown may later be registered by
  another tenant; planned, blocked and rejected evidence counts as known. The
  evidence writer keeps one chain for all tenants.
- The mock queue may replace a completed task, takes a task already completed with
  evidence ids it never looks up, and completes twice or on a worker that has been
  quarantined since.
- The policy builds an allow of a mock action whose context leaves
  `evidence_required` out with an evidence id of its own making, and does not pair
  a settlement's operation with its result.
- The reconciler hears of a failed replay check only "stale" and "blocked", so a
  decision bound to another task, worker, action, scope, chain, binding or token,
  a tainted one or one already used is reconciled when the refs agree
  (`docs/APPROVAL_GUARDIAN_RECONCILIATION_DRILLS.md:37` asks for the parity of
  task and worker). `DriftsMissed` of `MCReconciliation` states it.
- A worker once offline or degraded is never polled again by the same process,
  and one worker that does not answer ends the startup for all of them.

## 12. Plan

Done: the approval lane with its ledger, the worker fleet and the control plane
with its ledger, the operator's endpoint and channel, the operator login, the
training harness, task walks, the mock machines, the policy and the reconciler,
and the proofs of section 8. Left, in this order:

1. An abstract specification of a session (asked, evidenced, in force, over)
   that `ProfileBLogin` implements.
2. `OperatorService` over `ControlPlane` itself instead of its outcomes, on an
   instance of one worker.
3. The worker's side of the channel with boots and sequences in place of `fresh`.

## 13. Running

    tlc -workers 2 -config MCOfficeLane.cfg MCOfficeLane
    tlapm OfficeLane_proofs.tla

and likewise for the rest:

| configuration | expected | distinct states |
|---|---|---|
| `MCOfficeLane.cfg` | no error | 315,663 |
| `MCOfficeLane_session.cfg` | `DecidedByActiveSession` violated | - |
| `MCControlPlane.cfg` | no error | 537,390 |
| `MCControlPlane_retries.cfg` | no error | 525,739 |
| `MCControlPlane_quarantine.cfg` | `QuarantineIsDurable` violated | - |
| `MCControlPlane_registration.cfg` | `RegistrationEvidenced` violated | - |
| `MCOperatorService.cfg` | no error | 1,782,972 |
| `MCProfileBLogin.cfg` | no error | 2,696,151 |
| `MCProfileBLogin_credential.cfg` | `OneOwnerPerCredential` violated | - |
| `MCTrainingHarness.cfg` | no error | 114,241 |
| `MCTrainingHarness_instruction.cfg` | `InstructionKept` violated | - |
| `MCSimulators.cfg` | no error | 66,810 |

Proof modules: `OfficeLane_proofs`, `ControlPlane_proofs`,
`OperatorService_proofs`, `ProfileBLogin_proofs`, `TrainingHarness_proofs`,
`TaskWalk_proofs`, `Simulators_proofs`, `Verdicts_proofs`. Deadlock is checked in the runs
of the lane and of the control plane, where the process may always be restarted;
in the others the bounded inputs run out. Operators named `X_Something` next to an
operator `X` are mutated forms: `X` as a plausible bug would have it. Substituting
one breaks the property that `PROJECT.json` names with it, which shows that the
property depends on that line of the code.
