------------------------------ MODULE MockQueue ------------------------------
(***************************************************************************)
(* The mock task queue and the evidence writer it completes tasks against  *)
(* (supervisor/task_queue.py, evidence/writer.py).  The queue keeps three  *)
(* maps by task id - the task, the decision and the token verification it  *)
(* was enqueued with - and an id may be enqueued again at any time, which  *)
(* replaces what the maps hold.  Completion reads all three and the        *)
(* writer's artifacts.  The worker registry moves between the two, and     *)
(* only enqueue looks at it.  A refused call raises and changes nothing.   *)
(***************************************************************************)
EXTENDS GuardianReplay, Functions, Sequences, SequencesExt

CONSTANTS
    QueuePayloads,     \* task.execution payloads a caller may enqueue
    QueueDecisions,    \* guardian.decision payloads
    QueueTokenSets,    \* sets of at most one token.verification payload
    QueueBindingSets,
    QueueWorkers,      \* the registered workers: id -> tenant and tool packs
    MaxArtifacts       \* bound on what the writer writes

\* The contract makes these required of a task.execution.
ASSUME QueuePayloadsAssumption ==
    \A t \in QueuePayloads : {"tenant", "decision", "approval"} \subseteq DOMAIN t

VARIABLES
    tasks, decisionOf, tokenOf,    \* TaskQueue: task id -> payload
    artifacts, failures,           \* EvidenceWriter: sequences, in the order written
    writerFails,                   \* fail_writes, fixed when the writer is made
    workerState                    \* WorkerRegistry: worker -> state

heldVars == <<tasks, decisionOf, tokenOf>>
writerVars == <<artifacts, failures, writerFails>>
queueVars == <<heldVars, writerVars, workerState>>

Held(map, i, x) == [j \in DOMAIN map \cup {i} |-> IF j = i THEN x ELSE map[j]]

QueueInit ==
    /\ tasks = <<>> /\ decisionOf = <<>> /\ tokenOf = <<>>
    /\ artifacts = <<>> /\ failures = <<>> /\ writerFails \in BOOLEAN
    /\ workerState = [w \in DOMAIN QueueWorkers |-> "healthy"]

----------------------------------------------------------------------------

Artifact(tenant, subject, decision) ==
    [tenant |-> tenant, subject |-> subject, decision |-> decision]

\* write_artifact: an artifact is known by its place in the one chain of the
\* writer, whatever its tenant.
write_artifact(tenant, subject, decision) ==
    /\ ~writerFails /\ Len(artifacts) < MaxArtifacts
    /\ artifacts' = Append(artifacts, Artifact(tenant, subject, decision))
    /\ UNCHANGED <<heldVars, failures, writerFails, workerState>>

\* write_artifact on a failing writer: write_failure, then the error.
write_failure(tenant, subject, decision) ==
    /\ writerFails /\ Len(failures) < MaxArtifacts
    /\ failures' = Append(failures, Artifact(tenant, subject, decision))
    /\ UNCHANGED <<heldVars, artifacts, writerFails, workerState>>

\* require_evidence: known artifacts of this tenant, subject and decision.
Evidenced(refs, tenant, subject, decision) ==
    /\ refs # {} /\ refs \subseteq DOMAIN artifacts
    /\ \A n \in refs : artifacts[n] = Artifact(tenant, subject, decision)

----------------------------------------------------------------------------

\* update_state: a revoked worker stays revoked, a quarantined one is at most revoked.
update_state(w, state) ==
    /\ workerState[w] = "revoked" => state = "revoked"
    /\ workerState[w] = "quarantined" => state \in {"quarantined", "revoked"}
    /\ workerState' = [workerState EXCEPT ![w] = state]
    /\ UNCHANGED <<heldVars, writerVars>>

\* require_assignable and assert_worker_can_receive_task; a task may name no worker.
WorkerCanReceive(t) ==
    \A w \in t.worker :
        /\ w \in DOMAIN QueueWorkers
        /\ QueueWorkers[w].tenant = t.tenant
        /\ workerState[w] \in {"registered", "healthy"}
        /\ t.packs \subseteq QueueWorkers[w].packs

\* assert_guardian_decision_authorizes_task.
AuthorizesTask(d, t) ==
    /\ d.verdict \in {"allow", "allow_with_evidence"}
    /\ d.tenant = t.tenant /\ d.id = t.decision
    /\ d.subject \subseteq {t.id}
    /\ d.evidence # {} /\ ~d.tainted
    /\ ReplaySafe(d, ActionOf(t, d), {})

\* _validate_token_if_required: the token a task is held with, {} for one that
\* needs no approval.
TokenAccepted(t, token, binding) ==
    t.approval => token # {} /\ binding # {} /\ TokenAuthorizes(t, token, binding)
VerifiedToken(t, token) == IF t.approval THEN token ELSE {}

\* _assert_safe_task.
SafeTask(t) ==
    /\ ~t.unsafe
    /\ t.status \in {"completed_mock", "evidence_recorded", "blocked", "denied", "failed",
                     "cancelled", "timed_out"} => t.evidence # {}

\* Mutated form: a token that is already there is kept.
TokenHeld_KeptFirst(i, token) ==
    IF token = {} \/ i \in DOMAIN tokenOf THEN tokenOf ELSE Held(tokenOf, i, token)

\* The verified token replaces the one the id was held with; without one the
\* earlier one stays.
TokenHeld(i, token) == IF token = {} THEN tokenOf ELSE Held(tokenOf, i, token)

enqueue(t, d, token, binding) ==
    /\ AuthorizesTask(d, t)
    /\ WorkerCanReceive(t)
    /\ TokenAccepted(t, token, binding)
    /\ SafeTask(t)
    /\ tasks' = Held(tasks, t.id, t)
    /\ decisionOf' = Held(decisionOf, t.id, d)
    /\ tokenOf' = TokenHeld(t.id, VerifiedToken(t, token))
    /\ UNCHANGED <<writerVars, workerState>>

TokenOf(i) == IF i \in DOMAIN tokenOf THEN tokenOf[i] ELSE {}

\* assert_task_completion_allowed: the task as held, with what it is held with.
CompletionAllowed(i, refs) ==
    /\ AuthorizesTask(decisionOf[i], tasks[i])
    /\ TokenAuthorizes(tasks[i], TokenOf(i), {})
    /\ tasks[i].status \notin {"blocked", "denied", "failed", "blocked_evidence_unavailable",
                               "cancelled", "timed_out"}
    /\ refs # {}

complete_mock(i, refs) ==
    /\ CompletionAllowed(i, refs)
    /\ Evidenced(refs, tasks[i].tenant, i, decisionOf[i].id)
    /\ tasks' = [tasks EXCEPT ![i].status = "completed_mock", ![i].evidence = refs]
    /\ UNCHANGED <<decisionOf, tokenOf, writerVars, workerState>>

QueueNext ==
    \/ \E t \in QueuePayloads, d \in QueueDecisions, token \in QueueTokenSets,
          binding \in QueueBindingSets : enqueue(t, d, token, binding)
    \/ \E i \in DOMAIN tasks, refs \in SUBSET (1..MaxArtifacts) : complete_mock(i, refs)
    \/ \E t \in QueuePayloads, d \in QueueDecisions :
          write_artifact(t.tenant, t.id, d.id) \/ write_failure(t.tenant, t.id, d.id)
    \/ \E w \in DOMAIN QueueWorkers, s \in {"healthy", "offline", "quarantined", "revoked"} :
          update_state(w, s)

----------------------------------------------------------------------------

\* What the queue holds beside a task is what authorises that task and no
\* earlier one of its id: the decision it names, and, when it needs approval,
\* a valid token verified for this task under this decision; a task that is
\* completed again or enqueued again never rides on what was there before.
HeldWithItsAuthority ==
    \A i \in DOMAIN tasks :
        LET t == tasks[i] IN
        /\ i \in DOMAIN decisionOf
        /\ decisionOf[i].id = t.decision /\ decisionOf[i].tenant = t.tenant
        /\ t.approval =>
               \E token \in TokenOf(i) :
                   token.valid /\ token.task = i /\ token.decision = t.decision
                       /\ token.tenant = t.tenant
=============================================================================
