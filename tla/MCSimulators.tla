----------------------------- MODULE MCSimulators -----------------------------
(* The mock machines and the walk of a task side by side: the initial state  *)
(* picks one of them, and only that one moves.                               *)
EXTENDS MCGuardianPolicy, MCReconciliation, ReplayDrill, TransactionCoordinator, EvidenceLifecycle, MockLifecycles, MockQueue, MCTaskWalk

VARIABLE subject

\* A task at rest, for the runs of the other machines.
WalkIdle ==
    /\ ladder = <<>> /\ at = NoAttempt /\ status = "new" /\ denial = NoDenial
    /\ climbed = {} /\ tries = 0

simulatorVars == <<replayVars, coordinatorVars, evidenceVars, mockVars, queueVars, walkVars, subject>>

Init ==
    /\ subject \in {"replay drill", "replay store", "coordinator", "evidence", "worker", "task", "queue", "walk"}
    /\ ReplayInit /\ CoordinatorInit /\ EvidenceInit /\ MockInit /\ QueueInit
    /\ writerFails => subject = "queue"
    /\ IF subject = "walk" THEN WalkInit ELSE WalkIdle

Walk ==
    /\ subject = "walk" /\ AnAttempt
    /\ UNCHANGED <<replayVars, coordinatorVars, evidenceVars, mockVars, queueVars, subject>>

Next ==
    /\ UNCHANGED subject
    /\ \/ /\ subject = "replay drill" /\ DrillNext
          /\ UNCHANGED <<coordinatorVars, evidenceVars, mockVars, queueVars, walkVars>>
       \/ /\ subject = "replay store" /\ StoreNext
          /\ UNCHANGED <<coordinatorVars, evidenceVars, mockVars, queueVars, walkVars>>
       \/ /\ subject = "coordinator" /\ CoordinatorNext
          /\ UNCHANGED <<replayVars, evidenceVars, mockVars, queueVars, walkVars>>
       \/ /\ subject = "evidence" /\ EvidenceNext
          /\ UNCHANGED <<replayVars, coordinatorVars, mockVars, queueVars, walkVars>>
       \/ /\ subject = "worker" /\ WorkerNext
          /\ UNCHANGED <<replayVars, coordinatorVars, evidenceVars, taskVars, queueVars, walkVars>>
       \/ /\ subject = "task" /\ TaskNext
          /\ UNCHANGED <<replayVars, coordinatorVars, evidenceVars, workerMoves, queueVars, walkVars>>
       \/ /\ subject = "queue" /\ QueueNext
          /\ UNCHANGED <<replayVars, coordinatorVars, evidenceVars, mockVars, walkVars>>
       \/ Walk

\* The walk alone is driven: run_to_rest loops until the task rests.
Spec == Init /\ [][Next]_simulatorVars /\ WF_simulatorVars(Walk)

----------------------------------------------------------------------------

MCBound == [task |-> "task", binding |-> "b1"]
Decision(i, tenant, nonce) ==
    [id |-> i, tenant |-> tenant, nonce |-> nonce, verdict |-> "allow", status |-> "unused",
     age |-> "open", action |-> "review", tainted |-> FALSE, scope |-> {"read"},
     evidence |-> {"e"}, bound |-> MCBound]

\* Two decisions of a tenant under one nonce, and the nonce at another tenant; the
\* first may be replaced by an older or a blocked one when it is registered.
MCDecisions ==
    LET d1 == Decision("d1", "t1", "n1")  d2 == Decision("d2", "t1", "n1") IN
    {d1, d2, Decision("d3", "t2", "n1"), [d1 EXCEPT !.action = "send"], [d2 EXCEPT !.nonce = "n2"]}
        \cup {[d1 EXCEPT !.age = g] : g \in {"expired", "stale", "old"}}

Action(tenant, i, bound) ==
    [tenant |-> tenant, id |-> i, action |-> "review", scope |-> {"read"}, evidence |-> {"e"},
     bound |-> bound, approval |-> FALSE]
MCActions ==
    {Action("t1", i, MCBound) : i \in {"d1", "d2"}} \cup {Action("t2", "d3", MCBound)}
        \cup {Action("t1", "d1", [task |-> "other", binding |-> "b1"]),
              Action("t1", "d1", [task |-> "task", binding |-> "b2"])}

Reservation(i, nonce, linked) ==
    [id |-> i, nonce |-> nonce, action |-> "review", status |-> "reserved",
     atomicity |-> "pending", linked |-> linked,
     tenant |-> "t1", decision |-> "d1", scope |-> {"read"}, bound |-> MCBound]
MCReservations ==
    {Reservation(i, n, l) : i \in {"r1", "r2"}, n \in {"n1", "n2"}, l \in BOOLEAN}
        \cup {[Reservation("r1", "n1", TRUE) EXCEPT !.action = "send"]}

\* The task of the lifecycle simulator, ready for anything or short of something.
Task(prohibited, approval, assigned, refs) ==
    [id |-> "task", decision |-> "d1", tenant |-> "t1", action |-> "review", scope |-> {"read"}, bound |-> MCBound,
     prohibited |-> prohibited, approval |-> approval, assigned |-> assigned,
     evidence |-> refs]
MCTaskPayloads ==
    {Task(FALSE, a, TRUE, {"e"}) : a \in BOOLEAN}
        \cup {Task(TRUE, FALSE, TRUE, {"e"}), Task(FALSE, FALSE, FALSE, {"e"})}
MCTaskDecisions ==
    {Decision("d1", "t1", "n1"), [Decision("d1", "t1", "n1") EXCEPT !.age = "expired"]}
MCTokenSets == {{}, {[tenant |-> "t1", task |-> "task", decision |-> "d1", valid |-> TRUE]}}
MCBindingSets ==
    {{}, {[status |-> "bound", live |-> TRUE, tainted |-> FALSE, requester |-> "w", approver |-> "o",
           action |-> "review", tenant |-> "t1", scope |-> {"read"}, bound |-> MCBound,
           evidence |-> {"e"}]}}
MCEvidenceTasks == {Task(FALSE, TRUE, TRUE, {"e"})}

\* One task id, enqueued without an approval, with one under either of two
\* decisions, or refused, also for an action or a scope of its own that is not the decision's;
\* the decisions' evidence is what the writer writes first.
QueueTask(decision, approval) ==
    [id |-> "q1", tenant |-> "t1", decision |-> decision, action |-> "review", scope |-> {},
     bound |-> [task |-> "q1"], worker |-> {"w1"}, packs |-> {"diagnostics"}, status |-> "in_progress",
     unsafe |-> FALSE, approval |-> approval, evidence |-> {1}]
MCQueuePayloads ==
    {QueueTask("d1", FALSE), QueueTask("d1", TRUE), QueueTask("d2", TRUE),
     [QueueTask("d1", FALSE) EXCEPT !.status = "blocked", !.worker = {}],
     [QueueTask("d1", FALSE) EXCEPT !.unsafe = TRUE]}
        \cup {[QueueTask("d2", FALSE) EXCEPT !.bound = [task |-> "q1", action |-> a], !.scope = s] :
                  a \in {"review", "file"}, s \in {{"read"}, {"write"}}}
MCQueueDecisions ==
    {[id |-> i, tenant |-> "t1", subject |-> {"q1"}, nonce |-> "n1", verdict |-> "allow",
      status |-> "unused", age |-> "open", action |-> "review", tainted |-> FALSE, scope |-> {"read"},
      evidence |-> {1, 2}, bound |-> [task |-> "q1", action |-> "review"]] : i \in {"d1", "d2"}}
MCQueueTokenSets ==
    {{}} \cup {{[tenant |-> "t1", task |-> "q1", decision |-> i, valid |-> v]} :
                  i \in {"d1", "d2"}, v \in BOOLEAN}
MCQueueBindingSets ==
    {{}, {[status |-> "bound", live |-> TRUE, tainted |-> FALSE, requester |-> "w", approver |-> "o",
           action |-> "review", tenant |-> "t1", scope |-> {"read"}, bound |-> [task |-> "q1"],
           evidence |-> {1}]}}
MCQueueWorkers == [w1 |-> [tenant |-> "t1", packs |-> {"diagnostics"}]]
=============================================================================
