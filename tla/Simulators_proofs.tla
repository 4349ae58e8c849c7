-------------------------- MODULE Simulators_proofs --------------------------
(***************************************************************************)
(* The mock machines, each under its own specification: the drill and the  *)
(* stores of Guardian replay, the transaction coordinator, the evidence    *)
(* lifecycle, the worker and task lifecycles and the mock queue.  Every    *)
(* property the simulator run checks of them, for all decisions, events,   *)
(* evidence, tasks and payloads and for logs of any length.                *)
(*                                                                         *)
(* Two of the invariants say that a log is a path of its transition table  *)
(* (LogIsPath, MovesArePath): what must have come before a consumed        *)
(* decision or a completed task is then read off the table backwards.      *)
(***************************************************************************)
EXTENDS ReplayDrill, TransactionCoordinator, EvidenceLifecycle, MockLifecycles, MockQueue,
        SequenceTheorems, FiniteSetTheorems, TLAPS

(* The drill and the stores. *)

ReplaySpec == ReplayInit /\ [][DrillNext \/ StoreNext]_replayVars

DrillRecords ==
    [state : DrillStates, tenant : {d.tenant : d \in Decisions}, nonce : Nonces]

\* A decision holds its slot from its reservation on, whatever becomes of it.
Holds(i) == drill[i].state \notin {"unknown", "planned", "decision_registered"}

DrillInv ==
    /\ drill \in [DecisionIds -> {Unknown} \cup DrillRecords]
    /\ \A i, j \in DecisionIds : Holds(i) /\ Holds(j) /\ Slot(i) = Slot(j) => i = j
    /\ \A i \in DecisionIds :
        /\ Holds(i) => Slot(i) \in reserved \cup consumed
        /\ drill[i].state \in {"nonce_reserved", "first_use_validated"} =>
               Slot(i) \in reserved \ consumed
        /\ drill[i].state \in {"nonce_consumed", "replay_denied"} =>
               Slot(i) \in consumed \ reserved

UseInv ==
    /\ authorised \in [{"store", "verifier"} -> [Nonces -> Nat]]
    /\ AuthorisedOnce
    /\ \A n \in Nonces :
        /\ n \notin spent => authorised["store"][n] = 0
        /\ n \notin verified => authorised["verifier"][n] = 0

(* The transaction coordinator. *)

CoordinatorSpec == CoordinatorInit /\ [][CoordinatorNext]_coordinatorVars

CoordinatorRecords ==
    [key : IdempotencyKeys, type : EventTypes, expects : {{}, {"transaction_failed_closed"}}]

\* What may still follow a consumed decision: never another.
AfterConsumption ==
    {"post_action_evidence_appended", "transaction_committed", "transaction_rolled_back",
     "transaction_failed_closed", "reconciliation_started", "reconciliation_completed"}

LogIsPath(t) ==
    \A n \in DOMAIN log[t] :
        IF n = 1 THEN TypeAt(t, n) = "transaction_started"
                 ELSE TypeAt(t, n) \in EVENT_TRANSITIONS[TypeAt(t, n - 1)]

CoordinatorInv ==
    /\ log \in [Transactions -> Seq(CoordinatorRecords)]
    /\ keyOf \in [IdempotencyKeys -> Transactions \cup {NoTransaction}]
    /\ \A t \in Transactions :
        /\ \A n \in DOMAIN log[t] : keyOf[log[t][n].key] = t
        /\ LogIsPath(t)
        /\ \A m, n \in DOMAIN log[t] :
               m < n /\ TypeAt(t, m) = "decision_consumed" => TypeAt(t, n) \in AfterConsumption

(* The evidence lifecycle. *)

EvidenceSpec == EvidenceInit /\ [][EvidenceNext]_evidenceVars

EvidenceRecords ==
    [state : EvidenceStates \cup {"planned"}, tenant : EvidenceTenants, required : SUBSET Evidence]

EvidenceInv ==
    /\ evidence \in [Evidence -> {Unplanned} \cup EvidenceRecords]
    /\ tenantOf \in [Evidence -> EvidenceTenants \cup {NoTenant}]
    /\ \A e \in Evidence : tenantOf[e] # NoTenant =>
           evidence[e] # Unplanned /\ evidence[e].tenant = tenantOf[e]
    /\ RequiredRefsStayInTenant

(* The task lifecycle; the worker moves on its own. *)

MockSpec ==
    MockInit /\ [][ \/ TaskNext /\ UNCHANGED workerMoves
                    \/ WorkerNext /\ UNCHANGED taskVars ]_mockVars

MovesArePath ==
    \A n \in DOMAIN taskMoves :
        IF n = 1 THEN taskMoves[n] \notin EXECUTABLE_STATES
                 ELSE taskMoves[n] \in TASK_TRANSITIONS[taskMoves[n - 1]]

TaskInv ==
    /\ taskMoves \in Seq(DOMAIN TASK_TRANSITIONS)
    /\ taskMoves = <<>> => task = NoTask
    /\ MovesArePath

WorkerStates == DOMAIN WORKER_TRANSITIONS

WorkerInv == workerMoves \in Seq(WorkerStates) /\ ReturnsReenrolled

(* The mock queue. *)

QueueSpec == QueueInit /\ [][QueueNext]_queueVars

QueueInv ==
    /\ \A i \in DOMAIN tasks : {"tenant", "decision", "approval"} \subseteq DOMAIN tasks[i]
    /\ HeldWithItsAuthority
----------------------------------------------------------------------------
(* The drill: a slot has one holder, and the nonce sets follow it. *)

\* The moves of a drill, by the state it stands in.
LEMMA DrillMoves ==
    /\ \A s \in DOMAIN DRILL_TRANSITIONS : DRILL_TRANSITIONS[s] \subseteq DrillStates
    /\ \A s \in DOMAIN DRILL_TRANSITIONS : "decision_registered" \in DRILL_TRANSITIONS[s] => s = "planned"
    /\ \A s \in DOMAIN DRILL_TRANSITIONS : "nonce_reserved" \in DRILL_TRANSITIONS[s] => s = "decision_registered"
    /\ \A s \in DOMAIN DRILL_TRANSITIONS : "first_use_validated" \in DRILL_TRANSITIONS[s] => s = "nonce_reserved"
    /\ \A s \in DOMAIN DRILL_TRANSITIONS : "nonce_consumed" \in DRILL_TRANSITIONS[s] => s = "first_use_validated"
    /\ \A s \in DOMAIN DRILL_TRANSITIONS : "replay_denied" \in DRILL_TRANSITIONS[s] => s = "nonce_consumed"
    /\ \A s \in DOMAIN DRILL_TRANSITIONS : \A to \in DRILL_TRANSITIONS[s] :
           to \notin {"decision_registered", "nonce_reserved", "first_use_validated",
                      "nonce_consumed", "replay_denied"} => s = "nonce_reserved"
    /\ DrillStates \cap {"unknown"} = {} /\ "planned" \in DrillStates
  BY DEF DRILL_TRANSITIONS, DrillStates

Early == {"unknown", "planned", "decision_registered"}
Waiting == {"nonce_reserved", "first_use_validated"}
Gone == {"nonce_consumed", "replay_denied"}

\* What DrillInv says of a table of drills and the two sets of nonces.
GoodDrill(f, res, con) ==
    /\ f \in [DecisionIds -> {Unknown} \cup DrillRecords]
    /\ \A i, j \in DecisionIds :
           /\ f[i].state \notin Early /\ f[j].state \notin Early
           /\ <<f[i].tenant, f[i].nonce>> = <<f[j].tenant, f[j].nonce>>
           => i = j
    /\ \A i \in DecisionIds :
        /\ f[i].state \notin Early => <<f[i].tenant, f[i].nonce>> \in res \cup con
        /\ f[i].state \in Waiting => <<f[i].tenant, f[i].nonce>> \in res \ con
        /\ f[i].state \in Gone => <<f[i].tenant, f[i].nonce>> \in con \ res

LEMMA DrillPerTable == DrillInv <=> GoodDrill(drill, reserved, consumed)
  BY DEF DrillInv, GoodDrill, Holds, Slot, Early, Waiting, Gone

\* A drill that may walk is known; walking changes its state and nothing else.
LEMMA WalkedTo ==
    ASSUME DrillInv, NEW i \in DecisionIds, NEW to, MayWalk(i, to), Walked(i, to)
    PROVE  /\ drill[i] \in DrillRecords /\ drill' = [drill EXCEPT ![i].state = to]
           /\ drill' \in [DecisionIds -> {Unknown} \cup DrillRecords]
           /\ drill'[i].state = to
           /\ drill'[i].tenant = drill[i].tenant /\ drill'[i].nonce = drill[i].nonce
           /\ \A j \in DecisionIds \ {i} : drill'[j] = drill[j]
<1>1. /\ drill \in [DecisionIds -> {Unknown} \cup DrillRecords]
      /\ drill[i] \in DrillRecords /\ to \in DrillStates
  BY DrillMoves DEF DrillInv, MayWalk
<1>2. drill' = [drill EXCEPT ![i].state = to]
  BY DEF Walked
<1>3. \A g \in DrillRecords :
          /\ [g EXCEPT !.state = to] \in DrillRecords
          /\ [g EXCEPT !.state = to].state = to
          /\ [g EXCEPT !.state = to].tenant = g.tenant
          /\ [g EXCEPT !.state = to].nonce = g.nonce
  BY <1>1 DEF DrillRecords
<1>4. /\ drill'[i] = [drill[i] EXCEPT !.state = to]
      /\ \A j \in DecisionIds \ {i} : drill'[j] = drill[j]
      /\ DOMAIN drill' = DecisionIds /\ drill' = [j \in DecisionIds |-> drill'[j]]
  BY <1>1, <1>2
<1>5. \A j \in DecisionIds : drill'[j] \in {Unknown} \cup DrillRecords
  BY <1>1, <1>3, <1>4
<1> QED
  BY <1>1, <1>2, <1>3, <1>4, <1>5

LEMMA DrillRegister ==
    ASSUME DrillInv, NEW d \in Decisions, drill_register(d) PROVE DrillInv'
<1> DEFINE r == [state |-> "planned", tenant |-> d.tenant, nonce |-> d.nonce]
<1>1. d.id \in DecisionIds /\ r \in DrillRecords /\ r.state \in Early
          /\ r.state \notin Waiting \cup Gone
  BY DrillMoves DEF DecisionIds, DrillRecords, Nonces, Early, Waiting, Gone
<1>2. drill' = [drill EXCEPT ![d.id] = r] /\ reserved' = reserved /\ consumed' = consumed
  BY DEF drill_register
<1> HIDE DEF r
<1>3. GoodDrill(drill, reserved, consumed)
  BY DrillPerTable
<1>4. /\ drill' \in [DecisionIds -> {Unknown} \cup DrillRecords] /\ drill'[d.id] = r
      /\ \A j \in DecisionIds \ {d.id} : drill'[j] = drill[j]
  BY <1>1, <1>2, <1>3 DEF GoodDrill
<1>5. GoodDrill(drill', reserved', consumed')
  BY <1>1, <1>2, <1>3, <1>4 DEF GoodDrill
<1> QED
  BY <1>5 DEF DrillInv, GoodDrill, Holds, Slot, Early, Waiting, Gone

\* A slot that is reserved had no holder.
LEMMA DrillReserve ==
    ASSUME DrillInv, NEW i \in DecisionIds, reserve_nonce(i) PROVE DrillInv'
<1> DEFINE x == <<drill[i].tenant, drill[i].nonce>>
<1>1. /\ drill' \in [DecisionIds -> {Unknown} \cup DrillRecords]
      /\ drill'[i].state = "nonce_reserved"
      /\ <<drill'[i].tenant, drill'[i].nonce>> = x
      /\ \A j \in DecisionIds \ {i} : drill'[j] = drill[j]
  BY WalkedTo DEF reserve_nonce
<1>2. x \notin reserved \cup consumed /\ reserved' = reserved \cup {x} /\ consumed' = consumed
  BY DEF reserve_nonce, Reservable, Slot
<1> HIDE DEF x
<1>3. GoodDrill(drill, reserved, consumed)
  BY DrillPerTable
<1>4. \A j \in DecisionIds \ {i} :
          drill[j].state \notin Early => <<drill[j].tenant, drill[j].nonce>> # x
  BY <1>2, <1>3 DEF GoodDrill
<1>5. /\ drill'[i].state \notin Early /\ drill'[i].state \in Waiting /\ drill'[i].state \notin Gone
      /\ \A s : s \in Waiting \cup Gone => s \notin Early
  BY <1>1 DEF Early, Waiting, Gone
<1>6. GoodDrill(drill', reserved', consumed')
  <2>1. ASSUME NEW j \in DecisionIds, NEW k \in DecisionIds,
               drill'[j].state \notin Early, drill'[k].state \notin Early,
               <<drill'[j].tenant, drill'[j].nonce>> = <<drill'[k].tenant, drill'[k].nonce>>
        PROVE  j = k
    <3>1. CASE j # i /\ k # i
      BY <3>1, <2>1, <1>1, <1>3 DEF GoodDrill
    <3>2. CASE j = i /\ k # i
      BY <3>2, <2>1, <1>1, <1>4
    <3>3. CASE j # i /\ k = i
      BY <3>3, <2>1, <1>1, <1>4
    <3> QED
      BY <3>1, <3>2, <3>3
  <2>2. ASSUME NEW j \in DecisionIds
        PROVE  /\ drill'[j].state \notin Early =>
                      <<drill'[j].tenant, drill'[j].nonce>> \in reserved' \cup consumed'
               /\ drill'[j].state \in Waiting =>
                      <<drill'[j].tenant, drill'[j].nonce>> \in reserved' \ consumed'
               /\ drill'[j].state \in Gone =>
                      <<drill'[j].tenant, drill'[j].nonce>> \in consumed' \ reserved'
    <3>1. CASE j = i
      BY <3>1, <1>1, <1>2, <1>5
    <3>2. CASE j # i
      BY <3>2, <1>1, <1>2, <1>3, <1>4, <1>5 DEF GoodDrill
    <3> QED
      BY <3>1, <3>2
  <2> QED
    BY <1>1, <2>1, <2>2 DEF GoodDrill
<1> QED
  BY <1>6 DEF DrillInv, GoodDrill, Holds, Slot, Early, Waiting, Gone

\* A drill that holds its slot moves on: nobody else holds it.
LEMMA DrillMovesOn ==
    ASSUME DrillInv, NEW i \in DecisionIds, NEW to, MayWalk(i, to), Walked(i, to),
           drill[i].state \notin Early, to \notin Early,
           \/ /\ UNCHANGED <<reserved, consumed>>
              /\ to \in Waiting => drill[i].state \in Waiting
              /\ to \in Gone => drill[i].state \in Gone
           \/ /\ to = "nonce_consumed"
              /\ reserved' = reserved \ {Slot(i)} /\ consumed' = consumed \cup {Slot(i)}
    PROVE  DrillInv'
<1> DEFINE x == <<drill[i].tenant, drill[i].nonce>>
<1>1. /\ drill' \in [DecisionIds -> {Unknown} \cup DrillRecords]
      /\ drill'[i].state = to
      /\ <<drill'[i].tenant, drill'[i].nonce>> = x
      /\ \A j \in DecisionIds \ {i} : drill'[j] = drill[j]
  BY WalkedTo
<1>2. Slot(i) = x
  BY DEF Slot
<1> HIDE DEF x
<1>3. GoodDrill(drill, reserved, consumed)
  BY DrillPerTable
<1>4. \A j \in DecisionIds \ {i} :
          drill[j].state \notin Early => <<drill[j].tenant, drill[j].nonce>> # x
  BY <1>3 DEF GoodDrill, x
<1>5. \A s : s \in Waiting \cup Gone => s \notin Early
  BY DEF Early, Waiting, Gone
<1>6. "nonce_consumed" \notin Waiting
  BY DEF Waiting
<1>7. ASSUME NEW j \in DecisionIds, NEW k \in DecisionIds,
             drill'[j].state \notin Early, drill'[k].state \notin Early,
             <<drill'[j].tenant, drill'[j].nonce>> = <<drill'[k].tenant, drill'[k].nonce>>
      PROVE  j = k
  <2>1. CASE j # i /\ k # i
    BY <2>1, <1>7, <1>1, <1>3 DEF GoodDrill
  <2>2. CASE j = i /\ k # i
    BY <2>2, <1>7, <1>1, <1>4
  <2>3. CASE j # i /\ k = i
    BY <2>3, <1>7, <1>1, <1>4
  <2> QED
    BY <2>1, <2>2, <2>3
<1>8. ASSUME NEW j \in DecisionIds
      PROVE  /\ drill'[j].state \notin Early =>
                    <<drill'[j].tenant, drill'[j].nonce>> \in reserved' \cup consumed'
             /\ drill'[j].state \in Waiting =>
                    <<drill'[j].tenant, drill'[j].nonce>> \in reserved' \ consumed'
             /\ drill'[j].state \in Gone =>
                    <<drill'[j].tenant, drill'[j].nonce>> \in consumed' \ reserved'
  <2>1. CASE j = i
    <3>1. /\ x \in reserved \cup consumed
          /\ drill[i].state \in Waiting => x \in reserved \ consumed
          /\ drill[i].state \in Gone => x \in consumed \ reserved
      BY <1>3 DEF GoodDrill, x
    <3> QED
      BY <2>1, <3>1, <1>1, <1>2, <1>6
  <2>2. CASE j # i
    BY <2>2, <1>1, <1>2, <1>3, <1>4, <1>5 DEF GoodDrill
  <2> QED
    BY <2>1, <2>2
<1>9. GoodDrill(drill', reserved', consumed')
  BY <1>1, <1>7, <1>8 DEF GoodDrill
<1> QED
  BY <1>9 DEF DrillInv, GoodDrill, Holds, Slot, Early, Waiting, Gone

\* Registering the decision brings it no closer to its slot.
LEMMA DrillDecided ==
    ASSUME DrillInv, NEW i \in DecisionIds, MayWalk(i, "decision_registered"),
           Walked(i, "decision_registered"), UNCHANGED <<reserved, consumed>>
    PROVE  DrillInv'
<1>1. /\ drill' \in [DecisionIds -> {Unknown} \cup DrillRecords]
      /\ drill'[i].state = "decision_registered"
      /\ \A j \in DecisionIds \ {i} : drill'[j] = drill[j]
  BY WalkedTo
<1>2. drill'[i].state \in Early /\ drill'[i].state \notin Waiting \cup Gone
  BY <1>1 DEF Early, Waiting, Gone
<1>3. GoodDrill(drill, reserved, consumed)
  BY DrillPerTable
<1>4. GoodDrill(drill', reserved', consumed')
  BY <1>1, <1>2, <1>3 DEF GoodDrill
<1> QED
  BY <1>4 DEF DrillInv, GoodDrill, Holds, Slot, Early, Waiting, Gone

LEMMA DrillStep == ASSUME DrillInv, DrillNext PROVE DrillInv'
<1>1. ASSUME NEW d \in Decisions, drill_register(d) PROVE DrillInv'
  BY <1>1, DrillRegister
<1>2. ASSUME NEW d \in Decisions, register_decision(d) PROVE DrillInv'
  <2>1. d.id \in DecisionIds
    BY DEF DecisionIds
  <2> QED
    BY <1>2, <2>1, DrillDecided DEF register_decision
<1>3. ASSUME NEW i \in DecisionIds, reserve_nonce(i) PROVE DrillInv'
  BY <1>3, DrillReserve
<1>4. ASSUME NEW i \in DecisionIds, consume_nonce(i) PROVE DrillInv'
  <2>1. /\ MayWalk(i, "nonce_consumed") /\ Walked(i, "nonce_consumed")
        /\ reserved' = reserved \ {Slot(i)} /\ consumed' = consumed \cup {Slot(i)}
    BY <1>4 DEF consume_nonce
  <2>2. drill[i].state = "first_use_validated"
    BY <2>1, DrillMoves DEF MayWalk
  <2>3. drill[i].state \notin Early /\ "nonce_consumed" \notin Early
    BY <2>2 DEF Early
  <2> QED
    BY <2>1, <2>3, DrillMovesOn
<1>5. ASSUME NEW i \in DecisionIds, NEW a, NEW papers, validate_first_use(i, a, papers)
      PROVE  DrillInv'
  <2>1. /\ MayWalk(i, "first_use_validated") /\ Walked(i, "first_use_validated")
        /\ UNCHANGED <<reserved, consumed>>
    BY <1>5 DEF validate_first_use
  <2>2. drill[i].state = "nonce_reserved"
    BY <2>1, DrillMoves DEF MayWalk
  <2>3. drill[i].state \notin Early /\ drill[i].state \in Waiting
            /\ "first_use_validated" \notin Early \cup Gone
    BY <2>2 DEF Early, Waiting, Gone
  <2> QED
    BY <2>1, <2>3, DrillMovesOn
<1>6. ASSUME NEW i \in DecisionIds, NEW a, NEW to \in DrillStates, record_denial(i, a, to)
      PROVE  DrillInv'
  <2>1. /\ MayWalk(i, to) /\ Walked(i, to) /\ UNCHANGED <<reserved, consumed>>
        /\ to \notin {"nonce_reserved", "first_use_validated", "nonce_consumed",
                      "decision_registered"}
    BY <1>6 DEF record_denial
  <2>2. IF to = "replay_denied" THEN drill[i].state = "nonce_consumed"
                                ELSE drill[i].state = "nonce_reserved"
    BY <2>1, DrillMoves DEF MayWalk
  <2>3. to # "planned"
    <3>1. \A s \in DOMAIN DRILL_TRANSITIONS : "planned" \notin DRILL_TRANSITIONS[s]
      BY DEF DRILL_TRANSITIONS
    <3> QED
      BY <3>1, <2>1 DEF MayWalk
  <2>4. /\ drill[i].state \notin Early /\ to \notin Early \cup Waiting
        /\ to \in Gone => drill[i].state \in Gone
    BY <2>1, <2>2, <2>3, DrillMoves DEF Early, Waiting, Gone
  <2> QED
    BY <2>1, <2>4, DrillMovesOn
<1> QED
  BY <1>1, <1>2, <1>3, <1>4, <1>5, <1>6 DEF DrillNext

\* A use of a nonce that was not used before: its count is one, and it is spent.
LEMMA UsedOnce ==
    ASSUME UseInv, NEW by \in {"store", "verifier"}, NEW n \in Nonces,
           authorised[by][n] = 0, Used(by, n)
    PROVE  /\ authorised' \in [{"store", "verifier"} -> [Nonces -> Nat]]
           /\ authorised'[by][n] = 1
           /\ \A m \in Nonces \ {n} : authorised'[by][m] = authorised[by][m]
           /\ \A other \in {"store", "verifier"} \ {by} : authorised'[other] = authorised[other]
<1>1. authorised \in [{"store", "verifier"} -> [Nonces -> Nat]]
  BY DEF UseInv
<1>2. authorised' = [authorised EXCEPT ![by][n] = @ + 1]
  BY DEF Used
<1>3. /\ authorised'[by] = [authorised[by] EXCEPT ![n] = authorised[by][n] + 1]
      /\ \A other \in {"store", "verifier"} \ {by} : authorised'[other] = authorised[other]
      /\ DOMAIN authorised' = {"store", "verifier"}
      /\ authorised' = [o \in {"store", "verifier"} |-> authorised'[o]]
  BY <1>1, <1>2
<1>4. authorised'[by] \in [Nonces -> Nat] /\ authorised'[by][n] = 1
          /\ \A m \in Nonces \ {n} : authorised'[by][m] = authorised[by][m]
  BY <1>1, <1>3
<1> QED
  BY <1>1, <1>3, <1>4

LEMMA StoreStep == ASSUME UseInv, StoreNext PROVE UseInv'
<1>1. /\ authorised \in [{"store", "verifier"} -> [Nonces -> Nat]]
      /\ DOMAIN authorised = {"store", "verifier"}
      /\ \A by \in {"store", "verifier"} : \A n \in Nonces : authorised[by][n] <= 1
      /\ \A n \in Nonces : /\ n \notin spent => authorised["store"][n] = 0
                           /\ n \notin verified => authorised["verifier"][n] = 0
  BY DEF UseInv, AuthorisedOnce
<1>2. ASSUME NEW r \in Reservations, NEW actions, NEW decisions, NEW bindings,
             authorize_first_use(r, actions, decisions, bindings)
      PROVE  UseInv'
  <2>1. r.nonce \in Nonces /\ r.nonce \notin spent /\ spent' = spent \cup {r.nonce}
            /\ verified' = verified
    BY <1>2 DEF authorize_first_use, NonceSpent, Nonces
  <2>2. CASE Used("store", r.nonce)
    BY <1>1, <2>1, <2>2, UsedOnce DEF UseInv, AuthorisedOnce
  <2>3. CASE UNCHANGED authorised
    BY <1>1, <2>1, <2>3 DEF UseInv, AuthorisedOnce
  <2> QED
    BY <1>2, <2>2, <2>3 DEF authorize_first_use
<1>3. ASSUME NEW d \in Decisions, NEW a, verify_once(d, a) PROVE UseInv'
  <2>1. d.nonce \in Nonces /\ d.nonce \notin verified /\ verified' = verified \cup {d.nonce}
            /\ spent' = spent /\ Used("verifier", d.nonce)
    BY <1>3 DEF verify_once, ReplaySafe, Nonces, storeVars
  <2> QED
    BY <1>1, <2>1, UsedOnce DEF UseInv, AuthorisedOnce
<1>4. CASE UNCHANGED <<spent, verified, authorised>>
  BY <1>1, <1>4 DEF UseInv, AuthorisedOnce
<1>5. ASSUME NEW r \in Reservations, mark_replay_denied(r) \/ fail_closed(r)
      PROVE  UNCHANGED <<spent, verified, authorised>>
  BY <1>5 DEF mark_replay_denied, fail_closed
<1> QED
  BY <1>2, <1>3, <1>4, <1>5 DEF StoreNext

ReplayInv == DrillInv /\ UseInv

\* The two machines leave each other alone.
LEMMA ReplayInvariance == ReplaySpec => []ReplayInv
<1>1. ReplayInit => ReplayInv
  <2> SUFFICES ASSUME ReplayInit PROVE ReplayInv
    OBVIOUS
  <2>1. \A i \in DecisionIds : drill[i] = Unknown /\ drill[i].state = "unknown"
    BY DEF ReplayInit, Unknown
  <2>2. DrillInv
    BY <2>1 DEF ReplayInit, DrillInv, Holds
  <2>3. UseInv
    BY DEF ReplayInit, UseInv, AuthorisedOnce
  <2> QED
    BY <2>2, <2>3 DEF ReplayInv
<1>2. ReplayInv /\ [DrillNext \/ StoreNext]_replayVars => ReplayInv'
  <2> SUFFICES ASSUME ReplayInv, [DrillNext \/ StoreNext]_replayVars PROVE ReplayInv'
    OBVIOUS
  <2>1. UNCHANGED drillVars => DrillInv'
    BY DEF ReplayInv, DrillInv, Holds, Slot, drillVars
  <2>2. UNCHANGED <<spent, verified, authorised>> => UseInv'
    BY DEF ReplayInv, UseInv, AuthorisedOnce
  <2>3. CASE DrillNext
    <3>1. UNCHANGED <<spent, verified, authorised>>
      BY <2>3 DEF DrillNext
    <3> QED
      BY <2>2, <2>3, <3>1, DrillStep DEF ReplayInv
  <2>4. CASE StoreNext
    <3>1. UNCHANGED drillVars
      BY <2>4 DEF StoreNext
    <3> QED
      BY <2>1, <2>4, <3>1, StoreStep DEF ReplayInv
  <2>5. CASE UNCHANGED replayVars
    BY <2>1, <2>2, <2>5 DEF ReplayInv, replayVars, drillVars
  <2> QED
    BY <2>3, <2>4, <2>5
<1> QED
  BY <1>1, <1>2, PTL DEF ReplaySpec

\* Of all the decisions a tenant registers under one nonce, at most one is ever
\* validated for use, and the nonce is reserved or consumed on its behalf, for
\* every set of decisions and actions (replay_drill_simulator.py).
THEOREM SlotsAreUsedOnce == ReplaySpec => []FirstUseOnce
<1>1. DrillInv => FirstUseOnce
  BY DEF DrillInv, FirstUseOnce, InUse, Holds
<1> QED
  BY <1>1, ReplayInvariance, PTL DEF ReplayInv

\* Neither the replay store nor the decision verifier lets a nonce through twice,
\* for every set of reservations and decisions and however their records are
\* overwritten (replay_store.py, replay.py).
THEOREM NoncesAreAuthorisedOnce == ReplaySpec => []AuthorisedOnce
<1>1. UseInv => AuthorisedOnce
  BY DEF UseInv
<1> QED
  BY <1>1, ReplayInvariance, PTL DEF ReplayInv

----------------------------------------------------------------------------
(* The transaction coordinator: what must have come before a consumption. *)

\* The table around a consumed decision.
LEMMA TableAroundConsumption ==
    /\ \A s \in EventTypes : EVENT_TRANSITIONS[s] \subseteq EventTypes
    /\ \A s \in EventTypes : "decision_consumed" \in EVENT_TRANSITIONS[s] =>
           s = "pre_action_evidence_appended"
    /\ \A s \in EventTypes : "pre_action_evidence_appended" \in EVENT_TRANSITIONS[s] =>
           s = "token_binding_verified"
    /\ \A s \in AfterConsumption \cup {"decision_consumed"} :
           EVENT_TRANSITIONS[s] \subseteq AfterConsumption
    /\ AfterConsumption \subseteq EventTypes \ {"decision_consumed"}
  BY DEF EventTypes, EVENT_TRANSITIONS, AfterConsumption

\* The keys and the types of a log.
LEMMA LogRecords ==
    ASSUME NEW l \in Seq(CoordinatorRecords)
    PROVE  \A n \in DOMAIN l : l[n].key \in IdempotencyKeys /\ l[n].type \in EventTypes
<1>1. \A r \in CoordinatorRecords : r.key \in IdempotencyKeys /\ r.type \in EventTypes
  BY DEF CoordinatorRecords
<1>2. \A n \in DOMAIN l : l[n] \in CoordinatorRecords
  OBVIOUS
<1> QED
  BY <1>1, <1>2

\* What CoordinatorInv says of one transaction's log.
GoodLog(t, l, keys) ==
    /\ l \in Seq(CoordinatorRecords)
    /\ \A n \in DOMAIN l : keys[l[n].key] = t
    /\ \A n \in DOMAIN l : IF n = 1 THEN l[n].type = "transaction_started"
                                    ELSE l[n].type \in EVENT_TRANSITIONS[l[n - 1].type]
    /\ \A m, n \in DOMAIN l : m < n /\ l[m].type = "decision_consumed" => l[n].type \in AfterConsumption

LEMMA InvPerLog ==
    CoordinatorInv <=>
        /\ log \in [Transactions -> Seq(CoordinatorRecords)]
        /\ keyOf \in [IdempotencyKeys -> Transactions \cup {NoTransaction}]
        /\ \A t \in Transactions : GoodLog(t, log[t], keyOf)
  BY DEF CoordinatorInv, GoodLog, LogIsPath, TypeAt

\* An allowed event, appended to a log that is a path, leaves a path: what follows
\* a consumption stays after it.
LEMMA GoodAppend ==
    ASSUME NEW t, NEW l, NEW keys, GoodLog(t, l, keys), NEW r \in CoordinatorRecords,
           keys[r.key] = t,
           IF l = <<>> THEN r.type = "transaction_started"
                       ELSE r.type \in EVENT_TRANSITIONS[l[Len(l)].type]
    PROVE  GoodLog(t, Append(l, r), keys)
<1> DEFINE k == Len(l)
           l2 == Append(l, r)
<1>1. /\ l \in Seq(CoordinatorRecords) /\ k \in Nat /\ DOMAIN l = 1..k
      /\ l2 \in Seq(CoordinatorRecords) /\ Len(l2) = k + 1 /\ DOMAIN l2 = 1..(k + 1)
      /\ l2[k + 1] = r /\ \A n \in 1..k : l2[n] = l[n]
  BY AppendProperties DEF GoodLog
<1>2. l = <<>> <=> k = 0
  BY <1>1
<1>3. \A n \in 1..k : l[n].type \in EventTypes
  BY <1>1, LogRecords
<1> HIDE DEF k, l2
<1>4. \A n \in 1..(k + 1) : n \in 1..k \/ n = k + 1
  BY <1>1
<1>5. ASSUME NEW n \in 1..(k + 1) PROVE keys[l2[n].key] = t
  BY <1>1, <1>4, <1>5 DEF GoodLog
<1>6. ASSUME NEW n \in 1..(k + 1)
      PROVE  IF n = 1 THEN l2[n].type = "transaction_started"
                      ELSE l2[n].type \in EVENT_TRANSITIONS[l2[n - 1].type]
  <2>1. CASE n \in 1..k
    <3>1. n # 1 => n - 1 \in 1..k
      BY <1>1, <2>1
    <3> QED
      BY <2>1, <3>1, <1>1 DEF GoodLog
  <2>2. CASE n = k + 1 /\ k = 0
    BY <2>2, <1>1, <1>2
  <2>3. CASE n = k + 1 /\ k # 0
    <3>1. n # 1 /\ n - 1 = k /\ k \in 1..k
      BY <2>3, <1>1
    <3> QED
      BY <2>3, <3>1, <1>1, <1>2 DEF k
  <2> QED
    BY <1>4, <2>1, <2>2, <2>3
<1>7. ASSUME NEW m \in 1..(k + 1), NEW n \in 1..(k + 1), m < n, l2[m].type = "decision_consumed"
      PROVE  l2[n].type \in AfterConsumption
  <2>1. m \in 1..k /\ k \in 1..k /\ k # 0 /\ l2[m] = l[m]
    BY <1>1, <1>7
  <2>2. CASE n \in 1..k
    BY <2>1, <2>2, <1>1, <1>7 DEF GoodLog
  <2>3. CASE n = k + 1
    <3>1. l[k].type \in AfterConsumption \cup {"decision_consumed"}
      <4>1. CASE m = k
        BY <4>1, <2>1, <1>7
      <4>2. CASE m # k
        <5>1. m < k
          BY <4>2, <2>1, <1>1
        <5> QED
          BY <5>1, <2>1, <1>1, <1>7 DEF GoodLog
      <4> QED
        BY <4>1, <4>2
    <3>2. r.type \in EVENT_TRANSITIONS[l[k].type]
      BY <2>1, <1>2 DEF k
    <3> QED
      BY <2>3, <3>1, <3>2, <1>1, TableAroundConsumption
  <2> QED
    BY <1>4, <2>2, <2>3
<1>8. /\ l2 \in Seq(CoordinatorRecords) /\ DOMAIN l2 = 1..(k + 1)
  BY <1>1
<1> QED
  BY <1>5, <1>6, <1>7, <1>8 DEF GoodLog, l2

\* A key that is bound anew was free, or bound to the same transaction.
LEMMA KeyBound ==
    ASSUME CoordinatorInv, NEW e \in CoordinatorEvents, KeyAdmits(e),
           keyOf' = [keyOf EXCEPT ![e.key] = e.transaction], NEW t \in Transactions
    PROVE  GoodLog(t, log[t], keyOf')
<1>1. /\ e.key \in IdempotencyKeys /\ keyOf \in [IdempotencyKeys -> Transactions \cup {NoTransaction}]
      /\ GoodLog(t, log[t], keyOf)
  BY InvPerLog DEF CoordinatorEvents
<1>2. \A n \in DOMAIN log[t] : log[t][n].key \in IdempotencyKeys
  BY <1>1, LogRecords DEF GoodLog
<1>3. ASSUME NEW n \in DOMAIN log[t] PROVE keyOf'[log[t][n].key] = t
  <2>1. keyOf[log[t][n].key] = t /\ t # NoTransaction
    BY <1>1, NoTransactionAssumption DEF GoodLog
  <2> QED
    BY <1>1, <1>2, <2>1 DEF KeyAdmits
<1> QED
  BY <1>1, <1>3 DEF GoodLog

LEMMA CoordinatorStep ==
    ASSUME CoordinatorInv, NEW e \in CoordinatorEvents, record_event(e) PROVE CoordinatorInv'
<1> DEFINE x == e.transaction
           r == [key |-> e.key, type |-> e.type, expects |-> e.expects]
<1>1. /\ x \in Transactions /\ e.key \in IdempotencyKeys /\ r \in CoordinatorRecords
  BY DEF CoordinatorEvents, CoordinatorRecords
<1>2. /\ log \in [Transactions -> Seq(CoordinatorRecords)]
      /\ keyOf \in [IdempotencyKeys -> Transactions \cup {NoTransaction}]
  BY InvPerLog
<1>3. KeyAdmits(e) /\ keyOf' = [keyOf EXCEPT ![e.key] = x]
  BY DEF record_event
<1>4. keyOf' \in [IdempotencyKeys -> Transactions \cup {NoTransaction}] /\ keyOf'[e.key] = x
  BY <1>1, <1>2, <1>3
<1>5. \A t \in Transactions : GoodLog(t, log[t], keyOf')
  BY <1>3, KeyBound
<1>6. CASE UNCHANGED log
  BY <1>2, <1>4, <1>5, <1>6 DEF CoordinatorInv, GoodLog, LogIsPath, TypeAt
<1>7. CASE TransitionAllowed(e) /\ log' = [log EXCEPT ![x] = Append(@, r)]
  <2>1. /\ r.key = e.key /\ r.type = e.type
    OBVIOUS
  <2>2. IF log[x] = <<>> THEN r.type = "transaction_started"
                         ELSE r.type \in EVENT_TRANSITIONS[log[x][Len(log[x])].type]
    BY <1>7, <2>1 DEF TransitionAllowed, Last
  <2>3. GoodLog(x, log[x], keyOf')
    BY <1>1, <1>5
  <2>4. keyOf'[r.key] = x
    BY <1>4, <2>1
  <2> HIDE DEF x, r
  <2>5. GoodLog(x, Append(log[x], r), keyOf')
    BY <1>1, <2>2, <2>3, <2>4, GoodAppend
  <2>6. /\ log'[x] = Append(log[x], r)
        /\ \A t \in Transactions \ {x} : log'[t] = log[t]
        /\ DOMAIN log' = Transactions /\ log' = [t \in Transactions |-> log'[t]]
    BY <1>1, <1>2, <1>7
  <2>7. \A t \in Transactions : GoodLog(t, log'[t], keyOf')
    BY <1>5, <2>5, <2>6
  <2>8. log' \in [Transactions -> Seq(CoordinatorRecords)]
    BY <2>6, <2>7 DEF GoodLog
  <2> QED
    BY <1>4, <2>7, <2>8 DEF CoordinatorInv, GoodLog, LogIsPath, TypeAt
<1> QED
  BY <1>6, <1>7 DEF record_event

\* In a log that is a path, a consumption stands behind a verified token and the
\* evidence written before the action.
LEMMA ConsumedBehind ==
    ASSUME NEW t, NEW l, NEW keys, GoodLog(t, l, keys), NEW n \in DOMAIN l,
           l[n].type = "decision_consumed"
    PROVE  /\ n - 2 \in 1..n /\ n - 1 \in 1..n /\ n - 2 < n - 1
           /\ l[n - 2].type = "token_binding_verified"
           /\ l[n - 1].type = "pre_action_evidence_appended"
<1>1. /\ l \in Seq(CoordinatorRecords) /\ Len(l) \in Nat /\ n \in 1..Len(l)
      /\ DOMAIN l = 1..Len(l) /\ \A i \in DOMAIN l : l[i].type \in EventTypes
  BY LogRecords DEF GoodLog
<1>2. n # 1
  BY DEF GoodLog
<1>3. n - 1 \in 1..Len(l)
  BY <1>1, <1>2
<1>4. l[n - 1].type = "pre_action_evidence_appended"
  <2>1. l[n].type \in EVENT_TRANSITIONS[l[n - 1].type]
    BY <1>1, <1>2 DEF GoodLog
  <2> QED
    BY <2>1, <1>1, <1>3, TableAroundConsumption
<1>5. n - 1 # 1
  <2>1. n - 1 \in DOMAIN l
    BY <1>1, <1>3
  <2> QED
    BY <2>1, <1>4 DEF GoodLog
<1>6. n - 2 \in 1..Len(l) /\ (n - 1) - 1 = n - 2
  BY <1>1, <1>3, <1>5
<1>7. l[n - 2].type = "token_binding_verified"
  <2>1. n - 1 \in DOMAIN l
    BY <1>1, <1>3
  <2>2. l[n - 1].type \in EVENT_TRANSITIONS[l[n - 2].type]
    BY <2>1, <1>5, <1>6 DEF GoodLog
  <2> QED
    BY <2>2, <1>1, <1>4, <1>6, TableAroundConsumption
<1> QED
  BY <1>1, <1>4, <1>6, <1>7

\* A set whose elements are all equal has at most one.
LEMMA AtMostOne ==
    ASSUME NEW S, \A x, y \in S : x = y PROVE Cardinality(S) <= 1
<1>1. CASE S = {}
  BY <1>1, FS_EmptySet
<1>2. CASE S # {}
  <2>1. PICK x : S = {x}
    BY <1>2
  <2> QED
    BY <2>1, FS_Singleton
<1> QED
  BY <1>1, <1>2

LEMMA InvImpliesConsumedOnce == ASSUME CoordinatorInv PROVE ConsumedOnceAndEvidenced
<1> DEFINE C(k) == {c \in Transactions \X (1..MaxEvents) :
                        /\ c[2] \in DOMAIN log[c[1]] /\ log[c[1]][c[2]].key = k
                        /\ TypeAt(c[1], c[2]) = "decision_consumed"}
<1>1. \A t \in Transactions : GoodLog(t, log[t], keyOf)
  BY InvPerLog
<1>2. ASSUME NEW k \in IdempotencyKeys, NEW c \in C(k)
      PROVE  /\ c[1] \in Transactions /\ c[2] \in Nat /\ c[2] \in DOMAIN log[c[1]]
             /\ c = <<c[1], c[2]>> /\ keyOf[k] = c[1]
             /\ log[c[1]][c[2]].type = "decision_consumed"
  <2>1. /\ c[1] \in Transactions /\ c[2] \in 1..MaxEvents /\ c = <<c[1], c[2]>>
        /\ c[2] \in DOMAIN log[c[1]] /\ log[c[1]][c[2]].key = k
        /\ log[c[1]][c[2]].type = "decision_consumed"
    BY DEF TypeAt
  <2> QED
    BY <1>1, <2>1, MaxEventsAssumption DEF GoodLog
<1>3. ASSUME NEW k \in IdempotencyKeys PROVE Cardinality(C(k)) <= 1
  <2>1. ASSUME NEW c \in C(k), NEW d \in C(k) PROVE c = d
    <3>1. /\ c[1] = d[1] /\ c = <<c[1], c[2]>> /\ d = <<d[1], d[2]>>
          /\ c[2] \in Nat /\ d[2] \in Nat /\ GoodLog(c[1], log[c[1]], keyOf)
          /\ c[2] \in DOMAIN log[c[1]] /\ d[2] \in DOMAIN log[c[1]]
          /\ log[c[1]][c[2]].type = "decision_consumed"
          /\ log[c[1]][d[2]].type = "decision_consumed"
      BY <1>1, <1>2
    <3>2. ~(c[2] < d[2]) /\ ~(d[2] < c[2])
      BY <3>1, TableAroundConsumption DEF GoodLog
    <3>3. c[2] = d[2]
      BY <3>1, <3>2
    <3> QED
      BY <3>1, <3>3
  <2> HIDE DEF C
  <2> QED
    BY <2>1, AtMostOne
<1>4. ASSUME NEW k \in IdempotencyKeys, NEW c \in C(k)
      PROVE  \E i, j \in 1..c[2] : i < j /\ TypeAt(c[1], i) = "token_binding_verified"
                                         /\ TypeAt(c[1], j) = "pre_action_evidence_appended"
  <2>1. /\ GoodLog(c[1], log[c[1]], keyOf) /\ c[2] \in DOMAIN log[c[1]]
        /\ log[c[1]][c[2]].type = "decision_consumed"
    BY <1>1, <1>2
  <2>2. /\ c[2] - 2 \in 1..c[2] /\ c[2] - 1 \in 1..c[2] /\ c[2] - 2 < c[2] - 1
        /\ TypeAt(c[1], c[2] - 2) = "token_binding_verified"
        /\ TypeAt(c[1], c[2] - 1) = "pre_action_evidence_appended"
    BY <2>1, ConsumedBehind DEF TypeAt
  <2> QED
    BY <2>2
<1> QED
  BY <1>3, <1>4 DEF ConsumedOnceAndEvidenced

\* Under one idempotency key a decision is consumed at most once, and only behind
\* a verified token and evidence written before the action, for every number of
\* transactions, keys and events (transaction_coordinator.py).
THEOREM DecisionsAreConsumedOnce == CoordinatorSpec => []ConsumedOnceAndEvidenced
<1>1. CoordinatorInit => CoordinatorInv
  BY DEF CoordinatorInit, CoordinatorInv, LogIsPath
<1>2. CoordinatorInv /\ [CoordinatorNext]_coordinatorVars => CoordinatorInv'
  <2>1. CoordinatorInv /\ UNCHANGED coordinatorVars => CoordinatorInv'
    BY DEF CoordinatorInv, LogIsPath, TypeAt, coordinatorVars
  <2> QED
    BY <2>1, CoordinatorStep DEF CoordinatorNext
<1>3. CoordinatorInv => ConsumedOnceAndEvidenced
  BY InvImpliesConsumedOnce
<1> QED
  BY <1>1, <1>2, <1>3, PTL DEF CoordinatorSpec

----------------------------------------------------------------------------
(* The evidence lifecycle: what a payload was required to refer to. *)

\* A payload is stored under its own id and tenant, with references that are known
\* there, and only an artifact moves the table, to the tenant it already names.
LEMMA EvidenceRecorded ==
    ASSUME EvidenceInv, NEW p \in EvidencePayloads, NEW to \in EvidenceStates \cup {"planned"},
           NEW kind, RefsAdmitted(p, to, kind), Tracked(p, kind), Stored(p, to, kind),
           evidence[p.id] = Unplanned \/ evidence[p.id].tenant = p.tenant
    PROVE  EvidenceInv'
<1> DEFINE required == RequiredRefs(p, to, kind)
           stored == [state |-> to, tenant |-> p.tenant, required |-> required]
<1>1. /\ p.id \in Evidence /\ p.tenant \in EvidenceTenants /\ p.tenant # NoTenant
      /\ p.parents \in SUBSET Evidence /\ p.denial \in SUBSET Evidence
  BY NoTenantAssumption DEF EvidencePayloads
<1>2. required \in SUBSET Evidence /\ \A r \in required : tenantOf[r] = p.tenant
  BY <1>1 DEF RequiredRefs, RefsAdmitted, Known
<1>3. stored \in EvidenceRecords /\ stored.tenant = p.tenant /\ stored.required = required
  BY <1>1, <1>2 DEF EvidenceRecords
<1>4. stored # Unplanned
  <2>1. "tenant" \in DOMAIN stored /\ "tenant" \notin DOMAIN Unplanned
    BY DEF Unplanned
  <2> QED
    BY <2>1
<1>5. evidence' = [evidence EXCEPT ![p.id] = stored]
  BY DEF Stored
<1> HIDE DEF stored, required
<1>6. /\ evidence \in [Evidence -> {Unplanned} \cup EvidenceRecords]
      /\ tenantOf \in [Evidence -> EvidenceTenants \cup {NoTenant}]
      /\ \A e \in Evidence : tenantOf[e] # NoTenant =>
             evidence[e] # Unplanned /\ evidence[e].tenant = tenantOf[e]
      /\ \A e \in Evidence : evidence[e] # Unplanned =>
             \A r \in evidence[e].required : tenantOf[r] = evidence[e].tenant
  BY DEF EvidenceInv, RequiredRefsStayInTenant
<1>7. \A e \in Evidence : evidence[e] # Unplanned =>
          evidence[e].required \in SUBSET Evidence /\ evidence[e].tenant \in EvidenceTenants
  BY <1>6 DEF EvidenceRecords
<1>8. /\ evidence' \in [Evidence -> {Unplanned} \cup EvidenceRecords]
      /\ evidence'[p.id] = stored
      /\ \A e \in Evidence \ {p.id} : evidence'[e] = evidence[e]
  BY <1>1, <1>3, <1>5, <1>6
<1>9. /\ tenantOf' \in [Evidence -> EvidenceTenants \cup {NoTenant}]
      /\ tenantOf'[p.id] \in {tenantOf[p.id], p.tenant}
      /\ \A e \in Evidence \ {p.id} : tenantOf'[e] = tenantOf[e]
  BY <1>1, <1>6 DEF Tracked
\* What is known keeps its tenant.
<1>10. ASSUME NEW r \in Evidence, tenantOf[r] # NoTenant PROVE tenantOf'[r] = tenantOf[r]
  <2>1. CASE r = p.id
    BY <2>1, <1>1, <1>6, <1>9, <1>10
  <2> QED
    BY <2>1, <1>9
<1>11. ASSUME NEW e \in Evidence, tenantOf'[e] # NoTenant
       PROVE  evidence'[e] # Unplanned /\ evidence'[e].tenant = tenantOf'[e]
  <2>1. CASE e = p.id
    <3>1. tenantOf'[p.id] = p.tenant
      BY <2>1, <1>1, <1>6, <1>9, <1>11
    <3> QED
      BY <2>1, <3>1, <1>3, <1>4, <1>8
  <2>2. CASE e # p.id
    BY <2>2, <1>6, <1>8, <1>9, <1>11
  <2> QED
    BY <2>1, <2>2
<1>12. ASSUME NEW e \in Evidence, evidence'[e] # Unplanned, NEW r \in evidence'[e].required
       PROVE  tenantOf'[r] = evidence'[e].tenant
  <2>1. CASE e = p.id
    <3>1. r \in required /\ r \in Evidence /\ tenantOf[r] = p.tenant
      BY <2>1, <1>2, <1>3, <1>8, <1>12
    <3> QED
      BY <2>1, <3>1, <1>1, <1>3, <1>8, <1>10
  <2>2. CASE e # p.id
    <3>1. /\ evidence'[e] = evidence[e] /\ r \in Evidence
          /\ tenantOf[r] = evidence[e].tenant /\ evidence[e].tenant # NoTenant
      BY <2>2, <1>6, <1>7, <1>8, <1>12, NoTenantAssumption
    <3> QED
      BY <3>1, <1>10
  <2> QED
    BY <2>1, <2>2
<1> QED
  BY <1>8, <1>9, <1>11, <1>12 DEF EvidenceInv, RequiredRefsStayInTenant

\* Evidence never comes to rest on another tenant's, for every set of evidence ids,
\* of tenants, of tasks and of decisions (evidence/lifecycle_simulator.py).
THEOREM EvidenceStaysInTenant == EvidenceSpec => []RequiredRefsStayInTenant
<1>1. EvidenceInit => EvidenceInv
  BY DEF EvidenceInit, EvidenceInv, RequiredRefsStayInTenant
<1>2. EvidenceInv /\ [EvidenceNext]_evidenceVars => EvidenceInv'
  <2> SUFFICES ASSUME EvidenceInv, [EvidenceNext]_evidenceVars PROVE EvidenceInv'
    OBVIOUS
  <2>1. ASSUME NEW p \in EvidencePayloads, register_evidence(p) PROVE EvidenceInv'
    BY <2>1, EvidenceRecorded DEF register_evidence
  <2>2. ASSUME NEW p \in EvidencePayloads, NEW to \in EvidenceStates, NEW kind,
               transition_evidence(p, to, kind)
        PROVE  EvidenceInv'
    BY <2>2, EvidenceRecorded DEF transition_evidence
  <2>3. CASE UNCHANGED evidenceVars
    BY <2>3 DEF EvidenceInv, RequiredRefsStayInTenant, evidenceVars
  <2> QED
    BY <2>1, <2>2, <2>3 DEF EvidenceNext
<1>3. EvidenceInv => RequiredRefsStayInTenant
  BY DEF EvidenceInv
<1> QED
  BY <1>1, <1>2, <1>3, PTL DEF EvidenceSpec

----------------------------------------------------------------------------
(* The task lifecycle: what must have come before completed work. *)

TaskStates == DOMAIN TASK_TRANSITIONS

\* The table read backwards from completed work.
LEMMA TableBackwards ==
    /\ \A s \in TaskStates : TASK_TRANSITIONS[s] \subseteq TaskStates
    /\ \A s \in TaskStates : "completed_mock" \in TASK_TRANSITIONS[s] =>
           s \in {"in_progress", "draft_ready"}
    /\ \A s \in TaskStates : "draft_ready" \in TASK_TRANSITIONS[s] => s = "in_progress"
    /\ \A s \in TaskStates : "in_progress" \in TASK_TRANSITIONS[s] => s = "accepted"
    /\ \A s \in TaskStates : "accepted" \in TASK_TRANSITIONS[s] => s = "assigned_to_worker"
  BY DEF TaskStates, TASK_TRANSITIONS

\* Without a decision no executable state is safe: none is registered.
LEMMA RegisteredIdle ==
    ASSUME NEW t, NEW s, StateSafe(t, s, {}, {}, {}, {}) PROVE s \notin EXECUTABLE_STATES
  BY DEF StateSafe

\* An executable state has a predecessor, and the table says which.
LEMMA CameFrom ==
    ASSUME TaskInv, NEW n \in DOMAIN taskMoves, taskMoves[n] \in EXECUTABLE_STATES
    PROVE  /\ n - 1 \in DOMAIN taskMoves /\ n - 1 < n /\ taskMoves[n - 1] \in TaskStates
           /\ taskMoves[n] \in TASK_TRANSITIONS[taskMoves[n - 1]]
<1>1. taskMoves \in Seq(TaskStates) /\ n \in Nat /\ 1 <= n /\ n <= Len(taskMoves) /\ n # 1
  BY DEF TaskInv, TaskStates, MovesArePath
<1>2. n - 1 \in DOMAIN taskMoves /\ n - 1 < n
  BY <1>1
<1> QED
  BY <1>1, <1>2 DEF TaskInv, MovesArePath

\* Work that is in progress at c was accepted at c - 1 and assigned at c - 2.
LEMMA BegunWork ==
    ASSUME TaskInv, NEW c \in DOMAIN taskMoves, taskMoves[c] = "in_progress"
    PROVE  /\ c \in Nat /\ c - 2 \in 1..c /\ c - 1 \in 1..c
           /\ c - 2 \in DOMAIN taskMoves /\ c - 1 \in DOMAIN taskMoves
           /\ taskMoves[c - 1] = "accepted" /\ taskMoves[c - 2] = "assigned_to_worker"
<1>1. {"in_progress", "accepted"} \subseteq EXECUTABLE_STATES
  BY DEF EXECUTABLE_STATES, WORKER_REQUIRED_STATES
<1>2. c - 1 \in DOMAIN taskMoves /\ taskMoves[c - 1] = "accepted"
  BY <1>1, CameFrom, TableBackwards
<1>3. (c - 1) - 1 \in DOMAIN taskMoves /\ taskMoves[(c - 1) - 1] = "assigned_to_worker"
  BY <1>1, <1>2, CameFrom, TableBackwards
<1>4. taskMoves \in Seq(DOMAIN TASK_TRANSITIONS)
  BY DEF TaskInv
<1>5. c \in Nat /\ (c - 1) - 1 = c - 2 /\ c - 1 \in 1..c /\ c - 2 \in 1..c
  BY <1>2, <1>3, <1>4
<1> QED
  BY <1>2, <1>3, <1>5

LEMMA CompletionHasBegun == ASSUME TaskInv PROVE CompletedWorkWasAssigned
<1> DEFINE Still == {"blocked", "rejected", "needs_approval", "blocked_evidence_unavailable"}
<1> SUFFICES ASSUME NEW n \in DOMAIN taskMoves, taskMoves[n] = "completed_mock"
             PROVE  \E a, b, c \in 1..n :
                        /\ a < b /\ b < c
                        /\ taskMoves[a] = "assigned_to_worker" /\ taskMoves[b] = "accepted"
                        /\ taskMoves[c] = "in_progress"
                        /\ \A m \in a..n : taskMoves[m] \notin Still
  BY DEF CompletedWorkWasAssigned
<1>1. {"completed_mock", "draft_ready"} \subseteq EXECUTABLE_STATES
  BY DEF EXECUTABLE_STATES, WORKER_REQUIRED_STATES, COMPLETION_STATES
<1>2. n \in Nat /\ n - 1 \in DOMAIN taskMoves /\ taskMoves[n - 1] \in {"in_progress", "draft_ready"}
  BY <1>1, CameFrom, TableBackwards DEF TaskInv
<1>3. CASE taskMoves[n - 1] = "in_progress"
  <2>1. /\ n - 1 \in Nat /\ (n - 1) - 2 \in 1..(n - 1) /\ (n - 1) - 1 \in 1..(n - 1)
        /\ taskMoves[(n - 1) - 1] = "accepted" /\ taskMoves[(n - 1) - 2] = "assigned_to_worker"
    BY <1>2, <1>3, BegunWork
  <2>2. /\ (n - 1) - 2 = n - 3 /\ (n - 1) - 1 = n - 2
        /\ n - 3 \in 1..n /\ n - 2 \in 1..n /\ n - 1 \in 1..n
        /\ n - 3 < n - 2 /\ n - 2 < n - 1
        /\ \A m \in (n - 3)..n : m \in {n - 3, n - 2, n - 1, n}
    BY <1>2, <2>1
  <2>3. \A m \in (n - 3)..n : taskMoves[m] \notin Still
    BY <1>3, <2>1, <2>2
  <2> QED
    BY <1>3, <2>1, <2>2, <2>3
<1>4. CASE taskMoves[n - 1] = "draft_ready"
  <2>1. (n - 1) - 1 \in DOMAIN taskMoves /\ taskMoves[(n - 1) - 1] = "in_progress"
    BY <1>1, <1>2, <1>4, CameFrom, TableBackwards
  <2>2. (n - 1) - 1 = n - 2
    BY <1>2
  <2>3. /\ n - 2 \in Nat /\ (n - 2) - 2 \in 1..(n - 2) /\ (n - 2) - 1 \in 1..(n - 2)
        /\ taskMoves[(n - 2) - 1] = "accepted" /\ taskMoves[(n - 2) - 2] = "assigned_to_worker"
    BY <2>1, <2>2, BegunWork
  <2>4. /\ (n - 2) - 2 = n - 4 /\ (n - 2) - 1 = n - 3
        /\ n - 4 \in 1..n /\ n - 3 \in 1..n /\ n - 2 \in 1..n
        /\ n - 4 < n - 3 /\ n - 3 < n - 2
        /\ \A m \in (n - 4)..n : m \in {n - 4, n - 3, n - 2, n - 1, n}
    BY <1>2, <2>3
  <2>5. \A m \in (n - 4)..n : taskMoves[m] \notin Still
    BY <1>4, <2>1, <2>2, <2>3, <2>4
  <2> QED
    BY <2>1, <2>2, <2>3, <2>4, <2>5
<1> QED
  BY <1>2, <1>3, <1>4

LEMMA TaskStep == ASSUME TaskInv, TaskNext PROVE TaskInv'
<1>1. taskMoves \in Seq(TaskStates) /\ (taskMoves = <<>> => task = NoTask) /\ MovesArePath
  BY DEF TaskInv, TaskStates
<1>2. ASSUME NEW t \in TaskPayloads, NEW s \in TaskStates, register_task(t, s)
      PROVE  TaskInv'
  <2>1. s \notin EXECUTABLE_STATES /\ task' = t /\ taskMoves' = <<s>>
    BY <1>2, RegisteredIdle DEF register_task
  <2> QED
    BY <1>2, <2>1 DEF TaskInv, MovesArePath, TaskStates
<1>3. ASSUME NEW t \in TaskPayloads, NEW s \in TaskStates, NEW copies, NEW decisions,
             NEW tokens, NEW bindings, transition_task(t, s, copies, decisions, tokens, bindings)
      PROVE  TaskInv'
  <2>1. /\ taskMoves # <<>> /\ s \in TASK_TRANSITIONS[Last(taskMoves)]
        /\ task' = t /\ taskMoves' = Append(taskMoves, s)
    BY <1>1, <1>3 DEF transition_task, TaskMayMove
  <2>2. Last(taskMoves) = taskMoves[Len(taskMoves)] /\ Len(taskMoves) \in Nat \ {0}
    BY <1>1, <2>1 DEF Last
  <2>3. /\ taskMoves' \in Seq(TaskStates) /\ taskMoves' # <<>>
        /\ Len(taskMoves') = Len(taskMoves) + 1
        /\ taskMoves'[Len(taskMoves) + 1] = s
        /\ \A n \in 1..Len(taskMoves) : taskMoves'[n] = taskMoves[n]
    BY <1>1, <2>1, AppendProperties
  <2>4. ASSUME NEW n \in DOMAIN taskMoves'
        PROVE  IF n = 1 THEN taskMoves'[n] \notin EXECUTABLE_STATES
                        ELSE taskMoves'[n] \in TASK_TRANSITIONS[taskMoves'[n - 1]]
    <3>1. n \in 1..(Len(taskMoves) + 1)
      BY <2>3
    <3>2. CASE n \in 1..Len(taskMoves)
      <4>1. n \in DOMAIN taskMoves /\ taskMoves'[n] = taskMoves[n]
                /\ (n # 1 => n - 1 \in 1..Len(taskMoves))
        BY <1>1, <2>2, <2>3, <3>2
      <4> QED
        BY <1>1, <4>1, <2>3 DEF MovesArePath
    <3>3. CASE n = Len(taskMoves) + 1
      <4>1. n # 1 /\ n - 1 = Len(taskMoves) /\ n - 1 \in 1..Len(taskMoves)
        BY <2>2, <3>3
      <4> QED
        BY <2>1, <2>2, <2>3, <3>3, <4>1
    <3> QED
      BY <2>2, <3>1, <3>2, <3>3
  <2> QED
    BY <1>3, <2>1, <2>3, <2>4 DEF TaskInv, MovesArePath, TaskStates
<1> QED
  BY <1>2, <1>3 DEF TaskNext, TaskStates

\* Completed work was assigned, accepted and begun since it last stood still, for
\* every set of payloads, decisions, tokens and bindings, and after however many
\* moves (task_lifecycle_simulator.py).
THEOREM CompletionFollowsAssignment == MockSpec => []CompletedWorkWasAssigned
<1>1. MockInit => TaskInv
  BY DEF MockInit, TaskInv, MovesArePath
<1>2. TaskInv /\ [ \/ TaskNext /\ UNCHANGED workerMoves
                   \/ WorkerNext /\ UNCHANGED taskVars ]_mockVars => TaskInv'
  <2>1. TaskInv /\ UNCHANGED taskVars => TaskInv'
    BY DEF TaskInv, MovesArePath, taskVars
  <2> QED
    BY <2>1, TaskStep DEF mockVars, taskVars
<1>3. TaskInv => CompletedWorkWasAssigned
  BY CompletionHasBegun
<1> QED
  BY <1>1, <1>2, <1>3, PTL DEF MockSpec

----------------------------------------------------------------------------
(* The worker lifecycle: what a return to work rests on. *)

\* A move is added at the end; what the history said of its activations it
\* says still, and the new state is an active one only through the gate.
LEMMA WorkerMoved ==
    ASSUME WorkerInv, NEW to \in WorkerStates, workerMoves' = Append(workerMoves, to),
           to = "active" => GateOpen
    PROVE  WorkerInv'
<1> DEFINE L == Len(workerMoves)
<1>1. /\ L \in Nat /\ workerMoves' \in Seq(WorkerStates) /\ DOMAIN workerMoves' = 1..(L + 1)
      /\ workerMoves'[L + 1] = to
      /\ \A i \in 1..L : workerMoves'[i] = workerMoves[i]
  BY DEF WorkerInv
<1> SUFFICES ASSUME NEW n \in 1..(L + 1), workerMoves'[n] = "active",
                    NEW q \in 1..n, workerMoves'[q] = "quarantined"
             PROVE  \E p \in q..n :
                        /\ workerMoves'[p] = "reenrollment_pending"
                        /\ \A m \in p..(n - 1) : workerMoves'[m] # "active"
  <2>1. ReturnsReenrolled' => WorkerInv'
    BY <1>1 DEF WorkerInv
  <2>2. ReturnsReenrolled'
    <3>1. \A n \in DOMAIN workerMoves' : n \in 1..(L + 1)
      BY <1>1
    <3> HIDE DEF L
    <3> QED
      BY <3>1, Zenon DEF ReturnsReenrolled
  <2> QED
    BY <2>1, <2>2
<1>2. CASE n \in 1..L
  <2>1. workerMoves[n] = "active" /\ q \in 1..L /\ workerMoves[q] = "quarantined"
    BY <1>1, <1>2
  <2>2. PICK p \in q..n : /\ workerMoves[p] = "reenrollment_pending"
                          /\ \A m \in p..(n - 1) : workerMoves[m] # "active"
    BY <1>1, <1>2, <2>1 DEF WorkerInv, ReturnsReenrolled
  <2>3. p \in 1..L /\ \A m \in p..(n - 1) : m \in 1..L
    BY <1>1, <1>2
  <2> QED
    BY <1>1, <2>2, <2>3
<1>3. CASE n = L + 1
  <2>1. to = "active" /\ q \in 1..L /\ workerMoves[q] = "quarantined"
    BY <1>1, <1>3
  <2>2. /\ L > 2
        /\ SubSeq(workerMoves, L - 2, L) = <<"quarantined", "reenrollment_pending", "enrolled">>
    BY <1>1, <2>1 DEF GateOpen
  <2>3. /\ workerMoves[L - 1] = "reenrollment_pending" /\ workerMoves[L] = "enrolled"
        /\ L - 1 \in 1..L /\ L \in 1..L
    <3>1. \A i \in (L - 2)..L : workerMoves[i] \in WorkerStates
      BY <1>1, <2>2 DEF WorkerInv
    <3>2. /\ SubSeq(workerMoves, L - 2, L)[2] = workerMoves[(L - 2) + 2 - 1]
          /\ SubSeq(workerMoves, L - 2, L)[3] = workerMoves[(L - 2) + 3 - 1]
      <4>1. L - 2 \in Int /\ L \in Int /\ 2 \in 1..(L - (L - 2) + 1) /\ 3 \in 1..(L - (L - 2) + 1)
        BY <1>1, <2>2
      <4> HIDE DEF L
      <4> QED
        BY <3>1, <4>1, SubSeqProperties
    <3>3. (L - 2) + 2 - 1 = L - 1 /\ (L - 2) + 3 - 1 = L /\ L - 1 \in 1..L /\ L \in 1..L
      <4>1. L \in Nat /\ L > 2
        BY <1>1, <2>2
      <4> HIDE DEF L
      <4> QED
        BY <4>1
    <3>4. /\ SubSeq(workerMoves, L - 2, L)[2] = "reenrollment_pending"
          /\ SubSeq(workerMoves, L - 2, L)[3] = "enrolled"
      <4> DEFINE tail == SubSeq(workerMoves, L - 2, L)
      <4>1. tail = <<"quarantined", "reenrollment_pending", "enrolled">>
        BY <2>2
      <4> HIDE DEF tail
      <4>2. tail[2] = "reenrollment_pending" /\ tail[3] = "enrolled"
        BY <4>1
      <4> QED
        BY <4>2 DEF tail
    <3> HIDE DEF L
    <3> QED
      BY <3>2, <3>3, <3>4
  <2>4. L - 1 \in q..n /\ \A m \in (L - 1)..(n - 1) : m \in {L - 1, L}
    <3>1. q # L - 1 /\ q # L
      BY <2>1, <2>3
    <3> QED
      BY <1>1, <1>3, <2>1, <3>1
  <2> QED
    BY <1>1, <2>3, <2>4
<1> QED
  BY <1>1, <1>2, <1>3

LEMMA WorkerStep == ASSUME WorkerInv, WorkerNext PROVE WorkerInv'
<1>1. ASSUME NEW s \in WorkerStates, NEW safe \in BOOLEAN, register_worker(s, safe)
      PROVE  WorkerInv'
  <2>1. workerMoves' = <<s>>
    BY <1>1 DEF register_worker
  <2>2. \A n \in DOMAIN workerMoves' : \A q \in 1..n : workerMoves'[q] = s /\ workerMoves'[n] = s
    BY <2>1
  <2> QED
    BY <2>1, <2>2 DEF WorkerInv, ReturnsReenrolled
<1>2. ASSUME NEW s \in WorkerStates, NEW safe \in BOOLEAN, transition_worker(s, safe)
      PROVE  WorkerInv'
  BY <1>2, WorkerMoved DEF transition_worker
<1> QED
  BY <1>1, <1>2 DEF WorkerNext, WorkerStates

\* Each return to work after a quarantine has a re-enrolment of its own, after
\* however many moves (worker_lifecycle_simulator.py, _ensure_reenrollment_gate).
THEOREM ReturnsFollowReenrolment == MockSpec => []ReturnsReenrolled
<1>1. MockInit => WorkerInv
  BY DEF MockInit, WorkerInv, ReturnsReenrolled
<1>2. WorkerInv /\ [ \/ TaskNext /\ UNCHANGED workerMoves
                     \/ WorkerNext /\ UNCHANGED taskVars ]_mockVars => WorkerInv'
  <2>1. WorkerInv /\ UNCHANGED workerMoves => WorkerInv'
    BY DEF WorkerInv, ReturnsReenrolled
  <2> QED
    BY <2>1, WorkerStep DEF mockVars
<1>3. WorkerInv => ReturnsReenrolled
  BY DEF WorkerInv
<1> QED
  BY <1>1, <1>2, <1>3, PTL DEF MockSpec

----------------------------------------------------------------------------
(* The mock queue: what an id is held with. *)

\* The property, for one task and what it is held with.
Rides(i, t, decision, token) ==
    /\ decision.id = t.decision /\ decision.tenant = t.tenant
    /\ t.approval =>
           \E v \in token : v.valid /\ v.task = i /\ v.decision = t.decision /\ v.tenant = t.tenant

LEMMA HeldPerTask ==
    HeldWithItsAuthority <=>
        \A i \in DOMAIN tasks :
            i \in DOMAIN decisionOf /\ Rides(i, tasks[i], decisionOf[i], TokenOf(i))
  BY DEF HeldWithItsAuthority, Rides

\* Of what is enqueued, everything was checked against the payload.
LEMMA EnqueuedRides ==
    ASSUME NEW t, NEW d, NEW token, NEW binding,
           AuthorizesTask(d, t), TokenAccepted(t, token, binding)
    PROVE  /\ Rides(t.id, t, d, VerifiedToken(t, token))
           /\ t.approval => VerifiedToken(t, token) = token /\ token # {}
  BY DEF AuthorizesTask, TokenAccepted, TokenAuthorizes, VerifiedToken, Rides

LEMMA QueueStep ==
    ASSUME QueueInv, QueueNext PROVE QueueInv'
<1> DEFINE Fields(t) == {"tenant", "decision", "approval"} \subseteq DOMAIN t
<1>0. /\ \A i \in DOMAIN tasks : Fields(tasks[i])
      /\ \A i \in DOMAIN tasks :
             i \in DOMAIN decisionOf /\ Rides(i, tasks[i], decisionOf[i], TokenOf(i))
  BY HeldPerTask DEF QueueInv
<1>1. SUFFICES /\ \A i \in DOMAIN tasks' : Fields(tasks'[i])
               /\ \A i \in DOMAIN tasks' :
                      /\ i \in DOMAIN decisionOf'
                      /\ Rides(i, tasks'[i], decisionOf'[i], TokenOf(i)')
  BY DEF QueueInv, HeldWithItsAuthority, Rides
<1>2. ASSUME NEW t \in QueuePayloads, NEW d \in QueueDecisions, NEW token \in QueueTokenSets,
             NEW binding \in QueueBindingSets, enqueue(t, d, token, binding)
      PROVE  /\ \A i \in DOMAIN tasks' : Fields(tasks'[i])
             /\ \A i \in DOMAIN tasks' :
                    /\ i \in DOMAIN decisionOf'
                    /\ Rides(i, tasks'[i], decisionOf'[i], TokenOf(i)')
  <2>1. /\ tasks' = Held(tasks, t.id, t)
        /\ decisionOf' = Held(decisionOf, t.id, d)
        /\ tokenOf' = TokenHeld(t.id, VerifiedToken(t, token))
    BY <1>2 DEF enqueue
  <2>2. Fields(t)
    BY QueuePayloadsAssumption
  <2>3. /\ Rides(t.id, t, d, VerifiedToken(t, token))
        /\ t.approval => VerifiedToken(t, token) = token /\ token # {}
    BY <1>2, EnqueuedRides DEF enqueue
  <2>4. /\ DOMAIN tasks' = DOMAIN tasks \cup {t.id} /\ tasks'[t.id] = t
        /\ \A j \in DOMAIN tasks \ {t.id} : tasks'[j] = tasks[j]
    BY <2>1 DEF Held
  <2>5. /\ DOMAIN decisionOf' = DOMAIN decisionOf \cup {t.id} /\ decisionOf'[t.id] = d
        /\ \A j \in DOMAIN decisionOf \ {t.id} : decisionOf'[j] = decisionOf[j]
    BY <2>1 DEF Held
  <2>6. /\ t.approval => TokenOf(t.id)' = VerifiedToken(t, token)
        /\ \A j : j # t.id => TokenOf(j)' = TokenOf(j)
    <3>1. CASE VerifiedToken(t, token) = {}
      BY <3>1, <2>1, <2>3 DEF TokenHeld, TokenOf
    <3>2. CASE VerifiedToken(t, token) # {}
      <4>1. tokenOf' = Held(tokenOf, t.id, VerifiedToken(t, token))
        BY <3>2, <2>1 DEF TokenHeld
      <4>2. /\ DOMAIN tokenOf' = DOMAIN tokenOf \cup {t.id}
            /\ tokenOf'[t.id] = VerifiedToken(t, token)
            /\ \A j \in DOMAIN tokenOf \ {t.id} : tokenOf'[j] = tokenOf[j]
        BY <4>1 DEF Held
      <4> QED
        BY <4>2 DEF TokenOf
    <3> QED
      BY <3>1, <3>2
  <2>7. ASSUME NEW i \in DOMAIN tasks'
        PROVE  /\ Fields(tasks'[i]) /\ i \in DOMAIN decisionOf'
               /\ Rides(i, tasks'[i], decisionOf'[i], TokenOf(i)')
    <3>1. CASE i = t.id
      BY <3>1, <2>2, <2>3, <2>4, <2>5, <2>6 DEF Rides
    <3>2. CASE i # t.id
      BY <3>2, <1>0, <2>4, <2>5, <2>6
    <3> QED
      BY <3>1, <3>2
  <2> QED
    BY <2>7
<1>3. ASSUME NEW i \in DOMAIN tasks, NEW refs, complete_mock(i, refs)
      PROVE  /\ \A j \in DOMAIN tasks' : Fields(tasks'[j])
             /\ \A j \in DOMAIN tasks' :
                    /\ j \in DOMAIN decisionOf'
                    /\ Rides(j, tasks'[j], decisionOf'[j], TokenOf(j)')
  <2>1. /\ tasks' = [tasks EXCEPT ![i].status = "completed_mock", ![i].evidence = refs]
        /\ decisionOf' = decisionOf /\ tokenOf' = tokenOf
    BY <1>3 DEF complete_mock
  <2>2. /\ DOMAIN tasks' = DOMAIN tasks
        /\ \A j \in DOMAIN tasks \ {i} : tasks'[j] = tasks[j]
        /\ tasks'[i] = [tasks[i] EXCEPT !.status = "completed_mock", !.evidence = refs]
    BY <2>1
  <2>3. /\ DOMAIN tasks'[i] = DOMAIN tasks[i]
        /\ \A f \in {"tenant", "decision", "approval"} : tasks'[i][f] = tasks[i][f]
    BY <2>2, <1>0
  <2>4. \A j : TokenOf(j)' = TokenOf(j)
    BY <2>1 DEF TokenOf
  <2>5. tasks'[i].tenant = tasks[i].tenant /\ tasks'[i].decision = tasks[i].decision
            /\ tasks'[i].approval = tasks[i].approval
    BY <2>3
  <2>6. Rides(i, tasks'[i], decisionOf'[i], TokenOf(i)')
    BY <1>0, <2>1, <2>4, <2>5 DEF Rides
  <2> QED
    BY <1>0, <2>1, <2>2, <2>3, <2>4, <2>6
<1>4. CASE UNCHANGED heldVars
  BY <1>0, <1>4 DEF heldVars, TokenOf
<1> QED
  <2>1. ASSUME NEW w \in DOMAIN QueueWorkers,
               NEW s \in {"healthy", "offline", "quarantined", "revoked"}, update_state(w, s)
        PROVE  UNCHANGED heldVars
    BY <2>1 DEF update_state
  <2>2. ASSUME NEW t \in QueuePayloads, NEW d \in QueueDecisions,
               write_artifact(t.tenant, t.id, d.id) \/ write_failure(t.tenant, t.id, d.id)
        PROVE  UNCHANGED heldVars
    BY <2>2 DEF write_artifact, write_failure
  <2> QED
    BY <1>2, <1>3, <1>4, <2>1, <2>2 DEF QueueNext

\* What the queue holds beside a task is what authorises that task and no earlier
\* one of its id, for every set of payloads, decisions, tokens and workers, however
\* often an id is enqueued and completed again (task_queue.py).
THEOREM TasksKeepTheirAuthority == QueueSpec => []HeldWithItsAuthority
<1>1. QueueInit => QueueInv
  BY DEF QueueInit, QueueInv, HeldWithItsAuthority
<1>2. QueueInv /\ [QueueNext]_queueVars => QueueInv'
  <2>1. QueueInv /\ UNCHANGED queueVars => QueueInv'
    BY DEF QueueInv, HeldWithItsAuthority, TokenOf, queueVars, heldVars
  <2> QED
    BY <2>1, QueueStep
<1>3. QueueInv => HeldWithItsAuthority
  BY DEF QueueInv
<1> QED
  BY <1>1, <1>2, <1>3, PTL DEF QueueSpec
=============================================================================
