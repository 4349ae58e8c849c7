------------------------ MODULE TransactionCoordinator ------------------------
(***************************************************************************)
(* The mock transaction coordinator (runtime/transaction_coordinator.py):  *)
(* an append-only log of events per transaction, and an index from         *)
(* idempotency keys to transactions.  A refused event raises and is not    *)
(* appended; the key index may have changed by then.  An event that is     *)
(* delivered again is answered with the recorded one and changes nothing:  *)
(* here an event is always a new one, and its place in the log is its      *)
(* identity.                                                               *)
(***************************************************************************)
EXTENDS Naturals, FiniteSets, Sequences, SequencesExt

CONSTANTS
    Transactions, IdempotencyKeys,
    Hinting,        \* event types whose next_expected_event_types may be filled in
    NoTransaction,  \* a key the index does not hold
    MaxEvents       \* bound on the events of a transaction

ASSUME NoTransactionAssumption == NoTransaction \notin Transactions
ASSUME MaxEventsAssumption == MaxEvents \in Nat

VARIABLES
    log,        \* _events_by_transaction: transaction -> its events
    keyOf       \* _idempotency_index: key -> transaction

coordinatorVars == <<log, keyOf>>

EVENT_TRANSITIONS ==
    [transaction_started |->
        {"preconditions_checked", "duplicate_request_detected", "transaction_failed_closed"},
     preconditions_checked |->
        {"replay_nonce_reserved", "token_binding_verified", "transaction_failed_closed"},
     replay_nonce_reserved |-> {"token_binding_verified", "transaction_failed_closed"},
     token_binding_verified |-> {"pre_action_evidence_appended", "transaction_failed_closed"},
     pre_action_evidence_appended |-> {"decision_consumed", "transaction_failed_closed"},
     decision_consumed |-> {"post_action_evidence_appended", "transaction_failed_closed"},
     post_action_evidence_appended |->
        {"transaction_committed", "transaction_rolled_back", "transaction_failed_closed"},
     transaction_committed |-> {"reconciliation_started"},
     transaction_rolled_back |-> {"reconciliation_started"},
     transaction_failed_closed |-> {"reconciliation_started"},
     duplicate_request_detected |-> {"reconciliation_started"},
     reconciliation_started |-> {"reconciliation_completed", "transaction_failed_closed"},
     reconciliation_completed |-> {}]

EventTypes == DOMAIN EVENT_TRANSITIONS

CoordinatorInit ==
    /\ log = [t \in Transactions |-> <<>>]
    /\ keyOf = [k \in IdempotencyKeys |-> NoTransaction]

\* Mutated form: a transaction that failed closed releases its key for a retry.
KeyAdmits_Released(e) ==
    \A t \in {keyOf[e.key]} \ {NoTransaction, e.transaction} :
        log[t] # <<>> /\ Last(log[t]).type = "transaction_failed_closed"

\* _check_tenant_scoped_idempotency: the key is bound to the first transaction
\* that names it.
KeyAdmits(e) == keyOf[e.key] \in {NoTransaction, e.transaction}

\* _validate_transition and _validate_transaction_identity_consistency: the key
\* is that of the first event, the link names the last one (or is left to the
\* coordinator, which fills it in), and the event before may have said which types it expects.
TransitionAllowed(e) ==
    IF log[e.transaction] = <<>>
    THEN e.type = "transaction_started" /\ e.linked
    ELSE LET last == Last(log[e.transaction]) IN
         /\ e.key = Head(log[e.transaction]).key
         /\ e.type \in EVENT_TRANSITIONS[last.type]
         /\ e.linked
         /\ last.expects # {} => e.type \in last.expects

\* record_event of a new event: the key is bound before the transition is
\* judged, so a refused event may still bind it.
record_event(e) ==
    /\ Len(log[e.transaction]) < MaxEvents
    /\ KeyAdmits(e)
    /\ keyOf' = [keyOf EXCEPT ![e.key] = e.transaction]
    /\ \/ /\ TransitionAllowed(e)
          /\ log' = [log EXCEPT ![e.transaction] =
                        Append(@, [key |-> e.key, type |-> e.type, expects |-> e.expects])]
       \/ ~TransitionAllowed(e) /\ UNCHANGED log

CoordinatorEvents ==
    {e \in [transaction : Transactions, key : IdempotencyKeys, type : EventTypes,
            linked : BOOLEAN, expects : {{}, {"transaction_failed_closed"}}] :
        e.expects # {} => e.type \in Hinting}

CoordinatorNext == \E e \in CoordinatorEvents : record_event(e)

----------------------------------------------------------------------------

TypeAt(t, n) == log[t][n].type

\* Under one idempotency key a decision is consumed at most once, whatever was
\* retried under which transaction, and only behind a verified token and
\* evidence written before the action.
ConsumedOnceAndEvidenced ==
    LET Consumptions(k) ==
            {c \in Transactions \X (1..MaxEvents) :
                /\ c[2] \in DOMAIN log[c[1]] /\ log[c[1]][c[2]].key = k
                /\ TypeAt(c[1], c[2]) = "decision_consumed"}
    IN  \A k \in IdempotencyKeys :
        /\ Cardinality(Consumptions(k)) <= 1
        /\ \A c \in Consumptions(k) :
            \E i, j \in 1..c[2] : i < j /\ TypeAt(c[1], i) = "token_binding_verified"
                                        /\ TypeAt(c[1], j) = "pre_action_evidence_appended"
=============================================================================
