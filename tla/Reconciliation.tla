--------------------------- MODULE Reconciliation ---------------------------
(***************************************************************************)
(* How the payloads of one approval are reconciled                         *)
(* (runtime/reconciliation.py).  Pure: a dossier in, a status and the      *)
(* reasons for it out.                                                     *)
(*                                                                         *)
(* A dossier holds of every kind of payload a sequence of at most one, and *)
(* of ledger entries any number.  A payload is a function from the names   *)
(* of the fields it gives to their values; the lists of evidence refs a    *)
(* payload may carry are one set here.  Of a decision, denial_words are    *)
(* the words of its denial reason the reconciler would know, and           *)
(* within_window and tainted what the replay check finds of its times and  *)
(* of its prompt.                                                          *)
(***************************************************************************)
EXTENDS Functions, Sequences, SequencesExt

CONSTANTS
    None,              \* the value of a field a payload leaves out
    BlockedActions,    \* BLOCKED_MVP_APPROVAL_ACTIONS, BLOCKED_GUARDIAN_ACTION_TYPES
    BlockedClasses     \* BLOCKED_GUARDIAN_ACTION_CLASSES

Payloads(d) ==
    d.chain \o d.binding \o d.token \o d.decision \o d.replay \o d.record
        \o d.event \o d.boundary \o d.entries

Get(p, f) == IF f \in DOMAIN p THEN p[f] ELSE None

\* _first_value: the first payload that gives one of the fields, and of it the
\* first of these fields.
FirstValue(ps, fields) ==
    LET given == {h \in (DOMAIN ps) \X (DOMAIN fields) : fields[h[2]] \in DOMAIN ps[h[1]]}
        first == CHOOSE h \in given : \A g \in given :
                     h[1] < g[1] \/ (h[1] = g[1] /\ h[2] <= g[2])
    IN  IF given = {} THEN None ELSE ps[first[1]][fields[first[2]]]

Canonical(d) ==
    LET Value(fields) == FirstValue(Payloads(d), fields) IN
    [tenant   |-> Value(<<"tenant_id">>),
     customer |-> Value(<<"customer_context_id">>),
     task     |-> Value(<<"task_id", "bound_task_id", "canonical_task_id">>),
     worker   |-> Value(<<"worker_id", "bound_worker_id", "canonical_worker_id">>),
     action   |-> Value(<<"action_type", "bound_action_type", "canonical_action_type">>),
     scope    |-> Value(<<"tool_scope", "bound_tool_scope", "canonical_tool_scope">>),
     chain    |-> Value(<<"approval_chain_id">>),
     binding  |-> Value(<<"approval_binding_id", "binding_id">>),
     token    |-> Value(<<"token_verification_id">>),
     decision |-> Value(<<"guardian_decision_id", "decision_id">>),
     record   |-> Value(<<"replay_record_id">>),
     transaction |-> Value(<<"transaction_id", "related_transaction_id">>)]

\* A payload does not give the canonical value: Differs also when it is silent,
\* Contradicts only when it gives another one.
Differs(p, f, value) == value # None /\ Get(p, f) # value
Contradicts(p, f, value) == value # None /\ Get(p, f) \notin {None, value}

EvidenceRefs(d) ==
    UNION {Get(p, "evidence_refs") : p \in {q \in Range(Payloads(d)) : "evidence_refs" \in DOMAIN q}}
        \cup {Get(p, "denial_evidence_ref") :
                p \in {q \in Range(Payloads(d)) : "denial_evidence_ref" \in DOMAIN q}}

----------------------------------------------------------------------------

\* The two ids of a decision are the same, and the two of its binding when both are given.
IdsMatch(g) ==
    /\ Get(g, "guardian_decision_id") = Get(g, "decision_id")
    /\ ~Contradicts(g, "binding_id", Get(g, "approval_binding_id"))

\* What the error of assert_guardian_decision_replay_safe says, by the words the
\* reconciler looks for: the first check that fails speaks, and most say neither.
\* What fails after the time window (the match with the task, the scope, the
\* evidence and the binding) says neither too, so it is not told from success.
Words(g, c) ==
    IF ~IdsMatch(g) THEN {}
    ELSE IF g.decision \notin {"allow", "allow_with_evidence"} THEN g.denial_words
    ELSE IF g.replay_policy # "one_time" THEN {}
    ELSE IF /\ g.replay_status \in {"replay_denied", "expired", "revoked", "stale", "blocked_mvp"}
            /\ g.evidence_required /\ "denial_evidence_ref" \notin DOMAIN g THEN {"stale"}
    ELSE IF \/ g.replay_status # "unused"
            \/ DOMAIN g \cap {"consumed_at", "revoked_at"} # {}
            \/ "decision_nonce" \notin DOMAIN g THEN {}
    ELSE IF \/ Get(g, "action_class") \in BlockedClasses
            \/ (IF c.action = None THEN Get(g, "bound_action_type") ELSE c.action) \in BlockedActions
         THEN {"blocked"}
    ELSE IF \/ g.tainted \/ g.within_window
            \/ ~g.evidence_required \/ "evidence_refs" \notin DOMAIN g THEN {}
    ELSE {"stale"}

CrossTenant(d, c) ==
    \E p \in Range(Payloads(d)) :
        \/ Differs(p, "tenant_id", c.tenant)
        \/ Contradicts(p, "customer_context_id", c.customer)

StaleDecision(d, c) ==
    \/ \E g \in Range(d.decision) : g.replay_status \in {"expired", "stale"} \/ "stale" \in Words(g, c)
    \/ \E r \in Range(d.replay) : r.replay_check_result \in {"expired", "stale"}

BlockedAttempt(d, c) ==
    \/ \E g \in Range(d.decision) :
           "blocked" \in Words(g, c) \/ Get(g, "bound_action_type") \in BlockedActions
    \/ c.action \in BlockedActions
    \/ \E p \in Range(d.binding \o d.replay) : Get(p, "action_type") \in BlockedActions

\* The replay's part is read only beside a replay record.
Replayed(d) == IF d.record = <<>> THEN {} ELSE Range(d.replay)

BindingMismatch(d, c) ==
    \/ \E b \in Range(d.binding) :
           \/ Differs(b, "approval_chain_id", c.chain) \/ Differs(b, "binding_id", c.binding)
           \/ Differs(b, "task_id", c.task) \/ Contradicts(b, "worker_id", c.worker)
           \/ Differs(b, "action_type", c.action) \/ Differs(b, "tool_scope", c.scope)
    \/ \E r \in Replayed(d) : Contradicts(r, "approval_binding_id", c.binding)

TokenMismatch(d, c) ==
    \/ \E t \in Range(d.token) :
           \/ Differs(t, "token_verification_id", c.token)
           \/ Differs(t, "guardian_decision_id", c.decision) \/ Differs(t, "task_id", c.task)
    \/ \E r \in Replayed(d) : Differs(r, "token_verification_id", c.token)

RecordMismatch(d, c) ==
    \E r \in Replayed(d), s \in Range(d.record) :
        \/ Differs(r, "replay_record_id", c.record)
        \/ Get(r, "replay_record_id") # Get(s, "replay_record_id")
        \/ Get(r, "decision_nonce") # Get(s, "decision_nonce")
        \/ Differs(r, "action_type", c.action) \/ Differs(r, "tool_scope", c.scope)

EventMismatch(d, c) ==
    \/ \E s \in Range(d.record) : Contradicts(s, "related_transaction_id", c.transaction)
    \/ \E e \in Range(d.event), b \in Range(d.boundary) :
           \/ Get(e, "transaction_id") # Get(b, "transaction_id")
           \/ Get(e, "related_transaction_id") # Get(b, "transaction_id")

BoundaryMismatch(d, c) ==
    d.event # <<>> /\ \E b \in Range(d.boundary) : Differs(b, "transaction_id", c.transaction)

LedgerMismatch(d, c) ==
    \E e \in Range(d.entries) :
        \/ Contradicts(e, "related_transaction_id", c.transaction)
        \/ c.record # None /\ c.record \notin e.related_replay_record_ids

\* A decision or a replay that says no must refer to the evidence of it, and the
\* dossier to some evidence.
SaysNo(d) ==
    {g \in Range(d.decision) :
        \/ g.replay_status \in {"replay_denied", "expired", "stale", "blocked_mvp"}
        \/ g.decision \in {"deny", "block_mvp", "quarantine_subject"}}
    \cup {r \in Range(d.replay) :
            r.replay_check_result \in {"replay_denied", "expired", "stale", "blocked_mvp"}}
EvidenceMissing(d) ==
    \/ \E p \in SaysNo(d) : "denial_evidence_ref" \notin DOMAIN p
    \/ SaysNo(d) # {} /\ EvidenceRefs(d) = {}

----------------------------------------------------------------------------

Because(holds, reason) == IF holds THEN {reason} ELSE {}

Reasons(d) ==
    LET c == Canonical(d) IN
    Because(CrossTenant(d, c), "cross_tenant_linkage")
    \cup Because(d.decision = <<>>, "missing_guardian_decision")
    \cup Because(StaleDecision(d, c), "stale_guardian_decision")
    \cup Because(BlockedAttempt(d, c), "blocked_mvp_authorization_attempt")
    \cup Because(BindingMismatch(d, c), "mismatched_approval_binding")
    \cup Because(TokenMismatch(d, c), "mismatched_token_verification")
    \cup Because(d.replay = <<>> \/ d.record = <<>>, "replay_record_missing")
    \cup Because(RecordMismatch(d, c), "replay_record_mismatch")
    \cup Because(EventMismatch(d, c), "coordinator_event_mismatch")
    \cup Because(BoundaryMismatch(d, c), "transaction_boundary_mismatch")
    \cup Because(LedgerMismatch(d, c), "evidence_ledger_mismatch")
    \cup Because(EvidenceMissing(d), "evidence_ref_missing")

\* _classify_status: the gravest reason names the status.
Classified(rs) ==
    IF "cross_tenant_linkage" \in rs THEN "cross_tenant_blocked"
    ELSE IF "blocked_mvp_authorization_attempt" \in rs THEN "blocked_mvp"
    ELSE IF "stale_guardian_decision" \in rs THEN "stale_decision"
    ELSE IF rs \cap {"mismatched_approval_binding", "mismatched_token_verification"} # {}
         THEN "mismatched_binding"
    ELSE IF rs \cap {"replay_record_missing", "replay_record_mismatch"} # {} THEN "replay_mismatch"
    ELSE IF rs \cap {"coordinator_event_mismatch", "transaction_boundary_mismatch"} # {}
         THEN "coordinator_mismatch"
    ELSE IF rs \cap {"evidence_ref_missing", "evidence_ledger_mismatch"} # {} THEN "evidence_missing"
    ELSE IF "missing_guardian_decision" \in rs THEN "missing_ref"
    ELSE "reconciled"

\* reconcile: whatever the status, the result authorises nothing.
reconcile(d) ==
    [reconciliation_status |-> Classified(Reasons(d)), reconciliation_failure_reasons |-> Reasons(d),
     reconciliation_evidence_refs |-> EvidenceRefs(d), can_authorize |-> FALSE]
=============================================================================
