------------------------- MODULE MCReconciliation -------------------------
(* The reconciler on the payloads of one approval that agree in everything,  *)
(* with any one of them left out, and with any one field of any of them      *)
(* changed.  TLC evaluates the assumptions with every run that extends this  *)
(* module.                                                                   *)
EXTENDS TLC

Recon == INSTANCE Reconciliation WITH
    None <- "none", BlockedActions <- {"remediation"}, BlockedClasses <- {"file_delete"}

Payload(fields) == [tenant_id |-> "t1", customer_context_id |-> "cc1"] @@ fields
Canon == [canonical_task_id |-> "task", canonical_worker_id |-> "w", canonical_action_type |-> "draft",
          canonical_tool_scope |-> "scope"]
Bound == [task_id |-> "task", worker_id |-> "w", action_type |-> "draft", tool_scope |-> "scope",
          token_verification_id |-> "tv", guardian_decision_id |-> "gd", evidence_refs |-> {"ev"}]

\* The bundle tests/test_approval_guardian_reconciliation_drills.py:18 builds.
Agreeing ==
    [chain |-> <<Payload([approval_chain_id |-> "ac"])>>,
     binding |-> <<Payload([approval_chain_id |-> "ac", binding_id |-> "ab"] @@ Bound)>>,
     token |-> <<Payload([token_verification_id |-> "tv", guardian_decision_id |-> "gd",
                                   task_id |-> "task", evidence_refs |-> {"ev"}])>>,
     decision |-> <<Payload([approval_chain_id |-> "ac", binding_id |-> "ab", approval_binding_id |-> "ab",
          token_verification_id |-> "tv", decision_id |-> "gd", guardian_decision_id |-> "gd",
          bound_task_id |-> "task", bound_worker_id |-> "w", bound_action_type |-> "draft",
          bound_tool_scope |-> "scope", decision_nonce |-> "n", decision |-> "allow_with_evidence",
          replay_policy |-> "one_time", replay_status |-> "unused", action_class |-> "draft_only",
          evidence_required |-> TRUE, tainted |-> FALSE, within_window |-> TRUE, denial_words |-> {}, evidence_refs |-> {"ev"}])>>,
     replay |-> <<Payload([approval_binding_id |-> "ab", replay_record_id |-> "rr",
          decision_nonce |-> "n", replay_check_result |-> "valid_first_use"] @@ Bound)>>,
     record |-> <<Payload([approval_binding_id |-> "ab", token_verification_id |-> "tv", guardian_decision_id |-> "gd",
          replay_record_id |-> "rr", decision_nonce |-> "n", related_transaction_id |-> "tx",
          action_type |-> "draft", tool_scope |-> "scope", evidence_refs |-> {"ev"}] @@ Canon)>>,
     event |-> <<Payload([transaction_id |-> "tx", related_transaction_id |-> "tx"] @@ Canon)>>,
     boundary |-> <<Payload([transaction_id |-> "tx", related_transaction_id |-> "tx"] @@ Canon)>>,
     entries |-> <<Payload([related_transaction_id |-> "tx",
                                     related_replay_record_ids |-> {"rr"}] @@ Canon)>>]

Status(d) == Recon!reconcile(d).reconciliation_status
Without(kind) == [Agreeing EXCEPT ![kind] = <<>>]
With(kind, field, value) == [Agreeing EXCEPT ![kind] = <<field :> value @@ @[1]>>]

\* Payloads that agree are reconciled, and the reconciler asks for a decision and for
\* the two records of its replay; it does without the others.
ASSUME AgreeingReconciles ==
    /\ Status(Agreeing) = "reconciled"
    /\ {k \in DOMAIN Agreeing : Status(Without(k)) # "reconciled"} = {"decision", "replay", "record"}
    /\ Status(Without("decision")) = "missing_ref"
    /\ Status(Without("record")) = "replay_mismatch"

\* Another tenant in any payload blocks the whole, whatever else is wrong with it.
ASSUME TenantsAreKeptApart ==
    \A k \in DOMAIN Agreeing, other \in {"tenant_id", "customer_context_id"} :
        /\ Status(With(k, other, "t2")) = "cross_tenant_blocked"
        /\ Status([With(k, other, "t2") EXCEPT !.record = <<>>]) =
               IF k = "record" THEN "replay_mismatch" ELSE "cross_tenant_blocked"

\* Each drift of tests/test_approval_guardian_reconciliation_drills.py:186-283 is named.
Drifts ==
    {<<"binding", "approval_chain_id", "ac2", "mismatched_binding">>,
     <<"binding", "binding_id", "ab2", "mismatched_binding">>,
     <<"binding", "action_type", "remediation", "blocked_mvp">>,
     <<"token", "guardian_decision_id", "gd2", "mismatched_binding">>,
     <<"token", "task_id", "task2", "mismatched_binding">>,
     <<"decision", "replay_status", "stale", "stale_decision">>,
     <<"decision", "within_window", FALSE, "stale_decision">>,
     <<"decision", "action_class", "file_delete", "blocked_mvp">>,
     <<"decision", "decision", "deny", "evidence_missing">>,
     <<"replay", "replay_record_id", "rr2", "replay_mismatch">>,
     <<"replay", "decision_nonce", "n2", "replay_mismatch">>,
     <<"replay", "replay_check_result", "replay_denied", "evidence_missing">>,
     <<"replay", "token_verification_id", "tv2", "mismatched_binding">>,
     <<"record", "related_transaction_id", "tx2", "coordinator_mismatch">>,
     <<"event", "transaction_id", "tx2", "coordinator_mismatch">>,
     <<"boundary", "transaction_id", "tx2", "coordinator_mismatch">>,
     <<"entries", "related_transaction_id", "tx2", "evidence_missing">>,
     <<"entries", "related_replay_record_ids", {}, "evidence_missing">>}
ASSUME DriftsAreNamed == \A x \in Drifts : Status(With(x[1], x[2], x[3])) = x[4]

\* What is not: a decision bound to another task, worker, action, scope, chain, binding
\* or token than the rest, a replay or a record of another task or worker, a decision
\* that was revoked or already used, and a tainted one are reconciled all the same.
ASSUME DriftsMissed ==
    /\ \A f \in {"bound_task_id", "bound_worker_id", "bound_action_type", "bound_tool_scope",
                 "approval_chain_id", "binding_id", "token_verification_id", "decision_id",
                 "decision_nonce"} : Status(With("decision", f, "x2")) = "reconciled"
    /\ \A k \in {"replay", "record"}, f \in {"task_id", "worker_id"} :
           Status(With(k, f, "x2")) = "reconciled"
    /\ Status(With("decision", "tainted", TRUE)) = "reconciled"
    /\ \A s \in {"consumed", "replay_denied", "revoked"} :
           Status([Agreeing EXCEPT !.decision = <<("replay_status" :> s
                     @@ "denial_evidence_ref" :> "ev") @@ @[1]>>]) = "reconciled"

\* A decision whose ids disagree, that is of another policy, or that asks for no
\* evidence is not read as far as its times: alone each goes unnoticed, and that the
\* decision is out of its window goes unnoticed with it.
ASSUME DriftsHideTheTimes ==
    \A x \in {<<"decision_id", "x2">>, <<"binding_id", "x2">>, <<"replay_policy", "many">>,
              <<"evidence_required", FALSE>>, <<"tainted", TRUE>>} :
        LET drifted == With("decision", x[1], x[2]) IN
        /\ Status(drifted) = "reconciled"
        /\ Status([drifted EXCEPT !.decision = <<"within_window" :> FALSE @@ @[1]>>]) = "reconciled"
=============================================================================
