--------------------------- MODULE GuardianPolicy ---------------------------
(***************************************************************************)
(* What the local Guardian policy decides (guardian/policy.py), what the   *)
(* control plane's Guardian authority makes of Guardian Core's answer      *)
(* (guardian/authority.py), and the decision both build                    *)
(* (guardian/decision.py).  Pure: an action and a context in, a verdict    *)
(* out.  The wording of a denial is left out, so the order in which        *)
(* reasons are looked for is too.                                          *)
(*                                                                         *)
(* A context is a function from its keys to values: "yes" and "no" are     *)
(* True and False, "absent" is a key that is not there or None, and a      *)
(* list without elements is "no".  Every other value counts as true.       *)
(***************************************************************************)
EXTENDS Naturals

Truthy(v) == v \notin {"absent", "no"}
Yes(c, keys)   == \A k \in keys : c[k] = "yes"
No(c, keys)    == \A k \in keys : c[k] = "no"
Given(c, keys) == \A k \in keys : Truthy(c[k])
Unset(c, keys) == \A k \in keys : ~Truthy(c[k])

DENIED_ACTIONS ==
    {"connector_live_access", "cross_tenant_access", "external_send", "external_message_send",
     "file_delete", "missing_approval_token", "remediation", "tainted_input_privileged_action",
     "unrestricted_tool"}
ALLOWED_MOCK_ACTIONS ==
    {"lab_support", "internal_note", "mock_diagnostic", "mock_form_submission",
     "read_only_diagnostic"}
ALLOWED_ATTENDED_LAB_ACTIONS ==
    {"helper_synthetic_review", "model_subscription_readonly", "office_task_proposal_manage",
     "office_approval_preview_manage", "operator_session_bind", "operator_profile_b_login"}
BAD_TOKEN_STATES ==
    {"expired", "revoked", "used", "replayed", "missing", "mismatched", "wrong_scope", "ambiguous"}
BLOCKED_SCHEMA_ACTION_CLASSES ==
    {"connector_access", "file_delete", "file_write", "lima_it_remediation", "network_access",
     "outbound_message", "privileged_operation", "scheduled_action"}

----------------------------------------------------------------------------
\* The contexts an attended action must bring.

Named(c) == Given(c, {"tenant_id", "customer_context_id"})
Evidenced(c) == c.evidence_required = "yes" /\ Truthy(c.evidence_artifact_ids)
Confined(c) == Unset(c, {"connector_live_access", "cross_tenant_access", "unrestricted_tool"})

attended_operator_session_context(c) ==
    /\ Named(c) /\ Evidenced(c)
    /\ c.execution_mode = "identity_metadata_only" /\ c.external_effect = "none"
    /\ Yes(c, {"attended", "operator_confirmation", "local_loopback_only", "process_bound"})
    /\ No(c, {"raw_os_username_stored", "credentials_collected", "production_identity_verified",
              "approval_authority", "approval_result_allowed", "approval_token_access_allowed",
              "arc_dispatch_allowed", "connector_access_allowed", "submission_allowed",
              "approval_required"})

profile_b_login_context(c) ==
    /\ attended_operator_session_context(c)
    /\ Yes(c, {"phishing_resistant_step_up", "named_owner", "device_bound", "mfa_verified",
               "step_up_stub_only", "ceremony_verified"})
    /\ No(c, {"survives_process_restart", "positive_approval_step_up_issued"})
    /\ c.bound_action_type = "operator_profile_b_login"

\* An operator settles a live request; only the passing of time settles an expired one.
SettledBySession(c) ==
    /\ c.operation \in {"deny", "cancel"}
    /\ Yes(c, {"attended", "operator_session_active"}) /\ No(c, {"request_expired"})
    /\ Truthy(c.operator_session_binding_id)
SettledByTime(c) ==
    /\ c.operation = "expire"
    /\ No(c, {"attended", "operator_session_active"}) /\ Yes(c, {"request_expired"})
    /\ c.operator_session_binding_id = "absent"

non_authorizing_approval_decision_context(c) ==
    /\ Named(c) /\ Evidenced(c) /\ Confined(c)
    /\ Truthy(c.approval_request_id)
    /\ c.execution_mode = "decision_metadata_only" /\ c.external_effect = "none"
    /\ c.result \in {"denied", "cancelled", "expired"}
    /\ Yes(c, {"operator_confirmation", "fresh_intent", "non_authorizing", "request_pending",
               "synthetic_data_only", "approval_result_created"})
    /\ No(c, {"approval_token_access_allowed", "approval_binding_allowed",
              "token_verification_allowed", "replay_record_allowed", "model_call_allowed",
              "tool_execution_allowed", "arc_dispatch_allowed", "connector_access_allowed",
              "submission_allowed", "external_side_effects", "approval_required"})
    /\ SettledBySession(c) \/ SettledByTime(c)

pending_approval_request_context(c) ==
    /\ Named(c) /\ Evidenced(c) /\ Confined(c)
    /\ Given(c, {"approval_request_id", "operator_session_binding_id"})
    /\ c.execution_mode = "request_metadata_only" /\ c.external_effect = "none"
    /\ Yes(c, {"attended", "operator_confirmation", "operator_session_active", "fresh_intent",
               "preview_reviewed_no_authority", "source_current", "synthetic_data_only",
               "request_only", "approval_required"})
    /\ No(c, {"production_identity_verified", "free_form_content_allowed",
              "approval_result_allowed", "approval_token_access_allowed",
              "approval_binding_allowed", "token_verification_allowed", "replay_record_allowed",
              "model_call_allowed", "tool_execution_allowed", "arc_dispatch_allowed",
              "connector_access_allowed", "submission_allowed", "external_side_effects"})

\* What the three planning contexts have in common.
PlanOnly(c) ==
    /\ Named(c) /\ Evidenced(c) /\ Confined(c)
    /\ c.execution_mode = "plan_only" /\ c.external_effect = "none"
    /\ c.data_classification = "synthetic_fixture_only"
    /\ Yes(c, {"attended", "operator_confirmation", "synthetic_data_only"})
    /\ No(c, {"model_call_allowed", "tool_execution_allowed", "approval_token_access_allowed",
              "arc_dispatch_allowed", "connector_access_allowed", "submission_allowed",
              "approval_required"})

attended_approval_preview_context(c) ==
    /\ PlanOnly(c)
    /\ c.operation \in {"create", "review", "deny", "withdraw"}
    /\ Yes(c, {"preview_only"})
    /\ No(c, {"free_form_content_allowed", "real_approval_request_allowed",
              "approval_result_allowed", "approval_binding_allowed",
              "token_verification_allowed", "replay_record_allowed"})

attended_proposal_context(c) ==
    /\ PlanOnly(c)
    /\ c.operation \in {"create", "edit", "propose", "accept", "deny", "cancel"}
    /\ No(c, {"free_form_content_allowed"})

attended_helper_context(c) ==
    /\ PlanOnly(c)
    /\ c.helper_role = "office_operations_helper" /\ c.review_type = "registration_sop_review"
    /\ Yes(c, {"deterministic_review"})
    /\ No(c, {"memory_access_allowed"})

attended_model_context(c) ==
    /\ Named(c) /\ Evidenced(c) /\ Confined(c)
    /\ c.execution_mode = "read_only" /\ c.external_effect = "none"
    /\ c.provider = "openai_codex_subscription" /\ c.auth_method = "saved_chatgpt_cli_session"
    /\ c.sandbox_mode = "read_only" /\ c.session_persistence = "ephemeral"
    /\ c.data_classification \in {"public", "internal"} /\ c.taint_status = "clean"
    /\ Yes(c, {"attended", "operator_confirmation"})
    /\ No(c, {"tools_enabled", "web_search_enabled", "user_config_loaded", "rules_loaded",
              "fallback_allowed", "approval_required"})

mock_read_only_context(c) ==
    /\ Named(c)
    /\ c.execution_mode \in {"plan_only", "read_only", "draft_only", "mock_only"}
    /\ c.external_effect \in {"none", "draft_only"}
    /\ c.evidence_required # "no"
    /\ Confined(c) /\ Unset(c, {"tainted_input_privileged_action"})

\* The token verification of a context: {} or a set of one.
token_verification_allows(c) ==
    \E v \in c.token_verification :
        /\ v.verification_result = "valid" /\ v.can_proceed = "yes"
        /\ v.token_status_observed \notin BAD_TOKEN_STATES \cup {"absent"}

----------------------------------------------------------------------------
\* _deny_reason: is there one?

OwnContext(action, c) ==
    /\ action = "model_subscription_readonly" => attended_model_context(c)
    /\ action = "helper_synthetic_review" => attended_helper_context(c)
    /\ action = "office_task_proposal_manage" => attended_proposal_context(c)
    /\ action = "office_approval_preview_manage" => attended_approval_preview_context(c)
    /\ action = "operator_session_bind" => attended_operator_session_context(c)
    /\ action = "operator_profile_b_login" => profile_b_login_context(c)
    /\ action = "office_pending_approval_request_create" => pending_approval_request_context(c)
    /\ action = "office_non_authorizing_approval_decision" =>
           non_authorizing_approval_decision_context(c)

LabSupportBounded(c) ==
    /\ c.scope = "synthetic_registration_history" /\ c.preserve_sops = "yes"
    /\ c.operation \in {"diagnostic_export", "synthetic_history_reset", "service_stop"}
    /\ c.operation = "synthetic_history_reset" => c.confirmed = "yes"

FormReviewed(c) ==
    /\ c.synthetic_data_only = "yes" /\ c.operator_review_decision = "approved"
    /\ c.unresolved_issue_count = "zero" /\ c.mock_target = "localhost_test_range"

Denied(action, c) ==
    \/ ~OwnContext(action, c)
    \/ action = "lab_support" /\ ~LabSupportBounded(c)
    \/ c.schema_action_class \in BLOCKED_SCHEMA_ACTION_CLASSES
    \/ action = "mock_form_submission" /\ ~FormReviewed(c)
    \/ action \in DENIED_ACTIONS
    \/ ~Confined(c) \/ Truthy(c.live_connector_enabled)
    \/ Truthy(c.tainted_input_privileged_action)
    \/ Truthy(c.evidence_required) /\ ~Truthy(c.evidence_artifact_ids)
    \/ /\ action # "office_pending_approval_request_create"
       /\ Truthy(c.approval_required) /\ ~token_verification_allows(c)

AllowRuleMatches(action, c) ==
    \/ action \in ALLOWED_MOCK_ACTIONS /\ mock_read_only_context(c)
    \/ action \in ALLOWED_ATTENDED_LAB_ACTIONS /\ attended_model_context(c)
    \/ action = "helper_synthetic_review" /\ attended_helper_context(c)
    \/ action = "office_task_proposal_manage" /\ attended_proposal_context(c)
    \/ action = "office_approval_preview_manage" /\ attended_approval_preview_context(c)
    \/ action = "operator_session_bind" /\ attended_operator_session_context(c)
    \/ action = "operator_profile_b_login" /\ profile_b_login_context(c)
    \/ /\ action = "office_non_authorizing_approval_decision"
       /\ non_authorizing_approval_decision_context(c)

decide(action, c) ==
    IF Denied(action, c) THEN "deny"
    ELSE IF AllowRuleMatches(action, c) THEN "allow_with_evidence"
    ELSE IF /\ action = "office_pending_approval_request_create"
            /\ pending_approval_request_context(c)
    THEN "requires_approval" ELSE "deny"

\* require_allowed: whether it returns instead of raising.
require_allowed(action, c) == decide(action, c) \in {"allow", "allow_with_evidence"}

----------------------------------------------------------------------------
\* GuardianCoreAuthority: a request's answer and the decision made of it.

\* _policy_input: Guardian Core is handed one tool policy, chosen by the action.
PolicyDefault(action) ==
    CASE action \in {"safe_read", "safe_list", "status"} -> "allow"
      [] action \in {"external_write", "file_mutation"}  -> "confirm"
      [] action = "credential_access"                    -> "privileged_reveal"
      [] OTHER                                           -> "deny"

\* _action_class.
ActionClass(action) ==
    CASE action \in {"safe_read", "safe_list", "status"} -> "lima_it_diagnostic"
      [] action \in {"external_write", "file_mutation", "credential_access", "shell"} ->
             "tool_invocation"
      [] OTHER -> "privileged_operation"

\* What an answer of Guardian Core means; one it cannot give means deny.
Verdict(answer) ==
    CASE answer = "allow" -> "allow_with_evidence"
      [] answer \in {"confirm", "privileged_reveal"} -> "requires_approval"
      [] OTHER -> "deny"

\* build_guardian_decision, as far as an answer is judged by it later: a
\* context without evidence gets an id made up from the action.
MadeUp(action) == [made_up_for |-> action]
BuildDecision(action, class, verdict, evidence, request) ==
    LET denied == verdict \in {"deny", "block_mvp", "quarantine_subject"}
        refs == IF evidence = {} THEN {MadeUp(action)} ELSE evidence
    IN  [verdict |-> verdict, action |-> action, class |-> class, evidence |-> refs,
         approval |-> verdict = "requires_approval",
         approval_request |-> IF verdict = "requires_approval" THEN request ELSE {},
         replay_policy |-> IF verdict = "block_mvp" THEN "blocked_mvp"
                           ELSE IF denied THEN "deny_replay" ELSE "one_time",
         status |-> IF verdict = "block_mvp" THEN "blocked_mvp" ELSE "unused"]

\* evaluate: the decisions it may return, none when it fails closed.  Guardian
\* Core raises, or answers; without evidence in the request its answer is dropped.
evaluate(request, raises, answer) ==
    IF raises \/ request.evidence = {} THEN {}
    ELSE {BuildDecision(request.action, ActionClass(request.action), Verdict(answer),
                        request.evidence, {request.id})}
=============================================================================
