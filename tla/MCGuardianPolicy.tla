-------------------------- MODULE MCGuardianPolicy --------------------------
(* The Guardian policy on the contexts its callers bring: each is decided    *)
(* as they expect, and no longer when any one of the keys it sets is left    *)
(* out, or any flag it does not set is raised.  TLC evaluates the            *)
(* assumptions with every run that extends this module.                      *)
EXTENDS TLC

Policy == INSTANCE GuardianPolicy

Base == [tenant_id |-> "some", customer_context_id |-> "some", evidence_required |-> "yes",
         evidence_artifact_ids |-> "some", external_effect |-> "none", operator_confirmation |-> "yes"]
Valued(keys, v) == [k \in keys |-> v]
Attended(mode) == Base @@ [execution_mode |-> mode, attended |-> "yes"]
Session ==
    Attended("identity_metadata_only") @@ Valued({"local_loopback_only", "process_bound"}, "yes")
        @@ Valued({"raw_os_username_stored", "credentials_collected", "production_identity_verified",
                    "approval_authority", "approval_result_allowed", "approval_token_access_allowed",
                    "arc_dispatch_allowed", "connector_access_allowed", "submission_allowed",
                    "approval_required"}, "no")
NoEffects ==
    Valued({"approval_token_access_allowed", "model_call_allowed", "tool_execution_allowed",
             "arc_dispatch_allowed", "connector_access_allowed", "submission_allowed"}, "no")
NoGrants ==
    Valued({"approval_binding_allowed", "token_verification_allowed", "replay_record_allowed"}, "no")
Plan == Attended("plan_only") @@ NoEffects @@ Valued({"approval_required"}, "no")
            @@ [data_classification |-> "synthetic_fixture_only", synthetic_data_only |-> "yes"]
Settlement ==
    Base @@ NoEffects @@ NoGrants @@ Valued({"external_side_effects", "approval_required"}, "no")
        @@ Valued({"fresh_intent", "non_authorizing", "request_pending", "synthetic_data_only",
                    "approval_result_created"}, "yes")
        @@ [execution_mode |-> "decision_metadata_only", approval_request_id |-> "some"]

\* Action, context and expected verdict.
MCAsked ==
    {<<"operator_session_bind", Session, "allow_with_evidence">>,
     <<"operator_profile_b_login",
       Session @@ Valued({"phishing_resistant_step_up", "named_owner", "device_bound", "mfa_verified",
                           "step_up_stub_only", "ceremony_verified"}, "yes")
           @@ Valued({"survives_process_restart", "positive_approval_step_up_issued"}, "no")
           @@ [bound_action_type |-> "operator_profile_b_login"], "allow_with_evidence">>,
     <<"office_non_authorizing_approval_decision",
       Settlement @@ Valued({"attended", "operator_session_active"}, "yes")
           @@ [operation |-> "deny", result |-> "denied", request_expired |-> "no",
               operator_session_binding_id |-> "some"], "allow_with_evidence">>,
     <<"office_non_authorizing_approval_decision",
       Settlement @@ Valued({"attended", "operator_session_active"}, "no")
           @@ [operation |-> "expire", result |-> "expired", request_expired |-> "yes"],
       "allow_with_evidence">>,
     <<"office_pending_approval_request_create",
       Attended("request_metadata_only") @@ NoEffects @@ NoGrants
           @@ Valued({"approval_request_id", "operator_session_binding_id"}, "some")
           @@ Valued({"operator_session_active", "fresh_intent", "preview_reviewed_no_authority",
                       "source_current", "synthetic_data_only", "request_only",
                       "approval_required"}, "yes")
           @@ Valued({"production_identity_verified", "free_form_content_allowed",
                       "approval_result_allowed", "external_side_effects"}, "no"),
       "requires_approval">>,
     <<"office_approval_preview_manage",
       Plan @@ NoGrants @@ Valued({"free_form_content_allowed", "real_approval_request_allowed",
                                    "approval_result_allowed"}, "no")
           @@ [operation |-> "review", preview_only |-> "yes"], "allow_with_evidence">>,
     <<"office_task_proposal_manage",
       Plan @@ [operation |-> "propose", free_form_content_allowed |-> "no"], "allow_with_evidence">>,
     <<"helper_synthetic_review",
       Plan @@ [helper_role |-> "office_operations_helper", review_type |-> "registration_sop_review",
                deterministic_review |-> "yes", memory_access_allowed |-> "no"],
       "allow_with_evidence">>,
     <<"model_subscription_readonly",
       Attended("read_only") @@ [provider |-> "openai_codex_subscription",
           auth_method |-> "saved_chatgpt_cli_session", sandbox_mode |-> "read_only",
           session_persistence |-> "ephemeral", data_classification |-> "internal",
           taint_status |-> "clean"]
           @@ Valued({"tools_enabled", "web_search_enabled", "user_config_loaded", "rules_loaded",
                       "fallback_allowed", "approval_required"}, "no"), "allow_with_evidence">>}

\* A context sets some keys; the policy finds the others absent.
ContextKeys ==
    UNION {DOMAIN a[2] : a \in MCAsked}
        \cup {"connector_live_access", "cross_tenant_access", "unrestricted_tool",
              "live_connector_enabled", "tainted_input_privileged_action", "schema_action_class",
              "token_verification", "scope", "preserve_sops", "confirmed",
              "operator_review_decision", "unresolved_issue_count", "mock_target"}
Context(set) ==
    set @@ [k \in ContextKeys |-> IF k = "token_verification" THEN {} ELSE "absent"]

ASSUME CallersAreAnswered ==
    \A a \in MCAsked : Policy!decide(a[1], Context(a[2])) = a[3]
ASSUME EveryKeyCounts ==
    \A a \in MCAsked : \A k \in DOMAIN a[2] :
        Policy!decide(a[1], [Context(a[2]) EXCEPT ![k] = "absent"]) = "deny"
ASSUME FlagsDeny ==
    \A a \in MCAsked : \A k \in {"connector_live_access", "cross_tenant_access", "unrestricted_tool",
                                 "live_connector_enabled", "tainted_input_privileged_action"} :
        Policy!decide(a[1], [Context(a[2]) EXCEPT ![k] = "yes"]) = "deny"
=============================================================================
