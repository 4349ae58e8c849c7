-------------------------- MODULE Verdicts_proofs --------------------------
(***************************************************************************)
(* The verdicts: what the Guardian policy can be relied on for, for every  *)
(* action and every context, what the control plane's authority can, for   *)
(* every answer of Guardian Core, and what the status of a reconciliation  *)
(* tells its reader, for every dossier.                                    *)
(***************************************************************************)
EXTENDS GuardianPolicy, Reconciliation, TLAPS

\* The actions some rule of the policy speaks for.
Ruled ==
    ALLOWED_MOCK_ACTIONS \cup ALLOWED_ATTENDED_LAB_ACTIONS
        \cup {"office_pending_approval_request_create", "office_non_authorizing_approval_decision"}

\* Default deny: an action no rule names is denied whatever its context says, and
\* so is every action on the denied list.
THEOREM DefaultDeny ==
    ASSUME NEW action, NEW c, decide(action, c) # "deny"
    PROVE  action \in Ruled /\ action \notin DENIED_ACTIONS
<1>1. ~Denied(action, c)
  BY DEF decide
<1>2. action \notin DENIED_ACTIONS
  BY <1>1 DEF Denied
<1>3. CASE AllowRuleMatches(action, c)
  BY <1>2, <1>3 DEF AllowRuleMatches, Ruled, ALLOWED_ATTENDED_LAB_ACTIONS
<1>4. CASE ~AllowRuleMatches(action, c)
  BY <1>1, <1>2, <1>4 DEF decide, Ruled
<1>. QED  BY <1>3, <1>4

\* Every rule that allows asks for a tenant and a customer context.
LEMMA RulesName ==
    ASSUME NEW action, NEW c, AllowRuleMatches(action, c)
    PROVE  Named(c)
<1>1. mock_read_only_context(c) => Named(c)
  BY DEF mock_read_only_context
<1>2. attended_model_context(c) => Named(c)
  BY DEF attended_model_context
<1>3. attended_helper_context(c) \/ attended_proposal_context(c)
          \/ attended_approval_preview_context(c) => Named(c)
  BY DEF attended_helper_context, attended_proposal_context, attended_approval_preview_context,
         PlanOnly
<1>4. attended_operator_session_context(c) \/ profile_b_login_context(c) => Named(c)
  BY DEF attended_operator_session_context, profile_b_login_context
<1>5. non_authorizing_approval_decision_context(c) => Named(c)
  BY DEF non_authorizing_approval_decision_context
<1>. QED  BY <1>1, <1>2, <1>3, <1>4, <1>5 DEF AllowRuleMatches

\* Whatever is not denied names its tenant and customer context, reaches no live
\* connector and no other tenant, has no unrestricted tool and no tainted input,
\* and claims no blocked action class: no flag of a context can buy these back.
THEOREM NothingAllowedAcross ==
    ASSUME NEW action, NEW c, decide(action, c) # "deny"
    PROVE  /\ Named(c) /\ Confined(c)
           /\ ~Truthy(c.live_connector_enabled)
           /\ ~Truthy(c.tainted_input_privileged_action)
           /\ c.schema_action_class \notin BLOCKED_SCHEMA_ACTION_CLASSES
<1>1. ~Denied(action, c)
  BY DEF decide
<1>2. Confined(c) /\ ~Truthy(c.live_connector_enabled)
          /\ ~Truthy(c.tainted_input_privileged_action)
          /\ c.schema_action_class \notin BLOCKED_SCHEMA_ACTION_CLASSES
  BY <1>1 DEF Denied
<1>3. Named(c)
  <2>1. CASE AllowRuleMatches(action, c)
    BY <2>1, RulesName
  <2>2. CASE ~AllowRuleMatches(action, c)
    <3>1. pending_approval_request_context(c)
      BY <1>1, <2>2 DEF decide
    <3>. QED  BY <3>1 DEF pending_approval_request_context
  <2>. QED  BY <2>1, <2>2
<1>. QED  BY <1>2, <1>3

\* What is not denied has the context of its own action: the reasons to deny are
\* looked for before the rules that allow.
LEMMA OnOwnContext ==
    ASSUME NEW action, NEW c, decide(action, c) # "deny"
    PROVE  OwnContext(action, c)
BY DEF decide, Denied

\* The kinds of attended work: what a context says it is executed as.
KindOf(action) ==
    CASE action = "model_subscription_readonly" -> "read_only"
      [] action \in {"operator_session_bind", "operator_profile_b_login"} ->
             "identity_metadata_only"
      [] action = "office_pending_approval_request_create" -> "request_metadata_only"
      [] action = "office_non_authorizing_approval_decision" -> "decision_metadata_only"
      [] OTHER -> "plan_only"

LEMMA ContextOfKind ==
    ASSUME NEW action, NEW c, action \notin ALLOWED_MOCK_ACTIONS, decide(action, c) # "deny"
    PROVE  c.execution_mode = KindOf(action)
<1>1. OwnContext(action, c) /\ action \in Ruled
  BY OnOwnContext, DefaultDeny
<1>2. CASE action = "model_subscription_readonly"
  BY <1>1, <1>2 DEF OwnContext, attended_model_context, KindOf
<1>3. CASE action \in {"helper_synthetic_review", "office_task_proposal_manage",
                       "office_approval_preview_manage"}
  <2>1. PlanOnly(c)
    BY <1>1, <1>3 DEF OwnContext, attended_helper_context, attended_proposal_context,
                      attended_approval_preview_context
  <2>. QED  BY <1>3, <2>1 DEF PlanOnly, KindOf
<1>4. CASE action \in {"operator_session_bind", "operator_profile_b_login"}
  <2>1. attended_operator_session_context(c)
    BY <1>1, <1>4 DEF OwnContext, profile_b_login_context
  <2>. QED  BY <1>4, <2>1 DEF attended_operator_session_context, KindOf
<1>5. CASE action = "office_pending_approval_request_create"
  BY <1>1, <1>5 DEF OwnContext, pending_approval_request_context, KindOf
<1>6. CASE action = "office_non_authorizing_approval_decision"
  <2>1. non_authorizing_approval_decision_context(c)
    BY <1>1, <1>6 DEF OwnContext
  <2>. QED  BY <1>6, <2>1 DEF non_authorizing_approval_decision_context, KindOf
<1>. QED  BY <1>1, <1>2, <1>3, <1>4, <1>5, <1>6
          DEF Ruled, ALLOWED_ATTENDED_LAB_ACTIONS, ALLOWED_MOCK_ACTIONS

\* No context serves two kinds of attended work: one that passes for a model call,
\* a plan, a session, a request or a decision is denied for the actions of every
\* other kind, although the first attended rule of decide (policy.py:69) takes a
\* model call's context for six actions.
THEOREM ContextsServeOneKind ==
    ASSUME NEW a, NEW b, NEW c, {a, b} \cap ALLOWED_MOCK_ACTIONS = {},
           decide(a, c) # "deny", KindOf(a) # KindOf(b)
    PROVE  decide(b, c) = "deny"
  BY ContextOfKind

\* No attended action is allowed without evidence, and none by nobody: only the
\* expiry of a request goes on without an operator who confirms it.
THEOREM AttendedIsAttended ==
    ASSUME NEW action, NEW c, action \notin ALLOWED_MOCK_ACTIONS,
           decide(action, c) # "deny"
    PROVE  /\ Evidenced(c) /\ c.operator_confirmation = "yes"
           /\ c.attended = "yes" \/ SettledByTime(c)
<1>1. OwnContext(action, c) /\ action \in Ruled
  BY OnOwnContext, DefaultDeny
<1>2. CASE action = "model_subscription_readonly"
  BY <1>1, <1>2 DEF OwnContext, attended_model_context, Yes
<1>3. CASE action \in {"helper_synthetic_review", "office_task_proposal_manage",
                       "office_approval_preview_manage"}
  <2>1. PlanOnly(c)
    BY <1>1, <1>3 DEF OwnContext, attended_helper_context, attended_proposal_context,
                      attended_approval_preview_context
  <2>. QED  BY <2>1 DEF PlanOnly, Yes
<1>4. CASE action \in {"operator_session_bind", "operator_profile_b_login"}
  <2>1. attended_operator_session_context(c)
    BY <1>1, <1>4 DEF OwnContext, profile_b_login_context
  <2>. QED  BY <2>1 DEF attended_operator_session_context, Yes
<1>5. CASE action = "office_pending_approval_request_create"
  BY <1>1, <1>5 DEF OwnContext, pending_approval_request_context, Yes
<1>6. CASE action = "office_non_authorizing_approval_decision"
  <2>1. non_authorizing_approval_decision_context(c)
    BY <1>1, <1>6 DEF OwnContext
  <2>. QED  BY <2>1 DEF non_authorizing_approval_decision_context, SettledBySession, Yes
<1>. QED  BY <1>1, <1>2, <1>3, <1>4, <1>5, <1>6
          DEF Ruled, ALLOWED_ATTENDED_LAB_ACTIONS, ALLOWED_MOCK_ACTIONS

\* An approval is never assumed: where the context says one is required, nothing is
\* allowed without a valid token verification that lets it proceed.
THEOREM ApprovalNeverAssumed ==
    ASSUME NEW action, NEW c, require_allowed(action, c), Truthy(c.approval_required)
    PROVE  token_verification_allows(c)
<1>1. decide(action, c) # "deny" /\ decide(action, c) # "requires_approval"
  BY DEF require_allowed
<1>2. ~Denied(action, c) /\ AllowRuleMatches(action, c)
  BY <1>1 DEF decide
<1>3. action # "office_pending_approval_request_create"
  BY <1>2 DEF AllowRuleMatches, ALLOWED_MOCK_ACTIONS, ALLOWED_ATTENDED_LAB_ACTIONS
<1>. QED  BY <1>2, <1>3 DEF Denied

\* Asking for approval is not approval: creating a pending request is the only
\* action answered with "requires_approval", and it is never allowed outright.
THEOREM RequestIsNotApproval ==
    ASSUME NEW action, NEW c
    PROVE  /\ decide(action, c) = "requires_approval" =>
                  action = "office_pending_approval_request_create"
           /\ ~require_allowed("office_pending_approval_request_create", c)
<1>1. decide(action, c) = "requires_approval" => action = "office_pending_approval_request_create"
  BY DEF decide
<1>2. ~AllowRuleMatches("office_pending_approval_request_create", c)
  BY DEF AllowRuleMatches, ALLOWED_MOCK_ACTIONS, ALLOWED_ATTENDED_LAB_ACTIONS
<1>. QED  BY <1>1, <1>2 DEF require_allowed, decide

----------------------------------------------------------------------------

\* The authority fails closed: a decision of it rests on the evidence of the request,
\* allows only when Guardian Core said allow, is used once, and asks for an approval
\* exactly when that is its verdict.
THEOREM AuthorityFailsClosed ==
    ASSUME NEW request, NEW raises \in BOOLEAN, NEW answer,
           NEW d \in evaluate(request, raises, answer)
    PROVE  /\ ~raises /\ d.evidence = request.evidence /\ d.evidence # {}
           /\ d.verdict = "allow_with_evidence" <=> answer = "allow"
           /\ d.approval_request # {} <=> d.verdict = "requires_approval"
           /\ d.verdict = "deny" => d.replay_policy = "deny_replay"
<1>1. /\ ~raises /\ request.evidence # {}
      /\ d = BuildDecision(request.action, ActionClass(request.action), Verdict(answer),
                           request.evidence, {request.id})
  BY DEF evaluate
<1>2. Verdict(answer) = "allow_with_evidence" <=> answer = "allow"
  BY DEF Verdict
<1>. QED  BY <1>1, <1>2 DEF BuildDecision

-----------------------------------------------------------------------------
(* Reconciliation. *)

LEMMA ReconciledHasNoReason ==
    ASSUME NEW rs, Classified(rs) = "reconciled"
    PROVE  /\ "cross_tenant_linkage" \notin rs
           /\ "blocked_mvp_authorization_attempt" \notin rs
           /\ "stale_guardian_decision" \notin rs
           /\ "mismatched_approval_binding" \notin rs
           /\ "mismatched_token_verification" \notin rs
           /\ "replay_record_missing" \notin rs
           /\ "replay_record_mismatch" \notin rs
           /\ "evidence_ref_missing" \notin rs
           /\ "missing_guardian_decision" \notin rs
  BY DEF Classified

LEMMA ReasonsGiven ==
    ASSUME NEW d, NEW c, c = Canonical(d)
    PROVE  /\ CrossTenant(d, c) => "cross_tenant_linkage" \in Reasons(d)
           /\ d.decision = <<>> => "missing_guardian_decision" \in Reasons(d)
           /\ BindingMismatch(d, c) => "mismatched_approval_binding" \in Reasons(d)
           /\ TokenMismatch(d, c) => "mismatched_token_verification" \in Reasons(d)
           /\ d.replay = <<>> \/ d.record = <<>> => "replay_record_missing" \in Reasons(d)
           /\ RecordMismatch(d, c) => "replay_record_mismatch" \in Reasons(d)
           /\ BlockedAttempt(d, c) => "blocked_mvp_authorization_attempt" \in Reasons(d)
           /\ EvidenceMissing(d) => "evidence_ref_missing" \in Reasons(d)
  BY DEF Reasons, Because

\* No payload of a reconciled dossier belongs to another tenant than the one the
\* dossier is taken to be about, and none names another customer context.
THEOREM ReconciledWithinTenant ==
    ASSUME NEW d, reconcile(d).reconciliation_status = "reconciled",
           NEW p \in Range(Payloads(d))
    PROVE  /\ Canonical(d).tenant # None => Get(p, "tenant_id") = Canonical(d).tenant
           /\ Canonical(d).customer # None =>
                  Get(p, "customer_context_id") \in {None, Canonical(d).customer}
<1>1. Classified(Reasons(d)) = "reconciled"
  BY DEF reconcile
<1>2. ~CrossTenant(d, Canonical(d))
  BY <1>1, ReconciledHasNoReason, ReasonsGiven
<1>. QED  BY <1>2 DEF CrossTenant, Differs, Contradicts

\* A reconciled dossier has a decision, a replay and the record of it, and replay and
\* record agree about which record it is and which nonce was used.
THEOREM ReconciledHasItsReplay ==
    ASSUME NEW d, reconcile(d).reconciliation_status = "reconciled"
    PROVE  /\ d.decision # <<>> /\ d.replay # <<>> /\ d.record # <<>>
           /\ \A r \in Range(d.replay), s \in Range(d.record) :
                  /\ Get(r, "replay_record_id") = Get(s, "replay_record_id")
                  /\ Get(r, "decision_nonce") = Get(s, "decision_nonce")
<1>1. Classified(Reasons(d)) = "reconciled"
  BY DEF reconcile
<1>2. /\ d.decision # <<>> /\ d.replay # <<>> /\ d.record # <<>>
      /\ ~RecordMismatch(d, Canonical(d))
  BY <1>1, ReconciledHasNoReason, ReasonsGiven
<1>3. Replayed(d) = Range(d.replay)
  BY <1>2 DEF Replayed
<1>. QED  BY <1>2, <1>3 DEF RecordMismatch

\* Neither the binding nor the replay of a reconciled dossier is about an action the
\* MVP blocks, nor what its decision says it is bound to.
THEOREM ReconciledIsUnblocked ==
    ASSUME NEW d, reconcile(d).reconciliation_status = "reconciled"
    PROVE  /\ Canonical(d).action \notin BlockedActions
           /\ \A p \in Range(d.binding \o d.replay) : Get(p, "action_type") \notin BlockedActions
           /\ \A g \in Range(d.decision) : Get(g, "bound_action_type") \notin BlockedActions
<1>1. Classified(Reasons(d)) = "reconciled"
  BY DEF reconcile
<1>2. ~BlockedAttempt(d, Canonical(d))
  BY <1>1, ReconciledHasNoReason, ReasonsGiven
<1>. QED  BY <1>2 DEF BlockedAttempt

\* A dossier in which the decision or the replay says no is reconciled only when the
\* one that says no refers to the evidence of it.
THEOREM ReconciledDenialsAreEvidenced ==
    ASSUME NEW d, reconcile(d).reconciliation_status = "reconciled",
           NEW p \in SaysNo(d)
    PROVE  "denial_evidence_ref" \in DOMAIN p /\ EvidenceRefs(d) # {}
<1>1. Classified(Reasons(d)) = "reconciled"
  BY DEF reconcile
<1>2. ~EvidenceMissing(d)
  BY <1>1, ReconciledHasNoReason, ReasonsGiven
<1>. QED  BY <1>2 DEF EvidenceMissing
=============================================================================
