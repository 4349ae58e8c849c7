-------------------------- MODULE EvidenceLifecycle --------------------------
(***************************************************************************)
(* The evidence lifecycle simulator (evidence/lifecycle_simulator.py): an  *)
(* evidence id is planned as an artifact, recorded, linked to the ledger   *)
(* and put in an export manifest, each step with a payload that names      *)
(* other evidence.  A refused call raises and changes nothing.             *)
(*                                                                         *)
(* A payload is [id, tenant, position, parents, denial, others]: its place *)
(* in the chain with its parents (the previous artifact among them), the   *)
(* references the code requires to be known in some state, and the rest.   *)
(* Reasons, hashes and the export and delete claims are checked on the     *)
(* payload alone and left out.                                             *)
(***************************************************************************)
EXTENDS GuardianReplay

CONSTANTS
    Evidence,       \* evidence ids
    EvidenceTenants,
    NoTenant,
    EvidenceTasks,      \* task.execution payloads
    EvidenceDecisions,  \* guardian.decision payloads
    EvidenceTokenSets   \* sets of at most one token.verification payload

ASSUME NoTenantAssumption == NoTenant \notin EvidenceTenants

VARIABLES
    evidence,   \* _current: evidence id -> [state, tenant, refs, required]
    tenantOf    \* _tenant_by_evidence_ref, which is also _artifacts_by_id

evidenceVars == <<evidence, tenantOf>>

EVIDENCE_TRANSITIONS ==
    [planned |-> {"pre_action_recorded", "denial_recorded", "replay_denial_recorded",
                  "failed_closed_recorded", "blocked", "rejected"},
     pre_action_recorded |->
        {"post_action_recorded", "failed_closed_recorded", "blocked", "rejected"},
     post_action_recorded |-> {"ledger_linked"},
     denial_recorded |-> {"ledger_linked"},
     replay_denial_recorded |-> {"ledger_linked"},
     failed_closed_recorded |-> {"ledger_linked"},
     ledger_linked |-> {"export_manifest_planned"}]

\* STATE_CONTRACT_MAP: only an artifact enters the reference table.
ContractFor(state) ==
    CASE state \in {"blocked", "rejected"} -> {"artifact", "failure"}
      [] state = "failed_closed_recorded" -> {"failure"}
      [] state = "ledger_linked" -> {"ledger"}
      [] state = "export_manifest_planned" -> {"manifest"}
      [] OTHER -> {"artifact"}

Unplanned == [state |-> "unplanned"]

EvidenceInit ==
    /\ evidence = [e \in Evidence |-> Unplanned]
    /\ tenantOf = [e \in Evidence |-> NoTenant]

\* _classify_evidence_ref: known in the simulator, under this tenant.
Known(ref, tenant) == tenantOf[ref] = tenant

\* The references a state makes the code look up (_assert_ref_semantics).
RequiredRefs(p, to, kind) ==
    (IF to \in {"denial_recorded", "replay_denial_recorded", "failed_closed_recorded"}
     THEN p.denial ELSE {})
        \cup (IF kind = "artifact" /\ p.position > 1 THEN p.parents ELSE {})
        \cup (IF kind = "ledger" THEN p.denial ELSE {})

AllRefs(p) == p.parents \cup p.denial \cup p.others

\* Mutated form: a reference to another tenant's evidence is known too.
RefsAdmitted_AnyTenant(p, to, kind) ==
    \A r \in RequiredRefs(p, to, kind) : tenantOf[r] # NoTenant

\* Required references are known here; any other may be unknown, but not
\* another tenant's (_assert_ref_tenant_consistency).
RefsAdmitted(p, to, kind) ==
    /\ \A r \in RequiredRefs(p, to, kind) : Known(r, p.tenant)
    /\ \A r \in AllRefs(p) : tenantOf[r] \in {NoTenant, p.tenant}

\* assert_evidence_artifact_chain_consistent: the parents of an artifact are
\* looked up only if the table holds anything at all.  A manifest's references
\* are looked up under the same condition.
ChainConsistent(p, kind) ==
    /\ kind = "artifact" /\ p.position > 1 => p.parents # {}
    /\ (\E e \in Evidence : tenantOf[e] # NoTenant) =>
        /\ kind = "artifact" => \A r \in p.parents : Known(r, p.tenant)
        /\ kind = "manifest" => \A r \in p.others \cup p.denial : Known(r, p.tenant)

\* The token and the binding a caller brought for a task that needs an approval: both,
\* of this tenant, and they authorise the task.
ApprovalLinked(t, token, binding) ==
    /\ token # {} /\ binding # {}
    /\ \A x \in token \cup binding : x.tenant = t.tenant
    /\ TokenAuthorizes(t, token, binding)

\* _assert_guardian_task_approval_linkage: the caller brought a task and a
\* decision of this tenant, the decision authorises the task, and a task that needs
\* an approval came with it.  (ReplaySafe asks for the evidence of any task, so
\* that a completed one needs its evidence says no more.)
LinkedToAction(to, tenant) ==
    to \in {"pre_action_recorded", "post_action_recorded"} =>
        \E t \in EvidenceTasks, d \in EvidenceDecisions :
            /\ t.tenant = tenant /\ d.tenant = tenant
            /\ ReplaySafe(d, ActionOf(t, d), {})
            /\ t.approval => \E token \in EvidenceTokenSets, binding \in BindingSets :
                                 ApprovalLinked(t, token, binding)

Tracked(p, kind) ==
    tenantOf' = IF kind = "artifact" THEN [tenantOf EXCEPT ![p.id] = p.tenant] ELSE tenantOf

Stored(p, to, kind) ==
    evidence' = [evidence EXCEPT ![p.id] =
        [state |-> to, tenant |-> p.tenant, required |-> RequiredRefs(p, to, kind)]]

register_evidence(p) ==
    /\ evidence[p.id] = Unplanned
    /\ RefsAdmitted(p, "planned", "artifact")
    /\ ChainConsistent(p, "artifact")
    /\ Tracked(p, "artifact") /\ Stored(p, "planned", "artifact")

transition_evidence(p, to, kind) ==
    /\ evidence[p.id] # Unplanned
    /\ evidence[p.id].tenant = p.tenant
    /\ evidence[p.id].state \in DOMAIN EVIDENCE_TRANSITIONS
    /\ to \in EVIDENCE_TRANSITIONS[evidence[p.id].state]
    /\ kind \in ContractFor(to)
    /\ RefsAdmitted(p, to, kind)
    /\ ChainConsistent(p, kind)
    /\ LinkedToAction(to, p.tenant)
    /\ to \in {"denial_recorded", "replay_denial_recorded", "failed_closed_recorded",
              "ledger_linked"} => p.denial # {}
    /\ Tracked(p, kind) /\ Stored(p, to, kind)

EvidencePayloads ==
    [id : Evidence, tenant : EvidenceTenants, position : {1, 2},
     parents : {s \in SUBSET Evidence : Cardinality(s) <= 1},
     denial : {s \in SUBSET Evidence : Cardinality(s) <= 1},
     others : {s \in SUBSET Evidence : Cardinality(s) <= 1}]

EvidenceStates == UNION {EVIDENCE_TRANSITIONS[s] : s \in DOMAIN EVIDENCE_TRANSITIONS}

EvidenceNext ==
    \E p \in EvidencePayloads :
        \/ register_evidence(p)
        \/ \E to \in EvidenceStates : \E kind \in ContractFor(to) :
                transition_evidence(p, to, kind)

----------------------------------------------------------------------------

\* Evidence never comes to rest on another tenant's: what a recorded payload was
\* required to refer to is evidence of its own tenant, at that moment and for
\* ever after, whatever is registered later under the same or another id.
RequiredRefsStayInTenant ==
    \A e \in Evidence : evidence[e] # Unplanned =>
        \A r \in evidence[e].required : tenantOf[r] = evidence[e].tenant
=============================================================================
