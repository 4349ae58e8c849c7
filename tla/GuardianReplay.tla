--------------------------- MODULE GuardianReplay ---------------------------
(***************************************************************************)
(* When a Guardian decision, an approval binding, a token verification or  *)
(* a replay record authorises (runtime/invariants.py).  Pure: the records  *)
(* the checks read, and the verdicts.                                      *)
(*                                                                         *)
(* A decision is bound to part of an action: "bound" is a function from    *)
(* the names it is bound under (task, worker, action type, scope hash,     *)
(* binding, token) to values, and an action carries such a function too.   *)
(* A reading of the clock against the decision's three instants is one of  *)
(* Ages.  Scopes are sets of operations; {} is a scope that is absent.     *)
(***************************************************************************)
EXTENDS FiniteSets, Naturals

CONSTANTS
    BlockedOperations, BlockedActions,
    BindingSets     \* sets of at most one approval.binding payload

\* What a caller may bring of each kind: nothing or one.
Brought(S) == {{}} \cup {{x} : x \in S}

\* open: within the window.  old: expired and stale at once.  early: issued or
\* effective further ahead than the clock skew allows, or an unreadable window.
Ages == {"open", "expired", "stale", "old", "early"}
Expired(d) == d.age \in {"expired", "old"}
Stale(d) == d.age \in {"stale", "old"}

\* _assert_guardian_decision_time_window.
InWindow(d) == d.age = "open"

\* _assert_guardian_decision_matches_action: tenant, context and decision are
\* required of the action, and every name the decision is bound under.
MatchesAction(d, a) ==
    /\ a.tenant = d.tenant /\ a.id = d.id
    /\ \A n \in DOMAIN d.bound : n \in DOMAIN a.bound /\ a.bound[n] = d.bound[n]

\* _assert_guardian_decision_scope_allows_action.
ScopeAllows(d, a) ==
    \/ d.scope = {} /\ a.scope = {}
    \/ /\ a.scope # {} /\ a.scope \subseteq d.scope
       /\ a.scope \cap BlockedOperations = {}

\* _assert_guardian_decision_evidence_present.
EvidencePresent(d, a) == a.evidence # {} /\ a.evidence \subseteq d.evidence

\* assert_guardian_decision_replay_safe: an allowing, unused, one-time decision
\* whose nonce is not among the consumed ones, inside its window, for this action.
ReplaySafe(d, a, consumed) ==
    /\ d.verdict \in {"allow", "allow_with_evidence"}
    /\ d.status = "unused"
    /\ d.nonce \notin consumed
    /\ d.action \notin BlockedActions /\ a.action \notin BlockedActions
    /\ ~d.tainted /\ d.evidence # {}
    /\ InWindow(d) /\ MatchesAction(d, a) /\ ScopeAllows(d, a) /\ EvidencePresent(d, a)

\* What a task asks a decision for.  Its own action type and scope when it names
\* them, to be compared with the decision's; what it leaves out of these, and of the
\* scope hash, is the decision's.
Filled == {"action", "scope_hash"}
ActionOf(t, d) ==
    LET bound == [n \in DOMAIN t.bound \cup (DOMAIN d.bound \cap Filled) |->
                     IF n \in DOMAIN t.bound THEN t.bound[n] ELSE d.bound[n]]
    IN  [t EXCEPT !.id = t.decision, !.bound = bound,
                  !.scope = IF t.scope = {} THEN d.scope ELSE t.scope,
                  !.action = IF "action" \in DOMAIN t.bound THEN t.bound["action"] ELSE d.action]

\* _assert_binding_times_fresh: before its expiry, on a clock that is readable.
BindingFresh(b) == b.live

\* _assert_binding_matches_action: whatever the action names is what the binding names.
BindingMatches(b, a) ==
    /\ \A n \in DOMAIN a.bound : n \in DOMAIN b.bound /\ a.bound[n] = b.bound[n]
    /\ a.tenant = b.tenant

\* _assert_binding_scope_allows_action: an action may leave its scope out.
BindingScopeAllows(b, a) ==
    a.scope # {} => a.scope \subseteq b.scope /\ a.scope \cap BlockedOperations = {}

\* _assert_binding_evidence_present.
BindingEvidencePresent(b, a) == a.evidence # {} /\ a.evidence \subseteq b.evidence

\* assert_approval_binding_authorizes_action: b is the live, separated,
\* untainted binding of exactly this action; its nonce is checked, not spent.
BindingAuthorizes(b, a) ==
    /\ b.status = "bound" /\ ~b.tainted
    /\ b.requester # b.approver
    /\ b.action \notin BlockedActions
    /\ BindingFresh(b) /\ BindingMatches(b, a)
    /\ BindingScopeAllows(b, a) /\ BindingEvidencePresent(b, a)

\* assert_token_verification_authorizes_task: a binding is compared with the task, its
\* worker and its approval, but not with the action type, the scope and the binding the
\* task names.
TokenAuthorizes(task, token, b) ==
    task.approval =>
        /\ token # {}
        /\ \A t \in token :
               t.tenant = task.tenant /\ t.task = task.id /\ t.decision = task.decision /\ t.valid
        /\ \A x \in b : BindingAuthorizes(x, [task EXCEPT !.scope = {},
                            !.bound = [n \in DOMAIN task.bound \ (Filled \cup {"binding"}) |->
                                            task.bound[n]]])

\* The names under which two sides are both bound and disagree.
Disagree(x, y) == {n \in DOMAIN x \cap DOMAIN y : x[n] # y[n]}

\* _assert_scope_subset: nothing asked, or within what there is.
ScopeWithin(asked, allowed) == asked = {} \/ asked \subseteq allowed

\* A replay record agrees with what the caller brings beside it, each {} when
\* left out: the action, the decision, the binding of the nonce's use.
RecordOfAction(r, actions) ==
    \A a \in actions :
        a.tenant = r.tenant /\ Disagree(a.bound, r.bound) = {} /\ ScopeWithin(a.scope, r.scope)
RecordOfDecision(r, decisions) ==
    \A d \in decisions :
        /\ d.tenant = r.tenant /\ d.id = r.decision
        /\ \A n \in DOMAIN d.bound \cap {"action", "binding", "token"} :
                n \in DOMAIN r.bound /\ r.bound[n] = d.bound[n]
        /\ ScopeWithin(r.scope, d.scope)
RecordOfBinding(r, bindings) ==
    \A b \in bindings :
        b.tenant = r.tenant /\ Disagree(b.bound, r.bound) \cap {"binding", "token"} = {}
            /\ ScopeWithin(r.scope, b.scope)

\* assert_replay_store_record_consistent for authorization: only a pending
\* reservation authorises.
RecordAuthorizes(r) ==
    /\ r.action \notin BlockedActions
    /\ r.status = "reserved" /\ r.atomicity = "pending"

\* The names under which decision and action are both bound and disagree
\* (_collect_requested_action_mismatch_categories); the tenant is one of them.
Mismatches(d, a) ==
    Disagree(d.bound, a.bound)
        \cup (IF a.tenant # d.tenant THEN {"tenant"} ELSE {})
        \cup (IF a.scope # {} /\ d.scope # {} /\ a.scope # d.scope THEN {"scope"} ELSE {})
=============================================================================
