----------------------------- MODULE OfficeLane -----------------------------
(***************************************************************************)
(* The approval lane of the operator console: OfficeTaskProposalService,   *)
(* OfficeApprovalPreviewService, AttendedOperatorSessionService,           *)
(* PendingApprovalRequestService and NonAuthorizingApprovalDecisionService *)
(* called by the threads of a ThreadingHTTPServer over one                 *)
(* HarnessStateStore.  No lock is held across a call: a handler reads the  *)
(* store and checks what it read, writes its "requested" evidence, asks    *)
(* Guardian, writes the "authorized" evidence and commits, and any other   *)
(* handler may run between two of those steps.  The process may stop       *)
(* between any two steps; the store survives, the session does not.        *)
(***************************************************************************)
EXTENDS HarnessStore

CONSTANTS
    DefaultBody,    \* normal priority and all fixed steps
    Threads,        \* HTTP handler threads
    PREVIEW_TTL,    \* PREVIEW_TTL_SECONDS, in clock ticks
    REQUEST_TTL,    \* REQUEST_TTL_SECONDS
    SESSION_TTL,    \* SESSION_TTL_SECONDS
    MaxTime         \* bound: the last clock reading

ASSUME LaneAssumption ==
    /\ PREVIEW_TTL \in Nat /\ REQUEST_TTL \in Nat /\ SESSION_TTL \in Nat
    /\ MaxTime \in Nat
    /\ DefaultBody \in Bodies

VARIABLES
    calls,          \* handlers in flight: thread -> call
    active,         \* AttendedOperatorSessionService._active
    issued,         \* tokens issued so far
    now             \* the wall clock

vars == <<proposals, previews, requests, results, evidence, calls, active, issued, now>>

NoSession == [binding |-> 0, expiresAt |-> 0]
Session == [binding: Tokens, expiresAt: Nat]

\* A call: how far it got, what it does to which record, the revision or hash
\* it expects, the record it read (stage "read") or will write, the session it
\* was authorised by (0 for none) and its clock reading.
Acts == {"create", "edit", "bind", "propose", "accept", "deny", "cancel", "review",
         "withdraw", "expire"}
Call == [stage: {"read", "checked", "requested", "authorized"},
         kind: Kinds, act: Acts, id: Tokens, expected: Nat,
         rec: Proposal \cup Preview \cup Request \cup Session,
         session: Nat, at: Nat, op: Nat]

\* Mutated form: an accepted proposal can still be cancelled.
ProposalTransitions_CancelAccepted ==
    {<<"draft", "propose", "proposed">>,
     <<"draft", "cancel", "cancelled">>,
     <<"proposed", "accept", "accepted_for_future_approval">>,
     <<"proposed", "deny", "denied">>,
     <<"proposed", "cancel", "cancelled">>,
     <<"accepted_for_future_approval", "cancel", "cancelled">>}

ProposalTransitions ==
    {<<"draft", "propose", "proposed">>,
     <<"draft", "cancel", "cancelled">>,
     <<"proposed", "accept", "accepted_for_future_approval">>,
     <<"proposed", "deny", "denied">>,
     <<"proposed", "cancel", "cancelled">>}

\* Mutated form: a reviewed preview can still be withdrawn.
PreviewTransitions_WithdrawReviewed ==
    {<<"preview_ready", "review", "reviewed_no_authority">>,
     <<"preview_ready", "deny", "denied">>,
     <<"preview_ready", "withdraw", "withdrawn">>,
     <<"reviewed_no_authority", "withdraw", "withdrawn">>}

PreviewTransitions ==
    {<<"preview_ready", "review", "reviewed_no_authority">>,
     <<"preview_ready", "deny", "denied">>,
     <<"preview_ready", "withdraw", "withdrawn">>}

DecisionTransitions ==
    {<<"deny", "denied">>, <<"cancel", "cancelled">>, <<"expire", "expired">>}

Init ==
    /\ StoreInit
    /\ calls = [t \in {} |-> 0]
    /\ active = NoSession
    /\ issued = 0
    /\ now = 0

-----------------------------------------------------------------------------
Idle(t) == t \notin DOMAIN calls
At(t, stage) == t \in DOMAIN calls /\ calls[t].stage = stage
Return(t) == calls' = [u \in DOMAIN calls \ {t} |-> calls[u]]

\* uuid4().hex
Fresh == issued + 1
Issue == issued < MaxTokens /\ issued' = Fresh

\* A record read by the first store call of a handler.
Read(t, kind, act, id, expected, record) ==
    /\ Idle(t)
    /\ calls' = Upsert(calls, t,
         [stage |-> "read", kind |-> kind, act |-> act, id |-> id,
          expected |-> expected, rec |-> record, session |-> 0, at |-> now, op |-> 0])
    /\ UNCHANGED <<tables, evidence, active, issued, now>>

\* The checks passed: the record to write is built and a token issued.
Prepare(t, kind, act, id, expected, record, session) ==
    /\ Issue
    /\ calls' = Upsert(calls, t,
         [stage |-> "checked", kind |-> kind, act |-> act, id |-> id,
          expected |-> expected, rec |-> record, session |-> session,
          at |-> now, op |-> Fresh])
    /\ UNCHANGED <<tables, evidence, active, now>>

-----------------------------------------------------------------------------
\* OfficeTaskProposalService

create_from_helper(t, helper) ==
    /\ Idle(t)
    /\ \A p \in DOMAIN proposals : proposals[p].source # helper
    /\ Prepare(t, "proposal", "create", Fresh, NoRevision,
               [source |-> helper, state |-> "draft", revision |-> 1,
                body |-> DefaultBody, op |-> Fresh], 0)

edit(t, p, body) ==
    /\ Idle(t)
    /\ p \in DOMAIN proposals
    /\ proposals[p].state = "draft"
    /\ Prepare(t, "proposal", "edit", p, proposals[p].revision,
               [proposals[p] EXCEPT !.body = body, !.revision = @ + 1, !.op = Fresh], 0)

transition_proposal(t, p, act, next) ==
    /\ Idle(t)
    /\ p \in DOMAIN proposals
    /\ <<proposals[p].state, act, next>> \in ProposalTransitions
    /\ Prepare(t, "proposal", act, p, proposals[p].revision,
               [proposals[p] EXCEPT !.state = next, !.revision = @ + 1, !.op = Fresh], 0)

-----------------------------------------------------------------------------
\* OfficeApprovalPreviewService

read_accepted_proposal(t, p) ==
    /\ p \in DOMAIN proposals
    /\ proposals[p].state = "accepted_for_future_approval"
    /\ Read(t, "preview", "create", p, NoRevision, proposals[p])

create_from_proposal(t) ==
    /\ At(t, "read") /\ calls[t].kind = "preview" /\ calls[t].act = "create"
    /\ \A v \in DOMAIN previews : previews[v].proposal # calls[t].id
    /\ Prepare(t, "preview", "create", Fresh, NoRevision,
               [proposal |-> calls[t].id, proposalRevision |-> calls[t].rec.revision,
                proposalHash |-> Digest(calls[t].rec), state |-> "preview_ready",
                revision |-> 1, expiresAt |-> now + PREVIEW_TTL, op |-> Fresh], 0)

read_preview(t, v, act) ==
    /\ v \in DOMAIN previews
    /\ \E next \in PreviewStates : <<previews[v].state, act, next>> \in PreviewTransitions
    /\ Read(t, "preview", act, v, previews[v].revision, previews[v])

\* The proposal is still accepted, at the revision and hash the preview holds.
source_matches(preview) ==
    /\ preview.proposal \in DOMAIN proposals
    /\ proposals[preview.proposal].state = "accepted_for_future_approval"
    /\ proposals[preview.proposal].revision = preview.proposalRevision
    /\ Digest(proposals[preview.proposal]) = preview.proposalHash

transition_preview(t, next) ==
    /\ At(t, "read") /\ calls[t].kind = "preview"
    /\ <<calls[t].rec.state, calls[t].act, next>> \in PreviewTransitions
    /\ source_matches(calls[t].rec)
    /\ calls[t].act = "review" => now < calls[t].rec.expiresAt
    /\ Prepare(t, "preview", calls[t].act, calls[t].id, calls[t].expected,
               [calls[t].rec EXCEPT !.state = next, !.revision = @ + 1, !.op = Fresh], 0)

-----------------------------------------------------------------------------
\* AttendedOperatorSessionService

bind(t) ==
    /\ Idle(t)
    /\ Prepare(t, "session", "bind", Fresh, NoRevision,
               [binding |-> Fresh, expiresAt |-> now + SESSION_TTL], 0)

require_active(binding) ==
    /\ active.binding = binding
    /\ now < active.expiresAt

-----------------------------------------------------------------------------
\* PendingApprovalRequestService

reviewed_preview(t, v) ==
    /\ v \in DOMAIN previews
    /\ previews[v].state = "reviewed_no_authority"
    /\ now < previews[v].expiresAt
    /\ Read(t, "request", "create", v, NoRevision, previews[v])

create_request(t, binding) ==
    /\ At(t, "read") /\ calls[t].kind = "request"
    /\ require_active(binding)
    /\ \A r \in DOMAIN requests : requests[r].preview # calls[t].id
    /\ source_matches(calls[t].rec)
    /\ Prepare(t, "request", "create", Fresh, NoRevision,
               [preview |-> calls[t].id, previewRevision |-> calls[t].rec.revision,
                previewHash |-> Digest(calls[t].rec), task |-> calls[t].rec.proposal,
                requester |-> binding, status |-> "pending_review",
                expiresAt |-> now + REQUEST_TTL, op |-> Fresh], binding)

-----------------------------------------------------------------------------
\* NonAuthorizingApprovalDecisionService

read_request(t, r, act) ==
    /\ r \in DOMAIN requests
    /\ requests[r].status = "pending_review"
    /\ Read(t, "decision", act, r, Digest(requests[r]), requests[r])

\* The preview is still reviewed at the revision and hash the request holds,
\* and the proposal is still at the revision and hash the preview holds.
require_current_source(request) ==
    /\ request.preview \in DOMAIN previews
    /\ request.task \in DOMAIN proposals
    /\ previews[request.preview].revision = request.previewRevision
    /\ Digest(previews[request.preview]) = request.previewHash
    /\ previews[request.preview].state = "reviewed_no_authority"
    /\ previews[request.preview].proposalRevision = proposals[request.task].revision
    /\ previews[request.preview].proposalHash = Digest(proposals[request.task])

\* Expiry is recorded without a session once the request expired; deny and
\* cancel need an unexpired request, the active session and a current source,
\* and cancel needs the session that created the request.
decide(t, binding, next) ==
    LET request == calls[t].rec IN
    /\ At(t, "read") /\ calls[t].kind = "decision"
    /\ <<calls[t].act, next>> \in DecisionTransitions
    /\ \A r \in DOMAIN results : results[r].request # calls[t].id
    /\ IF calls[t].act = "expire"
       THEN binding = 0 /\ now >= request.expiresAt
       ELSE /\ now < request.expiresAt
            /\ require_active(binding)
            /\ calls[t].act = "cancel" => binding = request.requester
            /\ require_current_source(request)
    /\ Prepare(t, "decision", calls[t].act, calls[t].id, calls[t].expected,
               [request EXCEPT !.status = next, !.op = Fresh], binding)

-----------------------------------------------------------------------------
\* The tail that every service shares: pre-action evidence, Guardian, its
\* evidence, and the commit.

EventRevision(call) ==
    IF call.kind \in {"proposal", "preview"} THEN call.rec.revision ELSE NoRevision

\* Mutated form: a failed evidence write is ignored.
record_requested_BestEffort(t) ==
    /\ At(t, "checked")
    /\ \/ record_event(calls[t].op, "requested", calls[t].kind, calls[t].id,
                       EventRevision(calls[t]))
       \/ UNCHANGED evidence
    /\ calls' = [calls EXCEPT ![t].stage = "requested"]
    /\ UNCHANGED <<tables, active, issued, now>>

record_requested(t) ==
    /\ At(t, "checked")
    /\ record_event(calls[t].op, "requested", calls[t].kind, calls[t].id,
                    EventRevision(calls[t]))
    /\ calls' = [calls EXCEPT ![t].stage = "requested"]
    /\ UNCHANGED <<tables, active, issued, now>>

\* GuardianPolicy.decide on the context each service builds.  The contexts are
\* constant except for a decision's session and expiry.
GuardianAllows(call) ==
    call.kind = "decision" =>
        \/ call.act \in {"deny", "cancel"} /\ call.session # 0 /\ call.at < call.rec.expiresAt
        \/ call.act = "expire" /\ call.session = 0 /\ call.at >= call.rec.expiresAt

\* A session binding has no separate authorised event: the event written after
\* Guardian allowed it is operator_session_binding_committed.
record_authorized(t) ==
    /\ At(t, "requested")
    /\ GuardianAllows(calls[t])
    /\ record_event(calls[t].op,
                    IF calls[t].kind = "session" THEN "committed" ELSE "authorized",
                    calls[t].kind, calls[t].id, EventRevision(calls[t]))
    /\ calls' = [calls EXCEPT ![t].stage = "authorized"]
    /\ UNCHANGED <<tables, active, issued, now>>

commit_proposal(t) ==
    /\ At(t, "authorized") /\ calls[t].kind = "proposal"
    /\ commit_office_proposal(calls[t].id, calls[t].rec, calls[t].expected)
    /\ Return(t)
    /\ UNCHANGED <<active, issued, now>>

commit_preview(t) ==
    /\ At(t, "authorized") /\ calls[t].kind = "preview"
    /\ commit_office_approval_preview(calls[t].id, calls[t].rec, calls[t].expected)
    /\ Return(t)
    /\ UNCHANGED <<active, issued, now>>

commit_request(t) ==
    /\ At(t, "authorized") /\ calls[t].kind = "request"
    /\ commit_office_pending_approval_request(calls[t].id, calls[t].rec)
    /\ Return(t)
    /\ UNCHANGED <<active, issued, now>>

\* Mutated form: the result records the action where its outcome belongs.
commit_decision_ActionAsResult(t) ==
    /\ At(t, "authorized") /\ calls[t].kind = "decision"
    /\ commit_office_non_authorizing_approval_decision(
           calls[t].id, calls[t].rec, calls[t].op,
           [request |-> calls[t].id, result |-> calls[t].act,
            approver |-> calls[t].session, decidedAt |-> calls[t].at,
            op |-> calls[t].op],
           calls[t].expected)
    /\ Return(t)
    /\ UNCHANGED <<active, issued, now>>

commit_decision(t) ==
    /\ At(t, "authorized") /\ calls[t].kind = "decision"
    /\ commit_office_non_authorizing_approval_decision(
           calls[t].id, calls[t].rec, calls[t].op,
           [request |-> calls[t].id, result |-> calls[t].rec.status,
            approver |-> calls[t].session, decidedAt |-> calls[t].at,
            op |-> calls[t].op],
           calls[t].expected)
    /\ Return(t)
    /\ UNCHANGED <<active, issued, now>>

\* self._active = record, under the session service's own lock.
activate_session(t) ==
    /\ At(t, "authorized") /\ calls[t].kind = "session"
    /\ active' = calls[t].rec
    /\ Return(t)
    /\ UNCHANGED <<tables, evidence, issued, now>>

-----------------------------------------------------------------------------
\* The call raises: a check after the first read failed, the evidence write
\* failed, Guardian denied, or the commit conflicted and was rolled back.
raise(t) ==
    /\ ~Idle(t)
    /\ Return(t)
    /\ UNCHANGED <<tables, evidence, active, issued, now>>

\* The process stops and is started again on the same database: calls in
\* flight and the attended session are lost.
restart ==
    /\ calls' = [t \in {} |-> 0]
    /\ active' = NoSession
    /\ UNCHANGED <<tables, evidence, issued, now>>

tick ==
    /\ now < MaxTime
    /\ now' = now + 1
    /\ UNCHANGED <<tables, evidence, calls, active, issued>>

Handler(t) ==
    \/ \E h \in HelperResults : create_from_helper(t, h)
    \/ \E p \in DOMAIN proposals, b \in Bodies : edit(t, p, b)
    \/ \E p \in DOMAIN proposals, act \in {"propose", "accept", "deny", "cancel"},
          next \in ProposalStates : transition_proposal(t, p, act, next)
    \/ \E p \in DOMAIN proposals : read_accepted_proposal(t, p)
    \/ create_from_proposal(t)
    \/ \E v \in DOMAIN previews, act \in {"review", "deny", "withdraw"} : read_preview(t, v, act)
    \/ \E next \in PreviewStates : transition_preview(t, next)
    \/ bind(t)
    \/ \E v \in DOMAIN previews : reviewed_preview(t, v)
    \/ \E b \in Tokens : create_request(t, b)
    \/ \E r \in DOMAIN requests, act \in {"deny", "cancel", "expire"} : read_request(t, r, act)
    \/ \E b \in Tokens \cup {0}, next \in RequestStates : decide(t, b, next)
    \/ record_requested(t)
    \/ record_authorized(t)
    \/ commit_proposal(t)
    \/ commit_preview(t)
    \/ commit_request(t)
    \/ commit_decision(t)
    \/ activate_session(t)
    \/ raise(t)

Next == (\E t \in Threads : Handler(t)) \/ restart \/ tick

Spec == Init /\ [][Next]_vars

-----------------------------------------------------------------------------
\* Properties

\* Every table, event and call in flight has the shape the services give it.
TypeOK ==
    /\ StoreTypeOK
    /\ DOMAIN calls \subseteq Threads /\ calls \in [DOMAIN calls -> Call]
    /\ active \in Session \cup {NoSession}
    /\ issued \in 0..MaxTokens
    /\ now \in Nat

\* No helper result has two proposals, no proposal two previews, no preview two
\* requests and no request two results, although each service looks for a
\* duplicate long before it commits and two handlers can both find none.
OneRecordPerSource ==
    /\ \A p, q \in DOMAIN proposals : proposals[p].source = proposals[q].source => p = q
    /\ \A v, w \in DOMAIN previews : previews[v].proposal = previews[w].proposal => v = w
    /\ \A r, s \in DOMAIN requests : requests[r].preview = requests[s].preview => r = s
    /\ \A r, s \in DOMAIN results : results[r].request = results[s].request => r = s

\* The source a record was checked against is still what it was: the proposal
\* of a preview is accepted at the recorded revision and hash, the preview of a
\* request is reviewed at the recorded revision and hash.  The services check
\* the source several steps before the commit and never again inside it.
SourcesCurrent ==
    /\ \A v \in DOMAIN previews : source_matches(previews[v])
    /\ \A r \in DOMAIN requests :
         /\ require_current_source(requests[r])
         /\ previews[requests[r].preview].proposal = requests[r].task

Committed(kind, id) ==
    {e \in evidence : e.stage = "committed" /\ e.kind = kind /\ e.id = id}

\* No lost update and no update without evidence: the completion events of a
\* proposal or preview carry each revision from 1 to the current one exactly
\* once, the last of them names the current record, and there is no completion
\* event for a record that does not exist.
GaplessHistory ==
    /\ \A p \in DOMAIN proposals :
         /\ {e.revision : e \in Committed("proposal", p)} = 1..proposals[p].revision
         /\ \E e \in Committed("proposal", p) :
              e.op = proposals[p].op /\ e.revision = proposals[p].revision
    /\ \A v \in DOMAIN previews :
         /\ {e.revision : e \in Committed("preview", v)} = 1..previews[v].revision
         /\ \E e \in Committed("preview", v) :
              e.op = previews[v].op /\ e.revision = previews[v].revision
    /\ \A e, f \in evidence :
         (e.stage = "committed" /\ f.stage = "committed" /\ e.kind = f.kind
             /\ e.id = f.id /\ e.revision = f.revision) => e = f
    /\ \A e \in evidence : e.stage = "committed" =>
         CASE e.kind = "proposal" -> e.id \in DOMAIN proposals
           [] e.kind = "preview" -> e.id \in DOMAIN previews
           [] e.kind \in {"request", "decision"} -> e.id \in DOMAIN requests
           [] OTHER -> TRUE

\* Evidence comes first: whatever is in the store, and the session that is
\* active, was announced and allowed by Guardian before it took effect.
EvidenceFirst ==
    LET Has(op, stage) == \E e \in evidence : e.op = op /\ e.stage = stage
        Allowed(op) == Has(op, "requested") /\ Has(op, "authorized") /\ Has(op, "committed")
    IN /\ \A p \in DOMAIN proposals : Allowed(proposals[p].op)
       /\ \A v \in DOMAIN previews : Allowed(previews[v].op)
       /\ \A r \in DOMAIN requests : Allowed(requests[r].op)
       /\ \A r \in DOMAIN results : Allowed(results[r].op)
       /\ active # NoSession =>
            Has(active.binding, "requested") /\ Has(active.binding, "committed")

\* A request is closed exactly when it has a result, the result says the same
\* and was written by the same call, also after a crash between any two steps.
ResultMatchesRequest ==
    /\ \A r \in DOMAIN requests :
         requests[r].status # "pending_review" <=>
           \E s \in DOMAIN results : results[s].request = r
    /\ \A s \in DOMAIN results :
         /\ results[s].request \in DOMAIN requests
         /\ requests[results[s].request].status = results[s].result
         /\ requests[results[s].request].op = results[s].op

\* A result carries the right authority for its kind: an expiry is dated after
\* the request's window and has no approver, a denial or cancellation is dated
\* inside the window and has a session, and only the requester cancels.
DecisionInWindow ==
    \A s \in DOMAIN results :
        LET request == requests[results[s].request] IN
        IF results[s].result = "expired"
        THEN results[s].decidedAt >= request.expiresAt /\ results[s].approver = 0
        ELSE /\ results[s].decidedAt < request.expiresAt
             /\ results[s].approver # 0
             /\ results[s].result = "cancelled" => results[s].approver = request.requester

\* A record in a terminal state never changes again, whoever still holds an
\* older read of it: accepted, denied and cancelled proposals, closed previews,
\* decided requests and results.
SettledIsFinal ==
    [][ /\ \A p \in DOMAIN proposals : proposals[p].state \notin {"draft", "proposed"} =>
             p \in DOMAIN proposals' /\ proposals'[p] = proposals[p]
        /\ \A v \in DOMAIN previews : previews[v].state # "preview_ready" =>
             v \in DOMAIN previews' /\ previews'[v] = previews[v]
        /\ \A r \in DOMAIN requests : requests[r].status # "pending_review" =>
             r \in DOMAIN requests' /\ requests'[r] = requests[r]
        /\ \A s \in DOMAIN results : s \in DOMAIN results' /\ results'[s] = results[s]
      ]_tables

\* The ledger the lane implements: the tables without hashes, clocks, bodies
\* and sessions.
Ledger == INSTANCE ApprovalLedger WITH
    Ids <- Tokens,
    Sources <- HelperResults,
    tasks <- [p \in DOMAIN proposals |->
                [source |-> proposals[p].source, state |-> proposals[p].state,
                 revision |-> proposals[p].revision]],
    reviews <- [v \in DOMAIN previews |->
                  [task |-> previews[v].proposal, state |-> previews[v].state]],
    asks <- [r \in DOMAIN requests |->
               [review |-> requests[r].preview, status |-> requests[r].status]]

\* Check-then-commit without a lock still behaves like the atomic ledger: every
\* commit satisfies, at the moment it happens, the conditions the handler
\* checked earlier.
ImplementsLedger == Ledger!Spec

\* The step half of the same statement, for a store that is not empty at first.
EveryCommitIsALedgerStep == [][Ledger!Next]_(Ledger!ledger)

\* A denial or cancellation is only recorded for the session that is bound when
\* it is recorded: another handler that binds a replacement session in between
\* makes the decision fail (docs/runbooks/pending-approval-request.md: "A
\* decision must also fail for ... inactive session, or cancel from a
\* replacement session").
DecidedByActiveSession ==
    [][ \A s \in DOMAIN results' \ DOMAIN results :
          results'[s].approver # 0 => results'[s].approver = active.binding ]_results
=============================================================================
