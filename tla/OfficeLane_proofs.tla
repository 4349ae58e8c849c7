-------------------------- MODULE OfficeLane_proofs --------------------------
(***************************************************************************)
(* Proofs about the approval lane, for every number of threads, tokens,    *)
(* helper results and every TTL.  The safety properties are not inductive: *)
(* a handler in flight holds a record it read long ago, and what makes its *)
(* commit harmless is what that old record still implies about the store.  *)
(* CallInv says it, for each kind of call.                                 *)
(*                                                                         *)
(* The second part is about the lane's evidence: an event precedes the     *)
(* record it is about, and a session's events have no gap.  EvidenceInv    *)
(* says what a call in flight has announced already.                       *)
(***************************************************************************)
EXTENDS OfficeLane, TLAPS

TaskMoves == Ledger!TaskMoves
PreviewOutcomes == {"reviewed_no_authority", "denied", "withdrawn"}
RequestOutcomes == {"denied", "cancelled", "expired"}

\* The proposal is either newer than the call expects, and then the commit
\* fails, or it is the one the call read and the change is a legal move.
ProposalCallInv(c) ==
    /\ c.stage # "read"
    /\ c.rec \in Proposal
    /\ c.expected = NoRevision => c.rec.state = "draft" /\ c.rec.revision = 1
    /\ c.expected # NoRevision =>
         /\ c.id \in DOMAIN proposals
         /\ c.rec.revision = c.expected + 1
         /\ c.expected <= proposals[c.id].revision
         /\ proposals[c.id].revision = c.expected =>
              /\ c.rec.source = proposals[c.id].source
              /\ <<proposals[c.id].state, c.rec.state>> \in TaskMoves

PreviewCallInv(c) ==
    /\ (c.stage = "read" /\ c.act = "create") =>
         /\ c.id \in DOMAIN proposals
         /\ c.rec = proposals[c.id]
         /\ c.rec.state = "accepted_for_future_approval"
    /\ (c.stage = "read" /\ c.act # "create") =>
         /\ c.rec \in Preview
         /\ c.id \in DOMAIN previews
         /\ c.expected = c.rec.revision
         /\ c.rec.state = "preview_ready"
         /\ c.expected <= previews[c.id].revision
         /\ previews[c.id].revision = c.expected => previews[c.id] = c.rec
    /\ c.stage # "read" =>
         /\ c.rec \in Preview
         /\ source_matches(c.rec)
         /\ c.expected = NoRevision => c.rec.state = "preview_ready" /\ c.rec.revision = 1
         /\ c.expected # NoRevision =>
              /\ c.id \in DOMAIN previews
              /\ c.rec.revision = c.expected + 1
              /\ c.rec.state \in PreviewOutcomes
              /\ c.expected <= previews[c.id].revision
              /\ previews[c.id].revision = c.expected =>
                   /\ previews[c.id].state = "preview_ready"
                   /\ c.rec.proposal = previews[c.id].proposal

\* What SourcesCurrent says of one request.
RequestSource(record) ==
    /\ require_current_source(record)
    /\ previews[record.preview].proposal = record.task

RequestCallInv(c) ==
    /\ c.stage = "read" =>
         /\ c.id \in DOMAIN previews
         /\ c.rec = previews[c.id]
         /\ c.rec.state = "reviewed_no_authority"
    /\ c.stage # "read" =>
         /\ c.rec \in Request
         /\ c.rec.status = "pending_review"
         /\ RequestSource(c.rec)

\* As long as the request is pending it is the one the call read.
DecisionCallInv(c) ==
    /\ c.rec \in Request
    /\ c.id \in DOMAIN requests
    /\ requests[c.id].status = "pending_review" =>
         /\ c.rec.preview = requests[c.id].preview
         /\ c.rec.previewRevision = requests[c.id].previewRevision
         /\ c.rec.previewHash = requests[c.id].previewHash
         /\ c.rec.task = requests[c.id].task
    /\ c.stage # "read" =>
         /\ c.rec.status \in RequestOutcomes
         /\ c.rec.op = c.op
         /\ IF c.rec.status = "expired"
            THEN c.at >= c.rec.expiresAt /\ c.session = 0
            ELSE /\ c.at < c.rec.expiresAt
                 /\ c.session # 0
                 /\ c.rec.status = "cancelled" => c.session = c.rec.requester

CallInv(c) ==
    /\ c.stage # "read" => c.op \in Tokens
    /\ c.kind = "proposal" => ProposalCallInv(c)
    /\ c.kind = "preview" => PreviewCallInv(c)
    /\ c.kind = "request" => RequestCallInv(c)
    /\ c.kind = "decision" => DecisionCallInv(c)
    /\ c.kind = "session" => c.stage # "read" /\ c.rec \in Session

CallsInv == \A t \in DOMAIN calls : CallInv(calls[t])

IInv ==
    /\ TypeOK
    /\ SourcesCurrent
    /\ ResultMatchesRequest
    /\ DecisionInWindow
    /\ CallsInv

-----------------------------------------------------------------------------
\* Upsert keeps a table of the right type.
LEMMA UpsertType ==
    ASSUME NEW table, NEW id, NEW record, NEW S, NEW K,
           DOMAIN table \subseteq K, table \in [DOMAIN table -> S], id \in K, record \in S
    PROVE  /\ DOMAIN Upsert(table, id, record) \subseteq K
           /\ Upsert(table, id, record) \in [DOMAIN Upsert(table, id, record) -> S]
BY DEF Upsert

\* The initial state satisfies the invariant: nothing is stored, nothing runs.
LEMMA InitIInv == Init => IInv
<1> SUFFICES ASSUME Init PROVE IInv
  OBVIOUS
<1> USE DEF Init, StoreInit
<1>1. TypeOK
  BY MaxTokensAssumption DEF TypeOK, StoreTypeOK
<1>2. SourcesCurrent /\ ResultMatchesRequest /\ DecisionInWindow /\ CallsInv
  BY DEF SourcesCurrent, ResultMatchesRequest, DecisionInWindow, CallsInv
<1>3. QED
  BY <1>1, <1>2 DEF IInv

\* What CallInv says of a call in flight depends on the tables only.
LEMMA StableCalls ==
    ASSUME UNCHANGED tables, \A u \in DOMAIN calls' : CallInv(calls'[u])
    PROVE  CallsInv'
<1> SUFFICES ASSUME NEW u \in DOMAIN calls' PROVE CallInv(calls[u])'
  BY DEF CallsInv
<1>1. CallInv(calls'[u])
  OBVIOUS
<1>2. QED
  BY <1>1 DEF CallInv, ProposalCallInv, PreviewCallInv, RequestCallInv, DecisionCallInv,
       RequestSource, source_matches, require_current_source, Digest, tables

\* A step that leaves the tables alone and gives thread t a call that satisfies
\* CallInv preserves the invariant.
LEMMA NewCall ==
    ASSUME IInv, NEW t \in Threads, NEW c \in Call, CallInv(c),
           calls' = Upsert(calls, t, c),
           UNCHANGED tables, UNCHANGED <<active, now>>, evidence' \subseteq Event,
           issued' \in 0..MaxTokens
    PROVE  IInv'
<1> USE DEF tables
<1>1. TypeOK'
  <2>1. DOMAIN calls' \subseteq Threads /\ calls' \in [DOMAIN calls' -> Call]
    BY UpsertType DEF IInv, TypeOK
  <2>2. QED
    BY <2>1 DEF IInv, TypeOK, StoreTypeOK
<1>2. SourcesCurrent' /\ ResultMatchesRequest' /\ DecisionInWindow'
  BY DEF IInv, SourcesCurrent, ResultMatchesRequest, DecisionInWindow,
         source_matches, require_current_source, Digest
<1>3. CallsInv'
  <2>1. \A u \in DOMAIN calls' : CallInv(calls'[u])
    <3> SUFFICES ASSUME NEW u \in DOMAIN calls' PROVE CallInv(calls'[u])
      OBVIOUS
    <3>1. CASE u = t
      <4>1. Upsert(calls, t, c)[t] = c
        BY DEF Upsert
      <4>2. calls'[u] = c
        BY <3>1, <4>1
      <4>3. QED
        BY <4>2
    <3>2. CASE u # t
      <4>1. u \in DOMAIN calls /\ calls'[u] = calls[u]
        BY <3>2 DEF Upsert
      <4>2. QED
        BY <4>1 DEF IInv, CallsInv
    <3>3. QED
      BY <3>1, <3>2
  <2>2. QED
    BY <2>1, StableCalls
<1>4. QED
  BY <1>1, <1>2, <1>3 DEF IInv

\* A step that only takes calls away preserves it too.
LEMMA FewerCalls ==
    ASSUME IInv, DOMAIN calls' \subseteq DOMAIN calls,
           calls' = [u \in DOMAIN calls' |-> calls[u]],
           UNCHANGED tables, evidence' \subseteq Event, issued' = issued,
           active' \in Session \cup {NoSession}, now' \in Nat
    PROVE  IInv'
<1> USE DEF tables
<1>1. TypeOK'
  BY DEF IInv, TypeOK, StoreTypeOK
<1>2. SourcesCurrent' /\ ResultMatchesRequest' /\ DecisionInWindow'
  BY DEF IInv, SourcesCurrent, ResultMatchesRequest, DecisionInWindow,
         source_matches, require_current_source, Digest
<1>3. CallsInv'
  <2>1. \A u \in DOMAIN calls' : CallInv(calls'[u])
    BY DEF IInv, CallsInv
  <2>2. QED
    BY <2>1, StableCalls
<1>4. QED
  BY <1>1, <1>2, <1>3 DEF IInv

-----------------------------------------------------------------------------
\* The calls that Read and Prepare start.
ReadCall(kind, act, id, expected, record) ==
    [stage |-> "read", kind |-> kind, act |-> act, id |-> id,
     expected |-> expected, rec |-> record, session |-> 0, at |-> now, op |-> 0]
CheckedCall(kind, act, id, expected, record, session) ==
    [stage |-> "checked", kind |-> kind, act |-> act, id |-> id,
     expected |-> expected, rec |-> record, session |-> session, at |-> now, op |-> Fresh]

LEMMA ReadInv ==
    ASSUME IInv, NEW t \in Threads, NEW kind \in Kinds, NEW act \in Acts,
           NEW id \in Tokens, NEW expected \in Nat,
           NEW record \in Proposal \cup Preview \cup Request \cup Session,
           CallInv(ReadCall(kind, act, id, expected, record)),
           Read(t, kind, act, id, expected, record)
    PROVE  IInv'
<1>1. ReadCall(kind, act, id, expected, record) \in Call
  BY DEF ReadCall, Call, IInv, TypeOK
<1>2. calls' = Upsert(calls, t, ReadCall(kind, act, id, expected, record))
  BY DEF Read, ReadCall
<1>3. /\ UNCHANGED tables /\ UNCHANGED <<active, now>>
      /\ evidence' \subseteq Event /\ issued' \in 0..MaxTokens
  BY DEF Read, IInv, TypeOK, StoreTypeOK
<1>4. QED
  BY <1>1, <1>2, <1>3, NewCall

LEMMA PrepareInv ==
    ASSUME IInv, NEW t \in Threads, NEW kind \in Kinds, NEW act \in Acts,
           NEW id \in Tokens, NEW expected \in Nat, NEW session \in Nat,
           NEW record \in Proposal \cup Preview \cup Request \cup Session,
           CallInv(CheckedCall(kind, act, id, expected, record, session)),
           Prepare(t, kind, act, id, expected, record, session)
    PROVE  IInv'
<1>1. CheckedCall(kind, act, id, expected, record, session) \in Call
  BY DEF CheckedCall, Call, IInv, TypeOK, Fresh
<1>2. calls' = Upsert(calls, t, CheckedCall(kind, act, id, expected, record, session))
  BY DEF Prepare, CheckedCall
<1>3. /\ UNCHANGED tables /\ UNCHANGED <<active, now>>
      /\ evidence' \subseteq Event /\ issued' \in 0..MaxTokens
  BY MaxTokensAssumption DEF Prepare, Issue, Fresh, IInv, TypeOK, StoreTypeOK
<1>4. QED
  BY <1>1, <1>2, <1>3, NewCall

LEMMA FreshToken == ASSUME IInv, issued < MaxTokens PROVE Fresh \in Tokens
BY MaxTokensAssumption DEF IInv, TypeOK, Fresh, Tokens

\* What the type invariant says of one row of each table.
LEMMA RowTypes ==
    ASSUME IInv
    PROVE  /\ \A p \in DOMAIN proposals : p \in Tokens /\ proposals[p] \in Proposal
           /\ \A v \in DOMAIN previews : v \in Tokens /\ previews[v] \in Preview
           /\ \A r \in DOMAIN requests : r \in Tokens /\ requests[r] \in Request
           /\ \A s \in DOMAIN results : s \in Tokens /\ results[s] \in Result
           /\ \A u \in DOMAIN calls : u \in Threads /\ calls[u] \in Call /\ CallInv(calls[u])
           /\ evidence \subseteq Event
<1>1. /\ DOMAIN proposals \subseteq Tokens /\ proposals \in [DOMAIN proposals -> Proposal]
      /\ DOMAIN previews \subseteq Tokens /\ previews \in [DOMAIN previews -> Preview]
      /\ DOMAIN requests \subseteq Tokens /\ requests \in [DOMAIN requests -> Request]
      /\ DOMAIN results \subseteq Tokens /\ results \in [DOMAIN results -> Result]
      /\ DOMAIN calls \subseteq Threads /\ calls \in [DOMAIN calls -> Call]
      /\ evidence \subseteq Event
      /\ CallsInv
  BY DEF IInv, TypeOK, StoreTypeOK
<1>2. QED
  BY <1>1 DEF CallsInv

\* OfficeTaskProposalService starts only calls that satisfy ProposalCallInv.
LEMMA ProposalHandlers ==
    ASSUME IInv, NEW t \in Threads,
           \/ \E h \in HelperResults : create_from_helper(t, h)
           \/ \E p \in DOMAIN proposals, b \in Bodies : edit(t, p, b)
           \/ \E p \in DOMAIN proposals, act \in {"propose", "accept", "deny", "cancel"},
                 next \in ProposalStates : transition_proposal(t, p, act, next)
    PROVE  IInv'
<1> USE DEF NoRevision
<1>0. "proposal" \in Kinds /\ 0 \in Nat /\ "create" \in Acts /\ "edit" \in Acts
  BY DEF Kinds, Acts
<1>1. ASSUME NEW h \in HelperResults, create_from_helper(t, h) PROVE IInv'
  <2> DEFINE r == [source |-> h, state |-> "draft", revision |-> 1,
                   body |-> DefaultBody, op |-> Fresh]
  <2>1. Fresh \in Tokens
    BY <1>1, FreshToken DEF create_from_helper, Prepare, Issue
  <2>2. r \in Proposal
    BY <2>1, LaneAssumption DEF Proposal, ProposalStates
  <2>3. CallInv(CheckedCall("proposal", "create", Fresh, 0, r, 0))
    BY <2>1, <2>2 DEF CallInv, ProposalCallInv, CheckedCall
  <2>4. Prepare(t, "proposal", "create", Fresh, 0, r, 0)
    BY <1>1 DEF create_from_helper
  <2> HIDE DEF r
  <2>5. r \in Proposal \cup Preview \cup Request \cup Session
    BY <2>2
  <2>6. QED
    BY <1>0, <2>1, <2>3, <2>4, <2>5, PrepareInv
<1>2. ASSUME NEW p \in DOMAIN proposals, NEW b \in Bodies, edit(t, p, b) PROVE IInv'
  <2> DEFINE r == [proposals[p] EXCEPT !.body = b, !.revision = @ + 1, !.op = Fresh]
             e == proposals[p].revision
  <2>1. Fresh \in Tokens
    BY <1>2, FreshToken DEF edit, Prepare, Issue
  <2>2. proposals[p] \in Proposal /\ p \in Tokens
    BY RowTypes
  <2>0. e \in Nat /\ e # 0 /\ e + 1 \in Nat \ {0}
    BY <2>2 DEF Proposal
  <2>3. r \in Proposal /\ e \in Nat /\ e # 0
    BY <2>0, <2>1, <2>2 DEF Proposal
  <2>4. /\ r.revision = e + 1 /\ r.source = proposals[p].source
        /\ r.state = proposals[p].state
    BY <2>2 DEF Proposal
  <2>5. <<proposals[p].state, r.state>> \in TaskMoves
    BY <1>2, <2>4 DEF edit, TaskMoves, Ledger!TaskMoves
  <2>6. Prepare(t, "proposal", "edit", p, e, r, 0)
    BY <1>2 DEF edit
  <2> HIDE DEF r
  <2>7. CallInv(CheckedCall("proposal", "edit", p, e, r, 0))
    BY <2>1, <2>3, <2>4, <2>5 DEF CallInv, ProposalCallInv, CheckedCall
  <2>8. r \in Proposal \cup Preview \cup Request \cup Session
    BY <2>3
  <2> HIDE DEF e
  <2>9. QED
    BY <1>0, <2>2, <2>3, <2>6, <2>7, <2>8, PrepareInv
<1>3. ASSUME NEW p \in DOMAIN proposals, NEW act \in {"propose", "accept", "deny", "cancel"},
             NEW next \in ProposalStates, transition_proposal(t, p, act, next)
      PROVE  IInv'
  <2> DEFINE r == [proposals[p] EXCEPT !.state = next, !.revision = @ + 1, !.op = Fresh]
             e == proposals[p].revision
  <2>1. Fresh \in Tokens
    BY <1>3, FreshToken DEF transition_proposal, Prepare, Issue
  <2>2. proposals[p] \in Proposal /\ p \in Tokens
    BY RowTypes
  <2>0. e \in Nat /\ e # 0 /\ e + 1 \in Nat \ {0}
    BY <2>2 DEF Proposal
  <2>3. r \in Proposal /\ e \in Nat /\ e # 0
    BY <2>0, <2>1, <2>2 DEF Proposal
  <2>4. r.revision = e + 1 /\ r.source = proposals[p].source /\ r.state = next
    BY <2>2 DEF Proposal
  <2>5. <<proposals[p].state, r.state>> \in TaskMoves
    BY <1>3, <2>4 DEF transition_proposal, ProposalTransitions, TaskMoves, Ledger!TaskMoves
  <2>6. Prepare(t, "proposal", act, p, e, r, 0)
    BY <1>3 DEF transition_proposal
  <2> HIDE DEF r
  <2>7. CallInv(CheckedCall("proposal", act, p, e, r, 0))
    BY <2>1, <2>3, <2>4, <2>5 DEF CallInv, ProposalCallInv, CheckedCall
  <2>8. r \in Proposal \cup Preview \cup Request \cup Session
    BY <2>3
  <2>9. act \in Acts
    BY DEF Acts
  <2> HIDE DEF e
  <2>10. QED
    BY <1>0, <2>2, <2>3, <2>6, <2>7, <2>8, <2>9, PrepareInv
<1>4. QED
  BY <1>1, <1>2, <1>3

\* OfficeApprovalPreviewService starts and continues only calls that satisfy
\* PreviewCallInv.
LEMMA PreviewHandlers ==
    ASSUME IInv, NEW t \in Threads,
           \/ \E p \in DOMAIN proposals : read_accepted_proposal(t, p)
           \/ create_from_proposal(t)
           \/ \E v \in DOMAIN previews, act \in {"review", "deny", "withdraw"} :
                 read_preview(t, v, act)
           \/ \E next \in PreviewStates : transition_preview(t, next)
    PROVE  IInv'
<1> USE DEF NoRevision
<1>0. "preview" \in Kinds /\ 0 \in Nat /\ "create" \in Acts
  BY DEF Kinds, Acts
<1>1. ASSUME NEW p \in DOMAIN proposals, read_accepted_proposal(t, p) PROVE IInv'
  <2> DEFINE r == proposals[p]
  <2>1. r \in Proposal /\ p \in Tokens
    BY RowTypes
  <2>2. r.state = "accepted_for_future_approval" /\ Read(t, "preview", "create", p, 0, r)
    BY <1>1 DEF read_accepted_proposal
  <2>3. CallInv(ReadCall("preview", "create", p, 0, r))
    BY <2>2 DEF CallInv, PreviewCallInv, ReadCall
  <2>4. r \in Proposal \cup Preview \cup Request \cup Session
    BY <2>1
  <2> HIDE DEF r
  <2>5. QED
    BY <1>0, <2>1, <2>2, <2>3, <2>4, ReadInv
<1>2. ASSUME create_from_proposal(t) PROVE IInv'
  <2> DEFINE c == calls[t]
             r == [proposal |-> c.id, proposalRevision |-> c.rec.revision,
                   proposalHash |-> Digest(c.rec), state |-> "preview_ready",
                   revision |-> 1, expiresAt |-> now + PREVIEW_TTL, op |-> Fresh]
  <2>1. Fresh \in Tokens
    BY <1>2, FreshToken DEF create_from_proposal, Prepare, Issue
  <2>2. t \in DOMAIN calls /\ c.stage = "read" /\ c.kind = "preview" /\ c.act = "create"
    BY <1>2 DEF create_from_proposal, At
  <2>3. CallInv(c)
    BY <2>2, RowTypes
  <2>4. /\ c.id \in DOMAIN proposals /\ c.rec = proposals[c.id]
        /\ c.rec.state = "accepted_for_future_approval"
    BY <2>2, <2>3 DEF CallInv, PreviewCallInv
  <2>5. c.id \in Tokens /\ c.rec \in Proposal
    BY <2>4, RowTypes
  <2>6. now + PREVIEW_TTL \in Nat
    BY LaneAssumption DEF IInv, TypeOK
  <2>7. r \in Preview
    BY <2>1, <2>5, <2>6 DEF Preview, PreviewStates, Proposal, Digest
  <2>8. source_matches(r)
    BY <2>4 DEF source_matches
  <2>9. Prepare(t, "preview", "create", Fresh, 0, r, 0)
    BY <1>2 DEF create_from_proposal
  <2>10. r.state = "preview_ready" /\ r.revision = 1
    OBVIOUS
  <2> HIDE DEF r, c
  <2>11. CallInv(CheckedCall("preview", "create", Fresh, 0, r, 0))
    BY <2>1, <2>7, <2>8, <2>10 DEF CallInv, PreviewCallInv, CheckedCall
  <2>12. r \in Proposal \cup Preview \cup Request \cup Session
    BY <2>7
  <2>13. QED
    BY <1>0, <2>1, <2>9, <2>11, <2>12, PrepareInv
<1>3. ASSUME NEW v \in DOMAIN previews, NEW act \in {"review", "deny", "withdraw"},
             read_preview(t, v, act)
      PROVE  IInv'
  <2> DEFINE r == previews[v]
             e == previews[v].revision
  <2>1. r \in Preview /\ v \in Tokens
    BY RowTypes
  <2>2. Read(t, "preview", act, v, e, r)
    BY <1>3 DEF read_preview
  <2>3. r.state = "preview_ready"
    BY <1>3 DEF read_preview, PreviewTransitions
  <2>4. e \in Nat
    BY <2>1 DEF Preview
  <2>5. CallInv(ReadCall("preview", act, v, e, r))
    BY <2>1, <2>3, <2>4 DEF CallInv, PreviewCallInv, ReadCall
  <2>6. r \in Proposal \cup Preview \cup Request \cup Session
    BY <2>1
  <2>7. act \in Acts
    BY DEF Acts
  <2> HIDE DEF r, e
  <2>8. QED
    BY <1>0, <2>1, <2>2, <2>4, <2>5, <2>6, <2>7, ReadInv
<1>4. ASSUME NEW next \in PreviewStates, transition_preview(t, next) PROVE IInv'
  <2> DEFINE c == calls[t]
             r == [c.rec EXCEPT !.state = next, !.revision = @ + 1, !.op = Fresh]
  <2>1. Fresh \in Tokens
    BY <1>4, FreshToken DEF transition_preview, Prepare, Issue
  <2>2. t \in DOMAIN calls /\ c.stage = "read" /\ c.kind = "preview"
    BY <1>4 DEF transition_preview, At
  <2>3. CallInv(c) /\ c \in Call
    BY <2>2, RowTypes
  <2>4. c.act # "create" /\ next \in PreviewOutcomes
    BY <1>4 DEF transition_preview, PreviewTransitions, PreviewOutcomes
  <2>5. /\ c.rec \in Preview /\ c.id \in DOMAIN previews
        /\ c.expected = c.rec.revision /\ c.rec.state = "preview_ready"
        /\ c.expected <= previews[c.id].revision
        /\ previews[c.id].revision = c.expected => previews[c.id] = c.rec
    BY <2>2, <2>3, <2>4 DEF CallInv, PreviewCallInv
  <2>6. /\ c.id \in Tokens /\ c.expected \in Nat /\ c.expected # 0
        /\ c.expected + 1 \in Nat \ {0} /\ c.act \in Acts
    BY <2>3, <2>5, RowTypes DEF Preview, Call
  <2>7. r \in Preview
    BY <2>1, <2>5, <2>6 DEF Preview
  <2>8. /\ r.revision = c.expected + 1 /\ r.state = next
        /\ r.proposal = c.rec.proposal /\ r.proposalRevision = c.rec.proposalRevision
        /\ r.proposalHash = c.rec.proposalHash
    BY <2>5 DEF Preview
  <2>9. source_matches(r)
    BY <1>4, <2>8 DEF transition_preview, source_matches
  <2>10. Prepare(t, "preview", c.act, c.id, c.expected, r, 0)
    BY <1>4 DEF transition_preview
  <2> HIDE DEF r
  <2>11. CallInv(CheckedCall("preview", c.act, c.id, c.expected, r, 0))
    BY <2>1, <2>4, <2>5, <2>6, <2>7, <2>8, <2>9 DEF CallInv, PreviewCallInv, CheckedCall
  <2>12. r \in Proposal \cup Preview \cup Request \cup Session
    BY <2>7
  <2> HIDE DEF c
  <2>13. QED
    BY <1>0, <2>4, <2>6, <2>10, <2>11, <2>12, PrepareInv
<1>5. QED
  BY <1>1, <1>2, <1>3, <1>4

\* Binding a session and creating a request.
LEMMA SessionAndRequestHandlers ==
    ASSUME IInv, NEW t \in Threads,
           \/ bind(t)
           \/ \E v \in DOMAIN previews : reviewed_preview(t, v)
           \/ \E b \in Tokens : create_request(t, b)
    PROVE  IInv'
<1> USE DEF NoRevision
<1>0. /\ "session" \in Kinds /\ "request" \in Kinds /\ 0 \in Nat
      /\ "create" \in Acts /\ "bind" \in Acts
  BY DEF Kinds, Acts
<1>1. ASSUME bind(t) PROVE IInv'
  <2> DEFINE r == [binding |-> Fresh, expiresAt |-> now + SESSION_TTL]
  <2>1. Fresh \in Tokens
    BY <1>1, FreshToken DEF bind, Prepare, Issue
  <2>2. now + SESSION_TTL \in Nat
    BY LaneAssumption DEF IInv, TypeOK
  <2>3. r \in Session
    BY <2>1, <2>2 DEF Session
  <2>4. Prepare(t, "session", "bind", Fresh, 0, r, 0)
    BY <1>1 DEF bind
  <2> HIDE DEF r
  <2>5. CallInv(CheckedCall("session", "bind", Fresh, 0, r, 0))
    BY <2>1, <2>3 DEF CallInv, CheckedCall
  <2>6. r \in Proposal \cup Preview \cup Request \cup Session
    BY <2>3
  <2>7. QED
    BY <1>0, <2>1, <2>4, <2>5, <2>6, PrepareInv
<1>2. ASSUME NEW v \in DOMAIN previews, reviewed_preview(t, v) PROVE IInv'
  <2> DEFINE r == previews[v]
  <2>1. r \in Preview /\ v \in Tokens
    BY RowTypes
  <2>2. r.state = "reviewed_no_authority" /\ Read(t, "request", "create", v, 0, r)
    BY <1>2 DEF reviewed_preview
  <2>3. CallInv(ReadCall("request", "create", v, 0, r))
    BY <2>2 DEF CallInv, RequestCallInv, ReadCall
  <2>4. r \in Proposal \cup Preview \cup Request \cup Session
    BY <2>1
  <2> HIDE DEF r
  <2>5. QED
    BY <1>0, <2>1, <2>2, <2>3, <2>4, ReadInv
<1>3. ASSUME NEW b \in Tokens, create_request(t, b) PROVE IInv'
  <2> DEFINE c == calls[t]
             r == [preview |-> c.id, previewRevision |-> c.rec.revision,
                   previewHash |-> Digest(c.rec), task |-> c.rec.proposal,
                   requester |-> b, status |-> "pending_review",
                   expiresAt |-> now + REQUEST_TTL, op |-> Fresh]
  <2>1. Fresh \in Tokens
    BY <1>3, FreshToken DEF create_request, Prepare, Issue
  <2>2. t \in DOMAIN calls /\ c.stage = "read" /\ c.kind = "request"
    BY <1>3 DEF create_request, At
  <2>3. CallInv(c)
    BY <2>2, RowTypes
  <2>4. /\ c.id \in DOMAIN previews /\ c.rec = previews[c.id]
        /\ c.rec.state = "reviewed_no_authority"
    BY <2>2, <2>3 DEF CallInv, RequestCallInv
  <2>5. c.id \in Tokens /\ c.rec \in Preview
    BY <2>4, RowTypes
  <2>6. now + REQUEST_TTL \in Nat
    BY LaneAssumption DEF IInv, TypeOK
  <2>7. r \in Request
    BY <2>1, <2>5, <2>6 DEF Request, RequestStates, Preview, Digest
  <2>8. source_matches(c.rec)
    BY <1>3 DEF create_request
  <2>9. RequestSource(r)
    BY <2>4, <2>8 DEF RequestSource, require_current_source, source_matches
  <2>10. Prepare(t, "request", "create", Fresh, 0, r, b)
    BY <1>3 DEF create_request
  <2>11. r.status = "pending_review" /\ b \in Nat
    BY MaxTokensAssumption DEF Tokens
  <2> HIDE DEF r, c
  <2>12. CallInv(CheckedCall("request", "create", Fresh, 0, r, b))
    BY <2>1, <2>7, <2>9, <2>11 DEF CallInv, RequestCallInv, CheckedCall
  <2>13. r \in Proposal \cup Preview \cup Request \cup Session
    BY <2>7
  <2>14. QED
    BY <1>0, <2>1, <2>10, <2>11, <2>12, <2>13, PrepareInv
<1>4. QED
  BY <1>1, <1>2, <1>3

\* NonAuthorizingApprovalDecisionService: a decision's authority is that of the
\* request record it read, and that record cannot change while it is pending.
LEMMA DecisionHandlers ==
    ASSUME IInv, NEW t \in Threads,
           \/ \E r \in DOMAIN requests, act \in {"deny", "cancel", "expire"} :
                 read_request(t, r, act)
           \/ \E b \in Tokens \cup {0}, next \in RequestStates : decide(t, b, next)
    PROVE  IInv'
<1>0. "decision" \in Kinds
  BY DEF Kinds, Acts
<1>1. ASSUME NEW id \in DOMAIN requests, NEW act \in {"deny", "cancel", "expire"},
             read_request(t, id, act)
      PROVE  IInv'
  <2> DEFINE r == requests[id]
             e == Digest(requests[id])
  <2>1. r \in Request /\ id \in Tokens
    BY RowTypes
  <2>2. Read(t, "decision", act, id, e, r)
    BY <1>1 DEF read_request
  <2>3. e \in Nat
    BY <2>1, MaxTokensAssumption DEF Digest, Request, Tokens
  <2>4. CallInv(ReadCall("decision", act, id, e, r))
    BY <2>1 DEF CallInv, DecisionCallInv, ReadCall
  <2>5. r \in Proposal \cup Preview \cup Request \cup Session
    BY <2>1
  <2>6. act \in Acts
    BY DEF Acts
  <2> HIDE DEF r, e
  <2>7. QED
    BY <1>0, <2>1, <2>2, <2>3, <2>4, <2>5, <2>6, ReadInv
<1>2. ASSUME NEW b \in Tokens \cup {0}, NEW next \in RequestStates, decide(t, b, next)
      PROVE  IInv'
  <2> DEFINE c == calls[t]
             r == [c.rec EXCEPT !.status = next, !.op = Fresh]
  <2>1. Fresh \in Tokens
    BY <1>2, FreshToken DEF decide, Prepare, Issue
  <2>2. t \in DOMAIN calls /\ c.stage = "read" /\ c.kind = "decision"
    BY <1>2 DEF decide, At
  <2>3. CallInv(c) /\ c \in Call
    BY <2>2, RowTypes
  <2>4. DecisionCallInv(c)
    BY <2>2, <2>3 DEF CallInv
  <2>5. c.rec \in Request /\ c.id \in DOMAIN requests
    BY <2>4 DEF DecisionCallInv
  <2>6. c.id \in Tokens /\ c.expected \in Nat /\ b \in Nat /\ now \in Nat
    BY <2>3, <2>5, RowTypes, MaxTokensAssumption DEF Call, Tokens, IInv, TypeOK
  <2>7. r \in Request
    BY <2>1, <2>5 DEF Request
  <2>8. /\ r.status = next /\ r.op = Fresh /\ r.expiresAt = c.rec.expiresAt
        /\ r.requester = c.rec.requester /\ r.preview = c.rec.preview
        /\ r.previewRevision = c.rec.previewRevision
        /\ r.previewHash = c.rec.previewHash /\ r.task = c.rec.task
    BY <2>5 DEF Request
  <2>9. <<c.act, next>> \in DecisionTransitions
    BY <1>2 DEF decide
  <2>10. next \in RequestOutcomes /\ c.act \in Acts
    BY <2>9 DEF DecisionTransitions, RequestOutcomes, Acts
  <2>11. IF next = "expired"
         THEN now >= r.expiresAt /\ b = 0
         ELSE /\ now < r.expiresAt /\ b # 0
              /\ next = "cancelled" => b = r.requester
    <3>1. CASE next = "expired"
      <4>1. c.act = "expire"
        BY <2>9, <3>1 DEF DecisionTransitions
      <4>2. QED
        BY <1>2, <2>8, <3>1, <4>1 DEF decide
    <3>2. CASE next # "expired"
      <4>1. c.act # "expire" /\ (next = "cancelled" => c.act = "cancel")
        BY <2>9, <3>2 DEF DecisionTransitions
      <4>2. /\ now < r.expiresAt /\ require_active(b)
            /\ next = "cancelled" => b = r.requester
        BY <1>2, <2>8, <4>1 DEF decide
      <4>3. b # 0
        BY <4>2 DEF require_active, IInv, TypeOK, Session, NoSession, Tokens
      <4>4. QED
        BY <3>2, <4>2, <4>3
    <3>3. QED
      BY <3>1, <3>2
  <2>12. Prepare(t, "decision", c.act, c.id, c.expected, r, b)
    BY <1>2 DEF decide
  <2> HIDE DEF r
  <2>13. DecisionCallInv(CheckedCall("decision", c.act, c.id, c.expected, r, b))
    BY <2>4, <2>5, <2>7, <2>8, <2>10, <2>11 DEF DecisionCallInv, CheckedCall
  <2>14. CallInv(CheckedCall("decision", c.act, c.id, c.expected, r, b))
    BY <2>1, <2>13 DEF CallInv, CheckedCall
  <2>15. r \in Proposal \cup Preview \cup Request \cup Session
    BY <2>7
  <2> HIDE DEF c
  <2>16. QED
    BY <1>0, <2>6, <2>10, <2>12, <2>14, <2>15, PrepareInv
<1>3. QED
  BY <1>1, <1>2

-----------------------------------------------------------------------------
\* The tail the services share: the two evidence steps move a call to its next
\* stage, which leaves what CallInv says of it.
LEMMA StageMoves ==
    ASSUME IInv, NEW t \in Threads, record_requested(t) \/ record_authorized(t)
    PROVE  IInv'
<1> DEFINE c == calls[t]
<1>1. PICK stage \in {"requested", "authorized"} :
         calls' = [calls EXCEPT ![t].stage = stage]
  BY DEF record_requested, record_authorized
<1>2. t \in DOMAIN calls /\ c.stage \in {"checked", "requested"}
  BY DEF record_requested, record_authorized, At
<1>3. c \in Call /\ CallInv(c)
  BY <1>2, RowTypes
<1> DEFINE d == [c EXCEPT !.stage = stage]
<1>4. d \in Call
  BY <1>3 DEF Call
<1>5. /\ d.stage = stage /\ d.kind = c.kind /\ d.act = c.act /\ d.id = c.id
      /\ d.expected = c.expected /\ d.rec = c.rec /\ d.session = c.session
      /\ d.at = c.at /\ d.op = c.op
  BY <1>3 DEF Call
<1>6. calls' = Upsert(calls, t, d)
  <2>1. calls \in [DOMAIN calls -> Call]
    BY DEF IInv, TypeOK
  <2>2. QED
    BY <1>1, <1>2, <2>1 DEF Upsert
<1> HIDE DEF d
<1>7. CallInv(d)
  BY <1>2, <1>3, <1>5 DEF CallInv, ProposalCallInv, PreviewCallInv, RequestCallInv,
     DecisionCallInv
<1>8. evidence' \subseteq Event
  <2>1. PICK written \in Stages :
           record_event(c.op, written, c.kind, c.id, EventRevision(c))
    BY DEF record_requested, record_authorized, Stages
  <2>2. c.op \in Tokens /\ c.kind \in Kinds /\ c.id \in Tokens
    BY <1>2, <1>3 DEF CallInv, Call
  <2>3. EventRevision(c) \in Nat
    BY <1>2, <1>3 DEF EventRevision, NoRevision, CallInv, ProposalCallInv, PreviewCallInv,
       Proposal, Preview
  <2> HIDE DEF c
  <2>4. [op |-> c.op, stage |-> written, kind |-> c.kind, id |-> c.id,
         revision |-> EventRevision(c)] \in Event
    BY <2>2, <2>3 DEF Event
  <2>5. QED
    BY <2>1, <2>4, RowTypes DEF record_event
<1>9. UNCHANGED tables /\ UNCHANGED <<active, now>> /\ issued' \in 0..MaxTokens
  BY DEF record_requested, record_authorized, IInv, TypeOK
<1>10. QED
  BY <1>4, <1>6, <1>7, <1>8, <1>9, NewCall

\* A failed call, a restart, a session taking effect and the clock.
LEMMA OtherSteps ==
    ASSUME IInv,
           \/ \E t \in Threads : raise(t) \/ activate_session(t)
           \/ restart
           \/ tick
    PROVE  IInv'
<1>0. evidence \subseteq Event /\ now \in Nat /\ active \in Session \cup {NoSession}
  BY DEF IInv, TypeOK, StoreTypeOK
<1>1. ASSUME NEW t \in Threads, raise(t) PROVE IInv'
  <2>1. /\ DOMAIN calls' \subseteq DOMAIN calls
        /\ calls' = [u \in DOMAIN calls' |-> calls[u]]
    BY <1>1 DEF raise, Return
  <2>2. /\ UNCHANGED tables /\ evidence' \subseteq Event /\ issued' = issued
        /\ active' \in Session \cup {NoSession} /\ now' \in Nat
    BY <1>0, <1>1 DEF raise
  <2>3. QED
    BY <2>1, <2>2, FewerCalls
<1>2. ASSUME NEW t \in Threads, activate_session(t) PROVE IInv'
  <2>1. /\ DOMAIN calls' \subseteq DOMAIN calls
        /\ calls' = [u \in DOMAIN calls' |-> calls[u]]
    BY <1>2 DEF activate_session, Return
  <2>2. calls[t].rec \in Session
    BY <1>2, RowTypes DEF activate_session, At, CallInv
  <2>3. /\ UNCHANGED tables /\ evidence' \subseteq Event /\ issued' = issued
        /\ active' \in Session \cup {NoSession} /\ now' \in Nat
    BY <1>0, <1>2, <2>2 DEF activate_session
  <2>4. QED
    BY <2>1, <2>3, FewerCalls
<1>3. ASSUME restart PROVE IInv'
  <2>1. /\ DOMAIN calls' \subseteq DOMAIN calls
        /\ calls' = [u \in DOMAIN calls' |-> calls[u]]
    BY <1>3 DEF restart
  <2>2. /\ UNCHANGED tables /\ evidence' \subseteq Event /\ issued' = issued
        /\ active' \in Session \cup {NoSession} /\ now' \in Nat
    BY <1>0, <1>3 DEF restart
  <2>3. QED
    BY <2>1, <2>2, FewerCalls
<1>4. ASSUME tick PROVE IInv'
  <2>0. calls \in [DOMAIN calls -> Call]
    BY DEF IInv, TypeOK
  <2>1. /\ DOMAIN calls' \subseteq DOMAIN calls
        /\ calls' = [u \in DOMAIN calls' |-> calls[u]]
    BY <1>4, <2>0 DEF tick
  <2>2. /\ UNCHANGED tables /\ evidence' \subseteq Event /\ issued' = issued
        /\ active' \in Session \cup {NoSession} /\ now' \in Nat
    BY <1>0, <1>4 DEF tick
  <2>3. QED
    BY <2>1, <2>2, FewerCalls
<1>5. QED
  BY <1>1, <1>2, <1>3, <1>4

-----------------------------------------------------------------------------
\* Every commit moves the tables forward: a row is only replaced by one of a
\* higher revision (or, for a request, by a decided one), and never once it is
\* settled.  This alone keeps what every other call in flight relies on.
TablesAdvance ==
    /\ \A p \in DOMAIN proposals :
         /\ p \in DOMAIN proposals'
         /\ \/ proposals'[p] = proposals[p]
            \/ /\ proposals[p].state \in {"draft", "proposed"}
               /\ proposals[p].revision < proposals'[p].revision
    /\ \A v \in DOMAIN previews :
         /\ v \in DOMAIN previews'
         /\ \/ previews'[v] = previews[v]
            \/ /\ previews[v].state = "preview_ready"
               /\ previews[v].revision < previews'[v].revision
    /\ \A r \in DOMAIN requests :
         /\ r \in DOMAIN requests'
         /\ \/ requests'[r] = requests[r]
            \/ /\ requests[r].status = "pending_review"
               /\ requests'[r].status # "pending_review"
    /\ \A s \in DOMAIN results : s \in DOMAIN results' /\ results'[s] = results[s]

\* A source that matches keeps matching.
LEMMA AdvanceSources ==
    ASSUME IInv, TablesAdvance
    PROVE  /\ \A x : source_matches(x) => source_matches(x)'
           /\ \A y : RequestSource(y) => RequestSource(y)'
<1>1. ASSUME NEW x, source_matches(x) PROVE source_matches(x)'
  <2>1. proposals'[x.proposal] = proposals[x.proposal] /\ x.proposal \in DOMAIN proposals'
    BY <1>1 DEF TablesAdvance, source_matches
  <2>2. QED
    BY <1>1, <2>1 DEF source_matches, Digest
<1>2. ASSUME NEW y, RequestSource(y) PROVE RequestSource(y)'
  <2>1. y.preview \in DOMAIN previews' /\ previews'[y.preview] = previews[y.preview]
    BY <1>2 DEF TablesAdvance, RequestSource, require_current_source
  <2>2. y.preview \in DOMAIN previews /\ previews[y.preview].proposal = y.task
    BY <1>2 DEF RequestSource, require_current_source
  <2>3. source_matches(previews[y.preview])
    BY <2>2 DEF IInv, SourcesCurrent
  <2>4. y.task \in DOMAIN proposals' /\ proposals'[y.task] = proposals[y.task]
    BY <2>2, <2>3 DEF TablesAdvance, source_matches
  <2>5. QED
    BY <1>2, <2>1, <2>4 DEF RequestSource, require_current_source, Digest
<1>3. QED
  BY <1>1, <1>2

\* The calls that are still in flight after a commit keep what they rely on.
LEMMA AdvanceCalls ==
    ASSUME IInv, TypeOK', TablesAdvance, DOMAIN calls' \subseteq DOMAIN calls,
           calls' = [u \in DOMAIN calls' |-> calls[u]]
    PROVE  CallsInv'
<1> SUFFICES ASSUME NEW u \in DOMAIN calls' PROVE CallInv(calls[u])'
  BY DEF CallsInv
<1>1. u \in DOMAIN calls /\ calls'[u] = calls[u] /\ calls[u] \in Call /\ CallInv(calls[u])
  BY RowTypes
<1>2. PICK c \in Call : c = calls[u] /\ c = calls'[u] /\ CallInv(c)
  BY <1>1
<1>3. /\ source_matches(c.rec) => source_matches(c.rec)'
      /\ RequestSource(c.rec) => RequestSource(c.rec)'
  BY AdvanceSources
<1>4. c.expected \in Nat
  BY DEF Call
<1>5. /\ \A p \in DOMAIN proposals : proposals[p].revision \in Nat
      /\ \A p \in DOMAIN proposals' : proposals'[p].revision \in Nat
      /\ \A v \in DOMAIN previews : previews[v].revision \in Nat
      /\ \A v \in DOMAIN previews' : previews'[v].revision \in Nat
  <2>1. /\ proposals' \in [DOMAIN proposals' -> Proposal]
        /\ previews' \in [DOMAIN previews' -> Preview]
    BY DEF TypeOK, StoreTypeOK
  <2>2. QED
    BY <2>1, RowTypes DEF Proposal, Preview
<1>6. c.kind = "proposal" => ProposalCallInv(c)'
  <2> SUFFICES ASSUME c.kind = "proposal" PROVE ProposalCallInv(c)'
    OBVIOUS
  <2>1. ProposalCallInv(c)
    BY <1>2 DEF CallInv
  <2>2. QED
    BY <1>4, <1>5, <2>1 DEF ProposalCallInv, TablesAdvance, NoRevision, TaskMoves,
       Ledger!TaskMoves
<1>7. c.kind = "preview" => PreviewCallInv(c)'
  <2> SUFFICES ASSUME c.kind = "preview" PROVE PreviewCallInv(c)'
    OBVIOUS
  <2>1. PreviewCallInv(c)
    BY <1>2 DEF CallInv
  <2>2. QED
    BY <1>3, <1>4, <1>5, <2>1 DEF PreviewCallInv, TablesAdvance, NoRevision
<1>8. c.kind = "request" => RequestCallInv(c)'
  <2> SUFFICES ASSUME c.kind = "request" PROVE RequestCallInv(c)'
    OBVIOUS
  <2>1. RequestCallInv(c)
    BY <1>2 DEF CallInv
  <2>2. QED
    BY <1>3, <2>1 DEF RequestCallInv, TablesAdvance
<1>9. c.kind = "decision" => DecisionCallInv(c)'
  <2> SUFFICES ASSUME c.kind = "decision" PROVE DecisionCallInv(c)'
    OBVIOUS
  <2>1. DecisionCallInv(c)
    BY <1>2 DEF CallInv
  <2>2. QED
    BY <2>1 DEF DecisionCallInv, TablesAdvance
<1>10. /\ c.stage # "read" => c.op \in Tokens
       /\ c.kind = "session" => c.stage # "read" /\ c.rec \in Session
  BY <1>2 DEF CallInv
<1>11. CallInv(c)'
  BY <1>6, <1>7, <1>8, <1>9, <1>10 DEF CallInv
<1>12. QED
  BY <1>2, <1>11 DEF CallInv, ProposalCallInv, PreviewCallInv, RequestCallInv,
     DecisionCallInv, RequestSource, source_matches, require_current_source

-----------------------------------------------------------------------------
\* A commit advances the tables.
LEMMA CommitAdvances ==
    ASSUME IInv, NEW t \in Threads,
           commit_proposal(t) \/ commit_preview(t) \/ commit_request(t) \/ commit_decision(t)
    PROVE  TablesAdvance
<1> DEFINE c == calls[t]
<1>1. t \in DOMAIN calls /\ c.stage = "authorized"
  BY DEF commit_proposal, commit_preview, commit_request, commit_decision, At
<1>2. c \in Call /\ CallInv(c)
  BY <1>1, RowTypes
<1>3. c.expected \in Nat
  BY <1>2 DEF Call
<1>4. ASSUME commit_proposal(t) PROVE TablesAdvance
  <2>1. ProposalCallInv(c)
    BY <1>2, <1>4 DEF commit_proposal, CallInv
  <2>2. /\ RevisionCurrent(proposals, c.id, c.expected)
        /\ proposals' = Upsert(proposals, c.id, c.rec)
        /\ UNCHANGED <<previews, requests, results>>
    BY <1>4 DEF commit_proposal, commit_office_proposal
  <2>3. \A p \in DOMAIN proposals : proposals[p].revision \in Nat
    BY RowTypes DEF Proposal
  <2>4. c.id \in DOMAIN proposals =>
          /\ proposals[c.id].state \in {"draft", "proposed"}
          /\ proposals[c.id].revision < c.rec.revision
    BY <1>3, <2>1, <2>2, <2>3 DEF ProposalCallInv, RevisionCurrent, NoRevision, TaskMoves,
       Ledger!TaskMoves
  <2>5. QED
    BY <2>2, <2>4 DEF TablesAdvance, Upsert
<1>5. ASSUME commit_preview(t) PROVE TablesAdvance
  <2>1. PreviewCallInv(c)
    BY <1>2, <1>5 DEF commit_preview, CallInv
  <2>2. /\ RevisionCurrent(previews, c.id, c.expected)
        /\ previews' = Upsert(previews, c.id, c.rec)
        /\ UNCHANGED <<proposals, requests, results>>
    BY <1>5 DEF commit_preview, commit_office_approval_preview
  <2>3. \A v \in DOMAIN previews : previews[v].revision \in Nat
    BY RowTypes DEF Preview
  <2>4. c.id \in DOMAIN previews =>
          /\ previews[c.id].state = "preview_ready"
          /\ previews[c.id].revision < c.rec.revision
    BY <1>1, <1>3, <2>1, <2>2, <2>3 DEF PreviewCallInv, RevisionCurrent, NoRevision
  <2>5. QED
    BY <2>2, <2>4 DEF TablesAdvance, Upsert
<1>6. ASSUME commit_request(t) PROVE TablesAdvance
  <2>1. /\ c.id \notin DOMAIN requests
        /\ requests' = Upsert(requests, c.id, c.rec)
        /\ UNCHANGED <<proposals, previews, results>>
    BY <1>6 DEF commit_request, commit_office_pending_approval_request
  <2>2. QED
    BY <2>1 DEF TablesAdvance, Upsert
<1>7. ASSUME commit_decision(t) PROVE TablesAdvance
  <2>1. DecisionCallInv(c)
    BY <1>2, <1>7 DEF commit_decision, CallInv
  <2>2. PICK result :
          /\ requests[c.id].status = "pending_review"
          /\ c.op \notin DOMAIN results
          /\ results' = Upsert(results, c.op, result)
          /\ requests' = Upsert(requests, c.id, c.rec)
          /\ UNCHANGED <<proposals, previews>>
    BY <1>7 DEF commit_decision, commit_office_non_authorizing_approval_decision
  <2>3. c.rec.status # "pending_review"
    BY <1>1, <2>1 DEF DecisionCallInv, RequestOutcomes
  <2>4. QED
    BY <2>2, <2>3 DEF TablesAdvance, Upsert
<1>8. QED
  BY <1>4, <1>5, <1>6, <1>7

\* A commit keeps the types.
LEMMA CommitTypes ==
    ASSUME IInv, NEW t \in Threads,
           commit_proposal(t) \/ commit_preview(t) \/ commit_request(t) \/ commit_decision(t)
    PROVE  /\ TypeOK'
           /\ DOMAIN calls' \subseteq DOMAIN calls
           /\ calls' = [u \in DOMAIN calls' |-> calls[u]]
<1> DEFINE c == calls[t]
<1>1. /\ DOMAIN proposals \subseteq Tokens /\ proposals \in [DOMAIN proposals -> Proposal]
      /\ DOMAIN previews \subseteq Tokens /\ previews \in [DOMAIN previews -> Preview]
      /\ DOMAIN requests \subseteq Tokens /\ requests \in [DOMAIN requests -> Request]
      /\ DOMAIN results \subseteq Tokens /\ results \in [DOMAIN results -> Result]
      /\ DOMAIN calls \subseteq Threads /\ calls \in [DOMAIN calls -> Call]
      /\ evidence \subseteq Event /\ active \in Session \cup {NoSession}
      /\ issued \in 0..MaxTokens /\ now \in Nat
  BY DEF IInv, TypeOK, StoreTypeOK
<1>2. t \in DOMAIN calls /\ c.stage = "authorized"
  BY DEF commit_proposal, commit_preview, commit_request, commit_decision, At
<1>3. c \in Call /\ CallInv(c)
  BY <1>2, RowTypes
<1>4. c.id \in Tokens /\ c.op \in Tokens /\ c.session \in Nat /\ c.at \in Nat
  BY <1>2, <1>3 DEF Call, CallInv
<1>5. /\ calls' = [u \in DOMAIN calls \ {t} |-> calls[u]]
      /\ UNCHANGED <<active, issued, now>>
  BY DEF commit_proposal, commit_preview, commit_request, commit_decision, Return
<1>6. /\ DOMAIN calls' \subseteq DOMAIN calls
      /\ calls' = [u \in DOMAIN calls' |-> calls[u]]
  BY <1>5
<1>7. DOMAIN calls' \subseteq Threads /\ calls' \in [DOMAIN calls' -> Call]
  BY <1>1, <1>5
<1>8. StoreTypeOK'
  <2> HIDE DEF c
  <2>1. ASSUME commit_proposal(t) PROVE StoreTypeOK'
    <3>1. c.rec \in Proposal
      BY <1>3, <2>1 DEF commit_proposal, CallInv, ProposalCallInv, c
    <3>2. /\ record_event(c.rec.op, "committed", "proposal", c.id, c.rec.revision)
          /\ proposals' = Upsert(proposals, c.id, c.rec)
          /\ UNCHANGED <<previews, requests, results>>
      BY <2>1 DEF commit_proposal, commit_office_proposal, c
    <3>3. evidence' \subseteq Event
      BY <1>1, <1>4, <3>1, <3>2 DEF record_event, Event, Stages, Kinds, Proposal
    <3>4. DOMAIN proposals' \subseteq Tokens /\ proposals' \in [DOMAIN proposals' -> Proposal]
      BY <1>1, <1>4, <3>1, <3>2 DEF Upsert
    <3>5. QED
      BY <1>1, <3>2, <3>3, <3>4 DEF StoreTypeOK
  <2>2. ASSUME commit_preview(t) PROVE StoreTypeOK'
    <3>1. c.rec \in Preview
      BY <1>2, <1>3, <2>2 DEF commit_preview, CallInv, PreviewCallInv, c
    <3>2. /\ record_event(c.rec.op, "committed", "preview", c.id, c.rec.revision)
          /\ previews' = Upsert(previews, c.id, c.rec)
          /\ UNCHANGED <<proposals, requests, results>>
      BY <2>2 DEF commit_preview, commit_office_approval_preview, c
    <3>3. evidence' \subseteq Event
      BY <1>1, <1>4, <3>1, <3>2 DEF record_event, Event, Stages, Kinds, Preview
    <3>4. DOMAIN previews' \subseteq Tokens /\ previews' \in [DOMAIN previews' -> Preview]
      BY <1>1, <1>4, <3>1, <3>2 DEF Upsert
    <3>5. QED
      BY <1>1, <3>2, <3>3, <3>4 DEF StoreTypeOK
  <2>3. ASSUME commit_request(t) PROVE StoreTypeOK'
    <3>1. c.rec \in Request
      BY <1>2, <1>3, <2>3 DEF commit_request, CallInv, RequestCallInv, c
    <3>2. /\ record_event(c.rec.op, "committed", "request", c.id, NoRevision)
          /\ requests' = Upsert(requests, c.id, c.rec)
          /\ UNCHANGED <<proposals, previews, results>>
      BY <2>3 DEF commit_request, commit_office_pending_approval_request, c
    <3>3. evidence' \subseteq Event
      BY <1>1, <1>4, <3>1, <3>2 DEF record_event, Event, Stages, Kinds, Request, NoRevision
    <3>4. DOMAIN requests' \subseteq Tokens /\ requests' \in [DOMAIN requests' -> Request]
      BY <1>1, <1>4, <3>1, <3>2 DEF Upsert
    <3>5. QED
      BY <1>1, <3>2, <3>3, <3>4 DEF StoreTypeOK
  <2>4. ASSUME commit_decision(t) PROVE StoreTypeOK'
    <3> DEFINE d == [request |-> c.id, result |-> c.rec.status, approver |-> c.session,
                     decidedAt |-> c.at, op |-> c.op]
    <3>1. c.rec \in Request
      BY <1>2, <1>3, <2>4 DEF commit_decision, CallInv, DecisionCallInv, c
    <3>2. /\ record_event(c.rec.op, "committed", "decision", c.id, NoRevision)
          /\ results' = Upsert(results, c.op, d)
          /\ requests' = Upsert(requests, c.id, c.rec)
          /\ UNCHANGED <<proposals, previews>>
      BY <2>4 DEF commit_decision, commit_office_non_authorizing_approval_decision, c
    <3>3. evidence' \subseteq Event
      BY <1>1, <1>4, <3>1, <3>2 DEF record_event, Event, Stages, Kinds, Request, NoRevision
    <3>4. d \in Result
      BY <1>4, <3>1 DEF Result, Request
    <3> HIDE DEF d
    <3>5. DOMAIN requests' \subseteq Tokens /\ requests' \in [DOMAIN requests' -> Request]
      BY <1>1, <1>4, <3>1, <3>2 DEF Upsert
    <3>6. DOMAIN results' \subseteq Tokens /\ results' \in [DOMAIN results' -> Result]
      BY <1>1, <1>4, <3>2, <3>4 DEF Upsert
    <3>7. QED
      BY <1>1, <3>2, <3>3, <3>5, <3>6 DEF StoreTypeOK
  <2>5. QED
    BY <2>1, <2>2, <2>3, <2>4
<1>9. QED
  BY <1>1, <1>5, <1>6, <1>7, <1>8 DEF TypeOK

\* A commit keeps the sources of all records current: an old record by
\* AdvanceSources, the committed one by what its call relies on.
LEMMA CommitSources ==
    ASSUME IInv, NEW t \in Threads,
           commit_proposal(t) \/ commit_preview(t) \/ commit_request(t) \/ commit_decision(t)
    PROVE  SourcesCurrent'
<1> DEFINE c == calls[t]
<1>0. /\ \A x : source_matches(x) => source_matches(x)'
      /\ \A y : RequestSource(y) => RequestSource(y)'
  BY CommitAdvances, AdvanceSources
<1>1. t \in DOMAIN calls /\ c.stage = "authorized"
  BY DEF commit_proposal, commit_preview, commit_request, commit_decision, At
<1>2. CallInv(c)
  BY <1>1, RowTypes
<1>3. /\ \A v \in DOMAIN previews : source_matches(previews[v])
      /\ \A r \in DOMAIN requests : RequestSource(requests[r])
  BY DEF IInv, SourcesCurrent, RequestSource
<1>4. ASSUME NEW v \in DOMAIN previews' PROVE source_matches(previews[v])'
  <2>1. PICK x : x = previews'[v]
    OBVIOUS
  <2>2. source_matches(x)
    <3>1. CASE v \in DOMAIN previews /\ previews'[v] = previews[v]
      BY <1>3, <2>1, <3>1
    <3>2. CASE ~(v \in DOMAIN previews /\ previews'[v] = previews[v])
      <4>1. commit_preview(t)
        BY <3>2 DEF commit_proposal, commit_request, commit_decision, commit_office_proposal,
           commit_office_pending_approval_request,
           commit_office_non_authorizing_approval_decision
      <4>2. previews' = Upsert(previews, c.id, c.rec)
        BY <4>1 DEF commit_preview, commit_office_approval_preview
      <4>3. x = c.rec
        BY <2>1, <3>2, <4>2 DEF Upsert
      <4>4. PreviewCallInv(c)
        BY <1>2, <4>1 DEF commit_preview, CallInv
      <4>5. QED
        BY <1>1, <4>3, <4>4 DEF PreviewCallInv
    <3>3. QED
      BY <3>1, <3>2
  <2>3. source_matches(x)'
    BY <1>0, <2>2
  <2>4. QED
    BY <2>1, <2>3 DEF source_matches
<1>5. ASSUME NEW r \in DOMAIN requests' PROVE RequestSource(requests[r])'
  <2>1. PICK y : y = requests'[r]
    OBVIOUS
  <2>2. RequestSource(y)
    <3>1. CASE r \in DOMAIN requests /\ requests'[r] = requests[r]
      BY <1>3, <2>1, <3>1
    <3>2. CASE ~(r \in DOMAIN requests /\ requests'[r] = requests[r])
      <4>1. commit_request(t) \/ commit_decision(t)
        BY <3>2 DEF commit_proposal, commit_preview, commit_office_proposal,
           commit_office_approval_preview
      <4>2. requests' = Upsert(requests, c.id, c.rec)
        BY <4>1 DEF commit_request, commit_decision, commit_office_pending_approval_request,
           commit_office_non_authorizing_approval_decision
      <4>3. y = c.rec
        BY <2>1, <3>2, <4>2 DEF Upsert
      <4>4. CASE commit_request(t)
        <5>1. RequestCallInv(c)
          BY <1>2, <4>4 DEF commit_request, CallInv
        <5>2. QED
          BY <1>1, <4>3, <5>1 DEF RequestCallInv
      <4>5. CASE commit_decision(t)
        <5>1. DecisionCallInv(c)
          BY <1>2, <4>5 DEF commit_decision, CallInv
        <5>2. c.id \in DOMAIN requests /\ requests[c.id].status = "pending_review"
          BY <4>5 DEF commit_decision, commit_office_non_authorizing_approval_decision
        <5>3. RequestSource(requests[c.id])
          BY <1>3, <5>2
        <5>4. QED
          BY <4>3, <5>1, <5>2, <5>3 DEF DecisionCallInv, RequestSource, require_current_source
      <4>6. QED
        BY <4>1, <4>4, <4>5
    <3>3. QED
      BY <3>1, <3>2
  <2>3. RequestSource(y)'
    BY <1>0, <2>2
  <2>4. QED
    BY <2>1, <2>3 DEF RequestSource, require_current_source
<1>6. QED
  BY <1>4, <1>5 DEF SourcesCurrent, RequestSource

\* A commit keeps requests and results in step, and a decision inside or after
\* the window its request gives it.
LEMMA CommitResults ==
    ASSUME IInv, NEW t \in Threads,
           commit_proposal(t) \/ commit_preview(t) \/ commit_request(t) \/ commit_decision(t)
    PROVE  ResultMatchesRequest' /\ DecisionInWindow'
<1> DEFINE c == calls[t]
<1>1. t \in DOMAIN calls /\ c.stage = "authorized"
  BY DEF commit_proposal, commit_preview, commit_request, commit_decision, At
<1>2. CallInv(c)
  BY <1>1, RowTypes
<1>3. ResultMatchesRequest /\ DecisionInWindow
  BY DEF IInv
<1>4. CASE commit_proposal(t) \/ commit_preview(t)
  <2>1. UNCHANGED <<requests, results>>
    BY <1>4 DEF commit_proposal, commit_preview, commit_office_proposal,
       commit_office_approval_preview
  <2>2. QED
    BY <1>3, <2>1 DEF ResultMatchesRequest, DecisionInWindow
<1>5. CASE commit_request(t)
  <2>1. /\ c.id \notin DOMAIN requests /\ requests' = Upsert(requests, c.id, c.rec)
        /\ results' = results
    BY <1>5 DEF commit_request, commit_office_pending_approval_request
  <2>2. c.rec.status = "pending_review"
    BY <1>1, <1>2, <1>5 DEF commit_request, CallInv, RequestCallInv
  <2>3. \A s \in DOMAIN results : results[s].request \in DOMAIN requests
    BY <1>3 DEF ResultMatchesRequest
  <2>4. /\ DOMAIN requests' = DOMAIN requests \cup {c.id}
        /\ requests'[c.id] = c.rec
        /\ \A r \in DOMAIN requests : requests'[r] = requests[r]
    BY <2>1 DEF Upsert
  <2> HIDE DEF c
  <2>5. ResultMatchesRequest'
    BY <1>3, <2>1, <2>2, <2>3, <2>4 DEF ResultMatchesRequest
  <2>6. DecisionInWindow'
    BY <1>3, <2>1, <2>3, <2>4 DEF DecisionInWindow
  <2>7. QED
    BY <2>5, <2>6
<1>6. CASE commit_decision(t)
  <2> DEFINE d == [request |-> c.id, result |-> c.rec.status, approver |-> c.session,
                   decidedAt |-> c.at, op |-> c.op]
  <2>1. /\ c.id \in DOMAIN requests /\ requests[c.id].status = "pending_review"
        /\ \A r \in DOMAIN results : results[r].request # c.id
        /\ c.op \notin DOMAIN results
        /\ results' = Upsert(results, c.op, d)
        /\ requests' = Upsert(requests, c.id, c.rec)
    BY <1>6 DEF commit_decision, commit_office_non_authorizing_approval_decision
  <2>2. /\ c.rec.status \in RequestOutcomes /\ c.rec.op = c.op
        /\ IF c.rec.status = "expired"
           THEN c.at >= c.rec.expiresAt /\ c.session = 0
           ELSE /\ c.at < c.rec.expiresAt
                /\ c.session # 0
                /\ c.rec.status = "cancelled" => c.session = c.rec.requester
    BY <1>1, <1>2, <1>6 DEF commit_decision, CallInv, DecisionCallInv
  <2>3. /\ DOMAIN requests' = DOMAIN requests /\ requests'[c.id] = c.rec
        /\ \A r \in DOMAIN requests : r # c.id => requests'[r] = requests[r]
    BY <2>1 DEF Upsert
  <2>4. /\ DOMAIN results' = DOMAIN results \cup {c.op} /\ results'[c.op] = d
        /\ \A s \in DOMAIN results : results'[s] = results[s]
    BY <2>1 DEF Upsert
  <2>5. /\ d.request = c.id /\ d.result = c.rec.status /\ d.approver = c.session
        /\ d.decidedAt = c.at /\ d.op = c.op
    OBVIOUS
  <2> HIDE DEF c, d
  <2>6. ResultMatchesRequest'
    <3>1. ASSUME NEW r \in DOMAIN requests'
          PROVE  requests'[r].status # "pending_review" <=>
                   \E s \in DOMAIN results' : results'[s].request = r
      <4>1. CASE r = c.id
        BY <2>2, <2>3, <2>4, <2>5, <4>1 DEF RequestOutcomes
      <4>2. CASE r # c.id
        <5>1. requests[r].status # "pending_review" <=>
                \E s \in DOMAIN results : results[s].request = r
          BY <1>3, <2>3, <3>1 DEF ResultMatchesRequest
        <5>2. QED
          BY <2>3, <2>4, <2>5, <3>1, <4>2, <5>1
      <4>3. QED
        BY <4>1, <4>2
    <3>2. ASSUME NEW s \in DOMAIN results'
          PROVE  /\ results'[s].request \in DOMAIN requests'
                 /\ requests'[results'[s].request].status = results'[s].result
                 /\ requests'[results'[s].request].op = results'[s].op
      <4>1. CASE s = c.op
        BY <2>1, <2>2, <2>3, <2>4, <2>5, <4>1
      <4>2. CASE s # c.op
        <5>1. /\ results[s].request \in DOMAIN requests
              /\ requests[results[s].request].status = results[s].result
              /\ requests[results[s].request].op = results[s].op
          BY <1>3, <2>4, <3>2, <4>2 DEF ResultMatchesRequest
        <5>2. s \in DOMAIN results /\ results'[s] = results[s] /\ results[s].request # c.id
          BY <2>1, <2>4, <3>2, <4>2
        <5>3. QED
          BY <2>3, <5>1, <5>2
      <4>3. QED
        BY <4>1, <4>2
    <3>3. QED
      BY <3>1, <3>2 DEF ResultMatchesRequest
  <2>7. DecisionInWindow'
    <3> DEFINE InWindow(x, request) ==
          IF x.result = "expired"
          THEN x.decidedAt >= request.expiresAt /\ x.approver = 0
          ELSE /\ x.decidedAt < request.expiresAt
               /\ x.approver # 0
               /\ x.result = "cancelled" => x.approver = request.requester
    <3>1. ASSUME NEW s \in DOMAIN results'
          PROVE  InWindow(results'[s], requests'[results'[s].request])
      <4>1. CASE s = c.op
        BY <2>2, <2>3, <2>4, <2>5, <4>1
      <4>2. CASE s # c.op
        <5>1. s \in DOMAIN results /\ results'[s] = results[s] /\ results[s].request # c.id
          BY <2>1, <2>4, <3>1, <4>2
        <5>2. InWindow(results[s], requests[results[s].request])
          BY <1>3, <5>1 DEF DecisionInWindow
        <5>3. results[s].request \in DOMAIN requests
          BY <1>3, <5>1 DEF ResultMatchesRequest
        <5>4. requests'[results'[s].request] = requests[results[s].request]
          BY <2>3, <5>1, <5>3
        <5> HIDE DEF InWindow
        <5>5. QED
          BY <5>1, <5>2, <5>4
      <4>3. QED
        BY <4>1, <4>2
    <3>2. QED
      BY <3>1 DEF DecisionInWindow
  <2>8. QED
    BY <2>6, <2>7
<1>7. QED
  BY <1>4, <1>5, <1>6

LEMMA CommitSteps ==
    ASSUME IInv, NEW t \in Threads,
           commit_proposal(t) \/ commit_preview(t) \/ commit_request(t) \/ commit_decision(t)
    PROVE  IInv'
<1>1. CallsInv'
  BY CommitAdvances, CommitTypes, AdvanceCalls
<1>2. QED
  BY <1>1, CommitTypes, CommitSources, CommitResults DEF IInv

-----------------------------------------------------------------------------
\* Every step of every handler preserves the invariant.
LEMMA HandlerIInv == ASSUME IInv, NEW t \in Threads, Handler(t) PROVE IInv'
<1>1. CASE \/ \E h \in HelperResults : create_from_helper(t, h)
           \/ \E p \in DOMAIN proposals, b \in Bodies : edit(t, p, b)
           \/ \E p \in DOMAIN proposals, act \in {"propose", "accept", "deny", "cancel"},
                 next \in ProposalStates : transition_proposal(t, p, act, next)
  BY <1>1, ProposalHandlers
<1>2. CASE \/ \E p \in DOMAIN proposals : read_accepted_proposal(t, p)
           \/ create_from_proposal(t)
           \/ \E v \in DOMAIN previews, act \in {"review", "deny", "withdraw"} :
                 read_preview(t, v, act)
           \/ \E next \in PreviewStates : transition_preview(t, next)
  BY <1>2, PreviewHandlers
<1>3. CASE \/ bind(t)
           \/ \E v \in DOMAIN previews : reviewed_preview(t, v)
           \/ \E b \in Tokens : create_request(t, b)
  BY <1>3, SessionAndRequestHandlers
<1>4. CASE \/ \E r \in DOMAIN requests, act \in {"deny", "cancel", "expire"} :
                 read_request(t, r, act)
           \/ \E b \in Tokens \cup {0}, next \in RequestStates : decide(t, b, next)
  BY <1>4, DecisionHandlers
<1>5. CASE record_requested(t) \/ record_authorized(t)
  BY <1>5, StageMoves
<1>6. CASE commit_proposal(t) \/ commit_preview(t) \/ commit_request(t) \/ commit_decision(t)
  BY <1>6, CommitSteps
<1>7. CASE activate_session(t) \/ raise(t)
  BY <1>7, OtherSteps
<1>8. QED
  BY <1>1, <1>2, <1>3, <1>4, <1>5, <1>6, <1>7 DEF Handler

LEMMA NextIInv == IInv /\ [Next]_vars => IInv'
<1> SUFFICES ASSUME IInv, [Next]_vars PROVE IInv'
  OBVIOUS
<1>1. ASSUME NEW t \in Threads, Handler(t) PROVE IInv'
  BY <1>1, HandlerIInv
<1>2. CASE restart \/ tick
  BY <1>2, OtherSteps
<1>3. CASE UNCHANGED vars
  <2>1. /\ DOMAIN calls' \subseteq DOMAIN calls
        /\ calls' = [u \in DOMAIN calls' |-> calls[u]]
    BY <1>3 DEF vars, IInv, TypeOK
  <2>2. /\ UNCHANGED tables /\ evidence' \subseteq Event /\ issued' = issued
        /\ active' \in Session \cup {NoSession} /\ now' \in Nat
    BY <1>3 DEF vars, tables, IInv, TypeOK, StoreTypeOK
  <2>3. QED
    BY <2>1, <2>2, FewerCalls
<1>4. QED
  BY <1>1, <1>2, <1>3 DEF Next

\* The inductive invariant holds in every reachable state.
THEOREM Invariance == Spec => []IInv
BY InitIInv, NextIInv, PTL DEF Spec

\* Every table, event and call in flight always has its type.
THEOREM TypeCorrect == Spec => []TypeOK
<1>1. IInv => TypeOK
  BY DEF IInv
<1>2. QED
  BY <1>1, Invariance, PTL

\* The source of every preview and request is always what it was checked to be,
\* however many handlers run and wherever the process stops.
THEOREM SourcesStayCurrent == Spec => []SourcesCurrent
<1>1. IInv => SourcesCurrent
  BY DEF IInv
<1>2. QED
  BY <1>1, Invariance, PTL

\* A request is closed exactly when its one result says so.
THEOREM ResultsMatchRequests == Spec => []ResultMatchesRequest
<1>1. IInv => ResultMatchesRequest
  BY DEF IInv
<1>2. QED
  BY <1>1, Invariance, PTL

\* Only an expiry is dated after the window and has no approver, and only the
\* requester's session cancels.
THEOREM DecisionsInWindow == Spec => []DecisionInWindow
<1>1. IInv => DecisionInWindow
  BY DEF IInv
<1>2. QED
  BY <1>1, Invariance, PTL

-----------------------------------------------------------------------------
\* Every step, whatever it is, advances the tables or leaves them alone.
LEMMA OnlyCommitsChangeTables ==
    ASSUME [Next]_vars
    PROVE  \/ UNCHANGED tables
           \/ \E t \in Threads : \/ commit_proposal(t) \/ commit_preview(t)
                                 \/ commit_request(t) \/ commit_decision(t)
<1> USE DEF tables
<1>1. CASE restart \/ tick \/ UNCHANGED vars
  BY <1>1 DEF restart, tick, vars
<1>2. ASSUME NEW t \in Threads, Handler(t)
      PROVE  \/ UNCHANGED tables
             \/ commit_proposal(t) \/ commit_preview(t) \/ commit_request(t) \/ commit_decision(t)
  <2>1. CASE record_requested(t) \/ record_authorized(t) \/ activate_session(t) \/ raise(t)
    BY <2>1 DEF record_requested, record_authorized, activate_session, raise
  <2>2. CASE \/ \E h \in HelperResults : create_from_helper(t, h)
             \/ \E p \in DOMAIN proposals, b \in Bodies : edit(t, p, b)
             \/ \E p \in DOMAIN proposals, act \in {"propose", "accept", "deny", "cancel"},
                   next \in ProposalStates : transition_proposal(t, p, act, next)
             \/ create_from_proposal(t)
             \/ \E next \in PreviewStates : transition_preview(t, next)
             \/ bind(t)
             \/ \E b \in Tokens : create_request(t, b)
             \/ \E b \in Tokens \cup {0}, next \in RequestStates : decide(t, b, next)
    BY <2>2 DEF create_from_helper, edit, transition_proposal, create_from_proposal,
       transition_preview, bind, create_request, decide, Prepare
  <2>3. CASE \/ \E p \in DOMAIN proposals : read_accepted_proposal(t, p)
             \/ \E v \in DOMAIN previews, act \in {"review", "deny", "withdraw"} :
                   read_preview(t, v, act)
             \/ \E v \in DOMAIN previews : reviewed_preview(t, v)
             \/ \E r \in DOMAIN requests, act \in {"deny", "cancel", "expire"} :
                   read_request(t, r, act)
    BY <2>3 DEF read_accepted_proposal, read_preview, reviewed_preview, read_request, Read
  <2>4. QED
    BY <1>2, <2>1, <2>2, <2>3 DEF Handler
<1>3. QED
  BY <1>1, <1>2 DEF Next

LEMMA NextAdvances == IInv /\ [Next]_vars => TablesAdvance
<1> SUFFICES ASSUME IInv, [Next]_vars PROVE TablesAdvance
  OBVIOUS
<1>1. CASE UNCHANGED tables
  BY <1>1 DEF tables, TablesAdvance
<1>2. QED
  BY <1>1, OnlyCommitsChangeTables, CommitAdvances

\* What is settled stays as it is: an older read of a record that is still held
\* by a handler can never overwrite an accepted, closed or decided one.
THEOREM SettledStays == Spec => SettledIsFinal
<1> DEFINE Final ==
      /\ \A p \in DOMAIN proposals : proposals[p].state \notin {"draft", "proposed"} =>
           p \in DOMAIN proposals' /\ proposals'[p] = proposals[p]
      /\ \A v \in DOMAIN previews : previews[v].state # "preview_ready" =>
           v \in DOMAIN previews' /\ previews'[v] = previews[v]
      /\ \A r \in DOMAIN requests : requests[r].status # "pending_review" =>
           r \in DOMAIN requests' /\ requests'[r] = requests[r]
      /\ \A s \in DOMAIN results : s \in DOMAIN results' /\ results'[s] = results[s]
<1>1. IInv /\ [Next]_vars => [Final]_tables
  BY NextAdvances DEF TablesAdvance
<1>2. QED
  BY <1>1, Invariance, PTL DEF Spec, SettledIsFinal

\* The UNIQUE columns make duplicates impossible although every service looks
\* for them long before it commits.
THEOREM OnePerSource == Spec => []OneRecordPerSource
<1>1. Init => OneRecordPerSource
  BY DEF Init, StoreInit, OneRecordPerSource
<1>2. IInv /\ OneRecordPerSource /\ [Next]_vars => OneRecordPerSource'
  <2> SUFFICES ASSUME IInv, OneRecordPerSource, [Next]_vars PROVE OneRecordPerSource'
    OBVIOUS
  <2>1. CASE UNCHANGED tables
    BY <2>1 DEF tables, OneRecordPerSource
  <2>2. ASSUME NEW t \in Threads, commit_proposal(t) PROVE OneRecordPerSource'
    <3>1. /\ \A other \in DOMAIN proposals \ {calls[t].id} :
                proposals[other].source # calls[t].rec.source
          /\ proposals' = Upsert(proposals, calls[t].id, calls[t].rec)
          /\ UNCHANGED <<previews, requests, results>>
      BY <2>2 DEF commit_proposal, commit_office_proposal
    <3>2. QED
      BY <3>1 DEF OneRecordPerSource, Upsert
  <2>3. ASSUME NEW t \in Threads, commit_preview(t) PROVE OneRecordPerSource'
    <3>1. /\ \A other \in DOMAIN previews \ {calls[t].id} :
                previews[other].proposal # calls[t].rec.proposal
          /\ previews' = Upsert(previews, calls[t].id, calls[t].rec)
          /\ UNCHANGED <<proposals, requests, results>>
      BY <2>3 DEF commit_preview, commit_office_approval_preview
    <3>2. QED
      BY <3>1 DEF OneRecordPerSource, Upsert
  <2>4. ASSUME NEW t \in Threads, commit_request(t) PROVE OneRecordPerSource'
    <3>1. /\ \A other \in DOMAIN requests : requests[other].preview # calls[t].rec.preview
          /\ requests' = Upsert(requests, calls[t].id, calls[t].rec)
          /\ UNCHANGED <<proposals, previews, results>>
      BY <2>4 DEF commit_request, commit_office_pending_approval_request
    <3>2. QED
      BY <3>1 DEF OneRecordPerSource, Upsert
  <2>5. ASSUME NEW t \in Threads, commit_decision(t) PROVE OneRecordPerSource'
    <3> DEFINE c == calls[t]
               d == [request |-> c.id, result |-> c.rec.status, approver |-> c.session,
                     decidedAt |-> c.at, op |-> c.op]
    <3>1. /\ c.id \in DOMAIN requests /\ requests[c.id].status = "pending_review"
          /\ \A r \in DOMAIN results : results[r].request # c.id
          /\ results' = Upsert(results, c.op, d)
          /\ requests' = Upsert(requests, c.id, c.rec)
          /\ UNCHANGED <<proposals, previews>>
      BY <2>5 DEF commit_decision, commit_office_non_authorizing_approval_decision
    <3>2. t \in DOMAIN calls /\ c.kind = "decision"
      BY <2>5 DEF commit_decision, At
    <3>3. DecisionCallInv(c)
      BY <3>2, RowTypes DEF CallInv
    <3>4. c.rec.preview = requests[c.id].preview
      BY <3>1, <3>3 DEF DecisionCallInv
    <3>5. d.request = c.id
      OBVIOUS
    <3> HIDE DEF c, d
    <3>6. \A r, s \in DOMAIN requests' : requests'[r].preview = requests'[s].preview => r = s
      <4>1. \A r \in DOMAIN requests' :
              r \in DOMAIN requests /\ requests'[r].preview = requests[r].preview
        BY <3>1, <3>4 DEF Upsert
      <4>2. QED
        BY <4>1 DEF OneRecordPerSource
    <3>7. \A r, s \in DOMAIN results' : results'[r].request = results'[s].request => r = s
      BY <3>1, <3>5 DEF OneRecordPerSource, Upsert
    <3>8. QED
      BY <3>1, <3>6, <3>7 DEF OneRecordPerSource
  <2>6. QED
    BY <2>1, <2>2, <2>3, <2>4, <2>5, OnlyCommitsChangeTables
<1>3. QED
  BY <1>1, <1>2, Invariance, PTL DEF Spec

-----------------------------------------------------------------------------
\* The ledger's view of the tables.
TasksView == [p \in DOMAIN proposals |->
    [source |-> proposals[p].source, state |-> proposals[p].state,
     revision |-> proposals[p].revision]]
ReviewsView == [v \in DOMAIN previews |->
    [task |-> previews[v].proposal, state |-> previews[v].state]]
AsksView == [r \in DOMAIN requests |->
    [review |-> requests[r].preview, status |-> requests[r].status]]

LEMMA ViewsAreTheLedger == Ledger!ledger = <<TasksView, ReviewsView, AsksView>>
BY DEF Ledger!ledger, TasksView, ReviewsView, AsksView

\* A commit is a step of the ledger.
LEMMA CommitIsALedgerStep ==
    ASSUME IInv, NEW t \in Threads,
           commit_proposal(t) \/ commit_preview(t) \/ commit_request(t) \/ commit_decision(t)
    PROVE  Ledger!Next
<1>1. t \in DOMAIN calls /\ calls[t].stage = "authorized"
  BY DEF commit_proposal, commit_preview, commit_request, commit_decision, At
<1>2. PICK c \in Call : c = calls[t] /\ c.stage = "authorized" /\ CallInv(c)
  BY <1>1, RowTypes
<1>3. ASSUME commit_proposal(t) PROVE Ledger!Next
  <2>1. /\ RevisionCurrent(proposals, c.id, c.expected)
        /\ \A other \in DOMAIN proposals \ {c.id} : proposals[other].source # c.rec.source
        /\ proposals' = Upsert(proposals, c.id, c.rec)
        /\ UNCHANGED <<previews, requests, results>>
    BY <1>2, <1>3 DEF commit_proposal, commit_office_proposal
  <2>2. ProposalCallInv(c)
    BY <1>2, <1>3 DEF commit_proposal, CallInv
  <2>3. CASE c.expected = NoRevision
    <3>1. /\ c.id \notin DOMAIN proposals /\ c.rec.source \in HelperResults
          /\ c.rec.state = "draft" /\ c.rec.revision = 1
      BY <2>1, <2>2, <2>3 DEF RevisionCurrent, ProposalCallInv, Proposal
    <3>2. Ledger!Draft(c.id, c.rec.source)
      BY <2>1, <3>1 DEF Ledger!Draft, Ledger!Put, Upsert
    <3>3. QED
      BY <3>1, <3>2 DEF Ledger!Next, Call
  <2>4. CASE c.expected # NoRevision
    <3>1. /\ c.id \in DOMAIN proposals /\ c.rec.revision = proposals[c.id].revision + 1
          /\ c.rec.source = proposals[c.id].source
          /\ <<proposals[c.id].state, c.rec.state>> \in TaskMoves
      BY <2>1, <2>2, <2>4 DEF RevisionCurrent, ProposalCallInv
    <3>2. Ledger!Move(c.id, c.rec.state)
      BY <2>1, <3>1 DEF Ledger!Move, Ledger!Put, Upsert, TaskMoves
    <3>3. c.rec.state \in {m[2] : m \in Ledger!TaskMoves}
      BY <3>1 DEF TaskMoves, Ledger!TaskMoves
    <3>4. QED
      BY <3>1, <3>2, <3>3 DEF Ledger!Next
  <2>5. QED
    BY <2>3, <2>4
<1>4. ASSUME commit_preview(t) PROVE Ledger!Next
  <2>1. /\ RevisionCurrent(previews, c.id, c.expected)
        /\ \A other \in DOMAIN previews \ {c.id} : previews[other].proposal # c.rec.proposal
        /\ previews' = Upsert(previews, c.id, c.rec)
        /\ UNCHANGED <<proposals, requests, results>>
    BY <1>2, <1>4 DEF commit_preview, commit_office_approval_preview
  <2>2. PreviewCallInv(c)
    BY <1>2, <1>4 DEF commit_preview, CallInv
  <2>3. /\ c.rec.proposal \in DOMAIN proposals
        /\ proposals[c.rec.proposal].state = "accepted_for_future_approval"
    BY <1>2, <2>2 DEF PreviewCallInv, source_matches
  <2>4. CASE c.expected = NoRevision
    <3>1. c.id \notin DOMAIN previews /\ c.rec.state = "preview_ready"
      BY <1>2, <2>1, <2>2, <2>4 DEF RevisionCurrent, PreviewCallInv
    <3>2. Ledger!OpenReview(c.id, c.rec.proposal)
      BY <2>1, <2>3, <3>1 DEF Ledger!OpenReview, Ledger!Put, Upsert
    <3>3. QED
      BY <2>3, <3>2 DEF Ledger!Next, Call
  <2>5. CASE c.expected # NoRevision
    <3>1. /\ c.id \in DOMAIN previews /\ previews[c.id].state = "preview_ready"
          /\ c.rec.proposal = previews[c.id].proposal
          /\ c.rec.state \in PreviewOutcomes
      BY <1>2, <2>1, <2>2, <2>5 DEF RevisionCurrent, PreviewCallInv
    <3>2. Ledger!CloseReview(c.id, c.rec.state)
      BY <2>1, <2>3, <3>1 DEF Ledger!CloseReview, Ledger!Put, Upsert
    <3>3. QED
      BY <3>1, <3>2 DEF Ledger!Next, Ledger!ReviewOutcomes, PreviewOutcomes
  <2>6. QED
    BY <2>4, <2>5
<1>5. ASSUME commit_request(t) PROVE Ledger!Next
  <2>1. /\ c.id \notin DOMAIN requests
        /\ \A other \in DOMAIN requests : requests[other].preview # c.rec.preview
        /\ requests' = Upsert(requests, c.id, c.rec)
        /\ UNCHANGED <<proposals, previews, results>>
    BY <1>2, <1>5 DEF commit_request, commit_office_pending_approval_request
  <2>2. RequestCallInv(c)
    BY <1>2, <1>5 DEF commit_request, CallInv
  <2>3. /\ c.rec.preview \in DOMAIN previews /\ c.rec.status = "pending_review"
        /\ previews[c.rec.preview].state = "reviewed_no_authority"
    BY <1>2, <2>2 DEF RequestCallInv, RequestSource, require_current_source
  <2>4. Ledger!Ask(c.id, c.rec.preview)
    BY <2>1, <2>3 DEF Ledger!Ask, Ledger!Put, Upsert
  <2>5. QED
    BY <2>3, <2>4 DEF Ledger!Next, Call
<1>6. ASSUME commit_decision(t) PROVE Ledger!Next
  <2>1. /\ c.id \in DOMAIN requests /\ requests[c.id].status = "pending_review"
        /\ requests' = Upsert(requests, c.id, c.rec)
        /\ UNCHANGED <<proposals, previews>>
    BY <1>2, <1>6 DEF commit_decision, commit_office_non_authorizing_approval_decision
  <2>2. DecisionCallInv(c)
    BY <1>2, <1>6 DEF commit_decision, CallInv
  <2>3. c.rec.preview = requests[c.id].preview /\ c.rec.status \in RequestOutcomes
    BY <1>2, <2>1, <2>2 DEF DecisionCallInv
  <2>4. Ledger!Settle(c.id, c.rec.status)
    BY <2>1, <2>3 DEF Ledger!Settle, Ledger!Put, Upsert
  <2>5. QED
    BY <2>1, <2>3, <2>4 DEF Ledger!Next, Ledger!AskOutcomes, RequestOutcomes
<1>7. QED
  BY <1>3, <1>4, <1>5, <1>6

LEMMA StepRefines == IInv /\ [Next]_vars => [Ledger!Next]_(Ledger!ledger)
<1> SUFFICES ASSUME IInv, [Next]_vars PROVE [Ledger!Next]_(Ledger!ledger)
  OBVIOUS
<1>1. CASE UNCHANGED tables
  BY <1>1, ViewsAreTheLedger DEF tables, Ledger!ledger
<1>2. QED
  BY <1>1, OnlyCommitsChangeTables, CommitIsALedgerStep

\* Every commit satisfies, when it happens, the conditions of the atomic ledger.
THEOREM CommitsAreLedgerSteps == Spec => EveryCommitIsALedgerStep
BY StepRefines, Invariance, PTL DEF Spec, EveryCommitIsALedgerStep

\* The lane, with all its threads, sessions and restarts, implements the ledger.
THEOREM Refinement == Spec => ImplementsLedger
<1>1. Init => Ledger!Init
  BY DEF Init, StoreInit, Ledger!Init
<1>2. QED
  BY <1>1, StepRefines, Invariance, PTL DEF Spec, ImplementsLedger, Ledger!Spec


-----------------------------------------------------------------------------
\* The evidence of the lane.

Recorded(op, stage) == \E e \in evidence : e.op = op /\ e.stage = stage

\* What a call in flight has announced, and that it writes under its own token.
Announced(c) ==
    c.stage # "read" =>
        /\ IF c.kind = "session" THEN c.rec.binding = c.op /\ c.id = c.op ELSE c.rec.op = c.op
        /\ c.stage \in {"requested", "authorized"} => Recorded(c.op, "requested")
        /\ c.stage = "authorized" =>
              Recorded(c.op, IF c.kind = "session" THEN "committed" ELSE "authorized")

CallsAnnounced == \A t \in DOMAIN calls : Announced(calls[t])

\* A session is bound by one event, and a request that is pending has none that
\* decides it.
SingleCommits ==
    \A e \in evidence : e.stage = "committed" =>
        /\ e.kind = "session" => e.id = e.op /\ e.revision = NoRevision
        /\ e.kind = "decision" => requests[e.id].status # "pending_review"

EvidenceInv == CallsAnnounced /\ SingleCommits /\ EvidenceFirst /\ GaplessHistory

\* Everything a record's or a session's token must have in the evidence.
FullyRecorded(op) ==
    Recorded(op, "requested") /\ Recorded(op, "authorized") /\ Recorded(op, "committed")

LEMMA EvidenceFirstIs ==
    EvidenceFirst <=>
        /\ \A p \in DOMAIN proposals : FullyRecorded(proposals[p].op)
        /\ \A v \in DOMAIN previews : FullyRecorded(previews[v].op)
        /\ \A r \in DOMAIN requests : FullyRecorded(requests[r].op)
        /\ \A r \in DOMAIN results : FullyRecorded(results[r].op)
        /\ active # NoSession =>
              Recorded(active.binding, "requested") /\ Recorded(active.binding, "committed")
BY DEF EvidenceFirst, FullyRecorded, Recorded

\* Evidence is never lost.
LEMMA RecordsStay ==
    ASSUME evidence \subseteq evidence'
    PROVE  /\ \A op, stage : Recorded(op, stage) => Recorded(op, stage)'
           /\ \A op : FullyRecorded(op) => FullyRecorded(op)'
           /\ \A c : Announced(c) => Announced(c)'
BY DEF Recorded, FullyRecorded, Announced

LEMMA InitEvidence == Init => EvidenceInv
BY DEF Init, StoreInit, EvidenceInv, CallsAnnounced, SingleCommits, EvidenceFirst,
   GaplessHistory, NoSession

-----------------------------------------------------------------------------
\* Steps that leave the store alone.

LEMMA QuietEvidence ==
    ASSUME EvidenceInv, UNCHANGED tables, UNCHANGED evidence,
           active' \in {active, NoSession}, CallsAnnounced'
    PROVE  EvidenceInv'
<1>1. SingleCommits' /\ GaplessHistory'
  BY DEF EvidenceInv, SingleCommits, GaplessHistory, Committed, tables
<1>2. EvidenceFirst'
  BY DEF EvidenceInv, EvidenceFirst, tables
<1>3. QED
  BY <1>1, <1>2 DEF EvidenceInv

\* A call that starts has announced nothing yet.
LEMMA StartedCall ==
    ASSUME EvidenceInv, NEW t, NEW c, Announced(c), calls' = Upsert(calls, t, c),
           UNCHANGED tables, UNCHANGED <<evidence, active>>
    PROVE  EvidenceInv'
<1>1. CallsAnnounced'
  <2> SUFFICES ASSUME NEW u \in DOMAIN calls' PROVE Announced(calls'[u])
    BY DEF CallsAnnounced, Announced, Recorded
  <2>1. u = t => calls'[u] = c
    BY DEF Upsert
  <2>2. u # t => u \in DOMAIN calls /\ calls'[u] = calls[u]
    BY DEF Upsert
  <2>3. QED
    BY <2>1, <2>2 DEF EvidenceInv, CallsAnnounced
<1>2. QED
  BY <1>1, QuietEvidence

LEMMA ReadEvidence ==
    ASSUME EvidenceInv, NEW t, NEW kind, NEW act, NEW id, NEW expected, NEW record,
           Read(t, kind, act, id, expected, record)
    PROVE  EvidenceInv'
<1>1. calls' = Upsert(calls, t, ReadCall(kind, act, id, expected, record))
  BY DEF Read, ReadCall
<1>2. Announced(ReadCall(kind, act, id, expected, record))
  BY DEF Announced, ReadCall
<1>3. QED
  BY <1>1, <1>2, StartedCall DEF Read

LEMMA PrepareEvidence ==
    ASSUME EvidenceInv, NEW t, NEW kind, NEW act, NEW id, NEW expected, NEW record, NEW session,
           IF kind = "session" THEN record.binding = Fresh /\ id = Fresh ELSE record.op = Fresh,
           Prepare(t, kind, act, id, expected, record, session)
    PROVE  EvidenceInv'
<1>1. calls' = Upsert(calls, t, CheckedCall(kind, act, id, expected, record, session))
  BY DEF Prepare, CheckedCall
<1>2. Announced(CheckedCall(kind, act, id, expected, record, session))
  BY DEF Announced, CheckedCall
<1>3. QED
  BY <1>1, <1>2, StartedCall DEF Prepare

LEMMA PrepareSteps ==
    ASSUME IInv, EvidenceInv, NEW t \in Threads,
           \/ \E h \in HelperResults : create_from_helper(t, h)
           \/ \E p \in DOMAIN proposals, b \in Bodies : edit(t, p, b)
           \/ \E p \in DOMAIN proposals, act \in {"propose", "accept", "deny", "cancel"},
                 next \in ProposalStates : transition_proposal(t, p, act, next)
           \/ create_from_proposal(t)
           \/ \E next \in PreviewStates : transition_preview(t, next)
           \/ bind(t)
           \/ \E b \in Tokens : create_request(t, b)
           \/ \E b \in Tokens \cup {0}, next \in RequestStates : decide(t, b, next)
    PROVE  EvidenceInv'
<1>1. ASSUME NEW h \in HelperResults, create_from_helper(t, h) PROVE EvidenceInv'
  BY <1>1, PrepareEvidence DEF create_from_helper
<1>2. ASSUME NEW p \in DOMAIN proposals, NEW b \in Bodies, edit(t, p, b) PROVE EvidenceInv'
  <2> DEFINE record == [proposals[p] EXCEPT !.body = b, !.revision = @ + 1, !.op = Fresh]
  <2>1. record.op = Fresh
    BY RowTypes DEF Proposal
  <2>2. Prepare(t, "proposal", "edit", p, proposals[p].revision, record, 0)
    BY <1>2 DEF edit
  <2> HIDE DEF record
  <2>3. QED
    BY <2>1, <2>2, PrepareEvidence
<1>3. ASSUME NEW p \in DOMAIN proposals, NEW act, NEW next, transition_proposal(t, p, act, next)
      PROVE  EvidenceInv'
  <2> DEFINE record == [proposals[p] EXCEPT !.state = next, !.revision = @ + 1, !.op = Fresh]
  <2>1. record.op = Fresh
    BY RowTypes DEF Proposal
  <2>2. Prepare(t, "proposal", act, p, proposals[p].revision, record, 0)
    BY <1>3 DEF transition_proposal
  <2> HIDE DEF record
  <2>3. QED
    BY <2>1, <2>2, PrepareEvidence
<1>4. CASE create_from_proposal(t)
  BY <1>4, PrepareEvidence DEF create_from_proposal
<1>5. ASSUME NEW next \in PreviewStates, transition_preview(t, next) PROVE EvidenceInv'
  <2> DEFINE c == calls[t]
             record == [c.rec EXCEPT !.state = next, !.revision = @ + 1, !.op = Fresh]
  <2>1. c.rec \in Preview
    BY <1>5, RowTypes DEF transition_preview, At, CallInv, PreviewCallInv, PreviewTransitions,
       ProposalStates, Call
  <2>2. record.op = Fresh
    BY <2>1 DEF Preview
  <2>3. Prepare(t, "preview", c.act, c.id, c.expected, record, 0)
    BY <1>5 DEF transition_preview
  <2> HIDE DEF record, c
  <2>4. QED
    BY <2>2, <2>3, PrepareEvidence
<1>6. CASE bind(t)
  BY <1>6, PrepareEvidence DEF bind
<1>7. ASSUME NEW b \in Tokens, create_request(t, b) PROVE EvidenceInv'
  BY <1>7, PrepareEvidence DEF create_request
<1>8. ASSUME NEW b \in Tokens \cup {0}, NEW next \in RequestStates, decide(t, b, next)
      PROVE  EvidenceInv'
  <2> DEFINE c == calls[t]
             record == [c.rec EXCEPT !.status = next, !.op = Fresh]
  <2>1. c.rec \in Request
    BY <1>8, RowTypes DEF decide, At, CallInv, DecisionCallInv
  <2>2. record.op = Fresh
    BY <2>1 DEF Request
  <2>3. Prepare(t, "decision", c.act, c.id, c.expected, record, b)
    BY <1>8 DEF decide
  <2> HIDE DEF record, c
  <2>4. QED
    BY <2>2, <2>3, PrepareEvidence
<1>9. QED
  BY <1>1, <1>2, <1>3, <1>4, <1>5, <1>6, <1>7, <1>8

LEMMA ReadSteps ==
    ASSUME EvidenceInv, NEW t,
           \/ \E p \in DOMAIN proposals : read_accepted_proposal(t, p)
           \/ \E v \in DOMAIN previews, act \in {"review", "deny", "withdraw"} :
                 read_preview(t, v, act)
           \/ \E v \in DOMAIN previews : reviewed_preview(t, v)
           \/ \E r \in DOMAIN requests, act \in {"deny", "cancel", "expire"} :
                 read_request(t, r, act)
    PROVE  EvidenceInv'
BY ReadEvidence DEF read_accepted_proposal, read_preview, reviewed_preview, read_request
-----------------------------------------------------------------------------
\* The parts of GaplessHistory.

ProposalHistory ==
    \A p \in DOMAIN proposals :
        /\ {e.revision : e \in Committed("proposal", p)} = 1..proposals[p].revision
        /\ \E e \in Committed("proposal", p) :
              e.op = proposals[p].op /\ e.revision = proposals[p].revision

PreviewHistory ==
    \A v \in DOMAIN previews :
        /\ {e.revision : e \in Committed("preview", v)} = 1..previews[v].revision
        /\ \E e \in Committed("preview", v) :
              e.op = previews[v].op /\ e.revision = previews[v].revision

OneEventEach ==
    \A e, f \in evidence :
        (e.stage = "committed" /\ f.stage = "committed" /\ e.kind = f.kind
            /\ e.id = f.id /\ e.revision = f.revision) => e = f

NoStrayEvents ==
    \A e \in evidence : e.stage = "committed" =>
        /\ e.kind = "proposal" => e.id \in DOMAIN proposals
        /\ e.kind = "preview" => e.id \in DOMAIN previews
        /\ e.kind \in {"request", "decision"} => e.id \in DOMAIN requests

LEMMA GaplessHistoryIs ==
    GaplessHistory <=> ProposalHistory /\ PreviewHistory /\ OneEventEach /\ NoStrayEvents
<1>1. \A e \in evidence :
        (CASE e.kind = "proposal" -> e.id \in DOMAIN proposals
           [] e.kind = "preview" -> e.id \in DOMAIN previews
           [] e.kind \in {"request", "decision"} -> e.id \in DOMAIN requests
           [] OTHER -> TRUE)
        <=> /\ e.kind = "proposal" => e.id \in DOMAIN proposals
            /\ e.kind = "preview" => e.id \in DOMAIN previews
            /\ e.kind \in {"request", "decision"} => e.id \in DOMAIN requests
  OBVIOUS
<1>2. QED
  BY <1>1 DEF GaplessHistory, ProposalHistory, PreviewHistory, OneEventEach, NoStrayEvents

LEMMA GaplessHistoryNext ==
    ASSUME ProposalHistory', PreviewHistory', OneEventEach', NoStrayEvents'
    PROVE  GaplessHistory'
<1>1. \A e \in evidence' : e.stage = "committed" =>
        CASE e.kind = "proposal" -> e.id \in DOMAIN proposals'
          [] e.kind = "preview" -> e.id \in DOMAIN previews'
          [] e.kind \in {"request", "decision"} -> e.id \in DOMAIN requests'
          [] OTHER -> TRUE
  BY DEF NoStrayEvents
<1>2. QED
  BY <1>1 DEF GaplessHistory, ProposalHistory, PreviewHistory, OneEventEach

\* A completion event that is the first of its kind, record and revision keeps
\* the events apart.
LEMMA NewEventApart ==
    ASSUME OneEventEach, NEW e, evidence' = evidence \cup {e},
           \A f \in evidence : ~(/\ f.stage = "committed" /\ e.stage = "committed"
                                 /\ f.kind = e.kind /\ f.id = e.id
                                 /\ f.revision = e.revision /\ f # e)
    PROVE  OneEventEach'
BY DEF OneEventEach

-----------------------------------------------------------------------------
\* Steps that write evidence.

\* An event that completes nothing in a table: announced or authorised, or the
\* completion of a session binding.
LEMMA OtherEventStays ==
    ASSUME IInv, EvidenceInv, UNCHANGED tables, UNCHANGED active,
           NEW e \in Event, evidence' = evidence \cup {e},
           e.stage = "committed" =>
               e.kind = "session" /\ e.id = e.op /\ e.revision = NoRevision
    PROVE  SingleCommits' /\ EvidenceFirst' /\ GaplessHistory'
<1> USE DEF tables
<1>0. ProposalHistory /\ PreviewHistory /\ OneEventEach /\ NoStrayEvents /\ SingleCommits
  BY GaplessHistoryIs DEF EvidenceInv
<1>1. SingleCommits'
  BY <1>0 DEF SingleCommits
<1>2. EvidenceFirst'
  BY RecordsStay, EvidenceFirstIs DEF EvidenceInv, EvidenceFirst
<1>3. \A id : Committed("proposal", id)' = Committed("proposal", id)
      /\ Committed("preview", id)' = Committed("preview", id)
  BY DEF Committed
<1>4. ProposalHistory' /\ PreviewHistory'
  BY <1>0, <1>3 DEF ProposalHistory, PreviewHistory
<1>5. OneEventEach'
  <2>1. ASSUME NEW f \in evidence, f.stage = "committed", e.stage = "committed",
               f.kind = e.kind, f.id = e.id, f.revision = e.revision
        PROVE  f = e
    <3>1. f.op = e.op
      BY <1>0, <2>1 DEF SingleCommits
    <3>2. f \in Event
      BY RowTypes
    <3>3. QED
      BY <2>1, <3>1, <3>2 DEF Event
  <2>2. QED
    BY <1>0, <2>1, NewEventApart
<1>6. NoStrayEvents'
  BY <1>0 DEF NoStrayEvents
<1>7. QED
  BY <1>1, <1>2, <1>4, <1>5, <1>6, GaplessHistoryNext
LEMMA NewEvent ==
    ASSUME NEW op \in Tokens, NEW stage \in Stages, NEW kind \in Kinds, NEW id \in Tokens,
           NEW revision \in Nat, record_event(op, stage, kind, id, revision)
    PROVE  \E e \in Event :
             /\ evidence' = evidence \cup {e}
             /\ e.op = op /\ e.stage = stage /\ e.kind = kind /\ e.id = id
             /\ e.revision = revision
<1> DEFINE e == [op |-> op, stage |-> stage, kind |-> kind, id |-> id, revision |-> revision]
<1>1. e \in Event
  BY DEF Event
<1>2. e.op = op /\ e.stage = stage /\ e.kind = kind /\ e.id = id /\ e.revision = revision
  OBVIOUS
<1>3. evidence' = evidence \cup {e}
  BY DEF record_event
<1> HIDE DEF e
<1>4. QED
  BY <1>1, <1>2, <1>3

LEMMA RecordSteps ==
    ASSUME IInv, EvidenceInv, NEW t \in Threads, record_requested(t) \/ record_authorized(t)
    PROVE  EvidenceInv'
<1>1. t \in DOMAIN calls /\ UNCHANGED tables /\ UNCHANGED active
      /\ calls[t].stage \in {"checked", "requested"}
  BY DEF record_requested, record_authorized, At
<1>2. PICK c \in Call : c = calls[t] /\ CallInv(c) /\ Announced(c)
  BY <1>1, RowTypes DEF EvidenceInv, CallsAnnounced
<1>3. PICK next \in {"requested", "authorized"}, written \in Stages :
        /\ calls' = [calls EXCEPT ![t].stage = next]
        /\ record_event(c.op, written, c.kind, c.id, EventRevision(c))
        /\ next = "requested" => c.stage = "checked" /\ written = "requested"
        /\ next = "authorized" =>
              /\ c.stage = "requested"
              /\ written = IF c.kind = "session" THEN "committed" ELSE "authorized"
  BY <1>2 DEF record_requested, record_authorized, At, Stages
<1>4. c.op \in Tokens /\ c.kind \in Kinds /\ c.id \in Tokens /\ EventRevision(c) \in Nat
  <2>1. c.op \in Tokens /\ c.kind \in Kinds /\ c.id \in Tokens
    BY <1>1, <1>2 DEF CallInv, Call
  <2>2. EventRevision(c) \in Nat
    BY <1>1, <1>2 DEF EventRevision, NoRevision, CallInv, ProposalCallInv, PreviewCallInv,
       Proposal, Preview
  <2>3. QED
    BY <2>1, <2>2
<1>5. PICK e \in Event :
        /\ evidence' = evidence \cup {e}
        /\ e.op = c.op /\ e.stage = written /\ e.kind = c.kind /\ e.id = c.id
        /\ e.revision = EventRevision(c)
  <2>1. PICK revision \in Nat : revision = EventRevision(c)
    BY <1>4
  <2>2. record_event(c.op, written, c.kind, c.id, revision)
    BY <1>3, <2>1
  <2>3. QED
    BY <1>4, <2>1, <2>2, NewEvent
<1>6. PICK d \in Call :
        /\ d = [c EXCEPT !.stage = next]
        /\ d.stage = next /\ d.kind = c.kind /\ d.op = c.op /\ d.id = c.id /\ d.rec = c.rec
  <2>1. [c EXCEPT !.stage = next] \in Call
    BY DEF Call
  <2>2. QED
    BY <2>1 DEF Call
<1>7. SingleCommits' /\ EvidenceFirst' /\ GaplessHistory'
  <2>1. e.stage = "committed" => e.kind = "session" /\ e.id = e.op /\ e.revision = NoRevision
    BY <1>1, <1>2, <1>3, <1>5 DEF Announced, EventRevision
  <2>2. QED
    BY <1>1, <1>5, <2>1, OtherEventStays
<1>8. calls' = Upsert(calls, t, d)
  <2>1. calls \in [DOMAIN calls -> Call]
    BY DEF IInv, TypeOK
  <2>2. QED
    BY <1>1, <1>2, <1>3, <1>6, <2>1 DEF Upsert
<1>9. Announced(d)'
  <2>1. \E f \in evidence' : f.op = c.op /\ f.stage = written
    BY <1>5
  <2>2. next = "authorized" => \E f \in evidence' : f.op = c.op /\ f.stage = "requested"
    BY <1>2, <1>3, <1>5 DEF Announced, Recorded
  <2>3. IF d.kind = "session" THEN d.rec.binding = d.op /\ d.id = d.op ELSE d.rec.op = d.op
    BY <1>1, <1>2, <1>6 DEF Announced
  <2>4. QED
    BY <1>3, <1>6, <2>1, <2>2, <2>3 DEF Announced, Recorded
<1>10. CallsAnnounced'
  <2> SUFFICES ASSUME NEW u \in DOMAIN calls' PROVE Announced(calls[u])'
    BY DEF CallsAnnounced
  <2>1. PICK k : k = calls'[u]
    OBVIOUS
  <2>2. Announced(k)'
    <3>1. CASE u = t
      <4>1. k = d
        BY <1>8, <2>1, <3>1 DEF Upsert
      <4>2. QED
        BY <1>9, <4>1
    <3>2. CASE u # t
      <4>1. u \in DOMAIN calls /\ k = calls[u]
        BY <1>8, <2>1, <3>2 DEF Upsert
      <4>2. Announced(k)
        BY <4>1 DEF EvidenceInv, CallsAnnounced
      <4>3. QED
        BY <1>5, <4>2, RecordsStay
    <3>3. QED
      BY <3>1, <3>2
  <2>3. QED
    BY <2>1, <2>2 DEF Announced, Recorded
<1>11. QED
  BY <1>7, <1>10 DEF EvidenceInv

\* A session taking effect, a failed call, a restart and the clock.
LEMMA OtherEvidence ==
    ASSUME IInv, EvidenceInv,
           \/ \E t \in Threads : raise(t) \/ activate_session(t)
           \/ restart \/ tick \/ UNCHANGED vars
    PROVE  EvidenceInv'
<1>1. UNCHANGED tables /\ UNCHANGED evidence
  BY DEF raise, activate_session, restart, tick, vars, tables
<1>2. CallsAnnounced'
  <2>1. calls \in [DOMAIN calls -> Call]
    BY DEF IInv, TypeOK
  <2>2. \A u \in DOMAIN calls' : u \in DOMAIN calls /\ calls'[u] = calls[u]
    BY <2>1 DEF raise, activate_session, Return, restart, tick, vars
  <2>3. QED
    BY <1>1, <2>2 DEF EvidenceInv, CallsAnnounced, Announced, Recorded
<1>3. CASE active' \in {active, NoSession}
  BY <1>1, <1>2, <1>3, QuietEvidence
<1>4. ASSUME NEW t \in Threads, activate_session(t) PROVE EvidenceInv'
  <2>1. Announced(calls[t]) /\ calls[t].stage = "authorized" /\ calls[t].kind = "session"
        /\ active' = calls[t].rec
    BY <1>4 DEF activate_session, At, EvidenceInv, CallsAnnounced
  <2>2. Recorded(active'.binding, "requested") /\ Recorded(active'.binding, "committed")
    BY <2>1 DEF Announced
  <2>3. EvidenceFirst'
    BY <1>1, <2>2, EvidenceFirstIs DEF EvidenceInv, EvidenceFirst, Recorded, tables
  <2>4. SingleCommits' /\ GaplessHistory'
    BY <1>1 DEF EvidenceInv, SingleCommits, GaplessHistory, Committed, tables
  <2>5. QED
    BY <1>2, <2>3, <2>4 DEF EvidenceInv
<1>5. QED
  BY <1>3, <1>4 DEF raise, restart, tick, vars

-----------------------------------------------------------------------------
\* Commits.  What a commit writes is the next revision of its record, under the
\* token its call announced.

\* The call that commits is gone; what the others announced stays.
LEMMA ReturnAnnounced ==
    ASSUME EvidenceInv, NEW t, Return(t), evidence \subseteq evidence'
    PROVE  CallsAnnounced'
<1> SUFFICES ASSUME NEW u \in DOMAIN calls' PROVE Announced(calls[u])'
  BY DEF CallsAnnounced
<1>1. PICK k : k = calls'[u]
  OBVIOUS
<1>2. u \in DOMAIN calls /\ k = calls[u]
  BY <1>1 DEF Return
<1>3. Announced(k)
  BY <1>2 DEF EvidenceInv, CallsAnnounced
<1>4. Announced(k)'
  BY <1>3, RecordsStay
<1>5. QED
  BY <1>1, <1>4 DEF Announced, Recorded

LEMMA CommitFacts ==
    ASSUME IInv, EvidenceInv, NEW t \in Threads, At(t, "authorized"), calls[t].kind # "session"
    PROVE  /\ calls[t] \in Call /\ CallInv(calls[t]) /\ calls[t].rec.op = calls[t].op
           /\ calls[t].op \in Tokens
           /\ Recorded(calls[t].op, "requested") /\ Recorded(calls[t].op, "authorized")
BY RowTypes DEF At, EvidenceInv, CallsAnnounced, Announced, CallInv

LEMMA CommitProposalEvidence ==
    ASSUME IInv, EvidenceInv, NEW t \in Threads, commit_proposal(t)
    PROVE  EvidenceInv'
<1>1. /\ At(t, "authorized") /\ calls[t].kind = "proposal" /\ Return(t)
      /\ UNCHANGED <<active, issued, now>>
      /\ commit_office_proposal(calls[t].id, calls[t].rec, calls[t].expected)
  BY DEF commit_proposal
<1>2. PICK c \in Call : c = calls[t] /\ CallInv(c) /\ c.rec.op = c.op /\ c.op \in Tokens
                        /\ Recorded(c.op, "requested") /\ Recorded(c.op, "authorized")
  BY <1>1, CommitFacts
<1>3. c.kind = "proposal" /\ c.stage = "authorized" /\ c.rec \in Proposal /\ c.id \in Tokens
  BY <1>1, <1>2 DEF At, CallInv, ProposalCallInv, Call
<1>4. PICK record \in Proposal, id \in Tokens : record = c.rec /\ id = c.id
  BY <1>3
<1>5. /\ RevisionCurrent(proposals, id, c.expected)
      /\ proposals' = Upsert(proposals, id, record)
      /\ UNCHANGED <<previews, requests, results>>
      /\ record_event(record.op, "committed", "proposal", id, record.revision)
  BY <1>1, <1>2, <1>4 DEF commit_office_proposal
<1>6. PICK e \in Event :
        /\ evidence' = evidence \cup {e}
        /\ e.op = record.op /\ e.stage = "committed" /\ e.kind = "proposal" /\ e.id = id
        /\ e.revision = record.revision
  <2>1. record.op \in Tokens /\ record.revision \in Nat
    BY DEF Proposal
  <2>2. "committed" \in Stages /\ "proposal" \in Kinds
    BY DEF Stages, Kinds
  <2>3. QED
    BY <1>5, <2>1, <2>2, NewEvent
<1>7. ProposalHistory /\ PreviewHistory /\ OneEventEach /\ NoStrayEvents /\ SingleCommits
      /\ EvidenceFirst
  BY GaplessHistoryIs DEF EvidenceInv
\* The revision that is written is the next one.
<1>8. /\ id \notin DOMAIN proposals => record.revision = 1
      /\ id \in DOMAIN proposals => record.revision = proposals[id].revision + 1
  BY <1>1, <1>2, <1>3, <1>4, <1>5 DEF CallInv, ProposalCallInv, RevisionCurrent
<1>9. DOMAIN proposals' = DOMAIN proposals \cup {id} /\ proposals'[id] = record
      /\ \A p \in DOMAIN proposals \ {id} : proposals'[p] = proposals[p]
  BY <1>5 DEF Upsert
<1>10. ProposalHistory'
  <2> SUFFICES ASSUME NEW p \in DOMAIN proposals'
               PROVE  /\ {f.revision : f \in Committed("proposal", p)'} = 1..proposals'[p].revision
                      /\ \E f \in Committed("proposal", p)' :
                            f.op = proposals'[p].op /\ f.revision = proposals'[p].revision
    BY DEF ProposalHistory
  <2>1. CASE p # id
    <3>1. Committed("proposal", p)' = Committed("proposal", p)
      BY <1>6, <2>1 DEF Committed
    <3>2. QED
      BY <1>7, <1>9, <2>1, <3>1 DEF ProposalHistory
  <2>2. CASE p = id
    <3>1. Committed("proposal", id)' = Committed("proposal", id) \cup {e}
      BY <1>6 DEF Committed
    <3>2. {f.revision : f \in Committed("proposal", id)'}
            = {f.revision : f \in Committed("proposal", id)} \cup {record.revision}
      BY <1>6, <3>1
    <3>3. CASE id \in DOMAIN proposals
      <4>1. {f.revision : f \in Committed("proposal", id)} = 1..proposals[id].revision
        BY <1>7, <3>3 DEF ProposalHistory
      <4>2. proposals[id].revision \in Nat \ {0}
        BY <3>3, RowTypes DEF Proposal
      <4>3. 1..proposals[id].revision \cup {record.revision} = 1..record.revision
        BY <1>8, <3>3, <4>2
      <4>4. QED
        BY <1>6, <1>9, <2>2, <3>1, <3>2, <4>1, <4>3
    <3>4. CASE id \notin DOMAIN proposals
      <4>1. Committed("proposal", id) = {}
        BY <1>7, <3>4 DEF NoStrayEvents, Committed
      <4>2. {f.revision : f \in Committed("proposal", id)} = {}
        BY <4>1
      <4>3. {record.revision} = 1..record.revision
        BY <1>8, <3>4
      <4>4. QED
        BY <1>6, <1>9, <2>2, <3>1, <3>2, <4>2, <4>3
    <3>5. QED
      BY <3>3, <3>4
  <2>3. QED
    BY <2>1, <2>2
<1>11. PreviewHistory'
  <2>1. \A v : Committed("preview", v)' = Committed("preview", v)
    BY <1>6 DEF Committed
  <2>2. QED
    BY <1>5, <1>7, <2>1 DEF PreviewHistory
<1>12. OneEventEach'
  <2>1. ASSUME NEW f \in evidence, f.stage = "committed", f.kind = "proposal", f.id = id,
               f.revision = record.revision
        PROVE  FALSE
    <3>1. id \in DOMAIN proposals
      BY <1>7, <2>1 DEF NoStrayEvents
    <3>2. f \in Committed("proposal", id)
      BY <2>1 DEF Committed
    <3>3. record.revision \in 1..proposals[id].revision
      BY <1>7, <2>1, <3>1, <3>2 DEF ProposalHistory
    <3>4. proposals[id].revision \in Nat
      BY <3>1, RowTypes DEF Proposal
    <3>5. QED
      BY <1>8, <3>1, <3>3, <3>4
  <2>2. QED
    BY <1>6, <1>7, <2>1, NewEventApart
<1>13. NoStrayEvents' /\ SingleCommits'
  BY <1>5, <1>6, <1>7, <1>9 DEF NoStrayEvents, SingleCommits
<1>14. EvidenceFirst'
  <2>1. Recorded(record.op, "requested")' /\ Recorded(record.op, "authorized")'
        /\ Recorded(record.op, "committed")'
    BY <1>2, <1>4, <1>6 DEF Recorded
  <2>2. FullyRecorded(record.op)'
    BY <2>1 DEF FullyRecorded
  <2>3. \A op : FullyRecorded(op) => FullyRecorded(op)'
    BY <1>6, RecordsStay
  <2>4. \A p \in DOMAIN proposals' : FullyRecorded(proposals[p].op)'
    <3> SUFFICES ASSUME NEW p \in DOMAIN proposals' PROVE FullyRecorded(proposals[p].op)'
      OBVIOUS
    <3>1. PICK op : op = proposals'[p].op
      OBVIOUS
    <3>2. FullyRecorded(op)'
      BY <1>7, <1>9, <2>2, <2>3, <3>1, EvidenceFirstIs
    <3>3. QED
      BY <3>1, <3>2 DEF FullyRecorded, Recorded
  <2>5. QED
    BY <1>1, <1>5, <1>6, <1>7, <2>4 DEF EvidenceFirst, FullyRecorded, Recorded
<1>15. CallsAnnounced'
  BY <1>1, <1>6, ReturnAnnounced
<1>16. QED
  BY <1>10, <1>11, <1>12, <1>13, <1>14, <1>15, GaplessHistoryNext DEF EvidenceInv

LEMMA CommitPreviewEvidence ==
    ASSUME IInv, EvidenceInv, NEW t \in Threads, commit_preview(t)
    PROVE  EvidenceInv'
<1>1. /\ At(t, "authorized") /\ calls[t].kind = "preview" /\ Return(t)
      /\ UNCHANGED <<active, issued, now>>
      /\ commit_office_approval_preview(calls[t].id, calls[t].rec, calls[t].expected)
  BY DEF commit_preview
<1>2. PICK c \in Call : c = calls[t] /\ CallInv(c) /\ c.rec.op = c.op /\ c.op \in Tokens
                        /\ Recorded(c.op, "requested") /\ Recorded(c.op, "authorized")
  BY <1>1, CommitFacts
<1>3. c.kind = "preview" /\ c.stage = "authorized" /\ c.rec \in Preview /\ c.id \in Tokens
  BY <1>1, <1>2 DEF At, CallInv, PreviewCallInv, Call
<1>4. PICK record \in Preview, id \in Tokens : record = c.rec /\ id = c.id
  BY <1>3
<1>5. /\ RevisionCurrent(previews, id, c.expected)
      /\ previews' = Upsert(previews, id, record)
      /\ UNCHANGED <<proposals, requests, results>>
      /\ record_event(record.op, "committed", "preview", id, record.revision)
  BY <1>1, <1>2, <1>4 DEF commit_office_approval_preview
<1>6. PICK e \in Event :
        /\ evidence' = evidence \cup {e}
        /\ e.op = record.op /\ e.stage = "committed" /\ e.kind = "preview" /\ e.id = id
        /\ e.revision = record.revision
  <2>1. record.op \in Tokens /\ record.revision \in Nat
    BY DEF Preview
  <2>2. "committed" \in Stages /\ "preview" \in Kinds
    BY DEF Stages, Kinds
  <2>3. QED
    BY <1>5, <2>1, <2>2, NewEvent
<1>7. PreviewHistory /\ ProposalHistory /\ OneEventEach /\ NoStrayEvents /\ SingleCommits
      /\ EvidenceFirst
  BY GaplessHistoryIs DEF EvidenceInv
\* The revision that is written is the next one.
<1>8. /\ id \notin DOMAIN previews => record.revision = 1
      /\ id \in DOMAIN previews => record.revision = previews[id].revision + 1
  BY <1>1, <1>2, <1>3, <1>4, <1>5 DEF CallInv, PreviewCallInv, RevisionCurrent
<1>9. DOMAIN previews' = DOMAIN previews \cup {id} /\ previews'[id] = record
      /\ \A p \in DOMAIN previews \ {id} : previews'[p] = previews[p]
  BY <1>5 DEF Upsert
<1>10. PreviewHistory'
  <2> SUFFICES ASSUME NEW p \in DOMAIN previews'
               PROVE  /\ {f.revision : f \in Committed("preview", p)'} = 1..previews'[p].revision
                      /\ \E f \in Committed("preview", p)' :
                            f.op = previews'[p].op /\ f.revision = previews'[p].revision
    BY DEF PreviewHistory
  <2>1. CASE p # id
    <3>1. Committed("preview", p)' = Committed("preview", p)
      BY <1>6, <2>1 DEF Committed
    <3>2. QED
      BY <1>7, <1>9, <2>1, <3>1 DEF PreviewHistory
  <2>2. CASE p = id
    <3>1. Committed("preview", id)' = Committed("preview", id) \cup {e}
      BY <1>6 DEF Committed
    <3>2. {f.revision : f \in Committed("preview", id)'}
            = {f.revision : f \in Committed("preview", id)} \cup {record.revision}
      BY <1>6, <3>1
    <3>3. CASE id \in DOMAIN previews
      <4>1. {f.revision : f \in Committed("preview", id)} = 1..previews[id].revision
        BY <1>7, <3>3 DEF PreviewHistory
      <4>2. previews[id].revision \in Nat \ {0}
        BY <3>3, RowTypes DEF Preview
      <4>3. 1..previews[id].revision \cup {record.revision} = 1..record.revision
        BY <1>8, <3>3, <4>2
      <4>4. QED
        BY <1>6, <1>9, <2>2, <3>1, <3>2, <4>1, <4>3
    <3>4. CASE id \notin DOMAIN previews
      <4>1. Committed("preview", id) = {}
        BY <1>7, <3>4 DEF NoStrayEvents, Committed
      <4>2. {f.revision : f \in Committed("preview", id)} = {}
        BY <4>1
      <4>3. {record.revision} = 1..record.revision
        BY <1>8, <3>4
      <4>4. QED
        BY <1>6, <1>9, <2>2, <3>1, <3>2, <4>2, <4>3
    <3>5. QED
      BY <3>3, <3>4
  <2>3. QED
    BY <2>1, <2>2
<1>11. ProposalHistory'
  <2>1. \A v : Committed("proposal", v)' = Committed("proposal", v)
    BY <1>6 DEF Committed
  <2>2. QED
    BY <1>5, <1>7, <2>1 DEF ProposalHistory
<1>12. OneEventEach'
  <2>1. ASSUME NEW f \in evidence, f.stage = "committed", f.kind = "preview", f.id = id,
               f.revision = record.revision
        PROVE  FALSE
    <3>1. id \in DOMAIN previews
      BY <1>7, <2>1 DEF NoStrayEvents
    <3>2. f \in Committed("preview", id)
      BY <2>1 DEF Committed
    <3>3. record.revision \in 1..previews[id].revision
      BY <1>7, <2>1, <3>1, <3>2 DEF PreviewHistory
    <3>4. previews[id].revision \in Nat
      BY <3>1, RowTypes DEF Preview
    <3>5. QED
      BY <1>8, <3>1, <3>3, <3>4
  <2>2. QED
    BY <1>6, <1>7, <2>1, NewEventApart
<1>13. NoStrayEvents' /\ SingleCommits'
  BY <1>5, <1>6, <1>7, <1>9 DEF NoStrayEvents, SingleCommits
<1>14. EvidenceFirst'
  <2>1. Recorded(record.op, "requested")' /\ Recorded(record.op, "authorized")'
        /\ Recorded(record.op, "committed")'
    BY <1>2, <1>4, <1>6 DEF Recorded
  <2>2. FullyRecorded(record.op)'
    BY <2>1 DEF FullyRecorded
  <2>3. \A op : FullyRecorded(op) => FullyRecorded(op)'
    BY <1>6, RecordsStay
  <2>4. \A p \in DOMAIN previews' : FullyRecorded(previews[p].op)'
    <3> SUFFICES ASSUME NEW p \in DOMAIN previews' PROVE FullyRecorded(previews[p].op)'
      OBVIOUS
    <3>1. PICK op : op = previews'[p].op
      OBVIOUS
    <3>2. FullyRecorded(op)'
      BY <1>7, <1>9, <2>2, <2>3, <3>1, EvidenceFirstIs
    <3>3. QED
      BY <3>1, <3>2 DEF FullyRecorded, Recorded
  <2>5. QED
    BY <1>1, <1>5, <1>6, <1>7, <2>4 DEF EvidenceFirst, FullyRecorded, Recorded
<1>15. CallsAnnounced'
  BY <1>1, <1>6, ReturnAnnounced
<1>16. QED
  BY <1>10, <1>11, <1>12, <1>13, <1>14, <1>15, GaplessHistoryNext DEF EvidenceInv

\* A request and its decision have no revisions: each is one event, and the
\* request's status says whether the second was written.
LEMMA CommitRequestEvidence ==
    ASSUME IInv, EvidenceInv, NEW t \in Threads, commit_request(t) \/ commit_decision(t)
    PROVE  EvidenceInv'
<1>1. /\ At(t, "authorized") /\ calls[t].kind \in {"request", "decision"} /\ Return(t)
      /\ UNCHANGED <<active, issued, now, proposals, previews>>
  BY DEF commit_request, commit_decision, commit_office_pending_approval_request,
         commit_office_non_authorizing_approval_decision
<1>2. PICK c \in Call : c = calls[t] /\ CallInv(c) /\ c.rec.op = c.op /\ c.op \in Tokens
                        /\ Recorded(c.op, "requested") /\ Recorded(c.op, "authorized")
  BY <1>1, CommitFacts
<1>3. c.stage = "authorized" /\ c.rec \in Request /\ c.id \in Tokens
  BY <1>1, <1>2 DEF At, CallInv, RequestCallInv, DecisionCallInv, Call
<1>4. PICK record \in Request, id \in Tokens : record = c.rec /\ id = c.id
  BY <1>3
<1>5. PICK kind \in {"request", "decision"} :
        /\ record_event(record.op, "committed", kind, id, NoRevision)
        /\ requests' = Upsert(requests, id, record)
        /\ kind = "request" => id \notin DOMAIN requests /\ UNCHANGED results
        /\ kind = "decision" =>
              /\ id \in DOMAIN requests /\ requests[id].status = "pending_review"
              /\ record.status # "pending_review"
              /\ \E result : result.op = record.op /\ results' = Upsert(results, c.op, result)
  <2>1. CASE commit_request(t)
    BY <1>2, <1>4, <2>1 DEF commit_request, commit_office_pending_approval_request
  <2>2. CASE commit_decision(t)
    <3>1. record.status # "pending_review"
      BY <1>2, <1>3, <1>4, <2>2 DEF commit_decision, CallInv, DecisionCallInv, RequestOutcomes
    <3> DEFINE result == [request |-> c.id, result |-> c.rec.status, approver |-> c.session,
                          decidedAt |-> c.at, op |-> c.op]
    <3>2. result.op = record.op
      BY <1>2, <1>4
    <3>3. commit_office_non_authorizing_approval_decision(id, record, c.op, result, c.expected)
      BY <1>2, <1>4, <2>2 DEF commit_decision
    <3> HIDE DEF result
    <3>4. QED
      BY <3>1, <3>2, <3>3 DEF commit_office_non_authorizing_approval_decision
  <2>3. QED
    BY <2>1, <2>2
<1>6. PICK e \in Event :
        /\ evidence' = evidence \cup {e}
        /\ e.op = record.op /\ e.stage = "committed" /\ e.kind = kind /\ e.id = id
        /\ e.revision = NoRevision
  <2>1. record.op \in Tokens /\ NoRevision \in Nat
    BY DEF Request, NoRevision
  <2>2. "committed" \in Stages /\ kind \in Kinds
    BY DEF Stages, Kinds
  <2>3. QED
    BY <1>5, <2>1, <2>2, NewEvent
<1>7. PreviewHistory /\ ProposalHistory /\ OneEventEach /\ NoStrayEvents /\ SingleCommits
      /\ EvidenceFirst
  BY GaplessHistoryIs DEF EvidenceInv
<1>8. DOMAIN requests' = DOMAIN requests \cup {id} /\ requests'[id] = record
      /\ \A r \in DOMAIN requests \ {id} : requests'[r] = requests[r]
  BY <1>5 DEF Upsert
<1>9. PreviewHistory' /\ ProposalHistory'
  <2>1. \A id2 : Committed("preview", id2)' = Committed("preview", id2)
                 /\ Committed("proposal", id2)' = Committed("proposal", id2)
    BY <1>6 DEF Committed
  <2>2. QED
    BY <1>1, <1>7, <2>1 DEF PreviewHistory, ProposalHistory
<1>10. OneEventEach'
  <2>1. ASSUME NEW f \in evidence, f.stage = "committed", f.kind = kind, f.id = id
        PROVE  FALSE
    BY <1>5, <1>7, <2>1 DEF NoStrayEvents, SingleCommits
  <2>2. QED
    BY <1>6, <1>7, <2>1, NewEventApart
<1>11. NoStrayEvents'
  BY <1>1, <1>5, <1>6, <1>7, <1>8 DEF NoStrayEvents
<1>12. SingleCommits'
  <2> SUFFICES ASSUME NEW f \in evidence', f.stage = "committed"
               PROVE  /\ f.kind = "session" => f.id = f.op /\ f.revision = NoRevision
                      /\ f.kind = "decision" => requests'[f.id].status # "pending_review"
    BY DEF SingleCommits
  <2>1. CASE f = e
    BY <1>5, <1>6, <1>8, <2>1
  <2>2. CASE f # e
    <3>1. f \in evidence
      BY <1>6, <2>2
    <3>2. f.kind = "decision" =>
            f.id \in DOMAIN requests /\ requests[f.id].status # "pending_review"
      BY <1>7, <3>1 DEF NoStrayEvents, SingleCommits
    <3>3. QED
      BY <1>5, <1>7, <1>8, <3>1, <3>2 DEF SingleCommits
  <2>3. QED
    BY <2>1, <2>2
<1>13. EvidenceFirst'
  <2>1. FullyRecorded(record.op)'
    BY <1>2, <1>4, <1>6 DEF FullyRecorded, Recorded
  <2>2. \A op : FullyRecorded(op) => FullyRecorded(op)'
    BY <1>6, RecordsStay
  <2>3. \A r \in DOMAIN requests' : FullyRecorded(requests[r].op)'
    <3> SUFFICES ASSUME NEW r \in DOMAIN requests' PROVE FullyRecorded(requests[r].op)'
      OBVIOUS
    <3>1. PICK op : op = requests'[r].op
      OBVIOUS
    <3>2. FullyRecorded(op)'
      BY <1>7, <1>8, <2>1, <2>2, <3>1, EvidenceFirstIs
    <3>3. QED
      BY <3>1, <3>2 DEF FullyRecorded, Recorded
  <2>4. \A s \in DOMAIN results' : FullyRecorded(results[s].op)'
    <3> SUFFICES ASSUME NEW s \in DOMAIN results' PROVE FullyRecorded(results[s].op)'
      OBVIOUS
    <3>1. PICK op : op = results'[s].op
      OBVIOUS
    <3>2. op = record.op \/ (s \in DOMAIN results /\ op = results[s].op)
      BY <1>5, <3>1 DEF Upsert
    <3>3. FullyRecorded(op)'
      BY <1>7, <2>1, <2>2, <3>2, EvidenceFirstIs
    <3>4. QED
      BY <3>1, <3>3 DEF FullyRecorded, Recorded
  <2>5. QED
    BY <1>1, <1>6, <1>7, <2>3, <2>4 DEF EvidenceFirst, FullyRecorded, Recorded
<1>14. CallsAnnounced'
  BY <1>1, <1>6, ReturnAnnounced
<1>15. QED
  BY <1>9, <1>10, <1>11, <1>12, <1>13, <1>14, GaplessHistoryNext DEF EvidenceInv

LEMMA NextEvidence == IInv /\ EvidenceInv /\ [Next]_vars => EvidenceInv'
<1> SUFFICES ASSUME IInv, EvidenceInv, [Next]_vars PROVE EvidenceInv'
  OBVIOUS
<1>1. ASSUME NEW t \in Threads, Handler(t) PROVE EvidenceInv'
  BY <1>1, PrepareSteps, ReadSteps, RecordSteps, OtherEvidence, CommitProposalEvidence,
     CommitPreviewEvidence, CommitRequestEvidence DEF Handler
<1>2. CASE restart \/ tick \/ UNCHANGED vars
  BY <1>2, OtherEvidence
<1>3. QED
  BY <1>1, <1>2 DEF Next

\* What the calls in flight have announced is in the evidence, in every run.
THEOREM EvidenceInvariance == Spec => []EvidenceInv
BY InitEvidence, NextEvidence, Invariance, PTL DEF Spec

\* Each revision of a proposal or a preview was completed by exactly one event,
\* whichever handlers raced for it and wherever the process stopped
\* (commit_office_proposal, commit_office_approval_preview).
THEOREM HistoryIsGapless == Spec => []GaplessHistory
<1>1. EvidenceInv => GaplessHistory
  BY DEF EvidenceInv
<1>2. QED
  BY <1>1, EvidenceInvariance, PTL

\* Nothing takes effect that was not announced and allowed first (record_event
\* before and after GuardianPolicy.decide).
THEOREM EvidenceComesFirst == Spec => []EvidenceFirst
<1>1. EvidenceInv => EvidenceFirst
  BY DEF EvidenceInv
<1>2. QED
  BY <1>1, EvidenceInvariance, PTL
=============================================================================
