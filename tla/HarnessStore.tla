---------------------------- MODULE HarnessStore ----------------------------
(***************************************************************************)
(* The office tables of HarnessStateStore, the SQLite store behind the     *)
(* operator console: task proposals, approval previews, pending approval   *)
(* requests, approval results, and the harness_events evidence table.      *)
(* Every method takes the store's RLock and runs in one SQLite             *)
(* transaction, so every operator below that has primed variables is one   *)
(* atomic step: a guard that is false is a raised HarnessBoundaryError or  *)
(* an IntegrityError, and the transaction is rolled back.                  *)
(*                                                                         *)
(* Identifiers (uuid4 hex strings) are tokens, issued once each.  A record *)
(* keeps the token of the write that made it in `op': the code embeds that *)
(* token in guardian_decision_id and the evidence references of every      *)
(* record it writes, so two records have the same SHA-256 digest exactly   *)
(* when they were made by the same write.                                  *)
(***************************************************************************)
EXTENDS Naturals

CONSTANTS
    HelperResults,  \* helper results a proposal can be created from
    Bodies,         \* editable content of a proposal (priority, steps)
    MaxTokens       \* bound: number of uuid4 tokens ever issued

ASSUME MaxTokensAssumption == MaxTokens \in Nat

VARIABLES
    proposals,      \* office_task_proposals: token -> record
    previews,       \* office_approval_previews: token -> record
    requests,       \* office_pending_approval_requests: token -> record
    results,        \* office_approval_results: token -> record
    evidence        \* harness_events of the lane, as a set

tables == <<proposals, previews, requests, results>>

Tokens == 1..MaxTokens
NoRevision == 0     \* expected_revision=None

ProposalStates ==
    {"draft", "proposed", "accepted_for_future_approval", "denied", "cancelled"}
PreviewStates == {"preview_ready", "reviewed_no_authority", "denied", "withdrawn"}
RequestStates == {"pending_review", "denied", "cancelled", "expired"}

Proposal == [source: HelperResults, state: ProposalStates, revision: Nat \ {0},
             body: Bodies, op: Tokens]
Preview == [proposal: Tokens, proposalRevision: Nat, proposalHash: Tokens,
            state: PreviewStates, revision: Nat \ {0}, expiresAt: Nat, op: Tokens]
Request == [preview: Tokens, previewRevision: Nat, previewHash: Tokens,
            task: Tokens, requester: Tokens, status: RequestStates,
            expiresAt: Nat, op: Tokens]
Result == [request: Tokens, result: RequestStates, approver: Nat,
           decidedAt: Nat, op: Tokens]

Kinds == {"proposal", "preview", "request", "decision", "session"}
Stages == {"requested", "authorized", "committed"}
Event == [op: Tokens, stage: Stages, kind: Kinds, id: Tokens, revision: Nat]

\* The SHA-256 digest of a record's canonical JSON, collision-free.
Digest(record) == record.op

\* INSERT ... ON CONFLICT(id) DO UPDATE.
Upsert(table, id, record) ==
    [i \in DOMAIN table \cup {id} |-> IF i = id THEN record ELSE table[i]]

StoreInit ==
    /\ proposals = [i \in {} |-> 0]
    /\ previews = [i \in {} |-> 0]
    /\ requests = [i \in {} |-> 0]
    /\ results = [i \in {} |-> 0]
    /\ evidence = {}

-----------------------------------------------------------------------------
\* record_event: one INSERT into harness_events.
record_event(op, stage, kind, id, revision) ==
    evidence' = evidence \cup
        {[op |-> op, stage |-> stage, kind |-> kind, id |-> id, revision |-> revision]}

\* Mutated form: the row only has to exist, its revision is not compared.
RevisionCurrent_Unchecked(table, id, expected) ==
    IF expected = NoRevision THEN id \notin DOMAIN table ELSE id \in DOMAIN table

\* Optimistic concurrency of a revisioned table: a creation needs the id to be
\* absent, a change needs the row to be at the revision the caller read.
RevisionCurrent(table, id, expected) ==
    IF expected = NoRevision
    THEN id \notin DOMAIN table
    ELSE id \in DOMAIN table /\ table[id].revision = expected

commit_office_proposal(id, record, expected) ==
    /\ RevisionCurrent(proposals, id, expected)
    \* source_helper_result_id ... UNIQUE
    /\ \A other \in DOMAIN proposals \ {id} : proposals[other].source # record.source
    /\ record_event(record.op, "committed", "proposal", id, record.revision)
    /\ proposals' = Upsert(proposals, id, record)
    /\ UNCHANGED <<previews, requests, results>>

\* Mutated form: the table lacks its UNIQUE constraint.
commit_office_approval_preview_NotUnique(id, record, expected) ==
    /\ RevisionCurrent(previews, id, expected)
    /\ record_event(record.op, "committed", "preview", id, record.revision)
    /\ previews' = Upsert(previews, id, record)
    /\ UNCHANGED <<proposals, requests, results>>

commit_office_approval_preview(id, record, expected) ==
    /\ RevisionCurrent(previews, id, expected)
    \* source_proposal_id ... UNIQUE
    /\ \A other \in DOMAIN previews \ {id} : previews[other].proposal # record.proposal
    /\ record_event(record.op, "committed", "preview", id, record.revision)
    /\ previews' = Upsert(previews, id, record)
    /\ UNCHANGED <<proposals, requests, results>>

\* Mutated form: only the request id is looked up before the insert.
commit_office_pending_approval_request_IdOnly(id, record) ==
    /\ id \notin DOMAIN requests
    /\ record_event(record.op, "committed", "request", id, NoRevision)
    /\ requests' = Upsert(requests, id, record)
    /\ UNCHANGED <<proposals, previews, results>>

commit_office_pending_approval_request(id, record) ==
    /\ id \notin DOMAIN requests
    /\ \A other \in DOMAIN requests : requests[other].preview # record.preview
    /\ record_event(record.op, "committed", "request", id, NoRevision)
    /\ requests' = Upsert(requests, id, record)
    /\ UNCHANGED <<proposals, previews, results>>

\* Mutated form: the request is left for a later transaction to update.
commit_decision_ResultOnly(id, record, resultId, result, expectedHash) ==
    /\ id \in DOMAIN requests
    /\ Digest(requests[id]) = expectedHash
    /\ requests[id].status = "pending_review"
    /\ \A r \in DOMAIN results : results[r].request # id
    /\ resultId \notin DOMAIN results
    /\ record_event(record.op, "committed", "decision", id, NoRevision)
    /\ results' = Upsert(results, resultId, result)
    /\ UNCHANGED <<proposals, previews, requests>>

\* The result, the request's new status and the completion event in one
\* transaction, after re-checking the request's hash, its status and that no
\* result exists.
commit_office_non_authorizing_approval_decision(id, record, resultId, result, expectedHash) ==
    /\ id \in DOMAIN requests
    /\ Digest(requests[id]) = expectedHash
    /\ requests[id].status = "pending_review"
    /\ \A r \in DOMAIN results : results[r].request # id
    /\ resultId \notin DOMAIN results
    /\ record_event(record.op, "committed", "decision", id, NoRevision)
    /\ results' = Upsert(results, resultId, result)
    /\ requests' = Upsert(requests, id, record)
    /\ UNCHANGED <<proposals, previews>>

StoreTypeOK ==
    /\ DOMAIN proposals \subseteq Tokens /\ proposals \in [DOMAIN proposals -> Proposal]
    /\ DOMAIN previews \subseteq Tokens /\ previews \in [DOMAIN previews -> Preview]
    /\ DOMAIN requests \subseteq Tokens /\ requests \in [DOMAIN requests -> Request]
    /\ DOMAIN results \subseteq Tokens /\ results \in [DOMAIN results -> Result]
    /\ evidence \subseteq Event
=============================================================================
