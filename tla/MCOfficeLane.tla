---------------------------- MODULE MCOfficeLane ----------------------------
(***************************************************************************)
(* An instance of OfficeLane for TLC.  From the empty store the later      *)
(* stages of the lane are only reached with many tokens, so the initial    *)
(* states also include a store that one handler, alone and at clock 0, has *)
(* brought to a later stage: the proposal accepted, its preview reviewed,  *)
(* or the approval request pending, in the process that created it (the    *)
(* session still bound) or after a restart.                                *)
(***************************************************************************)
EXTENDS OfficeLane, TLC

CONSTANTS h1, t1, t2, b1, b2

ThreadSymmetry == Permutations({t1, t2})

\* The three events one successful call leaves behind.
Trail(op, kind, id, revision) ==
    [op: {op}, stage: Stages, kind: {kind}, id: {id}, revision: {revision}]

ProposalTrail == UNION {Trail(i, "proposal", 1, i) : i \in 1..3}
PreviewTrail == UNION {Trail(i, "preview", 4, i - 3) : i \in 4..5}
SessionTrail == {e \in Trail(6, "session", 6, 0) : e.stage # "authorized"}

AcceptedProposal ==
    [source |-> h1, state |-> "accepted_for_future_approval", revision |-> 3,
     body |-> b1, op |-> 3]
ReadyPreview ==
    [proposal |-> 1, proposalRevision |-> 3, proposalHash |-> 3,
     state |-> "preview_ready", revision |-> 1, expiresAt |-> PREVIEW_TTL, op |-> 4]
ReviewedPreview ==
    [ReadyPreview EXCEPT !.state = "reviewed_no_authority", !.revision = 2, !.op = 5]
PendingRequest ==
    [preview |-> 4, previewRevision |-> 2, previewHash |-> 5, task |-> 1,
     requester |-> 6, status |-> "pending_review", expiresAt |-> REQUEST_TTL, op |-> 7]

\* One initial state per stage.  The tokens below the first one to be issued
\* that the store does not use went to calls that failed before their evidence.
StagedInit ==
    /\ calls = <<>> /\ results = <<>> /\ now = 0
    /\ \/ /\ StoreInit /\ active = NoSession /\ issued = 6
       \/ /\ proposals = 1 :> AcceptedProposal /\ previews = <<>> /\ requests = <<>>
          /\ evidence = ProposalTrail
          /\ active = NoSession /\ issued = 7
       \/ /\ proposals = 1 :> AcceptedProposal /\ previews = 4 :> ReviewedPreview
          /\ requests = <<>>
          /\ evidence = ProposalTrail \cup PreviewTrail \cup SessionTrail
          /\ active \in {NoSession, [binding |-> 6, expiresAt |-> SESSION_TTL]}
          /\ issued = 7
       \/ /\ proposals = 1 :> AcceptedProposal /\ previews = 4 :> ReviewedPreview
          /\ requests = 7 :> PendingRequest
          /\ evidence = ProposalTrail \cup PreviewTrail \cup SessionTrail
                        \cup Trail(7, "request", 7, 0)
          /\ active \in {NoSession, [binding |-> 6, expiresAt |-> SESSION_TTL]}
          /\ issued = 7

StagedSpec == StagedInit /\ [][Next]_vars
=============================================================================
