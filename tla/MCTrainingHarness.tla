-------------------------- MODULE MCTrainingHarness --------------------------
(* TrainingHarness with two threads, one task and one ladder to configure.    *)
EXTENDS TrainingHarness, TLC

CONSTANTS manager, executive, owner, routine, elevated, t1, t2

MCRoles == {manager, executive, owner}
MCActionClasses == {routine, elevated}
MCReasonCodes == {"document_not_found", "decision_expired", "unknown"}
MCAliases == [c \in {} |-> c]
MCOverrides ==
    [c \in MCReasonCodes \ {"unknown"} |->
        IF c = "document_not_found" THEN "correctable" ELSE "retry_with_fresh_decision"]
MCDenials == {{"document_not_found"}, {"document_not_found", "unknown"}}
MCFloor == DefaultLadder(manager, executive, owner, routine, elevated)

Rung(role, kind, scope) ==
    [tier |-> NoTier, role |-> role, kind |-> kind, may_permit |-> scope]
\* One that is accepted, and one whose executive may permit less.
MCConfigurable ==
    {<<Rung(manager, "system_manager", {routine}), Rung(executive, "executive", s),
       Rung(owner, "human", {Unbounded})>> : s \in {{routine}, {elevated}}}

Symm == Permutations({t1, t2})
=============================================================================
