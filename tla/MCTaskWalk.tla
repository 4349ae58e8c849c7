----------------------------- MODULE MCTaskWalk -----------------------------
(* TaskWalk over every ladder of up to four rungs that a small configuration *)
(* space can describe.                                                       *)
EXTENDS TaskWalk

CONSTANTS manager, executive, owner, director, routine, elevated

MCRoles == {manager, executive, owner, director}
MCActionClasses == {routine, elevated}

MCReasonCodes ==
    {"document_not_found", "document_root_not_configured", "decision_expired",
     "prompt_injection_suspected", "old_name", "unknown"}
MCAliases == [c \in {"old_name"} |-> "prompt_injection_suspected"]
MCOverrides ==
    [c \in MCReasonCodes \ {"old_name", "unknown"} |->
        CASE c = "document_not_found" -> "correctable"
          [] c = "document_root_not_configured" -> "escalatable"
          [] c = "decision_expired" -> "retry_with_fresh_decision"
          [] OTHER -> "forbidden"]

\* No code, one, or two together.
MCAnswers == {s \in SUBSET MCReasonCodes : Cardinality(s) <= 2}

Rung(role, kind, scope) ==
    [tier |-> NoTier, role |-> role, kind |-> kind, may_permit |-> scope]

MCScopes == {{routine}, {elevated}, {routine, elevated}, {Unbounded}}

\* Three or four rungs: a failsafe below the manager, people in the middle, an
\* executive with less authority than the manager, and the like.
MCConfigured ==
    {<<Rung(manager, "system_manager", a), Rung(executive, k, b),
       Rung(owner, "human", {Unbounded})>> :
        a \in MCScopes, b \in MCScopes, k \in {"executive", "human"}}
    \cup
    {<<Rung(manager, "system_manager", a), Rung(executive, "executive", b),
       Rung(director, k, c), Rung(owner, "human", {Unbounded})>> :
        a \in MCScopes, b \in MCScopes, c \in MCScopes, k \in {"automated", "human"}}
=============================================================================
