------------------------------ MODULE TaskWalk ------------------------------
(***************************************************************************)
(* A task walked from its first attempt to rest (task_outcome.run_to_rest  *)
(* and the callers of route_task_outcome that pass an instruction).  Each  *)
(* step is one governed attempt whose answer is any the governed path can  *)
(* return: done, a denial with reason codes, both at once, or neither.     *)
(***************************************************************************)
EXTENDS TaskOutcome

CONSTANTS
    Configured,       \* ladders as configuration offers them, rungs unnumbered
    Answers           \* the sets of reason codes an answer may carry

ASSUME ConfiguredAssumption == Configured \subseteq Seq(Tiers)
ASSUME AnswersAssumption == Answers \subseteq SUBSET ReasonCodes

VARIABLES
    ladder,           \* the ladder in force
    at,               \* the attempt about to be made, or NoAttempt at rest
    status,           \* the last outcome, "new" before the first one
    denial,           \* what the last answer said
    climbed,          \* reason codes that took the task a rung up
    tries             \* attempts made in all, over every rung

walkVars == <<ladder, at, status, denial, climbed, tries>>

NoDenial == [performed |-> FALSE, codes |-> {}]

WalkInit ==
    /\ \E raw \in Configured :
           LadderAccepted(Numbered(raw)) /\ ladder = Numbered(raw)
    /\ at = AtTier(1)
    /\ status = "new"
    /\ denial = NoDenial
    /\ climbed = {}
    /\ tries = 0

\* Mutated form: the attempt of the last rung is left to the person and is
\* never made.
Attempt_NotAtPerson(performed, codes, taught) ==
    LET out == RouteTaskOutcome(at, performed, codes, taught, ladder) IN
    /\ at # NoAttempt /\ MayDefer(ladder, at.tier)
    /\ at' = out.next
    /\ status' = out.status
    /\ denial' = [performed |-> performed, codes |-> codes]
    /\ climbed' = climbed \cup (IF out.status = "escalated" THEN codes ELSE {})
    /\ tries' = tries + 1
    /\ UNCHANGED ladder

\* One attempt, its answer, and what route_task_outcome makes of it.
Attempt(performed, codes, taught) ==
    LET out == RouteTaskOutcome(at, performed, codes, taught, ladder) IN
    /\ at # NoAttempt
    /\ at' = out.next
    /\ status' = out.status
    /\ denial' = [performed |-> performed, codes |-> codes]
    /\ climbed' = climbed \cup (IF out.status = "escalated" THEN codes ELSE {})
    /\ tries' = tries + 1
    /\ UNCHANGED ladder

AnAttempt ==
    \E performed, taught \in BOOLEAN, codes \in Answers : Attempt(performed, codes, taught)

WalkSpec == WalkInit /\ [][AnAttempt]_walkVars /\ WF_walkVars(AnAttempt)

-----------------------------------------------------------------------------

WalkTypeOK ==
    /\ ladder \in Seq(Tiers)
    /\ at \in Attempts
    /\ status \in TaskStatuses \cup {"new"}
    /\ denial \in [performed : BOOLEAN, codes : SUBSET ReasonCodes]
    /\ climbed \subseteq ReasonCodes
    /\ tries \in Nat

Resting == at = NoAttempt

\* A rung starts its attempts anew, so the number of attempts is not bounded by
\* max_attempts alone: over the whole walk there are at most max_attempts for
\* each rung already used, whatever the mix of aged decisions and denials.
AttemptsBounded ==
    IF Resting THEN tries <= MaxAttempts * Len(ladder)
    ELSE tries < MaxAttempts * (at.tier - 1) + at.attempt

\* A code nobody may permit, or nobody has classified, never takes a task to a
\* higher rung, not even hidden among codes that may climb or under an alias.
ForbiddenNeverClimbs ==
    \A c \in climbed :
        \E k \in DOMAIN Overrides :
            /\ k = c \/ (c \in DOMAIN Aliases /\ Aliases[c] = k)
            /\ Overrides[k] # "forbidden"

\* A climb never costs authority: what some rung below could have permitted,
\* the rung that holds the task now can permit too.
AuthorityNeverLost ==
    ~Resting =>
        \A class \in ActionClasses :
            FirstTierPermitting(ladder, class) <= at.tier => Permits(ladder[at.tier], class)

\* Retries, climbs and fresh starts end: every walk comes to rest.
RestsEventually == <>Resting
=============================================================================
