---------------------------- MODULE TaskOutcome ----------------------------
(***************************************************************************)
(* What happens to a task after one governed attempt (task_outcome.py),    *)
(* with the disposition of a denial (taxonomy.py) and the SOP gap it       *)
(* leaves behind (sop.py).  Pure: an attempt and an answer in, an outcome  *)
(* out.  Reason codes are members of ReasonCodes; the registry's table of  *)
(* them is a constant function.                                            *)
(***************************************************************************)
EXTENDS EscalationLadder

CONSTANTS
    ReasonCodes,      \* every code an answer may carry, known or not
    Aliases,          \* alias -> canonical code
    Overrides,        \* canonical code -> disposition; the rest are forbidden
    MaxAttempts       \* max_attempts, DEFAULT_MAX_ATTEMPTS in the code

ASSUME MaxAttemptsAssumption == MaxAttempts \in Nat \ {0}

Dispositions ==
    {"forbidden", "escalatable", "correctable", "retry_with_fresh_decision"}

\* DENIAL_DISPOSITION_OVERRIDES names dispositions only.
ASSUME OverridesAssumption == Overrides \in [DOMAIN Overrides -> Dispositions]

\* Mutated form: the most lenient disposition of a mixed denial wins.
Precedence_LenientFirst ==
    <<"correctable", "retry_with_fresh_decision", "escalatable", "forbidden">>

\* Most restrictive first (DENIAL_DISPOSITION_PRECEDENCE).
Precedence ==
    <<"forbidden", "escalatable", "retry_with_fresh_decision", "correctable">>

\* get_reason_code_metadata: what a code is called in the registry.
Canonical(code) == IF code \in DOMAIN Aliases THEN Aliases[code] ELSE code

\* Nobody may permit what nobody has classified.
DenialDisposition(code) ==
    IF Canonical(code) \in DOMAIN Overrides THEN Overrides[Canonical(code)]
    ELSE "forbidden"

\* The most restrictive disposition among the codes; no code is forbidden.
DispositionForSet(codes) ==
    LET found == {DenialDisposition(c) : c \in codes} IN
    IF found = {} THEN "forbidden"
    ELSE Precedence[CHOOSE i \in 1..4 :
            Precedence[i] \in found /\ \A j \in 1..(i - 1) : Precedence[j] \notin found]

\* The safety boundary of the training loop (sop.is_teachable).
IsTeachable(codes) ==
    codes # {} /\ DispositionForSet(codes) \in {"correctable", "escalatable"}

TaskStatuses == {"completed", "retry", "escalated", "blocked"}
Attempts == [attempt : Nat, tier : Nat]
NoAttempt == [attempt |-> 0, tier |-> 0]

NextTry(a) == [a EXCEPT !.attempt = @ + 1]
\* A new rung has not tried yet: its attempts start anew.
AtTier(t) == [attempt |-> 1, tier |-> t]

\* gap_from_denial: nothing for a denial that is not teachable; else an open
\* gap observed from an escalation, without an instruction.
GapFromDenial(codes) == IsTeachable(codes)

Outcome(status, gap, gapTier, next) ==
    [status |-> status, gap |-> gap, gapTier |-> gapTier, next |-> next]

\* _escalate: to the next rung, or to rest with the person who cannot defer.
Escalate(a, codes, l) ==
    IF MayDefer(l, a.tier)
    THEN Outcome("escalated", GapFromDenial(codes), NextTier(l, a.tier),
                 AtTier(NextTier(l, a.tier)))
    ELSE Outcome("blocked", GapFromDenial(codes), NoTier, NoAttempt)

\* Mutated form: the attempt that reaches the bound is tried once more.
RetryOrEscalate_OneMore(a, codes, l) ==
    IF a.attempt <= MaxAttempts
    THEN Outcome("retry", GapFromDenial(codes), NoTier, NextTry(a))
    ELSE Escalate(a, codes, l)

\* The two branches that try again at the same rung while attempts are left.
RetryOrEscalate(a, codes, l) ==
    IF a.attempt < MaxAttempts
    THEN Outcome("retry", GapFromDenial(codes), NoTier, NextTry(a))
    ELSE Escalate(a, codes, l)

\* route_task_outcome, branch by branch.  taught: an instruction is known for
\* the task and capability.
RouteTaskOutcome(a, performed, codes, taught, l) ==
    CASE performed /\ codes = {} -> Outcome("completed", FALSE, NoTier, NoAttempt)
      [] performed /\ codes # {} -> Outcome("blocked", FALSE, NoTier, NoAttempt)
      [] ~performed /\ codes = {} -> Outcome("blocked", FALSE, NoTier, NoAttempt)
      [] ~performed /\ codes # {} ->
           LET d == DispositionForSet(codes) IN
           CASE d = "forbidden" -> Outcome("blocked", FALSE, NoTier, NoAttempt)
             [] d = "retry_with_fresh_decision" -> RetryOrEscalate(a, codes, l)
             [] d = "correctable" /\ taught -> RetryOrEscalate(a, codes, l)
             [] OTHER -> Escalate(a, codes, l)
=============================================================================
