--------------------------- MODULE TaskWalk_proofs ---------------------------
(***************************************************************************)
(* A task's walk up the escalation ladder, for every ladder that is        *)
(* accepted, every table of dispositions and every answer of the governed  *)
(* path: how many attempts it takes, what never climbs, and what a climb   *)
(* never costs.                                                            *)
(*                                                                         *)
(* OutcomeShape says which of four things route_task_outcome can answer;   *)
(* WalkInv adds to the properties that the attempt about to be made is one *)
(* of the rung it names, and that the scope of the rungs behind the task   *)
(* is within the scope of the one that holds it.                           *)
(***************************************************************************)
EXTENDS TaskWalk, FiniteSetTheorems, TLAPS

(* Arithmetic and the least element, with which the walk is counted. *)

\* The product grows with its factor.
LEMMA Monotone ==
    ASSUME NEW M \in Nat, NEW a \in Nat, NEW b \in Nat, a <= b PROVE M * a <= M * b
  OBVIOUS

\* One rung's attempts more.
LEMMA OneMore ==
    ASSUME NEW M \in Nat, NEW a \in Nat \ {0} PROVE M * (a - 1) + M = M * a
  OBVIOUS

\* The attempts of a walk that made t of them, at attempt a of rung k: one more,
\* and it rests, tries again, or has climbed.
LEMMA Counting ==
    ASSUME NEW M \in Nat \ {0}, NEW n \in Nat, NEW k \in Nat \ {0}, k <= n,
           NEW a \in Nat, a <= M, NEW t \in Nat, t < M * (k - 1) + a
    PROVE  /\ t + 1 <= M * n
           /\ t + 1 < M * (k - 1) + (a + 1)
           /\ t + 1 < M * ((k + 1) - 1) + 1
<1>1. M * (k - 1) \in Nat /\ M * k \in Nat /\ M * n \in Nat
  OBVIOUS
<1>2. M * (k - 1) + M = M * k /\ M * k <= M * n /\ (k + 1) - 1 = k
  BY OneMore, Monotone
<1> DEFINE x == M * (k - 1)
           y == M * k
           z == M * n
<1> HIDE DEF x, y, z
<1>3. x \in Nat /\ y \in Nat /\ z \in Nat /\ x + M = y /\ y <= z /\ t < x + a
  BY <1>1, <1>2 DEF x, y, z
<1>4. t + 1 <= z /\ t + 1 < x + (a + 1) /\ t + 1 < y + 1
  BY <1>3
<1> QED BY <1>2, <1>4 DEF x, y, z

\* Every set of numbers that is not empty has a least one: the segments below
\* its members are finite sets, and strict inclusion of those is well-founded.
LEMMA LeastExists ==
    ASSUME NEW S, S \subseteq Nat, S # {}
    PROVE  \E i \in S : \A j \in S : i <= j
<1> DEFINE Segments == {0..i : i \in S}
<1>1. Segments # {} /\ Segments \subseteq FiniteSubsetsOf(Nat)
  <2> SUFFICES ASSUME NEW i \in S PROVE 0..i \in FiniteSubsetsOf(Nat)
    OBVIOUS
  <2>1. i \in Int /\ 0 \in Int
    OBVIOUS
  <2>2. IsFiniteSet(0..i)
    BY <2>1, FS_Interval
  <2> QED BY <2>2 DEF FiniteSubsetsOf
<1>2. PICK x \in Segments : \A y \in Segments : <<y, x>> \notin StrictSubsetOrdering(Nat)
  <2>1. IsWellFoundedOn(StrictSubsetOrdering(Nat), FiniteSubsetsOf(Nat))
    BY FS_StrictSubsetOrderingWellFounded
  <2> HIDE DEF Segments
  <2> QED BY <1>1, <2>1, WFMin
<1>3. PICK i \in S : x = 0..i
  OBVIOUS
<1>4. ASSUME NEW j \in S, j < i PROVE FALSE
  <2>1. 0..j \in Segments
    OBVIOUS
  <2>2. 0..j \subseteq 0..i /\ 0..j # 0..i
    <3>1. i \in 0..i /\ i \notin 0..j
      BY <1>4
    <3> QED BY <1>4, <3>1
  <2>3. <<0..j, x>> \in StrictSubsetOrdering(Nat)
    BY <1>3, <2>2 DEF StrictSubsetOrdering
  <2> QED BY <1>2, <2>1, <2>3
<1>5. \A j \in S : i <= j
  BY <1>4
<1> QED BY <1>5

-----------------------------------------------------------------------------
(* The ladder. *)

\* Numbering the rungs of a configured ladder gives a ladder.
LEMMA NumberedTyped ==
    ASSUME NEW raw \in Seq(Tiers) PROVE Numbered(raw) \in Seq(Tiers)
<1>1. \A i \in 1..Len(raw) : raw[i] \in Tiers
  OBVIOUS
<1>2. \A i \in 1..Len(raw), t \in Tiers : [t EXCEPT !.tier = i] \in Tiers
  BY DEF Tiers
<1> QED BY <1>1, <1>2 DEF Numbered

\* A rung permits what the rung below it does.
LEMMA RungPermits ==
    ASSUME NEW l \in Seq(Tiers), LadderAccepted(l), NEW i \in 1..(Len(l) - 1), NEW class,
           Permits(l[i], class)
    PROVE  Permits(l[i + 1], class)
  BY DEF LadderAccepted, Permits

\* The last rung permits everything.
LEMMA TopPermits ==
    ASSUME NEW l \in Seq(Tiers), LadderAccepted(l), NEW class
    PROVE  Len(l) \in Nat \ {0} /\ Permits(l[Len(l)], class)
  BY DEF LadderAccepted, Permits

\* FirstTierPermitting is a rung of the ladder that permits the class.
LEMMA FirstTierPermits ==
    ASSUME NEW l \in Seq(Tiers), LadderAccepted(l), NEW class
    PROVE  /\ FirstTierPermitting(l, class) \in 1..Len(l)
           /\ Permits(l[FirstTierPermitting(l, class)], class)
<1> DEFINE able == {i \in 1..Len(l) : Permits(l[i], class)}
<1>1. Len(l) \in able
  BY TopPermits
<1>2. \E i \in able : \A j \in able : i <= j
  <2>1. able \subseteq Nat
    OBVIOUS
  <2> HIDE DEF able
  <2> QED BY <1>1, <2>1, LeastExists
<1>3. FirstTierPermitting(l, class) = CHOOSE i \in able : \A j \in able : i <= j
  BY <1>1 DEF FirstTierPermitting
<1>4. FirstTierPermitting(l, class) \in able
  <2> HIDE DEF able
  <2> QED BY <1>2, <1>3
<1> QED BY <1>4

-----------------------------------------------------------------------------
(* Dispositions and outcomes. *)

\* A code's disposition is one of the four.
LEMMA DispositionTyped ==
    ASSUME NEW code PROVE DenialDisposition(code) \in Dispositions
  BY OverridesAssumption DEF DenialDisposition, Dispositions

\* A denial that is not forbidden has no code that is.
LEMMA ForbiddenWins ==
    ASSUME NEW codes, DispositionForSet(codes) # "forbidden", NEW c \in codes
    PROVE  DenialDisposition(c) # "forbidden"
<1> DEFINE found == {DenialDisposition(d) : d \in codes}
           First(i) == Precedence[i] \in found /\ \A j \in 1..(i - 1) : Precedence[j] \notin found
<1> SUFFICES ASSUME "forbidden" \in found PROVE FALSE
  OBVIOUS
<1>1. Precedence[1] = "forbidden"
  BY DEF Precedence
<1>2. First(1) /\ \A i \in 1..4 : First(i) => i = 1
  <2>1. First(1)
    BY <1>1
  <2>2. ASSUME NEW i \in 1..4, First(i), i # 1 PROVE FALSE
    <3>1. 1 \in 1..(i - 1)
      BY <2>2
    <3> QED BY <1>1, <2>2, <3>1
  <2> QED BY <2>1, <2>2
<1>3. (CHOOSE i \in 1..4 : First(i)) = 1
  <2> HIDE DEF First
  <2> QED BY <1>2
<1>4. DispositionForSet(codes) = Precedence[CHOOSE i \in 1..4 : First(i)]
  BY DEF DispositionForSet
<1> QED BY <1>1, <1>3, <1>4

\* The attempts a rung may make.
OfLadder(a, l) == a.attempt \in 1..MaxAttempts /\ a.tier \in 1..Len(l)

\* An attempt comes to rest, is made again at its rung while attempts are left,
\* or starts anew one rung up under codes none of which is forbidden.
Rests(out) == out.status \in {"completed", "blocked"} /\ out.next = NoAttempt
TriesAgain(out, a) ==
    out.status = "retry" /\ a.attempt < MaxAttempts /\ out.next = NextTry(a)
Climbs(out, a, codes, l) ==
    /\ out.status = "escalated" /\ a.tier < Len(l) /\ out.next = AtTier(a.tier + 1)
    /\ \A c \in codes : DenialDisposition(c) # "forbidden"

\* An escalation climbs, or rests with the person who cannot defer.
LEMMA EscalateShape ==
    ASSUME NEW l \in Seq(Tiers), LadderAccepted(l), NEW a \in Attempts, OfLadder(a, l),
           NEW codes, DispositionForSet(codes) # "forbidden"
    PROVE  Rests(Escalate(a, codes, l)) \/ Climbs(Escalate(a, codes, l), a, codes, l)
<1>1. CASE a.tier = Len(l)
  BY <1>1 DEF Escalate, MayDefer, Outcome, Rests
<1>2. CASE a.tier # Len(l)
  <2>1. a.tier \in Nat /\ a.tier < Len(l) /\ a.tier + 1 \in 1..Len(l)
    BY <1>2 DEF OfLadder
  <2>2. NextTier(l, a.tier) = a.tier + 1
    BY <2>1 DEF NextTier, LadderAccepted
  <2>3. \A c \in codes : DenialDisposition(c) # "forbidden"
    BY ForbiddenWins
  <2> QED BY <1>2, <2>1, <2>2, <2>3 DEF Escalate, MayDefer, Outcome, Climbs
<1> QED BY <1>1, <1>2

\* route_task_outcome answers nothing else.
LEMMA OutcomeShape ==
    ASSUME NEW l \in Seq(Tiers), LadderAccepted(l), NEW a \in Attempts, OfLadder(a, l),
           NEW performed \in BOOLEAN, NEW taught \in BOOLEAN, NEW codes
    PROVE  LET out == RouteTaskOutcome(a, performed, codes, taught, l)
           IN  Rests(out) \/ TriesAgain(out, a) \/ Climbs(out, a, codes, l)
<1> DEFINE out == RouteTaskOutcome(a, performed, codes, taught, l)
           blocked == Outcome("blocked", FALSE, NoTier, NoAttempt)
           completed == Outcome("completed", FALSE, NoTier, NoAttempt)
           d == DispositionForSet(codes)
<1>1. Rests(blocked) /\ Rests(completed)
  BY DEF Rests, Outcome
<1>2. d # "forbidden" =>
        Rests(Escalate(a, codes, l)) \/ Climbs(Escalate(a, codes, l), a, codes, l)
  BY EscalateShape
<1>3. d # "forbidden" =>
        LET again == RetryOrEscalate(a, codes, l)
        IN  Rests(again) \/ TriesAgain(again, a) \/ Climbs(again, a, codes, l)
  BY <1>2 DEF RetryOrEscalate, TriesAgain, Outcome
<1>4. \/ out = blocked \/ out = completed
      \/ d # "forbidden" /\ out \in {Escalate(a, codes, l), RetryOrEscalate(a, codes, l)}
  BY DEF RouteTaskOutcome
<1> HIDE DEF out, blocked, completed, d
<1> QED BY <1>1, <1>2, <1>3, <1>4 DEF out

-----------------------------------------------------------------------------
(* The walk. *)

\* What a rung behind the task permits, its own rung permits.
AuthorityGrows ==
    \A class \in ActionClasses, i \in 1..at.tier :
        Permits(ladder[i], class) => Permits(ladder[at.tier], class)

WalkInv ==
    /\ WalkTypeOK
    /\ LadderAccepted(ladder)
    /\ ~Resting => OfLadder(at, ladder) /\ AuthorityGrows
    /\ AttemptsBounded
    /\ ForbiddenNeverClimbs

LEMMA InitWalk == WalkInit => WalkInv
<1> SUFFICES ASSUME WalkInit PROVE WalkInv
  OBVIOUS
<1>1. ladder \in Seq(Tiers) /\ LadderAccepted(ladder)
  BY ConfiguredAssumption, NumberedTyped DEF WalkInit
<1>2. at = [attempt |-> 1, tier |-> 1] /\ tries = 0 /\ ~Resting
  BY DEF WalkInit, AtTier, Resting, NoAttempt
<1>3. OfLadder(at, ladder)
  BY <1>1, <1>2, TopPermits, MaxAttemptsAssumption DEF OfLadder
<1>4. WalkTypeOK
  BY <1>1, <1>2 DEF WalkInit, WalkTypeOK, Attempts, TaskStatuses, NoDenial
<1>5. AuthorityGrows
  BY <1>2 DEF AuthorityGrows
<1>6. AttemptsBounded
  BY <1>2, MaxAttemptsAssumption DEF AttemptsBounded
<1>7. ForbiddenNeverClimbs
  BY DEF WalkInit, ForbiddenNeverClimbs
<1> QED BY <1>1, <1>3, <1>4, <1>5, <1>6, <1>7 DEF WalkInv

\* What an attempt leaves, by the shape of its outcome.
LEMMA AttemptWalks ==
    ASSUME WalkInv, NEW performed \in BOOLEAN, NEW taught \in BOOLEAN, NEW codes \in Answers,
           Attempt(performed, codes, taught)
    PROVE  WalkInv'
<1> DEFINE out == RouteTaskOutcome(at, performed, codes, taught, ladder)
<1>1. /\ ~Resting /\ at \in Attempts /\ OfLadder(at, ladder)
      /\ ladder' = ladder /\ ladder \in Seq(Tiers) /\ LadderAccepted(ladder)
      /\ tries \in Nat /\ tries' = tries + 1
      /\ at' = out.next /\ status' = out.status
      /\ climbed' = climbed \cup (IF out.status = "escalated" THEN codes ELSE {})
      /\ codes \subseteq ReasonCodes
      /\ denial' = [performed |-> performed, codes |-> codes]
  BY AnswersAssumption DEF Attempt, WalkInv, WalkTypeOK, Resting
<1>2. Rests(out) \/ TriesAgain(out, at) \/ Climbs(out, at, codes, ladder)
  BY <1>1, OutcomeShape
<1> HIDE DEF out
<1>3. /\ at.attempt \in Nat \ {0} /\ at.attempt <= MaxAttempts /\ MaxAttempts \in Nat \ {0}
      /\ at.tier \in Nat \ {0} /\ at.tier <= Len(ladder) /\ Len(ladder) \in Nat
      /\ tries < MaxAttempts * (at.tier - 1) + at.attempt
  BY <1>1, MaxAttemptsAssumption DEF WalkInv, AttemptsBounded, OfLadder
<1>4. /\ tries + 1 <= MaxAttempts * Len(ladder)
      /\ tries + 1 < MaxAttempts * (at.tier - 1) + (at.attempt + 1)
      /\ tries + 1 < MaxAttempts * ((at.tier + 1) - 1) + 1
  BY <1>1, <1>3, Counting
<1>5. /\ status' \in TaskStatuses \cup {"new"}
      /\ denial' \in [performed : BOOLEAN, codes : SUBSET ReasonCodes]
      /\ climbed' \subseteq ReasonCodes /\ tries' \in Nat
  <2>1. climbed \subseteq ReasonCodes
    BY DEF WalkInv, WalkTypeOK
  <2> QED BY <1>1, <1>2, <2>1 DEF Rests, TriesAgain, Climbs, TaskStatuses
<1>6. CASE Rests(out)
  <2>1. at' = NoAttempt /\ climbed' = climbed
    BY <1>1, <1>6 DEF Rests
  <2>2. WalkTypeOK'
    BY <1>1, <1>5, <2>1 DEF WalkTypeOK, Attempts, NoAttempt
  <2>3. Resting'
    BY <2>1 DEF Resting
  <2>4. AttemptsBounded'
    BY <1>4, <1>1, <2>3 DEF AttemptsBounded
  <2>5. ForbiddenNeverClimbs'
    BY <2>1 DEF WalkInv, ForbiddenNeverClimbs
  <2> QED BY <1>1, <2>2, <2>3, <2>4, <2>5 DEF WalkInv
<1>7. CASE TriesAgain(out, at)
  <2>1. at' = [attempt |-> at.attempt + 1, tier |-> at.tier] /\ climbed' = climbed
    BY <1>1, <1>7 DEF TriesAgain, NextTry, Attempts
  <2>2. at.attempt + 1 \in 1..MaxAttempts
    BY <1>3, <1>7 DEF TriesAgain
  <2>3. WalkTypeOK' /\ ~Resting' /\ OfLadder(at, ladder)'
    BY <1>1, <1>3, <1>5, <2>1, <2>2 DEF WalkTypeOK, Attempts, NoAttempt, Resting, OfLadder
  <2>4. AttemptsBounded'
    BY <1>4, <1>1, <2>1, <2>3 DEF AttemptsBounded
  <2>5. AuthorityGrows'
    BY <1>1, <2>1 DEF WalkInv, AuthorityGrows
  <2>6. ForbiddenNeverClimbs'
    BY <2>1 DEF WalkInv, ForbiddenNeverClimbs
  <2> QED BY <1>1, <2>3, <2>4, <2>5, <2>6 DEF WalkInv
<1>8. CASE Climbs(out, at, codes, ladder)
  <2>1. /\ at' = [attempt |-> 1, tier |-> at.tier + 1] /\ climbed' = climbed \cup codes
        /\ at.tier < Len(ladder)
    BY <1>1, <1>8 DEF Climbs, AtTier
  <2>2. WalkTypeOK' /\ ~Resting' /\ OfLadder(at, ladder)'
    BY <1>1, <1>3, <1>5, <2>1 DEF WalkTypeOK, Attempts, NoAttempt, Resting, OfLadder
  <2>3. AttemptsBounded'
    BY <1>4, <1>1, <2>1, <2>2 DEF AttemptsBounded
  <2>4. AuthorityGrows'
    <3> SUFFICES ASSUME NEW class \in ActionClasses, NEW i \in 1..(at.tier + 1),
                        Permits(ladder[i], class)
                 PROVE  Permits(ladder[at.tier + 1], class)
      BY <1>1, <2>1 DEF AuthorityGrows
    <3>1. CASE i = at.tier + 1
      BY <3>1
    <3>2. CASE i # at.tier + 1
      <4> DEFINE k == at.tier
      <4>1. i \in 1..at.tier /\ at.tier \in 1..(Len(ladder) - 1)
        <5>1. k \in Nat \ {0} /\ k < Len(ladder) /\ Len(ladder) \in Nat /\ i \in 1..(k + 1)
              /\ i # k + 1
          BY <1>3, <2>1, <3>2
        <5> HIDE DEF k
        <5>2. i \in 1..k /\ k \in 1..(Len(ladder) - 1)
          BY <5>1
        <5> QED BY <5>2 DEF k
      <4>2. Permits(ladder[at.tier], class)
        BY <1>1, <4>1 DEF WalkInv, AuthorityGrows
      <4> QED BY <1>1, <4>1, <4>2, RungPermits
    <3> QED BY <3>1, <3>2
  <2>5. ForbiddenNeverClimbs'
    <3> SUFFICES ASSUME NEW c \in codes
                 PROVE  \E k \in DOMAIN Overrides :
                            /\ k = c \/ (c \in DOMAIN Aliases /\ Aliases[c] = k)
                            /\ Overrides[k] # "forbidden"
      BY <2>1 DEF WalkInv, ForbiddenNeverClimbs
    <3>1. DenialDisposition(c) # "forbidden"
      BY <1>8 DEF Climbs
    <3> QED BY <3>1 DEF DenialDisposition, Canonical
  <2> QED BY <1>1, <2>2, <2>3, <2>4, <2>5 DEF WalkInv
<1> QED BY <1>2, <1>6, <1>7, <1>8

LEMMA NextWalk == WalkInv /\ [AnAttempt]_walkVars => WalkInv'
<1> SUFFICES ASSUME WalkInv, [AnAttempt]_walkVars PROVE WalkInv'
  OBVIOUS
<1>1. CASE AnAttempt
  BY <1>1, AttemptWalks DEF AnAttempt
<1>2. CASE UNCHANGED walkVars
  BY <1>2 DEF walkVars, WalkInv, WalkTypeOK, Resting, OfLadder, AuthorityGrows, AttemptsBounded,
              ForbiddenNeverClimbs
<1> QED BY <1>1, <1>2

\* The invariant of every walk.
THEOREM WalkInvariance == WalkSpec => []WalkInv
<1> QED BY InitWalk, NextWalk, PTL DEF WalkSpec

\* A walk makes at most max_attempts attempts for each rung it used, and the
\* state of a task is always one of its type (run_to_rest).
THEOREM WalksAreBounded == WalkSpec => [](WalkTypeOK /\ AttemptsBounded)
<1>1. WalkInv => WalkTypeOK /\ AttemptsBounded
  BY DEF WalkInv
<1> QED BY <1>1, WalkInvariance, PTL

\* No table of aliases and dispositions lets a forbidden or unknown code take a
\* task up a rung (denial_disposition_for_set).
THEOREM ForbiddenStays == WalkSpec => []ForbiddenNeverClimbs
<1>1. WalkInv => ForbiddenNeverClimbs
  BY DEF WalkInv
<1> QED BY <1>1, WalkInvariance, PTL

\* On every accepted ladder the rung that holds a task permits what a rung it
\* passed permits, so a climb never loses what first_tier_permitting found.
THEOREM ClimbsKeepAuthority == WalkSpec => []AuthorityNeverLost
<1>1. ASSUME WalkInv PROVE AuthorityNeverLost
  <2> SUFFICES ASSUME ~Resting, NEW class \in ActionClasses,
                      FirstTierPermitting(ladder, class) <= at.tier
               PROVE  Permits(ladder[at.tier], class)
    BY DEF AuthorityNeverLost
  <2>1. ladder \in Seq(Tiers) /\ LadderAccepted(ladder) /\ OfLadder(at, ladder) /\ AuthorityGrows
    BY <1>1 DEF WalkInv, WalkTypeOK
  <2>2. /\ FirstTierPermitting(ladder, class) \in 1..at.tier
        /\ Permits(ladder[FirstTierPermitting(ladder, class)], class)
    BY <2>1, FirstTierPermits DEF OfLadder
  <2> QED BY <2>1, <2>2 DEF AuthorityGrows
<1> QED BY <1>1, WalkInvariance, PTL
=============================================================================
