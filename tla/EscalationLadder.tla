-------------------------- MODULE EscalationLadder --------------------------
(***************************************************************************)
(* The escalation ladder (runtime/escalation.py): the rungs a denial       *)
(* climbs, what makes a configured ladder acceptable, and how it is        *)
(* walked.  Role labels are customer text, so a role is a member of Roles; *)
(* what a rung may permit is a set of action classes, or Unbounded.        *)
(***************************************************************************)
EXTENDS Naturals, Sequences, FiniteSets

CONSTANTS
    Roles,            \* role labels, compared after strip and casefold
    ActionClasses     \* what a rung may permit

Unbounded == "*"
NoTier == 0           \* a configured rung that does not say which rung it is

TierKinds == {"automated", "system_manager", "executive", "human"}
RequiredKinds == {"system_manager", "executive", "human"}

Scopes == SUBSET (ActionClasses \cup {Unbounded})
Tiers == [tier : Nat, role : Roles, kind : TierKinds, may_permit : Scopes]

Permits(t, class) == Unbounded \in t.may_permit \/ class \in t.may_permit

\* EscalationTier.__post_init__: what one rung must say of itself.
TierAccepted(t) ==
    /\ t.tier >= 1
    /\ t.kind \in TierKinds
    /\ t.may_permit # {}
    /\ Unbounded \in t.may_permit => t.kind = "human"

\* Mutated form: a higher rung may permit less than the one below it.
LadderAccepted_MayNarrow(l) ==
    LET top == l[Len(l)] IN
    /\ l # <<>>
    /\ \A i \in 1..Len(l) : TierAccepted(l[i]) /\ l[i].tier = i
    /\ \A i, j \in 1..Len(l) : l[i].role = l[j].role => i = j
    /\ top.kind = "human" /\ top.may_permit = {Unbounded}
    /\ RequiredKinds \subseteq {l[i].kind : i \in 1..Len(l)}

\* EscalationLadder.__post_init__: a ladder is refused unless it can end.
LadderAccepted(l) ==
    LET top == l[Len(l)] IN
    /\ l # <<>>
    /\ \A i \in 1..Len(l) : TierAccepted(l[i]) /\ l[i].tier = i
    /\ \A i, j \in 1..Len(l) : l[i].role = l[j].role => i = j
    /\ top.kind = "human" /\ top.may_permit = {Unbounded}
    /\ RequiredKinds \subseteq {l[i].kind : i \in 1..Len(l)}
    /\ \A i \in 1..(Len(l) - 1) :
           \/ Unbounded \in l[i + 1].may_permit
           \/ l[i].may_permit \subseteq l[i + 1].may_permit

\* load_ladder: a rung without a number takes its place in the list, and the
\* result is the ladder when it is accepted.
Numbered(raw) ==
    [i \in 1..Len(raw) |->
        IF raw[i].tier = NoTier THEN [raw[i] EXCEPT !.tier = i] ELSE raw[i]]

\* to_dict: the stored form names a rung "escalation_tier", which load_ladder
\* does not read; the number comes back from the rung's place.
Rendered(l) == [i \in 1..Len(l) |-> [l[i] EXCEPT !.tier = NoTier]]

\* Position decides who may defer, never the kind of the rung.
MayDefer(l, n) == n # Len(l)

\* next_tier is refused on the last rung: movement is upward only.
NextTier(l, n) == l[n + 1].tier

\* The lowest rung with authority for a class; the last one when none has.
FirstTierPermitting(l, class) ==
    LET able == {i \in 1..Len(l) : Permits(l[i], class)} IN
    IF able = {} THEN Len(l)
    ELSE CHOOSE i \in able : \A j \in able : i <= j

\* default_ladder: the floor a deployment without a ladder of its own has.
DefaultLadder(manager, executive, operator, routine, elevated) ==
    << [tier |-> 1, role |-> manager, kind |-> "system_manager",
        may_permit |-> {routine}],
       [tier |-> 2, role |-> executive, kind |-> "executive",
        may_permit |-> {routine, elevated}],
       [tier |-> 3, role |-> operator, kind |-> "human",
        may_permit |-> {Unbounded}] >>
=============================================================================
