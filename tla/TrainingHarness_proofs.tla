------------------------ MODULE TrainingHarness_proofs ------------------------
(***************************************************************************)
(* The training harness, for every set of threads, tasks and ladders, and  *)
(* any number of requests and faults.                                      *)
(*                                                                         *)
(* The harness lock is what the properties stand on: a thread is at one of *)
(* LockedSteps exactly while it holds the lock, so what its mode check and *)
(* its first reads established (StepHolds) is still true at its last       *)
(* write.  HarnessInv adds what a step in progress has written and not yet *)
(* counted: a gap without its metric, a decision without its event.        *)
(***************************************************************************)
EXTENDS TrainingHarness, FiniteSetTheorems, SequenceTheorems, TLAPS

LockedSteps ==
    {"event", "modeEvent", "gap", "metric", "routed", "instruct", "save", "practise",
     "ask", "review", "decision"}

(* The steps a thread can be at, with what each carries. *)

PlainSteps ==
    {At(s) : s \in {"idle", "event", "modeEvent", "modeReturn", "clear", "buffer",
                    "decision", "draft", "drafting", "draftEvent"}}
AnyCodes == LET known == Denials \cup {{}} IN known \cup {c \cup {Malformed} : c \in known}
AnyIds == [task : Tasks, capability : {Read, List}, codes : AnyCodes]
GapRecords ==
    [status : {"open", "instructed", "retired"}, source : {"escalation", "operator_authored"},
     tier : Nat]
RoutedSteps ==
    [at : {"gap", "metric", "routed"}, id : AnyIds, tier : Nat, completed : BOOLEAN,
     content : BOOLEAN]
InstructSteps == [at : {"instruct"}, id : GapIds, record : GapRecords]
SaveSteps == [at : {"save"}, to : Seq(Tiers)]
PractiseSteps == [at : {"practise"}, left : Seq(Nat), suite : BOOLEAN]
ReviewSteps == [at : {"ask", "review"}, attempt : Nat, approved : BOOLEAN]
Steps ==
    PlainSteps \cup RoutedSteps \cup InstructSteps \cup SaveSteps \cup PractiseSteps
    \cup ReviewSteps

Locked(d) == d.at \in LockedSteps
Lockholders == \A t \in Threads : holder = t <=> Locked(doing[t])

\* A ladder that is accepted and comes back from the store as it was.
Storable(l) == LadderAccepted(l) /\ Numbered(Rendered(l)) = l

\* What still holds of the step d of the thread that holds the lock, given the
\* gaps, the attempts and their reviews.
StepHolds(d, gs, attempts, revs) ==
    /\ d.at = "gap" => d.id \in GapIds /\ ~d.completed
    /\ d.at = "instruct" =>
          \/ d.record.source = "operator_authored"
          \/ d.id \in DOMAIN gs /\ gs[d.id].source = d.record.source
    /\ d.at = "save" => Storable(d.to)
    /\ d.at = "practise" => d.left # <<>>
    /\ d.at \in {"ask", "review"} =>
          d.attempt \in 1..Len(attempts) /\ d.attempt \notin DOMAIN revs

HolderHolds == \A t \in Threads : holder = t => StepHolds(doing[t], gaps, practised, reviews)

Control ==
    /\ holder \in Threads \cup {NoThread}
    /\ doing \in [Threads -> Steps]
    /\ Lockholders
    /\ HolderHolds

Summaries == [scenario : Nat, passed : BOOLEAN, issues : SUBSET FormFields]

Data ==
    /\ mode \in {"training", "working"}
    /\ ladder \in Seq(Tiers) /\ setting \in Seq(Tiers) /\ LadderSurvivesRestart
    /\ docs \in Seq(Threads) /\ Len(docs) <= MaxBuffers
    /\ DOMAIN gaps \subseteq GapIds /\ IsFiniteSet(DOMAIN gaps)
    /\ \A id \in DOMAIN gaps : gaps[id] \in GapRecords
    /\ practised \in Seq(Summaries)
    /\ DOMAIN reviews \subseteq 1..Len(practised) /\ reviewAsked \subseteq 1..Len(practised)
    /\ alone \in Nat /\ short \in Nat /\ routed \in Nat /\ faults \in Nat
    /\ decided \in Nat /\ decidedEv \in Nat

\* A read whose gap may be stored while its metric is not, and a decision that
\* is recorded while its event is not.
Uncounted == \E t \in Threads : doing[t].at = "metric" /\ ~doing[t].completed
Unevidenced == \E t \in Threads : doing[t].at = "decision"

Progress == Cardinality(Observed) <= short + faults + IF Uncounted THEN 1 ELSE 0
Decisions ==
    /\ decidedEv + (IF Unevidenced THEN 1 ELSE 0) <= decided
    /\ decided <= decidedEv + faults + IF Unevidenced THEN 1 ELSE 0

HarnessInv == Control /\ Data /\ Progress /\ Decisions

-----------------------------------------------------------------------------
(* Ladders and outcomes. *)

\* Numbering the rungs of a configured ladder gives a ladder.
LEMMA NumberedTyped ==
    ASSUME NEW raw \in Seq(Tiers) PROVE Numbered(raw) \in Seq(Tiers)
<1>1. \A i \in 1..Len(raw) : raw[i] \in Tiers
  OBVIOUS
<1>2. \A i \in 1..Len(raw), t \in Tiers : [t EXCEPT !.tier = i] \in Tiers
  BY DEF Tiers
<1> QED BY <1>1, <1>2 DEF Numbered

\* The stored form of an accepted ladder is a ladder without numbers, and its
\* numbers come back from the places.
LEMMA AcceptedStorable ==
    ASSUME NEW l \in Seq(Tiers), LadderAccepted(l)
    PROVE  Storable(l) /\ Rendered(l) \in Seq(Tiers) /\ Rendered(l) # NoLadder
<1>1. /\ Len(l) \in Nat /\ l = [i \in 1..Len(l) |-> l[i]] /\ Len(l) # 0
      /\ \A i \in 1..Len(l) : l[i] \in Tiers /\ l[i].tier = i
  BY DEF LadderAccepted
<1>2. \A t \in Tiers :
        /\ [t EXCEPT !.tier = NoTier] \in Tiers
        /\ [t EXCEPT !.tier = NoTier].tier = NoTier
        /\ [[t EXCEPT !.tier = NoTier] EXCEPT !.tier = t.tier] = t
  BY DEF Tiers, NoTier
<1>3. /\ Rendered(l) \in Seq(Tiers) /\ Len(Rendered(l)) = Len(l)
      /\ \A i \in 1..Len(l) : Rendered(l)[i] = [l[i] EXCEPT !.tier = NoTier]
  <2> DEFINE F == [i \in 1..Len(l) |-> [l[i] EXCEPT !.tier = NoTier]]
  <2>1. \A i \in 1..Len(l) : [l[i] EXCEPT !.tier = NoTier] \in Tiers
    BY <1>1, <1>2
  <2>2. F \in [1..Len(l) -> Tiers]
    BY <2>1
  <2>3. DOMAIN F = 1..Len(l) /\ \A i \in 1..Len(l) : F[i] = [l[i] EXCEPT !.tier = NoTier]
    OBVIOUS
  <2>4. F = Rendered(l)
    BY DEF Rendered
  <2> HIDE DEF F
  <2>5. F \in Seq(Tiers) /\ Len(F) = Len(l)
    BY <1>1, <2>2
  <2> QED BY <2>3, <2>4, <2>5
<1>4. Rendered(l) # NoLadder
  BY <1>1, <1>3 DEF NoLadder
<1>5. Numbered(Rendered(l)) = [i \in 1..Len(l) |-> l[i]]
  <2>1. \A i \in 1..Len(l) :
          (IF Rendered(l)[i].tier = NoTier THEN [Rendered(l)[i] EXCEPT !.tier = i]
           ELSE Rendered(l)[i]) = l[i]
    BY <1>1, <1>2, <1>3
  <2> QED BY <1>3, <2>1 DEF Numbered
<1> QED BY <1>1, <1>3, <1>4, <1>5 DEF Storable

\* What is forbidden leaves no gap, and a gap is never of what was completed.
LEMMA OutcomeOfRead ==
    ASSUME NEW l \in Seq(Tiers), LadderAccepted(l), NEW performed \in BOOLEAN,
           NEW taught \in BOOLEAN, NEW codes
    PROVE  LET out == RouteTaskOutcome(AtTier(1), performed, codes, taught, l)
           IN  /\ out.gap \in BOOLEAN /\ out.gapTier \in Nat
               /\ out.gap => out.status # "completed"
               /\ out.gap => \A c \in codes : DenialDisposition(c) # "forbidden"
<1> DEFINE out == RouteTaskOutcome(AtTier(1), performed, codes, taught, l)
           blocked == Outcome("blocked", FALSE, NoTier, NoAttempt)
           completed == Outcome("completed", FALSE, NoTier, NoAttempt)
           a == AtTier(1)
           up == Escalate(a, codes, l)
           again == Outcome("retry", GapFromDenial(codes), NoTier, NextTry(a))
<1>1. out \in {blocked, completed, up, again}
  BY DEF RouteTaskOutcome, RetryOrEscalate
<1>2. GapFromDenial(codes) \in BOOLEAN
  BY DEF GapFromDenial, IsTeachable
<1>3. ASSUME GapFromDenial(codes), NEW c \in codes PROVE DenialDisposition(c) # "forbidden"
  <2> DEFINE found == {DenialDisposition(x) : x \in codes}
             First(i) == Precedence[i] \in found
                            /\ \A j \in 1..(i - 1) : Precedence[j] \notin found
  <2> SUFFICES ASSUME "forbidden" \in found PROVE FALSE
    OBVIOUS
  <2>1. Precedence[1] = "forbidden"
    BY DEF Precedence
  <2>2. First(1) /\ \A i \in 1..4 : First(i) => i = 1
    <3>1. ASSUME NEW i \in 1..4, First(i), i # 1 PROVE FALSE
      <4>1. 1 \in 1..(i - 1)
        BY <3>1
      <4> QED BY <2>1, <3>1, <4>1
    <3> QED BY <2>1, <3>1
  <2>3. (CHOOSE i \in 1..4 : First(i)) = 1
    <3> HIDE DEF First
    <3> QED BY <2>2
  <2>4. DispositionForSet(codes) = "forbidden"
    BY <2>1, <2>3 DEF DispositionForSet
  <2> QED BY <1>3, <2>4 DEF GapFromDenial, IsTeachable
<1>4. up.gap = GapFromDenial(codes) /\ up.gapTier \in Nat /\ up.status # "completed"
  <2>1. a.tier = 1
    BY DEF AtTier
  <2>2. CASE MayDefer(l, 1)
    <3>1. Len(l) \in Nat /\ Len(l) # 0
      BY DEF LadderAccepted
    <3>2. 2 \in 1..Len(l) /\ 1 + 1 = 2
      <4>1. \A n \in Nat : n # 0 /\ n # 1 => 2 \in 1..n
        OBVIOUS
      <4>2. Len(l) # 1
        BY <2>2 DEF MayDefer
      <4>3. 2 \in 1..Len(l)
        BY <3>1, <4>1, <4>2, Zenon
      <4>4. 1 + 1 = 2
        OBVIOUS
      <4> QED BY <4>3, <4>4
    <3>3. l[2] \in Tiers
      BY <3>2
    <3>4. NextTier(l, 1) \in Nat
      BY <3>2, <3>3 DEF NextTier, Tiers
    <3>5. up = Outcome("escalated", GapFromDenial(codes), NextTier(l, 1), AtTier(NextTier(l, 1)))
      BY <2>1, <2>2 DEF Escalate
    <3> HIDE DEF up
    <3> QED BY <3>4, <3>5 DEF Outcome
  <2>3. CASE ~MayDefer(l, 1)
    BY <2>1, <2>3 DEF Escalate, Outcome, NoTier
  <2> QED BY <2>2, <2>3
<1>5. /\ again.gap = GapFromDenial(codes) /\ again.gapTier \in Nat /\ again.status # "completed"
      /\ blocked.gap = FALSE /\ blocked.gapTier \in Nat
      /\ completed.gap = FALSE /\ completed.gapTier \in Nat
  BY DEF Outcome, NoTier
<1> HIDE DEF blocked, completed, up, again, out
<1> QED BY <1>1, <1>2, <1>3, <1>4, <1>5 DEF out

-----------------------------------------------------------------------------
(* The lock. *)

\* What a step carries is known from its name.
LEMMA StepKinds ==
    ASSUME NEW d \in Steps
    PROVE  /\ d.at \in {"gap", "metric", "routed"} => d \in RoutedSteps
           /\ d.at = "instruct" => d \in InstructSteps
           /\ d.at = "save" => d \in SaveSteps
           /\ d.at = "practise" => d \in PractiseSteps
           /\ d.at \in {"ask", "review"} => d \in ReviewSteps
  BY DEF Steps, PlainSteps, At, RoutedSteps, InstructSteps, SaveSteps, PractiseSteps, ReviewSteps

\* A plain step, and what it does not have to hold.
LEMMA PlainStep ==
    ASSUME NEW s \in {"idle", "event", "modeEvent", "modeReturn", "clear", "buffer",
                      "decision", "draft", "drafting", "draftEvent"},
           NEW gs, NEW attempts, NEW revs
    PROVE  /\ At(s) \in Steps /\ At(s).at = s
           /\ Locked(At(s)) <=> s \in {"event", "modeEvent", "decision"}
           /\ StepHolds(At(s), gs, attempts, revs)
<1>1. At(s) \in PlainSteps /\ At(s).at = s
  BY DEF PlainSteps, At
<1> QED BY <1>1 DEF Steps, Locked, LockedSteps, StepHolds

\* How a step moves its thread and the lock: it takes it, keeps it, gives it
\* back, or has nothing to do with it.
LockMoves(t, d) ==
    /\ doing' = [doing EXCEPT ![t] = d]
    /\ \/ holder = NoThread /\ holder' = t /\ Locked(d)
       \/ holder = t /\ holder' = t /\ Locked(d)
       \/ holder = t /\ holder' = NoThread /\ ~Locked(d)
       \/ ~Locked(doing[t]) /\ ~Locked(d) /\ holder' = holder

\* The lock discipline survives a step whose own new step holds.
LEMMA Moved ==
    ASSUME Control, NEW t \in Threads, NEW d \in Steps, LockMoves(t, d),
           Locked(d) => StepHolds(d, gaps', practised', reviews'),
           Locked(doing[t]) \/ UNCHANGED <<gaps, practised, reviews>>
    PROVE  Control'
<1>1. holder \in Threads \cup {NoThread} /\ doing \in [Threads -> Steps]
  BY DEF Control
<1>2. doing' \in [Threads -> Steps] /\ holder' \in Threads \cup {NoThread}
  BY <1>1 DEF LockMoves
<1>3. doing'[t] = d /\ \A u \in Threads : u # t => doing'[u] = doing[u]
  BY <1>1 DEF LockMoves
<1>4. \A u \in Threads : holder = u <=> Locked(doing[u])
  BY DEF Control, Lockholders
<1>5. \A u \in Threads : holder' = u <=> Locked(doing'[u])
  <2> SUFFICES ASSUME NEW u \in Threads PROVE holder' = u <=> Locked(doing'[u])
    OBVIOUS
  <2> HIDE DEF Locked
  <2>1. NoThread # t /\ NoThread # u
    BY ThreadsAssumption
  <2>2. holder = u <=> Locked(doing[u])
    BY <1>4
  <2>3. holder = t <=> Locked(doing[t])
    BY <1>4
  <2> QED BY <1>3, <2>1, <2>2, <2>3 DEF LockMoves
<1>6. Lockholders'
  BY <1>5 DEF Lockholders, Locked
<1>7. ASSUME NEW u \in Threads, holder' = u
      PROVE  StepHolds(doing'[u], gaps', practised', reviews')
  <2>1. CASE u = t
    BY <1>3, <1>5, <1>7, <2>1
  <2>2. CASE u # t
    <3>1. Locked(doing[u]) /\ holder = u /\ doing'[u] = doing[u]
      BY <1>3, <1>4, <1>5, <1>7, <2>2
    <3>2. ~Locked(doing[t])
      BY <1>4, <2>2, <3>1
    <3>3. UNCHANGED <<gaps, practised, reviews>>
      BY <3>2
    <3> QED BY <3>1, <3>3 DEF Control, HolderHolds
  <2> QED BY <2>1, <2>2
<1>8. HolderHolds'
  BY <1>7 DEF HolderHolds, StepHolds
<1> QED BY <1>2, <1>6, <1>8 DEF Control

\* While nobody holds the lock nothing waits to be counted or evidenced, and a
\* thread that has the lock is the only one that may have something waiting.
LEMMA WaitingAlone ==
    ASSUME Control
    PROVE  /\ holder = NoThread => ~Uncounted /\ ~Unevidenced
           /\ \A t \in Threads : holder = t =>
                  /\ Uncounted <=> doing[t].at = "metric" /\ ~doing[t].completed
                  /\ Unevidenced <=> doing[t].at = "decision"
  BY ThreadsAssumption
     DEF Control, Lockholders, Locked, LockedSteps, Uncounted, Unevidenced

-----------------------------------------------------------------------------
(* Steps that count nothing. *)

\* Data that no step but a few changes.
Kept == <<gaps, setting, ladder, alone, short, routed, practised, reviewAsked, reviews,
          decidedEv, faults>>

LEMMA SameData ==
    ASSUME Data, UNCHANGED Kept, mode' \in {"training", "working"}, decided' \in Nat,
           docs' \in Seq(Threads), Len(docs') <= MaxBuffers
    PROVE  Data'
  BY DEF Data, Kept, LadderSurvivesRestart, LoadedLadder

\* A step of which nothing waits, before or after, that changes no gap, count or
\* decision.
LEMMA Quiet ==
    ASSUME HarnessInv, NEW t \in Threads, NEW d \in Steps, LockMoves(t, d), Data',
           Locked(d) => StepHolds(d, gaps', practised', reviews'),
           Locked(doing[t]) \/ UNCHANGED <<practised, reviews>>,
           UNCHANGED <<gaps, decided, decidedEv, short, faults>>,
           doing[t].at \notin {"metric", "decision"}, d.at # "decision"
    PROVE  HarnessInv'
<1>1. Control'
  BY Moved DEF HarnessInv
<1>2. doing \in [Threads -> Steps]
  BY DEF HarnessInv, Control
<1>3. Uncounted => Uncounted'
  BY <1>2 DEF Uncounted, LockMoves
<1>4. Unevidenced' <=> Unevidenced
  BY <1>2 DEF Unevidenced, LockMoves
<1>5. Observed' = Observed
  BY DEF Observed
<1>6. Progress'
  <2>1. Cardinality(Observed) \in Nat
    <3>1. IsFiniteSet(Observed)
      <4>1. IsFiniteSet(DOMAIN gaps) /\ Observed \in SUBSET DOMAIN gaps
        BY DEF HarnessInv, Data, Observed
      <4> QED BY <4>1, FS_Subset
    <3> QED BY <3>1, FS_CardinalityType
  <2>2. short \in Nat /\ faults \in Nat
    BY DEF HarnessInv, Data
  <2> QED BY <1>3, <1>5, <2>1, <2>2 DEF HarnessInv, Progress
<1>7. Decisions'
  BY <1>4 DEF HarnessInv, Decisions
<1> QED BY <1>1, <1>6, <1>7 DEF HarnessInv

-----------------------------------------------------------------------------
(* Requests. *)

\* A request that took the lock, and has written nothing yet.
LEMMA RequestQuiet ==
    ASSUME HarnessInv, NEW t \in Threads, NEW d \in Steps, Goes(t, d),
           holder = NoThread, holder' = t, UNCHANGED faults,
           Locked(d), d.at # "decision", StepHolds(d, gaps, practised, reviews),
           doing[t] = Idle, mode' \in {"training", "working"},
           UNCHANGED <<ladder, docs, teaching, counts, practice, decisions>>
    PROVE  HarnessInv'
<1>1. LockMoves(t, d)
  BY DEF Goes, LockMoves
<1>2. UNCHANGED Kept /\ UNCHANGED <<docs, decided, gaps, practised, reviews, short>>
  BY DEF Kept, teaching, counts, practice, decisions
<1>3. Data'
  BY <1>2, SameData DEF HarnessInv, Data
<1>4. doing[t].at \notin {"metric", "decision"}
  BY DEF Idle
<1> QED BY <1>1, <1>2, <1>3, <1>4, Quiet DEF Kept

\* What a request that writes nothing establishes, when d is its first step.
Requested(t, d) ==
    /\ Goes(t, d) /\ holder = NoThread /\ holder' = t /\ doing[t] = Idle
    /\ UNCHANGED <<memory, teaching, counts, practice, decisions>> /\ UNCHANGED faults
    /\ Locked(d) /\ d.at # "decision" /\ StepHolds(d, gaps, practised, reviews)

LEMMA RequestedKeeps ==
    ASSUME HarnessInv, NEW t \in Threads, NEW d \in Steps, Requested(t, d) PROVE HarnessInv'
<1>1. mode' \in {"training", "working"} /\ UNCHANGED <<ladder, docs>>
  BY DEF Requested, memory, HarnessInv, Data
<1> QED BY <1>1, RequestQuiet DEF Requested

LEMMA RoutedKeeps ==
    ASSUME HarnessInv, NEW t \in Threads, NEW task \in Tasks, NEW cap \in {Read, List},
           NEW performed \in BOOLEAN, NEW codes \in AnyCodes, NEW content \in BOOLEAN,
           Routed(t, task, cap, performed, codes, content)
    PROVE  HarnessInv'
<1> DEFINE out == RouteTaskOutcome(AtTier(1), performed, codes, Instructed(task, cap), ladder)
           step == [at |-> IF out.gap THEN "gap" ELSE "metric",
                    id |-> GapId(task, cap, codes), tier |-> out.gapTier,
                    completed |-> out.status = "completed", content |-> content]
<1>1. /\ Goes(t, step) /\ holder = NoThread /\ doing[t] = Idle /\ holder' = t
      /\ UNCHANGED <<memory, teaching, counts, practice, decisions>> /\ UNCHANGED faults
  BY DEF Routed, Enter
<1>2. /\ out.gap \in BOOLEAN /\ out.gapTier \in Nat
      /\ out.gap => out.status # "completed"
      /\ out.gap => \A c \in codes : DenialDisposition(c) # "forbidden"
  <2>1. ladder \in Seq(Tiers) /\ LadderAccepted(ladder)
    BY DEF HarnessInv, Data, LadderSurvivesRestart
  <2>2. Instructed(task, cap) \in BOOLEAN
    BY DEF Instructed
  <2> QED BY <2>1, <2>2, OutcomeOfRead
<1>3. GapId(task, cap, codes) \in AnyIds
  BY DEF GapId, AnyIds
<1>4. out.gap => GapId(task, cap, codes) \in GapIds
  <2> SUFFICES ASSUME out.gap PROVE codes \in Denials \cup {{}}
    BY DEF GapId, GapIds
  <2>1. Malformed \notin codes
    BY <1>2, MalformedAssumption
  <2> QED BY <2>1 DEF AnyCodes
<1> HIDE DEF out
<1>5. step \in RoutedSteps
  BY <1>2, <1>3 DEF RoutedSteps
<1>6. PICK d \in RoutedSteps : d = step
  BY <1>5
<1>7. /\ d \in Steps /\ d.at \in {"gap", "metric"}
      /\ d.at = "gap" => d.id \in GapIds /\ ~d.completed
  BY <1>2, <1>4, <1>6 DEF Steps
<1>8. Goes(t, d)
  BY <1>1, <1>6
<1> HIDE DEF step
<1>9. Locked(d) /\ d.at # "decision" /\ StepHolds(d, gaps, practised, reviews)
  BY <1>7 DEF Locked, LockedSteps, StepHolds
<1>10. mode' \in {"training", "working"} /\ UNCHANGED <<ladder, docs>>
  BY <1>1 DEF memory, HarnessInv, Data
<1> QED BY <1>1, <1>7, <1>8, <1>9, <1>10, RequestQuiet

\* The reads and listings, with the codes their answers carry.
LEMMA GovernedKeeps ==
    ASSUME HarnessInv, NEW t \in Threads, NEW task \in Tasks, NEW performed \in BOOLEAN,
           NEW malformed \in BOOLEAN, NEW codes \in Denials \cup {{}},
           GovernedRead(t, task, performed, codes)
           \/ GovernedList(t, task, performed, malformed, codes)
    PROVE  HarnessInv'
<1>1. codes \in AnyCodes /\ codes \cup {Malformed} \in AnyCodes
  BY DEF AnyCodes
<1>2. CASE GovernedRead(t, task, performed, codes)
  BY <1>1, <1>2, RoutedKeeps DEF GovernedRead
<1>3. CASE GovernedList(t, task, performed, malformed, codes) /\ performed /\ malformed
  <2>1. Routed(t, task, List, FALSE, codes \cup {Malformed}, FALSE)
    BY <1>3 DEF GovernedList
  <2> QED BY <1>1, <2>1, RoutedKeeps
<1>4. CASE GovernedList(t, task, performed, malformed, codes) /\ ~(performed /\ malformed)
  <2>1. Routed(t, task, List, performed, codes, FALSE)
    BY <1>4 DEF GovernedList
  <2> QED BY <1>1, <2>1, RoutedKeeps
<1> QED BY <1>2, <1>3, <1>4

\* Requests whose step carries nothing.
LEMMA PlainRequestKeeps ==
    ASSUME HarnessInv, NEW t \in Threads, NEW m \in {"training", "working"},
           SetMode(t, m) \/ OfficeCall(t) \/ DocumentPage(t)
    PROVE  HarnessInv'
<1>1. PICK s \in {"modeEvent", "event"} :
        /\ Goes(t, At(s)) /\ holder = NoThread /\ holder' = t /\ doing[t] = Idle
        /\ mode' \in {"training", "working"}
        /\ UNCHANGED faults /\ UNCHANGED <<ladder, docs, teaching, counts, practice, decisions>>
  BY DEF SetMode, OfficeCall, DocumentPage, Enter, memory, HarnessInv, Data
<1>2. /\ At(s) \in Steps /\ Locked(At(s)) /\ At(s).at # "decision"
      /\ StepHolds(At(s), gaps, practised, reviews)
  BY PlainStep
<1> QED BY <1>1, <1>2, RequestQuiet

LEMMA DraftTrainingKeeps ==
    ASSUME HarnessInv, NEW t \in Threads, DraftTraining(t) PROVE HarnessInv'
<1>1. /\ Goes(t, At("draft")) /\ doing[t] = Idle /\ UNCHANGED holder /\ UNCHANGED Kept
      /\ UNCHANGED <<mode, docs, decided>>
      /\ UNCHANGED <<gaps, practised, reviews, decided, decidedEv, short, faults>>
  BY DEF DraftTraining, Kept, memory, teaching, counts, practice, decisions
<1>2. At("draft") \in Steps /\ ~Locked(At("draft")) /\ At("draft").at = "draft"
  BY PlainStep
<1>3. ~Locked(doing[t]) /\ doing[t].at = "idle"
  BY <1>1 DEF Idle, Locked, LockedSteps
<1>4. LockMoves(t, At("draft"))
  BY <1>1, <1>2, <1>3 DEF Goes, LockMoves
<1>5. Data'
  BY <1>1, SameData DEF HarnessInv, Data
<1> QED BY <1>1, <1>2, <1>3, <1>4, <1>5, Quiet

\* Instructions, ladders, practice and reviews: what the request read holds.
LEMMA TeachingRequestKeeps ==
    ASSUME HarnessInv, NEW t \in Threads,
           \/ \E task \in Tasks : Teach(t, task)
           \/ \E id \in DOMAIN gaps : ResolveGap(t, id)
           \/ \E raw \in Configurable : ConfigureLadder(t, raw)
    PROVE  HarnessInv'
<1>1. \E d \in Steps : Requested(t, d)
  <2>1. ASSUME NEW task \in Tasks, Teach(t, task) PROVE \E d \in Steps : Requested(t, d)
    <3> DEFINE d == [at |-> "instruct", id |-> GapId(task, Read, {}),
                     record |-> Gap("instructed", "operator_authored", NoTier)]
    <3>1. d \in InstructSteps
      BY DEF InstructSteps, GapId, GapIds, Gap, GapRecords, NoTier
    <3>2. d.at = "instruct" /\ d.record.source = "operator_authored"
      BY DEF Gap
    <3>3. /\ Goes(t, d) /\ holder = NoThread /\ holder' = t /\ doing[t] = Idle
          /\ UNCHANGED <<memory, teaching, counts, practice, decisions>> /\ UNCHANGED faults
      BY <2>1 DEF Teach, Enter
    <3> HIDE DEF d
    <3>4. Locked(d) /\ StepHolds(d, gaps, practised, reviews) /\ d \in Steps
      BY <3>1, <3>2 DEF Locked, LockedSteps, StepHolds, Steps
    <3>9. Requested(t, d)
      BY <3>2, <3>3, <3>4 DEF Requested
    <3> QED BY <3>9, <3>4
  <2>2. ASSUME NEW id \in DOMAIN gaps, ResolveGap(t, id) PROVE \E d \in Steps : Requested(t, d)
    <3> DEFINE d == [at |-> "instruct", id |-> id,
                     record |-> [gaps[id] EXCEPT !.status = "instructed"]]
    <3>1. gaps[id] \in GapRecords /\ id \in GapIds
      BY DEF HarnessInv, Data
    <3>2. \A g \in GapRecords : /\ [g EXCEPT !.status = "instructed"] \in GapRecords
                                /\ [g EXCEPT !.status = "instructed"].source = g.source
      BY DEF GapRecords
    <3>3. d \in InstructSteps
      BY <3>1, <3>2 DEF InstructSteps
    <3>4. d.at = "instruct" /\ d.id \in DOMAIN gaps /\ gaps[d.id].source = d.record.source
      BY <3>1, <3>2
    <3>5. /\ Goes(t, d) /\ holder = NoThread /\ holder' = t /\ doing[t] = Idle
          /\ UNCHANGED <<memory, teaching, counts, practice, decisions>> /\ UNCHANGED faults
      BY <2>2 DEF ResolveGap, Enter
    <3> HIDE DEF d
    <3>6. Locked(d) /\ StepHolds(d, gaps, practised, reviews) /\ d \in Steps
      BY <3>3, <3>4 DEF Locked, LockedSteps, StepHolds, Steps
    <3>9. Requested(t, d)
      BY <3>4, <3>5, <3>6 DEF Requested
    <3> QED BY <3>9, <3>6
  <2>3. ASSUME NEW raw \in Configurable, ConfigureLadder(t, raw) PROVE \E d \in Steps : Requested(t, d)
    <3> DEFINE d == [at |-> "save", to |-> Numbered(raw)]
    <3>1. Numbered(raw) \in Seq(Tiers) /\ LadderAccepted(Numbered(raw))
      BY <2>3, LaddersAssumption, NumberedTyped DEF ConfigureLadder
    <3>2. Storable(Numbered(raw))
      BY <3>1, AcceptedStorable
    <3>3. d \in SaveSteps /\ d.at = "save" /\ Storable(d.to)
      BY <3>1, <3>2 DEF SaveSteps
    <3>4. /\ Goes(t, d) /\ holder = NoThread /\ holder' = t /\ doing[t] = Idle
          /\ UNCHANGED <<memory, teaching, counts, practice, decisions>> /\ UNCHANGED faults
      BY <2>3 DEF ConfigureLadder, Enter
    <3> HIDE DEF d
    <3>5. Locked(d) /\ StepHolds(d, gaps, practised, reviews) /\ d \in Steps
      BY <3>3 DEF Locked, LockedSteps, StepHolds, Steps
    <3>9. Requested(t, d)
      BY <3>3, <3>4, <3>5 DEF Requested
    <3> QED BY <3>9, <3>5
  <2> QED BY <2>1, <2>2, <2>3
<1> QED BY <1>1, RequestedKeeps

LEMMA PracticeRequestKeeps ==
    ASSUME HarnessInv, NEW t \in Threads,
           \/ \E i \in 1..ScenarioCount : RunPractice(t, <<i>>, FALSE)
           \/ RunPractice(t, Suite(ScenarioCount), TRUE)
           \/ \E a \in 1..Len(practised), approved \in BOOLEAN : AskReview(t, a, approved)
    PROVE  HarnessInv'
<1>1. \E d \in Steps : Requested(t, d)
  <2>1. ASSUME NEW left \in Seq(Nat), left # <<>>, NEW suite \in BOOLEAN,
               RunPractice(t, left, suite)
        PROVE  \E d \in Steps : Requested(t, d)
    <3> DEFINE d == [at |-> "practise", left |-> left, suite |-> suite]
    <3>1. d \in PractiseSteps /\ d.at = "practise" /\ d.left # <<>>
      BY <2>1 DEF PractiseSteps
    <3>2. /\ Goes(t, d) /\ holder = NoThread /\ holder' = t /\ doing[t] = Idle
          /\ UNCHANGED <<memory, teaching, counts, practice, decisions>> /\ UNCHANGED faults
      BY <2>1 DEF RunPractice, Enter
    <3> HIDE DEF d
    <3>3. Locked(d) /\ StepHolds(d, gaps, practised, reviews) /\ d \in Steps
      BY <3>1 DEF Locked, LockedSteps, StepHolds, Steps
    <3>9. Requested(t, d)
      BY <3>1, <3>2, <3>3 DEF Requested
    <3> QED BY <3>9, <3>3
  <2>2. ASSUME NEW a \in 1..Len(practised), NEW approved \in BOOLEAN, AskReview(t, a, approved)
        PROVE  \E d \in Steps : Requested(t, d)
    <3> DEFINE d == [at |-> "ask", attempt |-> a, approved |-> approved]
    <3>1. d \in ReviewSteps /\ d.at = "ask" /\ d.attempt = a
      <4>1. a \in Nat
        BY DEF HarnessInv, Data
      <4> QED BY <4>1 DEF ReviewSteps
    <3>2. /\ Goes(t, d) /\ holder = NoThread /\ holder' = t /\ doing[t] = Idle
          /\ UNCHANGED <<memory, teaching, counts, practice, decisions>> /\ UNCHANGED faults
          /\ a \notin DOMAIN reviews
      BY <2>2 DEF AskReview, Enter, Reviewed
    <3> HIDE DEF d
    <3>3. Locked(d) /\ StepHolds(d, gaps, practised, reviews) /\ d \in Steps
      BY <3>1, <3>2 DEF Locked, LockedSteps, StepHolds, Steps
    <3>9. Requested(t, d)
      BY <3>1, <3>2, <3>3 DEF Requested
    <3> QED BY <3>9, <3>3
  <2>3. \A i \in 1..ScenarioCount : <<i>> \in Seq(Nat) /\ <<i>> # <<>>
    OBVIOUS
  <2>4. Suite(ScenarioCount) \in Seq(Nat) /\ Suite(ScenarioCount) # <<>>
    BY BoundsAssumption DEF Suite
  <2> QED BY <2>1, <2>2, <2>3, <2>4
<1> QED BY <1>1, RequestedKeeps

-----------------------------------------------------------------------------
(* Steps of a request. *)

\* Who is at one of the locked steps holds the lock, and what it read holds.
LEMMA AtLocked ==
    ASSUME HarnessInv, NEW t \in Threads, Locked(doing[t])
    PROVE  holder = t /\ doing[t] \in Steps /\ StepHolds(doing[t], gaps, practised, reviews)
  BY DEF HarnessInv, Control, Lockholders, HolderHolds

\* Steps without the lock, and the ones that write an event no property counts.
LEMMA PlainStepKeeps ==
    ASSUME HarnessInv, NEW t \in Threads,
           \/ ModeRecorded(t) \/ ModeReturned(t) \/ ClearDocuments(t) \/ BufferDocument(t)
           \/ DraftGranted(t) \/ DraftReturned(t) \/ DraftRecorded(t) \/ RecordEvent(t)
    PROVE  HarnessInv'
<1>1. /\ UNCHANGED Kept /\ UNCHANGED <<mode, decided>>
      /\ docs' \in Seq(Threads) /\ Len(docs') <= MaxBuffers
  <2>1. docs \in Seq(Threads) /\ Len(docs) <= MaxBuffers /\ MaxBuffers \in Nat \ {0}
    BY BoundsAssumption DEF HarnessInv, Data
  <2>2. CASE BufferDocument(t)
    <3> DEFINE all == Append(docs, t)
    <3>1. all \in Seq(Threads) /\ Len(all) = Len(docs) + 1
      BY <2>1
    <3>2. docs' = SubSeq(all, IF Len(all) > MaxBuffers THEN 2 ELSE 1, Len(all))
      BY <2>2 DEF BufferDocument
    <3>3. UNCHANGED Kept /\ UNCHANGED <<mode, decided>>
      BY <2>2 DEF BufferDocument, Keep, Kept, teaching, counts, practice, decisions, bounds
    <3> HIDE DEF all
    <3>4. \A k \in {1, 2} : /\ SubSeq(all, k, Len(all)) \in Seq(Threads)
                            /\ Len(SubSeq(all, k, Len(all))) = Len(all) - k + 1
      BY <2>1, <3>1
    <3>5. Len(docs) \in Nat
      BY <2>1
    <3> QED BY <2>1, <3>1, <3>2, <3>3, <3>4, <3>5
  <2>3. CASE ClearDocuments(t)
    <3>1. docs' = <<>> /\ UNCHANGED Kept /\ UNCHANGED <<mode, decided>>
      BY <2>3 DEF ClearDocuments, Keep, Kept, teaching, counts, practice, decisions, bounds
    <3> QED BY <2>1, <3>1
  <2>4. CASE ~BufferDocument(t) /\ ~ClearDocuments(t)
    <3>1. UNCHANGED <<memory, teaching, counts, practice, decisions, bounds>>
      BY <2>4 DEF ModeRecorded, ModeReturned, DraftGranted, DraftReturned, DraftRecorded,
                  RecordEvent, Keep, Release
    <3> QED BY <2>1, <3>1 DEF memory, teaching, counts, practice, decisions, bounds, Kept
  <2> QED BY <2>2, <2>3, <2>4
<1>2. Data'
  BY <1>1, SameData DEF HarnessInv, Data
<1>3. UNCHANGED <<gaps, practised, reviews, decided, decidedEv, short, faults>>
  BY <1>1 DEF Kept
<1>4. PICK s \in {"idle", "modeReturn", "clear", "drafting", "draftEvent"} :
        /\ doing' = [doing EXCEPT ![t] = At(s)]
        /\ \/ doing[t].at \in {"modeEvent", "event"} /\ holder' = NoThread
           \/ doing[t].at \in {"modeReturn", "clear", "buffer", "draft", "drafting", "draftEvent"}
              /\ UNCHANGED holder
  <2>1. CASE ModeRecorded(t) \/ RecordEvent(t)
    BY <2>1 DEF ModeRecorded, RecordEvent, Release, Goes, IsAt, Idle, At
  <2>2. CASE ModeReturned(t) \/ ClearDocuments(t) \/ BufferDocument(t)
    BY <2>2 DEF ModeReturned, ClearDocuments, BufferDocument, Keep, Goes, IsAt, Idle, At
  <2>3. CASE DraftGranted(t) \/ DraftReturned(t) \/ DraftRecorded(t)
    BY <2>3 DEF DraftGranted, DraftReturned, DraftRecorded, Keep, Goes, IsAt, Idle, At
  <2> QED BY <2>1, <2>2, <2>3
<1>5. At(s) \in Steps /\ ~Locked(At(s)) /\ At(s).at # "decision"
  BY PlainStep
<1>6. LockMoves(t, At(s)) /\ doing[t].at \notin {"metric", "decision"}
  <2>1. CASE doing[t].at \in {"modeEvent", "event"} /\ holder' = NoThread
    <3>1. Locked(doing[t])
      BY <2>1 DEF Locked, LockedSteps
    <3> QED BY <1>4, <1>5, <2>1, <3>1, AtLocked DEF LockMoves
  <2>2. CASE /\ doing[t].at \in {"modeReturn", "clear", "buffer", "draft", "drafting", "draftEvent"}
             /\ UNCHANGED holder
    <3>1. ~Locked(doing[t])
      BY <2>2 DEF Locked, LockedSteps
    <3> QED BY <1>4, <1>5, <2>2, <3>1 DEF LockMoves
  <2> QED BY <1>4, <2>1, <2>2
<1> QED BY <1>2, <1>3, <1>5, <1>6, Quiet

\* The gap table when a record is stored: at most one more gap was observed, and
\* none when the record keeps its source or is an operator's own.
LEMMA Upserted ==
    ASSUME Data, NEW id \in GapIds, NEW g \in GapRecords, UpsertGap(id, g)
    PROVE  /\ DOMAIN gaps' \subseteq GapIds /\ IsFiniteSet(DOMAIN gaps')
           /\ \A i \in DOMAIN gaps' : gaps'[i] \in GapRecords
           /\ Cardinality(Observed) \in Nat /\ Cardinality(Observed') \in Nat
           /\ Cardinality(Observed') <= Cardinality(Observed) + 1
           /\ g.source = "operator_authored" \/ (id \in DOMAIN gaps /\ gaps[id].source = g.source)
                => Cardinality(Observed') <= Cardinality(Observed)
<1>1. /\ DOMAIN gaps' = DOMAIN gaps \cup {id} /\ gaps'[id] = g
      /\ \A i \in DOMAIN gaps : i # id => gaps'[i] = gaps[i]
  BY DEF UpsertGap
<1>2. IsFiniteSet(DOMAIN gaps) /\ IsFiniteSet(DOMAIN gaps')
  BY <1>1, FS_AddElement DEF Data
<1>3. Observed \in SUBSET DOMAIN gaps /\ Observed' \in SUBSET (Observed \cup {id})
  BY <1>1 DEF Observed
<1>4. IsFiniteSet(Observed) /\ Cardinality(Observed) \in Nat
  BY <1>2, <1>3, FS_Subset, FS_CardinalityType
<1>5. /\ IsFiniteSet(Observed \cup {id})
      /\ Cardinality(Observed \cup {id}) <= Cardinality(Observed) + 1
  <2>1. /\ IsFiniteSet(Observed \cup {id})
        /\ \/ Cardinality(Observed \cup {id}) = Cardinality(Observed)
           \/ Cardinality(Observed \cup {id}) = Cardinality(Observed) + 1
    BY <1>4, FS_AddElement, Zenon
  <2> QED BY <1>4, <2>1
<1>6. /\ IsFiniteSet(Observed') /\ Cardinality(Observed') \in Nat
      /\ Cardinality(Observed') <= Cardinality(Observed \cup {id})
      /\ Cardinality(Observed \cup {id}) \in Nat
  BY <1>3, <1>5, FS_Subset, FS_CardinalityType
<1>7. ASSUME g.source = "operator_authored" \/ (id \in DOMAIN gaps /\ gaps[id].source = g.source)
      PROVE  Cardinality(Observed') <= Cardinality(Observed)
  <2>1. Observed' \in SUBSET Observed
    BY <1>1, <1>7 DEF Observed
  <2> QED BY <1>4, <2>1, FS_Subset
<1>8. \A i \in DOMAIN gaps' : gaps'[i] \in GapRecords /\ i \in GapIds
  BY <1>1 DEF Data
<1>9. Cardinality(Observed') <= Cardinality(Observed) + 1
  BY <1>4, <1>5, <1>6
<1> QED BY <1>2, <1>4, <1>6, <1>7, <1>8, <1>9

LEMMA StoreGapKeeps ==
    ASSUME HarnessInv, NEW t \in Threads, StoreGap(t) PROVE HarnessInv'
<1>1. PICK d \in RoutedSteps : d = doing[t]
  <2>1. doing[t] \in Steps
    BY DEF HarnessInv, Control
  <2> QED BY <2>1, StepKinds DEF StoreGap, IsAt
<1>2. /\ d.at = "gap" /\ d.id \in GapIds /\ ~d.completed /\ holder = t
  <2>1. doing[t].at = "gap" /\ Locked(doing[t])
    BY DEF StoreGap, IsAt, Locked, LockedSteps
  <2> QED BY <1>1, <2>1, AtLocked DEF StepHolds
<1>3. PICK e \in RoutedSteps : e = [d EXCEPT !.at = "metric"]
  BY DEF RoutedSteps
<1>4. e.at = "metric" /\ ~e.completed /\ e \in Steps
  BY <1>2, <1>3 DEF RoutedSteps, Steps
<1>5. PICK g \in GapRecords : g = Gap("open", "escalation", d.tier)
  BY DEF Gap, GapRecords, RoutedSteps
<1>6. /\ UpsertGap(d.id, g) /\ doing' = [doing EXCEPT ![t] = e] /\ holder' = holder
      /\ UNCHANGED <<memory, setting, counts, practice, decisions, bounds>>
  BY <1>1, <1>3, <1>5 DEF StoreGap, Keep, Goes
<1>7. Locked(e) /\ StepHolds(e, gaps', practised', reviews')
  BY <1>4 DEF Locked, LockedSteps, StepHolds
<1>8. Control'
  <2>1. LockMoves(t, e) /\ Locked(doing[t])
    BY <1>1, <1>2, <1>6, <1>7 DEF LockMoves, Locked, LockedSteps
  <2> QED BY <1>4, <1>7, <2>1, Moved DEF HarnessInv
<1>9. /\ DOMAIN gaps' \subseteq GapIds /\ IsFiniteSet(DOMAIN gaps')
      /\ \A i \in DOMAIN gaps' : gaps'[i] \in GapRecords
      /\ Cardinality(Observed) \in Nat /\ Cardinality(Observed') \in Nat
      /\ Cardinality(Observed') <= Cardinality(Observed) + 1
  BY <1>2, <1>6, Upserted DEF HarnessInv
<1>10. Data'
  BY <1>6, <1>9 DEF HarnessInv, Data, memory, counts, practice, decisions, bounds,
                    LadderSurvivesRestart, LoadedLadder
<1>11. /\ ~Uncounted /\ Uncounted' /\ ~Unevidenced /\ ~Unevidenced'
  <2>1. doing \in [Threads -> Steps] /\ doing'[t] = e /\ holder' = t
    BY <1>2, <1>6 DEF HarnessInv, Control
  <2>2. ~Uncounted /\ ~Unevidenced
    BY <1>1, <1>2, WaitingAlone DEF HarnessInv
  <2>3. Uncounted'
    BY <1>4, <2>1 DEF Uncounted
  <2>4. \A u \in Threads : doing'[u] = IF u = t THEN e ELSE doing[u]
    BY <1>6, <2>1
  <2>5. ~Unevidenced'
    BY <1>4, <2>2, <2>4 DEF Unevidenced
  <2> QED BY <2>2, <2>3, <2>5
<1>12. Progress'
  <2>1. short \in Nat /\ faults \in Nat /\ UNCHANGED <<short, faults>>
    BY <1>6 DEF HarnessInv, Data, counts, bounds
  <2> QED BY <1>9, <1>11, <2>1 DEF HarnessInv, Progress
<1>13. Decisions'
  BY <1>6, <1>11 DEF HarnessInv, Decisions, decisions, bounds
<1> QED BY <1>8, <1>10, <1>12, <1>13 DEF HarnessInv

LEMMA CountOutcomeKeeps ==
    ASSUME HarnessInv, NEW t \in Threads, CountOutcome(t) PROVE HarnessInv'
<1>1. PICK d \in RoutedSteps : d = doing[t]
  <2>1. doing[t] \in Steps
    BY DEF HarnessInv, Control
  <2> QED BY <2>1, StepKinds DEF CountOutcome, IsAt
<1>2. d.at = "metric" /\ holder = t /\ Locked(doing[t]) /\ d.completed \in BOOLEAN
  <2>1. doing[t].at = "metric" /\ Locked(doing[t])
    BY DEF CountOutcome, IsAt, Locked, LockedSteps
  <2> QED BY <1>1, <2>1, AtLocked DEF RoutedSteps
<1>3. PICK e \in RoutedSteps : e = [d EXCEPT !.at = "routed"]
  BY DEF RoutedSteps
<1>4. e.at = "routed" /\ e \in Steps
  BY <1>3 DEF RoutedSteps, Steps
<1>5. /\ doing' = [doing EXCEPT ![t] = e] /\ holder' = holder
      /\ alone' = IF d.completed THEN alone + 1 ELSE alone
      /\ short' = IF d.completed THEN short ELSE short + 1
      /\ UNCHANGED <<memory, teaching, routed, practice, decisions, bounds>>
  BY <1>1, <1>3 DEF CountOutcome, Keep, Goes
<1>6. Locked(e) /\ StepHolds(e, gaps', practised', reviews')
  BY <1>4 DEF Locked, LockedSteps, StepHolds
<1>7. Control'
  <2>1. LockMoves(t, e)
    BY <1>2, <1>5, <1>6 DEF LockMoves
  <2> QED BY <1>2, <1>4, <1>6, <2>1, Moved DEF HarnessInv
<1>8. Data'
  BY <1>2, <1>5 DEF HarnessInv, Data, memory, teaching, practice, decisions, bounds,
                    LadderSurvivesRestart, LoadedLadder
<1>9. /\ Uncounted <=> ~d.completed
      /\ ~Uncounted' /\ ~Unevidenced /\ ~Unevidenced'
  <2>1. doing \in [Threads -> Steps]
    BY DEF HarnessInv, Control
  <2>2. (Uncounted <=> ~d.completed) /\ ~Unevidenced
    BY <1>1, <1>2, WaitingAlone DEF HarnessInv
  <2>3. \A u \in Threads : doing'[u] = IF u = t THEN e ELSE doing[u]
    BY <1>5, <2>1
  <2>4. \A u \in Threads : u # t => doing[u].at # "metric"
    BY <1>2, <2>1 DEF HarnessInv, Control, Lockholders, Locked, LockedSteps
  <2>5. ~Uncounted'
    BY <1>4, <2>3, <2>4 DEF Uncounted
  <2>6. ~Unevidenced'
    BY <1>4, <2>2, <2>3 DEF Unevidenced
  <2> QED BY <2>2, <2>5, <2>6
<1>10. Progress'
  <2>1. short \in Nat /\ faults \in Nat /\ UNCHANGED faults /\ Observed' = Observed
    BY <1>5 DEF HarnessInv, Data, teaching, bounds, Observed
  <2>2. Cardinality(Observed) \in Nat
    <3>1. IsFiniteSet(DOMAIN gaps) /\ Observed \in SUBSET DOMAIN gaps
      BY DEF HarnessInv, Data, Observed
    <3> QED BY <3>1, FS_Subset, FS_CardinalityType
  <2> QED BY <1>2, <1>5, <1>9, <2>1, <2>2 DEF HarnessInv, Progress
<1>11. Decisions'
  BY <1>5, <1>9 DEF HarnessInv, Decisions, decisions, bounds
<1> QED BY <1>7, <1>8, <1>10, <1>11 DEF HarnessInv

LEMMA RecordRoutedKeeps ==
    ASSUME HarnessInv, NEW t \in Threads, RecordRouted(t) PROVE HarnessInv'
<1>1. PICK s \in {"buffer", "idle"} :
        /\ doing' = [doing EXCEPT ![t] = At(s)] /\ holder' = NoThread
        /\ routed' = routed + 1
        /\ UNCHANGED <<memory, teaching, alone, short, practice, decisions, bounds>>
        /\ doing[t].at = "routed"
  BY DEF RecordRouted, Release, Goes, IsAt, Idle, At
<1>2. Locked(doing[t]) /\ holder = t
  <2>1. Locked(doing[t])
    BY <1>1 DEF Locked, LockedSteps
  <2> QED BY <2>1, AtLocked
<1>3. At(s) \in Steps /\ ~Locked(At(s)) /\ At(s).at # "decision"
  BY PlainStep
<1>4. LockMoves(t, At(s))
  BY <1>1, <1>2, <1>3 DEF LockMoves
<1>5. Data'
  BY <1>1 DEF HarnessInv, Data, memory, teaching, practice, decisions, bounds,
              LadderSurvivesRestart, LoadedLadder
<1> QED BY <1>1, <1>2, <1>3, <1>4, <1>5, Quiet DEF teaching, practice, decisions, bounds

LEMMA StoreInstructionKeeps ==
    ASSUME HarnessInv, NEW t \in Threads, StoreInstruction(t) PROVE HarnessInv'
<1>1. PICK d \in InstructSteps : d = doing[t]
  <2>1. doing[t] \in Steps
    BY DEF HarnessInv, Control
  <2> QED BY <2>1, StepKinds DEF StoreInstruction, IsAt
<1>2. PICK id \in GapIds : id = d.id
  BY DEF InstructSteps
<1>3. PICK g \in GapRecords : g = d.record
  BY DEF InstructSteps
<1>4. /\ holder = t /\ Locked(doing[t]) /\ doing[t].at = "instruct"
      /\ g.source = "operator_authored" \/ (id \in DOMAIN gaps /\ gaps[id].source = g.source)
  <2>1. doing[t].at = "instruct" /\ Locked(doing[t])
    BY DEF StoreInstruction, IsAt, Locked, LockedSteps
  <2> QED BY <1>1, <1>2, <1>3, <2>1, AtLocked DEF StepHolds
<1>5. /\ UpsertGap(id, g) /\ doing' = [doing EXCEPT ![t] = At("event")] /\ holder' = holder
      /\ UNCHANGED <<memory, setting, counts, practice, decisions, bounds>>
  BY <1>1, <1>2, <1>3 DEF StoreInstruction, Keep, Goes
<1>6. /\ At("event") \in Steps /\ Locked(At("event")) /\ At("event").at = "event"
      /\ StepHolds(At("event"), gaps', practised', reviews')
  BY PlainStep
<1>7. Control'
  <2>1. LockMoves(t, At("event"))
    BY <1>4, <1>5, <1>6 DEF LockMoves
  <2> QED BY <1>4, <1>6, <2>1, Moved DEF HarnessInv
<1>8. /\ DOMAIN gaps' \subseteq GapIds /\ IsFiniteSet(DOMAIN gaps')
      /\ \A i \in DOMAIN gaps' : gaps'[i] \in GapRecords
      /\ Cardinality(Observed) \in Nat /\ Cardinality(Observed') \in Nat
      /\ Cardinality(Observed') <= Cardinality(Observed)
  BY <1>4, <1>5, Upserted DEF HarnessInv
<1>9. Data'
  BY <1>5, <1>8 DEF HarnessInv, Data, memory, counts, practice, decisions, bounds,
                    LadderSurvivesRestart, LoadedLadder
<1>10. ~Uncounted /\ ~Unevidenced /\ ~Unevidenced'
  <2>1. ~Uncounted /\ ~Unevidenced
    BY <1>4, WaitingAlone DEF HarnessInv
  <2>2. \A u \in Threads : doing'[u] = IF u = t THEN At("event") ELSE doing[u]
    BY <1>5 DEF HarnessInv, Control
  <2> QED BY <1>6, <2>1, <2>2 DEF Unevidenced
<1>11. Progress'
  <2>1. short \in Nat /\ faults \in Nat /\ UNCHANGED <<short, faults>>
    BY <1>5 DEF HarnessInv, Data, counts, bounds
  <2> QED BY <1>8, <1>10, <2>1 DEF HarnessInv, Progress
<1>12. Decisions'
  BY <1>5, <1>10 DEF HarnessInv, Decisions, decisions, bounds
<1> QED BY <1>7, <1>9, <1>11, <1>12 DEF HarnessInv

LEMMA SaveLadderKeeps ==
    ASSUME HarnessInv, NEW t \in Threads, SaveLadder(t) PROVE HarnessInv'
<1>1. PICK l \in Seq(Tiers) : l = doing[t].to
  <2>1. doing[t] \in SaveSteps
    <3>1. doing[t] \in Steps
      BY DEF HarnessInv, Control
    <3> QED BY <3>1, StepKinds DEF SaveLadder, IsAt
  <2> QED BY <2>1 DEF SaveSteps
<1>2. holder = t /\ Locked(doing[t]) /\ doing[t].at = "save" /\ Storable(l)
  <2>1. doing[t].at = "save" /\ Locked(doing[t])
    BY DEF SaveLadder, IsAt, Locked, LockedSteps
  <2> QED BY <1>1, <2>1, AtLocked DEF StepHolds
<1>3. /\ setting' = Rendered(l) /\ ladder' = l
      /\ doing' = [doing EXCEPT ![t] = At("event")] /\ holder' = holder
      /\ UNCHANGED <<mode, docs, gaps, counts, practice, decisions, bounds>>
  BY <1>1 DEF SaveLadder, Keep, Goes
<1>4. /\ At("event") \in Steps /\ Locked(At("event")) /\ At("event").at = "event"
      /\ StepHolds(At("event"), gaps', practised', reviews')
  BY PlainStep
<1>5. LockMoves(t, At("event"))
  BY <1>2, <1>3, <1>4 DEF LockMoves
<1>6. setting' \in Seq(Tiers) /\ setting' # NoLadder /\ LadderSurvivesRestart'
  <2>1. /\ LadderAccepted(l) /\ Numbered(Rendered(l)) = l
        /\ Rendered(l) \in Seq(Tiers) /\ Rendered(l) # NoLadder
    BY <1>2, AcceptedStorable DEF Storable
  <2> QED BY <1>3, <2>1 DEF LadderSurvivesRestart, LoadedLadder
<1>7. Data'
  BY <1>3, <1>6 DEF HarnessInv, Data, counts, practice, decisions, bounds
<1>8. UNCHANGED <<gaps, decided, decidedEv, short, faults>>
  BY <1>3 DEF counts, decisions, bounds
<1> QED BY <1>2, <1>4, <1>5, <1>7, <1>8, Quiet

\* The summary kept of an attempt.
LEMMA SummaryTyped ==
    ASSUME NEW n \in Nat PROVE Summary(n) \in Summaries
  BY DEF Summary, Summaries, Passed, Issues

LEMMA RecordAttemptKeeps ==
    ASSUME HarnessInv, NEW t \in Threads, RecordAttempt(t) PROVE HarnessInv'
<1>1. PICK d \in PractiseSteps : d = doing[t]
  <2>1. doing[t] \in Steps
    BY DEF HarnessInv, Control
  <2> QED BY <2>1, StepKinds DEF RecordAttempt, IsAt
<1>2. /\ holder = t /\ Locked(doing[t]) /\ doing[t].at = "practise"
      /\ d.left \in Seq(Nat) /\ d.left # <<>>
  <2>1. doing[t].at = "practise" /\ Locked(doing[t])
    BY DEF RecordAttempt, IsAt, Locked, LockedSteps
  <2> QED BY <1>1, <2>1, AtLocked DEF StepHolds, PractiseSteps
<1>3. PICK sm \in Summaries : sm = Summary(Head(d.left))
  <2>1. \A q \in Seq(Nat) : q # <<>> => Head(q) \in Nat
    OBVIOUS
  <2>2. PICK n \in Nat : n = Head(d.left)
    BY <1>2, <2>1
  <2>3. Summary(n) \in Summaries
    BY SummaryTyped
  <2> QED BY <2>2, <2>3
<1>4. PICK left \in Seq(Nat) : left = Tail(d.left)
  <2>1. \A q \in Seq(Nat) : q # <<>> => Tail(q) \in Seq(Nat)
    OBVIOUS
  <2> QED BY <1>2, <2>1
<1>5. /\ practised' = Append(practised, sm)
      /\ UNCHANGED <<memory, teaching, counts, reviewAsked, reviews, decisions, bounds>>
  BY <1>1, <1>3 DEF RecordAttempt, Keep, Release
<1>6. /\ practised \in Seq(Summaries) /\ practised' \in Seq(Summaries)
      /\ Len(practised') = Len(practised) + 1 /\ Len(practised) \in Nat
  BY <1>5 DEF HarnessInv, Data
<1>7. Data'
  <2>1. DOMAIN reviews \subseteq 1..Len(practised') /\ reviewAsked \subseteq 1..Len(practised')
    <3>1. 1..Len(practised) \subseteq 1..Len(practised')
      BY <1>6
    <3> QED BY <3>1 DEF HarnessInv, Data
  <2> QED BY <1>5, <1>6, <2>1 DEF HarnessInv, Data, memory, teaching, counts, decisions, bounds,
                                  LadderSurvivesRestart, LoadedLadder
<1>8. PICK e \in Steps :
        /\ doing' = [doing EXCEPT ![t] = e]
        /\ \/ holder' = holder /\ Locked(e)
           \/ holder' = NoThread /\ ~Locked(e)
        /\ e.at # "decision"
        /\ Locked(e) => StepHolds(e, gaps', practised', reviews')
  <2>1. CASE left # <<>>
    <3>1. PICK e \in PractiseSteps : e = [d EXCEPT !.left = left]
      BY DEF PractiseSteps
    <3>2. e.at = "practise" /\ e.left # <<>> /\ e \in Steps
      BY <2>1, <3>1 DEF PractiseSteps, Steps
    <3>3. Locked(e) /\ StepHolds(e, gaps', practised', reviews')
      BY <3>2 DEF Locked, LockedSteps, StepHolds
    <3>4. doing' = [doing EXCEPT ![t] = e] /\ holder' = holder
      BY <1>1, <1>4, <2>1, <3>1 DEF RecordAttempt, Keep, Goes
    <3> QED BY <3>2, <3>3, <3>4
  <2>2. CASE left = <<>> /\ d.suite
    <3>1. doing' = [doing EXCEPT ![t] = At("event")] /\ holder' = holder
      BY <1>1, <1>4, <2>2 DEF RecordAttempt, Keep, Goes
    <3>2. /\ At("event") \in Steps /\ Locked(At("event")) /\ At("event").at # "decision"
          /\ StepHolds(At("event"), gaps', practised', reviews')
      BY PlainStep
    <3> QED BY <3>1, <3>2
  <2>3. CASE left = <<>> /\ ~d.suite
    <3>1. doing' = [doing EXCEPT ![t] = At("idle")] /\ holder' = NoThread
      BY <1>1, <1>4, <2>3 DEF RecordAttempt, Release, Goes, Idle, At
    <3>2. At("idle") \in Steps /\ ~Locked(At("idle")) /\ At("idle").at # "decision"
      BY PlainStep
    <3> QED BY <3>1, <3>2
  <2> QED BY <2>1, <2>2, <2>3
<1>9. LockMoves(t, e)
  BY <1>2, <1>8 DEF LockMoves
<1>10. UNCHANGED <<gaps, decided, decidedEv, short, faults>>
  BY <1>5 DEF teaching, counts, decisions, bounds
<1> QED BY <1>2, <1>7, <1>8, <1>9, <1>10, Quiet

LEMMA ReviewAskedKeeps ==
    ASSUME HarnessInv, NEW t \in Threads, ReviewAsked(t) PROVE HarnessInv'
<1>1. PICK d \in ReviewSteps : d = doing[t]
  <2>1. doing[t] \in Steps
    BY DEF HarnessInv, Control
  <2> QED BY <2>1, StepKinds DEF ReviewAsked, IsAt
<1>2. /\ holder = t /\ Locked(doing[t]) /\ doing[t].at = "ask"
      /\ d.attempt \in 1..Len(practised) /\ d.attempt \notin DOMAIN reviews
  <2>1. doing[t].at = "ask" /\ Locked(doing[t])
    BY DEF ReviewAsked, IsAt, Locked, LockedSteps
  <2> QED BY <1>1, <2>1, AtLocked DEF StepHolds
<1>3. PICK e \in ReviewSteps : e = [d EXCEPT !.at = "review"]
  BY DEF ReviewSteps
<1>4. e.at = "review" /\ e.attempt = d.attempt /\ e \in Steps
  BY <1>3 DEF ReviewSteps, Steps
<1>5. /\ doing' = [doing EXCEPT ![t] = e] /\ holder' = holder
      /\ reviewAsked' = reviewAsked \cup {d.attempt}
      /\ UNCHANGED <<memory, teaching, counts, practised, reviews, decisions, bounds>>
  BY <1>1, <1>3 DEF ReviewAsked, Keep, Goes
<1>6. Locked(e) /\ StepHolds(e, gaps', practised', reviews')
  BY <1>2, <1>4, <1>5 DEF Locked, LockedSteps, StepHolds
<1>7. LockMoves(t, e)
  BY <1>2, <1>5, <1>6 DEF LockMoves
<1>8. Data'
  BY <1>2, <1>5 DEF HarnessInv, Data, memory, teaching, counts, decisions, bounds,
                    LadderSurvivesRestart, LoadedLadder
<1> QED BY <1>2, <1>4, <1>5, <1>6, <1>7, <1>8, Quiet DEF teaching, counts, decisions, bounds

\* The review of an attempt that has none.
LEMMA ReviewRecorded ==
    ASSUME HarnessInv, NEW t \in Threads, RecordReview(t)
    PROVE  \E a \in 1..Len(practised) :
              /\ a \notin DOMAIN reviews /\ DOMAIN reviews' = DOMAIN reviews \cup {a}
              /\ \A i \in DOMAIN reviews : reviews'[i] = reviews[i]
              /\ holder = t /\ Locked(doing[t]) /\ doing[t].at = "review"
<1>1. PICK d \in ReviewSteps : d = doing[t]
  <2>1. doing[t] \in Steps
    BY DEF HarnessInv, Control
  <2> QED BY <2>1, StepKinds DEF RecordReview, IsAt
<1>2. /\ holder = t /\ Locked(doing[t]) /\ doing[t].at = "review"
      /\ d.attempt \in 1..Len(practised) /\ d.attempt \notin DOMAIN reviews
  <2>1. doing[t].at = "review" /\ Locked(doing[t])
    BY DEF RecordReview, IsAt, Locked, LockedSteps
  <2> QED BY <1>1, <2>1, AtLocked DEF StepHolds
<1>3. reviews' = [i \in DOMAIN reviews \cup {d.attempt} |->
        IF i = d.attempt THEN ReviewOutcome(d.attempt, d.approved) ELSE reviews[i]]
  BY <1>1 DEF RecordReview
<1> QED BY <1>2, <1>3

LEMMA RecordReviewKeeps ==
    ASSUME HarnessInv, NEW t \in Threads, RecordReview(t) PROVE HarnessInv'
<1>1. PICK a \in 1..Len(practised) :
        /\ DOMAIN reviews' = DOMAIN reviews \cup {a}
        /\ holder = t /\ Locked(doing[t]) /\ doing[t].at = "review"
  BY ReviewRecorded
<1>2. /\ doing' = [doing EXCEPT ![t] = At("idle")] /\ holder' = NoThread
      /\ UNCHANGED <<memory, teaching, counts, practised, reviewAsked, decisions, bounds>>
  BY DEF RecordReview, Release, Goes, Idle, At
<1>3. At("idle") \in Steps /\ ~Locked(At("idle")) /\ At("idle").at # "decision"
  BY PlainStep
<1>4. LockMoves(t, At("idle"))
  BY <1>1, <1>2, <1>3 DEF LockMoves
<1>5. Data'
  BY <1>1, <1>2 DEF HarnessInv, Data, memory, teaching, counts, decisions, bounds,
                    LadderSurvivesRestart, LoadedLadder
<1> QED BY <1>1, <1>2, <1>3, <1>4, <1>5, Quiet DEF teaching, counts, decisions, bounds

LEMMA DecideApprovalKeeps ==
    ASSUME HarnessInv, NEW t \in Threads, DecideApproval(t) PROVE HarnessInv'
<1>1. /\ doing' = [doing EXCEPT ![t] = At("decision")] /\ holder = NoThread /\ holder' = t
      /\ decided' = decided + 1
      /\ UNCHANGED <<memory, teaching, counts, practice, decidedEv, faults>>
  BY DEF DecideApproval, Enter, Goes
<1>2. /\ At("decision") \in Steps /\ Locked(At("decision")) /\ At("decision").at = "decision"
      /\ StepHolds(At("decision"), gaps', practised', reviews')
  BY PlainStep
<1>3. Control'
  <2>1. LockMoves(t, At("decision")) /\ UNCHANGED <<gaps, practised, reviews>>
    BY <1>1, <1>2 DEF LockMoves, teaching, practice
  <2> QED BY <1>2, <2>1, Moved DEF HarnessInv
<1>4. Data'
  BY <1>1 DEF HarnessInv, Data, memory, teaching, counts, practice, LadderSurvivesRestart,
              LoadedLadder
<1>5. ~Uncounted /\ ~Unevidenced /\ ~Uncounted' /\ Unevidenced'
  <2>1. ~Uncounted /\ ~Unevidenced
    BY <1>1, WaitingAlone DEF HarnessInv
  <2>2. \A u \in Threads : doing'[u] = IF u = t THEN At("decision") ELSE doing[u]
    BY <1>1 DEF HarnessInv, Control
  <2> QED BY <1>2, <2>1, <2>2 DEF Uncounted, Unevidenced
<1>6. Progress'
  BY <1>1, <1>5 DEF HarnessInv, Progress, Observed, teaching, counts
<1>7. Decisions'
  BY <1>1, <1>5 DEF HarnessInv, Decisions, Data
<1> QED BY <1>3, <1>4, <1>6, <1>7 DEF HarnessInv

LEMMA DecisionRecordedKeeps ==
    ASSUME HarnessInv, NEW t \in Threads, DecisionRecorded(t) PROVE HarnessInv'
<1>1. /\ doing' = [doing EXCEPT ![t] = At("idle")] /\ holder' = NoThread
      /\ doing[t].at = "decision" /\ decidedEv' = decidedEv + 1
      /\ UNCHANGED <<memory, teaching, counts, practice, decided, bounds>>
  BY DEF DecisionRecorded, Release, Goes, IsAt, Idle, At
<1>2. Locked(doing[t]) /\ holder = t
  <2>1. Locked(doing[t])
    BY <1>1 DEF Locked, LockedSteps
  <2> QED BY <2>1, AtLocked
<1>3. At("idle") \in Steps /\ ~Locked(At("idle")) /\ At("idle").at = "idle"
  BY PlainStep
<1>4. Control'
  <2>1. LockMoves(t, At("idle"))
    BY <1>1, <1>2, <1>3 DEF LockMoves
  <2> QED BY <1>2, <1>3, <2>1, Moved DEF HarnessInv
<1>5. Data'
  BY <1>1 DEF HarnessInv, Data, memory, teaching, counts, practice, bounds,
              LadderSurvivesRestart, LoadedLadder
<1>6. ~Uncounted /\ Unevidenced /\ ~Uncounted' /\ ~Unevidenced'
  <2>1. ~Uncounted /\ Unevidenced
    BY <1>1, <1>2, WaitingAlone DEF HarnessInv
  <2>2. \A u \in Threads : doing'[u] = IF u = t THEN At("idle") ELSE doing[u]
    BY <1>1 DEF HarnessInv, Control
  <2>3. \A u \in Threads : u # t => doing[u].at # "decision"
    BY <1>2 DEF HarnessInv, Control, Lockholders, Locked, LockedSteps
  <2> QED BY <1>3, <2>1, <2>2, <2>3 DEF Uncounted, Unevidenced
<1>7. Progress'
  BY <1>1, <1>6 DEF HarnessInv, Progress, Observed, teaching, counts, bounds
<1>8. Decisions'
  BY <1>1, <1>6 DEF HarnessInv, Decisions, Data, bounds
<1> QED BY <1>4, <1>5, <1>7, <1>8 DEF HarnessInv

-----------------------------------------------------------------------------
(* Faults, and the behaviours. *)

\* A failed write leaves the lock: what was not counted is counted by the fault.
LEMMA WriteFailsKeeps ==
    ASSUME HarnessInv, NEW t \in Threads, WriteFails(t) PROVE HarnessInv'
<1>1. /\ doing' = [doing EXCEPT ![t] = At("idle")] /\ holder = t /\ holder' = NoThread
      /\ faults' = faults + 1
      /\ UNCHANGED <<memory, teaching, counts, practice, decisions>>
  BY DEF WriteFails, Goes, Idle, At
<1>2. Locked(doing[t])
  BY <1>1 DEF HarnessInv, Control, Lockholders
<1>3. At("idle") \in Steps /\ ~Locked(At("idle")) /\ At("idle").at = "idle"
  BY PlainStep
<1>4. Control'
  <2>1. LockMoves(t, At("idle"))
    BY <1>1, <1>3 DEF LockMoves
  <2> QED BY <1>2, <1>3, <2>1, Moved DEF HarnessInv
<1>5. Data'
  BY <1>1 DEF HarnessInv, Data, memory, teaching, counts, practice, decisions,
              LadderSurvivesRestart, LoadedLadder
<1>6. Cardinality(Observed) \in Nat /\ Observed' = Observed
  <2>1. IsFiniteSet(DOMAIN gaps) /\ Observed \in SUBSET DOMAIN gaps
    BY DEF HarnessInv, Data, Observed
  <2> QED BY <1>1, <2>1, FS_Subset, FS_CardinalityType DEF Observed, teaching
<1>7. /\ short \in Nat /\ faults \in Nat /\ decided \in Nat /\ decidedEv \in Nat
      /\ UNCHANGED <<short, decided, decidedEv>>
  BY <1>1 DEF HarnessInv, Data, counts, decisions
<1>8. ~Unevidenced'
  <2>1. \A u \in Threads : doing'[u] = IF u = t THEN At("idle") ELSE doing[u]
    BY <1>1 DEF HarnessInv, Control
  <2>2. \A u \in Threads : u # t => doing[u].at # "decision"
    BY <1>1 DEF HarnessInv, Control, Lockholders, Locked, LockedSteps
  <2> QED BY <1>3, <2>1, <2>2 DEF Unevidenced
<1>9. Progress'
  BY <1>1, <1>6, <1>7 DEF HarnessInv, Progress
<1>10. Decisions'
  BY <1>1, <1>7, <1>8 DEF HarnessInv, Decisions
<1> QED BY <1>4, <1>5, <1>9, <1>10 DEF HarnessInv

\* When nothing is in progress nothing waits.
LEMMA AllIdle ==
    ASSUME holder' = NoThread, doing' = [t \in Threads |-> Idle]
    PROVE  Control' /\ ~Uncounted' /\ ~Unevidenced'
<1>1. Idle \in Steps /\ ~Locked(Idle) /\ Idle.at = "idle"
  <2>1. At("idle") \in Steps /\ ~Locked(At("idle")) /\ At("idle").at = "idle"
    BY PlainStep
  <2>2. At("idle") = Idle
    BY DEF Idle, At
  <2> QED BY <2>1, <2>2
<1>2. doing' \in [Threads -> Steps] /\ \A t \in Threads : doing'[t] = Idle
  BY <1>1
<1>3. \A t \in Threads : holder' # t /\ ~Locked(doing'[t])
  BY <1>1, <1>2, ThreadsAssumption
<1>4. Lockholders' /\ HolderHolds'
  BY <1>3 DEF Lockholders, HolderHolds, Locked
<1> QED BY <1>1, <1>2, <1>4 DEF Control, Uncounted, Unevidenced

LEMMA RestartKeeps == ASSUME HarnessInv, Restart PROVE HarnessInv'
<1>1. /\ mode' = "training" /\ docs' = <<>> /\ ladder' = LoadedLadder
      /\ faults' = faults + 1
      /\ UNCHANGED <<teaching, counts, practice, decisions>>
  BY DEF Restart
<1>2. Control' /\ ~Uncounted' /\ ~Unevidenced'
  BY AllIdle DEF Restart
<1>3. Data'
  BY <1>1, BoundsAssumption
     DEF HarnessInv, Data, teaching, counts, practice, decisions, LadderSurvivesRestart,
         LoadedLadder
<1>4. Cardinality(Observed) \in Nat /\ Observed' = Observed
  <2>1. IsFiniteSet(DOMAIN gaps) /\ Observed \in SUBSET DOMAIN gaps
    BY DEF HarnessInv, Data, Observed
  <2> QED BY <1>1, <2>1, FS_Subset, FS_CardinalityType DEF Observed, teaching
<1>5. /\ short \in Nat /\ faults \in Nat /\ decided \in Nat /\ decidedEv \in Nat
      /\ UNCHANGED <<short, decided, decidedEv>>
  BY <1>1 DEF HarnessInv, Data, counts, decisions
<1>6. Progress'
  BY <1>1, <1>4, <1>5 DEF HarnessInv, Progress
<1>7. Decisions'
  BY <1>1, <1>2, <1>5 DEF HarnessInv, Decisions
<1> QED BY <1>2, <1>3, <1>6, <1>7 DEF HarnessInv

LEMMA InitHarness == Init => HarnessInv
<1> SUFFICES ASSUME Init PROVE HarnessInv
  OBVIOUS
<1>1. Idle \in Steps /\ ~Locked(Idle) /\ Idle.at = "idle"
  <2>1. At("idle") \in Steps /\ ~Locked(At("idle")) /\ At("idle").at = "idle"
    BY PlainStep
  <2>2. At("idle") = Idle
    BY DEF Idle, At
  <2> QED BY <2>1, <2>2
<1>2. holder = NoThread /\ doing \in [Threads -> Steps] /\ \A t \in Threads : doing[t] = Idle
  BY <1>1 DEF Init
<1>3. Control /\ ~Uncounted /\ ~Unevidenced
  <2>1. \A t \in Threads : holder # t /\ ~Locked(doing[t])
    BY <1>1, <1>2, ThreadsAssumption
  <2> QED BY <1>1, <1>2, <2>1 DEF Control, Lockholders, HolderHolds, Locked, Uncounted, Unevidenced
<1>4. DOMAIN gaps = {} /\ DOMAIN reviews = {} /\ IsFiniteSet({}) /\ Cardinality({}) = 0
  BY FS_EmptySet DEF Init
<1>5. Data
  BY <1>4, BoundsAssumption, LaddersAssumption
     DEF Init, Data, LadderSurvivesRestart, LoadedLadder, NoLadder
<1>6. Progress
  BY <1>3, <1>4 DEF Init, Progress, Observed
<1>7. Decisions
  BY <1>3 DEF Init, Decisions
<1> QED BY <1>3, <1>5, <1>6, <1>7 DEF HarnessInv

LEMMA RequestKeeps == ASSUME HarnessInv, NEW t \in Threads, Request(t) PROVE HarnessInv'
<1>1. CASE \/ \E m \in {"training", "working"} : SetMode(t, m)
           \/ OfficeCall(t) \/ DocumentPage(t)
  BY <1>1, PlainRequestKeeps
<1>2. CASE \/ \E task \in Tasks, p \in BOOLEAN, codes \in Denials \cup {{}} :
                  GovernedRead(t, task, p, codes)
           \/ \E task \in Tasks, p, malformed \in BOOLEAN, codes \in Denials \cup {{}} :
                  GovernedList(t, task, p, malformed, codes)
  BY <1>2, GovernedKeeps
<1>3. CASE \/ \E task \in Tasks : Teach(t, task)
           \/ \E id \in DOMAIN gaps : ResolveGap(t, id)
           \/ \E raw \in Configurable : ConfigureLadder(t, raw)
  BY <1>3, TeachingRequestKeeps
<1>4. CASE \/ \E i \in 1..ScenarioCount : RunPractice(t, <<i>>, FALSE)
           \/ RunPractice(t, Suite(ScenarioCount), TRUE)
           \/ \E a \in 1..Len(practised), approved \in BOOLEAN : AskReview(t, a, approved)
  BY <1>4, PracticeRequestKeeps
<1>5. CASE DecideApproval(t)
  BY <1>5, DecideApprovalKeeps
<1>6. CASE DraftTraining(t)
  BY <1>6, DraftTrainingKeeps
<1> QED BY <1>1, <1>2, <1>3, <1>4, <1>5, <1>6 DEF Request

LEMMA StepKeeps == ASSUME HarnessInv, NEW t \in Threads, Step(t) PROVE HarnessInv'
  BY PlainStepKeeps, StoreGapKeeps, CountOutcomeKeeps, RecordRoutedKeeps, StoreInstructionKeeps,
     SaveLadderKeeps, RecordAttemptKeeps, ReviewAskedKeeps, RecordReviewKeeps,
     DecisionRecordedKeeps
     DEF Step

LEMMA NextHarness == HarnessInv /\ [Next]_vars => HarnessInv'
<1> SUFFICES ASSUME HarnessInv, [Next]_vars PROVE HarnessInv'
  OBVIOUS
<1>1. ASSUME NEW t \in Threads, Request(t) \/ Step(t) \/ WriteFails(t) PROVE HarnessInv'
  BY <1>1, RequestKeeps, StepKeeps, WriteFailsKeeps
<1>2. CASE Restart
  BY <1>2, RestartKeeps
<1>3. CASE UNCHANGED vars
  <2>1. Control'
    BY <1>3 DEF vars, memory, teaching, counts, practice, decisions, bounds, HarnessInv, Control,
                Lockholders, HolderHolds, Locked
  <2>2. Data'
    BY <1>3 DEF vars, memory, teaching, counts, practice, decisions, bounds, HarnessInv, Data,
                LadderSurvivesRestart, LoadedLadder
  <2>3. Progress' /\ Decisions'
    BY <1>3 DEF vars, memory, teaching, counts, practice, decisions, bounds, HarnessInv, Progress,
                Decisions, Observed, Uncounted, Unevidenced
  <2> QED BY <2>1, <2>2, <2>3 DEF HarnessInv
<1> QED BY <1>1, <1>2, <1>3 DEF Next

\* The invariant of every behaviour.
THEOREM HarnessInvariance == Spec => []HarnessInv
<1> QED BY InitHarness, NextHarness, PTL DEF Spec

\* The harness's memory and tables always hold values of their types, at most
\* MAX_DOCUMENT_BUFFERS buffers among them.
THEOREM HarnessTypes == Spec => []TypeOK
<1>1. ASSUME HarnessInv PROVE TypeOK
  <2>1. /\ mode \in {"training", "working"} /\ holder \in Threads \cup {NoThread}
        /\ ladder \in Seq(Tiers) /\ setting \in Seq(Tiers)
        /\ docs \in Seq(Threads) /\ Len(docs) <= MaxBuffers
        /\ DOMAIN gaps \subseteq GapIds
        /\ DOMAIN reviews \subseteq 1..Len(practised) /\ reviewAsked \subseteq 1..Len(practised)
        /\ <<alone, short, routed, decided, decidedEv>> \in Nat \X Nat \X Nat \X Nat \X Nat
    BY <1>1 DEF HarnessInv, Control, Data
  <2>2. \A t \in Threads : doing[t].at \in
            {"idle", "event", "modeEvent", "modeReturn", "clear", "gap", "metric",
             "routed", "buffer", "instruct", "save", "practise", "ask", "review",
             "decision", "draft", "drafting", "draftEvent"}
    BY <1>1 DEF HarnessInv, Control, Steps, PlainSteps, At, RoutedSteps, InstructSteps, SaveSteps,
                PractiseSteps, ReviewSteps
  <2>3. \A id \in DOMAIN gaps :
            /\ gaps[id].status \in {"open", "instructed", "retired"}
            /\ gaps[id].source \in {"escalation", "operator_authored"}
            /\ gaps[id].tier \in Nat
    BY <1>1 DEF HarnessInv, Data, GapRecords
  <2> QED BY <2>1, <2>2, <2>3 DEF TypeOK
<1> QED BY <1>1, HarnessInvariance, PTL

\* training_progress can always be computed: whatever reads are interleaved or
\* interrupted, there are no more distinct observed gaps than stopped attempts
\* and faults.
THEOREM ProgressIsComputable == Spec => []ProgressComputable
<1>1. ASSUME HarnessInv PROVE ProgressComputable
  <2>1. holder = NoThread => ~Uncounted
    BY <1>1, WaitingAlone DEF HarnessInv
  <2>2. short \in Nat /\ faults \in Nat
    BY <1>1 DEF HarnessInv, Data
  <2> QED BY <1>1, <2>1, <2>2 DEF HarnessInv, Progress, ProgressComputable, ProgressAccepted
<1> QED BY <1>1, HarnessInvariance, PTL

\* The ladder in force is accepted and is the one a restart would load
\* (configure_ladder).
THEOREM LadderIsDurable == Spec => []LadderSurvivesRestart
<1>1. HarnessInv => LadderSurvivesRestart
  BY DEF HarnessInv, Data
<1> QED BY <1>1, HarnessInvariance, PTL

\* No decision is evidenced that Arc did not record, and only a fault loses the
\* evidence of one (decide_approval).
THEOREM DecisionsAreEvidenced == Spec => []DecisionsEvidenced
<1>1. ASSUME HarnessInv PROVE DecisionsEvidenced
  <2>1. holder = NoThread => ~Unevidenced
    BY <1>1, WaitingAlone DEF HarnessInv
  <2>2. decided \in Nat /\ decidedEv \in Nat /\ faults \in Nat
    BY <1>1 DEF HarnessInv, Data
  <2> QED BY <1>1, <2>1, <2>2 DEF HarnessInv, Decisions, DecisionsEvidenced
<1> QED BY <1>1, HarnessInvariance, PTL

\* A step leaves every review and the attempt it was made of as they are.
LEMMA ReviewsStay ==
    ASSUME HarnessInv, [Next]_vars
    PROVE  \A a \in DOMAIN reviews :
              a \in DOMAIN reviews' /\ reviews'[a] = reviews[a] /\ practised'[a] = practised[a]
<1>1. practised \in Seq(Summaries) /\ DOMAIN reviews \subseteq 1..Len(practised)
  BY DEF HarnessInv, Data
<1>2. CASE UNCHANGED <<practised, reviews>>
  BY <1>2
<1>3. ASSUME NEW t \in Threads, RecordAttempt(t)
      PROVE  UNCHANGED reviews /\ \A a \in DOMAIN reviews : practised'[a] = practised[a]
  <2>1. PICK x : practised' = Append(practised, x)
    BY <1>3 DEF RecordAttempt
  <2>2. \A a \in 1..Len(practised) : Append(practised, x)[a] = practised[a]
    BY <1>1
  <2> QED BY <1>1, <1>3, <2>1, <2>2 DEF RecordAttempt
<1>4. ASSUME NEW t \in Threads, RecordReview(t)
      PROVE  /\ UNCHANGED practised
             /\ \A a \in DOMAIN reviews : a \in DOMAIN reviews' /\ reviews'[a] = reviews[a]
  <2>1. UNCHANGED practised
    BY <1>4 DEF RecordReview
  <2> QED BY <1>4, <2>1, ReviewRecorded
<1>5. ASSUME NEW t \in Threads, Request(t) PROVE UNCHANGED <<practised, reviews>>
  <2>1. UNCHANGED practice
    BY <1>5 DEF Request, SetMode, GovernedRead, GovernedList, Routed, OfficeCall, DocumentPage,
                Teach, ResolveGap, ConfigureLadder, RunPractice, AskReview, DecideApproval,
                DraftTraining
  <2> QED BY <2>1 DEF practice
<1>6. ASSUME NEW t \in Threads, Step(t), ~RecordAttempt(t), ~RecordReview(t)
      PROVE  UNCHANGED <<practised, reviews>>
  BY <1>6 DEF Step, ModeRecorded, ModeReturned, ClearDocuments, StoreGap, CountOutcome, RecordRouted,
              BufferDocument, StoreInstruction, SaveLadder, ReviewAsked, DecisionRecorded,
              DraftGranted, DraftReturned, DraftRecorded, RecordEvent, practice
<1>7. ASSUME Restart \/ (\E t \in Threads : WriteFails(t)) \/ UNCHANGED vars
      PROVE  UNCHANGED <<practised, reviews>>
  BY <1>7 DEF Restart, WriteFails, vars, practice
<1>8. \/ UNCHANGED <<practised, reviews>>
      \/ \E t \in Threads : RecordAttempt(t) \/ RecordReview(t)
  BY <1>5, <1>6, <1>7 DEF Next
<1> QED BY <1>1, <1>2, <1>3, <1>4, <1>8

\* A human review is final: no interleaving of reviews, practice, faults and
\* restarts changes one or the attempt it was made of
\* (review_registration_practice).
THEOREM ReviewsFinal == Spec => ReviewsAreFinal
<1>1. HarnessInv /\ [Next]_vars =>
        [\A a \in DOMAIN reviews :
            a \in DOMAIN reviews' /\ reviews'[a] = reviews[a]
            /\ practised'[a] = practised[a]]_vars
  BY ReviewsStay
<1> QED BY <1>1, HarnessInvariance, PTL DEF Spec, ReviewsAreFinal
=============================================================================
