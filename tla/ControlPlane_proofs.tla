-------------------------- MODULE ControlPlane_proofs --------------------------
(***************************************************************************)
(* For every set of workers, requests, grants and heartbeats: ControlPlane *)
(* keeps its types, offers an assignment only to an eligible worker, never *)
(* undoes stored containment, implements AdmissionLedger (at most one offer *)
(* per idempotency key), and leaves durable evidence that can be relied on. *)
(*                                                                         *)
(* StateInv, in the first part, adds to OfferedWhenEligible what the process *)
(* may be doing at once (StagesInv), that the registry is never more       *)
(* permissive than a contained record (ContainedInMemory), and where the   *)
(* registry and the store are known to agree (PersistedInv).               *)
(*                                                                         *)
(* LedgerInv, in the second, says of the call in progress where its request *)
(* stands in the ledger.  The steps the ledger sees are few: a reservation, *)
(* and the events that refuse, offer and close.                            *)
(*                                                                         *)
(* EvidenceInv, in the third, says what the stage of the call in progress  *)
(* says of the trail of its request: which event is the parent it holds,   *)
(* which decisions are recorded already, and which request its grant is for. *)
(*                                                                         *)
(* StepsLeft, in the fourth, bounds the steps a call still takes.          *)
(***************************************************************************)
EXTENDS ControlPlane, TLAPS

\* The thread polls a worker during a startup or inside a refresh, for the
\* worker of the request; nothing runs while the process is down.
StagesInv ==
    /\ mode = "down" => turn.at = "idle" /\ call.at = "idle"
    /\ call.at # "idle" => mode = "serving"
    /\ mode = "serving" => (call.at = "refresh" <=> turn.at # "idle")
    /\ call.at = "refresh" =>
         /\ turn.worker = Worker
         /\ turn.at \in {"poll", "persist_heartbeat", "heartbeat_event", "polled"}

\* A contained record is contained in memory, and only an unrecorded worker
\* can be absent.
ContainedInMemory ==
    mode # "down" => \A w \in Workers :
        /\ stored[w] = "revoked" => registry[w] = "revoked"
        /\ stored[w] = "quarantined" => registry[w] \in Contained
        /\ registry[w] = Absent => stored[w] = Absent

\* A heartbeat that was persisted, and an accepted one, left the store with the
\* registry's state.
PersistedInv ==
    /\ turn.at = "heartbeat_event" \/ (turn.at = "polled" /\ turn.outcome = "ok") =>
         stored[turn.worker] = registry[turn.worker]
    /\ (call.at = "refreshed" /\ call.outcome = "received") \/ call.at = "eligible" =>
         stored[Worker] = registry[Worker]

StateInv == StagesInv /\ ContainedInMemory /\ PersistedInv /\ OfferedWhenEligible

IInv == TypeOK /\ StateInv

OfferStages == {"mint", "grant_event", "offer", "acknowledge"}

-----------------------------------------------------------------------------
\* Types

LEMMA SubmissionTypes ==
    /\ \A s \in Submissions : s.id \in Ids /\ s.key \in Keys /\ s.worker \in Workers
    /\ NoId \notin Ids
BY ControlPlaneAssumption DEF Ids, Keys

LEMMA IdleTypes ==
    /\ IdleTurn \in Turn
    /\ NoCall \in Call
    /\ \A b \in Seq(Submissions) \ {<<>>} : Begin(b) \in Call /\ Begin(b).at = "reserve"
<1>1. IdleTurn \in Turn
  BY FleetAssumption DEF IdleTurn, Turn, Turns, Outcomes
<1>2. ASSUME NEW b \in Seq(Submissions), b # <<>>
      PROVE  Begin(b) \in Call /\ Begin(b).at = "reserve"
  <2>1. Head(b) \in Submissions /\ Tail(b) \in Seq(Submissions)
    BY <1>2
  <2>2. {} \in SUBSET Grant
    OBVIOUS
  <2>3. QED
    BY <2>1, <2>2 DEF Begin, Call, Stages, GuardianDecisions, LimaStatuses, EventOutcomes
<1>3. NoCall \in Call
  <2> DEFINE s == CHOOSE s \in Submissions : TRUE
  <2>1. s \in Submissions
    BY ControlPlaneAssumption
  <2>2. <<s>> \in Seq(Submissions) /\ <<s>> # <<>>
    BY <2>1
  <2>3. Begin(<<s>>) \in Call
    BY <1>2, <2>2
  <2>4. [Begin(<<s>>) EXCEPT !.at = "idle"] \in Call
    BY <2>3 DEF Call, Stages
  <2>5. QED
    BY <2>4 DEF NoCall
<1>4. QED
  BY <1>1, <1>2, <1>3

LEMMA NoCallIdle == NoCall.at = "idle"
BY DEF NoCall, Begin

\* What the assignments of the calls' actions make of a call.
LEMMA NowType ==
    ASSUME call \in Call, NEW s \in Stages, Now(s)
    PROVE  call' \in Call /\ call'.at = s /\ call'.sub = call.sub
           /\ call'.outcome = call.outcome
BY DEF Call, Now

LEMMA ReturnedType ==
    ASSUME call \in Call, Returned
    PROVE  call' \in Call /\ call'.at \in {"idle", "reserve"}
<1>1. call.rest \in Seq(Submissions)
  BY DEF Call
<1>2. CASE call.rest = <<>>
  BY <1>2, IdleTypes, NoCallIdle DEF Returned
<1>3. CASE call.rest # <<>>
  BY <1>1, <1>3, IdleTypes DEF Returned
<1>4. QED
  BY <1>2, <1>3

LEMMA AppendType ==
    ASSUME TypeOK, NEW type \in EventTypes, NEW outcome \in EventOutcomes,
           NEW parent \in Nat, append_event(type, outcome, parent)
    PROVE  trail' \in [Ids -> Seq(ControlEvent)]
<1> DEFINE event == [type |-> type, outcome |-> outcome, parent |-> parent]
<1>1. event \in ControlEvent
  BY DEF ControlEvent
<1>2. trail \in [Ids -> Seq(ControlEvent)]
  BY DEF TypeOK
<1>3. Append(trail[Id], event) \in Seq(ControlEvent) \/ Id \notin Ids
  BY <1>1, <1>2
<1>4. trail' = [trail EXCEPT ![Id] = Append(trail[Id], event)]
  BY DEF append_event
<1>5. QED
  BY <1>2, <1>3, <1>4

LEMMA GoType ==
    ASSUME TypeOK, NEW type \in EventTypes, NEW outcome \in EventOutcomes,
           NEW s \in Stages, append_and_go(type, outcome, s)
    PROVE  /\ trail' \in [Ids -> Seq(ControlEvent)]
           /\ call' \in Call /\ call'.at = s /\ call'.sub = call.sub
<1>1. call \in Call /\ trail \in [Ids -> Seq(ControlEvent)]
  BY DEF TypeOK
<1>2. trail' \in [Ids -> Seq(ControlEvent)]
  BY <1>1, AppendType DEF append_and_go, Call
<1>3. Id \in Ids
  BY <1>1, SubmissionTypes DEF Id, Call
<1>4. Len(trail[Id]) + 1 \in Nat
  BY <1>1, <1>3
<1>5. call' \in Call /\ call'.at = s /\ call'.sub = call.sub
  BY <1>1, <1>4 DEF append_and_go, Call
<1>6. QED
  BY <1>2, <1>5

-----------------------------------------------------------------------------
\* Steps of the fleet

\* A heartbeat never takes a worker out of containment.
LEMMA AcceptedEnters ==
    ASSUME NEW s \in WorkerStates \cup {Absent}, NEW hb \in Heartbeat
    PROVE  /\ Accepted(s, hb).state \in WorkerStates \cup {Absent}
           /\ s = "revoked" => Accepted(s, hb).state = "revoked"
           /\ s = "quarantined" => Accepted(s, hb).state \in Contained
           /\ Accepted(s, hb).state = Absent => s = Absent
<1>1. Proposed(hb) \in WorkerStates
  BY DEF Heartbeat, Proposed, Worst, Lifecycles, Healths, WorkerStates
<1>2. QED
  BY <1>1 DEF Accepted, Demoted, MayEnter, Contained, WorkerStates, Absent

LEMMA DemotedEnters ==
    ASSUME NEW s \in WorkerStates \cup {Absent}
    PROVE  /\ Demoted(s, "quarantined") \in WorkerStates
           /\ s = "revoked" => Demoted(s, "quarantined") = "revoked"
           /\ Demoted(s, "quarantined") \in Contained
BY DEF Demoted, MayEnter, Contained, WorkerStates, Absent

\* A fleet step finds the thread at work: no operator call is in progress, or
\* one is refreshing its worker.
LEMMA FleetBusy ==
    ASSUME StateInv, FleetStep
    PROVE  /\ turn.at # "idle" /\ mode # "down" /\ call.at \in {"idle", "refresh"}
           /\ mode = "serving" =>
                turn.at \in {"poll", "persist_heartbeat", "heartbeat_event", "polled"}
BY DEF StateInv, StagesInv, FleetStep, poll_succeeded, poll_failed, register,
       persist_registration, append_registration_event, register_fails, poll_rejected,
       accept, persist_heartbeat, append_heartbeat_event, heartbeat_write_fails

\* A fleet step that leaves the process as it is and the thread at work.
LEMMA FleetKeeps ==
    ASSUME IInv, UNCHANGED plane, UNCHANGED mode,
           turn.at # "idle", mode # "down", call.at \in {"idle", "refresh"},
           FleetTypeOK', turn'.worker = turn.worker, turn'.at # "idle",
           mode = "serving" =>
             turn'.at \in {"poll", "persist_heartbeat", "heartbeat_event", "polled"},
           ContainedInMemory',
           turn'.at = "heartbeat_event" \/ (turn'.at = "polled" /\ turn'.outcome = "ok") =>
             stored'[turn.worker] = registry'[turn.worker]
    PROVE  IInv'
<1>1. call' = call /\ mode' = mode
  BY DEF plane
<1>2. TypeOK'
  BY DEF IInv, TypeOK, plane
<1>3. StagesInv'
  BY <1>1 DEF IInv, StateInv, StagesInv, Worker
<1>4. PersistedInv' /\ OfferedWhenEligible'
  BY <1>1 DEF PersistedInv, OfferedWhenEligible
<1>5. QED
  BY <1>2, <1>3, <1>4 DEF IInv, StateInv

\* The process ends: nothing runs and nothing is remembered.
LEMMA ExitInv ==
    ASSUME IInv, Exit, call' \in Call, call'.at = "idle", governed' \in Ids \cup {NoId},
           UNCHANGED <<reserved, trail, consumed, released, handled>>
    PROVE  IInv'
<1>1. FleetTypeOK'
  <2>1. FleetTypeOK
    BY DEF IInv, TypeOK
  <2>2. <<>> \in Seq(Workers)
    OBVIOUS
  <2>3. QED
    BY <2>1, <2>2, IdleTypes DEF FleetTypeOK, Exit, Modes, Absent
<1>2. TypeOK'
  BY <1>1 DEF IInv, TypeOK
<1>3. turn'.at = "idle" /\ mode' = "down"
  BY DEF Exit, IdleTurn
<1>4. StateInv'
  BY <1>3 DEF StateInv, StagesInv, ContainedInMemory, PersistedInv, OfferedWhenEligible
<1>5. QED
  BY <1>2, <1>4 DEF IInv

LEMMA StartInv == ASSUME IInv, start, UNCHANGED plane PROVE IInv'
<1> USE DEF IInv, StateInv
<1>1. FleetTypeOK /\ Bindings \in Seq(Workers) /\ Bindings # <<>>
  BY FleetAssumption DEF TypeOK
<1>2. Head(Bindings) \in Workers /\ Tail(Bindings) \in Seq(Workers)
  BY <1>1
<1>3. /\ turn' \in Turn /\ turn'.at \in {"register", "poll"}
      /\ mode' = "starting" /\ registry' = stored /\ stored' = stored /\ call' = call
  BY <1>2 DEF start, Bind, Turn, Turns, Outcomes, plane
<1>4. call.at = "idle"
  BY DEF start, StagesInv
<1>5. TypeOK'
  <2>1. FleetTypeOK'
    BY <1>1, <1>2, <1>3 DEF FleetTypeOK, start, Modes
  <2>2. QED
    BY <2>1 DEF TypeOK, plane
<1>6. StagesInv' /\ PersistedInv' /\ OfferedWhenEligible'
  BY <1>3, <1>4 DEF StagesInv, PersistedInv, OfferedWhenEligible
<1>7. ContainedInMemory'
  BY <1>3 DEF ContainedInMemory, Contained, Absent
<1>8. QED
  BY <1>5, <1>6, <1>7

\* The startup between two polls, and its end.
LEMMA StartupInv ==
    ASSUME IInv, poll_succeeded \/ poll_failed \/ register_fails, UNCHANGED plane
    PROVE  IInv'
<1>1. FleetStep
  BY DEF FleetStep
<1>2. /\ turn.at # "idle" /\ mode # "down" /\ call.at \in {"idle", "refresh"}
      /\ mode = "serving" =>
           turn.at \in {"poll", "persist_heartbeat", "heartbeat_event", "polled"}
  BY <1>1, FleetBusy DEF IInv
<1>3. TypeOK /\ StateInv /\ FleetTypeOK /\ turn \in Turn /\ mode \in Modes
  BY DEF IInv, TypeOK, FleetTypeOK
<1>4. mode = "starting" /\ call.at = "idle"
  BY <1>2, <1>3 DEF Modes, poll_succeeded, poll_failed, register_fails, StateInv, StagesInv
<1>5. call' = call /\ governed' = governed
      /\ UNCHANGED <<reserved, trail, consumed, released, handled>>
  BY DEF plane
<1>6. CASE poll_failed \/ register_fails
  <2>1. Exit
    BY <1>6 DEF poll_failed, register_fails
  <2>2. call' \in Call /\ governed' \in Ids \cup {NoId} /\ call'.at = "idle"
    BY <1>3, <1>4, <1>5 DEF TypeOK
  <2>3. QED
    BY <1>5, <2>1, <2>2, ExitInv
<1>7. CASE poll_succeeded /\ pending = <<>>
  <2>1. mode' = "serving" /\ turn' = IdleTurn /\ UNCHANGED <<pending, registry, stored, evidenced>>
    BY <1>7 DEF poll_succeeded
  <2>2. FleetTypeOK'
    BY <1>3, <2>1, IdleTypes DEF FleetTypeOK, Modes
  <2>3. TypeOK'
    BY <1>3, <2>2 DEF TypeOK, plane
  <2>4. turn'.at = "idle"
    BY <2>1 DEF IdleTurn
  <2>5. StagesInv' /\ PersistedInv' /\ OfferedWhenEligible'
    BY <1>4, <1>5, <2>1, <2>4 DEF StagesInv, PersistedInv, OfferedWhenEligible
  <2>6. ContainedInMemory'
    BY <1>3, <1>4, <2>1 DEF StateInv, ContainedInMemory
  <2>7. QED
    BY <2>3, <2>5, <2>6 DEF IInv, StateInv
<1>8. CASE poll_succeeded /\ pending # <<>>
  <2>1. pending \in Seq(Workers)
    BY <1>3 DEF FleetTypeOK
  <2>2. Head(pending) \in Workers /\ Tail(pending) \in Seq(Workers)
    BY <1>8, <2>1
  <2>3. /\ Bind(Head(pending), registry) /\ pending' = Tail(pending)
        /\ UNCHANGED <<mode, registry, stored, evidenced>>
    BY <1>8 DEF poll_succeeded
  <2>4. turn' \in Turn /\ turn'.at \in {"register", "poll"}
    BY <2>2, <2>3 DEF Bind, Turn, Turns, Outcomes
  <2>5. FleetTypeOK'
    BY <1>3, <2>2, <2>3, <2>4 DEF FleetTypeOK
  <2>6. TypeOK'
    BY <1>3, <2>5 DEF TypeOK, plane
  <2>7. StagesInv' /\ PersistedInv' /\ OfferedWhenEligible'
    BY <1>4, <1>5, <2>3, <2>4 DEF StagesInv, PersistedInv, OfferedWhenEligible
  <2>8. ContainedInMemory'
    BY <1>3, <1>4, <2>3 DEF StateInv, ContainedInMemory
  <2>9. QED
    BY <2>6, <2>7, <2>8 DEF IInv, StateInv
<1>9. QED
  BY <1>6, <1>7, <1>8

\* The registration and the heartbeat in progress.
LEMMA PollInv ==
    ASSUME IInv, UNCHANGED plane,
           \/ register \/ persist_registration \/ append_registration_event
           \/ persist_heartbeat \/ append_heartbeat_event \/ heartbeat_write_fails
           \/ \E o \in {"unavailable", "auth_failed", "invalid", "state_error"} :
                poll_rejected(o)
           \/ \E hb \in Heartbeats : accept(hb)
    PROVE  IInv'
<1>1. FleetStep
  BY DEF FleetStep
<1>2. /\ turn.at # "idle" /\ mode # "down" /\ call.at \in {"idle", "refresh"}
      /\ mode = "serving" =>
           turn.at \in {"poll", "persist_heartbeat", "heartbeat_event", "polled"}
  BY <1>1, FleetBusy DEF IInv
<1>3. /\ StateInv /\ FleetTypeOK /\ turn \in Turn /\ turn.worker \in Workers
      /\ registry \in [Workers -> WorkerStates \cup {Absent}]
      /\ stored \in [Workers -> WorkerStates \cup {Absent}]
      /\ evidenced \subseteq Workers
  BY DEF IInv, TypeOK, FleetTypeOK, Turn
<1>4. /\ ContainedInMemory /\ PersistedInv
      /\ \A w \in Workers :
           /\ stored[w] = "revoked" => registry[w] = "revoked"
           /\ stored[w] = "quarantined" => registry[w] \in Contained
           /\ registry[w] = Absent => stored[w] = Absent
  BY <1>2, <1>3 DEF StateInv, ContainedInMemory
<1>5. CASE register
  <2>1. /\ registry' = [registry EXCEPT ![turn.worker] = "registered"]
        /\ turn' = [turn EXCEPT !.at = "persist_registration"]
        /\ registry[turn.worker] = Absent /\ turn.at = "register"
        /\ UNCHANGED <<stored, evidenced, mode, pending>>
    BY <1>5 DEF register, Goto
  <2>2. FleetTypeOK'
    BY <1>3, <2>1 DEF FleetTypeOK, Turn, Turns, WorkerStates
  <2>3. ContainedInMemory'
    BY <1>3, <1>4, <2>1 DEF ContainedInMemory, Contained, Absent
  <2>4. turn'.at = "persist_registration" /\ turn'.worker = turn.worker
    BY <1>3, <2>1 DEF Turn
  <2>5. QED
    BY <1>2, <2>1, <2>2, <2>3, <2>4, FleetKeeps
<1>6. CASE persist_registration \/ persist_heartbeat
  <2>1. /\ stored' = [stored EXCEPT ![turn.worker] = registry[turn.worker]]
        /\ turn' = [turn EXCEPT !.at = turn'.at]
        /\ turn'.at \in {"registration_event", "heartbeat_event"}
        /\ turn.at = "persist_registration" => turn'.at = "registration_event"
        /\ turn.at \in {"persist_registration", "persist_heartbeat"}
        /\ turn.at = "persist_heartbeat" => turn'.at = "heartbeat_event"
        /\ UNCHANGED <<registry, evidenced, mode, pending>>
    BY <1>3, <1>6 DEF persist_registration, persist_heartbeat, Goto, Turn
  <2>2. turn' \in Turn /\ turn'.worker = turn.worker
    BY <1>3, <2>1 DEF Turn, Turns
  <2>3. FleetTypeOK'
    BY <1>3, <2>1, <2>2 DEF FleetTypeOK
  <2>4. ContainedInMemory'
    BY <1>3, <1>4, <2>1 DEF ContainedInMemory, Contained, Absent
  <2>5. stored'[turn.worker] = registry'[turn.worker]
    BY <1>3, <2>1
  <2>6. QED
    BY <1>2, <2>1, <2>2, <2>3, <2>4, <2>5, FleetKeeps
<1>7. CASE append_registration_event
  <2>1. /\ evidenced' = evidenced \cup {turn.worker}
        /\ turn' = [turn EXCEPT !.at = "poll"]
        /\ UNCHANGED <<registry, stored, mode, pending>>
    BY <1>7 DEF append_registration_event, Goto
  <2>2. turn' \in Turn /\ turn'.worker = turn.worker /\ turn'.at = "poll"
    BY <1>3, <2>1 DEF Turn, Turns
  <2>3. FleetTypeOK'
    BY <1>3, <2>1, <2>2 DEF FleetTypeOK
  <2>4. ContainedInMemory'
    BY <1>4, <2>1 DEF ContainedInMemory
  <2>5. QED
    BY <1>2, <2>1, <2>2, <2>3, <2>4, FleetKeeps
<1>8. CASE append_heartbeat_event
  <2>1. /\ turn' = [turn EXCEPT !.at = "polled"] /\ turn.at = "heartbeat_event"
        /\ UNCHANGED <<registry, stored, evidenced, mode, pending>>
    BY <1>8 DEF append_heartbeat_event, Goto
  <2>2. turn' \in Turn /\ turn'.worker = turn.worker /\ turn'.at = "polled"
    BY <1>3, <2>1 DEF Turn, Turns
  <2>3. FleetTypeOK'
    BY <1>3, <2>1, <2>2 DEF FleetTypeOK
  <2>4. ContainedInMemory' /\ stored'[turn.worker] = registry'[turn.worker]
    BY <1>4, <2>1 DEF ContainedInMemory, PersistedInv
  <2>5. QED
    BY <1>2, <2>1, <2>2, <2>3, <2>4, FleetKeeps
<1>9. CASE heartbeat_write_fails
  <2>1. /\ registry' = [registry EXCEPT ![turn.worker] = Demoted(registry[turn.worker], "quarantined")]
        /\ turn' \in Turn /\ turn'.at = "polled" /\ turn'.outcome # "ok"
        /\ turn'.worker = turn.worker
        /\ UNCHANGED <<stored, evidenced, mode, pending>>
    BY <1>3, <1>9 DEF heartbeat_write_fails, Polled, Turn, Turns, Outcomes
  <2>2. /\ Demoted(registry[turn.worker], "quarantined") \in WorkerStates \cap Contained
        /\ registry[turn.worker] = "revoked" =>
             Demoted(registry[turn.worker], "quarantined") = "revoked"
    BY <1>3, DemotedEnters
  <2>3. FleetTypeOK'
    BY <1>3, <2>1, <2>2 DEF FleetTypeOK
  <2>4. ContainedInMemory'
    BY <1>3, <1>4, <2>1, <2>2 DEF ContainedInMemory, Contained, Absent
  <2>5. QED
    BY <1>2, <2>1, <2>3, <2>4, FleetKeeps
<1>10. CASE \E o \in {"unavailable", "auth_failed", "invalid", "state_error"} : poll_rejected(o)
  <2>1. PICK o \in {"unavailable", "auth_failed", "invalid", "state_error"} : poll_rejected(o)
    BY <1>10
  <2>2. /\ turn' \in Turn /\ turn'.at = "polled" /\ turn'.outcome # "ok"
        /\ turn'.worker = turn.worker
        /\ UNCHANGED <<registry, stored, evidenced, mode, pending>>
    BY <1>3, <2>1 DEF poll_rejected, Polled, Turn, Turns, Outcomes
  <2>3. FleetTypeOK'
    BY <1>3, <2>2 DEF FleetTypeOK
  <2>4. ContainedInMemory'
    BY <1>4, <2>2 DEF ContainedInMemory
  <2>5. QED
    BY <1>2, <2>2, <2>3, <2>4, FleetKeeps
<1>11. CASE \E hb \in Heartbeats : accept(hb)
  <2>1. PICK hb \in Heartbeats : accept(hb)
    BY <1>11
  <2> DEFINE state == Accepted(registry[turn.worker], hb).state
  <2>2. /\ registry' = [registry EXCEPT ![turn.worker] = state]
        /\ turn' \in Turn /\ turn'.at = "persist_heartbeat" /\ turn'.worker = turn.worker
        /\ UNCHANGED <<stored, evidenced, mode, pending>>
    BY <1>3, <2>1 DEF accept, Turn, Turns, Outcomes
  <2>3. hb \in Heartbeat
    BY FleetAssumption
  <2>4. /\ state \in WorkerStates \cup {Absent}
        /\ registry[turn.worker] = "revoked" => state = "revoked"
        /\ registry[turn.worker] = "quarantined" => state \in Contained
        /\ state = Absent => registry[turn.worker] = Absent
    BY <1>3, <2>3, AcceptedEnters
  <2> HIDE DEF state
  <2>5. FleetTypeOK'
    BY <1>3, <2>2, <2>4 DEF FleetTypeOK
  <2>6. ContainedInMemory'
    BY <1>3, <1>4, <2>2, <2>4 DEF ContainedInMemory, Contained, Absent
  <2>7. QED
    BY <1>2, <2>2, <2>5, <2>6, FleetKeeps
<1>12. QED
  BY <1>5, <1>6, <1>7, <1>8, <1>9, <1>10, <1>11

LEMMA FleetInv == ASSUME IInv, FleetStep, UNCHANGED plane PROVE IInv'
BY StartupInv, PollInv DEF FleetStep

-----------------------------------------------------------------------------
\* Steps of the operator's path

\* The stages nothing is claimed of but their types.
PlainStages ==
    {"idle", "reserve", "replayed", "admit", "ask", "guardian", "lima", "lima_failed",
     "lima_event", "route", "demote_refresh", "demote_answer", "answered", "blocked"}

PlaneTypeOK ==
    /\ reserved \subseteq Submissions
    /\ trail \in [Ids -> Seq(ControlEvent)]
    /\ consumed \subseteq Grant
    /\ released \subseteq [grant: Grant, to: Ids]
    /\ governed \in Ids \cup {NoId}
    /\ call \in Call
    /\ handled \in Nat

\* The initial state satisfies the inductive invariant.
LEMMA InitIInv == Init => IInv
<1> SUFFICES ASSUME Init PROVE IInv
  OBVIOUS
<1> USE DEF Init, FleetInit, PlaneInit
<1>1. turn.at = "idle" /\ call.at = "idle" /\ mode = "down"
  BY NoCallIdle DEF IdleTurn
<1>2. FleetTypeOK
  <2>1. registry \in [Workers -> WorkerStates \cup {Absent}]
        /\ stored \in [Workers -> WorkerStates \cup {Absent}]
    OBVIOUS
  <2>2. pending \in Seq(Workers) /\ mode \in Modes /\ evidenced \subseteq Workers
    BY DEF Modes
  <2>3. QED
    BY <2>1, <2>2, IdleTypes DEF FleetTypeOK
<1>3. trail \in [Ids -> Seq(ControlEvent)]
  OBVIOUS
<1>4. TypeOK
  BY <1>2, <1>3, IdleTypes DEF TypeOK
<1>5. StateInv
  BY <1>1 DEF StateInv, StagesInv, ContainedInMemory, PersistedInv, OfferedWhenEligible
<1>6. QED
  BY <1>4, <1>5 DEF IInv

\* A stage the inductive invariant claims nothing of may follow any stage but
\* the refresh.
LEMMA PlainStep ==
    ASSUME IInv, UNCHANGED fleet, PlaneTypeOK',
           call.at \notin {"idle", "refresh"}, call'.at \in PlainStages
    PROVE  IInv'
<1>1. UNCHANGED <<registry, stored, evidenced, mode, pending, turn>>
  BY DEF fleet
<1>2. TypeOK'
  BY <1>1 DEF IInv, TypeOK, FleetTypeOK, PlaneTypeOK
<1>3. mode = "serving" /\ turn.at = "idle"
  BY DEF IInv, StateInv, StagesInv
<1>4. StagesInv' /\ PersistedInv' /\ OfferedWhenEligible'
  BY <1>1, <1>3 DEF StagesInv, PersistedInv, OfferedWhenEligible, PlainStages
<1>5. ContainedInMemory'
  BY <1>1 DEF IInv, StateInv, ContainedInMemory
<1>6. QED
  BY <1>2, <1>4, <1>5 DEF IInv, StateInv

\* Nothing between the look at the worker and its answer touches the worker.
LEMMA OfferStep ==
    ASSUME IInv, UNCHANGED fleet, PlaneTypeOK',
           call.at \in OfferStages, call'.at \in OfferStages, call'.sub = call.sub
    PROVE  IInv'
<1>1. UNCHANGED <<registry, stored, evidenced, mode, pending, turn>>
  BY DEF fleet
<1>2. TypeOK'
  BY <1>1 DEF IInv, TypeOK, FleetTypeOK, PlaneTypeOK
<1>3. mode = "serving" /\ turn.at = "idle"
  BY DEF IInv, StateInv, StagesInv, OfferStages
<1>4. StagesInv' /\ PersistedInv'
  BY <1>1, <1>3 DEF StagesInv, PersistedInv, OfferStages
<1>5. OfferedWhenEligible'
  BY <1>1, <1>3 DEF IInv, StateInv, OfferedWhenEligible, OfferStages, Assignable, Worker
<1>6. ContainedInMemory'
  BY <1>1 DEF IInv, StateInv, ContainedInMemory
<1>7. QED
  BY <1>2, <1>4, <1>5, <1>6 DEF IInv, StateInv

\* An event recorded at the end of a submission.
LEMMA ReturnStep ==
    ASSUME IInv, UNCHANGED <<fleet, reserved, consumed, governed, handled>>,
           released' \subseteq [grant: Grant, to: Ids],
           call.at \notin {"idle", "refresh"},
           NEW type \in EventTypes, NEW outcome \in EventOutcomes, NEW parent \in Nat,
           append_and_return(type, outcome, parent)
    PROVE  IInv'
<1>1. TypeOK /\ call \in Call
  BY DEF IInv, TypeOK
<1>2. trail' \in [Ids -> Seq(ControlEvent)]
  BY <1>1, AppendType DEF append_and_return
<1>3. call' \in Call /\ call'.at \in {"idle", "reserve"}
  BY <1>1, ReturnedType DEF append_and_return
<1>4. PlaneTypeOK'
  BY <1>1, <1>2, <1>3 DEF TypeOK, PlaneTypeOK
<1>5. QED
  BY <1>3, <1>4, PlainStep DEF PlainStages

\* An event recorded on the way, to a stage nothing is claimed of.
LEMMA RecordStep ==
    ASSUME IInv, UNCHANGED <<fleet, reserved, consumed, released, governed, handled>>,
           call.at \notin {"idle", "refresh"},
           NEW type \in EventTypes, NEW outcome \in EventOutcomes,
           NEW s \in PlainStages, append_and_go(type, outcome, s)
    PROVE  IInv'
<1>1. TypeOK
  BY DEF IInv
<1>2. s \in Stages
  BY DEF PlainStages, Stages
<1>3. trail' \in [Ids -> Seq(ControlEvent)] /\ call' \in Call /\ call'.at = s
  BY <1>1, <1>2, GoType
<1>4. PlaneTypeOK'
  BY <1>1, <1>3 DEF TypeOK, PlaneTypeOK
<1>5. QED
  BY <1>3, <1>4, PlainStep

\* An offer is recorded on the way from one of its stages to the next.
LEMMA OfferEvent ==
    ASSUME IInv, UNCHANGED <<fleet, reserved, consumed, released, governed, handled>>,
           call.at \in OfferStages,
           NEW type \in EventTypes, NEW outcome \in EventOutcomes,
           NEW s \in OfferStages, append_and_go(type, outcome, s)
    PROVE  IInv'
<1>1. TypeOK
  BY DEF IInv
<1>2. s \in Stages
  BY DEF OfferStages, Stages
<1>3. /\ trail' \in [Ids -> Seq(ControlEvent)] /\ call' \in Call
      /\ call'.at = s /\ call'.sub = call.sub
  BY <1>1, <1>2, GoType
<1>4. PlaneTypeOK'
  BY <1>1, <1>3 DEF TypeOK, PlaneTypeOK
<1>5. QED
  BY <1>3, <1>4, OfferStep

\* The call moves on and nothing of the process but the call changes.
LEMMA NowStep ==
    ASSUME IInv, UNCHANGED <<fleet, reserved, trail, consumed, released, governed, handled>>,
           call.at \notin {"idle", "refresh"}, NEW s \in PlainStages, Now(s)
    PROVE  IInv'
<1>1. TypeOK /\ call \in Call
  BY DEF IInv, TypeOK
<1>2. s \in Stages
  BY DEF PlainStages, Stages
<1>3. call' \in Call /\ call'.at = s
  BY <1>1, <1>2, NowType
<1>4. PlaneTypeOK'
  BY <1>1, <1>3 DEF TypeOK, PlaneTypeOK
<1>5. QED
  BY <1>3, <1>4, PlainStep

\* Reservation and admission.
LEMMA ReserveInv ==
    ASSUME IInv, reserve_request \/ reject_replay \/ admit \/ request_guardian
    PROVE  IInv'
<1>1. TypeOK /\ call \in Call /\ call.sub \in Submissions
  BY DEF IInv, TypeOK, Call
<1>2. CASE reserve_request /\ Reservable(call.sub)
  <2>1. /\ UNCHANGED <<fleet, trail, consumed, released, governed, handled>>
        /\ reserved' = reserved \cup {call.sub} /\ Now("admit") /\ call.at = "reserve"
    BY <1>2 DEF reserve_request, At
  <2>2. call' \in Call /\ call'.at = "admit"
    BY <1>1, <2>1, NowType DEF Stages
  <2>3. PlaneTypeOK'
    BY <1>1, <2>1, <2>2 DEF TypeOK, PlaneTypeOK
  <2>4. QED
    BY <2>1, <2>2, <2>3, PlainStep DEF PlainStages
<1>3. CASE reserve_request /\ ~Reservable(call.sub)
  <2>1. Now("replayed") /\ call.at = "reserve"
        /\ UNCHANGED <<fleet, reserved, trail, consumed, released, governed, handled>>
    BY <1>3 DEF reserve_request, At
  <2>2. QED
    BY <2>1, NowStep DEF PlainStages
<1>4. CASE reject_replay
  <2>1. /\ append_and_return("replay_rejected", "denied", 0) /\ call.at = "replayed"
        /\ UNCHANGED <<fleet, reserved, consumed, released, governed, handled>>
    BY <1>4 DEF reject_replay, At
  <2>2. QED
    BY <1>1, <2>1, ReturnStep DEF EventTypes, EventOutcomes, LimaStatuses, TypeOK
<1>5. CASE admit /\ call.sub.permitted
  <2>1. /\ append_and_go("request_received", "received", "ask") /\ call.at = "admit"
        /\ UNCHANGED <<fleet, reserved, consumed, released, governed, handled>>
    BY <1>5 DEF admit, At
  <2>2. QED
    BY <2>1, RecordStep DEF EventTypes, EventOutcomes, PlainStages
<1>6. CASE admit /\ ~call.sub.permitted
  <2>1. /\ append_and_return("denial", "denied", 0) /\ call.at = "admit"
        /\ UNCHANGED <<fleet, reserved, consumed, released, governed, handled>>
    BY <1>6 DEF admit, At
  <2>2. QED
    BY <1>1, <2>1, ReturnStep DEF EventTypes, EventOutcomes, LimaStatuses, TypeOK
<1>7. CASE request_guardian
  <2>1. /\ append_and_go("guardian_request", "received", "guardian") /\ call.at = "ask"
        /\ UNCHANGED <<fleet, reserved, consumed, released, governed, handled>>
    BY <1>7 DEF request_guardian, At
  <2>2. QED
    BY <2>1, RecordStep DEF EventTypes, EventOutcomes, PlainStages
<1>8. QED
  BY <1>2, <1>3, <1>4, <1>5, <1>6, <1>7

\* Guardian and LIMA.
LEMMA DecisionInv ==
    ASSUME IInv,
           \/ \E d \in GuardianDecisions : guardian_decides(d)
           \/ guardian_unavailable
           \/ \E d \in LimaStatuses : run_lima(d)
           \/ run_lima_fails
    PROVE  IInv'
<1>1. TypeOK /\ call \in Call /\ call.parent \in Nat /\ call.sub \in Submissions
  BY DEF IInv, TypeOK, Call
<1>2. Id \in Ids
  BY <1>1, SubmissionTypes DEF Id
<1>3. CASE \E d \in GuardianDecisions : guardian_decides(d)
  <2>1. PICK d \in GuardianDecisions : guardian_decides(d)
    BY <1>3
  <2> DEFINE outcome == guardian_outcome(d)
  <2>2. outcome \in EventOutcomes
    BY DEF guardian_outcome, GuardianDecisions, EventOutcomes, LimaStatuses
  <2>3. /\ append_event("guardian_decision", outcome, call.parent) /\ call.at = "guardian"
        /\ call' = [call EXCEPT !.at = "lima", !.parent = Len(trail[Id]) + 1,
                                !.guardian = d]
        /\ UNCHANGED <<fleet, reserved, consumed, released, governed, handled>>
    BY <2>1 DEF guardian_decides, At
  <2> HIDE DEF outcome
  <2>4. trail' \in [Ids -> Seq(ControlEvent)]
    BY <1>1, <2>2, <2>3, AppendType DEF EventTypes
  <2>5. Len(trail[Id]) + 1 \in Nat
    BY <1>1, <1>2 DEF TypeOK
  <2>6. call' \in Call /\ call'.at = "lima"
    BY <1>1, <2>3, <2>5 DEF Call, Stages
  <2>7. PlaneTypeOK'
    BY <1>1, <2>3, <2>4, <2>6 DEF TypeOK, PlaneTypeOK
  <2>8. QED
    BY <2>3, <2>6, <2>7, PlainStep DEF PlainStages
<1>4. CASE guardian_unavailable
  <2>1. /\ append_and_return("denial", "denied", call.parent) /\ call.at = "guardian"
        /\ UNCHANGED <<fleet, reserved, consumed, released, governed, handled>>
    BY <1>4 DEF guardian_unavailable, At
  <2>2. QED
    BY <1>1, <2>1, ReturnStep DEF EventTypes, EventOutcomes, LimaStatuses, TypeOK
<1>5. CASE \E d \in LimaStatuses : run_lima(d)
  <2>1. PICK d \in LimaStatuses : run_lima(d)
    BY <1>5
  <2>2. /\ call' = [call EXCEPT !.at = "lima_event", !.lima = d] /\ call.at = "lima"
        /\ governed' = Id
        /\ UNCHANGED <<fleet, reserved, trail, consumed, released, handled>>
    BY <2>1 DEF run_lima, At
  <2>3. call' \in Call /\ call'.at = "lima_event"
    BY <1>1, <2>2 DEF Call, Stages
  <2>4. PlaneTypeOK'
    BY <1>1, <1>2, <2>2, <2>3 DEF TypeOK, PlaneTypeOK
  <2>5. QED
    BY <2>2, <2>3, <2>4, PlainStep DEF PlainStages
<1>6. CASE run_lima_fails
  <2>1. /\ governed' = NoId /\ Now("lima_failed") /\ call.at = "lima"
        /\ UNCHANGED <<fleet, reserved, trail, consumed, released, handled>>
    BY <1>6 DEF run_lima_fails, At
  <2>2. call' \in Call /\ call'.at = "lima_failed"
    BY <1>1, <2>1, NowType DEF Stages
  <2>3. PlaneTypeOK'
    BY <1>1, <2>1, <2>2 DEF TypeOK, PlaneTypeOK
  <2>4. QED
    BY <2>1, <2>2, <2>3, PlainStep DEF PlainStages
<1>7. QED
  BY <1>3, <1>4, <1>5, <1>6

\* The events that end a submission before an offer, and a failed write.
LEMMA RefusalInv ==
    ASSUME IInv,
           fail_closed \/ append_lima_event \/ stop_before_assignment \/ append_block
           \/ write_fails
    PROVE  IInv'
<1>1. /\ TypeOK /\ call \in Call /\ call.parent \in Nat /\ call.sub \in Submissions
      /\ call.guardian \in GuardianDecisions /\ call.lima \in LimaStatuses
  BY DEF IInv, TypeOK, Call
<1>2. CASE fail_closed
  <2>1. /\ append_and_return("failure", "failed_closed", call.parent)
        /\ call.at = "lima_failed"
        /\ UNCHANGED <<fleet, reserved, consumed, released, governed, handled>>
    BY <1>2 DEF fail_closed, At
  <2>2. QED
    BY <1>1, <2>1, ReturnStep DEF EventTypes, EventOutcomes, TypeOK
<1>3. CASE append_lima_event
  <2>1. /\ append_and_go("lima_decision", call.lima, "route") /\ call.at = "lima_event"
        /\ UNCHANGED <<fleet, reserved, consumed, released, governed, handled>>
    BY <1>3 DEF append_lima_event, At
  <2>2. call.lima \in EventOutcomes
    BY <1>1 DEF EventOutcomes
  <2>3. QED
    BY <2>1, <2>2, RecordStep DEF EventTypes, PlainStages
<1>4. CASE stop_before_assignment
  <2> DEFINE type == IF Status = "denied" THEN "denial" ELSE "approval_requested"
             status == Status
  <2>1. status \in EventOutcomes
    BY <1>1 DEF Status, combined_status, GuardianDecisions, LimaStatuses, EventOutcomes
  <2>2. type \in EventTypes
    BY DEF EventTypes
  <2>3. /\ append_and_return(type, status, call.parent) /\ call.at = "route"
        /\ UNCHANGED <<fleet, reserved, consumed, released, governed, handled>>
    BY <1>4 DEF stop_before_assignment, At
  <2> HIDE DEF type, status
  <2>4. QED
    BY <1>1, <2>1, <2>2, <2>3, ReturnStep DEF TypeOK
<1>5. CASE append_block
  <2> DEFINE parent == latest_event_id
  <2>1. Id \in Ids
    BY <1>1, SubmissionTypes DEF Id
  <2>2. parent \in Nat
    BY <1>1, <2>1 DEF latest_event_id, TypeOK
  <2>3. /\ append_and_return("denial", "blocked", parent) /\ call.at = "blocked"
        /\ UNCHANGED <<fleet, reserved, consumed, released, governed, handled>>
    BY <1>5 DEF append_block, At
  <2> HIDE DEF parent
  <2>4. QED
    BY <1>1, <2>2, <2>3, ReturnStep DEF EventTypes, EventOutcomes, TypeOK
<1>6. CASE write_fails
  <2>1. /\ call.at \notin {"idle", "refresh"} /\ call' = NoCall
        /\ UNCHANGED <<fleet, reserved, trail, consumed, released, governed, handled>>
    BY <1>6 DEF write_fails, WriteStages, At
  <2>2. PlaneTypeOK'
    BY <1>1, <2>1, IdleTypes DEF TypeOK, PlaneTypeOK
  <2>3. QED
    BY <2>1, <2>2, NoCallIdle, PlainStep DEF PlainStages
<1>7. QED
  BY <1>2, <1>3, <1>4, <1>5, <1>6

\* The grant and the preview.
LEMMA OfferInv ==
    ASSUME IInv,
           \/ \E g \in Grant : issue_execution_grant(g)
           \/ issuer_fails \/ append_grant_event \/ offer
    PROVE  IInv'
<1>1. TypeOK /\ call \in Call /\ call.sub \in Submissions
  BY DEF IInv, TypeOK, Call
<1>2. Id \in Ids
  BY <1>1, SubmissionTypes DEF Id
<1>3. CASE \E g \in Grant : issue_execution_grant(g)
  <2>1. PICK g \in Grant : issue_execution_grant(g)
    BY <1>3
  <2>2. [g EXCEPT !.request = Id] \in Grant
    BY <1>2 DEF Grant
  <2>3. consumed' \subseteq Grant
    BY <1>1, <2>1, <2>2 DEF issue_execution_grant, TypeOK
  <2>4. /\ call' = [call EXCEPT !.at = "grant_event", !.grant = {g}] \/ Now("offer")
        /\ call.at = "mint"
        /\ UNCHANGED <<fleet, reserved, trail, released, governed, handled>>
    BY <2>1 DEF issue_execution_grant, At
  <2>5. call' \in Call /\ call'.at \in OfferStages /\ call'.sub = call.sub
    <3>1. CASE Now("offer")
      BY <1>1, <3>1, NowType DEF Stages, OfferStages
    <3>2. CASE call' = [call EXCEPT !.at = "grant_event", !.grant = {g}]
      BY <1>1, <3>2 DEF Call, Stages, OfferStages
    <3>3. QED
      BY <2>4, <3>1, <3>2
  <2>6. PlaneTypeOK'
    BY <1>1, <2>3, <2>4, <2>5 DEF TypeOK, PlaneTypeOK
  <2>7. QED
    BY <2>4, <2>5, <2>6, OfferStep DEF OfferStages
<1>4. CASE issuer_fails
  <2>1. /\ Now("offer") /\ call.at = "mint"
        /\ UNCHANGED <<fleet, reserved, trail, consumed, released, governed, handled>>
    BY <1>4 DEF issuer_fails, At
  <2>2. call' \in Call /\ call'.at = "offer" /\ call'.sub = call.sub
    BY <1>1, <2>1, NowType DEF Stages
  <2>3. PlaneTypeOK'
    BY <1>1, <2>1, <2>2 DEF TypeOK, PlaneTypeOK
  <2>4. QED
    BY <2>1, <2>2, <2>3, OfferStep DEF OfferStages
<1>5. CASE append_grant_event
  <2>1. /\ append_and_go("execution_grant_issued", "allowed_dry_run", "offer")
        /\ call.at = "grant_event"
        /\ UNCHANGED <<fleet, reserved, consumed, released, governed, handled>>
    BY <1>5 DEF append_grant_event, At
  <2>2. QED
    BY <2>1, OfferEvent DEF EventTypes, EventOutcomes, LimaStatuses, OfferStages
<1>6. CASE offer
  <2>1. /\ append_and_go("assignment_preview", "allowed_dry_run", "acknowledge")
        /\ call.at = "offer"
        /\ UNCHANGED <<fleet, reserved, consumed, released, governed, handled>>
    BY <1>6 DEF offer, At
  <2>2. QED
    BY <2>1, OfferEvent DEF EventTypes, EventOutcomes, LimaStatuses, OfferStages
<1>7. QED
  BY <1>3, <1>4, <1>5, <1>6

\* update_state respects containment.
LEMMA UpdateContains ==
    ASSUME IInv, mode # "down", NEW w \in Workers, NEW s \in {"offline", "quarantined"},
           update_state(w, s), UNCHANGED <<stored, mode>>
    PROVE  /\ registry' \in [Workers -> WorkerStates \cup {Absent}]
           /\ ContainedInMemory'
<1>1. registry \in [Workers -> WorkerStates \cup {Absent}]
  BY DEF IInv, TypeOK, FleetTypeOK
<1>2. registry' = [registry EXCEPT ![w] = s] /\ MayEnter(registry[w], s)
  BY DEF update_state
<1>3. ContainedInMemory
  BY DEF IInv, StateInv
<1>4. registry' \in [Workers -> WorkerStates \cup {Absent}]
  BY <1>1, <1>2 DEF WorkerStates
<1>5. ContainedInMemory'
  BY <1>1, <1>2, <1>3 DEF ContainedInMemory, MayEnter, Contained, Absent
<1>6. QED
  BY <1>4, <1>5

LEMMA DemotionStates == \A d \in Demotions : d[2] \in {"offline", "quarantined"}
BY DEF Demotions

\* The first look at the worker, and the refresh it begins.
LEMMA RouteInv == ASSUME IInv, route_assignment PROVE IInv'
<1>1. TypeOK /\ FleetTypeOK /\ call \in Call /\ call.sub \in Submissions
  BY DEF IInv, TypeOK, Call
<1>2. mode = "serving" /\ turn.at = "idle" /\ call.at = "route"
  BY DEF route_assignment, At, IInv, StateInv, StagesInv
<1>3. CASE Now("blocked") /\ UNCHANGED turn
  <2>1. UNCHANGED <<fleet, reserved, trail, consumed, released, governed, handled>>
    BY <1>3 DEF route_assignment, fleet
  <2>2. QED
    BY <1>2, <1>3, <2>1, NowStep DEF PlainStages
<1>4. CASE /\ Now("refresh")
           /\ turn' = [at |-> "poll", worker |-> Worker, outcome |-> "ok"]
  <2>1. UNCHANGED <<registry, stored, evidenced, mode, pending,
                    reserved, trail, consumed, released, governed, handled>>
    BY DEF route_assignment
  <2>2. call' \in Call /\ call'.at = "refresh" /\ call'.sub = call.sub
    BY <1>1, <1>4, NowType DEF Stages
  <2>3. Worker \in Workers /\ Worker' = Worker
    BY <1>1, <2>2, SubmissionTypes DEF Worker
  <2>4. turn' \in Turn /\ turn'.at = "poll" /\ turn'.worker = Worker
    BY <1>4, <2>3 DEF Turn, Turns, Outcomes
  <2>5. FleetTypeOK'
    BY <1>1, <2>1, <2>4 DEF FleetTypeOK
  <2>6. TypeOK'
    BY <1>1, <2>1, <2>2, <2>5 DEF TypeOK
  <2>7. StagesInv' /\ PersistedInv' /\ OfferedWhenEligible'
    BY <1>2, <2>1, <2>2, <2>3, <2>4 DEF StagesInv, PersistedInv, OfferedWhenEligible
  <2>8. ContainedInMemory'
    BY <2>1 DEF IInv, StateInv, ContainedInMemory
  <2>9. QED
    BY <2>6, <2>7, <2>8 DEF IInv, StateInv
<1>5. QED
  BY <1>3, <1>4 DEF route_assignment

\* The refresh is over: the thread turns back to the submission.
LEMMA RefreshedStep ==
    ASSUME IInv, NEW o, Refresher(o), call' \in Call,
           registry' \in [Workers -> WorkerStates \cup {Absent}], ContainedInMemory',
           call'.at \in {"idle", "refreshed", "demote_refresh"},
           call'.at = "refreshed" /\ call'.outcome = "received" =>
             stored[Worker'] = registry'[Worker']
    PROVE  IInv'
<1>1. TypeOK /\ FleetTypeOK
  BY DEF IInv, TypeOK
<1>2. /\ UNCHANGED <<stored, evidenced, mode, pending,
                     reserved, trail, consumed, released, governed, handled>>
      /\ turn' = IdleTurn /\ call.at = "refresh"
  BY DEF Refresher, At
<1>3. mode = "serving" /\ turn'.at = "idle"
  BY <1>2 DEF IInv, StateInv, StagesInv, IdleTurn
<1>4. FleetTypeOK'
  BY <1>1, <1>2, IdleTypes DEF FleetTypeOK
<1>5. TypeOK'
  BY <1>1, <1>2, <1>4 DEF TypeOK
<1>6. StagesInv' /\ PersistedInv' /\ OfferedWhenEligible'
  BY <1>2, <1>3 DEF StagesInv, PersistedInv, OfferedWhenEligible
<1>7. QED
  BY <1>5, <1>6 DEF IInv, StateInv

\* The ways a refresh ends.
LEMMA RefreshInv ==
    ASSUME IInv,
           \/ \E o \in {"ok", "state_error"} : refresher_returns(o)
           \/ \E d \in Demotions : refresher_demotes(d[1], d[2])
           \/ \E o \in Uncaught : refresher_aborts(o)
    PROVE  IInv'
<1>1. /\ call \in Call /\ call.sub \in Submissions /\ Worker \in Workers
      /\ registry \in [Workers -> WorkerStates \cup {Absent}]
      /\ ContainedInMemory
  BY SubmissionTypes DEF IInv, StateInv, TypeOK, FleetTypeOK, Call, Worker
<1>2. CASE \E o \in {"ok", "state_error"} : refresher_returns(o)
  <2>1. PICK o \in {"ok", "state_error"} : refresher_returns(o)
    BY <1>2
  <2> DEFINE outcome == IF o = "ok" THEN "received" ELSE "blocked"
  <2>2. outcome \in EventOutcomes /\ (outcome = "received" => o = "ok")
    BY DEF EventOutcomes
  <2>3. /\ Refresher(o) /\ UNCHANGED <<registry, stored, mode>>
        /\ call' = [call EXCEPT !.at = "refreshed", !.outcome = outcome]
        /\ call.at = "refresh" /\ turn.at = "polled" /\ turn.outcome = o
    BY <2>1 DEF refresher_returns, Refresher, At
  <2> HIDE DEF outcome
  <2>4. /\ call' \in Call /\ call'.at = "refreshed" /\ call'.outcome = outcome
        /\ Worker' = Worker
    BY <1>1, <2>2, <2>3 DEF Call, Stages, Worker
  <2>5. o = "ok" => stored[Worker] = registry[Worker]
    BY <2>3 DEF IInv, StateInv, StagesInv, PersistedInv
  <2>6. ContainedInMemory'
    BY <1>1, <2>3 DEF ContainedInMemory
  <2>7. QED
    BY <1>1, <2>2, <2>3, <2>4, <2>5, <2>6, RefreshedStep
<1>3. CASE \E d \in Demotions : refresher_demotes(d[1], d[2])
  <2>1. PICK d \in Demotions : refresher_demotes(d[1], d[2])
    BY <1>3
  <2> DEFINE o == d[1]
             s == d[2]
  <2>2. s \in {"offline", "quarantined"}
    BY DemotionStates
  <2>3. /\ Refresher(o) /\ UNCHANGED <<stored, mode>> /\ update_state(Worker, s)
        /\ call' = [call EXCEPT !.at = "demote_refresh", !.outcome = "blocked"]
        /\ call.at = "refresh"
    BY <2>1 DEF refresher_demotes, Refresher, At
  <2> HIDE DEF o, s
  <2>4. call' \in Call /\ call'.at = "demote_refresh"
    BY <1>1, <2>3 DEF Call, Stages, EventOutcomes
  <2>5. mode # "down"
    BY <2>3 DEF IInv, StateInv, StagesInv
  <2>6. registry' \in [Workers -> WorkerStates \cup {Absent}] /\ ContainedInMemory'
    BY <1>1, <2>2, <2>3, <2>5, UpdateContains
  <2>7. QED
    BY <2>3, <2>4, <2>6, RefreshedStep
<1>4. CASE \E o \in Uncaught : refresher_aborts(o)
  <2>1. PICK o \in Uncaught : refresher_aborts(o)
    BY <1>4
  <2>2. Refresher(o) /\ UNCHANGED <<registry, stored, mode>> /\ call' = NoCall
    BY <2>1 DEF refresher_aborts, Refresher
  <2>3. call' \in Call /\ call'.at = "idle"
    BY <2>2, IdleTypes, NoCallIdle
  <2>4. ContainedInMemory'
    BY <1>1, <2>2 DEF ContainedInMemory
  <2>5. QED
    BY <1>1, <2>2, <2>3, <2>4, RefreshedStep
<1>5. QED
  BY <1>2, <1>3, <1>4

\* A demotion is persisted.
LEMMA PersistWorkerInv ==
    ASSUME IInv,
           \/ persist_worker("demote_refresh", "refreshed")
           \/ persist_worker("demote_answer", "answered")
    PROVE  IInv'
<1>1. PICK to \in {"refreshed", "answered"} :
        /\ call.at \in {"demote_refresh", "demote_answer"}
        /\ stored' = [stored EXCEPT ![Worker] = registry[Worker]] /\ Now(to)
        /\ UNCHANGED <<registry, evidenced, mode, pending, turn,
                       reserved, trail, consumed, released, governed, handled>>
  BY DEF persist_worker, At
<1>2. /\ TypeOK /\ FleetTypeOK /\ call \in Call /\ Worker \in Workers
      /\ registry \in [Workers -> WorkerStates \cup {Absent}]
      /\ stored \in [Workers -> WorkerStates \cup {Absent}]
  BY SubmissionTypes DEF IInv, TypeOK, FleetTypeOK, Call, Worker
<1>3. mode = "serving" /\ turn.at = "idle" /\ ContainedInMemory
  BY <1>1 DEF IInv, StateInv, StagesInv
<1>4. call' \in Call /\ call'.at = to /\ Worker' = Worker
  BY <1>1, <1>2, NowType DEF Stages, Worker
<1>5. TypeOK'
  <2>1. stored' \in [Workers -> WorkerStates \cup {Absent}]
    BY <1>1, <1>2
  <2>2. FleetTypeOK'
    BY <1>1, <1>2, <2>1 DEF FleetTypeOK
  <2>3. QED
    BY <1>1, <1>2, <1>4, <2>2 DEF TypeOK
<1>6. ContainedInMemory'
  BY <1>1, <1>2, <1>3 DEF ContainedInMemory, Contained, Absent
<1>7. stored'[Worker'] = registry'[Worker']
  BY <1>1, <1>2, <1>4
<1>8. StagesInv' /\ PersistedInv' /\ OfferedWhenEligible'
  BY <1>1, <1>3, <1>4, <1>7 DEF StagesInv, PersistedInv, OfferedWhenEligible
<1>9. QED
  BY <1>5, <1>6, <1>8 DEF IInv, StateInv

\* The second look at the worker.
LEMMA EligibleInv == ASSUME IInv, append_refresh_event \/ eligible PROVE IInv'
<1>1. /\ TypeOK /\ FleetTypeOK /\ call \in Call /\ call.parent \in Nat
      /\ call.outcome \in EventOutcomes
  BY DEF IInv, TypeOK, Call
<1>2. UNCHANGED <<fleet, reserved, consumed, released, governed, handled>>
      /\ call.at \in {"refreshed", "eligible"}
  BY DEF append_refresh_event, eligible, At
<1>3. UNCHANGED <<registry, stored, evidenced, mode, pending, turn>>
  BY <1>2 DEF fleet
<1>4. mode = "serving" /\ turn.at = "idle" /\ ContainedInMemory'
  BY <1>2, <1>3 DEF IInv, StateInv, StagesInv, ContainedInMemory
<1>5. ASSUME call' \in Call, trail' \in [Ids -> Seq(ControlEvent)]
      PROVE  TypeOK' /\ PlaneTypeOK'
  BY <1>1, <1>2, <1>3, <1>5 DEF TypeOK, FleetTypeOK, PlaneTypeOK
<1>6. CASE append_refresh_event /\ call.outcome = "received"
  <2>1. append_and_go("worker_heartbeat", "received", "eligible") /\ call.at = "refreshed"
    BY <1>6 DEF append_refresh_event, At
  <2>2. /\ trail' \in [Ids -> Seq(ControlEvent)]
        /\ call' \in Call /\ call'.at = "eligible" /\ call'.sub = call.sub
    BY <1>1, <2>1, GoType DEF EventTypes, EventOutcomes, Stages
  <2>3. stored[Worker] = registry[Worker] /\ Worker' = Worker
    BY <1>6, <2>1, <2>2 DEF IInv, StateInv, PersistedInv, Worker
  <2>4. StagesInv' /\ PersistedInv' /\ OfferedWhenEligible'
    BY <1>3, <1>4, <2>2, <2>3 DEF StagesInv, PersistedInv, OfferedWhenEligible
  <2>5. QED
    BY <1>4, <1>5, <2>2, <2>4 DEF IInv, StateInv
<1>7. CASE append_refresh_event /\ call.outcome # "received"
  <2>1. append_event("worker_heartbeat", "blocked", call.parent) /\ Now("blocked")
    BY <1>7 DEF append_refresh_event
  <2>2. trail' \in [Ids -> Seq(ControlEvent)]
    BY <1>1, <2>1, AppendType DEF EventTypes, EventOutcomes
  <2>3. call' \in Call /\ call'.at = "blocked"
    BY <1>1, <2>1, NowType DEF Stages
  <2>4. QED
    BY <1>2, <1>5, <2>2, <2>3, PlainStep DEF PlainStages
<1>8. CASE eligible
  <2>1. PICK to \in {"blocked", "mint", "offer"} :
          Now(to) /\ (to # "blocked" => Assignable(Worker))
    BY <1>8 DEF eligible
  <2>2. call.at = "eligible" /\ UNCHANGED trail
    BY <1>8 DEF eligible, At
  <2>3. call' \in Call /\ call'.at = to /\ call'.sub = call.sub
    BY <1>1, <2>1, NowType DEF Stages
  <2>4. TypeOK' /\ PlaneTypeOK'
    BY <1>1, <1>5, <2>2, <2>3 DEF TypeOK
  <2>5. CASE to = "blocked"
    BY <1>2, <2>3, <2>4, <2>5, PlainStep DEF PlainStages
  <2>6. CASE to # "blocked"
    <3>1. stored[Worker] = registry[Worker] /\ Worker' = Worker
      BY <2>2, <2>3 DEF IInv, StateInv, PersistedInv, Worker
    <3>2. StagesInv' /\ PersistedInv'
      BY <1>3, <1>4, <2>3, <2>6 DEF StagesInv, PersistedInv
    <3>3. OfferedWhenEligible'
      BY <1>3, <1>4, <2>1, <2>6, <3>1 DEF OfferedWhenEligible, Assignable
    <3>4. QED
      BY <1>4, <2>4, <3>2, <3>3 DEF IInv, StateInv
  <2>7. QED
    BY <2>5, <2>6
<1>9. QED
  BY <1>6, <1>7, <1>8

\* The worker's answer to the preview.
LEMMA AcknowledgeInv ==
    ASSUME IInv,
           \/ \E o \in {"acknowledged", "rejected", "failed_closed"} : endpoint_answers(o)
           \/ \E d \in Demotions : endpoint_demotes(d[2])
           \/ append_acknowledgement
    PROVE  IInv'
<1>1. /\ TypeOK /\ FleetTypeOK /\ call \in Call /\ call.sub \in Submissions
      /\ call.parent \in Nat /\ call.outcome \in EventOutcomes /\ call.grant \subseteq Grant
  BY DEF IInv, TypeOK, Call
<1>2. Worker \in Workers /\ Id \in Ids
  BY <1>1, SubmissionTypes DEF Worker, Id
<1>3. CASE \E o \in {"acknowledged", "rejected", "failed_closed"} : endpoint_answers(o)
  <2>1. PICK o \in {"acknowledged", "rejected", "failed_closed"} : endpoint_answers(o)
    BY <1>3
  <2>2. /\ call' = [call EXCEPT !.at = "answered", !.outcome = o] /\ call.at = "acknowledge"
        /\ UNCHANGED <<fleet, reserved, trail, consumed, released, governed, handled>>
    BY <2>1 DEF endpoint_answers, At
  <2>3. call' \in Call /\ call'.at = "answered"
    BY <1>1, <2>2 DEF Call, Stages, EventOutcomes
  <2>4. PlaneTypeOK'
    BY <1>1, <2>2, <2>3 DEF TypeOK, PlaneTypeOK
  <2>5. QED
    BY <2>2, <2>3, <2>4, PlainStep DEF PlainStages
<1>4. CASE \E d \in Demotions : endpoint_demotes(d[2])
  <2>1. PICK d \in Demotions : endpoint_demotes(d[2])
    BY <1>4
  <2> DEFINE s == d[2]
  <2>2. s \in {"offline", "quarantined"}
    BY DemotionStates
  <2>3. /\ call' = [call EXCEPT !.at = "demote_answer", !.outcome = "blocked"]
        /\ call.at = "acknowledge" /\ update_state(Worker, s)
        /\ UNCHANGED <<stored, evidenced, mode, pending, turn,
                       reserved, trail, consumed, released, governed, handled>>
    BY <2>1 DEF endpoint_demotes, At
  <2> HIDE DEF s
  <2>4. mode = "serving" /\ turn.at = "idle"
    BY <2>3 DEF IInv, StateInv, StagesInv
  <2>5. registry' \in [Workers -> WorkerStates \cup {Absent}] /\ ContainedInMemory'
    BY <1>2, <2>2, <2>3, <2>4, UpdateContains
  <2>6. call' \in Call /\ call'.at = "demote_answer"
    BY <1>1, <2>3 DEF Call, Stages, EventOutcomes
  <2>7. FleetTypeOK'
    BY <1>1, <2>3, <2>5 DEF FleetTypeOK
  <2>8. TypeOK'
    BY <1>1, <2>3, <2>6, <2>7 DEF TypeOK
  <2>9. StagesInv' /\ PersistedInv' /\ OfferedWhenEligible'
    BY <2>3, <2>4, <2>6 DEF StagesInv, PersistedInv, OfferedWhenEligible
  <2>10. QED
    BY <2>5, <2>8, <2>9 DEF IInv, StateInv
<1>5. CASE append_acknowledgement
  <2> DEFINE outcome == call.outcome
  <2>1. /\ append_and_return("worker_acknowledgement", outcome, call.parent)
        /\ call.at = "answered"
        /\ UNCHANGED <<fleet, reserved, consumed, governed, handled>>
    BY <1>5 DEF append_acknowledgement, At
  <2>2. released' \subseteq [grant: Grant, to: Ids]
    BY <1>1, <1>2, <1>5 DEF append_acknowledgement, TypeOK
  <2>3. outcome \in EventOutcomes
    BY <1>1
  <2> HIDE DEF outcome
  <2>4. QED
    BY <1>1, <2>1, <2>2, <2>3, ReturnStep DEF EventTypes
<1>6. QED
  BY <1>3, <1>4, <1>5

\* A call begins, and the process ends.
LEMMA CallInv == ASSUME IInv, NEW b \in Batches, operator_call(b) PROVE IInv'
<1>1. /\ mode = "serving" /\ call.at = "idle" /\ handled' = handled + 1 /\ call' = Begin(b)
      /\ UNCHANGED <<fleet, reserved, trail, consumed, released, governed>>
  BY DEF operator_call, At
<1>2. UNCHANGED <<registry, stored, evidenced, mode, pending, turn>>
  BY <1>1 DEF fleet
<1>3. b \in Seq(Submissions) \ {<<>>}
  BY ControlPlaneAssumption
<1>4. call' \in Call /\ call'.at = "reserve"
  BY <1>1, <1>3, IdleTypes
<1>5. handled' \in Nat
  BY <1>1 DEF IInv, TypeOK
<1>6. TypeOK'
  BY <1>1, <1>2, <1>4, <1>5 DEF IInv, TypeOK, FleetTypeOK
<1>7. turn.at = "idle"
  BY <1>1 DEF IInv, StateInv, StagesInv
<1>8. StagesInv' /\ PersistedInv' /\ OfferedWhenEligible'
  BY <1>1, <1>2, <1>4, <1>7 DEF StagesInv, PersistedInv, OfferedWhenEligible
<1>9. ContainedInMemory'
  BY <1>2 DEF IInv, StateInv, ContainedInMemory
<1>10. QED
  BY <1>6, <1>8, <1>9 DEF IInv, StateInv

LEMMA CrashInv == ASSUME IInv, crash PROVE IInv'
<1>1. call' \in Call /\ call'.at = "idle"
  BY IdleTypes, NoCallIdle DEF crash
<1>2. QED
  BY <1>1, ExitInv DEF crash

LEMMA SubmitInv == ASSUME IInv, SubmitStep PROVE IInv'
BY ReserveInv, DecisionInv, RefusalInv, RouteInv, RefreshInv, PersistWorkerInv, EligibleInv,
   OfferInv, AcknowledgeInv DEF SubmitStep

\* Every step preserves the inductive invariant.
LEMMA NextIInv == IInv /\ [Next]_vars => IInv'
<1> SUFFICES ASSUME IInv, [Next]_vars PROVE IInv'
  OBVIOUS
<1>1. CASE UNCHANGED vars
  BY <1>1 DEF vars, IInv, TypeOK, FleetTypeOK, StateInv, StagesInv, ContainedInMemory,
              PersistedInv, OfferedWhenEligible, Assignable, Worker
<1>2. CASE start /\ UNCHANGED plane
  BY <1>2, StartInv
<1>3. CASE FleetStep /\ UNCHANGED plane
  BY <1>3, FleetInv
<1>4. CASE \E b \in Batches : operator_call(b)
  BY <1>4, CallInv
<1>5. CASE SubmitStep
  BY <1>5, SubmitInv
<1>6. CASE crash
  BY <1>6, CrashInv
<1>7. QED
  BY <1>1, <1>2, <1>3, <1>4, <1>5, <1>6 DEF Next

-----------------------------------------------------------------------------
\* Theorems of the specification

\* The inductive invariant holds of every run.
THEOREM Invariance == Spec => []IInv
<1>1. Init => IInv
  BY InitIInv
<1>2. IInv /\ [Next]_vars => IInv'
  BY NextIInv
<1>3. QED
  BY <1>1, <1>2, PTL DEF Spec

\* Every variable of the Supervisor, its store included, keeps its type.
THEOREM TypeCorrect == Spec => []TypeOK
<1>1. IInv => TypeOK
  BY DEF IInv
<1>2. QED
  BY <1>1, Invariance, PTL

\* An assignment is only offered to a worker that memory and the store both
\* hold assignable, whatever the heartbeat, a failed write or a restart did on
\* the way (_refresh_worker_health).
THEOREM OfferedToEligible == Spec => []OfferedWhenEligible
<1>1. IInv => OfferedWhenEligible
  BY DEF IInv, StateInv
<1>2. QED
  BY <1>1, Invariance, PTL

-----------------------------------------------------------------------------
\* What a step writes to worker_records: nothing, or the registry's record of
\* one worker, by a running process.
Recording(w) == mode # "down" /\ stored' = [stored EXCEPT ![w] = registry[w]]

LEMMA FleetRecords ==
    ASSUME IInv, FleetStep
    PROVE  UNCHANGED stored \/ \E w \in Workers : Recording(w)
<1>1. turn.worker \in Workers /\ mode # "down"
  BY FleetBusy DEF IInv, TypeOK, FleetTypeOK, Turn
<1>2. CASE persist_registration \/ persist_heartbeat
  BY <1>1, <1>2 DEF persist_registration, persist_heartbeat, Recording
<1>3. CASE poll_succeeded \/ poll_failed \/ register \/ append_registration_event
           \/ register_fails \/ append_heartbeat_event \/ heartbeat_write_fails
  BY <1>3 DEF poll_succeeded, poll_failed, register, append_registration_event,
              register_fails, append_heartbeat_event, heartbeat_write_fails, Exit
<1>4. CASE \E o \in {"unavailable", "auth_failed", "invalid", "state_error"} : poll_rejected(o)
  BY <1>4 DEF poll_rejected
<1>5. CASE \E hb \in Heartbeats : accept(hb)
  BY <1>5 DEF accept
<1>6. QED
  BY <1>2, <1>3, <1>4, <1>5 DEF FleetStep

LEMMA SubmitRecords ==
    ASSUME IInv, SubmitStep
    PROVE  UNCHANGED stored \/ \E w \in Workers : Recording(w)
<1>1. CASE persist_worker("demote_refresh", "refreshed")
           \/ persist_worker("demote_answer", "answered")
  <2>1. Worker \in Workers
    BY SubmissionTypes DEF IInv, TypeOK, Call, Worker
  <2>2. mode # "down"
    BY <1>1 DEF IInv, StateInv, StagesInv, persist_worker, At
  <2>3. QED
    BY <1>1, <2>1, <2>2 DEF persist_worker, Recording
<1>2. CASE reserve_request \/ reject_replay \/ admit \/ request_guardian
           \/ guardian_unavailable \/ run_lima_fails \/ fail_closed \/ append_lima_event
           \/ stop_before_assignment \/ append_refresh_event \/ eligible \/ issuer_fails
           \/ append_grant_event \/ offer \/ append_acknowledgement \/ append_block
           \/ write_fails
  BY <1>2 DEF reserve_request, reject_replay, admit, request_guardian, guardian_unavailable,
              run_lima_fails, fail_closed, append_lima_event, stop_before_assignment,
              append_refresh_event, eligible, issuer_fails, append_grant_event, offer,
              append_acknowledgement, append_block, write_fails, fleet
<1>3. CASE \/ \E d \in GuardianDecisions : guardian_decides(d)
           \/ \E d \in LimaStatuses : run_lima(d)
           \/ \E g \in Grant : issue_execution_grant(g)
           \/ \E o \in {"acknowledged", "rejected", "failed_closed"} : endpoint_answers(o)
  BY <1>3 DEF guardian_decides, run_lima, issue_execution_grant, endpoint_answers, fleet
<1>4. CASE \/ route_assignment
           \/ \E o \in {"ok", "state_error"} : refresher_returns(o)
           \/ \E d \in Demotions : refresher_demotes(d[1], d[2])
           \/ \E o \in Uncaught : refresher_aborts(o)
           \/ \E d \in Demotions : endpoint_demotes(d[2])
  BY <1>4 DEF route_assignment, refresher_returns, refresher_demotes, refresher_aborts,
              endpoint_demotes, Refresher
<1>5. QED
  BY <1>1, <1>2, <1>3, <1>4 DEF SubmitStep

\* Containment that reached the store stays: every write of worker_records
\* records a state the registry holds, and the registry contains what the store
\* does (update_state, restore, update_heartbeat).
THEOREM ContainmentStays == Spec => ContainmentIsDurable
<1> DEFINE Kept ==
      \A w \in Workers :
        /\ stored[w] = "revoked" => stored'[w] = "revoked"
        /\ stored[w] = "quarantined" => stored'[w] \in {"quarantined", "revoked"}
<1>1. IInv /\ [Next]_vars => [Kept]_vars
  <2> SUFFICES ASSUME IInv, Next PROVE Kept
    OBVIOUS
  <2>1. UNCHANGED stored \/ \E w \in Workers : Recording(w)
    <3>1. CASE (start /\ UNCHANGED plane) \/ crash
      BY <3>1 DEF start, crash, Exit
    <3>2. CASE \E b \in Batches : operator_call(b)
      BY <3>2 DEF operator_call, fleet
    <3>3. QED
      BY <3>1, <3>2, FleetRecords, SubmitRecords DEF Next
  <2>2. CASE UNCHANGED stored
    BY <2>2
  <2>3. CASE \E w \in Workers : Recording(w)
    <3>1. PICK w \in Workers : Recording(w)
      BY <2>3
    <3>2. ContainedInMemory /\ stored \in [Workers -> WorkerStates \cup {Absent}]
      BY DEF IInv, StateInv, TypeOK, FleetTypeOK
    <3>3. QED
      BY <3>1, <3>2 DEF Recording, ContainedInMemory, Contained
  <2>4. QED
    BY <2>1, <2>2, <2>3
<1>2. QED
  BY <1>1, Invariance, PTL DEF Spec, ContainmentIsDurable

-----------------------------------------------------------------------------
(* Each action is one of six kinds of step of the ledger. *)

\* Stages of a call whose request is not admitted, admitted, and offered.
Unadmitted == {"idle", "reserve", "replayed"}
Admitted ==
    {"admit", "ask", "guardian", "lima", "lima_failed", "lima_event", "route", "refresh",
     "demote_refresh", "refreshed", "eligible", "mint", "grant_event", "offer", "blocked"}
Offered == {"acknowledge", "demote_answer", "answered"}

\* Event types by what they do to a request in the ledger.
Refusals == {"denial", "failure", "approval_requested"}
Neutral ==
    {"replay_rejected", "request_received", "guardian_request", "guardian_decision",
     "lima_decision", "worker_heartbeat", "execution_grant_issued"}

IsReserved(i) == \E s \in reserved : s.id = i

\* Identities and keys are reserved once.
ReservedOnce == \A r, s \in reserved : r.id = s.id \/ r.key = s.key => r = s

\* Nothing is recorded of a request before its reservation but a replay.
ReservedFirst == \A i \in Ids : ~IsReserved(i) => StatusOf(i) = "new"

\* A request is offered by one event.
OfferedOnce ==
    \A i \in Ids : \A j, k \in DOMAIN trail[i] :
        trail[i][j].type = "assignment_preview" /\ trail[i][k].type = "assignment_preview"
        => j = k

\* Where the request of the call in progress stands.
CallStands ==
    \A i \in Ids : i = Id =>
        /\ call.at \in Admitted => StatusOf(i) = "admitted"
        /\ call.at \in Offered => StatusOf(i) = "offered"

LedgerInv == ReservedOnce /\ ReservedFirst /\ OfferedOnce /\ CallStands

\* A step that keeps the invariant and is one step of the ledger or none.
LedgerStep == LedgerInv' /\ [Admission!Next]_(Admission!ledger)

-----------------------------------------------------------------------------
\* What one event does to the evidence of every request.

LEMMA Appended ==
    ASSUME TypeOK, NEW type \in EventTypes, NEW outcome, NEW parent,
           append_event(type, outcome, parent)
    PROVE  \A i \in Ids :
             /\ i # Id => trail'[i] = trail[i]
             /\ i = Id => /\ DOMAIN trail[i] = 1..Len(trail[i]) /\ Len(trail[i]) \in Nat
                          /\ DOMAIN trail'[i] = 1..(Len(trail[i]) + 1)
                          /\ \A j \in DOMAIN trail[i] : trail'[i][j] = trail[i][j]
                          /\ trail'[i][Len(trail[i]) + 1].type = type
                          /\ trail'[i][Len(trail[i]) + 1].outcome = outcome
                          /\ trail'[i][Len(trail[i]) + 1].parent = parent
<1> SUFFICES ASSUME NEW i \in Ids
             PROVE  /\ i # Id => trail'[i] = trail[i]
                    /\ i = Id => /\ DOMAIN trail[i] = 1..Len(trail[i]) /\ Len(trail[i]) \in Nat
                                 /\ DOMAIN trail'[i] = 1..(Len(trail[i]) + 1)
                                 /\ \A j \in DOMAIN trail[i] : trail'[i][j] = trail[i][j]
                                 /\ trail'[i][Len(trail[i]) + 1].type = type
                                 /\ trail'[i][Len(trail[i]) + 1].outcome = outcome
                                 /\ trail'[i][Len(trail[i]) + 1].parent = parent
  OBVIOUS
<1> DEFINE event == [type |-> type, outcome |-> outcome, parent |-> parent]
           before == trail[i]
<1>1. trail \in [Ids -> Seq(ControlEvent)] /\ before \in Seq(ControlEvent)
  BY DEF TypeOK
<1>2. trail' = [trail EXCEPT ![Id] = Append(trail[Id], event)]
  BY DEF append_event
<1>3. i # Id => trail'[i] = trail[i]
  BY <1>1, <1>2
<1>4. i = Id => trail'[i] = Append(before, event)
  BY <1>1, <1>2
<1>5. event.type = type /\ event.outcome = outcome /\ event.parent = parent
  OBVIOUS
<1> HIDE DEF event, before
<1>6. /\ DOMAIN before = 1..Len(before) /\ Len(before) \in Nat
      /\ DOMAIN Append(before, event) = 1..(Len(before) + 1)
      /\ \A j \in DOMAIN before : Append(before, event)[j] = before[j]
      /\ Append(before, event)[Len(before) + 1] = event
  BY <1>1
<1>7. QED
  BY <1>3, <1>4, <1>5, <1>6 DEF before

LEMMA AppendedRecords ==
    ASSUME TypeOK, NEW type \in EventTypes, NEW outcome, NEW parent,
           append_event(type, outcome, parent)
    PROVE  \A i \in Ids, t \in EventTypes :
             Recorded(i, t)' <=> Recorded(i, t) \/ (i = Id /\ t = type)
<1> SUFFICES ASSUME NEW i \in Ids, NEW t \in EventTypes
             PROVE  Recorded(i, t)' <=> Recorded(i, t) \/ (i = Id /\ t = type)
  OBVIOUS
<1> DEFINE n == Len(trail[i])
<1>1. CASE i # Id
  BY <1>1, Appended DEF Recorded
<1>2. CASE i = Id
  <2>1. /\ DOMAIN trail[i] = 1..n /\ n \in Nat /\ DOMAIN trail'[i] = 1..(n + 1)
        /\ \A j \in DOMAIN trail[i] : trail'[i][j] = trail[i][j]
        /\ trail'[i][n + 1].type = type
    BY <1>2, Appended
  <2> HIDE DEF n
  <2>2. DOMAIN trail'[i] = DOMAIN trail[i] \cup {n + 1}
    BY <2>1
  <2>3. QED
    BY <1>2, <2>1, <2>2 DEF Recorded
<1>3. QED
  BY <1>1, <1>2

-----------------------------------------------------------------------------
\* The kinds of step.

\* The call ends, begins or stays where it stands.
CallGoesOn ==
    \/ call'.at \in Unadmitted
    \/ /\ call'.sub = call.sub
       /\ \/ call.at \in Admitted /\ call'.at \in Admitted
          \/ call.at \in Offered /\ call'.at \in Offered

LEMMA StageClasses ==
    /\ Stages = Unadmitted \cup Admitted \cup Offered
    /\ Unadmitted \cap (Admitted \cup Offered) = {} /\ Admitted \cap Offered = {}
BY DEF Stages, Unadmitted, Admitted, Offered

LEMMA KeysStay == ASSUME UNCHANGED reserved PROVE \A i \in Ids : KeyOf(i)' = KeyOf(i)
BY DEF KeyOf

\* Nothing the ledger sees.
LEMMA SameLedger ==
    ASSUME LedgerInv, UNCHANGED reserved, CallGoesOn, OfferedOnce',
           \A i \in Ids : StatusOf(i)' = StatusOf(i)
    PROVE  LedgerStep
<1>1. ReservedOnce' /\ ReservedFirst'
  BY DEF LedgerInv, ReservedOnce, ReservedFirst, IsReserved
<1>2. CallStands'
  BY StageClasses DEF LedgerInv, CallStands, CallGoesOn, Id
<1>3. UNCHANGED Admission!ledger
  BY KeysStay DEF Admission!ledger
<1>4. QED
  BY <1>1, <1>2, <1>3 DEF LedgerStep, LedgerInv

LEMMA QuietStep ==
    ASSUME LedgerInv, UNCHANGED <<reserved, trail>>, CallGoesOn
    PROVE  LedgerStep
<1>1. \A i \in Ids : StatusOf(i)' = StatusOf(i)
  BY DEF StatusOf, Recorded
<1>2. OfferedOnce'
  BY DEF LedgerInv, OfferedOnce
<1>3. QED
  BY <1>1, <1>2, SameLedger

\* An event that is not a preview adds no offer.
LEMMA OtherEvent ==
    ASSUME TypeOK, LedgerInv, NEW type \in EventTypes, type # "assignment_preview",
           NEW outcome, NEW parent, append_event(type, outcome, parent)
    PROVE  OfferedOnce'
<1> SUFFICES ASSUME NEW i \in Ids, NEW j \in DOMAIN trail'[i], NEW k \in DOMAIN trail'[i],
                    trail'[i][j].type = "assignment_preview",
                    trail'[i][k].type = "assignment_preview"
             PROVE  j = k
  BY DEF OfferedOnce
<1>1. j \in DOMAIN trail[i] /\ k \in DOMAIN trail[i]
      /\ trail[i][j] = trail'[i][j] /\ trail[i][k] = trail'[i][k]
  <2>1. CASE i # Id
    BY <2>1, Appended
  <2>2. CASE i = Id
    <3> DEFINE n == Len(trail[i])
    <3>1. /\ DOMAIN trail[i] = 1..n /\ n \in Nat /\ DOMAIN trail'[i] = 1..(n + 1)
          /\ \A m \in DOMAIN trail[i] : trail'[i][m] = trail[i][m]
          /\ trail'[i][n + 1].type = type
      BY <2>2, Appended
    <3> HIDE DEF n
    <3>2. j # n + 1 /\ k # n + 1
      BY <3>1
    <3>3. QED
      BY <3>1, <3>2
  <2>3. QED
    BY <2>1, <2>2
<1>2. QED
  BY <1>1 DEF LedgerInv, OfferedOnce

LEMMA NeutralStep ==
    ASSUME TypeOK, LedgerInv, UNCHANGED reserved, CallGoesOn,
           NEW type \in Neutral, NEW outcome, NEW parent,
           append_event(type, outcome, parent)
    PROVE  LedgerStep
<1>1. type \in EventTypes /\ type # "assignment_preview"
  BY DEF Neutral, EventTypes
<1>2. \A i \in Ids, t \in EventTypes :
        Recorded(i, t)' <=> Recorded(i, t) \/ (i = Id /\ t = type)
  BY <1>1, AppendedRecords
<1>3. \A i \in Ids, t \in Refusals \cup {"assignment_preview", "worker_acknowledgement"} :
        Recorded(i, t)' <=> Recorded(i, t)
  BY <1>2 DEF Neutral, Refusals, EventTypes
<1>4. \A i \in Ids : StatusOf(i)' = StatusOf(i)
  BY <1>3 DEF StatusOf, Refusals
<1>5. OfferedOnce'
  BY <1>1, OtherEvent
<1>6. QED
  BY <1>4, <1>5, SameLedger

\* The request of the call moves on in the ledger.
LEMMA MoveStep ==
    ASSUME LedgerInv, UNCHANGED reserved, OfferedOnce', NEW i \in Ids, i = Id,
           NEW from, NEW to, StatusOf(i) = from, StatusOf(i)' = to,
           \A j \in Ids \ {i} : StatusOf(j)' = StatusOf(j),
           \/ from = "admitted" /\ to \in {"refused", "offered"}
           \/ from = "offered" /\ to = "closed",
           \/ call'.at \in Unadmitted
           \/ to = "offered" /\ call'.at \in Offered /\ call'.sub = call.sub
    PROVE  LedgerStep
<1>1. IsReserved(i)
  BY DEF LedgerInv, ReservedFirst
<1>2. ReservedOnce' /\ ReservedFirst'
  BY <1>1 DEF LedgerInv, ReservedOnce, ReservedFirst, IsReserved
<1>3. CallStands'
  BY StageClasses DEF CallStands, Id
<1>4. Admission!Next
  <2> DEFINE status == [j \in Ids |-> StatusOf(j)]
             key == [j \in Ids |-> KeyOf(j)]
  <2>1. status[i] = from /\ status' = [status EXCEPT ![i] = to]
    OBVIOUS
  <2>2. key' = key
    BY KeysStay
  <2>3. QED
    BY <2>1, <2>2 DEF Admission!Next, Admission!Refuse, Admission!Offer, Admission!Close,
                      Admission!Move
<1>5. QED
  BY <1>2, <1>3, <1>4 DEF LedgerStep, LedgerInv

LEMMA RefuseStep ==
    ASSUME TypeOK, LedgerInv, UNCHANGED reserved, call.at \in Admitted,
           call'.at \in Unadmitted,
           NEW type \in Refusals, NEW outcome, NEW parent,
           append_event(type, outcome, parent)
    PROVE  LedgerStep
<1>1. type \in EventTypes /\ type # "assignment_preview"
  BY DEF Refusals, EventTypes
<1>2. \A i \in Ids, t \in EventTypes :
        Recorded(i, t)' <=> Recorded(i, t) \/ (i = Id /\ t = type)
  BY <1>1, AppendedRecords
<1>3. PICK i \in Ids : i = Id
  BY SubmissionTypes DEF TypeOK, Call, Id
<1>4. StatusOf(i) = "admitted"
  BY <1>3 DEF LedgerInv, CallStands
<1>5. \A j \in Ids \ {i} : StatusOf(j)' = StatusOf(j)
  BY <1>2, <1>3 DEF StatusOf, EventTypes
<1>6. StatusOf(i)' = "refused"
  BY <1>2, <1>3, <1>4 DEF StatusOf, EventTypes, Refusals
<1>7. OfferedOnce'
  BY <1>1, OtherEvent
<1>8. QED
  BY <1>3, <1>4, <1>5, <1>6, <1>7, MoveStep

LEMMA CloseStep ==
    ASSUME TypeOK, LedgerInv, UNCHANGED reserved, call.at \in Offered,
           call'.at \in Unadmitted, NEW outcome, NEW parent,
           append_event("worker_acknowledgement", outcome, parent)
    PROVE  LedgerStep
<1>1. "worker_acknowledgement" \in EventTypes
  BY DEF EventTypes
<1>2. \A i \in Ids, t \in EventTypes :
        Recorded(i, t)' <=> Recorded(i, t) \/ (i = Id /\ t = "worker_acknowledgement")
  BY <1>1, AppendedRecords
<1>3. PICK i \in Ids : i = Id
  BY SubmissionTypes DEF TypeOK, Call, Id
<1>4. StatusOf(i) = "offered"
  BY <1>3 DEF LedgerInv, CallStands
<1>5. \A j \in Ids \ {i} : StatusOf(j)' = StatusOf(j)
  BY <1>2, <1>3 DEF StatusOf, EventTypes
<1>6. StatusOf(i)' = "closed"
  BY <1>1, <1>2, <1>3 DEF StatusOf
<1>7. OfferedOnce'
  BY <1>1, OtherEvent
<1>8. QED
  BY <1>3, <1>4, <1>5, <1>6, <1>7, MoveStep

\* The preview is the first of its request: what is admitted was not offered.
LEMMA PreviewStep ==
    ASSUME TypeOK, LedgerInv, UNCHANGED reserved, call.at \in Admitted,
           call'.at \in Offered, call'.sub = call.sub, NEW outcome, NEW parent,
           append_event("assignment_preview", outcome, parent)
    PROVE  LedgerStep
<1>1. "assignment_preview" \in EventTypes
  BY DEF EventTypes
<1>2. \A i \in Ids, t \in EventTypes :
        Recorded(i, t)' <=> Recorded(i, t) \/ (i = Id /\ t = "assignment_preview")
  BY <1>1, AppendedRecords
<1>3. PICK i \in Ids : i = Id
  BY SubmissionTypes DEF TypeOK, Call, Id
<1>4. StatusOf(i) = "admitted"
  BY <1>3 DEF LedgerInv, CallStands
<1>5. \A j \in Ids \ {i} : StatusOf(j)' = StatusOf(j)
  BY <1>2, <1>3 DEF StatusOf, EventTypes
<1>6. StatusOf(i)' = "offered" /\ ~Recorded(i, "assignment_preview")
  BY <1>1, <1>2, <1>3, <1>4 DEF StatusOf, EventTypes
<1>7. OfferedOnce'
  <2> SUFFICES ASSUME NEW h \in Ids, NEW j \in DOMAIN trail'[h], NEW k \in DOMAIN trail'[h],
                      trail'[h][j].type = "assignment_preview",
                      trail'[h][k].type = "assignment_preview"
               PROVE  j = k
    BY DEF OfferedOnce
  <2>1. CASE h # i
    BY <1>1, <1>3, <2>1, Appended DEF LedgerInv, OfferedOnce
  <2>2. CASE h = i
    <3> DEFINE n == Len(trail[h])
    <3>1. /\ DOMAIN trail[h] = 1..n /\ n \in Nat /\ DOMAIN trail'[h] = 1..(n + 1)
          /\ \A m \in DOMAIN trail[h] : trail'[h][m] = trail[h][m]
      BY <1>1, <1>3, <2>2, Appended
    <3> HIDE DEF n
    <3>2. \A m \in 1..n : trail'[h][m].type # "assignment_preview"
      BY <1>6, <2>2, <3>1 DEF Recorded
    <3>3. j = n + 1 /\ k = n + 1
      BY <3>1, <3>2
    <3>4. QED
      BY <3>3
  <2>3. QED
    BY <2>1, <2>2
<1>8. QED
  BY <1>3, <1>4, <1>5, <1>6, <1>7, MoveStep

\* A reservation admits a new request under a new key.
LEMMA ReserveStep ==
    ASSUME TypeOK, LedgerInv, UNCHANGED trail, Reservable(call.sub),
           reserved' = reserved \cup {call.sub},
           call'.at \in Admitted, call'.sub = call.sub
    PROVE  LedgerStep
<1> DEFINE s == call.sub
<1>1. PICK i \in Ids : i = Id
  BY SubmissionTypes DEF TypeOK, Call, Id
<1>2. s.id = i /\ s.key \in Keys /\ s.key # NoId
  BY <1>1, SubmissionTypes, ControlPlaneAssumption DEF TypeOK, Call, Id
<1>3. \A r \in reserved : r.id # i /\ r.key # s.key
  BY <1>2 DEF Reservable
<1>4. ReservedOnce'
  BY <1>2, <1>3 DEF LedgerInv, ReservedOnce
<1>5. StatusOf(i) = "new"
  BY <1>3 DEF LedgerInv, ReservedFirst, IsReserved
<1>6. StatusOf(i)' = "admitted"
  <2>1. \A t \in Refusals \cup {"assignment_preview", "worker_acknowledgement"} :
          ~Recorded(i, t)
    BY <1>5 DEF StatusOf, Refusals
  <2>2. \A t \in Refusals \cup {"assignment_preview", "worker_acknowledgement"} :
          ~Recorded(i, t)'
    BY <2>1 DEF Recorded
  <2>3. QED
    BY <1>2, <2>2 DEF StatusOf, Refusals
<1>7. \A j \in Ids \ {i} : StatusOf(j)' = StatusOf(j)
  <2>1. \A j \in Ids, t \in EventTypes : Recorded(j, t)' = Recorded(j, t)
    BY DEF Recorded
  <2>2. QED
    BY <1>2, <2>1 DEF StatusOf, EventTypes
<1>8. \A j \in Ids \ {i} : IsReserved(j)' <=> IsReserved(j)
  BY <1>2 DEF IsReserved
<1>9. IsReserved(i)'
  BY <1>2 DEF IsReserved
<1>10. ReservedFirst'
  BY <1>7, <1>8, <1>9 DEF LedgerInv, ReservedFirst
<1>11. OfferedOnce'
  BY DEF LedgerInv, OfferedOnce
<1>12. CallStands'
  BY <1>1, <1>6, StageClasses DEF CallStands, Id
<1>13. Admission!Next
  <2> DEFINE status == [j \in Ids |-> StatusOf(j)]
             key == [j \in Ids |-> KeyOf(j)]
  <2>1. status[i] = "new" /\ status' = [status EXCEPT ![i] = "admitted"]
    BY <1>5, <1>6, <1>7
  <2>2. KeyOf(i)' = s.key
    BY <1>2, <1>3 DEF KeyOf
  <2>3. ASSUME NEW j \in Ids \ {i} PROVE KeyOf(j)' = KeyOf(j) /\ KeyOf(j) # s.key
    <3>1. CASE \E r \in reserved : r.id = j
      <4> DEFINE r == CHOOSE r \in reserved : r.id = j
                 q == CHOOSE q \in reserved' : q.id = j
      <4>1. r \in reserved /\ r.id = j
        BY <3>1
      <4>2. q \in reserved' /\ q.id = j
        BY <3>1
      <4>3. KeyOf(j) = r.key /\ KeyOf(j)' = q.key
        BY <3>1 DEF KeyOf
      <4> HIDE DEF r, q
      <4>4. q \in reserved
        BY <1>2, <4>2
      <4>5. q = r
        BY <4>1, <4>2, <4>4 DEF LedgerInv, ReservedOnce
      <4>6. QED
        BY <1>3, <4>1, <4>3, <4>5
    <3>2. CASE ~ \E r \in reserved : r.id = j
      <4>1. ~ \E r \in reserved' : r.id = j
        BY <1>2, <3>2
      <4>2. KeyOf(j) = NoId /\ KeyOf(j)' = NoId
        BY <3>2, <4>1 DEF KeyOf
      <4>3. QED
        BY <1>2, <4>2
    <3>3. QED
      BY <3>1, <3>2
  <2>4. KeyOf(i) # s.key
    BY <1>2, <1>3 DEF KeyOf
  <2>5. \A j \in Ids : key[j] # s.key
    BY <2>3, <2>4
  <2>6. key' = [key EXCEPT ![i] = s.key]
    BY <2>2, <2>3
  <2>7. QED
    BY <1>2, <2>1, <2>5, <2>6 DEF Admission!Next, Admission!Admit, Admission!Move
<1>14. QED
  BY <1>4, <1>10, <1>11, <1>12, <1>13 DEF LedgerStep, LedgerInv

-----------------------------------------------------------------------------
\* Every action is one of these kinds.

LEMMA NowGoesOn ==
    ASSUME call \in Call, NEW s \in Stages, Now(s),
           \/ s \in Unadmitted
           \/ call.at \in Admitted /\ s \in Admitted
           \/ call.at \in Offered /\ s \in Offered
    PROVE  CallGoesOn
BY NowType DEF CallGoesOn

\* A call that returned or was aborted.
LEMMA EndGoesOn ==
    ASSUME call \in Call, Returned \/ call' = NoCall
    PROVE  call'.at \in Unadmitted
BY ReturnedType, NoCallIdle DEF Unadmitted

\* Reservation and admission.
LEMMA ReserveLedger ==
    ASSUME IInv, LedgerInv, reserve_request \/ reject_replay \/ admit \/ request_guardian
    PROVE  LedgerStep
<1>1. TypeOK /\ call \in Call
  BY DEF IInv, TypeOK
<1>2. CASE reserve_request /\ Reservable(call.sub)
  <2>1. /\ UNCHANGED trail /\ reserved' = reserved \cup {call.sub} /\ Now("admit")
    BY <1>2 DEF reserve_request
  <2>2. call'.at \in Admitted /\ call'.sub = call.sub
    BY <1>1, <2>1, NowType DEF Stages, Admitted
  <2>3. QED
    BY <1>1, <1>2, <2>1, <2>2, ReserveStep
<1>3. CASE reserve_request /\ ~Reservable(call.sub)
  <2>1. Now("replayed") /\ UNCHANGED <<reserved, trail>>
    BY <1>3 DEF reserve_request
  <2>2. CallGoesOn
    BY <1>1, <2>1, NowType DEF CallGoesOn, Stages, Unadmitted
  <2>3. QED
    BY <2>1, <2>2, QuietStep
<1>4. CASE reject_replay
  <2>1. append_event("replay_rejected", "denied", 0) /\ Returned /\ UNCHANGED reserved
    BY <1>4 DEF reject_replay, append_and_return
  <2>2. CallGoesOn
    BY <1>1, <2>1, EndGoesOn DEF CallGoesOn
  <2>3. QED
    BY <1>1, <2>1, <2>2, NeutralStep DEF Neutral
<1>5. CASE admit /\ call.sub.permitted
  <2>1. append_and_go("request_received", "received", "ask")
        /\ call.at = "admit" /\ UNCHANGED reserved
    BY <1>5 DEF admit, At
  <2>2. CallGoesOn
    BY <1>1, <2>1, GoType DEF CallGoesOn, Stages, EventTypes, EventOutcomes, Admitted
  <2>3. QED
    BY <1>1, <2>1, <2>2, NeutralStep DEF Neutral, append_and_go
<1>6. CASE admit /\ ~call.sub.permitted
  <2>1. append_event("denial", "denied", 0) /\ Returned
        /\ call.at = "admit" /\ UNCHANGED reserved
    BY <1>6 DEF admit, append_and_return, At
  <2>2. QED
    BY <1>1, <2>1, EndGoesOn, RefuseStep DEF Refusals, Admitted
<1>7. CASE request_guardian
  <2>1. append_and_go("guardian_request", "received", "guardian")
        /\ call.at = "ask" /\ UNCHANGED reserved
    BY <1>7 DEF request_guardian, At
  <2>2. CallGoesOn
    BY <1>1, <2>1, GoType DEF CallGoesOn, Stages, EventTypes, EventOutcomes, Admitted
  <2>3. QED
    BY <1>1, <2>1, <2>2, NeutralStep DEF Neutral, append_and_go
<1>8. QED
  BY <1>2, <1>3, <1>4, <1>5, <1>6, <1>7

\* Guardian, LIMA and what their answers come to.
LEMMA DecisionLedger ==
    ASSUME IInv, LedgerInv,
           \/ \E d \in GuardianDecisions : guardian_decides(d)
           \/ \E d \in LimaStatuses : run_lima(d)
           \/ guardian_unavailable \/ run_lima_fails \/ fail_closed
           \/ append_lima_event \/ stop_before_assignment
    PROVE  LedgerStep
<1>1. TypeOK /\ call \in Call /\ call.lima \in LimaStatuses
  BY DEF IInv, TypeOK, Call
<1>2. CASE \E d \in GuardianDecisions : guardian_decides(d)
  <2>1. PICK d \in GuardianDecisions : guardian_decides(d)
    BY <1>2
  <2> DEFINE outcome == guardian_outcome(d)
             parent == call.parent
             next == Len(trail[Id]) + 1
  <2>2. /\ append_event("guardian_decision", outcome, parent) /\ call.at = "guardian"
        /\ call' = [call EXCEPT !.at = "lima", !.parent = next, !.guardian = d]
        /\ UNCHANGED reserved
    BY <2>1 DEF guardian_decides, At
  <2> HIDE DEF outcome, parent, next
  <2>3. CallGoesOn
    BY <1>1, <2>2 DEF CallGoesOn, Call, Admitted
  <2>4. QED
    BY <1>1, <2>2, <2>3, NeutralStep DEF Neutral
<1>3. CASE \E d \in LimaStatuses : run_lima(d)
  <2>1. PICK d \in LimaStatuses : run_lima(d)
    BY <1>3
  <2>2. CallGoesOn
    BY <1>1, <2>1 DEF run_lima, At, CallGoesOn, Call, Admitted
  <2>3. QED
    BY <2>1, <2>2, QuietStep DEF run_lima
<1>4. CASE guardian_unavailable
  <2>1. append_event("denial", "denied", call.parent) /\ Returned
        /\ call.at = "guardian" /\ UNCHANGED reserved
    BY <1>4 DEF guardian_unavailable, append_and_return, At
  <2>2. QED
    BY <1>1, <2>1, EndGoesOn, RefuseStep DEF Refusals, Admitted
<1>5. CASE run_lima_fails
  <2>1. CallGoesOn
    BY <1>1, <1>5, NowGoesOn DEF run_lima_fails, At, Stages, Admitted
  <2>2. QED
    BY <1>5, <2>1, QuietStep DEF run_lima_fails
<1>6. CASE fail_closed
  <2>1. append_event("failure", "failed_closed", call.parent) /\ Returned
        /\ call.at = "lima_failed" /\ UNCHANGED reserved
    BY <1>6 DEF fail_closed, append_and_return, At
  <2>2. QED
    BY <1>1, <2>1, EndGoesOn, RefuseStep DEF Refusals, Admitted
<1>7. CASE append_lima_event
  <2>1. append_and_go("lima_decision", call.lima, "route")
        /\ call.at = "lima_event" /\ UNCHANGED reserved
    BY <1>7 DEF append_lima_event, At
  <2>2. call.lima \in EventOutcomes
    BY <1>1 DEF EventOutcomes
  <2>3. CallGoesOn
    BY <1>1, <2>1, <2>2, GoType DEF CallGoesOn, Stages, EventTypes, Admitted
  <2>4. QED
    BY <1>1, <2>1, <2>3, NeutralStep DEF Neutral, append_and_go
<1>8. CASE stop_before_assignment
  <2> DEFINE type == IF Status = "denied" THEN "denial" ELSE "approval_requested"
             status == Status
  <2>1. append_event(type, status, call.parent) /\ Returned
        /\ call.at = "route" /\ UNCHANGED reserved
    BY <1>8 DEF stop_before_assignment, append_and_return, At
  <2>2. type \in Refusals
    BY DEF Refusals
  <2> HIDE DEF type, status
  <2>3. QED
    BY <1>1, <2>1, <2>2, EndGoesOn, RefuseStep DEF Admitted
<1>9. QED
  BY <1>2, <1>3, <1>4, <1>5, <1>6, <1>7, <1>8

\* The refresh of the worker, inside a submission.
LEMMA RefreshLedger ==
    ASSUME IInv, LedgerInv,
           \/ route_assignment
           \/ \E o \in {"ok", "state_error"} : refresher_returns(o)
           \/ \E d \in Demotions : refresher_demotes(d[1], d[2])
           \/ \E o \in Uncaught : refresher_aborts(o)
           \/ persist_worker("demote_refresh", "refreshed")
           \/ append_refresh_event \/ eligible
    PROVE  LedgerStep
<1>1. TypeOK /\ call \in Call
  BY DEF IInv, TypeOK
<1>2. CASE route_assignment
  <2>1. CallGoesOn
    BY <1>1, <1>2, NowGoesOn DEF route_assignment, At, Stages, Admitted
  <2>2. QED
    BY <1>2, <2>1, QuietStep DEF route_assignment
<1>3. CASE \E o \in {"ok", "state_error"} : refresher_returns(o)
  <2>1. PICK o \in {"ok", "state_error"} : refresher_returns(o)
    BY <1>3
  <2> DEFINE outcome == IF o = "ok" THEN "received" ELSE "blocked"
  <2>2. /\ call' = [call EXCEPT !.at = "refreshed", !.outcome = outcome]
        /\ call.at = "refresh" /\ UNCHANGED <<reserved, trail>>
    BY <2>1 DEF refresher_returns, Refresher, At
  <2> HIDE DEF outcome
  <2>3. CallGoesOn
    BY <1>1, <2>2 DEF CallGoesOn, Call, Admitted
  <2>4. QED
    BY <2>2, <2>3, QuietStep
<1>4. CASE \E d \in Demotions : refresher_demotes(d[1], d[2])
  <2>1. /\ call' = [call EXCEPT !.at = "demote_refresh", !.outcome = "blocked"]
        /\ call.at = "refresh" /\ UNCHANGED <<reserved, trail>>
    BY <1>4 DEF refresher_demotes, Refresher, At
  <2>2. CallGoesOn
    BY <1>1, <2>1 DEF CallGoesOn, Call, Admitted
  <2>3. QED
    BY <2>1, <2>2, QuietStep
<1>5. CASE \E o \in Uncaught : refresher_aborts(o)
  <2>1. call' = NoCall /\ UNCHANGED <<reserved, trail>>
    BY <1>5 DEF refresher_aborts, Refresher
  <2>2. QED
    BY <1>1, <2>1, EndGoesOn, QuietStep DEF CallGoesOn
<1>6. CASE persist_worker("demote_refresh", "refreshed")
  <2>1. CallGoesOn
    BY <1>1, <1>6, NowGoesOn DEF persist_worker, At, Stages, Admitted
  <2>2. QED
    BY <1>6, <2>1, QuietStep DEF persist_worker
<1>7. CASE append_refresh_event /\ call.outcome = "received"
  <2>1. append_and_go("worker_heartbeat", "received", "eligible")
        /\ call.at = "refreshed" /\ UNCHANGED reserved
    BY <1>7 DEF append_refresh_event, At
  <2>2. CallGoesOn
    BY <1>1, <2>1, GoType DEF CallGoesOn, Stages, EventTypes, EventOutcomes, Admitted
  <2>3. QED
    BY <1>1, <2>1, <2>2, NeutralStep DEF Neutral, append_and_go
<1>8. CASE append_refresh_event /\ call.outcome # "received"
  <2>1. append_event("worker_heartbeat", "blocked", call.parent) /\ Now("blocked")
        /\ call.at = "refreshed" /\ UNCHANGED reserved
    BY <1>8 DEF append_refresh_event, At
  <2>2. CallGoesOn
    BY <1>1, <2>1, NowGoesOn DEF Stages, Admitted
  <2>3. QED
    BY <1>1, <2>1, <2>2, NeutralStep DEF Neutral
<1>9. CASE eligible
  <2>1. PICK to \in {"blocked", "mint", "offer"} : Now(to)
    BY <1>9 DEF eligible
  <2>2. CallGoesOn
    BY <1>1, <1>9, <2>1, NowGoesOn DEF eligible, At, Stages, Admitted
  <2>3. QED
    BY <1>9, <2>2, QuietStep DEF eligible
<1>10. QED
  BY <1>2, <1>3, <1>4, <1>5, <1>6, <1>7, <1>8, <1>9

\* The grant, the preview and the worker's answer.
LEMMA OfferLedger ==
    ASSUME IInv, LedgerInv,
           \/ \E g \in Grant : issue_execution_grant(g)
           \/ issuer_fails \/ append_grant_event \/ offer
           \/ \E o \in {"acknowledged", "rejected", "failed_closed"} : endpoint_answers(o)
           \/ \E d \in Demotions : endpoint_demotes(d[2])
           \/ persist_worker("demote_answer", "answered")
           \/ append_acknowledgement \/ append_block \/ write_fails
    PROVE  LedgerStep
<1>1. TypeOK /\ call \in Call
  BY DEF IInv, TypeOK
<1>2. CASE \E g \in Grant : issue_execution_grant(g)
  <2>1. PICK g \in Grant : issue_execution_grant(g)
    BY <1>2
  <2>2. /\ call' = [call EXCEPT !.at = "grant_event", !.grant = {g}] \/ Now("offer")
        /\ call.at = "mint" /\ UNCHANGED <<reserved, trail>>
    BY <2>1 DEF issue_execution_grant, At
  <2>3. CallGoesOn
    BY <1>1, <2>2 DEF CallGoesOn, Now, Call, Admitted
  <2>4. QED
    BY <2>2, <2>3, QuietStep
<1>3. CASE issuer_fails
  <2>1. CallGoesOn
    BY <1>1, <1>3, NowGoesOn DEF issuer_fails, At, Stages, Admitted
  <2>2. QED
    BY <1>3, <2>1, QuietStep DEF issuer_fails
<1>4. CASE append_grant_event
  <2>1. append_and_go("execution_grant_issued", "allowed_dry_run", "offer")
        /\ call.at = "grant_event" /\ UNCHANGED reserved
    BY <1>4 DEF append_grant_event, At
  <2>2. CallGoesOn
    BY <1>1, <2>1, GoType DEF CallGoesOn, Stages, EventTypes, EventOutcomes, LimaStatuses, Admitted
  <2>3. QED
    BY <1>1, <2>1, <2>2, NeutralStep DEF Neutral, append_and_go
<1>5. CASE offer
  <2>1. append_and_go("assignment_preview", "allowed_dry_run", "acknowledge")
        /\ call.at = "offer" /\ UNCHANGED reserved
    BY <1>5 DEF offer, At
  <2>2. call'.at = "acknowledge" /\ call'.sub = call.sub
    BY <1>1, <2>1, GoType DEF Stages, EventTypes, EventOutcomes, LimaStatuses
  <2>3. QED
    BY <1>1, <2>1, <2>2, PreviewStep DEF append_and_go, Admitted, Offered
<1>6. CASE \E o \in {"acknowledged", "rejected", "failed_closed"} : endpoint_answers(o)
  <2>1. PICK o \in {"acknowledged", "rejected", "failed_closed"} : endpoint_answers(o)
    BY <1>6
  <2>2. /\ call' = [call EXCEPT !.at = "answered", !.outcome = o]
        /\ call.at = "acknowledge" /\ UNCHANGED <<reserved, trail>>
    BY <2>1 DEF endpoint_answers, At
  <2>3. CallGoesOn
    BY <1>1, <2>2 DEF CallGoesOn, Call, Offered
  <2>4. QED
    BY <2>2, <2>3, QuietStep
<1>7. CASE \E d \in Demotions : endpoint_demotes(d[2])
  <2>1. /\ call' = [call EXCEPT !.at = "demote_answer", !.outcome = "blocked"]
        /\ call.at = "acknowledge" /\ UNCHANGED <<reserved, trail>>
    BY <1>7 DEF endpoint_demotes, At
  <2>2. CallGoesOn
    BY <1>1, <2>1 DEF CallGoesOn, Call, Offered
  <2>3. QED
    BY <2>1, <2>2, QuietStep
<1>8. CASE persist_worker("demote_answer", "answered")
  <2>1. CallGoesOn
    BY <1>1, <1>8, NowGoesOn DEF persist_worker, At, Stages, Offered
  <2>2. QED
    BY <1>8, <2>1, QuietStep DEF persist_worker
<1>9. CASE append_acknowledgement
  <2>1. append_event("worker_acknowledgement", call.outcome, call.parent) /\ Returned
        /\ call.at = "answered" /\ UNCHANGED reserved
    BY <1>9 DEF append_acknowledgement, append_and_return, At
  <2>2. QED
    BY <1>1, <2>1, EndGoesOn, CloseStep DEF Offered
<1>10. CASE append_block
  <2> DEFINE parent == latest_event_id
  <2>1. append_event("denial", "blocked", parent) /\ Returned
        /\ call.at = "blocked" /\ UNCHANGED reserved
    BY <1>10 DEF append_block, append_and_return, At
  <2> HIDE DEF parent
  <2>2. QED
    BY <1>1, <2>1, EndGoesOn, RefuseStep DEF Refusals, Admitted
<1>11. CASE write_fails
  <2>1. call' = NoCall /\ UNCHANGED <<reserved, trail>>
    BY <1>11 DEF write_fails
  <2>2. QED
    BY <1>1, <2>1, EndGoesOn, QuietStep DEF CallGoesOn
<1>12. QED
  BY <1>2, <1>3, <1>4, <1>5, <1>6, <1>7, <1>8, <1>9, <1>10, <1>11

\* Steps of the fleet, calls that begin, and crashes.
LEMMA ProcessLedger ==
    ASSUME IInv, LedgerInv,
           \/ UNCHANGED plane
           \/ \E b \in Batches : operator_call(b)
           \/ crash
    PROVE  LedgerStep
<1>1. call \in Call
  BY DEF IInv, TypeOK
<1>2. CASE UNCHANGED plane
  <2>1. UNCHANGED <<reserved, trail, call>>
    BY <1>2 DEF plane
  <2>2. CallGoesOn
    BY <1>1, <2>1, StageClasses DEF CallGoesOn, Call
  <2>3. QED
    BY <2>1, <2>2, QuietStep
<1>3. CASE \E b \in Batches : operator_call(b)
  <2>1. PICK b \in Batches : operator_call(b)
    BY <1>3
  <2>2. b \in Seq(Submissions) \ {<<>>}
    BY ControlPlaneAssumption
  <2>3. call'.at = "reserve"
    BY <2>1, <2>2, IdleTypes DEF operator_call
  <2>4. UNCHANGED <<reserved, trail>>
    BY <2>1 DEF operator_call
  <2>5. QED
    BY <2>3, <2>4, QuietStep DEF CallGoesOn, Unadmitted
<1>4. CASE crash
  <2>1. call' = NoCall /\ UNCHANGED <<reserved, trail>>
    BY <1>4 DEF crash
  <2>2. QED
    BY <1>1, <2>1, EndGoesOn, QuietStep DEF CallGoesOn
<1>5. QED
  BY <1>2, <1>3, <1>4

LEMMA NextLedger == IInv /\ LedgerInv /\ [Next]_vars => LedgerStep
<1> SUFFICES ASSUME IInv, LedgerInv, [Next]_vars PROVE LedgerStep
  OBVIOUS
<1>1. CASE UNCHANGED vars
  BY <1>1, ProcessLedger DEF vars, plane
<1>2. CASE SubmitStep
  BY <1>2, ReserveLedger, DecisionLedger, RefreshLedger, OfferLedger DEF SubmitStep
<1>3. CASE \/ start /\ UNCHANGED plane
           \/ FleetStep /\ UNCHANGED plane
           \/ \E b \in Batches : operator_call(b)
           \/ crash
  BY <1>3, ProcessLedger
<1>4. QED
  BY <1>1, <1>2, <1>3 DEF Next

LEMMA InitLedger == Init => LedgerInv /\ Admission!Init
<1> SUFFICES ASSUME Init PROVE LedgerInv /\ Admission!Init
  OBVIOUS
<1>1. /\ reserved = {} /\ call.at = "idle"
      /\ \A i \in Ids : trail[i] = <<>>
  BY NoCallIdle DEF Init, PlaneInit
<1>2. \A i \in Ids : StatusOf(i) = "new" /\ KeyOf(i) = NoId
  <2>1. \A i \in Ids : DOMAIN trail[i] = {}
    BY <1>1
  <2>2. QED
    BY <1>1, <2>1 DEF StatusOf, KeyOf, Recorded
<1>3. LedgerInv
  BY <1>1, <1>2 DEF LedgerInv, ReservedOnce, ReservedFirst, OfferedOnce, CallStands,
                    Admitted, Offered
<1>4. Admission!Init
  BY <1>2 DEF Admission!Init
<1>5. QED
  BY <1>3, <1>4

-----------------------------------------------------------------------------
\* Theorems of the specification

\* Where the request of the call in progress stands is what its stage says, in
\* every run.
THEOREM LedgerInvariance == Spec => []LedgerInv
<1>1. Init => LedgerInv
  BY InitLedger
<1>2. IInv /\ LedgerInv /\ [Next]_vars => LedgerInv'
  BY NextLedger DEF LedgerStep
<1>3. QED
  BY <1>1, <1>2, Invariance, PTL DEF Spec

\* No two requests under one idempotency key are offered, and none is offered
\* twice, whatever is retried or restarted (reserve_request).
THEOREM OneOffer == Spec => []OneOfferPerKey
<1>1. IInv /\ LedgerInv => OneOfferPerKey
  <2> SUFFICES ASSUME IInv, LedgerInv, NEW s \in reserved, NEW t \in reserved,
                      NEW j \in DOMAIN trail[s.id], NEW k \in DOMAIN trail[t.id],
                      s.key = t.key,
                      trail[s.id][j].type = "assignment_preview",
                      trail[t.id][k].type = "assignment_preview"
               PROVE  s = t /\ j = k
    BY DEF OneOfferPerKey
  <2>1. s = t
    BY DEF LedgerInv, ReservedOnce
  <2>2. s.id \in Ids
    BY SubmissionTypes DEF IInv, TypeOK
  <2>3. QED
    BY <2>1, <2>2 DEF LedgerInv, OfferedOnce
<1>2. QED
  BY <1>1, Invariance, LedgerInvariance, PTL

\* Every step of the control plane is one step of the admission ledger or none
\* (submit, reserve_request).
THEOREM StepsAreLedgerSteps == Spec => EveryStepIsALedgerStep
<1>1. IInv /\ LedgerInv /\ [Next]_vars => [Admission!Next]_(Admission!ledger)
  BY NextLedger DEF LedgerStep
<1>2. QED
  BY <1>1, Invariance, LedgerInvariance, PTL DEF Spec, EveryStepIsALedgerStep

\* From the empty store the control plane, with its failures and restarts,
\* implements the admission ledger, which has none.
THEOREM AdmissionRefinement == Spec => ImplementsAdmission
<1>1. Init => Admission!Init
  BY InitLedger
<1>2. QED
  BY <1>1, StepsAreLedgerSteps, PTL
     DEF Spec, EveryStepIsALedgerStep, ImplementsAdmission, Admission!Spec

-----------------------------------------------------------------------------
(* The durable evidence. *)

\* Stages by what their request's trail holds: an own event, Guardian's decision,
\* both decisions in favour, an accepted heartbeat; and where a grant may be held.
HeardFrom ==
    {"eligible", "mint", "grant_event", "offer", "acknowledge", "demote_answer", "answered"}
Cleared == {"refresh", "demote_refresh", "refreshed"} \cup HeardFrom
Decided == {"lima", "lima_failed", "lima_event", "route"} \cup Cleared
Linked == {"ask", "guardian"} \cup Decided
Granting == {"grant_event", "offer", "acknowledge", "demote_answer", "answered"}

Holds(i, type, outcome) ==
    \E j \in DOMAIN trail[i] : trail[i][j].type = type /\ trail[i][j].outcome = outcome

Replays(i) == \A j \in DOMAIN trail[i] : trail[i][j].type = "replay_rejected"

\* The last event of the trail is the request's own.
LastIsOwn(i) ==
    Len(trail[i]) > 0 /\ trail[i][Len(trail[i])].type # "replay_rejected"

\* Nothing but replays is recorded of a request that was never reserved.
ReplaysFirst == \A i \in Ids : ~IsReserved(i) => Replays(i)

\* The consumption table's primary key.
ConsumedOnce == \A g, h \in consumed : g.id = h.id /\ g.worker = h.worker => g = h

ReleasedWithEvidence ==
    \A r \in released :
        /\ r.grant.request = r.to
        /\ r.grant \in consumed
        /\ Holds(r.to, "execution_grant_issued", "allowed_dry_run")
        /\ Holds(r.to, "worker_acknowledgement", "acknowledged")

\* The parent that the call in progress holds.
CallChained ==
    \A i \in Ids : i = Id =>
        /\ call.at \in {"reserve", "admit"} => call.parent = 0
        /\ call.at = "admit" => Replays(i)
        /\ call.at \in Linked => call.parent = Len(trail[i])
        /\ call.at \in Linked \cup {"blocked"} => LastIsOwn(i)

\* The decisions that its stage stands on are recorded.
CallCleared ==
    \A i \in Ids : i = Id =>
        /\ call.at \in Decided =>
              \A d \in GuardianDecisions :
                  d = call.guardian => Holds(i, "guardian_decision", guardian_outcome(d))
        /\ call.at \in {"route"} \cup Cleared =>
              \A d \in LimaStatuses : d = call.lima => Holds(i, "lima_decision", d)
        /\ call.at \in Cleared => call.guardian = "allow" /\ call.lima = "allowed_dry_run"
        /\ call.at \in HeardFrom => Holds(i, "worker_heartbeat", "received")

\* Its grant is for it.
CallGranted ==
    \A i \in Ids : i = Id =>
        /\ call.at \in {"lima_event", "route"} \cup Cleared => governed = i
        /\ call.at \notin Granting => call.grant = {}
        /\ \A g \in call.grant : g.request = i /\ g \in consumed
        /\ call.at \in Granting \ {"grant_event"} /\ call.grant # {} =>
              Holds(i, "execution_grant_issued", "allowed_dry_run")

CallEvidence == CallChained /\ CallCleared /\ CallGranted
TrailInv == ReplaysFirst /\ EvidenceChained /\ OfferedOnlyIfAllowed
GrantInv == ConsumedOnce /\ ReleasedWithEvidence
EvidenceInv == CallEvidence /\ TrailInv /\ GrantInv

\* What a step starts from.
Before == IInv /\ LedgerInv /\ EvidenceInv

LEMMA StageSets ==
    /\ Granting \subseteq HeardFrom /\ HeardFrom \subseteq Cleared
    /\ Cleared \subseteq Decided /\ Decided \subseteq Linked
    /\ Linked \subseteq (Admitted \cup Offered) \ {"admit", "blocked"}
    /\ Unadmitted \cap (Linked \cup {"admit", "blocked"}) = {}
BY DEF Granting, HeardFrom, Cleared, Decided, Linked, Admitted, Offered, Unadmitted

-----------------------------------------------------------------------------
\* What one event adds to the evidence.

LEMMA AppendedHolds ==
    ASSUME TypeOK, NEW type \in EventTypes, NEW outcome, NEW parent,
           append_event(type, outcome, parent)
    PROVE  \A i \in Ids : \A t, o :
             Holds(i, t, o)' <=> Holds(i, t, o) \/ (i = Id /\ t = type /\ o = outcome)
<1> SUFFICES ASSUME NEW i \in Ids, NEW t, NEW o
             PROVE  Holds(i, t, o)' <=> Holds(i, t, o) \/ (i = Id /\ t = type /\ o = outcome)
  OBVIOUS
<1> DEFINE n == Len(trail[i])
<1>1. CASE i # Id
  BY <1>1, Appended DEF Holds
<1>2. CASE i = Id
  <2>1. /\ DOMAIN trail[i] = 1..n /\ n \in Nat /\ DOMAIN trail'[i] = 1..(n + 1)
        /\ \A j \in DOMAIN trail[i] : trail'[i][j] = trail[i][j]
        /\ trail'[i][n + 1].type = type /\ trail'[i][n + 1].outcome = outcome
    BY <1>2, Appended
  <2> HIDE DEF n
  <2>2. DOMAIN trail'[i] = DOMAIN trail[i] \cup {n + 1}
    BY <2>1
  <2>3. QED
    BY <1>2, <2>1, <2>2 DEF Holds
<1>3. QED
  BY <1>1, <1>2

LEMMA AppendedLast ==
    ASSUME TypeOK, NEW type \in EventTypes, NEW outcome, NEW parent,
           append_event(type, outcome, parent), NEW i \in Ids, i = Id
    PROVE  /\ Len(trail'[i]) = Len(trail[i]) + 1
           /\ type # "replay_rejected" => LastIsOwn(i)'
<1> DEFINE n == Len(trail[i])
<1>1. n \in Nat /\ trail'[i][n + 1].type = type
  BY Appended
<1>2. Len(trail'[i]) = n + 1
  <2> DEFINE event == [type |-> type, outcome |-> outcome, parent |-> parent]
             before == trail[i]
  <2>1. trail' = [trail EXCEPT ![Id] = Append(trail[Id], event)]
    BY DEF append_event
  <2>2. trail \in [Ids -> Seq(ControlEvent)] /\ before \in Seq(ControlEvent)
    BY DEF TypeOK
  <2>3. trail'[i] = Append(before, event)
    BY <2>1, <2>2
  <2> HIDE DEF event, before
  <2>4. Len(Append(before, event)) = Len(before) + 1
    BY <2>2
  <2>5. QED
    BY <2>3, <2>4 DEF before
<1>3. QED
  BY <1>1, <1>2 DEF LastIsOwn

LEMMA ChainedEvent ==
    ASSUME TypeOK, EvidenceChained, NEW type \in EventTypes, NEW outcome, NEW parent,
           append_event(type, outcome, parent),
           \A i \in Ids : i = Id =>
               parent = IF type = "replay_rejected" \/ Replays(i) THEN 0 ELSE Len(trail[i])
    PROVE  EvidenceChained'
<1> SUFFICES ASSUME NEW i \in Ids, NEW j \in DOMAIN trail'[i]
             PROVE  trail'[i][j].parent =
                        IF \/ trail'[i][j].type = "replay_rejected"
                           \/ \A k \in 1..(j - 1) : trail'[i][k].type = "replay_rejected"
                        THEN 0 ELSE j - 1
  BY DEF EvidenceChained
<1> DEFINE n == Len(trail[i])
<1>1. CASE i # Id
  <2>1. trail'[i] = trail[i]
    BY <1>1, Appended
  <2>2. QED
    BY <2>1 DEF EvidenceChained
<1>2. CASE i = Id
  <2>1. /\ DOMAIN trail[i] = 1..n /\ n \in Nat /\ DOMAIN trail'[i] = 1..(n + 1)
        /\ \A k \in DOMAIN trail[i] : trail'[i][k] = trail[i][k]
        /\ trail'[i][n + 1].type = type /\ trail'[i][n + 1].parent = parent
    BY <1>2, Appended
  <2>2. parent = IF type = "replay_rejected" \/ Replays(i) THEN 0 ELSE n
    BY <1>2
  <2>3. j \in 1..n =>
          trail[i][j].parent =
              IF \/ trail[i][j].type = "replay_rejected"
                 \/ \A k \in 1..(j - 1) : trail[i][k].type = "replay_rejected"
              THEN 0 ELSE j - 1
    BY <2>1 DEF EvidenceChained
  <2> HIDE DEF n
  <2>4. CASE j \in 1..n
    <3>1. \A k \in 1..(j - 1) : trail'[i][k] = trail[i][k]
      BY <2>1, <2>4
    <3>2. trail'[i][j] = trail[i][j]
      BY <2>1, <2>4
    <3>3. QED
      BY <2>3, <2>4, <3>1, <3>2
  <2>5. CASE j = n + 1
    <3>1. Replays(i) <=> \A k \in 1..(j - 1) : trail'[i][k].type = "replay_rejected"
      BY <2>1, <2>5 DEF Replays
    <3>2. QED
      BY <2>1, <2>2, <2>5, <3>1
  <2>6. QED
    BY <2>1, <2>4, <2>5
<1>3. QED
  BY <1>1, <1>2

LEMMA AllowedEvent ==
    ASSUME TypeOK, OfferedOnlyIfAllowed, NEW type \in EventTypes, NEW outcome, NEW parent,
           append_event(type, outcome, parent),
           \A i \in Ids : i = Id /\ type = "assignment_preview" =>
               /\ Holds(i, "guardian_decision", "allowed_dry_run")
               /\ Holds(i, "lima_decision", "allowed_dry_run")
               /\ Holds(i, "worker_heartbeat", "received")
    PROVE  OfferedOnlyIfAllowed'
<1> SUFFICES ASSUME NEW i \in Ids, NEW j \in DOMAIN trail'[i],
                    trail'[i][j].type = "assignment_preview"
             PROVE  /\ Has(i, j, "guardian_decision", "allowed_dry_run")'
                    /\ Has(i, j, "lima_decision", "allowed_dry_run")'
                    /\ Has(i, j, "worker_heartbeat", "received")'
  BY DEF OfferedOnlyIfAllowed, Has
<1> DEFINE n == Len(trail[i])
           Found(t, o) == \E k \in 1..j : trail'[i][k].type = t /\ trail'[i][k].outcome = o
<1>1. /\ Found("guardian_decision", "allowed_dry_run")
      /\ Found("lima_decision", "allowed_dry_run")
      /\ Found("worker_heartbeat", "received")
  <2>1. CASE i # Id
    <3>1. trail'[i] = trail[i]
      BY <2>1, Appended
    <3>2. QED
      BY <3>1 DEF OfferedOnlyIfAllowed, Has
  <2>2. CASE i = Id
    <3>1. /\ DOMAIN trail[i] = 1..n /\ n \in Nat /\ DOMAIN trail'[i] = 1..(n + 1)
          /\ \A k \in DOMAIN trail[i] : trail'[i][k] = trail[i][k]
          /\ trail'[i][n + 1].type = type
      BY <2>2, Appended
    <3> HIDE DEF n
    <3>2. CASE j \in 1..n
      <4>1. /\ Has(i, j, "guardian_decision", "allowed_dry_run")
            /\ Has(i, j, "lima_decision", "allowed_dry_run")
            /\ Has(i, j, "worker_heartbeat", "received")
        BY <3>1, <3>2 DEF OfferedOnlyIfAllowed
      <4>2. 1..j \subseteq 1..n
        BY <3>1, <3>2
      <4>3. QED
        BY <3>1, <4>1, <4>2 DEF Has
    <3>3. CASE j = n + 1
      <4>1. /\ Holds(i, "guardian_decision", "allowed_dry_run")
            /\ Holds(i, "lima_decision", "allowed_dry_run")
            /\ Holds(i, "worker_heartbeat", "received")
        BY <2>2, <3>1, <3>3
      <4>2. 1..n \subseteq 1..j
        BY <3>1, <3>3
      <4>3. QED
        BY <3>1, <4>1, <4>2 DEF Holds
    <3>4. QED
      BY <3>1, <3>2, <3>3
  <2>3. QED
    BY <2>1, <2>2
<1>2. QED
  BY <1>1 DEF Has

LEMMA ReplaysEvent ==
    ASSUME TypeOK, ReplaysFirst, UNCHANGED reserved,
           NEW type \in EventTypes, NEW outcome, NEW parent,
           append_event(type, outcome, parent),
           \A i \in Ids : i = Id => type = "replay_rejected" \/ IsReserved(i)
    PROVE  ReplaysFirst'
<1> SUFFICES ASSUME NEW i \in Ids, ~IsReserved(i)' PROVE Replays(i)'
  BY DEF ReplaysFirst
<1>1. Replays(i) /\ ~IsReserved(i)
  BY DEF ReplaysFirst, IsReserved
<1>2. CASE i # Id
  BY <1>1, <1>2, Appended DEF Replays
<1>3. CASE i = Id
  <2> DEFINE n == Len(trail[i])
  <2>1. /\ DOMAIN trail[i] = 1..n /\ n \in Nat /\ DOMAIN trail'[i] = 1..(n + 1)
        /\ \A k \in DOMAIN trail[i] : trail'[i][k] = trail[i][k]
        /\ trail'[i][n + 1].type = type
    BY <1>3, Appended
  <2>2. type = "replay_rejected"
    BY <1>1, <1>3
  <2> HIDE DEF n
  <2>3. \A k \in 1..(n + 1) : trail'[i][k].type = "replay_rejected"
    BY <1>1, <2>1, <2>2 DEF Replays
  <2>4. QED
    BY <2>1, <2>3 DEF Replays
<1>4. QED
  BY <1>2, <1>3
-----------------------------------------------------------------------------
\* The kinds of step.

LEMMA CallReserved ==
    ASSUME Before, NEW i \in Ids, i = Id, call.at \in Admitted \cup Offered
    PROVE  IsReserved(i)
<1>1. StatusOf(i) \in {"admitted", "offered"}
  BY DEF Before, LedgerInv, CallStands
<1>2. QED
  BY <1>1 DEF Before, LedgerInv, ReservedFirst

\* A call that returned, was aborted or begins has nothing to show.
LEMMA FreshCall ==
    ASSUME call \in Call, Returned \/ call' = NoCall
    PROVE  CallEvidence'
<1>1. /\ call'.at \in {"idle", "reserve"}
      /\ call'.parent = 0 /\ call'.grant = {}
  <2>1. \A b : Begin(b).at = "reserve" /\ Begin(b).parent = 0 /\ Begin(b).grant = {}
    BY DEF Begin
  <2>2. NoCall.at = "idle" /\ NoCall.parent = 0 /\ NoCall.grant = {}
    BY DEF NoCall, Begin
  <2>3. call' = NoCall \/ call' = Begin(call.rest)
    BY DEF Returned
  <2>4. QED
    BY <2>1, <2>2, <2>3
<1>2. call'.at \notin Linked \cup {"admit", "blocked", "lima_event", "route"}
  BY <1>1 DEF Linked, Decided, Cleared, HeardFrom
<1>3. QED
  BY <1>1, <1>2, StageSets DEF CallEvidence, CallChained, CallCleared, CallGranted

\* The trail stays.
LEMMA TrailStays ==
    ASSUME UNCHANGED trail
    PROVE  /\ \A i \in Ids : \A t, o : Holds(i, t, o)' <=> Holds(i, t, o)
           /\ \A i \in Ids : Replays(i)' <=> Replays(i)
           /\ \A i \in Ids : LastIsOwn(i)' <=> LastIsOwn(i)
           /\ \A i \in Ids : trail'[i] = trail[i]
BY DEF Holds, Replays, LastIsOwn

LEMMA QuietEvidence ==
    ASSUME Before, UNCHANGED <<trail, consumed, released>>, reserved \subseteq reserved',
           CallEvidence'
    PROVE  EvidenceInv'
<1>1. ReplaysFirst'
  BY TrailStays DEF Before, EvidenceInv, TrailInv, ReplaysFirst, IsReserved
<1>2. EvidenceChained' /\ OfferedOnlyIfAllowed'
  BY DEF Before, EvidenceInv, TrailInv, EvidenceChained, OfferedOnlyIfAllowed, Has
<1>3. ConsumedOnce'
  BY DEF Before, EvidenceInv, GrantInv, ConsumedOnce
<1>4. ReleasedWithEvidence'
  BY DEF Before, EvidenceInv, GrantInv, ReleasedWithEvidence, Holds
<1>5. QED
  BY <1>1, <1>2, <1>3, <1>4 DEF EvidenceInv, TrailInv, GrantInv

\* What is released stays in the evidence.
LEMMA GrantsStay ==
    ASSUME Before, UNCHANGED <<consumed, released>>,
           NEW type \in EventTypes, NEW outcome, NEW parent,
           append_event(type, outcome, parent)
    PROVE  GrantInv'
<1>1. TypeOK /\ \A r \in released : r.to \in Ids
  BY DEF Before, IInv, TypeOK
<1>2. \A i \in Ids : \A t, o : Holds(i, t, o) => Holds(i, t, o)'
  BY <1>1, AppendedHolds
<1>3. ReleasedWithEvidence'
  <2> SUFFICES ASSUME NEW r \in released
               PROVE  /\ r.grant.request = r.to /\ r.grant \in consumed
                      /\ Holds(r.to, "execution_grant_issued", "allowed_dry_run")'
                      /\ Holds(r.to, "worker_acknowledgement", "acknowledged")'
    BY DEF ReleasedWithEvidence
  <2>1. QED
    BY <1>1, <1>2 DEF Before, EvidenceInv, GrantInv, ReleasedWithEvidence
<1>4. QED
  BY <1>3 DEF Before, EvidenceInv, GrantInv, ConsumedOnce

\* An event of the request whose parent is the event before it.
LEMMA OwnEvent ==
    ASSUME Before, UNCHANGED reserved, call.at \in Admitted \cup Offered,
           NEW type \in EventTypes \ {"replay_rejected"}, NEW outcome, NEW parent,
           append_event(type, outcome, parent),
           type = "assignment_preview" => call.at \in HeardFrom,
           \/ call.at \in Linked /\ parent = call.parent
           \/ call.at = "admit" /\ parent = 0
           \/ call.at = "blocked" /\ parent = latest_event_id
    PROVE  TrailInv'
<1>1. TypeOK /\ ReplaysFirst /\ EvidenceChained /\ OfferedOnlyIfAllowed
      /\ CallChained /\ CallCleared /\ call \in Call
  BY DEF Before, IInv, TypeOK, EvidenceInv, TrailInv, CallEvidence
<1>2. PICK i \in Ids : i = Id
  BY <1>1, SubmissionTypes DEF Call, Id
<1>3. ReplaysFirst'
  BY <1>1, CallReserved, ReplaysEvent
<1>4. EvidenceChained'
  <2>1. parent = IF Replays(i) THEN 0 ELSE Len(trail[i])
    <3>1. CASE call.at = "admit"
      BY <1>1, <1>2, <3>1, StageSets DEF CallChained
    <3>2. CASE call.at \in Linked \cup {"blocked"}
      <4>1. LastIsOwn(i) /\ parent = Len(trail[i])
        BY <1>1, <1>2, <3>2, StageSets DEF CallChained, latest_event_id
      <4>2. DOMAIN trail[i] = 1..Len(trail[i]) /\ Len(trail[i]) \in Nat
        BY <1>1, <1>2, Appended
      <4>3. ~Replays(i)
        BY <4>1, <4>2 DEF LastIsOwn, Replays
      <4>4. QED
        BY <4>1, <4>3
    <3>3. QED
      BY <3>1, <3>2
  <2>2. QED
    BY <1>1, <1>2, <2>1, ChainedEvent
<1>5. OfferedOnlyIfAllowed'
  <2>1. type = "assignment_preview" =>
          /\ Holds(i, "guardian_decision", "allowed_dry_run")
          /\ Holds(i, "lima_decision", "allowed_dry_run")
          /\ Holds(i, "worker_heartbeat", "received")
    <3> SUFFICES ASSUME call.at \in HeardFrom
                 PROVE  /\ Holds(i, "guardian_decision", "allowed_dry_run")
                        /\ Holds(i, "lima_decision", "allowed_dry_run")
                        /\ Holds(i, "worker_heartbeat", "received")
      OBVIOUS
    <3>1. call.at \in Cleared /\ call.at \in Decided
      BY StageSets
    <3>2. call.guardian = "allow" /\ call.lima = "allowed_dry_run"
      BY <1>1, <1>2, <3>1 DEF CallCleared
    <3>3. "allow" \in GuardianDecisions /\ guardian_outcome("allow") = "allowed_dry_run"
          /\ "allowed_dry_run" \in LimaStatuses
      BY DEF GuardianDecisions, guardian_outcome, LimaStatuses
    <3>4. QED
      BY <1>1, <1>2, <3>1, <3>2, <3>3 DEF CallCleared
  <2>2. QED
    BY <1>1, <1>2, <2>1, AllowedEvent
<1>6. QED
  BY <1>3, <1>4, <1>5 DEF TrailInv

\* An event that ends the submission.
LEMMA EndEvidence ==
    ASSUME Before, UNCHANGED <<reserved, consumed, released>>, Returned,
           call.at \in Admitted \cup Offered,
           NEW type \in EventTypes \ {"replay_rejected", "assignment_preview"},
           NEW outcome, NEW parent, append_event(type, outcome, parent),
           \/ call.at \in Linked /\ parent = call.parent
           \/ call.at = "admit" /\ parent = 0
           \/ call.at = "blocked" /\ parent = latest_event_id
    PROVE  EvidenceInv'
<1>1. TrailInv'
  BY OwnEvent
<1>2. CallEvidence'
  BY FreshCall DEF Before, IInv, TypeOK
<1>3. QED
  BY <1>1, <1>2, GrantsStay DEF EvidenceInv

\* An event that is the parent of the next one.
LEMMA LinkEvidence ==
    ASSUME Before, UNCHANGED <<reserved, consumed, released>>,
           call.at \in Linked \cup {"admit"},
           NEW type \in EventTypes \ {"replay_rejected"}, NEW outcome,
           append_event(type, outcome, call.parent),
           type = "assignment_preview" => call.at \in HeardFrom,
           call'.at \in Linked, call'.sub = call.sub, call'.parent = Len(trail[Id]) + 1,
           CallCleared', CallGranted'
    PROVE  EvidenceInv'
<1>1. TypeOK /\ CallChained /\ call \in Call
  BY DEF Before, IInv, TypeOK, EvidenceInv, CallEvidence
<1>2. PICK i \in Ids : i = Id
  BY <1>1, SubmissionTypes DEF Call, Id
<1>3. call.at = "admit" => call.parent = 0
  BY <1>1, <1>2 DEF CallChained
<1> DEFINE parent == call.parent
<1>4. append_event(type, outcome, parent)
  OBVIOUS
<1>5. TrailInv'
  <2>1. call.at \in Admitted \cup Offered
    BY StageSets DEF Admitted
  <2> HIDE DEF parent
  <2>2. \/ call.at \in Linked /\ parent = call.parent
        \/ call.at = "admit" /\ parent = 0
    BY <1>3 DEF parent
  <2>3. QED
    BY <1>4, <2>1, <2>2, OwnEvent
<1>6. CallChained'
  <2>1. LastIsOwn(i)' /\ Len(trail'[i]) = Len(trail[i]) + 1
    BY <1>1, <1>2, AppendedLast
  <2>2. \A j \in Ids : j = call'.sub.id => j = i
    BY <1>2 DEF Id
  <2>3. call'.at \notin {"reserve", "admit", "blocked"}
    BY StageSets DEF Unadmitted
  <2>4. QED
    BY <1>2, <2>1, <2>2, <2>3 DEF CallChained, Id
<1>7. GrantInv'
  BY <1>4, GrantsStay
<1>8. QED
  BY <1>5, <1>6, <1>7 DEF EvidenceInv, CallEvidence
-----------------------------------------------------------------------------
\* Every action keeps the evidence.

LEMMA BeforeTypes ==
    ASSUME Before
    PROVE  /\ TypeOK /\ call \in Call /\ (\E i \in Ids : i = Id)
           /\ CallChained /\ CallCleared /\ CallGranted
BY SubmissionTypes DEF Before, IInv, TypeOK, EvidenceInv, CallEvidence, Call, Id

\* A stage that only moves on keeps what its trail holds.
LEMMA NowEvidence ==
    ASSUME Before, NEW s \in Stages, Now(s),
           UNCHANGED <<reserved, trail, consumed, released, governed>>,
           s \in Linked => call.at \in Linked,
           s \in Linked \cup {"blocked"} => call.at \in Linked \cup {"blocked"},
           s \notin {"reserve", "admit"},
           s \in Decided => call.at \in Decided,
           s \in {"route"} \cup Cleared => call.at \in {"route"} \cup Cleared,
           s \in Cleared => call.at \in Cleared \/ Status = "allowed_dry_run",
           s \in HeardFrom => call.at \in HeardFrom,
           s \in {"lima_event", "route"} \cup Cleared =>
               call.at \in {"lima_event", "route"} \cup Cleared,
           s \notin Granting => call.at \notin Granting,
           s \in Granting \ {"grant_event"} =>
               call.at \in Granting \ {"grant_event"} \/ call.grant = {}
    PROVE  EvidenceInv'
<1>1. /\ TypeOK /\ call \in Call
      /\ CallChained /\ CallCleared /\ CallGranted
  BY BeforeTypes
<1>2. /\ call'.at = s /\ call'.sub = call.sub /\ call'.parent = call.parent
      /\ call'.guardian = call.guardian /\ call'.lima = call.lima /\ call'.grant = call.grant
  BY <1>1 DEF Now, Call
<1>3. CallChained'
  BY <1>1, <1>2, TrailStays DEF CallChained, Id
<1>4. CallCleared'
  <2>1. s \in Cleared => call.guardian = "allow" /\ call.lima = "allowed_dry_run"
    <3>1. Status = "allowed_dry_run" => call.guardian = "allow" /\ call.lima = "allowed_dry_run"
      BY <1>1 DEF Status, combined_status, Call, GuardianDecisions, LimaStatuses
    <3>2. \A i \in Ids : i = Id /\ call.at \in Cleared =>
            call.guardian = "allow" /\ call.lima = "allowed_dry_run"
      BY <1>1 DEF CallCleared
    <3>3. QED
      BY <3>1, <3>2, BeforeTypes
  <2>2. QED
    BY <1>1, <1>2, <2>1, TrailStays DEF CallCleared, Id
<1>5. CallGranted'
  BY <1>1, <1>2, TrailStays DEF CallGranted, Id
<1>6. QED
  BY <1>3, <1>4, <1>5, QuietEvidence DEF CallEvidence
LEMMA ReserveEvidence ==
    ASSUME Before, reserve_request \/ reject_replay \/ admit \/ request_guardian
    PROVE  EvidenceInv'
<1>1. /\ TypeOK /\ call \in Call
      /\ CallChained /\ CallCleared /\ CallGranted
  BY BeforeTypes
<1>2. PICK i \in Ids : i = Id
  BY BeforeTypes
<1>3. CASE reserve_request /\ Reservable(call.sub)
  <2>1. /\ call.at = "reserve" /\ UNCHANGED <<trail, consumed, released>>
        /\ reserved \subseteq reserved' /\ Now("admit")
    BY <1>3 DEF reserve_request, At
  <2>2. /\ call'.at = "admit" /\ call'.sub = call.sub /\ call'.parent = call.parent
        /\ call'.grant = call.grant
    BY <1>1, <2>1 DEF Now, Call
  <2>3. call.parent = 0 /\ call.grant = {}
    BY <1>1, <1>2, <2>1 DEF CallChained, CallGranted, Granting
  <2>4. Replays(i)
    <3>1. ~IsReserved(i)
      BY <1>2, <1>3 DEF Reservable, IsReserved, Id
    <3>2. QED
      BY <3>1 DEF Before, EvidenceInv, TrailInv, ReplaysFirst
  <2>5. call'.at \notin Linked \cup {"blocked"} /\ call'.at \notin Granting
        /\ call'.at \notin {"lima_event", "route"} \cup Cleared
    BY <2>2 DEF Linked, Decided, Cleared, HeardFrom, Granting
  <2>6. CallEvidence'
    BY <1>2, <2>1, <2>2, <2>3, <2>4, <2>5, StageSets, TrailStays
       DEF CallEvidence, CallChained, CallCleared, CallGranted, Id
  <2>7. QED
    BY <2>1, <2>6, QuietEvidence
<1>4. CASE reserve_request /\ ~Reservable(call.sub)
  <2>1. Now("replayed") /\ UNCHANGED <<reserved, trail, consumed, released, governed>>
        /\ call.at = "reserve"
    BY <1>4 DEF reserve_request, At
  <2>2. QED
    BY <2>1, NowEvidence DEF Stages, Linked, Decided, Cleared, HeardFrom, Granting
<1>5. CASE reject_replay
  <2>1. append_event("replay_rejected", "denied", 0) /\ Returned
        /\ UNCHANGED <<reserved, consumed, released>>
    BY <1>5 DEF reject_replay, append_and_return
  <2>2. "replay_rejected" \in EventTypes
    BY DEF EventTypes
  <2>3. TrailInv'
    BY <1>1, <2>1, <2>2, ChainedEvent, AllowedEvent, ReplaysEvent
       DEF Before, EvidenceInv, TrailInv
  <2>4. GrantInv'
    BY <2>1, <2>2, GrantsStay
  <2>5. QED
    BY <1>1, <2>1, <2>3, <2>4, FreshCall DEF EvidenceInv
<1>6. CASE admit /\ call.sub.permitted
  <2>1. /\ append_and_go("request_received", "received", "ask") /\ call.at = "admit"
        /\ UNCHANGED <<reserved, consumed, released, governed>>
    BY <1>6 DEF admit, At
  <2> DEFINE next == Len(trail[Id]) + 1
  <2>2. append_event("request_received", "received", call.parent)
        /\ call' = [call EXCEPT !.at = "ask", !.parent = next]
    BY <2>1 DEF append_and_go
  <2> HIDE DEF next
  <2>3. call'.at = "ask" /\ call'.sub = call.sub /\ call'.parent = next
        /\ call'.grant = call.grant
    BY <1>1, <2>2 DEF Call
  <2>4. CallCleared'
    BY <2>3 DEF CallCleared, Decided, Cleared, HeardFrom
  <2>5. call.grant = {}
    BY <1>1, <1>2, <2>1 DEF CallGranted, Granting
  <2>6. CallGranted'
    BY <2>3, <2>5 DEF CallGranted, Cleared, HeardFrom, Granting
  <2>7. "request_received" \in EventTypes \ {"replay_rejected"} /\ call'.at \in Linked
    BY <2>3 DEF EventTypes, Linked
  <2>8. QED
    BY <2>1, <2>2, <2>3, <2>4, <2>6, <2>7, LinkEvidence DEF next
<1>7. CASE admit /\ ~call.sub.permitted
  <2>1. append_event("denial", "denied", 0) /\ Returned /\ call.at = "admit"
        /\ UNCHANGED <<reserved, consumed, released>>
    BY <1>7 DEF admit, append_and_return, At
  <2>2. "denial" \in EventTypes \ {"replay_rejected", "assignment_preview"}
        /\ call.at \in Admitted
    BY <2>1 DEF EventTypes, Admitted
  <2>3. QED
    BY <2>1, <2>2, EndEvidence
<1>8. CASE request_guardian
  <2>1. /\ append_and_go("guardian_request", "received", "guardian") /\ call.at = "ask"
        /\ UNCHANGED <<reserved, consumed, released, governed>>
    BY <1>8 DEF request_guardian, At
  <2> DEFINE next == Len(trail[Id]) + 1
  <2>2. append_event("guardian_request", "received", call.parent)
        /\ call' = [call EXCEPT !.at = "guardian", !.parent = next]
    BY <2>1 DEF append_and_go
  <2> HIDE DEF next
  <2>3. call'.at = "guardian" /\ call'.sub = call.sub /\ call'.parent = next
        /\ call'.grant = call.grant
    BY <1>1, <2>2 DEF Call
  <2>4. CallCleared'
    BY <2>3 DEF CallCleared, Decided, Cleared, HeardFrom
  <2>5. call.grant = {}
    BY <1>1, <1>2, <2>1 DEF CallGranted, Granting
  <2>6. CallGranted'
    BY <2>3, <2>5 DEF CallGranted, Cleared, HeardFrom, Granting
  <2>7. "guardian_request" \in EventTypes \ {"replay_rejected"} /\ call'.at \in Linked
        /\ call.at \in Linked
    BY <2>1, <2>3 DEF EventTypes, Linked
  <2>8. QED
    BY <2>1, <2>2, <2>3, <2>4, <2>6, <2>7, LinkEvidence DEF next
<1>9. QED
  BY <1>3, <1>4, <1>5, <1>6, <1>7, <1>8

\* Guardian, LIMA and what their answers come to.
LEMMA DecisionEvidence ==
    ASSUME Before,
           \/ \E d \in GuardianDecisions : guardian_decides(d)
           \/ \E d \in LimaStatuses : run_lima(d)
           \/ run_lima_fails \/ append_lima_event
    PROVE  EvidenceInv'
<1>1. /\ TypeOK /\ call \in Call
      /\ CallChained /\ CallCleared /\ CallGranted
  BY BeforeTypes
<1>2. PICK i \in Ids : i = Id
  BY BeforeTypes
<1>3. CASE \E d \in GuardianDecisions : guardian_decides(d)
  <2>1. PICK d \in GuardianDecisions : guardian_decides(d)
    BY <1>3
  <2> DEFINE next == Len(trail[Id]) + 1
             outcome == guardian_outcome(d)
  <2>2. /\ append_event("guardian_decision", outcome, call.parent) /\ call.at = "guardian"
        /\ call' = [call EXCEPT !.at = "lima", !.parent = next, !.guardian = d]
        /\ UNCHANGED <<reserved, consumed, released>>
    BY <2>1 DEF guardian_decides, At
  <2>3. outcome = guardian_outcome(d)
    OBVIOUS
  <2> HIDE DEF next, outcome
  <2>4. /\ call'.at = "lima" /\ call'.sub = call.sub /\ call'.parent = next
        /\ call'.guardian = d /\ call'.grant = call.grant
    BY <1>1, <2>2 DEF Call
  <2>5. "guardian_decision" \in EventTypes \ {"replay_rejected"} /\ call'.at \in Linked
        /\ call.at \in Linked
    BY <2>2, <2>4 DEF EventTypes, Linked, Decided
  <2>6. Holds(i, "guardian_decision", guardian_outcome(d))'
    BY <1>1, <1>2, <2>2, <2>3, <2>5, AppendedHolds
  <2>7. \A j \in Ids : j = call'.sub.id => j = i
    BY <1>2, <2>4 DEF Id
  <2>8. CallCleared'
    BY <2>4, <2>6, <2>7 DEF CallCleared, Cleared, HeardFrom, Id
  <2>9. call.grant = {}
    BY <1>1, <1>2, <2>2 DEF CallGranted, Granting
  <2>10. CallGranted'
    BY <2>4, <2>9 DEF CallGranted, Cleared, HeardFrom, Granting
  <2>11. QED
    BY <2>2, <2>4, <2>5, <2>8, <2>10, LinkEvidence DEF next
<1>4. CASE \E d \in LimaStatuses : run_lima(d)
  <2>1. PICK d \in LimaStatuses : run_lima(d)
    BY <1>4
  <2>2. /\ call.at = "lima" /\ governed' = Id
        /\ call' = [call EXCEPT !.at = "lima_event", !.lima = d]
        /\ UNCHANGED <<reserved, trail, consumed, released>>
    BY <2>1 DEF run_lima, At
  <2>3. /\ call'.at = "lima_event" /\ call'.sub = call.sub /\ call'.parent = call.parent
        /\ call'.guardian = call.guardian /\ call'.grant = call.grant
    BY <1>1, <2>2 DEF Call
  <2>4. CallChained'
    BY <1>1, <2>2, <2>3, TrailStays DEF CallChained, Linked, Decided, Id
  <2>5. CallCleared'
    BY <1>1, <2>2, <2>3, TrailStays DEF CallCleared, Decided, Cleared, HeardFrom, Id
  <2>6. CallGranted'
    BY <1>1, <2>2, <2>3, TrailStays DEF CallGranted, Cleared, HeardFrom, Granting, Id
  <2>7. QED
    BY <2>2, <2>4, <2>5, <2>6, QuietEvidence DEF CallEvidence
<1>5. CASE run_lima_fails
  <2>1. /\ call.at = "lima" /\ Now("lima_failed")
        /\ UNCHANGED <<reserved, trail, consumed, released>>
    BY <1>5 DEF run_lima_fails, At
  <2>2. /\ call'.at = "lima_failed" /\ call'.sub = call.sub /\ call'.parent = call.parent
        /\ call'.guardian = call.guardian /\ call'.grant = call.grant
    BY <1>1, <2>1 DEF Call, Now
  <2>3. CallChained'
    BY <1>1, <2>1, <2>2, TrailStays DEF CallChained, Linked, Decided, Id
  <2>4. CallCleared'
    BY <1>1, <2>1, <2>2, TrailStays DEF CallCleared, Decided, Cleared, HeardFrom, Id
  <2>5. CallGranted'
    BY <1>1, <2>1, <2>2, TrailStays DEF CallGranted, Cleared, HeardFrom, Granting, Id
  <2>6. QED
    BY <2>1, <2>3, <2>4, <2>5, QuietEvidence DEF CallEvidence
<1>6. CASE append_lima_event
  <2> DEFINE next == Len(trail[Id]) + 1
  <2>1. /\ append_event("lima_decision", call.lima, call.parent) /\ call.at = "lima_event"
        /\ call' = [call EXCEPT !.at = "route", !.parent = next]
        /\ UNCHANGED <<reserved, consumed, released, governed>>
    BY <1>6 DEF append_lima_event, append_and_go, At
  <2> HIDE DEF next
  <2>2. /\ call'.at = "route" /\ call'.sub = call.sub /\ call'.parent = next
        /\ call'.guardian = call.guardian /\ call'.lima = call.lima
        /\ call'.grant = call.grant
    BY <1>1, <2>1 DEF Call
  <2>3. "lima_decision" \in EventTypes \ {"replay_rejected"} /\ call'.at \in Linked
        /\ call.at \in Linked
    BY <2>1, <2>2 DEF EventTypes, Linked, Decided
  <2>4. \A t, o : Holds(i, t, o)' <=> Holds(i, t, o) \/ (t = "lima_decision" /\ o = call.lima)
    BY <1>1, <1>2, <2>1, <2>3, AppendedHolds
  <2>5. \A j \in Ids : j = call'.sub.id => j = i
    BY <1>2, <2>2 DEF Id
  <2>6. call.at \in Decided
    BY <2>1 DEF Decided
  <2>7. CallCleared'
    BY <1>1, <1>2, <2>2, <2>4, <2>5, <2>6 DEF CallCleared, Cleared, HeardFrom, Id
  <2>8. CallGranted'
    BY <1>1, <1>2, <2>1, <2>2 DEF CallGranted, Cleared, HeardFrom, Granting, Id
  <2>9. QED
    BY <2>1, <2>2, <2>3, <2>7, <2>8, LinkEvidence DEF next
<1>7. QED
  BY <1>3, <1>4, <1>5, <1>6

\* Whatever ends the submission with an event, but for the acknowledgement.
LEMMA RefusalEvidence ==
    ASSUME Before,
           guardian_unavailable \/ fail_closed \/ stop_before_assignment \/ append_block
    PROVE  EvidenceInv'
<1>1. CASE guardian_unavailable
  <2>1. append_event("denial", "denied", call.parent) /\ Returned
        /\ call.at = "guardian" /\ UNCHANGED <<reserved, consumed, released>>
    BY <1>1 DEF guardian_unavailable, append_and_return, At
  <2>2. "denial" \in EventTypes \ {"replay_rejected", "assignment_preview"}
        /\ call.at \in Linked
    BY <2>1 DEF EventTypes, Linked
  <2>3. QED
    BY <2>1, <2>2, StageSets, EndEvidence
<1>2. CASE fail_closed
  <2>1. append_event("failure", "failed_closed", call.parent) /\ Returned
        /\ call.at = "lima_failed" /\ UNCHANGED <<reserved, consumed, released>>
    BY <1>2 DEF fail_closed, append_and_return, At
  <2>2. "failure" \in EventTypes \ {"replay_rejected", "assignment_preview"}
        /\ call.at \in Linked
    BY <2>1 DEF EventTypes, Linked, Decided
  <2>3. QED
    BY <2>1, <2>2, StageSets, EndEvidence
<1>3. CASE stop_before_assignment
  <2> DEFINE type == IF Status = "denied" THEN "denial" ELSE "approval_requested"
             status == Status
  <2>1. append_event(type, status, call.parent) /\ Returned
        /\ call.at = "route" /\ UNCHANGED <<reserved, consumed, released>>
    BY <1>3 DEF stop_before_assignment, append_and_return, At
  <2>2. type \in EventTypes \ {"replay_rejected", "assignment_preview"}
    BY DEF EventTypes
  <2>3. call.at \in Linked
    BY <2>1 DEF Linked, Decided
  <2> HIDE DEF type, status
  <2>4. QED
    BY <2>1, <2>2, <2>3, StageSets, EndEvidence
<1>4. CASE append_block
  <2> DEFINE parent == latest_event_id
  <2>1. append_event("denial", "blocked", parent) /\ Returned
        /\ call.at = "blocked" /\ UNCHANGED <<reserved, consumed, released>>
    BY <1>4 DEF append_block, append_and_return, At
  <2>2. "denial" \in EventTypes \ {"replay_rejected", "assignment_preview"}
        /\ call.at \in Admitted
    BY <2>1 DEF EventTypes, Admitted
  <2>3. parent = latest_event_id
    OBVIOUS
  <2> HIDE DEF parent
  <2>4. QED
    BY <2>1, <2>2, <2>3, EndEvidence
<1>5. QED
  BY <1>1, <1>2, <1>3, <1>4
\* The refresh of the worker, inside a submission.
LEMMA RefreshEvidence ==
    ASSUME Before,
           \/ route_assignment
           \/ \E o \in {"ok", "state_error"} : refresher_returns(o)
           \/ \E d \in Demotions : refresher_demotes(d[1], d[2])
           \/ \E o \in Uncaught : refresher_aborts(o)
           \/ persist_worker("demote_refresh", "refreshed")
           \/ append_refresh_event \/ eligible
    PROVE  EvidenceInv'
<1>1. /\ TypeOK /\ call \in Call
      /\ CallChained /\ CallCleared /\ CallGranted
  BY BeforeTypes
<1>2. PICK i \in Ids : i = Id
  BY BeforeTypes
<1>3. CASE route_assignment
  <2>1. PICK s \in {"refresh", "blocked"} : Now(s)
    BY <1>3 DEF route_assignment
  <2>2. call.at = "route" /\ Status = "allowed_dry_run"
        /\ UNCHANGED <<reserved, trail, consumed, released, governed>>
    BY <1>3 DEF route_assignment, At
  <2>3. s \in Stages
    BY DEF Stages
  <2>4. call.at \in Linked /\ call.at \in Decided
    BY <2>2 DEF Linked, Decided
  <2>5. call.at \notin Granting /\ s \notin HeardFrom \cup Granting
        /\ s \notin {"reserve", "admit", "route"}
    BY <2>2 DEF HeardFrom, Granting
  <2>6. QED
    BY <2>1, <2>2, <2>3, <2>4, <2>5, NowEvidence
<1>4. CASE \/ \E o \in {"ok", "state_error"} : refresher_returns(o)
           \/ \E d \in Demotions : refresher_demotes(d[1], d[2])
  <2>1. PICK s \in {"refreshed", "demote_refresh"}, o \in {"received", "blocked"} :
          /\ call' = [call EXCEPT !.at = s, !.outcome = o]
          /\ call.at = "refresh"
          /\ UNCHANGED <<reserved, trail, consumed, released, governed>>
    BY <1>4 DEF refresher_returns, refresher_demotes, Refresher, At
  <2>2. /\ call'.at = s /\ call'.sub = call.sub /\ call'.parent = call.parent
        /\ call'.guardian = call.guardian /\ call'.lima = call.lima
        /\ call'.grant = call.grant
    BY <1>1, <2>1 DEF Call
  <2>3. CallChained'
    BY <1>1, <2>1, <2>2, TrailStays DEF CallChained, Linked, Decided, Cleared, Id
  <2>4. CallCleared'
    BY <1>1, <2>1, <2>2, TrailStays DEF CallCleared, Decided, Cleared, HeardFrom, Id
  <2>5. CallGranted'
    BY <1>1, <2>1, <2>2, TrailStays DEF CallGranted, Cleared, HeardFrom, Granting, Id
  <2>6. QED
    BY <2>1, <2>3, <2>4, <2>5, QuietEvidence DEF CallEvidence
<1>5. CASE \E o \in Uncaught : refresher_aborts(o)
  <2>1. call' = NoCall /\ UNCHANGED <<reserved, trail, consumed, released>>
    BY <1>5 DEF refresher_aborts, Refresher
  <2>2. QED
    BY <1>1, <2>1, FreshCall, QuietEvidence
<1>6. CASE persist_worker("demote_refresh", "refreshed")
  <2>1. call.at = "demote_refresh" /\ Now("refreshed")
        /\ UNCHANGED <<reserved, trail, consumed, released, governed>>
    BY <1>6 DEF persist_worker, At
  <2>2. QED
    BY <2>1, NowEvidence DEF Stages, Linked, Decided, Cleared, HeardFrom, Granting
<1>7. CASE append_refresh_event /\ call.outcome = "received"
  <2> DEFINE next == Len(trail[Id]) + 1
  <2>1. /\ append_event("worker_heartbeat", "received", call.parent)
        /\ call.at = "refreshed"
        /\ call' = [call EXCEPT !.at = "eligible", !.parent = next]
        /\ UNCHANGED <<reserved, consumed, released, governed>>
    BY <1>7 DEF append_refresh_event, append_and_go, At
  <2> HIDE DEF next
  <2>2. /\ call'.at = "eligible" /\ call'.sub = call.sub /\ call'.parent = next
        /\ call'.guardian = call.guardian /\ call'.lima = call.lima
        /\ call'.grant = call.grant
    BY <1>1, <2>1 DEF Call
  <2>3. "worker_heartbeat" \in EventTypes \ {"replay_rejected"} /\ call'.at \in Linked
        /\ call.at \in Linked
    BY <2>1, <2>2 DEF EventTypes, Linked, Decided, Cleared, HeardFrom
  <2>4. \A t, o : Holds(i, t, o)' <=> Holds(i, t, o) \/ (t = "worker_heartbeat" /\ o = "received")
    BY <1>1, <1>2, <2>1, <2>3, AppendedHolds
  <2>5. \A j \in Ids : j = call'.sub.id => j = i
    BY <1>2, <2>2 DEF Id
  <2>6. call.at \in Decided /\ call.at \in Cleared
    BY <2>1 DEF Decided, Cleared
  <2>7. CallCleared'
    BY <1>1, <1>2, <2>2, <2>4, <2>5, <2>6 DEF CallCleared, Id
  <2>8. CallGranted'
    BY <1>1, <1>2, <2>1, <2>2, <2>6 DEF CallGranted, Granting, Id
  <2>9. QED
    BY <2>1, <2>2, <2>3, <2>7, <2>8, LinkEvidence DEF next
<1>8. CASE append_refresh_event /\ call.outcome # "received"
  <2>1. /\ append_event("worker_heartbeat", "blocked", call.parent)
        /\ Now("blocked") /\ call.at = "refreshed"
        /\ UNCHANGED <<reserved, consumed, released, governed>>
    BY <1>8 DEF append_refresh_event, At
  <2>2. call'.at = "blocked" /\ call'.sub = call.sub /\ call'.grant = call.grant
    BY <1>1, <2>1 DEF Now, Call
  <2>3. "worker_heartbeat" \in EventTypes \ {"replay_rejected"} /\ call.at \in Linked
    BY <2>1, <2>2 DEF EventTypes, Linked, Decided, Cleared
  <2> DEFINE parent == call.parent
  <2>4. append_event("worker_heartbeat", "blocked", parent) /\ parent = call.parent
    BY <2>1
  <2> HIDE DEF parent
  <2>5. TrailInv'
    BY <2>1, <2>3, <2>4, StageSets, OwnEvent
  <2>6. GrantInv'
    BY <2>1, <2>3, <2>4, GrantsStay
  <2>7. LastIsOwn(i)'
    BY <1>1, <1>2, <2>3, <2>4, AppendedLast
  <2>8. \A j \in Ids : j = call'.sub.id => j = i
    BY <1>2, <2>2 DEF Id
  <2>9. call'.at \notin Linked \cup {"reserve", "admit", "lima_event", "route"}
    BY <2>2, StageSets DEF Linked, Decided, Cleared, HeardFrom
  <2>10. CallChained' /\ CallCleared'
    BY <2>7, <2>8, <2>9, StageSets DEF CallChained, CallCleared, Id
  <2>11. CallGranted'
    BY <1>1, <1>2, <2>1, <2>2, <2>8, <2>9, StageSets DEF CallGranted, Granting, Id
  <2>12. QED
    BY <2>5, <2>6, <2>10, <2>11 DEF EvidenceInv, CallEvidence
<1>9. CASE eligible
  <2>1. PICK s \in {"blocked", "mint", "offer"} : Now(s)
    BY <1>9 DEF eligible
  <2>2. call.at = "eligible" /\ UNCHANGED <<reserved, trail, consumed, released, governed>>
    BY <1>9 DEF eligible, At
  <2>3. call.grant = {}
    BY <1>1, <1>2, <2>2 DEF CallGranted, Granting
  <2>4. s \in Stages
    BY DEF Stages
  <2>5. call.at \in Linked /\ call.at \in Decided /\ call.at \in Cleared /\ call.at \in HeardFrom
    BY <2>2 DEF Linked, Decided, Cleared, HeardFrom
  <2>6. call.at \notin Granting /\ s \notin {"reserve", "admit"}
    BY <2>2 DEF Granting
  <2>7. QED
    BY <2>1, <2>2, <2>3, <2>4, <2>5, <2>6, NowEvidence
<1>10. QED
  BY <1>3, <1>4, <1>5, <1>6, <1>7, <1>8, <1>9

\* The grant and the preview.
LEMMA GrantEvidence ==
    ASSUME Before,
           \/ \E g \in Grant : issue_execution_grant(g)
           \/ issuer_fails \/ append_grant_event \/ offer
    PROVE  EvidenceInv'
<1>1. /\ TypeOK /\ call \in Call
      /\ CallChained /\ CallCleared /\ CallGranted
  BY BeforeTypes
<1>2. PICK i \in Ids : i = Id
  BY BeforeTypes
<1>3. ASSUME NEW g \in Grant, issue_execution_grant(g)
      PROVE  EvidenceInv'
  <2>1. call.at = "mint" /\ g.request = governed /\ UNCHANGED <<reserved, trail, released, governed>>
    BY <1>3 DEF issue_execution_grant, At
  <2>2. governed = i /\ call.grant = {}
    BY <1>1, <1>2, <2>1 DEF CallGranted, Cleared, HeardFrom, Granting
  <2>3. [g EXCEPT !.request = Id] = g
    BY <1>2, <2>1, <2>2 DEF Grant
  <2>4. CASE ~Consumable(g)
    <3>1. Now("offer") /\ UNCHANGED consumed
      BY <1>3, <2>4 DEF issue_execution_grant
    <3>2. call.at \in Linked /\ call.at \in Decided /\ call.at \in Cleared /\ call.at \in HeardFrom
          /\ call.at \notin Granting
      BY <2>1 DEF Linked, Decided, Cleared, HeardFrom, Granting
    <3>3. QED
      BY <2>1, <2>2, <3>1, <3>2, NowEvidence DEF Stages
  <2>5. CASE Consumable(g)
    <3>1. consumed' = consumed \cup {g}
      BY <1>3, <2>3, <2>5 DEF issue_execution_grant
    <3>2. ConsumedOnce'
      BY <2>5, <3>1 DEF Consumable, Before, EvidenceInv, GrantInv, ConsumedOnce
    <3>3. ReleasedWithEvidence'
      BY <2>1, <3>1, TrailStays
         DEF Before, EvidenceInv, GrantInv, ReleasedWithEvidence, Holds
    <3>4. TrailInv'
      BY <2>1 DEF Before, EvidenceInv, TrailInv, ReplaysFirst, Replays, IsReserved,
                  EvidenceChained, OfferedOnlyIfAllowed, Has
    <3>5. PICK s \in {"grant_event", "offer"}, G \in SUBSET {g} :
            /\ call' = [call EXCEPT !.at = s, !.grant = G]
            /\ s = "offer" => G = {}
      <4>1. call' = [call EXCEPT !.at = "grant_event", !.grant = {g}] \/ Now("offer")
        BY <1>3, <2>5 DEF issue_execution_grant
      <4>2. Now("offer") => call' = [call EXCEPT !.at = "offer", !.grant = {}]
        BY <1>1, <2>2 DEF Now, Call
      <4>3. QED
        BY <4>1, <4>2
    <3>6. /\ call'.at = s /\ call'.sub = call.sub /\ call'.parent = call.parent
          /\ call'.guardian = call.guardian /\ call'.lima = call.lima
          /\ call'.grant = G
      BY <1>1, <3>5 DEF Call
    <3>7. call.at \in Linked /\ call.at \in Decided /\ call.at \in Cleared
          /\ call.at \in HeardFrom /\ s \notin {"reserve", "admit"} /\ s \in Granting
      BY <2>1, <3>5 DEF Linked, Decided, Cleared, HeardFrom, Granting
    <3>8. \A j \in Ids : j = call'.sub.id => j = i
      BY <1>2, <3>6 DEF Id
    <3>9. CallChained'
      BY <1>1, <1>2, <2>1, <3>6, <3>7, <3>8, TrailStays DEF CallChained, Id
    <3>10. CallCleared'
      BY <1>1, <1>2, <2>1, <3>6, <3>7, <3>8, TrailStays DEF CallCleared, Id
    <3>11. CallGranted'
      BY <1>2, <2>1, <2>2, <3>1, <3>5, <3>6, <3>7, <3>8 DEF CallGranted, Id
    <3>12. QED
      BY <3>2, <3>3, <3>4, <3>9, <3>10, <3>11 DEF EvidenceInv, CallEvidence, GrantInv
  <2>6. QED
    BY <2>4, <2>5
<1>4. CASE issuer_fails
  <2>1. call.at = "mint" /\ Now("offer")
        /\ UNCHANGED <<reserved, trail, consumed, released, governed>>
    BY <1>4 DEF issuer_fails, At
  <2>2. call.at \in Linked /\ call.at \in Decided /\ call.at \in Cleared /\ call.at \in HeardFrom
        /\ call.at \notin Granting
    BY <2>1 DEF Linked, Decided, Cleared, HeardFrom, Granting
  <2>3. call.grant = {}
    BY <1>1, <1>2, <2>2 DEF CallGranted
  <2>4. QED
    BY <2>1, <2>2, <2>3, NowEvidence DEF Stages
<1>5. ASSUME NEW type \in {"execution_grant_issued", "assignment_preview"},
             NEW s \in {"offer", "acknowledge"},
             append_and_go(type, "allowed_dry_run", s),
             call.at \in {"grant_event", "offer"},
             call.at = "grant_event" <=> type = "execution_grant_issued",
             UNCHANGED <<reserved, consumed, released, governed>>
      PROVE  EvidenceInv'
  <2> DEFINE next == Len(trail[Id]) + 1
  <2>1. /\ append_event(type, "allowed_dry_run", call.parent)
        /\ call' = [call EXCEPT !.at = s, !.parent = next]
    BY <1>5 DEF append_and_go
  <2> HIDE DEF next
  <2>2. /\ call'.at = s /\ call'.sub = call.sub /\ call'.parent = next
        /\ call'.guardian = call.guardian /\ call'.lima = call.lima
        /\ call'.grant = call.grant
    BY <1>1, <2>1 DEF Call
  <2>3. type \in EventTypes \ {"replay_rejected"} /\ s \in Granting /\ call.at \in Granting
    BY <1>5 DEF EventTypes, Granting
  <2>4. \A t, o : Holds(i, t, o)' <=> Holds(i, t, o) \/ (t = type /\ o = "allowed_dry_run")
    BY <1>1, <1>2, <2>1, <2>3, AppendedHolds
  <2>5. \A j \in Ids : j = call'.sub.id => j = i
    BY <1>2, <2>2 DEF Id
  <2>6. /\ call.at \in Linked /\ call.at \in Decided /\ call.at \in Cleared
        /\ call.at \in HeardFrom /\ s \in Linked
    BY <2>3, StageSets
  <2>7. CallCleared'
    BY <1>1, <1>2, <2>2, <2>4, <2>5, <2>6 DEF CallCleared, Id
  <2>8. CallGranted'
    BY <1>1, <1>2, <1>5, <2>2, <2>3, <2>4, <2>5, <2>6 DEF CallGranted, Id
  <2>9. QED
    BY <1>5, <2>1, <2>2, <2>3, <2>6, <2>7, <2>8, LinkEvidence DEF next
<1>6. CASE append_grant_event
  BY <1>5, <1>6 DEF append_grant_event, At
<1>7. CASE offer
  BY <1>5, <1>7 DEF offer, At
<1>8. QED
  BY <1>3, <1>4, <1>6, <1>7

\* The worker's answer: a grant only leaves with an acknowledgement on record.
LEMMA AnswerEvidence ==
    ASSUME Before,
           \/ \E o \in {"acknowledged", "rejected", "failed_closed"} : endpoint_answers(o)
           \/ \E d \in Demotions : endpoint_demotes(d[2])
           \/ persist_worker("demote_answer", "answered")
           \/ append_acknowledgement
    PROVE  EvidenceInv'
<1>1. /\ TypeOK /\ call \in Call
      /\ CallChained /\ CallCleared /\ CallGranted
  BY BeforeTypes
<1>2. PICK i \in Ids : i = Id
  BY BeforeTypes
<1>3. CASE \/ \E o \in {"acknowledged", "rejected", "failed_closed"} : endpoint_answers(o)
           \/ \E d \in Demotions : endpoint_demotes(d[2])
  <2>1. PICK s \in {"answered", "demote_answer"},
             o \in {"acknowledged", "rejected", "failed_closed", "blocked"} :
          /\ call' = [call EXCEPT !.at = s, !.outcome = o]
          /\ call.at = "acknowledge"
          /\ UNCHANGED <<reserved, trail, consumed, released, governed>>
    BY <1>3 DEF endpoint_answers, endpoint_demotes, At
  <2>2. /\ call'.at = s /\ call'.sub = call.sub /\ call'.parent = call.parent
        /\ call'.guardian = call.guardian /\ call'.lima = call.lima
        /\ call'.grant = call.grant
    BY <1>1, <2>1 DEF Call
  <2>3. s \in Granting /\ call.at \in Granting /\ s \notin {"reserve", "admit", "grant_event"}
    BY <2>1 DEF Granting
  <2>4. /\ call.at \in Linked /\ call.at \in Decided /\ call.at \in Cleared
        /\ call.at \in HeardFrom
    BY <2>3, StageSets
  <2>5. CallChained'
    BY <1>1, <2>1, <2>2, <2>3, <2>4, TrailStays DEF CallChained, Id
  <2>6. CallCleared'
    BY <1>1, <2>1, <2>2, <2>3, <2>4, TrailStays DEF CallCleared, Id
  <2>7. CallGranted'
    BY <1>1, <2>1, <2>2, <2>3, <2>4, TrailStays DEF CallGranted, Id
  <2>8. QED
    BY <2>1, <2>5, <2>6, <2>7, QuietEvidence DEF CallEvidence
<1>4. CASE persist_worker("demote_answer", "answered")
  <2>1. call.at = "demote_answer" /\ Now("answered")
        /\ UNCHANGED <<reserved, trail, consumed, released, governed>>
    BY <1>4 DEF persist_worker, At
  <2>2. call.at \in Granting \ {"grant_event"}
    BY <2>1 DEF Granting
  <2>3. /\ call.at \in Linked /\ call.at \in Decided /\ call.at \in Cleared
        /\ call.at \in HeardFrom
    BY <2>2, StageSets
  <2>4. "answered" \in Granting
    BY DEF Granting
  <2>5. QED
    BY <2>1, <2>2, <2>3, <2>4, NowEvidence DEF Stages
<1>5. CASE append_acknowledgement
  <2>1. /\ call.at = "answered" /\ Returned
        /\ append_event("worker_acknowledgement", call.outcome, call.parent)
        /\ UNCHANGED <<reserved, consumed>>
        /\ released' = IF call.outcome = "acknowledged"
                       THEN released \cup {[grant |-> g, to |-> Id] : g \in call.grant}
                       ELSE released
    BY <1>5 DEF append_acknowledgement, append_and_return, At
  <2> DEFINE outcome == call.outcome
             parent == call.parent
             ack == "worker_acknowledgement"
  <2>2. append_event(ack, outcome, parent) /\ parent = call.parent /\ outcome = call.outcome
    BY <2>1
  <2>3. ack \in EventTypes \ {"replay_rejected", "assignment_preview"} /\ call.at \in Linked
        /\ call.at \in Granting \ {"grant_event"}
    BY <2>1, StageSets DEF EventTypes, Granting
  <2> HIDE DEF outcome, parent, ack
  <2>4. \A j \in Ids : \A t, o : Holds(j, t, o)' <=> Holds(j, t, o) \/ (j = i /\ t = ack /\ o = outcome)
    BY <1>1, <1>2, <2>2, <2>3, AppendedHolds
  <2>5. TrailInv'
    BY <2>1, <2>2, <2>3, StageSets, OwnEvent
  <2>6. CallEvidence'
    BY <1>1, <2>1, FreshCall
  <2>7. ASSUME NEW r \in released'
        PROVE  /\ r.grant.request = r.to /\ r.grant \in consumed
               /\ Holds(r.to, "execution_grant_issued", "allowed_dry_run")'
               /\ Holds(r.to, ack, "acknowledged")'
    <3>1. CASE r \in released
      <4>1. /\ r.grant.request = r.to /\ r.grant \in consumed
            /\ Holds(r.to, "execution_grant_issued", "allowed_dry_run")
            /\ Holds(r.to, ack, "acknowledged")
        BY <3>1 DEF Before, EvidenceInv, GrantInv, ReleasedWithEvidence, ack
      <4>2. r.to \in Ids
        BY <1>1, <3>1 DEF TypeOK
      <4>3. QED
        BY <2>4, <4>1, <4>2
    <3>2. CASE r \notin released
      <4>1. PICK g \in call.grant : r = [grant |-> g, to |-> Id] /\ outcome = "acknowledged"
        BY <2>1, <2>2, <2>7, <3>2
      <4>2. g.request = i /\ g \in consumed
            /\ Holds(i, "execution_grant_issued", "allowed_dry_run")
        BY <1>1, <1>2, <2>3, <4>1 DEF CallGranted
      <4>3. r.grant = g /\ r.to = i
        BY <1>2, <4>1
      <4>4. QED
        BY <2>4, <4>1, <4>2, <4>3
    <3>3. QED
      BY <3>1, <3>2
  <2>8. GrantInv'
    BY <2>1, <2>7 DEF Before, EvidenceInv, GrantInv, ConsumedOnce, ReleasedWithEvidence, ack
  <2>9. QED
    BY <2>5, <2>6, <2>8 DEF EvidenceInv
<1>6. QED
  BY <1>3, <1>4, <1>5

\* Steps of the fleet, calls that begin or are dropped, and crashes.
LEMMA ProcessEvidence ==
    ASSUME Before,
           \/ UNCHANGED plane
           \/ \E b \in Batches : operator_call(b)
           \/ write_fails \/ crash
    PROVE  EvidenceInv'
<1>1. /\ TypeOK /\ call \in Call
      /\ CallChained /\ CallCleared /\ CallGranted
  BY BeforeTypes
<1>2. CASE UNCHANGED plane
  <2>1. UNCHANGED <<reserved, trail, consumed, released, governed, call>>
    BY <1>2 DEF plane
  <2>2. CallEvidence'
    BY <1>1, <2>1, TrailStays DEF CallEvidence, CallChained, CallCleared, CallGranted, Id
  <2>3. QED
    BY <2>1, <2>2, QuietEvidence
<1>3. CASE \E b \in Batches : operator_call(b)
  <2>1. PICK b \in Batches : operator_call(b)
    BY <1>3
  <2>2. UNCHANGED <<reserved, trail, consumed, released>> /\ call' = Begin(b)
    BY <2>1 DEF operator_call
  <2>3. call'.at = "reserve" /\ call'.parent = 0 /\ call'.grant = {}
    BY <2>2 DEF Begin
  <2>4. call'.at \notin Linked \cup {"admit", "blocked", "lima_event", "route"}
    BY <2>3 DEF Linked, Decided, Cleared, HeardFrom
  <2>5. CallEvidence'
    BY <2>3, <2>4, StageSets DEF CallEvidence, CallChained, CallCleared, CallGranted
  <2>6. QED
    BY <2>2, <2>5, QuietEvidence
<1>4. CASE write_fails \/ crash
  <2>1. call' = NoCall /\ UNCHANGED <<reserved, trail, consumed, released>>
    BY <1>4 DEF write_fails, crash
  <2>2. QED
    BY <1>1, <2>1, FreshCall, QuietEvidence
<1>5. QED
  BY <1>2, <1>3, <1>4

LEMMA NextEvidence == Before /\ [Next]_vars => EvidenceInv'
<1> SUFFICES ASSUME Before, [Next]_vars PROVE EvidenceInv'
  OBVIOUS
<1>1. CASE UNCHANGED vars
  BY <1>1, ProcessEvidence DEF vars, plane
<1>2. CASE SubmitStep
  BY <1>2, ReserveEvidence, DecisionEvidence, RefusalEvidence, RefreshEvidence,
     GrantEvidence, AnswerEvidence, ProcessEvidence DEF SubmitStep
<1>3. CASE \/ start /\ UNCHANGED plane
           \/ FleetStep /\ UNCHANGED plane
           \/ \E b \in Batches : operator_call(b)
           \/ crash
  BY <1>3, ProcessEvidence
<1>4. QED
  BY <1>1, <1>2, <1>3 DEF Next

LEMMA InitEvidence == Init => EvidenceInv
<1> SUFFICES ASSUME Init PROVE EvidenceInv
  OBVIOUS
<1>1. consumed = {} /\ released = {} /\ (\A i \in Ids : trail[i] = <<>>) /\ call = NoCall
  BY DEF Init, PlaneInit
<1>2. call.at = "idle" /\ call.grant = {}
  BY <1>1 DEF NoCall, Begin
<1>3. \A i \in Ids : DOMAIN trail[i] = {}
  BY <1>1
<1>4. TrailInv
  BY <1>3 DEF TrailInv, ReplaysFirst, Replays, EvidenceChained, OfferedOnlyIfAllowed
<1>5. call.at \notin Linked \cup {"admit", "blocked", "lima_event", "route"}
  BY <1>2 DEF Linked, Decided, Cleared, HeardFrom
<1>6. CallEvidence
  BY <1>2, <1>5, StageSets DEF CallEvidence, CallChained, CallCleared, CallGranted
<1>7. GrantInv
  BY <1>1 DEF GrantInv, ConsumedOnce, ReleasedWithEvidence
<1>8. QED
  BY <1>4, <1>6, <1>7 DEF EvidenceInv

-----------------------------------------------------------------------------
\* Theorems of the specification

\* What the stage of a call says of the trail of its request holds in every run,
\* whatever fails, is retried or restarted.
THEOREM EvidenceInvariance == Spec => []EvidenceInv
<1>1. IInv /\ LedgerInv /\ EvidenceInv /\ [Next]_vars => EvidenceInv'
  BY NextEvidence DEF Before
<1>2. QED
  BY <1>1, InitEvidence, Invariance, LedgerInvariance, PTL DEF Spec

\* Every assignment preview is preceded, for its request, by Guardian's and LIMA's
\* approval and an accepted heartbeat (submit, _combined_status).
THEOREM OffersAreAllowed == Spec => []OfferedOnlyIfAllowed
<1>1. EvidenceInv => OfferedOnlyIfAllowed
  BY DEF EvidenceInv, TrailInv
<1>2. QED
  BY <1>1, EvidenceInvariance, PTL

\* The events of a request are one chain of parents (parent_event_id).
THEOREM EvidenceIsChained == Spec => []EvidenceChained
<1>1. EvidenceInv => EvidenceChained
  BY DEF EvidenceInv, TrailInv
<1>2. QED
  BY <1>1, EvidenceInvariance, PTL

\* A grant that left the Supervisor answers the request it was minted from, was
\* consumed for it and for nothing else, and stands in its evidence
\* (_issue_execution_grant, reserve_execution_grant).
THEOREM GrantsAreAccountedFor == Spec => []GrantsAccountedFor
<1>1. TypeOK /\ EvidenceInv => GrantsAccountedFor
  <2> SUFFICES ASSUME TypeOK, EvidenceInv, NEW r \in released
               PROVE  /\ r.grant.request = r.to
                      /\ r.grant \in consumed
                      /\ \A q \in released :
                            q.grant.id = r.grant.id /\ q.grant.worker = r.grant.worker => q = r
                      /\ Has(r.to, Len(trail[r.to]), "execution_grant_issued", "allowed_dry_run")
                      /\ Has(r.to, Len(trail[r.to]), "worker_acknowledgement", "acknowledged")
    BY DEF GrantsAccountedFor
  <2>1. /\ r.grant.request = r.to /\ r.grant \in consumed
        /\ Holds(r.to, "execution_grant_issued", "allowed_dry_run")
        /\ Holds(r.to, "worker_acknowledgement", "acknowledged")
    BY DEF EvidenceInv, GrantInv, ReleasedWithEvidence
  <2>2. ASSUME NEW q \in released,
               q.grant.id = r.grant.id, q.grant.worker = r.grant.worker
        PROVE  q = r
    <3>1. q.grant.request = q.to /\ q.grant \in consumed
      BY DEF EvidenceInv, GrantInv, ReleasedWithEvidence
    <3>2. q.grant = r.grant
      BY <2>1, <2>2, <3>1 DEF EvidenceInv, GrantInv, ConsumedOnce
    <3>3. q \in [grant: Grant, to: Ids] /\ r \in [grant: Grant, to: Ids]
      BY DEF TypeOK
    <3>4. QED
      BY <2>1, <3>1, <3>2, <3>3
  <2>3. r.to \in Ids
    BY DEF TypeOK
  <2>4. DOMAIN trail[r.to] = 1..Len(trail[r.to])
    BY <2>3 DEF TypeOK
  <2>5. QED
    BY <2>1, <2>2, <2>4 DEF Holds, Has
<1>2. QED
  BY <1>1, EvidenceInvariance, TypeCorrect, PTL

-----------------------------------------------------------------------------
(* What a call in progress still has before it. *)

\* How many steps of a submission are left at most, by its stage.
Rank(stage) ==
    CASE stage = "reserve" -> 20
      [] stage = "admit" -> 19
      [] stage = "ask" -> 18
      [] stage = "guardian" -> 17
      [] stage = "lima" -> 16
      [] stage = "lima_event" -> 15
      [] stage = "route" -> 14
      [] stage = "refresh" -> 10
      [] stage = "demote_refresh" -> 9
      [] stage = "refreshed" -> 8
      [] stage = "eligible" -> 7
      [] stage = "mint" -> 6
      [] stage = "grant_event" -> 5
      [] stage = "offer" -> 4
      [] stage = "acknowledge" -> 3
      [] stage = "demote_answer" -> 2
      [] OTHER -> 1

\* And how many of the poll inside a refresh.
PollRank(stage) ==
    CASE stage = "poll" -> 3
      [] stage = "persist_heartbeat" -> 2
      [] stage = "heartbeat_event" -> 1
      [] OTHER -> 0

PollLeft == IF At("refresh") THEN PollRank(turn.at) ELSE 0

StepsLeft ==
    IF At("idle") THEN 0 ELSE 20 * Len(call.rest) + Rank(call.at) + PollLeft

\* A call of n submissions starts with 20 n steps to go, and every step anything
\* takes while it is in progress leaves it fewer.
CallsRunOut ==
    [][IF At("idle") THEN StepsLeft' = 0 \/ \E b \in Batches : StepsLeft' = 20 * Len(b)
       ELSE StepsLeft' < StepsLeft]_vars

\* The update_state of an except clause never raises a WorkerStateError of its
\* own, which would replace the failure it handles and leave the worker as it
\* was: the worker may enter the state it is demoted to
\* (_refresh_worker_health, _route_assignment).
DemotionsGoThrough ==
    /\ At("refresh") /\ turn.at = "polled" =>
          \A d \in Demotions : turn.outcome = d[1] => MayEnter(registry[Worker], d[2])
    /\ At("acknowledge") => \A d \in Demotions : MayEnter(registry[Worker], d[2])

\* Until a heartbeat is accepted the worker is as assignable as when the refresh
\* began: an unanswered poll changes nothing.
UnpolledInv ==
    At("refresh") =>
        /\ turn.at \in {"persist_heartbeat", "heartbeat_event"} =>
             turn.outcome \in {"ok", "state_error"}
        /\ \/ turn.at = "poll"
           \/ turn.at = "polled" /\ turn.outcome \in {"unavailable", "auth_failed"}
           => Assignable(Worker)

LEMMA RankTypes ==
    /\ \A s \in Stages : Rank(s) \in Nat /\ Rank(s) > 0
    /\ \A s \in Turns : PollRank(s) \in Nat /\ PollRank(s) <= 3
BY DEF Rank, PollRank, Stages, Turns

LEMMA StepsLeftTypes ==
    ASSUME TypeOK
    PROVE  /\ Len(call.rest) \in Nat /\ Rank(call.at) \in Nat /\ Rank(call.at) > 0 /\ PollLeft \in Nat /\ PollLeft <= 3
           /\ StepsLeft \in Nat
           /\ ~At("idle") =>
                StepsLeft = 20 * Len(call.rest) + Rank(call.at) + PollLeft
<1>1. call.at \in Stages /\ turn.at \in Turns /\ call.rest \in Seq(Submissions)
  BY DEF TypeOK, FleetTypeOK, Call, Turn
<1>2. Rank(call.at) \in Nat /\ Rank(call.at) > 0 /\ PollRank(turn.at) \in Nat /\ PollRank(turn.at) <= 3 /\ Len(call.rest) \in Nat
  BY <1>1, RankTypes
<1>3. PollLeft \in Nat /\ PollLeft <= 3
  <2>1. CASE At("refresh")
    BY <1>2, <2>1 DEF PollLeft
  <2>2. CASE ~At("refresh")
    BY <2>2 DEF PollLeft
  <2>3. QED
    BY <2>1, <2>2
<1>4. CASE At("idle")
  BY <1>2, <1>3, <1>4 DEF StepsLeft
<1>5. CASE ~At("idle")
  <2>1. StepsLeft = 20 * Len(call.rest) + Rank(call.at) + PollLeft
    BY <1>5 DEF StepsLeft
  <2>2. StepsLeft \in Nat
    BY <1>2, <1>3, <2>1
  <2>3. QED
    BY <1>2, <1>3, <2>1, <2>2
<1>6. QED
  BY <1>4, <1>5

\* A stage handed on, an end of the call, and an end of the submission.
LEMMA StageRunsOut ==
    ASSUME IInv, ~At("idle"), NEW s \in Stages, s # "idle",
           call'.at = s, call'.rest = call.rest, TypeOK',
           IF s = "refresh" THEN Rank(s) + 3 < Rank(call.at) ELSE Rank(s) < Rank(call.at)
    PROVE  StepsLeft' < StepsLeft
<1>1. TypeOK
  BY DEF IInv
<1>2. /\ Len(call.rest) \in Nat /\ Rank(call.at) \in Nat /\ Rank(call.at) > 0 /\ PollLeft \in Nat /\ PollLeft <= 3
      /\ StepsLeft = 20 * Len(call.rest) + Rank(call.at) + PollLeft
  BY <1>1, StepsLeftTypes
<1>3. Rank(s) \in Nat /\ Rank(s) > 0 /\ PollLeft' \in Nat /\ PollLeft' <= 3 /\ (s # "refresh" => PollLeft' = 0)
  <2>1. PollLeft' \in Nat /\ PollLeft' <= 3
    <3>1. turn'.at \in Turns
      BY DEF TypeOK, FleetTypeOK, Turn
    <3>2. PollRank(turn'.at) \in Nat /\ PollRank(turn'.at) <= 3
      BY <3>1, RankTypes
    <3>3. QED
      BY <3>2 DEF PollLeft, At
  <2>2. QED
    BY <2>1, RankTypes DEF PollLeft, At
<1>4. StepsLeft' = 20 * Len(call.rest) + Rank(s) + PollLeft'
  BY DEF StepsLeft, At
<1>5. Rank(s) + PollLeft' < Rank(call.at)
  BY <1>2, <1>3
<1>6. QED
  BY <1>2, <1>3, <1>4, <1>5

LEMMA EndRunsOut ==
    ASSUME IInv, ~At("idle"), call' = NoCall
    PROVE  StepsLeft' < StepsLeft
<1>1. /\ Len(call.rest) \in Nat /\ Rank(call.at) \in Nat /\ Rank(call.at) > 0 /\ PollLeft \in Nat /\ PollLeft <= 3
      /\ StepsLeft = 20 * Len(call.rest) + Rank(call.at) + PollLeft
  BY StepsLeftTypes DEF IInv
<1>2. StepsLeft' = 0
  BY NoCallIdle DEF StepsLeft, At
<1>3. QED
  BY <1>1, <1>2

LEMMA ReturnRunsOut ==
    ASSUME IInv, ~At("idle"), Returned
    PROVE  StepsLeft' < StepsLeft
<1>1. CASE call.rest = <<>>
  BY <1>1, EndRunsOut DEF Returned
<1>2. CASE call.rest # <<>>
  <2>1. /\ Len(call.rest) \in Nat /\ Rank(call.at) \in Nat /\ Rank(call.at) > 0 /\ PollLeft \in Nat /\ PollLeft <= 3
        /\ StepsLeft = 20 * Len(call.rest) + Rank(call.at) + PollLeft
    BY StepsLeftTypes DEF IInv
  <2>2. call'.at = "reserve" /\ call'.rest = Tail(call.rest)
    BY <1>2 DEF Returned, Begin
  <2>3. call.rest \in Seq(Submissions)
    BY DEF IInv, TypeOK, Call
  <2>4. Len(Tail(call.rest)) = Len(call.rest) - 1
    BY <1>2, <2>3
  <2>5. StepsLeft' = 20 * (Len(call.rest) - 1) + 20
    <3>1. StepsLeft' = 20 * Len(Tail(call.rest)) + Rank("reserve") + PollLeft'
      BY <2>2 DEF StepsLeft, At
    <3>2. Rank("reserve") = 20 /\ PollLeft' = 0
      BY <2>2 DEF Rank, PollLeft, At
    <3>3. QED
      BY <2>1, <2>4, <3>1, <3>2
  <2>6. QED
    BY <2>1, <2>5
<1>3. QED
  BY <1>1, <1>2

LEMMA BatchBegins ==
    ASSUME NEW b \in Batches, operator_call(b)
    PROVE  StepsLeft' = 20 * Len(b)
<1>1. b \in Seq(Submissions) /\ b # <<>>
  BY ControlPlaneAssumption
<1>2. Len(Tail(b)) = Len(b) - 1 /\ Len(b) \in Nat
  BY <1>1
<1>3. call'.at = "reserve" /\ call'.rest = Tail(b)
  BY DEF operator_call, Begin
<1>4. StepsLeft' = 20 * Len(Tail(b)) + Rank("reserve") + PollLeft'
  BY <1>3 DEF StepsLeft, At
<1>5. Rank("reserve") = 20 /\ PollLeft' = 0
  BY <1>3 DEF Rank, PollLeft, At
<1>6. StepsLeft' = 20 * Len(Tail(b)) + 20
  <2>1. Len(Tail(b)) \in Nat
    BY <1>1
  <2>2. QED
    BY <1>4, <1>5, <2>1
<1>7. QED
  BY <1>2, <1>6

LEMMA PollRunsOut ==
    ASSUME IInv, ~At("idle"), FleetStep, UNCHANGED plane
    PROVE  StepsLeft' < StepsLeft
<1>1. /\ At("refresh") /\ mode = "serving"
      /\ turn.at \in {"poll", "persist_heartbeat", "heartbeat_event", "polled"}
  BY FleetBusy DEF IInv, StateInv, StagesInv, At
<1>2. call' = call
  BY DEF plane
<1>3. call.rest \in Seq(Submissions) /\ turn \in Turn
  BY DEF IInv, TypeOK, FleetTypeOK, Call
<1>4. PollRank(turn'.at) \in Nat /\ PollRank(turn'.at) < PollRank(turn.at)
  <2>1. CASE poll_succeeded \/ poll_failed \/ register \/ persist_registration
             \/ append_registration_event \/ register_fails
    BY <1>1, <2>1 DEF poll_succeeded, poll_failed, register, persist_registration,
                      append_registration_event, register_fails
  <2>2. CASE \E o \in {"unavailable", "auth_failed", "invalid", "state_error"} : poll_rejected(o)
    BY <1>3, <2>2 DEF poll_rejected, Polled, PollRank, Turn
  <2>3. CASE \E hb \in Heartbeats : accept(hb)
    BY <1>3, <2>3 DEF accept, PollRank, Turn
  <2>4. CASE persist_heartbeat \/ append_heartbeat_event
    BY <1>3, <2>4 DEF persist_heartbeat, append_heartbeat_event, Goto, PollRank, Turn
  <2>5. CASE heartbeat_write_fails
    BY <1>3, <2>5 DEF heartbeat_write_fails, Polled, PollRank, Turn
  <2>6. QED
    BY <2>1, <2>2, <2>3, <2>4, <2>5 DEF FleetStep
<1>5. PollRank(turn.at) \in Nat /\ PollRank(turn.at) <= 3 /\ Len(call.rest) \in Nat
  BY <1>3, RankTypes DEF Turn
<1>6. /\ StepsLeft = 20 * Len(call.rest) + 10 + PollRank(turn.at)
      /\ StepsLeft' = 20 * Len(call.rest) + 10 + PollRank(turn'.at)
  <2>1. Rank("refresh") = 10
    BY DEF Rank
  <2>2. /\ StepsLeft = 20 * Len(call.rest) + Rank("refresh") + PollRank(turn.at)
        /\ StepsLeft' = 20 * Len(call.rest) + Rank("refresh") + PollRank(turn'.at)
    BY <1>1, <1>2 DEF StepsLeft, PollLeft, At
  <2>3. QED
    BY <2>1, <2>2
<1>7. QED
  BY <1>4, <1>5, <1>6

LEMMA RankValues ==
    /\ Rank("reserve") = 20 /\ Rank("admit") = 19 /\ Rank("ask") = 18
    /\ Rank("guardian") = 17 /\ Rank("lima") = 16 /\ Rank("lima_event") = 15
    /\ Rank("route") = 14 /\ Rank("refresh") = 10 /\ Rank("demote_refresh") = 9
    /\ Rank("refreshed") = 8 /\ Rank("eligible") = 7 /\ Rank("mint") = 6
    /\ Rank("grant_event") = 5 /\ Rank("offer") = 4 /\ Rank("acknowledge") = 3
    /\ Rank("demote_answer") = 2
    /\ \A s \in {"replayed", "lima_failed", "answered", "blocked"} : Rank(s) = 1
BY DEF Rank

\* A stage with fewer steps left than `from' has.
Below(to, from) ==
    /\ to \in Stages /\ to # "idle"
    /\ IF to = "refresh" THEN Rank(to) + 3 < Rank(from) ELSE Rank(to) < Rank(from)

LEMMA Belows ==
    /\ Below("admit", "reserve") /\ Below("replayed", "reserve")
    /\ Below("ask", "admit")
    /\ Below("guardian", "ask")
    /\ Below("lima", "guardian")
    /\ Below("lima_event", "lima") /\ Below("lima_failed", "lima")
    /\ Below("route", "lima_event")
    /\ Below("refresh", "route") /\ Below("blocked", "route")
    /\ Below("refreshed", "refresh") /\ Below("demote_refresh", "refresh")
    /\ Below("refreshed", "demote_refresh")
    /\ Below("eligible", "refreshed") /\ Below("blocked", "refreshed")
    /\ Below("blocked", "eligible") /\ Below("mint", "eligible") /\ Below("offer", "eligible")
    /\ Below("grant_event", "mint") /\ Below("offer", "mint")
    /\ Below("offer", "grant_event")
    /\ Below("acknowledge", "offer")
    /\ Below("answered", "acknowledge") /\ Below("demote_answer", "acknowledge")
    /\ Below("answered", "demote_answer")
<1>1. Below("admit", "reserve") /\ Below("replayed", "reserve")
  BY RankValues DEF Below, Stages
<1>2. Below("ask", "admit")
  BY RankValues DEF Below, Stages
<1>3. Below("guardian", "ask")
  BY RankValues DEF Below, Stages
<1>4. Below("lima", "guardian")
  BY RankValues DEF Below, Stages
<1>5. Below("lima_event", "lima") /\ Below("lima_failed", "lima")
  BY RankValues DEF Below, Stages
<1>6. Below("route", "lima_event")
  BY RankValues DEF Below, Stages
<1>7. Below("refresh", "route") /\ Below("blocked", "route")
  <2>1. Rank("refresh") + 3 < Rank("route") /\ Rank("blocked") < Rank("route")
    BY RankValues
  <2>2. QED
    BY <2>1 DEF Below, Stages
<1>8. Below("refreshed", "refresh") /\ Below("demote_refresh", "refresh")
  BY RankValues DEF Below, Stages
<1>9. Below("refreshed", "demote_refresh")
  BY RankValues DEF Below, Stages
<1>10. Below("eligible", "refreshed") /\ Below("blocked", "refreshed")
  BY RankValues DEF Below, Stages
<1>11. Below("blocked", "eligible") /\ Below("mint", "eligible") /\ Below("offer", "eligible")
  BY RankValues DEF Below, Stages
<1>12. Below("grant_event", "mint") /\ Below("offer", "mint")
  BY RankValues DEF Below, Stages
<1>13. Below("offer", "grant_event")
  BY RankValues DEF Below, Stages
<1>14. Below("acknowledge", "offer")
  BY RankValues DEF Below, Stages
<1>15. Below("answered", "acknowledge") /\ Below("demote_answer", "acknowledge")
  BY RankValues DEF Below, Stages
<1>16. Below("answered", "demote_answer")
  BY RankValues DEF Below, Stages
<1>17. QED
  BY <1>1, <1>2, <1>3, <1>4, <1>5, <1>6, <1>7, <1>8, <1>9, <1>10, <1>11, <1>12, <1>13, <1>14, <1>15, <1>16

\* Every step of a submission hands on to a stage below, ends the submission or
\* ends the call.
Lower == Below(call'.at, call.at) /\ call'.rest = call.rest

LEMMA SubmitLowers ==
    ASSUME IInv, SubmitStep
    PROVE  ~At("idle") /\ (Lower \/ Returned \/ call' = NoCall)
<1>1. call \in Call
  BY DEF IInv, TypeOK
<1>2. CASE reject_replay \/ guardian_unavailable \/ fail_closed \/ stop_before_assignment
           \/ append_acknowledgement \/ append_block
  BY <1>2 DEF reject_replay, guardian_unavailable, fail_closed, stop_before_assignment,
              append_acknowledgement, append_block, append_and_return, At
<1>3. CASE write_fails \/ \E o \in Uncaught : refresher_aborts(o)
  BY <1>3 DEF write_fails, WriteStages, refresher_aborts, Refresher, At
<1>4. CASE reserve_request
  <2>1. call.at = "reserve" /\ (call'.at = "admit" \/ call'.at = "replayed") /\ call'.rest = call.rest
    BY <1>1, <1>4 DEF reserve_request, At, Now, Call
  <2>2. QED
    BY <2>1, Belows DEF Lower, At
<1>5. CASE admit
  <2>1. call.at = "admit" /\ (Returned \/ (call'.at = "ask" /\ call'.rest = call.rest))
    BY <1>1, <1>5 DEF admit, append_and_go, append_and_return, At, Call
  <2>2. QED
    BY <2>1, Belows DEF Lower, At
<1>6. CASE request_guardian
  <2>1. call.at = "ask" /\ call'.at = "guardian" /\ call'.rest = call.rest
    BY <1>1, <1>6 DEF request_guardian, append_and_go, At, Call
  <2>2. QED
    BY <2>1, Belows DEF Lower, At
<1>7. CASE \E d \in GuardianDecisions : guardian_decides(d)
  <2>1. call.at = "guardian" /\ call'.at = "lima" /\ call'.rest = call.rest
    BY <1>1, <1>7 DEF guardian_decides, At, Call
  <2>2. QED
    BY <2>1, Belows DEF Lower, At
<1>8. CASE \E d \in LimaStatuses : run_lima(d)
  <2>1. call.at = "lima" /\ call'.at = "lima_event" /\ call'.rest = call.rest
    BY <1>1, <1>8 DEF run_lima, At, Call
  <2>2. QED
    BY <2>1, Belows DEF Lower, At
<1>9. CASE run_lima_fails
  <2>1. call.at = "lima" /\ call'.at = "lima_failed" /\ call'.rest = call.rest
    BY <1>1, <1>9 DEF run_lima_fails, At, Now, Call
  <2>2. QED
    BY <2>1, Belows DEF Lower, At
<1>10. CASE append_lima_event
  <2>1. call.at = "lima_event" /\ call'.at = "route" /\ call'.rest = call.rest
    BY <1>1, <1>10 DEF append_lima_event, append_and_go, At, Call
  <2>2. QED
    BY <2>1, Belows DEF Lower, At
<1>11. CASE route_assignment
  <2>1. call.at = "route" /\ (call'.at = "refresh" \/ call'.at = "blocked") /\ call'.rest = call.rest
    BY <1>1, <1>11 DEF route_assignment, At, Now, Call
  <2>2. QED
    BY <2>1, Belows DEF Lower, At
<1>12. CASE \E o \in {"ok", "state_error"} : refresher_returns(o)
  <2>1. call.at = "refresh" /\ call'.at = "refreshed" /\ call'.rest = call.rest
    BY <1>1, <1>12 DEF refresher_returns, Refresher, At, Call
  <2>2. QED
    BY <2>1, Belows DEF Lower, At
<1>13. CASE \E d \in Demotions : refresher_demotes(d[1], d[2])
  <2>1. call.at = "refresh" /\ call'.at = "demote_refresh" /\ call'.rest = call.rest
    BY <1>1, <1>13 DEF refresher_demotes, Refresher, At, Call
  <2>2. QED
    BY <2>1, Belows DEF Lower, At
<1>14. CASE persist_worker("demote_refresh", "refreshed")
  <2>1. call.at = "demote_refresh" /\ call'.at = "refreshed" /\ call'.rest = call.rest
    BY <1>1, <1>14 DEF persist_worker, At, Now, Call
  <2>2. QED
    BY <2>1, Belows DEF Lower, At
<1>15. CASE append_refresh_event
  <2>1. call.at = "refreshed" /\ (call'.at = "eligible" \/ call'.at = "blocked") /\ call'.rest = call.rest
    BY <1>1, <1>15 DEF append_refresh_event, append_and_go, At, Now, Call
  <2>2. QED
    BY <2>1, Belows DEF Lower, At
<1>16. CASE eligible
  <2>1. call.at = "eligible" /\ (call'.at = "blocked" \/ call'.at = "mint" \/ call'.at = "offer") /\ call'.rest = call.rest
    BY <1>1, <1>16 DEF eligible, At, Now, Call
  <2>2. QED
    BY <2>1, Belows DEF Lower, At
<1>17. CASE \E g \in Grant : issue_execution_grant(g)
  <2>1. call.at = "mint" /\ (call'.at = "grant_event" \/ call'.at = "offer") /\ call'.rest = call.rest
    BY <1>1, <1>17 DEF issue_execution_grant, At, Now, Call
  <2>2. QED
    BY <2>1, Belows DEF Lower, At
<1>18. CASE issuer_fails
  <2>1. call.at = "mint" /\ call'.at = "offer" /\ call'.rest = call.rest
    BY <1>1, <1>18 DEF issuer_fails, At, Now, Call
  <2>2. QED
    BY <2>1, Belows DEF Lower, At
<1>19. CASE append_grant_event
  <2>1. call.at = "grant_event" /\ call'.at = "offer" /\ call'.rest = call.rest
    BY <1>1, <1>19 DEF append_grant_event, append_and_go, At, Call
  <2>2. QED
    BY <2>1, Belows DEF Lower, At
<1>20. CASE offer
  <2>1. call.at = "offer" /\ call'.at = "acknowledge" /\ call'.rest = call.rest
    BY <1>1, <1>20 DEF offer, append_and_go, At, Call
  <2>2. QED
    BY <2>1, Belows DEF Lower, At
<1>21. CASE \E o \in {"acknowledged", "rejected", "failed_closed"} : endpoint_answers(o)
  <2>1. call.at = "acknowledge" /\ call'.at = "answered" /\ call'.rest = call.rest
    BY <1>1, <1>21 DEF endpoint_answers, At, Call
  <2>2. QED
    BY <2>1, Belows DEF Lower, At
<1>22. CASE \E d \in Demotions : endpoint_demotes(d[2])
  <2>1. call.at = "acknowledge" /\ call'.at = "demote_answer" /\ call'.rest = call.rest
    BY <1>1, <1>22 DEF endpoint_demotes, At, Call
  <2>2. QED
    BY <2>1, Belows DEF Lower, At
<1>23. CASE persist_worker("demote_answer", "answered")
  <2>1. call.at = "demote_answer" /\ call'.at = "answered" /\ call'.rest = call.rest
    BY <1>1, <1>23 DEF persist_worker, At, Now, Call
  <2>2. QED
    BY <2>1, Belows DEF Lower, At
<1>24. QED
  BY <1>2, <1>3, <1>4, <1>5, <1>6, <1>7, <1>8, <1>9, <1>10, <1>11, <1>12, <1>13, <1>14, <1>15, <1>16, <1>17, <1>18, <1>19, <1>20, <1>21, <1>22, <1>23 DEF SubmitStep

LEMMA LowerRunsOut ==
    ASSUME IInv, ~At("idle"), TypeOK', Lower
    PROVE  StepsLeft' < StepsLeft
BY StageRunsOut DEF Lower, Below

-----------------------------------------------------------------------------
\* Theorems of the specification

\* A call of n submissions takes at most 20 n steps, the polls of its workers
\* included: no retry, demotion or failed write prolongs it, and whatever is
\* taken while it is in progress brings its end nearer (submit, submit_many).
THEOREM CallsAreBounded == Spec => CallsRunOut
<1> DEFINE Bounded ==
      IF At("idle") THEN StepsLeft' = 0 \/ \E b \in Batches : StepsLeft' = 20 * Len(b)
      ELSE StepsLeft' < StepsLeft
<1>1. IInv /\ IInv' /\ [Next]_vars => [Bounded]_vars
  <2> SUFFICES ASSUME IInv, IInv', Next PROVE Bounded
    OBVIOUS
  <2>1. TypeOK /\ TypeOK' /\ StateInv
    BY DEF IInv
  <2>2. CASE start /\ UNCHANGED plane
    <3>1. At("idle") /\ call' = call
      BY <2>1, <2>2 DEF start, plane, StateInv, StagesInv, At
    <3>2. QED
      BY <3>1 DEF StepsLeft, At
  <2>3. CASE FleetStep /\ UNCHANGED plane
    <3>1. CASE At("idle")
      <4>1. call' = call
        BY <2>3 DEF plane
      <4>2. QED
        BY <3>1, <4>1 DEF StepsLeft, At
    <3>2. CASE ~At("idle")
      BY <2>3, <3>2, PollRunsOut
    <3>3. QED
      BY <3>1, <3>2
  <2>4. CASE \E b \in Batches : operator_call(b)
    <3>1. PICK b \in Batches : operator_call(b)
      BY <2>4
    <3>2. At("idle")
      BY <3>1 DEF operator_call
    <3>3. QED
      BY <3>1, <3>2, BatchBegins
  <2>5. CASE SubmitStep
    BY <2>1, <2>5, SubmitLowers, LowerRunsOut, ReturnRunsOut, EndRunsOut
  <2>6. CASE crash
    <3>1. call' = NoCall
      BY <2>6 DEF crash
    <3>2. CASE At("idle")
      BY <3>1, <3>2, NoCallIdle DEF StepsLeft, At
    <3>3. CASE ~At("idle")
      BY <3>1, <3>3, EndRunsOut
    <3>4. QED
      BY <3>2, <3>3
  <2>7. QED
    BY <2>2, <2>3, <2>4, <2>5, <2>6 DEF Next
<1>2. QED
  BY <1>1, Invariance, PTL DEF Spec, CallsRunOut

LEMMA UnpolledStep == IInv /\ UnpolledInv /\ [Next]_vars => UnpolledInv'
<1> SUFFICES ASSUME IInv, UnpolledInv, [Next]_vars PROVE UnpolledInv'
  OBVIOUS
<1>1. call \in Call /\ turn \in Turn /\ StagesInv
  BY DEF IInv, TypeOK, FleetTypeOK, StateInv
<1>2. CASE UNCHANGED vars
  BY <1>2 DEF vars, UnpolledInv, At, Assignable, Worker
<1>3. CASE start /\ UNCHANGED plane
  BY <1>1, <1>3 DEF start, plane, StagesInv, UnpolledInv, At
<1>4. CASE FleetStep /\ UNCHANGED plane
  <2>1. call' = call
    BY <1>4 DEF plane
  <2>2. CASE ~At("refresh")
    BY <2>1, <2>2 DEF UnpolledInv, At
  <2>3. CASE At("refresh")
    <3>1. mode = "serving"
          /\ turn.at \in {"poll", "persist_heartbeat", "heartbeat_event", "polled"}
      BY <1>1, <2>3 DEF StagesInv, At
    <3>2. CASE poll_succeeded \/ poll_failed \/ register \/ persist_registration
               \/ append_registration_event \/ register_fails
      BY <3>1, <3>2 DEF poll_succeeded, poll_failed, register, persist_registration,
                        append_registration_event, register_fails
    <3>3. CASE \E o \in {"unavailable", "auth_failed", "invalid", "state_error"} :
                  poll_rejected(o)
      BY <1>1, <2>1, <2>3, <3>3 DEF poll_rejected, Polled, Turn, UnpolledInv, At, Assignable,
                                    Worker
    <3>4. CASE \E hb \in Heartbeats : accept(hb)
      BY <1>1, <3>4 DEF accept, Turn, UnpolledInv
    <3>5. CASE persist_heartbeat
      BY <1>1, <2>1, <2>3, <3>5 DEF persist_heartbeat, Goto, Turn, UnpolledInv, At
    <3>6. CASE append_heartbeat_event
      BY <1>1, <2>1, <2>3, <3>6 DEF append_heartbeat_event, Goto, Turn, UnpolledInv, At
    <3>7. CASE heartbeat_write_fails
      BY <1>1, <3>7 DEF heartbeat_write_fails, Polled, Turn, UnpolledInv
    <3>8. QED
      BY <1>4, <3>2, <3>3, <3>4, <3>5, <3>6, <3>7 DEF FleetStep
  <2>4. QED
    BY <2>2, <2>3
<1>5. CASE \E b \in Batches : operator_call(b)
  <2>1. call'.at = "reserve"
    BY <1>5 DEF operator_call, Begin
  <2>2. QED
    BY <2>1 DEF UnpolledInv, At
<1>6. CASE SubmitStep
  <2>1. CASE route_assignment
    BY <1>1, <2>1 DEF route_assignment, Now, UnpolledInv, At, Assignable, Worker, Call
  <2>2. CASE ~route_assignment
    <3>1. call'.at # "refresh"
      <4>1. CASE Returned \/ call' = NoCall
        BY <1>1, <4>1, NoCallIdle, ReturnedType
      <4>2. CASE \/ reserve_request \/ admit \/ request_guardian \/ run_lima_fails
                 \/ append_lima_event \/ append_refresh_event \/ eligible \/ issuer_fails
                 \/ append_grant_event \/ offer
        BY <1>1, <4>1, <4>2 DEF reserve_request, admit, request_guardian, run_lima_fails,
             append_lima_event, append_refresh_event, eligible, issuer_fails,
             append_grant_event, offer, Now, append_and_go, append_and_return, Call
      <4>3. CASE \/ \E d \in GuardianDecisions : guardian_decides(d)
                 \/ \E d \in LimaStatuses : run_lima(d)
                 \/ \E o \in {"ok", "state_error"} : refresher_returns(o)
                 \/ \E d \in Demotions : refresher_demotes(d[1], d[2])
                 \/ persist_worker("demote_refresh", "refreshed")
        BY <1>1, <4>3 DEF guardian_decides, run_lima, refresher_returns, refresher_demotes,
             persist_worker, Now, Call
      <4>4. CASE \/ \E g \in Grant : issue_execution_grant(g)
                 \/ \E o \in {"acknowledged", "rejected", "failed_closed"} :
                       endpoint_answers(o)
                 \/ \E d \in Demotions : endpoint_demotes(d[2])
                 \/ persist_worker("demote_answer", "answered")
        BY <1>1, <4>4 DEF issue_execution_grant, endpoint_answers, endpoint_demotes,
             persist_worker, Now, Call
      <4>5. CASE \/ reject_replay \/ guardian_unavailable \/ fail_closed
                 \/ stop_before_assignment \/ append_acknowledgement \/ append_block
                 \/ write_fails \/ \E o \in Uncaught : refresher_aborts(o)
        BY <4>1, <4>5 DEF reject_replay, guardian_unavailable, fail_closed,
             stop_before_assignment, append_acknowledgement, append_block, write_fails,
             refresher_aborts, append_and_return
      <4>6. QED
        BY <1>6, <2>2, <4>2, <4>3, <4>4, <4>5 DEF SubmitStep
    <3>2. QED
      BY <3>1 DEF UnpolledInv, At
  <2>3. QED
    BY <2>1, <2>2
<1>7. CASE crash
  BY <1>7, NoCallIdle DEF crash, UnpolledInv, At
<1>8. QED
  BY <1>2, <1>3, <1>4, <1>5, <1>6, <1>7 DEF Next

\* A worker that cannot be polled, or does not answer, can always be demoted: the
\* update_state of those except clauses never raises in its turn
\* (_refresh_worker_health, acknowledge_preview).
THEOREM DemotionsAreTaken == Spec => []DemotionsGoThrough
<1>1. Init => UnpolledInv
  BY NoCallIdle DEF Init, PlaneInit, UnpolledInv, At
<1>2. IInv /\ UnpolledInv => DemotionsGoThrough
  <2> SUFFICES ASSUME IInv, UnpolledInv PROVE DemotionsGoThrough
    OBVIOUS
  <2>1. CASE At("refresh") /\ turn.at = "polled"
               /\ turn.outcome \in {"unavailable", "auth_failed"}
    BY <2>1 DEF UnpolledInv, DemotionsGoThrough, Assignable, ASSIGNABLE_STATES, MayEnter, At
  <2>2. CASE At("acknowledge")
    BY <2>2 DEF IInv, StateInv, OfferedWhenEligible, DemotionsGoThrough, Assignable,
                ASSIGNABLE_STATES, MayEnter, At
  <2>3. QED
    BY <2>1, <2>2 DEF DemotionsGoThrough, Demotions
<1>3. QED
  BY <1>1, <1>2, UnpolledStep, Invariance, PTL DEF Spec
=============================================================================
