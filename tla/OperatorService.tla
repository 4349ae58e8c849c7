--------------------------- MODULE OperatorService ---------------------------
(***************************************************************************)
(* The Supervisor's operator endpoint (operator_service.py): preflight,    *)
(* worker inventory and evidence trace requests over the operator channel. *)
(* The server has one thread: a request is served to its end before the    *)
(* next is read.  What makes it hard is around it: messages are lost,      *)
(* delayed and delivered twice, clients try again with a new message for   *)
(* the same request, a write fails or the process stops between any two    *)
(* transactions, and its clock is not the client's.                        *)
(*                                                                         *)
(* SupervisorControlPlane.submit is here what a caller sees of it: it      *)
(* reserves the request, records how far it got, and says so.  ControlPlane*)
(* models its inside.                                                      *)
(***************************************************************************)
EXTENDS Channel, Sequences, FiniteSets

CONSTANTS
    Requests,         \* request ids a client can choose
    NumWorkers,       \* registered workers, in the registry's order
    MaxTime,          \* bound: the Supervisor's clock
    MaxMessages,      \* bound: messages signed
    MaxFaults         \* bound: failed writes and restarts

ASSUME ServiceAssumption == NumWorkers \in Nat

VARIABLES
    now, ahead,       \* the clock; by how much the client's clock is ahead
    sent,             \* messages signed by the client, deliverable at any time
    reserved,         \* table operator_channel_messages
    requests,         \* table control_plane_requests: request identities
    events,           \* table control_plane_events
    workers,          \* registry: worker -> state
    doing,            \* where the one thread is
    accepted,         \* messages the channel let through, in order
    responses,        \* answers signed
    faults

vars == <<now, ahead, sent, reserved, requests, events, workers, doing,
          accepted, responses, faults>>
world == <<ahead, sent, accepted, reserved>>

Workers == 1..NumWorkers
Kinds == {"preflight", "inventory", "evidence"}
States == {"unregistered", "healthy", "offline"}
\* How far submit got: an acknowledged preview, a stop with both decisions on
\* record, or one without a usable Guardian or LIMA decision.
Outcomes == {"acknowledged", "stopped", "ungoverned"}

\* submit_many asks for each worker under an identity of its own; part 0 is the
\* request itself.
Identity(r, part) == <<r, part>>
Event(identity, actor, type) == [request |-> identity, actor |-> actor, type |-> type]
EventsFor(identity) == {i \in 1..Len(events) : events[i].request = identity}

Idle == [at |-> "idle"]
Goes(step) == doing' = [doing EXCEPT !.at = step]
Ends == doing' = Idle
Authenticated == {w \in Workers : workers[w] # "unregistered"}
CanAccept(w) == workers[w] = "healthy"
First(S) == CHOOSE w \in S : \A v \in S : w <= v

-----------------------------------------------------------------------------

\* The client signs on its own clock.  made is the same moment on the
\* Supervisor's.
Sign(kind, r, target, lag) ==
    /\ Len(sent) < MaxMessages
    /\ sent' = Append(sent,
            Signed(Len(sent) + 1, "operator_client", "operator_request",
                   [kind |-> kind, request |-> r, target |-> target, made |-> now],
                   now + ahead, lag))
    /\ UNCHANGED <<now, ahead, reserved, requests, events, workers, doing,
                   accepted, responses, faults>>

\* _authenticate_and_validate: a message arrives, perhaps again.  The identity
\* is reserved durably before the request is looked at.
Receive(m) ==
    /\ doing = Idle
    /\ Verified(sent[m], "operator_client", "operator_request", now, reserved)
    /\ reserved' = reserved \cup {sent[m].id}
    /\ accepted' = Append(accepted, [msg |-> m, at |-> now])
    /\ doing' = [at |-> "dispatch", msg |-> m, kind |-> sent[m].payload.kind,
                 request |-> sent[m].payload.request, target |-> sent[m].payload.target,
                 part |-> IF sent[m].payload.kind = "inventory" THEN 1 ELSE 0,
                 worker |-> 0, results |-> <<>>, since |-> Len(events),
                 trace |-> {}, status |-> "denied"]
    /\ UNCHANGED <<now, ahead, sent, requests, events, workers, responses, faults>>

\* handle and handle_inventory go straight to the control plane.
Dispatch(w) ==
    /\ doing.at = "dispatch" /\ doing.kind # "evidence"
    /\ w = IF doing.kind = "inventory" THEN doing.part ELSE w
    /\ doing' = [doing EXCEPT !.at = "admit", !.worker = w]
    /\ UNCHANGED <<now, world, requests, events, workers, responses, faults>>

\* handle_evidence: a query for itself is refused, its message spent; the read
\* goes through a worker that can take it, or else through the first one.
DispatchEvidence ==
    LET able == {w \in Authenticated : CanAccept(w)} IN
    /\ doing.at = "dispatch" /\ doing.kind = "evidence"
    /\ IF doing.target = doing.request THEN Ends
       ELSE IF Authenticated = {} THEN Goes("denial")
       ELSE doing' = [doing EXCEPT !.at = "admit",
                        !.worker = First(IF able # {} THEN able ELSE Authenticated)]
    /\ UNCHANGED <<now, world, requests, events, workers, responses, faults>>

\* _append_ungoverned_evidence_denial.
AppendDenial ==
    /\ doing.at = "denial"
    /\ events' = Append(events, Event(Identity(doing.request, 0), "operator", "denial"))
    /\ Goes("respond")
    /\ UNCHANGED <<now, world, requests, workers, responses, faults>>

\* submit, first transaction: the identity is reserved, or was before.
Admit ==
    LET identity == Identity(doing.request, doing.part) IN
    /\ doing.at = "admit"
    /\ requests' = requests \cup {identity}
    /\ Goes(IF identity \in requests THEN "replayed" ELSE "route")
    /\ UNCHANGED <<now, world, events, workers, responses, faults>>

\* What submit returned goes to the next worker, the trace, or the answer.
Returned(result) ==
    LET results == Append(doing.results, result) IN
    doing' = [doing EXCEPT
        !.results = results,
        !.part = IF doing.kind = "inventory" /\ @ < NumWorkers THEN @ + 1 ELSE @,
        !.at = IF doing.kind = "inventory" /\ doing.part < NumWorkers THEN "dispatch"
               ELSE IF doing.kind = "evidence" /\ result = "acknowledged" THEN "trace"
               ELSE "respond"]

RejectReplay ==
    /\ doing.at = "replayed"
    /\ events' = Append(events,
            Event(Identity(doing.request, doing.part), "operator", "replay_rejected"))
    /\ Returned("ungoverned")
    /\ UNCHANGED <<now, world, requests, workers, responses, faults>>

\* The route refreshes its worker, which must be registered and able to accept
\* for an acknowledgement; it may leave the worker in any other state.
Route(outcome, state) ==
    /\ doing.at = "route"
    /\ outcome = "acknowledged" => workers[doing.worker] = "healthy" /\ state = "healthy"
    /\ outcome = "ungoverned" => state = workers[doing.worker]
    /\ workers[doing.worker] = "unregistered" <=> state = "unregistered"
    /\ workers' = [workers EXCEPT ![doing.worker] = state]
    /\ events' = Append(events, Event(Identity(doing.request, doing.part), "operator", outcome))
    /\ Returned(outcome)
    /\ UNCHANGED <<now, world, requests, responses, faults>>

\* Mutated form: one event of the operator makes the whole trace the operator's.
ReadTrace_AnyActor ==
    LET found == EventsFor(Identity(doing.target, 0))
        available == \E i \in found : events[i].actor = "operator"
    IN  /\ doing.at = "trace"
        /\ doing' = [doing EXCEPT !.at = "readEvent",
                        !.trace = IF available THEN found ELSE {},
                        !.status = IF available THEN "available" ELSE "not_found"]
        /\ UNCHANGED <<now, world, requests, events, workers, responses, faults>>

\* The target's events, released only when every one is this operator's.  A
\* target of another actor and a missing one look the same.
ReadTrace ==
    LET found == EventsFor(Identity(doing.target, 0))
        available == found # {} /\ \A i \in found : events[i].actor = "operator"
    IN  /\ doing.at = "trace"
        /\ doing' = [doing EXCEPT !.at = "readEvent",
                        !.trace = IF available THEN found ELSE {},
                        !.status = IF available THEN "available" ELSE "not_found"]
        /\ UNCHANGED <<now, world, requests, events, workers, responses, faults>>

\* _append_evidence_read_event.
AppendRead ==
    /\ doing.at = "readEvent"
    /\ events' = Append(events, Event(Identity(doing.request, 0), "operator", "evidence_read"))
    /\ Goes("respond")
    /\ UNCHANGED <<now, world, requests, workers, responses, faults>>

\* Mutated form: a worker is eligible by its state alone.
InventoryStatus_ByState ==
    IF "ungoverned" \in {doing.results[w] : w \in Workers} THEN "denied"
    ELSE IF \A w \in Workers : CanAccept(w) THEN "healthy"
    ELSE "degraded_read_only"

\* _inventory_response: nothing is shown unless every worker was governed; the
\* records are the registry's own, so their states are those after the refresh.
InventoryStatus ==
    IF "ungoverned" \in {doing.results[w] : w \in Workers} THEN "denied"
    ELSE IF \A w \in Workers : CanAccept(w) /\ doing.results[w] = "acknowledged"
    THEN "healthy"
    ELSE "degraded_read_only"

\* The answer names the evidence of its own request, read again from the store.
Respond ==
    /\ doing.at = "respond"
    /\ responses' = responses \cup {
            [msg |-> doing.msg, kind |-> doing.kind, request |-> doing.request,
             target |-> doing.target, since |-> doing.since, trace |-> doing.trace,
             refs |-> EventsFor(Identity(doing.request, 0)),
             status |-> CASE doing.kind = "inventory" -> InventoryStatus
                          [] doing.kind = "evidence" -> doing.status
                          [] OTHER -> doing.results[1]]}
    /\ Ends
    /\ UNCHANGED <<now, world, requests, events, workers, faults>>

\* A transaction fails: 503, and the message stays spent.
WriteFails ==
    /\ doing.at \in {"denial", "admit", "replayed", "route", "readEvent"}
    /\ faults < MaxFaults
    /\ faults' = faults + 1
    /\ Ends
    /\ UNCHANGED <<now, world, requests, events, workers, responses>>

\* The process stops; the next one registers and polls its workers anew.
Restart(states) ==
    /\ faults < MaxFaults
    /\ faults' = faults + 1
    /\ Ends
    /\ workers' = states
    /\ UNCHANGED <<now, world, requests, events, responses>>

Tick ==
    /\ now < MaxTime
    /\ now' = now + 1
    /\ UNCHANGED <<world, requests, events, workers, doing, responses, faults>>

-----------------------------------------------------------------------------

\* Another operator may have used the store before, under a request id of theirs.
Init ==
    /\ now = 0 /\ ahead \in {-1, 0, MaxSkew + 1}
    /\ sent = <<>> /\ reserved = {} /\ accepted = <<>>
    /\ \/ requests = {} /\ events = <<>>
       \/ \E r \in Requests :
            /\ requests = {Identity(r, 0)}
            /\ events = <<Event(Identity(r, 0), "other", "acknowledged")>>
    /\ workers \in [Workers -> States]
    /\ doing = Idle /\ responses = {} /\ faults = 0

Next ==
    \/ \E kind \in Kinds, r, target \in Requests, lag \in {0, 1} :
            /\ kind # "evidence" => target = r
            /\ Sign(kind, r, target, lag)
    \/ \E m \in 1..Len(sent) : Receive(m)
    \/ \E w \in Workers : Dispatch(w)
    \/ DispatchEvidence
    \/ AppendDenial
    \/ Admit
    \/ RejectReplay
    \/ \E outcome \in Outcomes, state \in States : Route(outcome, state)
    \/ ReadTrace
    \/ AppendRead
    \/ Respond
    \/ WriteFails
    \/ \E states \in [Workers -> States] : Restart(states)
    \/ Tick

Spec == Init /\ [][Next]_vars

-----------------------------------------------------------------------------

\* A message is acted on once, however often it is delivered and whatever the
\* process lost in between, and no later than the channel's lifetime after the
\* client made it, but for the difference of their clocks.  A request and each
\* part of an inventory is routed once, whatever messages carry it.
ActedOnce ==
    /\ \A i, j \in 1..Len(accepted) : accepted[i].msg = accepted[j].msg => i = j
    /\ \A i \in 1..Len(accepted) :
            accepted[i].at - sent[accepted[i].msg].payload.made < MaxLifetime + ahead
    /\ \A i, j \in 1..Len(events) :
            /\ events[i].request = events[j].request
            /\ events[i].type \in Outcomes /\ events[j].type \in Outcomes
            => i = j

\* "No target events are returned if Guardian, LIMA, Arc acknowledgement, or
\* evidence writing fails": an available trace has its own acknowledged route
\* and its read in the store, in this order, holds every event the target had
\* at the read and nothing later, and shows no event of another actor.
TraceEvidenced ==
    \A x \in responses : x.trace # {} =>
        \E j, k \in x.refs :
            /\ x.since < j /\ j < k
            /\ events[j].type = "acknowledged" /\ events[k].type = "evidence_read"
            /\ x.trace = {i \in 1..(k - 1) : events[i].request = Identity(x.target, 0)}
            /\ \A i \in x.trace : events[i].actor = "operator"

\* An inventory is healthy only when every worker acknowledged this very
\* message: not on what an earlier one, cut short, left in the store.
InventoryHonest ==
    \A x \in responses : x.kind = "inventory" /\ x.status = "healthy" =>
        \A w \in Workers :
            \E k \in (x.since + 1)..Len(events) :
                events[k] = Event(Identity(x.request, w), "operator", "acknowledged")
=============================================================================
