----------------------- MODULE OperatorService_proofs -----------------------
(***************************************************************************)
(* The operator endpoint for any requests, number of workers, messages,    *)
(* faults, clocks and lifetimes: what its run checks, for every value of   *)
(* the constants.                                                          *)
(***************************************************************************)
EXTENDS OperatorService, SequenceTheorems, TLAPS

Payload == [kind : Kinds, request : Requests, target : Requests, made : Nat]
Envelope == [id : Nat, sender : {"operator_client"}, type : {"operator_request"},
             payload : Payload, issued : Int, expires : Int]
EventTypes == {"acknowledged", "stopped", "ungoverned", "denial", "replay_rejected", "evidence_read"}
Acceptance == [msg : Nat, at : Nat]
StoredEvent == [request : Requests \X Nat, actor : {"operator", "other"}, type : EventTypes]
Picked == Workers \cup {0} \cup {First(S) : S \in SUBSET Workers}
Steps == {"dispatch", "denial", "admit", "replayed", "route", "trace", "readEvent", "respond"}
Statuses == {"denied", "available", "not_found"}
Work == [at : Steps, msg : Nat, kind : Kinds, request : Requests, target : Requests, part : Nat,
         worker : Picked, results : Seq(Outcomes), since : Nat, trace : SUBSET Nat,
         status : Statuses]

TypeInv ==
    /\ now \in Nat /\ ahead \in Int
    /\ sent \in Seq(Envelope)
    /\ accepted \in Seq(Acceptance)
    /\ events \in Seq(StoredEvent)
    /\ requests \subseteq Requests \X Nat
    /\ doing \in {Idle} \cup Work

\* A message is reserved before it is accepted, and is timed by the client's clock.
MessageInv ==
    /\ \A m \in 1..Len(sent) : sent[m].id = m /\ sent[m].issued = sent[m].payload.made + ahead
    /\ \A i \in 1..Len(accepted) : accepted[i].msg \in 1..Len(sent) \cap reserved

Routed(identity) == \E i \in EventsFor(identity) : events[i].type \in Outcomes
Now == Identity(doing.request, doing.part)

\* A request that was routed is reserved, and one that is about to be was not routed yet.
RouteInv ==
    /\ \A identity \in Requests \X Nat : Routed(identity) => identity \in requests
    /\ doing.at = "route" => Now \in requests /\ ~Routed(Now)

\* What the request in hand has of its own evidence.
AckOf(i, identity, since) ==
    /\ i \in since + 1 .. Len(events)
    /\ events[i] = Event(identity, "operator", "acknowledged")
TraceAt(k) == {i \in 1..k : events[i].request = Identity(doing.target, 0)}
OwnTrace == \A i \in doing.trace : events[i].actor = "operator"
TraceInv ==
    /\ doing.at # "idle" => doing.since <= Len(events)
    /\ doing.at \in {"dispatch", "denial", "admit", "replayed", "route", "trace"} => doing.trace = {}
    /\ doing.at # "idle" /\ doing.kind # "inventory" => doing.part = 0
    /\ doing.at \in {"trace", "readEvent"} =>
           /\ doing.kind = "evidence"
           /\ \E j \in 1..Len(events) : AckOf(j, Identity(doing.request, 0), doing.since)
    /\ doing.at = "readEvent" /\ doing.trace # {} => doing.trace = TraceAt(Len(events)) /\ OwnTrace
    /\ doing.at = "respond" /\ doing.trace # {} =>
           \E j, k \in 1..Len(events) :
               /\ AckOf(j, Identity(doing.request, 0), doing.since) /\ j < k
               /\ events[k].type = "evidence_read"
               /\ events[k].request = Identity(doing.request, 0)
               /\ doing.trace = TraceAt(k - 1) /\ OwnTrace

\* What each worker of an inventory was said to have done, it did for this message.
PartsInv ==
    doing.at # "idle" /\ doing.kind = "inventory" =>
        /\ doing.at # "denial"
        /\ doing.at \in {"dispatch", "admit", "replayed", "route"} => Len(doing.results) + 1 = doing.part
        /\ doing.at = "respond" => NumWorkers <= Len(doing.results)
        /\ \A p \in 1..Len(doing.results) : doing.results[p] = "acknowledged" =>
               \E i \in 1..Len(events) : AckOf(i, Identity(doing.request, p), doing.since)

AnswersInv ==
    /\ \A x \in responses : x.refs \subseteq 1..Len(events) /\ x.since \in Nat
                            /\ \A i \in x.trace : i \in 1..Len(events)
    /\ TraceEvidenced
    /\ InventoryHonest

IInv == TypeInv /\ MessageInv /\ ActedOnce /\ RouteInv /\ TraceInv /\ PartsInv /\ AnswersInv

----------------------------------------------------------------------------

LEMMA InitHolds == Init => IInv
<1>. SUFFICES ASSUME Init PROVE IInv
  OBVIOUS
<1>1. /\ sent = <<>> /\ Len(sent) = 0 /\ accepted = <<>> /\ Len(accepted) = 0
      /\ doing = Idle /\ responses = {}
  BY DEF Init
<1>2. CASE requests = {} /\ events = <<>>
  <2>1. TypeInv
    BY <1>1, <1>2, ChannelAssumption DEF Init, TypeInv
  <2>2. Len(events) = 0
    BY <1>2
  <2>. QED
    BY <1>1, <2>1, <2>2 DEF IInv, MessageInv, ActedOnce, RouteInv, Routed, EventsFor, TraceInv,
       PartsInv, AnswersInv, TraceEvidenced, InventoryHonest, Idle
<1>3. ASSUME NEW r \in Requests, requests = {Identity(r, 0)},
             events = <<Event(Identity(r, 0), "other", "acknowledged")>>
      PROVE  IInv
  <2>1. Len(events) = 1 /\ events[1].request = Identity(r, 0) /\ Identity(r, 0) \in Requests \X Nat
    BY <1>3 DEF Event, Identity
  <2>0. Event(Identity(r, 0), "other", "acknowledged") \in StoredEvent
    BY DEF Event, Identity, StoredEvent, EventTypes
  <2>2. TypeInv
    BY <1>1, <1>3, <2>0, <2>1, ChannelAssumption DEF Init, TypeInv
  <2>3. RouteInv
    BY <1>1, <1>3, <2>1 DEF RouteInv, Routed, EventsFor, Idle
  <2>. QED
    BY <1>1, <2>1, <2>2, <2>3 DEF IInv, MessageInv, ActedOnce, TraceInv,
       PartsInv, AnswersInv, TraceEvidenced, InventoryHonest, Idle
<1>. QED  BY <1>2, <1>3 DEF Init

----------------------------------------------------------------------------

LEMMA Working ==
    ASSUME TypeInv, doing.at # "idle"
    PROVE  doing \in Work
  BY DEF TypeInv, Idle

LEMMA WorkGoesOn ==
    ASSUME NEW work \in Work, NEW at \in Steps, NEW part \in Nat, NEW worker \in Picked,
           NEW results \in Seq(Outcomes), NEW trace \in SUBSET Nat, NEW status \in Statuses
    PROVE  /\ [work EXCEPT !.at = at] \in Work
           /\ [work EXCEPT !.at = at, !.worker = worker] \in Work
           /\ [work EXCEPT !.at = at, !.trace = trace, !.status = status] \in Work
           /\ [work EXCEPT !.results = results, !.part = part, !.at = at] \in Work
  BY DEF Work

LEMMA OneMoreEvent ==
    ASSUME TypeInv, NEW identity \in Requests \X Nat, NEW type \in EventTypes,
           events' = Append(events, Event(identity, "operator", type))
    PROVE  /\ events' \in Seq(StoredEvent)
           /\ Len(events) \in Nat /\ Len(events') = Len(events) + 1
           /\ \A i \in 1..Len(events) : events'[i] = events[i]
           /\ events'[Len(events) + 1] = Event(identity, "operator", type)
<1>1. Event(identity, "operator", type) \in StoredEvent
  BY DEF Event, StoredEvent, EventTypes
<1>. QED  BY <1>1, AppendProperties DEF TypeInv

LEMMA ResultReturned ==
    ASSUME TypeInv, doing.at # "idle", NEW result \in Outcomes, Returned(result)
    PROVE  /\ doing' \in Work /\ Len(doing'.results) = Len(doing.results) + 1
           /\ \A p \in 1..Len(doing.results) : doing'.results[p] = doing.results[p]
           /\ doing'.results[Len(doing.results) + 1] = result
           /\ doing'.at \in {"dispatch", "trace", "respond"}
           /\ doing.kind = "inventory" =>
                  \/ doing'.at = "dispatch" /\ doing'.part = doing.part + 1
                  \/ doing'.at = "respond" /\ doing.part >= NumWorkers
           /\ doing.kind # "inventory" => doing'.at # "dispatch" /\ doing'.part = doing.part
           /\ doing'.at = "trace" => doing.kind = "evidence" /\ result = "acknowledged"
           /\ UNCHANGED <<doing.kind, doing.request, doing.target, doing.since, doing.trace>>
<1>. DEFINE results == Append(doing.results, result)
<1>1. doing \in Work /\ doing.results \in Seq(Outcomes)
  BY Working DEF Work
<1>2. /\ results \in Seq(Outcomes) /\ Len(results) = Len(doing.results) + 1
      /\ \A p \in 1..Len(doing.results) : results[p] = doing.results[p]
      /\ results[Len(doing.results) + 1] = result
  BY <1>1, AppendProperties
<1>3. doing' = [doing EXCEPT
        !.results = results,
        !.part = IF doing.kind = "inventory" /\ doing.part < NumWorkers THEN doing.part + 1 ELSE doing.part,
        !.at = IF doing.kind = "inventory" /\ doing.part < NumWorkers THEN "dispatch"
               ELSE IF doing.kind = "evidence" /\ result = "acknowledged" THEN "trace"
               ELSE "respond"]
  BY DEF Returned
<1>. HIDE DEF results
<1>4. doing' \in Work
  <2>. DEFINE part == IF doing.kind = "inventory" /\ doing.part < NumWorkers THEN doing.part + 1 ELSE doing.part
              at == IF doing.kind = "inventory" /\ doing.part < NumWorkers THEN "dispatch"
                    ELSE IF doing.kind = "evidence" /\ result = "acknowledged" THEN "trace"
                    ELSE "respond"
  <2>1. doing.part \in Nat
    BY <1>1 DEF Work
  <2>2. part \in Nat /\ at \in Steps
    BY <2>1 DEF Steps
  <2>3. doing' = [doing EXCEPT !.results = results, !.part = part, !.at = at]
    BY <1>3
  <2>. HIDE DEF part, at
  <2>4. \E worker \in Picked, trace \in SUBSET Nat, status \in Statuses : TRUE
    BY DEF Picked, Statuses
  <2>. QED  BY <1>1, <1>2, <2>2, <2>3, <2>4, WorkGoesOn
<1>. QED  BY <1>1, <1>2, <1>3, <1>4, ServiceAssumption DEF Work

LEMMA TypeStep == TypeInv /\ [Next]_vars => TypeInv'
<1>. SUFFICES ASSUME TypeInv, [Next]_vars PROVE TypeInv'
  OBVIOUS
<1>. USE DEF TypeInv
<1>1. ASSUME NEW kind \in Kinds, NEW r \in Requests, NEW target \in Requests, NEW lag \in {0, 1},
             Sign(kind, r, target, lag)
      PROVE  TypeInv'
  <2>. DEFINE e == Signed(Len(sent) + 1, "operator_client", "operator_request",
                   [kind |-> kind, request |-> r, target |-> target, made |-> now],
                   now + ahead, lag)
  <2>1. e \in Envelope
    BY ChannelAssumption DEF Signed, Envelope, Payload
  <2>2. sent' = Append(sent, e)
    BY <1>1 DEF Sign
  <2>3. sent' \in Seq(Envelope)
    BY <2>1, <2>2, AppendProperties
  <2>. QED  BY <1>1, <2>3 DEF Sign
<1>2. ASSUME NEW m \in 1..Len(sent), Receive(m) PROVE TypeInv'
  <2>1. sent[m] \in Envelope /\ m \in Nat
    OBVIOUS
  <2>2. doing' \in Work
    <3>1. sent[m].payload \in Payload
      BY <2>1 DEF Envelope
    <3>. DEFINE part == IF sent[m].payload.kind = "inventory" THEN 1 ELSE 0
    <3>2. part \in Nat
      OBVIOUS
    <3>3. doing' = [at |-> "dispatch", msg |-> m, kind |-> sent[m].payload.kind,
                    request |-> sent[m].payload.request, target |-> sent[m].payload.target,
                    part |-> part, worker |-> 0, results |-> <<>>, since |-> Len(events),
                    trace |-> {}, status |-> "denied"]
      BY <1>2 DEF Receive
    <3>4. Len(events) \in Nat
      OBVIOUS
    <3>. HIDE DEF part
    <3>. QED  BY <2>1, <3>1, <3>2, <3>3, <3>4 DEF Work, Steps, Payload, Picked, Statuses
  <2>3. accepted' \in Seq(Acceptance)
    BY <1>2, <2>1 DEF Receive, Acceptance
  <2>. QED  BY <1>2, <2>2, <2>3 DEF Receive
<1>3. ASSUME NEW w \in Workers, Dispatch(w) PROVE TypeInv'
  <2>1. doing \in Work
    BY <1>3, Working DEF Dispatch
  <2>. QED  BY <1>3, <2>1, ServiceAssumption DEF Dispatch, world, Work, Steps, Picked
<1>4. CASE DispatchEvidence
  <2>1. doing \in Work
    BY <1>4, Working DEF DispatchEvidence
  <2>2. ASSUME NEW S \in SUBSET Workers PROVE First(S) \in Picked
    BY DEF Picked
  <2>3. Authenticated \in SUBSET Workers
    BY DEF Authenticated
  <2>. DEFINE able == {w \in Authenticated : CanAccept(w)}
              chosen == First(IF able # {} THEN able ELSE Authenticated)
  <2>4. chosen \in Picked
    BY <2>2, <2>3
  <2>5. \/ doing' = Idle \/ doing' = [doing EXCEPT !.at = "denial"]
        \/ doing' = [doing EXCEPT !.at = "admit", !.worker = chosen]
    BY <1>4 DEF DispatchEvidence, Goes, Ends
  <2>. HIDE DEF chosen, able
  <2>6. doing' \in {Idle} \cup Work
    BY <2>1, <2>4, <2>5 DEF Work, Steps
  <2>. QED  BY <1>4, <2>6 DEF DispatchEvidence, world
<1>5. CASE AppendDenial \/ AppendRead
  <2>1. doing \in Work
    BY <1>5, Working DEF AppendDenial, AppendRead
  <2>2. Identity(doing.request, 0) \in Requests \X Nat
    BY <2>1 DEF Work, Identity
  <2>3. events' \in Seq(StoredEvent)
    BY <1>5, <2>2, OneMoreEvent DEF AppendDenial, AppendRead, EventTypes
  <2>. QED  BY <1>5, <2>1, <2>3 DEF AppendDenial, AppendRead, world, Goes, Work, Steps
<1>6. CASE Admit
  <2>1. doing \in Work
    BY <1>6, Working DEF Admit
  <2>2. Identity(doing.request, doing.part) \in Requests \X Nat
    BY <2>1 DEF Work, Identity
  <2>3. doing' = [doing EXCEPT !.at = "replayed"] \/ doing' = [doing EXCEPT !.at = "route"]
    BY <1>6 DEF Admit, Goes
  <2>4. doing' \in Work
    BY <2>1, <2>3 DEF Work, Steps
  <2>. QED  BY <1>6, <2>2, <2>4 DEF Admit, world
<1>7. CASE RejectReplay \/ \E o \in Outcomes, s \in States : Route(o, s)
  <2>1. doing.at # "idle"
    BY <1>7 DEF RejectReplay, Route
  <2>2. doing \in Work /\ Now \in Requests \X Nat
    BY <2>1, Working DEF Work, Identity, Now
  <2>3. doing' \in Work
    BY <1>7, <2>1, ResultReturned DEF RejectReplay, Route, Outcomes
  <2>4. events' \in Seq(StoredEvent)
    BY <1>7, <2>2, OneMoreEvent DEF RejectReplay, Route, Outcomes, EventTypes, Now
  <2>. QED  BY <1>7, <2>3, <2>4 DEF RejectReplay, Route, world
<1>8. CASE ReadTrace
  <2>1. doing \in Work
    BY <1>8, Working DEF ReadTrace
  <2>. DEFINE found == EventsFor(Identity(doing.target, 0))
              available == found # {} /\ \A i \in found : events[i].actor = "operator"
              trace == IF available THEN found ELSE {}
              status == IF available THEN "available" ELSE "not_found"
  <2>2. found \in SUBSET Nat
    BY DEF EventsFor
  <2>3. trace \in SUBSET Nat /\ status \in Statuses
    BY <2>2 DEF Statuses
  <2>4. doing' = [doing EXCEPT !.at = "readEvent", !.trace = trace, !.status = status]
    BY <1>8 DEF ReadTrace
  <2>. HIDE DEF trace, status
  <2>5. doing' \in Work
    BY <2>1, <2>3, <2>4 DEF Work, Steps
  <2>. QED  BY <1>8, <2>5 DEF ReadTrace, world
<1>9. CASE Respond \/ WriteFails \/ (\E states \in [Workers -> States] : Restart(states)) \/ Tick
  BY <1>9 DEF Respond, WriteFails, Restart, Tick, Ends, world
<1>10. CASE UNCHANGED vars
  BY <1>10 DEF vars
<1>. QED  BY <1>1, <1>2, <1>3, <1>4, <1>5, <1>6, <1>7, <1>8, <1>9, <1>10 DEF Next

----------------------------------------------------------------------------

\* What a step does to the messages, and to the events.
LEMMA WorldStep ==
    ASSUME [Next]_vars
    PROVE  \/ \E kind \in Kinds, r, target \in Requests, lag \in {0, 1} : Sign(kind, r, target, lag)
           \/ \E m \in 1..Len(sent) : Receive(m)
           \/ UNCHANGED world
<1>. USE DEF world
<1>1. CASE \E w \in Workers : Dispatch(w)
  BY <1>1 DEF Dispatch
<1>2. CASE DispatchEvidence \/ AppendDenial \/ AppendRead \/ Admit \/ RejectReplay
           \/ (\E o \in Outcomes, s \in States : Route(o, s))
  BY <1>2 DEF DispatchEvidence, AppendDenial, AppendRead, Admit, RejectReplay, Route
<1>3. CASE ReadTrace \/ Respond \/ WriteFails \/ (\E states \in [Workers -> States] : Restart(states))
           \/ Tick \/ UNCHANGED vars
  BY <1>3 DEF ReadTrace, Respond, WriteFails, Restart, Tick, vars
<1>. QED  BY <1>1, <1>2, <1>3 DEF Next

Records(identity, type) == events' = Append(events, Event(identity, "operator", type))

LEMMA EventsStep ==
    ASSUME [Next]_vars
    PROVE  \/ UNCHANGED events
           \/ /\ AppendDenial \/ AppendRead
              /\ \E type \in EventTypes \ Outcomes : Records(Identity(doing.request, 0), type)
           \/ RejectReplay /\ Records(Now, "replay_rejected")
           \/ \E o \in Outcomes, s \in States : Route(o, s) /\ Records(Now, o)
<1>1. CASE \E kind \in Kinds, r, target \in Requests, lag \in {0, 1} : Sign(kind, r, target, lag)
  BY <1>1 DEF Sign
<1>2. CASE \E m \in 1..Len(sent) : Receive(m)
  BY <1>2 DEF Receive
<1>3. CASE \E w \in Workers : Dispatch(w)
  BY <1>3 DEF Dispatch
<1>4. CASE AppendDenial
  BY <1>4 DEF AppendDenial, Records, EventTypes, Outcomes
<1>5. CASE AppendRead
  BY <1>5 DEF AppendRead, Records, EventTypes, Outcomes
<1>6. CASE RejectReplay \/ \E o \in Outcomes, s \in States : Route(o, s)
  BY <1>6 DEF RejectReplay, Route, Records, Now
<1>7. CASE DispatchEvidence \/ Admit \/ ReadTrace \/ Respond \/ WriteFails
           \/ (\E states \in [Workers -> States] : Restart(states)) \/ Tick \/ UNCHANGED vars
  BY <1>7 DEF DispatchEvidence, Admit, ReadTrace, Respond, WriteFails, Restart, Tick, vars
<1>. QED  BY <1>1, <1>2, <1>3, <1>4, <1>5, <1>6, <1>7 DEF Next

\* A record is one more event; those before it stay as they were.
LEMMA Recorded ==
    ASSUME TypeInv, NEW identity \in Requests \X Nat, NEW type \in EventTypes, Records(identity, type)
    PROVE  /\ Len(events) \in Nat /\ Len(events') = Len(events) + 1
           /\ \A i \in 1..Len(events) : events'[i] = events[i]
           /\ events'[Len(events) + 1].request = identity
           /\ events'[Len(events) + 1].type = type
           /\ events'[Len(events) + 1] = Event(identity, "operator", type)
<1>1. events'[Len(events) + 1] = Event(identity, "operator", type)
  BY OneMoreEvent DEF Records
<1>. QED  BY <1>1, OneMoreEvent DEF Records, Event

LEMMA EventsGrow ==
    ASSUME TypeInv, [Next]_vars
    PROVE  /\ Len(events) \in Nat /\ Len(events') \in Nat /\ Len(events) <= Len(events')
           /\ \A i \in 1..Len(events) : events'[i] = events[i]
<1>1. Len(events) \in Nat
  BY DEF TypeInv
<1>2. CASE UNCHANGED events
  BY <1>1, <1>2
<1>3. ASSUME events' # events
      PROVE  \E identity \in Requests \X Nat, type \in EventTypes : Records(identity, type)
  <2>1. doing.at # "idle"
    BY <1>3, EventsStep DEF AppendDenial, AppendRead, RejectReplay, Route
  <2>2. Identity(doing.request, 0) \in Requests \X Nat /\ Now \in Requests \X Nat
    BY <2>1, Working DEF Work, Identity, Now
  <2>3. "replay_rejected" \in EventTypes /\ Outcomes \subseteq EventTypes
    BY DEF EventTypes, Outcomes
  <2>. QED  BY <1>3, <2>2, <2>3, EventsStep
<1>. QED  BY <1>1, <1>2, <1>3, Recorded

----------------------------------------------------------------------------

AcceptedOnce == \A i, j \in 1..Len(accepted) : accepted[i].msg = accepted[j].msg => i = j
AcceptedInTime ==
    \A i \in 1..Len(accepted) :
        accepted[i].at - sent[accepted[i].msg].payload.made < MaxLifetime + ahead
RoutedOnce ==
    \A i, j \in 1..Len(events) :
        /\ events[i].request = events[j].request
        /\ events[i].type \in Outcomes /\ events[j].type \in Outcomes
        => i = j

\* A message is reserved when it is accepted and no sooner, so none is accepted
\* twice; and the window it is in ends with its lifetime.
LEMMA MessageStep ==
    TypeInv /\ MessageInv /\ AcceptedOnce /\ AcceptedInTime /\ [Next]_vars
        => MessageInv' /\ AcceptedOnce' /\ AcceptedInTime'
<1>. SUFFICES ASSUME TypeInv, MessageInv, AcceptedOnce, AcceptedInTime, [Next]_vars
              PROVE  MessageInv' /\ AcceptedOnce' /\ AcceptedInTime'
  OBVIOUS
<1>0. /\ Len(sent) \in Nat /\ Len(accepted) \in Nat
      /\ \A m \in 1..Len(sent) : sent[m] \in Envelope
      /\ \A i \in 1..Len(accepted) : accepted[i] \in Acceptance
      /\ now \in Nat /\ ahead \in Int
  <2>1. Len(sent) \in Nat /\ Len(accepted) \in Nat /\ now \in Nat /\ ahead \in Int
    BY DEF TypeInv
  <2>2. \A m \in 1..Len(sent) : sent[m] \in Envelope
    BY DEF TypeInv
  <2>3. \A i \in 1..Len(accepted) : accepted[i] \in Acceptance
    BY DEF TypeInv
  <2>. QED  BY <2>1, <2>2, <2>3
<1>1. ASSUME NEW kind \in Kinds, NEW r \in Requests, NEW target \in Requests, NEW lag \in {0, 1},
             Sign(kind, r, target, lag)
      PROVE  MessageInv' /\ AcceptedOnce' /\ AcceptedInTime'
  <2>. DEFINE payload == [kind |-> kind, request |-> r, target |-> target, made |-> now]
              e == Signed(Len(sent) + 1, "operator_client", "operator_request", payload,
                          now + ahead, lag)
  <2>1. e \in Envelope
    BY ChannelAssumption, <1>0 DEF Signed, Envelope, Payload
  <2>2. sent' = Append(sent, e) /\ UNCHANGED <<accepted, ahead, reserved>>
    BY <1>1 DEF Sign
  <2>3. e.id = Len(sent) + 1 /\ e.issued = e.payload.made + ahead
    BY DEF Signed
  <2>. HIDE DEF e
  <2>4. /\ Len(sent') = Len(sent) + 1 /\ sent'[Len(sent) + 1] = e
        /\ \A m \in 1..Len(sent) : sent'[m] = sent[m]
    BY <2>1, <2>2, AppendProperties DEF TypeInv
  <2>5. \A m \in 1..Len(sent') : sent'[m].id = m /\ sent'[m].issued = sent'[m].payload.made + ahead
    BY <1>0, <2>3, <2>4 DEF MessageInv
  <2>6. MessageInv'
    BY <1>0, <2>2, <2>4, <2>5 DEF MessageInv
  <2>7. AcceptedInTime'
    BY <1>0, <2>2, <2>4 DEF MessageInv, AcceptedInTime
  <2>. QED  BY <2>2, <2>6, <2>7 DEF AcceptedOnce
<1>2. ASSUME NEW m \in 1..Len(sent), Receive(m)
      PROVE  MessageInv' /\ AcceptedOnce' /\ AcceptedInTime'
  <2>1. /\ accepted' = Append(accepted, [msg |-> m, at |-> now]) /\ UNCHANGED <<sent, ahead>>
        /\ reserved' = reserved \cup {sent[m].id} /\ sent[m].id \notin reserved
        /\ Timely(sent[m], now)
    BY <1>2 DEF Receive, Verified
  <2>2. sent[m].id = m /\ sent[m].issued = sent[m].payload.made + ahead
    BY DEF MessageInv
  <2>3. [msg |-> m, at |-> now] \in Acceptance
    BY <1>0 DEF Acceptance
  <2>8. /\ Len(accepted') = Len(accepted) + 1
        /\ accepted'[Len(accepted) + 1].msg = m /\ accepted'[Len(accepted) + 1].at = now
        /\ \A i \in 1..Len(accepted) : accepted'[i] = accepted[i]
    BY <1>0, <2>1, <2>3, AppendProperties DEF TypeInv
  <2>4. MessageInv'
    BY <1>0, <2>1, <2>2, <2>8 DEF MessageInv
  <2>5. AcceptedOnce'
    BY <1>0, <2>1, <2>2, <2>8 DEF MessageInv, AcceptedOnce
  <2>6. now - sent[m].payload.made < MaxLifetime + ahead
    <3>1. /\ sent[m].issued \in Int /\ sent[m].expires \in Int /\ sent[m].payload.made \in Nat
      BY <1>0 DEF Envelope, Payload
    <3>2. sent[m].expires > now /\ sent[m].expires - sent[m].issued <= MaxLifetime
      BY <2>1 DEF Timely
    <3>3. \A made, issued, expires \in Int :
             expires > now /\ expires - issued <= MaxLifetime /\ issued = made + ahead
                => now - made < MaxLifetime + ahead
      BY <1>0, ChannelAssumption
    <3>. QED  BY <2>2, <3>1, <3>2, <3>3
  <2>7. AcceptedInTime'
    BY <1>0, <2>1, <2>8, <2>6 DEF AcceptedInTime
  <2>. QED  BY <2>4, <2>5, <2>7
<1>3. CASE UNCHANGED world
  BY <1>3 DEF world, MessageInv, AcceptedOnce, AcceptedInTime
<1>. QED  BY <1>1, <1>2, <1>3, WorldStep

----------------------------------------------------------------------------


Kept == /\ doing' \in Work
        /\ doing'.kind = doing.kind /\ doing'.request = doing.request
        /\ doing'.target = doing.target /\ doing'.part = doing.part
        /\ doing'.results = doing.results /\ doing'.since = doing.since
Received == /\ UNCHANGED events
            /\ doing'.at = "dispatch" /\ doing'.trace = {} /\ doing'.results = <<>>
            /\ doing'.since = Len(events)
            /\ doing'.part = IF doing'.kind = "inventory" THEN 1 ELSE 0
Moved == /\ UNCHANGED events /\ Kept /\ doing'.trace = doing.trace
         /\ \/ doing.at = "dispatch" /\ doing'.at = "admit"
            \/ doing.at = "dispatch" /\ doing.kind = "evidence" /\ doing'.at = "denial"
            \/ doing.at = "admit" /\ doing'.at \in {"replayed", "route"} /\ Admit
Denied == /\ doing.at = "denial" /\ doing'.at = "respond" /\ Kept /\ doing'.trace = doing.trace
          /\ Records(Identity(doing.request, 0), "denial")
Resulted(result, type) ==
    /\ doing.at \in {"replayed", "route"} /\ Returned(result) /\ Records(Now, type)
    /\ result = "acknowledged" => type = "acknowledged"
Traced == /\ UNCHANGED events /\ doing.at = "trace" /\ doing'.at = "readEvent" /\ Kept
          /\ \/ doing'.trace = {}
             \/ /\ doing'.trace = EventsFor(Identity(doing.target, 0))
                /\ \A i \in doing'.trace : events[i].actor = "operator"
ReadRecorded == /\ doing.at = "readEvent" /\ doing'.at = "respond" /\ Kept
                /\ doing'.trace = doing.trace
                /\ Records(Identity(doing.request, 0), "evidence_read")

\* Where the one thread goes next, with what it records on the way.
LEMMA WorkStep ==
    ASSUME TypeInv, [Next]_vars
    PROVE  \/ doing' = Idle /\ UNCHANGED events
           \/ UNCHANGED <<doing, events>>
           \/ Received \/ Moved \/ Denied \/ Traced \/ ReadRecorded
           \/ \E result \in Outcomes, type \in EventTypes : Resulted(result, type)
<1>1. CASE (\E kind \in Kinds, r, target \in Requests, lag \in {0, 1} : Sign(kind, r, target, lag))
           \/ Tick \/ UNCHANGED vars
  BY <1>1 DEF Sign, Tick, vars
<1>2. CASE Respond \/ WriteFails \/ \E states \in [Workers -> States] : Restart(states)
  BY <1>2 DEF Respond, WriteFails, Restart, Ends
<1>3. CASE \E m \in 1..Len(sent) : Receive(m)
  BY <1>3 DEF Receive, Received
<1>4. CASE \E w \in Workers : Dispatch(w)
  <2>1. doing \in Work
    BY <1>4, Working DEF Dispatch
  <2>2. PICK w \in Workers : doing' = [doing EXCEPT !.at = "admit", !.worker = w]
    BY <1>4 DEF Dispatch
  <2>3. doing' \in Work
    BY <2>1, <2>2 DEF Work, Steps, Picked
  <2>. QED  BY <1>4, <2>1, <2>2, <2>3 DEF Dispatch, Moved, Kept, Work
<1>5. CASE DispatchEvidence
  <2>1. doing \in Work
    BY <1>5, Working DEF DispatchEvidence
  <2>2. doing' = Idle \/ doing' \in Work
    BY TypeStep DEF TypeInv
  <2>. DEFINE able == {w \in Authenticated : CanAccept(w)}
              chosen == First(IF able # {} THEN able ELSE Authenticated)
  <2>3. \/ doing' = Idle \/ doing' = [doing EXCEPT !.at = "denial"]
        \/ doing' = [doing EXCEPT !.at = "admit", !.worker = chosen]
    BY <1>5 DEF DispatchEvidence, Goes, Ends
  <2>. HIDE DEF chosen, able
  <2>4. UNCHANGED events /\ doing.at = "dispatch" /\ doing.kind = "evidence"
    BY <1>5 DEF DispatchEvidence
  <2>. QED  BY <2>1, <2>2, <2>3, <2>4 DEF Moved, Kept, Work
<1>6. CASE AppendDenial
  <2>1. doing \in Work /\ doing' = [doing EXCEPT !.at = "respond"]
    BY <1>6, Working DEF AppendDenial, Goes
  <2>. QED  BY <1>6, <2>1 DEF AppendDenial, Denied, Records, Kept, Work, Steps
<1>7. CASE AppendRead
  <2>1. doing \in Work /\ doing' = [doing EXCEPT !.at = "respond"]
    BY <1>7, Working DEF AppendRead, Goes
  <2>. QED  BY <1>7, <2>1 DEF AppendRead, ReadRecorded, Records, Kept, Work, Steps
<1>8. CASE Admit
  <2>1. doing \in Work
    BY <1>8, Working DEF Admit
  <2>2. doing' = [doing EXCEPT !.at = "replayed"] \/ doing' = [doing EXCEPT !.at = "route"]
    BY <1>8 DEF Admit, Goes
  <2>3. UNCHANGED events /\ doing.at = "admit"
    BY <1>8 DEF Admit
  <2>. QED  BY <1>8, <2>1, <2>2, <2>3 DEF Moved, Kept, Work, Steps
<1>9. CASE RejectReplay
  BY <1>9 DEF RejectReplay, Resulted, Records, Now, Outcomes, EventTypes
<1>10. CASE \E o \in Outcomes, s \in States : Route(o, s)
  BY <1>10 DEF Route, Resulted, Records, Now, Outcomes, EventTypes
<1>11. CASE ReadTrace
  <2>. DEFINE found == EventsFor(Identity(doing.target, 0))
              available == found # {} /\ \A i \in found : events[i].actor = "operator"
              trace == IF available THEN found ELSE {}
              status == IF available THEN "available" ELSE "not_found"
  <2>1. doing \in Work
    BY <1>11, Working DEF ReadTrace
  <2>2. /\ doing' = [doing EXCEPT !.at = "readEvent", !.trace = trace, !.status = status]
        /\ UNCHANGED events /\ doing.at = "trace"
    BY <1>11 DEF ReadTrace
  <2>3. trace = {} \/ (trace = found /\ \A i \in trace : events[i].actor = "operator")
    OBVIOUS
  <2>. HIDE DEF trace, status, found
  <2>4. doing' # Idle
    BY <2>1, <2>2 DEF Work, Idle
  <2>5. doing' \in Work
    BY <2>4, TypeStep DEF TypeInv
  <2>6. doing'.at = "readEvent" /\ doing'.trace = trace /\ Kept
    BY <2>1, <2>2, <2>5 DEF Work, Kept
  <2>. QED  BY <2>2, <2>3, <2>6 DEF Traced, found
<1>. QED  BY <1>1, <1>2, <1>3, <1>4, <1>5, <1>6, <1>7, <1>8, <1>9, <1>10, <1>11 DEF Next

----------------------------------------------------------------------------

LEMMA RequestsKept == [Next]_vars => requests \subseteq requests'
<1>. SUFFICES ASSUME [Next]_vars PROVE requests \subseteq requests'
  OBVIOUS
<1>1. CASE (\E kind \in Kinds, r, target \in Requests, lag \in {0, 1} : Sign(kind, r, target, lag))
           \/ (\E m \in 1..Len(sent) : Receive(m)) \/ \E w \in Workers : Dispatch(w)
  BY <1>1 DEF Sign, Receive, Dispatch
<1>2. CASE DispatchEvidence \/ AppendDenial \/ Admit \/ RejectReplay
           \/ \E o \in Outcomes, s \in States : Route(o, s)
  BY <1>2 DEF DispatchEvidence, AppendDenial, Admit, RejectReplay, Route
<1>3. CASE ReadTrace \/ AppendRead \/ Respond \/ WriteFails
           \/ (\E states \in [Workers -> States] : Restart(states)) \/ Tick \/ UNCHANGED vars
  BY <1>3 DEF ReadTrace, AppendRead, Respond, WriteFails, Restart, Tick, vars
<1>. QED  BY <1>1, <1>2, <1>3 DEF Next

\* A request is routed in the one step that leaves "route", which is reached
\* only from a request that was not reserved.
LEMMA RouteStep ==
    TypeInv /\ RouteInv /\ RoutedOnce /\ [Next]_vars => RouteInv' /\ RoutedOnce'
<1>. SUFFICES ASSUME TypeInv, RouteInv, RoutedOnce, [Next]_vars PROVE RouteInv' /\ RoutedOnce'
  OBVIOUS
<1>0. requests \subseteq requests'
  BY RequestsKept
<1>1. CASE UNCHANGED events
  <2>1. RoutedOnce'
    BY <1>1 DEF RoutedOnce
  <2>2. \A identity \in Requests \X Nat : Routed(identity)' => identity \in requests'
    BY <1>0, <1>1 DEF RouteInv, Routed, EventsFor
  <2>3. ASSUME doing'.at = "route" PROVE Now' \in requests' /\ ~Routed(Now)'
    <3>1. UNCHANGED doing \/ (Moved /\ Admit)
      BY <1>1, <2>3, WorkStep, ResultReturned
         DEF Received, Moved, Denied, Traced, ReadRecorded, Idle, Resulted
    <3>2. CASE UNCHANGED doing
      BY <1>0, <1>1, <2>3, <3>2 DEF RouteInv, Routed, EventsFor, Now
    <3>3. CASE Moved /\ Admit
      <4>1. Now' = Now
        BY <3>3 DEF Moved, Kept, Now
      <4>2. doing \in Work
        BY <3>3, Working DEF Admit
      <4>3. Now \in Requests \X Nat
        BY <4>2 DEF Work, Now, Identity
      <4>4. Now \notin requests /\ requests' = requests \cup {Now}
        BY <2>3, <3>3, <4>2 DEF Admit, Goes, Now, Work
      <4>5. ~Routed(Now)
        BY <4>3, <4>4 DEF RouteInv
      <4>. QED  BY <1>1, <4>1, <4>4, <4>5 DEF Routed, EventsFor
    <3>. QED  BY <3>1, <3>2, <3>3
  <2>. QED  BY <2>1, <2>2, <2>3 DEF RouteInv
<1>2. ASSUME NEW identity \in Requests \X Nat, NEW type \in EventTypes, Records(identity, type),
             doing'.at # "route", type \in Outcomes => identity \in requests /\ ~Routed(identity)
      PROVE  RouteInv' /\ RoutedOnce'
  <2>1. /\ Len(events) \in Nat /\ Len(events') = Len(events) + 1
        /\ \A i \in 1..Len(events) : events'[i] = events[i]
        /\ events'[Len(events) + 1].request = identity
        /\ events'[Len(events) + 1].type = type
    BY <1>2, Recorded
  <2>2. ASSUME NEW i \in 1..Len(events'), NEW j \in 1..Len(events'),
               events'[i].request = events'[j].request,
               events'[i].type \in Outcomes, events'[j].type \in Outcomes
        PROVE  i = j
    <3>1. CASE i \in 1..Len(events) /\ j \in 1..Len(events)
      BY <2>1, <2>2, <3>1 DEF RoutedOnce
    <3>2. CASE i = Len(events) + 1 /\ j \in 1..Len(events)
      BY <1>2, <2>1, <2>2, <3>2 DEF Routed, EventsFor
    <3>3. CASE i \in 1..Len(events) /\ j = Len(events) + 1
      BY <1>2, <2>1, <2>2, <3>3 DEF Routed, EventsFor
    <3>. QED  BY <2>1, <3>1, <3>2, <3>3
  <2>3. ASSUME NEW other \in Requests \X Nat, Routed(other)' PROVE other \in requests'
    <3>1. PICK i \in 1..Len(events') : events'[i].request = other /\ events'[i].type \in Outcomes
      BY <2>3 DEF Routed, EventsFor
    <3>2. CASE i = Len(events) + 1
      BY <1>0, <1>2, <2>1, <3>1, <3>2
    <3>3. CASE i \in 1..Len(events)
      BY <1>0, <2>1, <3>1, <3>3 DEF RouteInv, Routed, EventsFor
    <3>. QED  BY <2>1, <3>2, <3>3
  <2>. QED  BY <1>2, <2>2, <2>3 DEF RouteInv, RoutedOnce
<1>3. ASSUME events' # events
      PROVE  \E identity \in Requests \X Nat, type \in EventTypes :
                /\ Records(identity, type)
                /\ type \in Outcomes => identity \in requests /\ ~Routed(identity)
  <2>1. doing.at # "idle"
    BY <1>3, EventsStep DEF AppendDenial, AppendRead, RejectReplay, Route
  <2>2. Identity(doing.request, 0) \in Requests \X Nat /\ Now \in Requests \X Nat
    BY <2>1, Working DEF Work, Identity, Now
  <2>3. "replay_rejected" \in EventTypes /\ "replay_rejected" \notin Outcomes /\ Outcomes \subseteq EventTypes
    BY DEF EventTypes, Outcomes
  <2>4. CASE \E o \in Outcomes, s \in States : Route(o, s) /\ Records(Now, o)
    BY <2>2, <2>3, <2>4 DEF RouteInv, Route
  <2>. QED  BY <1>3, <2>2, <2>3, <2>4, EventsStep
<1>4. events' # events => doing'.at # "route"
  BY WorkStep, ResultReturned DEF Received, Moved, Denied, Traced, ReadRecorded, Idle, Resulted
<1>. QED  BY <1>1, <1>2, <1>3, <1>4

----------------------------------------------------------------------------

\* What the request in hand has of its evidence, it keeps until it is answered.
LEMMA TraceStep == TypeInv /\ TraceInv /\ [Next]_vars => TraceInv'
<1>. SUFFICES ASSUME TypeInv, TraceInv, [Next]_vars PROVE TraceInv'
  OBVIOUS
<1>0. doing' \in {Idle} \cup Work /\ Len(events) \in Nat
  BY TypeStep DEF TypeInv
<1>1. CASE doing' = Idle
  BY <1>1 DEF TraceInv, Idle
<1>2. CASE UNCHANGED <<doing, events>>
  BY <1>2 DEF TraceInv, AckOf, TraceAt, OwnTrace
<1>3. CASE Received
  BY <1>0, <1>3 DEF TraceInv, Received
<1>4. CASE Moved
  BY <1>4 DEF TraceInv, Moved, Kept
<1>5. CASE Denied
  <2>1. doing'.since <= Len(events')
    BY <1>0, <1>5, EventsGrow, Working DEF TraceInv, Denied, Kept, Work
  <2>. QED  BY <1>5, <2>1 DEF TraceInv, Denied, Kept
<1>6. CASE Traced
  <2>1. doing'.trace = {} \/ doing'.trace = TraceAt(Len(events))'
    BY <1>6 DEF Traced, Kept, TraceAt, EventsFor
  <2>2. doing'.trace # {} => OwnTrace'
    BY <1>6 DEF Traced, OwnTrace
  <2>3. \E j \in 1..Len(events') : AckOf(j, Identity(doing.request, 0), doing.since)'
    BY <1>6 DEF TraceInv, Traced, Kept, AckOf
  <2>. QED  BY <1>6, <2>1, <2>2, <2>3 DEF TraceInv, Traced, Kept, AckOf
<1>7. CASE ReadRecorded
  <2>1. doing \in Work /\ Identity(doing.request, 0) \in Requests \X Nat
    BY <1>7, Working DEF ReadRecorded, Work, Identity
  <2>2. /\ Len(events') = Len(events) + 1
        /\ \A i \in 1..Len(events) : events'[i] = events[i]
        /\ events'[Len(events) + 1].request = Identity(doing.request, 0)
        /\ events'[Len(events) + 1].type = "evidence_read"
    BY <1>7, <2>1, Recorded DEF ReadRecorded, EventTypes
  <2>3. doing'.since \in Nat /\ doing'.since <= Len(events')
    BY <1>0, <1>7, <2>1, <2>2 DEF TraceInv, ReadRecorded, Kept, Work
  <2>4. ASSUME doing'.trace # {}
        PROVE  \E j, k \in 1..Len(events') :
                   /\ AckOf(j, Identity(doing.request, 0), doing.since)' /\ j < k
                   /\ events'[k].type = "evidence_read"
                   /\ events'[k].request = Identity(doing.request, 0)
                   /\ doing'.trace = TraceAt(k - 1)' /\ OwnTrace'
    <3>0. PICK k \in 1..Len(events') : k = Len(events) + 1
      BY <1>0, <2>2
    <3>1. PICK j \in 1..Len(events) : AckOf(j, Identity(doing.request, 0), doing.since)
      BY <1>7 DEF TraceInv, ReadRecorded
    <3>2. AckOf(j, Identity(doing.request, 0), doing.since)'
      BY <1>7, <2>2, <3>1 DEF AckOf, ReadRecorded, Kept
    <3>3. doing.trace = TraceAt(Len(events)) /\ OwnTrace
      BY <1>7, <2>4 DEF TraceInv, ReadRecorded
    <3>4. doing'.trace = TraceAt(k - 1)'
      BY <1>0, <1>7, <2>2, <3>0, <3>3 DEF TraceAt, ReadRecorded, Kept
    <3>5. OwnTrace'
      <4>1. \A i \in doing.trace : i \in 1..Len(events) /\ events[i].actor = "operator"
        BY <3>3 DEF TraceAt, OwnTrace
      <4>2. doing'.trace = doing.trace
        BY <1>7 DEF ReadRecorded
      <4>. QED  BY <2>2, <4>1, <4>2 DEF OwnTrace
    <3>6. j \in 1..Len(events') /\ j < k
      BY <1>0, <2>2, <3>0
    <3>. QED  BY <2>2, <3>0, <3>2, <3>4, <3>5, <3>6
  <2>. QED  BY <1>7, <2>3, <2>4 DEF TraceInv, ReadRecorded, Kept
<1>8. ASSUME NEW result \in Outcomes, NEW type \in EventTypes, Resulted(result, type)
      PROVE  TraceInv'
  <2>1. doing \in Work /\ Now \in Requests \X Nat
    BY <1>8, Working DEF Resulted, Work, Identity, Now
  <2>2. /\ Len(events') = Len(events) + 1
        /\ \A i \in 1..Len(events) : events'[i] = events[i]
        /\ events'[Len(events) + 1] = Event(Now, "operator", type)
    BY <1>8, <2>1, Recorded DEF Resulted
  <2>3. /\ doing'.at \in {"dispatch", "trace", "respond"}
        /\ doing.kind # "inventory" => doing'.part = doing.part
        /\ doing'.at = "trace" => doing.kind = "evidence" /\ result = "acknowledged"
        /\ UNCHANGED <<doing.kind, doing.request, doing.target, doing.since, doing.trace>>
    BY <1>8, ResultReturned DEF Resulted
  <2>4. doing'.trace = {}
    BY <1>8, <2>3 DEF TraceInv, Resulted
  <2>5. doing'.since <= Len(events') /\ doing.since <= Len(events) /\ doing.since \in Nat
    BY <1>0, <1>8, <2>1, <2>2, <2>3 DEF TraceInv, Resulted, Work
  <2>6. doing'.at = "trace" =>
            \E j \in 1..Len(events') : AckOf(j, Identity(doing.request, 0), doing.since)'
    <3>. SUFFICES ASSUME doing'.at = "trace"
                  PROVE  \E j \in 1..Len(events') : AckOf(j, Identity(doing.request, 0), doing.since)'
      OBVIOUS
    <3>0. PICK j \in 1..Len(events') : j = Len(events) + 1
      BY <1>0, <2>2
    <3>1. Now = Identity(doing.request, 0) /\ type = "acknowledged"
      BY <1>8, <2>3 DEF TraceInv, Resulted, Now
    <3>. QED  BY <1>0, <2>2, <2>3, <2>5, <3>0, <3>1 DEF AckOf
  <2>. QED  BY <1>8, <2>3, <2>4, <2>5, <2>6 DEF TraceInv, Resulted
<1>. QED  BY <1>1, <1>2, <1>3, <1>4, <1>5, <1>6, <1>7, <1>8, WorkStep

----------------------------------------------------------------------------

\* Each worker's result is counted with the event that records it.
LEMMA PartsStep == TypeInv /\ TraceInv /\ PartsInv /\ [Next]_vars => PartsInv'
<1>. SUFFICES ASSUME TypeInv, TraceInv, PartsInv, [Next]_vars,
                     doing'.at # "idle", doing'.kind = "inventory"
              PROVE  PartsInv'
  BY DEF PartsInv
<1>0. doing' \in Work /\ Len(events) \in Nat
  BY TypeStep DEF TypeInv, Idle
<1>1. CASE UNCHANGED <<doing, events>>
  BY <1>1 DEF PartsInv, AckOf
<1>2. CASE Received
  BY <1>2 DEF PartsInv, Received
<1>3. CASE Moved
  <2>1. doing.kind = "inventory" /\ doing.at # "idle" /\ doing'.at # "denial"
    BY <1>3 DEF Moved, Kept
  <2>. QED  BY <1>3, <2>1 DEF PartsInv, Moved, Kept, AckOf
<1>4. CASE Denied \/ Traced \/ ReadRecorded
  BY <1>4 DEF TraceInv, PartsInv, Denied, Traced, ReadRecorded, Kept
<1>5. ASSUME NEW result \in Outcomes, NEW type \in EventTypes, Resulted(result, type)
      PROVE  PartsInv'
  <2>1. doing \in Work /\ Now \in Requests \X Nat
    BY <1>5, Working DEF Resulted, Work, Identity, Now
  <2>2. /\ Len(events') = Len(events) + 1
        /\ \A i \in 1..Len(events) : events'[i] = events[i]
        /\ events'[Len(events) + 1] = Event(Now, "operator", type)
    BY <1>5, <2>1, Recorded DEF Resulted
  <2>3. /\ Len(doing'.results) = Len(doing.results) + 1
        /\ \A p \in 1..Len(doing.results) : doing'.results[p] = doing.results[p]
        /\ doing'.results[Len(doing.results) + 1] = result
        /\ doing.kind = "inventory" =>
               \/ doing'.at = "dispatch" /\ doing'.part = doing.part + 1
               \/ doing'.at = "respond" /\ doing.part >= NumWorkers
        /\ UNCHANGED <<doing.kind, doing.request, doing.since>>
    BY <1>5, ResultReturned DEF Resulted
  <2>4. /\ doing.kind = "inventory" /\ doing.part \in Nat /\ doing.since \in Nat
        /\ Len(doing.results) \in Nat /\ doing.since <= Len(events)
        /\ Len(doing.results) + 1 = doing.part
    BY <1>5, <2>1, <2>3 DEF TraceInv, PartsInv, Resulted, Work
  <2>5. /\ doing'.at \in {"dispatch", "respond"}
        /\ doing'.at = "dispatch" => Len(doing'.results) + 1 = doing'.part
        /\ doing'.at = "respond" => NumWorkers <= Len(doing'.results)
    BY <2>3, <2>4, ServiceAssumption
  <2>6. ASSUME NEW p \in 1..Len(doing'.results), doing'.results[p] = "acknowledged"
        PROVE  \E i \in 1..Len(events') : AckOf(i, Identity(doing.request, p), doing.since)'
    <3>1. CASE p \in 1..Len(doing.results)
      <4>1. PICK i \in 1..Len(events) : AckOf(i, Identity(doing.request, p), doing.since)
        BY <1>5, <2>3, <2>4, <2>6, <3>1 DEF PartsInv, Resulted
      <4>2. i \in 1..Len(events') /\ events'[i] = events[i]
        BY <1>0, <2>2
      <4>. QED  BY <1>0, <2>2, <2>3, <4>1, <4>2 DEF AckOf
    <3>2. CASE p = Len(doing.results) + 1
      <4>1. PICK i \in 1..Len(events') : i = Len(events) + 1
        BY <1>0, <2>2
      <4>2. type = "acknowledged" /\ Now = Identity(doing.request, p)
        BY <1>5, <2>3, <2>4, <2>6, <3>2 DEF Resulted, Now
      <4>. QED  BY <1>0, <2>2, <2>3, <2>4, <4>1, <4>2 DEF AckOf
    <3>. QED  BY <2>3, <2>4, <3>1, <3>2
  <2>. QED  BY <2>5, <2>6 DEF PartsInv
<1>. QED  BY <1>1, <1>2, <1>3, <1>4, <1>5, WorkStep DEF Idle

----------------------------------------------------------------------------

\* An answer, once given, is about events that stay as they were.
LEMMA AnswersKept ==
    ASSUME TypeInv, AnswersInv, [Next]_vars, UNCHANGED responses
    PROVE  AnswersInv'
<1>0. /\ Len(events) \in Nat /\ Len(events') \in Nat /\ Len(events) <= Len(events')
      /\ \A i \in 1..Len(events) : events'[i] = events[i]
  BY EventsGrow
<1>1. \A x \in responses : x.refs \subseteq 1..Len(events) /\ x.since \in Nat
                            /\ \A i \in x.trace : i \in 1..Len(events)
  BY DEF AnswersInv
<1>2. TraceEvidenced'
  <2>. SUFFICES ASSUME NEW x \in responses, x.trace # {}
                PROVE  \E j, k \in x.refs :
                         /\ x.since < j /\ j < k
                         /\ events'[j].type = "acknowledged" /\ events'[k].type = "evidence_read"
                         /\ x.trace = {i \in 1..(k - 1) : events'[i].request = Identity(x.target, 0)}
                         /\ \A i \in x.trace : events'[i].actor = "operator"
    BY DEF TraceEvidenced
  <2>1. PICK j \in x.refs, k \in x.refs :
          /\ x.since < j /\ j < k
          /\ events[j].type = "acknowledged" /\ events[k].type = "evidence_read"
          /\ x.trace = {i \in 1..(k - 1) : events[i].request = Identity(x.target, 0)}
          /\ \A i \in x.trace : events[i].actor = "operator"
    BY DEF AnswersInv, TraceEvidenced
  <2>2. j \in 1..Len(events) /\ k \in 1..Len(events)
    BY <1>1
  <2>3. \A i \in 1..(k - 1) : events'[i] = events[i]
    BY <1>0, <2>2
  <2>4. x.trace = {i \in 1..(k - 1) : events'[i].request = Identity(x.target, 0)}
    BY <2>1, <2>3
  <2>5. \A i \in x.trace : events'[i].actor = "operator"
    BY <1>0, <1>1, <2>1
  <2>. QED  BY <1>0, <2>1, <2>2, <2>4, <2>5
<1>3. InventoryHonest'
  <2>. SUFFICES ASSUME NEW x \in responses, x.kind = "inventory", x.status = "healthy",
                       NEW w \in Workers
                PROVE  \E k \in (x.since + 1)..Len(events') :
                         events'[k] = Event(Identity(x.request, w), "operator", "acknowledged")
    BY DEF InventoryHonest
  <2>1. PICK k \in (x.since + 1)..Len(events) :
          events[k] = Event(Identity(x.request, w), "operator", "acknowledged")
    BY DEF AnswersInv, InventoryHonest
  <2>2. k \in 1..Len(events) /\ k \in (x.since + 1)..Len(events')
    BY <1>0, <1>1
  <2>. QED  BY <1>0, <2>1, <2>2
<1>. QED  BY <1>0, <1>1, <1>2, <1>3 DEF AnswersInv

LEMMA ResponsesStep == [Next]_vars => Respond \/ UNCHANGED responses
<1>. SUFFICES ASSUME [Next]_vars PROVE Respond \/ UNCHANGED responses
  OBVIOUS
<1>1. CASE (\E kind \in Kinds, r, target \in Requests, lag \in {0, 1} : Sign(kind, r, target, lag))
           \/ (\E m \in 1..Len(sent) : Receive(m)) \/ \E w \in Workers : Dispatch(w)
  BY <1>1 DEF Sign, Receive, Dispatch
<1>2. CASE DispatchEvidence \/ AppendDenial \/ Admit \/ RejectReplay
           \/ \E o \in Outcomes, s \in States : Route(o, s)
  BY <1>2 DEF DispatchEvidence, AppendDenial, Admit, RejectReplay, Route
<1>3. CASE ReadTrace \/ AppendRead \/ WriteFails
           \/ (\E states \in [Workers -> States] : Restart(states)) \/ Tick \/ UNCHANGED vars
  BY <1>3 DEF ReadTrace, AppendRead, WriteFails, Restart, Tick, vars
<1>. QED  BY <1>1, <1>2, <1>3 DEF Next

\* An answer is what its request had gathered.
LEMMA AnswersStep ==
    TypeInv /\ TraceInv /\ PartsInv /\ AnswersInv /\ [Next]_vars => AnswersInv'
<1>. SUFFICES ASSUME TypeInv, TraceInv, PartsInv, AnswersInv, Respond PROVE AnswersInv'
  BY AnswersKept, ResponsesStep
<1>. DEFINE status == CASE doing.kind = "inventory" -> InventoryStatus
                        [] doing.kind = "evidence" -> doing.status
                        [] OTHER -> doing.results[1]
            answer == [msg |-> doing.msg, kind |-> doing.kind, request |-> doing.request,
                       target |-> doing.target, since |-> doing.since, trace |-> doing.trace,
                       refs |-> EventsFor(Identity(doing.request, 0)), status |-> status]
<1>1. /\ doing.at = "respond" /\ doing.at # "idle"
      /\ responses' = responses \cup {answer} /\ UNCHANGED events
  BY DEF Respond
<1>2. /\ doing \in Work /\ Len(events) \in Nat /\ doing.since \in Nat
  BY <1>1, Working DEF TypeInv, Work
<1>3. doing.kind = "inventory" => status = InventoryStatus
  OBVIOUS
<1>4. /\ answer.kind = doing.kind /\ answer.request = doing.request /\ answer.target = doing.target
      /\ answer.since = doing.since /\ answer.trace = doing.trace /\ answer.status = status
      /\ answer.refs = EventsFor(Identity(doing.request, 0))
  OBVIOUS
<1>. HIDE DEF answer, status
<1>5. ASSUME doing.trace # {}
      PROVE  \E j, k \in EventsFor(Identity(doing.request, 0)) :
               /\ doing.since < j /\ j < k
               /\ events[j].type = "acknowledged" /\ events[k].type = "evidence_read"
               /\ doing.trace = TraceAt(k - 1)
               /\ \A i \in doing.trace : events[i].actor = "operator"
  <2>1. PICK j \in 1..Len(events), k \in 1..Len(events) :
          /\ AckOf(j, Identity(doing.request, 0), doing.since) /\ j < k
          /\ events[k].type = "evidence_read"
          /\ events[k].request = Identity(doing.request, 0)
          /\ doing.trace = TraceAt(k - 1) /\ OwnTrace
    BY <1>1, <1>5 DEF TraceInv
  <2>2. doing.since < j /\ events[j].request = Identity(doing.request, 0)
        /\ events[j].type = "acknowledged"
    BY <1>2, <2>1 DEF AckOf, Event
  <2>3. j \in EventsFor(Identity(doing.request, 0)) /\ k \in EventsFor(Identity(doing.request, 0))
    BY <2>1, <2>2 DEF EventsFor
  <2>. QED  BY <2>1, <2>2, <2>3 DEF OwnTrace
<1>6. answer.refs \subseteq 1..Len(events) /\ answer.since \in Nat
      /\ \A i \in answer.trace : i \in 1..Len(events)
  <2>1. \A i \in doing.trace : i \in 1..Len(events)
    BY <1>2, <1>5 DEF TraceAt, EventsFor
  <2>. QED  BY <1>2, <1>4, <2>1 DEF EventsFor
<1>7. TraceEvidenced'
  BY <1>1, <1>4, <1>5 DEF AnswersInv, TraceEvidenced, TraceAt
<1>8. ASSUME doing.kind = "inventory", status = "healthy", NEW w \in Workers
      PROVE  \E k \in (doing.since + 1)..Len(events) :
               events[k] = Event(Identity(doing.request, w), "operator", "acknowledged")
  <2>1. doing.results[w] = "acknowledged"
    BY <1>3, <1>8 DEF InventoryStatus
  <2>2. w \in 1..Len(doing.results)
    BY <1>1, <1>2, <1>8, ServiceAssumption DEF PartsInv, Workers, Work
  <2>. QED  BY <1>1, <1>8, <2>1, <2>2 DEF PartsInv, AckOf
<1>9. InventoryHonest'
  BY <1>1, <1>4, <1>8 DEF AnswersInv, InventoryHonest
<1>. QED  BY <1>1, <1>6, <1>7, <1>9 DEF AnswersInv

----------------------------------------------------------------------------

LEMMA ActedParts == ActedOnce <=> AcceptedOnce /\ AcceptedInTime /\ RoutedOnce
  BY DEF ActedOnce, AcceptedOnce, AcceptedInTime, RoutedOnce

LEMMA Inductive == IInv /\ [Next]_vars => IInv'
<1>. SUFFICES ASSUME IInv, [Next]_vars PROVE IInv'
  OBVIOUS
<1>1. TypeInv' /\ TraceInv' /\ PartsInv' /\ AnswersInv'
  BY TypeStep, TraceStep, PartsStep, AnswersStep DEF IInv
<1>2. MessageInv' /\ RouteInv' /\ (AcceptedOnce /\ AcceptedInTime /\ RoutedOnce)'
  BY MessageStep, RouteStep, ActedParts DEF IInv
<1>3. ActedOnce'
  BY <1>2 DEF ActedOnce, AcceptedOnce, AcceptedInTime, RoutedOnce
<1>. QED  BY <1>1, <1>2, <1>3 DEF IInv

THEOREM Invariance == Spec => []IInv
  BY InitHolds, Inductive, PTL DEF Spec

\* Whatever is delivered, how often and when, and whatever fails in between: a
\* message is acted on once and in its time, and a request is routed once.
THEOREM ActedOnceHolds == Spec => []ActedOnce
<1>1. IInv => ActedOnce
  BY DEF IInv
<1>. QED  BY <1>1, Invariance, PTL

\* A trace that is released has its route and its read in the store, and holds
\* what the target had at the read, all of it the operator's own.
THEOREM TraceEvidencedHolds == Spec => []TraceEvidenced
<1>1. IInv => TraceEvidenced
  BY DEF IInv, AnswersInv
<1>. QED  BY <1>1, Invariance, PTL

\* A healthy inventory rests on an acknowledgement of every worker since its own
\* message was taken.
THEOREM InventoryHonestHolds == Spec => []InventoryHonest
<1>1. IInv => InventoryHonest
  BY DEF IInv, AnswersInv
<1>. QED  BY <1>1, Invariance, PTL
=============================================================================
