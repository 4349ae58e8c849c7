----------------------------- MODULE ReplayDrill -----------------------------
(***************************************************************************)
(* Guardian replay in memory: the drill simulator, which walks a decision  *)
(* from its plan to its one use or its denial (replay_drill_simulator.py), *)
(* and the mock replay store, which authorises a first use from a          *)
(* reservation record (replay_store.py) beside the decision verifier       *)
(* (replay.py).  A refused call raises and changes nothing, except where   *)
(* an action says otherwise.                                               *)
(*                                                                         *)
(* "authorised" is a history variable: how often the store and the         *)
(* verifier each let a nonce through.                                      *)
(***************************************************************************)
EXTENDS GuardianReplay

CONSTANTS
    Decisions,    \* guardian.decision payloads a caller may bring
    Actions,      \* requested actions
    NoAction,     \* requested_action is None
    Reservations, \* replay.store.record payloads
    MaxUses       \* bound on the history variable

VARIABLES
    drill,        \* _current: guardian_decision_id -> where it stands
    payload,      \* _decision_by_id
    reserved,     \* _reserved_nonces_by_tenant, as pairs
    consumed,     \* _consumed_nonces_by_tenant, as pairs
    records,      \* InMemoryReplayStore._records_by_id
    spent,        \* InMemoryReplayStore._consumed_nonces
    verified,     \* GuardianDecisionReplayVerifier._consumed_nonces
    authorised

drillVars == <<drill, payload, reserved, consumed>>
storeVars == <<records, spent>>
replayVars == <<drill, payload, reserved, consumed, records, spent, verified, authorised>>

DecisionIds == {d.id : d \in Decisions}
Nonces == {d.nonce : d \in Decisions} \cup {r.nonce : r \in Reservations}
RecordIds == {r.id : r \in Reservations}
Unknown == [state |-> "unknown"]

DRILL_TRANSITIONS ==
    [planned |-> {"decision_registered"},
     decision_registered |-> {"nonce_reserved"},
     nonce_reserved |-> {"first_use_validated", "expired_denied", "stale_denied",
                         "mismatch_denied", "blocked_mvp_denied", "failed_closed_recorded"},
     first_use_validated |-> {"nonce_consumed"},
     nonce_consumed |-> {"replay_denied"}]

DrillStates == DOMAIN DRILL_TRANSITIONS \cup UNION {DRILL_TRANSITIONS[s] : s \in DOMAIN DRILL_TRANSITIONS}

ReplayInit ==
    /\ drill = [i \in DecisionIds |-> Unknown]
    /\ payload = [i \in DecisionIds |-> Unknown]
    /\ reserved = {} /\ consumed = {}
    /\ records = [i \in RecordIds |-> Unknown]
    /\ spent = {} /\ verified = {}
    /\ authorised = [by \in {"store", "verifier"} |-> [n \in Nonces |-> 0]]

Slot(i) == <<drill[i].tenant, drill[i].nonce>>
ConsumedBy(tenant) == {n \in Nonces : <<tenant, n>> \in consumed}

MayWalk(i, to) ==
    /\ drill[i] # Unknown
    /\ drill[i].state \in DOMAIN DRILL_TRANSITIONS
    /\ to \in DRILL_TRANSITIONS[drill[i].state]

Walked(i, to) == drill' = [drill EXCEPT ![i].state = to]

\* A requested action, when there is one, agrees with the decision wherever both
\* speak (_assert_requested_action_matches_decision).
Agrees(i, a) ==
    \A x \in {a} \ {NoAction} : Mismatches(payload[i], x) \subseteq {"binding", "token"}

----------------------------------------------------------------------------

drill_register(d) ==
    /\ drill[d.id] = Unknown
    /\ drill' = [drill EXCEPT ![d.id] = [state |-> "planned", tenant |-> d.tenant, nonce |-> d.nonce]]
    /\ payload' = [payload EXCEPT ![d.id] = d]
    /\ UNCHANGED <<reserved, consumed>>

\* The decision of the transition replaces the planned one: only its id, tenant
\* and nonce must be those of the plan.
register_decision(d) ==
    /\ MayWalk(d.id, "decision_registered")
    /\ Slot(d.id) = <<d.tenant, d.nonce>>
    /\ Walked(d.id, "decision_registered")
    /\ payload' = [payload EXCEPT ![d.id] = d]
    /\ UNCHANGED <<reserved, consumed>>

\* Mutated form: a nonce that is reserved, but not consumed yet, may be reserved.
Reservable_Unspent(slot) == slot \notin consumed

Reservable(slot) == slot \notin reserved \cup consumed

reserve_nonce(i) ==
    /\ MayWalk(i, "nonce_reserved")
    /\ Reservable(Slot(i))
    /\ reserved' = reserved \cup {Slot(i)}
    /\ Walked(i, "nonce_reserved")
    /\ UNCHANGED <<payload, consumed>>

\* A bound decision needs its binding and its token beside it; papers are the
\* kinds the caller brought, each refused if it is not the decision's own.
validate_first_use(i, a, papers) ==
    /\ MayWalk(i, "first_use_validated")
    /\ Agrees(i, a)
    /\ DOMAIN payload[i].bound \cap {"binding", "token"} \subseteq papers
    /\ ReplaySafe(payload[i], a, ConsumedBy(drill[i].tenant))
    /\ Walked(i, "first_use_validated")
    /\ UNCHANGED <<payload, reserved, consumed>>

consume_nonce(i) ==
    /\ MayWalk(i, "nonce_consumed")
    /\ Slot(i) \in reserved \ consumed
    /\ reserved' = reserved \ {Slot(i)}
    /\ consumed' = consumed \cup {Slot(i)}
    /\ Walked(i, "nonce_consumed")
    /\ UNCHANGED payload

\* _assert_decision_denial_condition, by the state asked for.
DenialHolds(i, a, to) ==
    \/ to = "replay_denied" /\ Slot(i) \in consumed
    \/ to = "expired_denied" /\ Expired(payload[i])
    \/ to = "stale_denied" /\ Stale(payload[i])
    \/ to = "blocked_mvp_denied" /\ payload[i].action \in BlockedActions
    \/ to = "mismatch_denied" /\ a # NoAction /\ Mismatches(payload[i], a) # {}
    \/ to = "failed_closed_recorded"

\* A denial leaves the nonce as it is: a reserved one is never reserved again.
record_denial(i, a, to) ==
    /\ to \notin {"nonce_reserved", "first_use_validated", "nonce_consumed", "decision_registered"}
    /\ MayWalk(i, to)
    /\ to # "mismatch_denied" => Agrees(i, a)
    /\ DenialHolds(i, a, to)
    /\ Walked(i, to)
    /\ UNCHANGED <<payload, reserved, consumed>>

DrillNext ==
    /\ \/ \E d \in Decisions : drill_register(d) \/ register_decision(d)
       \/ \E i \in DecisionIds :
            \/ reserve_nonce(i) \/ consume_nonce(i)
            \/ \E a \in Actions, papers \in SUBSET {"binding", "token"} :
                    validate_first_use(i, a, papers)
            \/ \E a \in Actions \cup {NoAction}, to \in DrillStates : record_denial(i, a, to)
    /\ UNCHANGED <<records, spent, verified, authorised>>

----------------------------------------------------------------------------

\* Mutated form: the store's records say which nonces are spent.
NonceSpent_ByRecord(n) ==
    \E i \in RecordIds : records[i] # Unknown /\ records[i].nonce = n /\ records[i].status = "consumed"

NonceSpent(n) == n \in spent

Used(by, n) ==
    /\ authorised[by][n] < MaxUses
    /\ authorised' = [authorised EXCEPT ![by][n] = @ + 1]

\* The nonce is spent before the committed record is validated: a reservation
\* without the links a consumed record needs leaves a spent nonce and no record.
authorize_first_use(r, actions, decisions, bindings) ==
    /\ RecordOfAction(r, actions) /\ RecordOfDecision(r, decisions)
    /\ RecordOfBinding(r, bindings)
    /\ RecordAuthorizes(r)
    /\ ~NonceSpent(r.nonce)
    /\ spent' = spent \cup {r.nonce}
    /\ \/ /\ r.linked
          /\ records' = [records EXCEPT ![r.id] =
                            [nonce |-> r.nonce, status |-> "consumed", atomicity |-> "committed"]]
          /\ Used("store", r.nonce)
       \/ ~r.linked /\ UNCHANGED <<records, authorised>>
    /\ UNCHANGED verified

\* Both overwrite whatever the store has under the record's id.
mark_replay_denied(r) ==
    /\ r.linked
    /\ records' = [records EXCEPT ![r.id] =
                      [nonce |-> r.nonce, status |-> "replay_denied", atomicity |-> "committed"]]
    /\ UNCHANGED <<spent, verified, authorised>>

fail_closed(r) ==
    /\ records' = [records EXCEPT ![r.id] =
                      [nonce |-> r.nonce, status |-> "failed", atomicity |-> "failed_closed"]]
    /\ UNCHANGED <<spent, verified, authorised>>

\* verify_once; check is the same without the last two lines.
verify_once(d, a) ==
    /\ ReplaySafe(d, a, verified)
    /\ verified' = verified \cup {d.nonce}
    /\ Used("verifier", d.nonce)
    /\ UNCHANGED storeVars

StoreNext ==
    /\ \/ \E r \in Reservations, actions \in Brought(Actions),
             decisions \in Brought(Decisions), bindings \in BindingSets :
            authorize_first_use(r, actions, decisions, bindings)
       \/ \E r \in Reservations : mark_replay_denied(r) \/ fail_closed(r)
       \/ \E d \in Decisions, a \in Actions : verify_once(d, a)
    /\ UNCHANGED drillVars

----------------------------------------------------------------------------

InUse == {"first_use_validated", "nonce_consumed", "replay_denied"}

\* Of all the decisions a tenant registers under one nonce, at most one is ever
\* validated for use, and from then on the nonce is reserved or consumed on its
\* behalf: the simulator counts by decision, the nonce sets by tenant.
FirstUseOnce ==
    /\ \A i, j \in DecisionIds :
        drill[i].state \in InUse /\ drill[j].state \in InUse /\ Slot(i) = Slot(j) => i = j
    /\ \A i \in DecisionIds :
        /\ drill[i].state = "first_use_validated" => Slot(i) \in reserved \ consumed
        /\ drill[i].state \in {"nonce_consumed", "replay_denied"} => Slot(i) \in consumed \ reserved

\* Neither the store nor the verifier lets a nonce through twice, although a
\* record that says it was used is overwritten by a later denial or failure.
AuthorisedOnce ==
    \A by \in DOMAIN authorised : \A n \in Nonces : authorised[by][n] <= 1
=============================================================================
