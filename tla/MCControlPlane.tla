--------------------------- MODULE MCControlPlane ---------------------------
(***************************************************************************)
(* Instances of ControlPlane for TLC with two workers: a read for each, a  *)
(* retry under the first one's idempotency key, a second read of it, a     *)
(* worker inventory, a request of an inadmissible resource and one with no *)
(* Arc capability.  One instance makes single requests over every kind of  *)
(* heartbeat, the other retries and the inventory over few.  One call is   *)
(* handled; what earlier ones may have left is in the initial states.      *)
(***************************************************************************)
EXTENDS ControlPlane

CONSTANTS w1, w2, r1, r2, k1, k2, g1

TwoBindings == <<w1, w2>>
FullCapabilities == [w \in Workers |-> {"executable", "preview"}]
OneExecutable == [FullCapabilities EXCEPT ![w2] = {"preview"}]

Ask(id, key, worker, capability, permitted) ==
    [id |-> id, key |-> key, worker |-> worker, capability |-> capability,
     permitted |-> permitted]
Read == Ask(r1, k1, w1, "executable", TRUE)
Retry == Ask(r2, k1, w1, "executable", TRUE)
ReadElsewhere == Ask(r2, k2, w2, "executable", TRUE)
ReadAgain == Ask(r2, k2, w1, "executable", TRUE)
Inadmissible == Ask(r2, k2, w1, "none", FALSE)
Unmapped == Ask(r2, k2, w1, "none", TRUE)
Look == Ask(r1, k1, w1, "preview", TRUE)
LookElsewhere == Ask(r2, k2, w2, "preview", TRUE)
MCSubmissions ==
    {Read, Retry, ReadElsewhere, ReadAgain, Inadmissible, Unmapped, Look, LookElsewhere}
OneByOne == {<<Read>>, <<ReadElsewhere>>, <<Inadmissible>>, <<Unmapped>>}
RetriesAndInventory == {<<Read>>, <<Retry>>, <<ReadAgain>>, <<Look, LookElsewhere>>}

Report(lifecycle, health, fresh, stale, guardian, writer) ==
    [lifecycle |-> lifecycle, health |-> health, fresh |-> fresh, stale |-> stale,
     guardian |-> guardian, evidence |-> writer]
Healthy == Report("healthy", "healthy", TRUE, FALSE, "reachable", "healthy")
Degraded == [Healthy EXCEPT !.health = "degraded", !.evidence = "degraded"]
FewHeartbeats == {Healthy, Degraded}
EveryHeartbeat ==
    {Healthy, Degraded,
     [Healthy EXCEPT !.health = "revoked"],
     [Healthy EXCEPT !.lifecycle = "quarantined"],
     [Healthy EXCEPT !.fresh = FALSE],
     [Healthy EXCEPT !.stale = TRUE],
     [Healthy EXCEPT !.health = "degraded", !.guardian = "unreachable"]}

\* A call of an earlier process: its events, each the parent of the next.
Events(type_outcomes) ==
    [j \in DOMAIN type_outcomes |->
        [type |-> type_outcomes[j][1], outcome |-> type_outcomes[j][2],
         parent |-> j - 1]]
Asked == <<<<"request_received", "received">>, <<"guardian_request", "received">>>>
Granted == Asked \o
    <<<<"guardian_decision", "allowed_dry_run">>, <<"lima_decision", "allowed_dry_run">>,
      <<"worker_heartbeat", "received">>, <<"execution_grant_issued", "allowed_dry_run">>,
      <<"assignment_preview", "allowed_dry_run">>>>
Acknowledged == Granted \o <<<<"worker_acknowledgement", "acknowledged">>>>
FirstGrant == [id |-> g1, worker |-> w1, request |-> r1]

Earlier(events) == trail = [i \in Ids |-> IF i = r1 THEN Events(events) ELSE <<>>]

\* The store an earlier process left: new, or with both workers healthy and the
\* read not asked, asked when the process stopped, offered when it stopped, or
\* acknowledged under a grant.  The process that released the grant may also
\* still be serving.
StagedInit ==
    /\ pending = <<>> /\ turn = IdleTurn /\ call = NoCall /\ handled = 0
    /\ \/ FleetInit /\ PlaneInit
       \/ /\ stored = [w \in Workers |-> "healthy"] /\ evidenced = Workers
          /\ \/ /\ registry = [w \in Workers |-> Absent]
                /\ mode = "down" /\ governed = NoId /\ released = {}
                /\ \/ reserved = {} /\ Earlier(<<>>) /\ consumed = {}
                   \/ reserved = {Read} /\ Earlier(Asked) /\ consumed = {}
                   \/ reserved = {Read} /\ Earlier(Granted) /\ consumed = {FirstGrant}
             \/ /\ \/ /\ registry = [w \in Workers |-> Absent]
                      /\ mode = "down" /\ governed = NoId
                   \/ registry = stored /\ mode = "serving" /\ governed = r1
                /\ reserved = {Read} /\ Earlier(Acknowledged)
                /\ consumed = {FirstGrant}
                /\ released = {[grant |-> FirstGrant, to |-> r1]}

StagedSpec ==
    /\ StagedInit /\ [][Next]_vars
    /\ WF_vars(FleetStep /\ UNCHANGED plane) /\ WF_vars(SubmitStep)
=============================================================================
