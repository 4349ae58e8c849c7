------------------------------- MODULE Channel -------------------------------
(***************************************************************************)
(* The authenticated channels (operator_channel.py, worker_channel.py):    *)
(* what an envelope says, and when one is accepted.  The two classes are   *)
(* the same algorithm over different identities.  A message carries its    *)
(* payload intact or is refused for its hash and signature: an envelope    *)
(* here is one that was signed with the shared key.                        *)
(***************************************************************************)
EXTENDS Integers

CONSTANTS
    Ttl,            \* ttl_seconds
    MaxLifetime,    \* 120 seconds in the code
    MaxSkew         \* 5 seconds in the code

ASSUME ChannelAssumption ==
    /\ MaxLifetime \in Nat /\ MaxSkew \in Nat
    /\ Ttl \in 1..MaxLifetime

\* sign: the clock is read once for issued_at and once more for expires_at; lag
\* is what passes between the two readings.
Signed(id, sender, type, payload, clock, lag) ==
    [id |-> id, sender |-> sender, type |-> type, payload |-> payload,
     issued |-> clock, expires |-> clock + lag + Ttl]

\* The three comparisons with the verifier's clock, in the code's order.
Timely(e, clock) ==
    /\ e.expires > clock
    /\ e.issued <= clock + MaxSkew
    /\ e.expires - e.issued <= MaxLifetime

\* Mutated form: an identity that was seen before is not looked for.
Verified_SeenAgain(e, sender, type, clock, reserved) ==
    /\ e.type = type /\ e.sender = sender
    /\ Timely(e, clock)

\* verify: the binding, the time window, and an identity not seen before; the
\* caller reserves the identity of an accepted envelope in the same step.
Verified(e, sender, type, clock, reserved) ==
    /\ e.type = type /\ e.sender = sender
    /\ Timely(e, clock)
    /\ e.id \notin reserved
=============================================================================
