---------------------------- MODULE ProfileBLogin ----------------------------
(***************************************************************************)
(* Profile B operator login: ProfileBSessionService (profile_b_session.py) *)
(* with its WebAuthn verifier (webauthn_verifier.py), and the local API's  *)
(* check of the session (local_loopback_api.py).  The service has no lock: *)
(* every request is a thread of the server, and the steps of two logins,   *)
(* the clock and a restart interleave.  Only the verifier's credential     *)
(* table has a lock.  Challenges and bindings are numbered in the order    *)
(* they are made; a random one is never made twice.                        *)
(***************************************************************************)
EXTENDS Naturals, Sequences, FiniteSets

CONSTANTS
    Threads,
    Owners,            \* owner display names
    Keys,              \* credentials an authenticator can create
    NoKey,
    MaxCount,          \* bound: signature counters 0..MaxCount
    ChallengeTtl,      \* CHALLENGE_TTL_SECONDS
    SessionTtl,        \* SESSION_TTL_SECONDS
    MaxTime,           \* bound: the clock
    MaxChallenges,     \* bound: challenges issued
    MaxFaults          \* bound: failed evidence writes and restarts

ASSUME TtlAssumption == ChallengeTtl \in Nat \ {0} /\ SessionTtl \in Nat \ {0}
ASSUME MaxCountAssumption == MaxCount \in Nat

VARIABLES
    now,
    challenges,        \* _challenges: pending ones, id -> owner and expiry
    stored,            \* _by_owner: owner -> credential and its counter
    active,            \* _active: a binding, or 0
    doing,             \* the step each thread takes next
    issued,            \* challenges issued so far
    bindings,          \* every session record made, in order
    requestedEv, committedEv, rejectedEv,   \* evidence events in the store
    served,            \* bindings the API served an operator request for
    faults

memory == <<challenges, stored, active>>
evidence == <<requestedEv, committedEv, rejectedEv>>
vars == <<now, memory, doing, issued, bindings, evidence, served, faults>>

Idle == [at |-> "idle"]
IsAt(t, step) == doing[t].at = step
Goes(t, step) == doing' = [doing EXCEPT ![t] = step]
Nothing == [key |-> NoKey, count |-> 0]

\* What a browser sends: a new credential with its first assertion, an
\* assertion by a credential, or something that does not verify.
Assertions == [kind : {"registration", "assertion", "other"}, key : Keys, count : 0..MaxCount]

-----------------------------------------------------------------------------

\* begin: evidence of the ceremony first, then the pending challenge.  A host
\* without a ceremony, or a failed event, leaves no challenge.
Begin(owner) ==
    /\ issued < MaxChallenges
    /\ issued' = issued + 1
    /\ challenges' = [c \in DOMAIN challenges \cup {issued + 1} |->
            IF c = issued + 1 THEN [owner |-> owner, expires |-> now + ChallengeTtl]
            ELSE challenges[c]]
    /\ UNCHANGED <<now, stored, active, doing, bindings, evidence, served, faults>>

Pop(c) == [d \in DOMAIN challenges \ {c} |-> challenges[d]]

\* Mutated form: the challenge is looked up and stays pending.
Complete_ChallengeKept(t, c, answer) ==
    /\ doing[t] = Idle
    /\ c \in DOMAIN challenges
    /\ Goes(t, IF now >= challenges[c].expires THEN Idle
               ELSE [at |-> "verify", challenge |-> c, owner |-> challenges[c].owner,
                     answer |-> answer])
    /\ UNCHANGED <<now, memory, issued, bindings, evidence, served, faults>>

\* complete: the challenge is taken out before anything is looked at, so that
\* it is spent whatever follows; an expired one ends the login without a word.
Complete(t, c, answer) ==
    /\ doing[t] = Idle
    /\ c \in DOMAIN challenges
    /\ challenges' = Pop(c)
    /\ Goes(t, IF now >= challenges[c].expires THEN Idle
               ELSE [at |-> "verify", challenge |-> c, owner |-> challenges[c].owner,
                     answer |-> answer])
    /\ UNCHANGED <<now, stored, active, issued, bindings, evidence, served, faults>>

\* Mutated form: the counter of an assertion is not compared.
CounterAccepted_Unchecked(n, last) == TRUE

\* The library's rule for the counter of a stored credential.
CounterAccepted(n, last) == n > last \/ (n = 0 /\ last = 0)

\* A new credential comes with its first assertion, verified against a count of
\* zero.  Whose records hold that credential already is not asked.
Registers(a) == a.kind = "registration" /\ CounterAccepted(a.count, 0)
Signs(a, owner) ==
    /\ a.kind = "assertion"
    /\ stored[owner].key = a.key
    /\ CounterAccepted(a.count, stored[owner].count)

\* verifier.complete: a verified enrolment replaces the owner's record, a
\* verified assertion moves its counter, each under the verifier's lock.
Verify(t) ==
    LET a == doing[t].answer  owner == doing[t].owner
        accepted == Registers(a) \/ Signs(a, owner)
    IN  /\ IsAt(t, "verify")
        /\ stored' = IF accepted
                     THEN [stored EXCEPT ![owner] = [key |-> a.key, count |-> a.count]]
                     ELSE stored
        /\ Goes(t, [at |-> IF accepted THEN "commit" ELSE "reject",
                    challenge |-> doing[t].challenge, owner |-> owner, key |-> a.key])
        /\ UNCHANGED <<now, challenges, active, issued, bindings, evidence, served, faults>>

Reject(t) ==
    /\ IsAt(t, "reject")
    /\ rejectedEv' = rejectedEv \cup {doing[t].challenge}
    /\ Goes(t, Idle)
    /\ UNCHANGED <<now, memory, issued, bindings, requestedEv, committedEv, served, faults>>

\* Mutated form: the session is in force once it was asked for.
RequestSession_Granted(t) ==
    LET b == Len(bindings) + 1 IN
    /\ IsAt(t, "commit")
    /\ bindings' = Append(bindings, [challenge |-> doing[t].challenge,
            owner |-> doing[t].owner, key |-> doing[t].key, expires |-> now + SessionTtl])
    /\ requestedEv' = requestedEv \cup {b}
    /\ Goes(t, [at |-> "activate", binding |-> b])
    /\ UNCHANGED <<now, memory, issued, committedEv, rejectedEv, served, faults>>

\* _commit_session: the binding and the evidence that it was asked for; then
\* Guardian, which allows the fixed context of a verified ceremony, and the
\* evidence that it was granted; then the session itself.
RequestSession(t) ==
    LET b == Len(bindings) + 1 IN
    /\ IsAt(t, "commit")
    /\ bindings' = Append(bindings, [challenge |-> doing[t].challenge,
            owner |-> doing[t].owner, key |-> doing[t].key, expires |-> now + SessionTtl])
    /\ requestedEv' = requestedEv \cup {b}
    /\ Goes(t, [at |-> "granted", binding |-> b])
    /\ UNCHANGED <<now, memory, issued, committedEv, rejectedEv, served, faults>>

CommitSession(t) ==
    /\ IsAt(t, "granted")
    /\ committedEv' = committedEv \cup {doing[t].binding}
    /\ Goes(t, [doing[t] EXCEPT !.at = "activate"])
    /\ UNCHANGED <<now, memory, issued, bindings, requestedEv, rejectedEv, served, faults>>

\* Mutated form: the owner is kept as the session.
Activate_Owner(t) ==
    /\ IsAt(t, "activate")
    /\ active' = bindings[doing[t].binding].owner
    /\ Goes(t, Idle)
    /\ UNCHANGED <<now, challenges, stored, issued, bindings, evidence, served, faults>>

Activate(t) ==
    /\ IsAt(t, "activate")
    /\ active' = doing[t].binding
    /\ Goes(t, Idle)
    /\ UNCHANGED <<now, challenges, stored, issued, bindings, evidence, served, faults>>

\* _current_record: the last session while it has not expired.
Current(b) == b # 0 /\ active = b /\ now < bindings[b].expires

\* _require_session lets a request through; it is served afterwards.
RequireSession(t, b) ==
    /\ doing[t] = Idle
    /\ Current(b)
    /\ Goes(t, [at |-> "serve", binding |-> b])
    /\ UNCHANGED <<now, memory, issued, bindings, evidence, served, faults>>

Serve(t) ==
    /\ IsAt(t, "serve")
    /\ served' = served \cup {doing[t].binding}
    /\ Goes(t, Idle)
    /\ UNCHANGED <<now, memory, issued, bindings, evidence, faults>>

\* _record: a failed event denies the login.
EvidenceFails(t) ==
    /\ doing[t].at \in {"reject", "commit", "granted"}
    /\ faults < MaxFaults
    /\ faults' = faults + 1
    /\ Goes(t, Idle)
    /\ UNCHANGED <<now, memory, issued, bindings, evidence, served>>

Tick == now < MaxTime /\ now' = now + 1
        /\ UNCHANGED <<memory, doing, issued, bindings, evidence, served, faults>>

\* Everything but the evidence is the process's own.
Restart ==
    /\ faults < MaxFaults
    /\ faults' = faults + 1
    /\ challenges' = <<>> /\ active' = 0
    /\ stored' = [o \in Owners |-> Nothing]
    /\ doing' = [t \in Threads |-> Idle]
    /\ UNCHANGED <<now, issued, bindings, evidence, served>>

-----------------------------------------------------------------------------

Init ==
    /\ now = 0 /\ issued = 0 /\ faults = 0
    /\ challenges = <<>> /\ active = 0
    /\ stored = [o \in Owners |-> Nothing]
    /\ doing = [t \in Threads |-> Idle]
    /\ bindings = <<>>
    /\ requestedEv = {} /\ committedEv = {} /\ rejectedEv = {} /\ served = {}

Step(t) ==
    \/ Verify(t)
    \/ Reject(t)
    \/ RequestSession(t)
    \/ CommitSession(t)
    \/ Activate(t)
    \/ Serve(t)

Next ==
    \/ \E owner \in Owners : Begin(owner)
    \/ \E t \in Threads, c \in DOMAIN challenges, a \in Assertions : Complete(t, c, a)
    \/ \E t \in Threads, b \in 1..Len(bindings) : RequireSession(t, b)
    \/ \E t \in Threads : Step(t) \/ EvidenceFails(t)
    \/ Tick
    \/ Restart

Spec == Init /\ [][Next]_vars

-----------------------------------------------------------------------------

TypeOK ==
    /\ now \in Nat /\ issued \in Nat /\ faults \in Nat
    /\ DOMAIN challenges \subseteq 1..issued
    /\ \A c \in DOMAIN challenges :
            challenges[c] \in [owner : Owners, expires : Nat]
    /\ stored \in [Owners -> [key : Keys \cup {NoKey}, count : Nat]]
    /\ active \in 0..Len(bindings)
    /\ bindings \in Seq([challenge : Nat, owner : Owners, key : Keys, expires : Nat])
    /\ \A t \in Threads : doing[t].at \in
            {"idle", "verify", "reject", "commit", "granted", "activate", "serve"}
    /\ requestedEv \cup committedEv \cup served \subseteq 1..Len(bindings)
    /\ rejectedEv \subseteq 1..issued

\* "The one-time challenge still blocks replay of the same assertion", also for
\* an authenticator whose counter stays at zero: two submissions of a challenge,
\* at once or one after the other, come to one end at most.  It makes one
\* session, and none once the login was evidenced as rejected.
OneEndPerChallenge ==
    \A b \in 1..Len(bindings) :
        /\ bindings[b].challenge \notin rejectedEv
        /\ \A d \in 1..Len(bindings) : bindings[b].challenge = bindings[d].challenge => b = d

\* A session is in force, or has served a request, only when the store holds
\* both its request and its commitment, whatever write failed or restart came.
SessionEvidenced ==
    (IF active = 0 THEN {} ELSE {active}) \cup served \subseteq requestedEv \cap committedEv

\* The login of this owner that is about to be verified is an enrolment.
Enrols(t, o) ==
    IsAt(t, "verify") /\ doing[t].owner = o /\ doing[t].answer.kind = "registration"

\* However logins interleave, an assertion never moves the counter of a stored
\* credential back.  The one step that does is the verification of an enrolment, of
\* that credential and by the owner it is stored under.
CounterNeverBack ==
    [][\A o \in Owners :
            stored[o].key # NoKey /\ stored'[o].key = stored[o].key
                /\ stored'[o].count < stored[o].count
            => \E t \in Threads : Enrols(t, o) /\ doing'[t] # doing[t]]_vars

\* "A different display name cannot use that credential id": no credential is stored
\* under two of them.  Violated: an enrolment replaces its owner's record and looks
\* at no other.
OneOwnerPerCredential ==
    \A o, p \in Owners : stored[o].key # NoKey /\ stored[o].key = stored[p].key => o = p

=============================================================================
