------------------------ MODULE ProfileBLogin_proofs ------------------------
(***************************************************************************)
(* Profile B login for any number of threads, owners, credentials and      *)
(* challenges, any lifetimes, and any number of faults: the types, and the *)
(* three properties its run checks.                                        *)
(***************************************************************************)
EXTENDS ProfileBLogin, TLAPS

\* What a thread holds at each step, of n challenges and k bindings.
Idles == [at : {"idle"}]
Logins(n) == [at : {"verify"}, challenge : 1..n, owner : Owners, answer : Assertions]
Judged(n) == [at : {"reject", "commit"}, challenge : 1..n, owner : Owners, key : Keys]
Bound(k) == [at : {"granted", "activate", "serve"}, binding : 1..k]

Session == [challenge : Nat, owner : Owners, key : Keys, expires : Nat]

TypeInv ==
    /\ TypeOK
    /\ doing \in [Threads -> Idles \cup Logins(issued) \cup Judged(issued) \cup Bound(Len(bindings))]

\* The challenges a login is in the middle of.
Holds(t, c) == doing[t].at \in {"verify", "reject", "commit"} /\ doing[t].challenge = c
Ended(c) ==
    c \in rejectedEv \/ \E b \in 1..Len(bindings) : bindings[b].challenge = c

\* A challenge is in one place: pending, with one thread, or ended.
ChallengeInv ==
    /\ \A c \in DOMAIN challenges : ~Ended(c) /\ \A t \in Threads : ~Holds(t, c)
    /\ \A t \in Threads, c \in 1..issued :
           Holds(t, c) => ~Ended(c) /\ \A u \in Threads : Holds(u, c) => u = t
    /\ \A b \in 1..Len(bindings) : bindings[b].challenge \in 1..issued
    /\ OneEndPerChallenge

\* A thread that goes on with a binding has written the evidence of its steps.
SessionInv ==
    /\ \A t \in Threads :
           /\ doing[t].at = "granted" => doing[t].binding \in requestedEv
           /\ doing[t].at \in {"activate", "serve"} =>
                  doing[t].binding \in requestedEv \cap committedEv
    /\ SessionEvidenced

IInv == TypeInv /\ ChallengeInv /\ SessionInv

----------------------------------------------------------------------------

LEMMA InitHolds == Init => IInv
<1>. SUFFICES ASSUME Init PROVE IInv
  OBVIOUS
<1>1. bindings = <<>> /\ Len(bindings) = 0 /\ DOMAIN challenges = {}
  BY DEF Init
<1>2. TypeInv
  BY <1>1 DEF Init, TypeInv, TypeOK, Idle, Idles, Nothing
<1>3. ChallengeInv
  BY <1>1 DEF Init, ChallengeInv, Ended, Holds, OneEndPerChallenge, Idle
<1>4. SessionInv
  BY <1>1 DEF Init, SessionInv, SessionEvidenced, Idle
<1>. QED  BY <1>2, <1>3, <1>4 DEF IInv

\* A new binding leaves the earlier ones where they are.
LEMMA OneMoreBinding ==
    ASSUME bindings \in Seq(Session), NEW s \in Session, bindings' = Append(bindings, s)
    PROVE  /\ bindings' \in Seq(Session)
           /\ Len(bindings') = Len(bindings) + 1
           /\ \A b \in 1..Len(bindings) : bindings'[b] = bindings[b]
           /\ bindings'[Len(bindings) + 1] = s
  OBVIOUS

LEMMA ByStep ==
    ASSUME TypeInv, NEW t \in Threads
    PROVE  /\ doing[t].at = "verify" => doing[t] \in Logins(issued)
           /\ doing[t].at \in {"reject", "commit"} => doing[t] \in Judged(issued)
           /\ doing[t].at \in {"granted", "activate", "serve"} => doing[t] \in Bound(Len(bindings))
<1>1. doing[t] \in Idles \cup Logins(issued) \cup Judged(issued) \cup Bound(Len(bindings))
  BY DEF TypeInv
<1>. QED  BY <1>1 DEF Idles, Logins, Judged, Bound

LEMMA TypeStep == TypeInv /\ [Next]_vars => TypeInv'
<1>. SUFFICES ASSUME TypeInv, [Next]_vars PROVE TypeInv'
  OBVIOUS
<1>. USE DEF TypeInv, TypeOK, Idles, Logins, Judged, Bound, Idle, Goes, IsAt
<1>1. ASSUME NEW owner \in Owners, Begin(owner) PROVE TypeInv'
  BY <1>1, TtlAssumption DEF Begin, memory, evidence
<1>2. ASSUME NEW t \in Threads, NEW c \in DOMAIN challenges, NEW a \in Assertions, Complete(t, c, a)
      PROVE  TypeInv'
  BY <1>2 DEF Complete, Pop, memory, evidence
<1>3. ASSUME NEW t \in Threads, Verify(t) PROVE TypeInv'
  <2>1. doing[t] \in Logins(issued) /\ doing[t].answer \in Assertions /\ doing[t].owner \in Owners
    BY <1>3, ByStep DEF Verify
  <2>2. stored' \in [Owners -> [key : Keys \cup {NoKey}, count : Nat]]
    BY <1>3, <2>1, MaxCountAssumption DEF Verify, Assertions
  <2>3. doing' \in [Threads -> Idles \cup Logins(issued) \cup Judged(issued) \cup Bound(Len(bindings))]
    BY <1>3, <2>1 DEF Verify, Assertions
  <2>. QED  BY <1>3, <2>2, <2>3 DEF Verify, evidence
<1>4. ASSUME NEW t \in Threads, Reject(t) PROVE TypeInv'
  <2>1. doing[t] \in Judged(issued)
    BY <1>4, ByStep DEF Reject
  <2>. QED  BY <1>4, <2>1 DEF Reject, memory
<1>5. ASSUME NEW t \in Threads, RequestSession(t) PROVE TypeInv'
  <2>. DEFINE s == [challenge |-> doing[t].challenge, owner |-> doing[t].owner,
                    key |-> doing[t].key, expires |-> now + SessionTtl]
  <2>1. doing[t] \in Judged(issued)
    BY <1>5, ByStep DEF RequestSession
  <2>2. s \in Session /\ bindings' = Append(bindings, s)
    BY <1>5, <2>1, TtlAssumption DEF RequestSession, Session
  <2>3. bindings' \in Seq(Session) /\ Len(bindings') = Len(bindings) + 1 /\ Len(bindings) \in Nat
    BY <2>2, OneMoreBinding DEF Session
  <2>. QED  BY <1>5, <2>3 DEF RequestSession, memory, Session
<1>6. ASSUME NEW t \in Threads, CommitSession(t) PROVE TypeInv'
  <2>1. doing[t] \in Bound(Len(bindings))
    BY <1>6, ByStep DEF CommitSession
  <2>. QED  BY <1>6, <2>1 DEF CommitSession, memory
<1>7. ASSUME NEW t \in Threads, Activate(t) PROVE TypeInv'
  <2>1. doing[t] \in Bound(Len(bindings))
    BY <1>7, ByStep DEF Activate
  <2>. QED  BY <1>7, <2>1 DEF Activate, evidence
<1>8. ASSUME NEW t \in Threads, NEW b \in 1..Len(bindings), RequireSession(t, b) PROVE TypeInv'
  BY <1>8 DEF RequireSession, memory, evidence
<1>9. ASSUME NEW t \in Threads, Serve(t) PROVE TypeInv'
  <2>1. doing[t] \in Bound(Len(bindings))
    BY <1>9, ByStep DEF Serve
  <2>. QED  BY <1>9, <2>1 DEF Serve, memory, evidence
<1>10. ASSUME NEW t \in Threads, EvidenceFails(t) PROVE TypeInv'
  BY <1>10 DEF EvidenceFails, memory, evidence
<1>11. CASE Tick
  BY <1>11 DEF Tick, memory, evidence
<1>12. CASE Restart
  BY <1>12 DEF Restart, evidence, Nothing
<1>13. CASE UNCHANGED vars
  BY <1>13 DEF vars, memory, evidence
<1>. QED  BY <1>1, <1>2, <1>3, <1>4, <1>5, <1>6, <1>7, <1>8, <1>9, <1>10, <1>11, <1>12, <1>13 DEF Next, Step

----------------------------------------------------------------------------

\* A step that neither issues nor ends a challenge keeps each in its one place, as
\* long as nobody comes to hold one.
LEMMA NothingNewHeld ==
    ASSUME TypeInv, ChallengeInv, UNCHANGED <<issued, rejectedEv, bindings>>,
           DOMAIN challenges' \subseteq DOMAIN challenges,
           \A t \in Threads, c \in 1..issued : Holds(t, c)' => Holds(t, c)
    PROVE  ChallengeInv'
<1>1. \A c : Ended(c)' <=> Ended(c)
  BY DEF Ended
<1>2. DOMAIN challenges \subseteq 1..issued
  BY DEF TypeInv, TypeOK
<1>. QED  BY <1>1, <1>2 DEF ChallengeInv, OneEndPerChallenge

LEMMA ChallengeStep == TypeInv /\ ChallengeInv /\ [Next]_vars => ChallengeInv'
<1>. SUFFICES ASSUME TypeInv, ChallengeInv, [Next]_vars PROVE ChallengeInv'
  OBVIOUS
<1>0. /\ issued \in Nat /\ DOMAIN challenges \subseteq 1..issued /\ rejectedEv \subseteq 1..issued
      /\ DOMAIN doing = Threads /\ bindings \in Seq(Session) /\ Len(bindings) \in Nat
  BY DEF TypeInv, TypeOK, Session
<1>1. ASSUME NEW owner \in Owners, Begin(owner) PROVE ChallengeInv'
  <2>1. /\ issued' = issued + 1 /\ DOMAIN challenges' = DOMAIN challenges \cup {issued + 1}
        /\ UNCHANGED <<doing, bindings, rejectedEv>>
    BY <1>1 DEF Begin, evidence
  <2>2. /\ \A c : Ended(c)' <=> Ended(c)
        /\ \A t \in Threads : \A c : Holds(t, c)' <=> Holds(t, c)
    BY <2>1 DEF Ended, Holds
  <2>3. ~Ended(issued + 1)
    BY <1>0 DEF Ended, ChallengeInv
  <2>4. ASSUME NEW t \in Threads PROVE ~Holds(t, issued + 1)
    BY <1>0, ByStep DEF Holds, Logins, Judged
  <2>. QED  BY <1>0, <2>1, <2>2, <2>3, <2>4 DEF ChallengeInv, OneEndPerChallenge
<1>2. ASSUME NEW t \in Threads, NEW c \in DOMAIN challenges, NEW a \in Assertions, Complete(t, c, a)
      PROVE  ChallengeInv'
  <2>1. /\ DOMAIN challenges' = DOMAIN challenges \ {c}
        /\ UNCHANGED <<issued, bindings, rejectedEv>>
    BY <1>2 DEF Complete, Pop, evidence
  <2>2. \A d : Ended(d)' <=> Ended(d)
    BY <2>1 DEF Ended
  <2>3. \A u \in Threads : \A d : Holds(u, d)' => Holds(u, d) \/ (u = t /\ d = c)
    <3>1. doing' = [doing EXCEPT ![t] = Idle] \/ doing'[t].challenge = c
      BY <1>0, <1>2 DEF Complete, Goes
    <3>2. \A u \in Threads : u # t => doing'[u] = doing[u]
      BY <1>0, <1>2 DEF Complete, Goes
    <3>3. \A d : Holds(t, d)' => d = c
      BY <1>0, <3>1 DEF Holds, Idle
    <3>4. ASSUME NEW u \in Threads, NEW d, Holds(u, d)', u # t PROVE Holds(u, d)
      BY <3>2, <3>4 DEF Holds
    <3>. QED  BY <3>3, <3>4
  <2>. QED  BY <1>0, <2>1, <2>2, <2>3 DEF ChallengeInv, OneEndPerChallenge
<1>3. ASSUME NEW t \in Threads, Verify(t) PROVE ChallengeInv'
  <2>1. \A u \in Threads : \A c : Holds(u, c)' => Holds(u, c)
    BY <1>0, <1>3 DEF Verify, Holds, Goes, IsAt
  <2>. QED  BY <1>3, <2>1, NothingNewHeld DEF Verify, evidence
<1>4. ASSUME NEW t \in Threads, Reject(t) PROVE ChallengeInv'
  <2>. DEFINE e == doing[t].challenge
  <2>1. Holds(t, e) /\ e \in 1..issued
    BY <1>4, ByStep DEF Reject, IsAt, Holds, Judged
  <2>2. /\ rejectedEv' = rejectedEv \cup {e} /\ UNCHANGED <<issued, challenges, bindings>>
        /\ \A u \in Threads : \A d : Holds(u, d)' => Holds(u, d) /\ u # t
    BY <1>0, <1>4 DEF Reject, memory, Goes, Idle, Holds
  <2>3. \A d : Ended(d)' <=> Ended(d) \/ d = e
    BY <2>2 DEF Ended
  <2>4. \A b \in 1..Len(bindings) : bindings[b].challenge # e
    BY <2>1 DEF ChallengeInv, Ended
  <2>. QED  BY <1>0, <2>1, <2>2, <2>3, <2>4 DEF ChallengeInv, OneEndPerChallenge
<1>5. ASSUME NEW t \in Threads, RequestSession(t) PROVE ChallengeInv'
  <2>. DEFINE e == doing[t].challenge
              s == [challenge |-> e, owner |-> doing[t].owner,
                    key |-> doing[t].key, expires |-> now + SessionTtl]
  <2>1. doing[t] \in Judged(issued) /\ Holds(t, e) /\ e \in 1..issued /\ ~Ended(e)
    BY <1>5, ByStep DEF RequestSession, IsAt, Holds, Judged, ChallengeInv
  <2>2. s \in Session
    BY <1>0, <2>1, TtlAssumption DEF Session, Judged, TypeInv, TypeOK
  <2>3. /\ bindings' = Append(bindings, s) /\ UNCHANGED <<issued, challenges, rejectedEv>>
        /\ \A u \in Threads : \A d : Holds(u, d)' => Holds(u, d) /\ u # t
    BY <1>0, <1>5 DEF RequestSession, memory, Goes, Holds
  <2>4. /\ Len(bindings') = Len(bindings) + 1
        /\ \A b \in 1..Len(bindings) : bindings'[b] = bindings[b]
        /\ bindings'[Len(bindings) + 1].challenge = e
    BY <1>0, <2>2, <2>3, OneMoreBinding
  <2>5. \A d : Ended(d)' => Ended(d) \/ d = e
    BY <1>0, <2>3, <2>4 DEF Ended
  <2>6. \A b \in 1..Len(bindings) : bindings[b].challenge # e
    BY <2>1 DEF Ended
  <2>7. OneEndPerChallenge'
    <3>. SUFFICES ASSUME NEW b \in 1..Len(bindings')
                  PROVE  /\ bindings'[b].challenge \notin rejectedEv'
                         /\ \A d \in 1..Len(bindings') :
                               bindings'[b].challenge = bindings'[d].challenge => b = d
      BY DEF OneEndPerChallenge
    <3>. QED  BY <1>0, <2>1, <2>3, <2>4, <2>6 DEF ChallengeInv, OneEndPerChallenge, Ended
  <2>. QED  BY <1>0, <2>1, <2>3, <2>4, <2>5, <2>7 DEF ChallengeInv
<1>6. ASSUME NEW t \in Threads, CommitSession(t) \/ Activate(t) \/ Serve(t) \/ EvidenceFails(t)
      PROVE  ChallengeInv'
  <2>1. \A u \in Threads : \A c : Holds(u, c)' => Holds(u, c)
    <3>1. CASE CommitSession(t)
      <4>1. doing' = [doing EXCEPT ![t] = [doing[t] EXCEPT !.at = "activate"]]
        BY <3>1 DEF CommitSession, Goes
      <4>2. doing[t] \in Bound(Len(bindings))
        BY <3>1, ByStep DEF CommitSession, IsAt
      <4>3. doing'[t].at = "activate"
        BY <1>0, <4>1, <4>2 DEF Bound
      <4>. QED  BY <1>0, <4>1, <4>3 DEF Holds
    <3>2. CASE Activate(t) \/ Serve(t) \/ EvidenceFails(t)
      BY <1>0, <3>2 DEF Activate, Serve, EvidenceFails, Holds, Goes, Idle
    <3>. QED  BY <1>6, <3>1, <3>2
  <2>. QED  BY <1>6, <2>1, NothingNewHeld DEF CommitSession, Activate, Serve, EvidenceFails, memory, evidence
<1>7. ASSUME NEW t \in Threads, NEW b \in 1..Len(bindings), RequireSession(t, b) PROVE ChallengeInv'
  <2>1. \A u \in Threads : \A c : Holds(u, c)' => Holds(u, c)
    BY <1>0, <1>7 DEF RequireSession, Holds, Goes
  <2>. QED  BY <1>7, <2>1, NothingNewHeld DEF RequireSession, memory, evidence
<1>8. CASE Tick \/ UNCHANGED vars
  <2>1. \A u \in Threads : \A c : Holds(u, c)' => Holds(u, c)
    BY <1>8 DEF Tick, vars, Holds
  <2>. QED  BY <1>8, <2>1, NothingNewHeld DEF Tick, vars, memory, evidence
<1>9. CASE Restart
  <2>1. \A u \in Threads : \A c : ~Holds(u, c)'
    BY <1>9 DEF Restart, Holds, Idle
  <2>. QED  BY <1>9, <2>1, NothingNewHeld DEF Restart, evidence
<1>. QED  BY <1>1, <1>2, <1>3, <1>4, <1>5, <1>6, <1>7, <1>8, <1>9 DEF Next, Step

LEMMA SessionStep == TypeInv /\ SessionInv /\ [Next]_vars => SessionInv'
<1>. SUFFICES ASSUME TypeInv, SessionInv, [Next]_vars PROVE SessionInv'
  OBVIOUS
<1>. USE DEF SessionInv, SessionEvidenced, Goes, Idle, IsAt
<1>0. DOMAIN doing = Threads /\ Len(bindings) \in Nat /\ active \in 0..Len(bindings)
  BY DEF TypeInv, TypeOK
<1>1. ASSUME NEW owner \in Owners, Begin(owner) PROVE SessionInv'
  BY <1>1 DEF Begin, evidence
<1>2. ASSUME NEW t \in Threads, NEW c \in DOMAIN challenges, NEW a \in Assertions, Complete(t, c, a)
      PROVE  SessionInv'
  BY <1>0, <1>2 DEF Complete, evidence
<1>3. ASSUME NEW t \in Threads, Verify(t) PROVE SessionInv'
  BY <1>0, <1>3 DEF Verify, evidence
<1>4. ASSUME NEW t \in Threads, RequestSession(t) PROVE SessionInv'
  BY <1>0, <1>4 DEF RequestSession, memory
<1>5. ASSUME NEW t \in Threads, CommitSession(t) PROVE SessionInv'
  <2>1. doing[t] \in Bound(Len(bindings))
    BY <1>5, ByStep DEF CommitSession
  <2>2. doing'[t].at = "activate" /\ doing'[t].binding = doing[t].binding
    BY <1>0, <1>5, <2>1 DEF CommitSession, Bound
  <2>. QED  BY <1>0, <1>5, <2>2 DEF CommitSession, memory
<1>6. ASSUME NEW t \in Threads, Activate(t) \/ Serve(t) \/ EvidenceFails(t) PROVE SessionInv'
  BY <1>0, <1>6 DEF Activate, Serve, EvidenceFails, memory, evidence
<1>7. ASSUME NEW t \in Threads, NEW b \in 1..Len(bindings), RequireSession(t, b) PROVE SessionInv'
  BY <1>0, <1>7 DEF RequireSession, Current, memory, evidence
<1>8. ASSUME NEW t \in Threads, Reject(t) PROVE SessionInv'
  BY <1>0, <1>8 DEF Reject, memory
<1>9. CASE Tick \/ Restart \/ UNCHANGED vars
  BY <1>9 DEF Tick, Restart, vars, memory, evidence
<1>. QED  BY <1>1, <1>2, <1>3, <1>4, <1>5, <1>6, <1>7, <1>8, <1>9 DEF Next, Step

LEMMA InvHolds == Spec => []IInv
<1>1. IInv /\ [Next]_vars => IInv'
  BY TypeStep, ChallengeStep, SessionStep DEF IInv
<1>. QED  BY InitHolds, <1>1, PTL DEF Spec

\* The challenges, the credentials, the session and what each thread holds always
\* have their types; the session in force is one that was made.
THEOREM TypeCorrect == Spec => []TypeOK
  BY InvHolds, PTL DEF IInv, TypeInv

\* However many logins complete at once, a challenge comes to one end: one session, or
\* a rejection, or neither.
THEOREM OneEnd == Spec => []OneEndPerChallenge
  BY InvHolds, PTL DEF IInv, ChallengeInv

\* No session is in force, and none has served a request, without the evidence of both
\* its request and its commitment.
THEOREM SessionsEvidenced == Spec => []SessionEvidenced
  BY InvHolds, PTL DEF IInv, SessionInv

\* Whatever logins interleave, the counter of a stored credential goes back only by an
\* enrolment of that credential by its owner: never by an assertion, a late one included.
THEOREM CountersAdvance == Spec => CounterNeverBack
<1>. DEFINE OnlyByEnrolment ==
        \A o \in Owners :
            stored[o].key # NoKey /\ stored'[o].key = stored[o].key
                /\ stored'[o].count < stored[o].count
            => \E t \in Threads : Enrols(t, o) /\ doing'[t] # doing[t]
<1>1. IInv /\ [Next]_vars => [OnlyByEnrolment]_vars
  <2>. SUFFICES ASSUME IInv, [Next]_vars, NEW o \in Owners, stored[o].key # NoKey,
                       stored'[o].key = stored[o].key, stored'[o].count < stored[o].count
                PROVE  \E t \in Threads : Enrols(t, o) /\ doing'[t] # doing[t]
    OBVIOUS
  <2>. DEFINE ByEnrolment == \E t \in Threads : Enrols(t, o) /\ doing'[t] # doing[t]
  <2>0. /\ stored \in [Owners -> [key : Keys \cup {NoKey}, count : Nat]]
        /\ DOMAIN doing = Threads
    BY DEF IInv, TypeInv, TypeOK
  <2>1. ASSUME NEW t \in Threads, Verify(t) PROVE ByEnrolment
    <3>1. doing[t] \in Logins(issued)
      BY <2>1, ByStep DEF Verify, IsAt, IInv
    <3>2. CASE Registers(doing[t].answer) /\ doing[t].owner = o
      <4>1. Enrols(t, o)
        BY <2>1, <3>2 DEF Verify, Registers, Enrols
      <4>2. doing'[t].at # "verify" /\ doing[t].at = "verify"
        BY <2>0, <2>1 DEF Verify, Goes, IsAt
      <4>. QED  BY <4>1, <4>2
    <3>3. CASE Signs(doing[t].answer, doing[t].owner)
      BY <2>0, <2>1, <3>1, <3>3, MaxCountAssumption
         DEF Verify, Signs, CounterAccepted, Logins, Assertions
    <3>4. CASE doing[t].owner # o
      BY <2>0, <2>1, <3>1, <3>4 DEF Verify, Logins
    <3>5. CASE ~Registers(doing[t].answer) /\ ~Signs(doing[t].answer, doing[t].owner)
      BY <2>0, <2>1, <3>5 DEF Verify
    <3>. QED  BY <3>2, <3>3, <3>4, <3>5
  <2>2. CASE Restart
    BY <2>2 DEF Restart, Nothing
  <2>3. CASE UNCHANGED stored
    BY <2>0, <2>3
  <2>. QED
    BY <2>1, <2>2, <2>3
       DEF Next, Step, Begin, Complete, Reject, RequestSession, CommitSession, Activate,
           RequireSession, Serve, EvidenceFails, Tick, vars, memory
<1>. QED  BY <1>1, InvHolds, PTL DEF Spec, CounterNeverBack
=============================================================================
