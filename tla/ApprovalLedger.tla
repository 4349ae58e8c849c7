--------------------------- MODULE ApprovalLedger ---------------------------
(***************************************************************************)
(* What the approval lane promises, with no threads, sessions, evidence or *)
(* restarts: a ledger in which every entry is made and moved by one atomic *)
(* step that looks at the ledger as it is at that moment.  A review can    *)
(* only be opened on a task that is accepted, an ask only on a review that *)
(* was reviewed, each at most once per source, and what is settled stays.  *)
(***************************************************************************)
EXTENDS Naturals

CONSTANTS Ids, Sources

VARIABLES
    tasks,      \* id -> [source, state, revision]
    reviews,    \* id -> [task, state]
    asks        \* id -> [review, status]

ledger == <<tasks, reviews, asks>>

TaskMoves == {<<"draft", "draft">>, <<"draft", "proposed">>, <<"draft", "cancelled">>,
              <<"proposed", "accepted_for_future_approval">>,
              <<"proposed", "denied">>, <<"proposed", "cancelled">>}
ReviewOutcomes == {"reviewed_no_authority", "denied", "withdrawn"}
AskOutcomes == {"denied", "cancelled", "expired"}

Put(table, id, record) ==
    [i \in DOMAIN table \cup {id} |-> IF i = id THEN record ELSE table[i]]

Init ==
    /\ tasks = [i \in {} |-> 0]
    /\ reviews = [i \in {} |-> 0]
    /\ asks = [i \in {} |-> 0]

Draft(id, source) ==
    /\ id \notin DOMAIN tasks
    /\ \A i \in DOMAIN tasks : tasks[i].source # source
    /\ tasks' = Put(tasks, id, [source |-> source, state |-> "draft", revision |-> 1])
    /\ UNCHANGED <<reviews, asks>>

Move(id, next) ==
    /\ <<tasks[id].state, next>> \in TaskMoves
    /\ tasks' = Put(tasks, id, [source |-> tasks[id].source, state |-> next,
                                revision |-> tasks[id].revision + 1])
    /\ UNCHANGED <<reviews, asks>>

OpenReview(id, task) ==
    /\ id \notin DOMAIN reviews
    /\ tasks[task].state = "accepted_for_future_approval"
    /\ \A i \in DOMAIN reviews : reviews[i].task # task
    /\ reviews' = Put(reviews, id, [task |-> task, state |-> "preview_ready"])
    /\ UNCHANGED <<tasks, asks>>

CloseReview(id, next) ==
    /\ reviews[id].state = "preview_ready"
    /\ tasks[reviews[id].task].state = "accepted_for_future_approval"
    /\ reviews' = Put(reviews, id, [task |-> reviews[id].task, state |-> next])
    /\ UNCHANGED <<tasks, asks>>

Ask(id, review) ==
    /\ id \notin DOMAIN asks
    /\ reviews[review].state = "reviewed_no_authority"
    /\ \A i \in DOMAIN asks : asks[i].review # review
    /\ asks' = Put(asks, id, [review |-> review, status |-> "pending_review"])
    /\ UNCHANGED <<tasks, reviews>>

Settle(id, next) ==
    /\ asks[id].status = "pending_review"
    /\ asks' = Put(asks, id, [review |-> asks[id].review, status |-> next])
    /\ UNCHANGED <<tasks, reviews>>

Next ==
    \/ \E id \in Ids, s \in Sources : Draft(id, s)
    \/ \E id \in DOMAIN tasks, next \in {m[2] : m \in TaskMoves} : Move(id, next)
    \/ \E id \in Ids, t \in DOMAIN tasks : OpenReview(id, t)
    \/ \E id \in DOMAIN reviews, next \in ReviewOutcomes : CloseReview(id, next)
    \/ \E id \in Ids, v \in DOMAIN reviews : Ask(id, v)
    \/ \E id \in DOMAIN asks, next \in AskOutcomes : Settle(id, next)

Spec == Init /\ [][Next]_ledger
=============================================================================
