------------------------------ MODULE Bulletin ------------------------------
(***************************************************************************)
(* What the people of a pull request see of the app, whatever GitHub, the  *)
(* clock and the process do to it: a conversation in which each delivery   *)
(* is told of at most once, by a comment of its own or in the place of one *)
(* comment of the app.  ReviewApp implements it.                           *)
(***************************************************************************)
EXTENDS Integers, Sequences, SequencesExt

CONSTANTS
    Deliveries,
    Requests,
    Request,    \* Request[d]: the pull request d is about
    People,     \* comments people may write
    AppLike     \* the comments the app may take for its own

VARIABLES
    board,      \* board[p]: the conversation of p, oldest first
    work        \* work[d]: "none", "open" or "over"

vars == <<board, work>>

Init ==
    /\ board = [p \in Requests |-> << >>]
    /\ work = [d \in Deliveries |-> "none"]

Says(h, p) ==
    /\ \A q \in Requests : \A k \in DOMAIN board[q] : board[q][k].id # h
    /\ \E c \in [id : {h}, by : {h}, cert : {"none"}] :
          board' = [board EXCEPT ![p] = Append(@, c)]
    /\ UNCHANGED work

\* Only people make comments go away.
Deletes(p, k) ==
    /\ k \in DOMAIN board[p]
    /\ board' = [board EXCEPT ![p] = RemoveAt(@, k)]
    /\ UNCHANGED work

Opens(d) ==
    /\ work[d] = "none"
    /\ work' = [work EXCEPT ![d] = "open"]
    /\ UNCHANGED board

\* Analyses end, several at once when the process does, and say nothing.
GivesUp(ds) ==
    /\ ds # {} /\ \A d \in ds : work[d] = "open"
    /\ work' = [d \in Deliveries |-> IF d \in ds THEN "over" ELSE work[d]]
    /\ UNCHANGED board

Certificate(id, d) == [id : {id}, by : {d}, cert : {"graded", "F"}]

\* The one publication of d: a new comment, or the text of one comment the app
\* takes for its own, which keeps its place.
Publishes(d) ==
    /\ work[d] = "open"
    /\ work' = [work EXCEPT ![d] = "over"]
    /\ \/ \E c \in Certificate(d, d) : board' = [board EXCEPT ![Request[d]] = Append(@, c)]
       \/ \E k \in DOMAIN board[Request[d]] :
             /\ board[Request[d]][k].id \in AppLike
             /\ \E c \in Certificate(board[Request[d]][k].id, d) :
                   board' = [board EXCEPT ![Request[d]][k] = c]

Next ==
    \/ \E p \in Requests : \/ \E h \in People : Says(h, p)
                           \/ \E k \in DOMAIN board[p] : Deletes(p, k)
    \/ \E d \in Deliveries : Opens(d) \/ Publishes(d)
    \/ \E ds \in SUBSET Deliveries : GivesUp(ds)

Safe == Init /\ [][Next]_vars

\* No analysis stays open: what is over never opens again, so an analysis that
\* opens ends.
Ends == \A d \in Deliveries : []<>(work[d] # "open")

Spec == Safe /\ Ends
=============================================================================
