--------------------------- MODULE RequestChannel ---------------------------
(***************************************************************************)
(* What tcp_client.py promises of the one stream it shares (its docstring): *)
(* requests take their turns first in, first out; a turn puts the request   *)
(* on the wire at most once; what comes back during a turn is the answer to *)
(* that very request or nothing, and late answers are never heard of.       *)
(* Sockets, buffers, timeouts and the backoff are left out.                 *)
(***************************************************************************)
EXTENDS Integers, Sequences, SequencesExt

CONSTANTS
    Users,          \* who makes requests
    Ids             \* what tells their requests apart

VARIABLES
    queue,          \* the requests made and not yet returned
    spent,          \* the first of them has had its one chance to be sent
    transit,        \* requests the device has, or whose answers are under way
    result          \* how the latest request of each user ended

vars == <<queue, spent, transit, result>>

Requests == [by : Users, msgId : Ids]

Init ==
    /\ queue = << >>
    /\ spent = FALSE
    /\ transit = {}
    /\ result = [u \in Users |-> "pending"]

\* A new request is unlike every other one that waits or may yet be answered.
Ask(request) ==
    /\ request \notin transit
    /\ \A i \in 1..Len(queue) : queue[i].by # request.by
    /\ queue' = Append(queue, request)
    /\ result' = [result EXCEPT ![request.by] = "pending"]
    /\ UNCHANGED <<spent, transit>>

\* The first request is sent, and with it or before it others may get lost.
Send ==
    /\ queue # << >> /\ ~spent
    /\ spent' = TRUE
    /\ transit' \in SUBSET (transit \cup {Head(queue)})
    /\ UNCHANGED <<queue, result>>

Returns(i, how) ==
    /\ queue' = RemoveAt(queue, i)
    /\ result' = [result EXCEPT ![queue[i].by] = how]
    /\ spent' = (spent /\ i # 1)

\* The answer to the first request comes, and is used up.
Answer ==
    /\ queue # << >> /\ spent
    /\ Head(queue) \in transit
    /\ transit' \in SUBSET (transit \ {Head(queue)})
    /\ Returns(1, "own answer")

\* The turn of the first request ends without an answer.
GiveUp ==
    /\ queue # << >>
    /\ \E how \in {"none", "raised"} : Returns(1, how)
    /\ transit' \in SUBSET transit

\* A request is withdrawn, wherever it is in the queue.
Withdraw ==
    /\ \E i \in 1..Len(queue) : Returns(i, "cancelled")
    /\ UNCHANGED transit

\* Requests and answers get lost, or are read too late and dropped.
Lose ==
    /\ transit' \in SUBSET transit
    /\ UNCHANGED <<queue, spent, result>>

Next ==
    \/ \E request \in Requests : Ask(request)
    \/ Send
    \/ Answer
    \/ GiveUp
    \/ Withdraw
    \/ Lose

Spec == Init /\ [][Next]_vars

=============================================================================
