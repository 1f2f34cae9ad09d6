------------------------------- MODULE Writer -------------------------------
(***************************************************************************)
(* What the write lock of the coordinator promises (coordinator.py, the    *)
(* comment on _write_lock): orders wait in a queue, the device changes      *)
(* only by executing the first of them, once or several times, and who has *)
(* left the queue is never heard of again.  Attempts, pauses, readbacks,    *)
(* keepalive timing and what the coordinator remembers are left out.        *)
(***************************************************************************)
EXTENDS Integers, Sequences, SequencesExt

CONSTANTS
    Writers,        \* who may place an order
    Kinds,          \* kinds of orders
    Payloads,       \* values an order may carry
    None            \* the device manages itself

VARIABLES
    queue,          \* the orders placed and not yet done with
    device          \* setpoint, whether it is a short hold, backup output

vars == <<queue, device>>

Orders == [task : Writers, kind : Kinds, payload : Payloads]

Init ==
    /\ queue = << >>
    /\ device \in [held : {None}, short : {FALSE}, backup : {0, 1}]

Join(order) ==
    /\ \A i \in 1..Len(queue) : queue[i].task # order.task
    /\ queue' = Append(queue, order)
    /\ UNCHANGED device

\* The first order is given its payload when its turn has come.
Prepare(payload) ==
    /\ queue # << >>
    /\ queue' = [queue EXCEPT ![1].payload = payload]
    /\ UNCHANGED device

Executed(order) ==
    IF order.kind = "backup" THEN [device EXCEPT !.backup = order.payload]
    ELSE [device EXCEPT !.held = order.payload, !.short = (order.kind = "release")]

\* The first order is executed, and perhaps is done with.
Execute ==
    /\ queue # << >>
    /\ device' = Executed(Head(queue))
    /\ queue' \in {queue, Tail(queue)}

\* An order is done with, or withdrawn, wherever it is.
Leave ==
    /\ \E i \in 1..Len(queue) : queue' = RemoveAt(queue, i)
    /\ UNCHANGED device

\* The watchdog frees the device.
Expire ==
    /\ device' = [held |-> None, short |-> FALSE, backup |-> device.backup]
    /\ UNCHANGED queue

Next ==
    \/ \E order \in Orders : Join(order)
    \/ \E payload \in Payloads : Prepare(payload)
    \/ Execute
    \/ Leave
    \/ Expire

Spec == Init /\ [][Next]_vars

=============================================================================
