------------------------- MODULE ConnectionLifecycle -------------------------
(***************************************************************************)
(* The life of the connection to a device: setup, retry, reload and unload *)
(* of the config entry (__init__.py), the probe of the manual config flow  *)
(* and the changes that flows make to the entry (config_flow.py), the       *)
(* registry of connection managers and their lock (tcp_manager.py), and the *)
(* requests of polls, entity calls and diagnostics that run through them.   *)
(* The event loop, the garbage collector, Home Assistant's entry states and *)
(* the device, which answers only the oldest of its connections             *)
(* (tcp_manager.py, first lines), are external.                             *)
(***************************************************************************)
EXTENDS Integers, Sequences, SequencesExt

CONSTANTS
    Addresses,      \* (host, port) pairs
    MaxSetups,      \* bound on the setups of the entry
    MaxFlows,       \* bound on the probes
    MaxCalls,       \* bound on entity calls and diagnostics downloads
    MaxSockets,     \* bound on the connections open at a time
    MaxFaults       \* bound on refused, lost and unanswered connections

ASSUME BoundsAssumption ==
    /\ Addresses # {}
    /\ MaxSetups \in Nat /\ MaxFlows \in Nat /\ MaxCalls \in Nat
    /\ MaxSockets \in Nat /\ MaxFaults \in Nat

VARIABLES
    phase,          \* state of the entry
    address,        \* entry.data[CONF_HOST], entry.data[CONF_PORT]
    setups,         \* setups so far; the last one is the current generation
    home,           \* the address each client was created with
    manager,        \* the manager it got, named by the client that created it
    registry,       \* TCPClientManager._connections
    writer,         \* the connection of each manager
    pc,             \* where each task is
    of,             \* the client it uses
    sock,           \* the connection it reads from
    accepted,       \* the open connections of each address, oldest first
    faults,         \* faults so far
    left            \* history: addresses whose manager no unload removed

entryVars  == <<phase, address, setups, left>>
clientVars == <<home, manager, registry>>
taskVars   == <<pc, of, sock>>
vars       == <<entryVars, clientVars, writer, taskVars, accepted, faults>>

None    == 0
Setups  == 1..MaxSetups
Flows   == (MaxSetups + 1)..(MaxSetups + MaxFlows)
Clients == Setups \cup Flows
Sockets == 1..MaxSockets
Poll    == 0
Calls   == (-MaxCalls)..(-1)
Task    == Calls \cup {Poll} \cup Flows

Phases  == {"absent", "connecting", "refreshing", "loaded", "disconnected", "retry"}
Polling == {"refreshing", "loaded", "disconnected"}
Locking == {"connecting", "reconnecting"}
Requesting == Locking \cup {"reading", "cooling"}
PCs     == {"idle", "dialing", "waiting", "closing", "ending", "done"} \cup Requesting

TypeOK ==
    /\ phase \in Phases
    /\ address \in Addresses
    /\ setups \in 0..MaxSetups
    /\ home \in [Clients -> Addresses]
    /\ manager \in [Clients -> Clients \cup {None}]
    /\ registry \in [Addresses -> Clients \cup {None}]
    /\ writer \in [Clients -> Sockets \cup {None}]
    /\ pc \in [Task -> PCs]
    /\ of \in [Task -> Clients \cup {None}]
    /\ sock \in [Task -> Sockets \cup {None}]
    /\ accepted \in [Addresses -> Seq(Sockets)]
    /\ faults \in 0..MaxFaults
    /\ left \in SUBSET Addresses

Init ==
    /\ phase = "absent"
    /\ address \in Addresses
    /\ setups = 0
    /\ home = [c \in Clients |-> address]
    /\ manager = [c \in Clients |-> None]
    /\ registry = [a \in Addresses |-> None]
    /\ writer = [c \in Clients |-> None]
    /\ pc = [t \in Task |-> "idle"]
    /\ of = [t \in Task |-> IF t \in Flows THEN t ELSE None]
    /\ sock = [t \in Task |-> None]
    /\ accepted = [a \in Addresses |-> << >>]
    /\ faults = 0
    /\ left = {}

-----------------------------------------------------------------------------
(* Connections.  Closing one is a single step: the transport is torn down   *)
(* in the next iteration of the event loop.                                 *)

Manager(t) == manager[of[t]]
Address(t) == home[of[t]]

Fault == faults < MaxFaults /\ faults' = faults + 1

IsOpen(s) == \E a \in Addresses : s \in ToSet(accepted[a])

InUse == {s \in Sockets : \/ IsOpen(s)
                          \/ \E m \in Clients : writer[m] = s
                          \/ \E t \in Task : sock[t] = s}

\* open_connection() of manager m succeeds with a connection s.
Opens(m, a, s) ==
    /\ s \in Sockets \ InUse
    /\ \A r \in Sockets \ InUse : s <= r
    /\ accepted' = [accepted EXCEPT ![a] = Append(@, s)]
    /\ writer' = [writer EXCEPT ![m] = s]

Without(q, s) ==
    IF \E i \in 1..Len(q) : q[i] = s
    THEN RemoveAt(q, CHOOSE i \in 1..Len(q) : q[i] = s)
    ELSE q

Shut(s) == accepted' = [a \in Addresses |-> Without(accepted[a], s)]

Close(m) == Shut(writer[m]) /\ writer' = [writer EXCEPT ![m] = None]

\* A client of address a shares the manager registered there.
GetInstance(c, a) ==
    /\ home' = [home EXCEPT ![c] = a]
    /\ registry' = [registry EXCEPT ![a] = IF @ = None THEN c ELSE @]
    /\ manager' = [manager EXCEPT ![c] = registry'[a]]

\* Mutant: the address itself is forgotten, and cannot be looked up again.
PopInstance(a) == registry' = [b \in Addresses \ {a} |-> registry[b]]

RemoveInstance(a) == registry' = [registry EXCEPT ![a] = None]

LockFree(m) == \A t \in Task : pc[t] \in Locking => Manager(t) # m

\* Mutant: the lock of a client is released once its request is sent.
IoLockFreeOnceSent(c) == \A t \in Task : pc[t] \in Locking => of[t] # c

IoLockFree(c) == \A t \in Task : pc[t] \in Requesting => of[t] # c

-----------------------------------------------------------------------------
(* A request: it waits for the lock of its client, gets the connection of   *)
(* the manager, opens one if there is none, and reads until its answer      *)
(* comes.                                                                   *)

\* What a poll, a call or a probe does with the result of its request; the
\* first refresh decides whether the entry is loaded.
Finish(t, ok) ==
    /\ pc' = [pc EXCEPT ![t] = IF t \in Flows THEN "closing"
                               ELSE IF t = Poll THEN "idle" ELSE "done"]
    /\ sock' = [sock EXCEPT ![t] = None]
    /\ phase' = IF t # Poll \/ phase # "refreshing" THEN phase
                ELSE IF ok THEN "loaded" ELSE "retry"
    /\ UNCHANGED <<address, setups, left, clientVars, of>>

Goes(t, where, s) ==
    /\ pc' = [pc EXCEPT ![t] = where]
    /\ sock' = [sock EXCEPT ![t] = s]
    /\ UNCHANGED <<entryVars, clientVars, of>>

Turn(t) ==
    /\ IF t = Poll THEN pc[t] = "idle" /\ phase \in Polling
       ELSE pc[t] = "waiting"
    /\ IoLockFree(of[t])
    /\ LockFree(Manager(t))

\* No writer, or one that is closing; one whose peer is gone may be either.
Begin(t) ==
    /\ Turn(t)
    /\ writer[Manager(t)] = None \/ ~IsOpen(writer[Manager(t)])
    /\ Goes(t, "connecting", None)
    /\ UNCHANGED <<writer, accepted, faults>>

\* Another task reads from the connection t would read from.
StreamIsRead(t) == \E u \in Task : sock[u] # None /\ sock[u] = writer[Manager(t)]

\* A writer that is not closing, though its peer may have closed its own side.
\* A StreamReader refuses a second reader: RuntimeError, which is no OSError.
BeginReading(t) ==
    /\ Turn(t)
    /\ writer[Manager(t)] # None
    /\ IF StreamIsRead(t) THEN Finish(t, FALSE)
       ELSE Goes(t, "reading", writer[Manager(t)])
    /\ UNCHANGED <<writer, accepted, faults>>

Connected(t) ==
    /\ pc[t] = "connecting"
    /\ \E s \in Sockets : Opens(Manager(t), Address(t), s) /\ Goes(t, "reading", s)
    /\ UNCHANGED faults

ConnectFails(t) ==
    /\ pc[t] = "connecting"
    /\ Fault
    /\ Goes(t, "cooling", None)
    /\ UNCHANGED <<writer, accepted>>

IsServed(s) == \E a \in Addresses : accepted[a] # << >> /\ Head(accepted[a]) = s

Answered(t) ==
    /\ pc[t] = "reading"
    /\ IsServed(sock[t])
    /\ Finish(t, TRUE)
    /\ UNCHANGED <<writer, accepted, faults>>

\* A read timeout: the connection is kept, or recycled after several.
Silent(t) ==
    /\ pc[t] = "reading"
    /\ IsOpen(sock[t])
    /\ IF IsServed(sock[t]) THEN Fault ELSE UNCHANGED faults
    /\ UNCHANGED <<writer, accepted>> \/ Close(Manager(t))
    /\ Finish(t, FALSE)

\* Mutant: the end of the stream is taken for a failed request only.
EndOfStreamIgnored(t) ==
    /\ pc[t] = "reading"
    /\ ~IsOpen(sock[t])
    /\ Finish(t, FALSE)
    /\ UNCHANGED <<writer, accepted, faults>>

\* The connection was closed by the device or by another task.
EndOfStream(t) ==
    /\ pc[t] = "reading"
    /\ ~IsOpen(sock[t])
    /\ Goes(t, "cooling", None)
    /\ UNCHANGED <<writer, accepted, faults>>

\* After the cooldown the manager reconnects, under its lock.
Reconnect(t) ==
    /\ pc[t] = "cooling"
    /\ LockFree(Manager(t))
    /\ Close(Manager(t))
    /\ Goes(t, "reconnecting", None)
    /\ UNCHANGED faults

\* Mutant: the reconnect enters the lock that it holds.
ReconnectedLocking(t) ==
    /\ pc[t] = "reconnecting"
    /\ LockFree(Manager(t))
    /\ \E s \in Sockets : Opens(Manager(t), Address(t), s)
    /\ Finish(t, FALSE)
    /\ UNCHANGED faults

Reconnected(t) ==
    /\ pc[t] = "reconnecting"
    /\ \E s \in Sockets : Opens(Manager(t), Address(t), s)
    /\ Finish(t, FALSE)
    /\ UNCHANGED faults

ReconnectFails(t) ==
    /\ pc[t] = "reconnecting"
    /\ Fault
    /\ Finish(t, FALSE)
    /\ UNCHANGED <<writer, accepted>>

-----------------------------------------------------------------------------
(* Polls of the loaded entry, and calls: an entity's or a download of the   *)
(* diagnostics.  A call keeps the client it began with, also past an unload. *)

CallStarts(k) ==
    /\ phase = "loaded"
    /\ pc[k] = "idle"
    /\ pc' = [pc EXCEPT ![k] = "waiting"]
    /\ of' = [of EXCEPT ![k] = setups]
    /\ UNCHANGED <<entryVars, clientVars, sock, writer, accepted, faults>>

-----------------------------------------------------------------------------
(* The probe of the manual config flow. *)

ProbeStarts(f, a) ==
    /\ pc[f] = "idle"
    /\ GetInstance(f, a)
    /\ pc' = [pc EXCEPT ![f] = "dialing"]
    /\ UNCHANGED <<entryVars, of, sock, writer, accepted, faults>>

\* async_connect() replaces the manager's connection, without its lock.
ProbeConnected(f) ==
    /\ pc[f] = "dialing"
    /\ \E s \in Sockets : Opens(Manager(f), Address(f), s)
    /\ Goes(f, "waiting", None)
    /\ UNCHANGED faults

ProbeFails(f) ==
    /\ pc[f] = "dialing"
    /\ Fault
    /\ Goes(f, "closing", None)
    /\ UNCHANGED <<writer, accepted>>

ProbeCloses(f) ==
    /\ pc[f] = "closing"
    /\ Close(Manager(f))
    /\ Goes(f, "ending", None)
    /\ UNCHANGED faults

\* Mutant: the probe leaves its manager registered.
ProbeEndsRegistered(f) ==
    /\ pc[f] = "ending"
    /\ Goes(f, "done", None)
    /\ UNCHANGED <<writer, accepted, faults>>

ProbeEnds(f) ==
    /\ pc[f] = "ending"
    /\ RemoveInstance(Address(f))
    /\ pc' = [pc EXCEPT ![f] = "done"]
    /\ UNCHANGED <<entryVars, home, manager, of, sock, writer, accepted, faults>>

-----------------------------------------------------------------------------
(* The config entry.  Home Assistant runs setup, unload and reload of an    *)
(* entry one at a time, and sets it up again after a failed setup.          *)

SetUp(a) ==
    /\ setups < MaxSetups
    /\ setups' = setups + 1
    /\ phase' = "connecting"
    /\ address' = a
    /\ GetInstance(setups + 1, a)
    /\ UNCHANGED <<taskVars, writer, accepted, faults>>

\* The entry is created by a flow, enabled again, or set up after the unload of
\* a reload.
Add(a) == phase = "absent" /\ SetUp(a) /\ UNCHANGED left

\* The manager of the failed setup stays registered, where it is found again
\* unless the address was changed meanwhile.
Retry ==
    /\ phase = "retry"
    /\ SetUp(address)
    /\ left' = left \cup ({home[setups]} \ {address})

SetUpConnected ==
    /\ phase = "connecting"
    /\ \E s \in Sockets : Opens(manager[setups], home[setups], s)
    /\ phase' = "refreshing"
    /\ of' = [of EXCEPT ![Poll] = setups]
    /\ UNCHANGED <<address, setups, left, clientVars, pc, sock, faults>>

SetUpFails ==
    /\ phase = "connecting"
    /\ Fault
    /\ phase' = "retry"
    /\ UNCHANGED <<address, setups, left, clientVars, taskVars, writer,
                   accepted>>

\* A flow changes the address of the entry, which stays in use until the next
\* setup; a change made to a loaded entry asks for its reload.
Update(a) ==
    /\ phase # "absent"
    /\ address' = a
    /\ UNCHANGED <<phase, setups, left, clientVars, taskVars, writer, accepted,
                   faults>>

\* A reload, a removal or a disabling unloads the entry.
Disconnect ==
    /\ phase = "loaded"
    /\ phase' = "disconnected"
    /\ Close(manager[setups])
    /\ UNCHANGED <<address, setups, left, clientVars, taskVars, faults>>

\* Mutant: the manager is left to the next setup.
UnloadKeepingInstance ==
    /\ phase = "disconnected"
    /\ phase' = "absent"
    /\ pc' = [pc EXCEPT ![Poll] = "idle"]
    /\ sock' = [sock EXCEPT ![Poll] = None]
    /\ UNCHANGED <<address, setups, left, clientVars, of, writer, accepted, faults>>

\* The manager registered at the address the entry has by now is removed, and
\* the poll is cancelled wherever it is; calls in flight go on.
UnloadEnds ==
    /\ phase = "disconnected"
    /\ phase' = "absent"
    /\ RemoveInstance(address)
    /\ left' = left \cup ({home[setups]} \ {address})
    /\ pc' = [pc EXCEPT ![Poll] = "idle"]
    /\ sock' = [sock EXCEPT ![Poll] = None]
    /\ UNCHANGED <<address, setups, home, manager, of, writer, accepted, faults>>

\* An entry that waits for its next try is removed without an unload.
RemoveFailed ==
    /\ phase = "retry"
    /\ phase' = "absent"
    /\ left' = left \cup {home[setups]}
    /\ UNCHANGED <<address, setups, clientVars, taskVars, writer, accepted, faults>>

-----------------------------------------------------------------------------
(* The device and the garbage collector. *)

DeviceCloses(s) ==
    /\ IsOpen(s)
    /\ Fault
    /\ Shut(s)
    /\ UNCHANGED <<entryVars, clientVars, writer, taskVars>>

\* A manager lives in the registry, in the current coordinator, and in every
\* call or probe that has not ended.
Alive(m) ==
    \/ \E a \in Addresses : registry[a] = m
    \/ phase \notin {"absent", "retry"} /\ manager[setups] = m
    \/ \E t \in Calls \cup Flows : pc[t] \notin {"idle", "done"} /\ Manager(t) = m

\* A connection nobody refers to any more is closed (StreamWriter.__del__).
Collect(s) ==
    /\ IsOpen(s)
    /\ \A m \in Clients : writer[m] = s => ~Alive(m)
    /\ \A t \in Task : sock[t] # s
    /\ Shut(s)
    /\ writer' = [m \in Clients |-> IF writer[m] = s THEN None ELSE writer[m]]
    /\ UNCHANGED <<entryVars, clientVars, taskVars, faults>>

-----------------------------------------------------------------------------
ReadEnds(t) == Answered(t) \/ Silent(t) \/ EndOfStream(t)

Request(t) ==
    \/ Begin(t) \/ BeginReading(t)
    \/ Connected(t) \/ ConnectFails(t)
    \/ ReadEnds(t)
    \/ Reconnect(t) \/ Reconnected(t) \/ ReconnectFails(t)

Probe(f) == ProbeConnected(f) \/ ProbeFails(f) \/ ProbeCloses(f) \/ ProbeEnds(f)

Entry ==
    \/ \E a \in Addresses : Add(a) \/ Update(a)
    \/ Retry \/ SetUpConnected \/ SetUpFails
    \/ Disconnect \/ UnloadEnds \/ RemoveFailed

Next ==
    \/ Entry
    \/ \E k \in Calls : CallStarts(k)
    \/ \E f \in Flows : Probe(f) \/ \E a \in Addresses : ProbeStarts(f, a)
    \/ \E t \in Task : Request(t)
    \/ \E s \in Sockets : DeviceCloses(s) \/ Collect(s)

(* The event loop resumes what is ready, connecting and reading time out,   *)
(* the locks are first in, first out (so a waiter that finds its turn again *)
(* and again gets it), and the garbage collector runs.                      *)
Fairness ==
    /\ SF_vars(Request(Poll))
    /\ \A k \in Calls : SF_vars(Request(k))
    /\ \A f \in Flows : SF_vars(Request(f) \/ Probe(f))
    /\ WF_vars(SetUpConnected \/ UnloadEnds)
    /\ WF_vars(\E s \in Sockets : Collect(s))

Spec     == Init /\ [][Next]_vars
LiveSpec == Spec /\ Fairness

-----------------------------------------------------------------------------
(* Safety *)

\* A call that outlives its generation, reconnecting after the unload, never
\* shares the manager of a later one: their requests, under different
\* locks, would read each other's answers.  Only an entry that moved away
\* without its manager being removed may meet it again.
IsolatedGenerations ==
    \A k \in Calls :
        pc[k] \notin {"idle", "done"} /\ of[k] # setups /\ phase # "absent"
            /\ home[of[k]] \notin left
        => Manager(k) # manager[setups]

\* When the entry is gone and every probe has ended, no manager is registered
\* any more ("a failed flow leaves no state behind"), except where an entry
\* was removed after a failed setup, or moved, before it was unloaded.
NothingLeftBehind ==
    phase = "absent" /\ (\A f \in Flows : pc[f] \in {"idle", "done"})
    => \A a \in Addresses : registry[a] # None => a \in left

\* "Errors never propagate to callers", as far as it holds: at an address that
\* no probe has used and the entry has not left behind, no request is about to
\* read a stream that another request reads, and to raise; not across reloads,
\* failed setups, reconnects and calls that outlive their generation.
StreamsAreSeparate ==
    \A t \in Task :
        /\ Turn(t)
        /\ home[of[t]] \notin left
        /\ \A f \in Flows : pc[f] # "idle" => home[f] # home[of[t]]
        => ~StreamIsRead(t)

-----------------------------------------------------------------------------
(* Liveness *)

\* Every probe and every call ends: the locks are handed on, also across
\* reconnects, unloads and the connections of other generations.
RequestsEnd == \A t \in Calls \cup Flows : pc[t] # "idle" ~> pc[t] = "done"

\* An entry that stays loaded is served again and again, whatever probes,
\* calls of older generations and lost connections did to its manager.
LoadedIsServed == <>[](phase = "loaded") => []<><<Answered(Poll)>>_vars

-----------------------------------------------------------------------------
(* What a comment of the code promises and a probe breaks. *)

\* "Errors never propagate to callers": no request is about to read a stream
\* that another request reads, and to raise.
ErrorsStayInside == \A t \in Task : Turn(t) => ~StreamIsRead(t)

=============================================================================
