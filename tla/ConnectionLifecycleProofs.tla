---------------------- MODULE ConnectionLifecycleProofs ----------------------
(***************************************************************************)
(* Proofs about ConnectionLifecycle, for every set of addresses and every  *)
(* number of setups, probes, calls, connections and faults.                *)
(***************************************************************************)
EXTENDS ConnectionLifecycle, SequenceFacts

-----------------------------------------------------------------------------
(* The inductive invariant. *)

Active(t) == pc[t] \notin {"idle", "done"}

Created(c) == c \in 1..setups \/ (c \in Flows /\ pc[c] # "idle")

SettingUp == {"connecting", "refreshing", "retry"}

\* The client of a task: its own for a probe, the current one for the poll,
\* and for a call that of a setup, which was loaded.
ClientOfTask ==
    /\ \A f \in Flows : of[f] = f
    /\ \A k \in Calls : Active(k) => of[k] \in 1..setups
    /\ \A k \in Calls : Active(k) /\ phase \in SettingUp => of[k] # setups

PollIsCurrent ==
    /\ phase # "absent" => setups # 0
    /\ phase \in Polling => of[Poll] = setups
    /\ pc[Poll] # "idle" => phase \in Polling

\* A manager is shared by clients of one address, and registered only there.
ManagersKeepHome ==
    /\ \A c \in Clients : Created(c) =>
        /\ manager[c] \in Clients
        /\ Created(manager[c])
        /\ home[manager[c]] = home[c]
    /\ \A a \in Addresses : registry[a] # None =>
        Created(registry[a]) /\ home[registry[a]] = a

\* Whoever may still remove a registered manager.
RegisteredIsUsed ==
    \A a \in Addresses : registry[a] # None =>
        \/ a \in left
        \/ phase # "absent" /\ home[setups] = a
        \/ \E f \in Flows : Active(f) /\ home[f] = a

\* The manager of an unloaded generation is not handed out again.
UnloadedIsUnregistered ==
    \A k \in Calls :
        Active(k) /\ (of[k] # setups \/ phase = "absent") /\ home[of[k]] \notin left
        => \A a \in Addresses : registry[a] # manager[of[k]]

Sharing ==
    /\ ClientOfTask
    /\ ManagersKeepHome
    /\ RegisteredIsUsed
    /\ UnloadedIsUnregistered
    /\ IsolatedGenerations

Inv == TypeOK /\ PollIsCurrent /\ Sharing

-----------------------------------------------------------------------------
(* The parts of the state. *)

\* Polls, calls, probes and setups have names of their own.
LEMMA Names ==
    /\ Poll \in Task /\ Poll \notin Flows /\ Poll \notin Calls
    /\ Calls \subseteq Task /\ Flows \subseteq Task
    /\ \A k \in Calls : k \notin Flows
    /\ Flows \subseteq Clients
    /\ \A n \in 1..MaxSetups : n \in Clients /\ n \notin Flows
    /\ None \notin Clients
  BY BoundsAssumption DEF Poll, Task, Calls, Flows, Clients, Setups, None

\* Closing a connection keeps the list of connections well formed.
LEMMA WithoutType ==
    ASSUME NEW S, NEW q \in Seq(S), NEW s
    PROVE  Without(q, s) \in Seq(S)
  <1>1. CASE \E i \in 1..Len(q) : q[i] = s
    <2> DEFINE n == CHOOSE i \in 1..Len(q) : q[i] = s
    <2>1. n \in 1..Len(q)
      BY <1>1
    <2> HIDE DEF n
    <2>2. RemoveAt(q, n) \in Seq(S)
      BY <2>1, RemoveAtFacts
    <2> QED BY <1>1, <2>2 DEF Without, n
  <1>2. CASE ~(\E i \in 1..Len(q) : q[i] = s)
    BY <1>2 DEF Without
  <1> QED BY <1>1, <1>2

LEMMA ShutType ==
    ASSUME TypeOK, NEW s, Shut(s)
    PROVE  accepted' \in [Addresses -> Seq(Sockets)]
  BY WithoutType DEF TypeOK, Shut

LEMMA CloseType ==
    ASSUME TypeOK, NEW m, Close(m)
    PROVE  /\ accepted' \in [Addresses -> Seq(Sockets)]
           /\ writer' \in [Clients -> Sockets \cup {None}]
  <1>1. accepted' \in [Addresses -> Seq(Sockets)]
    BY ShutType DEF Close
  <1>2. writer' \in [Clients -> Sockets \cup {None}]
    BY DEF TypeOK, Close
  <1> QED BY <1>1, <1>2

LEMMA OpensType ==
    ASSUME TypeOK, NEW m, NEW a, NEW s \in Sockets, Opens(m, a, s)
    PROVE  /\ accepted' \in [Addresses -> Seq(Sockets)]
           /\ writer' \in [Clients -> Sockets \cup {None}]
  <1>1. \A b \in Addresses : Append(accepted[b], s) \in Seq(Sockets)
    BY AppendFacts DEF TypeOK
  <1>2. accepted' \in [Addresses -> Seq(Sockets)]
    BY <1>1 DEF TypeOK, Opens
  <1>3. writer' \in [Clients -> Sockets \cup {None}]
    BY DEF TypeOK, Opens
  <1> QED BY <1>2, <1>3

LEMMA FaultType ==
    ASSUME TypeOK, Fault
    PROVE  faults' \in 0..MaxFaults
  BY BoundsAssumption DEF TypeOK, Fault

\* The manager of a task that is at work is one of the managers.
LEMMA ManagerType ==
    ASSUME Inv, NEW t \in Task,
           t # Poll => Active(t), t = Poll => phase \in Polling
    PROVE  of[t] \in Clients /\ Created(of[t]) /\ Manager(t) \in Clients
  <1>1. setups \in 0..MaxSetups /\ MaxSetups \in Nat
    BY BoundsAssumption DEF Inv, TypeOK
  <1>2. of[t] \in Clients /\ Created(of[t])
    <2>1. CASE t = Poll
      <3>1. of[t] = setups /\ setups # 0
        BY <2>1 DEF Inv, PollIsCurrent, Polling
      <3>2. setups \in 1..setups /\ setups \in 1..MaxSetups
        BY <1>1, <3>1
      <3> QED BY <3>1, <3>2, Names DEF Created
    <2>2. CASE t \in Calls
      <3>1. of[t] \in 1..setups
        BY <2>2, Names DEF Inv, Sharing, ClientOfTask
      <3>2. of[t] \in 1..MaxSetups
        BY <1>1, <3>1
      <3> QED BY <3>1, <3>2, Names DEF Created
    <2>3. CASE t \in Flows
      BY <2>3, Names DEF Inv, Sharing, ClientOfTask, Created, Active
    <2> QED BY <2>1, <2>2, <2>3 DEF Task
  <1> QED BY <1>2 DEF Inv, Sharing, ManagersKeepHome, Manager

-----------------------------------------------------------------------------
(* Steps that move tasks and connections, and neither create nor end a     *)
(* client.                                                                 *)

LEMMA QuietSharing ==
    ASSUME Inv, UNCHANGED <<setups, home, manager, registry, left>>,
           \A f \in Flows : /\ (pc'[f] = "idle") <=> (pc[f] = "idle")
                            /\ Active(f) => Active(f)',
           \A k \in Calls : Active(k)' => Active(k),
           \A t \in Calls \cup Flows : of'[t] = of[t],
           (phase' = "absent") <=> (phase = "absent"),
           phase' \in SettingUp => phase \in SettingUp
    PROVE  Sharing'
  <1>1. \A c \in Clients : Created(c)' <=> Created(c)
    BY DEF Created
  <1>2. ClientOfTask'
    BY Names DEF Inv, Sharing, ClientOfTask
  <1>3. ManagersKeepHome'
    <2>1. \A c \in Clients : Created(c)' =>
            manager'[c] \in Clients /\ Created(manager[c])' /\ home'[manager'[c]] = home'[c]
      BY <1>1 DEF Inv, Sharing, ManagersKeepHome
    <2>2. \A a \in Addresses : registry'[a] # None =>
            Created(registry[a])' /\ home'[registry'[a]] = a
      BY <1>1 DEF Inv, TypeOK, Sharing, ManagersKeepHome
    <2> QED BY <2>1, <2>2 DEF ManagersKeepHome
  <1>4. RegisteredIsUsed'
    BY DEF Inv, Sharing, RegisteredIsUsed
  <1>5. UnloadedIsUnregistered'
    BY DEF Inv, Sharing, UnloadedIsUnregistered
  <1>6. IsolatedGenerations'
    BY DEF Inv, Sharing, IsolatedGenerations, Active, Manager
  <1> QED BY <1>2, <1>3, <1>4, <1>5, <1>6 DEF Sharing

\* A task at work goes on.
LEMMA GoesInv ==
    ASSUME Inv, NEW t \in Task, NEW where \in PCs \ {"idle", "done"},
           NEW s \in Sockets \cup {None}, Goes(t, where, s),
           t # Poll => Active(t), t = Poll => phase \in Polling,
           writer' \in [Clients -> Sockets \cup {None}],
           accepted' \in [Addresses -> Seq(Sockets)],
           faults' \in 0..MaxFaults
    PROVE  Inv'
  <1>1. /\ pc' \in [Task -> PCs]
        /\ pc'[t] = where
        /\ \A u \in Task : u # t => pc'[u] = pc[u]
        /\ sock' \in [Task -> Sockets \cup {None}]
    BY DEF Inv, TypeOK, Goes
  <1>2. UNCHANGED <<phase, address, setups, left, home, manager, registry, of>>
    BY DEF Goes, entryVars, clientVars
  <1>3. TypeOK'
    BY <1>1, <1>2 DEF Inv, TypeOK
  <1>4. PollIsCurrent'
    BY <1>1, <1>2, Names DEF Inv, PollIsCurrent
  <1>5. \A u \in Calls \cup Flows : u \in Task /\ u # Poll
    BY Names
  <1>6. \A f \in Flows : /\ (pc'[f] = "idle") <=> (pc[f] = "idle")
                         /\ Active(f) => Active(f)'
    BY <1>1, <1>5 DEF Active
  <1>7. \A k \in Calls : Active(k)' => Active(k)
    BY <1>1, <1>5 DEF Active
  <1>8. Sharing'
    BY <1>2, <1>6, <1>7, QuietSharing
  <1> QED BY <1>3, <1>4, <1>8 DEF Inv

\* A request ends.
LEMMA FinishInv ==
    ASSUME Inv, NEW t \in Task, NEW ok \in BOOLEAN, Finish(t, ok),
           t # Poll => Active(t), t = Poll => phase \in Polling,
           writer' \in [Clients -> Sockets \cup {None}],
           accepted' \in [Addresses -> Seq(Sockets)],
           faults' \in 0..MaxFaults
    PROVE  Inv'
  <1> DEFINE where == IF t \in Flows THEN "closing" ELSE IF t = Poll THEN "idle" ELSE "done"
  <1>1. /\ pc' \in [Task -> PCs]
        /\ pc'[t] = where
        /\ \A u \in Task : u # t => pc'[u] = pc[u]
    BY DEF Inv, TypeOK, Finish, PCs
  <1>2. sock' \in [Task -> Sockets \cup {None}]
    BY DEF Inv, TypeOK, Finish
  <1>3. UNCHANGED <<address, setups, left, home, manager, registry, of>>
    BY DEF Finish, clientVars
  <1>4. /\ phase' \in Phases
        /\ phase = phase' \/ (phase = "refreshing" /\ phase' \in {"loaded", "retry"} /\ t = Poll)
    BY DEF Inv, TypeOK, Finish, Phases
  <1>5. TypeOK'
    BY <1>1, <1>2, <1>3, <1>4 DEF Inv, TypeOK
  <1>6. PollIsCurrent'
    BY <1>1, <1>3, <1>4, Names DEF Inv, PollIsCurrent, Polling
  <1>7. \A u \in Calls \cup Flows : u \in Task /\ u # Poll
    BY Names
  <1>8. \A f \in Flows : /\ (pc'[f] = "idle") <=> (pc[f] = "idle")
                         /\ Active(f) => Active(f)'
    BY <1>1, <1>7 DEF Active
  <1>9. \A k \in Calls : Active(k)' => Active(k)
    BY <1>1, <1>7 DEF Active
  <1>10. /\ (phase' = "absent") <=> (phase = "absent")
         /\ phase' \in SettingUp => phase \in SettingUp
    BY <1>4 DEF SettingUp
  <1>11. Sharing'
    BY <1>3, <1>8, <1>9, <1>10, QuietSharing
  <1> QED BY <1>5, <1>6, <1>11 DEF Inv

\* Every step of a request.
LEMMA RequestInv ==
    ASSUME Inv, NEW t \in Task, Request(t)
    PROVE  Inv'
  <1> USE DEF Inv
  <1>0. /\ writer \in [Clients -> Sockets \cup {None}]
        /\ accepted \in [Addresses -> Seq(Sockets)]
        /\ faults \in 0..MaxFaults
        /\ sock \in [Task -> Sockets \cup {None}]
        /\ {"connecting", "reading", "cooling", "reconnecting"} \subseteq PCs \ {"idle", "done"}
        /\ None \in Sockets \cup {None}
    BY DEF TypeOK, PCs, Requesting, Locking
  <1>1. /\ Turn(t) => (t # Poll => Active(t)) /\ (t = Poll => phase \in Polling)
        /\ pc[t] \in Requesting => (t # Poll => Active(t)) /\ (t = Poll => phase \in Polling)
    BY DEF Turn, Active, Requesting, Locking, PollIsCurrent
  <1>2. CASE Begin(t)
    BY <1>0, <1>1, <1>2, GoesInv DEF Begin
  <1>3. CASE BeginReading(t)
    <2>1. Manager(t) \in Clients
      BY <1>1, <1>3, ManagerType DEF BeginReading
    <2>2. writer[Manager(t)] \in Sockets \cup {None}
      BY <1>0, <2>1
    <2>3. UNCHANGED <<writer, accepted, faults>>
      BY <1>3 DEF BeginReading
    <2>4. CASE Finish(t, FALSE)
      BY <1>0, <1>1, <1>3, <2>3, <2>4, FinishInv DEF BeginReading
    <2>5. CASE Goes(t, "reading", writer[Manager(t)])
      BY <1>0, <1>1, <1>3, <2>2, <2>3, <2>5, GoesInv DEF BeginReading
    <2> QED BY <1>3, <2>4, <2>5 DEF BeginReading
  <1>4. CASE Connected(t)
    <2>1. PICK s \in Sockets : Opens(Manager(t), Address(t), s) /\ Goes(t, "reading", s)
      BY <1>4 DEF Connected
    <2>2. /\ accepted' \in [Addresses -> Seq(Sockets)]
          /\ writer' \in [Clients -> Sockets \cup {None}]
      BY <2>1, OpensType
    <2>3. pc[t] \in Requesting /\ faults' = faults
      BY <1>4 DEF Connected, Requesting, Locking
    <2> QED BY <1>0, <1>1, <2>1, <2>2, <2>3, GoesInv
  <1>5. CASE ConnectFails(t)
    <2>1. faults' \in 0..MaxFaults
      BY <1>5, FaultType DEF ConnectFails
    <2>2. pc[t] \in Requesting /\ Goes(t, "cooling", None) /\ UNCHANGED <<writer, accepted>>
      BY <1>5 DEF ConnectFails, Requesting, Locking
    <2> QED BY <1>0, <1>1, <2>1, <2>2, GoesInv
  <1>6. CASE Answered(t)
    <2>1. pc[t] \in Requesting /\ Finish(t, TRUE) /\ UNCHANGED <<writer, accepted, faults>>
      BY <1>6 DEF Answered, Requesting
    <2> QED BY <1>0, <1>1, <2>1, FinishInv
  <1>7. CASE Silent(t)
    <2>1. pc[t] \in Requesting /\ Finish(t, FALSE)
      BY <1>7 DEF Silent, Requesting
    <2>2. faults' \in 0..MaxFaults
      BY <1>0, <1>7, FaultType DEF Silent
    <2>3. /\ accepted' \in [Addresses -> Seq(Sockets)]
          /\ writer' \in [Clients -> Sockets \cup {None}]
      BY <1>0, <1>7, CloseType DEF Silent
    <2> QED BY <1>1, <2>1, <2>2, <2>3, FinishInv
  <1>8. CASE EndOfStream(t)
    <2>1. pc[t] \in Requesting /\ Goes(t, "cooling", None) /\ UNCHANGED <<writer, accepted, faults>>
      BY <1>8 DEF EndOfStream, Requesting
    <2> QED BY <1>0, <1>1, <2>1, GoesInv
  <1>9. CASE Reconnect(t)
    <2>1. pc[t] \in Requesting /\ Goes(t, "reconnecting", None) /\ faults' = faults
      BY <1>9 DEF Reconnect, Requesting
    <2>2. /\ accepted' \in [Addresses -> Seq(Sockets)]
          /\ writer' \in [Clients -> Sockets \cup {None}]
      BY <1>9, CloseType DEF Reconnect
    <2> QED BY <1>0, <1>1, <2>1, <2>2, GoesInv
  <1>10. CASE Reconnected(t)
    <2>1. PICK s \in Sockets : Opens(Manager(t), Address(t), s)
      BY <1>10 DEF Reconnected
    <2>2. /\ accepted' \in [Addresses -> Seq(Sockets)]
          /\ writer' \in [Clients -> Sockets \cup {None}]
      BY <2>1, OpensType
    <2>3. pc[t] \in Requesting /\ Finish(t, FALSE) /\ faults' = faults
      BY <1>10 DEF Reconnected, Requesting, Locking
    <2> QED BY <1>0, <1>1, <2>2, <2>3, FinishInv
  <1>11. CASE ReconnectFails(t)
    <2>1. faults' \in 0..MaxFaults
      BY <1>11, FaultType DEF ReconnectFails
    <2>2. pc[t] \in Requesting /\ Finish(t, FALSE) /\ UNCHANGED <<writer, accepted>>
      BY <1>11 DEF ReconnectFails, Requesting, Locking
    <2> QED BY <1>0, <1>1, <2>1, <2>2, FinishInv
  <1> HIDE DEF Inv
  <1> QED BY <1>2, <1>3, <1>4, <1>5, <1>6, <1>7, <1>8, <1>9, <1>10, <1>11 DEF Request, ReadEnds, Inv

\* The steps of the entry that keep its generation.
LEMMA EntryQuietInv ==
    ASSUME Inv,
           SetUpConnected \/ SetUpFails \/ Disconnect \/ \E a \in Addresses : Update(a)
    PROVE  Inv'
  <1>1. UNCHANGED <<setups, home, manager, registry, left, pc, sock>>
    BY DEF SetUpConnected, SetUpFails, Disconnect, Update, clientVars, taskVars
  <1>2. \A u \in Calls \cup Flows : of'[u] = of[u]
    BY Names DEF Inv, TypeOK, SetUpConnected, SetUpFails, Disconnect, Update, taskVars
  <1>3. /\ (phase' = "absent") <=> (phase = "absent")
        /\ phase' \in SettingUp => phase \in SettingUp
    BY DEF SetUpConnected, SetUpFails, Disconnect, Update, SettingUp
  <1>4. Sharing'
    BY <1>1, <1>2, <1>3, QuietSharing DEF Active
  <1>5. setups \in 0..MaxSetups /\ MaxSetups \in Nat
    BY BoundsAssumption DEF Inv, TypeOK
  <1>6. CASE SetUpConnected
    <2>1. PICK s \in Sockets : Opens(manager[setups], home[setups], s)
      BY <1>6 DEF SetUpConnected
    <2>2. /\ accepted' \in [Addresses -> Seq(Sockets)]
          /\ writer' \in [Clients -> Sockets \cup {None}]
      BY <2>1, OpensType DEF Inv
    <2>3. setups \in Clients
      <3>1. setups # 0
        BY <1>6 DEF Inv, PollIsCurrent, SetUpConnected
      <3>2. setups \in 1..MaxSetups
        BY <1>5, <3>1
      <3> QED BY <3>2, Names
    <2>4. of' \in [Task -> Clients \cup {None}] /\ of'[Poll] = setups
      BY <1>6, <2>3, Names DEF Inv, TypeOK, SetUpConnected
    <2>5. TypeOK'
      BY <1>1, <1>6, <2>2, <2>4 DEF Inv, TypeOK, SetUpConnected, Phases
    <2>6. PollIsCurrent'
      BY <1>1, <1>6, <2>4 DEF Inv, PollIsCurrent, SetUpConnected, Polling
    <2> QED BY <1>4, <2>5, <2>6 DEF Inv
  <1>7. CASE SetUpFails
    <2>1. faults' \in 0..MaxFaults
      BY <1>7, FaultType DEF Inv, SetUpFails
    <2>2. TypeOK'
      BY <1>1, <1>7, <2>1 DEF Inv, TypeOK, SetUpFails, Phases, taskVars
    <2>3. PollIsCurrent'
      BY <1>1, <1>7 DEF Inv, PollIsCurrent, SetUpFails, Polling
    <2> QED BY <1>4, <2>2, <2>3 DEF Inv
  <1>8. CASE Disconnect
    <2>1. /\ accepted' \in [Addresses -> Seq(Sockets)]
          /\ writer' \in [Clients -> Sockets \cup {None}]
      BY <1>8, CloseType DEF Inv, Disconnect
    <2>2. TypeOK'
      BY <1>1, <1>8, <2>1 DEF Inv, TypeOK, Disconnect, Phases, taskVars
    <2>3. PollIsCurrent'
      BY <1>1, <1>8 DEF Inv, PollIsCurrent, Disconnect, Polling, taskVars
    <2> QED BY <1>4, <2>2, <2>3 DEF Inv
  <1>9. CASE \E a \in Addresses : Update(a)
    <2>1. TypeOK'
      BY <1>1, <1>9 DEF Inv, TypeOK, Update, taskVars
    <2>2. PollIsCurrent'
      BY <1>1, <1>9 DEF Inv, PollIsCurrent, Update, taskVars
    <2> QED BY <1>4, <2>1, <2>2 DEF Inv
  <1> QED BY <1>6, <1>7, <1>8, <1>9

\* The device and the garbage collector touch connections only.
LEMMA ConnectionInv ==
    ASSUME Inv, NEW s \in Sockets, DeviceCloses(s) \/ Collect(s)
    PROVE  Inv'
  <1>1. UNCHANGED <<phase, address, setups, left, home, manager, registry, pc, of, sock>>
    BY DEF DeviceCloses, Collect, entryVars, clientVars, taskVars
  <1>2. accepted' \in [Addresses -> Seq(Sockets)]
    BY ShutType DEF Inv, DeviceCloses, Collect
  <1>3. writer' \in [Clients -> Sockets \cup {None}]
    BY DEF Inv, TypeOK, DeviceCloses, Collect
  <1>4. faults' \in 0..MaxFaults
    BY FaultType DEF Inv, TypeOK, DeviceCloses, Collect
  <1>5. TypeOK' /\ PollIsCurrent'
    BY <1>1, <1>2, <1>3, <1>4 DEF Inv, TypeOK, PollIsCurrent
  <1>6. Sharing'
    BY <1>1, QuietSharing DEF Active
  <1> QED BY <1>5, <1>6 DEF Inv

-----------------------------------------------------------------------------
(* Steps that create or end a client. *)

\* A call begins with the current client, which is loaded.
LEMMA CallStartsInv ==
    ASSUME Inv, NEW k \in Calls, CallStarts(k)
    PROVE  Inv'
  <1>1. UNCHANGED <<phase, address, setups, left, home, manager, registry, sock, writer,
                    accepted, faults>>
    BY DEF CallStarts, entryVars, clientVars
  <1>2. /\ phase = "loaded" /\ setups \in 1..setups /\ setups \in Clients
        /\ \A f \in Flows : f \in Task /\ f # k
        /\ \A j \in Calls : j \in Task
        /\ Poll # k /\ Poll \in Task /\ k \in Task
    <2>1. setups # 0 /\ setups \in 0..MaxSetups /\ MaxSetups \in Nat /\ phase = "loaded"
      BY BoundsAssumption DEF Inv, TypeOK, PollIsCurrent, CallStarts
    <2>2. setups \in 1..setups /\ setups \in 1..MaxSetups
      BY <2>1
    <2> QED BY <2>1, <2>2, Names
  <1>3. /\ pc' \in [Task -> PCs] /\ pc'[k] = "waiting"
        /\ of' \in [Task -> Clients \cup {None}] /\ of'[k] = setups
        /\ \A u \in Task : u # k => pc'[u] = pc[u] /\ of'[u] = of[u]
    BY <1>2 DEF Inv, TypeOK, CallStarts, PCs
  <1>4. TypeOK' /\ PollIsCurrent'
    BY <1>1, <1>2, <1>3 DEF Inv, TypeOK, PollIsCurrent
  <1>5. \A c \in Clients : Created(c)' <=> Created(c)
    BY <1>1, <1>2, <1>3 DEF Created
  <1>6. \A j \in Calls : Active(j)' => j = k \/ Active(j)
    BY <1>2, <1>3 DEF Active
  <1>7. \A f \in Flows : Active(f)' <=> Active(f)
    BY <1>2, <1>3 DEF Active
  <1>8. ClientOfTask'
    BY <1>1, <1>2, <1>3, <1>6 DEF Inv, Sharing, ClientOfTask, SettingUp
  <1>9. ManagersKeepHome'
    <2>1. \A c \in Clients : Created(c)' =>
            manager'[c] \in Clients /\ Created(manager[c])' /\ home'[manager'[c]] = home'[c]
      BY <1>1, <1>5 DEF Inv, Sharing, ManagersKeepHome
    <2>2. \A a \in Addresses : registry'[a] # None =>
            Created(registry[a])' /\ home'[registry'[a]] = a
      BY <1>1, <1>5 DEF Inv, TypeOK, Sharing, ManagersKeepHome
    <2> QED BY <1>1, <2>1, <2>2 DEF ManagersKeepHome
  <1>10. RegisteredIsUsed'
    BY <1>1, <1>7 DEF Inv, Sharing, RegisteredIsUsed
  <1>11. UnloadedIsUnregistered'
    BY <1>1, <1>2, <1>3, <1>6 DEF Inv, Sharing, UnloadedIsUnregistered
  <1>12. IsolatedGenerations'
    BY <1>1, <1>2, <1>3, <1>6 DEF Inv, Sharing, IsolatedGenerations, Active, Manager
  <1> QED BY <1>4, <1>8, <1>9, <1>10, <1>11, <1>12 DEF Inv, Sharing

\* What a new client gets: the manager registered at its address, or a new one.
LEMMA GetInstanceFacts ==
    ASSUME Inv, NEW c \in Clients, ~Created(c), NEW a \in Addresses, GetInstance(c, a)
    PROVE  /\ home' \in [Clients -> Addresses] /\ home'[c] = a
           /\ registry' \in [Addresses -> Clients \cup {None}]
           /\ manager' \in [Clients -> Clients \cup {None}]
           /\ manager'[c] = registry'[a] /\ registry'[a] \in Clients
           /\ registry'[a] = c \/ (registry'[a] = registry[a] /\ registry[a] # None)
           /\ \A b \in Addresses : b # a => registry'[b] = registry[b]
           /\ \A d \in Clients : d # c => home'[d] = home[d] /\ manager'[d] = manager[d]
           /\ \A d \in Clients : Created(d) => d # c /\ manager[d] # c
           /\ \A b \in Addresses : registry[b] # c
  <1>1. c # None
    BY Names
  <1>2. \A d \in Clients : Created(d) => d # c /\ manager[d] # c
    BY DEF Inv, Sharing, ManagersKeepHome
  <1>3. \A b \in Addresses : registry[b] # c
    BY <1>1 DEF Inv, Sharing, ManagersKeepHome
  <1> QED BY <1>1, <1>2, <1>3 DEF Inv, TypeOK, GetInstance

\* A new client, of a setup or of a probe, finds a manager of its address.
LEMMA NewClientManagers ==
    ASSUME Inv, NEW c \in Clients, ~Created(c), NEW a \in Addresses, GetInstance(c, a),
           \A d \in Clients : Created(d)' <=> Created(d) \/ d = c
    PROVE  ManagersKeepHome'
  <1>1. ASSUME NEW d \in Clients, Created(d)'
        PROVE  /\ manager'[d] \in Clients
               /\ Created(manager[d])'
               /\ home'[manager'[d]] = home'[d]
    <2>1. CASE d = c
      <3>1. manager'[d] \in Clients /\ manager'[d] = registry'[a] /\ home'[d] = a
        BY <2>1, GetInstanceFacts
      <3>2. CASE registry'[a] = c
        BY <2>1, <3>1, <3>2
      <3>3. CASE registry'[a] = registry[a] /\ registry[a] # None
        <4>1. Created(registry[a]) /\ home[registry[a]] = a
          BY <3>3 DEF Inv, Sharing, ManagersKeepHome
        <4>2. registry[a] # c
          BY <4>1
        <4> QED BY <3>1, <3>3, <4>1, <4>2, GetInstanceFacts
      <3> QED BY <3>2, <3>3, GetInstanceFacts
    <2>2. CASE d # c
      <3>1. Created(d)
        BY <1>1, <2>2
      <3>2. manager[d] \in Clients /\ Created(manager[d]) /\ home[manager[d]] = home[d]
        BY <3>1 DEF Inv, Sharing, ManagersKeepHome
      <3>3. manager'[d] = manager[d] /\ manager[d] # c /\ home'[d] = home[d]
        BY <2>2, <3>1, GetInstanceFacts
      <3>4. home'[manager[d]] = home[manager[d]]
        BY <3>2, <3>3, GetInstanceFacts
      <3> QED BY <3>2, <3>3, <3>4
    <2> QED BY <2>1, <2>2
  <1>2. ASSUME NEW b \in Addresses, registry'[b] # None
        PROVE  Created(registry[b])' /\ home'[registry'[b]] = b
    <2>1. CASE registry'[b] = c
      <3>1. b = a
        BY <2>1, GetInstanceFacts
      <3> QED BY <2>1, <3>1, GetInstanceFacts
    <2>2. CASE registry'[b] # c
      <3>1. registry'[b] = registry[b] /\ registry[b] # None
        BY <1>2, <2>2, GetInstanceFacts
      <3>2. registry[b] \in Clients /\ Created(registry[b]) /\ home[registry[b]] = b
        BY <3>1 DEF Inv, TypeOK, Sharing, ManagersKeepHome
      <3>3. home'[registry[b]] = home[registry[b]]
        BY <2>2, <3>1, <3>2, GetInstanceFacts
      <3> QED BY <3>1, <3>2, <3>3
    <2> QED BY <2>1, <2>2
  <1> QED BY <1>1, <1>2 DEF ManagersKeepHome

\* The manager a new client gets is not one whose generation was unloaded.
LEMMA NewClientUnregistered ==
    ASSUME Inv, NEW c \in Clients, ~Created(c), NEW a \in Addresses, GetInstance(c, a),
           NEW d \in Clients, Created(d),
           \A b \in Addresses : registry[b] # manager[d]
    PROVE  /\ \A b \in Addresses : registry'[b] # manager'[d]
           /\ manager'[d] # manager'[c]
  BY GetInstanceFacts

\* The client of a call is that of a setup.
LEMMA CallClient ==
    ASSUME Inv, NEW k \in Calls, Active(k)
    PROVE  of[k] \in 1..setups /\ of[k] \in Clients /\ Created(of[k])
  <1>1. of[k] \in 1..setups /\ setups \in 0..MaxSetups /\ MaxSetups \in Nat
    BY BoundsAssumption DEF Inv, TypeOK, Sharing, ClientOfTask
  <1>2. of[k] \in 1..MaxSetups
    BY <1>1
  <1> QED BY <1>1, <1>2, Names DEF Created

LEMMA ProbeStartsInv ==
    ASSUME Inv, NEW f \in Flows, NEW a \in Addresses, ProbeStarts(f, a)
    PROVE  Inv'
  <1>1. /\ UNCHANGED <<phase, address, setups, left, of, sock, writer, accepted, faults>>
        /\ GetInstance(f, a)
        /\ pc[f] = "idle"
    BY DEF ProbeStarts, entryVars
  <1>2. /\ f \in Clients /\ ~Created(f) /\ f \in Task /\ f # Poll /\ Poll \in Task
        /\ \A k \in Calls : k \in Task /\ k # f
        /\ \A g \in Flows : g \in Task /\ g \in Clients
        /\ phase # "absent" => setups \in Clients /\ setups # f /\ Created(setups)
    <2>1. setups \in 0..MaxSetups /\ MaxSetups \in Nat
      BY BoundsAssumption DEF Inv, TypeOK
    <2>2. setups # 0 => setups \in 1..MaxSetups /\ setups \in 1..setups
      BY <2>1
    <2>3. ~(f \in 1..setups)
      <3>1. \A n \in 1..setups : n \in 1..MaxSetups
        BY <2>1
      <3> QED BY <3>1, Names
    <2> QED BY <1>1, <2>2, <2>3, Names DEF Created, Inv, PollIsCurrent
  <1>3. /\ pc' \in [Task -> PCs] /\ pc'[f] = "dialing"
        /\ \A u \in Task : u # f => pc'[u] = pc[u]
    BY <1>2 DEF Inv, TypeOK, ProbeStarts, PCs
  <1>4. TypeOK' /\ PollIsCurrent'
    BY <1>1, <1>2, <1>3, GetInstanceFacts DEF Inv, TypeOK, PollIsCurrent
  <1>5. \A d \in Clients : Created(d)' <=> Created(d) \/ d = f
    BY <1>1, <1>2, <1>3 DEF Created
  <1>6. ManagersKeepHome'
    BY <1>1, <1>2, <1>5, NewClientManagers
  <1>7. \A k \in Calls : Active(k)' <=> Active(k)
    BY <1>2, <1>3 DEF Active
  <1>8. ClientOfTask'
    BY <1>1, <1>7 DEF Inv, Sharing, ClientOfTask
  <1>9. RegisteredIsUsed'
    <2> SUFFICES ASSUME NEW b \in Addresses, registry'[b] # None
                 PROVE  \/ b \in left
                        \/ phase # "absent" /\ home'[setups] = b
                        \/ \E g \in Flows : Active(g)' /\ home'[g] = b
      BY <1>1 DEF RegisteredIsUsed
    <2>1. CASE b = a
      BY <1>1, <1>2, <1>3, <2>1, GetInstanceFacts DEF Active
    <2>2. CASE b # a
      <3>1. registry[b] # None
        BY <1>1, <1>2, <2>2, GetInstanceFacts
      <3>2. \A d \in Clients : d # f => home'[d] = home[d]
        BY <1>1, <1>2, GetInstanceFacts
      <3>3. \A g \in Flows : Active(g) => g # f /\ Active(g)'
        BY <1>1, <1>2, <1>3 DEF Active
      <3> QED BY <1>2, <3>1, <3>2, <3>3 DEF Inv, Sharing, RegisteredIsUsed
    <2> QED BY <2>1, <2>2
  <1>10. ASSUME NEW k \in Calls, Active(k)
         PROVE  /\ of[k] # f /\ of[k] \in Clients /\ Created(of[k])
                /\ home'[of[k]] = home[of[k]] /\ manager'[of[k]] = manager[of[k]]
    BY <1>1, <1>2, <1>10, CallClient, GetInstanceFacts
  <1>11. UnloadedIsUnregistered'
    <2> SUFFICES ASSUME NEW k \in Calls, Active(k), of[k] # setups \/ phase = "absent",
                        home[of[k]] \notin left
                 PROVE  \A b \in Addresses : registry'[b] # manager'[of[k]]
      BY <1>1, <1>7, <1>10 DEF UnloadedIsUnregistered
    <2>1. \A b \in Addresses : registry[b] # manager[of[k]]
      BY DEF Inv, Sharing, UnloadedIsUnregistered
    <2> QED BY <1>1, <1>2, <1>10, <2>1, NewClientUnregistered
  <1>12. IsolatedGenerations'
    <2>1. phase # "absent" => manager'[setups] = manager[setups]
      BY <1>1, <1>2, GetInstanceFacts
    <2> QED BY <1>1, <1>7, <1>10, <2>1 DEF Inv, Sharing, IsolatedGenerations, Active, Manager
  <1> QED BY <1>4, <1>6, <1>8, <1>9, <1>11, <1>12 DEF Inv, Sharing

LEMMA ProbeEndsInv ==
    ASSUME Inv, NEW f \in Flows, ProbeEnds(f)
    PROVE  Inv'
  <1>1. /\ UNCHANGED <<phase, address, setups, left, home, manager, of, sock, writer,
                       accepted, faults>>
        /\ RemoveInstance(home[f])
        /\ pc[f] = "ending"
    BY DEF ProbeEnds, entryVars, Address, Inv, Sharing, ClientOfTask
  <1>2. /\ f \in Task /\ f \in Clients /\ f # Poll /\ Poll \in Task
        /\ \A k \in Calls : k \in Task /\ k # f
        /\ \A g \in Flows : g \in Task
    BY Names
  <1>3. /\ pc' \in [Task -> PCs] /\ pc'[f] = "done"
        /\ \A u \in Task : u # f => pc'[u] = pc[u]
    BY <1>2 DEF Inv, TypeOK, ProbeEnds, PCs
  <1>4. /\ registry' \in [Addresses -> Clients \cup {None}]
        /\ registry'[home[f]] = None
        /\ \A b \in Addresses : registry'[b] \in {registry[b], None}
    BY <1>1, <1>2 DEF Inv, TypeOK, RemoveInstance
  <1>5. TypeOK' /\ PollIsCurrent'
    BY <1>1, <1>2, <1>3, <1>4 DEF Inv, TypeOK, PollIsCurrent
  <1>6. \A d \in Clients : Created(d)' <=> Created(d)
    BY <1>1, <1>2, <1>3 DEF Created
  <1>7. \A k \in Calls : Active(k)' <=> Active(k)
    BY <1>2, <1>3 DEF Active
  <1>8. ClientOfTask'
    BY <1>1, <1>7 DEF Inv, Sharing, ClientOfTask
  <1>9. ManagersKeepHome'
    <2>1. \A d \in Clients : Created(d)' =>
            manager'[d] \in Clients /\ Created(manager[d])' /\ home'[manager'[d]] = home'[d]
      BY <1>1, <1>6 DEF Inv, Sharing, ManagersKeepHome
    <2>2. ASSUME NEW b \in Addresses, registry'[b] # None
          PROVE  Created(registry[b])' /\ home'[registry'[b]] = b
      <3>1. registry'[b] = registry[b] /\ registry[b] # None
        BY <1>4, <2>2
      <3>2. registry[b] \in Clients /\ Created(registry[b]) /\ home[registry[b]] = b
        BY <3>1 DEF Inv, TypeOK, Sharing, ManagersKeepHome
      <3> QED BY <1>1, <1>6, <3>1, <3>2
    <2> QED BY <1>1, <2>1, <2>2 DEF ManagersKeepHome
  <1>10. RegisteredIsUsed'
    <2> SUFFICES ASSUME NEW b \in Addresses, registry'[b] # None
                 PROVE  \/ b \in left
                        \/ phase # "absent" /\ home[setups] = b
                        \/ \E g \in Flows : Active(g)' /\ home[g] = b
      BY <1>1 DEF RegisteredIsUsed
    <2>1. registry[b] # None /\ b # home[f]
      BY <1>4
    <2>2. \A g \in Flows : Active(g) /\ g # f => Active(g)'
      BY <1>2, <1>3 DEF Active
    <2> QED BY <2>1, <2>2 DEF Inv, Sharing, RegisteredIsUsed
  <1>11. UnloadedIsUnregistered'
    <2> SUFFICES ASSUME NEW k \in Calls, Active(k), of[k] # setups \/ phase = "absent",
                        home[of[k]] \notin left, NEW b \in Addresses
                 PROVE  registry'[b] # manager[of[k]]
      BY <1>1, <1>7 DEF UnloadedIsUnregistered
    <2>1. registry[b] # manager[of[k]]
      BY DEF Inv, Sharing, UnloadedIsUnregistered
    <2>2. manager[of[k]] \in Clients
      BY CallClient DEF Inv, Sharing, ManagersKeepHome
    <2> QED BY <1>4, <2>1, <2>2, Names
  <1>12. IsolatedGenerations'
    BY <1>1, <1>7 DEF Inv, Sharing, IsolatedGenerations, Active, Manager
  <1> QED BY <1>5, <1>8, <1>9, <1>10, <1>11, <1>12 DEF Inv, Sharing

\* A setup: a new generation begins, the one before it becomes a past one.
LEMMA SetUpInv ==
    ASSUME Inv, Retry \/ \E a \in Addresses : Add(a)
    PROVE  Inv'
  <1> DEFINE c == setups + 1
  <1>1. PICK a \in Addresses :
            /\ SetUp(a)
            /\ left' \in SUBSET Addresses /\ left \subseteq left'
            /\ phase \in {"absent", "retry"}
            /\ phase = "retry" => home[setups] = a \/ home[setups] \in left'
    <2>1. CASE Retry
      <3>1. setups \in Clients
        <4>1. setups # 0 /\ setups \in 0..MaxSetups /\ MaxSetups \in Nat
          BY <2>1, BoundsAssumption DEF Inv, TypeOK, PollIsCurrent, Retry
        <4>2. setups \in 1..MaxSetups
          BY <4>1
        <4> QED BY <4>2, Names
      <3> QED BY <2>1, <3>1 DEF Retry, Inv, TypeOK
    <2>2. CASE \E a \in Addresses : Add(a)
      BY <2>2 DEF Add, Inv, TypeOK
    <2> QED BY <2>1, <2>2
  <1>2. /\ UNCHANGED <<pc, of, sock, writer, accepted, faults>>
        /\ setups' = c /\ phase' = "connecting" /\ address' = a /\ setups < MaxSetups
        /\ GetInstance(c, a)
    BY <1>1 DEF SetUp, taskVars
  <1>3. /\ setups \in Nat /\ c \in 0..MaxSetups /\ c \in 1..MaxSetups /\ c # 0
        /\ \A n : n \in 1..c <=> n \in 1..setups \/ n = c
        /\ ~(c \in 1..setups)
    BY <1>2, BoundsAssumption DEF Inv, TypeOK
  <1> HIDE DEF c
  <1>4. c \in Clients /\ c \notin Flows /\ ~Created(c)
    BY <1>3, Names DEF Created
  <1>5. TypeOK'
    BY <1>1, <1>2, <1>3, <1>4, GetInstanceFacts DEF Inv, TypeOK, Phases
  <1>6. pc[Poll] = "idle"
    BY <1>1 DEF Inv, PollIsCurrent, Polling
  <1>7. PollIsCurrent'
    BY <1>2, <1>3, <1>6 DEF PollIsCurrent, Polling
  <1>8. \A d \in Clients : Created(d)' <=> Created(d) \/ d = c
    BY <1>2, <1>3 DEF Created
  <1>9. ManagersKeepHome'
    BY <1>2, <1>4, <1>8, NewClientManagers
  <1>10. ASSUME NEW k \in Calls, Active(k)
         PROVE  /\ of[k] \in 1..setups /\ of[k] # c /\ of[k] \in Clients /\ Created(of[k])
                /\ home'[of[k]] = home[of[k]] /\ manager'[of[k]] = manager[of[k]]
                /\ of[k] # setups \/ phase = "absent"
    <2>1. of[k] \in 1..setups /\ of[k] \in Clients /\ Created(of[k]) /\ of[k] # c
      BY <1>4, <1>10, CallClient
    <2>2. of[k] # setups \/ phase = "absent"
      BY <1>1, <1>10 DEF Inv, Sharing, ClientOfTask, SettingUp
    <2> QED BY <1>2, <1>4, <2>1, <2>2, GetInstanceFacts
  <1>11. ClientOfTask'
    BY <1>2, <1>3, <1>10 DEF Inv, Sharing, ClientOfTask, Active
  <1>12. RegisteredIsUsed'
    <2> SUFFICES ASSUME NEW b \in Addresses, registry'[b] # None
                 PROVE  b \in left' \/ home'[c] = b \/ \E g \in Flows : Active(g) /\ home'[g] = b
      BY <1>2 DEF RegisteredIsUsed, Active
    <2>1. CASE b = a
      BY <1>2, <1>4, <2>1, GetInstanceFacts
    <2>2. CASE b # a
      <3>1. registry[b] # None
        BY <1>2, <1>4, <2>2, GetInstanceFacts
      <3>2. \A g \in Flows : home'[g] = home[g]
        BY <1>2, <1>4, Names, GetInstanceFacts
      <3> QED BY <1>1, <2>2, <3>1, <3>2 DEF Inv, Sharing, RegisteredIsUsed
    <2> QED BY <2>1, <2>2
  <1>13. ASSUME NEW k \in Calls, Active(k), home[of[k]] \notin left'
         PROVE  /\ \A b \in Addresses : registry'[b] # manager'[of[k]]
                /\ manager'[of[k]] # manager'[c]
    <2>1. \A b \in Addresses : registry[b] # manager[of[k]]
      BY <1>1, <1>10, <1>13 DEF Inv, Sharing, UnloadedIsUnregistered
    <2> QED BY <1>2, <1>4, <1>10, <1>13, <2>1, NewClientUnregistered
  <1>14. UnloadedIsUnregistered'
    BY <1>2, <1>10, <1>13 DEF UnloadedIsUnregistered, Active
  <1>15. IsolatedGenerations'
    BY <1>2, <1>10, <1>13 DEF IsolatedGenerations, Active, Manager
  <1> QED BY <1>5, <1>7, <1>9, <1>11, <1>12, <1>14, <1>15 DEF Inv, Sharing

LEMMA UnloadEndsInv ==
    ASSUME Inv, UnloadEnds
    PROVE  Inv'
  <1>1. /\ UNCHANGED <<address, setups, home, manager, of, writer, accepted, faults>>
        /\ RemoveInstance(address)
        /\ phase = "disconnected" /\ phase' = "absent"
        /\ left' = left \cup ({home[setups]} \ {address})
    BY DEF UnloadEnds
  <1>2. /\ \A t \in Calls \cup Flows : t \in Task /\ t # Poll
        /\ setups \in Clients /\ Created(setups) /\ setups # 0
    <2>1. setups # 0 /\ setups \in 0..MaxSetups /\ MaxSetups \in Nat
      BY <1>1, BoundsAssumption DEF Inv, TypeOK, PollIsCurrent
    <2>2. setups \in 1..MaxSetups /\ setups \in 1..setups
      BY <2>1
    <2> QED BY <2>1, <2>2, Names DEF Created
  <1>3. /\ pc' \in [Task -> PCs] /\ sock' \in [Task -> Sockets \cup {None}]
        /\ pc'[Poll] = "idle"
        /\ \A t \in Calls \cup Flows : pc'[t] = pc[t]
    BY <1>2, Names DEF Inv, TypeOK, UnloadEnds, PCs
  <1>4. /\ registry' \in [Addresses -> Clients \cup {None}]
        /\ registry'[address] = None
        /\ \A b \in Addresses : registry'[b] \in {registry[b], None}
    BY <1>1 DEF Inv, TypeOK, RemoveInstance
  <1>5. TypeOK' /\ PollIsCurrent'
    BY <1>1, <1>2, <1>3, <1>4 DEF Inv, TypeOK, PollIsCurrent, Phases, Polling
  <1>6. \A d \in Clients : Created(d)' <=> Created(d)
    BY <1>1, <1>2, <1>3 DEF Created
  <1>7. \A t \in Calls \cup Flows : Active(t)' <=> Active(t)
    BY <1>3 DEF Active
  <1>8. ClientOfTask'
    BY <1>1, <1>7 DEF Inv, Sharing, ClientOfTask, SettingUp
  <1>9. ManagersKeepHome'
    <2>1. \A d \in Clients : Created(d)' =>
            manager'[d] \in Clients /\ Created(manager[d])' /\ home'[manager'[d]] = home'[d]
      BY <1>1, <1>6 DEF Inv, Sharing, ManagersKeepHome
    <2>2. ASSUME NEW b \in Addresses, registry'[b] # None
          PROVE  Created(registry[b])' /\ home'[registry'[b]] = b
      <3>1. registry'[b] = registry[b] /\ registry[b] # None
        BY <1>4, <2>2
      <3>2. registry[b] \in Clients /\ Created(registry[b]) /\ home[registry[b]] = b
        BY <3>1 DEF Inv, TypeOK, Sharing, ManagersKeepHome
      <3> QED BY <1>1, <1>6, <3>1, <3>2
    <2> QED BY <1>1, <2>1, <2>2 DEF ManagersKeepHome
  <1>10. RegisteredIsUsed'
    <2> SUFFICES ASSUME NEW b \in Addresses, registry'[b] # None
                 PROVE  b \in left' \/ \E g \in Flows : Active(g)' /\ home[g] = b
      BY <1>1 DEF RegisteredIsUsed
    <2>1. registry[b] # None /\ b # address
      BY <1>4
    <2> QED BY <1>1, <1>7, <2>1 DEF Inv, Sharing, RegisteredIsUsed
  <1>11. UnloadedIsUnregistered'
    <2> SUFFICES ASSUME NEW k \in Calls, Active(k), home[of[k]] \notin left',
                        NEW b \in Addresses
                 PROVE  registry'[b] # manager[of[k]]
      BY <1>1, <1>7 DEF UnloadedIsUnregistered
    <2>1. manager[of[k]] \in Clients /\ home[manager[of[k]]] = home[of[k]]
      BY CallClient DEF Inv, Sharing, ManagersKeepHome
    <2>2. CASE registry'[b] = None
      BY <2>1, <2>2, Names
    <2>3. CASE registry'[b] = registry[b] /\ registry[b] # None
      <3>1. home[registry[b]] = b /\ b # address
        BY <1>4, <2>3 DEF Inv, Sharing, ManagersKeepHome
      <3>2. CASE of[k] = setups
        BY <1>1, <2>1, <2>3, <3>1, <3>2
      <3>3. CASE of[k] # setups
        BY <1>1, <2>3, <3>3 DEF Inv, Sharing, UnloadedIsUnregistered
      <3> QED BY <3>2, <3>3
    <2> QED BY <1>4, <2>2, <2>3
  <1>12. IsolatedGenerations'
    BY <1>1 DEF IsolatedGenerations
  <1> QED BY <1>5, <1>8, <1>9, <1>10, <1>11, <1>12 DEF Inv, Sharing

LEMMA RemoveFailedInv ==
    ASSUME Inv, RemoveFailed
    PROVE  Inv'
  <1>1. /\ UNCHANGED <<address, setups, home, manager, registry, pc, of, sock, writer,
                       accepted, faults>>
        /\ phase = "retry" /\ phase' = "absent"
        /\ left' = left \cup {home[setups]}
    BY DEF RemoveFailed, clientVars, taskVars
  <1>2. setups \in Clients
    <2>1. setups # 0 /\ setups \in 0..MaxSetups /\ MaxSetups \in Nat
      BY <1>1, BoundsAssumption DEF Inv, TypeOK, PollIsCurrent
    <2>2. setups \in 1..MaxSetups
      BY <2>1
    <2> QED BY <2>2, Names
  <1>3. TypeOK' /\ PollIsCurrent'
    BY <1>1, <1>2 DEF Inv, TypeOK, PollIsCurrent, Phases, Polling
  <1>4. \A t \in Task : Active(t)' <=> Active(t)
    BY <1>1 DEF Active
  <1>5. ClientOfTask'
    BY <1>1, <1>4, Names DEF Inv, Sharing, ClientOfTask, SettingUp
  <1>6. ManagersKeepHome'
    BY <1>1 DEF Inv, Sharing, ManagersKeepHome, Created
  <1>7. RegisteredIsUsed'
    BY <1>1, <1>4, Names DEF Inv, Sharing, RegisteredIsUsed
  <1>8. UnloadedIsUnregistered'
    <2> SUFFICES ASSUME NEW k \in Calls, Active(k), home[of[k]] \notin left'
                 PROVE  \A b \in Addresses : registry[b] # manager[of[k]]
      BY <1>1, <1>4, Names DEF UnloadedIsUnregistered
    <2>1. of[k] # setups
      BY <1>1 DEF Inv, Sharing, ClientOfTask, SettingUp
    <2> QED BY <1>1, <2>1 DEF Inv, Sharing, UnloadedIsUnregistered
  <1>9. IsolatedGenerations'
    BY <1>1 DEF IsolatedGenerations
  <1> QED BY <1>3, <1>5, <1>6, <1>7, <1>8, <1>9 DEF Inv, Sharing

-----------------------------------------------------------------------------
(* The whole. *)

LEMMA InvInit == Init => Inv
  <1> SUFFICES ASSUME Init PROVE Inv
    OBVIOUS
  <1>1. \A t \in Task : pc[t] = "idle"
    BY DEF Init
  <1>2. TypeOK
    <2>1. << >> \in Seq(Sockets)
      OBVIOUS
    <2>2. /\ accepted \in [Addresses -> Seq(Sockets)]
          /\ of \in [Task -> Clients \cup {None}]
          /\ 0 \in 0..MaxSetups /\ 0 \in 0..MaxFaults
      BY <2>1, Names, BoundsAssumption DEF Init
    <2> QED BY <2>2 DEF Init, TypeOK, Phases, PCs
  <1>3. PollIsCurrent
    BY <1>1, Names DEF Init, PollIsCurrent, Polling
  <1>4. \A c \in Clients : ~Created(c)
    <2>1. \A n : ~(n \in 1..setups)
      BY DEF Init
    <2> QED BY <1>1, <2>1, Names DEF Created
  <1>5. \A k \in Calls : ~Active(k)
    BY <1>1, Names DEF Active
  <1>6. \A a \in Addresses : registry[a] = None
    BY DEF Init
  <1>7. \A f \in Flows : of[f] = f
    BY Names DEF Init
  <1>8. phase = "absent"
    BY DEF Init
  <1> QED BY <1>2, <1>3, <1>4, <1>5, <1>6, <1>7, <1>8
          DEF Inv, Sharing, ClientOfTask, ManagersKeepHome, RegisteredIsUsed,
              UnloadedIsUnregistered, IsolatedGenerations

LEMMA ProbeInv ==
    ASSUME Inv, NEW f \in Flows, Probe(f)
    PROVE  Inv'
  <1>1. f \in Task /\ f # Poll
    BY Names
  <1>2. /\ writer \in [Clients -> Sockets \cup {None}]
        /\ accepted \in [Addresses -> Seq(Sockets)]
        /\ faults \in 0..MaxFaults
        /\ {"waiting", "closing", "ending"} \subseteq PCs \ {"idle", "done"}
        /\ None \in Sockets \cup {None}
    BY DEF Inv, TypeOK, PCs
  <1>3. CASE ProbeConnected(f)
    <2>1. PICK s \in Sockets : Opens(Manager(f), Address(f), s)
      BY <1>3 DEF ProbeConnected
    <2>2. /\ accepted' \in [Addresses -> Seq(Sockets)]
          /\ writer' \in [Clients -> Sockets \cup {None}]
      BY <2>1, OpensType DEF Inv
    <2>3. Active(f) /\ Goes(f, "waiting", None) /\ faults' = faults
      BY <1>3 DEF ProbeConnected, Active
    <2> QED BY <1>1, <1>2, <2>2, <2>3, GoesInv
  <1>4. CASE ProbeFails(f)
    <2>1. faults' \in 0..MaxFaults
      BY <1>4, FaultType DEF Inv, ProbeFails
    <2>2. Active(f) /\ Goes(f, "closing", None) /\ UNCHANGED <<writer, accepted>>
      BY <1>4 DEF ProbeFails, Active
    <2> QED BY <1>1, <1>2, <2>1, <2>2, GoesInv
  <1>5. CASE ProbeCloses(f)
    <2>1. /\ accepted' \in [Addresses -> Seq(Sockets)]
          /\ writer' \in [Clients -> Sockets \cup {None}]
      BY <1>5, CloseType DEF Inv, ProbeCloses
    <2>2. Active(f) /\ Goes(f, "ending", None) /\ faults' = faults
      BY <1>5 DEF ProbeCloses, Active
    <2> QED BY <1>1, <1>2, <2>1, <2>2, GoesInv
  <1> QED BY <1>3, <1>4, <1>5, ProbeEndsInv DEF Probe

LEMMA InvNext == Inv /\ [Next]_vars => Inv'
  <1> SUFFICES ASSUME Inv, [Next]_vars PROVE Inv'
    OBVIOUS
  <1>1. CASE Entry
    BY <1>1, EntryQuietInv, SetUpInv, UnloadEndsInv, RemoveFailedInv DEF Entry
  <1>2. CASE \E k \in Calls : CallStarts(k)
    BY <1>2, CallStartsInv
  <1>3. CASE \E f \in Flows : Probe(f) \/ \E a \in Addresses : ProbeStarts(f, a)
    BY <1>3, ProbeInv, ProbeStartsInv
  <1>4. CASE \E t \in Task : Request(t)
    BY <1>4, RequestInv
  <1>5. CASE \E s \in Sockets : DeviceCloses(s) \/ Collect(s)
    BY <1>5, ConnectionInv
  <1>6. CASE UNCHANGED vars
    <2>1. UNCHANGED <<phase, address, setups, left, home, manager, registry, pc, of, sock,
                      writer, accepted, faults>>
      BY <1>6 DEF vars, entryVars, clientVars, taskVars
    <2>2. TypeOK' /\ PollIsCurrent'
      BY <2>1 DEF Inv, TypeOK, PollIsCurrent
    <2>3. Sharing'
      BY <2>1, QuietSharing DEF Active
    <2> QED BY <2>2, <2>3 DEF Inv
  <1> QED BY <1>1, <1>2, <1>3, <1>4, <1>5, <1>6 DEF Next

LEMMA Invariance == Spec => []Inv
  BY InvInit, InvNext, PTL DEF Spec

\* Every variable keeps its type.
THEOREM LifecycleTypeCorrect == Spec => []TypeOK
  <1>1. Inv => TypeOK
    BY DEF Inv
  <1> QED BY <1>1, Invariance, PTL

\* However the entry is reloaded, moved, added and removed while probes run, a
\* call of an unloaded generation never shares the manager of a later one
\* (async_unload_entry removes the manager it disconnects).
THEOREM GenerationsIsolated == Spec => []IsolatedGenerations
  <1>1. Inv => IsolatedGenerations
    BY DEF Inv, Sharing
  <1> QED BY <1>1, Invariance, PTL

\* Nothing stays registered once the entry is gone and every probe has ended.
THEOREM NothingLeft == Spec => []NothingLeftBehind
  <1>1. Inv => NothingLeftBehind
    BY DEF Inv, Sharing, RegisteredIsUsed, NothingLeftBehind, Active
  <1> QED BY <1>1, Invariance, PTL

-----------------------------------------------------------------------------
(* Who reads which stream. *)

\* A connection belongs to one manager, a reader to the manager of its client.
StreamOwners ==
    /\ \A u \in Task : sock[u] # None => pc[u] = "reading"
    /\ \A m, n \in Clients : writer[m] = writer[n] /\ writer[m] # None => m = n
    /\ \A u \in Task, m \in Clients : sock[u] # None /\ writer[m] = sock[u] => m = Manager(u)

\* Calls of different generations have different managers.
CallsApart ==
    \A j, k \in Calls :
        Active(j) /\ Active(k) /\ of[j] # of[k] /\ home[of[j]] \notin left
        => Manager(j) # Manager(k)

Streams == StreamOwners /\ CallsApart

\* What a step may do to the connections of the managers: drop some of them,
\* or give one manager a connection that is new.
Rewired ==
    \/ \A m \in Clients : writer'[m] \in {writer[m], None}
    \/ \E n \in Clients, s \in Sockets \ InUse : writer' = [writer EXCEPT ![n] = s]

LEMMA RewiringSteps ==
    ASSUME TypeOK
    PROVE  /\ UNCHANGED writer => Rewired
           /\ \A m : Close(m) => Rewired
           /\ \A m \in Clients : \A a, s : Opens(m, a, s) => Rewired /\ writer'[m] = s
           /\ \A s : Collect(s) => Rewired
  <1>1. ASSUME NEW m, Close(m) PROVE Rewired
    BY <1>1 DEF TypeOK, Close, Rewired
  <1>2. ASSUME NEW m \in Clients, NEW a, NEW s, Opens(m, a, s)
        PROVE  Rewired /\ writer'[m] = s
    BY <1>2 DEF TypeOK, Opens, Rewired
  <1>3. ASSUME NEW s, Collect(s) PROVE Rewired
    BY <1>3 DEF TypeOK, Collect, Rewired
  <1>4. UNCHANGED writer => Rewired
    BY DEF Rewired
  <1> QED BY <1>1, <1>2, <1>3, <1>4

\* A reader goes on with its connection, or begins with that of its manager.
LEMMA OwnersStep ==
    ASSUME TypeOK, StreamOwners, Rewired,
           \A u \in Task : sock'[u] # None =>
            /\ pc'[u] = "reading"
            /\ \/ sock'[u] = sock[u] /\ Manager(u)' = Manager(u)
               \/ sock'[u] = writer'[Manager(u)'] /\ Manager(u)' \in Clients
    PROVE  StreamOwners'
  <1>1. \A m, n \in Clients : writer'[m] = writer'[n] /\ writer'[m] # None => m = n
    <2>1. CASE \A m \in Clients : writer'[m] \in {writer[m], None}
      BY <2>1 DEF StreamOwners
    <2>2. CASE \E n \in Clients, s \in Sockets \ InUse : writer' = [writer EXCEPT ![n] = s]
      <3>1. PICK n \in Clients, s \in Sockets \ InUse : writer' = [writer EXCEPT ![n] = s]
        BY <2>2
      <3>2. \A m \in Clients : writer[m] # s
        BY <3>1 DEF InUse
      <3>3. \A m \in Clients : writer'[m] = IF m = n THEN s ELSE writer[m]
        BY <3>1 DEF TypeOK
      <3> QED BY <3>2, <3>3 DEF StreamOwners
    <2> QED BY <2>1, <2>2 DEF Rewired
  <1>2. ASSUME NEW u \in Task, NEW m \in Clients, sock'[u] # None, writer'[m] = sock'[u]
        PROVE  m = Manager(u)'
    <2>1. CASE sock'[u] = writer'[Manager(u)'] /\ Manager(u)' \in Clients
      BY <1>1, <1>2, <2>1
    <2>2. CASE sock'[u] = sock[u] /\ Manager(u)' = Manager(u)
      <3>1. writer[m] = sock[u]
        <4>1. CASE \A n \in Clients : writer'[n] \in {writer[n], None}
          BY <1>2, <2>2, <4>1
        <4>2. CASE \E n \in Clients, s \in Sockets \ InUse : writer' = [writer EXCEPT ![n] = s]
          <5>1. PICK n \in Clients, s \in Sockets \ InUse : writer' = [writer EXCEPT ![n] = s]
            BY <4>2
          <5>2. sock[u] # s
            BY <5>1 DEF InUse
          <5>3. writer'[m] = IF m = n THEN s ELSE writer[m]
            BY <5>1 DEF TypeOK
          <5> QED BY <1>2, <2>2, <5>2, <5>3
        <4> QED BY <4>1, <4>2 DEF Rewired
      <3> QED BY <1>2, <2>2, <3>1 DEF StreamOwners
    <2> QED BY <1>2, <2>1, <2>2
  <1> QED BY <1>1, <1>2 DEF StreamOwners

\* No call begins.
LEMMA ApartStep ==
    ASSUME Inv, CallsApart, left \subseteq left',
           \A k \in Calls : Active(k)' => Active(k) /\ of'[k] = of[k],
           \A c \in Clients : Created(c) => manager'[c] = manager[c] /\ home'[c] = home[c]
    PROVE  CallsApart'
  <1>1. ASSUME NEW k \in Calls, Active(k)'
        PROVE  /\ Active(k) /\ of'[k] = of[k]
               /\ Manager(k)' = Manager(k) /\ home'[of[k]] = home[of[k]]
    <2>1. Active(k) /\ of'[k] = of[k]
      BY <1>1
    <2>2. of[k] \in Clients /\ Created(of[k])
      BY <2>1, CallClient
    <2>3. manager'[of[k]] = manager[of[k]] /\ home'[of[k]] = home[of[k]]
      BY <2>2
    <2>4. Manager(k)' = manager'[of'[k]] /\ Manager(k) = manager[of[k]]
      BY DEF Manager
    <2> QED BY <2>1, <2>3, <2>4
  <1> QED BY <1>1 DEF CallsApart

\* A step of a request or of a probe, which moves one task.
LEMMA TaskStreams ==
    ASSUME Inv, Streams, NEW t \in Task, t # Poll => Active(t), Rewired,
           UNCHANGED <<left, home, manager, of>>,
           NEW where, pc' = [pc EXCEPT ![t] = where],
           NEW s, sock' = [sock EXCEPT ![t] = s],
           s # None => where = "reading" /\ s = writer'[Manager(t)] /\ Manager(t) \in Clients
    PROVE  Streams'
  <1>1. /\ \A u \in Task : pc'[u] = IF u = t THEN where ELSE pc[u]
        /\ \A u \in Task : sock'[u] = IF u = t THEN s ELSE sock[u]
        /\ \A u \in Task : Manager(u)' = Manager(u)
    BY DEF Inv, TypeOK, Manager
  <1>2. \A u \in Task : sock'[u] # None =>
            /\ pc'[u] = "reading"
            /\ \/ sock'[u] = sock[u] /\ Manager(u)' = Manager(u)
               \/ sock'[u] = writer'[Manager(u)'] /\ Manager(u)' \in Clients
    BY <1>1 DEF Streams, StreamOwners
  <1>3. StreamOwners'
    BY <1>2, OwnersStep DEF Inv, Streams
  <1>4. \A k \in Calls : Active(k)' => Active(k) /\ of'[k] = of[k]
    BY <1>1, Names DEF Active
  <1>5. CallsApart'
    BY <1>4, ApartStep DEF Streams
  <1> QED BY <1>3, <1>5 DEF Streams

\* A step of a request whose connection is its own.
LEMMA RequestStreams ==
    ASSUME Inv, Streams, NEW t \in Task, Request(t)
    PROVE  Streams'
  <1>1. /\ t # Poll => Active(t)
        /\ t = Poll => phase \in Polling
    <2>1. Turn(t) \/ pc[t] \in Requesting
      BY DEF Request, ReadEnds, Begin, BeginReading, Connected, ConnectFails, Answered,
             Silent, EndOfStream, Reconnect, Reconnected, ReconnectFails, Requesting, Locking
    <2> QED BY <2>1 DEF Turn, Active, Requesting, Locking, Inv, PollIsCurrent
  <1>2. Manager(t) \in Clients
    BY <1>1, ManagerType
  <1>3. TypeOK
    BY DEF Inv
  <1>4. ASSUME NEW where, NEW s, Goes(t, where, s), Rewired,
               s # None => where = "reading" /\ s = writer'[Manager(t)]
        PROVE  Streams'
    <2>1. UNCHANGED <<left, home, manager, of>>
      BY <1>4 DEF Goes, entryVars, clientVars
    <2>2. pc' = [pc EXCEPT ![t] = where] /\ sock' = [sock EXCEPT ![t] = s]
      BY <1>4 DEF Goes
    <2> QED BY <1>1, <1>2, <1>4, <2>1, <2>2, TaskStreams
  <1>5. ASSUME NEW ok, Finish(t, ok), Rewired
        PROVE  Streams'
    <2>1. UNCHANGED <<left, home, manager, of>>
      BY <1>5 DEF Finish, clientVars
    <2>2. /\ pc' = [pc EXCEPT ![t] = IF t \in Flows THEN "closing"
                                     ELSE IF t = Poll THEN "idle" ELSE "done"]
          /\ sock' = [sock EXCEPT ![t] = None]
      BY <1>5 DEF Finish
    <2> QED BY <1>1, <1>5, <2>1, <2>2, TaskStreams
  <1>6. CASE Begin(t)
    BY <1>3, <1>4, <1>6, RewiringSteps DEF Begin
  <1>7. CASE BeginReading(t)
    <2>1. Rewired /\ UNCHANGED writer
      BY <1>3, <1>7, RewiringSteps DEF BeginReading
    <2>2. CASE Finish(t, FALSE)
      BY <1>5, <2>1, <2>2
    <2>3. CASE Goes(t, "reading", writer[Manager(t)])
      BY <1>4, <2>1, <2>3
    <2> QED BY <1>7, <2>2, <2>3 DEF BeginReading
  <1>8. CASE Connected(t)
    <2>1. PICK s \in Sockets : Opens(Manager(t), Address(t), s) /\ Goes(t, "reading", s)
      BY <1>8 DEF Connected
    <2>2. Rewired /\ writer'[Manager(t)] = s
      BY <1>2, <1>3, <2>1, RewiringSteps
    <2> QED BY <1>4, <2>1, <2>2
  <1>9. CASE ConnectFails(t) \/ EndOfStream(t)
    BY <1>3, <1>4, <1>9, RewiringSteps DEF ConnectFails, EndOfStream
  <1>10. CASE Answered(t) \/ ReconnectFails(t)
    BY <1>3, <1>5, <1>10, RewiringSteps DEF Answered, ReconnectFails
  <1>11. CASE Silent(t)
    <2>1. Rewired
      BY <1>3, <1>11, RewiringSteps DEF Silent
    <2> QED BY <1>5, <1>11, <2>1 DEF Silent
  <1>12. CASE Reconnect(t)
    <2>1. Rewired
      BY <1>3, <1>12, RewiringSteps DEF Reconnect
    <2> QED BY <1>4, <1>12, <2>1 DEF Reconnect
  <1>13. CASE Reconnected(t)
    <2>1. PICK s \in Sockets : Opens(Manager(t), Address(t), s)
      BY <1>13 DEF Reconnected
    <2>2. Rewired
      BY <1>2, <1>3, <2>1, RewiringSteps
    <2> QED BY <1>5, <1>13, <2>2 DEF Reconnected
  <1> QED BY <1>6, <1>7, <1>8, <1>9, <1>10, <1>11, <1>12, <1>13 DEF Request, ReadEnds

LEMMA ProbeStreams ==
    ASSUME Inv, Streams, NEW f \in Flows, Probe(f)
    PROVE  Streams'
  <1>1. Active(f) /\ f # Poll /\ f \in Task /\ f \notin Calls
    BY Names DEF Probe, ProbeConnected, ProbeFails, ProbeCloses, ProbeEnds, Active
  <1>2. TypeOK /\ Manager(f) \in Clients
    BY <1>1, ManagerType DEF Inv
  <1>3. ASSUME NEW where, Goes(f, where, None), Rewired
        PROVE  Streams'
    <2>1. UNCHANGED <<left, home, manager, of>>
      BY <1>3 DEF Goes, entryVars, clientVars
    <2>2. pc' = [pc EXCEPT ![f] = where] /\ sock' = [sock EXCEPT ![f] = None]
      BY <1>3 DEF Goes
    <2> QED BY <1>1, <1>3, <2>1, <2>2, TaskStreams
  <1>4. CASE ProbeConnected(f)
    <2>1. PICK s \in Sockets : Opens(Manager(f), Address(f), s)
      BY <1>4 DEF ProbeConnected
    <2>2. Rewired
      BY <1>2, <2>1, RewiringSteps
    <2> QED BY <1>3, <1>4, <2>2 DEF ProbeConnected
  <1>5. CASE ProbeFails(f)
    BY <1>2, <1>3, <1>5, RewiringSteps DEF ProbeFails
  <1>6. CASE ProbeCloses(f)
    <2>1. Rewired
      BY <1>2, <1>6, RewiringSteps DEF ProbeCloses
    <2> QED BY <1>3, <1>6, <2>1 DEF ProbeCloses
  <1>7. CASE ProbeEnds(f)
    <2>1. /\ UNCHANGED <<left, home, manager, of, sock, writer>>
          /\ pc[f] = "ending" /\ pc' = [pc EXCEPT ![f] = "done"]
      BY <1>7 DEF ProbeEnds, entryVars
    <2>2. sock[f] = None
      BY <1>1, <2>1 DEF Streams, StreamOwners
    <2>3. sock' = [sock EXCEPT ![f] = None]
      BY <1>1, <1>2, <2>1, <2>2 DEF TypeOK
    <2>4. Rewired
      BY <1>2, <2>1, RewiringSteps
    <2> QED BY <1>1, <2>1, <2>3, <2>4, TaskStreams
  <1> QED BY <1>4, <1>5, <1>6, <1>7 DEF Probe

\* The readers keep their connections and their managers.
LEMMA ReadersStay ==
    ASSUME Inv, Streams, Rewired,
           \A u \in Task : sock'[u] # None =>
                sock'[u] = sock[u] /\ pc'[u] = pc[u] /\ of'[u] = of[u],
           \A c \in Clients : Created(c) => manager'[c] = manager[c]
    PROVE  StreamOwners'
  <1>1. ASSUME NEW u \in Task, sock'[u] # None
        PROVE  /\ pc'[u] = "reading"
               /\ sock'[u] = sock[u] /\ Manager(u)' = Manager(u)
    <2>1. sock[u] # None /\ pc[u] = "reading" /\ pc'[u] = "reading"
      BY <1>1 DEF Streams, StreamOwners
    <2>2. of[u] \in Clients /\ Created(of[u])
      BY <2>1, ManagerType DEF Active, Inv, PollIsCurrent
    <2>3. of'[u] = of[u] /\ manager'[of[u]] = manager[of[u]]
      BY <1>1, <2>2
    <2> QED BY <1>1, <2>1, <2>3 DEF Manager
  <1>2. TypeOK /\ StreamOwners
    BY DEF Inv, Streams
  <1> QED BY <1>1, <1>2, OwnersStep

\* The current generation, unless the entry is gone.
LEMMA Current ==
    ASSUME Inv, phase # "absent"
    PROVE  setups \in Clients /\ Created(setups)
  <1>1. setups # 0 /\ setups \in 0..MaxSetups /\ MaxSetups \in Nat
    BY BoundsAssumption DEF Inv, TypeOK, PollIsCurrent
  <1>2. setups \in 1..MaxSetups /\ setups \in 1..setups
    BY <1>1
  <1> QED BY <1>2, Names DEF Created

\* A call begins with the current client, which no older call shares.
LEMMA CallStartsStreams ==
    ASSUME Inv, Streams, NEW k \in Calls, CallStarts(k)
    PROVE  Streams'
  <1>1. /\ UNCHANGED <<left, home, manager, sock, writer, setups>>
        /\ phase = "loaded"
        /\ k \in Task /\ pc[k] = "idle"
        /\ pc' = [pc EXCEPT ![k] = "waiting"] /\ of' = [of EXCEPT ![k] = setups]
    BY Names DEF CallStarts, entryVars, clientVars
  <1>2. /\ \A u \in Task : pc'[u] = IF u = k THEN "waiting" ELSE pc[u]
        /\ \A u \in Task : of'[u] = IF u = k THEN setups ELSE of[u]
    BY <1>1 DEF Inv, TypeOK
  <1>3. StreamOwners'
    <2>1. sock[k] = None
      BY <1>1 DEF Streams, StreamOwners
    <2>2. Rewired
      BY <1>1, RewiringSteps DEF Inv
    <2>3. \A u \in Task : sock'[u] # None =>
            sock'[u] = sock[u] /\ pc'[u] = pc[u] /\ of'[u] = of[u]
      BY <1>1, <1>2, <2>1
    <2> QED BY <1>1, <2>2, <2>3, ReadersStay
  <1>4. \A j \in Calls : j \in Task
    BY Names
  <1>5. ASSUME NEW j \in Calls, j # k, Active(j)'
        PROVE  /\ Active(j) /\ of'[j] = of[j]
               /\ Manager(j)' = Manager(j)
    BY <1>1, <1>2, <1>4, <1>5 DEF Active, Manager
  <1>6. of'[k] = setups /\ Manager(k)' = manager[setups]
    BY <1>1, <1>2 DEF Manager
  <1>7. ASSUME NEW j \in Calls, j # k, Active(j)', of[j] # setups,
               home[of[j]] \notin left
        PROVE  Manager(j) # manager[setups]
    BY <1>1, <1>5, <1>7 DEF Inv, Sharing, IsolatedGenerations, Active
  <1>8. ASSUME NEW j \in Calls, j # k, Active(j)', of[j] # setups,
               Manager(j) = manager[setups]
        PROVE  home[of[j]] = home[setups]
    <2>1. of[j] \in Clients /\ Created(of[j])
      BY <1>5, <1>8, CallClient
    <2>2. setups \in Clients /\ Created(setups)
      BY <1>1, Current
    <2> QED BY <1>8, <2>1, <2>2 DEF Inv, Sharing, ManagersKeepHome, Manager
  <1>9. CallsApart'
    <2> SUFFICES ASSUME NEW i \in Calls, NEW j \in Calls, Active(i)', Active(j)',
                        of'[i] # of'[j], home[of'[i]] \notin left
                 PROVE  Manager(i)' # Manager(j)'
      BY <1>1 DEF CallsApart
    <2>1. CASE i # k /\ j # k
      <3>1. Active(i) /\ Active(j) /\ of[i] # of[j] /\ home[of[i]] \notin left
        BY <1>5, <2>1
      <3>2. Manager(i) # Manager(j)
        BY <3>1 DEF Streams, CallsApart
      <3> QED BY <1>5, <2>1, <3>2
    <2>2. CASE i # k /\ j = k
      BY <1>5, <1>6, <1>7, <2>2
    <2>3. CASE i = k /\ j # k
      <3>1. of[j] # setups /\ Manager(j)' = Manager(j)
        BY <1>5, <1>6, <2>3
      <3>2. home[setups] \notin left
        BY <1>6, <2>3
      <3>3. Manager(j) # manager[setups]
        BY <1>7, <1>8, <2>3, <3>1, <3>2
      <3> QED BY <1>6, <2>3, <3>1, <3>3
    <2> QED BY <2>1, <2>2, <2>3
  <1> QED BY <1>3, <1>9 DEF Streams

LEMMA ProbeStartsStreams ==
    ASSUME Inv, Streams, NEW f \in Flows, NEW a \in Addresses, ProbeStarts(f, a)
    PROVE  Streams'
  <1>1. /\ UNCHANGED <<left, of, sock, writer>>
        /\ GetInstance(f, a)
        /\ pc[f] = "idle" /\ pc' = [pc EXCEPT ![f] = "dialing"]
    BY DEF ProbeStarts, entryVars
  <1>2. f \in Clients /\ ~Created(f) /\ f \in Task /\ f \notin Calls
    <2>1. \A n \in 1..setups : n \in 1..MaxSetups
      BY BoundsAssumption DEF Inv, TypeOK
    <2> QED BY <1>1, <2>1, Names DEF Created
  <1>3. \A c \in Clients : Created(c) => manager'[c] = manager[c] /\ home'[c] = home[c]
    BY <1>1, <1>2, GetInstanceFacts
  <1>4. \A u \in Task : u # f => pc'[u] = pc[u]
    BY <1>1 DEF Inv, TypeOK
  <1>5. StreamOwners'
    <2>1. sock[f] = None
      BY <1>1, <1>2 DEF Streams, StreamOwners
    <2>2. Rewired
      BY <1>1, RewiringSteps DEF Inv
    <2>3. \A u \in Task : sock'[u] # None =>
            sock'[u] = sock[u] /\ pc'[u] = pc[u] /\ of'[u] = of[u]
      BY <1>1, <1>4, <2>1
    <2> QED BY <1>3, <2>2, <2>3, ReadersStay
  <1>6. \A k \in Calls : Active(k)' => Active(k) /\ of'[k] = of[k]
    BY <1>1, <1>2, <1>4, Names DEF Active
  <1>7. CallsApart'
    BY <1>1, <1>3, <1>6, ApartStep DEF Streams
  <1> QED BY <1>5, <1>7 DEF Streams

\* A new generation gets a manager; no task reads through it yet.
LEMMA SetUpStreams ==
    ASSUME Inv, Streams, Retry \/ \E a \in Addresses : Add(a)
    PROVE  Streams'
  <1>1. PICK a \in Addresses : SetUp(a) /\ left \subseteq left'
    <2>1. Retry => address \in Addresses /\ SetUp(address) /\ left \subseteq left'
      BY DEF Inv, TypeOK, Retry
    <2>2. \A a \in Addresses : Add(a) => SetUp(a) /\ left \subseteq left'
      BY DEF Add
    <2> QED BY <2>1, <2>2
  <1>2. /\ UNCHANGED <<pc, of, sock, writer>>
        /\ GetInstance(setups + 1, a)
    BY <1>1 DEF SetUp, taskVars
  <1>3. setups + 1 \in Clients /\ ~Created(setups + 1)
    <2>1. setups + 1 \in 1..MaxSetups /\ setups \in Nat
      BY <1>1, BoundsAssumption DEF SetUp, Inv, TypeOK
    <2>2. ~(setups + 1 \in 1..setups)
      BY <2>1
    <2> QED BY <2>1, <2>2, Names DEF Created
  <1>4. \A c \in Clients : Created(c) => manager'[c] = manager[c] /\ home'[c] = home[c]
    BY <1>2, <1>3, GetInstanceFacts
  <1>5. Rewired
    BY <1>2, RewiringSteps DEF Inv
  <1>6. StreamOwners'
    BY <1>2, <1>4, <1>5, ReadersStay
  <1>7. \A k \in Calls : Active(k)' => Active(k) /\ of'[k] = of[k]
    BY <1>2 DEF Active
  <1>8. CallsApart'
    BY <1>1, <1>4, <1>7, ApartStep DEF Streams
  <1> QED BY <1>6, <1>8 DEF Streams

\* The other steps of the entry, and those of the device and the collector.
LEMMA QuietStreams ==
    ASSUME Inv, Streams,
           \/ SetUpConnected \/ SetUpFails \/ Disconnect \/ UnloadEnds \/ RemoveFailed
           \/ \E a \in Addresses : Update(a)
           \/ \E s \in Sockets : DeviceCloses(s) \/ Collect(s)
           \/ UNCHANGED vars
    PROVE  Streams'
  <1>1. /\ UNCHANGED <<home, manager>> /\ left \subseteq left'
        /\ \A u \in Task : u # Poll => pc'[u] = pc[u] /\ sock'[u] = sock[u] /\ of'[u] = of[u]
    BY DEF SetUpConnected, SetUpFails, Disconnect, UnloadEnds, RemoveFailed, Update,
           DeviceCloses, Collect, vars, entryVars, clientVars, taskVars, Inv, TypeOK
  <1>2. sock'[Poll] # None => /\ sock'[Poll] = sock[Poll]
                              /\ pc'[Poll] = pc[Poll] /\ of'[Poll] = of[Poll]
    <2>1. CASE SetUpConnected
      <3>1. pc[Poll] = "idle" /\ sock'[Poll] = sock[Poll]
        BY <2>1 DEF SetUpConnected, Inv, PollIsCurrent, Polling
      <3> QED BY <3>1, Names DEF Streams, StreamOwners
    <2>2. CASE UnloadEnds
      BY <2>2, Names DEF UnloadEnds, Inv, TypeOK
    <2>3. CASE ~SetUpConnected /\ ~UnloadEnds
      BY <2>3 DEF SetUpFails, Disconnect, RemoveFailed, Update,
           DeviceCloses, Collect, vars, entryVars, clientVars, taskVars
    <2> QED BY <2>1, <2>2, <2>3
  <1>3. Rewired
    <2>1. TypeOK
      BY DEF Inv
    <2>2. CASE SetUpConnected
      <3>1. PICK s \in Sockets : Opens(manager[setups], home[setups], s)
        BY <2>2 DEF SetUpConnected
      <3>2. setups \in Clients /\ Created(setups)
        BY <2>2, Current DEF SetUpConnected
      <3>3. manager[setups] \in Clients
        BY <3>2 DEF Inv, Sharing, ManagersKeepHome
      <3> QED BY <2>1, <3>1, <3>3, RewiringSteps
    <2>3. CASE Disconnect
      BY <2>1, <2>3, RewiringSteps DEF Disconnect
    <2>4. CASE \E s \in Sockets : Collect(s)
      BY <2>1, <2>4, RewiringSteps
    <2>5. CASE UNCHANGED writer
      BY <2>1, <2>5, RewiringSteps
    <2> QED BY <2>2, <2>3, <2>4, <2>5
            DEF SetUpFails, UnloadEnds, RemoveFailed, Update, DeviceCloses, vars
  <1>4. StreamOwners'
    <2>1. \A u \in Task : sock'[u] # None =>
            sock'[u] = sock[u] /\ pc'[u] = pc[u] /\ of'[u] = of[u]
      BY <1>1, <1>2
    <2> QED BY <1>1, <1>3, <2>1, ReadersStay
  <1>5. \A k \in Calls : Active(k)' => Active(k) /\ of'[k] = of[k]
    BY <1>1, Names DEF Active
  <1>6. CallsApart'
    BY <1>1, <1>5, ApartStep DEF Streams
  <1> QED BY <1>4, <1>6 DEF Streams

LEMMA StreamsInit == Init => Streams
  <1> SUFFICES ASSUME Init PROVE Streams
    OBVIOUS
  <1>1. \A u \in Task : sock[u] = None /\ pc[u] = "idle"
    BY DEF Init
  <1>2. \A m \in Clients : writer[m] = None
    BY DEF Init
  <1> QED BY <1>1, <1>2, Names DEF Streams, StreamOwners, CallsApart, Active

LEMMA StreamsNext == Inv /\ Streams /\ [Next]_vars => Streams'
  <1> SUFFICES ASSUME Inv, Streams, [Next]_vars PROVE Streams'
    OBVIOUS
  <1>1. CASE Entry
    BY <1>1, SetUpStreams, QuietStreams DEF Entry
  <1>2. CASE \E k \in Calls : CallStarts(k)
    BY <1>2, CallStartsStreams
  <1>3. CASE \E f \in Flows : Probe(f) \/ \E a \in Addresses : ProbeStarts(f, a)
    BY <1>3, ProbeStreams, ProbeStartsStreams
  <1>4. CASE \E t \in Task : Request(t)
    BY <1>4, RequestStreams
  <1>5. CASE (\E s \in Sockets : DeviceCloses(s) \/ Collect(s)) \/ UNCHANGED vars
    BY <1>5, QuietStreams
  <1> QED BY <1>1, <1>2, <1>3, <1>4, <1>5 DEF Next

\* The clients of two tasks that share a manager have one address.
LEMMA SharedHome ==
    ASSUME Inv, NEW t \in Task, NEW u \in Task, Manager(t) = Manager(u),
           of[t] \in Clients, Created(of[t]), of[u] \in Clients, Created(of[u])
    PROVE  home[of[t]] = home[of[u]]
  BY DEF Inv, Sharing, ManagersKeepHome, Manager

\* Of two tasks that share a manager away from probes and abandoned addresses,
\* both use the same client, and wait for each other at its lock.
LEMMA OneClient ==
    ASSUME Inv, Streams, NEW t \in Task, NEW u \in Task, t # u,
           t \notin Flows, u \notin Flows,
           t # Poll => Active(t), t = Poll => phase \in Polling,
           u # Poll => Active(u), u = Poll => phase \in Polling,
           Manager(t) = Manager(u), home[of[t]] \notin left
    PROVE  of[t] = of[u]
  <1>1. home[of[t]] = home[of[u]]
    BY ManagerType, SharedHome
  <1>2. CASE t \in Calls /\ u \in Calls
    BY <1>2, Names DEF Streams, CallsApart
  <1>3. CASE t = Poll
    <2>1. u \in Calls /\ of[t] = setups /\ phase # "absent"
      BY <1>3 DEF Task, Inv, PollIsCurrent, Polling
    <2> QED BY <1>1, <1>3, <2>1, Names
            DEF Inv, Sharing, IsolatedGenerations, Manager, Active
  <1>4. CASE u = Poll
    <2>1. t \in Calls /\ of[u] = setups /\ phase # "absent"
      BY <1>4 DEF Task, Inv, PollIsCurrent, Polling
    <2> QED BY <1>4, <2>1, Names
            DEF Inv, Sharing, IsolatedGenerations, Manager, Active
  <1> QED BY <1>2, <1>3, <1>4 DEF Task

LEMMA StreamsAreSeparateHolds == Inv /\ Streams => StreamsAreSeparate
  <1> SUFFICES ASSUME Inv, Streams, NEW t \in Task, NEW u \in Task,
                      Turn(t), home[of[t]] \notin left,
                      \A f \in Flows : pc[f] # "idle" => home[f] # home[of[t]],
                      sock[u] # None, sock[u] = writer[Manager(t)]
               PROVE  FALSE
    BY DEF StreamsAreSeparate, StreamIsRead
  <1>1. /\ t # Poll => Active(t)
        /\ t = Poll => phase \in Polling
    BY DEF Turn, Active
  <1>2. of[t] \in Clients /\ Created(of[t]) /\ Manager(t) \in Clients
    BY <1>1, ManagerType
  <1>3. pc[u] = "reading" /\ Active(u)
    BY DEF Streams, StreamOwners, Active
  <1>4. u = Poll => phase \in Polling
    BY <1>3 DEF Inv, PollIsCurrent
  <1>5. of[u] \in Clients /\ Created(of[u])
    BY <1>3, <1>4, ManagerType
  <1>6. Manager(t) = Manager(u)
    BY <1>2 DEF Streams, StreamOwners
  <1>7. t # u
    BY <1>3 DEF Turn
  <1>8. home[of[t]] = home[of[u]]
    BY <1>2, <1>5, <1>6, SharedHome
  <1>9. t \notin Flows /\ u \notin Flows
    <2>1. \A f \in Flows : f \in Task /\ f # Poll /\ of[f] = f
      BY Names DEF Inv, Sharing, ClientOfTask
    <2>2. t \notin Flows
      BY <1>1, <2>1 DEF Active
    <2>3. u \notin Flows
      BY <1>3, <1>8, <2>1 DEF Active
    <2> QED BY <2>2, <2>3
  <1>10. of[t] = of[u]
    BY <1>1, <1>3, <1>4, <1>6, <1>7, <1>9, OneClient
  <1> QED BY <1>3, <1>10 DEF Turn, IoLockFree, Requesting

\* At an address that no probe has used and the entry has not left behind, no
\* request ever begins to read a stream that another one reads, however often
\* the entry is set up again, reloaded or moved, and connections are lost and
\* reconnected under other tasks (the locks of client and manager, and
\* remove_instance in async_unload_entry).
THEOREM StreamsStaySeparate == Spec => []StreamsAreSeparate
  <1>1. Inv /\ Streams => StreamsAreSeparate
    BY StreamsAreSeparateHolds
  <1> QED BY <1>1, Invariance, StreamsInit, StreamsNext, PTL DEF Spec

=============================================================================
