-------------------------- MODULE RendezvousProofs --------------------------
(***************************************************************************)
(* For any number of launches, finders, stops, gateway processes and       *)
(* faults: the types, that the port has one owner, and that the gateway    *)
(* that serves stays on record unless another process removed that record  *)
(* or wrote over it.                                                       *)
(***************************************************************************)
EXTENDS Rendezvous, TLAPS

USE RendezvousAssumption DEF RendezvousAssumption, Pids

(* A process that is forked was not there before. *)
LEMMA ForkedIsNew ==
    ASSUME ~Exhausted
    PROVE  NextPid \in Pids /\ stage[NextPid] = "unborn"
  BY DEF Exhausted, NextPid, Unborn

(* A fork keeps the gateways' types: the new process has no port. *)
LEMMA ForkTypes ==
    ASSUME DaemonTypes, ~Exhausted, NEW m \in Models, Fork(m)
    PROVE  DaemonTypes'
  BY ForkedIsNew DEF DaemonTypes, Fork, Stages

(* So does a process that moves on or ends. *)
LEMMA DieTypes ==
    ASSUME DaemonTypes, NEW d \in Pids, Die(d)
    PROVE  DaemonTypes'
  BY DEF DaemonTypes, Die, Stages

(* A process without the port may move to any stage without it. *)
LEMMA MoveTypes ==
    ASSUME DaemonTypes, NEW d \in Pids, port # d,
           NEW s \in Stages \ {"bound", "serving", "stopping"}, Move(d, s)
    PROVE  DaemonTypes'
  BY DEF DaemonTypes, Move

(* A client's step is a step. *)
LEMMA GotoTypes ==
    ASSUME ClientTypes, NEW c \in Clients, NEW s \in Steps, Goto(c, s)
    PROVE  pc' \in [Clients -> Steps]
  BY DEF ClientTypes, Goto

(* The pids: none of them is 0. *)
LEMMA PidFacts == 0 \in 0..MaxDaemons /\ \A d \in 0..MaxDaemons : d # 0 => d \in Pids
  OBVIOUS

(* Where a client keeps the pid it has read. *)
Reading == {"probe", "count", "kill", "killed", "unregister"}

(* A client that has looked at the registry knows a process, and what it   *)
(* has killed will not serve again; each kind of client keeps to its path. *)
ClientInv ==
    \A c \in Clients :
        /\ pc[c] \in Reading => rec[c] \in Pids
        /\ pc[c] \in {"killed", "unregister"} =>
               stage[rec[c]] \in {"stopping", "draining", "remove", "dead"}
        /\ pc[c] \in {"probe", "spawn"} => c \in Launches
        /\ pc[c] \in {"start", "reap"} => c \in Finders
        /\ pc[c] \in {"lock", "stat", "steal", "relock", "hold"} => c \in Launches \cup Finders

IInv == TypeOK /\ ClientInv /\ RecordKept

(* The initial state satisfies it. *)
LEMMA InvInit == Init => IInv
  <1> SUFFICES ASSUME Init PROVE IInv
    OBVIOUS
  <1>1. TypeOK
    BY DEF Init, TypeOK, DaemonTypes, FileTypes, ClientTypes, Clients, Stages, Steps
  <1>2. ClientInv /\ RecordKept
    BY DEF Init, ClientInv, RecordKept, Reading
  <1> QED
    BY <1>1, <1>2 DEF IInv

(* Every step keeps it. *)
LEMMA InvStep ==
    ASSUME IInv, [Next]_vars
    PROVE  IInv'
  <1> USE ForkedIsNew
      DEF IInv, TypeOK, DaemonTypes, FileTypes, ClientTypes, ClientInv, RecordKept, Reading,
          Goto, Elsewhere, LockOnly, daemonVars, fileVars, clientVars, jobVars
  <1>1. ASSUME NEW d \in Pids, WriteStarting(d) PROVE IInv'
    <2>1. DaemonTypes'
      <3>1. port # d /\ "waiting" \in Stages \ {"bound", "serving", "stopping"}
        BY <1>1 DEF WriteStarting, Stages
      <3> QED
        BY <3>1, <1>1, MoveTypes DEF WriteStarting
    <2>2. FileTypes'
      BY <1>1 DEF WriteStarting, Move, Stages
    <2>3. ClientTypes'
      BY <1>1 DEF WriteStarting, Move, Stages
    <2>4. ClientInv'
      BY <1>1 DEF WriteStarting, Move, Stages
    <2>5. RecordKept'
      BY <1>1 DEF WriteStarting, Move, Stages
    <2> QED
      BY <2>1, <2>2, <2>3, <2>4, <2>5
  <1>2. ASSUME NEW d \in Pids, NEW ok \in BOOLEAN, LeaveGate(d, ok) PROVE IInv'
    BY <1>2 DEF LeaveGate, Move, Stages
  <1>3. ASSUME NEW d \in Pids, ClearStarting(d) PROVE IInv'
    <2>1. DaemonTypes'
      BY <1>3 DEF ClearStarting, Move, Stages
    <2>2. FileTypes'
      BY <1>3 DEF ClearStarting, Move, Stages
    <2>3. ClientTypes'
      BY <1>3 DEF ClearStarting, Move, Stages
    <2>4. ClientInv'
      BY <1>3 DEF ClearStarting, Move, Stages
    <2>5. RecordKept'
      BY <1>3 DEF ClearStarting, Move, Stages
    <2> QED
      BY <2>1, <2>2, <2>3, <2>4, <2>5
  <1>4. ASSUME NEW d \in Pids, Exit(d) PROVE IInv'
    BY <1>4 DEF Exit, Die, Stages
  <1>5. ASSUME NEW d \in Pids, Bind(d) PROVE IInv'
    BY <1>5 DEF Bind, Stages
  <1>6. ASSUME NEW d \in Pids, WriteActive(d) PROVE IInv'
    BY <1>6 DEF WriteActive, Move, Stages
  <1>7. ASSUME NEW d \in Pids, CloseListener(d) PROVE IInv'
    BY <1>7 DEF CloseListener, Stages
  <1>8. ASSUME NEW d \in Pids, Drained(d) PROVE IInv'
    <2>1. DaemonTypes'
      <3>1. CASE active = d
        BY <3>1, <1>8 DEF Drained, Move, Stages
      <3>2. CASE active # d
        BY <3>2, <1>8, DieTypes DEF Drained
      <3> QED
        BY <3>1, <3>2
    <2>2. FileTypes'
      BY <1>8 DEF Drained, Move, Die, Stages
    <2>3. ClientTypes'
      BY <1>8 DEF Drained, Move, Die, Stages
    <2>4. ClientInv'
      BY <1>8 DEF Drained, Move, Die, Stages
    <2>5. RecordKept'
      BY <1>8 DEF Drained, Move, Die, Stages
    <2> QED
      BY <2>1, <2>2, <2>3, <2>4, <2>5
  <1>9. ASSUME NEW d \in Pids, RemoveActive(d) PROVE IInv'
    <2>1. DaemonTypes'
      BY <1>9 DEF RemoveActive, Die, Stages
    <2>2. FileTypes'
      BY <1>9 DEF RemoveActive, Die, Stages
    <2>3. ClientTypes'
      BY <1>9 DEF RemoveActive, Die, Stages
    <2>4. ClientInv'
      BY <1>9 DEF RemoveActive, Die, Stages
    <2>5. RecordKept'
      BY <1>9 DEF RemoveActive, Die, Stages
    <2> QED
      BY <2>1, <2>2, <2>3, <2>4, <2>5
  <1>10. ASSUME NEW d \in Pids, LoadFails(d) PROVE IInv'
    BY <1>10 DEF LoadFails, Die, Fault, Stages
  <1>11. ASSUME NEW d \in Pids, IdleLook(d) PROVE IInv'
    <2>1. DaemonTypes'
      <3>1. CASE active = d
        BY <3>1, <1>11 DEF IdleLook, Move, Stages
      <3>2. CASE active # d
        BY <3>2, <1>11, DieTypes DEF IdleLook
      <3> QED
        BY <3>1, <3>2
    <2>2. FileTypes'
      BY <1>11 DEF IdleLook, Move, Die, Fault, LiveLeases, Stages
    <2>3. ClientTypes'
      BY <1>11 DEF IdleLook, Move, Die, Fault, LiveLeases, Stages
    <2>4. ClientInv'
      BY <1>11 DEF IdleLook, Move, Die, Fault, LiveLeases, Stages
    <2>5. RecordKept'
      BY <1>11 DEF IdleLook, Move, Die, Fault, LiveLeases, Stages
    <2> QED
      BY <2>1, <2>2, <2>3, <2>4, <2>5
  <1>12. ASSUME NEW d \in Pids, Reexec(d) PROVE IInv'
    BY <1>12 DEF Reexec, Fault, Stages
  <1>13. ASSUME NEW d \in Pids, Crash(d) PROVE IInv'
    BY <1>13 DEF Crash, Die, Fault, Alive, Stages
  <1>14. ASSUME NEW c \in Clients, ReadActive(c) PROVE IInv'
    <2>1. DaemonTypes'
      BY <1>14 DEF ReadActive, Steps
    <2>2. FileTypes'
      BY <1>14 DEF ReadActive, Steps
    <2>3. ClientTypes'
      <3>1. pc' \in [Clients -> Steps]
        BY <1>14 DEF ReadActive, Steps
      <3>2. active # 0 => model[active] \in Models
        BY PidFacts
      <3>3. told' \in [Launches -> Models]
        BY <3>2, <1>14 DEF ReadActive
      <3> QED
        BY <3>1, <3>3, <1>14 DEF ReadActive
    <2>4. ClientInv'
      <3>1. c \in Launches \/ c \in Stoppers
        BY <1>14 DEF ReadActive, Clients
      <3>2. active # 0 => active \in Pids
        BY PidFacts
      <3> QED
        BY <3>1, <3>2, <1>14 DEF ReadActive, Steps
    <2>5. RecordKept'
      BY <1>14 DEF ReadActive, Steps
    <2> QED
      BY <2>1, <2>2, <2>3, <2>4, <2>5
  <1>15. ASSUME NEW c \in Clients, ProbeActive(c) PROVE IInv'
    <2>1. DaemonTypes'
      BY <1>15 DEF ProbeActive, Steps
    <2>2. FileTypes'
      BY <1>15 DEF ProbeActive, Steps
    <2>3. ClientTypes'
      BY <1>15 DEF ProbeActive, Steps
    <2>4. ClientInv'
      BY <1>15 DEF ProbeActive, Steps
    <2>5. RecordKept'
      BY <1>15 DEF ProbeActive, Steps
    <2> QED
      BY <2>1, <2>2, <2>3, <2>4, <2>5
  <1>16. ASSUME NEW c \in Clients, CountLeases(c) PROVE IInv'
    <2>1. DaemonTypes'
      BY <1>16 DEF CountLeases, Steps
    <2>2. FileTypes'
      BY <1>16 DEF CountLeases, Steps
    <2>3. ClientTypes'
      BY <1>16 DEF CountLeases, Steps
    <2>4. ClientInv'
      BY <1>16 DEF CountLeases, Steps
    <2>5. RecordKept'
      BY <1>16 DEF CountLeases, Steps
    <2> QED
      BY <2>1, <2>2, <2>3, <2>4, <2>5
  <1>17. ASSUME NEW c \in Clients, Kill(c) PROVE IInv'
    BY <1>17 DEF Kill, Steps, Stages
  <1>18. ASSUME NEW c \in Clients, LookBehind(c) PROVE IInv'
    BY <1>18 DEF LookBehind, AfterKill, Steps
  <1>19. ASSUME NEW c \in Clients, Unregister(c) PROVE IInv'
    <2>1. DaemonTypes'
      BY <1>19 DEF Unregister, AfterKill, Steps
    <2>2. FileTypes'
      <3>1. {active} \ {0, rec[c]} \subseteq Pids
        BY PidFacts
      <3> QED
        BY <3>1, PidFacts, <1>19 DEF Unregister
    <2>3. ClientTypes'
      BY <1>19 DEF Unregister, AfterKill, Steps
    <2>4. ClientInv'
      BY <1>19 DEF Unregister, AfterKill, Steps
    <2>5. RecordKept'
      BY <1>19 DEF Unregister, AfterKill, Steps
    <2> QED
      BY <2>1, <2>2, <2>3, <2>4, <2>5
  <1>20. ASSUME NEW c \in Clients, LaunchSpawns(c) PROVE IInv'
    <2>1. DaemonTypes'
      <3>1. CASE Exhausted
        BY <3>1, <1>20 DEF LaunchSpawns
      <3>2. CASE ~Exhausted
        <4>1. c \in Launches /\ Want[c] \in Models
          BY <1>20 DEF LaunchSpawns
        <4> QED
          BY <3>2, <4>1, <1>20, ForkTypes DEF LaunchSpawns
      <3> QED
        BY <3>1, <3>2
    <2>2. FileTypes'
      BY <1>20 DEF LaunchSpawns, Fork, Steps, Stages
    <2>3. ClientTypes'
      <3>1. c \in Launches /\ Want[c] \in Models
        BY <1>20 DEF LaunchSpawns
      <3>2. pc' \in [Clients -> Steps]
        <4>1. PICK s \in Steps : Goto(c, s)
          BY <1>20 DEF LaunchSpawns, Steps
        <4> QED
          BY <4>1, GotoTypes
      <3> QED
        BY <3>1, <3>2, <1>20 DEF LaunchSpawns
    <2>4. ClientInv'
      BY <1>20 DEF LaunchSpawns, Fork, Steps, Stages
    <2>5. RecordKept'
      BY <1>20 DEF LaunchSpawns, Fork, Steps, Stages
    <2> QED
      BY <2>1, <2>2, <2>3, <2>4, <2>5
  <1>21. ASSUME NEW c \in Clients, Attach(c) PROVE IInv'
    BY <1>21 DEF Attach, Steps
  <1>22. ASSUME NEW c \in Clients, ReapStarting(c) PROVE IInv'
    <2>1. DaemonTypes'
      BY <1>22 DEF ReapStarting, Steps
    <2>2. FileTypes'
      BY <1>22 DEF ReapStarting, Steps
    <2>3. ClientTypes'
      BY <1>22 DEF ReapStarting, Steps
    <2>4. ClientInv'
      BY <1>22 DEF ReapStarting, Steps
    <2>5. RecordKept'
      BY <1>22 DEF ReapStarting, Steps
    <2> QED
      BY <2>1, <2>2, <2>3, <2>4, <2>5
  <1>23. ASSUME NEW c \in Clients, AskLaunchd(c) PROVE IInv'
    <2>1. DaemonTypes'
      <3>1. CASE Alive(job) \/ Exhausted
        BY <3>1, <1>23 DEF AskLaunchd
      <3>2. CASE ~(Alive(job) \/ Exhausted)
        BY <3>2, <1>23, ForkTypes DEF AskLaunchd
      <3> QED
        BY <3>1, <3>2
    <2>2. FileTypes'
      BY <1>23 DEF AskLaunchd, Fork, Steps, Stages
    <2>3. ClientTypes'
      BY <1>23 DEF AskLaunchd, Fork, Steps, Stages
    <2>4. ClientInv'
      BY <1>23 DEF AskLaunchd, Fork, Steps, Stages
    <2>5. RecordKept'
      BY <1>23 DEF AskLaunchd, Fork, Steps, Stages
    <2> QED
      BY <2>1, <2>2, <2>3, <2>4, <2>5
  <1>24. ASSUME NEW c \in Clients, NoJob(c) PROVE IInv'
    BY <1>24 DEF NoJob, Steps
  <1>25. ASSUME NEW c \in Clients, TryLock(c) PROVE IInv'
    <2>1. DaemonTypes'
      BY <1>25 DEF TryLock, Steps
    <2>2. FileTypes'
      BY <1>25 DEF TryLock, Steps
    <2>3. ClientTypes'
      <3>1. CASE lock = "none"
        BY <3>1, <1>25, GotoTypes, "hold" \in Steps DEF TryLock, Steps
      <3>2. CASE lock # "none"
        BY <3>2, <1>25, GotoTypes, "stat" \in Steps DEF TryLock, Steps
      <3> QED
        BY <3>1, <3>2
    <2>4. ClientInv'
      BY <1>25 DEF TryLock, Steps
    <2>5. RecordKept'
      BY <1>25 DEF TryLock, Steps
    <2> QED
      BY <2>1, <2>2, <2>3, <2>4, <2>5
  <1>26. ASSUME NEW c \in Clients, StatLock(c) PROVE IInv'
    BY <1>26 DEF StatLock, NotMine, Steps
  <1>27. ASSUME NEW c \in Clients, Steal(c) PROVE IInv'
    BY <1>27 DEF Steal, Steps
  <1>28. ASSUME NEW c \in Clients, Relock(c) PROVE IInv'
    <2>1. DaemonTypes'
      BY <1>28 DEF Relock, NotMine, Steps
    <2>2. FileTypes'
      BY <1>28 DEF Relock, NotMine, Steps
    <2>3. ClientTypes'
      <3>1. PICK s \in Steps : Goto(c, s)
        BY <1>28 DEF Relock, NotMine, Steps
      <3>2. pc' \in [Clients -> Steps]
        BY <3>1, GotoTypes
      <3> QED
        BY <3>2, <1>28 DEF Relock
    <2>4. ClientInv'
      BY <1>28 DEF Relock, NotMine, Steps
    <2>5. RecordKept'
      BY <1>28 DEF Relock, NotMine, Steps
    <2> QED
      BY <2>1, <2>2, <2>3, <2>4, <2>5
  <1>29. ASSUME NEW c \in Clients, Watch(c) PROVE IInv'
    <2>1. DaemonTypes'
      BY <1>29 DEF Watch, Steps
    <2>2. FileTypes'
      BY <1>29 DEF Watch, Steps
    <2>3. ClientTypes'
      <3>1. pc' \in [Clients -> Steps]
        BY <1>29 DEF Watch, Steps
      <3>2. misses' \in [Launches -> 0..1]
        BY <1>29 DEF Watch
      <3> QED
        BY <3>1, <3>2, <1>29 DEF Watch
    <2>4. ClientInv'
      BY <1>29 DEF Watch, Steps
    <2>5. RecordKept'
      BY <1>29 DEF Watch, Steps
    <2> QED
      BY <2>1, <2>2, <2>3, <2>4, <2>5
  <1>30. ASSUME NEW c \in Clients, Recovered(c) PROVE IInv'
    BY <1>30 DEF Recovered, Steps
  <1>31. ASSUME NEW c \in Clients, LockedSpawn(c) PROVE IInv'
    <2>1. DaemonTypes'
      <3>1. CASE Exhausted
        BY <3>1, <1>31 DEF LockedSpawn
      <3>2. CASE ~Exhausted
        <4>1. (IF c \in Finders THEN Want[c] ELSE told[c]) \in Models
          BY <1>31 DEF LockedSpawn
        <4> QED
          BY <3>2, <4>1, <1>31, ForkTypes DEF LockedSpawn
      <3> QED
        BY <3>1, <3>2
    <2>2. FileTypes'
      BY <1>31 DEF LockedSpawn, Fork, Steps, Stages
    <2>3. ClientTypes'
      BY <1>31 DEF LockedSpawn, Fork, Steps, Stages
    <2>4. ClientInv'
      BY <1>31 DEF LockedSpawn, Fork, Steps, Stages
    <2>5. RecordKept'
      BY <1>31 DEF LockedSpawn, Fork, Steps, Stages
    <2> QED
      BY <2>1, <2>2, <2>3, <2>4, <2>5
  <1>32. ASSUME NEW c \in Clients, Unlock(c) PROVE IInv'
    <2>1. DaemonTypes'
      BY <1>32 DEF Unlock, Steps
    <2>2. FileTypes'
      BY <1>32 DEF Unlock, Steps
    <2>3. ClientTypes'
      BY <1>32 DEF Unlock, Steps
    <2>4. ClientInv'
      BY <1>32 DEF Unlock, Steps
    <2>5. RecordKept'
      BY <1>32 DEF Unlock, Steps
    <2> QED
      BY <2>1, <2>2, <2>3, <2>4, <2>5
  <1>33. ASSUME NEW c \in Clients, Polled(c) PROVE IInv'
    BY <1>33 DEF Polled, Steps
  <1>34. ASSUME NEW c \in Clients, GivesUp(c) PROVE IInv'
    BY <1>34 DEF GivesUp, Steps
  <1>35. ASSUME NEW c \in Clients, Find(c) PROVE IInv'
    BY <1>35 DEF Find, Steps
  <1>36. ASSUME NEW c \in Clients, ReadStarting(c) PROVE IInv'
    BY <1>36 DEF ReadStarting, Steps
  <1>37. ASSUME NEW c \in Clients, LookStarting(c) PROVE IInv'
    <2>1. DaemonTypes'
      BY <1>37 DEF LookStarting, Steps
    <2>2. FileTypes'
      BY <1>37 DEF LookStarting, Steps
    <2>3. ClientTypes'
      BY <1>37 DEF LookStarting, Steps
    <2>4. ClientInv'
      BY <1>37 DEF LookStarting, Steps
    <2>5. RecordKept'
      BY <1>37 DEF LookStarting, Steps
    <2> QED
      BY <2>1, <2>2, <2>3, <2>4, <2>5
  <1>38. ASSUME NEW c \in Clients, AwaitTimeout(c) PROVE IInv'
    BY <1>38 DEF AwaitTimeout, Steps
  <1>39. ASSUME NEW c \in Clients, Leave(c) PROVE IInv'
    BY <1>39 DEF Leave, Fault, Steps
  <1>40. CASE KeepAlive
    BY <1>40 DEF KeepAlive, Fork, Stages
  <1>41. CASE LockAges
    BY <1>41 DEF LockAges
  <1>42. CASE UNCHANGED vars
    BY <1>42 DEF vars
  <1>43. ASSUME NEW d \in Pids, NEW m \in Models, Republish(d, m) PROVE IInv'
    <2>1. DaemonTypes'
      BY <1>43 DEF Republish
    <2>2. FileTypes'
      BY <1>43, PidFacts DEF Republish, Fault
    <2>3. ClientTypes'
      BY <1>43 DEF Republish
    <2>4. ClientInv'
      BY <1>43 DEF Republish
    <2>5. RecordKept'
      BY <1>43 DEF Republish
    <2> QED
      BY <2>1, <2>2, <2>3, <2>4, <2>5
  <1> HIDE DEF IInv
  <1> QED
    BY <1>1, <1>2, <1>3, <1>4, <1>5, <1>6, <1>7, <1>8, <1>9, <1>10, <1>11, <1>12, <1>13, <1>14, <1>15, <1>16, <1>17, <1>18, <1>19, <1>20, <1>21, <1>22, <1>23, <1>24, <1>25, <1>26, <1>27, <1>28, <1>29, <1>30, <1>31, <1>32, <1>33, <1>34, <1>35, <1>36, <1>37, <1>38, <1>39, <1>40, <1>41, <1>42, <1>43 DEF Next, DaemonStep, ClientStep, Waits

(* The types of the rendezvous, and that what is bound has the port, for   *)
(* any number of clients and gateways.                                     *)
THEOREM TypeCorrect == Spec => []TypeOK
  <1>1. IInv => TypeOK
    BY DEF IInv
  <1> QED
    BY InvInit, InvStep, <1>1, PTL DEF Spec

(* share.rs remove_active_if_mine and switchboard.rs bump_and_republish:   *)
(* over takeovers, stops, drains, reloads, switches and crashes the        *)
(* gateway that serves stays on record, unless it registered between       *)
(* another's look at the file and its removal, or a predecessor that is    *)
(* still shutting down republished itself after that.                      *)
THEOREM StaysOnRecord == Spec => []RecordKept
  <1>1. IInv => RecordKept
    BY DEF IInv
  <1> QED
    BY InvInit, InvStep, <1>1, PTL DEF Spec
=============================================================================
