----------------------------- MODULE Rendezvous -----------------------------
(* How clients find the one shared gateway of a host and start it when it  *)
(* is not there: gateway_ensure.rs, the registry, the leases and the spawn *)
(* lock of share.rs, `rozum launch` with its failover watchdog (main.rs),  *)
(* and a gateway's life from spawn to exit (main.rs, gateway.rs).  Nothing *)
(* is shared but files, a port and signals; every access to one is a step. *)
EXTENDS Naturals, FiniteSets

CONSTANTS
    Launches,    \* `rozum launch` processes: they keep the gateway alive
    Finders,     \* processes that call gateway_ensure::ensure
    Stoppers,    \* `rozum gateway stop` and the control page's stop
    Models,
    Want,        \* the model a client asks for
    JobModel,    \* the model of the launchd job
    MaxDaemons,  \* gateway processes started in all
    MaxFaults    \* crashes, kills of clients, preemptions, reloads and switches in all

Clients == Launches \cup Finders \cup Stoppers
Pids == 1..MaxDaemons

ASSUME RendezvousAssumption ==
    /\ Launches \cap Finders = {} /\ Stoppers \cap (Launches \cup Finders) = {}
    /\ Want \in [Launches \cup Finders -> Models] /\ JobModel \in Models
    /\ MaxDaemons \in Nat /\ MaxFaults \in Nat

VARIABLES
    stage,     \* where a gateway process is
    model,     \* the model it was started with or has switched to
    port,      \* who has bound DEFAULT_GATEWAY_PORT, 0 for nobody
    active,    \* active.json: the pid on record, 0 for none
    starting,  \* starting.json: the pid on record, 0 for none
    lock,      \* spawn.lock: none, fresh, or old enough to be stolen
    installed, \* is there a launchd job for the gateway?
    job,       \* the pid launchd started last, 0 for none
    pc,        \* where a client is
    rec,       \* the pid a client read in active.json
    told,      \* the model a launch was told it gets: it respawns with that
    misses,    \* the failed probes of a launch's watchdog
    lease,     \* the clients that have written leases/<pid>
    faults,
    lost       \* the gateways whose record another process removed or overwrote

daemonVars == <<stage, model, port>>
fileVars == <<active, starting, lock, lease>>
clientVars == <<pc, rec, told, misses>>
jobVars == <<installed, job>>
vars == <<daemonVars, fileVars, clientVars, jobVars, faults, lost>>

Init ==
    /\ stage = [d \in Pids |-> "unborn"] /\ model = [d \in Pids |-> JobModel]
    /\ port = 0 /\ active = 0 /\ starting = 0 /\ lock = "none" /\ lease = {}
    /\ installed \in BOOLEAN /\ job = 0
    /\ pc = [c \in Clients |-> "idle"] /\ rec = [c \in Clients |-> 0]
    /\ told = [c \in Launches |-> JobModel] /\ misses = [c \in Launches |-> 0]
    /\ faults = 0 /\ lost = {}

Alive(d) == d \in Pids /\ stage[d] \notin {"unborn", "dead"}

(* health_ok and fetch_models: /v1/models is answered from the            *)
(* registration until the listener is closed.                              *)
Healthy == port # 0 /\ stage[port] \in {"serving", "stopping", "remove"}

(* live_lease_count: a lease counts while its client lives. *)
LiveLeases == {c \in lease : pc[c] # "gone"}

Fault == faults < MaxFaults /\ faults' = faults + 1

Unborn == {d \in Pids : stage[d] = "unborn"}
Exhausted == Unborn = {}
NextPid == CHOOSE d \in Unborn : TRUE

-----------------------------------------------------------------------------
(* A gateway process.  Mutant: the listener outlives it. *)
DieKeepsPort(d) == stage' = [stage EXCEPT ![d] = "dead"] /\ UNCHANGED <<model, port>>

(* Exit and crash give the port back; files stay. *)
Die(d) ==
    /\ stage' = [stage EXCEPT ![d] = "dead"]
    /\ port' = IF port = d THEN 0 ELSE port
    /\ UNCHANGED model

Move(d, s) == stage' = [stage EXCEPT ![d] = s] /\ UNCHANGED <<model, port>>

(* acquire_residency_or_exit: the wait for RAM is announced. *)
WriteStarting(d) ==
    /\ stage[d] = "start"
    /\ starting' = d
    /\ Move(d, "waiting")
    /\ UNCHANGED <<active, lock, lease, clientVars, jobVars, faults, lost>>

(* The ledger's answer, and clear_starting_if_mine's look at the record. *)
LeaveGate(d, admitted) ==
    /\ stage[d] = "waiting"
    /\ Move(d, IF admitted THEN IF starting = d THEN "clear" ELSE "load"
                           ELSE IF starting = d THEN "clear_exit" ELSE "exit")
    /\ UNCHANGED <<fileVars, clientVars, jobVars, faults, lost>>

ClearStarting(d) ==
    /\ stage[d] \in {"clear", "clear_exit"}
    /\ starting' = 0
    /\ Move(d, IF stage[d] = "clear" THEN "load" ELSE "exit")
    /\ UNCHANGED <<active, lock, lease, clientVars, jobVars, faults, lost>>

(* A refusal, a model that does not load, or a port that is taken. *)
Exit(d) ==
    /\ stage[d] \in {"exit", "load"} /\ (stage[d] = "load" => port # 0)
    /\ Die(d)
    /\ UNCHANGED <<fileVars, clientVars, jobVars, faults, lost>>

LoadFails(d) ==
    /\ stage[d] = "load" /\ Fault
    /\ Die(d)
    /\ UNCHANGED <<fileVars, clientVars, jobVars, lost>>

Bind(d) ==
    /\ stage[d] = "load" /\ port = 0
    /\ port' = d /\ stage' = [stage EXCEPT ![d] = "bound"]
    /\ UNCHANGED <<model, fileVars, clientVars, jobVars, faults, lost>>

(* serve_on: the registry is written before the first request is served. *)
WriteActive(d) ==
    /\ stage[d] = "bound"
    /\ active' = d /\ lost' = lost \ {d}
    /\ Move(d, "serving")
    /\ UNCHANGED <<starting, lock, lease, clientVars, jobVars, faults>>

(* bump_and_republish: a switch, an unload or a lazy reload writes the     *)
(* record again, whoever is on it, and with the model served from then on; *)
(* a gateway that shuts down still ends the operations it has begun.       *)
Republish(d, m) ==
    /\ stage[d] \in {"serving", "stopping", "draining", "remove"} /\ Fault
    /\ active' = d /\ model' = [model EXCEPT ![d] = m]
    /\ lost' = (lost \cup ({active} \ {0})) \ {d}
    /\ UNCHANGED <<stage, port, starting, lock, lease, clientVars, jobVars>>

(* The watchdog finds no lease and nothing in flight, or a request to      *)
(* yield: remove_active_if_mine looks at the record, the port still bound. *)
IdleLook(d) ==
    /\ stage[d] \in {"serving", "stopping", "draining"}
    /\ \/ LiveLeases = {} /\ UNCHANGED faults
       \/ Fault
    /\ IF active = d THEN Move(d, "remove") ELSE Die(d)
    /\ UNCHANGED <<fileVars, clientVars, jobVars, lost>>

(* shutdown_signal: the grace is over, the listener closes and the         *)
(* connections drain; then remove_active_if_mine looks at the record.      *)
CloseListener(d) ==
    /\ stage[d] = "stopping"
    /\ stage' = [stage EXCEPT ![d] = "draining"] /\ port' = 0
    /\ UNCHANGED <<model, fileVars, clientVars, jobVars, faults, lost>>

(* Mutant: whoever is on record is taken off it. *)
DrainedForgetful(d) ==
    /\ stage[d] = "draining"
    /\ active' = 0
    /\ Die(d)
    /\ UNCHANGED <<starting, lock, lease, clientVars, jobVars, faults, lost>>

Drained(d) ==
    /\ stage[d] = "draining"
    /\ IF active = d THEN Move(d, "remove") ELSE Die(d)
    /\ UNCHANGED <<fileVars, clientVars, jobVars, faults, lost>>

(* The removal and the exit that follows it. *)
RemoveActive(d) ==
    /\ stage[d] = "remove"
    /\ active' = 0
    /\ Die(d)
    /\ lost' = lost \cup ({active} \ {0, d})
    /\ UNCHANGED <<starting, lock, lease, clientVars, jobVars, faults>>

(* control_reload: the process image is replaced, the pid and the record   *)
(* stay, the port is free until the new image binds it.                    *)
Reexec(d) ==
    /\ stage[d] = "serving" /\ Fault
    /\ stage' = [stage EXCEPT ![d] = "start"] /\ port' = 0
    /\ UNCHANGED <<model, fileVars, clientVars, jobVars, lost>>

Crash(d) ==
    /\ Alive(d) /\ Fault
    /\ Die(d)
    /\ UNCHANGED <<fileVars, clientVars, jobVars, lost>>

(* A new process with model m. *)
Fork(m) ==
    /\ stage' = [stage EXCEPT ![NextPid] = "start"]
    /\ model' = [model EXCEPT ![NextPid] = m]
    /\ UNCHANGED port

(* launchd runs the job at load and again whenever it ends. *)
KeepAlive ==
    /\ installed /\ ~Alive(job) /\ ~Exhausted
    /\ Fork(JobModel) /\ job' = NextPid
    /\ UNCHANGED <<fileVars, clientVars, installed, faults, lost>>

-----------------------------------------------------------------------------
(* Clients.  A probe has a second to be answered and may miss a healthy    *)
(* gateway: where a branch asks for `Healthy`, the other does not ask for  *)
(* its negation.                                                           *)
Goto(c, s) == pc' = [pc EXCEPT ![c] = s]
Elsewhere == UNCHANGED <<daemonVars, fileVars, jobVars, faults, lost>>

(* ensure_shared_gateway and run_gateway_stop read the registry. *)
ReadActive(c) ==
    /\ c \notin Finders /\ pc[c] = "idle"
    /\ rec' = [rec EXCEPT ![c] = active]
    /\ told' = IF c \in Launches /\ active # 0 THEN [told EXCEPT ![c] = model[active]] ELSE told
    /\ Goto(c, IF c \in Stoppers THEN IF active = 0 THEN "failed" ELSE "count"
                                  ELSE IF active = 0 THEN "spawn" ELSE "probe")
    /\ UNCHANGED misses /\ Elsewhere

ProbeActive(c) ==
    /\ pc[c] = "probe"
    /\ \/ Goto(c, "spawn")
       \/ Healthy /\ Goto(c, IF told[c] = Want[c] THEN "found" ELSE "count")
    /\ UNCHANGED <<rec, told, misses>> /\ Elsewhere

(* A gateway in use is not taken over, and stopped only with --force. *)
CountLeases(c) ==
    /\ pc[c] = "count"
    /\ \/ (LiveLeases = {} \/ c \in Stoppers) /\ Goto(c, "kill")
       \/ LiveLeases # {} /\ Goto(c, IF c \in Launches THEN "found" ELSE "failed")
    /\ UNCHANGED <<rec, told, misses>> /\ Elsewhere

(* SIGTERM: a gateway that serves shuts down in its own time, one that has *)
(* not come that far has no handler and dies; `stop` gives up on one gone. *)
Kill(c) ==
    LET s == stage[rec[c]] IN
    /\ pc[c] = "kill"
    /\ stage' = [stage EXCEPT ![rec[c]] =
                    IF s = "serving" THEN "stopping"
                    ELSE IF s \in {"stopping", "draining", "remove"} THEN s ELSE "dead"]
    /\ port' = IF port = rec[c] /\ s = "bound" THEN 0 ELSE port
    /\ Goto(c, IF s = "dead" /\ c \in Stoppers THEN "failed" ELSE "killed")
    /\ UNCHANGED <<model, fileVars, rec, told, misses, jobVars, faults, lost>>

(* remove_active_if_mine for the process that was killed; a launch then    *)
(* gives the port 15 s to become free.                                     *)
AfterKill(c) == IF c \in Launches THEN "spawn" ELSE "failed"

LookBehind(c) ==
    /\ pc[c] = "killed"
    /\ Goto(c, IF active = rec[c] THEN "unregister" ELSE AfterKill(c))
    /\ UNCHANGED <<rec, told, misses>> /\ Elsewhere

Unregister(c) ==
    /\ pc[c] = "unregister"
    /\ active' = 0 /\ lost' = lost \cup ({active} \ {0, rec[c]})
    /\ Goto(c, AfterKill(c))
    /\ UNCHANGED <<daemonVars, starting, lock, lease, rec, told, misses, jobVars, faults>>

(* spawn_detached_gateway without the lock; `MaxDaemons` processes later a *)
(* spawn fails.                                                            *)
LaunchSpawns(c) ==
    /\ pc[c] = "spawn"
    /\ IF Exhausted THEN Goto(c, "failed") /\ UNCHANGED <<daemonVars, told>>
       ELSE Fork(Want[c]) /\ told' = [told EXCEPT ![c] = Want[c]] /\ Goto(c, "poll")
    /\ UNCHANGED <<fileVars, rec, misses, jobVars, faults, lost>>

(* The launch's loop and wait_for: whatever answers will do. *)
Polled(c) ==
    /\ pc[c] = "poll" /\ Healthy
    /\ Goto(c, "found")
    /\ UNCHANGED <<rec, told, misses>> /\ Elsewhere

(* Mutant: who waits for somebody else's gateway has no deadline. *)
GivesUpSpawner(c) ==
    /\ pc[c] = "poll" /\ c \in Launches
    /\ Goto(c, "failed")
    /\ UNCHANGED <<rec, told, misses>> /\ Elsewhere

(* The deadline passes, or the process that was spawned has exited. *)
GivesUp(c) ==
    /\ pc[c] = "poll"
    /\ Goto(c, "failed")
    /\ UNCHANGED <<rec, told, misses>> /\ Elsewhere

(* touch_lease; a launch also starts its watchdog. *)
Attach(c) ==
    /\ pc[c] = "found"
    /\ lease' = lease \cup {c}
    /\ Goto(c, "attached")
    /\ UNCHANGED <<daemonVars, active, starting, lock, rec, told, misses, jobVars, faults, lost>>

(* gateway_ensure::ensure: find, then a gateway that waits for RAM. *)
Find(c) ==
    /\ c \in Finders /\ pc[c] \in {"idle", "await"} /\ Healthy
    /\ Goto(c, "found")
    /\ UNCHANGED <<rec, told, misses>> /\ Elsewhere

ReadStarting(c) ==
    /\ c \in Finders /\ pc[c] \in {"idle", "await"}
    /\ Goto(c, IF starting = 0 THEN "start" ELSE IF Alive(starting) THEN "await" ELSE "reap")
    /\ UNCHANGED <<rec, told, misses>> /\ Elsewhere

(* wait_for reads it too, to say why the wait is long. *)
LookStarting(c) ==
    /\ c \in Finders /\ starting # 0 /\ ~Alive(starting)
    /\ \/ pc[c] = "poll" /\ Goto(c, "reap_poll")
       \/ pc[c] = "wait" /\ Goto(c, "reap_wait")
    /\ UNCHANGED <<rec, told, misses>> /\ Elsewhere

(* A dead gateway's record is removed, or one written in its place. *)
ReapStarting(c) ==
    /\ starting' = 0
    /\ \/ pc[c] = "reap" /\ Goto(c, "start")
       \/ pc[c] = "reap_poll" /\ Goto(c, "poll")
       \/ pc[c] = "reap_wait" /\ Goto(c, "wait")
    /\ UNCHANGED <<daemonVars, active, lock, lease, rec, told, misses, jobVars, faults, lost>>

AwaitTimeout(c) ==
    /\ pc[c] = "await" /\ Alive(starting)
    /\ Goto(c, "failed")
    /\ UNCHANGED <<rec, told, misses>> /\ Elsewhere

(* start_plan: where the job is installed only launchd starts a gateway. *)
AskLaunchd(c) ==
    /\ pc[c] = "start" /\ installed
    /\ IF Alive(job) \/ Exhausted THEN UNCHANGED <<daemonVars, job>>
                                  ELSE Fork(JobModel) /\ job' = NextPid
    /\ Goto(c, "poll")
    /\ UNCHANGED <<fileVars, rec, told, misses, installed, faults, lost>>

NoJob(c) ==
    /\ pc[c] = "start" /\ ~installed
    /\ Goto(c, "lock")
    /\ UNCHANGED <<rec, told, misses>> /\ Elsewhere

-----------------------------------------------------------------------------
(* try_spawn_lock: create the file, or look how old it is; an old one, or  *)
(* one gone in between, is removed, whosever it is by then, and created.   *)
LockOnly == UNCHANGED <<daemonVars, active, starting, lease, rec, told, misses, jobVars, faults, lost>>

NotMine(c) == IF c \in Finders THEN "poll" ELSE "attached"

TryLock(c) ==
    /\ pc[c] = "lock"
    /\ IF lock = "none" THEN lock' = "fresh" /\ Goto(c, "hold")
                        ELSE Goto(c, "stat") /\ UNCHANGED lock
    /\ LockOnly

(* Mutant: an old lock is respected as well. *)
StatLockTimid(c) ==
    /\ pc[c] = "stat"
    /\ Goto(c, IF lock = "none" THEN "steal" ELSE NotMine(c)) /\ UNCHANGED lock
    /\ LockOnly

StatLock(c) ==
    /\ pc[c] = "stat"
    /\ Goto(c, IF lock = "fresh" THEN NotMine(c) ELSE "steal") /\ UNCHANGED lock
    /\ LockOnly

Steal(c) ==
    /\ pc[c] = "steal"
    /\ lock' = "none" /\ Goto(c, "relock")
    /\ LockOnly

Relock(c) ==
    /\ pc[c] = "relock"
    /\ IF lock = "none" THEN lock' = "fresh" /\ Goto(c, "hold")
                        ELSE Goto(c, NotMine(c)) /\ UNCHANGED lock
    /\ LockOnly

LockAges ==
    /\ lock = "fresh" /\ lock' = "old"
    /\ UNCHANGED <<daemonVars, active, starting, lease, clientVars, jobVars, faults, lost>>

(* spawn_failover_watchdog: two missed probes in a row, then the lock. *)
Watch(c) ==
    /\ pc[c] = "attached" /\ c \in Launches
    /\ \/ Healthy /\ misses[c] > 0 /\ misses' = [misses EXCEPT ![c] = 0] /\ UNCHANGED pc
       \/ misses[c] = 0 /\ misses' = [misses EXCEPT ![c] = 1] /\ UNCHANGED pc
       \/ misses[c] = 1 /\ misses' = [misses EXCEPT ![c] = 0] /\ Goto(c, "lock")
    /\ UNCHANGED <<rec, told>> /\ Elsewhere

(* Under the lock: a launch looks again, a finder does not. *)
Recovered(c) ==
    /\ pc[c] = "hold" /\ c \in Launches /\ Healthy
    /\ lock' = "none" /\ Goto(c, "attached")
    /\ LockOnly

LockedSpawn(c) ==
    /\ pc[c] = "hold"
    /\ Goto(c, "wait")
    /\ IF Exhausted THEN UNCHANGED daemonVars
                    ELSE Fork(IF c \in Finders THEN Want[c] ELSE told[c])
    /\ UNCHANGED <<fileVars, rec, told, misses, jobVars, faults, lost>>

(* The wait under the lock ends: the gateway answers, the process has      *)
(* exited, or the deadline has passed.  The guard removes the lock file.   *)
Unlock(c) ==
    /\ pc[c] = "wait"
    /\ lock' = "none"
    /\ \/ c \in Launches /\ Goto(c, "attached")
       \/ c \in Finders /\ Healthy /\ Goto(c, "found")
       \/ c \in Finders /\ Goto(c, "failed")
    /\ LockOnly

(* A client ends; killed in the middle it leaves its files behind. *)
Leave(c) ==
    /\ \/ pc[c] = "attached" /\ UNCHANGED faults
       \/ pc[c] \notin {"idle", "attached", "failed", "gone"} /\ Fault
    /\ Goto(c, "gone")
    /\ UNCHANGED <<daemonVars, fileVars, rec, told, misses, jobVars, lost>>

-----------------------------------------------------------------------------
DaemonStep(d) ==
    \/ WriteStarting(d) \/ \E ok \in BOOLEAN : LeaveGate(d, ok)
    \/ ClearStarting(d) \/ Exit(d) \/ Bind(d) \/ WriteActive(d)
    \/ CloseListener(d) \/ Drained(d) \/ RemoveActive(d)

ClientStep(c) ==
    \/ ProbeActive(c) \/ CountLeases(c) \/ Kill(c) \/ LookBehind(c) \/ Unregister(c)
    \/ LaunchSpawns(c) \/ Attach(c) \/ ReapStarting(c)
    \/ AskLaunchd(c) \/ NoJob(c) \/ TryLock(c) \/ StatLock(c) \/ Steal(c) \/ Relock(c)
    \/ Watch(c) \/ Recovered(c) \/ LockedSpawn(c) \/ Unlock(c)

Waits(c) ==
    \/ Polled(c) \/ GivesUp(c)
    \/ Find(c) \/ ReadStarting(c) \/ LookStarting(c) \/ AwaitTimeout(c)

Next ==
    \/ \E d \in Pids :
         \/ DaemonStep(d) \/ LoadFails(d) \/ IdleLook(d) \/ Reexec(d) \/ Crash(d)
         \/ \E m \in Models : Republish(d, m)
    \/ \E c \in Clients : ReadActive(c) \/ ClientStep(c) \/ Waits(c) \/ Leave(c)
    \/ KeepAlive \/ LockAges

Spec == Init /\ [][Next]_vars

(* A process that runs keeps running, its deadlines pass, a lock grows old *)
(* and launchd restarts its job.                                           *)
Fairness ==
    /\ \A d \in Pids : WF_vars(DaemonStep(d))
    /\ \A c \in Clients : WF_vars(pc[c] # "idle" /\ (ClientStep(c) \/ Waits(c)))
    /\ WF_vars(LockAges) /\ WF_vars(KeepAlive)

FairSpec == Spec /\ Fairness

-----------------------------------------------------------------------------
Stages == {"unborn", "start", "waiting", "clear", "clear_exit", "exit", "load", "bound",
           "serving", "stopping", "draining", "remove", "dead"}
Steps == {"idle", "probe", "count", "kill", "killed", "unregister", "spawn", "poll", "found",
          "attached", "await", "reap", "reap_poll", "reap_wait", "start", "lock", "stat", "steal",
          "relock", "hold", "wait",
          "failed", "gone"}

(* The port belongs to the process that has it open. *)
DaemonTypes ==
    /\ stage \in [Pids -> Stages] /\ model \in [Pids -> Models] /\ port \in 0..MaxDaemons
    /\ \A d \in Pids : /\ stage[d] \in {"bound", "serving", "stopping"} => port = d
                       /\ port = d => stage[d] \in {"bound", "serving", "stopping", "remove"}

FileTypes ==
    /\ active \in 0..MaxDaemons /\ starting \in 0..MaxDaemons
    /\ lock \in {"none", "fresh", "old"} /\ lease \subseteq Clients
    /\ installed \in BOOLEAN /\ job \in 0..MaxDaemons
    /\ faults \in 0..MaxFaults /\ lost \subseteq Pids

ClientTypes ==
    /\ pc \in [Clients -> Steps] /\ rec \in [Clients -> 0..MaxDaemons]
    /\ told \in [Launches -> Models] /\ misses \in [Launches -> 0..1]

(* Types, and that two processes never have the port at once. *)
TypeOK == DaemonTypes /\ FileTypes /\ ClientTypes

(* Over crashes, reloads, takeovers, stops and switches the gateway that   *)
(* serves stays on record, but for two races: it wrote its record between  *)
(* somebody else's look at the file and the removal that look decided on,  *)
(* or a predecessor that is still shutting down wrote its own over it; and *)
(* then its next switch, unload or reload puts it back.                    *)
RecordKept == \A d \in Pids : stage[d] = "serving" /\ d \notin lost => active = d

(* While a launch is attached the gateway comes back, whoever died with    *)
(* the spawn lock and whatever was killed, until no process can be made.   *)
Failover ==
    \A c \in Launches :
        pc[c] = "attached" ~> (Healthy \/ pc[c] = "gone" \/ \A d \in Pids : stage[d] = "dead")

(* Every search for a gateway ends, with one or with an error. *)
SearchEnds ==
    \A c \in Clients : pc[c] # "idle" ~> pc[c] \in {"attached", "failed", "gone"}
=============================================================================
