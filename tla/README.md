# Formal models of rozum

TLA+ models of the concurrent core of rozum, the TLC runs that check them on
small instances, and TLAPS proofs for instances of every size. Paths below are
relative to `src/`. Bare file names stand for `crates/rozum-core/src/`
(`concurrency.rs`, `share.rs`, `gateway_ensure.rs`), `crates/rozum-gateway/src/`
(`switchboard.rs`, `gateway.rs`, `control.rs`),
`crates/rozum-meeting/src/meeting/` (`store.rs`, `room.rs`, `registry.rs`,
`daemon.rs`, `daemon_proxy.rs`) and `src/` (`main.rs`, `proxy.rs`).

To run: `tlc -config X.cfg M` for a run of the table in section 4, `tlapm M.tla`
for a `*Proofs` module. `PROJECT.json` lists every run, the source lines of
every definition, the mutants that break each property, the hazards and the
findings.

## 1. The system

rozum runs language models locally. A *gateway* process loads a model and serves
it over HTTP; several gateways share one host's RAM; agents reach a gateway
through a *launch proxy*. Around that sit meeting rooms for agents, an agent
loop, bridges and user interfaces.

### Inventory of components

| component | state | operations | what is hard |
|---|---|---|---|
| **Admission scheduler** (`concurrency.rs`) | slots in use per class, live limit, ceiling, wait queue, counters; a one-shot channel per waiter | `admit`, `release` (guard drop), `pump`, `trip`, `recover_step`, `set_limit`, `set_ceiling` | a client may vanish at any point, also between the pump's `is_closed` test and its `send`; the limit moves under running requests |
| **Admitting backend** (`concurrency.rs`) | per model: controller target and green count, recovery timers; the GPU semaphore shared by all residents | `chat`, stream loop, `note_backend_error`, `apply_sample`, `report_quality` | two locks taken one after the other; timers that fire after the ceiling moved; a slot held while waiting for a permit |
| **Residency ledger** (`share.rs`, grow/shrink in `rozum-mlx`) | one entry file and one lifetime lock per process, one admit lock, a ticket queue, preemption requests | `acquire_residency`, `readmit_my_reservation`, `republish_residency`, `adjust_own_footprint`, `grow_context`, `shrink_context`, reaping, yield | several processes, crashes at any step, files read while they are written, paths that bypass the lock |
| **Switchboard** (`switchboard.rs`, `resident.rs`) | the primary's cell and spec, `draining`, the `generating` count, warm map, three locks, the published reservation | `enter`, `ensure_warm`, `ensure_loaded`, `switch`, `switch_destructive`, `unload`, `invalidate_backend`, sweeps | requests, operators and the watchdog change the primary at once; clients hang up inside an operation; builds fail |
| **Launch proxy** (`proxy.rs`, `poison.json` in `share.rs`) | per request: attempts and crash-attributed attempts; per proxy: slots, the degrade lane, poison counts; one `poison.json` per host | `forward`: gate, admit, send, retry, attribute, stream back | replays after a crash, blame for a death nobody saw, an unlocked read-modify-write between proxies |
| **Rendezvous** (`gateway_ensure.rs`, `share.rs`, `main.rs`, `gateway.rs`) | the port, `active.json`, `starting.json`, `spawn.lock`, leases, the launchd job | `ensure`, `ensure_shared_gateway`, failover watchdog, `gateway stop`, register, idle exit, drain, re-exec | clients and gateways share nothing but files and a port, and any of them may die between two steps |
| **Meeting rooms** (`store.rs`, `room.rs`, `registry.rs`, `daemon.rs`, `daemon_proxy.rs`) | day files, `index.json`, `meta.json`; open rooms, phase, pollers; a cursor per client | join, submit, pause/resume/end, `wait_my_turn`, evict, reopen | crashes between the three files, torn lines, a message posted while a poll goes to sleep or gives up |
| **Incident threads** (`store.rs`, `daemon.rs`) | the thread in memory, `threads.json` and its backup, its events in the log | open, update, assign, escalate, pin, link, resolve; rebuild, repair, reopen | a change and its event are two writes; the log alone must be able to give the thread back |
| Shedding (`shed.rs`) | none | a pure decision | boundaries |
| Gateway handlers and watchdog (`gateway.rs`, dialect modules) | none of their own | translate, call the switchboard | which backend a failure is charged to |
| Participants, mentions, budgets (`crates/rozum-meeting`) | budgets, reply policies | reply, mention | a budget that ends a room |
| Task state (`task_state.rs`) | one JSON document | merge patch | lost updates |
| Cascade, router, agent loop, replay (`crates/rozum-agent`) | tier health, journal positions | escalate, record, replay | escalation after partial answers |
| nadia (`crates/nadia`) | runs, approvals | start, approve, stop | two answers to one approval |
| Engines, decoding, retrieval, catalogue, markdown, command line, UIs, bridges | numeric or textual | | not concurrent protocols, see section 7 |

### How they interact

A chat request goes proxy -> gateway handler -> `Switchboard::enter`, which
yields a lease on a backend -> `AdmittingBackend::chat`, which takes a slot of
that model's `AdmissionScheduler`, then a permit of the process-wide GPU gate,
and streams. The stream's outcome feeds the controller, which moves the
scheduler's ceiling. The switchboard publishes what it keeps resident into the
ledger, and asks the ledger before it rebuilds an unloaded model; other gateways
decide on what they read there. `rozum launch` and other clients find or start
the gateway through the rendezvous and keep it alive with leases and a watchdog.
The meeting daemon is a process of its own; agents reach it through a proxy that
keeps their cursor. Between the components there are plain calls (handler,
switchboard, backend), shared memory under `Mutex`, `RwLock` and atomics (within
a gateway), and files, with advisory locks or none, a port and signals (between
processes).

### What makes each modelled component correct

* Scheduler: slots are conserved, no wake-up is lost, the queue order holds,
  every waiter is served; to its callers it is a counting semaphore.
* Backend: breaker and controller compose within the advertised capacity, no
  slot the breaker takes is lost, one stream is one sample, no wedge on the
  gate.
* Ledger: one admission at a time, what the gate granted stays within the
  budget, a primary is backed by its entry but for named windows, nobody is
  overtaken, the dead count for nothing, nobody waits for ever.
* Switchboard, while its operations do not overlap: nobody is served mid-swap,
  the cell is what the spec says, one rebuild per unload, busy warm models stay,
  only busy victims put a build over the budget, requests settle.
* Launch proxy: retries after a crash run alone, blame needs broken attempts,
  the damage of a turn is bounded (both but for streamed turns), every request
  is answered or refused.
* Rendezvous: the gateway that serves is on record but for two races, an
  attached launch gets a gateway back, every search ends.
* Rooms: message ids are unique but for named mishaps, polling misses nothing
  and never sleeps through a message, an ended room stays ended, every poll
  returns.
* Threads: the log gives back what the tools recorded; a lost file costs one
  change if the last copy was good.

## 2. Plan

Done in this order, most important behaviour first:

1. `AdmissionScheduler` with its abstract specification `SlotPool`;
2. `AdmittingBackend`, which uses the scheduler through `SlotPool`'s promise;
3. `ResidencyLedger`;
4. `Switchboard`;
5. `MeetingRoom` and `IncidentThreads`;
6. `LaunchProxy`;
7. `Rendezvous`;
8. proofs of every safety property the runs check (section 5).

Next:

9. `shed` and the value ordering of `plan_residency` as operators checked
   against reference definitions;
10. the merge patch of `task_state.rs`, cascade escalation, journal replay,
    nadia's approvals.

Abstract specifications: `SlotPool` exists and its refinement is proved. Worth
stating next: a one-primary specification that `Switchboard` implements (the
served model changes only when nobody is served), an atomic gate (grant and
release in one step) that the granted part of `ResidencyLedger` implements, and
an append-only log that `MeetingRoom` implements.

Theorems worth adding: those three refinements, and what the switchboard still
guarantees once two operations have overlapped.

## 3. Modules and the code

A definition carries the name of the function it models where TLA+ allows it;
`PROJECT.json` gives the lines. Definitions marked *Mutant* are plausible
faults; nothing uses them but the mutation runs.

**`AdmissionScheduler`** models the `State` struct and the methods of
`AdmissionScheduler`. One action is one critical section of the `Mutex`, except
the pump: the waiter's end of its channel is not under the lock, so a hand-over
is `PumpTake` (dead entries dropped, best waiter removed, slot taken) and then
`PumpSend` or `PumpUndo`, and `Abandon` and `Receive` interleave. Arrival is
`AdmitNow`, `Shed` or `Enqueue` by the code's conditions. A request's weight
stays a number, compared as the code compares it.

**`SlotPool`** is an adjustable counting semaphore: `Grant`, `Return`, `Move`.
The map is `holders <- Holders`, the requests whose guard exists wherever it is
(in the pump's hand, in the channel, with the caller).

**`AdmittingBackend`** models `chat()` per request and the controller per
resident. Folding a sample (`Record`) and pushing its result (`SetCeiling`) are
two actions, since they take two locks. RAM probes and latency only decide
whether a clean run is a green sample: that is a nondeterministic choice. The
count of greens saturates at `ProbeAfter`, beyond which it makes no difference.

**`ResidencyLedger`** models `acquire_residency` (lock, ticket, scan, decide,
reserve or park), preemption, `readmit_my_reservation`, the ways a process ends,
and everything that writes an entry without the admit lock: unload, the elastic
context (`GrowCheck`, `GrowPublish`, `GrowServe`, `Shrink`, `ShrinkWrite`), a
switch (`Switch` builds, `PublishSwitch` writes), a warm model (`WarmBuild`,
`PublishWarm`, `SweepWarm`), the embedder (`BillEmbedder`) and the task that
retires a dead backend (`Invalidate`, `PublishRetired`). Except for the context
and the embedder this is `republish_residency`, which writes what the cells hold
at that moment (`Republish`). A lock is held by its owner or free; the kernel
frees it at a crash. A shortening or renaming write may leave the file *torn*
until it is cut (`Cut`). `FailOpen` and `ReloadOpen` are the code's decisions to
load although the gate cannot be used. Four history variables say what a
property sets apart: `granted` (what the gate granted and no smaller entry gave
back), `unseen` (processes whose entry was torn when a scan met it), `undercut`
(an entry rewritten without the primary's share) and `before` (who had a ticket
first).

**`Switchboard`** models every path of a request (warm, primary, request-driven
switch) and of an operation on the primary between two awaits or lock
operations. A loaded backend is a copy `<<model, number>>` so that two builds of
one model are told apart and memory can be counted. `Hangup` is a client that
goes away: the handler is dropped at its await, so its guards are released and
no later statement runs. Utility only orders eviction candidates, so every
maximal choice that fits is allowed. The plan (`WarmPlan`, `PlanSwap`) and the
eviction (`WarmStart`, `StartSwap`) are two steps: in between, a lease may be
raised on a planned victim, which the eviction's second look at `inflight` then
keeps (`EvictPlanned`) while the build goes on. That second look and the removal
are one step here. `overlap` counts the operations on the primary that began
while another was under way: the code excludes that only among request-driven
switches (`SWAP_GATE`). The properties are stated for behaviours in which it has
not happened (`overlap = 0`), and the run `switchboard_overlap` shows what does
happen then.

**`MeetingRoom`** models one room. A *handle* is one `DaemonRoom` in memory; a
submit is three steps under the room's lock (`SubmitWrite` the line,
`SubmitMeta`, `SubmitDone` with the index and the wake-up), so that a crash or a
failed write can fall between any two of them. `wait_my_turn` is arm, look
(`WaitCheck`), sleep, wake or deadline, last look (`WaitExpire`), answer; the
proxy then reads from its cursor (`WaitRead`). `Evict`, `Crash` and `Connect`
drop and reopen the room from what is on disk (`FromDisk`). A failed submit may
have written nothing, part of the line, or all of it (its sync failed, so the
counter stays). `mishaps` records which of the known weaknesses has happened, so
that a property can say exactly which of them it survives: two `DaemonRoom`s on
one room (*forked*), a room founded again over its first line because there was
no `meta.json` yet (*refounded*), a line whose sync failed (*unsynced*), a torn
line and a failed save.

**`IncidentThreads`** models one thread: each tool changes it, writes
`threads.json` (the old one becomes the backup, unless the copy fails, which the
code ignores) and posts an event carrying the change (`PostEvent`), with a crash
or a refusal possible before the event. `Note` is `meeting.submit`: any kind of
message, worded like a tool's event or not. `Rebuild` is `rebuild_threads`:
first the wording of the messages (`Guessed`), then the recorded operations in
order (`Replayed`). Titles, severities and other text are left out.

**`LaunchProxy`** models `forward` for several requests, proxies and one daemon:
poison gate, slot, lane (shared, or exclusive after a crash), send, and by
outcome a stream, a shed, a wait for health or an attribution, which reads and
writes `poison.json` in two steps. For a streamed request the daemon sends its
headers before the prefill, so to the proxy the request is answered and the lane
free while the daemon still works on it (`serving`). The daemon is external: it
dies when it serves a killer prompt, may die on its own, and may stay down; a
connection may also break without a death (`Reset`), which the proxy blames
alike.

**`Rendezvous`** models clients and gateway processes around their shared files.
A launch is `ReadActive`, `ProbeActive`, `CountLeases`, then reuse, takeover
(`Kill`, `LookBehind`, `Unregister`) or `LaunchSpawns`; once attached, `Watch`
and the spawn lock. A finder is `ensure`: `Find`, `ReadStarting`, launchd or the
lock. A gateway waits for RAM with `starting.json` written, loads, binds,
registers, serves, and leaves by idling, yielding, draining, re-exec or death. A
switch, an unload or a lazy reload writes its record anew (`Republish`, the
code's `bump_and_republish`), also while it shuts down. `remove_active_if_mine`
is a look and a removal. A probe may miss a gateway that is there. Pids are not
reused, all gateways use the default port, leases of live clients are fresh
(heartbeats), and whether RAM is granted is open.

**`MC*`** give the small sets TLC needs; **`*Proofs`** hold the theorems.

Bounds: `MaxCeiling` (arguments of `set_limit`), `MaxErrors` (error items of one
stream), `LostTickets` (numbers up to which a ticket may fail to be created),
`Moves` (how often models of a process come and go outside the gate), `Overlaps`
(operations that may begin while another is under way), `Hangups`, `MaxCopies`
(copies of one model in memory); `MaxDay`, `MaxMsgs`, `MaxHandles`, `Pollers`;
`MaxOps`; `MaxTries`, `MaxKills`; `MaxDaemons`; and `MaxFaults` (crashes, failed
writes, kills). Requests, commands and processes each happen once.

## 4. Runs

| run | instance | shows |
|---|---|---|
| `admission` | 4 requests (two long, one middling, one for the fast lane), 2 slots, ceilings 0 to 3, queue of 2, fair | slot accounting, no lost wake-up, exact counters, refinement of `SlotPool`, every waiter served |
| `backend` | 2 residents, 3 requests, GPU gate 1, fair | one sample per stream, every chat with a slot ends |
| `backend_breaker` | 1 resident, 3 requests, gate 2, fair | the breaker's debt covered, the breaker heals |
| `ledger` | an elastic gateway and one with a second model to switch to and a warm one; both fit as they start, not once either has grown or switched; one such move each, pressure varies, fair | types, granted within the budget, primary backed by its entry, nobody overtaken, every load settles |
| `switchboard` | 2 requests for an unloaded model, 1 command of any kind, 3 models of weight 1, 1, 2 in a budget of 2, one hang-up, one operation at a time, fair | not served mid-swap, cell matches spec, one reload, busy warm stays, only busy victims over the budget, requests settle unless somebody hung up |
| `switchboard_overlap` | 1 request and 2 operators, one overlap | *violation*, below |
| `meeting` | 2 clients, one of them polling, 2 days, 2 messages, one `DaemonRoom` at a time, one fault, fair | types, unique ids but for named mishaps, nothing skipped, no sleeping through, ended stays ended, every poll returns |
| `meeting_ids` | 1 client, 2 messages, one fault | *violation*, below |
| `incidents` | 4 tool calls, 2 owners up to symmetry, one fault | types, the log rebuilds what tools recorded, counters match the log, a loss costs one change |
| `launch` | a killer turn twice through one proxy, a streamed killer through another, 2 slots, 2 tries, poison limit 2, one death of the daemon's own or broken connection, fair | types, retries alone, blame needs broken attempts, bounded damage, every request settles |
| `launch_blame` | 2 requests with one innocent prompt through one proxy, a streamed killer through another, 3 tries | *violation*, below |
| `rendezvous` | a launch and a finder for another model, with and without a launchd job, 2 gateway processes, one fault, fair | types, the serving gateway stays on record but for two races, failover, every search ends |

Why the bounds are enough for the interesting cases: four requests are two
running and two queued, so a slot can come back to a queue with a choice in it
while a third client leaves; two is the smallest limit at which the reserved
slot exists, and ceilings 0 and 3 reach the floor and both directions. Three
overlapping streams let two results of `record` cross while a third trips the
breaker. Two gateways are a holder and a decider that fit together until one
grows, switches or warms a model, so that every unlocked write can fall into the
other's admission. In the switchboard two requests race for the same warm build,
reload or gate while an operator switches; three models against a budget of two
force evictions, and every copy that can be alive at once fits `MaxCopies`. A
planned victim raised before its eviction arises there only for a swap (three
requests would be needed for a warm build); the proofs cover both. In a room two
messages over two days give a rollover and a reopening between two lines of one
day, and a poller whose cursor is on the first; one fault can fall into any of
the steps of either. Four tool calls reach a thread resolved, reopened,
escalated and resolved again. Two requests of a killer turn and a streamed one
are the smallest set with a retry in company, a second arrival after the count
and a death nobody can attribute through another proxy. Two gateway processes
are an old one and its successor; the one fault is the killed holder of the
spawn lock, the crash, the yield or the reload. `gateway stop` is in the module
and the proof, not in this run. The proofs of section 5 lift the safety
properties to all sizes.

`CHECK_DEADLOCK FALSE` stands where the system may really stop: every request,
command and process has had its one life. `admission` checks deadlock, since the
breaker can always move.

### Fairness

Fairness is assumed only of what the program or its runtime does by itself:

* scheduler: weak for the pump (a lock holder runs on) and for receiving a sent
  guard (the executor polls a woken future); strong for a release, which
  competes for a `Mutex` that is free again and again. Releasing presumes that a
  running request ends, which the serving timeouts ensure.
* backend: weak for a stream's own steps, the answer to an arrival and the
  timers; strong for the GPU permit, as tokio's semaphore is FIFO.
* ledger: weak for the steps of an admission; strong for `Deny` (the deadline of
  a load passes while it keeps coming back to the check) and for `ReLock` (the
  kernel queues blocking lock calls).
* switchboard: weak for each actor's next step and for the threads that drop
  backends; builds and generations end.
* rooms: weak for a poller's own steps, for its deadline (a timer), and for the
  append that holds the room's lock.
* launch proxy: weak for each request's steps in its proxy and for a live daemon
  ending what it was sent; the daemon need not come back.
* rendezvous: weak for every gateway's start, registration and shutdown and for
  every client that has begun (deadlines included), for the ageing of the lock
  file (the clock) and for launchd's restart. RAM may be refused again and
  again.

Nobody need arrive, disconnect, hang up, fail, crash, trip, sweep or command.

### Findings

* `switchboard_overlap` (`switchboard.rs:682`): operations on the primary share
  one `draining` flag; the first to end, or to time out, clears it under the
  other, and a request is served mid-swap although the comment at 64-65 excludes
  that.
* `meeting_ids` (`store.rs:673`): when a line is written and its flush or sync
  fails, the counter stays and the next message has the same `<date>/<n>`, which
  the comment at 207 calls "already unique per room".
* `launch_blame` (`proxy.rs:360`): a death with two requests in flight counts
  once for each, and whether it was ambiguous is decided when it is attributed;
  so it can reach `poison.json`, although `share.rs:207` says "Ambiguous crashes
  (concurrent in-flight) are never written here".

## 5. Proofs

All theorems are of the form `Spec => []P`, `Spec => [][A]_vars` or, for the
refinement, `Spec => PoolSpec`, and hold for every value of the constants that
satisfies the module's `ASSUME` (finite sets of actors, naturals where the code
has unsigned integers, a positive initial limit and capacity). No theorem
assumes more. What a property sets apart it names itself, through a history
variable (`overlap`, `undercut`, `unseen`, `mishaps`, `lost`).

Sums need induction over data. It is told as the impossibility of a smallest
counterexample: a nonempty set of naturals has a least element (`LeastExists`),
from the well-foundedness of `<`. The rebuild of a thread needs none: what the
recursion returns is carried along in the invariant.

**Sums** (in `ResidencyLedgerProofs` and `SwitchboardProofs`, each with what it
uses, so that each can be checked alone). `MapThenSumSet` is a fold that removes
a chosen element at a time. `IterExists` shows that the fold is defined on every
subset of a finite set, `IterSplit` that any element may be taken first, and
from these: a sum is a natural and splits off any element (`SumFacts`), grows
with its terms (`SumMono`) and its set (`SumSub`), is at most the sum of two
parts that cover it (`SumUnion`), and does not grow under a map that keeps
weights (`SumImage`).

**`AdmissionSchedulerProofs`.** `TypeOK` is inductive. For the queue,
`NoLostWakeup` alone is not: the pump must not lose a waiter between removing it
and sending. `QueueInv` adds that queued requests wait or have gone, that a
request is not in the queue and in the pump's hand at once, and that the pump
sends one guard at a time. `HoldersChange` then says that every step gains one
holder (within the limit), loses one, or changes none; from it follow
`SlotsExact`, `GrantsWithinLimit` and `ImplementsPool`, with the library's facts
on cardinality. `CountedOnce` (the published totals) comes from the same case
split: a hand-over counts, an undone one uncounts, and a guard that is dropped
stays counted. `NobodyOvertaken` rests on `NoLostWakeup`: `admit` need not look
at the queue because whoever is in it could not have used the slot.

**`AdmittingBackendProofs`.** `BreakerInv` adds to the two properties that a
result still to be pushed is within the advertised capacity, without which a
late `SetCeiling` could exceed it; `FoldBounds` bounds what `record` returns.
`SampledOnce` ties a stream's sample count to its stage and its errored flag.

**`ResidencyLedgerProofs`.** `GateInv`: whoever is between lock and decision is
the only holder of the admit lock, also when a process dies inside
(`OneAdmissionAtATime`). `HoldInv` adds, per stage, what a process holds and
what its entry says (`Backed`), and that a reserved process has its lock, which
gives `NeverServesUnreserved` and `DeadAreFree`. `TypeCorrect` includes that a
scan returns a natural (`LedgerSum`). `NobodyIsOvertaken` needs `InOrder`: who
came first has the smaller number for as long as both wait, whatever was reaped,
lost or renumbered in between; then only `Reserve` leads from the scan to a
reservation (`OnlyReserve`), and its look at the queue under the admit lock does
the rest. For `NeverOvercommits` the property alone is not inductive: a decider
trusts a sum it read earlier. `Fits` restates it as a sum or a lone grant, and
`Scanned` says that whoever is about to decide has counted at least what is
granted to the others now. `EasedOrTaken` is the case split behind it: a step
grants nothing, or it is the decision of the one process in the critical
section; a writer outside the lock grants nothing, whatever it writes, and the
entry a scan reads covers the grant in it.

**`SwitchboardProofs`.** All but the types speak of behaviours in which no two
operations on the primary have overlapped; `switchboard_overlap` shows why.
`overlap` only grows (`OverlapGrows`), so while it is 0 it has always been, and
each invariant is proved under that condition (`CoreInv`). `SwapInv` adds to
`NoServeMidSwap` that every entered request holds its token, that draining is
set during an operation and that there is one operation: token before look, flag
before wait. `CellInv` adds what the cell is at each stage of a reload and of a
swap, and that builds and warm entries are of the model they were asked for.
Hang-ups are included. `BusyWarmIsKept` needs `WarmInv`: who builds next to the
warm set has held its lock since the look that found no entry, and an attached
handle's lease is exactly its entry's copy, so a counted lease makes its model
busy and no eviction takes it; only a promotion or the old primary's return
replaces an entry, and that one is the primary's own. `BuildsFit` carries the
plan from the step that makes it to the eviction: what `plan_residency` keeps
fits next to what it must (`KeptFits`), and until the planner goes on nobody
adds to the warm set (`OnlyPlansBegin`, `PlanStays`, together `PlanInv`), though
leases come and go. The eviction leaves of the planned victims only the busy
ones (`EvictionSpares`); the cell, the new copy and the rest of the warm set are
copies of different models (`ResidentsFit`), so they weigh no more than the
models the plan summed up. When even the mandatory models do not fit, no idle
one is left.

**`LaunchProxyProofs`.** `SendInv` ties attempts and crashes to the place of a
request (who is to be sent has an attempt left, each crash used one) and says
that two requests of one proxy on the lane have not crashed; `RetrySerialized`
follows, since the daemon works only on what waits for its headers, was given up
or is streamed (`WorkInv`). `BlameInv`: a count plus the crashes still to be
attributed is at most the broken attempts with the prompt; what is in
`poison.json`, in a copy of it or about to be recorded has enough of them; and
the damage of a killer that is not streamed is at most its count plus the
requests that ended without attribution, while a count past `poison_max` has
refused a request for each unit. The last two sets of requests are disjoint,
which gives `DamageBounded`. `Requests` is assumed finite. A streamed killer is
outside `DamageBounded` and streamed requests outside `RetrySerialized`: the
code bounds and serializes neither (section 6).

**`RendezvousProofs`.** `RecordKept` needs `ClientInv`: a client that looked at
the registry has a pid in hand, what it killed never serves again, and each kind
of client keeps to its path. Without it an `Unregister` could remove the record
of a gateway that still serves. A gateway whose record was taken by a look and a
removal around its registration, or by a predecessor that published its own
again while shutting down, is exempt by name (`lost`) until it registers or
publishes again. `TypeOK` carries that whoever is bound, serving or stopping
owns the port, hence that one gateway serves.

**`MeetingRoomProofs`.** One inductive invariant, `IInv`, carries all five
properties. `LockInv`: who is in the middle of an append holds its handle's lock
alone. `OwnInv`: unless the room forked, one `DaemonRoom` can be written through
and it knows of an ending on disk (hence `EndingIsFinal`). `SingleInv`: unless
it forked, was founded again or a sync failed, its counter plus the line it is
appending is the number of lines of the day, and the i-th line has number i - 1
(hence `IdsAreUnique`). `TimeInv`: no day is written before it has come.
`ReadInv`: the active day is the last one with a line, every cursor and every
answer under way is a position that all messages to come are at or after, and
what lies before a cursor was seen, acknowledged or not (hence
`NothingIsSkipped`); this part is said while nothing went wrong but a failed
save, so not of a poll that timed out on a message it had not looked for
(`late`). `NoSleepThrough` is a conjunct: arming comes before the look, and
every append that counts notifies.

**`IncidentThreadsProofs`.** `RebuildExact` is about a recursion over a log that
grows. `LogInv` carries what the two passes end with on the log as it is, from
whatever thread they start (`GuessInv`, `ReplayInv`); one more message extends
every trace of a pass by one application of `Guess` or `Replay`, so the
invariant is kept without unfolding the recursion, and `GuessedTraces` and
`ReplayedTraces` show that `Rebuild` is such a trace. The wording of a message
submitted by hand can set a state or an owner, but the second pass overrides it
where some tool recorded one; that is what `RebuildExact` compares. `ExactInv`
says that the copies of the thread are one and are what the log and the event
still to be posted say (`Told`), counters included: the escalations and
reopenings of a longer log are those of the shorter one, or one more
(`CountsAppend`). `TypeOK` bounds the reopenings by the clock; that is inductive
because each reopening takes two changes of state (`Pot`). `LossInv` keeps the
file up to date with the log and the backup, unless the last copy to it failed,
one change behind, which is `LossCostsOne`.

Proved without a run of their own, since the proof covers every instance: that
no waiter is orphaned, grants stay within the limit, the pump's order, that
admit overtakes nobody, the advertised capacity, exclusive admission, that the
dead count for nothing, and the types of scheduler, backend and switchboard.

Only model-checked: liveness (`EveryWaiterServed`, `EveryChatEnds`,
`BreakerHeals`, `EveryLoadSettles`, `SettlesUnlessHungUp`, `WaitReturns`,
`EveryRequestSettles`, `Failover`, `SearchEnds`), since fairness and `ENABLED`
are out of the prover's reach.

## 6. Seen in the code, without a run

Places where the code does less than a comment, a document or a reader expects.
Most are behaviours of the models, which a property then exempts by name or does
not speak of; the ones marked (noted) were only read in the source.

Scheduler and backend:

* The queue bound counts clients that have gone (`concurrency.rs:300`): a live
  request may be shed while dead entries fill the queue.
* The latency baseline is read and written under two acquisitions of its lock
  (`concurrency.rs:888`) (noted).
* `set_ceiling(record(..))` is not atomic (`concurrency.rs:650`): a late result
  overwrites a newer one, and the breaker recovers to a ceiling the controller
  has given up, until the next sample.

Ledger:

* A preemption request outlives the load that wrote it (`share.rs:1298`).
* A context grows (`mlx_native_backend.rs:755`), a switch and a warm model are
  built (`switchboard.rs:616`, 760, 960) and an embedder is billed
  (`share.rs:642`) without the admit lock, the last three before the entry shows
  them: an admission at the same time overcommits the host. `NoOvercommit`
  speaks of what the gate granted.
* The task that retires a dead backend writes what the cells hold when it ends
  (`switchboard.rs:1069`); if a reload was granted meanwhile, its reservation is
  erased. A republish also forgets a grown context. `ReservedBeforeServed` names
  both (`undercut`).
* With multislot off a switch never writes the entry (noted).
* While a shorter entry is being cut the whole process reads as zero
  (`share.rs:621`), not only the part that was freed.

Switchboard:

* `enter` and `ensure_warm` compare with the primary before taking the warm lock
  (`switchboard.rs:595`): a model that has just become the primary may be loaded
  a second time. `BusyWarmStays` and `BuildFits` set such copies apart.
* Nothing clears `draining` when the client of an operation goes away
  (`switchboard.rs:742`); later chats park until some other operation ends.
* A republish during a lazy reload erases the reservation that reload has just
  been granted (`switchboard.rs:410`).
* A warm backend that fails makes the handler invalidate the primary
  (`gateway.rs:938`); a late failure invalidates a rebuilt one
  (`switchboard.rs:1056`).
* A lease raised between the plan and the eviction (`switchboard.rs:581` and
  605, 926 and 949) keeps a planned victim, and the build goes on over the
  budget. `BuildFits` says that only such victims do.
* Evicted models are dropped on other threads, so a build may start while they
  are still in memory (`switchboard.rs:960`).
* Leases on a promoted warm model are no longer counted (`switchboard.rs:898`).
* After a request-driven switch another switch may come first, and the request
  is answered by a model it did not name (`switchboard.rs:463`).
* The token of a request whose client leaves during a reload is never returned
  (`switchboard.rs:661`): every later drain times out.
* The embedder's addition to the reservation is overwritten by the next
  republish (`embedder.rs:204`); in `ResidencyLedger`, where no property counts
  it.

Rooms and threads:

* `evict_idle` (`registry.rs:124`) drops a room that connections still hold; the
  next join opens a second `DaemonRoom` on the same files, and both number lines
  for themselves. `UniqueIds` sets this apart (`forked`); `MaxHandles = 2` makes
  it reachable.
* A daemon that stops after the first line of a new room and before its first
  `meta.json` founds the room again and numbers from 0 (`registry.rs:62`).
  `UniqueIds` sets this apart (`refounded`), and the failed sync of run
  `meeting_ids` (`unsynced`).
* A poll that times out returns a high-water read after its last look
  (`daemon.rs:1184`); a message posted in between is skipped by that client.
  `NothingSkipped` sets it apart (`late`).
* A line written in part is completed by the next one, and both are unreadable;
  a write that fails after midnight leaves the high-water at the new day.
* A submit whose line is written but whose `meta.json` is not answers with an
  error for a message that is stored.
* The drop of a poll's guard is a spawned task and may clear the marker of the
  client's next poll.
* The copy of `threads.json` to its backup may fail unnoticed (`store.rs:738`),
  and the backup is then more than one change behind.
* A message submitted by hand as an event and worded like a tool's sets the
  rebuilt owner or state where no tool recorded one (`store.rs:1058`).
* A tool call in a paused or ended room changes the thread and its event is
  refused; a repair beside a running daemon is overwritten by it; a rebuilt
  thread has other counters and times than the one that was lost
  (`store.rs:1128`).

Launch proxy and rendezvous:

* A crash is attributed to the sole request of its own proxy (`proxy.rs:361`),
  but the daemon is shared: an innocent prompt of another proxy can be recorded
  machine-wide, against `share.rs:207` (see run `launch_blame`).
* A streamed request has its 200 before the prefill (`gateway.rs:1026`): a
  streamed killer clears its own count (`proxy.rs:339`) and then kills the
  daemon unattributed, any number of times, and a streamed retry leaves the
  exclusive lane before the daemon works on it.
* Two proxies that write `poison.json` at once lose one entry (`share.rs:262`).
* `remove_active_if_mine` (`share.rs:78`) looks and removes in two steps. A
  gateway that registers in between loses its record, although the comment says
  "so a process never deletes a newer gateway's record on its way out".
  `RecordKept` exempts exactly the gateway that lost its record so (`lost`).
* A gateway that is shutting down still writes its record at a switch, an unload
  or a reload (`switchboard.rs:353`), over its successor's, and then removes it.
* The spawn lock may be stolen after 120 s while `ensure` holds it up to 300 s,
  and its guard then removes the thief's file (`share.rs:302`). The port still
  keeps two gateways from serving.
* A launch whose own gateway lost the port is told the model it asked for,
  whoever answers (`main.rs:4243`).
* A launch writes its lease after it decided to reuse a gateway (`main.rs:4194`,
  3668); another launch may take that gateway over in between.
* Between admission and the bind a loading gateway is not visible to `ensure`,
  which then starts another.
* `generation` restarts at 1 after an exit that removed the record, although
  `gateway.rs:1692` says that it changes monotonically across restarts.

## 7. Not modelled

Within the modelled components: the choice of draft models, statistics that are
only read, the wording of refusals, and the clock (a deadline passes when it
passes, and dates do not go back). Processes acquire residency once in their
life, as the callers do. Of the ledger: a switch that keeps or promotes a warm
model, more than one model beside the primary, memory still held by a copy that
is being dropped, and the window between reading and writing an entry in
`adjust_own_footprint`. Of the switchboard: `ROZUM_MULTISLOT=0`, and a lease
raised between the eviction's second look and the removal. Of the threads: the
wording of the anchor message and the repair of a room without messages. Of the
rooms: the roster and its handles, responding markers, retention, the registry
of rooms on disk and the budgets. Of the rendezvous: `--port`, `--gateway-url`,
callers of `ensure` that only look, a reused pid, and the generation number. Of
the launch proxy: headers, the decode policy, the injected room note, and the
hour after which a shared entry expires.

Left out as beyond a model checker or without control of their own: inference
engines, constrained decoding, sampling and prompt formats (numeric and textual
functions), retrieval, the model catalogue and downloads (I/O), the generated
markdown parser, command line, sandbox profiles, user interfaces and bridges.
Planned but not there yet: items 9 and 10 of section 2.
