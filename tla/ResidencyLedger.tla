--------------------------- MODULE ResidencyLedger ---------------------------
(***************************************************************************)
(* The host-wide RAM ledger of crates/rozum-core/src/share.rs.  Every      *)
(* gateway process reserves the footprint of its model in a file of its    *)
(* own before loading; the lock on a second file, dropped by the kernel    *)
(* when the process dies, says whether the reservation is alive.           *)
(* Admission (queue, scan, decide, reserve) runs under one admit lock;     *)
(* every other update of a reservation does not, and neither does an exit  *)
(* or a crash: an elastic context, a switch, a warm model, the embedder    *)
(* and the retirement of a dead backend write the entry as they please.    *)
(*                                                                         *)
(* A process acquires once in its life, as the callers do (a refused       *)
(* process exits), so a pid is not reused within a behaviour.              *)
(***************************************************************************)
EXTENDS Naturals, FiniteSets, FiniteSetsExt

CONSTANTS
    Procs,      \* gateway processes
    Footprint,  \* what each process asks for at its start
    Other,      \* the footprint of the model it can switch to, 0 for none
    Growth,     \* what a grown context adds, 0 with ROZUM_ELASTIC_CTX off
    Extra,      \* the footprint of its warm model or embedder, 0 for none
    Prio,       \* residency_prio: 0 interactive, 1 batch
    Budget,     \* host_ram_budget_bytes
    MinFree,    \* min_free_ram_bytes
    Avail,      \* the values available_ram_for_admission can measure
    Pressure,   \* the levels read_host_pressure can report
    LostTickets,\* bound: numbers up to which a ticket can fail to be created
    Moves       \* bound: how often models of each come and go outside the gate

ASSUME LedgerAssumption ==
    /\ IsFiniteSet(Procs)
    /\ Footprint \in [Procs -> Nat \ {0}] /\ Other \in [Procs -> Nat]
    /\ Growth \in [Procs -> Nat] /\ Extra \in [Procs -> Nat]
    /\ Prio \in [Procs -> {0, 1}]
    /\ Budget \in Nat /\ MinFree \in Nat
    /\ Avail \subseteq Nat /\ Avail # {}
    /\ Pressure \subseteq {"normal", "pressed"} /\ Pressure # {}
    /\ LostTickets \in Nat /\ Moves \in [Procs -> Nat]

VARIABLES
    pc,       \* where the primary model of each process stands
    life,     \* residents/.<pid>.lock: none, held by its owner, or free
    file,     \* residents/<pid>: none, whole, or torn by a shortening write
    entry,    \* footprint_bytes of the entry
    size,     \* the footprint of the primary's model
    actual,   \* the memory the primary really holds
    want,     \* what a reload asks for
    side,     \* the warm model or the embedder beside the primary
    retiring, \* processes whose retired backend is still being dropped
    moves,    \* counts up to Moves, for each process
    admit,    \* holders of residency.lock
    ticket,   \* waiters/: none, held by its owner, or stale
    seq,      \* number of each ticket
    next_seq, \* waiters/.seq
    in_use,   \* what each process summed up in its last scan
    preempt,  \* processes with a file in preempt/
    host,     \* kernel memory pressure: normal or pressed
    avail,    \* available RAM
    before,   \* history: <<q, p>> when q had a ticket as p got its own
    granted,  \* history: what the gate granted, 0 after a smaller entry
    unseen,   \* history: processes a scan met while their entry was torn
    undercut  \* history: processes whose entry lost the primary's share

diskVars == <<life, file, entry>>
modelVars == <<size, actual, want>>
sideVars == <<side, retiring, moves>>
queueVars == <<ticket, seq, next_seq, before>>
hostVars == <<host, avail>>
ghostVars == <<granted, unseen, undercut>>
vars == <<pc, diskVars, modelVars, sideVars, admit, queueVars, in_use, preempt, hostVars, ghostVars>>

Acquiring == {"try", "locked", "scanned", "ask", "parked"}
(* The cell holds a primary. *)
Loaded == {"resident", "growing", "published", "big", "lowered"}
(* The switchboard runs, with or without a primary. *)
Running ==
    Loaded \cup {"freed", "idle", "re_try", "re_locked", "re_scanned", "reloading", "switching"}
Reserved == Running \cup {"reserved"}
Stages == Acquiring \cup Reserved \cup {"off", "open", "denied", "dead"}

(* What a scan counts for q: a free lifetime lock means a dead owner, an   *)
(* entry that does not parse counts as 0.                                  *)
Visible(q) == IF life[q] = "held" /\ file[q] = "whole" THEN entry[q] ELSE 0

SumOthers(p) == MapThenSumSet(Visible, Procs \ {p})

(* resident_is_live reaps what a dead owner left behind. *)
Orphans == {q \in Procs : life[q] = "free"}
ReapedLife == [q \in Procs |-> IF q \in Orphans THEN "none" ELSE life[q]]
ReapedFile == [q \in Procs |-> IF q \in Orphans THEN "none" ELSE file[q]]

(* The reservations a scan by p cannot read. *)
Torn(p) == {q \in Procs \ {p} : life[q] = "held" /\ file[q] = "torn"}

LedgerFits(sum, fp) == sum = 0 \/ sum + fp <= Budget

(* admits(): ledger, measured free RAM and kernel pressure. *)
Admits(sum, fp, free) ==
    LedgerFits(sum, fp) /\ fp + MinFree <= free /\ host = "normal"

Init ==
    /\ pc = [p \in Procs |-> "off"]
    /\ life = [p \in Procs |-> "none"] /\ file = [p \in Procs |-> "none"]
    /\ entry = [p \in Procs |-> 0] /\ size = Footprint
    /\ actual = [p \in Procs |-> 0] /\ want = [p \in Procs |-> 0]
    /\ side = [p \in Procs |-> "none"] /\ retiring = {} /\ moves = [p \in Procs |-> 0]
    /\ admit = {} /\ ticket = [p \in Procs |-> "none"]
    /\ seq = [p \in Procs |-> 0] /\ next_seq = 0
    /\ in_use = [p \in Procs |-> 0] /\ preempt = {}
    /\ host \in Pressure /\ avail \in Avail
    /\ before = {} /\ granted = [p \in Procs |-> 0] /\ unseen = {} /\ undercut = {}

(* write_resident_entry without the admit lock: a body shorter than the    *)
(* old one is followed by the old one's tail until that is cut off.  More  *)
(* bytes under the same model name never are.                              *)
Write(p, v, renamed) ==
    /\ entry' = [entry EXCEPT ![p] = v]
    /\ \E f \in {"whole", "torn"} :
         /\ file' = [file EXCEPT ![p] = f]
         /\ f = "torn" => renamed \/ v < entry[p]
    /\ granted' = [granted EXCEPT ![p] = IF v < @ THEN 0 ELSE @]
    /\ UNCHANGED <<life, unseen>>

Cut(p) ==
    /\ life[p] = "held" /\ file[p] = "torn"
    /\ file' = [file EXCEPT ![p] = "whole"]
    /\ UNCHANGED <<pc, life, entry, modelVars, sideVars, admit, queueVars, in_use, preempt,
                   hostVars, ghostVars>>

-----------------------------------------------------------------------------
(* acquire_residency *)

Others == UNCHANGED <<modelVars, sideVars>>

Start(p) ==
    /\ pc[p] = "off"
    /\ pc' = [pc EXCEPT ![p] = "try"]
    /\ Others /\ UNCHANGED <<diskVars, admit, queueVars, in_use, preempt, hostVars, ghostVars>>

Queued == {q \in Procs : ticket[q] = "held"}

(* Mutant: the counter is not written back. *)
EnqueueUnsaved(p) ==
    IF ticket[p] = "none"
      THEN /\ seq' = [seq EXCEPT ![p] = next_seq + 1]
           /\ ticket' = [ticket EXCEPT ![p] = "held"]
           /\ before' = before \cup {<<q, p>> : q \in Queued}
           /\ UNCHANGED next_seq
      ELSE UNCHANGED queueVars

(* enqueue_waiter, unless p already has its place. *)
Enqueue(p) ==
    IF ticket[p] = "none"
      THEN /\ next_seq' = next_seq + 1
           /\ seq' = [seq EXCEPT ![p] = next_seq + 1]
           /\ ticket' = [ticket EXCEPT ![p] = "held"]
           /\ before' = before \cup {<<q, p>> : q \in Queued}
      ELSE UNCHANGED queueVars

Without(p) == {b \in before : b[1] # p /\ b[2] # p}

(* WaiterTicket::drop removes the ticket of a process that leaves. *)
LeaveQueue(p) ==
    /\ ticket' = [ticket EXCEPT ![p] = "none"]
    /\ seq' = [seq EXCEPT ![p] = 0] /\ before' = Without(p)

(* try_lock on residency.lock succeeds. *)
TakeAdmit(p) == admit = {} /\ admit' = {p}

LockAdmit(p) ==
    /\ pc[p] = "try" /\ TakeAdmit(p) /\ Enqueue(p)
    /\ pc' = [pc EXCEPT ![p] = "locked"]
    /\ Others /\ UNCHANGED <<diskVars, in_use, preempt, hostVars, ghostVars>>

(* The ticket cannot be created: its number is spent, p has no place. *)
LockUnqueued(p) ==
    /\ pc[p] = "try" /\ ticket[p] = "none" /\ next_seq < LostTickets
    /\ TakeAdmit(p) /\ next_seq' = next_seq + 1
    /\ pc' = [pc EXCEPT ![p] = "locked"]
    /\ Others /\ UNCHANGED <<diskVars, ticket, seq, before, in_use, preempt, hostVars, ghostVars>>

(* scan_residents. *)
TakeStock(p) ==
    /\ in_use' = [in_use EXCEPT ![p] = SumOthers(p)]
    /\ life' = ReapedLife /\ file' = ReapedFile
    /\ unseen' = unseen \cup Torn(p)
    /\ UNCHANGED <<entry, granted, undercut>>

Scan(p) ==
    /\ pc[p] = "locked" /\ TakeStock(p)
    /\ pc' = [pc EXCEPT ![p] = "scanned"]
    /\ Others /\ UNCHANGED <<admit, queueVars, preempt, hostVars>>

(* scan_waiters drops the tickets of the dead. *)
ReapedTickets == [q \in Procs |-> IF ticket[q] = "stale" THEN "none" ELSE ticket[q]]

(* Mutant: strict priority is forgotten, the smallest number goes first. *)
AheadBySeq(a, b) == seq[a] < seq[b]

(* a's ticket is served before b's. *)
Ahead(a, b) == Prio[a] < Prio[b] \/ (Prio[a] = Prio[b] /\ seq[a] < seq[b])

(* pick_front_that_fits picks p; without a ticket p only has to fit. *)
MyTurn(p) ==
    /\ Admits(in_use[p], Footprint[p], avail)
    /\ ticket[p] = "held" =>
         \A q \in Procs \ {p} :
           (ticket[q] = "held" /\ Admits(in_use[p], Footprint[q], avail)) => Ahead(p, q)

Grant(p, v) ==
    /\ granted' = [granted EXCEPT ![p] = v]
    /\ unseen' = unseen \ {p} /\ undercut' = undercut \ {p}

(* It is our turn: reserve, leave the queue, release the admit lock. *)
Reserve(p) ==
    /\ pc[p] = "scanned" /\ MyTurn(p)
    /\ life' = [life EXCEPT ![p] = "held"]
    /\ file' = [file EXCEPT ![p] = "whole"]
    /\ entry' = [entry EXCEPT ![p] = Footprint[p]]
    /\ ticket' = [ReapedTickets EXCEPT ![p] = "none"]
    /\ seq' = [seq EXCEPT ![p] = 0] /\ before' = Without(p)
    /\ admit' = {} /\ in_use' = [in_use EXCEPT ![p] = 0]
    /\ Grant(p, Footprint[p])
    /\ pc' = [pc EXCEPT ![p] = "reserved"]
    /\ Others /\ UNCHANGED <<next_seq, preempt, hostVars>>

(* Not our turn: the admit lock is released.  An interactive load then     *)
(* looks for a victim.                                                     *)
Park(p) ==
    /\ pc[p] = "scanned" /\ ~MyTurn(p)
    /\ ticket' = ReapedTickets
    /\ admit' = {}
    /\ IF Prio[p] = 0
         THEN pc' = [pc EXCEPT ![p] = "ask"] /\ UNCHANGED in_use
         ELSE /\ pc' = [pc EXCEPT ![p] = "parked"]
              /\ in_use' = [in_use EXCEPT ![p] = 0]
    /\ Others /\ UNCHANGED <<diskVars, seq, next_seq, before, preempt, hostVars, ghostVars>>

Less(n, m) == IF n < m THEN 0 ELSE n - m    \* saturating_sub

(* pick_preempt_victim: the smallest resident of strictly lower priority   *)
(* whose memory would make room.                                           *)
Helps(p, v) ==
    /\ v # p /\ life[v] = "held" /\ file[v] = "whole" /\ Prio[v] > Prio[p]
    /\ Admits(Less(in_use[p], entry[v]), Footprint[p], avail + entry[v])
Victims(p) == {v \in Procs : Helps(p, v) /\ \A u \in Procs : Helps(p, u) => entry[v] <= entry[u]}

AskVictim(p) ==
    /\ pc[p] = "ask"
    /\ IF Victims(p) = {} THEN UNCHANGED preempt
       ELSE \E v \in Victims(p) : preempt' = preempt \cup {v}
    /\ in_use' = [in_use EXCEPT ![p] = 0]
    /\ life' = ReapedLife /\ file' = ReapedFile    \* scan_residents_prio
    /\ pc' = [pc EXCEPT ![p] = "parked"]
    /\ Others /\ UNCHANGED <<entry, admit, queueVars, hostVars, ghostVars>>

(* wait_for_change ends: an event, or the two-second cap. *)
Retry(p) ==
    /\ pc[p] = "parked"
    /\ pc' = [pc EXCEPT ![p] = "try"]
    /\ Others /\ UNCHANGED <<diskVars, admit, queueVars, in_use, preempt, hostVars, ghostVars>>

(* The deadline has passed, after a fruitless turn or with the admit lock  *)
(* busy; the clock itself is left out.                                     *)
Deny(p) ==
    /\ pc[p] = "parked" \/ (pc[p] = "try" /\ admit # {})
    /\ LeaveQueue(p)
    /\ pc' = [pc EXCEPT ![p] = "denied"]
    /\ Others /\ UNCHANGED <<diskVars, admit, next_seq, in_use, preempt, hostVars, ghostVars>>

(* A lock file cannot be opened or locked, or the reservation cannot be    *)
(* written: the load proceeds outside the ledger.                          *)
FailOpen(p) ==
    /\ pc[p] = "try" \/ (pc[p] = "scanned" /\ MyTurn(p))
    /\ LeaveQueue(p)
    /\ admit' = admit \ {p}
    /\ in_use' = [in_use EXCEPT ![p] = 0]
    /\ pc' = [pc EXCEPT ![p] = "open"]
    /\ Others /\ UNCHANGED <<diskVars, next_seq, preempt, hostVars, ghostVars>>

-----------------------------------------------------------------------------
(* The primary model. *)

Move(p) == moves[p] < Moves[p] /\ moves' = [moves EXCEPT ![p] = @ + 1]

Quiet == UNCHANGED <<admit, queueVars, in_use, preempt, hostVars>>
DiskQuiet == UNCHANGED <<diskVars, ghostVars>>

Load(p) ==
    /\ pc[p] \in {"reserved", "reloading"}
    /\ actual' = [actual EXCEPT ![p] = size[p]]
    /\ pc' = [pc EXCEPT ![p] = "resident"]
    /\ Quiet /\ DiskQuiet /\ UNCHANGED <<size, want, sideVars>>

(* published_for: the primary while it is loaded, and the warm model. *)
Total(p) == (IF pc[p] \in Loaded THEN size[p] ELSE 0) + (IF side[p] = "warm" THEN Extra[p] ELSE 0)

(* The lock on the warm models is free: ensure_warm keeps it for a build.  *)
WarmFree(p) == side[p] # "built"

(* republish_residency: the switchboard writes what it has in its cells.   *)
(* A grown context and a model being loaded are in none of them.           *)
Republish(p, renamed) ==
    /\ Write(p, Total(p)', renamed)
    /\ undercut' = IF pc'[p] \in {"reloading", "published", "big"} THEN undercut \cup {p}
                                                                 ELSE undercut \ {p}

(* Mutant: the release is published before the memory is free. *)
UnloadPublishFirst(p) ==
    /\ pc[p] \in {"resident", "big"}
    /\ pc' = [pc EXCEPT ![p] = "freed"]
    /\ Quiet /\ UNCHANGED <<modelVars, sideVars>>
    /\ Republish(p, FALSE)

(* Switchboard::unload: the memory is freed, and only then published as    *)
(* free.                                                                   *)
Unload(p) ==
    /\ pc[p] \in {"resident", "big"}
    /\ actual' = [actual EXCEPT ![p] = 0]
    /\ pc' = [pc EXCEPT ![p] = "freed"]
    /\ Quiet /\ DiskQuiet /\ UNCHANGED <<size, want, sideVars>>

PublishUnload(p) ==
    /\ pc[p] = "freed" /\ WarmFree(p)
    /\ pc' = [pc EXCEPT ![p] = "idle"]
    /\ Quiet /\ UNCHANGED <<modelVars, sideVars>>
    /\ Republish(p, FALSE)

(* Mutant: the reload takes its memory back without asking. *)
ReloadUnasked(p) ==
    /\ pc[p] = "idle"
    /\ entry' = [entry EXCEPT ![p] = size[p]] /\ Grant(p, size[p])
    /\ pc' = [pc EXCEPT ![p] = "reloading"]
    /\ Quiet /\ UNCHANGED <<life, file, modelVars, sideVars>>

(* A request arrives while unloaded: ensure_loaded sums up what it will    *)
(* have, and asks readmit_my_reservation for it.                           *)
Reload(p) ==
    /\ pc[p] = "idle" /\ WarmFree(p)
    /\ pc' = [pc EXCEPT ![p] = "re_try"]
    /\ want' = [want EXCEPT ![p] = size[p] + Total(p)]
    /\ Quiet /\ DiskQuiet /\ UNCHANGED <<size, actual, sideVars>>

ReLock(p) ==
    /\ pc[p] = "re_try" /\ TakeAdmit(p)
    /\ pc' = [pc EXCEPT ![p] = "re_locked"]
    /\ Others /\ UNCHANGED <<diskVars, queueVars, in_use, preempt, hostVars, ghostVars>>

ReScan(p) ==
    /\ pc[p] = "re_locked" /\ TakeStock(p)
    /\ pc' = [pc EXCEPT ![p] = "re_scanned"]
    /\ Others /\ UNCHANGED <<admit, queueVars, preempt, hostVars>>

Readmit(p) ==
    /\ pc[p] = "re_scanned"
    /\ admit' = {} /\ in_use' = [in_use EXCEPT ![p] = 0] /\ want' = [want EXCEPT ![p] = 0]
    /\ IF LedgerFits(in_use[p], want[p]) /\ host = "normal"
         THEN /\ entry' = [entry EXCEPT ![p] = want[p]]
              /\ file' = [file EXCEPT ![p] = "whole"]
              /\ Grant(p, want[p])
              /\ pc' = [pc EXCEPT ![p] = "reloading"]
         ELSE pc' = [pc EXCEPT ![p] = "idle"] /\ UNCHANGED <<file, entry, ghostVars>>
    /\ UNCHANGED <<life, size, actual, sideVars, queueVars, preempt, hostVars>>

(* The admit lock cannot be opened: the reload proceeds without its share. *)
ReloadOpen(p) ==
    /\ pc[p] = "re_try" /\ Move(p)
    /\ pc' = [pc EXCEPT ![p] = "reloading"] /\ want' = [want EXCEPT ![p] = 0]
    /\ undercut' = undercut \cup {p}
    /\ Quiet /\ UNCHANGED <<diskVars, size, actual, side, retiring, granted, unseen>>

(* The model does not load again: its reservation is given back. *)
ReloadFails(p) ==
    /\ pc[p] = "reloading" /\ WarmFree(p)
    /\ pc' = [pc EXCEPT ![p] = "idle"]
    /\ Quiet /\ UNCHANGED <<modelVars, sideVars>>
    /\ Republish(p, FALSE)

(* switch, to a model that cannot be kept beside the old one: the idle     *)
(* warm model and the old model are dropped, the new one is built, the     *)
(* entry comes last, and nobody is asked.                                  *)
DropForSwitch(p) ==
    /\ pc[p] \in {"resident", "big", "idle"} /\ Other[p] > 0 /\ WarmFree(p) /\ Move(p)
    /\ side' \in {side, [side EXCEPT ![p] = IF @ = "warm" THEN "none" ELSE @]}
    /\ Quiet /\ DiskQuiet /\ UNCHANGED <<want, retiring>>

Switch(p) ==
    /\ DropForSwitch(p)
    /\ size' = [size EXCEPT ![p] = IF @ = Footprint[p] THEN Other[p] ELSE Footprint[p]]
    /\ actual' = [actual EXCEPT ![p] = size'[p]]
    /\ pc' = [pc EXCEPT ![p] = "switching"]

PublishSwitch(p) ==
    /\ pc[p] = "switching" /\ WarmFree(p)
    /\ pc' = [pc EXCEPT ![p] = "resident"]
    /\ Quiet /\ UNCHANGED <<modelVars, sideVars>>
    /\ Republish(p, TRUE)

(* The build fails: back to the old model, unloaded; nothing is written. *)
SwitchFails(p) ==
    /\ DropForSwitch(p)
    /\ actual' = [actual EXCEPT ![p] = 0] /\ UNCHANGED size
    /\ pc' = [pc EXCEPT ![p] = "idle"]

(* grow_context: dry_run_admission, without the admit lock ... *)
GrowCheck(p) ==
    /\ pc[p] = "resident" /\ Growth[p] > 0 /\ Move(p)
    /\ Admits(SumOthers(p), size[p] + Growth[p], avail)
    /\ life' = ReapedLife /\ file' = ReapedFile
    /\ pc' = [pc EXCEPT ![p] = "growing"]
    /\ Quiet /\ UNCHANGED <<entry, modelVars, side, retiring, ghostVars>>

(* ... then the reservation, for this model alone, then the context. *)
GrowPublish(p) ==
    /\ pc[p] = "growing"
    /\ Write(p, size[p] + Growth[p], FALSE) /\ undercut' = undercut \ {p}
    /\ pc' = [pc EXCEPT ![p] = "published"]
    /\ Quiet /\ Others

GrowServe(p) ==
    /\ pc[p] = "published"
    /\ actual' = [actual EXCEPT ![p] = size[p] + Growth[p]]
    /\ pc' = [pc EXCEPT ![p] = "big"]
    /\ Quiet /\ DiskQuiet /\ UNCHANGED <<size, want, sideVars>>

(* shrink_context: the served context first, then the reservation. *)
Shrink(p) ==
    /\ pc[p] = "big"
    /\ actual' = [actual EXCEPT ![p] = size[p]]
    /\ pc' = [pc EXCEPT ![p] = "lowered"]
    /\ Quiet /\ DiskQuiet /\ UNCHANGED <<size, want, sideVars>>

ShrinkWrite(p) ==
    /\ pc[p] = "lowered"
    /\ Write(p, size[p], FALSE) /\ undercut' = undercut \ {p}
    /\ pc' = [pc EXCEPT ![p] = "resident"]
    /\ Quiet /\ Others

-----------------------------------------------------------------------------
(* Beside the primary *)

(* ensure_warm: the plan fits this process's share of the budget as of now *)
(* (an eviction of other warm models is left out), the model is built, and *)
(* the entry comes last.                                                   *)
WarmBuild(p) ==
    /\ pc[p] \in Running /\ side[p] = "none" /\ Extra[p] > 0 /\ Move(p)
    /\ size[p] + Extra[p] <= Less(Budget, SumOthers(p))
    /\ life' = ReapedLife /\ file' = ReapedFile
    /\ side' = [side EXCEPT ![p] = "built"]
    /\ Quiet /\ UNCHANGED <<pc, entry, modelVars, retiring, ghostVars>>

PublishWarm(p) ==
    /\ pc[p] \in Running /\ side[p] = "built"
    /\ side' = [side EXCEPT ![p] = "warm"] /\ UNCHANGED pc
    /\ Quiet /\ UNCHANGED <<modelVars, retiring, moves>>
    /\ Republish(p, FALSE)

(* sweep_idle_warm: off the list and off the ledger, then dropped. *)
SweepWarm(p) ==
    /\ pc[p] \in Running /\ side[p] = "warm"
    /\ side' = [side EXCEPT ![p] = "none"] /\ UNCHANGED pc
    /\ Quiet /\ UNCHANGED <<modelVars, retiring, moves>>
    /\ Republish(p, FALSE)

(* The embedder has loaded, without asking, and bills its memory to what   *)
(* the entry says, if that can be read.                                    *)
BillEmbedder(p) ==
    /\ pc[p] \in Running /\ side[p] = "none" /\ Extra[p] > 0 /\ Move(p)
    /\ side' = [side EXCEPT ![p] = "embedder"]
    /\ IF file[p] = "whole" THEN Write(p, entry[p] + Extra[p], FALSE) /\ UNCHANGED undercut
                            ELSE DiskQuiet
    /\ Quiet /\ UNCHANGED <<pc, modelVars, retiring>>

(* invalidate_backend: the dead backend leaves the cell at once; a task    *)
(* drops it and then writes what the cells hold by that time.              *)
Invalidate(p) ==
    /\ pc[p] \in {"resident", "big"} /\ Move(p)
    /\ actual' = [actual EXCEPT ![p] = 0]
    /\ retiring' = retiring \cup {p}
    /\ pc' = [pc EXCEPT ![p] = "idle"]
    /\ Quiet /\ DiskQuiet /\ UNCHANGED <<size, want, side>>

PublishRetired(p) ==
    /\ pc[p] \in Running /\ p \in retiring /\ WarmFree(p)
    /\ retiring' = retiring \ {p} /\ UNCHANGED pc
    /\ Quiet /\ UNCHANGED <<modelVars, side, moves>>
    /\ Republish(p, FALSE)

-----------------------------------------------------------------------------
(* What a dead process leaves in its files is never read again. *)
Gone(p) ==
    /\ pc' = [pc EXCEPT ![p] = "dead"]
    /\ entry' = [entry EXCEPT ![p] = 0] /\ seq' = [seq EXCEPT ![p] = 0]
    /\ size' = [size EXCEPT ![p] = Footprint[p]]
    /\ actual' = [actual EXCEPT ![p] = 0] /\ want' = [want EXCEPT ![p] = 0]
    /\ side' = [side EXCEPT ![p] = "none"] /\ retiring' = retiring \ {p}
    /\ in_use' = [in_use EXCEPT ![p] = 0] /\ before' = Without(p)
    /\ moves' = [moves EXCEPT ![p] = 0]
    /\ Grant(p, 0) /\ UNCHANGED <<next_seq, hostVars>>

(* Mutant: the admit lock outlives its holder. *)
VanishLocked(p) ==
    /\ life' = [life EXCEPT ![p] = IF @ = "held" THEN "free" ELSE @]
    /\ ticket' = [ticket EXCEPT ![p] = IF @ = "held" THEN "stale" ELSE @]
    /\ Gone(p) /\ UNCHANGED admit

(* The process is gone: the kernel drops its locks, its files stay. *)
Vanish(p) ==
    /\ life' = [life EXCEPT ![p] = IF @ = "held" THEN "free" ELSE @]
    /\ ticket' = [ticket EXCEPT ![p] = IF @ = "held" THEN "stale" ELSE @]
    /\ admit' = admit \ {p} /\ Gone(p)

Crash(p) ==
    /\ pc[p] \in Acquiring \cup Reserved \cup {"open"}
    /\ Vanish(p) /\ UNCHANGED <<file, preempt>>

(* A clean end: ResidencyGuard::drop removes both files. *)
Quit(p) ==
    /\ pc[p] \in {"resident", "big", "idle"}
    /\ life' = [life EXCEPT ![p] = "none"] /\ file' = [file EXCEPT ![p] = "none"]
    /\ Gone(p) /\ UNCHANGED <<admit, ticket, preempt>>

(* The victim's watchdog finds it idle and asked to yield; exit(0) runs no *)
(* destructor.                                                             *)
Yield(p) ==
    /\ pc[p] \in {"resident", "idle", "big"} /\ p \in preempt
    /\ preempt' = preempt \ {p}
    /\ Vanish(p) /\ UNCHANGED file

(* A request nobody renews for PREEMPT_TTL_SECS is dropped. *)
ExpirePreempt(p) ==
    /\ p \in preempt
    /\ \A q \in Procs : Prio[q] = 0 => pc[q] \notin Acquiring
    /\ preempt' = preempt \ {p}
    /\ Others /\ UNCHANGED <<pc, diskVars, admit, queueVars, in_use, hostVars, ghostVars>>

(* A status read or reap_orphan_residents, without the admit lock. *)
Reap ==
    /\ Orphans # {}
    /\ life' = ReapedLife /\ file' = ReapedFile
    /\ Quiet /\ Others /\ UNCHANGED <<pc, entry, ghostVars>>

HostChanges ==
    /\ host' \in Pressure /\ avail' \in Avail
    /\ Others /\ UNCHANGED <<pc, diskVars, admit, queueVars, in_use, preempt, ghostVars>>

(* What a process does by itself until the gate has answered. *)
GateStep(p) ==
    \/ LockAdmit(p) \/ Scan(p) \/ Reserve(p) \/ Park(p) \/ AskVictim(p) \/ Retry(p) \/ Deny(p)
    \/ ReLock(p) \/ ReScan(p) \/ Readmit(p)

Next ==
    \/ \E p \in Procs :
         \/ Start(p) \/ GateStep(p) \/ LockUnqueued(p) \/ FailOpen(p)
         \/ Load(p) \/ Unload(p) \/ PublishUnload(p) \/ Reload(p) \/ ReloadOpen(p) \/ ReloadFails(p)
         \/ Switch(p) \/ PublishSwitch(p) \/ SwitchFails(p)
         \/ GrowCheck(p) \/ GrowPublish(p) \/ GrowServe(p) \/ Shrink(p) \/ ShrinkWrite(p)
         \/ WarmBuild(p) \/ PublishWarm(p) \/ SweepWarm(p) \/ BillEmbedder(p)
         \/ Invalidate(p) \/ PublishRetired(p) \/ Cut(p)
         \/ Crash(p) \/ Quit(p) \/ Yield(p) \/ ExpirePreempt(p)
    \/ Reap \/ HostChanges

Spec == Init /\ [][Next]_vars

(* Processes run on, and time passes: a process that keeps coming back to  *)
(* the deadline check finds it expired in the end.  A reload blocks in the *)
(* kernel's queue for the admit lock, which is served in order.            *)
Fairness == \A p \in Procs : WF_vars(GateStep(p)) /\ SF_vars(Deny(p) \/ ReLock(p))
FairSpec == Spec /\ Fairness

-----------------------------------------------------------------------------
TypeOK ==
    /\ pc \in [Procs -> Stages]
    /\ life \in [Procs -> {"none", "held", "free"}]
    /\ file \in [Procs -> {"none", "whole", "torn"}]
    /\ entry \in [Procs -> Nat]
    /\ size \in [Procs -> Nat] /\ actual \in [Procs -> Nat] /\ want \in [Procs -> Nat]
    /\ side \in [Procs -> {"none", "built", "warm", "embedder"}]
    /\ retiring \in SUBSET Procs /\ moves \in [Procs -> Nat] /\ admit \in SUBSET Procs
    /\ ticket \in [Procs -> {"none", "held", "stale"}]
    /\ seq \in [Procs -> Nat]
    /\ next_seq \in Nat /\ \A p \in Procs : seq[p] <= next_seq
    /\ before \in SUBSET (Procs \X Procs)
    /\ in_use \in [Procs -> Nat]
    /\ preempt \in SUBSET Procs
    /\ host \in Pressure /\ avail \in Avail
    /\ granted \in [Procs -> Nat] /\ unseen \in SUBSET Procs /\ undercut \in SUBSET Procs

(* One process at a time decides on a load or a reload. *)
InCriticalSection(p) == pc[p] \in {"locked", "scanned", "re_locked", "re_scanned"}
AdmissionExclusive ==
    \A p, q \in Procs : InCriticalSection(p) /\ InCriticalSection(q) => p = q

(* What the gate has granted, and no smaller entry gave back, is within the *)
(* budget, or is one single grant, for a model too large by itself, while  *)
(* grown contexts, switches, warm models and embedders write over the      *)
(* entries at any time.  Their own memory is not granted, so not counted;  *)
(* nor is a process whose entry was torn when a scan met it.               *)
Grants(p) == IF p \in unseen THEN 0 ELSE granted[p]
NoOvercommit ==
    \/ MapThenSumSet(Grants, Procs) <= Budget
    \/ Cardinality({p \in Procs : Grants(p) > 0}) <= 1

(* The primary never has more memory than the entry shows, through every   *)
(* step of a grow, a shrink, an unload, a reload and a failed switch: the  *)
(* reservation moves first on the way up and last on the way down.  Only a *)
(* switch builds first; and only a reload that cannot open the admit lock, *)
(* or a republish while a reload is under way or the context is grown,     *)
(* leaves the primary without its share.                                   *)
ReservedBeforeServed ==
    \A p \in Procs : pc[p] \in Reserved \ {"switching"} /\ p \notin undercut => actual[p] <= entry[p]

(* A dead process keeps nothing: whoever scans next counts it as zero.     *)
DeadCountForNothing == \A p \in Procs : pc[p] = "dead" => Visible(p) = 0

(* No overtaking: a process with a ticket does not reserve while another   *)
(* waits that asks for no more and is more urgent or, as urgent as it, had *)
(* its ticket already when the first one came, whatever happened since to  *)
(* either of them, to the queue and to the host.                           *)
NoOvertaking ==
    [][ \A p, q \in Procs :
          ( /\ pc[p] = "scanned" /\ pc'[p] = "reserved"
            /\ ticket[p] = "held" /\ ticket[q] = "held" /\ Footprint[q] <= Footprint[p] )
          => Prio[p] <= Prio[q] /\ (Prio[p] = Prio[q] => <<q, p>> \notin before) ]_vars

(* Nobody waits for ever in the gate, for a load or for a reload, whoever  *)
(* dies holding the admit lock.                                            *)
AtTheGate(p) == pc[p] \in Acquiring \cup {"re_try", "re_locked", "re_scanned"}
EveryLoadSettles == \A p \in Procs : AtTheGate(p) ~> ~AtTheGate(p)
=============================================================================
