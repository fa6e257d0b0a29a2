------------------------- MODULE AdmissionScheduler -------------------------
(***************************************************************************)
(* The admission gate of crates/rozum-core/src/concurrency.rs: a bounded   *)
(* number of slots in front of an engine, a wait queue ordered fast lane   *)
(* first, then shortest job, then arrival, one slot reserved for the fast  *)
(* lane, load shedding when the queue is full, and a circuit breaker that  *)
(* moves the number of slots while requests run.                           *)
(*                                                                         *)
(* One Mutex protects the state.  A waiter's end of its one-shot channel   *)
(* is not under that lock: a client can disappear at any moment, also      *)
(* between the pump's is_closed() test and its send().  The pump is        *)
(* therefore two actions per hand-over, PumpTake and then PumpSend or       *)
(* PumpUndo, during which the lock is held and only Abandon and Receive    *)
(* can interleave.                                                         *)
(***************************************************************************)
EXTENDS Naturals, FiniteSets

CONSTANTS
    Requests,        \* the requests that may arrive, each at most once
    Weight,          \* RequestCost::weight of each request
    FastlaneTokens,  \* AdmissionConfig.fastlane_tokens, 0 turns the lane off
    QueueMax,        \* AdmissionConfig.queue_max, 0 means unbounded
    InitLimit,       \* AdmissionConfig.limit after max(1)
    MaxCeiling       \* bound: the largest value set_limit / set_ceiling get

ASSUME ConfigAssumption ==
    /\ IsFiniteSet(Requests)
    /\ Weight \in [Requests -> Nat]
    /\ FastlaneTokens \in Nat
    /\ QueueMax \in Nat
    /\ InitLimit \in Nat \ {0}
    /\ MaxCeiling \in Nat

VARIABLES
    limit,           \* live admission limit
    capacity,        \* the ceiling the breaker recovers to
    general_in_use,  \* slots held by general requests
    fast_in_use,     \* slots held by fast-lane requests
    waiters,         \* requests with an entry in State.waiters
    seq,             \* arrival number of each request that was queued
    next_seq,
    admitted_total, fast_admitted_total, shed_total, queued_total,
    phase,           \* where each request's admit() future stands
    lock,            \* "free", or "pump" while pump() holds the Mutex
    sending          \* {r} between pump's take() and send() for r, else {}

queueVars == <<waiters, seq, next_seq>>
slotVars == <<general_in_use, fast_in_use>>
counterVars == <<admitted_total, fast_admitted_total, shed_total, queued_total>>
limitVars == <<limit, capacity>>
vars == <<limitVars, slotVars, queueVars, counterVars, phase, lock, sending>>

(* idle: not arrived.  waiting: queued, the future is awaited.  gone: the  *)
(* future was dropped while queued.  granted: an armed guard sits in the   *)
(* channel.  running: the caller owns the guard.  done: the guard was      *)
(* dropped.  shed: refused.                                                *)
Phases == {"idle", "waiting", "gone", "granted", "running", "done", "shed"}

IsFast(r) == FastlaneTokens > 0 /\ Weight[r] < FastlaneTokens

InUse == general_in_use + fast_in_use

(* Mutant: the reservation also applies to a single slot. *)
GeneralCapAlwaysReserves == IF FastlaneTokens > 0 THEN limit - 1 ELSE limit

(* One slot is kept for the fast lane, unless it is the only one. *)
GeneralCap == IF FastlaneTokens > 0 /\ limit >= 2 THEN limit - 1 ELSE limit

(* Mutant: the limit is overshot by one. *)
CanAdmitOneMore(fast) == InUse <= limit /\ (fast \/ general_in_use < GeneralCap)

CanAdmit(fast) == InUse < limit /\ (fast \/ general_in_use < GeneralCap)

(* a goes before b: fast lane, then lower cost, then earlier arrival. *)
Prefer(a, b) ==
    \/ IsFast(a) /\ ~IsFast(b)
    \/ /\ IsFast(a) = IsFast(b)
       /\ \/ Weight[a] < Weight[b]
          \/ Weight[a] = Weight[b] /\ seq[a] < seq[b]

Live(r) == phase[r] = "waiting"

BestAdmittable(r, queue) ==
    /\ r \in queue
    /\ CanAdmit(IsFast(r))
    /\ \A q \in queue \ {r} : CanAdmit(IsFast(q)) => Prefer(r, q)

Pred(n) == IF n = 0 THEN 0 ELSE n - 1      \* saturating_sub(1)

(* State::take: one slot of r's class, counted as an admission. *)
Take(r) ==
    /\ IF IsFast(r)
         THEN /\ fast_in_use' = fast_in_use + 1
              /\ fast_admitted_total' = fast_admitted_total + 1
              /\ UNCHANGED general_in_use
         ELSE /\ general_in_use' = general_in_use + 1
              /\ UNCHANGED <<fast_in_use, fast_admitted_total>>
    /\ admitted_total' = admitted_total + 1

(* State::put_back: the slot, not the counters. *)
PutBack(r) ==
    IF IsFast(r)
      THEN fast_in_use' = Pred(fast_in_use) /\ UNCHANGED general_in_use
      ELSE general_in_use' = Pred(general_in_use) /\ UNCHANGED fast_in_use

Init ==
    /\ limit = InitLimit /\ capacity = InitLimit
    /\ general_in_use = 0 /\ fast_in_use = 0
    /\ waiters = {} /\ next_seq = 0 /\ seq = [r \in Requests |-> 0]
    /\ admitted_total = 0 /\ fast_admitted_total = 0
    /\ shed_total = 0 /\ queued_total = 0
    /\ phase = [r \in Requests |-> "idle"]
    /\ lock = "free" /\ sending = {}

-----------------------------------------------------------------------------
(* admit(): a free slot of the request's class is taken at once. *)
AdmitNow(r) ==
    /\ phase[r] = "idle" /\ lock = "free"
    /\ CanAdmit(IsFast(r))
    /\ Take(r)
    /\ phase' = [phase EXCEPT ![r] = "running"]
    /\ UNCHANGED <<limitVars, queueVars, shed_total, queued_total, lock, sending>>

QueueFull == QueueMax > 0 /\ Cardinality(waiters) >= QueueMax

(* admit(): no slot and a full queue, the request is refused. *)
Shed(r) ==
    /\ phase[r] = "idle" /\ lock = "free"
    /\ ~CanAdmit(IsFast(r)) /\ QueueFull
    /\ shed_total' = shed_total + 1
    /\ phase' = [phase EXCEPT ![r] = "shed"]
    /\ UNCHANGED <<limitVars, slotVars, queueVars, admitted_total,
                   fast_admitted_total, queued_total, lock, sending>>

(* admit(): no slot, the request waits. *)
Enqueue(r) ==
    /\ phase[r] = "idle" /\ lock = "free"
    /\ ~CanAdmit(IsFast(r)) /\ ~QueueFull
    /\ waiters' = waiters \cup {r}
    /\ seq' = [seq EXCEPT ![r] = next_seq]
    /\ next_seq' = next_seq + 1
    /\ queued_total' = queued_total + 1
    /\ phase' = [phase EXCEPT ![r] = "waiting"]
    /\ UNCHANGED <<limitVars, slotVars, admitted_total, fast_admitted_total,
                   shed_total, lock, sending>>

(* The client disconnects while queued: the receiver is dropped.  No lock  *)
(* is needed and the entry stays in State.waiters.                         *)
Abandon(r) ==
    /\ phase[r] = "waiting"
    /\ phase' = [phase EXCEPT ![r] = "gone"]
    /\ UNCHANGED <<limitVars, slotVars, queueVars, counterVars, lock, sending>>

(* The awaiting future is polled and owns the guard. *)
Receive(r) ==
    /\ phase[r] = "granted"
    /\ phase' = [phase EXCEPT ![r] = "running"]
    /\ UNCHANGED <<limitVars, slotVars, queueVars, counterVars, lock, sending>>

(* AdmitGuard::drop: the slot goes back and the queue is pumped. *)
DropGuard(r) ==
    /\ lock = "free"
    /\ PutBack(r)
    /\ phase' = [phase EXCEPT ![r] = "done"]
    /\ lock' = "pump"
    /\ UNCHANGED <<limitVars, queueVars, counterVars, sending>>

(* The request ends, or its client goes away while it runs. *)
Release(r) == phase[r] = "running" /\ DropGuard(r)

(* The client goes away after the guard was sent and before it was polled: *)
(* the receiver drops the guard that sits in the channel.                  *)
AbandonGranted(r) == phase[r] = "granted" /\ DropGuard(r)

-----------------------------------------------------------------------------
(* Circuit breaker and controller. *)

AtLeastOne(n) == IF n = 0 THEN 1 ELSE n

Trip ==
    /\ lock = "free"
    /\ limit' = AtLeastOne(Pred(limit))
    /\ UNCHANGED <<capacity, slotVars, queueVars, counterVars, phase, lock, sending>>

(* Mutant: the breaker reopens a slot and wakes nobody. *)
RecoverNoPump ==
    /\ lock = "free"
    /\ limit' = IF limit + 1 <= capacity THEN limit + 1 ELSE capacity
    /\ UNCHANGED <<capacity, slotVars, queueVars, counterVars, phase, lock, sending>>

RecoverStep ==
    /\ lock = "free"
    /\ limit' = IF limit + 1 <= capacity THEN limit + 1 ELSE capacity
    /\ lock' = "pump"
    /\ UNCHANGED <<capacity, slotVars, queueVars, counterVars, phase, sending>>

SetLimit(n) ==
    /\ lock = "free"
    /\ limit' = AtLeastOne(n)
    /\ lock' = "pump"
    /\ UNCHANGED <<capacity, slotVars, queueVars, counterVars, phase, sending>>

SetCeiling(n) ==
    /\ lock = "free"
    /\ capacity' = AtLeastOne(n) /\ limit' = AtLeastOne(n)
    /\ lock' = "pump"
    /\ UNCHANGED <<slotVars, queueVars, counterVars, phase, sending>>

-----------------------------------------------------------------------------
(* pump(), one turn of its loop: dead entries are dropped, then the best   *)
(* admittable waiter is removed and its slot taken before the guard is     *)
(* sent.                                                                   *)
LiveWaiters == {r \in waiters : Live(r)}

PumpTake(r) ==
    /\ lock = "pump" /\ sending = {}
    /\ BestAdmittable(r, LiveWaiters)
    /\ waiters' = LiveWaiters \ {r}
    /\ Take(r)
    /\ sending' = {r}
    /\ UNCHANGED <<limitVars, seq, next_seq, shed_total, queued_total, phase, lock>>

(* pump(): nobody left to admit, the lock is released. *)
PumpDone ==
    /\ lock = "pump" /\ sending = {}
    /\ \A r \in LiveWaiters : ~CanAdmit(IsFast(r))
    /\ waiters' = LiveWaiters
    /\ lock' = "free"
    /\ UNCHANGED <<limitVars, slotVars, seq, next_seq, counterVars, phase, sending>>

(* pump(): the guard reaches the waiter's channel. *)
PumpSend(r) ==
    /\ r \in sending /\ Live(r)
    /\ phase' = [phase EXCEPT ![r] = "granted"]
    /\ sending' = {}
    /\ UNCHANGED <<limitVars, slotVars, queueVars, counterVars, lock>>

(* Mutants: a failed hand-over keeps the slot; keeps the count. *)
PumpUndoKeepsSlot(r) ==
    /\ r \in sending /\ ~Live(r)
    /\ admitted_total' = Pred(admitted_total)
    /\ fast_admitted_total' = IF IsFast(r) THEN Pred(fast_admitted_total)
                              ELSE fast_admitted_total
    /\ sending' = {}
    /\ UNCHANGED <<limitVars, slotVars, queueVars, shed_total, queued_total, phase, lock>>
PumpUndoKeepsCount(r) ==
    /\ r \in sending /\ ~Live(r)
    /\ PutBack(r)
    /\ sending' = {}
    /\ UNCHANGED <<limitVars, queueVars, counterVars, phase, lock>>

(* pump(): send() fails because the receiver went away after the scan; the *)
(* slot is reclaimed inline and the admission is uncounted.                *)
PumpUndo(r) ==
    /\ r \in sending /\ ~Live(r)
    /\ PutBack(r)
    /\ admitted_total' = Pred(admitted_total)
    /\ fast_admitted_total' = IF IsFast(r) THEN Pred(fast_admitted_total)
                              ELSE fast_admitted_total
    /\ sending' = {}
    /\ UNCHANGED <<limitVars, queueVars, shed_total, queued_total, phase, lock>>

Pump == PumpDone \/ \E r \in Requests : PumpTake(r) \/ PumpSend(r) \/ PumpUndo(r)

Next ==
    \/ \E r \in Requests : \/ AdmitNow(r) \/ Shed(r) \/ Enqueue(r)
                           \/ Abandon(r) \/ Receive(r)
                           \/ Release(r) \/ AbandonGranted(r)
    \/ Trip
    \/ RecoverStep
    \/ \E n \in 0..MaxCeiling : SetLimit(n) \/ SetCeiling(n)
    \/ Pump

Spec == Init /\ [][Next]_vars

(* The lock holder runs on, a sent guard is polled, and every request that *)
(* runs ends and then obtains the lock to return its slot.                 *)
Fairness ==
    /\ WF_vars(Pump)
    /\ \A r \in Requests : WF_vars(Receive(r)) /\ SF_vars(Release(r))

FairSpec == Spec /\ Fairness

-----------------------------------------------------------------------------
TypeOK ==
    /\ limit \in Nat \ {0} /\ capacity \in Nat \ {0}
    /\ general_in_use \in Nat /\ fast_in_use \in Nat
    /\ waiters \in SUBSET Requests
    /\ seq \in [Requests -> Nat] /\ next_seq \in Nat
    /\ admitted_total \in Nat /\ fast_admitted_total \in Nat
    /\ shed_total \in Nat /\ queued_total \in Nat
    /\ phase \in [Requests -> Phases]
    /\ lock \in {"free", "pump"}
    /\ sending \in SUBSET Requests /\ (sending # {} => lock = "pump")

(* The requests that own a guard, the one being sent included. *)
Holders == {r \in Requests : phase[r] \in {"granted", "running"}} \cup sending

(* Slot accounting: the two counters are exactly the guards that exist.  A *)
(* slot is neither leaked by a client that disappears at any point of its  *)
(* wait nor released twice.                                                *)
SlotAccounting ==
    /\ fast_in_use = Cardinality({r \in Holders : IsFast(r)})
    /\ general_in_use = Cardinality({r \in Holders : ~IsFast(r)})

(* No lost wake-up: whenever the lock is free no live waiter could be      *)
(* admitted.  Together with the guard of AdmitNow this is also what keeps  *)
(* an arrival from overtaking the queue.                                   *)
NoLostWakeup ==
    lock = "free" => \A r \in waiters : Live(r) => ~CanAdmit(IsFast(r))

(* A request that is awaited is in the queue or is being handed its guard. *)
NoOrphanWaiter ==
    \A r \in Requests : Live(r) => r \in waiters \cup sending

(* The published counters: every request whose guard reached its channel   *)
(* is counted as admitted once, a hand-over that found the client gone is  *)
(* uncounted, and every refusal is counted as shed.                        *)
Admitted == Holders \cup {r \in Requests : phase[r] = "done"}
CountersExact ==
    /\ admitted_total = Cardinality(Admitted)
    /\ fast_admitted_total = Cardinality({r \in Admitted : IsFast(r)})
    /\ shed_total = Cardinality({r \in Requests : phase[r] = "shed"})

(* A general request never takes the slot reserved for the fast lane, and  *)
(* nobody takes a slot beyond the limit: after a trip the running requests *)
(* drain before any new one starts.                                        *)
GrantWithinLimit ==
    [][ /\ InUse' > InUse => InUse' <= limit
        /\ general_in_use' > general_in_use => general_in_use' <= GeneralCap ]_vars

(* Queue order: when the pump picks r, no live waiter that could have been *)
(* admitted instead is preferred to r.                                     *)
PumpOrder ==
    [][ \A r \in Requests : (r \in sending' /\ r \notin sending) =>
          \A q \in waiters : Live(q) /\ CanAdmit(IsFast(q)) => ~Prefer(q, r) ]_vars

(* No overtaking: a request admitted on arrival finds no live waiter that  *)
(* is preferred to it or has been waiting for the same kind of slot.       *)
NoOvertaking ==
    [][ \A r \in Requests : (phase[r] = "idle" /\ phase'[r] = "running") =>
          \A q \in waiters : Live(q) => IsFast(r) /\ ~IsFast(q) ]_vars

(* Every request that keeps waiting is served, as long as only finitely    *)
(* many requests arrive.                                                   *)
EveryWaiterServed ==
    \A r \in Requests : (phase[r] = "waiting") ~> (phase[r] # "waiting")

(* The scheduler is an adjustable counting semaphore. *)
Pool == INSTANCE SlotPool WITH holders <- Holders
PoolSpec == Pool!Spec
=============================================================================
