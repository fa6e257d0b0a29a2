---------------------- MODULE AdmissionSchedulerProofs ----------------------
(***************************************************************************)
(* Proofs about the admission scheduler for every finite set of requests,  *)
(* every weight, every queue bound and every limit.                        *)
(***************************************************************************)
EXTENDS AdmissionScheduler, FiniteSetTheorems, TLAPS

USE ConfigAssumption

-----------------------------------------------------------------------------
(* Every step keeps the types, and the limit and the ceiling above zero. *)
LEMMA TypeOKNext == TypeOK /\ [Next]_vars => TypeOK'
  <1> SUFFICES ASSUME TypeOK, [Next]_vars PROVE TypeOK'
    OBVIOUS
  <1> USE DEF TypeOK, Phases, Pred, AtLeastOne, limitVars, slotVars, queueVars, counterVars
  <1>1. ASSUME NEW r \in Requests, AdmitNow(r) PROVE TypeOK'
    BY <1>1 DEF AdmitNow, Take
  <1>2. ASSUME NEW r \in Requests, Shed(r) PROVE TypeOK'
    BY <1>2 DEF Shed
  <1>3. ASSUME NEW r \in Requests, Enqueue(r) PROVE TypeOK'
    BY <1>3 DEF Enqueue
  <1>4. ASSUME NEW r \in Requests, Abandon(r) PROVE TypeOK'
    BY <1>4 DEF Abandon
  <1>5. ASSUME NEW r \in Requests, Receive(r) PROVE TypeOK'
    BY <1>5 DEF Receive
  <1>6. ASSUME NEW r \in Requests, Release(r) \/ AbandonGranted(r) PROVE TypeOK'
    BY <1>6 DEF Release, AbandonGranted, DropGuard, PutBack
  <1>7. CASE Trip
    BY <1>7 DEF Trip
  <1>8. CASE RecoverStep
    BY <1>8 DEF RecoverStep
  <1>9. ASSUME NEW n \in 0..MaxCeiling, SetLimit(n) \/ SetCeiling(n) PROVE TypeOK'
    BY <1>9 DEF SetLimit, SetCeiling
  <1>10. ASSUME NEW r \in Requests, PumpTake(r) PROVE TypeOK'
    BY <1>10 DEF PumpTake, Take, LiveWaiters
  <1>11. CASE PumpDone
    BY <1>11 DEF PumpDone, LiveWaiters
  <1>12. ASSUME NEW r \in Requests, PumpSend(r) PROVE TypeOK'
    BY <1>12 DEF PumpSend
  <1>13. ASSUME NEW r \in Requests, PumpUndo(r) PROVE TypeOK'
    BY <1>13 DEF PumpUndo, PutBack
  <1>14. CASE UNCHANGED vars
    BY <1>14 DEF vars
  <1> QED
    BY <1>1, <1>2, <1>3, <1>4, <1>5, <1>6, <1>7, <1>8, <1>9, <1>10, <1>11,
       <1>12, <1>13, <1>14 DEF Next, Pump

(* Type correctness: every variable of the State struct keeps its type     *)
(* and the live limit and the recovery ceiling never drop below one slot.  *)
THEOREM TypeCorrect == Spec => []TypeOK
  <1>1. Init => TypeOK
    BY DEF Init, TypeOK, Phases
  <1> QED
    BY <1>1, TypeOKNext, PTL DEF Spec

-----------------------------------------------------------------------------
(* The queue. *)

(* Only a request that waits, or whose client has just gone, is queued or  *)
(* being handed a guard, it is one of the two, and the pump sends one      *)
(* guard at a time.                                                        *)
Queued ==
    /\ \A r \in waiters \cup sending : phase[r] \in {"waiting", "gone"}
    /\ waiters \cap sending = {}
    /\ \A q, r \in sending : q = r

QueueInv == TypeOK /\ Queued /\ NoOrphanWaiter /\ NoLostWakeup

(* An empty queue satisfies it. *)
LEMMA QueueInvInit == Init => QueueInv
  BY DEF Init, QueueInv, TypeOK, Phases, Queued, NoOrphanWaiter, NoLostWakeup, Live

(* Every step keeps it: what raises the limit or returns a slot pumps, and *)
(* the lock is only given up when nobody can be admitted.                  *)
LEMMA QueueInvNext == QueueInv /\ [Next]_vars => QueueInv'
  <1> SUFFICES ASSUME QueueInv, TypeOK', [Next]_vars
               PROVE  (Queued /\ NoOrphanWaiter /\ NoLostWakeup)'
    BY TypeOKNext DEF QueueInv
  <1> USE DEF QueueInv, TypeOK, Phases, Queued, NoOrphanWaiter, NoLostWakeup, Live,
        CanAdmit, GeneralCap, InUse, IsFast, Pred, AtLeastOne, limitVars, slotVars, queueVars, counterVars
  <1>1. ASSUME NEW r \in Requests, AdmitNow(r) PROVE (Queued /\ NoOrphanWaiter /\ NoLostWakeup)'
    BY <1>1 DEF AdmitNow, Take
  <1>2. ASSUME NEW r \in Requests, Shed(r) PROVE (Queued /\ NoOrphanWaiter /\ NoLostWakeup)'
    BY <1>2 DEF Shed
  <1>3. ASSUME NEW r \in Requests, Enqueue(r) PROVE (Queued /\ NoOrphanWaiter /\ NoLostWakeup)'
    BY <1>3 DEF Enqueue
  <1>4. ASSUME NEW r \in Requests, Abandon(r) PROVE (Queued /\ NoOrphanWaiter /\ NoLostWakeup)'
    BY <1>4 DEF Abandon
  <1>5. ASSUME NEW r \in Requests, Receive(r) PROVE (Queued /\ NoOrphanWaiter /\ NoLostWakeup)'
    BY <1>5 DEF Receive
  <1>6. ASSUME NEW r \in Requests, Release(r) \/ AbandonGranted(r) PROVE (Queued /\ NoOrphanWaiter /\ NoLostWakeup)'
    BY <1>6 DEF Release, AbandonGranted, DropGuard, PutBack
  <1>7. ASSUME Trip PROVE (Queued /\ NoOrphanWaiter /\ NoLostWakeup)'
    BY <1>7 DEF Trip
  <1>8. ASSUME RecoverStep PROVE (Queued /\ NoOrphanWaiter /\ NoLostWakeup)'
    BY <1>8 DEF RecoverStep
  <1>9. ASSUME NEW n \in 0..MaxCeiling, SetLimit(n) \/ SetCeiling(n) PROVE (Queued /\ NoOrphanWaiter /\ NoLostWakeup)'
    BY <1>9 DEF SetLimit, SetCeiling
  <1>10. ASSUME NEW r \in Requests, PumpTake(r) PROVE (Queued /\ NoOrphanWaiter /\ NoLostWakeup)'
    BY <1>10 DEF PumpTake, Take, BestAdmittable, LiveWaiters
  <1>11. ASSUME PumpDone PROVE (Queued /\ NoOrphanWaiter /\ NoLostWakeup)'
    BY <1>11 DEF PumpDone, LiveWaiters
  <1>12. ASSUME NEW r \in Requests, PumpSend(r) PROVE (Queued /\ NoOrphanWaiter /\ NoLostWakeup)'
    BY <1>12 DEF PumpSend
  <1>13. ASSUME NEW r \in Requests, PumpUndo(r) PROVE (Queued /\ NoOrphanWaiter /\ NoLostWakeup)'
    BY <1>13 DEF PumpUndo, PutBack
  <1>14. ASSUME UNCHANGED vars PROVE (Queued /\ NoOrphanWaiter /\ NoLostWakeup)'
    BY <1>14 DEF vars
  <1> HIDE DEF QueueInv, TypeOK, Phases, Queued, NoOrphanWaiter, NoLostWakeup, Live,
        CanAdmit, GeneralCap, InUse, IsFast, Pred, AtLeastOne, limitVars,
        slotVars, queueVars, counterVars
  <1> QED
    BY <1>1, <1>2, <1>3, <1>4, <1>5, <1>6, <1>7, <1>8, <1>9, <1>10, <1>11,
       <1>12, <1>13, <1>14 DEF Next, Pump

(* The invariant of the queue in every reachable state. *)
LEMMA QueueInvAlways == Spec => []QueueInv
  BY QueueInvInit, QueueInvNext, PTL DEF Spec

(* No wake-up is lost: whenever the lock is free, no waiter that is still  *)
(* awaited could be admitted.  Every operation that opens a slot pumps     *)
(* under the same lock (release, recover_step, set_limit, set_ceiling).    *)
THEOREM NoWakeupLost == Spec => []NoLostWakeup
  BY QueueInvAlways, PTL DEF QueueInv

(* An awaited request is always in the queue or in the pump's hand: pump   *)
(* drops only entries whose receiver is closed.                            *)
THEOREM NobodyOrphaned == Spec => []NoOrphanWaiter
  BY QueueInvAlways, PTL DEF QueueInv

-----------------------------------------------------------------------------
(* Slots. *)

(* How a step changes who holds a guard. *)
Gains(r) == /\ r \notin Holders /\ Holders' = Holders \cup {r}
            /\ CanAdmit(IsFast(r)) /\ Take(r) /\ UNCHANGED limit
Loses(r) == /\ r \in Holders /\ Holders' = Holders \ {r}
            /\ PutBack(r) /\ UNCHANGED limit
Keeps == Holders' = Holders /\ UNCHANGED slotVars

(* A step hands out one guard, takes one back, or changes no holder: a     *)
(* guard sent into a channel, and one received, stay the same guard.       *)
LEMMA HoldersChange ==
  QueueInv /\ [Next]_vars => Keeps \/ \E r \in Requests : Gains(r) \/ Loses(r)
  <1> SUFFICES ASSUME QueueInv, [Next]_vars
               PROVE  Keeps \/ \E r \in Requests : Gains(r) \/ Loses(r)
    OBVIOUS
  <1> USE DEF QueueInv, TypeOK, Phases, Queued, Live, Holders, Gains, Loses, Keeps,
        limitVars, slotVars, queueVars, counterVars
  <1>1. ASSUME NEW r \in Requests, AdmitNow(r) PROVE Gains(r)
    BY <1>1 DEF AdmitNow
  <1>2. ASSUME NEW r \in Requests, Shed(r) PROVE Keeps
    BY <1>2 DEF Shed
  <1>3. ASSUME NEW r \in Requests, Enqueue(r) PROVE Keeps
    BY <1>3 DEF Enqueue
  <1>4. ASSUME NEW r \in Requests, Abandon(r) PROVE Keeps
    BY <1>4 DEF Abandon
  <1>5. ASSUME NEW r \in Requests, Receive(r) PROVE Keeps
    BY <1>5 DEF Receive
  <1>6. ASSUME NEW r \in Requests, Release(r) \/ AbandonGranted(r) PROVE Loses(r)
    BY <1>6 DEF Release, AbandonGranted, DropGuard
  <1>7. ASSUME Trip PROVE Keeps
    BY <1>7 DEF Trip
  <1>8. ASSUME RecoverStep PROVE Keeps
    BY <1>8 DEF RecoverStep
  <1>9. ASSUME NEW n \in 0..MaxCeiling, SetLimit(n) \/ SetCeiling(n) PROVE Keeps
    BY <1>9 DEF SetLimit, SetCeiling
  <1>10. ASSUME NEW r \in Requests, PumpTake(r) PROVE Gains(r)
    BY <1>10 DEF PumpTake, BestAdmittable, LiveWaiters
  <1>11. ASSUME PumpDone PROVE Keeps
    BY <1>11 DEF PumpDone
  <1>12. ASSUME NEW r \in Requests, PumpSend(r) PROVE Keeps
    BY <1>12 DEF PumpSend
  <1>13. ASSUME NEW r \in Requests, PumpUndo(r) PROVE Loses(r)
    BY <1>13 DEF PumpUndo
  <1>14. ASSUME UNCHANGED vars PROVE Keeps
    BY <1>14 DEF vars
  <1> HIDE DEF QueueInv, Gains, Loses, Keeps
  <1> QED
    BY <1>1, <1>2, <1>3, <1>4, <1>5, <1>6, <1>7, <1>8, <1>9, <1>10, <1>11,
       <1>12, <1>13, <1>14 DEF Next, Pump

FastHeld == {r \in Holders : IsFast(r)}
SlowHeld == {r \in Holders : ~IsFast(r)}

(* The holders of each class are finitely many. *)
LEMMA HeldFinite ==
  ASSUME TypeOK
  PROVE  IsFiniteSet(Holders) /\ IsFiniteSet(FastHeld) /\ IsFiniteSet(SlowHeld)
  <1>1. /\ Holders \in SUBSET Requests /\ FastHeld \in SUBSET Requests
        /\ SlowHeld \in SUBSET Requests
    BY DEF TypeOK, Holders, FastHeld, SlowHeld
  <1> QED
    BY <1>1, FS_Subset DEF ConfigAssumption

SlotInv == QueueInv /\ SlotAccounting

(* Every step keeps the counters equal to the guards that exist. *)
LEMMA SlotInvNext == SlotInv /\ [Next]_vars => SlotInv'
  <1> SUFFICES ASSUME SlotInv, [Next]_vars PROVE SlotAccounting'
    BY QueueInvNext DEF SlotInv
  <1>0. /\ IsFiniteSet(FastHeld) /\ IsFiniteSet(SlowHeld)
        /\ fast_in_use = Cardinality(FastHeld) /\ general_in_use = Cardinality(SlowHeld)
        /\ fast_in_use \in Nat /\ general_in_use \in Nat
    BY HeldFinite DEF SlotInv, QueueInv, TypeOK, SlotAccounting, FastHeld, SlowHeld
  <1>1. ASSUME Keeps PROVE SlotAccounting'
    BY <1>1 DEF SlotInv, SlotAccounting, Keeps, slotVars, IsFast
  <1>2. ASSUME NEW r \in Requests, Gains(r) PROVE SlotAccounting'
    <2>1. CASE IsFast(r)
      <3>1. r \notin FastHeld /\ FastHeld' = FastHeld \cup {r} /\ SlowHeld' = SlowHeld
        BY <1>2, <2>1 DEF Gains, FastHeld, SlowHeld, IsFast
      <3>2. Cardinality(FastHeld') = Cardinality(FastHeld) + 1
        BY <3>1, <1>0, FS_AddElement
      <3> QED
        BY <1>0, <1>2, <2>1, <3>1, <3>2 DEF Gains, Take, SlotAccounting, FastHeld, SlowHeld
    <2>2. CASE ~IsFast(r)
      <3>1. r \notin SlowHeld /\ SlowHeld' = SlowHeld \cup {r} /\ FastHeld' = FastHeld
        BY <1>2, <2>2 DEF Gains, FastHeld, SlowHeld, IsFast
      <3>2. Cardinality(SlowHeld') = Cardinality(SlowHeld) + 1
        BY <3>1, <1>0, FS_AddElement
      <3> QED
        BY <1>0, <1>2, <2>2, <3>1, <3>2 DEF Gains, Take, SlotAccounting, FastHeld, SlowHeld
    <2> QED
      BY <2>1, <2>2
  <1>3. ASSUME NEW r \in Requests, Loses(r) PROVE SlotAccounting'
    <2>1. CASE IsFast(r)
      <3>1. r \in FastHeld /\ FastHeld' = FastHeld \ {r} /\ SlowHeld' = SlowHeld
        BY <1>3, <2>1 DEF Loses, FastHeld, SlowHeld, IsFast
      <3>2. Cardinality(FastHeld') = Cardinality(FastHeld) - 1 /\ Cardinality(FastHeld') \in Nat
        BY <3>1, <1>0, FS_RemoveElement, FS_CardinalityType
      <3>3. fast_in_use' = fast_in_use - 1 /\ general_in_use' = general_in_use
        BY <1>0, <1>3, <2>1, <3>2 DEF Loses, PutBack, Pred
      <3> QED
        BY <1>0, <3>1, <3>2, <3>3 DEF SlotAccounting, FastHeld, SlowHeld
    <2>2. CASE ~IsFast(r)
      <3>1. r \in SlowHeld /\ SlowHeld' = SlowHeld \ {r} /\ FastHeld' = FastHeld
        BY <1>3, <2>2 DEF Loses, FastHeld, SlowHeld, IsFast
      <3>2. Cardinality(SlowHeld') = Cardinality(SlowHeld) - 1 /\ Cardinality(SlowHeld') \in Nat
        BY <3>1, <1>0, FS_RemoveElement, FS_CardinalityType
      <3>3. general_in_use' = general_in_use - 1 /\ fast_in_use' = fast_in_use
        BY <1>0, <1>3, <2>2, <3>2 DEF Loses, PutBack, Pred
      <3> QED
        BY <1>0, <3>1, <3>2, <3>3 DEF SlotAccounting, FastHeld, SlowHeld
    <2> QED
      BY <2>1, <2>2
  <1> QED
    BY <1>1, <1>2, <1>3, HoldersChange DEF SlotInv

(* The slot invariant in every reachable state. *)
LEMMA SlotInvAlways == Spec => []SlotInv
  <1>1. Init => SlotInv
    <2> SUFFICES ASSUME Init PROVE SlotAccounting
      BY QueueInvInit DEF SlotInv
    <2>1. {r \in Holders : IsFast(r)} = {} /\ {r \in Holders : ~IsFast(r)} = {}
      BY DEF Init, Holders
    <2> QED
      BY <2>1, FS_EmptySet DEF Init, SlotAccounting
  <1> QED
    BY <1>1, SlotInvNext, PTL DEF Spec

(* No slot is leaked or freed twice, wherever a client disappears: in the  *)
(* queue, between is_closed() and send(), with the guard in its channel,   *)
(* or running.                                                             *)
THEOREM SlotsExact == Spec => []SlotAccounting
  BY SlotInvAlways, PTL DEF SlotInv

(* After a trip nobody is admitted until enough guards are back, and no    *)
(* general request ever takes the slot kept for the fast lane (can_admit). *)
THEOREM GrantsWithinLimit == Spec => GrantWithinLimit
  <1>1. SlotInv /\ [Next]_vars =>
          [ /\ InUse' > InUse => InUse' <= limit
            /\ general_in_use' > general_in_use => general_in_use' <= GeneralCap ]_vars
    <2> SUFFICES ASSUME SlotInv, [Next]_vars
                 PROVE  /\ InUse' > InUse => InUse' <= limit
                        /\ general_in_use' > general_in_use => general_in_use' <= GeneralCap
      OBVIOUS
    <2> USE DEF InUse
    <2>0. limit \in Nat \ {0} /\ general_in_use \in Nat /\ fast_in_use \in Nat
      BY DEF SlotInv, QueueInv, TypeOK
    <2>1. CASE Keeps
      BY <2>0, <2>1 DEF Keeps, slotVars
    <2>2. ASSUME NEW r \in Requests, Gains(r)
          PROVE  /\ InUse' > InUse => InUse' <= limit
                 /\ general_in_use' > general_in_use => general_in_use' <= GeneralCap
      BY <2>0, <2>2 DEF Gains, Take, CanAdmit, GeneralCap
    <2>3. ASSUME NEW r \in Requests, Loses(r)
          PROVE  /\ InUse' > InUse => InUse' <= limit
                 /\ general_in_use' > general_in_use => general_in_use' <= GeneralCap
      BY <2>0, <2>3 DEF Loses, PutBack, Pred
    <2> QED
      BY <2>1, <2>2, <2>3, HoldersChange DEF SlotInv
  <1> QED
    BY <1>1, SlotInvAlways, PTL DEF Spec, GrantWithinLimit

(* An arrival that finds a slot does not overtake: nobody who waits is     *)
(* entitled to that slot (admit() does not look at the queue).             *)
THEOREM NobodyOvertaken == Spec => NoOvertaking
  <1>1. QueueInv /\ [Next]_vars =>
          [\A r \in Requests : (phase[r] = "idle" /\ phase'[r] = "running") =>
             \A q \in waiters : Live(q) => IsFast(r) /\ ~IsFast(q)]_vars
    <2> SUFFICES ASSUME QueueInv, [Next]_vars,
                        NEW r \in Requests, phase[r] = "idle", phase'[r] = "running",
                        NEW q \in waiters, Live(q)
                 PROVE  IsFast(r) /\ ~IsFast(q)
      OBVIOUS
    <2>1. lock = "free" /\ CanAdmit(IsFast(r))
      BY DEF QueueInv, TypeOK, Queued, Next, Pump, AdmitNow, Shed, Enqueue, Abandon, Receive, Release,
        AbandonGranted, DropGuard, Trip, RecoverStep, SetLimit, SetCeiling,
        PumpTake, PumpDone, PumpSend, PumpUndo, vars
    <2>2. ~CanAdmit(IsFast(q))
      BY <2>1 DEF QueueInv, NoLostWakeup
    <2> QED
      BY <2>1, <2>2 DEF CanAdmit, IsFast
  <1> QED
    BY <1>1, QueueInvAlways, PTL DEF Spec, NoOvertaking

(* The pump serves in order: whoever it picks, no live waiter that could   *)
(* have been admitted is preferred (fast lane, then cost, then arrival).   *)
THEOREM PumpsInOrder == Spec => PumpOrder
  <1>1. QueueInv /\ [Next]_vars =>
          [\A r \in Requests : (r \in sending' /\ r \notin sending) =>
             \A q \in waiters : Live(q) /\ CanAdmit(IsFast(q)) => ~Prefer(q, r)]_vars
    <2> SUFFICES ASSUME QueueInv, [Next]_vars,
                        NEW r \in Requests, r \in sending', r \notin sending,
                        NEW q \in waiters, Live(q), CanAdmit(IsFast(q))
                 PROVE  ~Prefer(q, r)
      OBVIOUS
    <2>1. PumpTake(r)
      BY DEF Next, Pump, AdmitNow, Shed, Enqueue, Abandon, Receive, Release,
        AbandonGranted, DropGuard, Trip, RecoverStep, SetLimit, SetCeiling,
        PumpTake, PumpDone, PumpSend, PumpUndo, vars
    <2>2. q # r => Prefer(r, q)
      BY <2>1 DEF PumpTake, BestAdmittable, LiveWaiters
    <2> QED
      BY <2>2 DEF QueueInv, TypeOK, Prefer, ConfigAssumption
  <1> QED
    BY <1>1, QueueInvAlways, PTL DEF Spec, PumpOrder

-----------------------------------------------------------------------------
(* The published counters. *)

Refused == {r \in Requests : phase[r] = "shed"}
FastAdmitted == {r \in Admitted : IsFast(r)}

(* How a step changes what has been counted. *)
Counts(r) ==
    /\ r \notin Admitted /\ Admitted' = Admitted \cup {r}
    /\ admitted_total' = admitted_total + 1
    /\ fast_admitted_total' = IF IsFast(r) THEN fast_admitted_total + 1 ELSE fast_admitted_total
Uncounts(r) ==
    /\ r \in Admitted /\ Admitted' = Admitted \ {r}
    /\ admitted_total' = Pred(admitted_total)
    /\ fast_admitted_total' = IF IsFast(r) THEN Pred(fast_admitted_total) ELSE fast_admitted_total
CountsNobody == Admitted' = Admitted /\ UNCHANGED <<admitted_total, fast_admitted_total>>
Refuses(r) == r \notin Refused /\ Refused' = Refused \cup {r} /\ shed_total' = shed_total + 1
RefusesNobody == Refused' = Refused /\ UNCHANGED shed_total

(* What a step may do to the counters. *)
CountStep ==
    /\ CountsNobody \/ \E r \in Requests : Counts(r) \/ Uncounts(r)
    /\ RefusesNobody \/ \E r \in Requests : Refuses(r)

(* A guard is counted when its slot is taken and uncounted only when it    *)
(* could not be sent; one that comes back stays counted.                   *)
LEMMA CountersChange == QueueInv /\ [Next]_vars => CountStep
  <1> SUFFICES ASSUME QueueInv, [Next]_vars PROVE CountStep
    OBVIOUS
  <1> USE DEF QueueInv, TypeOK, Phases, Queued, Live, Holders, Admitted, Refused, Counts, Uncounts,
        CountsNobody, Refuses, RefusesNobody, CountStep,
        limitVars, slotVars, queueVars, counterVars
  <1>1. ASSUME NEW r \in Requests, AdmitNow(r) PROVE Counts(r) /\ RefusesNobody
    BY <1>1 DEF AdmitNow, Take
  <1>2. ASSUME NEW r \in Requests, Shed(r) PROVE CountsNobody /\ Refuses(r)
    BY <1>2 DEF Shed
  <1>3. ASSUME NEW r \in Requests, Enqueue(r) PROVE CountsNobody /\ RefusesNobody
    BY <1>3 DEF Enqueue
  <1>4. ASSUME NEW r \in Requests, Abandon(r) PROVE CountsNobody /\ RefusesNobody
    BY <1>4 DEF Abandon
  <1>5. ASSUME NEW r \in Requests, Receive(r) PROVE CountsNobody /\ RefusesNobody
    BY <1>5 DEF Receive
  <1>6. ASSUME NEW r \in Requests, Release(r) \/ AbandonGranted(r) PROVE CountsNobody /\ RefusesNobody
    BY <1>6 DEF Release, AbandonGranted, DropGuard
  <1>7. ASSUME Trip PROVE CountsNobody /\ RefusesNobody
    BY <1>7 DEF Trip
  <1>8. ASSUME RecoverStep PROVE CountsNobody /\ RefusesNobody
    BY <1>8 DEF RecoverStep
  <1>9. ASSUME NEW n \in 0..MaxCeiling, SetLimit(n) \/ SetCeiling(n) PROVE CountsNobody /\ RefusesNobody
    BY <1>9 DEF SetLimit, SetCeiling
  <1>10. ASSUME NEW r \in Requests, PumpTake(r) PROVE Counts(r) /\ RefusesNobody
    BY <1>10 DEF PumpTake, Take, BestAdmittable, LiveWaiters
  <1>11. ASSUME PumpDone PROVE CountsNobody /\ RefusesNobody
    BY <1>11 DEF PumpDone
  <1>12. ASSUME NEW r \in Requests, PumpSend(r) PROVE CountsNobody /\ RefusesNobody
    BY <1>12 DEF PumpSend
  <1>13. ASSUME NEW r \in Requests, PumpUndo(r) PROVE Uncounts(r) /\ RefusesNobody
    BY <1>13 DEF PumpUndo
  <1>14. ASSUME UNCHANGED vars PROVE CountsNobody /\ RefusesNobody
    BY <1>14 DEF vars
  <1> HIDE DEF QueueInv, Counts, Uncounts, CountsNobody, Refuses, RefusesNobody
  <1> QED
    BY <1>1, <1>2, <1>3, <1>4, <1>5, <1>6, <1>7, <1>8, <1>9, <1>10, <1>11,
       <1>12, <1>13, <1>14 DEF Next, Pump

(* Every step keeps the counters exact. *)
LEMMA CountersNext == QueueInv /\ CountersExact /\ [Next]_vars => CountersExact'
  <1> SUFFICES ASSUME QueueInv, CountersExact, CountStep PROVE CountersExact'
    BY CountersChange
  <1>1. /\ IsFiniteSet(Admitted) /\ IsFiniteSet(FastAdmitted) /\ IsFiniteSet(Refused)
        /\ admitted_total = Cardinality(Admitted) /\ fast_admitted_total = Cardinality(FastAdmitted)
        /\ shed_total = Cardinality(Refused)
        /\ admitted_total \in Nat /\ fast_admitted_total \in Nat /\ shed_total \in Nat
    <2>1. Admitted \in SUBSET Requests /\ FastAdmitted \in SUBSET Requests /\ Refused \in SUBSET Requests
      BY DEF QueueInv, TypeOK, Admitted, Holders, FastAdmitted, Refused
    <2> QED
      BY <2>1, FS_Subset DEF ConfigAssumption, QueueInv, TypeOK, CountersExact, FastAdmitted, Refused
  <1>2. shed_total' = Cardinality(Refused')
    <2>1. ASSUME NEW r \in Requests, Refuses(r) PROVE shed_total' = Cardinality(Refused')
      BY <1>1, <2>1, FS_AddElement DEF Refuses
    <2> QED
      BY <1>1, <2>1 DEF CountStep, RefusesNobody
  <1>3. admitted_total' = Cardinality(Admitted') /\ fast_admitted_total' = Cardinality(FastAdmitted')
    <2>1. CASE CountsNobody
      BY <1>1, <2>1 DEF CountsNobody, FastAdmitted, IsFast
    <2>2. ASSUME NEW r \in Requests, Counts(r)
          PROVE  admitted_total' = Cardinality(Admitted') /\ fast_admitted_total' = Cardinality(FastAdmitted')
      <3>1. FastAdmitted' = IF IsFast(r) THEN FastAdmitted \cup {r} ELSE FastAdmitted
        BY <2>2 DEF Counts, FastAdmitted, IsFast
      <3>2. r \notin FastAdmitted
        BY <2>2 DEF Counts, FastAdmitted
      <3> QED
        BY <1>1, <2>2, <3>1, <3>2, FS_AddElement DEF Counts
    <2>3. ASSUME NEW r \in Requests, Uncounts(r)
          PROVE  admitted_total' = Cardinality(Admitted') /\ fast_admitted_total' = Cardinality(FastAdmitted')
      <3>1. FastAdmitted' = IF IsFast(r) THEN FastAdmitted \ {r} ELSE FastAdmitted
        BY <2>3 DEF Uncounts, FastAdmitted, IsFast
      <3>2. IsFast(r) => r \in FastAdmitted
        BY <2>3 DEF Uncounts, FastAdmitted
      <3>3. Cardinality(Admitted \ {r}) = admitted_total - 1 /\ Cardinality(Admitted \ {r}) \in Nat
        BY <1>1, <2>3, FS_RemoveElement, FS_CardinalityType DEF Uncounts
      <3>4. IsFast(r) => /\ Cardinality(FastAdmitted \ {r}) = fast_admitted_total - 1
                         /\ Cardinality(FastAdmitted \ {r}) \in Nat
        BY <1>1, <3>2, FS_RemoveElement, FS_CardinalityType
      <3> QED
        BY <1>1, <2>3, <3>1, <3>3, <3>4 DEF Uncounts, Pred
    <2> QED
      BY <2>1, <2>2, <2>3 DEF CountStep
  <1> QED
    BY <1>2, <1>3 DEF CountersExact, FastAdmitted, Refused

(* The numbers of /v1/status are exact: an admission is counted once, one  *)
(* that found its client gone not at all, and a refusal once.              *)
THEOREM CountedOnce == Spec => []CountersExact
  <1>1. Init => CountersExact
    <2> SUFFICES ASSUME Init PROVE CountersExact
      OBVIOUS
    <2>1. Admitted = {} /\ {r \in Admitted : IsFast(r)} = {} /\ {r \in Requests : phase[r] = "shed"} = {}
      BY DEF Init, Admitted, Holders
    <2> QED
      BY <2>1, FS_EmptySet DEF Init, CountersExact
  <1> QED
    BY <1>1, QueueInvAlways, CountersNext, PTL DEF Spec

-----------------------------------------------------------------------------
(* The scheduler implements the counting semaphore callers rely on: every  *)
(* step of admit, pump, release, the breaker and the controller is a       *)
(* grant, a return, a move of the limit, or invisible.                     *)
THEOREM ImplementsPool == Spec => PoolSpec
  <1>1. Init => Pool!Init
    BY DEF Init, Pool!Init, Holders, ConfigAssumption
  <1>2. SlotInv /\ SlotInv' /\ [Next]_vars => [Pool!Next]_(Pool!vars)
    <2> SUFFICES ASSUME SlotInv, SlotInv', [Next]_vars PROVE [Pool!Next]_(Pool!vars)
      OBVIOUS
    <2> USE DEF Pool!Next, Pool!vars
    <2>0. limit \in Nat \ {0} /\ limit' \in Nat \ {0}
      BY DEF SlotInv, QueueInv, TypeOK
    <2>1. CASE Keeps
      BY <2>0, <2>1 DEF Keeps, Pool!Move
    <2>2. ASSUME NEW r \in Requests, Gains(r) PROVE Pool!Next
      <3>1. Holders = FastHeld \cup SlowHeld /\ FastHeld \cap SlowHeld = {}
        BY DEF FastHeld, SlowHeld
      <3>2. Cardinality(Holders) = Cardinality(FastHeld) + Cardinality(SlowHeld)
        <4>1. IsFiniteSet(FastHeld) /\ IsFiniteSet(SlowHeld)
          BY HeldFinite DEF SlotInv, QueueInv
        <4>2. Cardinality(FastHeld) \in Nat /\ Cardinality(SlowHeld) \in Nat
          BY <4>1, FS_CardinalityType
        <4>3. Cardinality(FastHeld \cup SlowHeld) =
                Cardinality(FastHeld) + Cardinality(SlowHeld) - Cardinality(FastHeld \cap SlowHeld)
          BY <4>1, FS_Union
        <4> QED
          BY <3>1, <4>1, <4>2, <4>3, FS_EmptySet
      <3>3. Cardinality(Holders) < limit
        BY <2>0, <2>2, <3>2
           DEF Gains, CanAdmit, InUse, SlotInv, QueueInv, TypeOK, SlotAccounting, FastHeld, SlowHeld
      <3>4. Pool!Grant(r)
        <4>1. Pool!Cardinality(Holders) = Cardinality(Holders)
          BY DEF Pool!Cardinality, Cardinality
        <4> QED
          BY <2>2, <3>3, <4>1 DEF Gains, Pool!Grant
      <3> QED
        BY <3>4
    <2>3. ASSUME NEW r \in Requests, Loses(r) PROVE Pool!Next
      BY <2>3 DEF Loses, Pool!Return
    <2> QED
      BY <2>1, <2>2, <2>3, HoldersChange DEF SlotInv
  <1> QED
    BY <1>1, <1>2, SlotInvAlways, PTL DEF Spec, PoolSpec, Pool!Spec
=============================================================================
