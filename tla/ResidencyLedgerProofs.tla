------------------------ MODULE ResidencyLedgerProofs ------------------------
(***************************************************************************)
(* What the residency ledger guarantees for any number of gateways, any    *)
(* footprints and any budget.                                              *)
(***************************************************************************)
EXTENDS ResidencyLedger, FiniteSetTheorems, WellFoundedInduction, TLAPS

-----------------------------------------------------------------------------
(* Admission is exclusive. *)

Places ==
    /\ pc \in [Procs -> Stages]
    /\ life \in [Procs -> {"none", "held", "free"}]
    /\ file \in [Procs -> {"none", "whole", "torn"}]
    /\ entry \in [Procs -> Nat]
    /\ size \in [Procs -> Nat] /\ actual \in [Procs -> Nat] /\ want \in [Procs -> Nat]
    /\ side \in [Procs -> {"none", "built", "warm", "embedder"}]
    /\ retiring \in SUBSET Procs /\ moves \in [Procs -> Nat] /\ admit \in SUBSET Procs
    /\ granted \in [Procs -> Nat] /\ unseen \in SUBSET Procs /\ undercut \in SUBSET Procs

(* Whoever is between its lock and its decision is the only holder. *)
LockHeld == \A p \in Procs : InCriticalSection(p) => admit = {p}

GateInv == Places /\ LockHeld

(* The gate's invariant holds when no gateway has started. *)
LEMMA GateInvInit == Init => GateInv
  BY LedgerAssumption DEF LedgerAssumption, Init, GateInv, Places, LockHeld,
       InCriticalSection, Stages, Acquiring, Reserved, Running, Loaded

(* Every step, a crash inside the critical section included, keeps it. *)
LEMMA GateInvNext == GateInv /\ [Next]_vars => GateInv'
  <1> SUFFICES ASSUME GateInv, [Next]_vars PROVE GateInv'
    OBVIOUS
  <1> USE LedgerAssumption DEF LedgerAssumption, GateInv, Places, LockHeld,
        InCriticalSection, Stages, Acquiring, Reserved, Running, Loaded, Others, diskVars,
        modelVars, sideVars, queueVars, hostVars, ghostVars
  <1>1. ASSUME NEW p \in Procs, Start(p) PROVE GateInv'
    BY <1>1 DEF Start
  <1>2. ASSUME NEW p \in Procs, LockAdmit(p) PROVE GateInv'
    BY <1>2 DEF LockAdmit, TakeAdmit, Enqueue, Queued
  <1>3. ASSUME NEW p \in Procs, Scan(p) PROVE GateInv'
    BY <1>3 DEF Scan, TakeStock, Torn, ReapedLife, ReapedFile, Orphans
  <1>4. ASSUME NEW p \in Procs, Reserve(p) PROVE GateInv'
    BY <1>4 DEF Reserve, Grant, Without, ReapedTickets
  <1>5. ASSUME NEW p \in Procs, Park(p) PROVE GateInv'
    <2>1. Prio[p] = 0 \/ Prio[p] # 0
      OBVIOUS
    <2>2. pc[p] = "scanned" /\ pc' \in {[pc EXCEPT ![p] = "ask"], [pc EXCEPT ![p] = "parked"]}
      BY <1>5, <2>1 DEF Park
    <2>3. admit' = {} /\ UNCHANGED <<diskVars, modelVars, sideVars, ghostVars>>
      BY <1>5 DEF Park
    <2>4. Places'
      BY <2>2, <2>3
    <2>5. LockHeld'
      BY <2>2, <2>3
    <2> QED BY <2>4, <2>5
  <1>6. ASSUME NEW p \in Procs, AskVictim(p) PROVE GateInv'
    BY <1>6 DEF AskVictim, Victims, ReapedLife, ReapedFile, Orphans
  <1>7. ASSUME NEW p \in Procs, Retry(p) PROVE GateInv'
    BY <1>7 DEF Retry
  <1>8. ASSUME NEW p \in Procs, Deny(p) PROVE GateInv'
    BY <1>8 DEF Deny, LeaveQueue, Without
  <1>9. ASSUME NEW p \in Procs, ReLock(p) PROVE GateInv'
    BY <1>9 DEF ReLock, TakeAdmit
  <1>10. ASSUME NEW p \in Procs, ReScan(p) PROVE GateInv'
    BY <1>10 DEF ReScan, TakeStock, Torn, ReapedLife, ReapedFile, Orphans
  <1>11. ASSUME NEW p \in Procs, Readmit(p) PROVE GateInv'
    <2>1. pc[p] = "re_scanned" /\ pc' \in {[pc EXCEPT ![p] = "reloading"], [pc EXCEPT ![p] = "idle"]}
      BY <1>11 DEF Readmit
    <2>2. admit' = {} /\ want' = [want EXCEPT ![p] = 0] /\ UNCHANGED <<life, size, actual, sideVars>>
      BY <1>11 DEF Readmit
    <2>3. /\ entry' \in [Procs -> Nat] /\ file' \in [Procs -> {"none", "whole", "torn"}]
          /\ granted' \in [Procs -> Nat] /\ unseen' \in SUBSET Procs /\ undercut' \in SUBSET Procs
      <3>1. CASE LedgerFits(in_use[p], want[p]) /\ host = "normal"
        BY <1>11, <3>1 DEF Readmit, Grant
      <3>2. CASE ~(LedgerFits(in_use[p], want[p]) /\ host = "normal")
        BY <1>11, <3>2 DEF Readmit
      <3> QED BY <3>1, <3>2
    <2>4. Places'
      BY <2>1, <2>2, <2>3
    <2>5. LockHeld'
      BY <2>1, <2>2
    <2> QED BY <2>4, <2>5
  <1>12. ASSUME NEW p \in Procs, LockUnqueued(p) PROVE GateInv'
    BY <1>12 DEF LockUnqueued, TakeAdmit
  <1>13. ASSUME NEW p \in Procs, FailOpen(p) PROVE GateInv'
    BY <1>13 DEF FailOpen, LeaveQueue, Without
  <1>14. ASSUME NEW p \in Procs, Load(p) PROVE GateInv'
    BY <1>14 DEF Load, Quiet, DiskQuiet
  <1>15. ASSUME NEW p \in Procs, Unload(p) PROVE GateInv'
    BY <1>15 DEF Unload, Quiet, DiskQuiet
  <1>16. ASSUME NEW p \in Procs, PublishUnload(p) PROVE GateInv'
    BY <1>16 DEF PublishUnload, Republish, Write, Total, Quiet
  <1>17. ASSUME NEW p \in Procs, Reload(p) PROVE GateInv'
    BY <1>17 DEF Reload, Quiet, DiskQuiet, Total
  <1>18. ASSUME NEW p \in Procs, ReloadOpen(p) PROVE GateInv'
    BY <1>18 DEF ReloadOpen, Quiet, Move
  <1>19. ASSUME NEW p \in Procs, ReloadFails(p) PROVE GateInv'
    BY <1>19 DEF ReloadFails, Republish, Write, Total, Quiet
  <1>20. ASSUME NEW p \in Procs, Switch(p) PROVE GateInv'
    BY <1>20 DEF Switch, DropForSwitch, Move, Quiet, DiskQuiet
  <1>21. ASSUME NEW p \in Procs, PublishSwitch(p) PROVE GateInv'
    BY <1>21 DEF PublishSwitch, Republish, Write, Total, Quiet
  <1>22. ASSUME NEW p \in Procs, SwitchFails(p) PROVE GateInv'
    BY <1>22 DEF SwitchFails, DropForSwitch, Move, Quiet, DiskQuiet
  <1>23. ASSUME NEW p \in Procs, GrowCheck(p) PROVE GateInv'
    BY <1>23 DEF GrowCheck, Quiet, Move, ReapedLife, ReapedFile, Orphans
  <1>24. ASSUME NEW p \in Procs, GrowPublish(p) PROVE GateInv'
    BY <1>24 DEF GrowPublish, Write, Quiet
  <1>25. ASSUME NEW p \in Procs, GrowServe(p) PROVE GateInv'
    BY <1>25 DEF GrowServe, Quiet, DiskQuiet
  <1>26. ASSUME NEW p \in Procs, Shrink(p) PROVE GateInv'
    BY <1>26 DEF Shrink, Quiet, DiskQuiet
  <1>27. ASSUME NEW p \in Procs, ShrinkWrite(p) PROVE GateInv'
    BY <1>27 DEF ShrinkWrite, Write, Quiet
  <1>28. ASSUME NEW p \in Procs, WarmBuild(p) PROVE GateInv'
    BY <1>28 DEF WarmBuild, Quiet, Move, ReapedLife, ReapedFile, Orphans
  <1>29. ASSUME NEW p \in Procs, PublishWarm(p) PROVE GateInv'
    BY <1>29 DEF PublishWarm, Republish, Write, Total, Quiet
  <1>30. ASSUME NEW p \in Procs, SweepWarm(p) PROVE GateInv'
    BY <1>30 DEF SweepWarm, Republish, Write, Total, Quiet
  <1>31. ASSUME NEW p \in Procs, BillEmbedder(p) PROVE GateInv'
    BY <1>31 DEF BillEmbedder, Write, Quiet, DiskQuiet, Move
  <1>32. ASSUME NEW p \in Procs, Invalidate(p) PROVE GateInv'
    BY <1>32 DEF Invalidate, Quiet, DiskQuiet, Move
  <1>33. ASSUME NEW p \in Procs, PublishRetired(p) PROVE GateInv'
    BY <1>33 DEF PublishRetired, Republish, Write, Total, Quiet
  <1>34. ASSUME NEW p \in Procs, Cut(p) PROVE GateInv'
    BY <1>34 DEF Cut
  <1>35. ASSUME NEW p \in Procs, Crash(p) PROVE GateInv'
    BY <1>35 DEF Crash, Vanish, Gone, Grant, Without
  <1>36. ASSUME NEW p \in Procs, Quit(p) PROVE GateInv'
    BY <1>36 DEF Quit, Gone, Grant, Without
  <1>37. ASSUME NEW p \in Procs, Yield(p) PROVE GateInv'
    BY <1>37 DEF Yield, Vanish, Gone, Grant, Without
  <1>38. ASSUME NEW p \in Procs, ExpirePreempt(p) PROVE GateInv'
    BY <1>38 DEF ExpirePreempt
  <1>39. ASSUME Reap PROVE GateInv'
    BY <1>39 DEF Reap, Quiet, ReapedLife, ReapedFile, Orphans
  <1>40. ASSUME HostChanges PROVE GateInv'
    BY <1>40 DEF HostChanges
  <1>41. ASSUME UNCHANGED vars PROVE GateInv'
    BY <1>41 DEF vars
  <1> HIDE DEF GateInv, Places, LockHeld, InCriticalSection, Stages,
        Acquiring, Reserved, Running, Loaded, Others, diskVars, modelVars,
        sideVars, queueVars, hostVars, ghostVars
  <1> QED
    BY <1>1, <1>2, <1>3, <1>4, <1>5, <1>6, <1>7, <1>8, <1>9, <1>10, <1>11,
       <1>12, <1>13, <1>14, <1>15, <1>16, <1>17, <1>18, <1>19, <1>20,
       <1>21, <1>22, <1>23, <1>24, <1>25, <1>26, <1>27, <1>28, <1>29,
       <1>30, <1>31, <1>32, <1>33, <1>34, <1>35, <1>36, <1>37, <1>38,
       <1>39, <1>40, <1>41 DEF Next, GateStep

(* Of two gateways that race to load or to reload, only one at a time is   *)
(* between its scan of the ledger and its reservation: residency.lock as   *)
(* acquire_residency and readmit_my_reservation take it.                   *)
THEOREM OneAdmissionAtATime == Spec => []AdmissionExclusive
  <1>1. GateInv => AdmissionExclusive
    BY DEF GateInv, LockHeld, AdmissionExclusive
  <1> QED
    BY <1>1, GateInvInit, GateInvNext, PTL DEF Spec

-----------------------------------------------------------------------------
(* The reservation covers the memory. *)

(* What each stage holds, and what it has published unless it was undercut. *)
Backed ==
    \A p \in Procs :
      /\ pc[p] \in Acquiring \cup {"off", "reserved", "freed", "idle", "re_try", "re_locked",
                                   "re_scanned", "reloading"} => actual[p] = 0
      /\ pc[p] \in (Loaded \ {"big"}) \cup {"switching"} => actual[p] = size[p]
      /\ pc[p] = "big" => actual[p] = size[p] + Growth[p]
      /\ pc[p] \in Acquiring \cup {"off", "reserved"} => size[p] = Footprint[p]
      /\ pc[p] \in {"re_try", "re_locked", "re_scanned"} => size[p] <= want[p]
      /\ pc[p] \in {"reserved", "reloading", "resident", "growing", "lowered"} /\ p \notin undercut =>
           size[p] <= entry[p]
      /\ pc[p] \in {"published", "big"} /\ p \notin undercut => size[p] + Growth[p] <= entry[p]

(* A reserved process has its lock and its file, a dead one has no lock;   *)
(* a grant is shown by an entry of its size at least.                      *)
Locked ==
    \A p \in Procs :
      /\ pc[p] \in Reserved => life[p] = "held" /\ file[p] # "none"
      /\ pc[p] = "dead" => life[p] # "held"
      /\ granted[p] <= entry[p]
      /\ granted[p] > 0 => life[p] = "held" /\ file[p] # "none"

HoldInv == GateInv /\ Backed /\ Locked

(* Nothing is held before anybody starts. *)
LEMMA HoldInvInit == Init => HoldInv
  <1> SUFFICES ASSUME Init PROVE Backed /\ Locked
    BY GateInvInit DEF HoldInv
  <1> QED
    BY LedgerAssumption DEF LedgerAssumption, Init, Backed, Locked, Acquiring, Reserved, Running, Loaded

(* Every step keeps the memory backed and the locks truthful. *)
LEMMA HoldInvNext == HoldInv /\ [Next]_vars => HoldInv'
  <1> SUFFICES ASSUME HoldInv, [Next]_vars PROVE (Backed /\ Locked)'
    BY GateInvNext DEF HoldInv
  <1> USE LedgerAssumption DEF LedgerAssumption, HoldInv, GateInv, Places, Backed, Locked,
        Acquiring, Reserved, Running, Loaded, Stages, Others, diskVars, modelVars, sideVars,
        queueVars, hostVars, ghostVars
  <1>1. ASSUME NEW p \in Procs, Start(p) PROVE (Backed /\ Locked)'
    BY <1>1 DEF Start
  <1>2. ASSUME NEW p \in Procs, LockAdmit(p) PROVE (Backed /\ Locked)'
    BY <1>2 DEF LockAdmit, TakeAdmit, Enqueue, Queued
  <1>3. ASSUME NEW p \in Procs, Scan(p) PROVE (Backed /\ Locked)'
    BY <1>3 DEF Scan, TakeStock, Torn, ReapedLife, ReapedFile, Orphans
  <1>4. ASSUME NEW p \in Procs, Reserve(p) PROVE (Backed /\ Locked)'
    BY <1>4 DEF Reserve, Grant, Without, ReapedTickets
  <1>5. ASSUME NEW p \in Procs, Park(p) PROVE (Backed /\ Locked)'
    BY <1>5 DEF Park, ReapedTickets
  <1>6. ASSUME NEW p \in Procs, AskVictim(p) PROVE (Backed /\ Locked)'
    BY <1>6 DEF AskVictim, Victims, ReapedLife, ReapedFile, Orphans
  <1>7. ASSUME NEW p \in Procs, Retry(p) PROVE (Backed /\ Locked)'
    BY <1>7 DEF Retry
  <1>8. ASSUME NEW p \in Procs, Deny(p) PROVE (Backed /\ Locked)'
    BY <1>8 DEF Deny, LeaveQueue, Without
  <1>9. ASSUME NEW p \in Procs, ReLock(p) PROVE (Backed /\ Locked)'
    BY <1>9 DEF ReLock, TakeAdmit
  <1>10. ASSUME NEW p \in Procs, ReScan(p) PROVE (Backed /\ Locked)'
    BY <1>10 DEF ReScan, TakeStock, Torn, ReapedLife, ReapedFile, Orphans
  <1>11. ASSUME NEW p \in Procs, Readmit(p) PROVE (Backed /\ Locked)'
    BY <1>11 DEF Readmit, Grant
  <1>12. ASSUME NEW p \in Procs, LockUnqueued(p) PROVE (Backed /\ Locked)'
    BY <1>12 DEF LockUnqueued, TakeAdmit
  <1>13. ASSUME NEW p \in Procs, FailOpen(p) PROVE (Backed /\ Locked)'
    BY <1>13 DEF FailOpen, LeaveQueue, Without
  <1>14. ASSUME NEW p \in Procs, Load(p) PROVE (Backed /\ Locked)'
    BY <1>14 DEF Load, Quiet, DiskQuiet
  <1>15. ASSUME NEW p \in Procs, Unload(p) PROVE (Backed /\ Locked)'
    BY <1>15 DEF Unload, Quiet, DiskQuiet
  <1>16. ASSUME NEW p \in Procs, PublishUnload(p) PROVE (Backed /\ Locked)'
    BY <1>16 DEF PublishUnload, Republish, Write, Total, Quiet
  <1>17. ASSUME NEW p \in Procs, Reload(p) PROVE (Backed /\ Locked)'
    BY <1>17 DEF Reload, Quiet, DiskQuiet, Total
  <1>18. ASSUME NEW p \in Procs, ReloadOpen(p) PROVE (Backed /\ Locked)'
    BY <1>18 DEF ReloadOpen, Quiet, Move
  <1>19. ASSUME NEW p \in Procs, ReloadFails(p) PROVE (Backed /\ Locked)'
    BY <1>19 DEF ReloadFails, Republish, Write, Total, Quiet
  <1>20. ASSUME NEW p \in Procs, Switch(p) PROVE (Backed /\ Locked)'
    BY <1>20 DEF Switch, DropForSwitch, Move, Quiet, DiskQuiet
  <1>21. ASSUME NEW p \in Procs, PublishSwitch(p) PROVE (Backed /\ Locked)'
    BY <1>21 DEF PublishSwitch, Republish, Write, Total, Quiet
  <1>22. ASSUME NEW p \in Procs, SwitchFails(p) PROVE (Backed /\ Locked)'
    BY <1>22 DEF SwitchFails, DropForSwitch, Move, Quiet, DiskQuiet
  <1>23. ASSUME NEW p \in Procs, GrowCheck(p) PROVE (Backed /\ Locked)'
    BY <1>23 DEF GrowCheck, Quiet, Move, ReapedLife, ReapedFile, Orphans
  <1>24. ASSUME NEW p \in Procs, GrowPublish(p) PROVE (Backed /\ Locked)'
    BY <1>24 DEF GrowPublish, Write, Quiet
  <1>25. ASSUME NEW p \in Procs, GrowServe(p) PROVE (Backed /\ Locked)'
    BY <1>25 DEF GrowServe, Quiet, DiskQuiet
  <1>26. ASSUME NEW p \in Procs, Shrink(p) PROVE (Backed /\ Locked)'
    BY <1>26 DEF Shrink, Quiet, DiskQuiet
  <1>27. ASSUME NEW p \in Procs, ShrinkWrite(p) PROVE (Backed /\ Locked)'
    BY <1>27 DEF ShrinkWrite, Write, Quiet
  <1>28. ASSUME NEW p \in Procs, WarmBuild(p) PROVE (Backed /\ Locked)'
    BY <1>28 DEF WarmBuild, Quiet, Move, ReapedLife, ReapedFile, Orphans
  <1>29. ASSUME NEW p \in Procs, PublishWarm(p) PROVE (Backed /\ Locked)'
    BY <1>29 DEF PublishWarm, Republish, Write, Total, Quiet
  <1>30. ASSUME NEW p \in Procs, SweepWarm(p) PROVE (Backed /\ Locked)'
    BY <1>30 DEF SweepWarm, Republish, Write, Total, Quiet
  <1>31. ASSUME NEW p \in Procs, BillEmbedder(p) PROVE (Backed /\ Locked)'
    BY <1>31 DEF BillEmbedder, Write, Quiet, DiskQuiet, Move
  <1>32. ASSUME NEW p \in Procs, Invalidate(p) PROVE (Backed /\ Locked)'
    BY <1>32 DEF Invalidate, Quiet, DiskQuiet, Move
  <1>33. ASSUME NEW p \in Procs, PublishRetired(p) PROVE (Backed /\ Locked)'
    BY <1>33 DEF PublishRetired, Republish, Write, Total, Quiet
  <1>34. ASSUME NEW p \in Procs, Cut(p) PROVE (Backed /\ Locked)'
    BY <1>34 DEF Cut
  <1>35. ASSUME NEW p \in Procs, Crash(p) PROVE (Backed /\ Locked)'
    BY <1>35 DEF Crash, Vanish, Gone, Grant, Without
  <1>36. ASSUME NEW p \in Procs, Quit(p) PROVE (Backed /\ Locked)'
    BY <1>36 DEF Quit, Gone, Grant, Without
  <1>37. ASSUME NEW p \in Procs, Yield(p) PROVE (Backed /\ Locked)'
    BY <1>37 DEF Yield, Vanish, Gone, Grant, Without
  <1>38. ASSUME NEW p \in Procs, ExpirePreempt(p) PROVE (Backed /\ Locked)'
    BY <1>38 DEF ExpirePreempt
  <1>39. ASSUME Reap PROVE (Backed /\ Locked)'
    BY <1>39 DEF Reap, Quiet, ReapedLife, ReapedFile, Orphans
  <1>40. ASSUME HostChanges PROVE (Backed /\ Locked)'
    BY <1>40 DEF HostChanges
  <1>41. ASSUME UNCHANGED vars PROVE (Backed /\ Locked)'
    BY <1>41 DEF vars
  <1> HIDE DEF HoldInv, GateInv, Places, Backed, Locked, Acquiring,
        Reserved, Running, Loaded, Stages, Others, diskVars, modelVars,
        sideVars, queueVars, hostVars, ghostVars
  <1> QED
    BY <1>1, <1>2, <1>3, <1>4, <1>5, <1>6, <1>7, <1>8, <1>9, <1>10, <1>11,
       <1>12, <1>13, <1>14, <1>15, <1>16, <1>17, <1>18, <1>19, <1>20,
       <1>21, <1>22, <1>23, <1>24, <1>25, <1>26, <1>27, <1>28, <1>29,
       <1>30, <1>31, <1>32, <1>33, <1>34, <1>35, <1>36, <1>37, <1>38,
       <1>39, <1>40, <1>41 DEF Next, GateStep

(* The invariant of both. *)
LEMMA HoldInvAlways == Spec => []HoldInv
  BY HoldInvInit, HoldInvNext, PTL DEF Spec

(* The primary never has more memory than its entry shows: grow_context    *)
(* publishes before it serves, shrink_context, unload and the retirement   *)
(* of a dead backend free before they publish, ensure_loaded is admitted   *)
(* before it loads.  The exceptions are those of the property: a switch    *)
(* under way, and the two ways in which an entry loses the primary's share. *)
THEOREM NeverServesUnreserved == Spec => []ReservedBeforeServed
  <1>1. HoldInv => ReservedBeforeServed
    BY LedgerAssumption DEF LedgerAssumption, HoldInv, GateInv, Places, Backed,
         ReservedBeforeServed, Reserved, Running, Loaded
  <1> QED
    BY <1>1, HoldInvAlways, PTL

(* Whatever step it was killed in, a dead gateway counts for nothing in    *)
(* the next scan, because its lifetime lock died with it.                  *)
THEOREM DeadAreFree == Spec => []DeadCountForNothing
  <1>1. HoldInv => DeadCountForNothing
    BY DEF HoldInv, Locked, DeadCountForNothing, Visible
  <1> QED
    BY <1>1, HoldInvAlways, PTL
-----------------------------------------------------------------------------
(* Sums.  MapThenSumSet folds over the subsets of a set, taking out one    *)
(* element after the other; SumOf is that fold for a function.  The lemmas *)
(* are inductions on the size of a set, told as the impossibility of a     *)
(* smallest counterexample.                                                *)

Pick(s) == CHOOSE x \in s : TRUE
Iter(g, f, S) == g = [s \in SUBSET S |-> IF s = {} THEN 0 ELSE f[Pick(s)] + g[s \ {Pick(s)}]]
SumOf(f, S) == (CHOOSE g : Iter(g, f, S))[S]

(* A set of naturals has a least element. *)
LEMMA LeastExists ==
    ASSUME NEW T, T \subseteq Nat, T # {}
    PROVE  \E x \in T : \A y \in T : x <= y
  <1> DEFINE R == {ss \in Nat \X Nat : ss[1] < ss[2]}
  <1>1. IsWellFoundedOn(R, Nat)
    BY NatLessThanWellFounded DEF OpToRel
  <1>2. \E x \in T : \A y \in T : ~(<<y, x>> \in R)
    BY <1>1, WFMin
  <1>3. \A x, y \in Nat : ~(<<y, x>> \in R) => x <= y
    OBVIOUS
  <1> QED BY <1>2, <1>3

(* The element the fold takes next. *)
LEMMA PickIs == ASSUME NEW s, s # {} PROVE Pick(s) \in s
  BY DEF Pick

(* The fold is defined: it can be followed up to any size. *)
LEMMA IterExists ==
    ASSUME NEW D, NEW f \in [D -> Nat], NEW S \in SUBSET D, IsFiniteSet(S)
    PROVE  \E g \in [SUBSET S -> Nat] : Iter(g, f, S)
  <1> DEFINE Rec(g, s) == IF s = {} THEN 0 ELSE f[Pick(s)] + g[s \ {Pick(s)}]
             Upto(n) == \E g \in [SUBSET S -> Nat] : \A s \in SUBSET S : Cardinality(s) <= n => g[s] = Rec(g, s)
             Bad == {n \in Nat : ~Upto(n)}
  <1>1. \A s \in SUBSET S : IsFiniteSet(s) /\ Cardinality(s) \in Nat
    BY FS_Subset, FS_CardinalityType
  <1>2. \A s \in SUBSET S : Cardinality(s) = 0 <=> s = {}
    BY <1>1, FS_EmptySet
  <1>3. ASSUME NEW s \in SUBSET S, s # {}
        PROVE  /\ Pick(s) \in S /\ s \ {Pick(s)} \in SUBSET S
               /\ Cardinality(s \ {Pick(s)}) = Cardinality(s) - 1
    BY <1>1, <1>3, PickIs, FS_RemoveElement
  <1>4. ASSUME NEW g \in [SUBSET S -> Nat], NEW s \in SUBSET S PROVE Rec(g, s) \in Nat
    <2>1. s # {} => f[Pick(s)] \in Nat /\ g[s \ {Pick(s)}] \in Nat
      BY <1>3
    <2> QED BY <2>1
  <1> HIDE DEF Rec
  <1>5. Upto(0)
    <2> DEFINE g == [s \in SUBSET S |-> 0]
    <2>1. g \in [SUBSET S -> Nat]
      OBVIOUS
    <2>2. ASSUME NEW s \in SUBSET S, Cardinality(s) <= 0 PROVE g[s] = Rec(g, s)
      <3>1. s = {}
        BY <1>1, <1>2, <2>2
      <3> QED BY <3>1 DEF Rec
    <2> QED BY <2>1, <2>2
  <1>6. ASSUME NEW n \in Nat, Upto(n) PROVE Upto(n + 1)
    <2>1. PICK g \in [SUBSET S -> Nat] : \A s \in SUBSET S : Cardinality(s) <= n => g[s] = Rec(g, s)
      BY <1>6
    <2> DEFINE h == [s \in SUBSET S |-> IF Cardinality(s) <= n THEN g[s] ELSE Rec(g, s)]
    <2>2. h \in [SUBSET S -> Nat]
      BY <1>4
    <2>3. ASSUME NEW s \in SUBSET S, Cardinality(s) <= n + 1 PROVE h[s] = Rec(h, s)
      <3>1. h[s] = Rec(g, s)
        BY <2>1
      <3>2. CASE s = {}
        BY <3>1, <3>2 DEF Rec
      <3>3. CASE s # {}
        <4>1. s \ {Pick(s)} \in SUBSET S /\ Cardinality(s \ {Pick(s)}) <= n
          BY <1>1, <1>3, <2>3, <3>3
        <4>2. h[s \ {Pick(s)}] = g[s \ {Pick(s)}]
          BY <4>1
        <4> HIDE DEF h
        <4> QED BY <3>1, <3>3, <4>2 DEF Rec
      <3> QED BY <3>2, <3>3
    <2> HIDE DEF h
    <2> QED BY <2>2, <2>3
  <1> HIDE DEF Upto
  <1>7. \A n \in Nat : Upto(n)
    <2> SUFFICES ASSUME Bad # {} PROVE FALSE
      OBVIOUS
    <2>1. PICK n \in Bad : \A y \in Bad : n <= y
      BY LeastExists
    <2>2. n \in Nat /\ n # 0
      BY <1>5
    <2>3. n - 1 \in Nat /\ n - 1 \notin Bad
      BY <2>1, <2>2
    <2>4. Upto((n - 1) + 1)
      BY <1>6, <2>3
    <2>5. (n - 1) + 1 = n
      BY <2>2
    <2> QED BY <2>1, <2>4, <2>5
  <1>8. PICK g \in [SUBSET S -> Nat] : \A s \in SUBSET S : Cardinality(s) <= Cardinality(S) => g[s] = Rec(g, s)
    BY <1>1, <1>7 DEF Upto
  <1>9. \A s \in SUBSET S : g[s] = Rec(g, s)
    BY <1>8, FS_Subset
  <1>10. g = [s \in SUBSET S |-> Rec(g, s)]
    BY <1>9
  <1> QED BY <1>10 DEF Iter, Rec

(* What it makes of one set. *)
LEMMA IterStep ==
    ASSUME NEW g, NEW f, NEW S, Iter(g, f, S), NEW s \in SUBSET S
    PROVE  g[s] = IF s = {} THEN 0 ELSE f[Pick(s)] + g[s \ {Pick(s)}]
  <1> DEFINE F == [t \in SUBSET S |-> IF t = {} THEN 0 ELSE f[Pick(t)] + g[t \ {Pick(t)}]]
  <1>1. g = F
    BY DEF Iter
  <1>2. F[s] = IF s = {} THEN 0 ELSE f[Pick(s)] + g[s \ {Pick(s)}]
    OBVIOUS
  <1> HIDE DEF F
  <1> QED BY <1>1, <1>2

(* Two folds agree on the sets they both cover, and count in naturals. *)
LEMMA IterSame ==
    ASSUME NEW D, NEW f \in [D -> Nat], NEW S \in SUBSET D, NEW T \in SUBSET D, IsFiniteSet(S),
           NEW g, NEW h, Iter(g, f, S), Iter(h, f, T), NEW s \in SUBSET S, s \in SUBSET T
    PROVE  g[s] = h[s] /\ g[s] \in Nat
  <1> DEFINE Good(t) == g[t] = h[t] /\ g[t] \in Nat
             Bad == {n \in Nat : \E t \in SUBSET (S \cap T) : Cardinality(t) = n /\ ~Good(t)}
  <1>1. \A t \in SUBSET S : IsFiniteSet(t) /\ Cardinality(t) \in Nat
    BY FS_Subset, FS_CardinalityType
  <1> SUFFICES ASSUME Bad # {} PROVE FALSE
    BY <1>1
  <1>2. PICK n \in Bad : \A y \in Bad : n <= y
    BY LeastExists
  <1>3. PICK t \in SUBSET (S \cap T) : Cardinality(t) = n /\ ~Good(t)
    BY <1>2
  <1>4. /\ g[t] = IF t = {} THEN 0 ELSE f[Pick(t)] + g[t \ {Pick(t)}]
        /\ h[t] = IF t = {} THEN 0 ELSE f[Pick(t)] + h[t \ {Pick(t)}]
    <2>1. t \in SUBSET S /\ t \in SUBSET T
      OBVIOUS
    <2>2. g[t] = IF t = {} THEN 0 ELSE f[Pick(t)] + g[t \ {Pick(t)}]
      BY ONLY Iter(g, f, S), <2>1, IterStep, Zenon
    <2>3. h[t] = IF t = {} THEN 0 ELSE f[Pick(t)] + h[t \ {Pick(t)}]
      BY ONLY Iter(h, f, T), <2>1, IterStep, Zenon
    <2> QED BY <2>2, <2>3
  <1>5. t # {}
    BY <1>3, <1>4
  <1> DEFINE u == t \ {Pick(t)}
  <1>6. Pick(t) \in D /\ Pick(t) \in t
    BY <1>5, PickIs
  <1>7. u \in SUBSET (S \cap T) /\ Cardinality(u) \in Nat /\ Cardinality(u) < n
    BY <1>1, <1>3, <1>6, FS_RemoveElement
  <1>8. Good(u)
    BY <1>2, <1>7
  <1>9. f[Pick(t)] \in Nat
    BY <1>6
  <1> HIDE DEF u
  <1> QED BY <1>3, <1>4, <1>5, <1>8, <1>9 DEF u

(* It does not matter which element is taken first. *)
LEMMA IterSplit ==
    ASSUME NEW D, NEW f \in [D -> Nat], NEW S \in SUBSET D, IsFiniteSet(S), NEW g, Iter(g, f, S),
           NEW s \in SUBSET S, NEW x \in s
    PROVE  g[s] = f[x] + g[s \ {x}]
  <1> DEFINE Good(t) == \A y \in t : g[t] = f[y] + g[t \ {y}]
             Bad == {n \in Nat : \E t \in SUBSET S : Cardinality(t) = n /\ ~Good(t)}
  <1>1. \A t \in SUBSET S : IsFiniteSet(t) /\ Cardinality(t) \in Nat
    BY FS_Subset, FS_CardinalityType
  <1>n. \A t \in SUBSET S : g[t] \in Nat
    BY IterSame
  <1> SUFFICES ASSUME Bad # {} PROVE FALSE
    BY <1>1
  <1>2. PICK n \in Bad : \A y \in Bad : n <= y
    BY LeastExists
  <1>3. PICK t \in SUBSET S : Cardinality(t) = n /\ ~Good(t)
    BY <1>2
  <1>4. PICK y \in t : g[t] # f[y] + g[t \ {y}]
    BY <1>3
  <1>5. PICK z : z = Pick(t)
    OBVIOUS
  <1>6. z \in t /\ g[t] = f[z] + g[t \ {z}]
    BY <1>4, <1>5, IterStep, PickIs
  <1>7. y # z
    BY <1>4, <1>6
  <1>8. /\ t \ {y} \in SUBSET S /\ t \ {z} \in SUBSET S /\ (t \ {y}) \ {z} \in SUBSET S
        /\ Cardinality(t \ {y}) = n - 1 /\ Cardinality(t \ {z}) = n - 1
    BY <1>1, <1>3, <1>4, <1>6, FS_RemoveElement
  <1>9. Good(t \ {y}) /\ Good(t \ {z})
    <2>1. n - 1 \notin Bad /\ n - 1 \in Nat
      BY <1>1, <1>2, <1>8
    <2> QED BY <1>8, <2>1
  <1>10. g[t \ {y}] = f[z] + g[(t \ {y}) \ {z}]
    BY <1>6, <1>7, <1>9
  <1>11. g[t \ {z}] = f[y] + g[(t \ {z}) \ {y}]
    BY <1>4, <1>7, <1>9
  <1>12. (t \ {z}) \ {y} = (t \ {y}) \ {z}
    OBVIOUS
  <1>13. PICK k \in Nat : k = g[(t \ {y}) \ {z}]
    BY <1>n, <1>8
  <1>14. f[y] \in Nat /\ f[z] \in Nat
    BY <1>4, <1>6
  <1>15. f[z] + (f[y] + k) = f[y] + (f[z] + k)
    BY <1>13, <1>14
  <1> QED BY <1>4, <1>6, <1>10, <1>11, <1>12, <1>13, <1>15

(* A sum is what any fold over a larger set makes of the set. *)
LEMMA SumIs ==
    ASSUME NEW D, NEW f \in [D -> Nat], NEW S \in SUBSET D, IsFiniteSet(S), NEW g, Iter(g, f, S)
    PROVE  \A s \in SUBSET S : SumOf(f, s) = g[s] /\ SumOf(f, s) \in Nat
  <1> SUFFICES ASSUME NEW s \in SUBSET S PROVE SumOf(f, s) = g[s] /\ SumOf(f, s) \in Nat
    OBVIOUS
  <1>1. IsFiniteSet(s) /\ s \in SUBSET D
    BY FS_Subset
  <1>2. \E h : Iter(h, f, s)
    BY <1>1, IterExists
  <1>3. PICK h : h = CHOOSE k : Iter(k, f, s)
    OBVIOUS
  <1>4. Iter(h, f, s)
    BY <1>2, <1>3
  <1>5. g[s] = h[s] /\ g[s] \in Nat
    BY <1>1, <1>4, IterSame
  <1> QED BY <1>3, <1>5 DEF SumOf

(* Sums are naturals, and any element can be taken out. *)
LEMMA SumFacts ==
    ASSUME NEW D, NEW f \in [D -> Nat], NEW S \in SUBSET D, IsFiniteSet(S)
    PROVE  /\ SumOf(f, S) \in Nat /\ SumOf(f, {}) = 0
           /\ \A x \in S : SumOf(f, S) = f[x] + SumOf(f, S \ {x}) /\ SumOf(f, S \ {x}) \in Nat
  <1>1. PICK g : Iter(g, f, S)
    BY IterExists
  <1>2. \A s \in SUBSET S : SumOf(f, s) = g[s] /\ SumOf(f, s) \in Nat
    BY <1>1, SumIs
  <1>3. g[{}] = 0
    BY <1>1, IterStep
  <1>4. \A x \in S : g[S] = f[x] + g[S \ {x}]
    BY <1>1, IterSplit
  <1>5. \A x \in S : S \ {x} \in SUBSET S
    OBVIOUS
  <1> QED BY <1>2, <1>3, <1>4, <1>5

(* Smaller terms, smaller sum. *)
LEMMA SumMono ==
    ASSUME NEW D, NEW f \in [D -> Nat], NEW h \in [D -> Nat], NEW S \in SUBSET D, IsFiniteSet(S),
           \A x \in S : f[x] <= h[x]
    PROVE  SumOf(f, S) <= SumOf(h, S)
  <1> DEFINE Good(t) == SumOf(f, t) <= SumOf(h, t)
             Bad == {n \in Nat : \E t \in SUBSET S : Cardinality(t) = n /\ ~Good(t)}
  <1>1. \A t \in SUBSET S : IsFiniteSet(t) /\ Cardinality(t) \in Nat /\ t \in SUBSET D
    BY FS_Subset, FS_CardinalityType
  <1> SUFFICES ASSUME Bad # {} PROVE FALSE
    BY <1>1
  <1>2. PICK n \in Bad : \A y \in Bad : n <= y
    BY LeastExists
  <1>3. PICK t \in SUBSET S : Cardinality(t) = n /\ ~Good(t)
    BY <1>2
  <1>4. /\ SumOf(f, t) \in Nat /\ SumOf(f, {}) = 0
        /\ \A x \in t : SumOf(f, t) = f[x] + SumOf(f, t \ {x}) /\ SumOf(f, t \ {x}) \in Nat
    BY <1>1, SumFacts
  <1>5. /\ SumOf(h, t) \in Nat /\ SumOf(h, {}) = 0
        /\ \A x \in t : SumOf(h, t) = h[x] + SumOf(h, t \ {x}) /\ SumOf(h, t \ {x}) \in Nat
    BY <1>1, SumFacts
  <1>6. t # {}
    <2> SUFFICES ASSUME t = {} PROVE FALSE
      OBVIOUS
    <2>1. SumOf(f, t) = 0 /\ SumOf(h, t) = 0
      BY <1>4, <1>5
    <2> QED BY <1>3, <2>1
  <1>7. PICK x \in t : TRUE
    BY <1>6
  <1>8. Cardinality(t \ {x}) = n - 1 /\ t \ {x} \in SUBSET S
    BY <1>1, <1>3, FS_RemoveElement
  <1>9. Good(t \ {x})
    <2>1. n - 1 \notin Bad /\ n - 1 \in Nat
      BY <1>1, <1>2, <1>8
    <2> QED BY <1>8, <2>1
  <1>10. f[x] \in Nat /\ h[x] \in Nat /\ f[x] <= h[x]
    OBVIOUS
  <1>11. PICK a \in Nat, b \in Nat : a = SumOf(f, t \ {x}) /\ b = SumOf(h, t \ {x})
    BY <1>4, <1>5
  <1>12. a <= b
    BY <1>9, <1>11
  <1>13. f[x] + a <= h[x] + b
    BY <1>10, <1>12
  <1> QED BY <1>3, <1>4, <1>5, <1>11, <1>13

(* Nothing to see, nothing to sum up. *)
LEMMA SumZero ==
    ASSUME NEW D, NEW f \in [D -> Nat], NEW S \in SUBSET D, IsFiniteSet(S), SumOf(f, S) = 0, NEW x \in S
    PROVE  f[x] = 0
  <1>1. SumOf(f, S) = f[x] + SumOf(f, S \ {x}) /\ SumOf(f, S \ {x}) \in Nat /\ f[x] \in Nat
    BY SumFacts
  <1> QED BY <1>1

-----------------------------------------------------------------------------
(* The types *)

Vis == [q \in Procs |-> Visible(q)]

(* What scan_residents adds up is a sum over the entries. *)
LEMMA LedgerSum ==
    ASSUME IsFiniteSet(Procs), Vis \in [Procs -> Nat], NEW S \in SUBSET Procs
    PROVE  MapThenSumSet(Visible, S) = SumOf(Vis, S)
  <1> DEFINE F(g) == [s \in SUBSET S |-> IF s = {} THEN 0 ELSE Visible(CHOOSE x \in s : TRUE) + g[s \ {CHOOSE x \in s : TRUE}]]
  <1>1. MapThenSumSet(Visible, S) = (CHOOSE g : g = F(g))[S]
    BY DEF MapThenSumSet, MapThenFoldSet
  <1>2. \A s \in SUBSET S : s # {} => Vis[Pick(s)] = Visible(Pick(s))
    BY PickIs DEF Vis
  <1>3. ASSUME NEW g PROVE Iter(g, Vis, S) <=> g = F(g)
    <2>1. F(g) = [s \in SUBSET S |-> IF s = {} THEN 0 ELSE Vis[Pick(s)] + g[s \ {Pick(s)}]]
      BY <1>2 DEF Pick
    <2> QED BY <2>1 DEF Iter
  <1>4. PICK f \in [Procs -> Nat] : f = Vis
    OBVIOUS
  <1>5. IsFiniteSet(S)
    BY FS_Subset
  <1>6. \E g : Iter(g, f, S)
    BY <1>5, IterExists
  <1>7. PICK g : g = CHOOSE k : k = F(k)
    OBVIOUS
  <1> HIDE DEF F
  <1>8. g = F(g)
    BY <1>3, <1>4, <1>6, <1>7
  <1>9. Iter(g, f, S)
    BY <1>3, <1>4, <1>8
  <1>10. SumOf(f, S) = g[S]
    BY <1>5, <1>9, SumIs
  <1> QED BY <1>1, <1>4, <1>7, <1>10

(* It is a natural number. *)
LEMMA ScansCount ==
    ASSUME Places
    PROVE  /\ IsFiniteSet(Procs) /\ Vis \in [Procs -> Nat]
           /\ \A p \in Procs : SumOthers(p) = SumOf(Vis, Procs \ {p}) /\ SumOthers(p) \in Nat
  <1>1. IsFiniteSet(Procs) /\ Vis \in [Procs -> Nat]
    BY LedgerAssumption DEF LedgerAssumption, Vis, Visible, Places
  <1>2. ASSUME NEW p \in Procs PROVE SumOthers(p) = SumOf(Vis, Procs \ {p}) /\ SumOthers(p) \in Nat
    <2>1. PICK f \in [Procs -> Nat] : f = Vis
      BY <1>1
    <2>2. Procs \ {p} \in SUBSET Procs /\ IsFiniteSet(Procs \ {p})
      BY <1>1, FS_Subset
    <2>3. SumOf(f, Procs \ {p}) \in Nat
      BY <2>2, SumFacts
    <2>4. SumOthers(p) = SumOf(Vis, Procs \ {p})
      BY <1>1, <2>2, LedgerSum DEF SumOthers
    <2> QED BY <2>1, <2>3, <2>4
  <1> QED BY <1>1, <1>2

(* The queue and what is measured. *)
Queue ==
    /\ ticket \in [Procs -> {"none", "held", "stale"}]
    /\ seq \in [Procs -> Nat]
    /\ next_seq \in Nat /\ \A p \in Procs : seq[p] <= next_seq
    /\ before \in SUBSET (Procs \X Procs)
    /\ in_use \in [Procs -> Nat]
    /\ preempt \in SUBSET Procs
    /\ host \in Pressure /\ avail \in Avail

(* Who came first has the smaller number, for as long as both wait. *)
InOrder ==
    \A p, q \in Procs :
      <<q, p>> \in before => ticket[q] = "held" /\ ticket[p] = "held" /\ seq[q] < seq[p]

(* Every step keeps their types, and the order of the tickets. *)
LEMMA QueueNext == GateInv /\ Queue /\ InOrder /\ [Next]_vars => Queue' /\ InOrder'
  <1> SUFFICES ASSUME GateInv, Queue, InOrder, [Next]_vars PROVE Queue' /\ InOrder'
    OBVIOUS
  <1>s. \A p \in Procs : SumOthers(p) \in Nat
    BY ScansCount DEF GateInv
  <1> USE LedgerAssumption DEF LedgerAssumption, Queue, InOrder, Others, diskVars, modelVars, sideVars,
        queueVars, hostVars, ghostVars
  <1>1. ASSUME NEW p \in Procs, Start(p) PROVE Queue' /\ InOrder'
    BY <1>1, <1>s DEF Start
  <1>2. ASSUME NEW p \in Procs, LockAdmit(p) PROVE Queue' /\ InOrder'
    BY <1>2, <1>s DEF LockAdmit, TakeAdmit, Enqueue, Queued
  <1>3. ASSUME NEW p \in Procs, Scan(p) PROVE Queue' /\ InOrder'
    BY <1>3, <1>s DEF Scan, TakeStock, Torn, ReapedLife, ReapedFile,
       Orphans
  <1>4. ASSUME NEW p \in Procs, Reserve(p) PROVE Queue' /\ InOrder'
    BY <1>4, <1>s DEF Reserve, Grant, Without, ReapedTickets
  <1>5. ASSUME NEW p \in Procs, Park(p) PROVE Queue' /\ InOrder'
    BY <1>5, <1>s DEF Park, ReapedTickets
  <1>6. ASSUME NEW p \in Procs, AskVictim(p) PROVE Queue' /\ InOrder'
    BY <1>6, <1>s DEF AskVictim, Victims, ReapedLife, ReapedFile, Orphans
  <1>7. ASSUME NEW p \in Procs, Retry(p) PROVE Queue' /\ InOrder'
    BY <1>7, <1>s DEF Retry
  <1>8. ASSUME NEW p \in Procs, Deny(p) PROVE Queue' /\ InOrder'
    BY <1>8, <1>s DEF Deny, LeaveQueue, Without
  <1>9. ASSUME NEW p \in Procs, ReLock(p) PROVE Queue' /\ InOrder'
    BY <1>9, <1>s DEF ReLock, TakeAdmit
  <1>10. ASSUME NEW p \in Procs, ReScan(p) PROVE Queue' /\ InOrder'
    BY <1>10, <1>s DEF ReScan, TakeStock, Torn, ReapedLife, ReapedFile,
       Orphans
  <1>11. ASSUME NEW p \in Procs, Readmit(p) PROVE Queue' /\ InOrder'
    BY <1>11, <1>s DEF Readmit, Grant
  <1>12. ASSUME NEW p \in Procs, LockUnqueued(p) PROVE Queue' /\ InOrder'
    BY <1>12, <1>s DEF LockUnqueued, TakeAdmit
  <1>13. ASSUME NEW p \in Procs, FailOpen(p) PROVE Queue' /\ InOrder'
    BY <1>13, <1>s DEF FailOpen, LeaveQueue, Without
  <1>14. ASSUME NEW p \in Procs, Load(p) PROVE Queue' /\ InOrder'
    BY <1>14, <1>s DEF Load, Quiet, DiskQuiet
  <1>15. ASSUME NEW p \in Procs, Unload(p) PROVE Queue' /\ InOrder'
    BY <1>15, <1>s DEF Unload, Quiet, DiskQuiet
  <1>16. ASSUME NEW p \in Procs, PublishUnload(p) PROVE Queue' /\ InOrder'
    BY <1>16, <1>s DEF PublishUnload, Republish, Write, Total, Quiet
  <1>17. ASSUME NEW p \in Procs, Reload(p) PROVE Queue' /\ InOrder'
    BY <1>17, <1>s DEF Reload, Quiet, DiskQuiet, Total
  <1>18. ASSUME NEW p \in Procs, ReloadOpen(p) PROVE Queue' /\ InOrder'
    BY <1>18, <1>s DEF ReloadOpen, Quiet, Move
  <1>19. ASSUME NEW p \in Procs, ReloadFails(p) PROVE Queue' /\ InOrder'
    BY <1>19, <1>s DEF ReloadFails, Republish, Write, Total, Quiet
  <1>20. ASSUME NEW p \in Procs, Switch(p) PROVE Queue' /\ InOrder'
    BY <1>20, <1>s DEF Switch, DropForSwitch, Move, Quiet, DiskQuiet
  <1>21. ASSUME NEW p \in Procs, PublishSwitch(p) PROVE Queue' /\ InOrder'
    BY <1>21, <1>s DEF PublishSwitch, Republish, Write, Total, Quiet
  <1>22. ASSUME NEW p \in Procs, SwitchFails(p) PROVE Queue' /\ InOrder'
    BY <1>22, <1>s DEF SwitchFails, DropForSwitch, Move, Quiet, DiskQuiet
  <1>23. ASSUME NEW p \in Procs, GrowCheck(p) PROVE Queue' /\ InOrder'
    BY <1>23, <1>s DEF GrowCheck, Quiet, Move, ReapedLife, ReapedFile,
       Orphans
  <1>24. ASSUME NEW p \in Procs, GrowPublish(p) PROVE Queue' /\ InOrder'
    BY <1>24, <1>s DEF GrowPublish, Write, Quiet
  <1>25. ASSUME NEW p \in Procs, GrowServe(p) PROVE Queue' /\ InOrder'
    BY <1>25, <1>s DEF GrowServe, Quiet, DiskQuiet
  <1>26. ASSUME NEW p \in Procs, Shrink(p) PROVE Queue' /\ InOrder'
    BY <1>26, <1>s DEF Shrink, Quiet, DiskQuiet
  <1>27. ASSUME NEW p \in Procs, ShrinkWrite(p) PROVE Queue' /\ InOrder'
    BY <1>27, <1>s DEF ShrinkWrite, Write, Quiet
  <1>28. ASSUME NEW p \in Procs, WarmBuild(p) PROVE Queue' /\ InOrder'
    BY <1>28, <1>s DEF WarmBuild, Quiet, Move, ReapedLife, ReapedFile,
       Orphans
  <1>29. ASSUME NEW p \in Procs, PublishWarm(p) PROVE Queue' /\ InOrder'
    BY <1>29, <1>s DEF PublishWarm, Republish, Write, Total, Quiet
  <1>30. ASSUME NEW p \in Procs, SweepWarm(p) PROVE Queue' /\ InOrder'
    BY <1>30, <1>s DEF SweepWarm, Republish, Write, Total, Quiet
  <1>31. ASSUME NEW p \in Procs, BillEmbedder(p) PROVE Queue' /\ InOrder'
    BY <1>31, <1>s DEF BillEmbedder, Write, Quiet, DiskQuiet, Move
  <1>32. ASSUME NEW p \in Procs, Invalidate(p) PROVE Queue' /\ InOrder'
    BY <1>32, <1>s DEF Invalidate, Quiet, DiskQuiet, Move
  <1>33. ASSUME NEW p \in Procs, PublishRetired(p) PROVE Queue' /\ InOrder'
    BY <1>33, <1>s DEF PublishRetired, Republish, Write, Total, Quiet
  <1>34. ASSUME NEW p \in Procs, Cut(p) PROVE Queue' /\ InOrder'
    BY <1>34, <1>s DEF Cut
  <1>35. ASSUME NEW p \in Procs, Crash(p) PROVE Queue' /\ InOrder'
    BY <1>35, <1>s DEF Crash, Vanish, Gone, Grant, Without
  <1>36. ASSUME NEW p \in Procs, Quit(p) PROVE Queue' /\ InOrder'
    BY <1>36, <1>s DEF Quit, Gone, Grant, Without
  <1>37. ASSUME NEW p \in Procs, Yield(p) PROVE Queue' /\ InOrder'
    BY <1>37, <1>s DEF Yield, Vanish, Gone, Grant, Without
  <1>38. ASSUME NEW p \in Procs, ExpirePreempt(p) PROVE Queue' /\ InOrder'
    BY <1>38, <1>s DEF ExpirePreempt
  <1>39. ASSUME Reap PROVE Queue' /\ InOrder'
    BY <1>39, <1>s DEF Reap, Quiet, ReapedLife, ReapedFile, Orphans
  <1>40. ASSUME HostChanges PROVE Queue' /\ InOrder'
    BY <1>40, <1>s DEF HostChanges
  <1>41. ASSUME UNCHANGED vars PROVE Queue' /\ InOrder'
    BY <1>41, <1>s DEF vars
  <1> HIDE DEF Queue, InOrder, Others, diskVars, modelVars, sideVars,
        queueVars, hostVars, ghostVars
  <1> QED
    BY <1>1, <1>2, <1>3, <1>4, <1>5, <1>6, <1>7, <1>8, <1>9, <1>10, <1>11,
       <1>12, <1>13, <1>14, <1>15, <1>16, <1>17, <1>18, <1>19, <1>20,
       <1>21, <1>22, <1>23, <1>24, <1>25, <1>26, <1>27, <1>28, <1>29,
       <1>30, <1>31, <1>32, <1>33, <1>34, <1>35, <1>36, <1>37, <1>38,
       <1>39, <1>40, <1>41 DEF Next, GateStep

(* The types of the whole ledger. *)
LEMMA TypesAlways == Spec => [](HoldInv /\ Queue /\ InOrder)
  <1>1. Init => Queue /\ InOrder
    BY LedgerAssumption DEF LedgerAssumption, Init, Queue, InOrder
  <1>2. HoldInv => GateInv
    BY DEF HoldInv
  <1> QED
    BY <1>1, <1>2, HoldInvInit, HoldInvNext, QueueNext, PTL DEF Spec

(* Every value of share.rs has its type: tickets are numbered within the   *)
(* counter, and a scan counts in naturals.                                 *)
THEOREM TypeCorrect == Spec => []TypeOK
  <1>1. HoldInv /\ Queue => TypeOK
    BY DEF HoldInv, GateInv, Places, Queue, TypeOK
  <1> QED
    BY <1>1, TypesAlways, PTL

-----------------------------------------------------------------------------
(* Grants *)

Gr == [q \in Procs |-> Grants(q)]

(* Between its scan and its decision. *)
Decided == {"scanned", "re_scanned"}

(* A step that grants nothing; whoever sums up the ledger finds every      *)
(* grant in it that it can read.                                           *)
Eased ==
    /\ \A q \in Procs : Grants(q)' <= Grants(q)
    /\ \A q \in Procs : pc'[q] = "reserved" => pc[q] = "reserved"
    /\ \A p \in Procs : pc'[p] \in Decided =>
         \/ pc[p] \in Decided /\ in_use'[p] = in_use[p]
         \/ in_use'[p] = SumOthers(p) /\ \A q \in Procs \ {p} : Grants(q)' <= Visible(q)

(* One that does: p takes what its sum leaves. *)
Taken(p) ==
    /\ pc[p] \in Decided /\ pc'[p] \notin Decided /\ pc'[p] # pc[p]
    /\ LedgerFits(in_use[p], Grants(p)') /\ Grants(p)' \in Nat
    /\ \A q \in Procs \ {p} : pc'[q] = pc[q] /\ Grants(q)' <= Grants(q)
    /\ Reserve(p) \/ Readmit(p)

Kinds == Eased \/ \E r \in Procs : Taken(r)

(* There are no other steps: a writer outside the admit lock grants        *)
(* nothing, whatever it writes.                                            *)
LEMMA EasedOrTaken == ASSUME HoldInv, Queue, [Next]_vars PROVE Kinds
  <1>l. Locked /\ Places
    BY DEF HoldInv, GateInv
  <1> USE <1>l, LedgerAssumption DEF LedgerAssumption, Places, Queue, Others, diskVars, modelVars,
        sideVars, queueVars, hostVars, ghostVars
  <1>1. ASSUME NEW p \in Procs, Start(p) PROVE Kinds
    BY <1>1 DEF Start, Kinds, Eased, Grants, Decided
  <1>2. ASSUME NEW p \in Procs, LockAdmit(p) PROVE Kinds
    BY <1>2 DEF LockAdmit, TakeAdmit, Enqueue, Queued, Kinds, Eased,
       Grants, Decided
  <1>3. ASSUME NEW p \in Procs, Scan(p) PROVE Kinds
    <2>1. \A q \in Procs \ {p} : Grants(q)' <= Visible(q)
      BY <1>3 DEF Scan, TakeStock, Torn, Grants, Visible, Locked
    <2>2. in_use'[p] = SumOthers(p) /\ \A q \in Procs \ {p} : in_use'[q] = in_use[q]
      BY <1>3 DEF Scan, TakeStock
    <2> QED BY <1>3, <2>1, <2>2 DEF Scan, TakeStock, Kinds, Eased, Grants, Decided
  <1>4. ASSUME NEW p \in Procs, Reserve(p) PROVE Kinds
    <2>1. Grants(p)' = Footprint[p] /\ \A q \in Procs \ {p} : Grants(q)' = Grants(q)
      BY <1>4 DEF Reserve, Grant, Grants
    <2>2. \A q \in Procs : Grants(q) \in Nat
      BY DEF Grants
    <2>3. Taken(p)
      BY <1>4, <2>1, <2>2 DEF Reserve, MyTurn, Admits, Taken, Decided
    <2> QED BY <2>3 DEF Kinds
  <1>5. ASSUME NEW p \in Procs, Park(p) PROVE Kinds
    <2>1. CASE Prio[p] = 0
      BY <1>5, <2>1 DEF Park, Kinds, Eased, Grants, Decided
    <2>2. CASE Prio[p] # 0
      BY <1>5, <2>2 DEF Park, Kinds, Eased, Grants, Decided
    <2> QED BY <2>1, <2>2
  <1>6. ASSUME NEW p \in Procs, AskVictim(p) PROVE Kinds
    BY <1>6 DEF AskVictim, Victims, ReapedLife, ReapedFile, Orphans,
       Kinds, Eased, Grants, Decided
  <1>7. ASSUME NEW p \in Procs, Retry(p) PROVE Kinds
    BY <1>7 DEF Retry, Kinds, Eased, Grants, Decided
  <1>8. ASSUME NEW p \in Procs, Deny(p) PROVE Kinds
    BY <1>8 DEF Deny, LeaveQueue, Without, Kinds, Eased, Grants, Decided
  <1>9. ASSUME NEW p \in Procs, ReLock(p) PROVE Kinds
    BY <1>9 DEF ReLock, TakeAdmit, Kinds, Eased, Grants, Decided
  <1>10. ASSUME NEW p \in Procs, ReScan(p) PROVE Kinds
    <2>1. \A q \in Procs \ {p} : Grants(q)' <= Visible(q)
      BY <1>10 DEF ReScan, TakeStock, Torn, Grants, Visible, Locked
    <2>2. in_use'[p] = SumOthers(p) /\ \A q \in Procs \ {p} : in_use'[q] = in_use[q]
      BY <1>10 DEF ReScan, TakeStock
    <2> QED BY <1>10, <2>1, <2>2 DEF ReScan, TakeStock, Kinds, Eased, Grants, Decided
  <1>11. ASSUME NEW p \in Procs, Readmit(p) PROVE Kinds
    <2>1. CASE LedgerFits(in_use[p], want[p]) /\ host = "normal"
      <3>1. Grants(p)' = want[p] /\ \A q \in Procs \ {p} : Grants(q)' = Grants(q)
        BY <1>11, <2>1 DEF Readmit, Grant, Grants
      <3>2. \A q \in Procs : Grants(q) \in Nat
        BY DEF Grants
      <3>3. Taken(p)
        BY <1>11, <2>1, <3>1, <3>2 DEF Readmit, Taken, Decided
      <3> QED BY <3>3 DEF Kinds
    <2>2. CASE ~(LedgerFits(in_use[p], want[p]) /\ host = "normal")
      BY <1>11, <2>2 DEF Readmit, Kinds, Eased, Grants, Decided
    <2> QED BY <2>1, <2>2
  <1>12. ASSUME NEW p \in Procs, LockUnqueued(p) PROVE Kinds
    BY <1>12 DEF LockUnqueued, TakeAdmit, Kinds, Eased, Grants, Decided
  <1>13. ASSUME NEW p \in Procs, FailOpen(p) PROVE Kinds
    BY <1>13 DEF FailOpen, LeaveQueue, Without, Kinds, Eased, Grants,
       Decided
  <1>14. ASSUME NEW p \in Procs, Load(p) PROVE Kinds
    BY <1>14 DEF Load, Quiet, DiskQuiet, Kinds, Eased, Grants, Decided
  <1>15. ASSUME NEW p \in Procs, Unload(p) PROVE Kinds
    BY <1>15 DEF Unload, Quiet, DiskQuiet, Kinds, Eased, Grants, Decided
  <1>16. ASSUME NEW p \in Procs, PublishUnload(p) PROVE Kinds
    BY <1>16 DEF PublishUnload, Republish, Write, Total, Quiet, Kinds,
       Eased, Grants, Decided
  <1>17. ASSUME NEW p \in Procs, Reload(p) PROVE Kinds
    BY <1>17 DEF Reload, Quiet, DiskQuiet, Total, Kinds, Eased, Grants,
       Decided
  <1>18. ASSUME NEW p \in Procs, ReloadOpen(p) PROVE Kinds
    BY <1>18 DEF ReloadOpen, Quiet, Move, Kinds, Eased, Grants, Decided
  <1>19. ASSUME NEW p \in Procs, ReloadFails(p) PROVE Kinds
    BY <1>19 DEF ReloadFails, Republish, Write, Total, Quiet, Kinds,
       Eased, Grants, Decided
  <1>20. ASSUME NEW p \in Procs, Switch(p) PROVE Kinds
    BY <1>20 DEF Switch, DropForSwitch, Move, Quiet, DiskQuiet, Kinds,
       Eased, Grants, Decided
  <1>21. ASSUME NEW p \in Procs, PublishSwitch(p) PROVE Kinds
    BY <1>21 DEF PublishSwitch, Republish, Write, Total, Quiet, Kinds,
       Eased, Grants, Decided
  <1>22. ASSUME NEW p \in Procs, SwitchFails(p) PROVE Kinds
    BY <1>22 DEF SwitchFails, DropForSwitch, Move, Quiet, DiskQuiet,
       Kinds, Eased, Grants, Decided
  <1>23. ASSUME NEW p \in Procs, GrowCheck(p) PROVE Kinds
    BY <1>23 DEF GrowCheck, Quiet, Move, ReapedLife, ReapedFile, Orphans,
       Kinds, Eased, Grants, Decided
  <1>24. ASSUME NEW p \in Procs, GrowPublish(p) PROVE Kinds
    BY <1>24 DEF GrowPublish, Write, Quiet, Kinds, Eased, Grants, Decided
  <1>25. ASSUME NEW p \in Procs, GrowServe(p) PROVE Kinds
    BY <1>25 DEF GrowServe, Quiet, DiskQuiet, Kinds, Eased, Grants,
       Decided
  <1>26. ASSUME NEW p \in Procs, Shrink(p) PROVE Kinds
    BY <1>26 DEF Shrink, Quiet, DiskQuiet, Kinds, Eased, Grants, Decided
  <1>27. ASSUME NEW p \in Procs, ShrinkWrite(p) PROVE Kinds
    BY <1>27 DEF ShrinkWrite, Write, Quiet, Kinds, Eased, Grants, Decided
  <1>28. ASSUME NEW p \in Procs, WarmBuild(p) PROVE Kinds
    BY <1>28 DEF WarmBuild, Quiet, Move, ReapedLife, ReapedFile, Orphans,
       Kinds, Eased, Grants, Decided
  <1>29. ASSUME NEW p \in Procs, PublishWarm(p) PROVE Kinds
    BY <1>29 DEF PublishWarm, Republish, Write, Total, Quiet, Kinds,
       Eased, Grants, Decided
  <1>30. ASSUME NEW p \in Procs, SweepWarm(p) PROVE Kinds
    BY <1>30 DEF SweepWarm, Republish, Write, Total, Quiet, Kinds, Eased,
       Grants, Decided
  <1>31. ASSUME NEW p \in Procs, BillEmbedder(p) PROVE Kinds
    BY <1>31 DEF BillEmbedder, Write, Quiet, DiskQuiet, Move, Kinds,
       Eased, Grants, Decided
  <1>32. ASSUME NEW p \in Procs, Invalidate(p) PROVE Kinds
    BY <1>32 DEF Invalidate, Quiet, DiskQuiet, Move, Kinds, Eased, Grants,
       Decided
  <1>33. ASSUME NEW p \in Procs, PublishRetired(p) PROVE Kinds
    BY <1>33 DEF PublishRetired, Republish, Write, Total, Quiet, Kinds,
       Eased, Grants, Decided
  <1>34. ASSUME NEW p \in Procs, Cut(p) PROVE Kinds
    BY <1>34 DEF Cut, Kinds, Eased, Grants, Decided
  <1>35. ASSUME NEW p \in Procs, Crash(p) PROVE Kinds
    BY <1>35 DEF Crash, Vanish, Gone, Grant, Without, Kinds, Eased,
       Grants, Decided
  <1>36. ASSUME NEW p \in Procs, Quit(p) PROVE Kinds
    BY <1>36 DEF Quit, Gone, Grant, Without, Kinds, Eased, Grants, Decided
  <1>37. ASSUME NEW p \in Procs, Yield(p) PROVE Kinds
    BY <1>37 DEF Yield, Vanish, Gone, Grant, Without, Kinds, Eased,
       Grants, Decided
  <1>38. ASSUME NEW p \in Procs, ExpirePreempt(p) PROVE Kinds
    BY <1>38 DEF ExpirePreempt, Kinds, Eased, Grants, Decided
  <1>39. ASSUME Reap PROVE Kinds
    BY <1>39 DEF Reap, Quiet, ReapedLife, ReapedFile, Orphans, Kinds,
       Eased, Grants, Decided
  <1>40. ASSUME HostChanges PROVE Kinds
    BY <1>40 DEF HostChanges, Kinds, Eased, Grants, Decided
  <1>41. ASSUME UNCHANGED vars PROVE Kinds
    BY <1>41 DEF vars, Kinds, Eased, Grants, Decided
  <1> HIDE DEF Places, Queue, Kinds, Eased, Taken, Others, diskVars,
        modelVars, sideVars, queueVars, hostVars, ghostVars
  <1> QED
    BY <1>1, <1>2, <1>3, <1>4, <1>5, <1>6, <1>7, <1>8, <1>9, <1>10, <1>11,
       <1>12, <1>13, <1>14, <1>15, <1>16, <1>17, <1>18, <1>19, <1>20,
       <1>21, <1>22, <1>23, <1>24, <1>25, <1>26, <1>27, <1>28, <1>29,
       <1>30, <1>31, <1>32, <1>33, <1>34, <1>35, <1>36, <1>37, <1>38,
       <1>39, <1>40, <1>41 DEF Next, GateStep

-----------------------------------------------------------------------------
(* The queue *)

(* From its scan to its reservation a gateway gets by its own turn only. *)
LEMMA OnlyReserve ==
    ASSUME HoldInv, Queue, [Next]_vars, NEW q \in Procs, pc[q] = "scanned", pc'[q] = "reserved"
    PROVE  Reserve(q)
  <1>1. PICK r \in Procs : Taken(r)
    BY EasedOrTaken DEF Kinds, Eased
  <1>2. r = q
    BY <1>1 DEF Taken
  <1> QED BY <1>1, <1>2 DEF Taken, Readmit

(* Nobody is overtaken: acquire_residency serves the front that fits, and  *)
(* a waiter that asks for no more than the one that reserves would have    *)
(* fitted too, so by enqueue_waiter's numbers it had come later or is less *)
(* urgent.                                                                 *)
THEOREM NobodyIsOvertaken == Spec => NoOvertaking
  <1> DEFINE Turn == \A p, q \in Procs :
               ( /\ pc[p] = "scanned" /\ pc'[p] = "reserved"
                 /\ ticket[p] = "held" /\ ticket[q] = "held" /\ Footprint[q] <= Footprint[p] )
               => Prio[p] <= Prio[q] /\ (Prio[p] = Prio[q] => <<q, p>> \notin before)
  <1>1. HoldInv /\ Queue /\ InOrder /\ [Next]_vars => [Turn]_vars
    <2> SUFFICES ASSUME HoldInv, Queue, InOrder, [Next]_vars, NEW p \in Procs, NEW q \in Procs,
                        pc[p] = "scanned", pc'[p] = "reserved",
                        ticket[p] = "held", ticket[q] = "held", Footprint[q] <= Footprint[p]
                 PROVE  Prio[p] <= Prio[q] /\ (Prio[p] = Prio[q] => <<q, p>> \notin before)
      OBVIOUS
    <2>1. Reserve(p)
      BY OnlyReserve
    <2>2. /\ seq[p] \in Nat /\ seq[q] \in Nat /\ Prio[p] \in {0, 1} /\ Prio[q] \in {0, 1}
          /\ Footprint[p] \in Nat /\ Footprint[q] \in Nat /\ in_use[p] \in Nat /\ avail \in Nat
          /\ Budget \in Nat /\ MinFree \in Nat
      BY LedgerAssumption DEF LedgerAssumption, Queue
    <2>3. <<q, p>> \in before => seq[q] < seq[p]
      BY DEF InOrder
    <2>4. CASE q = p
      BY <2>2, <2>3, <2>4
    <2>5. CASE q # p
      <3>1. MyTurn(p)
        BY <2>1 DEF Reserve
      <3>2. Admits(in_use[p], Footprint[q], avail)
        BY <2>2, <3>1 DEF MyTurn, Admits, LedgerFits
      <3>3. Ahead(p, q)
        BY <2>5, <3>1, <3>2 DEF MyTurn
      <3> QED BY <2>2, <2>3, <3>3 DEF Ahead
    <2> QED BY <2>4, <2>5
  <1> QED
    BY <1>1, TypesAlways, PTL DEF Spec, NoOvertaking

-----------------------------------------------------------------------------
(* The budget *)

(* At most one process has a grant. *)
Lonely(f) == \E p : \A q \in Procs \ {p} : f[q] = 0

(* The grants are within the budget or lonely, and whoever is about to     *)
(* decide has counted everything granted to the others.                    *)
Fits == SumOf(Gr, Procs) <= Budget \/ Lonely(Gr)
Scanned == \A p \in Procs : pc[p] \in Decided => SumOf(Gr, Procs \ {p}) <= in_use[p]

(* Every step keeps the grants within the budget. *)
LEMMA FitsNext ==
    ASSUME HoldInv, Queue, InOrder, Fits, Scanned, [Next]_vars
    PROVE  Fits' /\ Scanned'
  <1>1. HoldInv' /\ Queue'
    BY HoldInvNext, QueueNext DEF HoldInv
  <1>2. /\ IsFiniteSet(Procs) /\ Vis \in [Procs -> Nat]
        /\ \A p \in Procs : SumOthers(p) = SumOf(Vis, Procs \ {p}) /\ SumOthers(p) \in Nat
    BY ScansCount DEF HoldInv, GateInv
  <1>3. PICK v \in [Procs -> Nat] : v = Vis
    BY <1>2
  <1>4. Gr \in [Procs -> Nat] /\ Gr' \in [Procs -> Nat]
    BY <1>1 DEF Gr, Grants, HoldInv, GateInv, Places
  <1>5. PICK f \in [Procs -> Nat], h \in [Procs -> Nat] : f = Gr /\ h = Gr'
    BY <1>4
  <1>6. \A q \in Procs : f[q] = Grants(q) /\ h[q] = Grants(q)' /\ v[q] = Visible(q)
    BY <1>3, <1>5 DEF Vis, Gr
  <1>7. \A p \in Procs : Procs \ {p} \in SUBSET Procs /\ IsFiniteSet(Procs \ {p})
    BY <1>2, FS_Subset
  <1>8. Budget \in Nat /\ in_use \in [Procs -> Nat] /\ in_use' \in [Procs -> Nat]
    BY <1>1, LedgerAssumption DEF LedgerAssumption, Queue
  <1>n. /\ SumOf(f, Procs) \in Nat /\ SumOf(h, Procs) \in Nat
        /\ \A p \in Procs : SumOf(f, Procs \ {p}) \in Nat /\ SumOf(h, Procs \ {p}) \in Nat
    BY <1>2, <1>7, SumFacts
  <1>9. CASE Eased
    <2>1. \A q \in Procs : h[q] <= f[q]
      BY <1>6, <1>9 DEF Eased
    <2>2. SumOf(h, Procs) <= SumOf(f, Procs)
      BY <1>2, <2>1, SumMono
    <2>3. \A p \in Procs : SumOf(h, Procs \ {p}) <= SumOf(f, Procs \ {p})
      BY <1>7, <2>1, SumMono
    <2>4. Lonely(f) => Lonely(h)
      <3>1. \A q \in Procs : f[q] = 0 => h[q] = 0
        BY <2>1
      <3> QED BY <3>1 DEF Lonely
    <2>5. SumOf(h, Procs) <= Budget \/ Lonely(h)
      BY <1>5, <1>8, <1>n, <2>2, <2>4 DEF Fits
    <2>6. ASSUME NEW p \in Procs, pc'[p] \in Decided PROVE SumOf(h, Procs \ {p}) <= in_use'[p]
      <3>1. CASE pc[p] \in Decided /\ in_use'[p] = in_use[p]
        <4>1. SumOf(f, Procs \ {p}) <= in_use[p]
          BY <1>5, <3>1 DEF Scanned
        <4>2. in_use[p] \in Nat
          BY <1>8
        <4> QED BY <1>n, <2>3, <3>1, <4>1, <4>2
      <3>2. CASE in_use'[p] = SumOthers(p) /\ \A q \in Procs \ {p} : Grants(q)' <= Visible(q)
        <4>1. \A q \in Procs \ {p} : h[q] <= v[q]
          BY <1>6, <3>2
        <4>2. SumOf(h, Procs \ {p}) <= SumOf(v, Procs \ {p})
          BY <1>7, <4>1, SumMono
        <4> QED BY <1>2, <1>3, <3>2, <4>2
      <3> QED BY <1>9, <2>6, <3>1, <3>2 DEF Eased
    <2> QED BY <1>5, <2>5, <2>6 DEF Fits, Scanned
  <1>10. ASSUME NEW r \in Procs, Taken(r) PROVE Fits' /\ Scanned'
    <2>1. /\ pc[r] \in Decided /\ LedgerFits(in_use[r], h[r]) /\ pc'[r] \notin Decided
          /\ \A q \in Procs \ {r} : pc'[q] = pc[q] /\ h[q] <= f[q]
      BY <1>6, <1>10 DEF Taken
    <2>2. SumOf(h, Procs \ {r}) <= SumOf(f, Procs \ {r})
      BY <1>7, <2>1, SumMono
    <2>3. SumOf(f, Procs \ {r}) <= in_use[r]
      BY <1>5, <2>1 DEF Scanned
    <2>4. SumOf(h, Procs) = h[r] + SumOf(h, Procs \ {r})
      BY <1>2, SumFacts
    <2>5. PICK s \in Nat : s = SumOf(h, Procs \ {r})
      BY <1>n
    <2>6. s <= in_use[r] /\ in_use[r] \in Nat /\ h[r] \in Nat
      BY <1>8, <1>n, <2>2, <2>3, <2>5
    <2>7. SumOf(h, Procs) <= Budget \/ Lonely(h)
      <3>1. CASE in_use[r] = 0
        <4>1. SumOf(h, Procs \ {r}) = 0
          BY <2>5, <2>6, <3>1
        <4>2. \A q \in Procs \ {r} : h[q] = 0
          BY <1>7, <4>1, SumZero
        <4> QED BY <4>2 DEF Lonely
      <3>2. CASE in_use[r] + h[r] <= Budget
        <4>1. h[r] + s <= Budget
          BY <1>8, <2>6, <3>2
        <4> QED BY <2>4, <2>5, <4>1
      <3> QED BY <2>1, <3>1, <3>2 DEF LedgerFits
    <2>8. \A p \in Procs : pc'[p] \notin Decided
      <3>1. ASSUME NEW p \in Procs, p # r, pc[p] \in Decided PROVE FALSE
        <4>1. InCriticalSection(p) /\ InCriticalSection(r)
          BY <2>1, <3>1 DEF InCriticalSection, Decided
        <4> QED BY <3>1, <4>1 DEF HoldInv, GateInv, LockHeld
      <3> QED BY <2>1, <3>1
    <2> QED BY <1>5, <2>7, <2>8 DEF Fits, Scanned
  <1> QED BY <1>9, <1>10, EasedOrTaken DEF Kinds

(* What NoOvercommit sums up. *)
LEMMA GrantSum ==
    ASSUME IsFiniteSet(Procs), Gr \in [Procs -> Nat]
    PROVE  MapThenSumSet(Grants, Procs) = SumOf(Gr, Procs)
  <1> DEFINE S == Procs
             F(g) == [s \in SUBSET S |-> IF s = {} THEN 0 ELSE Grants(CHOOSE x \in s : TRUE) + g[s \ {CHOOSE x \in s : TRUE}]]
  <1>1. MapThenSumSet(Grants, S) = (CHOOSE g : g = F(g))[S]
    BY DEF MapThenSumSet, MapThenFoldSet
  <1>2. \A s \in SUBSET S : s # {} => Gr[Pick(s)] = Grants(Pick(s))
    BY PickIs DEF Gr
  <1>3. ASSUME NEW g PROVE Iter(g, Gr, S) <=> g = F(g)
    <2>1. F(g) = [s \in SUBSET S |-> IF s = {} THEN 0 ELSE Gr[Pick(s)] + g[s \ {Pick(s)}]]
      BY <1>2 DEF Pick
    <2> QED BY <2>1 DEF Iter
  <1>4. PICK f \in [Procs -> Nat] : f = Gr
    OBVIOUS
  <1>6. \E g : Iter(g, f, S)
    BY IterExists
  <1>7. PICK g : g = CHOOSE k : k = F(k)
    OBVIOUS
  <1> HIDE DEF F
  <1>8. g = F(g)
    BY <1>3, <1>4, <1>6, <1>7
  <1>9. Iter(g, f, S)
    BY <1>3, <1>4, <1>8
  <1>10. SumOf(f, S) = g[S]
    BY <1>9, SumIs
  <1> QED BY <1>1, <1>4, <1>7, <1>10

(* The gate never promises more memory than the budget, except to a single *)
(* model that is too large by itself, though entries are rewritten outside *)
(* its lock at any time: what acquire_residency and readmit_my_reservation *)
(* summed up before their decision is still an upper bound for the grants  *)
(* when they write.  A gateway whose entry was torn when a scan met it is  *)
(* left out, because such a scan counts it as nothing.                     *)
THEOREM NeverOvercommits == Spec => []NoOvercommit
  <1>1. Init => Fits /\ Scanned
    <2> SUFFICES ASSUME Init PROVE Fits /\ Scanned
      OBVIOUS
    <2>1. Gr = [q \in Procs |-> 0]
      BY DEF Init, Gr, Grants
    <2>2. Lonely(Gr)
      BY <2>1 DEF Lonely
    <2> QED BY <2>2 DEF Init, Fits, Scanned, Decided
  <1>2. HoldInv /\ Queue /\ InOrder /\ Fits /\ Scanned /\ [Next]_vars => Fits' /\ Scanned'
    BY FitsNext
  <1>3. HoldInv /\ Fits => NoOvercommit
    <2> SUFFICES ASSUME HoldInv, Fits PROVE NoOvercommit
      OBVIOUS
    <2>1. IsFiniteSet(Procs) /\ Gr \in [Procs -> Nat]
      BY LedgerAssumption DEF LedgerAssumption, Gr, Grants, HoldInv, GateInv, Places
    <2>2. MapThenSumSet(Grants, Procs) = SumOf(Gr, Procs)
      BY <2>1, GrantSum
    <2>3. CASE SumOf(Gr, Procs) <= Budget
      BY <2>2, <2>3 DEF NoOvercommit
    <2>4. CASE Lonely(Gr)
      <3> DEFINE Some == {p \in Procs : Grants(p) > 0}
      <3>1. PICK p : \A q \in Procs \ {p} : Gr[q] = 0
        BY <2>4 DEF Lonely
      <3>2. Some \subseteq {p}
        BY <3>1 DEF Gr
      <3>3. Some = {} \/ Some = {p}
        BY <3>2
      <3> HIDE DEF Some
      <3>4. Cardinality(Some) <= 1
        <4>1. Cardinality({}) = 0 /\ Cardinality({p}) = 1
          BY FS_EmptySet, FS_Singleton
        <4> QED BY <3>3, <4>1
      <3> QED BY <3>4 DEF NoOvercommit, Some
    <2> QED BY <2>3, <2>4 DEF Fits
  <1> QED
    BY <1>1, <1>2, <1>3, TypesAlways, PTL DEF Spec
=============================================================================
