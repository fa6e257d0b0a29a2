-------------------------- MODULE SwitchboardProofs --------------------------
(***************************************************************************)
(* For any number of requests, operators and models, any weights and any   *)
(* budget, and clients that hang up anywhere: the types, and, as long as   *)
(* no two operations on the primary have overlapped, that no request is    *)
(* served while the primary changes, that an unloaded model is rebuilt     *)
(* once, that the cell holds the model the spec names, that busy warm      *)
(* models stay and that only busy victims put a build over the budget.     *)
(***************************************************************************)
EXTENDS Switchboard, Sequences, FiniteSetTheorems, WellFoundedInduction, TLAPS

USE SwitchboardAssumption DEF SwitchboardAssumption

-----------------------------------------------------------------------------
(* What the helpers return. *)
LEMMA CopyFacts ==
    /\ NoCopy \in SomeCopy /\ Copies \subseteq SomeCopy
    /\ \A c \in SomeCopy : c # NoCopy => c \in Copies
  BY DEF SomeCopy

(* A fresh copy is a copy of the model asked for. *)
LEMMA FreshCopy ==
    ASSUME NEW m \in Models, Room(m)
    PROVE  Fresh(m) \in Copies /\ Fresh(m)[1] = m
  BY DEF Fresh, Room, Copies

(* An eviction leaves a warm map. *)
LEMMA EvictType ==
    ASSUME NEW w \in [Models -> SomeCopy], NEW S
    PROVE  Evict(w, S) \in [Models -> SomeCopy]
  BY CopyFacts DEF Evict

(* What is published are models. *)
LEMMA PublishedType ==
    ASSUME NEW w, NEW c, NEW s \in Models
    PROVE  Published(c, s, w) \subseteq Models
  BY DEF Published, WarmModels

(* What sweeps and plans choose from is there. *)
LEMMA IdleFacts ==
    ASSUME TypeOK
    PROVE  \A m \in IdleWarm : m \in Models /\ warm[m] \in Copies
  BY DEF IdleWarm, WarmModels, TypeOK, SomeCopy

(* A plan gives up only candidates. *)
LEMMA NamesOfWarm ==
    ASSUME NEW S, NEW K
    PROVE  Names(AsWarm(S) \ K) \subseteq S
  BY DEF Names, AsWarm

-----------------------------------------------------------------------------
(* A request on the warm path or at the gate has named a model. *)
Asking == \A r \in Requests :
    pc[r] \in {"look", "want_warm", "warm_plan", "warm_build", "gate"} => Ask[r] \in Models

TypeInv == TypeOK /\ Asking

(* The initial state is typed. *)
LEMMA TypeInit == Init => TypeInv
  BY CopyFacts DEF Init, TypeInv, TypeOK, Asking, Actors, Stages, OpStages, InSwap,
     Entered, Copies

(* Every step keeps the types. *)
LEMMA TypeStep ==
    ASSUME TypeInv, [Next]_vars
    PROVE  TypeInv'
  <1> USE CopyFacts, FreshCopy, EvictType, PublishedType, IdleFacts
      DEF TypeInv, Asking, TypeOK, Goto, Actors, Stages, OpStages, InSwap, Entered,
          lockVars, opVars, freeVars, drainVars, Handles
  <1>1. ASSUME NEW r \in Requests, Arrive(r) PROVE TypeInv'
    BY <1>1 DEF Arrive
  <1>2. ASSUME NEW r \in Requests, Look(r) PROVE TypeInv'
    BY <1>2 DEF Look, TakeHandle
  <1>3. ASSUME NEW r \in Requests, WarmRaced(r) PROVE TypeInv'
    BY <1>3 DEF WarmRaced, TakeHandle
  <1>4. ASSUME NEW r \in Requests, WarmRefused(r) PROVE TypeInv'
    BY <1>4 DEF WarmRefused
  <1>5. ASSUME NEW r \in Requests, WarmStart(r) PROVE TypeInv'
    <2>1. /\ warm' \in [Models -> SomeCopy] /\ attached' \subseteq Requests
          /\ dropping' \subseteq Copies
      BY <1>5 DEF WarmStart, EvictPlanned
    <2> QED
      BY <1>5, <2>1 DEF WarmStart
  <1>6. ASSUME NEW r \in Requests, WarmBuilt(r) PROVE TypeInv'
    BY <1>6 DEF WarmBuilt
  <1>7. ASSUME NEW r \in Requests, WarmFails(r) PROVE TypeInv'
    BY <1>7 DEF WarmFails
  <1>8. ASSUME NEW r \in Requests, WarmEnter(r) PROVE TypeInv'
    BY <1>8 DEF WarmEnter
  <1>9. ASSUME NEW r \in Requests, Finish(r) PROVE TypeInv'
    BY <1>9 DEF Finish, DropLease
  <1>10. ASSUME NEW r \in Requests, Unavailable(r) PROVE TypeInv'
    BY <1>10 DEF Unavailable, DropLease
  <1>11. ASSUME NEW r \in Requests, TakeToken(r) PROVE TypeInv'
    BY <1>11 DEF TakeToken
  <1>12. ASSUME NEW r \in Requests, CheckDrain(r) PROVE TypeInv'
    BY <1>12 DEF CheckDrain
  <1>13. ASSUME NEW r \in Requests, Wake(r) PROVE TypeInv'
    BY <1>13 DEF Wake
  <1>14. ASSUME NEW r \in Requests, Load(r) PROVE TypeInv'
    BY <1>14 DEF Load
  <1>15. ASSUME NEW r \in Requests, LockReload(r) PROVE TypeInv'
    BY <1>15 DEF LockReload
  <1>16. ASSUME NEW r \in Requests, Readmit(r) PROVE TypeInv'
    BY <1>16 DEF Readmit, WarmModels
  <1>17. ASSUME NEW r \in Requests, ReadmitRefused(r) PROVE TypeInv'
    BY <1>17 DEF ReadmitRefused
  <1>18. ASSUME NEW r \in Requests, Reloaded(r) PROVE TypeInv'
    BY <1>18 DEF Reloaded
  <1>19. ASSUME NEW r \in Requests, ReloadFails(r) PROVE TypeInv'
    BY <1>19 DEF ReloadFails
  <1>20. ASSUME NEW r \in Requests, GateRaced(r) PROVE TypeInv'
    BY <1>20 DEF GateRaced
  <1>21. ASSUME NEW r \in Requests, GateSwitch(r) PROVE TypeInv'
    BY <1>21 DEF GateSwitch, Begin
  <1>22. ASSUME NEW c \in Controls, NEW m \in Models,
             NEW what \in {"switch", "custom", "unload"}, Command(c, what, m)
      PROVE  TypeInv'
    BY <1>22 DEF Command, Begin
  <1>23. ASSUME NEW a \in Actors, Drained(a) PROVE TypeInv'
    BY <1>23 DEF Drained
  <1>24. ASSUME NEW a \in Actors, DrainTimeout(a) PROVE TypeInv'
    BY <1>24 DEF DrainTimeout, Leave
  <1>25. ASSUME NEW a \in Actors, EndDrain(a) PROVE TypeInv'
    BY <1>25 DEF EndDrain, Leave
  <1>26. ASSUME NEW a \in Actors, TakeBackend(a) PROVE TypeInv'
    BY <1>26 DEF TakeBackend
  <1>27. ASSUME NEW a \in Actors, DropTaken(a) PROVE TypeInv'
    BY <1>27 DEF DropTaken
  <1>28. ASSUME NEW a \in Actors, PublishOp(a) PROVE TypeInv'
    BY <1>28 DEF PublishOp
  <1>29. ASSUME NEW a \in Actors, Promote(a) PROVE TypeInv'
    BY <1>29 DEF Promote
  <1>30. ASSUME NEW a \in Actors, PlanSwap(a) PROVE TypeInv'
    <2>1. PICK L :
            plan' = [plan EXCEPT ![a] = L] /\ (L = WarmModels(warm) \/ L \subseteq Models)
      <3>1. ASSUME NEW K PROVE Names((AsWarm(IdleWarm) \cup {<<was[a], "primary">>}) \ K)
                                 \subseteq Models
        BY DEF Names, AsWarm, IdleWarm, WarmModels
      <3>2. ASSUME Total({w \in WarmModels(warm) : Busy(w)}) + Weight[target[a]] > Budget
            PROVE  plan' = [plan EXCEPT ![a] = WarmModels(warm)]
        BY ONLY <1>30, <3>2 DEF PlanSwap
      <3>3. ASSUME ~(Total({w \in WarmModels(warm) : Busy(w)}) + Weight[target[a]] > Budget)
            PROVE  \E K : plan' = [plan EXCEPT ![a] =
                        Names((AsWarm(IdleWarm) \cup {<<was[a], "primary">>}) \ K) \ {was[a]}]
        BY ONLY <1>30, <3>3 DEF PlanSwap
      <3>4. CASE ~(Total({w \in WarmModels(warm) : Busy(w)}) + Weight[target[a]] > Budget)
        <4>1. PICK K : plan' = [plan EXCEPT ![a] =
                   Names((AsWarm(IdleWarm) \cup {<<was[a], "primary">>}) \ K) \ {was[a]}]
          BY <3>3, <3>4
        <4>2. Names((AsWarm(IdleWarm) \cup {<<was[a], "primary">>}) \ K) \ {was[a]}
                \subseteq Models
          BY <3>1
        <4> QED
          BY ONLY <4>1, <4>2
      <3> QED
        BY ONLY <3>2, <3>4
    <2>2. plan' \in [Actors -> SUBSET Models]
      BY <2>1 DEF WarmModels
    <2>3. op' \in [Actors -> {"none", "switch", "custom", "unload", "kept", "dropped"}]
      BY <1>30 DEF PlanSwap
    <2> QED
      BY <1>30, <2>2, <2>3 DEF PlanSwap
  <1>31. ASSUME NEW a \in Actors, SwapBuilt(a) PROVE TypeInv'
    BY <1>31 DEF SwapBuilt
  <1>32. ASSUME NEW a \in Actors, SwapFails(a) PROVE TypeInv'
    BY <1>32 DEF SwapFails
  <1>33. ASSUME NEW a \in Actors, EvictAll(a) PROVE TypeInv'
    BY <1>33 DEF EvictAll
  <1>34. ASSUME NEW a \in Actors, Destroy(a) PROVE TypeInv'
    BY <1>34 DEF Destroy
  <1>35. ASSUME NEW a \in Actors, DestroyBuilt(a) PROVE TypeInv'
    BY <1>35 DEF DestroyBuilt
  <1>36. ASSUME NEW a \in Actors, DestroyFails(a) PROVE TypeInv'
    BY <1>36 DEF DestroyFails
  <1>37. ASSUME NEW a \in Actors, Hangup(a) PROVE TypeInv'
    BY <1>37 DEF Hangup
  <1>38. ASSUME NEW c \in Copies, Dropped(c) \/ Retire(c) PROVE TypeInv'
    BY <1>38 DEF Dropped, Retire
  <1>41. ASSUME NEW r \in Requests, WarmPlan(r) PROVE TypeInv'
    <2>1. PICK E \in SUBSET IdleWarm : plan' = [plan EXCEPT ![r] = E]
      BY <1>41, NamesOfWarm DEF WarmPlan
    <2>2. plan' \in [Actors -> SUBSET Models]
      BY <2>1 DEF IdleWarm, WarmModels
    <2> QED
      BY <1>41, <2>2 DEF WarmPlan
  <1>42. ASSUME NEW a \in Actors, StartSwap(a) PROVE TypeInv'
    <2>1. /\ warm' \in [Models -> SomeCopy] /\ attached' \subseteq Requests
          /\ cell' \in SomeCopy /\ dropping' \subseteq Copies
      BY <1>42 DEF StartSwap, EvictPlanned
    <2> QED
      BY <1>42, <2>1 DEF StartSwap
  <1>39. CASE Sweep
    BY <1>39 DEF Sweep
  <1>40. CASE UNCHANGED vars
    BY <1>40 DEF vars
  <1> HIDE DEF TypeInv
  <1> QED
    BY <1>1, <1>2, <1>3, <1>4, <1>5, <1>6, <1>7, <1>8, <1>9, <1>10, <1>11,
       <1>12, <1>13, <1>14, <1>15, <1>16, <1>17, <1>18, <1>19, <1>20,
       <1>21, <1>22, <1>23, <1>24, <1>25, <1>26, <1>27, <1>28, <1>29,
       <1>30, <1>31, <1>32, <1>33, <1>34, <1>35, <1>36, <1>37, <1>38,
       <1>39, <1>40, <1>41, <1>42, SwitchboardAssumption
       DEF Next, RequestStep, WarmPath, PrimaryPath, OpStep, SwitchboardAssumption

(* Every variable of the Switchboard keeps its type (TypeOK). *)
THEOREM TypeCorrect == Spec => []TypeOK
  <1>1. TypeInv => TypeOK
    BY DEF TypeInv
  <1> QED
    BY <1>1, TypeInit, TypeStep, PTL DEF Spec

-----------------------------------------------------------------------------
(* A request past the token holds it (one that hung up may hold it too). *)
TokenHeld == \A r \in Requests : pc[r] \in Entered \cup {"check"} => r \in tokens

(* One operation at a time, and draining is set all through it. *)
OneOp == \A a, b \in Actors : pc[a] \in OpStages /\ pc[b] \in OpStages => a = b
DrainSet == (\E a \in Actors : pc[a] \in OpStages) => draining = "yes"

StageType == pc \in [Actors -> Stages]

SwapInv == StageType /\ TokenHeld /\ OneOp /\ DrainSet /\ NoServeMidSwap

(* At the start nobody is anywhere. *)
LEMMA SwapInit == Init => SwapInv
  BY DEF Init, SwapInv, StageType, TokenHeld, OneOp, DrainSet, NoServeMidSwap,
     Actors, Stages, OpStages, InSwap, Entered

(* The history of overlaps is never forgotten. *)
LEMMA OverlapGrows ==
    ASSUME TypeInv, [Next]_vars, overlap' = 0
    PROVE  overlap = 0
  <1> USE DEF drainVars
  <1>1. ASSUME NEW r \in Requests, WarmPath(r) PROVE overlap' = overlap
    BY <1>1 DEF WarmPath, Look, WarmRaced, WarmRefused, WarmPlan, WarmStart, WarmBuilt,
       WarmFails, WarmEnter
  <1>2. ASSUME NEW r \in Requests, PrimaryPath(r) PROVE overlap' = overlap
    BY <1>2 DEF PrimaryPath, TakeToken, CheckDrain, Wake, Load, LockReload, Readmit,
       ReadmitRefused, Reloaded, ReloadFails
  <1>3. ASSUME NEW a \in Actors, OpStep(a) PROVE overlap' = overlap
    BY <1>3 DEF OpStep, Drained, DrainTimeout, EndDrain, Leave, TakeBackend, DropTaken,
       PublishOp, Promote, PlanSwap, StartSwap, SwapBuilt, SwapFails, EvictAll, Destroy,
       DestroyBuilt, DestroyFails
  <1>4. ASSUME NEW a, NEW what, NEW m, Begin(a, what, m) PROVE overlap = 0
    BY <1>4 DEF Begin, TypeInv, TypeOK
  <1>5. ASSUME NEW r \in Requests, RequestStep(r) \/ Arrive(r) PROVE overlap = 0
    BY <1>1, <1>2, <1>4, <1>5 DEF RequestStep, Arrive, GateRaced, GateSwitch, Finish,
       Unavailable
  <1>6. ASSUME NEW c, NEW what, NEW m, Command(c, what, m) PROVE overlap = 0
    BY <1>4, <1>6 DEF Command
  <1>7. ASSUME NEW a \in Actors, Hangup(a) PROVE overlap = 0
    BY <1>7 DEF Hangup
  <1>8. ASSUME NEW c \in Copies, Dropped(c) \/ Retire(c) PROVE overlap = 0
    BY <1>8 DEF Dropped, Retire
  <1>9. CASE Sweep
    BY <1>9 DEF Sweep
  <1>10. CASE UNCHANGED vars
    BY <1>10 DEF vars
  <1> QED
    BY <1>3, <1>5, <1>6, <1>7, <1>8, <1>9, <1>10 DEF Next

(* Every step keeps the invariant: the look at draining keeps requests out *)
(* of a swap, the empty token set keeps the swap away from requests.       *)
LEMMA SwapStep ==
    ASSUME TypeInv, overlap' = 0, SwapInv, [Next]_vars
    PROVE  SwapInv'
  <1> USE DEF SwapInv, StageType, TokenHeld, OneOp, DrainSet, NoServeMidSwap, Goto,
              Actors, Stages, OpStages, InSwap, Entered, drainVars
  <1>0. overlap = 0
    BY OverlapGrows
  <1>1. ASSUME NEW r \in Requests, Arrive(r) PROVE SwapInv'
    BY <1>1 DEF Arrive
  <1>2. ASSUME NEW r \in Requests, Look(r) PROVE SwapInv'
    BY <1>2 DEF Look, TakeHandle
  <1>3. ASSUME NEW r \in Requests, WarmRaced(r) PROVE SwapInv'
    BY <1>3 DEF WarmRaced, TakeHandle
  <1>4. ASSUME NEW r \in Requests, WarmRefused(r) PROVE SwapInv'
    BY <1>4 DEF WarmRefused
  <1>5. ASSUME NEW r \in Requests, WarmStart(r) PROVE SwapInv'
    BY <1>5 DEF WarmStart
  <1>6. ASSUME NEW r \in Requests, WarmBuilt(r) PROVE SwapInv'
    BY <1>6 DEF WarmBuilt
  <1>7. ASSUME NEW r \in Requests, WarmFails(r) PROVE SwapInv'
    BY <1>7 DEF WarmFails
  <1>8. ASSUME NEW r \in Requests, WarmEnter(r) PROVE SwapInv'
    BY <1>8 DEF WarmEnter
  <1>9. ASSUME NEW r \in Requests, Finish(r) PROVE SwapInv'
    BY <1>9 DEF Finish, DropLease
  <1>10. ASSUME NEW r \in Requests, Unavailable(r) PROVE SwapInv'
    BY <1>10 DEF Unavailable, DropLease
  <1>11. ASSUME NEW r \in Requests, TakeToken(r) PROVE SwapInv'
    BY <1>11 DEF TakeToken
  <1>12. ASSUME NEW r \in Requests, CheckDrain(r) PROVE SwapInv'
    BY <1>12 DEF CheckDrain
  <1>13. ASSUME NEW r \in Requests, Wake(r) PROVE SwapInv'
    BY <1>13 DEF Wake
  <1>14. ASSUME NEW r \in Requests, Load(r) PROVE SwapInv'
    BY <1>14 DEF Load
  <1>15. ASSUME NEW r \in Requests, LockReload(r) PROVE SwapInv'
    BY <1>15 DEF LockReload
  <1>16. ASSUME NEW r \in Requests, Readmit(r) PROVE SwapInv'
    BY <1>16 DEF Readmit
  <1>17. ASSUME NEW r \in Requests, ReadmitRefused(r) PROVE SwapInv'
    BY <1>17 DEF ReadmitRefused
  <1>18. ASSUME NEW r \in Requests, Reloaded(r) PROVE SwapInv'
    BY <1>18 DEF Reloaded
  <1>19. ASSUME NEW r \in Requests, ReloadFails(r) PROVE SwapInv'
    BY <1>19 DEF ReloadFails
  <1>20. ASSUME NEW r \in Requests, GateRaced(r) PROVE SwapInv'
    BY <1>20 DEF GateRaced
  <1>21. ASSUME NEW r \in Requests, GateSwitch(r) PROVE SwapInv'
    BY <1>0, <1>21 DEF GateSwitch, Begin
  <1>22. ASSUME NEW c \in Controls, NEW m \in Models,
             NEW what \in {"switch", "custom", "unload"}, Command(c, what, m)
      PROVE  SwapInv'
    BY <1>0, <1>22 DEF Command, Begin
  <1>23. ASSUME NEW a \in Actors, Drained(a) PROVE SwapInv'
    BY <1>23 DEF Drained
  <1>24. ASSUME NEW a \in Actors, DrainTimeout(a) PROVE SwapInv'
    BY <1>24 DEF DrainTimeout, Leave
  <1>25. ASSUME NEW a \in Actors, EndDrain(a) PROVE SwapInv'
    BY <1>25 DEF EndDrain, Leave
  <1>26. ASSUME NEW a \in Actors, TakeBackend(a) PROVE SwapInv'
    BY <1>26 DEF TakeBackend
  <1>27. ASSUME NEW a \in Actors, DropTaken(a) PROVE SwapInv'
    BY <1>27 DEF DropTaken
  <1>28. ASSUME NEW a \in Actors, PublishOp(a) PROVE SwapInv'
    BY <1>28 DEF PublishOp
  <1>29. ASSUME NEW a \in Actors, Promote(a) PROVE SwapInv'
    BY <1>29 DEF Promote
  <1>30. ASSUME NEW a \in Actors, PlanSwap(a) PROVE SwapInv'
    BY <1>30 DEF PlanSwap
  <1>31. ASSUME NEW a \in Actors, SwapBuilt(a) PROVE SwapInv'
    BY <1>31 DEF SwapBuilt
  <1>32. ASSUME NEW a \in Actors, SwapFails(a) PROVE SwapInv'
    BY <1>32 DEF SwapFails
  <1>33. ASSUME NEW a \in Actors, EvictAll(a) PROVE SwapInv'
    BY <1>33 DEF EvictAll
  <1>34. ASSUME NEW a \in Actors, Destroy(a) PROVE SwapInv'
    BY <1>34 DEF Destroy
  <1>35. ASSUME NEW a \in Actors, DestroyBuilt(a) PROVE SwapInv'
    BY <1>35 DEF DestroyBuilt
  <1>36. ASSUME NEW a \in Actors, DestroyFails(a) PROVE SwapInv'
    BY <1>36 DEF DestroyFails
  <1>37. ASSUME NEW a \in Actors, Hangup(a) PROVE SwapInv'
    BY <1>37 DEF Hangup
  <1>38. ASSUME NEW c \in Copies, Dropped(c) \/ Retire(c) PROVE SwapInv'
    BY <1>38 DEF Dropped, Retire
  <1>41. ASSUME NEW r \in Requests, WarmPlan(r) PROVE SwapInv'
    BY <1>41 DEF WarmPlan
  <1>42. ASSUME NEW a \in Actors, StartSwap(a) PROVE SwapInv'
    BY <1>42 DEF StartSwap
  <1>39. CASE Sweep
    BY <1>39 DEF Sweep
  <1>40. CASE UNCHANGED vars
    BY <1>40 DEF vars
  <1> HIDE DEF SwapInv
  <1> QED
    BY <1>1, <1>2, <1>3, <1>4, <1>5, <1>6, <1>7, <1>8, <1>9, <1>10, <1>11,
       <1>12, <1>13, <1>14, <1>15, <1>16, <1>17, <1>18, <1>19, <1>20,
       <1>21, <1>22, <1>23, <1>24, <1>25, <1>26, <1>27, <1>28, <1>29,
       <1>30, <1>31, <1>32, <1>33, <1>34, <1>35, <1>36, <1>37, <1>38,
       <1>39, <1>40, <1>41, <1>42, SwitchboardAssumption
       DEF Next, RequestStep, WarmPath, PrimaryPath, OpStep, SwitchboardAssumption

(* No request is between its look at draining and the end of its chat      *)
(* while a switch or an unload is past its drain, as long as no two        *)
(* operations have overlapped (NoServeUnlessOverlap).                      *)
THEOREM NobodyServedMidSwap == Spec => []NoServeUnlessOverlap
  <1> DEFINE Inv == TypeInv /\ (overlap = 0 => SwapInv)
  <1>1. Init => Inv
    BY TypeInit, SwapInit
  <1>2. Inv /\ [Next]_vars => Inv'
    BY TypeStep, SwapStep, OverlapGrows
  <1>3. Inv => NoServeUnlessOverlap
    BY DEF SwapInv, NoServeUnlessOverlap
  <1> QED
    BY <1>1, <1>2, <1>3, PTL DEF Spec

-----------------------------------------------------------------------------
(* Every place holds a copy of the model it stands for. *)
WarmOfModel == \A m \in Models : warm[m] # NoCopy => warm[m][1] = m
CellOfSpec == cell # NoCopy => cell[1] = spec
BuiltAsAsked ==
    /\ \A r \in Requests : /\ pc[r] = "warm_build" => hand[r][1] = Ask[r]
                           /\ pc[r] = "reload" => hand[r][1] = spec
    /\ \A a \in Actors : pc[a] \in {"sw_build", "ds_build"} => hand[a][1] = target[a]

(* A swap knows the model it leaves; a destructive one has left it. *)
Leaving ==
    \A a \in Actors :
        /\ pc[a] \in {"swap", "sw_plan", "sw_build", "clear", "destroy"} => was[a] = spec
        /\ pc[a] = "ds_build" => spec = target[a] /\ cell = NoCopy

(* A reload owns reload_lock and finds the cell empty until it is done. *)
Reloading ==
    \A r \in Requests : pc[r] \in {"readmit", "reload"} => reload = {r} /\ cell = NoCopy

CellInv == WarmOfModel /\ CellOfSpec /\ BuiltAsAsked /\ Leaving /\ Reloading

(* The first model is in the cell. *)
LEMMA CellInit == Init => CellInv
  BY DEF Init, CellInv, WarmOfModel, CellOfSpec, BuiltAsAsked, Leaving, Reloading, Actors

(* Every step keeps it, given that nobody is served mid-swap. *)
LEMMA CellStep ==
    ASSUME TypeInv, SwapInv, CellInv, [Next]_vars
    PROVE  CellInv'
  <1> USE CopyFacts, FreshCopy
      DEF TypeInv, TypeOK, Asking, SwapInv, OneOp, NoServeMidSwap, CellInv, WarmOfModel,
          CellOfSpec, BuiltAsAsked, Leaving, Reloading, Goto, Actors, Stages, OpStages,
          InSwap, Entered, lockVars, opVars, freeVars, drainVars
  <1>0. \A q, r \in Requests :
          pc[q] \in {"readmit", "reload"} /\ pc[r] \in {"readmit", "reload"} => q = r
    <2> SUFFICES ASSUME NEW q \in Requests, NEW r \in Requests, reload = {q}, reload = {r}
                 PROVE  q = r
      OBVIOUS
    <2> QED
      BY q \in {r}
  <1>1. ASSUME NEW r \in Requests, Arrive(r) PROVE CellInv'
    BY <1>1 DEF Arrive
  <1>2. ASSUME NEW r \in Requests, Look(r) PROVE CellInv'
    BY <1>2 DEF Look, TakeHandle
  <1>3. ASSUME NEW r \in Requests, WarmRaced(r) PROVE CellInv'
    BY <1>3 DEF WarmRaced, TakeHandle
  <1>4. ASSUME NEW r \in Requests, WarmRefused(r) PROVE CellInv'
    BY <1>4 DEF WarmRefused
  <1>5. ASSUME NEW r \in Requests, WarmStart(r) PROVE CellInv'
    BY <1>5 DEF WarmStart, EvictPlanned, Evict
  <1>6. ASSUME NEW r \in Requests, WarmBuilt(r) PROVE CellInv'
    BY <1>6 DEF WarmBuilt
  <1>7. ASSUME NEW r \in Requests, WarmFails(r) PROVE CellInv'
    BY <1>7 DEF WarmFails
  <1>8. ASSUME NEW r \in Requests, WarmEnter(r) PROVE CellInv'
    BY <1>8 DEF WarmEnter
  <1>9. ASSUME NEW r \in Requests, Finish(r) PROVE CellInv'
    BY <1>9 DEF Finish, DropLease
  <1>10. ASSUME NEW r \in Requests, Unavailable(r) PROVE CellInv'
    BY <1>10 DEF Unavailable, DropLease
  <1>11. ASSUME NEW r \in Requests, TakeToken(r) PROVE CellInv'
    BY <1>11 DEF TakeToken
  <1>12. ASSUME NEW r \in Requests, CheckDrain(r) PROVE CellInv'
    BY <1>12 DEF CheckDrain
  <1>13. ASSUME NEW r \in Requests, Wake(r) PROVE CellInv'
    BY <1>13 DEF Wake
  <1>14. ASSUME NEW r \in Requests, Load(r) PROVE CellInv'
    BY <1>14 DEF Load
  <1>15. ASSUME NEW r \in Requests, LockReload(r) PROVE CellInv'
    BY <1>15 DEF LockReload
  <1>16. ASSUME NEW r \in Requests, Readmit(r) PROVE CellInv'
    BY <1>16 DEF Readmit, WarmModels
  <1>17. ASSUME NEW r \in Requests, ReadmitRefused(r) PROVE CellInv'
    BY <1>17, <1>0 DEF ReadmitRefused
  <1>18. ASSUME NEW r \in Requests, Reloaded(r) PROVE CellInv'
    BY <1>18, <1>0 DEF Reloaded
  <1>19. ASSUME NEW r \in Requests, ReloadFails(r) PROVE CellInv'
    BY <1>19, <1>0 DEF ReloadFails
  <1>20. ASSUME NEW r \in Requests, GateRaced(r) PROVE CellInv'
    BY <1>20 DEF GateRaced
  <1>21. ASSUME NEW r \in Requests, GateSwitch(r) PROVE CellInv'
    BY <1>21 DEF GateSwitch, Begin
  <1>22. ASSUME NEW c \in Controls, NEW m \in Models,
             NEW what \in {"switch", "custom", "unload"}, Command(c, what, m)
      PROVE  CellInv'
    BY <1>22 DEF Command, Begin
  <1>23. ASSUME NEW a \in Actors, Drained(a) PROVE CellInv'
    BY <1>23 DEF Drained
  <1>24. ASSUME NEW a \in Actors, DrainTimeout(a) PROVE CellInv'
    BY <1>24 DEF DrainTimeout, Leave
  <1>25. ASSUME NEW a \in Actors, EndDrain(a) PROVE CellInv'
    BY <1>25 DEF EndDrain, Leave
  <1>26. ASSUME NEW a \in Actors, TakeBackend(a) PROVE CellInv'
    BY <1>26 DEF TakeBackend
  <1>27. ASSUME NEW a \in Actors, DropTaken(a) PROVE CellInv'
    BY <1>27 DEF DropTaken
  <1>28. ASSUME NEW a \in Actors, PublishOp(a) PROVE CellInv'
    BY <1>28 DEF PublishOp
  <1>29. ASSUME NEW a \in Actors, Promote(a) PROVE CellInv'
    BY <1>29 DEF Promote, Evict
  <1>30. ASSUME NEW a \in Actors, PlanSwap(a) PROVE CellInv'
    BY <1>30 DEF PlanSwap
  <1>31. ASSUME NEW a \in Actors, SwapBuilt(a) PROVE CellInv'
    BY <1>31 DEF SwapBuilt
  <1>32. ASSUME NEW a \in Actors, SwapFails(a) PROVE CellInv'
    BY <1>32 DEF SwapFails
  <1>33. ASSUME NEW a \in Actors, EvictAll(a) PROVE CellInv'
    BY <1>33 DEF EvictAll, Evict
  <1>34. ASSUME NEW a \in Actors, Destroy(a) PROVE CellInv'
    BY <1>34 DEF Destroy
  <1>35. ASSUME NEW a \in Actors, DestroyBuilt(a) PROVE CellInv'
    BY <1>35 DEF DestroyBuilt
  <1>36. ASSUME NEW a \in Actors, DestroyFails(a) PROVE CellInv'
    BY <1>36 DEF DestroyFails
  <1>37. ASSUME NEW a \in Actors, Hangup(a) PROVE CellInv'
    BY <1>37, <1>0 DEF Hangup
  <1>38. ASSUME NEW c \in Copies, Dropped(c) \/ Retire(c) PROVE CellInv'
    BY <1>38 DEF Dropped, Retire
  <1>41. ASSUME NEW r \in Requests, WarmPlan(r) PROVE CellInv'
    BY <1>41 DEF WarmPlan
  <1>42. ASSUME NEW a \in Actors, StartSwap(a) PROVE CellInv'
    BY <1>42 DEF StartSwap, EvictPlanned, Evict
  <1>39. CASE Sweep
    BY <1>39 DEF Sweep, Evict
  <1>40. CASE UNCHANGED vars
    BY <1>40 DEF vars
  <1> QED
    BY <1>1, <1>2, <1>3, <1>4, <1>5, <1>6, <1>7, <1>8, <1>9, <1>10, <1>11,
       <1>12, <1>13, <1>14, <1>15, <1>16, <1>17, <1>18, <1>19, <1>20,
       <1>21, <1>22, <1>23, <1>24, <1>25, <1>26, <1>27, <1>28, <1>29,
       <1>30, <1>31, <1>32, <1>33, <1>34, <1>35, <1>36, <1>37, <1>38,
       <1>39, <1>40, <1>41, <1>42, SwitchboardAssumption
       DEF Next, RequestStep, WarmPath, PrimaryPath, OpStep, SwitchboardAssumption

(* The two together, as long as no two operations have overlapped. *)
CoreInv == TypeInv /\ (overlap = 0 => SwapInv /\ CellInv)

(* They hold at the start and after every step. *)
LEMMA CoreSteps ==
    /\ Init => CoreInv
    /\ CoreInv /\ [Next]_vars => CoreInv'
  <1>1. Init => CoreInv
    BY TypeInit, SwapInit, CellInit DEF CoreInv
  <1>2. ASSUME CoreInv, [Next]_vars PROVE CoreInv'
    BY <1>2, TypeStep, SwapStep, CellStep, OverlapGrows DEF CoreInv
  <1> QED
    BY <1>1, <1>2

(* While one request rebuilds an unloaded model nobody else has put one    *)
(* into the cell (ReloadOnce).                                             *)
THEOREM ReloadsOnce == Spec => []ReloadOnce
  <1>1. CoreInv => ReloadOnce
    BY DEF CoreInv, CellInv, Reloading, ReloadOnce
  <1> QED
    BY <1>1, CoreSteps, PTL DEF Spec

(* Outside a swap the cell holds the model the spec names, whatever was    *)
(* switched, unloaded, invalidated or abandoned before, as long as no two  *)
(* operations have overlapped (CellMatchesSpec).                           *)
THEOREM CellServesSpec == Spec => []CellMatchesSpec
  <1>1. CoreInv => CellMatchesSpec
    BY DEF CoreInv, CellInv, CellOfSpec, CellMatchesSpec
  <1> QED
    BY <1>1, CoreSteps, PTL DEF Spec

-----------------------------------------------------------------------------
(* A build next to the warm set holds the map's lock from the look that    *)
(* found no entry to the insertion, its plan and its eviction included.    *)
Locked == {"warm_plan", "sw_plan", "warm_build", "sw_build"}
Building ==
    /\ \A a \in Actors : pc[a] \in Locked => lock = {a}
    /\ \A a \in Actors : pc[a] \in {"warm_build", "sw_build"} => hand[a] # NoCopy
    /\ \A r \in Requests : pc[r] \in {"warm_plan", "warm_build"} => warm[Ask[r]] = NoCopy

(* A handle that is still the entry's belongs to a request on the warm     *)
(* path, and its lease is what the entry holds.                            *)
Holding ==
    \A r \in attached :
        /\ pc[r] \in {"warm_got", "warm"} /\ Ask[r] \in Models
        /\ lease[r] = warm[Ask[r]] /\ lease[r] # NoCopy

WarmInv == Building /\ Holding

(* A copy is something. *)
LEMMA CopyIsSome == NoCopy \notin Copies
  <1> SUFFICES ASSUME NEW m, NEW i, NoCopy = <<m, i>> PROVE FALSE
    BY DEF Copies
  <1>1. Len(<<m, i>>) = 2 /\ Len(NoCopy) = 0
    BY DEF NoCopy
  <1> QED
    BY <1>1

(* Nobody builds and nobody holds anything. *)
LEMMA WarmInit == Init => WarmInv
  BY DEF Init, WarmInv, Building, Locked, Holding, Actors

(* A lease counted on a warm entry makes its model busy.                   *)
LEMMA HeldIsBusy ==
    ASSUME TypeInv, Holding, NEW r \in Requests, Counted(r)
    PROVE  Ask[r] \in Models /\ Ask[r] \notin IdleWarm
  BY DEF TypeInv, TypeOK, Holding, Counted, IdleWarm, Busy

(* Every step keeps it: an eviction forgets the handles of the entries it  *)
(* takes, and only the holder of the lock inserts.                         *)
LEMMA WarmStep ==
    ASSUME TypeInv, WarmInv, [Next]_vars
    PROVE  WarmInv'
  <1> USE CopyFacts, CopyIsSome, FreshCopy
      DEF TypeInv, TypeOK, Asking, WarmInv, Building, Locked, Holding, Goto, Actors, Stages,
          OpStages, InSwap, Entered, lockVars, opVars, freeVars, drainVars, Handles
  <1>0. \A a, b \in Actors :
          pc[a] \in Locked /\ pc[b] \in Locked => a = b
    <2> SUFFICES ASSUME NEW a \in Actors, NEW b \in Actors, lock = {a}, lock = {b}
                 PROVE  a = b
      OBVIOUS
    <2> QED
      BY a \in {b}
  <1>1. ASSUME NEW r \in Requests, Arrive(r) PROVE WarmInv'
    BY <1>1 DEF Arrive
  <1>2. ASSUME NEW r \in Requests, Look(r) PROVE WarmInv'
    BY <1>2 DEF Look, TakeHandle
  <1>3. ASSUME NEW r \in Requests, WarmRaced(r) PROVE WarmInv'
    BY <1>3 DEF WarmRaced, TakeHandle
  <1>4. ASSUME NEW r \in Requests, WarmRefused(r) PROVE WarmInv'
    BY <1>4 DEF WarmRefused
  <1>5. ASSUME NEW r \in Requests, WarmStart(r) PROVE WarmInv'
    BY <1>5, <1>0 DEF WarmStart, EvictPlanned, Evict
  <1>6. ASSUME NEW r \in Requests, WarmBuilt(r) PROVE WarmInv'
    BY <1>6, <1>0 DEF WarmBuilt
  <1>7. ASSUME NEW r \in Requests, WarmFails(r) PROVE WarmInv'
    BY <1>7, <1>0 DEF WarmFails
  <1>8. ASSUME NEW r \in Requests, WarmEnter(r) PROVE WarmInv'
    BY <1>8 DEF WarmEnter
  <1>9. ASSUME NEW r \in Requests, Finish(r) PROVE WarmInv'
    BY <1>9 DEF Finish, DropLease
  <1>10. ASSUME NEW r \in Requests, Unavailable(r) PROVE WarmInv'
    BY <1>10 DEF Unavailable, DropLease
  <1>11. ASSUME NEW r \in Requests, TakeToken(r) PROVE WarmInv'
    BY <1>11 DEF TakeToken
  <1>12. ASSUME NEW r \in Requests, CheckDrain(r) PROVE WarmInv'
    BY <1>12 DEF CheckDrain
  <1>13. ASSUME NEW r \in Requests, Wake(r) PROVE WarmInv'
    BY <1>13 DEF Wake
  <1>14. ASSUME NEW r \in Requests, Load(r) PROVE WarmInv'
    BY <1>14 DEF Load
  <1>15. ASSUME NEW r \in Requests, LockReload(r) PROVE WarmInv'
    BY <1>15 DEF LockReload
  <1>16. ASSUME NEW r \in Requests, Readmit(r) PROVE WarmInv'
    BY <1>16 DEF Readmit
  <1>17. ASSUME NEW r \in Requests, ReadmitRefused(r) PROVE WarmInv'
    BY <1>17 DEF ReadmitRefused
  <1>18. ASSUME NEW r \in Requests, Reloaded(r) PROVE WarmInv'
    BY <1>18 DEF Reloaded
  <1>19. ASSUME NEW r \in Requests, ReloadFails(r) PROVE WarmInv'
    BY <1>19 DEF ReloadFails
  <1>20. ASSUME NEW r \in Requests, GateRaced(r) PROVE WarmInv'
    BY <1>20 DEF GateRaced
  <1>21. ASSUME NEW r \in Requests, GateSwitch(r) PROVE WarmInv'
    BY <1>21 DEF GateSwitch, Begin
  <1>22. ASSUME NEW c \in Controls, NEW m \in Models,
             NEW what \in {"switch", "custom", "unload"}, Command(c, what, m)
      PROVE  WarmInv'
    BY <1>22 DEF Command, Begin
  <1>23. ASSUME NEW a \in Actors, Drained(a) PROVE WarmInv'
    BY <1>23 DEF Drained
  <1>24. ASSUME NEW a \in Actors, DrainTimeout(a) PROVE WarmInv'
    BY <1>24 DEF DrainTimeout, Leave
  <1>25. ASSUME NEW a \in Actors, EndDrain(a) PROVE WarmInv'
    BY <1>25 DEF EndDrain, Leave
  <1>26. ASSUME NEW a \in Actors, TakeBackend(a) PROVE WarmInv'
    BY <1>26 DEF TakeBackend
  <1>27. ASSUME NEW a \in Actors, DropTaken(a) PROVE WarmInv'
    BY <1>27 DEF DropTaken
  <1>28. ASSUME NEW a \in Actors, PublishOp(a) PROVE WarmInv'
    BY <1>28 DEF PublishOp
  <1>29. ASSUME NEW a \in Actors, Promote(a) PROVE WarmInv'
    BY <1>29 DEF Promote, Evict
  <1>30. ASSUME NEW a \in Actors, PlanSwap(a) PROVE WarmInv'
    BY <1>30 DEF PlanSwap
  <1>31. ASSUME NEW a \in Actors, SwapBuilt(a) PROVE WarmInv'
    BY <1>31, <1>0 DEF SwapBuilt
  <1>32. ASSUME NEW a \in Actors, SwapFails(a) PROVE WarmInv'
    BY <1>32, <1>0 DEF SwapFails
  <1>33. ASSUME NEW a \in Actors, EvictAll(a) PROVE WarmInv'
    BY <1>33 DEF EvictAll, Evict
  <1>34. ASSUME NEW a \in Actors, Destroy(a) PROVE WarmInv'
    BY <1>34 DEF Destroy
  <1>35. ASSUME NEW a \in Actors, DestroyBuilt(a) PROVE WarmInv'
    BY <1>35 DEF DestroyBuilt
  <1>36. ASSUME NEW a \in Actors, DestroyFails(a) PROVE WarmInv'
    BY <1>36 DEF DestroyFails
  <1>37. ASSUME NEW a \in Actors, Hangup(a) PROVE WarmInv'
    <2>1. \A b \in Actors : b # a /\ lock = {b} => lock' = {b}
      BY <1>37 DEF Hangup
    <2>2. Building'
      BY <1>37, <2>1 DEF Hangup
    <2>3. Holding'
      BY <1>37 DEF Hangup, Awaiting
    <2> QED
      BY <2>2, <2>3
  <1>38. ASSUME NEW c \in Copies, Dropped(c) \/ Retire(c) PROVE WarmInv'
    BY <1>38 DEF Dropped, Retire
  <1>41. ASSUME NEW r \in Requests, WarmPlan(r) PROVE WarmInv'
    BY <1>41 DEF WarmPlan
  <1>42. ASSUME NEW a \in Actors, StartSwap(a) PROVE WarmInv'
    <2>1. PICK S \in SUBSET IdleWarm :
            warm' = Evict(warm, S) /\ attached' = attached \ Handles(S)
      <3> HIDE DEF Handles
      <3> QED
        BY ONLY <1>42 DEF StartSwap, EvictPlanned
    <2>2. \A m \in Models : warm'[m] = IF m \in S THEN NoCopy ELSE warm[m]
      BY <2>1 DEF Evict
    <2>3. Fresh(target[a]) # NoCopy
      BY <1>42 DEF StartSwap, EvictPlanned
    <2>4. Building'
      BY <1>42, <1>0, <2>2, <2>3 DEF StartSwap
    <2>5. Holding'
      BY <1>42, <2>1, <2>2 DEF StartSwap, EvictPlanned
    <2> QED
      BY <2>4, <2>5
  <1>39. CASE Sweep
    BY <1>39 DEF Sweep, Evict
  <1>40. CASE UNCHANGED vars
    BY <1>40 DEF vars
  <1> QED
    BY <1>1, <1>2, <1>3, <1>4, <1>5, <1>6, <1>7, <1>8, <1>9, <1>10, <1>11,
       <1>12, <1>13, <1>14, <1>15, <1>16, <1>17, <1>18, <1>19, <1>20,
       <1>21, <1>22, <1>23, <1>24, <1>25, <1>26, <1>27, <1>28, <1>29,
       <1>30, <1>31, <1>32, <1>33, <1>34, <1>35, <1>36, <1>37, <1>38,
       <1>39, <1>40, <1>41, <1>42, SwitchboardAssumption
       DEF Next, RequestStep, WarmPath, PrimaryPath, OpStep, SwitchboardAssumption

(* One step lets go of no warm model whose lease is counted: what evicts   *)
(* takes idle models only, and what replaces an entry replaces the         *)
(* primary's own.                                                          *)
Stays ==
    \A q \in Requests :
        overlap = 0 /\ Counted(q) /\ pc'[q] = "warm" /\ Ask[q] # spec
          => lease[q] \in {cell'} \cup {warm'[m] : m \in Models}

(* Every action has it. *)
LEMMA StaysStep ==
    ASSUME CoreInv, WarmInv, [Next]_vars
    PROVE  Stays
  <1> SUFFICES ASSUME NEW q \in Requests, overlap = 0, Counted(q), pc'[q] = "warm",
                      Ask[q] # spec
               PROVE  lease[q] \in {cell'} \cup {warm'[m] : m \in Models}
    BY DEF Stays
  <1>0. TypeInv /\ CellInv
    BY DEF CoreInv
  <1> DEFINE P == lease[q] = cell' \/ lease[q] = warm'[Ask[q]]
  <1>a. /\ Ask[q] \in Models /\ Ask[q] \notin IdleWarm
        /\ lease[q] = warm[Ask[q]] /\ lease[q] # NoCopy
    BY <1>0, HeldIsBusy DEF WarmInv, Holding, Counted
  <1> SUFFICES P
    BY <1>a
  <1> USE <1>a
  <1>b. ASSUME warm' = warm PROVE P
    BY <1>b
  <1>c. ASSUME NEW S \in SUBSET IdleWarm, warm' = Evict(warm, S) PROVE P
    BY <1>c DEF Evict
  <1>1. ASSUME NEW r \in Requests, Arrive(r) PROVE P
    BY <1>1, <1>b DEF Arrive
  <1>2. ASSUME NEW r \in Requests, Look(r) PROVE P
    BY <1>2, <1>b DEF Look, TakeHandle
  <1>3. ASSUME NEW r \in Requests, WarmRaced(r) PROVE P
    BY <1>3, <1>b DEF WarmRaced, TakeHandle
  <1>4. ASSUME NEW r \in Requests, WarmRefused(r) PROVE P
    BY <1>4, <1>b DEF WarmRefused
  <1>5. ASSUME NEW r \in Requests, WarmStart(r) PROVE P
    BY <1>5, <1>c DEF WarmStart, EvictPlanned
  <1>6. ASSUME NEW r \in Requests, WarmBuilt(r) PROVE P
    BY <1>0, <1>6 DEF WarmBuilt, WarmInv, Building, TypeInv, TypeOK
  <1>7. ASSUME NEW r \in Requests, WarmFails(r) PROVE P
    BY <1>7, <1>b DEF WarmFails
  <1>8. ASSUME NEW r \in Requests, WarmEnter(r) PROVE P
    BY <1>8, <1>b DEF WarmEnter
  <1>9. ASSUME NEW r \in Requests, Finish(r) PROVE P
    BY <1>9, <1>b DEF Finish, DropLease
  <1>10. ASSUME NEW r \in Requests, Unavailable(r) PROVE P
    BY <1>10, <1>b DEF Unavailable, DropLease
  <1>11. ASSUME NEW r \in Requests, TakeToken(r) PROVE P
    BY <1>11, <1>b DEF TakeToken
  <1>12. ASSUME NEW r \in Requests, CheckDrain(r) PROVE P
    BY <1>12, <1>b DEF CheckDrain
  <1>13. ASSUME NEW r \in Requests, Wake(r) PROVE P
    BY <1>13, <1>b DEF Wake
  <1>14. ASSUME NEW r \in Requests, Load(r) PROVE P
    BY <1>14, <1>b DEF Load
  <1>15. ASSUME NEW r \in Requests, LockReload(r) PROVE P
    BY <1>15, <1>b DEF LockReload
  <1>16. ASSUME NEW r \in Requests, Readmit(r) PROVE P
    BY <1>16, <1>b DEF Readmit
  <1>17. ASSUME NEW r \in Requests, ReadmitRefused(r) PROVE P
    BY <1>17, <1>b DEF ReadmitRefused
  <1>18. ASSUME NEW r \in Requests, Reloaded(r) PROVE P
    BY <1>18, <1>b DEF Reloaded
  <1>19. ASSUME NEW r \in Requests, ReloadFails(r) PROVE P
    BY <1>19, <1>b DEF ReloadFails
  <1>20. ASSUME NEW r \in Requests, GateRaced(r) PROVE P
    BY <1>20, <1>b DEF GateRaced
  <1>21. ASSUME NEW r \in Requests, GateSwitch(r) PROVE P
    BY <1>21, <1>b DEF GateSwitch, Begin
  <1>22. ASSUME NEW c \in Controls, NEW m \in Models,
             NEW what \in {"switch", "custom", "unload"}, Command(c, what, m)
      PROVE  P
    BY <1>22, <1>b DEF Command, Begin
  <1>23. ASSUME NEW a \in Actors, Drained(a) PROVE P
    BY <1>23, <1>b DEF Drained
  <1>24. ASSUME NEW a \in Actors, DrainTimeout(a) PROVE P
    BY <1>24, <1>b DEF DrainTimeout, Leave
  <1>25. ASSUME NEW a \in Actors, EndDrain(a) PROVE P
    BY <1>25, <1>b DEF EndDrain, Leave
  <1>26. ASSUME NEW a \in Actors, TakeBackend(a) PROVE P
    BY <1>26, <1>b DEF TakeBackend
  <1>27. ASSUME NEW a \in Actors, DropTaken(a) PROVE P
    BY <1>27, <1>b DEF DropTaken
  <1>28. ASSUME NEW a \in Actors, PublishOp(a) PROVE P
    BY <1>28, <1>b DEF PublishOp
  <1>29. ASSUME NEW a \in Actors, Promote(a) PROVE P
    BY <1>0, <1>29 DEF Promote, Evict, CellInv, Leaving, TypeInv, TypeOK
  <1>30. ASSUME NEW a \in Actors, PlanSwap(a) PROVE P
    BY <1>30, <1>b DEF PlanSwap
  <1>31. ASSUME NEW a \in Actors, SwapBuilt(a) PROVE P
    BY <1>0, <1>31 DEF SwapBuilt, CellInv, Leaving, TypeInv, TypeOK
  <1>32. ASSUME NEW a \in Actors, SwapFails(a) PROVE P
    BY <1>32, <1>b DEF SwapFails
  <1>33. ASSUME NEW a \in Actors, EvictAll(a) PROVE P
    BY <1>33, <1>c DEF EvictAll
  <1>34. ASSUME NEW a \in Actors, Destroy(a) PROVE P
    BY <1>34, <1>b DEF Destroy
  <1>35. ASSUME NEW a \in Actors, DestroyBuilt(a) PROVE P
    BY <1>35, <1>b DEF DestroyBuilt
  <1>36. ASSUME NEW a \in Actors, DestroyFails(a) PROVE P
    BY <1>36, <1>b DEF DestroyFails
  <1>37. ASSUME NEW a \in Actors, Hangup(a) PROVE P
    BY <1>37, <1>b DEF Hangup
  <1>38. ASSUME NEW c \in Copies, Dropped(c) \/ Retire(c) PROVE P
    BY <1>38, <1>b DEF Dropped, Retire
  <1>41. ASSUME NEW r \in Requests, WarmPlan(r) PROVE P
    BY <1>41, <1>b DEF WarmPlan
  <1>42. ASSUME NEW a \in Actors, StartSwap(a) PROVE P
    BY <1>42, <1>c DEF StartSwap, EvictPlanned
  <1>39. CASE Sweep
    BY <1>39, <1>c DEF Sweep
  <1>40. CASE UNCHANGED vars
    BY <1>40, <1>b DEF vars
  <1> HIDE DEF P
  <1> QED
    BY <1>1, <1>2, <1>3, <1>4, <1>5, <1>6, <1>7, <1>8, <1>9, <1>10, <1>11,
       <1>12, <1>13, <1>14, <1>15, <1>16, <1>17, <1>18, <1>19, <1>20,
       <1>21, <1>22, <1>23, <1>24, <1>25, <1>26, <1>27, <1>28, <1>29,
       <1>30, <1>31, <1>32, <1>33, <1>34, <1>35, <1>36, <1>37, <1>38,
       <1>39, <1>40, <1>41, <1>42, SwitchboardAssumption
       DEF Next, RequestStep, WarmPath, PrimaryPath, OpStep, SwitchboardAssumption

(* A warm model whose lease is counted stays resident (BusyWarmStays),     *)
(* whatever is evicted, swept, swapped or promoted next to it.             *)
THEOREM BusyWarmIsKept == Spec => BusyWarmStays
  <1>1. WarmInv /\ CoreInv /\ [Next]_vars => WarmInv' /\ [Stays]_vars
    BY WarmStep, StaysStep DEF CoreInv
  <1>2. Spec => [][Stays]_vars
    BY <1>1, CoreSteps, WarmInit, PTL DEF Spec
  <1>3. Stays <=> \A r \in Requests :
                    overlap = 0 /\ Counted(r) /\ pc'[r] = "warm" /\ Ask[r] # spec
                      => lease[r] \in {cell'} \cup {warm'[m] : m \in Models}
    BY DEF Stays
  <1> QED
    BY <1>2, <1>3, PTL DEF BusyWarmStays

-----------------------------------------------------------------------------
(* Sums.  MapThenSumSet folds over the subsets of a set, taking out one    *)
(* element after the other; SumOf is that fold for a function.  The lemmas *)
(* are inductions on the size of a set, told as the impossibility of a     *)
(* smallest counterexample.                                                *)

Pick(s) == CHOOSE x \in s : TRUE
Iter(g, f, S) == g = [s \in SUBSET S |-> IF s = {} THEN 0 ELSE f[Pick(s)] + g[s \ {Pick(s)}]]
SumOf(f, S) == (CHOOSE g : Iter(g, f, S))[S]

(* A set of naturals has a least element. *)
LEMMA LeastExists ==
    ASSUME NEW T, T \subseteq Nat, T # {}
    PROVE  \E x \in T : \A y \in T : x <= y
  <1> DEFINE R == {ss \in Nat \X Nat : ss[1] < ss[2]}
  <1>1. IsWellFoundedOn(R, Nat)
    BY NatLessThanWellFounded DEF OpToRel
  <1>2. \E x \in T : \A y \in T : ~(<<y, x>> \in R)
    BY <1>1, WFMin
  <1>3. \A x, y \in Nat : ~(<<y, x>> \in R) => x <= y
    OBVIOUS
  <1> QED BY <1>2, <1>3

(* The element the fold takes next. *)
LEMMA PickIs == ASSUME NEW s, s # {} PROVE Pick(s) \in s
  BY DEF Pick

(* The fold is defined: it can be followed up to any size. *)
LEMMA IterExists ==
    ASSUME NEW D, NEW f \in [D -> Nat], NEW S \in SUBSET D, IsFiniteSet(S)
    PROVE  \E g \in [SUBSET S -> Nat] : Iter(g, f, S)
  <1> DEFINE Rec(g, s) == IF s = {} THEN 0 ELSE f[Pick(s)] + g[s \ {Pick(s)}]
             Upto(n) == \E g \in [SUBSET S -> Nat] : \A s \in SUBSET S : Cardinality(s) <= n => g[s] = Rec(g, s)
             Bad == {n \in Nat : ~Upto(n)}
  <1>1. \A s \in SUBSET S : IsFiniteSet(s) /\ Cardinality(s) \in Nat
    BY FS_Subset, FS_CardinalityType
  <1>2. \A s \in SUBSET S : Cardinality(s) = 0 <=> s = {}
    BY <1>1, FS_EmptySet
  <1>3. ASSUME NEW s \in SUBSET S, s # {}
        PROVE  /\ Pick(s) \in S /\ s \ {Pick(s)} \in SUBSET S
               /\ Cardinality(s \ {Pick(s)}) = Cardinality(s) - 1
    BY <1>1, <1>3, PickIs, FS_RemoveElement
  <1>4. ASSUME NEW g \in [SUBSET S -> Nat], NEW s \in SUBSET S PROVE Rec(g, s) \in Nat
    <2>1. s # {} => f[Pick(s)] \in Nat /\ g[s \ {Pick(s)}] \in Nat
      BY <1>3
    <2> QED BY <2>1
  <1> HIDE DEF Rec
  <1>5. Upto(0)
    <2> DEFINE g == [s \in SUBSET S |-> 0]
    <2>1. g \in [SUBSET S -> Nat]
      OBVIOUS
    <2>2. ASSUME NEW s \in SUBSET S, Cardinality(s) <= 0 PROVE g[s] = Rec(g, s)
      <3>1. s = {}
        BY <1>1, <1>2, <2>2
      <3> QED BY <3>1 DEF Rec
    <2> QED BY <2>1, <2>2
  <1>6. ASSUME NEW n \in Nat, Upto(n) PROVE Upto(n + 1)
    <2>1. PICK g \in [SUBSET S -> Nat] : \A s \in SUBSET S : Cardinality(s) <= n => g[s] = Rec(g, s)
      BY <1>6
    <2> DEFINE h == [s \in SUBSET S |-> IF Cardinality(s) <= n THEN g[s] ELSE Rec(g, s)]
    <2>2. h \in [SUBSET S -> Nat]
      BY <1>4
    <2>3. ASSUME NEW s \in SUBSET S, Cardinality(s) <= n + 1 PROVE h[s] = Rec(h, s)
      <3>1. h[s] = Rec(g, s)
        BY <2>1
      <3>2. CASE s = {}
        BY <3>1, <3>2 DEF Rec
      <3>3. CASE s # {}
        <4>1. s \ {Pick(s)} \in SUBSET S /\ Cardinality(s \ {Pick(s)}) <= n
          BY <1>1, <1>3, <2>3, <3>3
        <4>2. h[s \ {Pick(s)}] = g[s \ {Pick(s)}]
          BY <4>1
        <4> HIDE DEF h
        <4> QED BY <3>1, <3>3, <4>2 DEF Rec
      <3> QED BY <3>2, <3>3
    <2> HIDE DEF h
    <2> QED BY <2>2, <2>3
  <1> HIDE DEF Upto
  <1>7. \A n \in Nat : Upto(n)
    <2> SUFFICES ASSUME Bad # {} PROVE FALSE
      OBVIOUS
    <2>1. PICK n \in Bad : \A y \in Bad : n <= y
      BY LeastExists
    <2>2. n \in Nat /\ n # 0
      BY <1>5
    <2>3. n - 1 \in Nat /\ n - 1 \notin Bad
      BY <2>1, <2>2
    <2>4. Upto((n - 1) + 1)
      BY <1>6, <2>3
    <2>5. (n - 1) + 1 = n
      BY <2>2
    <2> QED BY <2>1, <2>4, <2>5
  <1>8. PICK g \in [SUBSET S -> Nat] : \A s \in SUBSET S : Cardinality(s) <= Cardinality(S) => g[s] = Rec(g, s)
    BY <1>1, <1>7 DEF Upto
  <1>9. \A s \in SUBSET S : g[s] = Rec(g, s)
    BY <1>8, FS_Subset
  <1>10. g = [s \in SUBSET S |-> Rec(g, s)]
    BY <1>9
  <1> QED BY <1>10 DEF Iter, Rec

(* What it makes of one set. *)
LEMMA IterStep ==
    ASSUME NEW g, NEW f, NEW S, Iter(g, f, S), NEW s \in SUBSET S
    PROVE  g[s] = IF s = {} THEN 0 ELSE f[Pick(s)] + g[s \ {Pick(s)}]
  <1> DEFINE F == [t \in SUBSET S |-> IF t = {} THEN 0 ELSE f[Pick(t)] + g[t \ {Pick(t)}]]
  <1>1. g = F
    BY DEF Iter
  <1>2. F[s] = IF s = {} THEN 0 ELSE f[Pick(s)] + g[s \ {Pick(s)}]
    OBVIOUS
  <1> HIDE DEF F
  <1> QED BY <1>1, <1>2

(* Two folds agree on the sets they both cover, and count in naturals. *)
LEMMA IterSame ==
    ASSUME NEW D, NEW f \in [D -> Nat], NEW S \in SUBSET D, NEW T \in SUBSET D, IsFiniteSet(S),
           NEW g, NEW h, Iter(g, f, S), Iter(h, f, T), NEW s \in SUBSET S, s \in SUBSET T
    PROVE  g[s] = h[s] /\ g[s] \in Nat
  <1> DEFINE Good(t) == g[t] = h[t] /\ g[t] \in Nat
             Bad == {n \in Nat : \E t \in SUBSET (S \cap T) : Cardinality(t) = n /\ ~Good(t)}
  <1>1. \A t \in SUBSET S : IsFiniteSet(t) /\ Cardinality(t) \in Nat
    BY FS_Subset, FS_CardinalityType
  <1> SUFFICES ASSUME Bad # {} PROVE FALSE
    BY <1>1
  <1>2. PICK n \in Bad : \A y \in Bad : n <= y
    BY LeastExists
  <1>3. PICK t \in SUBSET (S \cap T) : Cardinality(t) = n /\ ~Good(t)
    BY <1>2
  <1>4. /\ g[t] = IF t = {} THEN 0 ELSE f[Pick(t)] + g[t \ {Pick(t)}]
        /\ h[t] = IF t = {} THEN 0 ELSE f[Pick(t)] + h[t \ {Pick(t)}]
    <2>1. t \in SUBSET S /\ t \in SUBSET T
      OBVIOUS
    <2>2. g[t] = IF t = {} THEN 0 ELSE f[Pick(t)] + g[t \ {Pick(t)}]
      BY ONLY Iter(g, f, S), <2>1, IterStep, Zenon
    <2>3. h[t] = IF t = {} THEN 0 ELSE f[Pick(t)] + h[t \ {Pick(t)}]
      BY ONLY Iter(h, f, T), <2>1, IterStep, Zenon
    <2> QED BY <2>2, <2>3
  <1>5. t # {}
    BY <1>3, <1>4
  <1> DEFINE u == t \ {Pick(t)}
  <1>6. Pick(t) \in D /\ Pick(t) \in t
    BY <1>5, PickIs
  <1>7. u \in SUBSET (S \cap T) /\ Cardinality(u) \in Nat /\ Cardinality(u) < n
    BY <1>1, <1>3, <1>6, FS_RemoveElement
  <1>8. Good(u)
    BY <1>2, <1>7
  <1>9. f[Pick(t)] \in Nat
    BY <1>6
  <1> HIDE DEF u
  <1> QED BY <1>3, <1>4, <1>5, <1>8, <1>9 DEF u

(* It does not matter which element is taken first. *)
LEMMA IterSplit ==
    ASSUME NEW D, NEW f \in [D -> Nat], NEW S \in SUBSET D, IsFiniteSet(S), NEW g, Iter(g, f, S),
           NEW s \in SUBSET S, NEW x \in s
    PROVE  g[s] = f[x] + g[s \ {x}]
  <1> DEFINE Good(t) == \A y \in t : g[t] = f[y] + g[t \ {y}]
             Bad == {n \in Nat : \E t \in SUBSET S : Cardinality(t) = n /\ ~Good(t)}
  <1>1. \A t \in SUBSET S : IsFiniteSet(t) /\ Cardinality(t) \in Nat
    BY FS_Subset, FS_CardinalityType
  <1>n. \A t \in SUBSET S : g[t] \in Nat
    BY IterSame
  <1> SUFFICES ASSUME Bad # {} PROVE FALSE
    BY <1>1
  <1>2. PICK n \in Bad : \A y \in Bad : n <= y
    BY LeastExists
  <1>3. PICK t \in SUBSET S : Cardinality(t) = n /\ ~Good(t)
    BY <1>2
  <1>4. PICK y \in t : g[t] # f[y] + g[t \ {y}]
    BY <1>3
  <1>5. PICK z : z = Pick(t)
    OBVIOUS
  <1>6. z \in t /\ g[t] = f[z] + g[t \ {z}]
    BY <1>4, <1>5, IterStep, PickIs
  <1>7. y # z
    BY <1>4, <1>6
  <1>8. /\ t \ {y} \in SUBSET S /\ t \ {z} \in SUBSET S /\ (t \ {y}) \ {z} \in SUBSET S
        /\ Cardinality(t \ {y}) = n - 1 /\ Cardinality(t \ {z}) = n - 1
    BY <1>1, <1>3, <1>4, <1>6, FS_RemoveElement
  <1>9. Good(t \ {y}) /\ Good(t \ {z})
    <2>1. n - 1 \notin Bad /\ n - 1 \in Nat
      BY <1>1, <1>2, <1>8
    <2> QED BY <1>8, <2>1
  <1>10. g[t \ {y}] = f[z] + g[(t \ {y}) \ {z}]
    BY <1>6, <1>7, <1>9
  <1>11. g[t \ {z}] = f[y] + g[(t \ {z}) \ {y}]
    BY <1>4, <1>7, <1>9
  <1>12. (t \ {z}) \ {y} = (t \ {y}) \ {z}
    OBVIOUS
  <1>13. PICK k \in Nat : k = g[(t \ {y}) \ {z}]
    BY <1>n, <1>8
  <1>14. f[y] \in Nat /\ f[z] \in Nat
    BY <1>4, <1>6
  <1>15. f[z] + (f[y] + k) = f[y] + (f[z] + k)
    BY <1>13, <1>14
  <1> QED BY <1>4, <1>6, <1>10, <1>11, <1>12, <1>13, <1>15

(* A sum is what any fold over a larger set makes of the set. *)
LEMMA SumIs ==
    ASSUME NEW D, NEW f \in [D -> Nat], NEW S \in SUBSET D, IsFiniteSet(S), NEW g, Iter(g, f, S)
    PROVE  \A s \in SUBSET S : SumOf(f, s) = g[s] /\ SumOf(f, s) \in Nat
  <1> SUFFICES ASSUME NEW s \in SUBSET S PROVE SumOf(f, s) = g[s] /\ SumOf(f, s) \in Nat
    OBVIOUS
  <1>1. IsFiniteSet(s) /\ s \in SUBSET D
    BY FS_Subset
  <1>2. \E h : Iter(h, f, s)
    BY <1>1, IterExists
  <1>3. PICK h : h = CHOOSE k : Iter(k, f, s)
    OBVIOUS
  <1>4. Iter(h, f, s)
    BY <1>2, <1>3
  <1>5. g[s] = h[s] /\ g[s] \in Nat
    BY <1>1, <1>4, IterSame
  <1> QED BY <1>3, <1>5 DEF SumOf

(* Sums are naturals, and any element can be taken out. *)
LEMMA SumFacts ==
    ASSUME NEW D, NEW f \in [D -> Nat], NEW S \in SUBSET D, IsFiniteSet(S)
    PROVE  /\ SumOf(f, S) \in Nat /\ SumOf(f, {}) = 0
           /\ \A x \in S : SumOf(f, S) = f[x] + SumOf(f, S \ {x}) /\ SumOf(f, S \ {x}) \in Nat
  <1>1. PICK g : Iter(g, f, S)
    BY IterExists
  <1>2. \A s \in SUBSET S : SumOf(f, s) = g[s] /\ SumOf(f, s) \in Nat
    BY <1>1, SumIs
  <1>3. g[{}] = 0
    BY <1>1, IterStep
  <1>4. \A x \in S : g[S] = f[x] + g[S \ {x}]
    BY <1>1, IterSplit
  <1>5. \A x \in S : S \ {x} \in SUBSET S
    OBVIOUS
  <1> QED BY <1>2, <1>3, <1>4, <1>5

(* A part sums up to no more than the whole. *)
LEMMA SumSub ==
    ASSUME NEW D, NEW f \in [D -> Nat], NEW S \in SUBSET D, IsFiniteSet(S), NEW T \in SUBSET S
    PROVE  SumOf(f, T) <= SumOf(f, S)
  <1> DEFINE Good(t) == SumOf(f, T \cap t) <= SumOf(f, t)
             Bad == {n \in Nat : \E t \in SUBSET S : Cardinality(t) = n /\ ~Good(t)}
  <1>1. \A t \in SUBSET S : IsFiniteSet(t) /\ Cardinality(t) \in Nat /\ t \in SUBSET D
    BY FS_Subset, FS_CardinalityType
  <1> SUFFICES ASSUME Bad # {} PROVE FALSE
    <2>1. Bad = {} => Good(S)
      BY <1>1
    <2>2. T \cap S = T
      OBVIOUS
    <2> QED BY <2>1, <2>2
  <1>2. PICK n \in Bad : \A y \in Bad : n <= y
    BY LeastExists
  <1>3. PICK t \in SUBSET S : Cardinality(t) = n /\ ~Good(t)
    BY <1>2
  <1>4. /\ SumOf(f, t) \in Nat /\ SumOf(f, {}) = 0
        /\ \A x \in t : SumOf(f, t) = f[x] + SumOf(f, t \ {x}) /\ SumOf(f, t \ {x}) \in Nat
    BY <1>1, SumFacts
  <1>5. t # {}
    <2> SUFFICES ASSUME t = {} PROVE FALSE
      OBVIOUS
    <2>1. SumOf(f, T \cap t) = 0 /\ SumOf(f, t) = 0
      BY <1>4
    <2> QED BY <1>3, <2>1
  <1>6. PICK x \in t : TRUE
    BY <1>5
  <1>7. Cardinality(t \ {x}) = n - 1 /\ t \ {x} \in SUBSET S
    BY <1>1, <1>3, FS_RemoveElement
  <1>8. Good(t \ {x})
    <2>1. n \in Nat /\ n - 1 \in Nat
      BY <1>1, <1>7
    <2>2. n - 1 \notin Bad
      <3> HIDE DEF Bad
      <3> QED BY <1>2, <2>1
    <2> QED BY <1>7, <2>1, <2>2
  <1>9. PICK u : u = T \cap t
    OBVIOUS
  <1>10. u \in SUBSET D /\ IsFiniteSet(u) /\ T \cap (t \ {x}) = u \ {x}
    BY <1>1, <1>9
  <1>11. SumOf(f, u) \in Nat /\ SumOf(f, u \ {x}) \in Nat /\ f[x] \in Nat
         /\ (x \in u => SumOf(f, u) = f[x] + SumOf(f, u \ {x}))
         /\ (x \notin u => SumOf(f, u) = SumOf(f, u \ {x}))
    <2>1. /\ SumOf(f, u) \in Nat
          /\ \A y \in u : SumOf(f, u) = f[y] + SumOf(f, u \ {y}) /\ SumOf(f, u \ {y}) \in Nat
      BY <1>10, SumFacts
    <2>2. x \notin u => u \ {x} = u
      OBVIOUS
    <2>3. f[x] \in Nat
      OBVIOUS
    <2> QED BY <2>1, <2>2, <2>3
  <1>12. PICK a \in Nat, b \in Nat : a = SumOf(f, u \ {x}) /\ b = SumOf(f, t \ {x})
    BY <1>4, <1>11
  <1>13. a <= b
    BY <1>8, <1>10, <1>12
  <1>14. SumOf(f, u) = f[x] + a \/ SumOf(f, u) = a
    BY <1>11, <1>12
  <1>15. SumOf(f, t) = f[x] + b
    BY <1>4, <1>12
  <1>16. SumOf(f, u) <= SumOf(f, t)
    BY <1>11, <1>13, <1>14, <1>15
  <1> QED BY <1>3, <1>9, <1>16

(* Two parts sum up to at least the whole. *)
LEMMA SumUnion ==
    ASSUME NEW D, NEW f \in [D -> Nat], NEW S \in SUBSET D, NEW T \in SUBSET D,
           IsFiniteSet(S), IsFiniteSet(T)
    PROVE  SumOf(f, S \cup T) <= SumOf(f, S) + SumOf(f, T)
  <1> DEFINE Good(t) == SumOf(f, S \cup t) <= SumOf(f, S) + SumOf(f, t)
             Bad == {n \in Nat : \E t \in SUBSET T : Cardinality(t) = n /\ ~Good(t)}
  <1>1. \A t \in SUBSET T : IsFiniteSet(t) /\ Cardinality(t) \in Nat /\ t \in SUBSET D
    BY FS_Subset, FS_CardinalityType
  <1> SUFFICES ASSUME Bad # {} PROVE FALSE
    BY <1>1
  <1>2. PICK n \in Bad : \A y \in Bad : n <= y
    BY LeastExists
  <1>3. PICK t \in SUBSET T : Cardinality(t) = n /\ ~Good(t)
    BY <1>2
  <1>4. /\ SumOf(f, t) \in Nat /\ SumOf(f, {}) = 0 /\ SumOf(f, S) \in Nat
        /\ \A x \in t : SumOf(f, t) = f[x] + SumOf(f, t \ {x}) /\ SumOf(f, t \ {x}) \in Nat
    BY <1>1, SumFacts
  <1>5. t # {}
    <2> SUFFICES ASSUME t = {} PROVE FALSE
      OBVIOUS
    <2>1. S \cup t = S /\ SumOf(f, t) = 0
      BY <1>4
    <2> QED BY <1>3, <1>4, <2>1
  <1>6. PICK x \in t : TRUE
    BY <1>5
  <1>7. Cardinality(t \ {x}) = n - 1 /\ t \ {x} \in SUBSET T
    BY <1>1, <1>3, FS_RemoveElement
  <1>8. Good(t \ {x})
    <2>1. n \in Nat /\ n - 1 \in Nat
      BY <1>1, <1>7
    <2>2. n - 1 \notin Bad
      <3> HIDE DEF Bad
      <3> QED BY <1>2, <2>1
    <2> QED BY <1>7, <2>1, <2>2
  <1>9. PICK u : u = S \cup t
    OBVIOUS
  <1>10. PICK v : v = S \cup (t \ {x})
    OBVIOUS
  <1>11. /\ u \in SUBSET D /\ IsFiniteSet(u) /\ x \in u /\ u \ {x} \in SUBSET v
         /\ v \in SUBSET D /\ IsFiniteSet(v)
    BY <1>1, <1>7, <1>9, <1>10, FS_Union
  <1>12. SumOf(f, u) = f[x] + SumOf(f, u \ {x}) /\ SumOf(f, u \ {x}) \in Nat
    BY <1>11, SumFacts
  <1>13. SumOf(f, u \ {x}) <= SumOf(f, v) /\ SumOf(f, v) \in Nat
    BY <1>11, SumSub, SumFacts
  <1>14. SumOf(f, v) <= SumOf(f, S) + SumOf(f, t \ {x})
    BY <1>8, <1>10
  <1>15. PICK a \in Nat, b \in Nat, c \in Nat, d \in Nat :
            /\ a = SumOf(f, u \ {x}) /\ b = SumOf(f, v)
            /\ c = SumOf(f, S) /\ d = SumOf(f, t \ {x})
    BY <1>4, <1>12, <1>13
  <1>16. f[x] \in Nat /\ a <= b /\ b <= c + d
    BY <1>13, <1>14, <1>15
  <1>17. f[x] + a <= c + (f[x] + d)
    BY <1>16
  <1> QED BY <1>3, <1>4, <1>9, <1>12, <1>15, <1>17

(* Several elements may share what they stand for: the sum over what they  *)
(* stand for is no larger than the sum over them.                          *)
LEMMA SumImage ==
    ASSUME NEW D, NEW f \in [D -> Nat], NEW C, NEW h \in [C -> Nat], NEW p \in [D -> C],
           NEW S \in SUBSET D, IsFiniteSet(S), \A x \in S : h[p[x]] = f[x]
    PROVE  SumOf(h, {p[x] : x \in S}) <= SumOf(f, S)
  <1> DEFINE Im(t) == {p[x] : x \in t}
             Good(t) == SumOf(h, Im(t)) <= SumOf(f, t)
             Bad == {n \in Nat : \E t \in SUBSET S : Cardinality(t) = n /\ ~Good(t)}
  <1>1. \A t \in SUBSET S : IsFiniteSet(t) /\ Cardinality(t) \in Nat /\ t \in SUBSET D
    BY FS_Subset, FS_CardinalityType
  <1> SUFFICES ASSUME Bad # {} PROVE FALSE
    BY <1>1
  <1>2. PICK n \in Bad : \A y \in Bad : n <= y
    BY LeastExists
  <1>3. PICK t \in SUBSET S : Cardinality(t) = n /\ ~Good(t)
    BY <1>2
  <1>4. /\ SumOf(f, t) \in Nat /\ SumOf(f, {}) = 0
        /\ \A x \in t : SumOf(f, t) = f[x] + SumOf(f, t \ {x}) /\ SumOf(f, t \ {x}) \in Nat
    BY <1>1, SumFacts
  <1>5. t # {}
    <2> SUFFICES ASSUME t = {} PROVE FALSE
      OBVIOUS
    <2>1. Im(t) = {} /\ IsFiniteSet({}) /\ {} \in SUBSET C
      BY FS_EmptySet
    <2>2. SumOf(h, Im(t)) = 0
      BY <2>1, SumFacts
    <2> QED BY <1>3, <1>4, <2>2
  <1>6. PICK x \in t : TRUE
    BY <1>5
  <1>7. Cardinality(t \ {x}) = n - 1 /\ t \ {x} \in SUBSET S
    BY <1>1, <1>3, FS_RemoveElement
  <1>8. Good(t \ {x})
    <2>1. n \in Nat /\ n - 1 \in Nat
      BY <1>1, <1>7
    <2>2. n - 1 \notin Bad
      <3> HIDE DEF Bad
      <3> QED BY <1>2, <2>1
    <2> QED BY <1>7, <2>1, <2>2
  <1>9. PICK u : u = Im(t \ {x})
    OBVIOUS
  <1>10. PICK y \in C : y = p[x]
    OBVIOUS
  <1>11. Im(t) = u \cup {y}
    BY <1>9, <1>10
  <1>12. /\ u \in SUBSET C /\ IsFiniteSet(u) /\ {y} \in SUBSET C /\ IsFiniteSet({y})
    <2>1. IsFiniteSet(t \ {x})
      BY <1>1, <1>7
    <2>2. u \in SUBSET C
      BY <1>1, <1>7, <1>9
    <2>3. IsFiniteSet(u)
      <3> DEFINE G == [z \in t \ {x} |-> p[z]]
      <3>1. G \in Surjection(t \ {x}, u)
        BY <1>1, <1>7, <1>9 DEF Surjection
      <3> QED BY <2>1, <3>1, FS_Surjection
    <2>4. IsFiniteSet({y})
      BY FS_Singleton
    <2> QED BY <2>2, <2>3, <2>4
  <1>13. SumOf(h, u \cup {y}) <= SumOf(h, u) + SumOf(h, {y}) /\ SumOf(h, u) \in Nat
    BY <1>12, SumUnion, SumFacts
  <1>14. SumOf(h, {y}) = h[y]
    <2>1. SumOf(h, {y}) = h[y] + SumOf(h, {y} \ {y})
      BY <1>12, SumFacts
    <2>2. SumOf(h, {y} \ {y}) = 0
      <3>1. {y} \ {y} = {}
        OBVIOUS
      <3> QED BY <1>12, <3>1, SumFacts
    <2>3. h[y] \in Nat
      OBVIOUS
    <2> QED BY <2>1, <2>2, <2>3
  <1>15. h[y] = f[x] /\ f[x] \in Nat
    BY <1>10
  <1>16. PICK a \in Nat, b \in Nat : a = SumOf(h, u) /\ b = SumOf(f, t \ {x})
    BY <1>4, <1>13
  <1>17. a <= b
    BY <1>8, <1>9, <1>16
  <1>18. SumOf(f, t) = f[x] + b
    BY <1>4, <1>16
  <1>19. SumOf(h, u \cup {y}) <= a + f[x]
    BY <1>13, <1>14, <1>15, <1>16
  <1>20. SumOf(h, u \cup {y}) \in Nat
    <2>1. u \cup {y} \in SUBSET C /\ IsFiniteSet(u \cup {y})
      BY <1>12, FS_Union
    <2> QED BY <2>1, SumFacts
  <1>21. SumOf(h, u \cup {y}) <= SumOf(f, t)
    BY <1>15, <1>17, <1>18, <1>19, <1>20
  <1> QED BY <1>3, <1>11, <1>21

-----------------------------------------------------------------------------
(* The plans are sums *)

Places == {"warm", "primary"}
Weighed(D) == [c \in D |-> Weight[c[1]]]

(* A plan's total is a sum over models. *)
LEMMA TotalIs ==
    ASSUME NEW S \in SUBSET Models
    PROVE  Total(S) = SumOf(Weight, S) /\ Total(S) \in Nat
  <1> DEFINE F(g) == [s \in SUBSET S |-> IF s = {} THEN 0 ELSE Weight[CHOOSE x \in s : TRUE] + g[s \ {CHOOSE x \in s : TRUE}]]
  <1>1. Total(S) = (CHOOSE g : g = F(g))[S]
    BY DEF Total, MapThenSumSet, MapThenFoldSet
  <1>2. ASSUME NEW g PROVE Iter(g, Weight, S) <=> g = F(g)
    BY DEF Iter, Pick
  <1>3. IsFiniteSet(S)
    BY FS_Subset
  <1>4. \E g : Iter(g, Weight, S)
    BY <1>3, IterExists
  <1>5. PICK g : g = CHOOSE k : k = F(k)
    OBVIOUS
  <1> HIDE DEF F
  <1>6. g = F(g)
    BY <1>2, <1>4, <1>5
  <1>7. Iter(g, Weight, S)
    BY <1>2, <1>6
  <1>8. SumOf(Weight, S) = g[S] /\ SumOf(Weight, S) \in Nat
    BY <1>3, <1>7, SumIs
  <1> QED
    BY <1>1, <1>5, <1>8

(* So is the total of copies, or of candidates. *)
LEMMA WeighedIs ==
    ASSUME NEW D, \A c \in D : c[1] \in Models, NEW S \in SUBSET D, IsFiniteSet(S)
    PROVE  /\ Weighed(D) \in [D -> Nat]
           /\ MapThenSumSet(LAMBDA c : Weight[c[1]], S) = SumOf(Weighed(D), S)
           /\ SumOf(Weighed(D), S) \in Nat
  <1> DEFINE F(g) == [s \in SUBSET S |-> IF s = {} THEN 0 ELSE Weight[(CHOOSE x \in s : TRUE)[1]] + g[s \ {CHOOSE x \in s : TRUE}]]
  <1>1. MapThenSumSet(LAMBDA c : Weight[c[1]], S) = (CHOOSE g : g = F(g))[S]
    BY DEF MapThenSumSet, MapThenFoldSet
  <1>2. PICK f : f = Weighed(D)
    OBVIOUS
  <1>3. f \in [D -> Nat] /\ \A c \in D : f[c] = Weight[c[1]]
    BY <1>2 DEF Weighed
  <1>4. \A s \in SUBSET S : s # {} => f[Pick(s)] = Weight[Pick(s)[1]]
    BY <1>3, PickIs
  <1>5. ASSUME NEW g PROVE Iter(g, f, S) <=> g = F(g)
    <2>1. F(g) = [s \in SUBSET S |-> IF s = {} THEN 0 ELSE f[Pick(s)] + g[s \ {Pick(s)}]]
      BY <1>4 DEF Pick
    <2> QED
      BY <2>1 DEF Iter
  <1>6. \E g : Iter(g, f, S)
    BY <1>3, IterExists
  <1>7. PICK g : g = CHOOSE k : k = F(k)
    OBVIOUS
  <1> HIDE DEF F
  <1>8. g = F(g)
    BY <1>5, <1>6, <1>7
  <1>9. Iter(g, f, S)
    BY <1>5, <1>8
  <1>10. SumOf(f, S) = g[S] /\ SumOf(f, S) \in Nat
    BY <1>3, <1>9, SumIs
  <1> QED
    BY <1>1, <1>2, <1>3, <1>7, <1>10

(* Copies of different models fit where the models do. *)
LEMMA OneCopyEach ==
    ASSUME NEW R \in SUBSET Copies, \A c, d \in R : c[1] = d[1] => c = d,
           NEW M \in SUBSET Models, \A c \in R : c[1] \in M, Total(M) <= Budget
    PROVE  MapThenSumSet(LAMBDA c : Weight[c[1]], R) <= Budget
  <1> DEFINE N == {m \in M : \E c \in R : c[1] = m}
             Of(m) == CHOOSE c \in R : c[1] = m
  <1>1. ASSUME NEW m \in N PROVE Of(m) \in R /\ Of(m)[1] = m
    OBVIOUS
  <1>2. ASSUME NEW c \in R PROVE c[1] \in N /\ Of(c[1]) = c
    BY <1>1
  <1> HIDE DEF Of
  <1>3. PICK p : p = [m \in Models |-> IF m \in N THEN Of(m) ELSE <<m, 1>>]
    OBVIOUS
  <1>4. p \in [Models -> Copies] /\ \A m \in Models : p[m][1] = m
    BY <1>1, <1>3 DEF Copies
  <1>5. R = {p[m] : m \in N}
    <2>1. \A m \in N : m \in Models /\ p[m] = Of(m)
      BY <1>3
    <2>2. \A m \in N : p[m] \in R
      BY <1>1, <2>1
    <2>3. \A c \in R : c[1] \in N /\ p[c[1]] = c
      BY <1>2, <2>1
    <2> HIDE DEF N
    <2> QED
      BY <2>2, <2>3
  <1>6. \A c \in Copies : c[1] \in Models
    BY DEF Copies
  <1>7. IsFiniteSet(N) /\ N \in SUBSET Models /\ IsFiniteSet(M)
    BY FS_Subset
  <1>8. IsFiniteSet(R)
    <2>1. IsFiniteSet(1..MaxCopies)
      BY FS_Interval
    <2>2. IsFiniteSet(Copies)
      BY <2>1, FS_Product DEF Copies
    <2> QED
      BY <2>2, FS_Subset
  <1>9. PICK h : h = Weighed(Copies)
    OBVIOUS
  <1>10. /\ h \in [Copies -> Nat] /\ SumOf(h, R) \in Nat
         /\ MapThenSumSet(LAMBDA c : Weight[c[1]], R) = SumOf(h, R)
    BY <1>6, <1>8, <1>9, WeighedIs
  <1>11. \A m \in N : h[p[m]] = Weight[m]
    BY <1>4, <1>9 DEF Weighed
  <1>12. SumOf(h, {p[m] : m \in N}) <= SumOf(Weight, N)
    BY <1>4, <1>7, <1>10, <1>11, SumImage
  <1>13. SumOf(Weight, N) <= SumOf(Weight, M)
    BY <1>7, SumSub
  <1>14. SumOf(Weight, N) \in Nat /\ SumOf(Weight, M) \in Nat /\ Total(M) = SumOf(Weight, M)
    BY <1>7, TotalIs
  <1>15. SumOf(h, R) <= SumOf(Weight, N)
    BY <1>5, <1>12
  <1>16. SumOf(h, R) <= Budget
    BY <1>10, <1>13, <1>14, <1>15
  <1> QED
    BY <1>10, <1>16

(* Totals of unions, parts and single models. *)
LEMMA TotalFacts ==
    ASSUME NEW S \in SUBSET Models, NEW T \in SUBSET Models, NEW m \in Models
    PROVE  /\ Total(S) \in Nat /\ Total(T) \in Nat /\ Total(S \cup T) \in Nat
           /\ Total(S \cup T) <= Total(S) + Total(T)
           /\ S \subseteq T => Total(S) <= Total(T)
           /\ Total({m}) = Weight[m] /\ Weight[m] \in Nat
  <1>1. IsFiniteSet(S) /\ IsFiniteSet(T) /\ IsFiniteSet({m}) /\ IsFiniteSet({})
    BY FS_Subset, FS_Singleton, FS_EmptySet
  <1>2. /\ Total(S) = SumOf(Weight, S) /\ Total(S) \in Nat
        /\ Total(T) = SumOf(Weight, T) /\ Total(T) \in Nat
        /\ Total(S \cup T) = SumOf(Weight, S \cup T) /\ Total(S \cup T) \in Nat
        /\ Total({m}) = SumOf(Weight, {m})
    BY TotalIs
  <1>3. SumOf(Weight, S \cup T) <= SumOf(Weight, S) + SumOf(Weight, T)
    BY <1>1, SumUnion
  <1>4. S \subseteq T => SumOf(Weight, S) <= SumOf(Weight, T)
    BY <1>1, SumSub
  <1>5. SumOf(Weight, {m}) = Weight[m]
    <2>0. PICK s \in SUBSET Models : s = {m}
      OBVIOUS
    <2>1. SumOf(Weight, s) = Weight[m] + SumOf(Weight, s \ {m})
      <3>1. m \in s /\ IsFiniteSet(s)
        BY <1>1, <2>0
      <3> QED
        BY <3>1, SumFacts
    <2>2. SumOf(Weight, {}) = 0
      BY <1>1, SumFacts
    <2>3. {m} \ {m} = {}
      OBVIOUS
    <2> QED
      BY <2>0, <2>1, <2>2, <2>3
  <1> QED
    BY <1>2, <1>3, <1>4, <1>5

(* What plan_residency keeps fits next to what it must. *)
LEMMA KeptFits ==
    ASSUME NEW must \in Nat, NEW idle \in SUBSET (Models \X Places), NEW K \in Kept(must, idle)
    PROVE  /\ K \subseteq idle /\ Names(K) \in SUBSET Models
           /\ must + Total(Names(K)) <= Budget
  <1> DEFINE D == Models \X Places
  <1>1. K \in SUBSET D /\ K \subseteq idle /\ \A c \in D : c[1] \in Models
    BY DEF Kept
  <1>2. must + MapThenSumSet(LAMBDA c : Weight[c[1]], K) <= Budget
    BY DEF Kept
  <1>3. IsFiniteSet(Places)
    <2>1. IsFiniteSet({"warm"} \cup {"primary"})
      BY FS_Singleton, FS_AddElement
    <2>2. Places = {"warm"} \cup {"primary"}
      BY DEF Places
    <2> QED
      BY <2>1, <2>2
  <1>4. IsFiniteSet(K)
    BY <1>1, <1>3, FS_Product, FS_Subset
  <1>5. PICK f : f = Weighed(D)
    OBVIOUS
  <1>6. PICK p : p = [c \in D |-> c[1]]
    OBVIOUS
  <1>7. p \in [D -> Models] /\ Names(K) = {p[c] : c \in K}
    BY <1>1, <1>6 DEF Names
  <1>8. /\ f \in [D -> Nat] /\ SumOf(f, K) \in Nat
        /\ MapThenSumSet(LAMBDA c : Weight[c[1]], K) = SumOf(f, K)
    BY <1>1, <1>4, <1>5, WeighedIs
  <1>9. \A c \in K : Weight[p[c]] = f[c]
    BY <1>1, <1>5, <1>6 DEF Weighed
  <1>10. SumOf(Weight, {p[c] : c \in K}) <= SumOf(f, K)
    <2>1. Weight \in [Models -> Nat] /\ K \in SUBSET D
      BY <1>1
    <2> HIDE DEF D
    <2> QED
      BY ONLY <2>1, <1>4, <1>7, <1>8, <1>9, SumImage
  <1>11. Names(K) \in SUBSET Models
    BY <1>1 DEF Names
  <1>12. Total(Names(K)) = SumOf(Weight, Names(K)) /\ Total(Names(K)) \in Nat
    BY <1>11, TotalIs
  <1> HIDE DEF D
  <1> QED
    BY <1>1, <1>2, <1>7, <1>8, <1>10, <1>11, <1>12

-----------------------------------------------------------------------------
(* A plan and a build next to the warm set begin in these actions only. *)
LEMMA OnlyPlansBegin ==
    ASSUME TypeInv, [Next]_vars, NEW b \in Actors, pc'[b] \in Locked, pc'[b] # pc[b]
    PROVE  \/ b \in Requests /\ (WarmPlan(b) \/ WarmStart(b))
           \/ PlanSwap(b) \/ StartSwap(b)
  <1> DEFINE P == \/ b \in Requests /\ (WarmPlan(b) \/ WarmStart(b))
                  \/ PlanSwap(b) \/ StartSwap(b)
  <1> SUFFICES P
    OBVIOUS
  <1> USE DEF TypeInv, TypeOK, Locked, Goto, Actors
  <1>1. ASSUME NEW r \in Requests, Arrive(r) PROVE P
    BY <1>1 DEF Arrive
  <1>2. ASSUME NEW r \in Requests, Look(r) PROVE P
    BY <1>2 DEF Look, TakeHandle
  <1>3. ASSUME NEW r \in Requests, WarmRaced(r) PROVE P
    BY <1>3 DEF WarmRaced, TakeHandle
  <1>4. ASSUME NEW r \in Requests, WarmRefused(r) PROVE P
    BY <1>4 DEF WarmRefused
  <1>5. ASSUME NEW r \in Requests, WarmStart(r) PROVE P
    BY <1>5 DEF WarmStart
  <1>6. ASSUME NEW r \in Requests, WarmBuilt(r) PROVE P
    BY <1>6 DEF WarmBuilt
  <1>7. ASSUME NEW r \in Requests, WarmFails(r) PROVE P
    BY <1>7 DEF WarmFails
  <1>8. ASSUME NEW r \in Requests, WarmEnter(r) PROVE P
    BY <1>8 DEF WarmEnter
  <1>9. ASSUME NEW r \in Requests, Finish(r) PROVE P
    BY <1>9 DEF Finish, DropLease
  <1>10. ASSUME NEW r \in Requests, Unavailable(r) PROVE P
    BY <1>10 DEF Unavailable, DropLease
  <1>11. ASSUME NEW r \in Requests, TakeToken(r) PROVE P
    BY <1>11 DEF TakeToken
  <1>12. ASSUME NEW r \in Requests, CheckDrain(r) PROVE P
    BY <1>12 DEF CheckDrain
  <1>13. ASSUME NEW r \in Requests, Wake(r) PROVE P
    BY <1>13 DEF Wake
  <1>14. ASSUME NEW r \in Requests, Load(r) PROVE P
    BY <1>14 DEF Load
  <1>15. ASSUME NEW r \in Requests, LockReload(r) PROVE P
    BY <1>15 DEF LockReload
  <1>16. ASSUME NEW r \in Requests, Readmit(r) PROVE P
    BY <1>16 DEF Readmit
  <1>17. ASSUME NEW r \in Requests, ReadmitRefused(r) PROVE P
    BY <1>17 DEF ReadmitRefused
  <1>18. ASSUME NEW r \in Requests, Reloaded(r) PROVE P
    BY <1>18 DEF Reloaded
  <1>19. ASSUME NEW r \in Requests, ReloadFails(r) PROVE P
    BY <1>19 DEF ReloadFails
  <1>20. ASSUME NEW r \in Requests, GateRaced(r) PROVE P
    BY <1>20 DEF GateRaced
  <1>21. ASSUME NEW r \in Requests, GateSwitch(r) PROVE P
    BY <1>21 DEF GateSwitch, Begin
  <1>22. ASSUME NEW c \in Controls, NEW m \in Models,
             NEW what \in {"switch", "custom", "unload"}, Command(c, what, m)
      PROVE  P
    BY <1>22 DEF Command, Begin
  <1>23. ASSUME NEW a \in Actors, Drained(a) PROVE P
    BY <1>23 DEF Drained
  <1>24. ASSUME NEW a \in Actors, DrainTimeout(a) PROVE P
    BY <1>24 DEF DrainTimeout, Leave
  <1>25. ASSUME NEW a \in Actors, EndDrain(a) PROVE P
    BY <1>25 DEF EndDrain, Leave
  <1>26. ASSUME NEW a \in Actors, TakeBackend(a) PROVE P
    BY <1>26 DEF TakeBackend
  <1>27. ASSUME NEW a \in Actors, DropTaken(a) PROVE P
    BY <1>27 DEF DropTaken
  <1>28. ASSUME NEW a \in Actors, PublishOp(a) PROVE P
    BY <1>28 DEF PublishOp
  <1>29. ASSUME NEW a \in Actors, Promote(a) PROVE P
    BY <1>29 DEF Promote
  <1>30. ASSUME NEW a \in Actors, PlanSwap(a) PROVE P
    BY <1>30 DEF PlanSwap
  <1>31. ASSUME NEW a \in Actors, SwapBuilt(a) PROVE P
    BY <1>31 DEF SwapBuilt
  <1>32. ASSUME NEW a \in Actors, SwapFails(a) PROVE P
    BY <1>32 DEF SwapFails
  <1>33. ASSUME NEW a \in Actors, EvictAll(a) PROVE P
    BY <1>33 DEF EvictAll
  <1>34. ASSUME NEW a \in Actors, Destroy(a) PROVE P
    BY <1>34 DEF Destroy
  <1>35. ASSUME NEW a \in Actors, DestroyBuilt(a) PROVE P
    BY <1>35 DEF DestroyBuilt
  <1>36. ASSUME NEW a \in Actors, DestroyFails(a) PROVE P
    BY <1>36 DEF DestroyFails
  <1>37. ASSUME NEW a \in Actors, Hangup(a) PROVE P
    BY <1>37 DEF Hangup
  <1>38. ASSUME NEW c \in Copies, Dropped(c) \/ Retire(c) PROVE P
    BY <1>38 DEF Dropped, Retire
  <1>41. ASSUME NEW r \in Requests, WarmPlan(r) PROVE P
    BY <1>41 DEF WarmPlan
  <1>42. ASSUME NEW a \in Actors, StartSwap(a) PROVE P
    BY <1>42 DEF StartSwap
  <1>39. CASE Sweep
    BY <1>39 DEF Sweep
  <1>40. CASE UNCHANGED vars
    BY <1>40 DEF vars
  <1> HIDE DEF P, TypeInv, TypeOK, Locked, Goto, Actors
  <1> QED
    BY <1>1, <1>2, <1>3, <1>4, <1>5, <1>6, <1>7, <1>8, <1>9, <1>10, <1>11,
       <1>12, <1>13, <1>14, <1>15, <1>16, <1>17, <1>18, <1>19, <1>20,
       <1>21, <1>22, <1>23, <1>24, <1>25, <1>26, <1>27, <1>28, <1>29,
       <1>30, <1>31, <1>32, <1>33, <1>34, <1>35, <1>36, <1>37, <1>38,
       <1>39, <1>40, <1>41, <1>42, SwitchboardAssumption
       DEF Next, RequestStep, WarmPath, PrimaryPath, OpStep, SwitchboardAssumption

(* What is planned, and what for, stays as it is up to the eviction: the   *)
(* warm map is locked.                                                     *)
LEMMA PlanStays ==
    ASSUME TypeInv, WarmInv, [Next]_vars, NEW b \in Actors,
           pc[b] \in {"warm_plan", "sw_plan"}, pc'[b] = pc[b]
    PROVE  /\ warm' = warm /\ plan'[b] = plan[b] /\ was'[b] = was[b]
           /\ target'[b] = target[b] /\ op'[b] = op[b]
  <1> DEFINE P == /\ warm' = warm /\ plan'[b] = plan[b] /\ was'[b] = was[b]
                  /\ target'[b] = target[b] /\ op'[b] = op[b]
  <1> SUFFICES P
    OBVIOUS
  <1> USE DEF TypeInv, TypeOK, WarmInv, Building, Locked, Goto, Actors, lockVars, opVars
  <1>0. /\ b \in lock /\ lock # {}
        /\ \A a \in Actors : pc[a] \in Locked => a = b
    <2>1. lock = {b}
      OBVIOUS
    <2>2. ASSUME NEW a \in Actors, lock = {a} PROVE a = b
      BY <2>1, <2>2, a \in {b}
    <2> QED
      BY <2>1, <2>2
  <1>1. ASSUME NEW r \in Requests, Arrive(r) PROVE P
    BY <1>1, <1>0 DEF Arrive
  <1>2. ASSUME NEW r \in Requests, Look(r) PROVE P
    BY <1>2, <1>0 DEF Look, TakeHandle
  <1>3. ASSUME NEW r \in Requests, WarmRaced(r) PROVE P
    BY <1>3, <1>0 DEF WarmRaced, TakeHandle
  <1>4. ASSUME NEW r \in Requests, WarmRefused(r) PROVE P
    BY <1>4, <1>0 DEF WarmRefused
  <1>5. ASSUME NEW r \in Requests, WarmStart(r) PROVE P
    BY <1>5, <1>0 DEF WarmStart
  <1>6. ASSUME NEW r \in Requests, WarmBuilt(r) PROVE P
    BY <1>6, <1>0 DEF WarmBuilt
  <1>7. ASSUME NEW r \in Requests, WarmFails(r) PROVE P
    BY <1>7, <1>0 DEF WarmFails
  <1>8. ASSUME NEW r \in Requests, WarmEnter(r) PROVE P
    BY <1>8, <1>0 DEF WarmEnter
  <1>9. ASSUME NEW r \in Requests, Finish(r) PROVE P
    BY <1>9, <1>0 DEF Finish, DropLease
  <1>10. ASSUME NEW r \in Requests, Unavailable(r) PROVE P
    BY <1>10, <1>0 DEF Unavailable, DropLease
  <1>11. ASSUME NEW r \in Requests, TakeToken(r) PROVE P
    BY <1>11, <1>0 DEF TakeToken
  <1>12. ASSUME NEW r \in Requests, CheckDrain(r) PROVE P
    BY <1>12, <1>0 DEF CheckDrain
  <1>13. ASSUME NEW r \in Requests, Wake(r) PROVE P
    BY <1>13, <1>0 DEF Wake
  <1>14. ASSUME NEW r \in Requests, Load(r) PROVE P
    BY <1>14, <1>0 DEF Load
  <1>15. ASSUME NEW r \in Requests, LockReload(r) PROVE P
    BY <1>15, <1>0 DEF LockReload
  <1>16. ASSUME NEW r \in Requests, Readmit(r) PROVE P
    BY <1>16, <1>0 DEF Readmit
  <1>17. ASSUME NEW r \in Requests, ReadmitRefused(r) PROVE P
    BY <1>17, <1>0 DEF ReadmitRefused
  <1>18. ASSUME NEW r \in Requests, Reloaded(r) PROVE P
    BY <1>18, <1>0 DEF Reloaded
  <1>19. ASSUME NEW r \in Requests, ReloadFails(r) PROVE P
    BY <1>19, <1>0 DEF ReloadFails
  <1>20. ASSUME NEW r \in Requests, GateRaced(r) PROVE P
    BY <1>20, <1>0 DEF GateRaced
  <1>21. ASSUME NEW r \in Requests, GateSwitch(r) PROVE P
    BY <1>21, <1>0 DEF GateSwitch, Begin
  <1>22. ASSUME NEW c \in Controls, NEW m \in Models,
             NEW what \in {"switch", "custom", "unload"}, Command(c, what, m)
      PROVE  P
    BY <1>22, <1>0 DEF Command, Begin
  <1>23. ASSUME NEW a \in Actors, Drained(a) PROVE P
    BY <1>23, <1>0 DEF Drained
  <1>24. ASSUME NEW a \in Actors, DrainTimeout(a) PROVE P
    BY <1>24, <1>0 DEF DrainTimeout, Leave
  <1>25. ASSUME NEW a \in Actors, EndDrain(a) PROVE P
    BY <1>25, <1>0 DEF EndDrain, Leave
  <1>26. ASSUME NEW a \in Actors, TakeBackend(a) PROVE P
    BY <1>26, <1>0 DEF TakeBackend
  <1>27. ASSUME NEW a \in Actors, DropTaken(a) PROVE P
    BY <1>27, <1>0 DEF DropTaken
  <1>28. ASSUME NEW a \in Actors, PublishOp(a) PROVE P
    BY <1>28, <1>0 DEF PublishOp
  <1>29. ASSUME NEW a \in Actors, Promote(a) PROVE P
    BY <1>29, <1>0 DEF Promote
  <1>30. ASSUME NEW a \in Actors, PlanSwap(a) PROVE P
    BY <1>30, <1>0 DEF PlanSwap
  <1>31. ASSUME NEW a \in Actors, SwapBuilt(a) PROVE P
    BY <1>31, <1>0 DEF SwapBuilt
  <1>32. ASSUME NEW a \in Actors, SwapFails(a) PROVE P
    BY <1>32, <1>0 DEF SwapFails
  <1>33. ASSUME NEW a \in Actors, EvictAll(a) PROVE P
    BY <1>33, <1>0 DEF EvictAll
  <1>34. ASSUME NEW a \in Actors, Destroy(a) PROVE P
    BY <1>34, <1>0 DEF Destroy
  <1>35. ASSUME NEW a \in Actors, DestroyBuilt(a) PROVE P
    BY <1>35, <1>0 DEF DestroyBuilt
  <1>36. ASSUME NEW a \in Actors, DestroyFails(a) PROVE P
    BY <1>36, <1>0 DEF DestroyFails
  <1>37. ASSUME NEW a \in Actors, Hangup(a) PROVE P
    BY <1>37, <1>0 DEF Hangup
  <1>38. ASSUME NEW c \in Copies, Dropped(c) \/ Retire(c) PROVE P
    BY <1>38, <1>0 DEF Dropped, Retire
  <1>41. ASSUME NEW r \in Requests, WarmPlan(r) PROVE P
    BY <1>41, <1>0 DEF WarmPlan
  <1>42. ASSUME NEW a \in Actors, StartSwap(a) PROVE P
    BY <1>42, <1>0 DEF StartSwap
  <1>39. CASE Sweep
    BY <1>39, <1>0 DEF Sweep
  <1>40. CASE UNCHANGED vars
    BY <1>40, <1>0 DEF vars
  <1> HIDE DEF P, TypeInv, TypeOK, WarmInv, Building, Locked, Goto, Actors, lockVars, opVars
  <1> QED
    BY <1>1, <1>2, <1>3, <1>4, <1>5, <1>6, <1>7, <1>8, <1>9, <1>10, <1>11,
       <1>12, <1>13, <1>14, <1>15, <1>16, <1>17, <1>18, <1>19, <1>20,
       <1>21, <1>22, <1>23, <1>24, <1>25, <1>26, <1>27, <1>28, <1>29,
       <1>30, <1>31, <1>32, <1>33, <1>34, <1>35, <1>36, <1>37, <1>38,
       <1>39, <1>40, <1>41, <1>42, SwitchboardAssumption
       DEF Next, RequestStep, WarmPath, PrimaryPath, OpStep, SwitchboardAssumption

(* The warm models a plan leaves alone. *)
Others(a) == WarmModels(warm) \ plan[a]

(* What a plan leaves alone fits next to what is to be built. *)
WarmPlanned ==
    \A r \in Requests :
        pc[r] = "warm_plan" /\ was[r] # Ask[r] /\ warm[was[r]] = NoCopy
          => Total({was[r], Ask[r]} \cup Others(r)) <= Budget

KeptPrimary(a) == IF op[a] = "kept" THEN {was[a]} ELSE {}

SwapPlanned ==
    \A a \in Actors :
        pc[a] = "sw_plan" /\ was[a] # target[a] /\ warm[was[a]] = NoCopy
          => \/ Total({target[a]} \cup KeptPrimary(a) \cup Others(a)) <= Budget
             \/ Weight[target[a]] > Budget

SwapShape ==
    \A a \in Actors :
        pc[a] = "sw_plan" => op[a] \in {"kept", "dropped"} /\ warm[target[a]] = NoCopy

PlanInv == WarmPlanned /\ SwapPlanned /\ SwapShape

(* The busy warm models. *)
BusyWarm == {m \in WarmModels(warm) : Busy(m)}

(* ensure_warm plans what fits. *)
LEMMA WarmPlanFits ==
    ASSUME TypeInv, NEW r \in Requests, WarmPlan(r), spec # Ask[r], warm[spec] = NoCopy
    PROVE  Total({spec, Ask[r]} \cup Others(r)') <= Budget
  <1> DEFINE idle == AsWarm(IdleWarm)
  <1>1. Ask[r] \in Models /\ spec \in Models /\ warm' = warm
    BY DEF WarmPlan, TypeInv, TypeOK, Asking, Actors
  <1>2. PICK K \in Kept(Mandatory(r), idle) :
          plan' = [plan EXCEPT ![r] = Names(idle \ K) \ {spec}]
    BY DEF WarmPlan
  <1>3. Others(r)' = WarmModels(warm) \ (Names(idle \ K) \ {spec})
    BY <1>1, <1>2 DEF Others, TypeInv, TypeOK, Actors
  <1>4. BusyWarm \in SUBSET Models /\ IdleWarm \in SUBSET Models
    BY DEF BusyWarm, IdleWarm, WarmModels
  <1>5. Mandatory(r) = (Weight[spec] + Total(BusyWarm)) + Weight[Ask[r]]
    BY DEF Mandatory, BusyWarm
  <1>6. /\ Total(BusyWarm) \in Nat /\ Weight[spec] \in Nat /\ Weight[Ask[r]] \in Nat
        /\ Total({spec}) = Weight[spec] /\ Total({Ask[r]}) = Weight[Ask[r]]
    BY <1>1, <1>4, TotalFacts
  <1>7. Mandatory(r) \in Nat
    BY <1>5, <1>6
  <1>8. idle \in SUBSET (Models \X Places)
    BY <1>4 DEF AsWarm, Places
  <1>9. Names(K) \in SUBSET Models /\ Mandatory(r) + Total(Names(K)) <= Budget
    BY <1>7, <1>8, KeptFits
  <1> DEFINE S == {spec} \cup BusyWarm
             T == {Ask[r]} \cup Names(K)
  <1>10. S \in SUBSET Models /\ T \in SUBSET Models
    BY <1>1, <1>4, <1>9
  <1>11. ASSUME NEW m \in Others(r)' PROVE m \in BusyWarm \cup Names(K)
    <2>1. m \in Models /\ warm[m] # NoCopy /\ m \notin Names(idle \ K) \ {spec} /\ m # spec
      BY <1>3 DEF WarmModels
    <2>2. CASE Busy(m)
      BY <2>1, <2>2 DEF BusyWarm, WarmModels
    <2>3. CASE ~Busy(m)
      <3>1. m \in IdleWarm
        BY <2>1, <2>3 DEF IdleWarm, WarmModels
      <3>2. <<m, "warm">> \in idle
        BY <3>1 DEF AsWarm
      <3>3. <<m, "warm">> \notin idle \ K
        BY <2>1 DEF Names
      <3>4. <<m, "warm">> \in K
        BY <3>2, <3>3
      <3> QED
        BY <3>4 DEF Names
    <2> QED
      BY <2>2, <2>3
  <1>12. /\ Total(S \cup T) \in Nat /\ Total(S) \in Nat /\ Total(T) \in Nat
         /\ Total(S \cup T) <= Total(S) + Total(T)
    BY <1>10, <1>1, TotalFacts
  <1>13. Total(S) <= Weight[spec] + Total(BusyWarm)
    BY <1>1, <1>4, <1>6, TotalFacts
  <1>14. Total(T) <= Weight[Ask[r]] + Total(Names(K)) /\ Total(Names(K)) \in Nat
    BY <1>1, <1>6, <1>9, TotalFacts
  <1>15. {spec, Ask[r]} \cup Others(r)' \subseteq S \cup T
    BY <1>11
  <1> HIDE DEF S, T
  <1>16. Total(S \cup T) <= Budget
    BY <1>5, <1>6, <1>9, <1>12, <1>13, <1>14
  <1>17. PICK U \in SUBSET Models, V \in SUBSET Models :
           U = {spec, Ask[r]} \cup Others(r)' /\ V = S \cup T
    BY <1>10, <1>15
  <1>18. Total(U) \in Nat /\ Total(U) <= Total(V)
    BY <1>1, <1>15, <1>17, TotalFacts
  <1>19. Total(V) \in Nat /\ Total(V) <= Budget
    BY <1>12, <1>16, <1>17
  <1>20. Total(U) <= Budget
    BY <1>18, <1>19
  <1> QED
    BY <1>17, <1>20

(* switch_cached plans what fits, but for a target that is too big alone. *)
LEMMA PlanSwapFits ==
    ASSUME TypeInv, NEW a \in Actors, PlanSwap(a), warm[was[a]] = NoCopy,
           was[a] # target[a]
    PROVE  \/ Total({target[a]} \cup KeptPrimary(a)' \cup Others(a)') <= Budget
           \/ Weight[target[a]] > Budget
  <1> DEFINE t == target[a]
             must == Total(BusyWarm) + Weight[t]
             idle == AsWarm(IdleWarm) \cup {<<was[a], "primary">>}
  <1>1. /\ t \in Models /\ was[a] \in Models /\ warm' = warm /\ was' = was
    BY DEF PlanSwap, TypeInv, TypeOK, Actors
  <1>2. BusyWarm \in SUBSET Models /\ IdleWarm \in SUBSET Models /\ was[a] \notin IdleWarm
    BY DEF BusyWarm, IdleWarm, WarmModels
  <1>3. /\ Total(BusyWarm) \in Nat /\ Weight[t] \in Nat /\ Total({t}) = Weight[t]
    BY <1>1, <1>2, TotalFacts
  <1>4. must \in Nat
    BY <1>3
  <1>5. CASE must > Budget
    <2>1. PICK K \in {{}} :
            /\ plan' = [plan EXCEPT ![a] = WarmModels(warm)]
            /\ op' = [op EXCEPT ![a] = IF was[a] \in Names(idle \ K) THEN "dropped"
                                       ELSE "kept"]
      BY <1>5 DEF PlanSwap, BusyWarm
    <2>2. was[a] \in Names(idle \ K)
      <3>1. <<was[a], "primary">> \in idle \ K
        BY <2>1
      <3>2. <<was[a], "primary">>[1] = was[a]
        OBVIOUS
      <3> QED
        BY <3>1, <3>2 DEF Names
    <2>3. plan'[a] = WarmModels(warm) /\ op'[a] = "dropped"
      BY <2>1, <2>2 DEF TypeInv, TypeOK, Actors
    <2>4. {t} \cup KeptPrimary(a)' \cup Others(a)' = {t}
      BY <1>1, <2>3 DEF KeptPrimary, Others
    <2>5. Total({t} \cup KeptPrimary(a)' \cup Others(a)') = Weight[t]
      BY <1>3, <2>4
    <2> QED
      BY <1>3, <2>5
  <1>6. CASE ~(must > Budget)
    <2>1. PICK K \in Kept(must, idle) :
            /\ plan' = [plan EXCEPT ![a] = Names(idle \ K) \ {was[a]}]
            /\ op' = [op EXCEPT ![a] = IF was[a] \in Names(idle \ K) THEN "dropped"
                                       ELSE "kept"]
      BY <1>6 DEF PlanSwap, BusyWarm
    <2>2. /\ plan'[a] = Names(idle \ K) \ {was[a]}
          /\ op'[a] = "kept" => was[a] \notin Names(idle \ K)
      BY <2>1 DEF TypeInv, TypeOK, Actors
    <2>3. idle \in SUBSET (Models \X Places)
      BY <1>1, <1>2 DEF AsWarm, Places
    <2>4. Names(K) \in SUBSET Models /\ must + Total(Names(K)) <= Budget
      BY <1>4, <2>3, KeptFits
    <2> DEFINE S == {t} \cup BusyWarm
    <2>5. S \in SUBSET Models
      BY <1>1, <1>2
    <2>6. /\ Total(S \cup Names(K)) \in Nat /\ Total(S) \in Nat /\ Total(Names(K)) \in Nat
          /\ Total(S \cup Names(K)) <= Total(S) + Total(Names(K))
      BY <2>4, <2>5, <1>1, TotalFacts
    <2>7. Total(S) <= Weight[t] + Total(BusyWarm)
      BY <1>1, <1>2, <1>3, TotalFacts
    <2>8. Total(S \cup Names(K)) <= Budget
      <3> HIDE DEF S, t
      <3> QED
        BY <1>3, <2>4, <2>6, <2>7
    <2>9. ASSUME NEW m \in Others(a)' PROVE m \in BusyWarm \cup Names(K)
      <3>1. m \in Models /\ warm[m] # NoCopy /\ m # was[a] /\ m \notin Names(idle \ K)
        BY <1>1, <2>2 DEF Others, WarmModels
      <3>2. CASE Busy(m)
        BY <3>1, <3>2 DEF BusyWarm, WarmModels
      <3>3. CASE ~Busy(m)
        <4>1. m \in IdleWarm
          BY <3>1, <3>3 DEF IdleWarm, WarmModels
        <4>2. <<m, "warm">> \in idle
          BY <4>1 DEF AsWarm
        <4>3. <<m, "warm">> \notin idle \ K
          BY <3>1 DEF Names
        <4>4. <<m, "warm">> \in K
          BY <4>2, <4>3
        <4> QED
          BY <4>4 DEF Names
      <3> QED
        BY <3>2, <3>3
    <2>10. ASSUME op'[a] = "kept" PROVE was[a] \in Names(K)
      <3>1. <<was[a], "primary">> \in K
        BY <2>2, <2>10 DEF Names
      <3> QED
        BY <3>1 DEF Names
    <2>11. {t} \cup KeptPrimary(a)' \cup Others(a)' \subseteq S \cup Names(K)
      BY <1>1, <2>9, <2>10 DEF KeptPrimary
    <2> HIDE DEF S
    <2>12. PICK U \in SUBSET Models, V \in SUBSET Models :
             U = {t} \cup KeptPrimary(a)' \cup Others(a)' /\ V = S \cup Names(K)
      BY <2>4, <2>5, <2>11
    <2>13. Total(U) \in Nat /\ Total(U) <= Total(V)
      BY <1>1, <2>11, <2>12, TotalFacts
    <2>14. Total(V) \in Nat /\ Total(V) <= Budget
      BY <2>6, <2>8, <2>12
    <2>15. Total(U) <= Budget
      BY <2>13, <2>14
    <2> QED
      BY <2>12, <2>15
  <1> QED
    BY <1>5, <1>6

(* Nothing is planned at the start. *)
LEMMA PlanInit == Init => PlanInv
  BY DEF Init, PlanInv, WarmPlanned, SwapPlanned, SwapShape, Actors

(* Every step keeps the plans. *)
LEMMA PlanStep ==
    ASSUME TypeInv, WarmInv, PlanInv, [Next]_vars
    PROVE  PlanInv'
  <1>0. TypeInv'
    BY TypeStep
  <1>1. ASSUME NEW r \in Requests, pc'[r] = "warm_plan", was'[r] # Ask[r],
               warm'[was'[r]] = NoCopy
        PROVE  Total({was'[r], Ask[r]} \cup Others(r)') <= Budget
    <2>1. r \in Actors
      BY DEF Actors
    <2>2. CASE pc[r] = "warm_plan"
      <3>1. warm' = warm /\ plan'[r] = plan[r] /\ was'[r] = was[r]
        BY <1>1, <2>1, <2>2, PlanStays
      <3>2. Total({was[r], Ask[r]} \cup Others(r)) <= Budget
        BY <1>1, <2>2, <3>1 DEF PlanInv, WarmPlanned
      <3>3. Others(r)' = Others(r)
        BY <3>1 DEF Others
      <3> QED
        BY <3>1, <3>2, <3>3
    <2>3. CASE pc[r] # "warm_plan"
      <3>1. WarmPlan(r)
        BY <1>1, <2>1, <2>3, OnlyPlansBegin
           DEF Locked, WarmStart, PlanSwap, StartSwap, Goto, TypeInv, TypeOK
      <3>2. was'[r] = spec /\ warm' = warm
        BY <2>1, <3>1 DEF WarmPlan, TypeInv, TypeOK
      <3> QED
        BY <1>1, <3>1, <3>2, WarmPlanFits
    <2> QED
      BY <2>2, <2>3
  <1>2. ASSUME NEW a \in Actors, pc'[a] = "sw_plan"
        PROVE  /\ op'[a] \in {"kept", "dropped"} /\ warm'[target'[a]] = NoCopy
               /\ was'[a] # target'[a] /\ warm'[was'[a]] = NoCopy
                    => \/ Total({target'[a]} \cup KeptPrimary(a)' \cup Others(a)') <= Budget
                       \/ Weight[target'[a]] > Budget
    <2>1. CASE pc[a] = "sw_plan"
      <3>1. /\ warm' = warm /\ plan'[a] = plan[a] /\ was'[a] = was[a]
            /\ target'[a] = target[a] /\ op'[a] = op[a]
        BY <1>2, <2>1, PlanStays
      <3>2. Others(a)' = Others(a) /\ KeptPrimary(a)' = KeptPrimary(a)
        BY <3>1 DEF Others, KeptPrimary
      <3> QED
        BY <2>1, <3>1, <3>2 DEF PlanInv, SwapPlanned, SwapShape
    <2>2. CASE pc[a] # "sw_plan"
      <3>1. PlanSwap(a)
        BY <1>2, <2>2, OnlyPlansBegin
           DEF Locked, WarmStart, WarmPlan, StartSwap, Goto, TypeInv, TypeOK
      <3>2. /\ was' = was /\ warm' = warm /\ target' = target /\ warm[target[a]] = NoCopy
            /\ op'[a] \in {"kept", "dropped"}
        <4>1. PICK z \in {"kept", "dropped"} : op' = [op EXCEPT ![a] = z]
          BY ONLY <3>1 DEF PlanSwap
        <4> QED
          BY <3>1, <4>1 DEF PlanSwap, TypeInv, TypeOK
      <3> QED
        BY <3>1, <3>2, PlanSwapFits
    <2> QED
      BY <2>1, <2>2
  <1> QED
    BY <1>1, <1>2 DEF PlanInv, WarmPlanned, SwapPlanned, SwapShape

(* The cell, the copy that is built and the warm set are copies of         *)
(* different models.                                                       *)
LEMMA ResidentsFit ==
    ASSUME NEW c \in SomeCopy, NEW h \in Copies, NEW w \in [Models -> SomeCopy],
           NEW s \in Models, c # NoCopy => c[1] = s, w[s] = NoCopy,
           \A m \in Models : w[m] # NoCopy => w[m][1] = m,
           h[1] # s, w[h[1]] = NoCopy,
           NEW M \in SUBSET Models, h[1] \in M, c # NoCopy => s \in M,
           WarmModels(w) \subseteq M, Total(M) <= Budget
    PROVE  MapThenSumSet(LAMBDA d : Weight[d[1]],
             ({c, h} \cup {w[m] : m \in Models}) \ {NoCopy}) <= Budget
  <1>1. PICK R : R = ({c, h} \cup {w[m] : m \in Models}) \ {NoCopy}
    OBVIOUS
  <1>2. \A d \in R : d = c \/ d = h \/ \E m \in Models : d = w[m] /\ d # NoCopy
    BY <1>1
  <1>3. \A m \in Models : w[m] # NoCopy => m \in M /\ w[m] \in Copies
    BY CopyFacts DEF WarmModels
  <1>4. c # NoCopy => c \in Copies
    BY CopyFacts
  <1>5. R \in SUBSET Copies
    BY <1>1, <1>3, <1>4
  <1>6. \A d \in R : d[1] \in M
    BY <1>1, <1>2, <1>3
  <1>7. ASSUME NEW d \in R, NEW e \in R, d[1] = e[1] PROVE d = e
    BY <1>1, <1>2, <1>7
  <1>8. MapThenSumSet(LAMBDA d : Weight[d[1]], R) <= Budget
    BY <1>5, <1>6, <1>7, OneCopyEach
  <1> QED
    BY <1>1, <1>8

(* The same, with the models of a plan left out. *)
LEMMA PlannedResidentsFit ==
    ASSUME NEW c \in SomeCopy, NEW h \in Copies, NEW u \in [Models -> SomeCopy],
           NEW L \in SUBSET Models, NEW s \in Models, c # NoCopy => c[1] = s, u[s] = NoCopy,
           \A m \in Models : u[m] # NoCopy => u[m][1] = m,
           h[1] # s, u[h[1]] = NoCopy,
           NEW M \in SUBSET Models, h[1] \in M, c # NoCopy => s \in M,
           WarmModels(u) \ L \subseteq M, Total(M) <= Budget
    PROVE  MapThenSumSet(LAMBDA d : Weight[d[1]],
             ({c, h} \cup {u[m] : m \in Models \ L}) \ {NoCopy}) <= Budget
  <1>1. PICK w : w = [m \in Models |-> IF m \in L THEN NoCopy ELSE u[m]]
    OBVIOUS
  <1>2. w \in [Models -> SomeCopy]
    BY <1>1, CopyFacts
  <1>3. /\ w[s] = NoCopy /\ \A m \in Models : w[m] # NoCopy => w[m][1] = m
        /\ WarmModels(w) \subseteq M /\ h[1] \in Models /\ w[h[1]] = NoCopy
    BY <1>1 DEF WarmModels
  <1>4. ({c, h} \cup {w[m] : m \in Models}) \ {NoCopy}
          = ({c, h} \cup {u[m] : m \in Models \ L}) \ {NoCopy}
    <2>1. \A m \in Models : w[m] = IF m \in L THEN NoCopy ELSE u[m]
      BY <1>1
    <2> QED
      BY <2>1
  <1>5. MapThenSumSet(LAMBDA d : Weight[d[1]],
          ({c, h} \cup {w[m] : m \in Models}) \ {NoCopy}) <= Budget
    <2>1. PICK v \in [Models -> SomeCopy] : v = w
      BY <1>2
    <2>2. MapThenSumSet(LAMBDA d : Weight[d[1]],
            ({c, h} \cup {v[m] : m \in Models}) \ {NoCopy}) <= Budget
      <3>1. /\ v[s] = NoCopy /\ \A m \in Models : v[m] # NoCopy => v[m][1] = m
            /\ WarmModels(v) \subseteq M /\ v[h[1]] = NoCopy
        BY <1>3, <2>1
      <3>2. /\ c # NoCopy => c[1] = s
            /\ h[1] # s /\ h[1] \in M /\ (c # NoCopy => s \in M) /\ Total(M) <= Budget
        OBVIOUS
      <3> QED
        BY ONLY <3>1, <3>2, ResidentsFit, c \in SomeCopy, h \in Copies,
             v \in [Models -> SomeCopy], s \in Models, M \in SUBSET Models
    <2> QED
      BY <2>1, <2>2
  <1> QED
    BY <1>4, <1>5

(* An eviction leaves a planned victim only if it is busy, and the others  *)
(* as they are.                                                            *)
LEMMA EvictionSpares ==
    ASSUME TypeInv, WarmOfModel, NEW a \in Actors, EvictPlanned(a), lease' = lease,
           \A r \in Requests : pc[r] = "warm" => pc'[r] = "warm"
    PROVE  /\ plan[a] \cap IdleWarm' = {}
           /\ warm' \in [Models -> SomeCopy]
           /\ \A m \in Models : warm'[m] = warm[m] \/ warm'[m] = NoCopy
           /\ \A m \in Models \ plan[a] : warm'[m] = warm[m]
  <1> DEFINE E == plan[a] \cap IdleWarm
  <1>1. warm' = Evict(warm, E) /\ attached' = attached \ Handles(E)
    BY DEF EvictPlanned
  <1>2. \A m \in Models : warm'[m] = IF m \in E THEN NoCopy ELSE warm[m]
    BY <1>1 DEF Evict
  <1>3. warm' \in [Models -> SomeCopy]
    BY <1>1, EvictType DEF TypeInv, TypeOK
  <1>4. ASSUME NEW m \in plan[a], m \in IdleWarm' PROVE FALSE
    <2>1. m \in Models /\ warm'[m] # NoCopy /\ ~Busy(m)'
      BY <1>4 DEF IdleWarm, WarmModels
    <2>2. m \notin E /\ warm'[m] = warm[m] /\ warm[m] # NoCopy
      BY <1>2, <2>1
    <2>3. PICK r \in attached : pc[r] = "warm" /\ lease[r] = warm[m]
      BY <1>4, <2>1, <2>2 DEF IdleWarm, WarmModels, Busy
    <2>4. r \notin Handles(E)
      <3> SUFFICES ASSUME NEW n \in E, lease[r] = warm[n] PROVE FALSE
        BY DEF Handles
      <3>1. n \in Models /\ warm[n] = warm[m] /\ warm[n][1] = n /\ warm[m][1] = m
        BY <2>1, <2>2, <2>3 DEF WarmOfModel, IdleWarm, WarmModels
      <3> QED
        BY <2>2, <3>1
    <2>5. r \in attached' /\ pc'[r] = "warm" /\ lease'[r] = warm'[m]
      BY <1>1, <2>2, <2>3, <2>4 DEF TypeInv, TypeOK
    <2> QED
      BY <2>1, <2>5 DEF Busy
  <1> QED
    BY <1>2, <1>3, <1>4

(* A build that begins next to what its plan left alone. *)
Fits(a) ==
    MapThenSumSet(LAMBDA c : Weight[c[1]],
        ({cell', hand'[a]} \cup {warm'[m] : m \in Models \ plan[a]}) \ {NoCopy}) <= Budget

(* What ensure_warm starts to build fits. *)
LEMMA WarmStartFits ==
    ASSUME TypeInv, CellInv, WarmInv, PlanInv, NEW r \in Requests, WarmStart(r),
           hand'[r][1] # spec, warm[spec] = NoCopy, was[r] = spec
    PROVE  plan[r] \cap IdleWarm' = {} /\ Fits(r)
  <1>1. /\ r \in Actors /\ Ask[r] \in Models /\ spec \in Models /\ warm[Ask[r]] = NoCopy
        /\ hand'[r] = Fresh(Ask[r]) /\ Room(Ask[r]) /\ cell' = cell /\ cell \in SomeCopy
        /\ pc[r] = "warm_plan" /\ lease' = lease /\ EvictPlanned(r)
        /\ plan[r] \in SUBSET Models /\ warm \in [Models -> SomeCopy]
    BY DEF WarmStart, TypeInv, TypeOK, Asking, Actors, WarmInv, Building
  <1>2. hand'[r] \in Copies /\ hand'[r][1] = Ask[r] /\ Ask[r] # spec
    BY <1>1, FreshCopy
  <1>3. \A q \in Requests : pc[q] = "warm" => pc'[q] = "warm"
    BY <1>1 DEF WarmStart, Goto, TypeInv, TypeOK, Actors
  <1>4. /\ plan[r] \cap IdleWarm' = {} /\ warm' \in [Models -> SomeCopy]
        /\ \A m \in Models : warm'[m] = warm[m] \/ warm'[m] = NoCopy
        /\ \A m \in Models \ plan[r] : warm'[m] = warm[m]
    BY <1>1, <1>3, EvictionSpares DEF CellInv
  <1>5. Total({spec, Ask[r]} \cup Others(r)) <= Budget
    BY <1>1, <1>2 DEF PlanInv, WarmPlanned
  <1>6. PICK c \in SomeCopy, h \in Copies, u \in [Models -> SomeCopy], L \in SUBSET Models,
             s \in Models, M \in SUBSET Models :
          /\ c = cell' /\ h = hand'[r] /\ u = warm' /\ L = plan[r] /\ s = spec
          /\ M = {spec, Ask[r]} \cup Others(r)
    BY <1>1, <1>2, <1>4 DEF Others, WarmModels
  <1>7. /\ c # NoCopy => c[1] = s
        /\ u[s] = NoCopy /\ u[h[1]] = NoCopy
        /\ \A m \in Models : u[m] # NoCopy => u[m][1] = m
    BY <1>1, <1>2, <1>4, <1>6 DEF CellInv, CellOfSpec, WarmOfModel
  <1>8. /\ h[1] # s /\ h[1] \in M /\ s \in M /\ WarmModels(u) \ L \subseteq M
        /\ Total(M) <= Budget
    BY <1>2, <1>4, <1>5, <1>6 DEF Others, WarmModels
  <1>9. MapThenSumSet(LAMBDA d : Weight[d[1]],
          ({c, h} \cup {u[m] : m \in Models \ L}) \ {NoCopy}) <= Budget
    BY ONLY <1>7, <1>8, PlannedResidentsFit, c \in SomeCopy, h \in Copies,
         u \in [Models -> SomeCopy], L \in SUBSET Models, s \in Models, M \in SUBSET Models
  <1> QED
    BY <1>4, <1>6, <1>9 DEF Fits

(* What switch_cached starts to build fits, or its target never would. *)
LEMMA StartSwapFits ==
    ASSUME TypeInv, CellInv, WarmInv, PlanInv, NEW a \in Actors, StartSwap(a),
           hand'[a][1] # spec, warm[spec] = NoCopy, was[a] = spec
    PROVE  /\ plan[a] \cap IdleWarm' = {}
           /\ Fits(a) \/ Weight[hand'[a][1]] > Budget
  <1> DEFINE t == target[a]
  <1>1. /\ t \in Models /\ spec \in Models /\ warm[t] = NoCopy
        /\ hand'[a] = Fresh(t) /\ Room(t) /\ cell \in SomeCopy
        /\ cell' = IF op[a] = "dropped" THEN NoCopy ELSE cell
        /\ pc[a] = "sw_plan" /\ lease' = lease /\ EvictPlanned(a)
        /\ plan[a] \in SUBSET Models /\ warm \in [Models -> SomeCopy]
        /\ op[a] \in {"kept", "dropped"}
    BY DEF StartSwap, TypeInv, TypeOK, PlanInv, SwapShape
  <1>2. hand'[a] \in Copies /\ hand'[a][1] = t /\ t # spec
    BY <1>1, FreshCopy
  <1>3. \A q \in Requests : pc[q] = "warm" => pc'[q] = "warm"
    BY <1>1 DEF StartSwap, Goto, TypeInv, TypeOK, Actors
  <1>4. /\ plan[a] \cap IdleWarm' = {} /\ warm' \in [Models -> SomeCopy]
        /\ \A m \in Models : warm'[m] = warm[m] \/ warm'[m] = NoCopy
        /\ \A m \in Models \ plan[a] : warm'[m] = warm[m]
    BY <1>1, <1>3, EvictionSpares DEF CellInv
  <1>5. \/ Total({t} \cup KeptPrimary(a) \cup Others(a)) <= Budget
        \/ Weight[t] > Budget
    BY <1>1, <1>2 DEF PlanInv, SwapPlanned
  <1>6. CASE Weight[t] > Budget
    BY <1>2, <1>4, <1>6
  <1>7. CASE Total({t} \cup KeptPrimary(a) \cup Others(a)) <= Budget
    <2>1. cell' \in SomeCopy /\ (cell' # NoCopy => cell' = cell /\ op[a] = "kept")
      BY <1>1, CopyFacts
    <2>2. KeptPrimary(a) \subseteq {spec} /\ (op[a] = "kept" => spec \in KeptPrimary(a))
      BY DEF KeptPrimary
    <2>3. PICK c \in SomeCopy, h \in Copies, u \in [Models -> SomeCopy],
               L \in SUBSET Models, s \in Models, M \in SUBSET Models :
            /\ c = cell' /\ h = hand'[a] /\ u = warm' /\ L = plan[a] /\ s = spec
            /\ M = {t} \cup KeptPrimary(a) \cup Others(a)
      BY <1>1, <1>2, <1>4, <2>1, <2>2 DEF Others, WarmModels
    <2>4. /\ c # NoCopy => c[1] = s
          /\ u[s] = NoCopy /\ u[h[1]] = NoCopy
          /\ \A m \in Models : u[m] # NoCopy => u[m][1] = m
      BY <1>1, <1>2, <1>4, <2>1, <2>3 DEF CellInv, CellOfSpec, WarmOfModel
    <2>5. /\ h[1] # s /\ h[1] \in M /\ (c # NoCopy => s \in M)
          /\ WarmModels(u) \ L \subseteq M /\ Total(M) <= Budget
      BY <1>2, <1>4, <1>7, <2>1, <2>2, <2>3 DEF Others, WarmModels
    <2>6. MapThenSumSet(LAMBDA d : Weight[d[1]],
            ({c, h} \cup {u[m] : m \in Models \ L}) \ {NoCopy}) <= Budget
      BY ONLY <2>4, <2>5, PlannedResidentsFit, c \in SomeCopy, h \in Copies,
           u \in [Models -> SomeCopy], L \in SUBSET Models, s \in Models,
           M \in SUBSET Models
    <2> QED
      BY <1>4, <2>3, <2>6 DEF Fits
  <1> QED
    BY <1>5, <1>6, <1>7

(* Every build that begins has been planned. *)
Planned ==
    \A a \in Actors :
      /\ overlap = 0 /\ pc'[a] \in {"warm_build", "sw_build"} /\ pc'[a] # pc[a]
      /\ hand'[a][1] # spec /\ warm[spec] = NoCopy /\ was[a] = spec
      => /\ plan[a] \cap IdleWarm' = {}
         /\ \/ MapThenSumSet(LAMBDA c : Weight[c[1]],
                  ({cell', hand'[a]} \cup {warm'[m] : m \in Models \ plan[a]})
                    \ {NoCopy}) <= Budget
            \/ pc'[a] = "sw_build" /\ Weight[hand'[a][1]] > Budget

(* Every step plans what it begins. *)
LEMMA PlannedStep ==
    ASSUME CoreInv, WarmInv, PlanInv, [Next]_vars
    PROVE  Planned
  <1> SUFFICES ASSUME NEW a \in Actors, overlap = 0,
                      pc'[a] \in {"warm_build", "sw_build"}, pc'[a] # pc[a],
                      hand'[a][1] # spec, warm[spec] = NoCopy, was[a] = spec
               PROVE  /\ plan[a] \cap IdleWarm' = {}
                      /\ Fits(a) \/ (pc'[a] = "sw_build" /\ Weight[hand'[a][1]] > Budget)
    BY DEF Planned, Fits
  <1>0. TypeInv /\ CellInv
    BY DEF CoreInv
  <1>1. CASE a \in Requests /\ WarmStart(a)
    BY <1>0, <1>1, WarmStartFits
  <1>2. CASE StartSwap(a)
    <2>1. pc'[a] = "sw_build"
      BY <1>0, <1>2 DEF StartSwap, Goto, TypeInv, TypeOK
    <2> QED
      BY <1>0, <1>2, <2>1, StartSwapFits
  <1>3. (a \in Requests /\ WarmStart(a)) \/ StartSwap(a)
    BY <1>0, OnlyPlansBegin DEF Locked, WarmPlan, PlanSwap, Goto, TypeInv, TypeOK
  <1> QED
    BY <1>1, <1>2, <1>3

(* When a build begins, the planned victims that are left are busy, and    *)
(* the others fit the budget with it, but for a swap to a model that is    *)
(* over it alone (BuildFits).                                              *)
THEOREM BuildsFit == Spec => BuildFits
  <1>1. CoreInv /\ WarmInv /\ PlanInv /\ [Next]_vars => WarmInv' /\ PlanInv' /\ [Planned]_vars
    BY WarmStep, PlanStep, PlannedStep DEF CoreInv
  <1>2. Spec => [][Planned]_vars
    BY <1>1, CoreSteps, WarmInit, PlanInit, PTL DEF Spec
  <1> QED
    BY <1>2, PTL DEF BuildFits, Planned
=============================================================================
