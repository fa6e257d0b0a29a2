----------------------------- MODULE Switchboard -----------------------------
(***************************************************************************)
(* The resident-model manager of crates/rozum-gateway/src/switchboard.rs:  *)
(* a primary backend behind a swap cell, warm secondaries, and the ways in *)
(* which chat requests, operators and the watchdog change them at the same *)
(* time.  A request takes a generating token before it looks at draining;  *)
(* a switch or an unload sets draining before it waits for the tokens.     *)
(*                                                                         *)
(* A loaded backend is a copy <<model, number>>.  It is in memory as long  *)
(* as anybody holds it: the cell, a warm entry, a lease, a builder or the  *)
(* thread that drops it.  Weights are per-model bytes with the shared      *)
(* activation reserve already taken off, as plan_residency bills them.     *)
(***************************************************************************)
EXTENDS Naturals, FiniteSets, FiniteSetsExt

CONSTANTS
    Requests,   \* chat requests, each made once
    Controls,   \* operator commands and watchdog unloads, each made once
    Models,     \* installed models
    Ask,        \* the model a request names, Any if it names none
    Any,
    First,      \* the model the gateway was started with
    Weight,     \* of each model
    Budget,     \* host budget less what other gateways reserve
    Hangups,    \* bound: clients that go away while their handler waits
    Overlaps,   \* bound: operations begun while another is under way
    MaxCopies   \* bound: copies of one model in memory

Actors == Requests \cup Controls

ASSUME SwitchboardAssumption ==
    /\ IsFiniteSet(Requests) /\ IsFiniteSet(Controls) /\ Requests \cap Controls = {}
    /\ IsFiniteSet(Models) /\ Any \notin Models /\ First \in Models
    /\ Ask \in [Requests -> Models \cup {Any}]
    /\ Weight \in [Models -> Nat] /\ Budget \in Nat
    /\ Hangups \in Nat /\ Overlaps \in Nat /\ MaxCopies \in Nat \ {0}

Copies == Models \X (1..MaxCopies)
NoCopy == <<>>
SomeCopy == Copies \cup {NoCopy}

VARIABLES
    pc,        \* where each actor stands
    cell,      \* Switchboard.backend
    spec,      \* Switchboard.spec
    warm,      \* Switchboard.warm: the copy of each warm model
    draining,  \* Switchboard.draining
    tokens,    \* generating: the requests that hold a token
    reload,    \* holder of reload_lock
    lock,      \* holder of the warm map's lock
    gate,      \* holder of SWAP_GATE
    lease,     \* the backend each request holds
    attached,  \* requests whose warm handle is still the entry's
    hand,      \* the copy an actor is building or has taken out
    op,        \* what each actor is doing to the primary
    target,    \* the model a switch goes to
    was,       \* the primary a switch or a warm plan starts from
    plan,      \* the warm models it means to evict
    dropping,  \* copies handed to a blocking thread to be dropped
    retiring,  \* copies invalidate_backend's task will drop and publish
    ledger,    \* the models counted in the published reservation
    overlap    \* history: operations begun while another was under way

lockVars == <<reload, lock, gate>>
opVars == <<op, target, was, plan>>
drainVars == <<draining, overlap>>
freeVars == <<dropping, retiring>>
vars == <<pc, cell, spec, warm, drainVars, tokens, lockVars, lease, attached,
          hand, opVars, freeVars, ledger>>

InSwap == {"take", "taken", "swap", "sw_plan", "sw_build", "clear", "destroy", "ds_build",
           "publish", "end"}
OpStages == InSwap \cup {"drain"}
Entered == {"load", "want_reload", "readmit", "reload", "chat"}
Stages == OpStages \cup Entered \cup
          {"idle", "look", "want_warm", "warm_plan", "warm_build", "warm_got", "warm",
           "gate", "token", "check", "parked", "done", "refused", "gone"}
Awaiting == {"look", "want_warm", "warm_build", "gate", "drain", "taken", "swap",
             "sw_build", "clear", "ds_build", "publish", "parked", "want_reload",
             "readmit", "reload"}

WarmModels(w) == {m \in Models : w[m] # NoCopy}

(* residency_to_publish: the primary while it is loaded, and the warm set. *)
Published(c, s, w) == (IF c = NoCopy THEN {} ELSE {s}) \cup WarmModels(w)

InMemory == ({cell} \cup {warm[m] : m \in Models} \cup {lease[r] : r \in Requests}
             \cup {hand[a] : a \in Actors} \cup dropping \cup retiring) \ {NoCopy}

Room(m) == \E i \in 1..MaxCopies : <<m, i>> \notin InMemory
Fresh(m) == <<m, CHOOSE i \in 1..MaxCopies : <<m, i>> \notin InMemory>>

(* WarmHandle.inflight > 0 *)
Busy(m) == \E r \in attached : pc[r] = "warm" /\ lease[r] = warm[m]
IdleWarm == {m \in WarmModels(warm) : ~Busy(m)}

Total(S) == MapThenSumSet(LAMBDA m : Weight[m], S)

(* A candidate of plan_residency: a model and the place it is resident in. *)
AsWarm(S) == S \X {"warm"}
Names(C) == {c[1] : c \in C}

(* plan_residency: what may be kept next to the mandatory bytes.  Utility  *)
(* only orders the candidates, so every maximal choice is possible.        *)
Kept(must, idle) ==
    LET Sum(K) == must + MapThenSumSet(LAMBDA c : Weight[c[1]], K) IN
    {K \in SUBSET idle : Sum(K) <= Budget /\ \A c \in idle \ K : Sum(K \cup {c}) > Budget}

Evict(w, E) == [m \in Models |-> IF m \in E THEN NoCopy ELSE w[m]]
Handles(E) == {r \in attached : \E m \in E : lease[r] = warm[m]}

Init ==
    /\ pc = [a \in Actors |-> "idle"]
    /\ cell = <<First, 1>> /\ spec = First
    /\ warm = [m \in Models |-> NoCopy]
    /\ draining = "no" /\ overlap = 0 /\ tokens = {}
    /\ reload = {} /\ lock = {} /\ gate = {}
    /\ lease = [r \in Requests |-> NoCopy] /\ attached = {}
    /\ hand = [a \in Actors |-> NoCopy]
    /\ op = [a \in Actors |-> "none"]
    /\ target = [a \in Actors |-> First] /\ was = [a \in Actors |-> First]
    /\ plan = [a \in Actors |-> {}]
    /\ dropping = {} /\ retiring = {}
    /\ ledger = {First}

Goto(a, stage) == pc' = [pc EXCEPT ![a] = stage]

-----------------------------------------------------------------------------
(* enter: a request that names another model tries the warm set first. *)
Arrive(r) ==
    /\ pc[r] = "idle"
    /\ Goto(r, IF Ask[r] \in {Any, spec} THEN "token" ELSE "look")
    /\ UNCHANGED <<cell, spec, warm, drainVars, tokens, lockVars, lease, attached,
                   hand, opVars, freeVars, ledger>>

(* The entry's backend and handle are cloned; inflight is raised later,    *)
(* with the warm lock released.                                            *)
TakeHandle(r) ==
    /\ lease' = [lease EXCEPT ![r] = warm[Ask[r]]]
    /\ attached' = attached \cup {r}
    /\ Goto(r, "warm_got")

(* ensure_warm, fast path. *)
Look(r) ==
    /\ pc[r] = "look" /\ lock = {}
    /\ IF warm[Ask[r]] # NoCopy THEN TakeHandle(r)
       ELSE Goto(r, "want_warm") /\ UNCHANGED <<lease, attached>>
    /\ UNCHANGED <<cell, spec, warm, drainVars, tokens, lockVars, hand, opVars,
                   freeVars, ledger>>

WarmRaced(r) ==
    /\ pc[r] = "want_warm" /\ lock = {} /\ warm[Ask[r]] # NoCopy
    /\ TakeHandle(r)
    /\ UNCHANGED <<cell, spec, warm, drainVars, tokens, lockVars, hand, opVars,
                   freeVars, ledger>>

(* Mutant: the plan forgets the bytes of the primary. *)
MandatoryWarmOnly(r) == Total({m \in WarmModels(warm) : Busy(m)}) + Weight[Ask[r]]

(* What the planner must keep for r: the primary, the busy warm models and *)
(* the one it asks for.                                                    *)
Mandatory(r) == Weight[spec] + Total({m \in WarmModels(warm) : Busy(m)}) + Weight[Ask[r]]

(* It will not co-reside. *)
WarmRefused(r) ==
    /\ pc[r] = "want_warm" /\ lock = {} /\ warm[Ask[r]] = NoCopy
    /\ Ask[r] # spec /\ Mandatory(r) > Budget
    /\ Goto(r, "gate")
    /\ UNCHANGED <<cell, spec, warm, drainVars, tokens, lockVars, lease, attached,
                   hand, opVars, freeVars, ledger>>

(* Under the warm lock the idle models are chosen that have to go.  The    *)
(* planner calls a model that is the primary by now resident, and evicts   *)
(* nothing for it.                                                         *)
WarmPlan(r) ==
    /\ pc[r] = "want_warm" /\ lock = {} /\ warm[Ask[r]] = NoCopy
    /\ \E K \in IF Ask[r] = spec THEN {AsWarm(IdleWarm)}
             ELSE Kept(Mandatory(r), AsWarm(IdleWarm)) :
         plan' = [plan EXCEPT ![r] = Names(AsWarm(IdleWarm) \ K) \ {spec}]
    /\ was' = [was EXCEPT ![r] = spec]
    /\ lock' = {r}
    /\ Goto(r, "warm_plan")
    /\ UNCHANGED <<cell, spec, warm, drainVars, tokens, reload, gate, lease, attached,
                   hand, op, target, freeVars, ledger>>

(* Mutant: no second look at the leases. *)
EvictBlindly(a) ==
    /\ warm' = Evict(warm, plan[a])
    /\ attached' = attached \ Handles(plan[a])

(* The warm models a plan gives up go if they are still idle: a lease is   *)
(* raised without the warm lock, and a model that became busy is kept.     *)
EvictPlanned(a) ==
    LET E == plan[a] \cap IdleWarm IN
    /\ warm' = Evict(warm, E)
    /\ attached' = attached \ Handles(E)

(* Whatever was kept, the build starts. *)
WarmStart(r) ==
    /\ pc[r] = "warm_plan" /\ Room(Ask[r])
    /\ EvictPlanned(r)
    /\ dropping' = dropping \cup {warm[m] : m \in plan[r] \cap IdleWarm}
    /\ hand' = [hand EXCEPT ![r] = Fresh(Ask[r])]
    /\ plan' = [plan EXCEPT ![r] = {}] /\ was' = [was EXCEPT ![r] = First]
    /\ Goto(r, "warm_build")
    /\ UNCHANGED <<cell, spec, drainVars, tokens, lockVars, lease, op, target, retiring,
                   ledger>>

WarmBuilt(r) ==
    /\ pc[r] = "warm_build"
    /\ warm' = [warm EXCEPT ![Ask[r]] = hand[r]]
    /\ ledger' = Published(cell, spec, warm')
    /\ lease' = [lease EXCEPT ![r] = hand[r]] /\ attached' = attached \cup {r}
    /\ hand' = [hand EXCEPT ![r] = NoCopy]
    /\ lock' = {}
    /\ Goto(r, "warm_got")
    /\ UNCHANGED <<cell, spec, drainVars, tokens, reload, gate, opVars, freeVars>>

WarmFails(r) ==
    /\ pc[r] = "warm_build"
    /\ hand' = [hand EXCEPT ![r] = NoCopy] /\ lock' = {}
    /\ Goto(r, "gate")
    /\ UNCHANGED <<cell, spec, warm, drainVars, tokens, reload, gate, lease,
                   attached, opVars, freeVars, ledger>>

WarmEnter(r) ==
    /\ pc[r] = "warm_got"
    /\ Goto(r, "warm")
    /\ UNCHANGED <<cell, spec, warm, drainVars, tokens, lockVars, lease, attached,
                   hand, opVars, freeVars, ledger>>

(* ChatLease::drop. *)
DropLease(r) ==
    /\ lease' = [lease EXCEPT ![r] = NoCopy]
    /\ attached' = attached \ {r} /\ tokens' = tokens \ {r}

Finish(r) ==
    /\ pc[r] \in {"warm", "chat"}
    /\ DropLease(r)
    /\ Goto(r, "done")
    /\ UNCHANGED <<cell, spec, warm, drainVars, lockVars, hand, opVars, freeVars, ledger>>

(* The engine's worker is gone: invalidate_backend empties the cell. *)
Unavailable(r) ==
    /\ pc[r] \in {"warm", "chat"}
    /\ DropLease(r)
    /\ cell' = NoCopy /\ retiring' = (retiring \cup {cell}) \ {NoCopy}
    /\ Goto(r, "refused")
    /\ UNCHANGED <<spec, warm, drainVars, lockVars, hand, opVars, dropping, ledger>>

(* Its task drops the backend and publishes what is left. *)
Retire(c) ==
    /\ c \in retiring /\ lock = {}
    /\ retiring' = retiring \ {c}
    /\ ledger' = Published(cell, spec, warm)
    /\ UNCHANGED <<pc, cell, spec, warm, drainVars, tokens, lockVars, lease, attached,
                   hand, opVars, dropping>>

-----------------------------------------------------------------------------
(* enter_primary: the token first, the look at draining second. *)
TakeToken(r) ==
    /\ pc[r] = "token"
    /\ tokens' = tokens \cup {r}
    /\ Goto(r, "check")
    /\ UNCHANGED <<cell, spec, warm, drainVars, lockVars, lease, attached, hand,
                   opVars, freeVars, ledger>>

CheckDrain(r) ==
    /\ pc[r] = "check"
    /\ IF draining = "yes" THEN tokens' = tokens \ {r} /\ Goto(r, "parked")
       ELSE Goto(r, "load") /\ UNCHANGED tokens
    /\ UNCHANGED <<cell, spec, warm, drainVars, lockVars, lease, attached, hand,
                   opVars, freeVars, ledger>>

(* Mutant: a woken request does not look at draining again. *)
WakeThrough(r) ==
    /\ pc[r] = "parked"
    /\ tokens' = tokens \cup {r}
    /\ Goto(r, "load")
    /\ UNCHANGED <<cell, spec, warm, drainVars, lockVars, lease, attached, hand,
                   opVars, freeVars, ledger>>

(* resume, or the 200 ms poll, whichever comes first. *)
Wake(r) ==
    /\ pc[r] = "parked"
    /\ Goto(r, "token")
    /\ UNCHANGED <<cell, spec, warm, drainVars, tokens, lockVars, lease, attached,
                   hand, opVars, freeVars, ledger>>

(* ensure_loaded *)
Load(r) ==
    /\ pc[r] = "load"
    /\ lease' = [lease EXCEPT ![r] = cell]
    /\ Goto(r, IF cell # NoCopy THEN "chat" ELSE "want_reload")
    /\ UNCHANGED <<cell, spec, warm, drainVars, tokens, lockVars, attached, hand,
                   opVars, freeVars, ledger>>

(* Mutant: no second look at the cell under reload_lock. *)
LockReloadBlind(r) ==
    /\ pc[r] = "want_reload" /\ reload = {}
    /\ reload' = {r} /\ Goto(r, "readmit")
    /\ UNCHANGED <<cell, spec, warm, drainVars, tokens, lock, gate, lease, attached,
                   hand, opVars, freeVars, ledger>>

(* Under reload_lock the cell is looked at again. *)
LockReload(r) ==
    /\ pc[r] = "want_reload" /\ reload = {}
    /\ IF cell # NoCopy
       THEN lease' = [lease EXCEPT ![r] = cell] /\ Goto(r, "chat") /\ UNCHANGED reload
       ELSE reload' = {r} /\ Goto(r, "readmit") /\ UNCHANGED lease
    /\ UNCHANGED <<cell, spec, warm, drainVars, tokens, lock, gate, attached, hand,
                   opVars, freeVars, ledger>>

(* readmit_my_reservation asks for the primary and the warm set, and may   *)
(* always say yes: alone on the host, a process is not held to the budget. *)
(* The build begins once they are reserved.                                *)
Readmit(r) ==
    /\ pc[r] = "readmit" /\ lock = {} /\ Room(spec)
    /\ ledger' = {spec} \cup WarmModels(warm)
    /\ hand' = [hand EXCEPT ![r] = Fresh(spec)]
    /\ Goto(r, "reload")
    /\ UNCHANGED <<cell, spec, warm, drainVars, tokens, lockVars, lease, attached,
                   opVars, freeVars>>

(* Another gateway took the room meanwhile, or the host is under pressure. *)
ReadmitRefused(r) ==
    /\ pc[r] = "readmit" /\ lock = {}
    /\ tokens' = tokens \ {r} /\ reload' = {}
    /\ Goto(r, "refused")
    /\ UNCHANGED <<cell, spec, warm, drainVars, lock, gate, lease, attached, hand,
                   opVars, freeVars, ledger>>

Reloaded(r) ==
    /\ pc[r] = "reload"
    /\ cell' = hand[r] /\ lease' = [lease EXCEPT ![r] = hand[r]]
    /\ hand' = [hand EXCEPT ![r] = NoCopy]
    /\ reload' = {}
    /\ Goto(r, "chat")
    /\ UNCHANGED <<spec, warm, drainVars, tokens, lock, gate, attached, opVars,
                   freeVars, ledger>>

ReloadFails(r) ==
    /\ pc[r] = "reload" /\ lock = {}
    /\ ledger' = Published(cell, spec, warm)
    /\ hand' = [hand EXCEPT ![r] = NoCopy]
    /\ reload' = {} /\ tokens' = tokens \ {r}
    /\ Goto(r, "refused")
    /\ UNCHANGED <<cell, spec, warm, drainVars, lock, gate, lease, attached, opVars,
                   freeVars>>

-----------------------------------------------------------------------------
(* begin_drain, by whoever starts to change the primary. *)
Begin(a, what, m) ==
    /\ op' = [op EXCEPT ![a] = what] /\ target' = [target EXCEPT ![a] = m]
    /\ draining' = "yes"
    /\ IF \E b \in Actors : pc[b] \in OpStages
       THEN overlap < Overlaps /\ overlap' = overlap + 1 ELSE overlap' = overlap
    /\ Goto(a, "drain")

(* maybe_switch_for_request: under the gate the primary is looked at again. *)
GateRaced(r) ==
    /\ pc[r] = "gate" /\ gate = {} /\ Ask[r] = spec
    /\ Goto(r, "token")
    /\ UNCHANGED <<cell, spec, warm, drainVars, tokens, lockVars, lease, attached,
                   hand, opVars, freeVars, ledger>>

GateSwitch(r) ==
    /\ pc[r] = "gate" /\ gate = {} /\ Ask[r] # spec
    /\ gate' = {r}
    /\ Begin(r, "switch", Ask[r])
    /\ UNCHANGED <<cell, spec, warm, tokens, reload, lock, lease, attached, hand, was,
                   plan, freeVars, ledger>>

(* control_switch, with or without a backend of its own; control_unload    *)
(* and the watchdog's unload.                                              *)
Command(c, what, m) ==
    /\ pc[c] = "idle"
    /\ Begin(c, what, m)
    /\ UNCHANGED <<cell, spec, warm, tokens, lockVars, lease, attached, hand, was,
                   plan, freeVars, ledger>>

(* A switch keeps warm models only if it is cacheable. *)
Drained(a) ==
    /\ pc[a] = "drain" /\ tokens = {}
    /\ was' = [was EXCEPT ![a] = spec]
    /\ Goto(a, CASE op[a] = "unload" -> "take"
                 [] op[a] = "switch" /\ target[a] # spec -> "swap"
                 [] OTHER -> "clear")
    /\ UNCHANGED <<cell, spec, warm, drainVars, tokens, lockVars, lease, attached,
                   hand, op, target, plan, freeVars, ledger>>

(* end_drain or the early return of a failed drain; a request goes on to   *)
(* the primary, whatever it is by now.                                     *)
Leave(a) ==
    /\ draining' = "no"
    /\ op' = [op EXCEPT ![a] = "none"]
    /\ target' = [target EXCEPT ![a] = First] /\ was' = [was EXCEPT ![a] = First]
    /\ gate' = gate \ {a}
    /\ Goto(a, IF a \in Requests THEN "token" ELSE "done")
    /\ UNCHANGED <<cell, spec, warm, overlap, tokens, reload, lock, lease, attached, hand,
                   plan, freeVars, ledger>>

DrainTimeout(a) == pc[a] = "drain" /\ tokens # {} /\ Leave(a)

EndDrain(a) == pc[a] = "end" /\ Leave(a)

(* unload: take the backend out, free it, and only then publish. *)
TakeBackend(a) ==
    /\ pc[a] = "take"
    /\ hand' = [hand EXCEPT ![a] = cell] /\ cell' = NoCopy
    /\ Goto(a, "taken")
    /\ UNCHANGED <<spec, warm, drainVars, tokens, lockVars, lease, attached, opVars,
                   freeVars, ledger>>

DropTaken(a) ==
    /\ pc[a] = "taken"
    /\ hand' = [hand EXCEPT ![a] = NoCopy]
    /\ Goto(a, "publish")
    /\ UNCHANGED <<cell, spec, warm, drainVars, tokens, lockVars, lease, attached,
                   opVars, freeVars, ledger>>

PublishOp(a) ==
    /\ pc[a] = "publish" /\ lock = {}
    /\ ledger' = Published(cell, spec, warm)
    /\ Goto(a, "end")
    /\ UNCHANGED <<cell, spec, warm, drainVars, tokens, lockVars, lease, attached,
                   hand, opVars, freeVars>>

-----------------------------------------------------------------------------
(* switch_cached, case A: the warm target and the primary trade places.    *)
(* The promoted entry's handle is forgotten, and so is that of an entry    *)
(* the old primary's replaces.                                             *)
Promote(a) ==
    LET m == target[a]
        E == {m} \cup (IF cell = NoCopy THEN {} ELSE {was[a]}) IN
    /\ pc[a] = "swap" /\ lock = {} /\ warm[m] # NoCopy
    /\ cell' = warm[m] /\ spec' = m
    /\ warm' = IF cell = NoCopy THEN Evict(warm, {m})
               ELSE [Evict(warm, {m}) EXCEPT ![was[a]] = cell]
    /\ attached' = attached \ Handles(E)
    /\ ledger' = Published(cell', spec', warm')
    /\ Goto(a, "end")
    /\ UNCHANGED <<drainVars, tokens, lockVars, lease, hand, opVars, freeVars>>

(* Case B: the target must be built.  The plan gives up idle models, the   *)
(* old primary among them, or all there are if even what it must keep does *)
(* not fit.                                                                *)
PlanSwap(a) ==
    LET m == target[a]
        must == Total({w \in WarmModels(warm) : Busy(w)}) + Weight[m]
        idle == AsWarm(IdleWarm) \cup {<<was[a], "primary">>} IN
    /\ pc[a] = "swap" /\ lock = {} /\ warm[m] = NoCopy
    /\ \E K \in IF must > Budget THEN {{}} ELSE Kept(must, idle) :
         LET lost == Names(idle \ K) IN
         /\ plan' = [plan EXCEPT ![a] = IF must > Budget THEN WarmModels(warm)
                                        ELSE lost \ {was[a]}]
         /\ op' = [op EXCEPT ![a] = IF was[a] \in lost THEN "dropped" ELSE "kept"]
    /\ lock' = {a}
    /\ Goto(a, "sw_plan")
    /\ UNCHANGED <<cell, spec, warm, drainVars, tokens, reload, gate, lease, attached,
                   hand, target, was, freeVars, ledger>>

(* What is still idle of them goes, and the old primary when it cannot     *)
(* stay; then the build starts.                                            *)
StartSwap(a) ==
    /\ pc[a] = "sw_plan" /\ Room(target[a])
    /\ EvictPlanned(a)
    /\ cell' = IF op[a] = "dropped" THEN NoCopy ELSE cell
    /\ dropping' = (dropping \cup {warm[w] : w \in plan[a] \cap IdleWarm}
                      \cup (IF op[a] = "dropped" THEN {cell} ELSE {})) \ {NoCopy}
    /\ hand' = [hand EXCEPT ![a] = Fresh(target[a])]
    /\ plan' = [plan EXCEPT ![a] = {}]
    /\ Goto(a, "sw_build")
    /\ UNCHANGED <<spec, drainVars, tokens, lockVars, lease, op, target, was, retiring,
                   ledger>>

SwapBuilt(a) ==
    /\ pc[a] = "sw_build"
    /\ IF op[a] = "kept" /\ cell # NoCopy
       THEN /\ warm' = [warm EXCEPT ![was[a]] = cell]
            /\ attached' = attached \ Handles({was[a]})
       ELSE UNCHANGED <<warm, attached>>
    /\ cell' = hand[a] /\ spec' = target[a]
    /\ ledger' = Published(cell', spec', warm')
    /\ hand' = [hand EXCEPT ![a] = NoCopy] /\ lock' = {}
    /\ Goto(a, "end")
    /\ UNCHANGED <<drainVars, tokens, reload, gate, lease, opVars, freeVars>>

(* Mutant: a failed swap leaves the new spec in place. *)
SwapFailsForward(a) ==
    /\ pc[a] = "sw_build"
    /\ spec' = IF op[a] = "dropped" THEN was[a] ELSE target[a]
    /\ hand' = [hand EXCEPT ![a] = NoCopy] /\ lock' = {}
    /\ Goto(a, "end")
    /\ UNCHANGED <<cell, warm, drainVars, tokens, reload, gate, lease, attached, opVars,
                   freeVars, ledger>>

SwapFails(a) ==
    /\ pc[a] = "sw_build"
    /\ spec' = IF op[a] = "dropped" THEN was[a] ELSE spec
    /\ hand' = [hand EXCEPT ![a] = NoCopy] /\ lock' = {}
    /\ Goto(a, "end")
    /\ UNCHANGED <<cell, warm, drainVars, tokens, reload, gate, lease, attached, opVars,
                   freeVars, ledger>>

(* Not cacheable: every idle warm model goes, then the old primary, which  *)
(* is dropped in place.                                                    *)
EvictAll(a) ==
    /\ pc[a] = "clear" /\ lock = {}
    /\ warm' = Evict(warm, IdleWarm)
    /\ attached' = attached \ Handles(IdleWarm)
    /\ dropping' = dropping \cup {warm[m] : m \in IdleWarm}
    /\ Goto(a, "destroy")
    /\ UNCHANGED <<cell, spec, drainVars, tokens, lockVars, lease, hand, opVars,
                   retiring, ledger>>

Destroy(a) ==
    /\ pc[a] = "destroy" /\ Room(target[a])
    /\ cell' = NoCopy /\ spec' = target[a]
    /\ hand' = [hand EXCEPT ![a] = Fresh(target[a])]
    /\ Goto(a, "ds_build")
    /\ UNCHANGED <<warm, drainVars, tokens, lockVars, lease, attached, opVars, freeVars,
                   ledger>>

DestroyBuilt(a) ==
    /\ pc[a] = "ds_build"
    /\ cell' = hand[a]
    /\ hand' = [hand EXCEPT ![a] = NoCopy]
    /\ Goto(a, "publish")
    /\ UNCHANGED <<spec, warm, drainVars, tokens, lockVars, lease, attached, opVars,
                   freeVars, ledger>>

(* Mutant: a failed build returns before end_drain. *)
DestroyFailsEarly(a) ==
    /\ pc[a] = "ds_build"
    /\ spec' = was[a]
    /\ hand' = [hand EXCEPT ![a] = NoCopy]
    /\ Goto(a, "done")
    /\ UNCHANGED <<cell, warm, drainVars, tokens, lockVars, lease, attached, opVars,
                   freeVars, ledger>>

DestroyFails(a) ==
    /\ pc[a] = "ds_build"
    /\ spec' = was[a]
    /\ hand' = [hand EXCEPT ![a] = NoCopy]
    /\ Goto(a, "end")
    /\ UNCHANGED <<cell, warm, drainVars, tokens, lockVars, lease, attached, opVars,
                   freeVars, ledger>>

-----------------------------------------------------------------------------
(* spawn_blocking(drop) *)
Dropped(c) ==
    /\ c \in dropping
    /\ dropping' = dropping \ {c}
    /\ UNCHANGED <<pc, cell, spec, warm, drainVars, tokens, lockVars, lease, attached,
                   hand, opVars, retiring, ledger>>

(* A client that goes away drops its handler at whatever it awaits.  The   *)
(* guards it holds are released and a build under way ends in a drop, but  *)
(* no statement after the await runs: a token already taken is not given   *)
(* back, and draining stays as it is.                                      *)
Hangup(a) ==
    /\ pc[a] \in Awaiting
    /\ Cardinality({b \in Actors : pc[b] = "gone"}) < Hangups
    /\ reload' = reload \ {a} /\ lock' = lock \ {a} /\ gate' = gate \ {a}
    /\ dropping' = (dropping \cup {hand[a]}) \ {NoCopy}
    /\ hand' = [hand EXCEPT ![a] = NoCopy]
    /\ op' = [op EXCEPT ![a] = "none"]
    /\ target' = [target EXCEPT ![a] = First] /\ was' = [was EXCEPT ![a] = First]
    /\ Goto(a, "gone")
    /\ UNCHANGED <<cell, spec, warm, drainVars, tokens, lease, attached, plan, retiring,
                   ledger>>

(* sweep_idle_warm, on the watchdog's tick. *)
Sweep ==
    /\ lock = {}
    /\ \E E \in SUBSET IdleWarm \ {{}} :
         /\ warm' = Evict(warm, E)
         /\ attached' = attached \ Handles(E)
         /\ dropping' = dropping \cup {warm[m] : m \in E}
    /\ ledger' = Published(cell, spec, warm')
    /\ UNCHANGED <<pc, cell, spec, drainVars, tokens, lockVars, lease, hand, opVars,
                   retiring>>

-----------------------------------------------------------------------------
WarmPath(r) ==
    \/ Look(r) \/ WarmRaced(r) \/ WarmRefused(r) \/ WarmPlan(r) \/ WarmStart(r)
    \/ WarmBuilt(r) \/ WarmFails(r) \/ WarmEnter(r)

PrimaryPath(r) ==
    \/ TakeToken(r) \/ CheckDrain(r) \/ Wake(r) \/ Load(r) \/ LockReload(r)
    \/ Readmit(r) \/ ReadmitRefused(r) \/ Reloaded(r) \/ ReloadFails(r)

RequestStep(r) ==
    \/ WarmPath(r) \/ PrimaryPath(r) \/ GateRaced(r) \/ GateSwitch(r)
    \/ Finish(r) \/ Unavailable(r)

OpStep(a) ==
    \/ Drained(a) \/ DrainTimeout(a) \/ EndDrain(a)
    \/ TakeBackend(a) \/ DropTaken(a) \/ PublishOp(a)
    \/ Promote(a) \/ PlanSwap(a) \/ StartSwap(a) \/ SwapBuilt(a) \/ SwapFails(a)
    \/ EvictAll(a) \/ Destroy(a) \/ DestroyBuilt(a) \/ DestroyFails(a)

Next ==
    \/ \E r \in Requests : Arrive(r) \/ RequestStep(r)
    \/ \E c \in Controls : \/ Command(c, "unload", First)
                           \/ \E m \in Models, what \in {"switch", "custom"} :
                                Command(c, what, m)
    \/ \E a \in Actors : OpStep(a) \/ Hangup(a)
    \/ \E c \in Copies : Dropped(c) \/ Retire(c)
    \/ Sweep

Spec == Init /\ [][Next]_vars

(* The runtime polls every task it has woken and every build, drop and     *)
(* generation ends.  Nobody need make a request, a command or a sweep.     *)
FairSpec ==
    /\ Spec
    /\ \A r \in Requests : WF_vars(RequestStep(r) \/ OpStep(r))
    /\ \A c \in Controls : WF_vars(OpStep(c))
    /\ WF_vars(\E c \in Copies : Dropped(c) \/ Retire(c))

-----------------------------------------------------------------------------
TypeOK ==
    /\ pc \in [Actors -> Stages]
    /\ cell \in SomeCopy /\ spec \in Models
    /\ warm \in [Models -> SomeCopy]
    /\ draining \in {"yes", "no"} /\ overlap \in 0..Overlaps
    /\ tokens \subseteq Requests /\ attached \subseteq Requests
    /\ reload \subseteq Requests /\ lock \subseteq Actors /\ gate \subseteq Requests
    /\ lease \in [Requests -> SomeCopy] /\ hand \in [Actors -> SomeCopy]
    /\ op \in [Actors -> {"none", "switch", "custom", "unload", "kept", "dropped"}]
    /\ target \in [Actors -> Models] /\ was \in [Actors -> Models]
    /\ plan \in [Actors -> SUBSET Models]
    /\ dropping \subseteq Copies /\ retiring \subseteq Copies
    /\ ledger \subseteq Models

(* Nobody is served by the primary while somebody changes it: the token    *)
(* taken before the look at draining, and draining set before the wait for *)
(* the tokens, leave no gap ("so none is served mid-swap").                *)
NoServeMidSwap ==
    (\E a \in Actors : pc[a] \in InSwap) => \A r \in Requests : pc[r] \notin Entered

(* As long as no two operations on the primary overlapped. *)
NoServeUnlessOverlap == overlap = 0 => NoServeMidSwap

(* Between two changes, what the cell holds is what the spec says, unless  *)
(* two operations overlapped.                                              *)
CellMatchesSpec ==
    (overlap = 0 /\ cell # NoCopy /\ \A a \in Actors : pc[a] \notin InSwap)
      => cell[1] = spec

(* Racing requests rebuild an unloaded model once: while one of them       *)
(* builds, no other has put a backend into the cell, unless two operations *)
(* overlapped.                                                             *)
ReloadOnce ==
    overlap = 0 => \A r \in Requests : pc[r] = "reload" => cell = NoCopy

(* A warm model whose lease is counted stays resident: no eviction, sweep, *)
(* swap or promotion lets go of it, unless it is a second copy of the      *)
(* primary or two operations overlapped.                                   *)
Counted(r) == pc[r] = "warm" /\ r \in attached

BusyWarmStays ==
    [][\A r \in Requests :
         overlap = 0 /\ Counted(r) /\ pc'[r] = "warm" /\ Ask[r] # spec
           => lease[r] \in {cell'} \cup {warm'[m] : m \in Models}]_vars

(* When a build starts, the planned victims that are left are busy, their  *)
(* leases raised between the plan and the eviction at the latest, and all  *)
(* the others fit the budget with the new copy, unless a swap's target is  *)
(* over it alone.  Apart are a second copy of the primary, a primary that  *)
(* changed since the plan, and operations that overlapped.                 *)
BuildFits ==
    [][\A a \in Actors :
         /\ overlap = 0 /\ pc'[a] \in {"warm_build", "sw_build"} /\ pc'[a] # pc[a]
         /\ hand'[a][1] # spec /\ warm[spec] = NoCopy /\ was[a] = spec
         => /\ plan[a] \cap IdleWarm' = {}
            /\ \/ MapThenSumSet(LAMBDA c : Weight[c[1]],
                     ({cell', hand'[a]} \cup {warm'[m] : m \in Models \ plan[a]})
                       \ {NoCopy}) <= Budget
               \/ pc'[a] = "sw_build" /\ Weight[hand'[a][1]] > Budget]_vars

(* A request that got its lease and gave it back, was refused, or left. *)
Settled(r) == pc[r] \in {"done", "refused", "gone"}

(* As long as no client goes away inside the protocol, parking, reloading, *)
(* switching and the three locks never hold a request for ever.            *)
SettlesUnlessHungUp ==
    \A r \in Requests :
        (pc[r] # "idle") ~> (Settled(r) \/ \E a \in Actors : pc[a] = "gone")
=============================================================================
