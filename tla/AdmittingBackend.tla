-------------------------- MODULE AdmittingBackend --------------------------
(***************************************************************************)
(* The backend decorator of crates/rozum-core/src/concurrency.rs: chat()   *)
(* takes a slot of its own scheduler and then a permit of the GPU gate all *)
(* residents share, streams, and feeds what it saw to the per-model AIMD   *)
(* controller, which moves the scheduler's ceiling.  Allocation failures   *)
(* trip the circuit breaker, and every trip starts a timer that gives one  *)
(* step back.                                                              *)
(*                                                                         *)
(* The scheduler is used through what it promises (SlotPool): a slot is    *)
(* granted while fewer than limit are held.  The controller's Mutex and    *)
(* the scheduler's are different locks, so folding a sample (Record) and   *)
(* pushing its result (SetCeiling) are separate steps.                     *)
(***************************************************************************)
EXTENDS Naturals, FiniteSets

CONSTANTS
    Backends,    \* the resident models of this process
    Requests,    \* chat() calls, each made once
    BackendOf,   \* the backend each request goes to
    Capacity,    \* AdaptiveConfig.max: the capacity a backend advertises
    ProbeAfter,  \* AdaptiveConfig.probe_after
    GateSize,    \* ROZUM_GPU_GATE, 0 turns the gate off
    MaxErrors    \* bound: error items of one stream

ASSUME BackendAssumption ==
    /\ IsFiniteSet(Requests) /\ IsFiniteSet(Backends)
    /\ BackendOf \in [Requests -> Backends]
    /\ Capacity \in [Backends -> Nat \ {0}]
    /\ ProbeAfter \in Nat \ {0}
    /\ GateSize \in Nat
    /\ MaxErrors \in Nat

VARIABLES
    limit, capacity,  \* of each backend's scheduler
    target, green,    \* AimdState of each backend
    cooling,          \* recovery timers started and not yet fired
    pc,               \* where each request's chat() stands
    errored,          \* requests whose stream has reported an error
    errors,           \* error items of each stream
    sample,           \* the ConcurrencySample a request is about to fold in
    ticket,           \* record()'s result, not yet given to set_ceiling
    samples           \* history: samples each stream has produced

schedVars == <<limit, capacity, cooling>>
aimdVars == <<target, green>>
streamVars == <<errored, errors>>
vars == <<schedVars, aimdVars, streamVars, pc, sample, ticket, samples>>

Stages == {"idle", "slot", "start", "chat", "run",
           "record_fail", "record_run", "record_end", "record_late",
           "set_fail", "set_run", "set_end", "set_late",
           "done", "failed", "refused", "gone", "over"}

(* Mutant: a disconnect leaks the permit. *)
HoldsPermitLeaky == {"start", "chat", "run", "record_fail",
                     "record_run", "record_end", "set_fail", "set_run", "set_end", "gone"}

(* A stream owns its permit, and its slot, from before the first poll      *)
(* until it ends or is dropped.                                            *)
HoldsPermit == {"start", "chat", "run", "record_fail",
                "record_run", "record_end", "set_fail", "set_run", "set_end"}
HoldsSlot == HoldsPermit \cup {"slot"}

Slots(b) == {r \in Requests : BackendOf[r] = b /\ pc[r] \in HoldsSlot}
Permits == {r \in Requests : pc[r] \in HoldsPermit}

Init ==
    /\ limit = [b \in Backends |-> 1] /\ capacity = [b \in Backends |-> 1]
    /\ target = [b \in Backends |-> 1] /\ green = [b \in Backends |-> 0]
    /\ cooling = [b \in Backends |-> 0]
    /\ pc = [r \in Requests |-> "idle"]
    /\ errored = {}
    /\ errors = [r \in Requests |-> 0]
    /\ sample = [r \in Requests |-> "green"]
    /\ ticket = [r \in Requests |-> 1]
    /\ samples = [r \in Requests |-> 0]

-----------------------------------------------------------------------------
(* The scheduler grants a slot. *)
Admit(r) ==
    LET b == BackendOf[r] IN
    /\ pc[r] = "idle"
    /\ Cardinality(Slots(b)) < limit[b]
    /\ pc' = [pc EXCEPT ![r] = "slot"]
    /\ UNCHANGED <<schedVars, aimdVars, streamVars, sample, ticket, samples>>

(* No slot and a full queue: chat() answers Overloaded. *)
Refuse(r) ==
    LET b == BackendOf[r] IN
    /\ pc[r] = "idle"
    /\ Cardinality(Slots(b)) >= limit[b]
    /\ pc' = [pc EXCEPT ![r] = "refused"]
    /\ UNCHANGED <<schedVars, aimdVars, streamVars, sample, ticket, samples>>

(* The GPU gate: the permit is taken with the slot already held. *)
AcquirePermit(r) ==
    /\ pc[r] = "slot"
    /\ GateSize > 0 => Cardinality(Permits) < GateSize
    /\ pc' = [pc EXCEPT ![r] = "start"]
    /\ UNCHANGED <<schedVars, aimdVars, streamVars, sample, ticket, samples>>

(* The stream is polled for the first time. *)
FirstPoll(r) ==
    /\ pc[r] = "start"
    /\ pc' = [pc EXCEPT ![r] = "chat"]
    /\ UNCHANGED <<schedVars, aimdVars, streamVars, sample, ticket, samples>>

ChatOpens(r) ==
    /\ pc[r] = "chat"
    /\ pc' = [pc EXCEPT ![r] = "run"]
    /\ UNCHANGED <<schedVars, aimdVars, streamVars, sample, ticket, samples>>

(* The stream's locals go with it. *)
DropStream(r) ==
    /\ errored' = errored \ {r}
    /\ errors' = [errors EXCEPT ![r] = 0]

(* The client goes away while the future is parked or the stream yields:   *)
(* slot and permit are dropped, nothing is sampled.                        *)
Disconnect(r) ==
    /\ pc[r] \in {"slot", "start", "chat", "run"}
    /\ DropStream(r)
    /\ pc' = [pc EXCEPT ![r] = "gone"]
    /\ UNCHANGED <<schedVars, aimdVars, sample, ticket, samples>>

-----------------------------------------------------------------------------
Kinds == {"oom", "throttle", "other"}

(* looks_like_overload: an allocation failure or a provider's throttling. *)
ErrorSample(kind) == IF kind \in {"oom", "throttle"} THEN "hard" ELSE "soft"

(* Mutant: the trip starts no recovery timer. *)
TripForGood(b, kind) ==
    IF kind = "oom"
      THEN /\ limit' = [limit EXCEPT ![b] = IF @ > 1 THEN @ - 1 ELSE 1]
           /\ UNCHANGED <<cooling, capacity>>
      ELSE UNCHANGED schedVars

(* note_backend_error: an allocation failure trips the breaker and starts  *)
(* a timer that will give the step back.                                   *)
NoteBackendError(b, kind) ==
    IF kind = "oom"
      THEN /\ limit' = [limit EXCEPT ![b] = IF @ > 1 THEN @ - 1 ELSE 1]
           /\ cooling' = [cooling EXCEPT ![b] = @ + 1]
           /\ UNCHANGED capacity
      ELSE UNCHANGED schedVars

(* The engine refuses the request. *)
ChatFails(r, kind) ==
    /\ pc[r] = "chat"
    /\ NoteBackendError(BackendOf[r], kind)
    /\ sample' = [sample EXCEPT ![r] = ErrorSample(kind)]
    /\ pc' = [pc EXCEPT ![r] = "record_fail"]
    /\ UNCHANGED <<aimdVars, streamVars, ticket, samples>>

(* Mutant: every error item is sampled. *)
StreamErrorEach(r, kind) ==
    /\ pc[r] = "run" /\ errors[r] < MaxErrors
    /\ NoteBackendError(BackendOf[r], kind)
    /\ errors' = [errors EXCEPT ![r] = @ + 1]
    /\ sample' = [sample EXCEPT ![r] = ErrorSample(kind)]
    /\ pc' = [pc EXCEPT ![r] = "record_run"]
    /\ errored' = errored \cup {r}
    /\ UNCHANGED <<aimdVars, ticket, samples>>

(* An error item inside the stream: the breaker hears of every one, the    *)
(* controller only of the first.                                           *)
StreamError(r, kind) ==
    /\ pc[r] = "run" /\ errors[r] < MaxErrors
    /\ NoteBackendError(BackendOf[r], kind)
    /\ errors' = [errors EXCEPT ![r] = @ + 1]
    /\ IF r \in errored
         THEN UNCHANGED <<sample, pc, errored>>
         ELSE /\ sample' = [sample EXCEPT ![r] = ErrorSample(kind)]
              /\ pc' = [pc EXCEPT ![r] = "record_run"]
              /\ errored' = errored \cup {r}
    /\ UNCHANGED <<aimdVars, ticket, samples>>

(* The stream ends after errors: no further sample. *)
EndErrored(r) ==
    /\ pc[r] = "run" /\ r \in errored
    /\ DropStream(r)
    /\ pc' = [pc EXCEPT ![r] = "done"]
    /\ UNCHANGED <<schedVars, aimdVars, sample, ticket, samples>>

(* A clean end.  The RAM headroom and the latency against the unsaturated  *)
(* baseline decide whether the run was a green sample.                     *)
EndClean(r) ==
    /\ pc[r] = "run" /\ r \notin errored
    /\ \E s \in {"green", "hard"} : sample' = [sample EXCEPT ![r] = s]
    /\ pc' = [pc EXCEPT ![r] = "record_end"]
    /\ UNCHANGED <<schedVars, aimdVars, streamVars, ticket, samples>>

(* report_quality(false): a caller rejects the answer afterwards. *)
ReportQuality(r) ==
    /\ pc[r] = "done"
    /\ sample' = [sample EXCEPT ![r] = "soft"]
    /\ pc' = [pc EXCEPT ![r] = "record_late"]
    /\ UNCHANGED <<schedVars, aimdVars, streamVars, ticket, samples>>

-----------------------------------------------------------------------------
Half(n) == IF n \div 2 = 0 THEN 1 ELSE n \div 2

Later(n) == IF n < ProbeAfter THEN n + 1 ELSE n

(* AdaptiveConcurrency::record: a red sample halves the target, a quality  *)
(* failure only above the floor; ProbeAfter greens in a row raise it by    *)
(* one.  The count of greens only matters up to ProbeAfter.                *)
Fold(b, s) ==
    IF s = "hard" \/ (s = "soft" /\ target[b] > 1)
      THEN [limit |-> Half(target[b]), green |-> 0]
      ELSE IF s = "green"
             THEN IF Later(green[b]) >= ProbeAfter /\ target[b] < Capacity[b]
                    THEN [limit |-> target[b] + 1, green |-> 0]
                    ELSE [limit |-> target[b], green |-> Later(green[b])]
             ELSE [limit |-> target[b], green |-> green[b]]

Recording == {"record_fail", "record_run", "record_end", "record_late"}
Setting == {"set_fail", "set_run", "set_end", "set_late"}

ToSet(stage) ==
    CASE stage = "record_fail" -> "set_fail"
      [] stage = "record_run" -> "set_run"
      [] stage = "record_end" -> "set_end"
      [] OTHER -> "set_late"

(* apply_sample, first half: the controller folds the sample. *)
Record(r) ==
    LET b == BackendOf[r]
        f == Fold(b, sample[r]) IN
    /\ pc[r] \in Recording
    /\ target' = [target EXCEPT ![b] = f.limit]
    /\ green' = [green EXCEPT ![b] = f.green]
    /\ ticket' = [ticket EXCEPT ![r] = f.limit]
    /\ samples' = IF pc[r] = "record_late" THEN samples ELSE [samples EXCEPT ![r] = @ + 1]
    /\ pc' = [pc EXCEPT ![r] = ToSet(pc[r])]
    /\ UNCHANGED <<schedVars, streamVars, sample>>

AfterSet(stage) ==
    CASE stage = "set_fail" -> "failed"
      [] stage = "set_run" -> "run"
      [] stage = "set_end" -> "done"
      [] OTHER -> "over"

(* apply_sample, second half: the result becomes limit and ceiling. *)
SetCeiling(r) ==
    LET b == BackendOf[r] IN
    /\ pc[r] \in Setting
    /\ limit' = [limit EXCEPT ![b] = ticket[r]]
    /\ capacity' = [capacity EXCEPT ![b] = ticket[r]]
    /\ sample' = [sample EXCEPT ![r] = "green"] /\ ticket' = [ticket EXCEPT ![r] = 1]
    /\ IF pc[r] = "set_run" THEN UNCHANGED streamVars ELSE DropStream(r)
    /\ pc' = [pc EXCEPT ![r] = AfterSet(pc[r])]
    /\ UNCHANGED <<cooling, aimdVars, samples>>

(* Mutant: off by one, the last step is never given back. *)
RecoverShort(b) ==
    /\ cooling[b] > 0
    /\ cooling' = [cooling EXCEPT ![b] = IF limit[b] + 1 < capacity[b] THEN @ - 1 ELSE @]
    /\ limit' = [limit EXCEPT ![b] = IF @ + 1 < capacity[b] THEN @ + 1 ELSE @]
    /\ UNCHANGED <<capacity, aimdVars, streamVars, pc, sample, ticket, samples>>

(* A recovery timer fires: recover_step. *)
Recover(b) ==
    /\ cooling[b] > 0
    /\ cooling' = [cooling EXCEPT ![b] = @ - 1]
    /\ limit' = [limit EXCEPT ![b] = IF @ + 1 <= capacity[b] THEN @ + 1 ELSE capacity[b]]
    /\ UNCHANGED <<capacity, aimdVars, streamVars, pc, sample, ticket, samples>>

(* What the stream of r does by itself once it has its permit. *)
Step(r) ==
    \/ FirstPoll(r) \/ ChatOpens(r) \/ EndErrored(r) \/ EndClean(r)
    \/ Record(r) \/ SetCeiling(r)
    \/ \E kind \in Kinds : ChatFails(r, kind)

Next ==
    \/ \E r \in Requests :
         \/ Admit(r) \/ Refuse(r) \/ AcquirePermit(r) \/ Disconnect(r)
         \/ Step(r) \/ ReportQuality(r)
         \/ \E kind \in Kinds : StreamError(r, kind)
    \/ \E b \in Backends : Recover(b)

Spec == Init /\ [][Next]_vars

(* Streams run on, the gate is FIFO, an arrival is answered, timers fire. *)
Fairness ==
    /\ \A r \in Requests : /\ WF_vars(Step(r))
                           /\ SF_vars(AcquirePermit(r))
                           /\ WF_vars(Admit(r) \/ Refuse(r))
    /\ \A b \in Backends : WF_vars(Recover(b))

FairSpec == Spec /\ Fairness

-----------------------------------------------------------------------------
TypeOK ==
    /\ limit \in [Backends -> Nat \ {0}] /\ capacity \in [Backends -> Nat \ {0}]
    /\ target \in [Backends -> Nat \ {0}] /\ green \in [Backends -> 0..ProbeAfter]
    /\ cooling \in [Backends -> Nat]
    /\ pc \in [Requests -> Stages]
    /\ errored \in SUBSET Requests
    /\ errors \in [Requests -> Nat] /\ samples \in [Requests -> Nat]
    /\ sample \in [Requests -> {"green", "soft", "hard"}]
    /\ ticket \in [Requests -> Nat \ {0}]

(* The controller never learns, and the scheduler is never given, more     *)
(* concurrency than the backend advertises; recovery stays under the       *)
(* ceiling.                                                                *)
WithinAdvertised ==
    \A b \in Backends : target[b] <= Capacity[b] /\ limit[b] <= capacity[b]
                                                 /\ capacity[b] <= Capacity[b]

(* The breaker's debt is covered: what the live limit lacks of the ceiling *)
(* is owed by recovery timers that still run.                              *)
DebtCovered ==
    \A b \in Backends : capacity[b] <= limit[b] + cooling[b]

(* One stream is one piece of evidence, however many errors it reports. *)
OneSamplePerStream == \A r \in Requests : samples[r] <= 1

(* The breaker heals: once no stream reports errors any more the limit is  *)
(* back at the ceiling and stays there.                                    *)
BreakerHeals == \A b \in Backends : <>[](limit[b] = capacity[b])

(* Slot first, permit second never wedges: a request that has its slot     *)
(* gets its permit and ends, on whichever resident it runs.                *)
EveryChatEnds ==
    \A r \in Requests : (pc[r] \in HoldsSlot) ~> (pc[r] \notin HoldsSlot)
=============================================================================
