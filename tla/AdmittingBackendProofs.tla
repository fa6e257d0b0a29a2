----------------------- MODULE AdmittingBackendProofs -----------------------
(***************************************************************************)
(* The circuit breaker and the AIMD controller compose, for any number of  *)
(* residents and requests, any capacity, any probing interval and any      *)
(* number of errors.                                                       *)
(***************************************************************************)
EXTENDS AdmittingBackend, TLAPS

USE BackendAssumption DEF BackendAssumption

-----------------------------------------------------------------------------
(* What a folded sample may decide: between one and the advertised         *)
(* capacity.                                                               *)
LEMMA FoldBounds ==
  ASSUME TypeOK, NEW b \in Backends, target[b] <= Capacity[b],
         NEW s \in {"green", "soft", "hard"}
  PROVE  /\ Fold(b, s).limit \in Nat \ {0} /\ Fold(b, s).limit <= Capacity[b]
         /\ Fold(b, s).green \in 0..ProbeAfter
  <1>1. /\ target[b] \in Nat \ {0} /\ green[b] \in 0..ProbeAfter
        /\ Capacity[b] \in Nat \ {0} /\ ProbeAfter \in Nat \ {0}
    BY DEF TypeOK
  <1>2. /\ Half(target[b]) \in Nat \ {0} /\ Half(target[b]) <= target[b]
        /\ Later(green[b]) \in 0..ProbeAfter
    BY <1>1 DEF Half, Later
  <1> QED
    BY <1>1, <1>2 DEF Fold

(* Where apply_sample resumes. *)
LEMMA NextStages ==
  ASSUME NEW stage
  PROVE  /\ ToSet(stage) \in Setting /\ (ToSet(stage) = "set_run" => stage = "record_run")
         /\ AfterSet(stage) \in {"failed", "run", "done", "over"}
         /\ AfterSet(stage) = "run" => stage = "set_run"
  BY Zenon DEF ToSet, AfterSet, Setting

(* A result that waits to be pushed is within the advertised capacity. *)
TicketsBounded == \A r \in Requests : ticket[r] <= Capacity[BackendOf[r]]

BreakerInv == TypeOK /\ WithinAdvertised /\ DebtCovered /\ TicketsBounded

(* It holds with one slot each and no timer. *)
LEMMA BreakerInvInit == Init => BreakerInv
  BY DEF Init, BreakerInv, TypeOK, WithinAdvertised, DebtCovered, TicketsBounded, Stages

(* Every step keeps it. *)
LEMMA BreakerInvNext == BreakerInv /\ [Next]_vars => BreakerInv'
  <1> SUFFICES ASSUME BreakerInv, [Next]_vars PROVE BreakerInv'
    OBVIOUS
  <1>0. ASSUME NEW r \in Requests
        PROVE  LET f == Fold(BackendOf[r], sample[r]) IN
               /\ f.limit \in Nat \ {0} /\ f.limit <= Capacity[BackendOf[r]]
               /\ f.green \in 0..ProbeAfter
    BY FoldBounds DEF BreakerInv, TypeOK, WithinAdvertised
  <1> USE DEF BreakerInv, TypeOK, WithinAdvertised, DebtCovered, TicketsBounded, Stages,
        schedVars, aimdVars, streamVars, Kinds
  <1>1. ASSUME NEW r \in Requests, Admit(r) PROVE BreakerInv'
    BY <1>1 DEF Admit
  <1>2. ASSUME NEW r \in Requests, Refuse(r) PROVE BreakerInv'
    BY <1>2 DEF Refuse
  <1>3. ASSUME NEW r \in Requests, AcquirePermit(r) PROVE BreakerInv'
    BY <1>3 DEF AcquirePermit
  <1>4. ASSUME NEW r \in Requests, Disconnect(r) PROVE BreakerInv'
    BY <1>4 DEF Disconnect, DropStream
  <1>5. ASSUME NEW r \in Requests, FirstPoll(r) PROVE BreakerInv'
    BY <1>5 DEF FirstPoll
  <1>6. ASSUME NEW r \in Requests, ChatOpens(r) PROVE BreakerInv'
    BY <1>6 DEF ChatOpens
  <1>7. ASSUME NEW r \in Requests, EndErrored(r) PROVE BreakerInv'
    BY <1>7 DEF EndErrored, DropStream
  <1>8. ASSUME NEW r \in Requests, EndClean(r) PROVE BreakerInv'
    BY <1>8 DEF EndClean
  <1>9. ASSUME NEW r \in Requests, Record(r) PROVE BreakerInv'
    BY <1>9, <1>0, NextStages DEF Record, Recording, Setting
  <1>10. ASSUME NEW r \in Requests, SetCeiling(r) PROVE BreakerInv'
    BY <1>10, NextStages DEF SetCeiling, Setting, DropStream
  <1>11. ASSUME NEW r \in Requests, NEW kind \in Kinds, ChatFails(r, kind)
       PROVE BreakerInv'
    BY <1>11 DEF ChatFails, NoteBackendError, ErrorSample
  <1>12. ASSUME NEW r \in Requests, NEW kind \in Kinds, StreamError(r, kind)
       PROVE BreakerInv'
    BY <1>12 DEF StreamError, NoteBackendError, ErrorSample
  <1>13. ASSUME NEW r \in Requests, ReportQuality(r) PROVE BreakerInv'
    BY <1>13 DEF ReportQuality
  <1>14. ASSUME NEW b \in Backends, Recover(b) PROVE BreakerInv'
    BY <1>14 DEF Recover
  <1>15. ASSUME UNCHANGED vars PROVE BreakerInv'
    BY <1>15 DEF vars
  <1> HIDE DEF BreakerInv, TypeOK, WithinAdvertised, DebtCovered,
        TicketsBounded, Stages, schedVars, aimdVars, streamVars, Kinds
  <1> QED
    BY <1>1, <1>2, <1>3, <1>4, <1>5, <1>6, <1>7, <1>8, <1>9, <1>10,
       <1>11, <1>12, <1>13, <1>14, <1>15 DEF Next, Step

(* The breaker's invariant in every reachable state. *)
LEMMA BreakerInvAlways == Spec => []BreakerInv
  BY BreakerInvInit, BreakerInvNext, PTL DEF Spec

(* Type correctness; the limit, the ceiling and the target never reach     *)
(* zero.                                                                   *)
THEOREM TypeCorrect == Spec => []TypeOK
  BY BreakerInvAlways, PTL DEF BreakerInv

(* No order of samples, pushes, trips and late recovery timers gives the   *)
(* scheduler more slots than the backend advertises (record's clamp and    *)
(* recover_step's min).                                                    *)
THEOREM StaysAdvertised == Spec => []WithinAdvertised
  BY BreakerInvAlways, PTL DEF BreakerInv

(* Every slot the breaker has taken is owed by a timer that still runs, so *)
(* none is lost however trips, the controller and the timers interleave.   *)
THEOREM DebtAlwaysCovered == Spec => []DebtCovered
  BY BreakerInvAlways, PTL DEF BreakerInv

-----------------------------------------------------------------------------
(* A stream that has been sampled is over, or it is marked as errored and  *)
(* will not be sampled again.                                              *)
SampledOnce ==
    \A r \in Requests :
      /\ samples[r] <= 1
      /\ pc[r] \in {"idle", "slot", "start", "chat", "record_fail", "record_run",
                    "record_end"} => samples[r] = 0
      /\ pc[r] = "run" /\ r \notin errored => samples[r] = 0
      /\ pc[r] \in {"record_run", "set_run"} => r \in errored

SampleInv == TypeOK /\ SampledOnce

(* Every step keeps it: the flag is set with the first error's sample. *)
LEMMA SampleInvNext == SampleInv /\ BreakerInv /\ BreakerInv' /\ [Next]_vars => SampleInv'
  <1> SUFFICES ASSUME SampleInv, BreakerInv', [Next]_vars PROVE SampledOnce'
    BY DEF SampleInv, BreakerInv
  <1> USE DEF SampleInv, SampledOnce, TypeOK, Stages, schedVars, aimdVars, streamVars, Kinds
  <1>1. ASSUME NEW r \in Requests, Admit(r) PROVE SampledOnce'
    BY <1>1 DEF Admit
  <1>2. ASSUME NEW r \in Requests, Refuse(r) PROVE SampledOnce'
    BY <1>2 DEF Refuse
  <1>3. ASSUME NEW r \in Requests, AcquirePermit(r) PROVE SampledOnce'
    BY <1>3 DEF AcquirePermit
  <1>4. ASSUME NEW r \in Requests, Disconnect(r) PROVE SampledOnce'
    BY <1>4 DEF Disconnect, DropStream
  <1>5. ASSUME NEW r \in Requests, FirstPoll(r) PROVE SampledOnce'
    BY <1>5 DEF FirstPoll
  <1>6. ASSUME NEW r \in Requests, ChatOpens(r) PROVE SampledOnce'
    BY <1>6 DEF ChatOpens
  <1>7. ASSUME NEW r \in Requests, EndErrored(r) PROVE SampledOnce'
    BY <1>7 DEF EndErrored, DropStream
  <1>8. ASSUME NEW r \in Requests, EndClean(r) PROVE SampledOnce'
    BY <1>8 DEF EndClean
  <1>9. ASSUME NEW r \in Requests, Record(r) PROVE SampledOnce'
    BY <1>9, NextStages DEF Record, Recording, Setting
  <1>10. ASSUME NEW r \in Requests, SetCeiling(r) PROVE SampledOnce'
    BY <1>10, NextStages DEF SetCeiling, Setting, DropStream
  <1>11. ASSUME NEW r \in Requests, NEW kind \in Kinds, ChatFails(r, kind)
       PROVE SampledOnce'
    BY <1>11 DEF ChatFails, NoteBackendError, ErrorSample
  <1>12. ASSUME NEW r \in Requests, NEW kind \in Kinds, StreamError(r, kind)
       PROVE SampledOnce'
    BY <1>12 DEF StreamError, NoteBackendError, ErrorSample
  <1>13. ASSUME NEW r \in Requests, ReportQuality(r) PROVE SampledOnce'
    BY <1>13 DEF ReportQuality
  <1>14. ASSUME NEW b \in Backends, Recover(b) PROVE SampledOnce'
    BY <1>14 DEF Recover
  <1>15. ASSUME UNCHANGED vars PROVE SampledOnce'
    BY <1>15 DEF vars
  <1> HIDE DEF SampleInv, SampledOnce, TypeOK, Stages, schedVars, aimdVars,
        streamVars, Kinds
  <1> QED
    BY <1>1, <1>2, <1>3, <1>4, <1>5, <1>6, <1>7, <1>8, <1>9, <1>10,
       <1>11, <1>12, <1>13, <1>14, <1>15 DEF Next, Step

(* A stream is one piece of evidence for the controller, however many      *)
(* error items it carries and however it ends (the errored flag of chat's  *)
(* stream loop).                                                           *)
THEOREM StreamsCountOnce == Spec => []OneSamplePerStream
  <1>1. Init => SampleInv
    BY BreakerInvInit DEF BreakerInv, SampleInv, SampledOnce, Init
  <1>2. SampleInv => OneSamplePerStream
    BY DEF SampleInv, SampledOnce, OneSamplePerStream
  <1> QED
    BY <1>1, <1>2, SampleInvNext, BreakerInvAlways, PTL DEF Spec
=============================================================================
