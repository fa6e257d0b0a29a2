------------------------ MODULE IncidentThreadsProofs ------------------------
(***************************************************************************)
(* For any number of participants, tool calls and faults: the types, that  *)
(* the log alone gives back the thread and its counters, and that losing   *)
(* threads.json costs at most one change.                                  *)
(***************************************************************************)
EXTENDS IncidentThreads, FiniteSetTheorems, SequenceTheorems, WellFoundedInduction, TLAPS

USE ThreadsAssumption DEF ThreadsAssumption

-----------------------------------------------------------------------------
(* Numbers *)

(* A set of naturals has a least element. *)
LEMMA LeastExists ==
    ASSUME NEW T, T \subseteq Nat, T # {}
    PROVE  \E x \in T : \A y \in T : x <= y
  <1> DEFINE R == {ss \in Nat \X Nat : ss[1] < ss[2]}
  <1>1. IsWellFoundedOn(R, Nat)
    BY NatLessThanWellFounded DEF OpToRel
  <1>2. \E x \in T : \A y \in T : ~(<<y, x>> \in R)
    BY <1>1, WFMin
  <1>3. \A x, y \in Nat : ~(<<y, x>> \in R) => x <= y
    OBVIOUS
  <1> QED BY <1>2, <1>3

(* A set of naturals below a bound has a greatest. *)
LEMMA GreatestExists ==
    ASSUME NEW T, T \subseteq Nat, T # {}, NEW n \in Nat, \A y \in T : y <= n
    PROVE  Max(T) \in T /\ \A y \in T : y <= Max(T)
  <1> DEFINE D == {k \in Nat : \E x \in T : k = n - x}
  <1>1. D \subseteq Nat /\ D # {}
    <2>1. PICK x \in T : TRUE
      OBVIOUS
    <2>2. n - x \in D
      BY <2>1
    <2> QED BY <2>2
  <1>2. PICK k \in D : \A j \in D : k <= j
    BY <1>1, LeastExists
  <1>3. PICK x \in T : k = n - x
    OBVIOUS
  <1>4. ASSUME NEW y \in T PROVE y <= x
    <2>1. n - y \in D
      BY <1>4
    <2> QED BY <1>2, <1>3, <2>1
  <1> QED BY <1>3, <1>4 DEF Max

(* It is the one. *)
LEMMA MaxIs ==
    ASSUME NEW T, T \subseteq Nat, NEW m \in T, \A y \in T : y <= m
    PROVE  Max(T) = m
  <1>1. \A x \in T : (\A y \in T : x >= y) => x = m
    OBVIOUS
  <1>2. \E x \in T : \A y \in T : x >= y
    OBVIOUS
  <1> QED BY <1>1, <1>2 DEF Max

-----------------------------------------------------------------------------
(* What a log says *)

FullThreads ==
    [state : States, owner : Owners \cup {None}, pinned : BOOLEAN, linked : BOOLEAN,
     updated : Nat, resolved : Nat, reopened : Nat, escalations : Nat]

Owned(msgs) == {i \in DOMAIN msgs : msgs[i].op.owner # None}
Pinned(msgs) == {i \in DOMAIN msgs : msgs[i].op.pin # "none"}

(* The state, the owner and the pin its operations leave. *)
RecState(msgs) == IF Changes(msgs) = {} THEN "none" ELSE msgs[Max(Changes(msgs))].op.state
RecOwner(msgs) == IF Owned(msgs) = {} THEN None ELSE msgs[Max(Owned(msgs))].op.owner
RecPin(msgs) == IF Pinned(msgs) = {} THEN "none" ELSE msgs[Max(Pinned(msgs))].op.pin


(* The first message is the one of thread_open. *)
Opened(msgs) == IF msgs # <<>> /\ msgs[1].op.opened THEN 1 ELSE 0

(* What opens a thread changes nothing else. *)
Opening(m) == m.op.opened => m.text = "opened" /\ m.kind = "event" /\ m.op.state = "none"

(* What a tool posts says in words what its operation says exactly. *)
Worded(m) ==
    /\ m.text = "escalated to" => m.op.state = "escalated" /\ m.op.owner # None
    /\ m.text = "assigned to" => m.op.owner # None
    /\ m.kind = "resolution" => m.op.state # "none"

(* Somebody posted by hand what only looks like a change. *)
ByHand(msgs) == \E i \in DOMAIN msgs : ~Worded(msgs[i])

-----------------------------------------------------------------------------
(* The two passes of rebuild_threads over a log, from any thread *)

GuessTrace(f, b, msgs) ==
    /\ f[0] = b /\ f = [i \in 0..Len(msgs) |-> f[i]]
    /\ \A i \in 1..Len(msgs) : f[i] = Guess(f[i - 1], msgs[i])

ReplayTrace(f, b, msgs) ==
    /\ f[0] = b /\ f = [i \in 0..Len(msgs) |-> f[i]]
    /\ \A i \in 1..Len(msgs) : f[i] = Replay(f[i - 1], msgs[i])

(* The thread rebuild_threads starts from. *)
Bases == {t \in FullThreads : t.state = "open" /\ t.owner = None /\ t.pinned = FALSE /\ t.reopened = 0}

(* What the first pass ends with. *)
GuessEnd(t, b, msgs) ==
    /\ t \in FullThreads /\ t.pinned = FALSE /\ t.updated = b.updated
    /\ Reached(t) + Opened(msgs) <= Len(msgs)
    /\ RecOwner(msgs) = None => t.owner = None \/ ByHand(msgs)
    /\ RecState(msgs) = "none" => t.state = "open" \/ ByHand(msgs)

(* What the second pass ends with. *)
ReplayEnd(t, b, msgs) ==
    /\ t \in FullThreads /\ t.reopened = b.reopened
    /\ t.state = IF RecState(msgs) = "none" THEN b.state ELSE RecState(msgs)
    /\ t.owner = IF RecOwner(msgs) = None THEN b.owner ELSE RecOwner(msgs)
    /\ t.pinned = IF RecPin(msgs) = "none" THEN b.pinned ELSE RecPin(msgs) = "pin"
    /\ t.updated = b.updated \/ \E i \in DOMAIN msgs : t.updated = msgs[i].ts
    /\ \A i \in DOMAIN msgs : msgs[i].op # NoOp => msgs[i].ts <= t.updated

GuessInv(msgs) ==
    \A b \in Bases : /\ \E f : GuessTrace(f, b, msgs)
                     /\ \A f : GuessTrace(f, b, msgs) => GuessEnd(f[Len(msgs)], b, msgs)

ReplayInv(msgs) ==
    \A b \in FullThreads : /\ \E f : ReplayTrace(f, b, msgs)
                           /\ \A f : ReplayTrace(f, b, msgs) => ReplayEnd(f[Len(msgs)], b, msgs)

-----------------------------------------------------------------------------
(* The inductive invariant *)

Types ==
    /\ live \in Threads /\ file \in Threads /\ bak \in Threads
    /\ log \in Seq(Messages) /\ pending \in Messages \cup {NoEvent}
    /\ up \in BOOLEAN /\ active \in BOOLEAN
    /\ clock \in Nat /\ faults \in 0..MaxFaults /\ mishaps \in SUBSET Mishaps
    /\ live # NoThread => up

(* No copy of the thread is from the future. *)
Timely(t, now) == t # NoThread => 0 < now /\ Reached(t) <= now /\ t.updated <= now
CopiesInv == Timely(live, clock) /\ Timely(file, clock) /\ Timely(bak, clock)

(* A call under way has written its change. *)
PendingInv ==
    pending # NoEvent =>
        /\ live # NoThread /\ file # NoThread /\ live.updated = clock /\ file.updated = clock
        /\ pending.ts = clock /\ Worded(pending) /\ Opening(pending) /\ pending.op # NoOp
        /\ pending.kind = "assign" => pending.who # None /\ pending.op.owner = pending.who

(* Every message took a call, and opening the thread took one. *)
RoomInv ==
    LET p == IF pending = NoEvent THEN 0 ELSE 1 IN
    /\ log # <<>> => Len(log) + p < clock + Opened(log)
    /\ log = <<>> /\ pending # NoEvent => 1 < clock + (IF pending.op.opened THEN 1 ELSE 0)

LogInv ==
    /\ \A i \in DOMAIN log : log[i].ts <= clock /\ (pending # NoEvent => log[i].ts < clock)
    /\ ByHand(log) => "handmade" \in mishaps
    /\ GuessInv(log) /\ ReplayInv(log)

(* What a thread is, read off a log.  Its owner may still be to come. *)
Agrees(t, msgs, owner) ==
    /\ t.state = IF RecState(msgs) = "none" THEN "open" ELSE RecState(msgs)
    /\ t.owner = owner
    /\ t.pinned = (RecPin(msgs) = "pin")
    /\ t.escalations = Cardinality(Escalations(msgs))
    /\ t.reopened = Cardinality(Reopenings(msgs))

(* It is what the log says, with the event that is still to be posted. *)
Told(t, msgs, next) ==
    LET posted == IF next = NoEvent THEN msgs ELSE Append(msgs, next) IN
    posted # <<>> /\ Agrees(t, posted, RecOwner(IF next.kind = "assign" THEN msgs ELSE posted))

(* As long as nothing went wrong the copies are one, and are what is told. *)
ExactInv ==
    mishaps \subseteq Harmless =>
        /\ up => live = file
        /\ ~up => file # NoThread
        /\ file = NoThread => log = <<>>
        /\ file # NoThread => Told(file, log, pending)

(* The file is up to date with the log, and a good backup one change behind. *)
Covers(t, ts) == t # NoThread /\ ts <= t.updated
LossInv ==
    "lost" \notin mishaps =>
        \A i \in DOMAIN log : log[i].op # NoOp =>
            /\ Covers(file, log[i].ts)
            /\ "uncopied" \notin mishaps /\ log[i].ts < file.updated => Covers(bak, log[i].ts)

IInv == Types /\ CopiesInv /\ PendingInv /\ RoomInv /\ LogInv /\ ExactInv /\ LossInv

-----------------------------------------------------------------------------
(* Rebuild follows the passes *)

(* The first pass is a trace, if there is one. *)
LEMMA GuessedTraces ==
    ASSUME log \in Seq(Messages), log # <<>>, NEW b, b = [Fresh(log[1].ts) EXCEPT !.updated = log[Len(log)].ts],
           \E f : GuessTrace(f, b, log)
    PROVE  GuessTrace(Guessed, b, log)
  <1> DEFINE n == Len(log)
             Step(g) == [i \in 0..n |-> IF i = 0 THEN b ELSE Guess(g[i - 1], log[i])]
  <1>1. n \in Nat
    BY LenProperties
  <1>2. PICK f : GuessTrace(f, b, log)
    OBVIOUS
  <1>4. Guessed = CHOOSE g : g = Step(g)
    BY DEF Guessed
  <1> HIDE DEF n
  <1>3. f = Step(f)
    <2>1. f = [i \in 0..n |-> f[i]] /\ f[0] = b /\ \A i \in 1..n : f[i] = Guess(f[i - 1], log[i])
      BY <1>2 DEF GuessTrace, n
    <2>2. \A i \in 0..n : i = 0 \/ i \in 1..n
      BY <1>1
    <2>3. \A i \in 0..n : f[i] = IF i = 0 THEN b ELSE Guess(f[i - 1], log[i])
      BY <2>1, <2>2, Zenon
    <2> QED BY <2>1, <2>3
  <1> HIDE DEF Step
  <1>5. Guessed = Step(Guessed)
    BY <1>3, <1>4
  <1> HIDE DEF Guessed
  <1>6. Guessed = [i \in 0..n |-> IF i = 0 THEN b ELSE Guess(Guessed[i - 1], log[i])]
    BY <1>5 DEF Step
  <1>7. \A i \in 0..n : Guessed[i] = IF i = 0 THEN b ELSE Guess(Guessed[i - 1], log[i])
    BY <1>6
  <1>8. \A i \in 1..n : i \in 0..n /\ i # 0
    BY <1>1
  <1>9. Guessed[0] = b /\ \A i \in 1..n : Guessed[i] = Guess(Guessed[i - 1], log[i])
    <2>1. 0 \in 0..n
      BY <1>1
    <2> QED BY <1>7, <1>8, <2>1, Zenon
  <1>10. Guessed = [i \in 0..n |-> Guessed[i]]
    BY <1>6, <1>7, Zenon
  <1> QED BY <1>9, <1>10 DEF GuessTrace, n

(* So is the second. *)
LEMMA ReplayedTraces ==
    ASSUME log \in Seq(Messages), NEW b, b = Guessed[Len(log)], \E f : ReplayTrace(f, b, log)
    PROVE  ReplayTrace(Replayed, b, log)
  <1> DEFINE n == Len(log)
             Step(g) == [i \in 0..n |-> IF i = 0 THEN b ELSE Replay(g[i - 1], log[i])]
  <1>1. n \in Nat
    BY LenProperties
  <1>2. PICK f : ReplayTrace(f, b, log)
    OBVIOUS
  <1>4. Replayed = CHOOSE g : g = Step(g)
    BY DEF Replayed
  <1> HIDE DEF n
  <1>3. f = Step(f)
    <2>1. f = [i \in 0..n |-> f[i]] /\ f[0] = b /\ \A i \in 1..n : f[i] = Replay(f[i - 1], log[i])
      BY <1>2 DEF ReplayTrace, n
    <2>2. \A i \in 0..n : i = 0 \/ i \in 1..n
      BY <1>1
    <2>3. \A i \in 0..n : f[i] = IF i = 0 THEN b ELSE Replay(f[i - 1], log[i])
      BY <2>1, <2>2, Zenon
    <2> QED BY <2>1, <2>3
  <1> HIDE DEF Step
  <1>5. Replayed = Step(Replayed)
    BY <1>3, <1>4
  <1>6. Replayed = [i \in 0..n |-> IF i = 0 THEN b ELSE Replay(Replayed[i - 1], log[i])]
    BY <1>5 DEF Step
  <1>7. \A i \in 0..n : Replayed[i] = IF i = 0 THEN b ELSE Replay(Replayed[i - 1], log[i])
    BY <1>6
  <1>8. \A i \in 1..n : i \in 0..n /\ i # 0
    BY <1>1
  <1>9. Replayed[0] = b /\ \A i \in 1..n : Replayed[i] = Replay(Replayed[i - 1], log[i])
    <2>1. 0 \in 0..n
      BY <1>1
    <2> QED BY <1>7, <1>8, <2>1, Zenon
  <1>10. Replayed = [i \in 0..n |-> Replayed[i]]
    BY <1>6, <1>7, Zenon
  <1> QED BY <1>9, <1>10 DEF ReplayTrace, n

-----------------------------------------------------------------------------
(* One message more *)

(* The sequence itself. *)
LEMMA Longer ==
    ASSUME NEW msgs \in Seq(Messages), NEW m \in Messages
    PROVE  /\ Append(msgs, m) \in Seq(Messages) /\ Append(msgs, m) # <<>>
           /\ Len(msgs) \in Nat /\ Len(Append(msgs, m)) = Len(msgs) + 1
           /\ DOMAIN msgs = 1..Len(msgs) /\ DOMAIN Append(msgs, m) = 1..(Len(msgs) + 1)
           /\ \A i \in 1..Len(msgs) : Append(msgs, m)[i] = msgs[i]
           /\ Append(msgs, m)[Len(msgs) + 1] = m
  BY LenProperties, AppendProperties

(* The state it records. *)
LEMMA RecStateAppend ==
    ASSUME NEW msgs \in Seq(Messages), NEW m \in Messages
    PROVE  /\ RecState(Append(msgs, m)) = IF m.op.state = "none" THEN RecState(msgs) ELSE m.op.state
           /\ RecState(msgs) = "none" <=> Changes(msgs) = {}
           /\ Changes(Append(msgs, m)) = IF m.op.state = "none" THEN Changes(msgs) ELSE Changes(msgs) \cup {Len(msgs) + 1}
  <1> DEFINE n == Len(msgs)
             next == Append(msgs, m)
  <1>1. /\ n \in Nat /\ DOMAIN msgs = 1..n /\ DOMAIN next = 1..(n + 1)
        /\ \A i \in 1..n : next[i] = msgs[i]
        /\ next[n + 1] = m
    BY Longer
  <1> HIDE DEF n, next
  <1>2. Changes(next) = IF m.op.state = "none" THEN Changes(msgs) ELSE Changes(msgs) \cup {n + 1}
    BY <1>1 DEF Changes
  <1>3. Changes(msgs) \subseteq 1..n
    BY <1>1 DEF Changes
  <1>4. Changes(msgs) # {} => Max(Changes(msgs)) \in Changes(msgs)
    <2>1. Changes(msgs) \subseteq Nat /\ \A y \in Changes(msgs) : y <= n
      BY <1>1, <1>3
    <2> QED BY <1>1, <2>1, GreatestExists
  <1>5. RecState(msgs) = "none" <=> Changes(msgs) = {}
    BY <1>4 DEF RecState, Changes
  <1>6. CASE m.op.state = "none"
    <2>1. Changes(next) = Changes(msgs)
      BY <1>2, <1>6
    <2>2. Changes(msgs) # {} => next[Max(Changes(msgs))] = msgs[Max(Changes(msgs))]
      BY <1>1, <1>3, <1>4
    <2>3. RecState(next) = RecState(msgs)
      BY <2>1, <2>2 DEF RecState
    <2> QED BY <1>2, <1>5, <1>6, <2>3 DEF n, next
  <1>7. CASE m.op.state # "none"
    <2>1. Changes(next) \subseteq Nat /\ n + 1 \in Changes(next) /\ \A y \in Changes(next) : y <= n + 1
      BY <1>1, <1>2, <1>3, <1>7
    <2>2. Max(Changes(next)) = n + 1
      BY <2>1, MaxIs
    <2>3. RecState(next) = m.op.state
      BY <1>1, <2>1, <2>2 DEF RecState
    <2> QED BY <1>2, <1>5, <1>7, <2>3 DEF n, next
  <1> QED BY <1>6, <1>7

(* The owner it records. *)
LEMMA RecOwnerAppend ==
    ASSUME NEW msgs \in Seq(Messages), NEW m \in Messages
    PROVE  /\ RecOwner(Append(msgs, m)) = IF m.op.owner = None THEN RecOwner(msgs) ELSE m.op.owner
           /\ RecOwner(msgs) = None <=> Owned(msgs) = {}
           /\ Owned(Append(msgs, m)) = IF m.op.owner = None THEN Owned(msgs) ELSE Owned(msgs) \cup {Len(msgs) + 1}
  <1> DEFINE n == Len(msgs)
             next == Append(msgs, m)
  <1>1. /\ n \in Nat /\ DOMAIN msgs = 1..n /\ DOMAIN next = 1..(n + 1)
        /\ \A i \in 1..n : next[i] = msgs[i]
        /\ next[n + 1] = m
    BY Longer
  <1> HIDE DEF n, next
  <1>2. Owned(next) = IF m.op.owner = None THEN Owned(msgs) ELSE Owned(msgs) \cup {n + 1}
    BY <1>1 DEF Owned
  <1>3. Owned(msgs) \subseteq 1..n
    BY <1>1 DEF Owned
  <1>4. Owned(msgs) # {} => Max(Owned(msgs)) \in Owned(msgs)
    <2>1. Owned(msgs) \subseteq Nat /\ \A y \in Owned(msgs) : y <= n
      BY <1>1, <1>3
    <2> QED BY <1>1, <2>1, GreatestExists
  <1>5. RecOwner(msgs) = None <=> Owned(msgs) = {}
    BY <1>4 DEF RecOwner, Owned
  <1>6. CASE m.op.owner = None
    <2>1. Owned(next) = Owned(msgs)
      BY <1>2, <1>6
    <2>2. Owned(msgs) # {} => next[Max(Owned(msgs))] = msgs[Max(Owned(msgs))]
      BY <1>1, <1>3, <1>4
    <2>3. RecOwner(next) = RecOwner(msgs)
      BY <2>1, <2>2 DEF RecOwner
    <2> QED BY <1>2, <1>5, <1>6, <2>3 DEF n, next
  <1>7. CASE m.op.owner # None
    <2>1. Owned(next) \subseteq Nat /\ n + 1 \in Owned(next) /\ \A y \in Owned(next) : y <= n + 1
      BY <1>1, <1>2, <1>3, <1>7
    <2>2. Max(Owned(next)) = n + 1
      BY <2>1, MaxIs
    <2>3. RecOwner(next) = m.op.owner
      BY <1>1, <2>1, <2>2 DEF RecOwner
    <2> QED BY <1>2, <1>5, <1>7, <2>3 DEF n, next
  <1> QED BY <1>6, <1>7

(* The pin it records. *)
LEMMA RecPinAppend ==
    ASSUME NEW msgs \in Seq(Messages), NEW m \in Messages
    PROVE  /\ RecPin(Append(msgs, m)) = IF m.op.pin = "none" THEN RecPin(msgs) ELSE m.op.pin
           /\ RecPin(msgs) = "none" <=> Pinned(msgs) = {}
           /\ Pinned(Append(msgs, m)) = IF m.op.pin = "none" THEN Pinned(msgs) ELSE Pinned(msgs) \cup {Len(msgs) + 1}
  <1> DEFINE n == Len(msgs)
             next == Append(msgs, m)
  <1>1. /\ n \in Nat /\ DOMAIN msgs = 1..n /\ DOMAIN next = 1..(n + 1)
        /\ \A i \in 1..n : next[i] = msgs[i]
        /\ next[n + 1] = m
    BY Longer
  <1> HIDE DEF n, next
  <1>2. Pinned(next) = IF m.op.pin = "none" THEN Pinned(msgs) ELSE Pinned(msgs) \cup {n + 1}
    BY <1>1 DEF Pinned
  <1>3. Pinned(msgs) \subseteq 1..n
    BY <1>1 DEF Pinned
  <1>4. Pinned(msgs) # {} => Max(Pinned(msgs)) \in Pinned(msgs)
    <2>1. Pinned(msgs) \subseteq Nat /\ \A y \in Pinned(msgs) : y <= n
      BY <1>1, <1>3
    <2> QED BY <1>1, <2>1, GreatestExists
  <1>5. RecPin(msgs) = "none" <=> Pinned(msgs) = {}
    BY <1>4 DEF RecPin, Pinned
  <1>6. CASE m.op.pin = "none"
    <2>1. Pinned(next) = Pinned(msgs)
      BY <1>2, <1>6
    <2>2. Pinned(msgs) # {} => next[Max(Pinned(msgs))] = msgs[Max(Pinned(msgs))]
      BY <1>1, <1>3, <1>4
    <2>3. RecPin(next) = RecPin(msgs)
      BY <2>1, <2>2 DEF RecPin
    <2> QED BY <1>2, <1>5, <1>6, <2>3 DEF n, next
  <1>7. CASE m.op.pin # "none"
    <2>1. Pinned(next) \subseteq Nat /\ n + 1 \in Pinned(next) /\ \A y \in Pinned(next) : y <= n + 1
      BY <1>1, <1>2, <1>3, <1>7
    <2>2. Max(Pinned(next)) = n + 1
      BY <2>1, MaxIs
    <2>3. RecPin(next) = m.op.pin
      BY <1>1, <2>1, <2>2 DEF RecPin
    <2> QED BY <1>2, <1>5, <1>7, <2>3 DEF n, next
  <1> QED BY <1>6, <1>7

(* The states before do not change. *)
LEMMA StateBeforeAppend ==
    ASSUME NEW msgs \in Seq(Messages), NEW m \in Messages
    PROVE  /\ \A i \in 1..(Len(msgs) + 1) : StateBefore(Append(msgs, m), i) = StateBefore(msgs, i)
           /\ StateBefore(msgs, Len(msgs) + 1) = IF RecState(msgs) = "none" THEN "open" ELSE RecState(msgs)
  <1> DEFINE n == Len(msgs)
             next == Append(msgs, m)
  <1>1. /\ n \in Nat /\ DOMAIN msgs = 1..n /\ DOMAIN next = 1..(n + 1)
        /\ \A i \in 1..n : next[i] = msgs[i]
    BY Longer
  <1>2. /\ Changes(next) = IF m.op.state = "none" THEN Changes(msgs) ELSE Changes(msgs) \cup {n + 1}
        /\ RecState(msgs) = "none" <=> Changes(msgs) = {}
    BY RecStateAppend
  <1> HIDE DEF n, next
  <1>3. Changes(msgs) \subseteq 1..n
    BY <1>1 DEF Changes
  <1>4. ASSUME NEW i \in 1..(n + 1) PROVE StateBefore(next, i) = StateBefore(msgs, i)
    <2> DEFINE S == {j \in Changes(msgs) : j < i}
    <2>1. {j \in Changes(next) : j < i} = S
      BY <1>1, <1>2, <1>3
    <2>2. S \subseteq Nat /\ (\A y \in S : y <= n) /\ S \subseteq 1..n
      BY <1>1, <1>3
    <2> HIDE DEF S
    <2>3. S # {} => Max(S) \in S
      BY <1>1, <2>2, GreatestExists
    <2>4. S # {} => next[Max(S)] = msgs[Max(S)]
      BY <1>1, <2>2, <2>3
    <2>5. StateBefore(next, i) = IF S = {} THEN "open" ELSE next[Max(S)].op.state
      BY <2>1 DEF StateBefore
    <2>6. StateBefore(msgs, i) = IF S = {} THEN "open" ELSE msgs[Max(S)].op.state
      BY DEF StateBefore, S
    <2> QED BY <2>4, <2>5, <2>6
  <1>5. {j \in Changes(msgs) : j < n + 1} = Changes(msgs)
    BY <1>1, <1>3
  <1>6. StateBefore(msgs, n + 1) = IF RecState(msgs) = "none" THEN "open" ELSE RecState(msgs)
    BY <1>2, <1>5 DEF StateBefore, RecState
  <1> QED BY <1>4, <1>6 DEF n, next

(* A message counts as an escalation or a reopening, or it does not. *)
LEMMA CountsAppend ==
    ASSUME NEW msgs \in Seq(Messages), NEW m \in Messages, NEW s,
           s = IF RecState(msgs) = "none" THEN "open" ELSE RecState(msgs)
    PROVE  /\ Cardinality(Escalations(msgs)) \in Nat /\ Cardinality(Reopenings(msgs)) \in Nat
           /\ Cardinality(Escalations(Append(msgs, m))) =
                Cardinality(Escalations(msgs)) + (IF m.op.state = "escalated" /\ s # "escalated" THEN 1 ELSE 0)
           /\ Cardinality(Reopenings(Append(msgs, m))) =
                Cardinality(Reopenings(msgs)) + (IF m.op.state # "none" /\ Terminal(s) /\ ~Terminal(m.op.state) THEN 1 ELSE 0)
  <1> DEFINE n == Len(msgs)
             next == Append(msgs, m)
  <1>1. /\ n \in Nat /\ DOMAIN msgs = 1..n /\ DOMAIN next = 1..(n + 1)
        /\ \A i \in 1..n : next[i] = msgs[i]
        /\ next[n + 1] = m
    BY Longer
  <1>2. Changes(next) = IF m.op.state = "none" THEN Changes(msgs) ELSE Changes(msgs) \cup {n + 1}
    BY RecStateAppend
  <1>3. (\A i \in 1..(n + 1) : StateBefore(next, i) = StateBefore(msgs, i)) /\ StateBefore(msgs, n + 1) = s
    BY StateBeforeAppend
  <1> HIDE DEF n, next
  <1>4. Changes(msgs) \subseteq 1..n
    BY <1>1 DEF Changes
  <1>5. Escalations(msgs) \subseteq 1..n /\ Reopenings(msgs) \subseteq 1..n
    BY <1>4 DEF Escalations, Reopenings
  <1>6. IsFiniteSet(1..n)
    BY <1>1, FS_Interval
  <1>7. IsFiniteSet(Escalations(msgs)) /\ IsFiniteSet(Reopenings(msgs))
    BY <1>5, <1>6, FS_Subset
  <1>8. n + 1 \notin Escalations(msgs) /\ n + 1 \notin Reopenings(msgs)
    BY <1>1, <1>5
  <1>9. Escalations(next) = IF m.op.state = "escalated" /\ s # "escalated" THEN Escalations(msgs) \cup {n + 1} ELSE Escalations(msgs)
    BY <1>1, <1>2, <1>3, <1>4 DEF Escalations
  <1>10. Reopenings(next) =
            IF m.op.state # "none" /\ Terminal(s) /\ ~Terminal(m.op.state) THEN Reopenings(msgs) \cup {n + 1} ELSE Reopenings(msgs)
    BY <1>1, <1>2, <1>3, <1>4 DEF Reopenings
  <1>11. Cardinality(Escalations(msgs)) \in Nat /\ Cardinality(Reopenings(msgs)) \in Nat
    BY <1>7, FS_CardinalityType
  <1>12. /\ Cardinality(Escalations(msgs) \cup {n + 1}) = Cardinality(Escalations(msgs)) + 1
         /\ Cardinality(Reopenings(msgs) \cup {n + 1}) = Cardinality(Reopenings(msgs)) + 1
    BY <1>7, <1>8, FS_AddElement
  <1>13. Cardinality(Escalations(next)) = Cardinality(Escalations(msgs)) + (IF m.op.state = "escalated" /\ s # "escalated" THEN 1 ELSE 0)
    BY <1>9, <1>11, <1>12
  <1>14. Cardinality(Reopenings(next)) =
            Cardinality(Reopenings(msgs)) + (IF m.op.state # "none" /\ Terminal(s) /\ ~Terminal(m.op.state) THEN 1 ELSE 0)
    BY <1>10, <1>11, <1>12
  <1> QED BY <1>11, <1>13, <1>14 DEF next

-----------------------------------------------------------------------------
(* The passes, message by message *)

(* What one message does in the second pass. *)
LEMMA ReplayOne ==
    ASSUME NEW t \in FullThreads, NEW m \in Messages, NEW u, u = Replay(t, m)
    PROVE  /\ u \in FullThreads /\ u.reopened = t.reopened
           /\ u.state = IF m.op.state = "none" THEN t.state ELSE m.op.state
           /\ u.owner = IF m.op.owner = None THEN t.owner ELSE m.op.owner
           /\ u.pinned = IF m.op.pin = "none" THEN t.pinned ELSE m.op.pin = "pin"
           /\ u.updated = IF m.op = NoOp THEN t.updated ELSE m.ts
  <1>0. m.op \in Ops /\ m.ts \in Nat
    BY DEF Messages
  <1>1. CASE m.op = NoOp
    BY <1>1 DEF Replay, NoOp
  <1>2. CASE m.op # NoOp
    <2>1. u = [t EXCEPT !.state = IF m.op.state = "none" THEN @ ELSE m.op.state,
                        !.owner = IF m.op.owner = None THEN @ ELSE m.op.owner,
                        !.pinned = IF m.op.pin = "none" THEN @ ELSE m.op.pin = "pin",
                        !.updated = m.ts]
      BY <1>2 DEF Replay
    <2> QED BY <1>0, <1>2, <2>1 DEF FullThreads, Ops
  <1> QED BY <1>1, <1>2

(* What one message does to the thread in the first pass. *)
GuessStep(t, m, u) ==
    /\ u \in FullThreads /\ u.pinned = t.pinned /\ u.updated = t.updated
    /\ m.kind = "resolution" => u.state = "resolved" /\ u.owner = t.owner /\ u.reopened = t.reopened
    /\ m.kind = "event" /\ m.text = "escalated to" =>
         /\ u.state = "escalated" /\ u.owner = m.who
         /\ u.reopened = IF Terminal(t.state) THEN t.reopened + 1 ELSE t.reopened
    /\ m.kind # "resolution" /\ ~(m.kind = "event" /\ m.text = "escalated to") =>
         /\ u.state = t.state /\ u.reopened = t.reopened
         /\ u.owner = IF m.kind = "event" /\ m.text = "assigned to" THEN m.who ELSE t.owner

(* One message of the first pass does just that. *)
LEMMA GuessOne ==
    ASSUME NEW t \in FullThreads, NEW m \in Messages, NEW u, u = Guess(t, m)
    PROVE  GuessStep(t, m, u)
  <1>0. m.who \in Owners \cup {None} /\ m.ts \in Nat
    BY DEF Messages
  <1>1. CASE m.kind = "resolution"
    BY <1>0, <1>1 DEF Guess, GuessStep, FullThreads, States
  <1>2. CASE m.kind = "event" /\ m.text = "escalated to"
    <2>1. u = [t EXCEPT !.state = "escalated", !.owner = m.who,
                  !.reopened = IF Terminal(t.state) THEN @ + 1 ELSE @,
                  !.resolved = IF Terminal(t.state) THEN 0 ELSE @,
                  !.escalations = IF t.state # "escalated" THEN @ + 1 ELSE @]
      BY <1>2 DEF Guess
    <2> DEFINE r == IF Terminal(t.state) THEN t.reopened + 1 ELSE t.reopened
               d == IF Terminal(t.state) THEN 0 ELSE t.resolved
               e == IF t.state # "escalated" THEN t.escalations + 1 ELSE t.escalations
    <2>2. r \in Nat /\ d \in Nat /\ e \in Nat
      BY DEF FullThreads
    <2>3. u = [t EXCEPT !.state = "escalated", !.owner = m.who, !.reopened = r, !.resolved = d, !.escalations = e]
      BY <2>1
    <2> HIDE DEF r, d, e
    <2>4. /\ u \in FullThreads /\ u.pinned = t.pinned /\ u.updated = t.updated
          /\ u.state = "escalated" /\ u.owner = m.who /\ u.reopened = r
      BY <1>0, <2>2, <2>3 DEF FullThreads, States
    <2> QED BY <1>2, <2>4 DEF GuessStep, r
  <1>3. CASE m.kind # "resolution" /\ ~(m.kind = "event" /\ m.text = "escalated to")
    BY <1>0, <1>3 DEF Guess, GuessStep, FullThreads
  <1> QED BY <1>1, <1>2, <1>3

(* The second pass over one message more. *)
LEMMA ReplayAppend ==
    ASSUME NEW msgs \in Seq(Messages), NEW m \in Messages, ReplayInv(msgs), \A i \in DOMAIN msgs : msgs[i].ts <= m.ts
    PROVE  ReplayInv(Append(msgs, m))
  <1> DEFINE n == Len(msgs)
             next == Append(msgs, m)
  <1>1. /\ n \in Nat /\ Len(next) = n + 1 /\ DOMAIN msgs = 1..n /\ DOMAIN next = 1..(n + 1)
        /\ \A i \in 1..n : next[i] = msgs[i]
        /\ next[n + 1] = m
    BY Longer
  <1>2. /\ RecState(next) = IF m.op.state = "none" THEN RecState(msgs) ELSE m.op.state
        /\ RecOwner(next) = IF m.op.owner = None THEN RecOwner(msgs) ELSE m.op.owner
        /\ RecPin(next) = IF m.op.pin = "none" THEN RecPin(msgs) ELSE m.op.pin
    BY RecStateAppend, RecOwnerAppend, RecPinAppend
  <1> HIDE DEF next
  <1> SUFFICES ASSUME NEW b \in FullThreads
               PROVE  /\ \E f : ReplayTrace(f, b, next)
                      /\ \A f : ReplayTrace(f, b, next) => ReplayEnd(f[n + 1], b, next)
    BY <1>1 DEF ReplayInv, next
  <1>3. (\E f : ReplayTrace(f, b, msgs)) /\ \A f : ReplayTrace(f, b, msgs) => ReplayEnd(f[n], b, msgs)
    BY DEF ReplayInv
  <1> HIDE DEF n
  <1>4. \E f : ReplayTrace(f, b, next)
    <2>1. PICK f : ReplayTrace(f, b, msgs)
      BY <1>3
    <2> DEFINE g == [i \in 0..(n + 1) |-> IF i <= n THEN f[i] ELSE Replay(f[n], m)]
    <2>2. f[0] = b /\ \A i \in 1..n : f[i] = Replay(f[i - 1], msgs[i])
      BY <2>1 DEF ReplayTrace, n
    <2>3. g = [i \in 0..(n + 1) |-> g[i]] /\ g[0] = b
      BY <1>1, <2>2
    <2>4. ASSUME NEW i \in 1..(n + 1) PROVE g[i] = Replay(g[i - 1], next[i])
      <3>1. CASE i <= n
        <4>1. i \in 1..n /\ g[i] = f[i] /\ g[i - 1] = f[i - 1]
          BY <1>1, <3>1
        <4> QED BY <1>1, <2>2, <4>1
      <3>2. CASE ~(i <= n)
        <4>1. i = n + 1
          BY <1>1, <3>2
        <4>2. g[i] = Replay(f[n], m) /\ g[i - 1] = f[n]
          BY <1>1, <4>1
        <4> QED BY <1>1, <4>1, <4>2
      <3> QED BY <3>1, <3>2
    <2> HIDE DEF g
    <2>5. ReplayTrace(g, b, next)
      BY <1>1, <2>3, <2>4 DEF ReplayTrace
    <2> QED BY <2>5
  <1>5. ASSUME NEW f, ReplayTrace(f, b, next) PROVE ReplayEnd(f[n + 1], b, next)
    <2> DEFINE g == [i \in 0..n |-> f[i]]
    <2>1. f[0] = b /\ \A i \in 1..(n + 1) : f[i] = Replay(f[i - 1], next[i])
      BY <1>1, <1>5 DEF ReplayTrace
    <2>2. ReplayTrace(g, b, msgs)
      <3>1. g[0] = b /\ g = [i \in 0..n |-> g[i]]
        BY <1>1, <2>1
      <3>2. ASSUME NEW i \in 1..n PROVE g[i] = Replay(g[i - 1], msgs[i])
        <4>1. i \in 1..(n + 1) /\ g[i] = f[i] /\ g[i - 1] = f[i - 1]
          BY <1>1
        <4> QED BY <1>1, <2>1, <4>1
      <3> HIDE DEF g
      <3> QED BY <3>1, <3>2 DEF ReplayTrace, n
    <2>3. g[n] = f[n] /\ f[n + 1] = Replay(f[n], m)
      BY <1>1, <2>1
    <2> HIDE DEF g
    <2>4. ReplayEnd(f[n], b, msgs)
      BY <1>3, <2>2, <2>3
    <2> DEFINE t == f[n]
               u == f[n + 1]
    <2>5. t \in FullThreads /\ u = Replay(t, m)
      BY <2>3, <2>4 DEF ReplayEnd
    <2>6. /\ u \in FullThreads /\ u.reopened = t.reopened
          /\ u.state = IF m.op.state = "none" THEN t.state ELSE m.op.state
          /\ u.owner = IF m.op.owner = None THEN t.owner ELSE m.op.owner
          /\ u.pinned = IF m.op.pin = "none" THEN t.pinned ELSE m.op.pin = "pin"
          /\ u.updated = IF m.op = NoOp THEN t.updated ELSE m.ts
      BY <2>5, ReplayOne
    <2>7. ReplayEnd(t, b, msgs)
      BY <2>4
    <2> HIDE DEF t, u
    <2>8. ReplayEnd(u, b, next)
      <3>1. u.state = IF RecState(next) = "none" THEN b.state ELSE RecState(next)
        BY <1>2, <2>6, <2>7 DEF ReplayEnd
      <3>2. u.owner = IF RecOwner(next) = None THEN b.owner ELSE RecOwner(next)
        BY <1>2, <2>6, <2>7 DEF ReplayEnd
      <3>3. u.pinned = IF RecPin(next) = "none" THEN b.pinned ELSE RecPin(next) = "pin"
        BY <1>2, <2>6, <2>7 DEF ReplayEnd
      <3>4. u.updated = b.updated \/ \E i \in DOMAIN next : u.updated = next[i].ts
        <4>1. CASE m.op = NoOp
          <5>1. u.updated = b.updated \/ \E i \in 1..n : u.updated = msgs[i].ts
            BY <1>1, <2>6, <2>7, <4>1 DEF ReplayEnd
          <5> QED BY <1>1, <5>1
        <4>2. CASE m.op # NoOp
          BY <1>1, <2>6, <4>2
        <4> QED BY <4>1, <4>2
      <3>5. ASSUME NEW i \in DOMAIN next, next[i].op # NoOp PROVE next[i].ts <= u.updated
        <4>1. m.ts \in Nat
          BY DEF Messages
        <4>2. CASE i = n + 1
          BY <1>1, <2>6, <3>5, <4>1, <4>2
        <4>3. CASE i # n + 1
          <5>1. i \in 1..n /\ next[i] = msgs[i]
            BY <1>1, <4>3
          <5> QED BY <1>1, <2>6, <2>7, <3>5, <5>1 DEF ReplayEnd
        <4> QED BY <4>2, <4>3
      <3> QED BY <2>6, <2>7, <3>1, <3>2, <3>3, <3>4, <3>5 DEF ReplayEnd
    <2> QED BY <2>8 DEF u
  <1> QED BY <1>4, <1>5

(* The first pass over one message more. *)
LEMMA GuessAppend ==
    ASSUME NEW msgs \in Seq(Messages), NEW m \in Messages, GuessInv(msgs), Opening(m)
    PROVE  GuessInv(Append(msgs, m))
  <1> DEFINE n == Len(msgs)
             next == Append(msgs, m)
  <1>1. /\ n \in Nat /\ Len(next) = n + 1 /\ DOMAIN msgs = 1..n /\ DOMAIN next = 1..(n + 1)
        /\ \A i \in 1..n : next[i] = msgs[i]
        /\ next[n + 1] = m /\ next # <<>>
    BY Longer
  <1>2. /\ RecState(next) = IF m.op.state = "none" THEN RecState(msgs) ELSE m.op.state
        /\ RecOwner(next) = IF m.op.owner = None THEN RecOwner(msgs) ELSE m.op.owner
    BY RecStateAppend, RecOwnerAppend
  <1> HIDE DEF next
  <1> SUFFICES ASSUME NEW b \in Bases
               PROVE  /\ \E f : GuessTrace(f, b, next)
                      /\ \A f : GuessTrace(f, b, next) => GuessEnd(f[n + 1], b, next)
    BY <1>1 DEF GuessInv, next
  <1>3. (\E f : GuessTrace(f, b, msgs)) /\ \A f : GuessTrace(f, b, msgs) => GuessEnd(f[n], b, msgs)
    BY DEF GuessInv
  <1>o. Opened(msgs) \in {0, 1} /\ Opened(next) \in {0, 1} /\ (n = 0 => Opened(msgs) = 0)
        /\ (n # 0 => Opened(next) = Opened(msgs)) /\ (n = 0 => Opened(next) = IF m.op.opened THEN 1 ELSE 0)
    <2>1. msgs = <<>> <=> n = 0
      BY EmptySeq
    <2>2. n # 0 => next[1] = msgs[1]
      BY <1>1
    <2>3. n = 0 => next[1] = m
      BY <1>1
    <2> QED BY <1>1, <2>1, <2>2, <2>3 DEF Opened
  <1>h. /\ ByHand(msgs) => ByHand(next)
        /\ ~Worded(m) => ByHand(next)
    BY <1>1 DEF ByHand
  <1> HIDE DEF n
  <1>4. \E f : GuessTrace(f, b, next)
    <2>1. PICK f : GuessTrace(f, b, msgs)
      BY <1>3
    <2> DEFINE g == [i \in 0..(n + 1) |-> IF i <= n THEN f[i] ELSE Guess(f[n], m)]
    <2>2. f[0] = b /\ \A i \in 1..n : f[i] = Guess(f[i - 1], msgs[i])
      BY <2>1 DEF GuessTrace, n
    <2>3. g = [i \in 0..(n + 1) |-> g[i]] /\ g[0] = b
      BY <1>1, <2>2
    <2>4. ASSUME NEW i \in 1..(n + 1) PROVE g[i] = Guess(g[i - 1], next[i])
      <3>1. CASE i <= n
        <4>1. i \in 1..n /\ g[i] = f[i] /\ g[i - 1] = f[i - 1]
          BY <1>1, <3>1
        <4> QED BY <1>1, <2>2, <4>1
      <3>2. CASE ~(i <= n)
        <4>1. i = n + 1
          BY <1>1, <3>2
        <4>2. g[i] = Guess(f[n], m) /\ g[i - 1] = f[n]
          BY <1>1, <4>1
        <4> QED BY <1>1, <4>1, <4>2
      <3> QED BY <3>1, <3>2
    <2> HIDE DEF g
    <2>5. GuessTrace(g, b, next)
      BY <1>1, <2>3, <2>4 DEF GuessTrace
    <2> QED BY <2>5
  <1>5. ASSUME NEW f, GuessTrace(f, b, next) PROVE GuessEnd(f[n + 1], b, next)
    <2> DEFINE g == [i \in 0..n |-> f[i]]
    <2>1. f[0] = b /\ \A i \in 1..(n + 1) : f[i] = Guess(f[i - 1], next[i])
      BY <1>1, <1>5 DEF GuessTrace
    <2>2. GuessTrace(g, b, msgs)
      <3>1. g[0] = b /\ g = [i \in 0..n |-> g[i]]
        BY <1>1, <2>1
      <3>2. ASSUME NEW i \in 1..n PROVE g[i] = Guess(g[i - 1], msgs[i])
        <4>1. i \in 1..(n + 1) /\ g[i] = f[i] /\ g[i - 1] = f[i - 1]
          BY <1>1
        <4> QED BY <1>1, <2>1, <4>1
      <3> HIDE DEF g
      <3> QED BY <3>1, <3>2 DEF GuessTrace, n
    <2>3. g[n] = f[n] /\ f[n + 1] = Guess(f[n], m)
      BY <1>1, <2>1
    <2> HIDE DEF g
    <2> DEFINE t == f[n]
               u == f[n + 1]
    <2>4. GuessEnd(t, b, msgs)
      BY <1>3, <2>2, <2>3
    <2>5. t \in FullThreads /\ u = Guess(t, m)
      BY <2>3, <2>4 DEF GuessEnd
    <2> HIDE DEF t, u
    <2>6. /\ u \in FullThreads /\ u.pinned = t.pinned /\ u.updated = t.updated
          /\ m.kind = "resolution" => u.state = "resolved" /\ u.owner = t.owner /\ u.reopened = t.reopened
          /\ m.kind = "event" /\ m.text = "escalated to" =>
               /\ u.state = "escalated" /\ u.owner = m.who
               /\ u.reopened = IF Terminal(t.state) THEN t.reopened + 1 ELSE t.reopened
          /\ m.kind # "resolution" /\ ~(m.kind = "event" /\ m.text = "escalated to") =>
               /\ u.state = t.state /\ u.reopened = t.reopened
               /\ u.owner = IF m.kind = "event" /\ m.text = "assigned to" THEN m.who ELSE t.owner
      <3>1. m \in Messages /\ t \in FullThreads /\ u = Guess(t, m)
        BY <2>5
      <3>2. GuessStep(t, m, u)
        BY ONLY <3>1, GuessOne, Zenon
      <3> QED BY ONLY <3>2 DEF GuessStep
    <2>7. u.pinned = FALSE /\ u.updated = b.updated
      BY <2>4, <2>6 DEF GuessEnd
    <2>8. Reached(u) + Opened(next) <= n + 1
      <3> DEFINE x == IF Terminal(t.state) THEN 1 ELSE 0
                 y == IF Terminal(u.state) THEN 1 ELSE 0
                 r == t.reopened
                 s == u.reopened
                 p == Opened(msgs)
                 q == Opened(next)
      <3>1. r \in Nat /\ s \in Nat /\ x \in {0, 1} /\ y \in {0, 1} /\ p \in {0, 1} /\ q \in {0, 1}
        BY <1>o, <2>5, <2>6 DEF FullThreads
      <3>2. 2 * r + x + p <= n
        BY <2>4 DEF GuessEnd, Reached, n
      <3>o. ~m.op.opened => q = p
        BY <1>o
      <3>p. p # q => n = 0
        BY <1>o
      <3>3. CASE m.kind = "resolution"
        <4>1. q = p /\ s = r
          BY <2>6, <3>3, <3>o DEF Opening
        <4> HIDE DEF x, y, r, s, p, q
        <4> QED BY <1>1, <3>1, <3>2, <4>1 DEF Reached, y, s, q
      <3>4. CASE m.kind = "event" /\ m.text = "escalated to"
        <4>1. q = p /\ y = 0
          BY <2>6, <3>4, <3>o DEF Opening, Terminal
        <4>2. (x = 1 /\ s = r + 1) \/ s = r
          BY <2>6, <3>4
        <4> HIDE DEF x, y, r, s, p, q
        <4> QED BY <1>1, <3>1, <3>2, <4>1, <4>2 DEF Reached, y, s, q
      <3>5. CASE m.kind # "resolution" /\ ~(m.kind = "event" /\ m.text = "escalated to")
        <4>1. s = r /\ y = x
          BY <2>6, <3>5
        <4> HIDE DEF x, y, r, s, p, q
        <4> QED BY <1>1, <3>1, <3>2, <3>p, <4>1 DEF Reached, y, s, q
      <3> QED BY <3>3, <3>4, <3>5
    <2>9. RecOwner(next) = None => u.owner = None \/ ByHand(next)
      BY <1>2, <1>h, <2>4, <2>6 DEF GuessEnd, Worded
    <2>10. RecState(next) = "none" => u.state = "open" \/ ByHand(next)
      BY <1>2, <1>h, <2>4, <2>6 DEF GuessEnd, Worded
    <2>11. GuessEnd(u, b, next)
      BY <1>1, <2>6, <2>7, <2>8, <2>9, <2>10 DEF GuessEnd
    <2> QED BY <2>11 DEF u
  <1> QED BY <1>4, <1>5

(* What is rebuilt is what the two passes end with. *)
LEMMA Rebuilt ==
    ASSUME log \in Seq(Messages), log # <<>>, GuessInv(log), ReplayInv(log)
    PROVE  \E b \in Bases, g \in FullThreads :
              b.updated = log[Len(log)].ts /\ GuessEnd(g, b, log) /\ ReplayEnd(Rebuild, g, log)
  <1>1. Len(log) \in Nat /\ Len(log) > 0 /\ \A i \in 1..Len(log) : log[i] \in Messages
    BY LenProperties, EmptySeq, ElementOfSeq
  <1>2. log[1].ts \in Nat /\ log[Len(log)].ts \in Nat
    <2>1. log[1] \in Messages /\ log[Len(log)] \in Messages
      BY <1>1
    <2> QED BY <2>1 DEF Messages
  <1>3. PICK b : b = [Fresh(log[1].ts) EXCEPT !.updated = log[Len(log)].ts]
    OBVIOUS
  <1>4. b \in Bases /\ b.updated = log[Len(log)].ts
    BY <1>2, <1>3 DEF Bases, FullThreads, Fresh, States
  <1>5. GuessTrace(Guessed, b, log)
    BY <1>3, <1>4, GuessedTraces DEF GuessInv
  <1>6. PICK g : g = Guessed[Len(log)]
    OBVIOUS
  <1>7. GuessEnd(g, b, log)
    BY <1>4, <1>5, <1>6 DEF GuessInv
  <1>8. g \in FullThreads
    BY <1>7 DEF GuessEnd
  <1>9. ReplayTrace(Replayed, g, log)
    BY <1>6, <1>8, ReplayedTraces DEF ReplayInv
  <1>10. ReplayEnd(Replayed[Len(log)], g, log)
    BY <1>8, <1>9 DEF ReplayInv
  <1> QED BY <1>4, <1>7, <1>8, <1>10 DEF Rebuild

-----------------------------------------------------------------------------
(* The tools *)

(* What all of them do. *)
Changed(t, next) ==
    /\ up /\ pending = NoEvent /\ clock' = clock + 1 /\ live' = t
    /\ Persist(t, next)
    /\ UNCHANGED <<up, log, active>>

OpOf(next) == IF next = NoEvent THEN NoOp ELSE next.op

(* A well-formed change and its event. *)
Fit(t, next) ==
    /\ t \in FullThreads /\ t.updated = clock + 1 /\ Reached(t) <= clock + 1
    /\ live = NoThread => next # NoEvent
    /\ next # NoEvent =>
        /\ next \in Messages /\ next.ts = clock + 1 /\ Worded(next) /\ Opening(next) /\ next.op # NoOp
        /\ next.kind = "assign" => next.who # None /\ next.op.owner = next.who
        /\ clock = 0 => next.op.opened

(* The event says what changed. *)
Follows(old, t, next) ==
    LET op == OpOf(next) IN
    /\ t.state = IF op.state = "none" THEN old.state ELSE op.state
    /\ t.owner = IF op.owner = None \/ next.kind = "assign" THEN old.owner ELSE op.owner
    /\ t.pinned = IF op.pin = "none" THEN old.pinned ELSE op.pin = "pin"
    /\ t.escalations = old.escalations + (IF op.state = "escalated" /\ old.state # "escalated" THEN 1 ELSE 0)
    /\ t.reopened = old.reopened + (IF op.state # "none" /\ Terminal(old.state) /\ ~Terminal(op.state) THEN 1 ELSE 0)

(* A thread that has yet to be opened starts out as a new one. *)
Old == IF live = NoThread THEN Fresh(0) ELSE live

(* Somebody submits a message. *)
Noted ==
    \E kind \in {"note", "resolution", "event"}, text \in {"note", "assigned to", "escalated to"}, who \in Owners \cup {None} :
        (kind = "note" => text = "note") /\ Note(kind, text, who)

Tool(t, next) == Changed(t, next) /\ Fit(t, next) /\ Follows(Old, t, next)

(* A change of state. *)
LEMMA EnterIs ==
    ASSUME NEW t \in FullThreads, NEW s \in States, clock \in Nat, clock' = clock + 1, NEW u, u = Enter(t, s)
    PROVE  /\ u \in FullThreads /\ u.state = s /\ u.updated = clock + 1 /\ u.owner = t.owner /\ u.pinned = t.pinned
           /\ u.escalations = t.escalations + (IF s = "escalated" /\ t.state # "escalated" THEN 1 ELSE 0)
           /\ u.reopened = t.reopened + (IF Terminal(t.state) /\ ~Terminal(s) THEN 1 ELSE 0)
           /\ Reached(u) <= Reached(t) + 1
  <1> DEFINE r == IF Reopens(t, s) THEN t.reopened + 1 ELSE t.reopened
             e == IF Escalates(t, s) THEN t.escalations + 1 ELSE t.escalations
             d == Stamp(t, s)
             now == clock + 1
  <1>1. r \in Nat /\ e \in Nat /\ d \in Nat /\ now \in Nat
    BY DEF FullThreads, Stamp
  <1>2. u = [t EXCEPT !.state = s, !.updated = now, !.resolved = d, !.reopened = r, !.escalations = e]
    BY DEF Enter
  <1> HIDE DEF r, e, d, now
  <1>3. /\ u \in FullThreads /\ u.state = s /\ u.updated = now /\ u.owner = t.owner /\ u.pinned = t.pinned
        /\ u.reopened = r /\ u.escalations = e
    BY <1>1, <1>2 DEF FullThreads
  <1>4. t.reopened \in Nat /\ t.escalations \in Nat
    BY DEF FullThreads
  <1>5. /\ r = t.reopened + (IF Terminal(t.state) /\ ~Terminal(s) THEN 1 ELSE 0)
        /\ e = t.escalations + (IF s = "escalated" /\ t.state # "escalated" THEN 1 ELSE 0)
    BY <1>4 DEF r, e, Reopens, Escalates
  <1>6. Reached(u) <= Reached(t) + 1
    BY <1>3, <1>4, <1>5 DEF Reached
  <1> QED BY <1>3, <1>5, <1>6 DEF now

Kinds == {"note", "event", "resolution", "assign"}
Texts == {"opened", "state", "note", "assigned to", "pinned", "escalated", "escalated to"}

(* A message carries the time of its call. *)
LEMMA MessageIs ==
    ASSUME clock \in Nat, clock' = clock + 1, NEW kind \in Kinds, NEW text \in Texts, NEW who \in Owners \cup {None},
           NEW op \in Ops, NEW m, m = Message(kind, text, who, op)
    PROVE  /\ m \in Messages /\ m.kind = kind /\ m.text = text /\ m.who = who /\ m.op = op /\ m.ts = clock + 1
           /\ m # NoEvent
  <1>1. m = [kind |-> kind, text |-> text, who |-> who, op |-> op, ts |-> clock + 1]
    BY DEF Message
  <1>2. m.kind # "none"
    BY <1>1 DEF Kinds
  <1>3. m.kind = kind /\ m.text = text /\ m.who = who /\ m.op = op /\ m.ts = clock + 1
    BY <1>1
  <1>4. m \in Messages
    <2>1. PICK now \in Nat : now = clock + 1
      OBVIOUS
    <2>2. m = [kind |-> kind, text |-> text, who |-> who, op |-> op, ts |-> now]
      BY <1>1, <2>1
    <2>3. Messages = [kind : Kinds, text : Texts, who : Owners \cup {None}, op : Ops, ts : Nat]
      BY DEF Messages, Kinds, Texts
    <2> QED BY <2>1, <2>2, <2>3
  <1>5. NoEvent.kind = "none"
    BY DEF NoEvent
  <1> QED BY <1>2, <1>3, <1>4, <1>5

(* The operations the tools record. *)
LEMMA OpsAre ==
    /\ NoOp \in Ops /\ NoOp.opened = FALSE /\ NoOp.state = "none" /\ NoOp.owner = None /\ NoOp.pin = "none"
    /\ \A s \in States : LET op == [NoOp EXCEPT !.state = s] IN
         op \in Ops /\ op.opened = FALSE /\ op.state = s /\ op.owner = None /\ op.pin = "none" /\ op # NoOp
    /\ \A who \in Owners : LET op == [NoOp EXCEPT !.owner = who] IN
         op \in Ops /\ op.opened = FALSE /\ op.state = "none" /\ op.owner = who /\ op.pin = "none" /\ op # NoOp
    /\ \A p \in {"pin", "unpin"} : LET op == [NoOp EXCEPT !.pin = p] IN
         op \in Ops /\ op.opened = FALSE /\ op.state = "none" /\ op.owner = None /\ op.pin = p /\ op # NoOp
    /\ \A who \in Owners \cup {None} : LET op == [NoOp EXCEPT !.state = "escalated", !.owner = who] IN
         op \in Ops /\ op.opened = FALSE /\ op.state = "escalated" /\ op.owner = who /\ op.pin = "none" /\ op # NoOp
    /\ LET op == [NoOp EXCEPT !.opened = TRUE] IN
         op \in Ops /\ op.opened = TRUE /\ op.state = "none" /\ op.owner = None /\ op.pin = "none" /\ op # NoOp
  BY DEF NoOp, Ops, States

(* A live thread is a whole one. *)
LEMMA LiveFull ==
    ASSUME Types, CopiesInv, live # NoThread
    PROVE  live \in FullThreads /\ Old = live /\ Reached(live) \in Nat /\ Reached(live) <= clock /\ 0 < clock
  <1>1. live \in FullThreads
    BY DEF Types, Threads, FullThreads
  <1>2. live.reopened \in Nat
    BY <1>1 DEF FullThreads
  <1> QED BY <1>1, <1>2 DEF Old, CopiesInv, Timely, Reached

(* thread_set_state and resolve. *)
LEMMA StateTool ==
    ASSUME Types, CopiesInv, NEW s \in States, NEW kind \in {"event", "resolution"}, NEW text \in {"state", "note"},
           Call(Enter(live, s), Message(kind, text, None, [NoOp EXCEPT !.state = s]))
    PROVE  \E t, next : Tool(t, next)
  <1>1. live # NoThread /\ clock \in Nat /\ clock' = clock + 1
    BY DEF Call, Types
  <1>2. live \in FullThreads /\ Old = live /\ Reached(live) \in Nat /\ Reached(live) <= clock /\ 0 < clock
    BY <1>1, LiveFull
  <1>3. PICK t : t = Enter(live, s)
    OBVIOUS
  <1>4. PICK op : op = [NoOp EXCEPT !.state = s]
    OBVIOUS
  <1>5. PICK next : next = Message(kind, text, None, op)
    OBVIOUS
  <1>6. op \in Ops /\ op.opened = FALSE /\ op.state = s /\ op.owner = None /\ op.pin = "none" /\ op # NoOp /\ s # "none"
    BY <1>4, OpsAre DEF States
  <1>7. /\ next \in Messages /\ next.kind = kind /\ next.text = text /\ next.who = None /\ next.op = op /\ next.ts = clock + 1
        /\ next # NoEvent
    <2>1. kind \in Kinds /\ text \in Texts /\ None \in Owners \cup {None}
      BY DEF Kinds, Texts
    <2> QED BY <1>1, <1>5, <1>6, <2>1, MessageIs
  <1>8. /\ t \in FullThreads /\ t.state = s /\ t.updated = clock + 1 /\ t.owner = live.owner /\ t.pinned = live.pinned
        /\ t.escalations = live.escalations + (IF s = "escalated" /\ live.state # "escalated" THEN 1 ELSE 0)
        /\ t.reopened = live.reopened + (IF Terminal(live.state) /\ ~Terminal(s) THEN 1 ELSE 0)
        /\ Reached(t) <= Reached(live) + 1
    BY <1>1, <1>2, <1>3, EnterIs
  <1>9. Reached(t) \in Nat
    BY <1>8 DEF FullThreads, Reached
  <1>10. Fit(t, next)
    <2>1. Worded(next) /\ Opening(next)
      BY <1>6, <1>7 DEF Worded, Opening
    <2>2. Reached(t) <= clock + 1 /\ clock # 0
      BY <1>1, <1>2, <1>8, <1>9
    <2> QED BY <1>1, <1>6, <1>7, <1>8, <2>1, <2>2 DEF Fit
  <1>11. Follows(Old, t, next)
    BY <1>2, <1>6, <1>7, <1>8 DEF Follows, OpOf
  <1>12. Changed(t, next)
    BY <1>3, <1>4, <1>5 DEF Changed, Call
  <1> QED BY <1>10, <1>11, <1>12 DEF Tool

(* A change that leaves the state alone, and what is recorded of it. *)
Keeps(t, op) ==
    /\ t \in FullThreads /\ t.updated = clock + 1
    /\ t.state = live.state /\ t.reopened = live.reopened /\ t.escalations = live.escalations
    /\ op \in Ops /\ op.opened = FALSE /\ op.state = "none"
    /\ t.owner = IF op.owner = None THEN live.owner ELSE op.owner
    /\ t.pinned = IF op.pin = "none" THEN live.pinned ELSE op.pin = "pin"

Records(next, op) ==
    \/ next = NoEvent /\ op = NoOp
    \/ /\ next \in Messages /\ next.kind = "event" /\ next.op = op /\ op # NoOp /\ next.ts = clock + 1 /\ next # NoEvent
       /\ next.text = "pinned" \/ (next.text = "assigned to" /\ op.owner # None)

(* Tools that do. *)
LEMMA OtherTool ==
    ASSUME Types, CopiesInv, NEW t, NEW next, NEW op, Call(t, next), Keeps(t, op), Records(next, op)
    PROVE  \E u, e : Tool(u, e)
  <1>1. live # NoThread /\ clock \in Nat /\ clock' = clock + 1
    BY DEF Call, Types
  <1>2. live \in FullThreads /\ Old = live /\ Reached(live) \in Nat /\ Reached(live) <= clock /\ 0 < clock
    BY <1>1, LiveFull
  <1>3. Reached(t) = Reached(live) /\ live.reopened \in Nat /\ live.escalations \in Nat
    BY <1>2 DEF Reached, FullThreads, Keeps
  <1>4. Fit(t, next)
    <2>1. next # NoEvent => Worded(next) /\ Opening(next) /\ next.kind = "event" /\ next \in Messages /\ next.op # NoOp /\ next.ts = clock + 1
      BY DEF Worded, Opening, Records, Keeps
    <2>2. Reached(t) <= clock + 1 /\ clock # 0
      BY <1>1, <1>2, <1>3
    <2>3. t \in FullThreads /\ t.updated = clock + 1
      BY DEF Keeps
    <2> QED BY <1>1, <2>1, <2>2, <2>3 DEF Fit
  <1>5. OpOf(next) = op /\ next.kind # "assign"
    <2>1. NoEvent.kind # "assign"
      BY DEF NoEvent
    <2> QED BY <2>1 DEF OpOf, Records
  <1>6. Follows(Old, t, next)
    <2>1. /\ t.owner = IF op.owner = None \/ next.kind = "assign" THEN live.owner ELSE op.owner
          /\ t.state = IF op.state = "none" THEN live.state ELSE op.state
          /\ t.pinned = IF op.pin = "none" THEN live.pinned ELSE op.pin = "pin"
      BY <1>5 DEF Keeps
    <2>2. /\ t.escalations = live.escalations + (IF op.state = "escalated" /\ live.state # "escalated" THEN 1 ELSE 0)
          /\ t.reopened = live.reopened + (IF op.state # "none" /\ Terminal(live.state) /\ ~Terminal(op.state) THEN 1 ELSE 0)
      <3>1. op.state = "none" /\ t.escalations = live.escalations /\ t.reopened = live.reopened
        BY DEF Keeps
      <3> QED BY <1>3, <3>1
    <2> QED BY <1>2, <1>5, <2>1, <2>2 DEF Follows
  <1>7. Changed(t, next)
    BY DEF Changed, Call
  <1> QED BY <1>4, <1>6, <1>7 DEF Tool

(* thread_assign, thread_pin and thread_link. *)
LEMMA KeepingTools ==
    ASSUME Types, CopiesInv,
           (\E who \in Owners : Assign(who)) \/ (\E on \in BOOLEAN : Pin(on) \/ Link(on))
    PROVE  \E t, next : Tool(t, next)
  <1>1. clock \in Nat
    BY DEF Types
  <1>2. ASSUME NEW who \in Owners, Assign(who) PROVE \E t, next : Tool(t, next)
    <2>1. live # NoThread /\ clock' = clock + 1
      BY <1>2 DEF Assign, Call
    <2>2. live \in FullThreads
      BY <2>1, LiveFull
    <2>3. PICK op : op = [NoOp EXCEPT !.owner = who]
      OBVIOUS
    <2>4. op \in Ops /\ op.opened = FALSE /\ op.state = "none" /\ op.owner = who /\ op.pin = "none" /\ op # NoOp /\ who # None
      BY <2>3, OpsAre
    <2>5. PICK next : next = Message("event", "assigned to", who, op)
      OBVIOUS
    <2>6. /\ next \in Messages /\ next.kind = "event" /\ next.text = "assigned to" /\ next.op = op /\ next.ts = clock + 1
          /\ next # NoEvent
      <3>1. "event" \in Kinds /\ "assigned to" \in Texts /\ who \in Owners \cup {None}
        BY DEF Kinds, Texts
      <3>2. op \in Ops
        BY <2>4
      <3>3. PICK w \in Owners \cup {None}, kind \in Kinds, text \in Texts : w = who /\ kind = "event" /\ text = "assigned to"
        BY <3>1
      <3>4. next = Message(kind, text, w, op)
        BY <2>5, <3>3
      <3>5. next \in Messages /\ next.kind = kind /\ next.text = text /\ next.op = op /\ next.ts = clock + 1 /\ next # NoEvent
        BY <1>1, <2>1, <3>2, <3>4, MessageIs
      <3> QED BY <3>3, <3>5
    <2>7. PICK now \in Nat : now = clock + 1
      BY <1>1
    <2>8. PICK t : t = [live EXCEPT !.owner = who, !.updated = now]
      OBVIOUS
    <2>9. Keeps(t, op)
      BY <2>2, <2>4, <2>7, <2>8 DEF Keeps, FullThreads
    <2>10. Records(next, op)
      BY <2>4, <2>6 DEF Records
    <2>11. Call(t, next)
      <3>1. Assigned(live, who) = t
        BY <2>1, <2>4, <2>7, <2>8 DEF Assigned
      <3> QED BY <1>2, <2>3, <2>5, <3>1 DEF Assign
    <2> QED BY <2>9, <2>10, <2>11, OtherTool
  <1>3. ASSUME NEW on \in BOOLEAN, Pin(on) PROVE \E t, next : Tool(t, next)
    <2>1. live # NoThread /\ clock' = clock + 1
      BY <1>3 DEF Pin, Call
    <2>2. live \in FullThreads
      BY <2>1, LiveFull
    <2>3. PICK p \in {"pin", "unpin"} : p = IF on THEN "pin" ELSE "unpin"
      OBVIOUS
    <2>4. PICK op : op = [NoOp EXCEPT !.pin = p]
      OBVIOUS
    <2>5. op \in Ops /\ op.opened = FALSE /\ op.state = "none" /\ op.owner = None /\ op.pin = p /\ op # NoOp
      BY <2>4, OpsAre
    <2>6. PICK next : next = Message("event", "pinned", None, op)
      OBVIOUS
    <2>7. /\ next \in Messages /\ next.kind = "event" /\ next.text = "pinned" /\ next.op = op /\ next.ts = clock + 1
          /\ next # NoEvent
      <3>1. "event" \in Kinds /\ "pinned" \in Texts /\ None \in Owners \cup {None}
        BY DEF Kinds, Texts
      <3> QED BY <1>1, <2>1, <2>5, <2>6, <3>1, MessageIs
    <2>8. PICK now \in Nat : now = clock + 1
      BY <1>1
    <2>9. PICK t : t = [live EXCEPT !.pinned = on, !.updated = now]
      OBVIOUS
    <2>10. Keeps(t, op)
      <3>1. /\ t \in FullThreads /\ t.updated = clock + 1 /\ t.owner = live.owner
            /\ t.state = live.state /\ t.reopened = live.reopened /\ t.escalations = live.escalations
        BY <2>2, <2>8, <2>9 DEF FullThreads
      <3>2. t.pinned = on
        BY <2>2, <2>9 DEF FullThreads
      <3>3. on = (p = "pin") /\ p # "none"
        BY <2>3
      <3> QED BY <2>5, <3>1, <3>2, <3>3 DEF Keeps
    <2>11. Records(next, op)
      BY <2>5, <2>7 DEF Records
    <2>12. Call(t, next)
      BY <1>3, <2>1, <2>3, <2>4, <2>6, <2>8, <2>9 DEF Pin
    <2> QED BY <2>10, <2>11, <2>12, OtherTool
  <1>4. ASSUME NEW on \in BOOLEAN, Link(on) PROVE \E t, next : Tool(t, next)
    <2>1. live # NoThread /\ clock' = clock + 1
      BY <1>4 DEF Link, Call
    <2>2. live \in FullThreads
      BY <2>1, LiveFull
    <2>3. PICK now \in Nat : now = clock + 1
      BY <1>1
    <2>4. PICK t : t = [live EXCEPT !.linked = on, !.updated = now]
      OBVIOUS
    <2>5. PICK op : op = NoOp
      OBVIOUS
    <2>6. Keeps(t, op)
      <3>1. /\ t \in FullThreads /\ t.updated = clock + 1 /\ t.owner = live.owner /\ t.pinned = live.pinned
            /\ t.state = live.state /\ t.reopened = live.reopened /\ t.escalations = live.escalations
        BY <2>2, <2>3, <2>4 DEF FullThreads
      <3>2. op \in Ops /\ op.opened = FALSE /\ op.state = "none" /\ op.owner = None /\ op.pin = "none"
        BY <2>5, OpsAre
      <3> QED BY <3>1, <3>2 DEF Keeps
    <2>7. Records(NoEvent, op)
      BY <2>5 DEF Records
    <2>8. Call(t, NoEvent)
      BY <1>4, <2>1, <2>3, <2>4 DEF Link
    <2> QED BY <2>6, <2>7, <2>8, OtherTool
  <1> QED BY <1>2, <1>3, <1>4

(* escalate. *)
LEMMA EscalateTool ==
    ASSUME Types, CopiesInv, NEW who \in Owners \cup {None}, Escalate(who)
    PROVE  \E t, next : Tool(t, next)
  <1>1. live # NoThread /\ clock \in Nat /\ clock' = clock + 1
    BY DEF Escalate, Call, Types
  <1>2. live \in FullThreads /\ Old = live /\ Reached(live) \in Nat /\ Reached(live) <= clock /\ 0 < clock
    BY <1>1, LiveFull
  <1>3. PICK t : t = Enter(live, "escalated")
    OBVIOUS
  <1>4. PICK op : op = [NoOp EXCEPT !.state = "escalated", !.owner = who]
    OBVIOUS
  <1>5. op \in Ops /\ op.opened = FALSE /\ op.state = "escalated" /\ op.owner = who /\ op.pin = "none" /\ op # NoOp
    BY <1>4, OpsAre
  <1>6. PICK kind \in Kinds : kind = IF who = None THEN "event" ELSE "assign"
    BY DEF Kinds
  <1>7. PICK text \in Texts : text = IF who = None THEN "escalated" ELSE "escalated to"
    BY DEF Texts
  <1>8. PICK next : next = Message(kind, text, who, op)
    OBVIOUS
  <1>9. /\ next \in Messages /\ next.kind = kind /\ next.text = text /\ next.who = who /\ next.op = op /\ next.ts = clock + 1
        /\ next # NoEvent
    BY <1>1, <1>5, <1>8, MessageIs
  <1>10. "escalated" \in States
    BY DEF States
  <1>11. /\ t \in FullThreads /\ t.state = "escalated" /\ t.updated = clock + 1 /\ t.owner = live.owner
         /\ t.pinned = live.pinned
         /\ t.escalations = live.escalations + (IF "escalated" = "escalated" /\ live.state # "escalated" THEN 1 ELSE 0)
         /\ t.reopened = live.reopened + (IF Terminal(live.state) /\ ~Terminal("escalated") THEN 1 ELSE 0)
         /\ Reached(t) <= Reached(live) + 1
    BY <1>1, <1>2, <1>3, <1>10, EnterIs
  <1>12. Reached(t) \in Nat
    BY <1>11 DEF FullThreads, Reached
  <1>13. Fit(t, next)
    <2>1. Worded(next) /\ Opening(next)
      BY <1>5, <1>6, <1>7, <1>9 DEF Worded, Opening
    <2>2. Reached(t) <= clock + 1 /\ clock # 0
      BY <1>1, <1>2, <1>11, <1>12
    <2> QED BY <1>1, <1>5, <1>6, <1>9, <1>11, <2>1, <2>2 DEF Fit
  <1>14. Follows(Old, t, next)
    BY <1>2, <1>5, <1>6, <1>9, <1>11 DEF Follows, OpOf
  <1>15. Changed(t, next)
    <2>1. [EscalatedEvent(who) EXCEPT !.kind = IF who = None THEN @ ELSE "assign"] = next
      <3>1. PICK m : m = EscalatedEvent(who)
        OBVIOUS
      <3>2. PICK now : now = clock'
        OBVIOUS
      <3>3. m = [kind |-> "event", text |-> text, who |-> who, op |-> op, ts |-> now]
        BY <1>4, <1>7, <3>1, <3>2 DEF EscalatedEvent, Message
      <3>4. next = [kind |-> kind, text |-> text, who |-> who, op |-> op, ts |-> now]
        BY <1>8, <3>2 DEF Message
      <3>5. [m EXCEPT !.kind = kind] = next
        BY <3>3, <3>4
      <3>6. m.kind = "event"
        BY <3>3
      <3>7. (IF who = None THEN m.kind ELSE "assign") = kind
        BY <1>6, <3>6
      <3> QED BY <3>1, <3>5, <3>7
    <2> QED BY <1>3, <2>1 DEF Changed, Call, Escalate
  <1> QED BY <1>13, <1>14, <1>15 DEF Tool

(* thread_open. *)
LEMMA OpenTool ==
    ASSUME Types, CopiesInv, Open
    PROVE  \E t, next : Tool(t, next)
  <1>1. live = NoThread /\ clock \in Nat /\ clock' = clock + 1
    BY DEF Open, Types
  <1>2. PICK now \in Nat : now = clock + 1
    BY <1>1
  <1>3. PICK t : t = Fresh(now)
    OBVIOUS
  <1>4. /\ t \in FullThreads /\ t.state = "open" /\ t.updated = clock + 1 /\ t.owner = None /\ t.pinned = FALSE
        /\ t.reopened = 0 /\ t.escalations = 0
    BY <1>2, <1>3 DEF Fresh, FullThreads, States
  <1>5. PICK op : op = [NoOp EXCEPT !.opened = TRUE]
    OBVIOUS
  <1>6. op \in Ops /\ op.opened = TRUE /\ op.state = "none" /\ op.owner = None /\ op.pin = "none" /\ op # NoOp
    BY <1>5, OpsAre
  <1>7. PICK next : next = Message("event", "opened", None, op)
    OBVIOUS
  <1>8. /\ next \in Messages /\ next.kind = "event" /\ next.text = "opened" /\ next.op = op /\ next.ts = clock + 1
        /\ next # NoEvent
    <2>1. "event" \in Kinds /\ "opened" \in Texts /\ None \in Owners \cup {None}
      BY DEF Kinds, Texts
    <2> QED BY <1>1, <1>6, <1>7, <2>1, MessageIs
  <1>9. Fit(t, next)
    <2>1. Worded(next) /\ Opening(next)
      BY <1>6, <1>8 DEF Worded, Opening
    <2>2. Reached(t) <= clock + 1
      BY <1>1, <1>4 DEF Reached, Terminal
    <2> QED BY <1>4, <1>6, <1>8, <2>1, <2>2 DEF Fit
  <1>10. /\ Old.state = "open" /\ Old.owner = None /\ Old.pinned = FALSE /\ Old.reopened = 0 /\ Old.escalations = 0
    BY <1>1 DEF Old, Fresh
  <1>11. Follows(Old, t, next)
    <2>1. OpOf(next) = op /\ next.kind # "assign"
      BY <1>8 DEF OpOf
    <2>2. /\ t.owner = IF op.owner = None \/ next.kind = "assign" THEN Old.owner ELSE op.owner
          /\ t.state = IF op.state = "none" THEN Old.state ELSE op.state
          /\ t.pinned = IF op.pin = "none" THEN Old.pinned ELSE op.pin = "pin"
      BY <1>4, <1>6, <1>10, Zenon
    <2>3. /\ t.escalations = Old.escalations + (IF op.state = "escalated" /\ Old.state # "escalated" THEN 1 ELSE 0)
          /\ t.reopened = Old.reopened + (IF op.state # "none" /\ Terminal(Old.state) /\ ~Terminal(op.state) THEN 1 ELSE 0)
      <3>1. op.state = "none" /\ t.escalations = 0 /\ t.reopened = 0 /\ Old.escalations = 0 /\ Old.reopened = 0
        BY <1>4, <1>6, <1>10
      <3> QED BY <3>1
    <2> QED BY <2>1, <2>2, <2>3 DEF Follows
  <1>12. Changed(t, next)
    <2>1. live' = t
      BY <1>1, <1>2, <1>3 DEF Open
    <2>2. Message("event", "opened", None, [NoOp EXCEPT !.opened = TRUE]) = next
      BY <1>5, <1>7
    <2> QED BY <2>1, <2>2 DEF Changed, Open
  <1> QED BY <1>9, <1>11, <1>12 DEF Tool

(* The tools are one kind of step; what else can happen is listed. *)
LEMMA Steps ==
    ASSUME Types, CopiesInv, [Next]_vars
    PROVE  \/ \E t, next : Tool(t, next)
           \/ EscalateOwner \/ Post \/ Noted
           \/ Stop \/ Crash \/ LoseFile \/ Repair \/ Restart
           \/ UNCHANGED <<live, up, file, bak, log, pending, clock, faults, mishaps>> /\ active' \in BOOLEAN
  <1>1. ASSUME NEW s \in States, SetState(s) PROVE \E t, next : Tool(t, next)
    BY <1>1, StateTool DEF SetState
  <1>2. ASSUME Resolve PROVE \E t, next : Tool(t, next)
    <2>1. "resolved" \in States
      BY DEF States
    <2> QED BY <1>2, <2>1, StateTool DEF Resolve
  <1>3. ASSUME NEW on \in BOOLEAN, SetActive(on)
        PROVE  UNCHANGED <<live, up, file, bak, log, pending, clock, faults, mishaps>> /\ active' \in BOOLEAN
    BY <1>3 DEF SetActive
  <1>4. ASSUME UNCHANGED vars
        PROVE  UNCHANGED <<live, up, file, bak, log, pending, clock, faults, mishaps>> /\ active' \in BOOLEAN
    BY <1>4 DEF vars, Types
  <1> QED BY <1>1, <1>2, <1>3, <1>4, KeepingTools, EscalateTool, OpenTool DEF Next, Noted

-----------------------------------------------------------------------------
(* What a step leaves *)

(* Threads, the file of a call among them, are whole or not there. *)
LEMMA ThreadsAre == Threads = FullThreads \cup {NoThread} /\ NoThread \notin FullThreads
  <1>1. \A t \in FullThreads : t.state # "none"
    BY DEF FullThreads, States
  <1>2. NoThread.state = "none"
    BY DEF NoThread
  <1> QED BY <1>1, <1>2 DEF Threads, FullThreads

(* The event of a call under way is a message. *)
LEMMA PendingIs ==
    ASSUME Types
    PROVE  /\ NoEvent.kind = "none"
           /\ pending # NoEvent => pending \in Messages /\ pending.kind \in Kinds /\ pending.ts \in Nat
  BY DEF Types, NoEvent, Messages, Kinds

(* threads.json is written, the backup refreshed or not. *)
LEMMA WrittenIs ==
    ASSUME NEW t, NEW known, Written(t, known), faults \in 0..MaxFaults
    PROVE  /\ file' = t /\ bak' \in {Backup, bak, NoThread} /\ faults' \in 0..MaxFaults
           /\ known \ {"uncopied"} \subseteq mishaps' /\ mishaps' \subseteq known \cup {"uncopied"}
           /\ "uncopied" \notin mishaps' => bak' = Backup
  <1>1. CASE bak' = Backup /\ mishaps' = known \ {"uncopied"} /\ UNCHANGED faults
    BY <1>1 DEF Written
  <1>2. CASE Fault /\ bak' \in {bak, NoThread} /\ mishaps' = known \cup {"uncopied"}
    BY <1>2 DEF Written, Fault
  <1> QED BY <1>1, <1>2 DEF Written

(* It is not, and the backup may be gone. *)
LEMMA UnwrittenIs ==
    ASSUME Unwritten, faults \in 0..MaxFaults
    PROVE  /\ file' = file /\ bak' \in {Backup, bak, NoThread} /\ faults' \in 0..MaxFaults
           /\ mishaps \subseteq mishaps' /\ mishaps' \subseteq mishaps \cup {"unsaved", "uncopied"}
           /\ "unsaved" \in mishaps'
           /\ "uncopied" \notin mishaps' => bak' \in {bak, Backup}
  BY DEF Unwritten, Fault

(* The mishaps a step leaves when it writes. *)
Wrote ==
    /\ bak' \in {Backup, bak, NoThread} /\ faults' \in 0..MaxFaults
    /\ mishaps \ {"uncopied"} \subseteq mishaps'
    /\ mishaps' \subseteq mishaps \cup {"unsaved", "uncopied", "repaired"}

(* A call writes threads.json, or fails to. *)
LEMMA ToolEnds ==
    ASSUME Types, NEW t, NEW next, Tool(t, next)
    PROVE  /\ up /\ pending = NoEvent /\ clock' = clock + 1 /\ live' = t /\ UNCHANGED <<up, log, active>>
           /\ t \in FullThreads /\ t # NoThread /\ t \in Threads
           /\ Wrote
           /\ \/ /\ file' = t /\ pending' = next
                 /\ "uncopied" \notin mishaps' => bak' = Backup
              \/ /\ file' = file /\ pending' = NoEvent /\ "unsaved" \in mishaps' /\ mishaps \subseteq mishaps'
                 /\ "uncopied" \notin mishaps' => bak' \in {bak, Backup}
  <1>1. t \in FullThreads /\ t # NoThread /\ t \in Threads
    BY ThreadsAre DEF Tool, Fit
  <1>2. Persist(t, next) /\ faults \in 0..MaxFaults
    BY DEF Tool, Changed, Types
  <1>3. CASE Written(t, mishaps) /\ pending' = next
    <2>1. Wrote /\ file' = t /\ ("uncopied" \notin mishaps' => bak' = Backup)
      BY <1>2, <1>3, WrittenIs DEF Wrote
    <2> QED BY <1>1, <1>3, <2>1 DEF Tool, Changed
  <1>4. CASE Unwritten /\ pending' = NoEvent
    <2>1. /\ Wrote /\ file' = file /\ "unsaved" \in mishaps' /\ mishaps \subseteq mishaps'
          /\ "uncopied" \notin mishaps' => bak' \in {bak, Backup}
      BY <1>2, <1>4, UnwrittenIs DEF Wrote
    <2> QED BY <1>1, <1>4, <2>1 DEF Tool, Changed
  <1> QED BY <1>2, <1>3, <1>4 DEF Persist

(* Repairing and giving a thread its owner write alike. *)
LEMMA WritesEnd ==
    ASSUME Types, NEW t, NEW known \in {mishaps, mishaps \cup {"repaired"}}, Written(t, known) \/ Unwritten
    PROVE  /\ Wrote
           /\ \/ /\ file' = t /\ known \ {"uncopied"} \subseteq mishaps'
                 /\ "uncopied" \notin mishaps' => bak' = Backup
              \/ /\ file' = file /\ "unsaved" \in mishaps' /\ mishaps \subseteq mishaps'
                 /\ "uncopied" \notin mishaps' => bak' \in {bak, Backup}
  <1>0. faults \in 0..MaxFaults
    BY DEF Types
  <1>1. CASE Written(t, known)
    BY <1>0, <1>1, WrittenIs DEF Wrote
  <1>2. CASE Unwritten
    BY <1>0, <1>2, UnwrittenIs DEF Wrote
  <1> QED BY <1>1, <1>2

(* The types after it. *)
LEMMA WroteTypes ==
    ASSUME Types, Wrote
    PROVE  bak' \in Threads /\ faults' \in 0..MaxFaults /\ mishaps' \in SUBSET Mishaps
  <1>1. mishaps' \in SUBSET Mishaps
    BY DEF Types, Wrote, Mishaps
  <1>2. bak' \in Threads
    BY ThreadsAre DEF Types, Wrote, Backup
  <1> QED BY <1>1, <1>2 DEF Wrote

(* A submitted message. *)
LEMMA NoteIs ==
    ASSUME Types, Noted
    PROVE  /\ \E m \in Messages :
                 /\ m.op = NoOp /\ m.ts = clock + 1 /\ Opening(m) /\ (Worded(m) \/ "handmade" \in mishaps')
                 /\ log' = Append(log, m)
           /\ clock' = clock + 1 /\ up /\ pending = NoEvent /\ live # NoThread
           /\ mishaps' \in {mishaps, mishaps \cup {"handmade"}}
           /\ UNCHANGED <<live, up, file, bak, active, pending, faults>>
  <1>1. PICK sort, words, name :
            /\ sort \in {"note", "resolution", "event"} /\ words \in {"note", "assigned to", "escalated to"}
            /\ name \in Owners \cup {None}
            /\ (sort = "note" => words = "note") /\ Note(sort, words, name)
    BY DEF Noted
  <1>2. clock \in Nat /\ clock' = clock + 1
    BY <1>1 DEF Types, Note
  <1>3. PICK k \in Kinds, x \in Texts, w \in Owners \cup {None}, op \in Ops : k = sort /\ x = words /\ w = name /\ op = NoOp
    BY <1>1, OpsAre DEF Kinds, Texts
  <1>4. PICK m : m = Message(k, x, w, op)
    OBVIOUS
  <1>5. m \in Messages /\ m.kind = k /\ m.text = x /\ m.op = op /\ m.ts = clock + 1
    <2>1. k \in Kinds /\ x \in Texts /\ w \in Owners \cup {None} /\ op \in Ops
      OBVIOUS
    <2> QED BY <1>2, <1>4, <2>1, MessageIs
  <1>6. Opening(m)
    <2>1. ~NoOp.opened
      BY DEF NoOp
    <2> QED BY <1>3, <1>5, <2>1 DEF Opening
  <1>7. mishaps' = IF sort # "note" THEN mishaps \cup {"handmade"} ELSE mishaps
    BY <1>1 DEF Note
  <1>8. Worded(m) \/ "handmade" \in mishaps'
    BY <1>1, <1>3, <1>5, <1>7 DEF Worded
  <1>9. log' = Append(log, m)
    BY <1>1, <1>3, <1>4 DEF Note
  <1> QED BY <1>1, <1>2, <1>3, <1>5, <1>6, <1>7, <1>8, <1>9 DEF Note

(* A rebuilt thread. *)
LEMMA RepairIs ==
    ASSUME Types, RoomInv, LogInv, log # <<>>
    PROVE  /\ Rebuild \in FullThreads /\ 0 < clock /\ Reached(Rebuild) <= clock /\ Rebuild.updated <= clock
           /\ \A i \in DOMAIN log : log[i].op # NoOp => log[i].ts <= Rebuild.updated
  <1>1. PICK b \in Bases, g \in FullThreads :
            b.updated = log[Len(log)].ts /\ GuessEnd(g, b, log) /\ ReplayEnd(Rebuild, g, log)
    BY Rebuilt DEF Types, LogInv
  <1>2. PICK t : t = Rebuild
    OBVIOUS
  <1>3. t \in FullThreads /\ \A i \in DOMAIN log : log[i].op # NoOp => log[i].ts <= t.updated
    BY <1>1, <1>2 DEF ReplayEnd
  <1>4. Len(log) \in Nat /\ Len(log) > 0 /\ DOMAIN log = 1..Len(log) /\ clock \in Nat
    BY LenProperties, EmptySeq DEF Types
  <1>5. t.updated <= clock
    <2>1. \A i \in DOMAIN log : log[i].ts <= clock
      BY DEF LogInv
    <2>2. Len(log) \in DOMAIN log
      BY <1>4
    <2>3. b.updated <= clock
      BY <1>1, <2>1, <2>2
    <2>4. t.updated = g.updated \/ \E i \in DOMAIN log : t.updated = log[i].ts
      BY <1>1, <1>2 DEF ReplayEnd
    <2>5. g.updated = b.updated
      BY <1>1 DEF GuessEnd
    <2> QED BY <2>1, <2>3, <2>4, <2>5
  <1>6. 0 < clock /\ Reached(t) <= clock
    <2> DEFINE k == IF Terminal(g.state) THEN 1 ELSE 0
               o == Opened(log)
               p == IF pending = NoEvent THEN 0 ELSE 1
               l == IF Terminal(t.state) THEN 1 ELSE 0
    <2>1. l \in {0, 1} /\ k \in {0, 1} /\ o \in {0, 1} /\ p \in {0, 1} /\ g.reopened \in Nat
      BY DEF Opened, FullThreads
    <2>2. 2 * g.reopened + k + o <= Len(log)
      BY <1>1 DEF GuessEnd, Reached
    <2>3. Len(log) + p < clock + o
      BY DEF RoomInv
    <2>4. t.reopened = g.reopened
      BY <1>1, <1>2 DEF ReplayEnd
    <2> HIDE DEF k, o, p, l
    <2> QED BY <1>4, <2>1, <2>2, <2>3, <2>4 DEF Reached, l
  <1> QED BY <1>2, <1>3, <1>5, <1>6

(* Only a log has a thread in it. *)
LEMMA RepairNeedsLog ==
    ASSUME Repair
    PROVE  /\ log # <<>> /\ ~up /\ UNCHANGED <<live, up, log, active, pending, clock>>
           /\ Written(Rebuild, mishaps \cup {"repaired"}) \/ Unwritten
  BY DEF Repair, Rebuild

-----------------------------------------------------------------------------
(* Types *)

(* Every step keeps the types. *)
LEMMA TypesNext ==
    ASSUME IInv, [Next]_vars
    PROVE  Types'
  <1> USE DEF IInv
  <1>1. ASSUME NEW t, NEW next, Tool(t, next) PROVE Types'
    <2>1. /\ up /\ pending = NoEvent /\ clock' = clock + 1 /\ live' = t /\ UNCHANGED <<up, log, active>>
          /\ t \in FullThreads /\ t # NoThread /\ t \in Threads
          /\ Wrote /\ file' \in {file, t} /\ pending' \in {NoEvent, next}
      BY <1>1, ToolEnds
    <2>2. next = NoEvent \/ next \in Messages
      BY <1>1 DEF Tool, Fit
    <2>3. live' \in Threads /\ file' \in Threads /\ clock' \in Nat
      BY <2>1 DEF Types
    <2>4. bak' \in Threads /\ faults' \in 0..MaxFaults /\ mishaps' \in SUBSET Mishaps
      BY <2>1, WroteTypes
    <2> QED BY <2>1, <2>2, <2>3, <2>4 DEF Types
  <1>2. CASE EscalateOwner
    <2>1. pending # NoEvent /\ pending \in Messages
      BY <1>2, PendingIs DEF EscalateOwner
    <2>2. live # NoThread
      BY <2>1 DEF PendingInv
    <2>3. live \in FullThreads
      BY <2>2, ThreadsAre DEF Types
    <2>4. PICK w \in Owners \cup {None} : w = pending.who
      BY <2>1 DEF Messages
    <2>5. live' \in FullThreads
      BY <1>2, <2>3, <2>4 DEF EscalateOwner, FullThreads
    <2>6. pending' \in Messages
      <3>1. pending' = [pending EXCEPT !.kind = "event"]
        BY <1>2 DEF EscalateOwner
      <3> QED BY <2>1, <3>1 DEF Messages
    <2>7. Wrote /\ file' \in {file, live'}
      BY <1>2, WritesEnd DEF EscalateOwner
    <2>8. bak' \in Threads /\ faults' \in 0..MaxFaults /\ mishaps' \in SUBSET Mishaps
      BY <2>7, WroteTypes
    <2> QED BY <1>2, <2>5, <2>6, <2>7, <2>8, ThreadsAre DEF Types, EscalateOwner
  <1>3. CASE Post
    <2>1. pending \in Messages
      BY <1>3, PendingIs DEF Post
    <2>2. Append(log, pending) \in Seq(Messages)
      BY <2>1, Longer DEF Types
    <2>3. mishaps' \in SUBSET Mishaps
      BY <1>3 DEF Types, Post, Mishaps
    <2>4. faults' \in 0..MaxFaults
      BY <1>3 DEF Types, Post, Fault
    <2>5. log' \in Seq(Messages)
      BY <1>3, <2>2 DEF Types, Post
    <2> QED BY <1>3, <2>3, <2>4, <2>5 DEF Types, Post
  <1>4. CASE Noted
    <2>1. PICK m \in Messages : log' = Append(log, m)
      BY <1>4, NoteIs
    <2>2. Append(log, m) \in Seq(Messages)
      BY <2>1, Longer DEF Types
    <2>3. /\ clock' = clock + 1 /\ mishaps' \in {mishaps, mishaps \cup {"handmade"}}
          /\ UNCHANGED <<live, up, file, bak, active, pending, faults>>
      BY <1>4, NoteIs
    <2> QED BY <2>1, <2>2, <2>3 DEF Types, Mishaps
  <1>5. CASE Repair
    <2>1. Rebuild \in Threads
      BY <1>5, RepairIs, RepairNeedsLog, ThreadsAre
    <2>2. Wrote /\ file' \in {file, Rebuild} /\ UNCHANGED <<live, up, log, active, pending, clock>>
      BY <1>5, WritesEnd, RepairNeedsLog
    <2>3. bak' \in Threads /\ faults' \in 0..MaxFaults /\ mishaps' \in SUBSET Mishaps
      BY <2>2, WroteTypes
    <2> QED BY <2>1, <2>2, <2>3 DEF Types
  <1>6. CASE Stop
    BY <1>6 DEF Types, Stop, Threads
  <1>7. CASE Crash
    <2>1. mishaps' \in SUBSET Mishaps
      BY <1>7 DEF Types, Crash, Mishaps
    <2>2. faults' \in 0..MaxFaults
      BY <1>7 DEF Types, Crash, Fault
    <2> QED BY <1>7, <2>1, <2>2, ThreadsAre DEF Types, Crash
  <1>8. CASE LoseFile
    BY <1>8 DEF Types, LoseFile, Threads, Mishaps, Fault
  <1>9. CASE Restart
    BY <1>9 DEF Types, Restart, Loaded
  <1>10. CASE UNCHANGED <<live, up, file, bak, log, pending, clock, faults, mishaps>> /\ active' \in BOOLEAN
    BY <1>10 DEF Types
  <1> QED BY <1>1, <1>2, <1>3, <1>4, <1>5, <1>6, <1>7, <1>8, <1>9, <1>10, Steps

-----------------------------------------------------------------------------
(* The copies *)

(* Time passes. *)
LEMMA TimelyLater ==
    ASSUME NEW t \in Threads, NEW c \in Nat, NEW d \in Nat, c <= d, Timely(t, c)
    PROVE  Timely(t, d)
  <1>1. t # NoThread => t.reopened \in Nat /\ t.updated \in Nat
    BY ThreadsAre DEF FullThreads
  <1> QED BY <1>1 DEF Timely, Reached

(* A copy after the step is one from before, a new one, or none. *)
LEMMA CopiesFrom ==
    ASSUME Types, CopiesInv, clock' \in Nat, clock <= clock', NEW u \in Threads, Timely(u, clock'),
           live' \in {live, file, bak, NoThread, u}, file' \in {live, file, bak, NoThread, u},
           bak' \in {live, file, bak, NoThread, u}
    PROVE  CopiesInv'
  <1>1. Timely(live, clock') /\ Timely(file, clock') /\ Timely(bak, clock')
    BY TimelyLater DEF Types, CopiesInv
  <1>2. Timely(NoThread, clock')
    BY DEF Timely
  <1>3. \A t \in {live, file, bak, NoThread, u} : Timely(t, clock')
    BY <1>1, <1>2
  <1> QED BY <1>3 DEF CopiesInv

(* No step makes a copy from the future. *)
LEMMA CopiesNext ==
    ASSUME IInv, [Next]_vars
    PROVE  CopiesInv'
  <1> USE DEF IInv
  <1>t. Timely(NoThread, clock') /\ NoThread \in Threads /\ clock \in Nat
    BY ThreadsAre DEF Timely, Types
  <1>1. ASSUME NEW t, NEW next, Tool(t, next) PROVE CopiesInv'
    <2>1. /\ clock' = clock + 1 /\ live' = t /\ t \in FullThreads /\ t \in Threads
          /\ bak' \in {bak, Backup, NoThread} /\ file' \in {file, t}
      BY <1>1, ToolEnds DEF Wrote
    <2>2. Reached(t) <= clock + 1 /\ t.updated = clock + 1 /\ Reached(t) \in Nat
      BY <1>1, <2>1 DEF Tool, Fit, Reached, FullThreads
    <2>3. Timely(t, clock')
      BY <1>t, <2>1, <2>2 DEF Timely
    <2>4. clock' \in Nat /\ clock <= clock'
      BY <1>t, <2>1
    <2> QED BY <2>1, <2>3, <2>4, CopiesFrom DEF Backup
  <1>2. CASE EscalateOwner
    <2>1. live # NoThread
      BY <1>2, PendingIs DEF EscalateOwner, PendingInv
    <2>2. live \in FullThreads /\ Timely(live, clock)
      BY <2>1, ThreadsAre DEF Types, CopiesInv
    <2>3. PICK w : w = pending.who
      OBVIOUS
    <2>4. PICK u : u = [live EXCEPT !.owner = w]
      OBVIOUS
    <2>5. u.reopened = live.reopened /\ u.state = live.state /\ u.updated = live.updated
      BY <2>2, <2>4 DEF FullThreads
    <2>6. live' = u /\ clock' = clock /\ file' \in {file, u} /\ bak' \in {bak, file, NoThread}
      <3>1. live' = u /\ clock' = clock
        BY <1>2, <2>3, <2>4 DEF EscalateOwner
      <3> QED BY <1>2, <3>1, WritesEnd DEF EscalateOwner, Wrote, Backup
    <2>7. u \in Threads
      BY <2>6, TypesNext DEF Types
    <2>8. Timely(u, clock')
      BY <2>1, <2>2, <2>5, <2>6 DEF Timely, Reached
    <2> QED BY <1>t, <2>6, <2>7, <2>8, CopiesFrom
  <1>3. ASSUME clock' = clock \/ clock' = clock + 1, live' \in {live, file, bak, NoThread},
               file' \in {live, file, bak, NoThread}, bak' \in {live, file, bak, NoThread}
        PROVE CopiesInv'
    <2>1. clock' \in Nat /\ clock <= clock'
      BY <1>t, <1>3
    <2> QED BY <1>t, <1>3, <2>1, CopiesFrom
  <1>4. CASE Repair
    <2>1. Rebuild \in FullThreads /\ 0 < clock /\ Reached(Rebuild) <= clock /\ Rebuild.updated <= clock
      BY <1>4, RepairIs, RepairNeedsLog
    <2>2. PICK u : u = Rebuild
      OBVIOUS
    <2>3. u \in Threads /\ Timely(u, clock)
      BY <2>1, <2>2, ThreadsAre DEF Timely
    <2>4. live' = live /\ file' \in {file, u} /\ bak' \in {bak, file, NoThread} /\ clock' = clock
      BY <1>4, <2>2, WritesEnd, RepairNeedsLog DEF Wrote, Backup
    <2> QED BY <1>t, <2>3, <2>4, CopiesFrom
  <1>5. CASE Post
    BY <1>3, <1>5 DEF Post
  <1>6. CASE Noted
    BY <1>3, <1>6, NoteIs
  <1>7. CASE Stop \/ Crash
    BY <1>3, <1>7 DEF Stop, Crash
  <1>8. CASE LoseFile
    BY <1>3, <1>8 DEF LoseFile
  <1>9. CASE Restart
    BY <1>3, <1>9 DEF Restart, Loaded
  <1>10. CASE UNCHANGED <<live, up, file, bak, log, pending, clock, faults, mishaps>> /\ active' \in BOOLEAN
    BY <1>3, <1>10
  <1> QED BY <1>1, <1>2, <1>4, <1>5, <1>6, <1>7, <1>8, <1>9, <1>10, Steps

-----------------------------------------------------------------------------
(* The call under way *)

(* A daemon that is down has none. *)
LEMMA DownIsQuiet ==
    ASSUME Types, PendingInv, ~up
    PROVE  live = NoThread /\ pending = NoEvent
  BY DEF Types, PendingInv

(* The owner is a part of the event that escalate has posted in full. *)
LEMMA EscalateOwnerIs ==
    ASSUME IInv, EscalateOwner
    PROVE  \E m \in Messages, e \in Messages, t \in FullThreads :
              /\ pending = m /\ pending' = e /\ m # NoEvent /\ e # NoEvent
              /\ m.kind = "assign" /\ e.kind = "event" /\ e.op = m.op /\ e.ts = m.ts /\ e.who = m.who /\ e.text = m.text
              /\ live \in FullThreads /\ live' = t /\ t.owner = m.who /\ t.updated = live.updated /\ t.state = live.state
              /\ t.pinned = live.pinned /\ t.reopened = live.reopened /\ t.escalations = live.escalations
  <1> USE DEF IInv
  <1>1. pending # NoEvent /\ pending \in Messages /\ live # NoThread
    BY PendingIs DEF EscalateOwner, PendingInv
  <1>2. PICK m \in Messages : m = pending
    BY <1>1
  <1>3. PICK e : e = [m EXCEPT !.kind = "event"]
    OBVIOUS
  <1>4. /\ e \in Messages /\ e.kind = "event" /\ e.op = m.op /\ e.ts = m.ts /\ e.who = m.who /\ e.text = m.text
    BY <1>3 DEF Messages
  <1>5. live \in FullThreads
    BY <1>1, ThreadsAre DEF Types
  <1>6. PICK w \in Owners \cup {None} : w = m.who
    BY DEF Messages
  <1>7. PICK t : t = [live EXCEPT !.owner = w]
    OBVIOUS
  <1>8. /\ t \in FullThreads /\ t.owner = w /\ t.updated = live.updated /\ t.state = live.state
        /\ t.reopened = live.reopened /\ t.escalations = live.escalations
    BY <1>5, <1>7 DEF FullThreads
  <1>9. t.pinned = live.pinned
    BY <1>5, <1>7 DEF FullThreads
  <1>10. m.kind = "assign" /\ pending' = e /\ live' = t
    BY <1>2, <1>3, <1>6, <1>7 DEF EscalateOwner
  <1>11. e # NoEvent
    BY <1>4 DEF NoEvent
  <1> QED BY <1>1, <1>2, <1>4, <1>5, <1>6, <1>8, <1>9, <1>10, <1>11

(* It has written its change, at every step. *)
LEMMA PendingNext ==
    ASSUME IInv, [Next]_vars
    PROVE  PendingInv'
  <1> USE DEF IInv
  <1>1. ASSUME NEW t, NEW next, Tool(t, next) PROVE PendingInv'
    <2>1. /\ clock' = clock + 1 /\ live' = t /\ t # NoThread
          /\ (file' = t /\ pending' = next) \/ pending' = NoEvent
      BY <1>1, ToolEnds
    <2>2. CASE pending' = NoEvent
      BY <2>2 DEF PendingInv
    <2>3. CASE file' = t /\ pending' = next /\ next # NoEvent
      <3>1. /\ t.updated = clock + 1 /\ next.ts = clock + 1 /\ Worded(next) /\ Opening(next) /\ next.op # NoOp
            /\ next.kind = "assign" => next.who # None /\ next.op.owner = next.who
        BY <1>1, <2>3 DEF Tool, Fit
      <3> QED BY <2>1, <2>3, <3>1 DEF PendingInv
    <2> QED BY <2>1, <2>2, <2>3
  <1>2. CASE EscalateOwner
    <2>1. PICK m \in Messages, e \in Messages, t \in FullThreads :
              /\ pending = m /\ pending' = e /\ m # NoEvent /\ e # NoEvent
              /\ m.kind = "assign" /\ e.kind = "event" /\ e.op = m.op /\ e.ts = m.ts /\ e.who = m.who /\ e.text = m.text
              /\ live' = t /\ t.updated = live.updated
      BY <1>2, EscalateOwnerIs
    <2>2. /\ file # NoThread /\ live.updated = clock /\ file.updated = clock
          /\ m.ts = clock /\ Worded(m) /\ Opening(m) /\ m.op # NoOp
      BY <2>1 DEF PendingInv
    <2>3. Worded(e)
      BY <2>1, <2>2 DEF Worded
    <2>5. Opening(e)
      <3>1. m.op.opened => FALSE
        BY <2>1, <2>2 DEF Opening
      <3> QED BY <2>1, <3>1 DEF Opening
    <2>4. file' \in {file, t} /\ clock' = clock /\ t # NoThread
      BY <1>2, <2>1, ThreadsAre, WritesEnd DEF EscalateOwner
    <2> QED BY <2>1, <2>2, <2>3, <2>4, <2>5 DEF PendingInv
  <1>3. ASSUME pending' = NoEvent PROVE PendingInv'
    BY <1>3 DEF PendingInv
  <1>4. CASE Post
    BY <1>3, <1>4 DEF Post
  <1>5. CASE Noted
    BY <1>3, <1>5, NoteIs
  <1>6. CASE Stop \/ Crash
    BY <1>3, <1>6 DEF Stop, Crash
  <1>7. CASE LoseFile \/ Repair \/ Restart
    BY <1>3, <1>7, DownIsQuiet DEF LoseFile, Repair, Restart
  <1>8. CASE UNCHANGED <<live, up, file, bak, log, pending, clock, faults, mishaps>> /\ active' \in BOOLEAN
    BY <1>8 DEF PendingInv
  <1> QED BY <1>1, <1>2, <1>4, <1>5, <1>6, <1>7, <1>8, Steps

-----------------------------------------------------------------------------
(* Calls and messages *)

(* Whether a log opens with thread_open. *)
LEMMA OpenedAppend ==
    ASSUME NEW msgs \in Seq(Messages), NEW m \in Messages
    PROVE  /\ msgs # <<>> => Opened(Append(msgs, m)) = Opened(msgs)
           /\ msgs = <<>> => Len(msgs) = 0 /\ Opened(Append(msgs, m)) = (IF m.op.opened THEN 1 ELSE 0)
           /\ Opened(msgs) \in {0, 1}
  <1>1. /\ Append(msgs, m) # <<>> /\ Len(msgs) \in Nat
        /\ \A i \in 1..Len(msgs) : Append(msgs, m)[i] = msgs[i]
        /\ Append(msgs, m)[Len(msgs) + 1] = m
    BY Longer
  <1>2. CASE msgs = <<>>
    <2>1. Len(msgs) = 0 /\ Append(msgs, m)[1] = m
      BY <1>1, <1>2, EmptySeq
    <2> QED BY <1>1, <1>2, <2>1 DEF Opened
  <1>3. CASE msgs # <<>>
    <2>1. Len(msgs) > 0
      BY <1>1, <1>3, EmptySeq
    <2>2. Append(msgs, m)[1] = msgs[1]
      BY <1>1, <2>1
    <2> QED BY <1>1, <1>3, <2>2 DEF Opened
  <1> QED BY <1>2, <1>3

(* Every message has taken a call, at every step. *)
LEMMA RoomNext ==
    ASSUME IInv, [Next]_vars
    PROVE  RoomInv'
  <1> USE DEF IInv
  <1> DEFINE n == Len(log)
             o == Opened(log)
  <1>n. n \in Nat /\ o \in {0, 1} /\ clock \in Nat
    BY LenProperties DEF Types, Opened
  <1>r. /\ log # <<>> => n + (IF pending = NoEvent THEN 0 ELSE 1) < clock + o
        /\ log = <<>> /\ pending # NoEvent => 1 < clock + (IF pending.op.opened THEN 1 ELSE 0)
    BY DEF RoomInv
  <1>1. ASSUME NEW t, NEW next, Tool(t, next) PROVE RoomInv'
    <2>1. /\ pending = NoEvent /\ clock' = clock + 1 /\ log' = log
          /\ pending' \in {next, NoEvent}
      BY <1>1, ToolEnds
    <2>2. next # NoEvent => (clock = 0 => next.op.opened)
      BY <1>1 DEF Tool, Fit
    <2>3. log # <<>> => n < clock + o
      BY <1>r, <2>1
    <2>4. log # <<>> => n + 1 < clock + 1 + o /\ n + 0 < clock + 1 + o
      BY <1>n, <2>3
    <2>5. next # NoEvent => 1 < clock + 1 + (IF next.op.opened THEN 1 ELSE 0)
      BY <1>n, <2>2
    <2> QED BY <2>1, <2>4, <2>5 DEF RoomInv
  <1>2. CASE EscalateOwner
    <2>1. PICK m \in Messages, e \in Messages :
              pending = m /\ pending' = e /\ m # NoEvent /\ e # NoEvent /\ e.op = m.op
      BY <1>2, EscalateOwnerIs
    <2>2. clock' = clock /\ log' = log
      BY <1>2 DEF EscalateOwner
    <2> QED BY <1>r, <2>1, <2>2 DEF RoomInv
  <1>3. CASE Post
    <2>1. PICK m \in Messages : m = pending
      BY <1>3, PendingIs DEF Post
    <2>2. m # NoEvent /\ pending' = NoEvent /\ clock' = clock /\ log' \in {log, Append(log, m)}
      BY <1>3, <2>1, PendingIs DEF Post
    <2>3. CASE log' = log
      <3>1. log # <<>> => n + 0 < clock + o
        BY <1>n, <1>r, <2>1, <2>2
      <3> QED BY <2>2, <2>3, <3>1 DEF RoomInv
    <2>4. CASE log' = Append(log, m)
      <3>1. log' # <<>> /\ Len(log') = n + 1
        BY <2>4, Longer DEF Types
      <3>2. /\ log # <<>> => Opened(log') = o
            /\ log = <<>> => n = 0 /\ Opened(log') = (IF m.op.opened THEN 1 ELSE 0)
        BY <2>4, OpenedAppend DEF Types
      <3>3. log # <<>> => n + 1 < clock + o
        BY <1>r, <2>1, <2>2
      <3>4. log = <<>> => 1 < clock + (IF m.op.opened THEN 1 ELSE 0)
        BY <1>r, <2>1, <2>2
      <3>5. Len(log') + 0 < clock + Opened(log')
        BY <1>n, <3>1, <3>2, <3>3, <3>4
      <3> QED BY <2>2, <3>1, <3>5 DEF RoomInv
    <2> QED BY <2>2, <2>3, <2>4
  <1>4. CASE Noted
    <2>1. PICK m \in Messages : log' = Append(log, m) /\ clock' = clock + 1 /\ pending = NoEvent /\ live # NoThread
      BY <1>4, NoteIs
    <2>2. pending' = NoEvent
      BY <1>4, NoteIs
    <2>3. clock > 0
      BY <1>n, <2>1, LiveFull
    <2>4. log' # <<>> /\ Len(log') = n + 1
      BY <2>1, Longer DEF Types
    <2>5. /\ log # <<>> => Opened(log') = o
          /\ log = <<>> => n = 0
          /\ Opened(log') \in {0, 1}
      BY <2>1, OpenedAppend DEF Types, Opened
    <2>6. log # <<>> => n < clock + o
      BY <1>n, <1>r, <2>1
    <2>7. Len(log') + 0 < clock' + Opened(log')
      BY <1>n, <2>1, <2>3, <2>4, <2>5, <2>6
    <2> QED BY <2>2, <2>4, <2>7 DEF RoomInv
  <1>5. ASSUME pending' \in {pending, NoEvent}, UNCHANGED <<log, clock>> PROVE RoomInv'
    <2>1. log # <<>> => n + 0 < clock + o
      BY <1>n, <1>r
    <2> QED BY <1>5, <1>r, <2>1 DEF RoomInv
  <1>6. CASE Stop \/ Crash
    BY <1>5, <1>6 DEF Stop, Crash
  <1>7. CASE LoseFile \/ Repair \/ Restart
    BY <1>5, <1>7 DEF LoseFile, Repair, Restart
  <1>8. CASE UNCHANGED <<live, up, file, bak, log, pending, clock, faults, mishaps>> /\ active' \in BOOLEAN
    BY <1>5, <1>8
  <1> QED BY <1>1, <1>2, <1>3, <1>4, <1>6, <1>7, <1>8, Steps

-----------------------------------------------------------------------------
(* The log *)

(* A message more, with everything that is known of a log. *)
LEMMA LogGrows ==
    ASSUME Types, LogInv, NEW m \in Messages, Opening(m), \A i \in DOMAIN log : log[i].ts <= m.ts, NEW h, h = Append(log, m)
    PROVE  /\ h \in Seq(Messages) /\ GuessInv(h) /\ ReplayInv(h)
           /\ \A i \in DOMAIN h : h[i] = m \/ (i \in DOMAIN log /\ h[i] = log[i])
           /\ ByHand(h) => ByHand(log) \/ ~Worded(m)
  <1>1. /\ h \in Seq(Messages) /\ DOMAIN log = 1..Len(log) /\ DOMAIN h = 1..(Len(log) + 1) /\ Len(log) \in Nat
        /\ \A i \in 1..Len(log) : h[i] = log[i]
        /\ h[Len(log) + 1] = m
    BY Longer DEF Types
  <1>2. \A i \in 1..(Len(log) + 1) : i = Len(log) + 1 \/ i \in 1..Len(log)
    BY <1>1
  <1>3. \A i \in DOMAIN h : h[i] = m \/ (i \in DOMAIN log /\ h[i] = log[i])
    BY <1>1, <1>2
  <1>4. GuessInv(h)
    BY GuessAppend DEF Types, LogInv
  <1>5. ReplayInv(h)
    BY ReplayAppend DEF Types, LogInv
  <1>6. ByHand(h) => ByHand(log) \/ ~Worded(m)
    BY <1>3 DEF ByHand
  <1> QED BY <1>1, <1>3, <1>4, <1>5, <1>6

(* The messages of a log have natural time stamps. *)
LEMMA Stamped ==
    ASSUME log \in Seq(Messages)
    PROVE  \A i \in DOMAIN log : log[i] \in Messages /\ log[i].ts \in Nat
  <1>1. \A i \in DOMAIN log : log[i] \in Messages
    BY LenProperties, ElementOfSeq
  <1> QED BY <1>1 DEF Messages

(* The passes can be followed over the log, at every step. *)
LEMMA LogNext ==
    ASSUME IInv, [Next]_vars
    PROVE  LogInv'
  <1> USE DEF IInv
  <1>t. clock \in Nat /\ log \in Seq(Messages) /\ \A i \in DOMAIN log : log[i].ts \in Nat /\ log[i].ts <= clock
    BY Stamped DEF Types, LogInv
  <1>1. ASSUME log' = log, clock' = clock \/ clock' = clock + 1,
               pending' # NoEvent => clock' = clock + 1 \/ pending # NoEvent,
               "handmade" \in mishaps => "handmade" \in mishaps'
        PROVE  LogInv'
    <2>1. ASSUME NEW i \in DOMAIN log PROVE log[i].ts <= clock' /\ (pending' # NoEvent => log[i].ts < clock')
      <3>1. log[i].ts \in Nat /\ log[i].ts <= clock /\ (pending # NoEvent => log[i].ts < clock)
        BY <1>t, <2>1 DEF LogInv
      <3> QED BY <1>t, <1>1, <3>1
    <2>2. ByHand(log) => "handmade" \in mishaps'
      BY <1>1 DEF LogInv
    <2>3. GuessInv(log) /\ ReplayInv(log)
      BY DEF LogInv
    <2> QED BY <1>1, <2>1, <2>2, <2>3 DEF LogInv
  <1>2. ASSUME NEW m \in Messages, Opening(m), \A i \in DOMAIN log : log[i].ts <= m.ts, log' = Append(log, m),
               m.ts = clock', clock <= clock', clock' \in Nat, pending' = NoEvent,
               "handmade" \in mishaps \/ ~Worded(m) => "handmade" \in mishaps'
        PROVE  LogInv'
    <2>1. PICK h : h = log'
      OBVIOUS
    <2>2. /\ GuessInv(h) /\ ReplayInv(h)
          /\ \A i \in DOMAIN h : h[i] = m \/ (i \in DOMAIN log /\ h[i] = log[i])
          /\ ByHand(h) => ByHand(log) \/ ~Worded(m)
      BY <1>2, <2>1, LogGrows
    <2>3. \A i \in DOMAIN h : h[i].ts <= clock'
      <3>1. ASSUME NEW i \in DOMAIN h PROVE h[i].ts <= clock'
        <4>1. CASE h[i] = m
          BY <1>2, <4>1
        <4>2. CASE i \in DOMAIN log /\ h[i] = log[i]
          BY <1>t, <1>2, <4>2
        <4> QED BY <2>2, <3>1, <4>1, <4>2
      <3> QED BY <3>1
    <2>4. ByHand(h) => "handmade" \in mishaps'
      BY <1>2, <2>2 DEF LogInv
    <2> QED BY <1>2, <2>1, <2>2, <2>3, <2>4 DEF LogInv
  <1>3. ASSUME NEW t, NEW next, Tool(t, next) PROVE LogInv'
    <2>1. clock' = clock + 1 /\ log' = log /\ ("handmade" \in mishaps => "handmade" \in mishaps')
      BY <1>3, ToolEnds DEF Wrote
    <2> QED BY <1>1, <2>1
  <1>4. CASE EscalateOwner
    <2>1. pending # NoEvent /\ log' = log /\ clock' = clock
      BY <1>4, PendingIs DEF EscalateOwner
    <2>2. "handmade" \in mishaps => "handmade" \in mishaps'
      BY <1>4, WritesEnd DEF EscalateOwner, Wrote
    <2> QED BY <1>1, <2>1, <2>2
  <1>5. CASE Post
    <2>1. PICK m \in Messages : m = pending
      BY <1>5, PendingIs DEF Post
    <2>2. m # NoEvent /\ pending' = NoEvent /\ clock' = clock /\ log' \in {log, Append(log, m)} /\ mishaps \subseteq mishaps'
      BY <1>5, <2>1, PendingIs DEF Post
    <2>3. m.ts = clock /\ Worded(m) /\ Opening(m)
      BY <2>1, <2>2 DEF PendingInv
    <2>4. CASE log' = log
      BY <1>1, <2>2, <2>4
    <2>5. CASE log' = Append(log, m)
      <3>1. \A i \in DOMAIN log : log[i].ts <= m.ts
        BY <1>t, <2>3
      <3>2. m.ts = clock' /\ clock <= clock' /\ clock' \in Nat
        BY <1>t, <2>2, <2>3
      <3>3. "handmade" \in mishaps \/ ~Worded(m) => "handmade" \in mishaps'
        BY <2>2, <2>3
      <3> QED BY <1>2, <2>2, <2>3, <2>5, <3>1, <3>2, <3>3
    <2> QED BY <2>2, <2>4, <2>5
  <1>6. CASE Noted
    <2>1. PICK m \in Messages :
             /\ m.op = NoOp /\ m.ts = clock + 1 /\ Opening(m) /\ (Worded(m) \/ "handmade" \in mishaps')
             /\ log' = Append(log, m)
      BY <1>6, NoteIs
    <2>2. pending' = NoEvent /\ clock' = clock + 1 /\ mishaps \subseteq mishaps'
      BY <1>6, NoteIs
    <2>3. m.ts = clock' /\ clock <= clock' /\ clock' \in Nat /\ \A i \in DOMAIN log : log[i].ts <= m.ts
      BY <1>t, <2>1, <2>2
    <2>4. "handmade" \in mishaps \/ ~Worded(m) => "handmade" \in mishaps'
      BY <2>1, <2>2
    <2> QED BY <1>2, <2>1, <2>2, <2>3, <2>4
  <1>7. ASSUME UNCHANGED <<log, clock>>, pending' \in {pending, NoEvent}, mishaps \ {"uncopied"} \subseteq mishaps' PROVE LogInv'
    BY <1>1, <1>7
  <1>8. CASE Stop \/ Crash
    BY <1>7, <1>8 DEF Stop, Crash
  <1>9. CASE LoseFile \/ Restart
    BY <1>7, <1>9 DEF LoseFile, Restart
  <1>11. CASE Repair
    BY <1>7, <1>11, RepairNeedsLog, WritesEnd DEF Wrote
  <1>10. CASE UNCHANGED <<live, up, file, bak, log, pending, clock, faults, mishaps>> /\ active' \in BOOLEAN
    BY <1>7, <1>10
  <1> QED BY <1>3, <1>4, <1>5, <1>6, <1>8, <1>9, <1>10, <1>11, Steps

-----------------------------------------------------------------------------
(* Losing threads.json *)

(* The file is up to date and the backup one change behind, at every step. *)
LEMMA LossNext ==
    ASSUME IInv, [Next]_vars
    PROVE  LossInv'
  <1> USE DEF IInv
  <1>t. /\ clock \in Nat /\ log \in Seq(Messages)
        /\ \A i \in DOMAIN log : log[i] \in Messages /\ log[i].ts \in Nat /\ log[i].ts <= clock
    BY Stamped DEF Types, LogInv
  <1>1. ASSUME log' = log, Wrote, NEW t, t # NoThread, t.updated \in Nat,
               \A i \in DOMAIN log : log[i].op # NoOp => log[i].ts <= t.updated,
               \/ file' = t /\ ("uncopied" \notin mishaps' => bak' = Backup)
               \/ file' = file /\ mishaps \subseteq mishaps' /\ ("uncopied" \notin mishaps' => bak' \in {bak, Backup})
        PROVE  LossInv'
    <2>1. "lost" \notin mishaps' => "lost" \notin mishaps
      BY <1>1 DEF Wrote
    <2>2. ASSUME NEW i \in DOMAIN log, log[i].op # NoOp, "lost" \notin mishaps'
          PROVE  /\ Covers(file', log[i].ts)
                 /\ "uncopied" \notin mishaps' /\ log[i].ts < file'.updated => Covers(bak', log[i].ts)
      <3>1. /\ Covers(file, log[i].ts)
            /\ "uncopied" \notin mishaps /\ log[i].ts < file.updated => Covers(bak, log[i].ts)
        BY <2>1, <2>2 DEF LossInv
      <3>2. Backup = file
        BY <3>1 DEF Covers, Backup
      <3>3. CASE file' = t /\ ("uncopied" \notin mishaps' => bak' = Backup)
        BY <1>1, <2>2, <3>1, <3>2, <3>3 DEF Covers
      <3>4. CASE file' = file /\ mishaps \subseteq mishaps' /\ ("uncopied" \notin mishaps' => bak' \in {bak, Backup})
        BY <3>1, <3>2, <3>4
      <3> QED BY <1>1, <3>3, <3>4
    <2>3. PICK f, k, d : f = file' /\ k = bak' /\ d = mishaps'
      OBVIOUS
    <2>4. "lost" \notin d =>
             \A i \in DOMAIN log : log[i].op # NoOp =>
                 /\ Covers(f, log[i].ts)
                 /\ "uncopied" \notin d /\ log[i].ts < f.updated => Covers(k, log[i].ts)
      BY <2>2, <2>3
    <2> QED BY <1>1, <2>3, <2>4 DEF LossInv, Covers
  <1>2. ASSUME NEW t, NEW next, Tool(t, next) PROVE LossInv'
    <2>1. /\ log' = log /\ t # NoThread /\ Wrote
          /\ \/ file' = t /\ ("uncopied" \notin mishaps' => bak' = Backup)
             \/ file' = file /\ mishaps \subseteq mishaps' /\ ("uncopied" \notin mishaps' => bak' \in {bak, Backup})
      BY <1>2, ToolEnds
    <2>2. t.updated = clock + 1
      BY <1>2 DEF Tool, Fit
    <2>3. t.updated \in Nat /\ \A i \in DOMAIN log : log[i].ts <= t.updated
      BY <1>t, <2>2
    <2> QED BY <1>1, <2>1, <2>3
  <1>3. CASE EscalateOwner
    <2>1. PICK t \in FullThreads : live' = t /\ t.updated = live.updated /\ pending # NoEvent
      BY <1>3, EscalateOwnerIs
    <2>2. t.updated = clock /\ t # NoThread
      BY <2>1, ThreadsAre DEF PendingInv
    <2>3. /\ log' = log /\ Wrote
          /\ \/ file' = t /\ ("uncopied" \notin mishaps' => bak' = Backup)
             \/ file' = file /\ mishaps \subseteq mishaps' /\ ("uncopied" \notin mishaps' => bak' \in {bak, Backup})
      BY <1>3, <2>1, WritesEnd DEF EscalateOwner
    <2>4. t.updated \in Nat /\ \A i \in DOMAIN log : log[i].ts <= t.updated
      BY <1>t, <2>2
    <2> QED BY <1>1, <2>2, <2>3, <2>4
  <1>4. ASSUME NEW m \in Messages, log' = Append(log, m), UNCHANGED <<file, bak>>, mishaps \subseteq mishaps',
               m.op # NoOp => file # NoThread /\ file.updated = clock /\ m.ts = clock
        PROVE  LossInv'
    <2>1. PICK h : h = log'
      OBVIOUS
    <2>2. \A i \in DOMAIN h : h[i] = m \/ (i \in DOMAIN log /\ h[i] = log[i])
      <3>1. /\ DOMAIN log = 1..Len(log) /\ DOMAIN h = 1..(Len(log) + 1) /\ Len(log) \in Nat
            /\ \A i \in 1..Len(log) : h[i] = log[i]
            /\ h[Len(log) + 1] = m
        BY <1>t, <1>4, <2>1, Longer
      <3>2. \A i \in 1..(Len(log) + 1) : i = Len(log) + 1 \/ i \in 1..Len(log)
        BY <3>1
      <3> QED BY <3>1, <3>2
    <2>3. ASSUME NEW i \in DOMAIN h, h[i].op # NoOp, "lost" \notin mishaps
          PROVE  /\ Covers(file, h[i].ts)
                 /\ "uncopied" \notin mishaps /\ h[i].ts < file.updated => Covers(bak, h[i].ts)
      <3>1. CASE h[i] = m
        BY <1>t, <1>4, <2>3, <3>1 DEF Covers
      <3>2. CASE i \in DOMAIN log /\ h[i] = log[i]
        BY <2>3, <3>2 DEF LossInv
      <3> QED BY <2>2, <2>3, <3>1, <3>2
    <2> QED BY <1>4, <2>1, <2>3 DEF LossInv, Covers
  <1>5. CASE Post
    <2>1. PICK m \in Messages : m = pending /\ m # NoEvent
      BY <1>5, PendingIs DEF Post
    <2>2. file # NoThread /\ file.updated = clock /\ m.ts = clock
      BY <2>1 DEF PendingInv
    <2>3. log' \in {log, Append(log, m)} /\ UNCHANGED <<file, bak>> /\ mishaps \subseteq mishaps'
      BY <1>5, <2>1 DEF Post
    <2>4. CASE log' = log
      BY <2>3, <2>4 DEF LossInv, Covers
    <2>5. CASE log' = Append(log, m)
      BY <1>4, <2>2, <2>3, <2>5
    <2> QED BY <2>3, <2>4, <2>5
  <1>6. CASE Noted
    <2>1. PICK m \in Messages : m.op = NoOp /\ log' = Append(log, m)
      BY <1>6, NoteIs
    <2>2. UNCHANGED <<file, bak>> /\ mishaps \subseteq mishaps'
      BY <1>6, NoteIs
    <2> QED BY <1>4, <2>1, <2>2
  <1>7. CASE Repair
    <2>1. /\ Rebuild \in FullThreads
          /\ \A i \in DOMAIN log : log[i].op # NoOp => log[i].ts <= Rebuild.updated
      BY <1>7, RepairIs, RepairNeedsLog
    <2>2. PICK t : t = Rebuild
      OBVIOUS
    <2>3. /\ log' = log /\ Wrote
          /\ \/ file' = t /\ ("uncopied" \notin mishaps' => bak' = Backup)
             \/ file' = file /\ mishaps \subseteq mishaps' /\ ("uncopied" \notin mishaps' => bak' \in {bak, Backup})
      BY <1>7, <2>2, RepairNeedsLog, WritesEnd
    <2>4. t # NoThread /\ t.updated \in Nat /\ \A i \in DOMAIN log : log[i].op # NoOp => log[i].ts <= t.updated
      BY <2>1, <2>2, ThreadsAre DEF FullThreads
    <2> QED BY <1>1, <2>3, <2>4
  <1>8. CASE LoseFile
    BY <1>8 DEF LoseFile, LossInv, Covers
  <1>9. CASE Stop \/ Crash \/ Restart
    BY <1>9 DEF Stop, Crash, Restart, LossInv, Covers
  <1>10. CASE UNCHANGED <<live, up, file, bak, log, pending, clock, faults, mishaps>> /\ active' \in BOOLEAN
    BY <1>10 DEF LossInv, Covers
  <1> QED BY <1>2, <1>3, <1>5, <1>6, <1>7, <1>8, <1>9, <1>10, Steps

-----------------------------------------------------------------------------
(* What the log says is what the thread is *)

(* Of an empty log, a new thread. *)
LEMMA EmptyAgrees == Agrees(Fresh(0), <<>>, RecOwner(<<>>))
  <1>1. DOMAIN <<>> = {}
    OBVIOUS
  <1>2. Changes(<<>>) = {} /\ Owned(<<>>) = {} /\ Pinned(<<>>) = {} /\ Escalations(<<>>) = {} /\ Reopenings(<<>>) = {}
    BY <1>1 DEF Changes, Owned, Pinned, Escalations, Reopenings
  <1>3. RecState(<<>>) = "none" /\ RecOwner(<<>>) = None /\ RecPin(<<>>) = "none"
    BY <1>2 DEF RecState, RecOwner, RecPin
  <1>4. Cardinality(Escalations(<<>>)) = 0 /\ Cardinality(Reopenings(<<>>)) = 0
    BY <1>2, FS_EmptySet
  <1>5. /\ Fresh(0).state = "open" /\ Fresh(0).owner = None /\ ~Fresh(0).pinned /\ Fresh(0).pinned \in BOOLEAN
        /\ Fresh(0).escalations = 0 /\ Fresh(0).reopened = 0
    BY DEF Fresh
  <1>6. Fresh(0).pinned = (RecPin(<<>>) = "pin")
    BY <1>3, <1>5
  <1> QED BY <1>3, <1>4, <1>5, <1>6 DEF Agrees

(* A change and its event, together. *)
LEMMA AgreesAppend ==
    ASSUME NEW msgs \in Seq(Messages), NEW next \in Messages, next # NoEvent, NEW o, NEW t,
           Agrees(o, msgs, RecOwner(msgs)), Follows(o, t, next)
    PROVE  Told(t, msgs, next)
  <1> DEFINE h == Append(msgs, next)
             op == next.op
  <1>1. OpOf(next) = op
    BY DEF OpOf
  <1>2. /\ t.state = IF op.state = "none" THEN o.state ELSE op.state
        /\ t.owner = IF op.owner = None \/ next.kind = "assign" THEN o.owner ELSE op.owner
        /\ t.escalations = o.escalations + (IF op.state = "escalated" /\ o.state # "escalated" THEN 1 ELSE 0)
        /\ t.reopened = o.reopened + (IF op.state # "none" /\ Terminal(o.state) /\ ~Terminal(op.state) THEN 1 ELSE 0)
    BY <1>1 DEF Follows
  <1>3. t.pinned = IF op.pin = "none" THEN o.pinned ELSE op.pin = "pin"
    BY <1>1 DEF Follows
  <1>4. /\ o.state = IF RecState(msgs) = "none" THEN "open" ELSE RecState(msgs)
        /\ o.owner = RecOwner(msgs)
        /\ o.escalations = Cardinality(Escalations(msgs)) /\ o.reopened = Cardinality(Reopenings(msgs))
    BY DEF Agrees
  <1>5. o.pinned = (RecPin(msgs) = "pin")
    BY DEF Agrees
  <1>6. /\ h # <<>>
        /\ RecState(h) = IF op.state = "none" THEN RecState(msgs) ELSE op.state
        /\ RecOwner(h) = IF op.owner = None THEN RecOwner(msgs) ELSE op.owner
        /\ RecPin(h) = IF op.pin = "none" THEN RecPin(msgs) ELSE op.pin
    BY Longer, RecStateAppend, RecOwnerAppend, RecPinAppend
  <1>7. /\ Cardinality(Escalations(h)) =
             Cardinality(Escalations(msgs)) + (IF op.state = "escalated" /\ o.state # "escalated" THEN 1 ELSE 0)
        /\ Cardinality(Reopenings(h)) =
             Cardinality(Reopenings(msgs)) + (IF op.state # "none" /\ Terminal(o.state) /\ ~Terminal(op.state) THEN 1 ELSE 0)
    <2>1. PICK s : s = o.state
      OBVIOUS
    <2> QED BY <1>4, <2>1, CountsAppend
  <1> HIDE DEF h, op
  <1>8. t.pinned = (RecPin(h) = "pin")
    BY <1>3, <1>5, <1>6, Zenon
  <1>9. t.owner = RecOwner(IF next.kind = "assign" THEN msgs ELSE h)
    BY <1>2, <1>4, <1>6
  <1>10. t.state = IF RecState(h) = "none" THEN "open" ELSE RecState(h)
    BY <1>2, <1>4, <1>6
  <1>11. t.escalations = Cardinality(Escalations(h)) /\ t.reopened = Cardinality(Reopenings(h))
    BY <1>2, <1>4, <1>7
  <1>12. Agrees(t, h, RecOwner(IF next.kind = "assign" THEN msgs ELSE h))
    BY <1>8, <1>9, <1>10, <1>11 DEF Agrees
  <1> QED BY <1>6, <1>12 DEF Told, h

(* A change without an event changes nothing that is recorded. *)
LEMMA AgreesSilent ==
    ASSUME NEW msgs \in Seq(Messages), NEW o, NEW t, Agrees(o, msgs, RecOwner(msgs)), Follows(o, t, NoEvent)
    PROVE  Agrees(t, msgs, RecOwner(msgs))
  <1>1. OpOf(NoEvent) = NoOp /\ NoOp.state = "none" /\ NoOp.owner = None /\ NoOp.pin = "none"
    BY DEF OpOf, NoOp
  <1>2. t.state = o.state /\ t.owner = o.owner
    BY <1>1 DEF Follows
  <1>3. t.escalations = o.escalations + 0 /\ t.reopened = o.reopened + 0
    BY <1>1 DEF Follows
  <1>4. t.pinned = o.pinned
    BY <1>1 DEF Follows
  <1>5. \E m : m \in Messages
    <2>1. \E k \in Kinds, x \in Texts, w \in Owners \cup {None}, op \in Ops, n \in Nat : TRUE
      BY OpsAre DEF Kinds, Texts
    <2>2. PICK k \in Kinds, x \in Texts, w \in Owners \cup {None}, op \in Ops, n \in Nat : TRUE
      BY <2>1
    <2>3. [kind |-> k, text |-> x, who |-> w, op |-> op, ts |-> n] \in Messages
      BY DEF Messages, Kinds, Texts
    <2> QED BY <2>3
  <1>6. Cardinality(Escalations(msgs)) \in Nat /\ Cardinality(Reopenings(msgs)) \in Nat
    BY <1>5, CountsAppend
  <1>7. t.escalations = Cardinality(Escalations(msgs)) /\ t.reopened = Cardinality(Reopenings(msgs))
    BY <1>3, <1>6 DEF Agrees
  <1> QED BY <1>2, <1>4, <1>7 DEF Agrees

(* A message without an operation records nothing. *)
LEMMA AgreesNote ==
    ASSUME NEW msgs \in Seq(Messages), NEW m \in Messages, m.op = NoOp, NEW t, Agrees(t, msgs, RecOwner(msgs))
    PROVE  Agrees(t, Append(msgs, m), RecOwner(Append(msgs, m)))
  <1> DEFINE h == Append(msgs, m)
  <1>1. m.op.state = "none" /\ m.op.owner = None /\ m.op.pin = "none"
    BY DEF NoOp
  <1>2. RecState(h) = RecState(msgs) /\ RecOwner(h) = RecOwner(msgs) /\ RecPin(h) = RecPin(msgs)
    BY <1>1, RecStateAppend, RecOwnerAppend, RecPinAppend
  <1>3. PICK s : s = IF RecState(msgs) = "none" THEN "open" ELSE RecState(msgs)
    OBVIOUS
  <1>4. /\ Cardinality(Escalations(msgs)) \in Nat /\ Cardinality(Reopenings(msgs)) \in Nat
        /\ Cardinality(Escalations(h)) = Cardinality(Escalations(msgs)) + 0
        /\ Cardinality(Reopenings(h)) = Cardinality(Reopenings(msgs)) + 0
    BY <1>1, <1>3, CountsAppend
  <1> HIDE DEF h
  <1>5. Cardinality(Escalations(h)) = Cardinality(Escalations(msgs)) /\ Cardinality(Reopenings(h)) = Cardinality(Reopenings(msgs))
    BY <1>4
  <1>6. Agrees(t, h, RecOwner(h))
    BY <1>2, <1>5 DEF Agrees
  <1> QED BY <1>6 DEF h

(* The same event with the owner written. *)
LEMMA AgreesOwner ==
    ASSUME NEW msgs \in Seq(Messages), NEW m \in Messages, NEW e \in Messages, m # NoEvent, e # NoEvent, e.op = m.op,
           m.kind = "assign", e.kind = "event", m.op.owner = m.who, m.who # None, NEW f, NEW t, t.owner = m.who, t.state = f.state,
           t.pinned = f.pinned, t.reopened = f.reopened, t.escalations = f.escalations, Told(f, msgs, m)
    PROVE  Told(t, msgs, e)
  <1> DEFINE h == Append(msgs, m)
             k == Append(msgs, e)
  <1>1. k # <<>> /\ RecState(k) = RecState(h) /\ RecOwner(k) = m.who /\ RecPin(k) = RecPin(h)
    <2>1. RecState(k) = RecState(h)
      BY RecStateAppend
    <2>2. RecOwner(k) = m.who
      BY RecOwnerAppend
    <2>3. RecPin(k) = RecPin(h)
      BY RecPinAppend
    <2> QED BY <2>1, <2>2, <2>3, Longer
  <1>2. PICK s : s = IF RecState(msgs) = "none" THEN "open" ELSE RecState(msgs)
    OBVIOUS
  <1>3. Cardinality(Escalations(k)) = Cardinality(Escalations(h)) /\ Cardinality(Reopenings(k)) = Cardinality(Reopenings(h))
    <2>1. /\ Cardinality(Escalations(h)) =
                Cardinality(Escalations(msgs)) + (IF m.op.state = "escalated" /\ s # "escalated" THEN 1 ELSE 0)
          /\ Cardinality(Reopenings(h)) =
                Cardinality(Reopenings(msgs)) + (IF m.op.state # "none" /\ Terminal(s) /\ ~Terminal(m.op.state) THEN 1 ELSE 0)
      BY <1>2, CountsAppend
    <2>2. /\ Cardinality(Escalations(k)) =
                Cardinality(Escalations(msgs)) + (IF e.op.state = "escalated" /\ s # "escalated" THEN 1 ELSE 0)
          /\ Cardinality(Reopenings(k)) =
                Cardinality(Reopenings(msgs)) + (IF e.op.state # "none" /\ Terminal(s) /\ ~Terminal(e.op.state) THEN 1 ELSE 0)
      BY <1>2, CountsAppend
    <2> QED BY <2>1, <2>2
  <1>4. \E w : Agrees(f, h, w)
    BY DEF Told
  <1> HIDE DEF h, k
  <1>5. Agrees(t, k, RecOwner(k))
    BY <1>1, <1>3, <1>4 DEF Agrees
  <1> QED BY <1>1, <1>5 DEF Told, k

(* As long as nothing goes wrong the thread stays what the log says. *)
LEMMA ExactNext ==
    ASSUME IInv, [Next]_vars, mishaps' \subseteq Harmless
    PROVE  /\ up' => live' = file'
           /\ ~up' => file' # NoThread
           /\ file' = NoThread => log' = <<>>
           /\ file' # NoThread => Told(file', log', pending')
  <1> USE DEF IInv
  <1> DEFINE Goal == /\ up' => live' = file'
                     /\ ~up' => file' # NoThread
                     /\ file' = NoThread => log' = <<>>
                     /\ file' # NoThread => Told(file', log', pending')
  <1>t. log \in Seq(Messages)
    BY DEF Types
  <1>h. \A x \in {"unsaved", "refused", "crashed", "lost", "repaired"} : x \notin mishaps'
    BY DEF Harmless
  <1>e. mishaps \subseteq Harmless =>
            /\ up => live = file
            /\ ~up => file # NoThread
            /\ file = NoThread => log = <<>>
            /\ file # NoThread => Told(file, log, pending)
    BY DEF ExactInv
  <1>q. \A f, msgs : Told(f, msgs, NoEvent) <=> msgs # <<>> /\ Agrees(f, msgs, RecOwner(msgs))
    <2>1. NoEvent.kind # "assign"
      BY DEF NoEvent
    <2> QED BY <2>1 DEF Told
  <1>1. ASSUME NEW t, NEW next, Tool(t, next) PROVE Goal
    <2>1. /\ up /\ pending = NoEvent /\ live' = t /\ UNCHANGED <<up, log>> /\ t # NoThread
          /\ file' = t /\ pending' = next /\ mishaps \subseteq Harmless
      <3>1. "unsaved" \notin mishaps'
        BY <1>h
      <3> QED BY <1>1, <3>1, ToolEnds DEF Wrote, Harmless
    <2>2. live = file
      BY <1>e, <2>1
    <2>3. Agrees(Old, log, RecOwner(log))
      <3>1. CASE live = NoThread
        BY <1>e, <2>1, <2>2, <3>1, EmptyAgrees DEF Old
      <3>2. CASE live # NoThread
        BY <1>e, <1>q, <2>1, <2>2, <3>2 DEF Old
      <3> QED BY <3>1, <3>2
    <2>4. PICK o : o = Old
      OBVIOUS
    <2>5. Agrees(o, log, RecOwner(log)) /\ Follows(o, t, next)
      BY <1>1, <2>3, <2>4 DEF Tool
    <2>6. Told(t, log, next)
      <3>1. CASE next # NoEvent
        <4>1. next \in Messages
          BY <1>1, <3>1 DEF Tool, Fit
        <4> QED BY <1>t, <2>5, <3>1, <4>1, AgreesAppend
      <3>2. CASE next = NoEvent
        <4>1. live # NoThread
          BY <1>1, <3>2 DEF Tool, Fit
        <4>2. log # <<>>
          BY <1>e, <1>q, <2>1, <2>2, <4>1
        <4>3. Agrees(t, log, RecOwner(log))
          BY <1>t, <2>5, <3>2, AgreesSilent
        <4> QED BY <1>q, <3>2, <4>2, <4>3
      <3> QED BY <3>1, <3>2
    <2> QED BY <2>1, <2>6
  <1>2. CASE EscalateOwner
    <2>1. PICK m \in Messages, e \in Messages, t \in FullThreads :
              /\ pending = m /\ pending' = e /\ m # NoEvent /\ e # NoEvent
              /\ m.kind = "assign" /\ e.kind = "event" /\ e.op = m.op
              /\ live' = t /\ t.owner = m.who /\ t.state = live.state
              /\ t.pinned = live.pinned /\ t.reopened = live.reopened /\ t.escalations = live.escalations
      BY <1>2, EscalateOwnerIs
    <2>2. up /\ up' = up /\ log' = log /\ file' = live' /\ mishaps \subseteq Harmless
      <3>1. "unsaved" \notin mishaps'
        BY <1>h
      <3> QED BY <1>2, <3>1, WritesEnd DEF EscalateOwner, Wrote, Harmless
    <2>3. file # NoThread /\ m.op.owner = m.who /\ m.who # None
      BY <2>1 DEF PendingInv
    <2>4. PICK f : f = file
      OBVIOUS
    <2>5. live = f /\ Told(f, log, m)
      BY <1>e, <2>1, <2>2, <2>3, <2>4
    <2>6. t.state = f.state /\ t.pinned = f.pinned /\ t.reopened = f.reopened /\ t.escalations = f.escalations
      BY <2>1, <2>5
    <2>7. Told(t, log, e)
      BY <1>t, <2>1, <2>3, <2>5, <2>6, AgreesOwner
    <2> QED BY <2>1, <2>2, <2>7, ThreadsAre
  <1>3. CASE Post
    <2>1. PICK m \in Messages : m = pending /\ m # NoEvent
      BY <1>3, PendingIs DEF Post
    <2>2. /\ up /\ m.kind # "assign" /\ log' = Append(log, m) /\ pending' = NoEvent
          /\ UNCHANGED <<live, up, file, mishaps>>
      <3>1. "refused" \notin mishaps'
        BY <1>h
      <3> QED BY <1>3, <2>1, <3>1 DEF Post
    <2>3. file # NoThread
      BY <2>1 DEF PendingInv
    <2>4. live = file /\ Told(file, log, m)
      BY <1>e, <2>1, <2>2, <2>3
    <2>5. Append(log, m) # <<>> /\ Agrees(file, Append(log, m), RecOwner(Append(log, m)))
      BY <2>1, <2>2, <2>4 DEF Told
    <2> QED BY <1>q, <2>2, <2>3, <2>4, <2>5
  <1>4. CASE Noted
    <2>1. PICK m \in Messages : m.op = NoOp /\ log' = Append(log, m) /\ pending = NoEvent /\ live # NoThread
      BY <1>4, NoteIs
    <2>2. up /\ UNCHANGED <<live, up, file, pending>> /\ mishaps \subseteq mishaps'
      BY <1>4, NoteIs
    <2>3. live = file /\ Agrees(file, log, RecOwner(log))
      BY <1>e, <1>q, <2>1, <2>2
    <2>4. PICK f : f = file
      OBVIOUS
    <2>5. Agrees(f, Append(log, m), RecOwner(Append(log, m)))
      BY <1>t, <2>1, <2>3, <2>4, AgreesNote
    <2>6. Append(log, m) # <<>>
      BY <1>t, Longer
    <2> QED BY <1>q, <2>1, <2>2, <2>3, <2>4, <2>5, <2>6
  <1>5. CASE Stop
    BY <1>e, <1>5 DEF Stop
  <1>6. CASE Restart
    <2>1. /\ file # NoThread /\ Told(file, log, pending) /\ up' /\ live' = file
          /\ UNCHANGED <<file, log, pending>>
      BY <1>e, <1>6 DEF Restart, Loaded
    <2> QED BY <2>1
  <1>7. CASE Crash \/ LoseFile \/ Repair
    <2>1. "crashed" \in mishaps' \/ "lost" \in mishaps' \/ "repaired" \in mishaps' \/ "unsaved" \in mishaps'
      <3>1. CASE Crash \/ LoseFile
        BY <3>1 DEF Crash, LoseFile
      <3>2. CASE Repair
        BY <3>2, RepairNeedsLog, WritesEnd
      <3> QED BY <1>7, <3>1, <3>2
    <2> QED BY <1>h, <2>1
  <1>8. CASE UNCHANGED <<live, up, file, bak, log, pending, clock, faults, mishaps>> /\ active' \in BOOLEAN
    BY <1>e, <1>8
  <1> QED BY <1>1, <1>2, <1>3, <1>4, <1>5, <1>6, <1>7, <1>8, Steps

-----------------------------------------------------------------------------
(* The passes over an empty log *)

(* They end where they start. *)
LEMMA EmptyPasses == GuessInv(<<>>) /\ ReplayInv(<<>>) /\ ~ByHand(<<>>)
  <1>1. DOMAIN <<>> = {} /\ Len(<<>>) = 0 /\ 0..0 = {0} /\ 1..0 = {}
    OBVIOUS
  <1>2. Changes(<<>>) = {} /\ Owned(<<>>) = {} /\ Pinned(<<>>) = {}
    BY <1>1 DEF Changes, Owned, Pinned
  <1>3. RecState(<<>>) = "none" /\ RecOwner(<<>>) = None /\ RecPin(<<>>) = "none" /\ Opened(<<>>) = 0
    BY <1>2 DEF RecState, RecOwner, RecPin, Opened
  <1>4. ASSUME NEW b \in Bases
        PROVE  /\ \E f : GuessTrace(f, b, <<>>)
               /\ \A f : GuessTrace(f, b, <<>>) => GuessEnd(f[Len(<<>>)], b, <<>>)
    <2>1. GuessTrace([i \in 0..0 |-> b], b, <<>>)
      BY <1>1 DEF GuessTrace
    <2>2. GuessEnd(b, b, <<>>)
      <3>1. b \in FullThreads /\ b.state = "open" /\ b.owner = None /\ b.reopened = 0
        BY DEF Bases
      <3>2. b.pinned = FALSE
        BY DEF Bases
      <3>3. Reached(b) + Opened(<<>>) <= Len(<<>>)
        BY <1>1, <1>3, <3>1 DEF Reached, Terminal
      <3> QED BY <3>1, <3>2, <3>3 DEF GuessEnd
    <2>3. \A f : GuessTrace(f, b, <<>>) => f[Len(<<>>)] = b
      BY <1>1 DEF GuessTrace
    <2> QED BY <2>1, <2>2, <2>3
  <1>5. ASSUME NEW b \in FullThreads
        PROVE  /\ \E f : ReplayTrace(f, b, <<>>)
               /\ \A f : ReplayTrace(f, b, <<>>) => ReplayEnd(f[Len(<<>>)], b, <<>>)
    <2>1. ReplayTrace([i \in 0..0 |-> b], b, <<>>)
      BY <1>1 DEF ReplayTrace
    <2>2. ReplayEnd(b, b, <<>>)
      BY <1>1, <1>3 DEF ReplayEnd
    <2>3. \A f : ReplayTrace(f, b, <<>>) => f[Len(<<>>)] = b
      BY <1>1 DEF ReplayTrace
    <2> QED BY <2>1, <2>2, <2>3
  <1>6. ~ByHand(<<>>)
    BY <1>1 DEF ByHand
  <1> QED BY <1>4, <1>5, <1>6 DEF GuessInv, ReplayInv

-----------------------------------------------------------------------------
(* The theorems *)

(* The inductive invariant: the types, that no copy is from the future, what *)
(* a call under way has written, that every message took a call, what the   *)
(* two passes over the log end with, that the thread is what the log says,  *)
(* and that the backup is one change behind.                                *)
THEOREM Invariant == Spec => []IInv
  <1>1. Init => IInv
    <2> SUFFICES ASSUME Init PROVE IInv
      OBVIOUS
    <2>1. Types
      BY ThreadsAre, EmptySeq DEF Init, Types
    <2>2. CopiesInv
      BY DEF Init, CopiesInv, Timely
    <2>3. PendingInv /\ RoomInv
      BY DEF Init, PendingInv, RoomInv
    <2>4. LogInv
      BY EmptyPasses DEF Init, LogInv
    <2>5. ExactInv
      BY DEF Init, ExactInv
    <2>6. LossInv
      BY DEF Init, LossInv
    <2> QED BY <2>1, <2>2, <2>3, <2>4, <2>5, <2>6 DEF IInv
  <1>2. IInv /\ [Next]_vars => IInv'
    <2> SUFFICES ASSUME IInv, [Next]_vars PROVE IInv'
      OBVIOUS
    <2>1. Types' /\ CopiesInv' /\ PendingInv'
      BY TypesNext, CopiesNext, PendingNext
    <2>2. RoomInv' /\ LogInv' /\ LossInv'
      BY RoomNext, LogNext, LossNext
    <2>3. ExactInv'
      BY ExactNext DEF ExactInv
    <2> QED BY <2>1, <2>2, <2>3 DEF IInv
  <1> QED BY <1>1, <1>2, PTL DEF Spec

(* The types; a thread only exists while the daemon runs, and ending and   *)
(* reopening it took a call each (store.rs).                               *)
THEOREM TypeCorrect == Spec => []TypeOK
  <1>1. IInv => TypeOK
    <2> SUFFICES ASSUME IInv PROVE TypeOK
      OBVIOUS
    <2>1. live # NoThread => Reached(live) <= clock
      BY LiveFull DEF IInv, Types
    <2> QED BY <2>1 DEF IInv, Types, TypeOK
  <1> QED BY <1>1, Invariant, PTL

(* MsgMeta.thread_op: the log alone gives back the recorded state, owner    *)
(* and pins, whatever the tools, the messages and the restarts before; what *)
(* is posted by hand counts only where no tool recorded a change.          *)
THEOREM RebuildIsExact == Spec => []RebuildExact
  <1>1. IInv => RebuildExact
    <2> SUFFICES ASSUME IInv, Quiet, mishaps \subseteq Harmless
                 PROVE  /\ Rebuild.pinned = live.pinned
                        /\ \/ Rebuild.state = live.state
                           \/ "handmade" \in mishaps /\ \A i \in DOMAIN log : log[i].op.state = "none"
                        /\ \/ Rebuild.owner = live.owner
                           \/ "handmade" \in mishaps /\ \A i \in DOMAIN log : log[i].op.owner = None
      BY DEF RebuildExact
    <2> USE DEF IInv
    <2>1. live = file /\ file # NoThread /\ pending = NoEvent /\ Told(file, log, pending)
      BY DEF ExactInv, Quiet
    <2>2. log # <<>> /\ Agrees(live, log, RecOwner(log))
      <3>1. NoEvent.kind # "assign"
        BY DEF NoEvent
      <3> QED BY <2>1, <3>1 DEF Told
    <2>3. PICK b \in Bases, g \in FullThreads :
              b.updated = log[Len(log)].ts /\ GuessEnd(g, b, log) /\ ReplayEnd(Rebuild, g, log)
      BY <2>2, Rebuilt DEF Types, LogInv
    <2>4. PICK t : t = Rebuild
      OBVIOUS
    <2>0. 1 \in DOMAIN log /\ log[1] \in Messages
      <3>1. 1 \in DOMAIN log
        BY <2>2, LenProperties, EmptySeq DEF Types
      <3> QED BY <3>1, Stamped DEF Types
    <2>5. t.owner = live.owner \/ ("handmade" \in mishaps /\ \A i \in DOMAIN log : log[i].op.owner = None)
      <3>1. CASE RecOwner(log) # None
        BY <2>2, <2>3, <2>4, <3>1 DEF Agrees, ReplayEnd
      <3>2. CASE RecOwner(log) = None
        <4>1. live.owner = None /\ t.owner = g.owner
          BY <2>2, <2>3, <2>4, <3>2 DEF Agrees, ReplayEnd
        <4>2. g.owner = None \/ "handmade" \in mishaps
          BY <2>3, <3>2 DEF GuessEnd, LogInv
        <4>3. Owned(log) = {}
          BY <2>0, <3>2, RecOwnerAppend DEF Types
        <4> QED BY <4>1, <4>2, <4>3 DEF Owned
      <3> QED BY <3>1, <3>2
    <2>6. t.pinned = live.pinned
      <3>1. t.pinned = IF RecPin(log) = "none" THEN g.pinned ELSE RecPin(log) = "pin"
        BY <2>3, <2>4 DEF ReplayEnd
      <3>2. g.pinned = FALSE
        BY <2>3 DEF GuessEnd
      <3>3. live.pinned = (RecPin(log) = "pin")
        BY <2>2 DEF Agrees
      <3> QED BY <3>1, <3>2, <3>3
    <2>7. CASE RecState(log) # "none"
      <3>1. t.state = live.state
        BY <2>2, <2>3, <2>4, <2>7 DEF Agrees, ReplayEnd
      <3> QED BY <2>4, <2>5, <2>6, <3>1
    <2>8. CASE RecState(log) = "none"
      <3>1. live.state = "open" /\ t.state = g.state
        BY <2>2, <2>3, <2>4, <2>8 DEF Agrees, ReplayEnd
      <3>2. g.state = "open" \/ "handmade" \in mishaps
        BY <2>3, <2>8 DEF GuessEnd, LogInv
      <3>3. \A i \in DOMAIN log : log[i].op.state = "none"
        <4>3. Changes(log) = {}
          BY <2>0, <2>8, RecStateAppend DEF Types
        <4> QED BY <4>3 DEF Changes
      <3> QED BY <2>4, <2>5, <2>6, <3>1, <3>2, <3>3
    <2> QED BY <2>7, <2>8
  <1> QED BY <1>1, Invariant, PTL

(* The thread has counted the escalations and the reopenings that the log  *)
(* records, each once (set_thread_state).                                  *)
THEOREM CountsMatch == Spec => []CountsMatchLog
  <1>1. IInv => CountsMatchLog
    <2> SUFFICES ASSUME IInv, Quiet, mishaps \subseteq Harmless
                 PROVE  live.escalations = Cardinality(Escalations(log)) /\ live.reopened = Cardinality(Reopenings(log))
      BY DEF CountsMatchLog
    <2>1. live = file /\ file # NoThread /\ pending = NoEvent /\ Told(file, log, pending)
      BY DEF IInv, ExactInv, Quiet
    <2> QED BY <2>1 DEF Told, Agrees
  <1> QED BY <1>1, Invariant, PTL

(* Losing threads.json costs at most the last change, once the last copy   *)
(* to the backup was good: it holds every recorded change before          *)
(* (persist_threads, repair_threads, whose copies may fail).               *)
THEOREM LossCostsOne == Spec => []LossCostsOneChange
  <1>1. IInv => LossCostsOneChange
    <2> SUFFICES ASSUME IInv, mishaps \cap {"lost", "uncopied"} = {}, NEW i \in DOMAIN log, log[i].op # NoOp, log[i].ts < file.updated
                 PROVE  bak # NoThread /\ bak.updated >= log[i].ts
      BY DEF LossCostsOneChange
    <2>1. bak # NoThread /\ log[i].ts <= bak.updated
      BY DEF IInv, LossInv, Covers
    <2>2. bak \in FullThreads
      BY <2>1, ThreadsAre DEF IInv, Types
    <2>3. bak.updated \in Nat /\ log[i].ts \in Nat
      BY <2>2, Stamped DEF FullThreads, IInv, Types
    <2> QED BY <2>1, <2>3
  <1> QED BY <1>1, Invariant, PTL
=============================================================================
