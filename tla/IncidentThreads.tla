--------------------------- MODULE IncidentThreads ---------------------------
(***************************************************************************)
(* One incident of a meeting room (crates/rozum-meeting): the Thread kept  *)
(* in memory and in threads.json with its .bak, the messages that record   *)
(* each change in the room's log, and the rebuilding of the thread from    *)
(* the log alone (store.rs, daemon.rs).                                    *)
(*                                                                         *)
(* A tool call changes the thread, writes threads.json and then posts its  *)
(* event, all under the room's lock; the daemon can die in between.        *)
(* Threads do not touch each other, so one stands for all.  What opening a *)
(* thread fixes (title, kind, severity, created_ts) is left out.           *)
(***************************************************************************)
EXTENDS Naturals, Sequences, FiniteSets, FiniteSetsExt

CONSTANTS
    Owners,    \* participants a thread can be assigned to
    None,      \* no owner
    MaxOps,    \* bound: tool calls
    MaxFaults  \* bound: crashes, failed writes and lost files

ASSUME ThreadsAssumption ==
    None \notin Owners /\ MaxOps \in Nat /\ MaxFaults \in Nat

States == {"open", "triaging", "escalated", "resolved", "closed"}

(* ThreadState::is_terminal *)
Terminal(s) == s \in {"resolved", "closed"}

VARIABLES
    live,     \* TranscriptWriter.threads: the thread, NoThread when there is none
    up,       \* whether the daemon runs
    file,     \* threads.json
    bak,      \* threads.json.bak
    log,      \* the thread's messages
    active,   \* whether the room takes messages: neither paused nor ended
    pending,  \* the event still to be posted by the call under way, or NoEvent
    clock,    \* tool calls so far: the time stamps
    faults,
    mishaps   \* what has gone wrong so far

vars == <<live, up, file, bak, log, active, pending, clock, faults, mishaps>>

(* `refused`: an event was not posted, the room being paused or the disk   *)
(* full; `crashed`: the daemon died between a change and its event;        *)
(* `unsaved`: threads.json was not written; `lost`: threads.json was lost; *)
(* `uncopied`: the last copy to threads.json.bak failed; `handmade`:       *)
(* somebody posted a resolution, or an event worded like those of the      *)
(* tools; `repaired`: threads.json was rebuilt from the log.               *)
Mishaps == {"refused", "crashed", "unsaved", "lost", "uncopied", "handmade", "repaired"}

(* The ones that leave the log and the thread in step. *)
Harmless == {"handmade", "uncopied"}

NoThread == [state |-> "none"]

(* The Thread that open_thread makes, and the one rebuild_threads starts from. *)
Fresh(ts) ==
    [state |-> "open", owner |-> None, pinned |-> FALSE, linked |-> FALSE,
     updated |-> ts, resolved |-> 0, reopened |-> 0, escalations |-> 0]

(* ThreadOp: the new values, "none" for what stays as it is. *)
NoOp == [opened |-> FALSE, state |-> "none", owner |-> None, pin |-> "none"]

(* A message of the thread.  `text` is the prefix rebuild_threads looks for. *)
Message(kind, text, who, op) == [kind |-> kind, text |-> text, who |-> who, op |-> op, ts |-> clock']
NoEvent == [kind |-> "none"]

Init ==
    /\ live = NoThread /\ up = TRUE /\ file = NoThread /\ bak = NoThread
    /\ log = <<>> /\ active = TRUE /\ pending = NoEvent
    /\ clock = 0 /\ faults = 0 /\ mishaps = {}

-----------------------------------------------------------------------------
(* Rebuilding from the log *)

(* The best-effort pass: resolutions and the wording of events. *)
Guess(t, m) ==
    IF m.kind = "resolution" THEN [t EXCEPT !.state = "resolved", !.resolved = m.ts]
    ELSE IF m.kind = "event" /\ m.text = "escalated to" THEN
        [t EXCEPT !.state = "escalated", !.owner = m.who,
                  !.reopened = IF Terminal(t.state) THEN @ + 1 ELSE @,
                  !.resolved = IF Terminal(t.state) THEN 0 ELSE @,
                  !.escalations = IF t.state # "escalated" THEN @ + 1 ELSE @]
    ELSE IF m.kind = "event" /\ m.text = "assigned to" THEN [t EXCEPT !.owner = m.who]
    ELSE t

(* Mutant: a replayed operation without an owner clears it. *)
ReplayClears(t, m) ==
    IF m.op = NoOp THEN t
    ELSE [t EXCEPT !.state = IF m.op.state = "none" THEN @ ELSE m.op.state,
                   !.owner = m.op.owner,
                   !.pinned = IF m.op.pin = "none" THEN @ ELSE m.op.pin = "pin",
                   !.updated = m.ts]

(* The exact pass: what each thread_op sets. *)
Replay(t, m) ==
    IF m.op = NoOp THEN t
    ELSE [t EXCEPT !.state = IF m.op.state = "none" THEN @ ELSE m.op.state,
                   !.owner = IF m.op.owner = None THEN @ ELSE m.op.owner,
                   !.pinned = IF m.op.pin = "none" THEN @ ELSE m.op.pin = "pin",
                   !.updated = m.ts]

(* rebuild_threads: both passes over all messages, oldest first. *)
Guessed[i \in 0..Len(log)] ==
    IF i = 0 THEN [Fresh(log[1].ts) EXCEPT !.updated = log[Len(log)].ts]
    ELSE Guess(Guessed[i - 1], log[i])

Replayed[i \in 0..Len(log)] ==
    IF i = 0 THEN Guessed[Len(log)] ELSE Replay(Replayed[i - 1], log[i])

Rebuild == IF log = <<>> THEN NoThread ELSE Replayed[Len(log)]

-----------------------------------------------------------------------------
(* The thread's operations (store.rs) *)

(* When it became terminal; from resolved to closed is not a new resolution. *)
Stamp(t, s) ==
    IF Terminal(s) = Terminal(t.state) THEN t.resolved
    ELSE IF Terminal(s) THEN clock' ELSE 0

(* Mutant: from resolved to closed counts as reopening. *)
ReopensAny(t, s) == Terminal(t.state)

Reopens(t, s) == Terminal(t.state) /\ ~Terminal(s)

(* Mutant: escalating again counts again. *)
EscalatesAgain(t, s) == s = "escalated"

Escalates(t, s) == s = "escalated" /\ t.state # "escalated"

(* set_thread_state *)
Enter(t, s) ==
    [t EXCEPT !.state = s, !.updated = clock', !.resolved = Stamp(t, s),
              !.reopened = IF Reopens(t, s) THEN @ + 1 ELSE @,
              !.escalations = IF Escalates(t, s) THEN @ + 1 ELSE @]

(* set_thread_owner_severity *)
Assigned(t, who) ==
    [t EXCEPT !.owner = IF who = None THEN @ ELSE who, !.updated = clock']

Fault == faults < MaxFaults /\ faults' = faults + 1

(* Mutant: no copy is kept. *)
BackupNone == bak

(* persist_threads and repair_threads keep the version before as .bak. *)
Backup == IF file = NoThread THEN bak ELSE file

(* threads.json is copied aside and replaced.  Whether the copy fails, or  *)
(* leaves a file that cannot be read, is not looked at.                    *)
Written(t, known) ==
    /\ file' = t
    /\ \/ bak' = Backup /\ mishaps' = known \ {"uncopied"} /\ UNCHANGED faults
       \/ /\ file # NoThread /\ Fault
          /\ bak' \in {bak, NoThread} /\ mishaps' = known \cup {"uncopied"}

(* Replacing it fails, the copy having been made, failed or been torn. *)
Unwritten ==
    /\ Fault /\ UNCHANGED file
    /\ \/ bak' \in {bak, Backup} /\ mishaps' = mishaps \cup {"unsaved"}
       \/ file # NoThread /\ bak' = NoThread /\ mishaps' = mishaps \cup {"unsaved", "uncopied"}

(* persist_threads.  When the write fails the call answers an error and    *)
(* posts nothing; memory keeps the change.                                 *)
Persist(t, next) ==
    \/ Written(t, mishaps) /\ pending' = next
    \/ Unwritten /\ pending' = NoEvent

(* A tool call that finds the daemon up, the lock free and the thread there. *)
Call(t, next) ==
    /\ up /\ pending = NoEvent /\ live # NoThread
    /\ clock < MaxOps /\ clock' = clock + 1
    /\ live' = t
    /\ Persist(t, next)
    /\ UNCHANGED <<up, log, active>>

(* thread_open, first time; opening it again changes nothing.  The machine *)
(* snapshot that follows is a Note.                                        *)
Open ==
    /\ up /\ pending = NoEvent /\ live = NoThread
    /\ clock < MaxOps /\ clock' = clock + 1
    /\ live' = Fresh(clock')
    /\ Persist(live', Message("event", "opened", None, [NoOp EXCEPT !.opened = TRUE]))
    /\ UNCHANGED <<up, log, active>>

(* thread_set_state *)
SetState(s) ==
    Call(Enter(live, s), Message("event", "state", None, [NoOp EXCEPT !.state = s]))

(* resolve *)
Resolve ==
    Call(Enter(live, "resolved"), Message("resolution", "note", None, [NoOp EXCEPT !.state = "resolved"]))

(* thread_assign *)
Assign(who) ==
    Call(Assigned(live, who), Message("event", "assigned to", who, [NoOp EXCEPT !.owner = who]))

(* thread_pin *)
Pin(on) ==
    Call([live EXCEPT !.pinned = on, !.updated = clock'],
         Message("event", "pinned", None, [NoOp EXCEPT !.pin = IF on THEN "pin" ELSE "unpin"]))

(* thread_link leaves no event. *)
Link(on) == Call([live EXCEPT !.linked = on, !.updated = clock'], NoEvent)

(* escalate: to somebody named, to whoever is on call, or to nobody.  The  *)
(* owner is a second write, whose failure is ignored.                      *)
EscalatedEvent(who) ==
    Message("event", IF who = None THEN "escalated" ELSE "escalated to", who,
            [NoOp EXCEPT !.state = "escalated", !.owner = who])

Escalate(who) ==
    Call(Enter(live, "escalated"), [EscalatedEvent(who) EXCEPT !.kind = IF who = None THEN @ ELSE "assign"])

EscalateOwner ==
    /\ up /\ pending.kind = "assign"
    /\ live' = [live EXCEPT !.owner = pending.who]
    /\ Written(live', mishaps) \/ Unwritten
    /\ pending' = [pending EXCEPT !.kind = "event"]
    /\ UNCHANGED <<up, log, active, clock>>

(* The event is posted, unless the room does not take messages or the disk *)
(* is full.  Some of the tools pass the error on, none undoes the change.  *)
Post ==
    /\ up /\ pending.kind \in {"event", "resolution"}
    /\ \/ /\ active /\ log' = Append(log, pending) /\ UNCHANGED <<faults, mishaps>>
       \/ /\ ~active /\ mishaps' = mishaps \cup {"refused"} /\ UNCHANGED <<log, faults>>
       \/ /\ active /\ Fault /\ mishaps' = mishaps \cup {"refused"} /\ UNCHANGED log
    /\ pending' = NoEvent
    /\ UNCHANGED <<live, up, file, bak, active, clock>>

(* meeting.submit into the thread, of any kind and wording: rebuild_threads *)
(* reads something into all but a note.                                    *)
Note(kind, text, who) ==
    /\ up /\ pending = NoEvent /\ live # NoThread /\ active
    /\ clock < MaxOps /\ clock' = clock + 1
    /\ log' = Append(log, Message(kind, text, who, NoOp))
    /\ mishaps' = IF kind # "note" THEN mishaps \cup {"handmade"} ELSE mishaps
    /\ UNCHANGED <<live, up, file, bak, active, pending, faults>>

(* room_phase *)
SetActive(on) ==
    /\ up /\ pending = NoEvent /\ active' = on /\ active # on
    /\ UNCHANGED <<live, up, file, bak, log, pending, clock, faults, mishaps>>

-----------------------------------------------------------------------------
(* Faults and recovery *)

(* The daemon stops, or drops the idle room. *)
Stop ==
    /\ up /\ pending = NoEvent /\ live # NoThread
    /\ up' = FALSE /\ live' = NoThread
    /\ UNCHANGED <<file, bak, log, active, pending, clock, faults, mishaps>>

(* The daemon dies in the middle of a call. *)
Crash ==
    /\ up /\ pending # NoEvent /\ Fault
    /\ up' = FALSE /\ live' = NoThread /\ pending' = NoEvent
    /\ mishaps' = mishaps \cup {"crashed"}
    /\ UNCHANGED <<file, bak, log, active, clock>>

(* threads.json is lost or unreadable while the daemon is down. *)
LoseFile ==
    /\ ~up /\ Fault /\ file # NoThread
    /\ file' = NoThread /\ mishaps' = mishaps \cup {"lost"}
    /\ UNCHANGED <<live, up, bak, log, active, pending, clock>>

(* repair_threads, with the daemon stopped as its description asks. *)
Repair ==
    /\ ~up /\ Rebuild # NoThread
    /\ Written(Rebuild, mishaps \cup {"repaired"}) \/ Unwritten
    /\ UNCHANGED <<live, up, log, active, pending, clock>>

(* load_threads_map: the backup when the file is not there. *)
Loaded == IF file = NoThread THEN bak ELSE file

Restart ==
    /\ ~up /\ up' = TRUE /\ live' = Loaded
    /\ UNCHANGED <<file, bak, log, active, pending, clock, faults, mishaps>>

Next ==
    \/ Open \/ Resolve \/ EscalateOwner \/ Post
    \/ \E s \in States : SetState(s)
    \/ \E who \in Owners : Assign(who)
    \/ \E who \in Owners \cup {None} : Escalate(who)
    \/ \E on \in BOOLEAN : Pin(on) \/ Link(on) \/ SetActive(on)
    \/ \E kind \in {"note", "resolution"} : Note(kind, "note", None)
    \/ \E text \in {"assigned to", "escalated to"}, who \in Owners \cup {None} : Note("event", text, who)
    \/ Stop \/ Crash \/ LoseFile \/ Repair \/ Restart

Spec == Init /\ [][Next]_vars

-----------------------------------------------------------------------------

Threads ==
    [state : States, owner : Owners \cup {None}, pinned : BOOLEAN, linked : BOOLEAN,
     updated : Nat, resolved : Nat, reopened : Nat, escalations : Nat] \cup {NoThread}

Ops ==
    [opened : BOOLEAN, state : States \cup {"none"}, owner : Owners \cup {None},
     pin : {"none", "pin", "unpin"}]

Messages ==
    [kind : {"note", "event", "resolution", "assign"},
     text : {"opened", "state", "note", "assigned to", "pinned", "escalated", "escalated to"},
     who : Owners \cup {None}, op : Ops, ts : Nat]

(* Ending a thread and reopening it takes a call each. *)
Reached(t) == 2 * t.reopened + (IF Terminal(t.state) THEN 1 ELSE 0)

TypeOK ==
    /\ live \in Threads /\ file \in Threads /\ bak \in Threads
    /\ log \in Seq(Messages) /\ pending \in Messages \cup {NoEvent}
    /\ up \in BOOLEAN /\ active \in BOOLEAN
    /\ clock \in Nat /\ faults \in 0..MaxFaults /\ mishaps \in SUBSET Mishaps
    /\ live # NoThread => up /\ Reached(live) <= clock

Quiet == up /\ pending = NoEvent /\ live # NoThread

(* MsgMeta.thread_op: the log alone gives back the recorded state, owner   *)
(* and pins, restarts included.  A resolution or a worded event that       *)
(* somebody posted by hand counts only where no tool recorded a change.    *)
RebuildExact ==
    Quiet /\ mishaps \subseteq Harmless =>
        /\ Rebuild.pinned = live.pinned
        /\ \/ Rebuild.state = live.state
           \/ "handmade" \in mishaps /\ \A i \in DOMAIN log : log[i].op.state = "none"
        /\ \/ Rebuild.owner = live.owner
           \/ "handmade" \in mishaps /\ \A i \in DOMAIN log : log[i].op.owner = None

(* The messages that record a change of state. *)
Changes(msgs) == {i \in DOMAIN msgs : msgs[i].op.state # "none"}

(* The state recorded before the i-th message. *)
StateBefore(msgs, i) ==
    LET earlier == {j \in Changes(msgs) : j < i} IN
    IF earlier = {} THEN "open" ELSE msgs[Max(earlier)].op.state

Escalations(msgs) ==
    {i \in Changes(msgs) : msgs[i].op.state = "escalated" /\ StateBefore(msgs, i) # "escalated"}

Reopenings(msgs) ==
    {i \in Changes(msgs) : Terminal(StateBefore(msgs, i)) /\ ~Terminal(msgs[i].op.state)}

(* The log records every escalation and every reopening the thread has     *)
(* counted, and no other, whatever order the tools are called in.          *)
CountsMatchLog ==
    Quiet /\ mishaps \subseteq Harmless =>
        live.escalations = Cardinality(Escalations(log)) /\ live.reopened = Cardinality(Reopenings(log))

(* Losing threads.json costs at most the last change, once the last copy   *)
(* to the backup was good: it holds every recorded change before.          *)
LossCostsOneChange ==
    mishaps \cap {"lost", "uncopied"} = {} =>
        \A i \in DOMAIN log :
            log[i].op # NoOp /\ log[i].ts < file.updated => bak # NoThread /\ bak.updated >= log[i].ts
=============================================================================
