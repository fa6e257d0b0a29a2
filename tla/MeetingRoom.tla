----------------------------- MODULE MeetingRoom -----------------------------
(***************************************************************************)
(* One room of the meeting daemon (crates/rozum-meeting): the append-only  *)
(* day files and index.json/meta.json of store.rs, the DaemonRoom of       *)
(* room.rs behind its lock, the open set of registry.rs with its idle      *)
(* eviction, the long-poll of daemon.rs and the cursor each client proxy   *)
(* keeps in daemon_proxy.rs.                                               *)
(*                                                                         *)
(* A handle is one DaemonRoom in memory.  The daemon can crash between any *)
(* two steps; what is on disk stays.  The clock does not go back.          *)
(***************************************************************************)
EXTENDS Naturals, Sequences, FiniteSets

CONSTANTS
    Clients,    \* client proxies, one call each at a time
    Pollers,    \* bound: the clients that poll
    MaxDay,     \* bound: days
    MaxMsgs,    \* bound: messages submitted
    MaxHandles, \* bound: DaemonRooms of this room in memory at a time
    MaxFaults   \* bound: crashes of the daemon and failed writes

ASSUME RoomAssumption ==
    /\ MaxDay \in Nat \ {0} /\ MaxMsgs \in Nat /\ MaxHandles \in Nat
    /\ MaxFaults \in Nat /\ Pollers \subseteq Clients

Days == 1..MaxDay
Handles == 1..MaxHandles
Msgs == 1..MaxMsgs
Phases == {"Active", "Paused", "Ended"}

(* What has gone wrong so far.  `forked`: a second DaemonRoom was opened   *)
(* beside one in use; `refounded`: a room with lines and no meta.json was  *)
(* taken for a new one; `torn`: a line was appended in part; `unsynced`: a *)
(* line was appended and not counted; `rolled`: a write failed after the   *)
(* day had rolled over; `unsaved`: a line was appended and meta.json or    *)
(* index.json was not; `late`: a poll gave up on a message it had not      *)
(* looked for.                                                             *)
Mishaps == {"forked", "refounded", "torn", "unsynced", "rolled", "unsaved", "late"}

VARIABLES
    log,      \* <day>.jsonl: its complete lines
    tail,     \* whether the file ends in a line without its newline
    index,    \* index.json: messages per day
    meta,     \* meta.json: none, or the phase it holds
    open,     \* RoomRegistry.open: the room's handle, or 0
    cnt,      \* TranscriptWriter.index of each handle
    date,     \* TranscriptWriter.active_date
    phase,    \* DaemonRoom.phase
    polling,  \* DaemonRoom.polling
    locked,   \* handles whose lock is held across the steps of an append
    unmarks,  \* spawned PollGuard drops that have not run yet
    sess,     \* Session.room of each client's connection, or 0
    pc,       \* what each client's call is doing
    cursor,   \* State.cursor of the proxy, <<0, 0>> for None
    reply,    \* high_water of the reply under way
    notified, \* whether the armed Notified future has fired
    today, sent, faults,
    acked,    \* messages answered with their (date, n)
    seen,     \* messages handed to each agent
    mishaps

diskVars == <<log, tail, index, meta>>
handleVars == <<cnt, date, phase>>
pollVars == <<polling, unmarks>>
clientVars == <<sess, pc, cursor, reply, notified>>
boundVars == <<today, sent, faults>>
ghostVars == <<acked, seen, mishaps>>
vars == <<diskVars, open, handleVars, pollVars, locked, clientVars, boundVars, ghostVars>>

NoCursor == <<0, 0>>
Waiting == {"check", "parked", "due", "expired", "got"}
Appending == {"wrote", "meta"}

(* Mutant: the high-water is the number of the last message. *)
HighWaterShort(h) == <<date[h], cnt[h][date[h]] - 1>>

(* TranscriptWriter::high_water *)
HighWater(h) == <<date[h], cnt[h][date[h]]>>

(* daemon.rs has_new *)
HasNew(hw, cur) ==
    IF cur = NoCursor THEN hw[2] > 0
    ELSE hw[1] > cur[1] \/ (hw[1] = cur[1] /\ hw[2] > cur[2])

(* Mutant: the cursor is taken for the last message read. *)
ReadSinceAfter(cur) ==
    {log[x[1]][x[2]].msg : x \in
        {y \in Days \X (1..MaxMsgs) :
            /\ y[2] \in DOMAIN log[y[1]]
            /\ log[y[1]][y[2]].ok
            /\ y[1] > cur[1] \/ (y[1] = cur[1] /\ log[y[1]][y[2]].n > cur[2])}}

(* read_since: the lines that parse, at or after the cursor. *)
ReadSince(cur) ==
    {log[x[1]][x[2]].msg : x \in
        {y \in Days \X (1..MaxMsgs) :
            /\ y[2] \in DOMAIN log[y[1]]
            /\ log[y[1]][y[2]].ok
            /\ y[1] > cur[1] \/ (y[1] = cur[1] /\ log[y[1]][y[2]].n >= cur[2])}}

DaysOnDisk == {d \in Days : log[d] # <<>> \/ tail[d]}

Init ==
    /\ log = [d \in Days |-> <<>>] /\ tail = [d \in Days |-> FALSE]
    /\ index = [d \in Days |-> 0] /\ meta = "none"
    /\ open = 0
    /\ cnt = [h \in Handles |-> [d \in Days |-> 0]]
    /\ date = [h \in Handles |-> 1] /\ phase = [h \in Handles |-> "Active"]
    /\ polling = [h \in Handles |-> {}] /\ locked = {} /\ unmarks = {}
    /\ sess = [c \in Clients |-> 0] /\ pc = [c \in Clients |-> "idle"]
    /\ cursor = [c \in Clients |-> NoCursor] /\ reply = [c \in Clients |-> NoCursor]
    /\ notified = [c \in Clients |-> FALSE]
    /\ today = 1 /\ sent = 0 /\ faults = 0
    /\ acked = {} /\ seen = [c \in Clients |-> {}] /\ mishaps = {}

-----------------------------------------------------------------------------
(* Opening, evicting, leaving *)

(* Mutant: the counts are taken from index.json. *)
ScanDayIndexed(d) == index[d]

(* scan_day: the complete lines of the file. *)
ScanDay(d) == Len(log[d])

(* Mutant: every room starts out active. *)
SavedPhaseLost == "Active"

SavedPhase == IF meta = "none" THEN "Active" ELSE meta

(* DaemonRoom::open rescans the day files and reads the phase back;        *)
(* DaemonRoom::new, taken when there is no meta.json, counts from zero.    *)
FromDisk(h) ==
    /\ phase' = [phase EXCEPT ![h] = SavedPhase]
    /\ IF meta = "none" \/ DaysOnDisk = {}
         THEN /\ cnt' = [cnt EXCEPT ![h] = [d \in Days |-> 0]]
              /\ date' = [date EXCEPT ![h] = today]
         ELSE /\ cnt' = [cnt EXCEPT ![h] = [d \in Days |-> ScanDay(d)]]
              /\ \E last \in DaysOnDisk :
                   /\ \A d \in DaysOnDisk : d <= last
                   /\ date' = [date EXCEPT ![h] = last]

(* Another DaemonRoom of this room is still in use. *)
Forks == \E c \in Clients : sess[c] # 0

(* The room has lines, and the daemon stopped before its first meta.json:  *)
(* DaemonRoom::new does not look at the day files.                         *)
Refounds == meta = "none" /\ \E d \in Days : log[d] # <<>>

(* Mutant: the Notified future is not enabled before the room is looked at. *)
ArmedNever == {}

(* Where a poll's Notified future is enabled. *)
Armed == {"check", "parked", "due"}

(* notify_waiters reaches the armed polls of this handle. *)
Notify(h) ==
    notified' = [c \in Clients |-> notified[c] \/ (sess[c] = h /\ pc[c] \in Armed)]

(* No longer in memory: not in the open set, and nobody holds the Arc. *)
Free(h) ==
    /\ open # h /\ h \notin {sess[c] : c \in Clients} /\ h \notin {u[1] : u \in unmarks}

(* _join_internal: get_or_create, then enter_room; a new participant wakes *)
(* the polls.                                                              *)
Connect(c) ==
    /\ pc[c] = "idle" /\ sess[c] = 0
    /\ \/ /\ open # 0 /\ open \notin locked
          /\ sess' = [sess EXCEPT ![c] = open]
          /\ Notify(open) \/ UNCHANGED notified
          /\ UNCHANGED <<open, handleVars, mishaps>>
       \/ \E h \in Handles :
          /\ open = 0 /\ Free(h) /\ \A g \in Handles : Free(g) => h <= g
          /\ open' = h /\ sess' = [sess EXCEPT ![c] = h]
          /\ FromDisk(h)
          /\ mishaps' = mishaps \cup (IF Forks THEN {"forked"} ELSE {})
                               \cup (IF Refounds THEN {"refounded"} ELSE {})
          /\ UNCHANGED notified
    /\ UNCHANGED <<diskVars, pollVars, locked, pc, cursor, reply, boundVars, acked, seen>>

(* PollGuard::drop spawns the unmarking. *)
DropGuard(c) == unmarks' = unmarks \cup {<<sess[c], c>>}

(* The connection drops, whatever poll it carried: DaemonRoom::leave.  The *)
(* proxy keeps its cursor; meeting.leave makes it forget it.               *)
Disconnect(c) ==
    /\ sess[c] # 0 /\ sess[c] \notin locked
    /\ sess' = [sess EXCEPT ![c] = 0] /\ pc' = [pc EXCEPT ![c] = "idle"]
    /\ polling' = [polling EXCEPT ![sess[c]] = @ \ {c}]
    /\ IF pc[c] \in Waiting \ {"got"} THEN DropGuard(c) ELSE UNCHANGED unmarks
    /\ \/ UNCHANGED cursor
       \/ pc[c] = "idle" /\ cursor' = [cursor EXCEPT ![c] = NoCursor]
    /\ notified' = [b \in Clients |-> b # c /\ (notified[b] \/ (sess[b] = sess[c] /\ pc[b] \in Armed))]
    /\ reply' = [reply EXCEPT ![c] = NoCursor]
    /\ UNCHANGED <<diskVars, open, handleVars, locked, boundVars, ghostVars>>

(* evict_idle: no lock held, nobody polling.  Sessions are not consulted,  *)
(* and polling does not count as activity.                                 *)
Evict ==
    /\ open # 0 /\ open \notin locked /\ polling[open] = {}
    /\ open' = 0
    /\ UNCHANGED <<diskVars, handleVars, pollVars, locked, clientVars, boundVars, ghostVars>>

(* One of the faults the instance allows for. *)
Fault == faults < MaxFaults /\ faults' = faults + 1

(* The daemon dies; the proxies find their connections gone. *)
Crash ==
    /\ Fault
    /\ open' = 0 /\ locked' = {} /\ unmarks' = {}
    /\ polling' = [h \in Handles |-> {}]
    /\ sess' = [c \in Clients |-> 0] /\ pc' = [c \in Clients |-> "idle"]
    /\ reply' = [c \in Clients |-> NoCursor] /\ notified' = [c \in Clients |-> FALSE]
    /\ UNCHANGED <<diskVars, handleVars, cursor, today, sent, ghostVars>>

Tick ==
    /\ today < MaxDay /\ today' = today + 1
    /\ UNCHANGED <<diskVars, open, handleVars, pollVars, locked, clientVars, sent, faults, ghostVars>>

-----------------------------------------------------------------------------
(* Submitting *)

CanSubmit(c) ==
    /\ pc[c] = "idle" /\ sess[c] # 0
    /\ sess[c] \notin locked /\ phase[sess[c]] = "Active"

(* Roll over to today, number the line, append it.  After a torn line it   *)
(* lands on the same line.                                                 *)
AppendLine(h) ==
    /\ sent < MaxMsgs /\ sent' = sent + 1
    /\ log' = [log EXCEPT ![today] =
                 Append(@, [n |-> cnt[h][today], msg |-> sent + 1, ok |-> ~tail[today]])]
    /\ tail' = [tail EXCEPT ![today] = FALSE]
    /\ date' = [date EXCEPT ![h] = today]

(* submit_with_meta up to the line on disk. *)
SubmitWrite(c) ==
    LET h == sess[c] IN
    /\ CanSubmit(c) /\ AppendLine(h)
    /\ locked' = locked \cup {h} /\ pc' = [pc EXCEPT ![c] = "wrote"]
    /\ UNCHANGED <<index, meta, open, cnt, phase, pollVars, sess, cursor, reply, notified,
                   today, faults, ghostVars>>

(* The write fails, at once or with part of the line in the file; the day  *)
(* has rolled over all the same.                                           *)
SubmitFails(c) ==
    /\ CanSubmit(c) /\ Fault
    /\ date' = [date EXCEPT ![sess[c]] = today]
    /\ \/ UNCHANGED tail /\ mishaps' = mishaps \cup {"rolled"}
       \/ tail' = [tail EXCEPT ![today] = TRUE] /\ mishaps' = mishaps \cup {"torn"}
    /\ UNCHANGED <<log, index, meta, open, cnt, phase, pollVars, locked, clientVars,
                   today, sent, acked, seen>>

(* The line is in the file and flush or sync_all fails: the append returns *)
(* its error before the counters move on.                                  *)
SubmitUnsynced(c) ==
    /\ CanSubmit(c) /\ Fault /\ AppendLine(sess[c])
    /\ mishaps' = mishaps \cup {"unsynced"}
    /\ UNCHANGED <<index, meta, open, cnt, phase, pollVars, locked, clientVars, today, acked, seen>>

(* The counters move on; persist_meta_index writes meta.json. *)
SubmitMeta(c) ==
    LET h == sess[c] IN
    /\ pc[c] = "wrote"
    /\ cnt' = [cnt EXCEPT ![h][date[h]] = @ + 1]
    /\ meta' = phase[h]
    /\ pc' = [pc EXCEPT ![c] = "meta"]
    /\ UNCHANGED <<log, tail, index, open, date, phase, pollVars, locked, sess, cursor,
                   reply, notified, boundVars, ghostVars>>

(* Then index.json; the message is announced and answered. *)
SubmitDone(c) ==
    LET h == sess[c] IN
    /\ pc[c] = "meta"
    /\ index' = cnt[h]
    /\ acked' = acked \cup {log[date[h]][Len(log[date[h]])].msg}
    /\ Notify(h)
    /\ locked' = locked \ {h} /\ pc' = [pc EXCEPT ![c] = "idle"]
    /\ UNCHANGED <<log, tail, meta, open, handleVars, pollVars, sess, cursor, reply, boundVars,
                   seen, mishaps>>

(* Either file cannot be written: the caller gets an error for a message   *)
(* that is in the log, and nobody is notified.                             *)
SubmitUnsaved(c) ==
    LET h == sess[c] IN
    /\ pc[c] \in Appending /\ Fault
    /\ cnt' = IF pc[c] = "wrote" THEN [cnt EXCEPT ![h][date[h]] = @ + 1] ELSE cnt
    /\ locked' = locked \ {h} /\ pc' = [pc EXCEPT ![c] = "idle"]
    /\ mishaps' = mishaps \cup {"unsaved"}
    /\ UNCHANGED <<diskVars, open, date, phase, pollVars, sess, cursor, reply, notified,
                   today, sent, acked, seen>>

(* pause and resume refuse an ended room and do nothing when there already. *)
MayEnter(h, ph) == phase[h] # "Ended" /\ phase[h] # ph

(* meeting.room_phase.  A failed save is only logged. *)
SetPhase(c, ph) ==
    LET h == sess[c] IN
    /\ pc[c] = "idle" /\ h # 0 /\ h \notin locked /\ MayEnter(h, ph)
    /\ phase' = [phase EXCEPT ![h] = ph]
    /\ \/ meta' = ph /\ index' = cnt[h] /\ UNCHANGED faults
       \/ Fault /\ meta' \in {meta, ph} /\ UNCHANGED index
    /\ Notify(h)
    /\ UNCHANGED <<log, tail, open, cnt, date, pollVars, locked, sess, pc, cursor, reply,
                   today, sent, ghostVars>>

-----------------------------------------------------------------------------
(* meeting.wait_my_turn *)

(* mark_polling; the Notified future is armed before the room is looked at *)
(* (nothing is awaited between the two).                                   *)
WaitCall(c) ==
    /\ c \in Pollers /\ pc[c] = "idle" /\ sess[c] # 0 /\ sess[c] \notin locked
    /\ polling' = [polling EXCEPT ![sess[c]] = @ \cup {c}]
    /\ pc' = [pc EXCEPT ![c] = "check"]
    /\ UNCHANGED <<diskVars, open, handleVars, unmarks, locked, sess, cursor, reply, notified,
                   boundVars, ghostVars>>

(* Ended, something new, or neither: sleep, unless the deadline is past. *)
WaitCheck(c) ==
    LET h == sess[c]
        Goto(next) == pc' = [pc EXCEPT ![c] = next]
    IN
    /\ pc[c] \in {"check", "due"} /\ h \notin locked
    /\ \/ /\ phase[h] = "Ended"
          /\ Goto("idle") /\ DropGuard(c) /\ UNCHANGED reply
          /\ notified' = [notified EXCEPT ![c] = FALSE]
       \/ /\ phase[h] # "Ended" /\ HasNew(HighWater(h), cursor[c])
          /\ reply' = [reply EXCEPT ![c] = HighWater(h)]
          /\ Goto("got") /\ DropGuard(c)
          /\ notified' = [notified EXCEPT ![c] = FALSE]
       \/ /\ phase[h] # "Ended" /\ ~HasNew(HighWater(h), cursor[c])
          /\ Goto(IF pc[c] = "due" THEN "expired" ELSE "parked")
          /\ UNCHANGED <<unmarks, reply, notified>>
    /\ UNCHANGED <<diskVars, open, handleVars, polling, locked, sess, cursor, boundVars, ghostVars>>

(* A notification: arm again and look again. *)
WaitWake(c) ==
    /\ pc[c] = "parked" /\ notified[c]
    /\ pc' = [pc EXCEPT ![c] = "check"] /\ notified' = [notified EXCEPT ![c] = FALSE]
    /\ UNCHANGED <<diskVars, open, handleVars, pollVars, locked, sess, cursor, reply,
                   boundVars, ghostVars>>

(* Mutant: the select! has no timer. *)
TimedNever == {"check"}

(* Where the 25 seconds can run out. *)
Timed == {"check", "parked"}

(* The 25 seconds are over: a last look, and then the answer. *)
WaitDeadline(c) ==
    /\ pc[c] \in Timed
    /\ pc' = [pc EXCEPT ![c] = "due"]
    /\ notified' = [notified EXCEPT ![c] = @ /\ pc[c] = "check"]
    /\ UNCHANGED <<diskVars, open, handleVars, pollVars, locked, sess, cursor, reply,
                   boundVars, ghostVars>>

(* Past the deadline: the room is locked again for the reply's high-water, *)
(* and the proxy takes that for its cursor although it reads nothing.      *)
WaitExpire(c) ==
    LET h == sess[c] IN
    /\ pc[c] = "expired" /\ h \notin locked
    /\ mishaps' = IF HasNew(HighWater(h), cursor[c]) THEN mishaps \cup {"late"} ELSE mishaps
    /\ cursor' = [cursor EXCEPT ![c] = HighWater(h)]
    /\ pc' = [pc EXCEPT ![c] = "idle"] /\ DropGuard(c)
    /\ notified' = [notified EXCEPT ![c] = FALSE]
    /\ UNCHANGED <<diskVars, open, handleVars, polling, locked, sess, reply, boundVars, acked, seen>>

(* The proxy reads the day files itself, from the cursor it had. *)
WaitRead(c) ==
    /\ pc[c] = "got"
    /\ cursor' = [cursor EXCEPT ![c] = reply[c]] /\ reply' = [reply EXCEPT ![c] = NoCursor]
    /\ seen' = [seen EXCEPT ![c] = @ \cup ReadSince(cursor[c])]
    /\ pc' = [pc EXCEPT ![c] = "idle"]
    /\ UNCHANGED <<diskVars, open, handleVars, pollVars, locked, sess, notified, boundVars, acked, mishaps>>

(* unmark_polling, possibly during the client's next poll. *)
Unmark(h, c) ==
    /\ <<h, c>> \in unmarks /\ h \notin locked
    /\ unmarks' = unmarks \ {<<h, c>>}
    /\ polling' = [polling EXCEPT ![h] = @ \ {c}]
    /\ UNCHANGED <<diskVars, open, handleVars, locked, clientVars, boundVars, ghostVars>>

-----------------------------------------------------------------------------

WaitStep(c) == WaitCheck(c) \/ WaitWake(c) \/ WaitExpire(c) \/ WaitRead(c)
AppendStep(c) == SubmitMeta(c) \/ SubmitDone(c)

Next ==
    \/ \E c \in Clients :
        \/ Connect(c) \/ Disconnect(c) \/ WaitCall(c) \/ WaitDeadline(c) \/ WaitStep(c)
        \/ SubmitWrite(c) \/ AppendStep(c) \/ SubmitFails(c) \/ SubmitUnsynced(c)
        \/ SubmitUnsaved(c)
        \/ \E ph \in Phases : SetPhase(c, ph)
    \/ \E h \in Handles, c \in Clients : Unmark(h, c)
    \/ Evict \/ Crash \/ Tick

Spec == Init /\ [][Next]_vars
FairSpec ==
    /\ Spec
    /\ \A c \in Pollers : WF_vars(WaitStep(c)) /\ WF_vars(WaitDeadline(c))
    /\ WF_vars(\E c \in Clients : AppendStep(c))

-----------------------------------------------------------------------------

TypeOK ==
    /\ log \in [Days -> Seq([n : Nat, msg : Nat, ok : BOOLEAN])]
    /\ tail \in [Days -> BOOLEAN] /\ index \in [Days -> Nat]
    /\ meta \in Phases \cup {"none"}
    /\ open \in 0..MaxHandles
    /\ cnt \in [Handles -> [Days -> Nat]] /\ date \in [Handles -> Days]
    /\ phase \in [Handles -> Phases]
    /\ polling \in [Handles -> SUBSET Clients] /\ locked \in SUBSET Handles
    /\ unmarks \in SUBSET (Handles \X Clients)
    /\ sess \in [Clients -> 0..MaxHandles]
    /\ pc \in [Clients -> {"idle"} \cup Waiting \cup Appending]
    /\ \A c \in Clients : pc[c] # "idle" => sess[c] # 0
    /\ cursor \in [Clients -> Nat \X Nat] /\ reply \in [Clients -> Nat \X Nat]
    /\ notified \in [Clients -> BOOLEAN]
    /\ today \in Days /\ sent \in Nat /\ faults \in Nat
    /\ acked \in SUBSET Nat /\ seen \in [Clients -> SUBSET Nat]
    /\ mishaps \in SUBSET Mishaps

(* StoredTurn::id: "<date>/<n> (already unique per room)" (store.rs:207). *)
IdUnique ==
    \A d \in Days : \A i, j \in DOMAIN log[d] : i # j => log[d][i].n # log[d][j].n

(* The ways a number is used twice. *)
Renumbering == {"forked", "refounded", "unsynced"}

(* Ids are unique across crashes, restarts, evictions, torn lines, failed  *)
(* saves and rollovers, unless two DaemonRooms had the room at once, its   *)
(* first line outlived the daemon and meta.json did not, or a line was     *)
(* written whose sync failed.                                              *)
UniqueIds == mishaps \cap Renumbering = {} => IdUnique

(* daemon_proxy.rs State.cursor: everything before it was seen. *)
CursorSeen ==
    \A c \in Clients, d \in Days : \A i \in DOMAIN log[d] :
        /\ log[d][i].msg \in acked
        /\ d < cursor[c][1] \/ (d = cursor[c][1] /\ log[d][i].n < cursor[c][2])
        => log[d][i].msg \in seen[c]

(* No agent misses a message by polling: reconnects, crashes and unsaved   *)
(* messages only ever repeat one.                                          *)
NothingSkipped == mishaps \subseteq {"unsaved"} => CursorSeen

(* A parked poll with something to return has been notified: arming comes  *)
(* before looking, and every append that counts notifies.                  *)
NoSleepThrough ==
    mishaps \subseteq {"forked", "refounded", "late"} =>
        \A c \in Clients :
            pc[c] = "parked" /\ sess[c] \notin locked /\ HasNew(HighWater(sess[c]), cursor[c])
                => notified[c]

(* "Ending is final", over evictions, crashes and restarts. *)
EndedStays ==
    "forked" \notin mishaps =>
        \A c \in Clients : meta = "Ended" /\ sess[c] # 0 => phase[sess[c]] = "Ended"

(* Every poll is answered: the deadline ends it when no message does. *)
WaitReturns == \A c \in Pollers : pc[c] \in Waiting ~> pc[c] = "idle"
=============================================================================
