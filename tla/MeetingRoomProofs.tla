-------------------------- MODULE MeetingRoomProofs --------------------------
(***************************************************************************)
(* For any number of clients, days, messages, handles and faults: the      *)
(* types, unique ids, that polling neither skips a message nor sleeps      *)
(* through one, and that an ended room stays ended.                        *)
(***************************************************************************)
EXTENDS MeetingRoom, SequenceTheorems, TLAPS

USE RoomAssumption DEF RoomAssumption

-----------------------------------------------------------------------------
(* The inductive invariant *)

(* Whoever is in the middle of an append holds its handle's lock, alone,   *)
(* and its line is there.                                                  *)
LockInv ==
    \A c \in Clients : pc[c] \in Appending =>
        /\ sess[c] \in locked /\ log[date[sess[c]]] # <<>>
        /\ \A b \in Clients : pc[b] \in Appending /\ sess[b] = sess[c] => b = c

(* A DaemonRoom somebody can write through. *)
Current(h) == open = h \/ \E c \in Clients : sess[c] = h

(* There is one of them at most. *)
OneRoom == \A g, h \in Handles : Current(g) /\ Current(h) => g = h

(* The line of an append under way that the counter does not know yet. *)
Uncounted(h, d) == IF d = date[h] /\ \E c \in Clients : sess[c] = h /\ pc[c] = "wrote" THEN 1 ELSE 0

(* It counts the lines that are on disk. *)
CountInv == \A h \in Handles, d \in Days : Current(h) => cnt[h][d] + Uncounted(h, d) = Len(log[d])

(* Every line has its place for a number. *)
NumberInv == \A d \in Days : \A i \in DOMAIN log[d] : log[d][i].n + 1 = i

(* It knows when meta.json says the room has ended. *)
PhaseInv == \A h \in Handles : Current(h) /\ meta = "Ended" => phase[h] = "Ended"

(* As long as nothing forked the room. *)
OwnInv == "forked" \notin mishaps => OneRoom /\ PhaseInv

(* As long as, besides, no line is left uncounted. *)
SingleInv == mishaps \cap Renumbering = {} => OneRoom /\ CountInv /\ NumberInv /\ PhaseInv

(* No day is written before it has come, and messages are bounded. *)
TimeInv ==
    /\ sent <= MaxMsgs
    /\ \A d \in Days : Len(log[d]) <= sent /\ (log[d] # <<>> \/ tail[d] => d <= today)
    /\ \A h \in Handles : date[h] <= today

(* Without torn lines every line reads back. *)
WholeInv == \A d \in Days : tail[d] = FALSE /\ \A i \in DOMAIN log[d] : log[d][i].ok = TRUE

(* The active day is the last one with a line. *)
ActiveInv ==
    \A h \in Handles : Current(h) =>
        \A d \in Days : log[d] # <<>> => d <= date[h] /\ log[date[h]] # <<>>

(* A position every message still to come is at or after. *)
Reached(cur) == cur[1] <= today /\ (cur[1] = today => cur[2] <= Len(log[today]))

(* All that is before a cursor was seen, acknowledged or not. *)
SeenInv ==
    \A c \in Clients :
        /\ Reached(cursor[c]) /\ Reached(reply[c])
        /\ \A d \in Days : \A i \in DOMAIN log[d] :
              d < cursor[c][1] \/ (d = cursor[c][1] /\ log[d][i].n < cursor[c][2])
                => log[d][i].msg \in seen[c]

ReadInv == mishaps \subseteq {"unsaved"} => WholeInv /\ ActiveInv /\ SeenInv

IInv == TypeOK /\ LockInv /\ OwnInv /\ SingleInv /\ TimeInv /\ NoSleepThrough /\ ReadInv

-----------------------------------------------------------------------------
(* Types *)

Lines == [n : Nat, msg : Nat, ok : BOOLEAN]

DiskTypes ==
    /\ log \in [Days -> Seq(Lines)] /\ tail \in [Days -> BOOLEAN] /\ index \in [Days -> Nat]
    /\ meta \in Phases \cup {"none"}
HandleTypes ==
    /\ cnt \in [Handles -> [Days -> Nat]] /\ date \in [Handles -> Days]
    /\ phase \in [Handles -> Phases]
PollTypes ==
    /\ open \in 0..MaxHandles
    /\ polling \in [Handles -> SUBSET Clients] /\ locked \in SUBSET Handles
    /\ unmarks \in SUBSET (Handles \X Clients)
CallTypes ==
    /\ sess \in [Clients -> 0..MaxHandles]
    /\ pc \in [Clients -> {"idle"} \cup Waiting \cup Appending]
    /\ \A c \in Clients : pc[c] # "idle" => sess[c] # 0
CursorTypes ==
    /\ cursor \in [Clients -> Nat \X Nat] /\ reply \in [Clients -> Nat \X Nat]
    /\ seen \in [Clients -> SUBSET Nat] /\ acked \in SUBSET Nat
BoundTypes ==
    /\ today \in Days /\ sent \in Nat /\ faults \in Nat /\ mishaps \in SUBSET Mishaps

(* The type invariant is these, and notifications. *)
LEMMA TypeParts ==
  TypeOK <=> /\ DiskTypes /\ HandleTypes /\ PollTypes /\ CallTypes /\ CursorTypes /\ BoundTypes
             /\ notified \in [Clients -> BOOLEAN]
  BY DEF TypeOK, DiskTypes, HandleTypes, PollTypes, CallTypes, CursorTypes, BoundTypes, Lines

(* A client that is doing something has a handle. *)
LEMMA InSession ==
    ASSUME PollTypes, CallTypes, NEW c \in Clients, sess[c] # 0
    PROVE  sess[c] \in Handles
  BY DEF CallTypes, Handles

(* One message more. *)
LEMMA OneMore ==
    ASSUME HandleTypes, NEW h \in Handles, NEW d \in Days
    PROVE  [cnt EXCEPT ![h][d] = @ + 1] \in [Handles -> [Days -> Nat]]
  <1>1. cnt[h] \in [Days -> Nat] /\ cnt[h][d] + 1 \in Nat
    BY DEF HandleTypes
  <1>2. [cnt[h] EXCEPT ![d] = cnt[h][d] + 1] \in [Days -> Nat]
    BY <1>1
  <1> QED BY <1>1, <1>2 DEF HandleTypes

(* The files. *)
LEMMA DiskTypesNext == TypeOK /\ [Next]_vars => DiskTypes'
  <1> SUFFICES ASSUME DiskTypes, HandleTypes, PollTypes, CallTypes, CursorTypes, BoundTypes, [Next]_vars PROVE DiskTypes'
    BY TypeParts
  <1>1. ASSUME NEW c \in Clients, SubmitWrite(c) \/ SubmitUnsynced(c) PROVE DiskTypes'
    <2>1. sess[c] \in Handles /\ today \in Days
      BY <1>1, InSession DEF SubmitWrite, SubmitUnsynced, CanSubmit, BoundTypes
    <2>a. AppendLine(sess[c]) /\ UNCHANGED <<index, meta>>
      BY <1>1 DEF SubmitWrite, SubmitUnsynced
    <2>2. [n |-> cnt[sess[c]][today], msg |-> sent + 1, ok |-> ~tail[today]] \in Lines
      BY <2>1 DEF DiskTypes, HandleTypes, BoundTypes, Lines
    <2>3. log' \in [Days -> Seq(Lines)] /\ tail' \in [Days -> BOOLEAN]
      BY <2>a, <2>1, <2>2 DEF AppendLine, DiskTypes
    <2> QED BY <2>a, <2>3 DEF DiskTypes
  <1>2. ASSUME NEW c \in Clients, SubmitFails(c) PROVE DiskTypes'
    BY <1>2 DEF SubmitFails, DiskTypes, BoundTypes
  <1>3. ASSUME NEW c \in Clients, SubmitMeta(c) PROVE DiskTypes'
    BY <1>3, InSession DEF SubmitMeta, DiskTypes, HandleTypes, CallTypes
  <1>4. ASSUME NEW c \in Clients, SubmitDone(c) PROVE DiskTypes'
    BY <1>4, InSession DEF SubmitDone, DiskTypes, HandleTypes, CallTypes
  <1>5. ASSUME NEW c \in Clients, NEW ph \in Phases, SetPhase(c, ph) PROVE DiskTypes'
    BY <1>5, InSession DEF SetPhase, DiskTypes, HandleTypes, CallTypes
  <1>6. ASSUME UNCHANGED diskVars PROVE DiskTypes'
    BY <1>6 DEF diskVars, DiskTypes
  <1> QED
    BY <1>1, <1>2, <1>3, <1>4, <1>5, <1>6
    DEF Next, WaitStep, AppendStep, Connect, Disconnect, WaitCall, WaitDeadline, WaitCheck, WaitWake, WaitExpire,
        WaitRead, SubmitUnsaved, Unmark, Evict, Crash, Tick, vars

(* What the daemon keeps of the room. *)
LEMMA HandleTypesNext == TypeOK /\ [Next]_vars => HandleTypes'
  <1> SUFFICES ASSUME DiskTypes, HandleTypes, PollTypes, CallTypes, CursorTypes, BoundTypes, [Next]_vars PROVE HandleTypes'
    BY TypeParts
  <1>1. ASSUME NEW h \in Handles, FromDisk(h) PROVE HandleTypes'
    <2>1. SavedPhase \in Phases
      BY DEF SavedPhase, DiskTypes, Phases
    <2>2. ASSUME NEW d \in Days PROVE ScanDay(d) \in Nat
      BY LenProperties DEF ScanDay, DiskTypes
    <2>3. [d \in Days |-> ScanDay(d)] \in [Days -> Nat] /\ [d \in Days |-> 0] \in [Days -> Nat]
      BY <2>2
    <2>4. (\E f \in [Days -> Nat] : cnt' = [cnt EXCEPT ![h] = f]) /\ (\E d \in Days : date' = [date EXCEPT ![h] = d])
      BY <1>1, <2>3 DEF FromDisk, DaysOnDisk, BoundTypes
    <2>5. phase' = [phase EXCEPT ![h] = SavedPhase]
      BY <1>1 DEF FromDisk
    <2> QED BY <2>1, <2>4, <2>5 DEF HandleTypes
  <1>2. ASSUME NEW c \in Clients, SubmitWrite(c) \/ SubmitFails(c) \/ SubmitUnsynced(c) PROVE HandleTypes'
    <2>1. date' = [date EXCEPT ![sess[c]] = today] /\ UNCHANGED <<cnt, phase>>
      BY <1>2 DEF SubmitWrite, SubmitUnsynced, AppendLine, SubmitFails
    <2> QED BY <2>1 DEF HandleTypes, BoundTypes
  <1>3. ASSUME NEW c \in Clients, SubmitMeta(c) \/ SubmitUnsaved(c) PROVE HandleTypes'
    <2>1. sess[c] \in Handles
      BY <1>3, InSession DEF SubmitMeta, SubmitUnsaved, Appending, CallTypes
    <2>2. cnt' = [cnt EXCEPT ![sess[c]][date[sess[c]]] = @ + 1] \/ cnt' = cnt
      BY <1>3 DEF SubmitMeta, SubmitUnsaved
    <2>3. UNCHANGED <<date, phase>>
      BY <1>3 DEF SubmitMeta, SubmitUnsaved
    <2>4. cnt' \in [Handles -> [Days -> Nat]]
      <3>1. date[sess[c]] \in Days
        BY <2>1 DEF HandleTypes
      <3>2. [cnt EXCEPT ![sess[c]][date[sess[c]]] = @ + 1] \in [Handles -> [Days -> Nat]]
        BY <2>1, <3>1, OneMore
      <3>3. cnt \in [Handles -> [Days -> Nat]]
        BY DEF HandleTypes
      <3> QED BY <2>2, <3>2, <3>3
    <2> QED BY <2>3, <2>4 DEF HandleTypes
  <1>4. ASSUME NEW c \in Clients, NEW ph \in Phases, SetPhase(c, ph) PROVE HandleTypes'
    BY <1>4, InSession DEF SetPhase, HandleTypes
  <1>5. ASSUME UNCHANGED handleVars PROVE HandleTypes'
    BY <1>5 DEF handleVars, HandleTypes
  <1> QED
    BY <1>1, <1>2, <1>3, <1>4, <1>5
    DEF Next, WaitStep, AppendStep, Connect, Disconnect, WaitCall, WaitDeadline, WaitCheck, WaitWake, WaitExpire,
        WaitRead, SubmitDone, Unmark, Evict, Crash, Tick, vars

(* Who has the room, and the marks of polls. *)
LEMMA PollTypesNext == TypeOK /\ [Next]_vars => PollTypes'
  <1> SUFFICES ASSUME PollTypes, CallTypes, [Next]_vars PROVE PollTypes'
    BY TypeParts
  <1>1. ASSUME NEW c \in Clients, Connect(c) PROVE PollTypes'
    BY <1>1 DEF Connect, PollTypes, pollVars, Handles
  <1>2. ASSUME NEW c \in Clients, sess[c] # 0, DropGuard(c), UNCHANGED <<open, polling, locked>> PROVE PollTypes'
    <2>1. sess[c] \in Handles
      BY <1>2, InSession
    <2> QED BY <1>2, <2>1 DEF DropGuard, PollTypes
  <1>3. ASSUME NEW c \in Clients, Disconnect(c) PROVE PollTypes'
    <2>1. sess[c] \in Handles
      BY <1>3, InSession DEF Disconnect
    <2>2. unmarks' \in SUBSET (Handles \X Clients)
      BY <1>3, <2>1 DEF Disconnect, DropGuard, PollTypes
    <2> QED BY <1>3, <2>1, <2>2 DEF Disconnect, PollTypes
  <1>4. ASSUME NEW c \in Clients, WaitCall(c) PROVE PollTypes'
    BY <1>4, InSession DEF WaitCall, PollTypes
  <1>5. ASSUME NEW c \in Clients, WaitCheck(c) PROVE PollTypes'
    <2>1. sess[c] # 0 /\ UNCHANGED <<open, polling, locked>> /\ (DropGuard(c) \/ UNCHANGED unmarks)
      BY <1>5 DEF WaitCheck, CallTypes
    <2> QED BY <1>2, <2>1 DEF PollTypes
  <1>6. ASSUME NEW c \in Clients, WaitExpire(c) PROVE PollTypes'
    <2>1. sess[c] # 0 /\ UNCHANGED <<open, polling, locked>> /\ DropGuard(c)
      BY <1>6 DEF WaitExpire, CallTypes
    <2> QED BY <1>2, <2>1
  <1>7. ASSUME NEW c \in Clients, SubmitWrite(c) PROVE PollTypes'
    BY <1>7, InSession DEF SubmitWrite, AppendLine, CanSubmit, PollTypes, pollVars
  <1>8. ASSUME NEW c \in Clients, SubmitDone(c) \/ SubmitUnsaved(c) PROVE PollTypes'
    BY <1>8 DEF SubmitDone, SubmitUnsaved, PollTypes, pollVars
  <1>9. ASSUME NEW h \in Handles, NEW c \in Clients, Unmark(h, c) PROVE PollTypes'
    BY <1>9 DEF Unmark, PollTypes
  <1>10. ASSUME Evict \/ Crash PROVE PollTypes'
    BY <1>10 DEF Evict, Crash, PollTypes, pollVars
  <1>11. ASSUME UNCHANGED <<open, polling, locked, unmarks>> PROVE PollTypes'
    BY <1>11 DEF PollTypes
  <1> QED
    BY <1>1, <1>3, <1>4, <1>5, <1>6, <1>7, <1>8, <1>9, <1>10, <1>11
    DEF Next, WaitStep, AppendStep, WaitDeadline, WaitWake, WaitRead, SubmitFails, SubmitUnsynced, SubmitMeta, SetPhase, Tick, vars, pollVars

(* What the clients are doing. *)
LEMMA CallTypesNext == TypeOK /\ [Next]_vars => CallTypes'
  <1> SUFFICES ASSUME PollTypes, CallTypes, [Next]_vars PROVE CallTypes'
    BY TypeParts
  <1> USE DEF CallTypes, Waiting, Appending
  <1>1. ASSUME NEW c \in Clients, Connect(c) PROVE CallTypes'
    BY <1>1 DEF Connect, PollTypes, Handles
  <1>2. ASSUME NEW c \in Clients, Disconnect(c) PROVE CallTypes'
    BY <1>2 DEF Disconnect
  <1>3. ASSUME NEW c \in Clients, WaitCall(c) \/ SubmitWrite(c) PROVE CallTypes'
    BY <1>3 DEF WaitCall, SubmitWrite, AppendLine, CanSubmit
  <1>4. ASSUME NEW c \in Clients, WaitCheck(c) PROVE CallTypes'
    BY <1>4 DEF WaitCheck
  <1>5. ASSUME NEW c \in Clients, WaitWake(c) \/ WaitDeadline(c) \/ WaitExpire(c) \/ WaitRead(c) PROVE CallTypes'
    BY <1>5 DEF WaitWake, WaitDeadline, WaitExpire, WaitRead, Timed
  <1>6. ASSUME NEW c \in Clients, SubmitMeta(c) \/ SubmitDone(c) \/ SubmitUnsaved(c) PROVE CallTypes'
    BY <1>6 DEF SubmitMeta, SubmitDone, SubmitUnsaved
  <1>7. ASSUME Crash PROVE CallTypes'
    BY <1>7 DEF Crash
  <1>8. ASSUME UNCHANGED <<sess, pc>> PROVE CallTypes'
    BY <1>8
  <1> HIDE DEF CallTypes, Waiting, Appending
  <1> QED
    BY <1>1, <1>2, <1>3, <1>4, <1>5, <1>6, <1>7, <1>8
    DEF Next, WaitStep, AppendStep, SubmitFails, SubmitUnsynced, SetPhase, Unmark, Evict, Tick, vars, clientVars

(* The high-water of a handle is a position. *)
LEMMA HighWaterType ==
    ASSUME HandleTypes, NEW h \in Handles
    PROVE  HighWater(h) \in Nat \X Nat
  <1>1. date[h] \in Days /\ cnt[h] \in [Days -> Nat]
    BY DEF HandleTypes
  <1>2. date[h] \in Nat /\ cnt[h][date[h]] \in Nat
    BY <1>1 DEF Days
  <1> QED BY <1>2 DEF HighWater

(* What is read from the files are messages. *)
LEMMA ReadSinceType ==
    ASSUME DiskTypes, NEW cur
    PROVE  ReadSince(cur) \subseteq Nat
  <1>1. ASSUME NEW d \in Days, NEW i \in DOMAIN log[d] PROVE log[d][i].msg \in Nat
    <2>1. log[d] \in Seq(Lines)
      BY DEF DiskTypes
    <2>2. log[d][i] \in Lines
      BY <2>1, LenProperties, ElementOfSeq
    <2> QED BY <2>2 DEF Lines
  <1> QED BY <1>1 DEF ReadSince

(* What the proxies know, and the ghosts about it. *)
LEMMA CursorTypesNext == TypeOK /\ LockInv /\ [Next]_vars => CursorTypes'
  <1> SUFFICES ASSUME DiskTypes, HandleTypes, PollTypes, CallTypes, CursorTypes, LockInv, [Next]_vars PROVE CursorTypes'
    BY TypeParts
  <1>1. ASSUME NEW c \in Clients, Disconnect(c) PROVE CursorTypes'
    <2>1. NoCursor \in Nat \X Nat
      BY DEF NoCursor
    <2>2. /\ reply' = [reply EXCEPT ![c] = NoCursor] /\ UNCHANGED <<seen, acked>>
          /\ UNCHANGED cursor \/ cursor' = [cursor EXCEPT ![c] = NoCursor]
      BY <1>1 DEF Disconnect, ghostVars
    <2> QED BY <2>1, <2>2 DEF CursorTypes
  <1>2. ASSUME NEW c \in Clients, WaitCheck(c) PROVE CursorTypes'
    <2>1. HighWater(sess[c]) \in Nat \X Nat
      BY <1>2, InSession, HighWaterType DEF WaitCheck, CallTypes
    <2>2. UNCHANGED <<cursor, seen, acked>> /\ (UNCHANGED reply \/ reply' = [reply EXCEPT ![c] = HighWater(sess[c])])
      BY <1>2 DEF WaitCheck, ghostVars
    <2> QED BY <2>1, <2>2 DEF CursorTypes
  <1>3. ASSUME NEW c \in Clients, WaitExpire(c) PROVE CursorTypes'
    <2>1. HighWater(sess[c]) \in Nat \X Nat
      BY <1>3, InSession, HighWaterType DEF WaitExpire, CallTypes
    <2>2. UNCHANGED <<reply, seen, acked>> /\ cursor' = [cursor EXCEPT ![c] = HighWater(sess[c])]
      BY <1>3 DEF WaitExpire
    <2> QED BY <2>1, <2>2 DEF CursorTypes
  <1>4. ASSUME NEW c \in Clients, WaitRead(c) PROVE CursorTypes'
    <2>1. ReadSince(cursor[c]) \subseteq Nat
      BY ReadSinceType
    <2>2. NoCursor \in Nat \X Nat /\ reply[c] \in Nat \X Nat /\ seen[c] \cup ReadSince(cursor[c]) \in SUBSET Nat
      BY <2>1 DEF NoCursor, CursorTypes
    <2>3. /\ cursor' = [cursor EXCEPT ![c] = reply[c]] /\ reply' = [reply EXCEPT ![c] = NoCursor]
          /\ seen' = [seen EXCEPT ![c] = seen[c] \cup ReadSince(cursor[c])] /\ acked' = acked
      BY <1>4 DEF WaitRead
    <2> QED BY <2>2, <2>3 DEF CursorTypes
  <1>5. ASSUME NEW c \in Clients, SubmitDone(c) PROVE CursorTypes'
    <2>1. sess[c] \in Handles /\ log[date[sess[c]]] # <<>>
      BY <1>5, InSession DEF SubmitDone, CallTypes, LockInv, Appending
    <2>2. log[date[sess[c]]] \in Seq(Lines)
      BY <2>1 DEF DiskTypes, HandleTypes
    <2>3. log[date[sess[c]]][Len(log[date[sess[c]]])] \in Lines
      BY <2>1, <2>2, EmptySeq, ElementOfSeq
    <2>4. log[date[sess[c]]][Len(log[date[sess[c]]])].msg \in Nat
      BY <2>3 DEF Lines
    <2> QED BY <1>5, <2>4 DEF SubmitDone, CursorTypes
  <1>6. ASSUME Crash PROVE CursorTypes'
    BY <1>6 DEF Crash, CursorTypes, NoCursor, ghostVars
  <1>7. ASSUME UNCHANGED <<cursor, reply, seen, acked>> PROVE CursorTypes'
    BY <1>7 DEF CursorTypes
  <1> QED
    BY <1>1, <1>2, <1>3, <1>4, <1>5, <1>6, <1>7
    DEF Next, WaitStep, AppendStep, Connect, WaitCall, WaitDeadline, WaitWake, SubmitWrite, SubmitFails, SubmitMeta,
        SubmitUnsynced, SubmitUnsaved, SetPhase, Unmark, Evict, Tick, vars, clientVars, ghostVars

(* The bounds. *)
LEMMA BoundTypesNext == TypeOK /\ [Next]_vars => BoundTypes'
  <1> SUFFICES ASSUME BoundTypes, [Next]_vars PROVE BoundTypes'
    BY TypeParts
  <1> USE DEF BoundTypes, Mishaps, Fault
  <1>1. ASSUME NEW c \in Clients, Connect(c) PROVE BoundTypes'
    <2>1. UNCHANGED <<today, sent, faults>>
      BY <1>1 DEF Connect, boundVars
    <2>2. mishaps' \subseteq mishaps \cup {"forked", "refounded"}
      BY <1>1 DEF Connect
    <2> QED BY <2>1, <2>2
  <1>2. ASSUME NEW c \in Clients, SubmitWrite(c) \/ SubmitFails(c) \/ SubmitUnsynced(c) PROVE BoundTypes'
    <2>1. CASE SubmitWrite(c)
      BY <2>1 DEF SubmitWrite, AppendLine, ghostVars
    <2>2. CASE SubmitFails(c)
      <3>1. faults' = faults + 1 /\ UNCHANGED <<today, sent>>
            /\ (mishaps' = mishaps \cup {"rolled"} \/ mishaps' = mishaps \cup {"torn"})
        BY <2>2 DEF SubmitFails
      <3>2. CASE mishaps' = mishaps \cup {"rolled"}
        BY <3>1, <3>2
      <3>3. CASE mishaps' = mishaps \cup {"torn"}
        BY <3>1, <3>3
      <3> QED BY <3>1, <3>2, <3>3
    <2>3. CASE SubmitUnsynced(c)
      BY <2>3 DEF SubmitUnsynced, AppendLine
    <2> QED BY <1>2, <2>1, <2>2, <2>3
  <1>3. ASSUME NEW c \in Clients, SubmitDone(c) \/ SubmitUnsaved(c) PROVE BoundTypes'
    BY <1>3 DEF SubmitDone, SubmitUnsaved, boundVars
  <1>4. ASSUME NEW c \in Clients, NEW ph \in Phases, SetPhase(c, ph) PROVE BoundTypes'
    BY <1>4 DEF SetPhase, ghostVars
  <1>5. ASSUME NEW c \in Clients, WaitExpire(c) \/ WaitRead(c) PROVE BoundTypes'
    BY <1>5 DEF WaitExpire, WaitRead, boundVars
  <1>6. ASSUME Tick \/ Crash PROVE BoundTypes'
    <2>1. CASE Tick
      BY <2>1 DEF Tick, ghostVars, Days
    <2>2. CASE Crash
      BY <2>2 DEF Crash, ghostVars
    <2> QED BY <1>6, <2>1, <2>2
  <1>7. ASSUME UNCHANGED <<boundVars, ghostVars>> PROVE BoundTypes'
    BY <1>7 DEF boundVars, ghostVars
  <1> HIDE DEF BoundTypes, Mishaps, Fault
  <1> QED
    BY <1>1, <1>2, <1>3, <1>4, <1>5, <1>6, <1>7
    DEF Next, WaitStep, AppendStep, Disconnect, WaitCall, WaitDeadline, WaitCheck, WaitWake, SubmitMeta,
        Unmark, Evict, vars

(* Notifications. *)
LEMMA NotifiedNext == TypeOK /\ [Next]_vars => notified' \in [Clients -> BOOLEAN]
  <1> SUFFICES ASSUME notified \in [Clients -> BOOLEAN], [Next]_vars PROVE notified' \in [Clients -> BOOLEAN]
    BY TypeParts
  <1>1. ASSUME NEW h, Notify(h) PROVE notified' \in [Clients -> BOOLEAN]
    BY <1>1 DEF Notify
  <1>2. ASSUME NEW c \in Clients, Disconnect(c) PROVE notified' \in [Clients -> BOOLEAN]
    BY <1>2 DEF Disconnect
  <1>3. ASSUME NEW c \in Clients, notified' = [notified EXCEPT ![c] = FALSE] PROVE notified' \in [Clients -> BOOLEAN]
    BY <1>3
  <1>4. ASSUME NEW c \in Clients, WaitDeadline(c) PROVE notified' \in [Clients -> BOOLEAN]
    BY <1>4 DEF WaitDeadline
  <1>5. ASSUME Crash PROVE notified' \in [Clients -> BOOLEAN]
    BY <1>5 DEF Crash
  <1> QED
    BY <1>1, <1>2, <1>3, <1>4, <1>5
    DEF Next, WaitStep, AppendStep, Connect, WaitCall, WaitCheck, WaitWake, WaitExpire, WaitRead, SubmitWrite, AppendLine,
        SubmitFails, SubmitUnsynced, SubmitMeta, SubmitDone, SubmitUnsaved, SetPhase, Unmark, Evict, Tick, vars, clientVars

(* Every step keeps the types. *)
LEMMA TypeOKNext == TypeOK /\ LockInv /\ [Next]_vars => TypeOK'
  <1> SUFFICES ASSUME TypeOK, LockInv, [Next]_vars PROVE TypeOK'
    OBVIOUS
  <1>1. /\ DiskTypes' /\ HandleTypes' /\ PollTypes' /\ CallTypes' /\ CursorTypes' /\ BoundTypes'
        /\ notified' \in [Clients -> BOOLEAN]
    BY DiskTypesNext, HandleTypesNext, PollTypesNext, CallTypesNext, CursorTypesNext, BoundTypesNext, NotifiedNext
  <1> QED
    BY <1>1 DEF TypeOK, DiskTypes, HandleTypes, PollTypes, CallTypes, CursorTypes, BoundTypes, Lines

-----------------------------------------------------------------------------
(* The lock and the lines *)

(* A sequence with one element more. *)
LEMMA LongerByOne ==
    ASSUME NEW S, NEW a \in Seq(S), NEW e \in S, NEW b, b = Append(a, e)
    PROVE  /\ Len(a) \in Nat /\ DOMAIN a = 1..Len(a) /\ Len(b) = Len(a) + 1 /\ b # <<>>
           /\ DOMAIN b = 1..(Len(a) + 1) /\ \A i \in DOMAIN a : b[i] = a[i]
           /\ b[Len(a) + 1] = e
  <1>1. Len(a) \in Nat /\ DOMAIN a = 1..Len(a)
    BY LenProperties
  <1>2. b \in Seq(S) /\ Len(b) = Len(a) + 1 /\ b[Len(a) + 1] = e /\ \A i \in 1..Len(a) : b[i] = a[i]
    BY AppendProperties
  <1>3. DOMAIN b = 1..(Len(a) + 1)
    BY <1>2, LenProperties
  <1>4. b # <<>>
    BY <1>1, <1>2
  <1> QED BY <1>1, <1>2, <1>3, <1>4

(* What a submitted line is, seen from the files. *)
LEMMA Appended ==
    ASSUME TypeOK, NEW c \in Clients, SubmitWrite(c) \/ SubmitUnsynced(c)
    PROVE  /\ sess[c] \in Handles /\ today \in Days
           /\ log'[today] = Append(log[today], [n |-> cnt[sess[c]][today], msg |-> sent + 1, ok |-> ~tail[today]])
           /\ \A d \in Days : d # today => log'[d] = log[d]
           /\ log[today] \in Seq(Lines) /\ Len(log[today]) \in Nat /\ Len(log'[today]) = Len(log[today]) + 1
           /\ log'[today] # <<>>
           /\ DOMAIN log[today] = 1..Len(log[today]) /\ DOMAIN log'[today] = 1..(Len(log[today]) + 1)
           /\ \A i \in DOMAIN log[today] : log'[today][i] = log[today][i]
           /\ log'[today][Len(log[today]) + 1] = [n |-> cnt[sess[c]][today], msg |-> sent + 1, ok |-> ~tail[today]]
  <1> DEFINE line == [n |-> cnt[sess[c]][today], msg |-> sent + 1, ok |-> ~tail[today]]
  <1>0. DiskTypes /\ HandleTypes /\ PollTypes /\ CallTypes /\ BoundTypes
    BY TypeParts
  <1>1. sess[c] \in Handles /\ today \in Days
    BY <1>0, InSession DEF SubmitWrite, SubmitUnsynced, CanSubmit, BoundTypes
  <1>2. line \in Lines
    BY <1>0, <1>1 DEF DiskTypes, HandleTypes, BoundTypes, Lines
  <1>3. log[today] \in Seq(Lines)
    BY <1>0, <1>1 DEF DiskTypes
  <1>4. log'[today] = Append(log[today], line) /\ \A d \in Days : d # today => log'[d] = log[d]
    BY <1>0, <1>1 DEF SubmitWrite, SubmitUnsynced, AppendLine, DiskTypes
  <1> HIDE DEF line
  <1>5. /\ Len(log[today]) \in Nat /\ DOMAIN log[today] = 1..Len(log[today])
        /\ Len(log'[today]) = Len(log[today]) + 1 /\ log'[today] # <<>>
        /\ DOMAIN log'[today] = 1..(Len(log[today]) + 1)
        /\ \A i \in DOMAIN log[today] : log'[today][i] = log[today][i]
        /\ log'[today][Len(log[today]) + 1] = line
    <2>1. PICK a, b : a = log[today] /\ b = log'[today]
      OBVIOUS
    <2>2. a \in Seq(Lines) /\ line \in Lines /\ b = Append(a, line)
      BY <1>2, <1>3, <1>4, <2>1
    <2>3. /\ Len(a) \in Nat /\ DOMAIN a = 1..Len(a) /\ Len(b) = Len(a) + 1 /\ b # <<>>
          /\ DOMAIN b = 1..(Len(a) + 1) /\ \A i \in DOMAIN a : b[i] = a[i]
          /\ b[Len(a) + 1] = line
      BY ONLY <2>2, LongerByOne
    <2> QED BY ONLY <2>1, <2>3
  <1> QED BY <1>1, <1>3, <1>4, <1>5 DEF line

(* The files only grow. *)
LEMMA LogGrows ==
    ASSUME TypeOK, NEW d \in Days, log[d] # <<>>, [Next]_vars
    PROVE  log'[d] # <<>>
  <1>1. ASSUME NEW c \in Clients, SubmitWrite(c) \/ SubmitUnsynced(c) PROVE log'[d] # <<>>
    BY <1>1, Appended
  <1>2. ASSUME log' = log PROVE log'[d] # <<>>
    BY <1>2
  <1> QED
    BY <1>1, <1>2
    DEF Next, WaitStep, AppendStep, Connect, Disconnect, WaitCall, WaitDeadline, WaitCheck, WaitWake, WaitExpire,
        WaitRead, SubmitFails, SubmitMeta, SubmitDone, SubmitUnsaved, SetPhase, Unmark, Evict, Crash, Tick, vars, diskVars

(* A handle that is opened is nobody's. *)
LEMMA OpensFree ==
    ASSUME NEW c \in Clients, Connect(c), open' # open
    PROVE  open' \in Handles /\ open = 0 /\ sess' = [sess EXCEPT ![c] = open'] /\ FromDisk(open')
           /\ \A b \in Clients : sess[b] # open'
  BY DEF Connect, Free

(* Every step keeps an append to the one that has the lock. *)
LEMMA LockNext == TypeOK /\ LockInv /\ [Next]_vars => LockInv'
  <1> SUFFICES ASSUME TypeOK, LockInv, [Next]_vars PROVE LockInv'
    OBVIOUS
  <1>0. DiskTypes /\ HandleTypes /\ PollTypes /\ CallTypes /\ BoundTypes
    BY TypeParts
  <1>1. ASSUME NEW c \in Clients, Connect(c) PROVE LockInv'
    <2>1. pc' = pc /\ locked' = locked /\ log' = log /\ pc[c] = "idle"
      BY <1>1 DEF Connect, diskVars
    <2>2. CASE open' = open
      <3>1. date' = date /\ \A b \in Clients : b # c => sess'[b] = sess[b]
        BY <1>0, <1>1, <2>2 DEF Connect, handleVars, CallTypes, Handles
      <3> QED BY <2>1, <3>1 DEF LockInv, Appending
    <2>3. CASE open' # open
      <3>0. /\ open' \in Handles /\ sess' = [sess EXCEPT ![c] = open'] /\ FromDisk(open')
            /\ \A b \in Clients : sess[b] # open'
        BY <1>1, <2>3, OpensFree
      <3>1. ASSUME NEW b \in Clients, b # c PROVE sess'[b] = sess[b] /\ sess[b] # open'
        BY <1>0, <3>0, <3>1 DEF CallTypes
      <3>2. ASSUME NEW h, h # open' PROVE date'[h] = date[h]
        <4>1. \E d : date' = [date EXCEPT ![open'] = d]
          BY <3>0 DEF FromDisk
        <4> QED BY <1>0, <3>2, <4>1 DEF HandleTypes
      <3> QED BY <2>1, <3>1, <3>2 DEF LockInv, Appending
    <2> QED BY <2>2, <2>3
  <1>2. ASSUME NEW c \in Clients, SubmitWrite(c) PROVE LockInv'
    <2>1. /\ sess[c] \notin locked /\ locked' = locked \cup {sess[c]} /\ sess' = sess
          /\ pc' = [pc EXCEPT ![c] = "wrote"] /\ date' = [date EXCEPT ![sess[c]] = today]
      BY <1>2 DEF SubmitWrite, AppendLine, CanSubmit
    <2>2. sess[c] \in Handles /\ log'[today] # <<>> /\ \A d \in Days : log[d] # <<>> => log'[d] # <<>>
      BY <1>2, Appended, LogGrows
    <2>3. ASSUME NEW b \in Clients, b # c, pc'[b] \in Appending
          PROVE  /\ pc[b] \in Appending /\ sess[b] \in locked /\ sess[b] # sess[c]
                 /\ log'[date'[sess[b]]] # <<>>
      <3>1. pc[b] \in Appending /\ sess[b] \in locked /\ sess[b] # sess[c] /\ log[date[sess[b]]] # <<>>
        BY <1>0, <2>1, <2>3 DEF LockInv, CallTypes
      <3>2. sess[b] \in Handles /\ date[sess[b]] \in Days /\ date'[sess[b]] = date[sess[b]]
        BY <1>0, <2>1, <3>1 DEF PollTypes, HandleTypes
      <3> QED BY <2>2, <3>1, <3>2
    <2>4. date'[sess[c]] = today
      BY <1>0, <2>1, <2>2 DEF HandleTypes
    <2> QED BY <2>1, <2>2, <2>3, <2>4 DEF LockInv
  <1>3. ASSUME NEW c \in Clients, SubmitFails(c) PROVE LockInv'
    <2>1. sess[c] \notin locked /\ UNCHANGED <<log, pc, sess, locked>> /\ date' = [date EXCEPT ![sess[c]] = today]
      BY <1>3 DEF SubmitFails, CanSubmit, clientVars
    <2>2. ASSUME NEW h \in locked PROVE date'[h] = date[h]
      BY <1>0, <2>1, <2>2 DEF PollTypes, HandleTypes
    <2> QED BY <2>1, <2>2 DEF LockInv
  <1>u. ASSUME NEW c \in Clients, SubmitUnsynced(c) PROVE LockInv'
    <2>1. sess[c] \notin locked /\ UNCHANGED <<pc, sess, locked>> /\ date' = [date EXCEPT ![sess[c]] = today]
      BY <1>u DEF SubmitUnsynced, AppendLine, CanSubmit, clientVars
    <2>2. ASSUME NEW h \in locked PROVE date'[h] = date[h] /\ date[h] \in Days
      BY <1>0, <2>1, <2>2 DEF PollTypes, HandleTypes
    <2>3. \A d \in Days : log[d] # <<>> => log'[d] # <<>>
      BY LogGrows
    <2> QED BY <2>1, <2>2, <2>3 DEF LockInv
  <1>4. ASSUME NEW c \in Clients, SubmitMeta(c) PROVE LockInv'
    BY <1>0, <1>4 DEF SubmitMeta, LockInv, Appending, CallTypes
  <1>5. ASSUME NEW c \in Clients, SubmitDone(c) \/ SubmitUnsaved(c) PROVE LockInv'
    <2>1. /\ UNCHANGED <<log, sess, date>> /\ locked' = locked \ {sess[c]} /\ pc' = [pc EXCEPT ![c] = "idle"]
          /\ pc[c] \in Appending
      BY <1>5 DEF SubmitDone, SubmitUnsaved, diskVars, handleVars, Appending
    <2> QED BY <1>0, <2>1 DEF LockInv, Appending, CallTypes
  <1>6. ASSUME NEW c \in Clients, Disconnect(c) PROVE LockInv'
    <2>1. /\ UNCHANGED <<log, date, locked>> /\ sess' = [sess EXCEPT ![c] = 0] /\ pc' = [pc EXCEPT ![c] = "idle"]
      BY <1>6 DEF Disconnect, diskVars, handleVars
    <2> QED BY <1>0, <2>1 DEF LockInv, Appending, CallTypes
  <1>7. ASSUME Crash PROVE LockInv'
    BY <1>7 DEF Crash, LockInv, Appending
  <1>8. ASSUME NEW c \in Clients, NEW p, p \notin Appending, pc' = [pc EXCEPT ![c] = p],
               UNCHANGED <<log, sess, date, locked>>
        PROVE  LockInv'
    BY <1>0, <1>8 DEF LockInv, CallTypes
  <1>9. ASSUME NEW c \in Clients, WaitCall(c) \/ WaitDeadline(c) \/ WaitStep(c) PROVE LockInv'
    BY <1>8, <1>9 DEF WaitCall, WaitDeadline, WaitStep, WaitCheck, WaitWake, WaitExpire, WaitRead, Appending, diskVars, handleVars
  <1>10. ASSUME UNCHANGED <<log, sess, pc, date, locked>> PROVE LockInv'
    BY <1>10 DEF LockInv
  <1> QED
    BY <1>1, <1>2, <1>3, <1>4, <1>5, <1>6, <1>7, <1>9, <1>10, <1>u
    DEF Next, AppendStep, SetPhase, Unmark, Evict, Tick, vars, diskVars, handleVars, clientVars

-----------------------------------------------------------------------------
(* One DaemonRoom *)

Single == OneRoom /\ CountInv /\ NumberInv /\ PhaseInv

(* What went wrong stays on record. *)
LEMMA MishapsGrow == [Next]_vars => mishaps \subseteq mishaps'
  BY DEF Next, WaitStep, AppendStep, Connect, Disconnect, WaitCall, WaitDeadline, WaitCheck, WaitWake, WaitExpire,
         WaitRead, SubmitWrite, SubmitFails, SubmitUnsynced, SubmitMeta, SubmitDone, SubmitUnsaved, SetPhase, Unmark, Evict,
         Crash, Tick, vars, ghostVars

(* A handle nobody appends through counts every line. *)
LEMMA Settled ==
    ASSUME LockInv, CountInv, NEW h \in Handles, Current(h), h \notin locked
    PROVE  /\ \A c \in Clients : sess[c] = h => pc[c] # "wrote"
           /\ \A d \in Days : cnt[h][d] + 0 = Len(log[d])
  <1>1. \A c \in Clients : sess[c] = h => pc[c] # "wrote"
    BY DEF LockInv, Appending
  <1>2. \A d \in Days : Uncounted(h, d) = 0
    BY <1>1 DEF Uncounted
  <1> QED BY <1>1, <1>2 DEF CountInv

(* A step that opens nothing and writes nothing keeps it. *)
LEMMA SingleFrame ==
    ASSUME Single, UNCHANGED <<log, cnt, date, meta, phase>>,
           \A h \in Handles : Current(h)' => Current(h),
           \A h \in Handles : (\E c \in Clients : sess'[c] = h /\ pc'[c] = "wrote")
                                <=> (\E c \in Clients : sess[c] = h /\ pc[c] = "wrote")
    PROVE  Single'
  <1>1. ASSUME NEW h \in Handles, NEW d \in Days PROVE Uncounted(h, d)' = Uncounted(h, d)
    BY DEF Uncounted
  <1>2. OneRoom'
    BY DEF Single, OneRoom
  <1>3. CountInv'
    BY <1>1 DEF Single, CountInv
  <1>4. NumberInv' /\ PhaseInv'
    BY DEF Single, NumberInv, PhaseInv
  <1> QED BY <1>2, <1>3, <1>4 DEF Single

(* The room is opened from its files. *)
LEMMA SingleOpens ==
    ASSUME TypeOK, LockInv, Single, NEW c \in Clients, Connect(c), open' # open, mishaps' \cap Renumbering = {}
    PROVE  Single'
  <1>0. DiskTypes /\ HandleTypes /\ PollTypes /\ CallTypes /\ BoundTypes
    BY TypeParts
  <1>1. /\ open' \in Handles /\ open = 0 /\ sess' = [sess EXCEPT ![c] = open'] /\ FromDisk(open')
        /\ \A b \in Clients : sess[b] # open'
    BY OpensFree
  <1>2. ~Forks /\ ~Refounds /\ UNCHANGED <<log, tail, index, meta, pc>> /\ pc[c] = "idle"
    BY <1>1 DEF Connect, diskVars, Renumbering
  <1>3. \A b \in Clients : sess[b] = 0
    BY <1>2 DEF Forks
  <1>4. ASSUME NEW h \in Handles, Current(h)' PROVE h = open'
    BY <1>0, <1>1, <1>3, <1>4 DEF Current, CallTypes, Handles
  <1>5. ASSUME NEW d \in Days PROVE cnt'[open'][d] = Len(log[d]) /\ Len(log[d]) \in Nat
    <2>1. Len(log[d]) \in Nat
      BY <1>0, LenProperties DEF DiskTypes
    <2>2. CASE meta = "none" \/ DaysOnDisk = {}
      <3>1. log[d] = <<>>
        BY <1>2, <2>2 DEF Refounds, DaysOnDisk
      <3>2. cnt' = [cnt EXCEPT ![open'] = [e \in Days |-> 0]]
        BY <1>1, <2>2 DEF FromDisk
      <3> QED BY <1>0, <1>1, <3>1, <3>2 DEF HandleTypes
    <2>3. CASE ~(meta = "none" \/ DaysOnDisk = {})
      <3>1. cnt' = [cnt EXCEPT ![open'] = [e \in Days |-> Len(log[e])]]
        BY <1>1, <2>3 DEF FromDisk, ScanDay
      <3> QED BY <1>0, <1>1, <2>1, <3>1 DEF HandleTypes
    <2> QED BY <2>1, <2>2, <2>3
  <1>6. \A b \in Clients : ~(sess'[b] = open' /\ pc'[b] = "wrote")
    BY <1>0, <1>1, <1>2, <1>3 DEF CallTypes, Handles
  <1>7. OneRoom'
    BY <1>4 DEF OneRoom
  <1>8. CountInv'
    <2> SUFFICES ASSUME NEW h \in Handles, NEW d \in Days, Current(h)'
                 PROVE  cnt'[h][d] + Uncounted(h, d)' = Len(log'[d])
      BY DEF CountInv
    <2>1. h = open' /\ log' = log
      BY <1>2, <1>4
    <2>2. cnt'[h][d] = Len(log[d]) /\ Len(log[d]) \in Nat
      BY <1>5, <2>1
    <2>3. ~ \E b \in Clients : sess'[b] = h /\ pc'[b] = "wrote"
      BY <1>6, <2>1
    <2>4. Uncounted(h, d)' = 0
      BY <2>3 DEF Uncounted
    <2> QED BY <2>1, <2>2, <2>4
  <1>9. NumberInv'
    BY <1>2 DEF Single, NumberInv
  <1>10. PhaseInv'
    <2>1. phase'[open'] = SavedPhase
      BY <1>0, <1>1 DEF FromDisk, HandleTypes
    <2> QED BY <1>2, <1>4, <2>1 DEF PhaseInv, SavedPhase
  <1> QED BY <1>7, <1>8, <1>9, <1>10 DEF Single

(* A line is appended. *)
LEMMA SingleWrites ==
    ASSUME TypeOK, LockInv, Single, NEW c \in Clients, SubmitWrite(c)
    PROVE  Single'
  <1> DEFINE h == sess[c]
  <1>0. DiskTypes /\ HandleTypes /\ PollTypes /\ CallTypes /\ BoundTypes
    BY TypeParts
  <1>1. /\ UNCHANGED <<open, sess, cnt, meta, phase>> /\ pc' = [pc EXCEPT ![c] = "wrote"]
        /\ date' = [date EXCEPT ![h] = today] /\ h \notin locked
    BY DEF SubmitWrite, AppendLine, CanSubmit
  <1>a. /\ \A d \in Days : d # today => log'[d] = log[d]
        /\ Len(log[today]) \in Nat /\ Len(log'[today]) = Len(log[today]) + 1
        /\ DOMAIN log[today] = 1..Len(log[today]) /\ DOMAIN log'[today] = 1..(Len(log[today]) + 1)
        /\ \A i \in DOMAIN log[today] : log'[today][i] = log[today][i]
    BY Appended
  <1>b. log'[today][Len(log[today]) + 1].n = cnt[h][today]
    <2>1. log'[today][Len(log[today]) + 1] = [n |-> cnt[h][today], msg |-> sent + 1, ok |-> ~tail[today]]
      BY Appended
    <2> QED BY <2>1
  <1>2. h \in Handles /\ Current(h) /\ today \in Days
    BY Appended DEF Current
  <1>3. /\ \A b \in Clients : sess[b] = h => pc[b] # "wrote"
        /\ \A d \in Days : cnt[h][d] + 0 = Len(log[d])
    BY <1>1, <1>2, Settled DEF Single
  <1>4. ASSUME NEW g \in Handles, Current(g)' PROVE g = h
    BY <1>1, <1>2, <1>4 DEF Single, OneRoom, Current
  <1>5. OneRoom'
    BY <1>4 DEF OneRoom
  <1>6. CountInv'
    <2> SUFFICES ASSUME NEW d \in Days PROVE cnt[h][d] + Uncounted(h, d)' = Len(log'[d])
      BY <1>1, <1>4 DEF CountInv
    <2>1. cnt[h][d] \in Nat /\ cnt[h][d] = Len(log[d])
      BY <1>0, <1>2, <1>3 DEF HandleTypes
    <2>2. pc'[c] = "wrote" /\ sess'[c] = h /\ date'[h] = today
      BY <1>0, <1>1, <1>2 DEF CallTypes, HandleTypes
    <2>3. Uncounted(h, d)' = IF d = today THEN 1 ELSE 0
      BY <1>1, <2>2 DEF Uncounted
    <2>4. CASE d = today
      <3>1. Len(log'[d]) = Len(log[d]) + 1
        BY <1>a, <2>4
      <3> QED BY <2>1, <2>3, <2>4, <3>1
    <2>5. CASE d # today
      <3>1. Len(log'[d]) = Len(log[d])
        BY <1>a, <2>5
      <3> QED BY <2>1, <2>3, <2>5, <3>1
    <2> QED BY <2>4, <2>5
  <1>7. NumberInv'
    <2> SUFFICES ASSUME NEW d \in Days, NEW i \in DOMAIN log'[d] PROVE log'[d][i].n + 1 = i
      BY DEF NumberInv
    <2>1. CASE d # today
      BY <1>a, <2>1 DEF Single, NumberInv
    <2>2. CASE d = today /\ i \in DOMAIN log[today]
      BY <1>a, <2>2 DEF Single, NumberInv
    <2>3. CASE d = today /\ i \notin DOMAIN log[today]
      <3>1. i = Len(log[today]) + 1
        BY <1>a, <2>3
      <3>2. log'[today][i].n = cnt[h][today]
        BY <1>b, <3>1
      <3>3. cnt[h][today] \in Nat /\ cnt[h][today] = Len(log[today])
        BY <1>0, <1>2, <1>3 DEF HandleTypes
      <3> QED BY <2>3, <3>1, <3>2, <3>3
    <2> QED BY <2>1, <2>2, <2>3
  <1>8. PhaseInv'
    BY <1>1, <1>2, <1>4 DEF Single, PhaseInv
  <1> QED BY <1>5, <1>6, <1>7, <1>8 DEF Single

(* It is counted. *)
LEMMA SingleCounts ==
    ASSUME TypeOK, LockInv, Single, NEW c \in Clients, pc[c] = "wrote",
           cnt' = [cnt EXCEPT ![sess[c]][date[sess[c]]] = @ + 1],
           NEW p, p # "wrote", pc' = [pc EXCEPT ![c] = p],
           UNCHANGED <<log, date, open, sess, phase>>, meta' \in {meta, phase[sess[c]]}
    PROVE  Single'
  <1> DEFINE h == sess[c]
  <1>0. DiskTypes /\ HandleTypes /\ PollTypes /\ CallTypes /\ BoundTypes
    BY TypeParts
  <1>1. h \in Handles /\ Current(h) /\ date[h] \in Days
    BY <1>0, InSession DEF CallTypes, Current, HandleTypes
  <1>2. ASSUME NEW g \in Handles, Current(g)' PROVE g = h
    BY <1>1, <1>2 DEF Single, OneRoom, Current
  <1>3. \A b \in Clients : sess[b] = h /\ pc[b] = "wrote" => b = c
    BY DEF LockInv, Appending
  <1>4. ASSUME NEW d \in Days PROVE cnt'[h][d] + Uncounted(h, d)' = Len(log'[d])
    <2>1. Uncounted(h, d) = (IF d = date[h] THEN 1 ELSE 0) /\ Uncounted(h, d)' = 0
      BY <1>0, <1>3 DEF Uncounted, CallTypes
    <2>2. cnt[h][d] \in Nat /\ cnt'[h][d] = IF d = date[h] THEN cnt[h][d] + 1 ELSE cnt[h][d]
      BY <1>0, <1>1 DEF HandleTypes
    <2>3. cnt[h][d] + Uncounted(h, d) = Len(log[d])
      BY <1>1 DEF Single, CountInv
    <2> QED BY <2>1, <2>2, <2>3
  <1>5. OneRoom' /\ CountInv'
    BY <1>2, <1>4 DEF OneRoom, CountInv
  <1>6. NumberInv'
    BY DEF Single, NumberInv
  <1>7. PhaseInv'
    BY <1>1, <1>2 DEF Single, PhaseInv
  <1> QED BY <1>5, <1>6, <1>7 DEF Single

(* A phase is set, and saved or not. *)
LEMMA SinglePhase ==
    ASSUME TypeOK, Single, NEW c \in Clients, NEW ph \in Phases, SetPhase(c, ph)
    PROVE  Single'
  <1> DEFINE h == sess[c]
  <1>0. DiskTypes /\ HandleTypes /\ PollTypes /\ CallTypes /\ BoundTypes
    BY TypeParts
  <1>1. /\ UNCHANGED <<log, cnt, date, open, sess, pc>> /\ phase' = [phase EXCEPT ![h] = ph]
        /\ phase[h] # "Ended" /\ h # 0 /\ meta' \in {meta, ph}
    BY DEF SetPhase, MayEnter
  <1>2. h \in Handles /\ Current(h)
    BY <1>0, <1>1, InSession DEF Current
  <1>3. ASSUME NEW g \in Handles, Current(g)' PROVE g = h
    BY <1>1, <1>2, <1>3 DEF Single, OneRoom, Current
  <1>4. meta # "Ended" /\ phase'[h] = ph
    BY <1>0, <1>1, <1>2 DEF Single, PhaseInv, HandleTypes
  <1>5. OneRoom' /\ PhaseInv'
    BY <1>1, <1>3, <1>4 DEF OneRoom, PhaseInv
  <1>6. CountInv' /\ NumberInv'
    BY <1>1 DEF Single, CountInv, NumberInv, Uncounted, Current
  <1> QED BY <1>5, <1>6 DEF Single

(* A write fails: at most the active day has moved. *)
LEMMA SingleFails ==
    ASSUME TypeOK, LockInv, Single, NEW c \in Clients, SubmitFails(c)
    PROVE  Single'
  <1> DEFINE h == sess[c]
  <1>0. DiskTypes /\ HandleTypes /\ PollTypes /\ CallTypes /\ BoundTypes
    BY TypeParts
  <1>1. UNCHANGED <<log, cnt, open, sess, pc, meta, phase>> /\ h \notin locked /\ h # 0
    BY DEF SubmitFails, CanSubmit, clientVars
  <1>2. h \in Handles /\ Current(h)
    BY <1>0, <1>1, InSession DEF Current
  <1>3. /\ \A b \in Clients : sess[b] = h => pc[b] # "wrote"
        /\ \A d \in Days : cnt[h][d] + 0 = Len(log[d])
    BY <1>1, <1>2, Settled DEF Single
  <1>4. ASSUME NEW g \in Handles, Current(g)' PROVE g = h
    BY <1>1, <1>2, <1>4 DEF Single, OneRoom, Current
  <1>5. CountInv'
    <2> SUFFICES ASSUME NEW d \in Days PROVE cnt[h][d] + Uncounted(h, d)' = Len(log[d])
      BY <1>1, <1>4 DEF CountInv
    <2>1. Uncounted(h, d)' = 0
      BY <1>1, <1>3 DEF Uncounted
    <2> QED BY <1>3, <2>1
  <1>6. OneRoom' /\ NumberInv' /\ PhaseInv'
    BY <1>1, <1>2, <1>4 DEF Single, OneRoom, NumberInv, PhaseInv
  <1> QED BY <1>5, <1>6 DEF Single

(* The steps of the long-poll, and what else is neither in the files nor   *)
(* in the counters.                                                        *)
LEMMA SingleElse ==
    ASSUME TypeOK, Single, UNCHANGED <<log, cnt, date, meta, phase, sess>>, open' \in {open, 0},
           NEW c \in Clients, NEW p, pc[c] # "wrote", p # "wrote", pc' = [pc EXCEPT ![c] = p]
    PROVE  Single'
  <1>0. CallTypes
    BY TypeParts
  <1>1. \A b \in Clients : pc'[b] = "wrote" <=> pc[b] = "wrote"
    BY <1>0 DEF CallTypes
  <1>2. \A h \in Handles : Current(h)' => Current(h)
    BY DEF Current, Handles
  <1> QED BY <1>1, <1>2, SingleFrame

(* One DaemonRoom has the room, counts its lines and knows that it has     *)
(* ended, as long as nothing made it number a line twice.                  *)
LEMMA SingleNext == TypeOK /\ LockInv /\ SingleInv /\ [Next]_vars => SingleInv'
  <1> SUFFICES ASSUME TypeOK, LockInv, Single, [Next]_vars, mishaps' \cap Renumbering = {} PROVE Single'
    BY MishapsGrow DEF SingleInv, Single
  <1>0. DiskTypes /\ HandleTypes /\ PollTypes /\ CallTypes /\ BoundTypes
    BY TypeParts
  <1>1. ASSUME NEW c \in Clients, Connect(c) PROVE Single'
    <2>1. CASE open' # open
      BY <1>1, <2>1, SingleOpens
    <2>2. CASE open' = open
      <3>1. /\ UNCHANGED <<log, cnt, date, meta, phase, pc, open>> /\ pc[c] = "idle"
            /\ open \in Handles /\ sess' = [sess EXCEPT ![c] = open]
        BY <1>0, <1>1, <2>2 DEF Connect, diskVars, handleVars, Handles, PollTypes
      <3>2. \A h \in Handles : Current(h)' => Current(h)
        BY <1>0, <3>1 DEF Current, CallTypes
      <3>3. \A b \in Clients : pc[b] = "wrote" => sess'[b] = sess[b]
        BY <1>0, <3>1 DEF CallTypes
      <3> QED BY <3>1, <3>2, <3>3, SingleFrame
    <2> QED BY <2>1, <2>2
  <1>2. ASSUME NEW c \in Clients, Disconnect(c) PROVE Single'
    <2>1. /\ UNCHANGED <<log, cnt, date, meta, phase, open>> /\ sess[c] \notin locked
          /\ sess' = [sess EXCEPT ![c] = 0] /\ pc' = [pc EXCEPT ![c] = "idle"]
      BY <1>2 DEF Disconnect, diskVars, handleVars
    <2>2. pc[c] # "wrote"
      BY <2>1 DEF LockInv, Appending
    <2>3. \A h \in Handles : Current(h)' => Current(h)
      BY <1>0, <2>1 DEF Current, CallTypes, Handles
    <2>4. \A b \in Clients : /\ pc'[b] = "wrote" <=> pc[b] = "wrote"
                             /\ pc[b] = "wrote" => sess'[b] = sess[b]
      BY <1>0, <2>1, <2>2 DEF CallTypes
    <2> QED BY <2>1, <2>3, <2>4, SingleFrame
  <1>3. ASSUME Crash PROVE Single'
    <2>1. /\ UNCHANGED <<log, cnt, date, meta, phase>> /\ open' = 0
          /\ \A c \in Clients : sess'[c] = 0
      BY <1>3 DEF Crash, diskVars, handleVars
    <2>2. \A h \in Handles : ~Current(h)'
      BY <2>1 DEF Current, Handles
    <2>3. OneRoom' /\ CountInv' /\ PhaseInv'
      BY <2>2 DEF OneRoom, CountInv, PhaseInv
    <2>4. NumberInv'
      BY <2>1 DEF Single, NumberInv
    <2> QED BY <2>3, <2>4 DEF Single
  <1>u. ASSUME NEW c \in Clients, SubmitUnsynced(c) PROVE Single'
    BY <1>u DEF SubmitUnsynced, Renumbering
  <1>4. ASSUME NEW c \in Clients, SubmitMeta(c) PROVE Single'
    <2>1. /\ pc[c] = "wrote" /\ cnt' = [cnt EXCEPT ![sess[c]][date[sess[c]]] = @ + 1]
          /\ pc' = [pc EXCEPT ![c] = "meta"] /\ UNCHANGED <<log, date, open, sess, phase>>
          /\ meta' \in {meta, phase[sess[c]]}
      BY <1>4 DEF SubmitMeta
    <2> QED BY <2>1, SingleCounts
  <1>5. ASSUME NEW c \in Clients, SubmitUnsaved(c) PROVE Single'
    <2>1. /\ pc[c] \in {"wrote", "meta"}
          /\ pc' = [pc EXCEPT ![c] = "idle"] /\ UNCHANGED <<log, date, open, sess, phase, meta>>
          /\ cnt' = IF pc[c] = "wrote" THEN [cnt EXCEPT ![sess[c]][date[sess[c]]] = @ + 1] ELSE cnt
      BY <1>5 DEF SubmitUnsaved, Appending, diskVars
    <2>2. CASE pc[c] = "wrote"
      BY <2>1, <2>2, SingleCounts
    <2>3. CASE pc[c] = "meta"
      BY <2>1, <2>3, SingleElse
    <2> QED BY <2>1, <2>2, <2>3
  <1>6. ASSUME NEW c \in Clients, SubmitDone(c) PROVE Single'
    BY <1>6, SingleElse DEF SubmitDone, handleVars
  <1>7. ASSUME NEW c \in Clients, WaitCall(c) \/ WaitDeadline(c) \/ WaitWake(c) \/ WaitExpire(c) \/ WaitRead(c)
        PROVE  Single'
    BY <1>7, SingleElse DEF WaitCall, WaitDeadline, WaitWake, WaitExpire, WaitRead, Timed, diskVars, handleVars
  <1>8. ASSUME NEW c \in Clients, WaitCheck(c) PROVE Single'
    <2>1. /\ UNCHANGED <<log, cnt, date, meta, phase, sess, open>> /\ pc[c] # "wrote"
          /\ \E p \in {"idle", "got", "expired", "parked"} : pc' = [pc EXCEPT ![c] = p]
      BY <1>8 DEF WaitCheck, diskVars, handleVars
    <2> QED BY <2>1, SingleElse
  <1>9. ASSUME UNCHANGED <<log, cnt, date, meta, phase, sess, pc>>, open' \in {open, 0} PROVE Single'
    <2>1. \A h \in Handles : Current(h)' => Current(h)
      BY <1>9 DEF Current, Handles
    <2> QED BY <1>9, <2>1, SingleFrame
  <1> QED
    BY <1>1, <1>2, <1>3, <1>4, <1>5, <1>6, <1>7, <1>8, <1>9, <1>u, SinglePhase, SingleFails, SingleWrites
    DEF Next, WaitStep, AppendStep, Unmark, Evict, Tick, vars, diskVars, handleVars, clientVars

(* As long as nothing forked the room, one DaemonRoom has it and knows     *)
(* that it has ended, however its lines are numbered.                      *)
LEMMA OwnNext == TypeOK /\ OwnInv /\ [Next]_vars => OwnInv'
  <1> SUFFICES ASSUME TypeOK, OneRoom, PhaseInv, [Next]_vars, "forked" \notin mishaps' PROVE OneRoom' /\ PhaseInv'
    BY MishapsGrow DEF OwnInv
  <1>0. DiskTypes /\ HandleTypes /\ PollTypes /\ CallTypes /\ BoundTypes
    BY TypeParts
  <1>1. ASSUME UNCHANGED <<meta, phase>>, \A h \in Handles : Current(h)' => Current(h)
        PROVE  OneRoom' /\ PhaseInv'
    BY <1>1 DEF OneRoom, PhaseInv
  <1>2. ASSUME NEW c \in Clients, Connect(c), open' = open PROVE OneRoom' /\ PhaseInv'
    <2>1. UNCHANGED <<meta, phase, open>> /\ open \in Handles /\ sess' = [sess EXCEPT ![c] = open]
      BY <1>0, <1>2 DEF Connect, diskVars, handleVars, Handles, PollTypes
    <2>2. \A h \in Handles : Current(h)' => Current(h)
      BY <1>0, <2>1 DEF Current, CallTypes
    <2> QED BY <1>1, <2>1, <2>2
  <1>3. ASSUME NEW c \in Clients, Connect(c), open' # open PROVE OneRoom' /\ PhaseInv'
    <2>1. /\ open' \in Handles /\ sess' = [sess EXCEPT ![c] = open'] /\ FromDisk(open') /\ meta' = meta
      BY <1>3, OpensFree DEF Connect, diskVars
    <2>2. ~Forks
      BY <1>3 DEF Connect
    <2>3. ASSUME NEW h \in Handles, Current(h)' PROVE h = open'
      BY <1>0, <2>1, <2>2, <2>3 DEF Forks, Current, CallTypes, Handles
    <2>4. phase'[open'] = SavedPhase
      BY <1>0, <2>1 DEF FromDisk, HandleTypes
    <2> QED BY <2>1, <2>3, <2>4 DEF OneRoom, PhaseInv, SavedPhase
  <1>4. ASSUME NEW c \in Clients, Disconnect(c) PROVE OneRoom' /\ PhaseInv'
    <2>1. UNCHANGED <<meta, phase, open>> /\ sess' = [sess EXCEPT ![c] = 0]
      BY <1>4 DEF Disconnect, diskVars, handleVars
    <2> QED BY <1>0, <1>1, <2>1 DEF Current, CallTypes, Handles
  <1>5. ASSUME Crash PROVE OneRoom' /\ PhaseInv'
    <2>1. UNCHANGED <<meta, phase>> /\ open' = 0 /\ \A c \in Clients : sess'[c] = 0
      BY <1>5 DEF Crash, diskVars, handleVars
    <2> QED BY <1>1, <2>1 DEF Current, Handles
  <1>6. ASSUME NEW c \in Clients, SubmitMeta(c) PROVE OneRoom' /\ PhaseInv'
    <2>1. UNCHANGED <<phase, open, sess>> /\ meta' = phase[sess[c]] /\ pc[c] = "wrote"
      BY <1>6 DEF SubmitMeta
    <2>2. sess[c] \in Handles /\ Current(sess[c])
      BY <1>0, <2>1, InSession DEF CallTypes, Current
    <2>3. ASSUME NEW h \in Handles, Current(h)' PROVE h = sess[c]
      BY <2>1, <2>2, <2>3 DEF OneRoom, Current
    <2> QED BY <2>1, <2>3 DEF OneRoom, PhaseInv
  <1>7. ASSUME NEW c \in Clients, NEW ph \in Phases, SetPhase(c, ph) PROVE OneRoom' /\ PhaseInv'
    <2>1. /\ UNCHANGED <<open, sess>> /\ phase' = [phase EXCEPT ![sess[c]] = ph]
          /\ phase[sess[c]] # "Ended" /\ sess[c] # 0 /\ meta' \in {meta, ph}
      BY <1>7 DEF SetPhase, MayEnter
    <2>2. sess[c] \in Handles /\ Current(sess[c])
      BY <1>0, <2>1, InSession DEF Current
    <2>3. ASSUME NEW h \in Handles, Current(h)' PROVE h = sess[c]
      BY <2>1, <2>2, <2>3 DEF OneRoom, Current
    <2>4. meta # "Ended" /\ phase'[sess[c]] = ph
      BY <1>0, <2>1, <2>2 DEF PhaseInv, HandleTypes
    <2> QED BY <2>1, <2>3, <2>4 DEF OneRoom, PhaseInv
  <1>8. ASSUME UNCHANGED <<meta, phase, sess>>, open' \in {open, 0} PROVE OneRoom' /\ PhaseInv'
    BY <1>1, <1>8 DEF Current, Handles
  <1> QED
    BY <1>2, <1>3, <1>4, <1>5, <1>6, <1>7, <1>8
    DEF Next, WaitStep, AppendStep, WaitCall, WaitDeadline, WaitCheck, WaitWake, WaitExpire, WaitRead, SubmitWrite,
        SubmitFails, SubmitUnsynced, AppendLine, SubmitDone, SubmitUnsaved, Unmark, Evict, Tick, vars, diskVars, handleVars, clientVars

-----------------------------------------------------------------------------
(* Polls *)

(* The clock and the files go together. *)
LEMMA TimeNext == TypeOK /\ TimeInv /\ [Next]_vars => TimeInv'
  <1> SUFFICES ASSUME TypeOK, TimeInv, [Next]_vars PROVE TimeInv'
    OBVIOUS
  <1>0. DiskTypes /\ HandleTypes /\ PollTypes /\ CallTypes /\ BoundTypes
    BY TypeParts
  <1>1. today \in Nat /\ sent \in Nat /\ \A d \in Days : d \in Nat
    BY <1>0 DEF BoundTypes, Days
  <1>2. ASSUME NEW c \in Clients, Connect(c) PROVE TimeInv'
    <2>1. UNCHANGED <<log, tail, today, sent>>
      BY <1>2 DEF Connect, diskVars, boundVars
    <2>2. CASE open' = open
      <3>1. UNCHANGED date
        BY <1>2, <2>2 DEF Connect, handleVars, Handles
      <3> QED BY <2>1, <3>1 DEF TimeInv
    <2>3. CASE open' # open
      <3>1. open' \in Handles /\ FromDisk(open')
        BY <1>2, <2>3, OpensFree
      <3>2. \E d \in Days : d <= today /\ date' = [date EXCEPT ![open'] = d]
        BY <1>0, <1>1, <3>1 DEF FromDisk, DaysOnDisk, TimeInv, BoundTypes, DiskTypes
      <3>3. \A h \in Handles : date'[h] <= today
        BY <1>0, <3>2 DEF TimeInv, HandleTypes
      <3> QED BY <2>1, <3>3 DEF TimeInv
    <2> QED BY <2>2, <2>3
  <1>3. ASSUME NEW c \in Clients, SubmitWrite(c) \/ SubmitUnsynced(c) PROVE TimeInv'
    <2>1. /\ sent < MaxMsgs /\ sent' = sent + 1 /\ today' = today /\ tail' = [tail EXCEPT ![today] = FALSE]
          /\ date' = [date EXCEPT ![sess[c]] = today]
      BY <1>3 DEF SubmitWrite, SubmitUnsynced, AppendLine
    <2>2. /\ today \in Days /\ \A d \in Days : d # today => log'[d] = log[d]
          /\ Len(log[today]) \in Nat /\ Len(log'[today]) = Len(log[today]) + 1
      BY <1>3, Appended
    <2>3. ASSUME NEW d \in Days PROVE Len(log'[d]) <= sent' /\ (log'[d] # <<>> \/ tail'[d] => d <= today')
      <3>1. Len(log[d]) \in Nat
        BY <1>0, LenProperties DEF DiskTypes
      <3>2. CASE d = today
        BY <1>1, <2>1, <2>2, <3>1, <3>2 DEF TimeInv
      <3>3. CASE d # today
        BY <1>0, <1>1, <2>1, <2>2, <3>1, <3>3 DEF TimeInv, DiskTypes
      <3> QED BY <3>2, <3>3
    <2>4. \A h \in Handles : date'[h] <= today
      BY <1>0, <1>1, <2>1 DEF TimeInv, HandleTypes
    <2> QED BY <1>1, <2>1, <2>3, <2>4 DEF TimeInv
  <1>4. ASSUME NEW c \in Clients, SubmitFails(c) PROVE TimeInv'
    <2>1. /\ UNCHANGED <<log, today, sent>> /\ date' = [date EXCEPT ![sess[c]] = today]
          /\ tail' = tail \/ tail' = [tail EXCEPT ![today] = TRUE]
      BY <1>4 DEF SubmitFails
    <2>2. \A d \in Days : tail'[d] => tail[d] \/ d = today
      BY <1>0, <2>1 DEF DiskTypes
    <2>3. \A h \in Handles : date'[h] = date[h] \/ date'[h] = today
      BY <1>0, <2>1 DEF HandleTypes
    <2> QED BY <1>1, <2>1, <2>2, <2>3 DEF TimeInv
  <1>5. ASSUME Tick PROVE TimeInv'
    <2>1. UNCHANGED <<log, tail, date, sent>> /\ today' = today + 1
      BY <1>5 DEF Tick, diskVars, handleVars
    <2>2. ASSUME NEW h \in Handles PROVE date[h] \in Nat
      BY <1>0, <1>1 DEF HandleTypes
    <2> QED BY <1>1, <2>1, <2>2 DEF TimeInv
  <1>6. ASSUME UNCHANGED <<log, tail, date, today, sent>> PROVE TimeInv'
    BY <1>6 DEF TimeInv
  <1> QED
    BY <1>2, <1>3, <1>4, <1>5, <1>6
    DEF Next, WaitStep, AppendStep, Disconnect, WaitCall, WaitDeadline, WaitCheck, WaitWake, WaitExpire, WaitRead,
        SubmitMeta, SubmitDone, SubmitUnsaved, SetPhase, Unmark, Evict, Crash, vars, diskVars, handleVars, boundVars

(* What a parked poll waits for is all there is about it. *)
Quiet(c) ==
    pc[c] = "parked" /\ sess[c] \notin locked /\ HasNew(HighWater(sess[c]), cursor[c]) => notified[c]

(* A poll the step leaves alone stays as it was. *)
LEMMA SleepsOn ==
    ASSUME NEW c \in Clients, Quiet(c), pc'[c] = "parked" => pc[c] = "parked",
           pc'[c] = "parked" => /\ UNCHANGED <<sess[c], cursor[c], date[sess[c]], cnt[sess[c]]>>
                                /\ sess[c] \in locked => sess'[c] \in locked'
                                /\ notified[c] => notified'[c]
    PROVE  Quiet(c)'
  <1> SUFFICES ASSUME pc'[c] = "parked", sess'[c] \notin locked', HasNew(HighWater(sess[c]), cursor[c])' PROVE notified'[c]
    BY DEF Quiet
  <1>1. HighWater(sess[c])' = HighWater(sess[c])
    BY DEF HighWater
  <1> QED BY <1>1 DEF Quiet, HasNew

(* No step lets a parked poll sleep through a message. *)
LEMMA SleepNext == TypeOK /\ LockInv /\ NoSleepThrough /\ [Next]_vars => NoSleepThrough'
  <1> SUFFICES ASSUME TypeOK, LockInv, \A b \in Clients : Quiet(b), [Next]_vars, mishaps' \subseteq {"forked", "refounded", "late"},
                      NEW a \in Clients
               PROVE  Quiet(a)'
    BY MishapsGrow DEF NoSleepThrough, Quiet
  <1>0. DiskTypes /\ HandleTypes /\ PollTypes /\ CallTypes /\ BoundTypes /\ notified \in [Clients -> BOOLEAN]
    BY TypeParts
  <1>k. ASSUME UNCHANGED <<sess, cursor, date, cnt, locked>>, pc'[a] = "parked" => pc[a] = "parked",
               pc'[a] = "parked" /\ notified[a] => notified'[a]
        PROVE  Quiet(a)'
    BY <1>k, SleepsOn
  <1>1. ASSUME NEW c \in Clients, Connect(c) PROVE Quiet(a)'
    <2>1. pc' = pc /\ pc[c] = "idle" /\ UNCHANGED <<locked, cursor>> /\ (notified[a] => notified'[a])
      BY <1>1 DEF Connect, Notify
    <2>2. CASE open' = open
      <3>1. UNCHANGED <<date, cnt>> /\ (a # c => sess'[a] = sess[a])
        BY <1>0, <1>1, <2>2 DEF Connect, handleVars, CallTypes, Handles
      <3> QED BY <2>1, <3>1, SleepsOn
    <2>3. CASE open' # open
      <3>0. /\ open' \in Handles /\ sess' = [sess EXCEPT ![c] = open'] /\ FromDisk(open')
            /\ \A b \in Clients : sess[b] # open'
        BY <1>1, <2>3, OpensFree
      <3>1. a # c => sess'[a] = sess[a]
        BY <1>0, <3>0 DEF CallTypes
      <3>2. (\E d : date' = [date EXCEPT ![open'] = d]) /\ (\E f : cnt' = [cnt EXCEPT ![open'] = f])
        BY <3>0 DEF FromDisk
      <3>3. date'[sess[a]] = date[sess[a]] /\ cnt'[sess[a]] = cnt[sess[a]]
        BY <1>0, <3>0, <3>2 DEF HandleTypes
      <3> QED BY <2>1, <3>1, <3>3, SleepsOn
    <2> QED BY <2>2, <2>3
  <1>2. ASSUME NEW c \in Clients, Disconnect(c) PROVE Quiet(a)'
    <2>1. /\ UNCHANGED <<date, cnt, locked>> /\ sess' = [sess EXCEPT ![c] = 0] /\ pc' = [pc EXCEPT ![c] = "idle"]
          /\ UNCHANGED cursor \/ cursor' = [cursor EXCEPT ![c] = NoCursor]
          /\ a # c /\ notified[a] => notified'[a]
      BY <1>2 DEF Disconnect, handleVars
    <2>2. cursor \in [Clients -> Nat \X Nat]
      BY DEF TypeOK
    <2>3. (a = c => pc'[a] = "idle") /\ (a # c => UNCHANGED <<sess[a], pc[a], cursor[a]>>)
      BY <1>0, <2>1, <2>2 DEF CallTypes
    <2> QED BY <2>1, <2>3, SleepsOn
  <1>3. ASSUME NEW c \in Clients, SubmitWrite(c) PROVE Quiet(a)'
    <2>1. /\ UNCHANGED <<sess, cnt, cursor, notified>> /\ pc' = [pc EXCEPT ![c] = "wrote"]
          /\ date' = [date EXCEPT ![sess[c]] = today] /\ locked' = locked \cup {sess[c]}
      BY <1>3 DEF SubmitWrite, AppendLine
    <2>2. CASE sess[a] = sess[c]
      BY <2>1, <2>2 DEF Quiet
    <2>3. CASE sess[a] # sess[c]
      <3>1. date'[sess[a]] = date[sess[a]] /\ pc'[a] = pc[a]
        BY <1>0, <2>1, <2>3 DEF HandleTypes, CallTypes
      <3> QED BY <2>1, <3>1, SleepsOn
    <2> QED BY <2>2, <2>3
  <1>4. ASSUME NEW c \in Clients, SubmitMeta(c) PROVE Quiet(a)'
    <2>1. /\ UNCHANGED <<sess, date, cursor, notified, locked>> /\ pc' = [pc EXCEPT ![c] = "meta"] /\ pc[c] = "wrote"
          /\ cnt' = [cnt EXCEPT ![sess[c]][date[sess[c]]] = @ + 1]
      BY <1>4 DEF SubmitMeta
    <2>2. sess[c] \in locked
      BY <2>1 DEF LockInv, Appending
    <2>3. CASE sess[a] = sess[c]
      BY <2>1, <2>2, <2>3 DEF Quiet
    <2>4. CASE sess[a] # sess[c]
      <3>1. cnt'[sess[a]] = cnt[sess[a]] /\ (pc'[a] = "parked" => pc[a] = "parked")
        BY <1>0, <2>1, <2>4 DEF HandleTypes, CallTypes
      <3> QED BY <2>1, <3>1, SleepsOn
    <2> QED BY <2>3, <2>4
  <1>5. ASSUME NEW c \in Clients, SubmitDone(c) PROVE Quiet(a)'
    <2>1. /\ UNCHANGED <<sess, date, cnt, cursor>> /\ pc' = [pc EXCEPT ![c] = "idle"] /\ locked' = locked \ {sess[c]}
          /\ notified'[a] = (notified[a] \/ (sess[a] = sess[c] /\ pc[a] \in Armed))
      BY <1>5 DEF SubmitDone, handleVars, Notify
    <2>2. pc'[a] = "parked" => pc[a] = "parked"
      BY <1>0, <2>1 DEF CallTypes
    <2>3. CASE sess[a] = sess[c]
      BY <2>1, <2>2, <2>3 DEF Quiet, Armed
    <2>4. CASE sess[a] # sess[c]
      BY <2>1, <2>2, <2>4, SleepsOn
    <2> QED BY <2>3, <2>4
  <1>6. ASSUME NEW c \in Clients, SubmitFails(c) \/ SubmitUnsynced(c) \/ SubmitUnsaved(c) PROVE Quiet(a)'
    BY <1>6 DEF SubmitFails, SubmitUnsynced, SubmitUnsaved
  <1>7. ASSUME NEW c \in Clients, NEW ph \in Phases, SetPhase(c, ph) PROVE Quiet(a)'
    <2>1. UNCHANGED <<sess, cursor, date, cnt, locked, pc>> /\ (notified[a] => notified'[a])
      BY <1>7 DEF SetPhase, Notify
    <2> QED BY <1>k, <2>1
  <1>8. ASSUME NEW c \in Clients, WaitCheck(c) PROVE Quiet(a)'
    <2>1. UNCHANGED <<sess, date, cnt, locked, cursor>>
      BY <1>8 DEF WaitCheck, handleVars
    <2>2. CASE a # c
      <3>1. pc'[a] = pc[a] /\ notified'[a] = notified[a]
        BY <1>0, <1>8, <2>2 DEF WaitCheck, CallTypes
      <3> QED BY <1>k, <2>1, <3>1
    <2>3. CASE a = c
      <3>1. pc'[c] = "parked" => ~HasNew(HighWater(sess[c]), cursor[c])
        BY <1>0, <1>8 DEF WaitCheck, CallTypes
      <3>2. HighWater(sess[c])' = HighWater(sess[c])
        BY <2>1 DEF HighWater
      <3> QED BY <2>1, <2>3, <3>1, <3>2 DEF Quiet, HasNew
    <2> QED BY <2>2, <2>3
  <1>9. ASSUME NEW c \in Clients, WaitCall(c) PROVE Quiet(a)'
    <2>1. UNCHANGED <<sess, cursor, date, cnt, locked, notified>> /\ (pc'[a] = "parked" => pc[a] = "parked")
      BY <1>0, <1>9 DEF WaitCall, handleVars, CallTypes
    <2> QED BY <1>k, <2>1
  <1>10. ASSUME NEW c \in Clients, NEW p, p # "parked", pc' = [pc EXCEPT ![c] = p],
                notified' = [notified EXCEPT ![c] = notified'[c]], UNCHANGED <<sess, date, cnt, locked>>,
                cursor' = [cursor EXCEPT ![c] = cursor'[c]]
         PROVE  Quiet(a)'
    <2>1. cursor \in [Clients -> Nat \X Nat]
      BY DEF TypeOK
    <2>2. (a = c => pc'[a] # "parked") /\ (a # c => UNCHANGED <<pc[a], cursor[a], notified[a]>>)
      BY <1>0, <1>10, <2>1 DEF CallTypes
    <2> QED BY <1>10, <2>2, SleepsOn
  <1>11. ASSUME NEW c \in Clients, WaitWake(c) \/ WaitDeadline(c) \/ WaitExpire(c) \/ WaitRead(c) PROVE Quiet(a)'
    <2>1. cursor \in [Clients -> Nat \X Nat]
      BY DEF TypeOK
    <2>2. CASE WaitWake(c)
      BY <1>0, <2>1, <2>2, <1>10 DEF WaitWake, handleVars
    <2>3. CASE WaitDeadline(c)
      BY <1>0, <2>1, <2>3, <1>10 DEF WaitDeadline, handleVars
    <2>4. CASE WaitExpire(c)
      BY <1>0, <2>1, <2>4, <1>10 DEF WaitExpire, handleVars
    <2>5. CASE WaitRead(c)
      BY <1>0, <2>1, <2>5, <1>10 DEF WaitRead, handleVars
    <2> QED BY <1>11, <2>2, <2>3, <2>4, <2>5
  <1>12. ASSUME Crash PROVE Quiet(a)'
    BY <1>12 DEF Crash, Quiet
  <1>13. ASSUME UNCHANGED <<sess, pc, cursor, date, cnt, locked, notified>> PROVE Quiet(a)'
    BY <1>k, <1>13
  <1> QED
    BY <1>1, <1>2, <1>3, <1>4, <1>5, <1>6, <1>7, <1>8, <1>9, <1>11, <1>12, <1>13
    DEF Next, WaitStep, AppendStep, Unmark, Evict, Tick, vars, handleVars, clientVars

(* Without a torn line the files hold what was written. *)
LEMMA WholeNext == TypeOK /\ WholeInv /\ [Next]_vars /\ mishaps' \subseteq {"unsaved"} => WholeInv'
  <1> SUFFICES ASSUME TypeOK, WholeInv, [Next]_vars, mishaps' \subseteq {"unsaved"} PROVE WholeInv'
    OBVIOUS
  <1>0. DiskTypes /\ BoundTypes
    BY TypeParts
  <1>1. ASSUME NEW c \in Clients, SubmitWrite(c) PROVE WholeInv'
    <2>1. /\ today \in Days /\ \A d \in Days : d # today => log'[d] = log[d]
          /\ Len(log[today]) \in Nat
          /\ DOMAIN log[today] = 1..Len(log[today]) /\ DOMAIN log'[today] = 1..(Len(log[today]) + 1)
          /\ \A i \in DOMAIN log[today] : log'[today][i] = log[today][i]
      BY <1>1, Appended
    <2>2. log'[today][Len(log[today]) + 1].ok = TRUE
      <3>1. log'[today][Len(log[today]) + 1] = [n |-> cnt[sess[c]][today], msg |-> sent + 1, ok |-> ~tail[today]]
        BY <1>1, Appended
      <3>2. log'[today][Len(log[today]) + 1].ok = ~tail[today]
        BY <3>1
      <3>3. tail[today] = FALSE
        BY <2>1 DEF WholeInv
      <3> QED BY <3>2, <3>3
    <2>3. \A d \in Days : tail'[d] = FALSE
      BY <1>0, <1>1 DEF SubmitWrite, AppendLine, WholeInv, DiskTypes
    <2>4. ASSUME NEW d \in Days, NEW i \in DOMAIN log'[d] PROVE log'[d][i].ok = TRUE
      <3>1. CASE d # today
        BY <2>1, <3>1 DEF WholeInv
      <3>2. CASE d = today /\ i \in DOMAIN log[today]
        BY <2>1, <3>2 DEF WholeInv
      <3>3. CASE d = today /\ i \notin DOMAIN log[today]
        <4>1. i = Len(log[today]) + 1
          BY <2>1, <3>3
        <4> QED BY <2>2, <3>3, <4>1
      <3> QED BY <3>1, <3>2, <3>3
    <2> QED BY <2>3, <2>4 DEF WholeInv
  <1>2. ASSUME NEW c \in Clients, SubmitFails(c) \/ SubmitUnsynced(c) PROVE WholeInv'
    BY <1>2 DEF SubmitFails, SubmitUnsynced
  <1>3. ASSUME UNCHANGED <<log, tail>> PROVE WholeInv'
    BY <1>3 DEF WholeInv
  <1> QED
    BY <1>1, <1>2, <1>3
    DEF Next, WaitStep, AppendStep, Connect, Disconnect, WaitCall, WaitDeadline, WaitCheck, WaitWake, WaitExpire,
        WaitRead, SubmitMeta, SubmitDone, SubmitUnsaved, SetPhase, Unmark, Evict, Crash, Tick, vars, diskVars

(* The active day of the room's handle is the last one written. *)
LEMMA ActiveNext ==
    ASSUME TypeOK, Single, WholeInv, ActiveInv, [Next]_vars, mishaps' \subseteq {"unsaved"}, Single', TimeInv'
    PROVE  ActiveInv'
  <1>0. DiskTypes /\ HandleTypes /\ PollTypes /\ CallTypes /\ BoundTypes
    BY TypeParts
  <1>1. ASSUME NEW c \in Clients, Connect(c), open' # open PROVE ActiveInv'
    <2>1. /\ open' \in Handles /\ open = 0 /\ sess' = [sess EXCEPT ![c] = open'] /\ FromDisk(open')
      BY <1>1, OpensFree
    <2>2. ~Forks /\ ~Refounds /\ log' = log
      <3>1. /\ mishaps' = mishaps \cup (IF Forks THEN {"forked"} ELSE {}) \cup (IF Refounds THEN {"refounded"} ELSE {})
            /\ log' = log
        BY <1>1, <2>1 DEF Connect, diskVars
      <3>2. "forked" \notin mishaps' /\ "refounded" \notin mishaps'
        OBVIOUS
      <3> QED BY <3>1, <3>2
    <2>3. ASSUME NEW h \in Handles, Current(h)' PROVE h = open'
      BY <1>0, <2>1, <2>2, <2>3 DEF Forks, Current, CallTypes, Handles
    <2>4. ASSUME NEW d \in Days, log[d] # <<>> PROVE d <= date'[open'] /\ log[date'[open']] # <<>>
      <3>1. ~(meta = "none" \/ DaysOnDisk = {})
        BY <2>2, <2>4 DEF Refounds, DaysOnDisk
      <3>2. PICK last \in DaysOnDisk : (\A e \in DaysOnDisk : e <= last) /\ date' = [date EXCEPT ![open'] = last]
        BY <2>1, <3>1 DEF FromDisk
      <3>3. date'[open'] = last
        BY <1>0, <2>1, <3>2 DEF HandleTypes
      <3> QED BY <2>4, <3>2, <3>3 DEF DaysOnDisk, WholeInv
    <2> QED BY <2>2, <2>3, <2>4 DEF ActiveInv
  <1>2. ASSUME NEW c \in Clients, SubmitWrite(c) PROVE ActiveInv'
    <2>1. today' = today /\ date' = [date EXCEPT ![sess[c]] = today] /\ UNCHANGED <<open, sess>>
      BY <1>2 DEF SubmitWrite, AppendLine
    <2>2. sess[c] \in Handles /\ log'[today] # <<>>
      BY <1>2, Appended
    <2>3. date'[sess[c]] = today
      BY <1>0, <2>1, <2>2 DEF HandleTypes
    <2>4. ASSUME NEW h \in Handles, Current(h)' PROVE h = sess[c]
      BY <2>1, <2>2, <2>4 DEF Single, OneRoom, Current
    <2>5. \A d \in Days : log'[d] # <<>> => d <= today
      BY <2>1 DEF TimeInv
    <2> QED BY <2>2, <2>3, <2>4, <2>5 DEF ActiveInv
  <1>3. ASSUME NEW c \in Clients, SubmitFails(c) \/ SubmitUnsynced(c) PROVE ActiveInv'
    BY <1>3 DEF SubmitFails, SubmitUnsynced
  <1>4. ASSUME UNCHANGED <<log, date>>, \A h \in Handles : Current(h)' => Current(h) PROVE ActiveInv'
    BY <1>4 DEF ActiveInv
  <1>5. ASSUME NEW c \in Clients, Connect(c), open' = open PROVE ActiveInv'
    <2>1. /\ UNCHANGED <<log, date, open>> /\ sess' = [sess EXCEPT ![c] = open]
      BY <1>0, <1>5 DEF Connect, diskVars, handleVars, Handles, PollTypes
    <2> QED BY <1>0, <1>4, <2>1 DEF Current, CallTypes
  <1>6. ASSUME NEW c \in Clients, Disconnect(c) PROVE ActiveInv'
    <2>1. UNCHANGED <<log, date, open>> /\ sess' = [sess EXCEPT ![c] = 0]
      BY <1>6 DEF Disconnect, diskVars, handleVars
    <2> QED BY <1>0, <1>4, <2>1 DEF Current, CallTypes, Handles
  <1>7. ASSUME Crash PROVE ActiveInv'
    <2>1. UNCHANGED <<log, date>> /\ open' = 0 /\ \A c \in Clients : sess'[c] = 0
      BY <1>7 DEF Crash, diskVars, handleVars
    <2> QED BY <1>4, <2>1 DEF Current, Handles
  <1>8. ASSUME UNCHANGED <<log, date, sess>>, open' \in {open, 0} PROVE ActiveInv'
    BY <1>4, <1>8 DEF Current, Handles
  <1> QED
    BY <1>1, <1>2, <1>3, <1>5, <1>6, <1>7, <1>8
    DEF Next, WaitStep, AppendStep, WaitCall, WaitDeadline, WaitCheck, WaitWake, WaitExpire, WaitRead,
        SubmitMeta, SubmitDone, SubmitUnsaved, SetPhase, Unmark, Evict, Tick, vars, diskVars, handleVars, clientVars

(* A position that was reached stays so. *)
LEMMA ReachedNext ==
    ASSUME TypeOK, TimeInv, [Next]_vars, NEW cur \in Nat \X Nat, Reached(cur)
    PROVE  cur[1] <= today' /\ (cur[1] = today' => cur[2] <= Len(log'[today']))
  <1>0. today \in Nat /\ today \in Days /\ cur[1] \in Nat /\ cur[2] \in Nat /\ Len(log[today]) \in Nat
    <2>1. DiskTypes /\ BoundTypes
      BY TypeParts
    <2> QED BY <2>1, LenProperties DEF DiskTypes, BoundTypes, Days
  <1>1. ASSUME NEW c \in Clients, SubmitWrite(c) \/ SubmitUnsynced(c)
        PROVE  today' = today /\ Len(log'[today]) = Len(log[today]) + 1
    BY <1>1, Appended DEF SubmitWrite, SubmitUnsynced
  <1>2. ASSUME Tick PROVE today' = today + 1
    BY <1>2 DEF Tick
  <1>3. today' = today + 1 \/ (today' = today /\ Len(log'[today]) = Len(log[today]) + 1) \/ UNCHANGED <<today, log>>
    <2>1. ASSUME NEW c \in Clients, Connect(c) \/ Disconnect(c) \/ WaitCall(c) \/ WaitDeadline(c) \/ WaitStep(c)
          PROVE  UNCHANGED <<today, log>>
      BY <2>1
      DEF WaitStep, Connect, Disconnect, WaitCall, WaitDeadline, WaitCheck, WaitWake, WaitExpire, WaitRead, diskVars, boundVars
    <2>2. ASSUME NEW c \in Clients, AppendStep(c) \/ SubmitFails(c) \/ SubmitUnsaved(c)
          PROVE  UNCHANGED <<today, log>>
      BY <2>2 DEF AppendStep, SubmitFails, SubmitMeta, SubmitDone, SubmitUnsaved, diskVars, boundVars
    <2>3. ASSUME \/ \E c \in Clients, ph \in Phases : SetPhase(c, ph)
                 \/ \E h \in Handles, c \in Clients : Unmark(h, c)
                 \/ Evict \/ Crash \/ UNCHANGED vars
          PROVE  UNCHANGED <<today, log>>
      BY <2>3 DEF SetPhase, Unmark, Evict, Crash, vars, diskVars, boundVars
    <2> QED BY <1>1, <1>2, <2>1, <2>2, <2>3 DEF Next
  <1> QED BY <1>0, <1>3 DEF Reached

(* The high-water of a settled handle is reached. *)
LEMMA HighWaterReached ==
    ASSUME TypeOK, LockInv, Single, TimeInv, NEW h \in Handles, Current(h), h \notin locked
    PROVE  Reached(HighWater(h)) /\ HighWater(h) = <<date[h], Len(log[date[h]])>>
  <1>0. HandleTypes
    BY TypeParts
  <1>1. date[h] \in Days /\ cnt[h][date[h]] \in Nat
    BY <1>0 DEF HandleTypes
  <1>2. cnt[h][date[h]] + 0 = Len(log[date[h]])
    BY <1>1, Settled DEF Single
  <1>3. HighWater(h) = <<date[h], Len(log[date[h]])>>
    BY <1>1, <1>2 DEF HighWater
  <1>4. date[h] <= today
    BY DEF TimeInv
  <1>5. HighWater(h)[1] = date[h] /\ HighWater(h)[2] = Len(log[date[h]]) /\ Len(log[date[h]]) \in Nat
    BY <1>1, <1>2, <1>3
  <1> QED BY <1>3, <1>4, <1>5 DEF Reached

(* What is before a cursor. *)
Passed(d, i, cur) == d < cur[1] \/ (d = cur[1] /\ log[d][i].n < cur[2])

SeenBy(c) ==
    /\ Reached(cursor[c]) /\ Reached(reply[c])
    /\ \A d \in Days : \A i \in DOMAIN log[d] : Passed(d, i, cursor[c]) => log[d][i].msg \in seen[c]

(* The types a position is compared with. *)
LEMMA LineTypes ==
    ASSUME DiskTypes, NEW d \in Days, NEW i \in DOMAIN log[d]
    PROVE  d \in Nat /\ d > 0 /\ i \in Nat /\ i \in 1..Len(log[d]) /\ Len(log[d]) \in Nat /\ log[d][i].n \in Nat
  <1>1. log[d] \in Seq(Lines)
    BY DEF DiskTypes
  <1>2. Len(log[d]) \in Nat /\ i \in 1..Len(log[d]) /\ log[d][i] \in Lines
    BY <1>1, LenProperties, ElementOfSeq
  <1> QED BY <1>2 DEF Lines, Days

(* An agent the step leaves alone has still seen what its cursor passed. *)
LEMMA SeenFrame ==
    ASSUME TypeOK, TimeInv, [Next]_vars, NEW a \in Clients, SeenBy(a), log' = log,
           cursor'[a] = cursor[a], reply'[a] \in {reply[a], NoCursor}, seen'[a] = seen[a], today' \in Nat \ {0}
    PROVE  SeenBy(a)'
  <1>0. cursor[a] \in Nat \X Nat /\ reply[a] \in Nat \X Nat
    BY DEF TypeOK
  <1>1. Reached(cursor[a])'
    BY <1>0, ReachedNext DEF SeenBy, Reached
  <1>2. Reached(reply[a])'
    <2>1. CASE reply'[a] = reply[a]
      BY <1>0, <2>1, ReachedNext DEF SeenBy, Reached
    <2>2. CASE reply'[a] = NoCursor
      BY <2>2 DEF Reached, NoCursor
    <2> QED BY <2>1, <2>2
  <1>3. \A d \in Days : \A i \in DOMAIN log[d] : Passed(d, i, cursor[a])' => log'[d][i].msg \in seen'[a]
    BY DEF SeenBy, Passed
  <1> QED BY <1>1, <1>2, <1>3 DEF SeenBy

(* A new line is past every cursor. *)
LEMMA SeenWrites ==
    ASSUME TypeOK, LockInv, Single, TimeInv, NEW a \in Clients, SeenBy(a), [Next]_vars, NEW c \in Clients, SubmitWrite(c)
    PROVE  SeenBy(a)'
  <1>0. DiskTypes /\ HandleTypes /\ PollTypes /\ CallTypes /\ BoundTypes
    BY TypeParts
  <1>1. cursor[a] \in Nat \X Nat /\ reply[a] \in Nat \X Nat
    BY DEF TypeOK
  <1>2. UNCHANGED <<cursor, reply, seen, today>> /\ sess[c] \notin locked
    BY DEF SubmitWrite, AppendLine, CanSubmit, ghostVars
  <1>3. Reached(cursor[a])' /\ Reached(reply[a])'
    BY <1>1, <1>2, ReachedNext DEF SeenBy, Reached
  <1>4. /\ sess[c] \in Handles /\ today \in Days /\ \A d \in Days : d # today => log'[d] = log[d]
        /\ Len(log[today]) \in Nat
        /\ DOMAIN log[today] = 1..Len(log[today]) /\ DOMAIN log'[today] = 1..(Len(log[today]) + 1)
        /\ \A i \in DOMAIN log[today] : log'[today][i] = log[today][i]
    BY Appended
  <1>5. log'[today][Len(log[today]) + 1].n = Len(log[today])
    <2>1. log'[today][Len(log[today]) + 1] = [n |-> cnt[sess[c]][today], msg |-> sent + 1, ok |-> ~tail[today]]
      BY Appended
    <2>2. cnt[sess[c]][today] \in Nat
      BY <1>0, <1>4 DEF HandleTypes
    <2>3. Current(sess[c])
      BY DEF Current
    <2>4. cnt[sess[c]][today] + 0 = Len(log[today])
      BY <1>2, <1>4, <2>3, Settled DEF Single
    <2> QED BY <2>1, <2>2, <2>4
  <1>6. ASSUME NEW d \in Days, NEW i \in DOMAIN log'[d], Passed(d, i, cursor[a])' PROVE log'[d][i].msg \in seen'[a]
    <2>1. CASE d # today
      BY <1>2, <1>4, <1>6, <2>1 DEF SeenBy, Passed
    <2>2. CASE d = today /\ i \in DOMAIN log[today]
      BY <1>2, <1>4, <1>6, <2>2 DEF SeenBy, Passed
    <2>3. CASE d = today /\ i \notin DOMAIN log[today]
      <3>1. i = Len(log[today]) + 1
        BY <1>4, <2>3
      <3>2. log'[d][i].n = Len(log[today])
        BY <1>5, <2>3, <3>1
      <3>3. today < cursor[a][1] \/ (today = cursor[a][1] /\ Len(log[today]) < cursor[a][2])
        BY <1>2, <1>6, <2>3, <3>2 DEF Passed
      <3>4. cursor[a][1] \in Nat /\ cursor[a][2] \in Nat /\ today \in Nat
        BY <1>1, <1>4 DEF Days
      <3> QED BY <1>4, <3>3, <3>4 DEF SeenBy, Reached
    <2> QED BY <2>1, <2>2, <2>3
  <1> QED BY <1>3, <1>6 DEF SeenBy

(* The proxy reads what its cursor is about to pass. *)
LEMMA SeenReads ==
    ASSUME TypeOK, TimeInv, WholeInv, NEW c \in Clients, SeenBy(c), WaitRead(c)
    PROVE  SeenBy(c)'
  <1>0. DiskTypes /\ CursorTypes /\ BoundTypes
    BY TypeParts
  <1>1. /\ UNCHANGED <<log, today>> /\ cursor'[c] = reply[c] /\ reply'[c] = NoCursor
        /\ seen'[c] = seen[c] \cup ReadSince(cursor[c])
    BY <1>0 DEF WaitRead, diskVars, boundVars, CursorTypes
  <1>2. today \in Nat \ {0} /\ cursor[c][1] \in Nat /\ cursor[c][2] \in Nat
    BY <1>0 DEF BoundTypes, Days, CursorTypes
  <1>3. Reached(cursor[c])' /\ Reached(reply[c])'
    BY <1>1, <1>2 DEF SeenBy, Reached, NoCursor
  <1>4. ASSUME NEW d \in Days, NEW i \in DOMAIN log[d] PROVE log[d][i].msg \in seen'[c]
    <2>1. CASE Passed(d, i, cursor[c])
      BY <1>1, <2>1 DEF SeenBy
    <2>2. CASE ~Passed(d, i, cursor[c])
      <3>1. /\ d \in Nat /\ i \in Nat /\ i \in 1..Len(log[d]) /\ Len(log[d]) \in Nat /\ log[d][i].n \in Nat
        BY <1>0, LineTypes
      <3>2. d > cursor[c][1] \/ (d = cursor[c][1] /\ log[d][i].n >= cursor[c][2])
        BY <1>2, <2>2, <3>1 DEF Passed
      <3>3. i \in 1..MaxMsgs
        BY <1>0, <3>1 DEF TimeInv, BoundTypes
      <3>4. log[d][i].ok
        BY DEF WholeInv
      <3>5. <<d, i>> \in Days \X (1..MaxMsgs) /\ <<d, i>>[1] = d /\ <<d, i>>[2] = i
        BY <3>3
      <3> DEFINE x == <<d, i>>
      <3>6. x \in {y \in Days \X (1..MaxMsgs) :
                     /\ y[2] \in DOMAIN log[y[1]]
                     /\ log[y[1]][y[2]].ok
                     /\ y[1] > cursor[c][1] \/ (y[1] = cursor[c][1] /\ log[y[1]][y[2]].n >= cursor[c][2])}
        BY <3>2, <3>4, <3>5
      <3>7. log[x[1]][x[2]].msg \in ReadSince(cursor[c])
        BY <3>6 DEF ReadSince
      <3> QED BY <1>1, <3>5, <3>7
    <2> QED BY <2>1, <2>2
  <1> QED BY <1>1, <1>3, <1>4 DEF SeenBy

(* A poll that gives up moves its cursor past nothing. *)
LEMMA SeenExpires ==
    ASSUME TypeOK, LockInv, Single, TimeInv, ActiveInv, NEW c \in Clients, SeenBy(c), WaitExpire(c), [Next]_vars,
           "late" \notin mishaps'
    PROVE  SeenBy(c)'
  <1> DEFINE h == sess[c]
             hw == HighWater(h)
  <1>0. DiskTypes /\ HandleTypes /\ PollTypes /\ CallTypes /\ CursorTypes /\ BoundTypes
    BY TypeParts
  <1>1. /\ UNCHANGED <<log, today, reply, seen>> /\ cursor'[c] = hw /\ ~HasNew(hw, cursor[c])
        /\ h \notin locked /\ h # 0
    BY <1>0 DEF WaitExpire, diskVars, boundVars, CursorTypes, CallTypes
  <1>2. h \in Handles /\ Current(h) /\ date[h] \in Days
    BY <1>0, <1>1, InSession DEF Current, HandleTypes
  <1>3. Reached(hw) /\ hw = <<date[h], Len(log[date[h]])>> /\ hw \in Nat \X Nat
    BY <1>0, <1>1, <1>2, HighWaterReached, HighWaterType
  <1> HIDE DEF hw
  <1>4. Reached(cursor[c])' /\ Reached(reply[c])'
    BY <1>1, <1>3 DEF SeenBy, Reached
  <1>5. cursor[c] \in Nat \X Nat
    BY <1>0 DEF CursorTypes
  <1>6. ASSUME NEW d \in Days, NEW i \in DOMAIN log[d], Passed(d, i, hw) PROVE log[d][i].msg \in seen[c]
    <2>1. d \in Nat /\ i \in 1..Len(log[d]) /\ Len(log[d]) \in Nat /\ log[d][i].n \in Nat
      BY <1>0, LineTypes
    <2>2. CASE cursor[c] = NoCursor
      <3>1. Len(log[date[h]]) = 0
        BY <1>1, <1>3, <2>2 DEF HasNew
      <3>2. log[d] # <<>>
        BY <2>1
      <3>3. log[date[h]] \in Seq(Lines) /\ log[date[h]] # <<>>
        BY <1>0, <1>2, <3>2 DEF ActiveInv, DiskTypes
      <3> QED BY <3>1, <3>3, EmptySeq
    <2>3. CASE cursor[c] # NoCursor
      <3>1. hw[1] \in Nat /\ hw[2] \in Nat /\ cursor[c][1] \in Nat /\ cursor[c][2] \in Nat
        BY <1>3, <1>5
      <3>2. ~(hw[1] > cursor[c][1] \/ (hw[1] = cursor[c][1] /\ hw[2] > cursor[c][2]))
        BY <1>1, <2>3 DEF HasNew
      <3>3. d < hw[1] \/ (d = hw[1] /\ log[d][i].n < hw[2])
        BY <1>6 DEF Passed
      <3>4. ASSUME NEW p \in Nat, NEW q \in Nat, NEW x \in Nat, NEW y \in Nat, NEW e \in Nat, NEW n \in Nat,
                   ~(p > x \/ (p = x /\ q > y)), e < p \/ (e = p /\ n < q)
            PROVE  e < x \/ (e = x /\ n < y)
        BY <3>4
      <3>5. d < cursor[c][1] \/ (d = cursor[c][1] /\ log[d][i].n < cursor[c][2])
        <4>1. PICK p \in Nat, q \in Nat, x \in Nat, y \in Nat :
                hw[1] = p /\ hw[2] = q /\ cursor[c][1] = x /\ cursor[c][2] = y
          BY <3>1
        <4>2. PICK n \in Nat : log[d][i].n = n
          BY <2>1
        <4>3. ~(p > x \/ (p = x /\ q > y)) /\ (d < p \/ (d = p /\ n < q))
          BY <3>2, <3>3, <4>1, <4>2
        <4>4. d < x \/ (d = x /\ n < y)
          BY <2>1, <3>4, <4>3
        <4> QED BY <4>1, <4>2, <4>4
      <3> QED BY <3>5 DEF SeenBy, Passed
    <2> QED BY <2>2, <2>3
  <1> QED BY <1>1, <1>4, <1>6 DEF SeenBy, Passed

(* No step moves a cursor past a line its agent has not seen. *)
LEMMA SeenNext ==
    ASSUME TypeOK, LockInv, Single, TimeInv, WholeInv, ActiveInv, SeenInv, [Next]_vars, mishaps' \subseteq {"unsaved"}
    PROVE  SeenInv'
  <1> SUFFICES ASSUME NEW a \in Clients PROVE SeenBy(a)'
    BY DEF SeenInv, SeenBy, Passed
  <1>s. SeenBy(a)
    BY DEF SeenInv, SeenBy, Passed
  <1>0. DiskTypes /\ HandleTypes /\ PollTypes /\ CallTypes /\ CursorTypes /\ BoundTypes
    BY TypeParts
  <1>t. today \in Nat \ {0} /\ today' \in Nat \ {0}
    <2>1. BoundTypes'
      BY BoundTypesNext
    <2> QED BY <1>0, <2>1 DEF BoundTypes, Days
  <1>1. ASSUME NEW c \in Clients, SubmitWrite(c) PROVE SeenBy(a)'
    BY <1>s, <1>1, SeenWrites
  <1>2. ASSUME NEW c \in Clients, WaitRead(c) PROVE SeenBy(a)'
    <2>1. CASE a = c
      BY <1>s, <1>2, <2>1, SeenReads
    <2>2. CASE a # c
      <3>1. log' = log /\ cursor'[a] = cursor[a] /\ reply'[a] = reply[a] /\ seen'[a] = seen[a]
        BY <1>0, <1>2, <2>2 DEF WaitRead, diskVars, CursorTypes
      <3> QED BY <1>s, <1>t, <3>1, SeenFrame
    <2> QED BY <2>1, <2>2
  <1>3. ASSUME NEW c \in Clients, WaitExpire(c) PROVE SeenBy(a)'
    <2>1. CASE a = c
      <3>1. "late" \notin mishaps'
        OBVIOUS
      <3> QED BY <1>s, <1>3, <2>1, <3>1, SeenExpires
    <2>2. CASE a # c
      <3>1. log' = log /\ cursor'[a] = cursor[a] /\ reply'[a] = reply[a] /\ seen'[a] = seen[a]
        BY <1>0, <1>3, <2>2 DEF WaitExpire, diskVars, CursorTypes
      <3> QED BY <1>s, <1>t, <3>1, SeenFrame
    <2> QED BY <2>1, <2>2
  <1>4. ASSUME NEW c \in Clients, WaitCheck(c) PROVE SeenBy(a)'
    <2>1. /\ UNCHANGED <<log, cursor, seen, today>> /\ sess[c] \notin locked /\ sess[c] # 0
          /\ UNCHANGED reply \/ reply' = [reply EXCEPT ![c] = HighWater(sess[c])]
      BY <1>0, <1>4 DEF WaitCheck, diskVars, ghostVars, boundVars, CallTypes
    <2>2. CASE a # c \/ UNCHANGED reply
      <3>1. reply'[a] = reply[a]
        BY <1>0, <2>1, <2>2 DEF CursorTypes
      <3> QED BY <1>s, <1>t, <2>1, <3>1, SeenFrame
    <2>3. CASE a = c /\ reply' = [reply EXCEPT ![c] = HighWater(sess[c])]
      <3>1. sess[c] \in Handles /\ Current(sess[c])
        BY <1>0, <2>1, InSession DEF Current
      <3>2. Reached(HighWater(sess[c])) /\ reply'[a] = HighWater(sess[c])
        BY <1>0, <2>1, <2>3, <3>1, HighWaterReached DEF CursorTypes
      <3>3. Reached(cursor[a])' /\ Reached(reply[a])'
        BY <1>s, <2>1, <3>2 DEF SeenBy, Reached
      <3> QED BY <1>s, <2>1, <3>3 DEF SeenBy, Passed
    <2> QED BY <2>1, <2>2, <2>3
  <1>5. ASSUME NEW c \in Clients, Disconnect(c) PROVE SeenBy(a)'
    <2>1. /\ UNCHANGED <<log, seen, today>> /\ reply' = [reply EXCEPT ![c] = NoCursor]
          /\ UNCHANGED cursor \/ cursor' = [cursor EXCEPT ![c] = NoCursor]
      BY <1>5 DEF Disconnect, diskVars, ghostVars, boundVars
    <2>2. reply'[a] \in {reply[a], NoCursor} /\ cursor'[a] \in {cursor[a], NoCursor}
      BY <1>0, <2>1 DEF CursorTypes
    <2>3. CASE cursor'[a] = cursor[a]
      BY <1>s, <1>t, <2>1, <2>2, <2>3, SeenFrame
    <2>4. CASE cursor'[a] = NoCursor
      <3>1. cursor'[a][1] = 0 /\ cursor'[a][2] = 0
        BY <2>4 DEF NoCursor
      <3>2. Reached(cursor[a])'
        BY <1>t, <3>1 DEF Reached
      <3>3. Reached(reply[a])'
        BY <1>s, <1>t, <2>1, <2>2 DEF SeenBy, Reached, NoCursor
      <3>4. \A d \in Days : \A i \in DOMAIN log[d] : ~Passed(d, i, cursor[a])'
        BY <3>1 DEF Passed, Days
      <3> QED BY <2>1, <3>2, <3>3, <3>4 DEF SeenBy
    <2> QED BY <2>2, <2>3, <2>4
  <1>u. ASSUME NEW c \in Clients, SubmitUnsynced(c) PROVE SeenBy(a)'
    BY <1>u DEF SubmitUnsynced
  <1>6. ASSUME Crash PROVE SeenBy(a)'
    <2>1. UNCHANGED <<log, cursor, seen>> /\ reply'[a] = NoCursor
      BY <1>6 DEF Crash, diskVars, ghostVars
    <2> QED BY <1>s, <1>t, <2>1, SeenFrame
  <1>7. ASSUME UNCHANGED <<log, cursor, reply, seen>> PROVE SeenBy(a)'
    BY <1>s, <1>t, <1>7, SeenFrame
  <1> QED
    BY <1>1, <1>2, <1>3, <1>4, <1>5, <1>6, <1>7, <1>u
    DEF Next, WaitStep, AppendStep, Connect, WaitCall, WaitDeadline, WaitWake, SubmitFails, SubmitMeta, SubmitDone,
        SubmitUnsaved, SetPhase, Unmark, Evict, Tick, vars, diskVars, clientVars, ghostVars

-----------------------------------------------------------------------------
(* The theorems *)

(* The invariant holds at first. *)
LEMMA InvInit == Init => IInv
  <1> SUFFICES ASSUME Init PROVE IInv
    OBVIOUS
  <1>1. TypeOK
    <2>1. NoCursor \in Nat \X Nat /\ 0 \in 0..MaxHandles /\ 1 \in Days /\ <<>> \in Seq([n : Nat, msg : Nat, ok : BOOLEAN])
      BY DEF NoCursor, Days
    <2> QED BY <2>1 DEF Init, TypeOK, Phases, Waiting, Appending
  <1>2. \A d \in Days : log[d] = <<>> /\ Len(log[d]) = 0 /\ DOMAIN log[d] = {} /\ tail[d] = FALSE /\ d \in Nat \ {0}
    BY DEF Init, Days
  <1>3. LockInv /\ NoSleepThrough
    BY DEF Init, LockInv, NoSleepThrough, Appending
  <1>4. \A h \in Handles : ~Current(h)
    BY DEF Init, Current, Handles
  <1>5. SingleInv /\ OwnInv
    BY <1>2, <1>4 DEF Init, SingleInv, OwnInv, OneRoom, CountInv, NumberInv, PhaseInv
  <1>6. TimeInv
    BY <1>2 DEF Init, TimeInv
  <1>7. SeenInv
    BY <1>2 DEF Init, SeenInv, Reached, NoCursor
  <1>8. ReadInv
    BY <1>2, <1>4, <1>7 DEF ReadInv, WholeInv, ActiveInv
  <1> QED BY <1>1, <1>3, <1>5, <1>6, <1>8 DEF IInv

(* Every step keeps it. *)
LEMMA InvNext == IInv /\ [Next]_vars => IInv'
  <1> SUFFICES ASSUME IInv, [Next]_vars PROVE IInv'
    OBVIOUS
  <1>0. TypeOK /\ LockInv /\ OwnInv /\ SingleInv /\ TimeInv /\ NoSleepThrough /\ ReadInv
    BY DEF IInv
  <1>1. TypeOK' /\ LockInv' /\ OwnInv' /\ SingleInv' /\ TimeInv' /\ NoSleepThrough'
    BY <1>0, TypeOKNext, LockNext, OwnNext, SingleNext, TimeNext, SleepNext
  <1>2. ReadInv'
    <2> SUFFICES ASSUME mishaps' \subseteq {"unsaved"} PROVE WholeInv' /\ ActiveInv' /\ SeenInv'
      BY DEF ReadInv
    <2>1. mishaps \subseteq {"unsaved"} /\ mishaps \cap Renumbering = {} /\ mishaps' \cap Renumbering = {}
      BY MishapsGrow DEF Renumbering
    <2>2. WholeInv /\ ActiveInv /\ SeenInv /\ Single /\ Single'
      BY <1>0, <1>1, <2>1 DEF ReadInv, SingleInv, Single
    <2> QED BY <1>0, <1>1, <2>2, WholeNext, ActiveNext, SeenNext
  <1> QED BY <1>1, <1>2 DEF IInv

(* The inductive invariant is one. *)
THEOREM Invariant == Spec => []IInv
  BY InvInit, InvNext, PTL DEF Spec

(* Every variable of the room, its handles and its clients has its type,   *)
(* whatever crashes, fails or rolls over.                                  *)
THEOREM TypeCorrect == Spec => []TypeOK
  <1>1. IInv => TypeOK
    BY DEF IInv
  <1> QED BY <1>1, Invariant, PTL

(* The ids TranscriptWriter::append gives out name one line each, across   *)
(* crashes, restarts, evictions, torn lines, failed saves and rollovers,   *)
(* unless two DaemonRooms had the room at once, it was founded again over  *)
(* its first lines, or a line was written whose sync failed.               *)
THEOREM IdsAreUnique == Spec => []UniqueIds
  <1>1. IInv => UniqueIds
    <2> SUFFICES ASSUME TypeOK, NumberInv PROVE IdUnique
      BY DEF IInv, SingleInv, UniqueIds
    <2>1. DiskTypes
      BY TypeParts
    <2> SUFFICES ASSUME NEW d \in Days, NEW i \in DOMAIN log[d], NEW j \in DOMAIN log[d], i # j
                 PROVE  log[d][i].n # log[d][j].n
      BY DEF IdUnique
    <2> QED BY <2>1, LineTypes DEF NumberInv
  <1> QED BY <1>1, Invariant, PTL

(* A client that polls is handed every message that was acknowledged       *)
(* before its cursor: has_new, high_water and read_since agree on what a   *)
(* position means, over reconnects, crashes and unsaved messages; a poll   *)
(* that timed out on a message it had not looked for is set apart.         *)
THEOREM NothingIsSkipped == Spec => []NothingSkipped
  <1>1. IInv => NothingSkipped
    BY DEF IInv, ReadInv, SeenInv, NothingSkipped, CursorSeen
  <1> QED BY <1>1, Invariant, PTL

(* A poll that wait_my_turn has parked has been notified whenever there is *)
(* something for it.                                                       *)
THEOREM NobodySleepsThrough == Spec => []NoSleepThrough
  <1>1. IInv => NoSleepThrough
    BY DEF IInv
  <1> QED BY <1>1, Invariant, PTL

(* A room that meta.json says has ended has ended for every session, after *)
(* any eviction, crash or restart, unless the room was forked.             *)
THEOREM EndingIsFinal == Spec => []EndedStays
  <1>1. IInv => EndedStays
    <2> SUFFICES ASSUME TypeOK, PhaseInv, NEW c \in Clients, meta = "Ended", sess[c] # 0
                 PROVE  phase[sess[c]] = "Ended"
      BY DEF IInv, OwnInv, EndedStays
    <2>1. sess[c] \in Handles /\ Current(sess[c])
      BY InSession, TypeParts DEF Current
    <2> QED BY <2>1 DEF PhaseInv
  <1> QED BY <1>1, Invariant, PTL
=============================================================================
