----------------------------- MODULE LaunchProxy -----------------------------
(***************************************************************************)
(* The proxies of `rozum launch` (src/proxy.rs) in front of one shared     *)
(* daemon that dies and comes back: replay before the first token, the     *)
(* degrade lane, and the soft handling of poison, per proxy and, through   *)
(* poison.json (crates/rozum-core/src/share.rs), machine-wide.             *)
(*                                                                         *)
(* A request is sent by its agent once; an agent that sends the same turn  *)
(* again is another request with the same prompt.  Whether it is streamed  *)
(* is part of the prompt: the daemon sends the headers of a streamed       *)
(* answer before it prefills, and of any other once it has generated it.   *)
(* The hour after which a shared entry expires does not pass.              *)
(***************************************************************************)
EXTENDS Naturals, FiniteSets

CONSTANTS
    Requests,
    ProxyOf,    \* the proxy each request goes through
    Prompt,     \* what it asks: two requests with one prompt have one fingerprint
    Killers,    \* the prompts that kill the daemon whenever it generates for them
    Streamed,   \* the prompts that say "stream": true
    Slots,      \* requests a proxy lets through at a time
    MaxTries,   \* RetryPolicy.max_attempts
    PoisonMax,  \* ProxyState.poison_max
    MaxKills    \* bound: deaths of the daemon and breaks of a connection that no prompt caused

Proxies == {ProxyOf[r] : r \in Requests}
Prompts == {Prompt[r] : r \in Requests}

ASSUME LaunchAssumption ==
    /\ Slots \in Nat \ {0} /\ MaxTries \in Nat \ {0} /\ PoisonMax \in Nat \ {0}
    /\ MaxKills \in Nat /\ IsFiniteSet(Requests)
    /\ DOMAIN ProxyOf = Requests /\ DOMAIN Prompt = Requests

VARIABLES
    pc,       \* where each request is in `forward`
    tries,    \* its attempts
    crashes,  \* the crash-attributed ones of them
    count,    \* ProxyState.poison: crash-attributed attempts per proxy and prompt
    shared,   \* the fingerprints in poison.json
    copy,     \* the map a request has read from it and will write back
    up,       \* whether the daemon listens
    serving,  \* the requests it works on
    kills,    \* deaths and breaks so far that no prompt caused
    hits,     \* attempts with this prompt that reached the daemon and broke
    alone,    \* prompts that were once the daemon's only one when theirs broke
    damage    \* times a prompt killed the daemon through a proxy

vars == <<pc, tries, crashes, count, shared, copy, up, serving, kills, hits, alone, damage>>
daemonVars == <<up, serving, kills, hits, alone, damage>>

(* failed: the connection broke under it and it has not found out yet.     *)
(* done: the answer was passed on, to its end or as far as it came.        *)
Final == {"done", "refused", "gone"}
OnLane == {"sent", "failed"}
InSlot == {"lane", "wait", "clear", "cleared", "record", "recorded", "streaming"} \cup OnLane

At(r, place) == pc' = [pc EXCEPT ![r] = place]
InUse(p) == Cardinality({r \in Requests : ProxyOf[r] = p /\ pc[r] \in InSlot})

Init ==
    /\ pc = [r \in Requests |-> "idle"]
    /\ tries = [r \in Requests |-> 0] /\ crashes = [r \in Requests |-> 0]
    /\ count = [p \in Proxies |-> [f \in Prompts |-> 0]]
    /\ shared = {} /\ copy = [r \in Requests |-> {}]
    /\ up = TRUE /\ serving = {} /\ kills = 0
    /\ hits = [f \in Prompts |-> 0] /\ alone = {}
    /\ damage = [p \in Proxies |-> [f \in Prompts |-> 0]]

-----------------------------------------------------------------------------
(* The way in *)

(* The poison gate: the machine-wide set, then this proxy's own count. *)
Arrive(r) ==
    /\ pc[r] = "idle"
    /\ At(r, IF Prompt[r] \in shared \/ count[ProxyOf[r]][Prompt[r]] >= PoisonMax
             THEN "refused" ELSE "admit")
    /\ UNCHANGED <<tries, crashes, count, shared, copy, daemonVars>>

(* The proxy's own scheduler; waiting for the daemon's window only delays. *)
Admit(r) ==
    /\ pc[r] = "admit" /\ InUse(ProxyOf[r]) < Slots
    /\ At(r, "lane")
    /\ UNCHANGED <<tries, crashes, count, shared, copy, daemonVars>>

(* Mutant: a retry after a crash takes the lane shared too. *)
LaneFreeShared(r) ==
    \A s \in Requests \ {r} :
        ProxyOf[s] = ProxyOf[r] /\ pc[s] \in OnLane => crashes[s] = 0

(* Mutant: the lane is kept over the back-off and the next attempt. *)
LaneFreeKept(r) ==
    \A s \in Requests \ {r} :
        ProxyOf[s] = ProxyOf[r] /\ pc[s] \in InSlot /\ tries[s] > 0 => crashes[s] = 0 /\ crashes[r] = 0

(* The degrade lane: shared at first, exclusive after a crash. *)
LaneFree(r) ==
    \A s \in Requests \ {r} :
        ProxyOf[s] = ProxyOf[r] /\ pc[s] \in OnLane => crashes[s] = 0 /\ crashes[r] = 0

(* Mutant: a crash does not use up an attempt. *)
GiveUpOrNever(r, place) == place

GiveUpOr(r, place) == IF tries[r] >= MaxTries THEN "gone" ELSE place

(* Mutant: an attempt that found nobody listening counts as well. *)
SendBlamed(r) ==
    /\ pc[r] = "lane" /\ LaneFree(r)
    /\ tries' = [tries EXCEPT ![r] = @ + 1]
    /\ At(r, IF up THEN "sent" ELSE "failed")
    /\ serving' = IF up THEN serving \cup {r} ELSE serving
    /\ UNCHANGED <<crashes, count, shared, copy, up, kills, hits, alone, damage>>

(* send_once reaches the daemon, or finds nobody listening: a gap that is  *)
(* not the request's fault.                                                *)
Send(r) ==
    /\ pc[r] = "lane" /\ LaneFree(r)
    /\ tries' = [tries EXCEPT ![r] = @ + 1]
    /\ At(r, IF up THEN "sent" ELSE IF tries[r] + 1 >= MaxTries THEN "gone" ELSE "wait")
    /\ serving' = IF up THEN serving \cup {r} ELSE serving
    /\ UNCHANGED <<crashes, count, shared, copy, up, kills, hits, alone, damage>>

(* The back-off and the wait for health or for the window are bounded. *)
Again(r) ==
    /\ pc[r] = "wait" /\ At(r, "lane")
    /\ UNCHANGED <<tries, crashes, count, shared, copy, daemonVars>>

-----------------------------------------------------------------------------
(* The daemon *)

(* 429: hold the request and try again, or pass the last one on. *)
Shed(r) ==
    /\ pc[r] = "sent" /\ up
    /\ At(r, IF tries[r] < MaxTries THEN "wait" ELSE "streaming")
    /\ serving' = serving \ {r}
    /\ UNCHANGED <<tries, crashes, count, shared, copy, up, kills, hits, alone, damage>>

(* Headers: committed to the agent.  A 2xx decays the prompt; of a         *)
(* streamed answer it comes before the daemon has done anything for it.    *)
Answer(r, clean) ==
    /\ pc[r] = "sent" /\ up
    /\ \/ /\ clean /\ (Prompt[r] \in Killers => Prompt[r] \in Streamed)
          /\ count' = [count EXCEPT ![ProxyOf[r]][Prompt[r]] = 0]
          /\ At(r, "clear")
       \/ ~clean /\ At(r, "streaming") /\ UNCHANGED count
    /\ serving' = IF clean /\ Prompt[r] \in Streamed THEN serving ELSE serving \ {r}
    /\ UNCHANGED <<tries, crashes, shared, copy, up, kills, hits, alone, damage>>

(* The attempts in S break, and the agents' handlers will see an error. *)
Break(S) ==
    /\ pc' = [r \in Requests |-> IF pc[r] = "sent" /\ r \in S THEN "failed" ELSE pc[r]]
    /\ hits' = [f \in Prompts |->
                  hits[f] + Cardinality({r \in S : pc[r] = "sent" /\ Prompt[r] = f})]
    /\ alone' = alone \cup {Prompt[r] : r \in {s \in S : serving = {s}}}
    /\ serving' = serving \ S
    /\ UNCHANGED <<tries, crashes, count, shared, copy>>

(* The daemon dies under all it works on. *)
Die == up /\ up' = FALSE /\ Break(serving)

(* A killer can do so as long as the daemon works on it: before its        *)
(* headers, after them if it is streamed, and after its agent has gone.    *)
KilledBy(r) ==
    /\ r \in serving /\ Prompt[r] \in Killers /\ Die
    /\ damage' = [damage EXCEPT ![ProxyOf[r]][Prompt[r]] = @ + 1]
    /\ UNCHANGED kills

Killed == kills < MaxKills /\ kills' = kills + 1 /\ Die /\ UNCHANGED damage

(* A connection breaks under a request although the daemon lives. *)
Reset(r) ==
    /\ pc[r] = "sent" /\ kills < MaxKills /\ kills' = kills + 1
    /\ Break({r}) /\ UNCHANGED <<up, damage>>

Respawn ==
    /\ ~up /\ up' = TRUE
    /\ UNCHANGED <<pc, tries, crashes, count, shared, copy, serving, kills, hits, alone, damage>>

-----------------------------------------------------------------------------
(* What the request makes of it *)

(* Mutant: only this turn's crashes are counted. *)
TotalThisTurn(r) == crashes[r] + 1

(* bump_poison *)
Total(r) == count[ProxyOf[r]][Prompt[r]] + 1

(* An error on an established connection is attributed to the prompt.      *)
(* Past poison_max it is refused, and confirmed machine-wide if nothing    *)
(* else is in flight in this proxy.                                        *)
Attribute(r) ==
    /\ pc[r] = "failed"
    /\ crashes' = [crashes EXCEPT ![r] = @ + 1]
    /\ count' = [count EXCEPT ![ProxyOf[r]][Prompt[r]] = @ + 1]
    /\ At(r, IF Total(r) < PoisonMax THEN GiveUpOr(r, "wait")
             ELSE IF InUse(ProxyOf[r]) <= 1 THEN "record" ELSE "refused")
    /\ UNCHANGED <<tries, shared, copy, daemonVars>>

(* record_poison and clear_poison read the file and write it back, without *)
(* a lock.                                                                 *)
ReadShared(r) ==
    /\ pc[r] \in {"record", "clear"}
    /\ IF pc[r] = "clear" /\ Prompt[r] \notin shared
         THEN At(r, "streaming") /\ UNCHANGED copy
         ELSE /\ copy' = [copy EXCEPT ![r] = shared]
              /\ At(r, IF pc[r] = "clear" THEN "cleared" ELSE "recorded")
    /\ UNCHANGED <<tries, crashes, count, shared, daemonVars>>

WriteShared(r) ==
    /\ pc[r] \in {"recorded", "cleared"}
    /\ shared' = IF pc[r] = "recorded" THEN copy[r] \cup {Prompt[r]} ELSE copy[r] \ {Prompt[r]}
    /\ copy' = [copy EXCEPT ![r] = {}]
    /\ At(r, IF pc[r] = "recorded" THEN "refused" ELSE "streaming")
    /\ UNCHANGED <<tries, crashes, count, daemonVars>>

(* stream_back to its end, or until the stream breaks off; the slot is     *)
(* held until then.                                                        *)
Finish(r) ==
    /\ pc[r] = "streaming" /\ At(r, "done")
    /\ serving' = serving \ {r}
    /\ UNCHANGED <<tries, crashes, count, shared, copy, up, kills, hits, alone, damage>>

(* The agent goes away: the handler is dropped at the await it is in, and  *)
(* the daemon stops working on the request sooner or later.                *)
Hangup(r) ==
    /\ pc[r] \in {"admit", "lane", "sent", "failed", "wait"} /\ At(r, "gone")
    /\ serving' \in {serving, serving \ {r}}
    /\ UNCHANGED <<tries, crashes, count, shared, copy, up, kills, hits, alone, damage>>

-----------------------------------------------------------------------------

ProxyStep(r) ==
    Admit(r) \/ Send(r) \/ Again(r) \/ Attribute(r) \/ ReadShared(r) \/ WriteShared(r) \/ Finish(r)

ServeStep(r) == Shed(r) \/ KilledBy(r) \/ \E clean \in BOOLEAN : Answer(r, clean)

Next ==
    \/ \E r \in Requests : Arrive(r) \/ ProxyStep(r) \/ ServeStep(r) \/ Reset(r) \/ Hangup(r)
    \/ Killed \/ Respawn

Spec == Init /\ [][Next]_vars
FairSpec ==
    Spec /\ \A r \in Requests : WF_vars(ProxyStep(r)) /\ WF_vars(pc[r] = "sent" /\ ServeStep(r))

-----------------------------------------------------------------------------

TypeOK ==
    /\ pc \in [Requests -> {"idle", "admit"} \cup InSlot \cup Final]
    /\ tries \in [Requests -> 0..MaxTries] /\ crashes \in [Requests -> 0..MaxTries]
    /\ count \in [Proxies -> [Prompts -> Nat]]
    /\ shared \in SUBSET Prompts /\ copy \in [Requests -> SUBSET Prompts]
    /\ up \in BOOLEAN /\ serving \in SUBSET Requests /\ kills \in 0..MaxKills
    /\ alone \in SUBSET Prompts /\ hits \in [Prompts -> Nat] /\ damage \in [Proxies -> [Prompts -> Nat]]

(* The daemon works on a crash-attributed retry that is not streamed with  *)
(* no other such request of its proxy beside it, whichever got there       *)
(* first.  A streamed one leaves the lane before the daemon begins, and    *)
(* one whose agent has gone while the daemon may still be at it.           *)
RetrySerialized ==
    \A r, s \in {q \in serving : Prompt[q] \notin Streamed /\ pc[q] # "gone"} :
        ProxyOf[r] = ProxyOf[s] /\ crashes[r] > 0 => r = s

(* No prompt is blamed for a daemon that was merely away or busy: every    *)
(* count rests on that many attempts with it that reached the daemon and   *)
(* broke, and every machine-wide confirmation on poison_max of them.       *)
BlameNeedsBreak ==
    /\ \A p \in Proxies, f \in Prompts : count[p][f] <= hits[f]
    /\ \A f \in shared : hits[f] >= PoisonMax

(* share.rs:207: "Ambiguous crashes (concurrent in-flight) are never       *)
(* written here": what is confirmed broke once with nothing beside it.     *)
AmbiguousStaysLocal == shared \subseteq alone

(* A killer that is not streamed kills the daemon through a proxy          *)
(* poison_max times, and once more for each other request that was already *)
(* past the gate, whoever hangs up and whatever else breaks.               *)
DamageBounded ==
    \A p \in Proxies, f \in Prompts \ Streamed :
        damage[p][f] < PoisonMax + Cardinality({r \in Requests : ProxyOf[r] = p /\ Prompt[r] = f})

(* Every request is answered, refused or given up: no lane, slot or retry  *)
(* holds it for ever, though the daemon may stay down.  (A request settles *)
(* once, so this is each of them leading to its end.)                      *)
EveryRequestSettles == <>[](\A r \in Requests : pc[r] \in Final \cup {"idle"})
=============================================================================
