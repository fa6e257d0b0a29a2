-------------------------- MODULE LaunchProxyProofs --------------------------
(***************************************************************************)
(* For any number of requests, proxies and prompts, any retry and poison   *)
(* limits and any number of deaths and breaks: the types, that retries     *)
(* after a crash that are not streamed run alone, that blame needs broken  *)
(* attempts, and that the damage one prompt that is not streamed does      *)
(* through a proxy is bounded.                                             *)
(***************************************************************************)
EXTENDS LaunchProxy, FiniteSetTheorems, TLAPS

USE LaunchAssumption DEF LaunchAssumption

-----------------------------------------------------------------------------
(* Attempts and the lane *)

(* Who is still to be sent has an attempt left, and every crash used one.  *)
TryInv ==
    \A r \in Requests :
        /\ pc[r] \in {"idle", "admit"} => tries[r] = 0 /\ crashes[r] = 0
        /\ pc[r] \in {"lane", "wait"} => tries[r] < MaxTries /\ crashes[r] <= tries[r]
        /\ pc[r] \in OnLane => crashes[r] < tries[r]

(* Two requests of one proxy that are on the lane have not crashed yet.    *)
LaneInv ==
    \A r, s \in Requests :
        r # s /\ ProxyOf[r] = ProxyOf[s] /\ pc[r] \in OnLane /\ pc[s] \in OnLane => crashes[r] = 0

LaneTypes ==
    /\ pc \in [Requests -> {"idle", "admit"} \cup InSlot \cup Final]
    /\ tries \in [Requests -> 0..MaxTries] /\ crashes \in [Requests -> 0..MaxTries]

(* The daemon works on what waits for its headers, on what was given up    *)
(* and, past the headers, on what is streamed.                             *)
WorkInv ==
    \A r \in Requests : r \in serving =>
        \/ pc[r] \in {"sent", "gone"}
        \/ Prompt[r] \in Streamed /\ pc[r] \in {"clear", "cleared", "streaming"}

SendInv == LaneTypes /\ TryInv /\ LaneInv /\ WorkInv

(* Every step keeps what a request has left and who shares the lane. *)
LEMMA SendStep == SendInv /\ [Next]_vars => SendInv'
  <1> SUFFICES ASSUME SendInv, [Next]_vars PROVE SendInv'
    OBVIOUS
  <1> USE DEF SendInv, LaneTypes, TryInv, LaneInv, WorkInv, At, InSlot, OnLane, Final, daemonVars
  <1>1. ASSUME NEW r \in Requests, Arrive(r) PROVE SendInv'
    BY <1>1 DEF Arrive
  <1>2. ASSUME NEW r \in Requests, Admit(r) PROVE SendInv'
    BY <1>2 DEF Admit
  <1>3. ASSUME NEW r \in Requests, Send(r) PROVE SendInv'
    <2>1. LaneTypes' /\ TryInv'
      BY <1>3 DEF Send
    <2>2. LaneInv'
      BY <1>3 DEF Send, LaneFree
    <2>3. WorkInv'
      BY <1>3 DEF Send
    <2> QED BY <2>1, <2>2, <2>3
  <1>4. ASSUME NEW r \in Requests, Again(r) PROVE SendInv'
    BY <1>4 DEF Again
  <1>5. ASSUME NEW r \in Requests, Attribute(r) PROVE SendInv'
    <2>1. LaneTypes' /\ TryInv'
      BY <1>5 DEF Attribute, GiveUpOr
    <2>2. LaneInv'
      BY <1>5 DEF Attribute, GiveUpOr
    <2>3. WorkInv'
      BY <1>5 DEF Attribute, GiveUpOr
    <2> QED BY <2>1, <2>2, <2>3
  <1>6. ASSUME NEW r \in Requests, ReadShared(r) PROVE SendInv'
    BY <1>6 DEF ReadShared
  <1>7. ASSUME NEW r \in Requests, WriteShared(r) PROVE SendInv'
    BY <1>7 DEF WriteShared
  <1>8. ASSUME NEW r \in Requests, Finish(r) PROVE SendInv'
    BY <1>8 DEF Finish
  <1>9. ASSUME NEW r \in Requests, Shed(r) PROVE SendInv'
    BY <1>9 DEF Shed
  <1>10. ASSUME NEW r \in Requests, NEW clean \in BOOLEAN, Answer(r, clean) PROVE SendInv'
    <2>1. At(r, "clear") \/ At(r, "streaming")
      BY <1>10 DEF Answer
    <2>2. LaneTypes' /\ TryInv' /\ LaneInv'
      BY <1>10, <2>1 DEF Answer
    <2>3. serving' = serving \ {r} \/ (Prompt[r] \in Streamed /\ serving' = serving)
      BY <1>10 DEF Answer
    <2>4. WorkInv'
      BY <1>10, <2>1, <2>3 DEF Answer
    <2> QED BY <2>2, <2>4
  <1>11. ASSUME NEW r \in Requests, Hangup(r) PROVE SendInv'
    BY <1>11 DEF Hangup
  <1>12. ASSUME NEW S, Break(S) PROVE SendInv'
    BY <1>12 DEF Break
  <1>13. ASSUME Respawn PROVE SendInv'
    BY <1>13 DEF Respawn
  <1>14. ASSUME UNCHANGED vars PROVE SendInv'
    BY <1>14 DEF vars
  <1> HIDE DEF SendInv
  <1> QED
    BY <1>1, <1>2, <1>3, <1>4, <1>5, <1>6, <1>7, <1>8, <1>9, <1>10, <1>11, <1>12, <1>13, <1>14
    DEF Next, ProxyStep, ServeStep, KilledBy, Killed, Reset, Die

-----------------------------------------------------------------------------
(* Counts and what they rest on *)

DataTypes ==
    /\ pc \in [Requests -> {"idle", "admit"} \cup InSlot \cup Final]
    /\ count \in [Proxies -> [Prompts -> Nat]]
    /\ shared \in SUBSET Prompts /\ copy \in [Requests -> SUBSET Prompts]
    /\ kills \in 0..MaxKills /\ serving \in SUBSET Requests /\ alone \in SUBSET Prompts
    /\ hits \in [Prompts -> Nat] /\ damage \in [Proxies -> [Prompts -> Nat]]

(* The requests of one prompt and proxy that have a crash to be attributed, *)
(* the ones whose crash was or may never be, and the ones refused for it.   *)
Sent(S, f) == {r \in S : pc[r] = "sent" /\ Prompt[r] = f}
Failed(p, f) == {r \in Requests : ProxyOf[r] = p /\ Prompt[r] = f /\ pc[r] = "failed"}
Lost(p, f) ==
    {r \in Requests : ProxyOf[r] = p /\ Prompt[r] = f /\ pc[r] \in {"failed", "gone"} /\ r \notin serving}
Ended(p, f) == {r \in Requests : ProxyOf[r] = p /\ Prompt[r] = f /\ pc[r] \in {"record", "recorded", "refused"}}

(* Each count leaves a broken attempt for every crash still to be          *)
(* attributed.                                                             *)
CountInv ==
    \A p \in Proxies, f \in Prompts : count[p][f] + Cardinality(Failed(p, f)) <= hits[f]

(* What is confirmed, what somebody will write back, and what is about to  *)
(* be confirmed broke poison_max times.                                    *)
SharedInv ==
    /\ \A f \in shared : hits[f] >= PoisonMax
    /\ \A r \in Requests : \A f \in copy[r] : hits[f] >= PoisonMax
    /\ \A r \in Requests : pc[r] \in {"record", "recorded"} => hits[Prompt[r]] >= PoisonMax

(* A killer's damage was counted or its request lost, and past poison_max  *)
(* each count refused a request.  An innocent prompt does none, and of a   *)
(* streamed one nothing is said.                                           *)
DamageInv ==
    \A p \in Proxies, f \in Prompts :
        /\ f \notin Killers => damage[p][f] = 0
        /\ f \in Killers \ Streamed => damage[p][f] <= count[p][f] + Cardinality(Lost(p, f))
        /\ count[p][f] < PoisonMax + Cardinality(Ended(p, f))

BlameInv == DataTypes /\ CountInv /\ SharedInv /\ DamageInv

(* Cardinalities of sets of requests are numbers, and monotone. *)
LEMMA Smaller ==
    ASSUME NEW T \in SUBSET Requests, NEW S \in SUBSET T
    PROVE  /\ IsFiniteSet(S) /\ IsFiniteSet(T)
           /\ Cardinality(S) \in Nat /\ Cardinality(T) \in Nat /\ Cardinality(S) <= Cardinality(T)
  BY FS_Subset, FS_CardinalityType

(* Of the sets above. *)
LEMMA SetsFinite ==
    ASSUME NEW p, NEW f
    PROVE  /\ Cardinality(Failed(p, f)) \in Nat
           /\ Cardinality(Lost(p, f)) \in Nat /\ Cardinality(Ended(p, f)) \in Nat
           /\ IsFiniteSet(Failed(p, f)) /\ IsFiniteSet(Lost(p, f)) /\ IsFiniteSet(Ended(p, f))
  BY Smaller DEF Failed, Lost, Ended

(* A proxy and a prompt belong to every request. *)
LEMMA OfRequest ==
    ASSUME NEW r \in Requests
    PROVE  ProxyOf[r] \in Proxies /\ Prompt[r] \in Prompts
  BY DEF Proxies, Prompts

(* A step that counts nothing, breaks no connection and forgets neither a  *)
(* lost nor a refused request keeps counts and damage.                     *)
LEMMA Quiet ==
    ASSUME BlameInv, UNCHANGED <<count, hits, damage>>,
           \A p \in Proxies, f \in Prompts :
              Failed(p, f)' \subseteq Failed(p, f) /\ Lost(p, f) \subseteq Lost(p, f)'
              /\ Ended(p, f) \subseteq Ended(p, f)'
    PROVE  CountInv' /\ DamageInv'
  <1> SUFFICES ASSUME NEW p \in Proxies, NEW f \in Prompts
               PROVE  /\ count[p][f] + Cardinality(Failed(p, f)') <= hits[f]
                      /\ f \notin Killers => damage[p][f] = 0
                      /\ f \in Killers \ Streamed => damage[p][f] <= count[p][f] + Cardinality(Lost(p, f)')
                      /\ count[p][f] < PoisonMax + Cardinality(Ended(p, f)')
    BY DEF CountInv, DamageInv
  <1>1. Failed(p, f) \subseteq Requests /\ Lost(p, f)' \subseteq Requests /\ Ended(p, f)' \subseteq Requests
    BY DEF Failed, Lost, Ended
  <1>2. /\ Cardinality(Failed(p, f)') \in Nat /\ Cardinality(Failed(p, f)) \in Nat
        /\ Cardinality(Failed(p, f)') <= Cardinality(Failed(p, f))
    BY <1>1, Smaller
  <1>3. /\ Cardinality(Lost(p, f)') \in Nat /\ Cardinality(Lost(p, f)) \in Nat
        /\ Cardinality(Lost(p, f)) <= Cardinality(Lost(p, f)')
    BY <1>1, Smaller
  <1>4. /\ Cardinality(Ended(p, f)') \in Nat /\ Cardinality(Ended(p, f)) \in Nat
        /\ Cardinality(Ended(p, f)) <= Cardinality(Ended(p, f)')
    BY <1>1, Smaller
  <1>5. count[p][f] \in Nat /\ hits[f] \in Nat /\ damage[p][f] \in Nat
    BY DEF BlameInv, DataTypes
  <1>6. /\ count[p][f] + Cardinality(Failed(p, f)) <= hits[f]
        /\ f \notin Killers => damage[p][f] = 0
        /\ f \in Killers \ Streamed => damage[p][f] <= count[p][f] + Cardinality(Lost(p, f))
        /\ count[p][f] < PoisonMax + Cardinality(Ended(p, f))
    BY DEF BlameInv, CountInv, DamageInv
  <1> QED BY <1>2, <1>3, <1>4, <1>5, <1>6

(* A request that moves on its own is such a step. *)
LEMMA QuietMove ==
    ASSUME BlameInv, UNCHANGED <<count, hits, damage>>,
           NEW r \in Requests, NEW place, At(r, place),
           place # "failed", serving' \subseteq serving \cup {r}, pc[r] \in {"failed", "gone"} => r \notin serving',
           pc[r] \in {"failed", "gone"} => place = "gone",
           pc[r] \in {"record", "recorded", "refused"} => place \in {"record", "recorded", "refused"}
    PROVE  CountInv' /\ DamageInv'
  <1>1. pc \in [Requests -> {"idle", "admit"} \cup InSlot \cup Final]
    BY DEF BlameInv, DataTypes
  <1>2. ASSUME NEW p \in Proxies, NEW f \in Prompts
        PROVE  Failed(p, f)' \subseteq Failed(p, f) /\ Lost(p, f) \subseteq Lost(p, f)'
               /\ Ended(p, f) \subseteq Ended(p, f)'
    BY <1>1 DEF Failed, Lost, Ended, At
  <1> QED BY <1>2, Quiet

(* Attributing a crash: one count more, one crash less to attribute, and   *)
(* past poison_max one request refused.                                    *)
LEMMA AttributeBlames ==
    ASSUME BlameInv, SendInv, NEW r \in Requests, Attribute(r)
    PROVE  CountInv' /\ DamageInv' /\ hits[Prompt[r]] >= Total(r)
  <1> DEFINE q == ProxyOf[r]
             g == Prompt[r]
  <1>1. /\ pc \in [Requests -> {"idle", "admit"} \cup InSlot \cup Final]
        /\ count \in [Proxies -> [Prompts -> Nat]]
        /\ hits \in [Prompts -> Nat] /\ damage \in [Proxies -> [Prompts -> Nat]]
        /\ q \in Proxies /\ g \in Prompts
    BY OfRequest DEF BlameInv, DataTypes
  <1>2. /\ pc[r] = "failed" /\ UNCHANGED <<hits, damage>>
        /\ count' = [count EXCEPT ![q][g] = @ + 1]
        /\ pc' = [pc EXCEPT ![r] = pc'[r]] /\ serving' = serving
        /\ pc'[r] \in {"wait", "gone", "record", "refused"}
        /\ Total(r) >= PoisonMax => pc'[r] \in {"record", "refused"}
    BY <1>1 DEF Attribute, At, GiveUpOr, Total, daemonVars
  <1>3. /\ count'[q][g] = count[q][g] + 1 /\ Total(r) = count[q][g] + 1
        /\ count[q][g] \in Nat /\ hits[g] \in Nat /\ damage[q][g] \in Nat
    BY <1>1, <1>2 DEF Total
  <1>4. /\ count[q][g] + Cardinality(Failed(q, g)) <= hits[g]
        /\ g \notin Killers => damage[q][g] = 0
        /\ g \in Killers \ Streamed => damage[q][g] <= count[q][g] + Cardinality(Lost(q, g))
        /\ count[q][g] < PoisonMax + Cardinality(Ended(q, g))
    BY <1>1 DEF BlameInv, CountInv, DamageInv
  <1>5. Failed(q, g)' = Failed(q, g) \ {r} /\ r \in Failed(q, g)
    BY <1>1, <1>2 DEF Failed
  <1>6. Cardinality(Failed(q, g)') = Cardinality(Failed(q, g)) - 1 /\ Cardinality(Failed(q, g)) \in Nat
    <2>1. Cardinality(Failed(q, g) \ {r}) = Cardinality(Failed(q, g)) - 1
      BY <1>5, SetsFinite, FS_RemoveElement
    <2> QED BY <1>5, <2>1, SetsFinite
  <1>7. Cardinality(Failed(q, g)) >= 1
    BY <1>5, <1>6, SetsFinite, FS_EmptySet
  <1>8. Cardinality(Lost(q, g)') >= Cardinality(Lost(q, g)) - 1
        /\ Cardinality(Lost(q, g)') \in Nat /\ Cardinality(Lost(q, g)) \in Nat
    <2>1. Lost(q, g) \ {r} \subseteq Lost(q, g)' /\ r \in Lost(q, g) /\ Lost(q, g)' \subseteq Requests
      BY <1>1, <1>2 DEF Lost, SendInv, WorkInv
    <2>2. Cardinality(Lost(q, g) \ {r}) = Cardinality(Lost(q, g)) - 1 /\ Cardinality(Lost(q, g)) \in Nat
      BY <2>1, SetsFinite, FS_RemoveElement
    <2>3. Cardinality(Lost(q, g) \ {r}) <= Cardinality(Lost(q, g)') /\ Cardinality(Lost(q, g)') \in Nat
      BY <2>1, Smaller
    <2> QED BY <2>2, <2>3
  <1>9. /\ Cardinality(Ended(q, g)') \in Nat /\ Cardinality(Ended(q, g)) \in Nat
        /\ count'[q][g] < PoisonMax + Cardinality(Ended(q, g)')
    <2>1. Cardinality(Ended(q, g)) \in Nat /\ Cardinality(Ended(q, g)') \in Nat
      <3>1. Ended(q, g)' \subseteq Requests
        BY DEF Ended
      <3> QED BY <3>1, SetsFinite, Smaller
    <2>2. CASE Total(r) < PoisonMax
      BY <1>3, <2>1, <2>2
    <2>3. CASE Total(r) >= PoisonMax
      <3>1. Ended(q, g)' = Ended(q, g) \cup {r} /\ r \notin Ended(q, g)
        BY <1>1, <1>2, <2>3 DEF Ended
      <3>2. Cardinality(Ended(q, g)') = Cardinality(Ended(q, g)) + 1
        BY <3>1, SetsFinite, FS_AddElement
      <3> QED BY <1>3, <1>4, <2>1, <3>2
    <2> QED BY <1>3, <2>2, <2>3
  <1>10. ASSUME NEW p \in Proxies, NEW f \in Prompts, p # q \/ f # g
         PROVE  /\ count'[p][f] = count[p][f]
                /\ Failed(p, f)' = Failed(p, f) /\ Lost(p, f)' = Lost(p, f) /\ Ended(p, f)' = Ended(p, f)
    BY <1>1, <1>2, <1>10 DEF Failed, Lost, Ended
  <1>11. CountInv'
    <2> SUFFICES ASSUME NEW p \in Proxies, NEW f \in Prompts
                 PROVE  count'[p][f] + Cardinality(Failed(p, f)') <= hits'[f]
      BY DEF CountInv
    <2>1. CASE p = q /\ f = g
      BY <1>2, <1>3, <1>4, <1>6, <2>1
    <2>2. CASE p # q \/ f # g
      BY <1>2, <1>10, <2>2 DEF BlameInv, CountInv
    <2> QED BY <2>1, <2>2
  <1>12. DamageInv'
    <2> SUFFICES ASSUME NEW p \in Proxies, NEW f \in Prompts
                 PROVE  /\ f \notin Killers => damage'[p][f] = 0
                        /\ f \in Killers \ Streamed => damage'[p][f] <= count'[p][f] + Cardinality(Lost(p, f)')
                        /\ count'[p][f] < PoisonMax + Cardinality(Ended(p, f)')
      BY DEF DamageInv
    <2>1. CASE p = q /\ f = g
      BY <1>2, <1>3, <1>4, <1>8, <1>9, <2>1
    <2>2. CASE p # q \/ f # g
      BY <1>2, <1>10, <2>2 DEF BlameInv, DamageInv
    <2> QED BY <2>1, <2>2
  <1>13. hits[g] >= Total(r)
    BY <1>3, <1>4, <1>6, <1>7
  <1> QED BY <1>11, <1>12, <1>13

(* A 2xx forgets the counts of a prompt that is no killer or is streamed. *)
LEMMA AnswerForgives ==
    ASSUME BlameInv, NEW r \in Requests, NEW clean \in BOOLEAN, Answer(r, clean)
    PROVE  CountInv' /\ DamageInv'
  <1>1. /\ pc \in [Requests -> {"idle", "admit"} \cup InSlot \cup Final]
        /\ count \in [Proxies -> [Prompts -> Nat]] /\ hits \in [Prompts -> Nat]
        /\ ProxyOf[r] \in Proxies /\ Prompt[r] \in Prompts
    BY OfRequest DEF BlameInv, DataTypes
  <1>a. serving' \subseteq serving
    BY DEF Answer
  <1>2. CASE UNCHANGED count
    BY <1>1, <1>2, <1>a, QuietMove DEF Answer
  <1>3. CASE Prompt[r] \notin Killers \ Streamed /\ count' = [count EXCEPT ![ProxyOf[r]][Prompt[r]] = 0]
    <2>1. /\ pc[r] = "sent" /\ UNCHANGED <<hits, damage>>
          /\ pc' = [pc EXCEPT ![r] = pc'[r]] /\ pc'[r] \in {"clear", "streaming"}
          /\ serving' \in {serving, serving \ {r}}
      BY <1>1 DEF Answer, At
    <2> SUFFICES ASSUME NEW p \in Proxies, NEW f \in Prompts
                 PROVE  /\ count'[p][f] + Cardinality(Failed(p, f)') <= hits'[f]
                        /\ f \notin Killers => damage'[p][f] = 0
                        /\ f \in Killers \ Streamed => damage'[p][f] <= count'[p][f] + Cardinality(Lost(p, f)')
                        /\ count'[p][f] < PoisonMax + Cardinality(Ended(p, f)')
      BY DEF CountInv, DamageInv
    <2>2. Failed(p, f)' = Failed(p, f) /\ Lost(p, f)' = Lost(p, f) /\ Ended(p, f)' = Ended(p, f)
      BY <1>1, <2>1 DEF Failed, Lost, Ended
    <2>3. count'[p][f] <= count[p][f] /\ count'[p][f] \in Nat /\ count[p][f] \in Nat /\ hits[f] \in Nat
          /\ (f \in Killers \ Streamed => count'[p][f] = count[p][f])
      BY <1>1, <1>3
    <2>4. /\ count[p][f] + Cardinality(Failed(p, f)) <= hits[f]
          /\ f \notin Killers => damage[p][f] = 0
          /\ f \in Killers \ Streamed => damage[p][f] <= count[p][f] + Cardinality(Lost(p, f))
          /\ count[p][f] < PoisonMax + Cardinality(Ended(p, f))
      BY DEF BlameInv, CountInv, DamageInv
    <2> QED BY <2>1, <2>2, <2>3, <2>4, SetsFinite
  <1>4. UNCHANGED count \/ (Prompt[r] \notin Killers \ Streamed /\ count' = [count EXCEPT ![ProxyOf[r]][Prompt[r]] = 0])
    BY DEF Answer
  <1> QED BY <1>2, <1>3, <1>4

(* Attempts break: a hit for each of them, and each has a crash to         *)
(* attribute from now on.                                                  *)
LEMMA BreakHits ==
    ASSUME BlameInv, SendInv, NEW S \in SUBSET Requests, Break(S)
    PROVE  /\ CountInv' /\ hits' \in [Prompts -> Nat]
           /\ \A f \in Prompts : hits'[f] >= hits[f]
           /\ \A p \in Proxies, f \in Prompts :
                 /\ Cardinality(Lost(p, f)') >= Cardinality(Lost(p, f))
                 /\ f \notin Streamed /\ (\E r \in S \cap serving : ProxyOf[r] = p /\ Prompt[r] = f)
                      => Cardinality(Lost(p, f)') >= Cardinality(Lost(p, f)) + 1
                 /\ Ended(p, f)' = Ended(p, f)
  <1>1. /\ pc \in [Requests -> {"idle", "admit"} \cup InSlot \cup Final]
        /\ count \in [Proxies -> [Prompts -> Nat]] /\ hits \in [Prompts -> Nat]
    BY DEF BlameInv, DataTypes
  <1>2. hits' = [f \in Prompts |-> hits[f] + Cardinality(Sent(S, f))] /\ UNCHANGED count
    BY DEF Break, Sent
  <1>3. /\ pc' = [r \in Requests |-> IF pc[r] = "sent" /\ r \in S THEN "failed" ELSE pc[r]]
        /\ serving' = serving \ S
    BY DEF Break
  <1>s. ASSUME NEW f PROVE Sent(S, f) \subseteq Requests /\ Cardinality(Sent(S, f)) \in Nat /\ IsFiniteSet(Sent(S, f))
    <2>1. Sent(S, f) \subseteq Requests
      BY DEF Sent
    <2> QED BY <2>1, Smaller
  <1>4. hits' \in [Prompts -> Nat] /\ \A f \in Prompts : hits'[f] >= hits[f]
    BY <1>1, <1>2, <1>s
  <1>5. CountInv'
    <2> SUFFICES ASSUME NEW p \in Proxies, NEW f \in Prompts
                 PROVE  count'[p][f] + Cardinality(Failed(p, f)') <= hits'[f]
      BY DEF CountInv
    <2>1. Failed(p, f)' \subseteq Failed(p, f) \cup Sent(S, f) /\ Failed(p, f) \cup Sent(S, f) \subseteq Requests
      BY <1>1, <1>3 DEF Failed, Sent
    <2>2. Cardinality(Failed(p, f) \cup Sent(S, f)) <= Cardinality(Failed(p, f)) + Cardinality(Sent(S, f))
          /\ Cardinality(Failed(p, f) \cup Sent(S, f)) \in Nat
      <3>1. Cardinality(Failed(p, f) \cap Sent(S, f)) \in Nat
        BY Smaller DEF Failed
      <3>2. Cardinality(Failed(p, f) \cup Sent(S, f))
              = Cardinality(Failed(p, f)) + Cardinality(Sent(S, f)) - Cardinality(Failed(p, f) \cap Sent(S, f))
        BY <1>s, SetsFinite, FS_Union
      <3>3. Cardinality(Failed(p, f) \cup Sent(S, f)) \in Nat
        BY <2>1, Smaller
      <3> QED BY <1>s, <3>1, <3>2, <3>3, SetsFinite
    <2>3. Cardinality(Failed(p, f)') <= Cardinality(Failed(p, f) \cup Sent(S, f)) /\ Cardinality(Failed(p, f)') \in Nat
      BY <2>1, Smaller
    <2>4. count[p][f] + Cardinality(Failed(p, f)) <= hits[f]
      BY DEF BlameInv, CountInv
    <2>5. count[p][f] \in Nat /\ hits[f] \in Nat /\ hits'[f] = hits[f] + Cardinality(Sent(S, f))
      BY <1>1, <1>2
    <2> QED BY <1>2, <1>s, <2>2, <2>3, <2>4, <2>5, SetsFinite
  <1>6. ASSUME NEW p \in Proxies, NEW f \in Prompts
        PROVE  /\ Cardinality(Lost(p, f)') >= Cardinality(Lost(p, f))
               /\ f \notin Streamed /\ (\E r \in S \cap serving : ProxyOf[r] = p /\ Prompt[r] = f)
                    => Cardinality(Lost(p, f)') >= Cardinality(Lost(p, f)) + 1
               /\ Ended(p, f)' = Ended(p, f)
    <2>1. Lost(p, f) \subseteq Lost(p, f)' /\ Lost(p, f)' \subseteq Requests
      BY <1>1, <1>3 DEF Lost
    <2>2. Ended(p, f)' = Ended(p, f)
      BY <1>1, <1>3 DEF Ended
    <2>3. ASSUME NEW r \in S \cap serving, ProxyOf[r] = p, Prompt[r] = f, f \notin Streamed
          PROVE  Cardinality(Lost(p, f)') >= Cardinality(Lost(p, f)) + 1
      <3>0. r \in Requests /\ pc[r] \in {"sent", "gone"}
        BY <2>3 DEF SendInv, WorkInv
      <3>1. r \notin Lost(p, f) /\ Lost(p, f) \cup {r} \subseteq Lost(p, f)'
        BY <1>1, <1>3, <2>3, <2>1, <3>0 DEF Lost
      <3>2. Cardinality(Lost(p, f) \cup {r}) = Cardinality(Lost(p, f)) + 1
        BY <3>1, SetsFinite, FS_AddElement
      <3> QED BY <2>1, <3>1, <3>2, Smaller
    <2> QED BY <2>1, <2>2, <2>3, Smaller
  <1> QED BY <1>4, <1>5, <1>6

(* A death nobody's prompt caused, one that one did, or a connection that  *)
(* broke on its own.                                                       *)
Breaks(S) == Break(S) /\ (UNCHANGED damage \/ \E r \in S \cap serving :
                             /\ Prompt[r] \in Killers
                             /\ damage' = [damage EXCEPT ![ProxyOf[r]][Prompt[r]] = @ + 1])

(* Its damage. *)
LEMMA BreakDamages ==
    ASSUME BlameInv, SendInv, NEW S \in SUBSET Requests, Breaks(S)
    PROVE  DamageInv' /\ damage' \in [Proxies -> [Prompts -> Nat]]
  <1>1. Break(S) /\ UNCHANGED <<count, shared, copy>>
    BY DEF Breaks, Break
  <1>2. damage \in [Proxies -> [Prompts -> Nat]] /\ count \in [Proxies -> [Prompts -> Nat]]
    BY DEF BlameInv, DataTypes
  <1>3. damage' \in [Proxies -> [Prompts -> Nat]]
    <2>1. ASSUME NEW r \in S \cap serving, damage' = [damage EXCEPT ![ProxyOf[r]][Prompt[r]] = @ + 1]
          PROVE  damage' \in [Proxies -> [Prompts -> Nat]]
      <3>1. ProxyOf[r] \in Proxies /\ Prompt[r] \in Prompts
        BY OfRequest
      <3> QED BY <1>2, <2>1, <3>1
    <2> QED BY <1>2, <2>1 DEF Breaks
  <1>4. DamageInv'
    <2> SUFFICES ASSUME NEW p \in Proxies, NEW f \in Prompts
                 PROVE  /\ f \notin Killers => damage'[p][f] = 0
                        /\ f \in Killers \ Streamed => damage'[p][f] <= count'[p][f] + Cardinality(Lost(p, f)')
                        /\ count'[p][f] < PoisonMax + Cardinality(Ended(p, f)')
      BY DEF DamageInv
    <2>1. /\ f \notin Killers => damage[p][f] = 0
          /\ f \in Killers \ Streamed => damage[p][f] <= count[p][f] + Cardinality(Lost(p, f))
          /\ count[p][f] < PoisonMax + Cardinality(Ended(p, f))
      BY DEF BlameInv, DamageInv
    <2>2. /\ Cardinality(Lost(p, f)') >= Cardinality(Lost(p, f))
          /\ f \notin Streamed /\ (\E r \in S \cap serving : ProxyOf[r] = p /\ Prompt[r] = f)
               => Cardinality(Lost(p, f)') >= Cardinality(Lost(p, f)) + 1
          /\ Ended(p, f)' = Ended(p, f)
      BY <1>1, BreakHits
    <2>3. Cardinality(Lost(p, f)) \in Nat /\ Cardinality(Lost(p, f)') \in Nat
      BY Smaller DEF Lost
    <2>4. count[p][f] \in Nat /\ damage[p][f] \in Nat /\ damage'[p][f] \in Nat
      BY <1>2, <1>3
    <2>5. CASE damage'[p][f] = damage[p][f]
      BY <1>1, <2>1, <2>2, <2>3, <2>4, <2>5
    <2>6. CASE damage'[p][f] # damage[p][f]
      <3>1. PICK r \in S \cap serving :
               Prompt[r] \in Killers /\ damage' = [damage EXCEPT ![ProxyOf[r]][Prompt[r]] = @ + 1]
        BY <2>6 DEF Breaks
      <3>2. ProxyOf[r] = p /\ Prompt[r] = f /\ f \in Killers /\ damage'[p][f] = damage[p][f] + 1
        BY <1>2, <2>6, <3>1
      <3> QED BY <1>1, <2>1, <2>2, <2>3, <2>4, <3>1, <3>2
    <2> QED BY <2>5, <2>6
  <1> QED BY <1>3, <1>4

(* Every step keeps counts, confirmations and damage. *)
LEMMA BlameStep == BlameInv /\ SendInv /\ SendInv' /\ [Next]_vars => BlameInv'
  <1> SUFFICES ASSUME BlameInv, SendInv, SendInv', [Next]_vars PROVE BlameInv'
    OBVIOUS
  <1>p. /\ pc \in [Requests -> {"idle", "admit"} \cup InSlot \cup Final]
        /\ (pc \in [Requests -> {"idle", "admit"} \cup InSlot \cup Final])'
    BY DEF BlameInv, DataTypes, SendInv, LaneTypes
  <1>q. ASSUME NEW r \in Requests PROVE ProxyOf[r] \in Proxies /\ Prompt[r] \in Prompts
    BY OfRequest
  <1>w. ASSUME NEW r \in Requests, pc[r] = "failed" PROVE r \notin serving
    BY <1>w DEF SendInv, WorkInv
  <1>m. ASSUME NEW r \in Requests, NEW place, At(r, place), UNCHANGED <<count, hits, damage, shared, copy, kills, alone>>,
               serving' \subseteq serving \cup {r}, pc[r] \in {"failed", "gone"} => r \notin serving',
               place \notin {"failed", "record", "recorded"},
               pc[r] \in {"failed", "gone"} => place = "gone",
               pc[r] \in {"record", "recorded", "refused"} => place = "refused"
        PROVE  BlameInv'
    <2>1. CountInv' /\ DamageInv'
      BY <1>m, QuietMove
    <2>2. DataTypes'
      BY <1>m, <1>p DEF BlameInv, DataTypes
    <2>3. SharedInv'
      BY <1>m, <1>p DEF BlameInv, SharedInv, At
    <2> QED BY <2>1, <2>2, <2>3 DEF BlameInv
  <1>1. ASSUME NEW r \in Requests, Arrive(r) PROVE BlameInv'
    BY <1>1, <1>m DEF Arrive, daemonVars
  <1>2. ASSUME NEW r \in Requests, Admit(r) PROVE BlameInv'
    BY <1>2, <1>m DEF Admit, daemonVars
  <1>3. ASSUME NEW r \in Requests, Send(r) PROVE BlameInv'
    BY <1>3, <1>m DEF Send
  <1>4. ASSUME NEW r \in Requests, Again(r) PROVE BlameInv'
    BY <1>4, <1>m DEF Again, daemonVars
  <1>5. ASSUME NEW r \in Requests, Attribute(r) PROVE BlameInv'
    <2>1. CountInv' /\ DamageInv' /\ hits[Prompt[r]] >= Total(r)
      BY <1>5, AttributeBlames
    <2>2. DataTypes'
      BY <1>5, <1>p, <1>q DEF BlameInv, DataTypes, Attribute, daemonVars
    <2>3. Total(r) \in Nat /\ hits[Prompt[r]] \in Nat
      BY <1>q DEF BlameInv, DataTypes, Total
    <2>4. pc'[r] \in {"record", "recorded"} => hits[Prompt[r]] >= PoisonMax
      BY <1>5, <1>p, <2>1, <2>3 DEF Attribute, At, GiveUpOr
    <2>5. SharedInv'
      BY <1>5, <1>p, <2>4 DEF BlameInv, SharedInv, Attribute, At, daemonVars
    <2> QED BY <2>1, <2>2, <2>5 DEF BlameInv
  <1>6. ASSUME NEW r \in Requests, ReadShared(r) PROVE BlameInv'
    <2>1. CountInv' /\ DamageInv'
      BY <1>6, QuietMove DEF ReadShared, daemonVars
    <2>2. DataTypes'
      BY <1>6, <1>p DEF BlameInv, DataTypes, ReadShared, daemonVars
    <2>3. SharedInv'
      BY <1>6, <1>p DEF BlameInv, DataTypes, SharedInv, ReadShared, At, daemonVars
    <2> QED BY <2>1, <2>2, <2>3 DEF BlameInv
  <1>7. ASSUME NEW r \in Requests, WriteShared(r) PROVE BlameInv'
    <2>1. CountInv' /\ DamageInv'
      BY <1>7, QuietMove DEF WriteShared, daemonVars
    <2>2. DataTypes'
      BY <1>7, <1>p, <1>q DEF BlameInv, DataTypes, WriteShared, daemonVars
    <2>3. SharedInv'
      BY <1>7, <1>p DEF BlameInv, DataTypes, SharedInv, WriteShared, At, daemonVars
    <2> QED BY <2>1, <2>2, <2>3 DEF BlameInv
  <1>8. ASSUME NEW r \in Requests, Finish(r) PROVE BlameInv'
    BY <1>8, <1>m DEF Finish
  <1>9. ASSUME NEW r \in Requests, Shed(r) PROVE BlameInv'
    BY <1>9, <1>m DEF Shed
  <1>10. ASSUME NEW r \in Requests, NEW clean \in BOOLEAN, Answer(r, clean) PROVE BlameInv'
    <2>1. CountInv' /\ DamageInv'
      BY <1>10, AnswerForgives
    <2>2. UNCHANGED <<shared, copy, kills, hits, alone, damage>> /\ serving' \subseteq serving /\ (At(r, "clear") \/ At(r, "streaming"))
          /\ (UNCHANGED count \/ count' = [count EXCEPT ![ProxyOf[r]][Prompt[r]] = 0])
      BY <1>10 DEF Answer
    <2>3. DataTypes'
      <3>1. (count \in [Proxies -> [Prompts -> Nat]])'
        BY <1>q, <2>2 DEF BlameInv, DataTypes
      <3> QED BY <1>p, <2>2, <3>1 DEF BlameInv, DataTypes
    <2>4. SharedInv'
      BY <1>p, <2>2 DEF BlameInv, SharedInv, At
    <2> QED BY <2>1, <2>3, <2>4 DEF BlameInv
  <1>11. ASSUME NEW r \in Requests, Hangup(r) PROVE BlameInv'
    BY <1>11, <1>m, <1>w DEF Hangup
  <1>12. ASSUME NEW S \in SUBSET Requests, Breaks(S), kills' \in 0..MaxKills PROVE BlameInv'
    <2>1. Break(S)
      BY <1>12 DEF Breaks
    <2>2. DamageInv' /\ damage' \in [Proxies -> [Prompts -> Nat]]
      BY <1>12, BreakDamages
    <2>3. CountInv' /\ hits' \in [Prompts -> Nat] /\ \A f \in Prompts : hits'[f] >= hits[f]
      BY <2>1, BreakHits
    <2>4. UNCHANGED <<count, shared, copy>> /\ \A r \in Requests : pc'[r] \in {"record", "recorded"} => pc[r] = pc'[r]
      BY <1>p, <2>1 DEF Break
    <2>5. serving' \subseteq serving /\ alone' \subseteq alone \cup Prompts
      BY <1>q, <2>1 DEF Break
    <2>6. DataTypes'
      BY <1>12, <1>p, <2>2, <2>3, <2>4, <2>5 DEF BlameInv, DataTypes
    <2>7. SharedInv'
      BY <1>p, <1>q, <2>3, <2>4 DEF BlameInv, DataTypes, SharedInv
    <2> QED BY <2>2, <2>3, <2>6, <2>7 DEF BlameInv
  <1>k. ASSUME Killed \/ \E r \in Requests : KilledBy(r) PROVE BlameInv'
    <2>1. serving \in SUBSET Requests /\ kills \in 0..MaxKills
      BY DEF BlameInv, DataTypes
    <2>2. CASE Killed
      BY <1>12, <2>1, <2>2 DEF Killed, Die, Breaks
    <2>3. ASSUME NEW r \in Requests, KilledBy(r) PROVE BlameInv'
      BY <1>12, <2>1, <2>3 DEF KilledBy, Die, Breaks
    <2> QED BY <1>k, <2>2, <2>3
  <1>r. ASSUME NEW r \in Requests, Reset(r) PROVE BlameInv'
    <2>1. {r} \in SUBSET Requests /\ kills' \in 0..MaxKills
      BY <1>r DEF BlameInv, DataTypes, Reset
    <2> QED BY <1>12, <1>r, <2>1 DEF Reset, Breaks
  <1>13. ASSUME UNCHANGED <<pc, count, shared, copy, serving, kills, hits, alone, damage>> PROVE BlameInv'
    <2>1. CountInv' /\ DamageInv'
      BY <1>13, Quiet DEF Failed, Lost, Ended
    <2>2. DataTypes' /\ SharedInv'
      BY <1>13 DEF BlameInv, DataTypes, SharedInv
    <2> QED BY <2>1, <2>2 DEF BlameInv
  <1> HIDE DEF BlameInv
  <1> QED
    BY <1>1, <1>2, <1>3, <1>4, <1>5, <1>6, <1>7, <1>8, <1>9, <1>10, <1>11, <1>13, <1>k, <1>r
    DEF Next, ProxyStep, ServeStep, Respawn, vars

-----------------------------------------------------------------------------
(* The theorems *)

IInv == SendInv /\ BlameInv /\ up \in BOOLEAN

(* Nothing has been sent, counted or confirmed at first. *)
LEMMA InvInit == Init => IInv
  <1> SUFFICES ASSUME Init PROVE IInv
    OBVIOUS
  <1>1. SendInv
    BY DEF Init, SendInv, LaneTypes, TryInv, LaneInv, WorkInv, OnLane
  <1>2. DataTypes /\ SharedInv
    BY DEF Init, DataTypes, SharedInv
  <1>3. ASSUME NEW p \in Proxies, NEW f \in Prompts
        PROVE  Failed(p, f) = {} /\ count[p][f] = 0 /\ damage[p][f] = 0 /\ hits[f] = 0
    BY DEF Init, Failed
  <1>4. CountInv
    <2>1. ASSUME NEW p \in Proxies, NEW f \in Prompts PROVE count[p][f] + Cardinality(Failed(p, f)) <= hits[f]
      <3>1. Cardinality(Failed(p, f)) = 0
        BY <1>3, FS_EmptySet
      <3> QED BY <1>3, <3>1
    <2> QED BY <2>1 DEF CountInv
  <1>5. DamageInv
    BY <1>3, SetsFinite DEF DamageInv
  <1>6. up \in BOOLEAN
    BY DEF Init
  <1> QED BY <1>1, <1>2, <1>4, <1>5, <1>6 DEF IInv, BlameInv

(* And every step keeps it. *)
LEMMA InvStep == IInv /\ [Next]_vars => IInv'
  <1> SUFFICES ASSUME IInv, [Next]_vars PROVE IInv'
    OBVIOUS
  <1>1. SendInv' /\ BlameInv'
    BY SendStep, BlameStep DEF IInv
  <1>2. up' \in BOOLEAN
    <2>1. up' = up \/ up' = TRUE \/ up' = FALSE
      BY DEF Next, ProxyStep, ServeStep, Arrive, Admit, Send, Again, Attribute, ReadShared, WriteShared,
             Finish, Shed, Answer, KilledBy, Killed, Reset, Die, Respawn, Hangup, vars, daemonVars
    <2> QED BY <2>1 DEF IInv
  <1> QED BY <1>1, <1>2 DEF IInv

LEMMA Invariant == Spec => []IInv
  BY InvInit, InvStep, PTL DEF Spec

(* The types: no request is tried more often than max_attempts, whatever   *)
(* dies, sheds or hangs up.                                                *)
THEOREM TypeCorrect == Spec => []TypeOK
  <1>1. IInv => TypeOK
    BY DEF IInv, SendInv, LaneTypes, BlameInv, DataTypes, TypeOK
  <1> QED BY Invariant, <1>1, PTL

(* proxy.rs degrade lane: the daemon works on a retry after a crash that   *)
(* is not streamed with no other such request of its proxy beside it.      *)
THEOREM RetriesRunAlone == Spec => []RetrySerialized
  <1>1. IInv => RetrySerialized
    BY DEF IInv, SendInv, LaneTypes, LaneInv, WorkInv, BlameInv, DataTypes, OnLane, RetrySerialized
  <1> QED BY Invariant, <1>1, PTL

(* proxy.rs bump_poison, share.rs record_poison: every count and every     *)
(* machine-wide confirmation rests on that many attempts with the prompt   *)
(* that reached the daemon and broke, also when writers of poison.json     *)
(* overwrite each other.                                                   *)
THEOREM BlameIsEarned == Spec => []BlameNeedsBreak
  <1>1. ASSUME IInv PROVE BlameNeedsBreak
    <2>1. ASSUME NEW p \in Proxies, NEW f \in Prompts PROVE count[p][f] <= hits[f]
      <3>1. count[p][f] + Cardinality(Failed(p, f)) <= hits[f]
        BY <1>1 DEF IInv, BlameInv, CountInv
      <3>2. count[p][f] \in Nat /\ hits[f] \in Nat
        BY <1>1 DEF IInv, BlameInv, DataTypes
      <3> QED BY <3>1, <3>2, SetsFinite
    <2> QED BY <1>1, <2>1 DEF IInv, BlameInv, SharedInv, BlameNeedsBreak
  <1> QED BY Invariant, <1>1, PTL

(* proxy.rs poison_max: a prompt that is not streamed kills the daemon     *)
(* through a proxy fewer than poison_max times plus once for each request  *)
(* that carries it.                                                        *)
THEOREM DamageIsBounded == Spec => []DamageBounded
  <1>1. ASSUME IInv PROVE DamageBounded
    <2> SUFFICES ASSUME NEW p \in Proxies, NEW f \in Prompts \ Streamed
                 PROVE  damage[p][f] < PoisonMax + Cardinality({r \in Requests : ProxyOf[r] = p /\ Prompt[r] = f})
      BY DEF DamageBounded
    <2> DEFINE R == {r \in Requests : ProxyOf[r] = p /\ Prompt[r] = f}
    <2>1. /\ f \notin Killers => damage[p][f] = 0
          /\ f \in Killers \ Streamed => damage[p][f] <= count[p][f] + Cardinality(Lost(p, f))
          /\ count[p][f] < PoisonMax + Cardinality(Ended(p, f))
      BY <1>1 DEF IInv, BlameInv, DamageInv
    <2>2. count[p][f] \in Nat /\ damage[p][f] \in Nat
      BY <1>1 DEF IInv, BlameInv, DataTypes
    <2>3. Lost(p, f) \cup Ended(p, f) \subseteq R /\ Lost(p, f) \cap Ended(p, f) = {}
      BY DEF Lost, Ended
    <2>4. Cardinality(Lost(p, f) \cup Ended(p, f)) <= Cardinality(R) /\ Cardinality(R) \in Nat
      BY <2>3, Smaller
    <2>5. Cardinality(Lost(p, f) \cup Ended(p, f)) = Cardinality(Lost(p, f)) + Cardinality(Ended(p, f))
      <3>1. Cardinality(Lost(p, f) \cup Ended(p, f))
              = Cardinality(Lost(p, f)) + Cardinality(Ended(p, f)) - Cardinality(Lost(p, f) \cap Ended(p, f))
        BY SetsFinite, FS_Union
      <3>2. Cardinality(Lost(p, f) \cap Ended(p, f)) = 0
        BY <2>3, FS_EmptySet
      <3> QED BY <3>1, <3>2, SetsFinite
    <2> HIDE DEF R
    <2>6. damage[p][f] < PoisonMax + Cardinality(R)
      BY <2>1, <2>2, <2>4, <2>5, SetsFinite
    <2> QED BY <2>6 DEF R
  <1> QED BY Invariant, <1>1, PTL
=============================================================================
