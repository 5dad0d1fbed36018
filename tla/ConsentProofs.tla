--------------------------- MODULE ConsentProofs ---------------------------
(***************************************************************************)
(* For every number of people and of requests in flight, and without any   *)
(* bound on losses, restarts or speech: default-deny holds end to end, and *)
(* an opt-out stops storage at its commit.                                 *)
(*                                                                         *)
(* Default-deny is not inductive: a list can be wrong long before it       *)
(* reaches the agent.  EverCovers says it of every place a list can be.    *)
(***************************************************************************)
EXTENDS Consent, TLAPS

EverCovers ==
  /\ Accepting \subseteq ever
  /\ agent.accepted \subseteq ever
  /\ round.list \subseteq ever
  /\ \A k \in Calls : call[k].list \subseteq ever
  /\ \A u \in speech \cup rows : u.who \in ever

LEMMA SpendKeepsBounds ==
  ASSUME TypeOK, NEW w \in {"changes", "losses", "crashes", "talk"}, Spend(w)
  PROVE  left' \in Bounds
<1>1. left.changes \in Nat /\ left.losses \in Nat /\ left.crashes \in Nat /\ left.talk \in Nat
  BY BoundsAssumption DEF TypeOK, Bounds
<1> QED  BY <1>1, BoundsAssumption DEF TypeOK, Bounds, Spend

LEMMA AcceptingType == TypeOK => Accepting \subseteq People
  BY DEF Accepting

\* What the agent makes of a PATCH: still a session, absent only if it was.
LEMMA ToldType ==
  ASSUME TypeOK, NEW list \in SUBSET People, NEW flag \in PauseFlags
  PROVE  /\ Told(list, flag) \in Agents
         /\ Told(list, flag).state = "off" => Told(list, flag) = Gone
         /\ Told(list, flag).accepted \subseteq agent.accepted \cup list
<1>1. CASE agent.state = "off"  BY <1>1 DEF Told, TypeOK
<1>2. CASE agent.state # "off"
  <2> DEFINE q == IF flag = "keep" THEN agent.paused ELSE flag = "pause"
  <2>1. q \in BOOLEAN  BY DEF TypeOK, Agents, PauseFlags
  <2>2. Told(list, flag) = [state |-> agent.state, accepted |-> list, paused |-> q]
    BY <1>2 DEF Told, TypeOK, Agents
  <2> HIDE DEF q
  <2>3. agent.state \in {"off", "capturing", "draining"}  BY DEF TypeOK, Agents
  <2> QED  BY <1>2, <2>1, <2>2, <2>3 DEF Agents
<1> QED  BY <1>1, <1>2

LEMMA InitType == Init => TypeOK
<1> SUFFICES ASSUME Init PROVE TypeOK  OBVIOUS
<1>1. NoCall \in Handlers  BY DEF NoCall, Handlers, PauseFlags
<1>2. NoRound \in Rounds  BY DEF NoRound, Rounds
<1>3. Gone \in Agents  BY DEF Gone, Agents
<1>4. left \in Bounds  BY BoundsAssumption DEF Init, Bounds
<1>5. consent \in [People -> Decisions \cup {"none"}]  BY DEF Init
<1> QED  BY <1>1, <1>2, <1>3, <1>4, <1>5 DEF Init, TypeOK

LEMMA NextType == TypeOK /\ [Next]_vars => TypeOK'
<1> SUFFICES ASSUME TypeOK, [Next]_vars PROVE TypeOK'  OBVIOUS
<1> USE AcceptingType
<1>1. ASSUME NEW k \in Calls, NEW p \in People, NEW d \in Decisions, SetConsent(k, p, d)
      PROVE TypeOK'
  <2>1. left' \in Bounds  BY <1>1, SpendKeepsBounds DEF SetConsent
  <2>2. [pc |-> "publish", own |-> {p}, list |-> IF d = "accept" THEN {p} ELSE {},
         flag |-> "keep", tell |-> status \in Active] \in Handlers
    BY DEF Handlers, PauseFlags
  <2>3. call' \in [Calls -> Handlers]  BY <1>1, <2>2 DEF SetConsent, TypeOK
  <2>4. consent' \in [People -> Decisions \cup {"none"}]  BY <1>1 DEF SetConsent, TypeOK
  <2>5. ever' \subseteq People  BY <1>1 DEF SetConsent, TypeOK
  <2> QED  BY <1>1, <2>1, <2>3, <2>4, <2>5 DEF SetConsent, TypeOK
<1>2. ASSUME NEW k \in Calls, NEW flag \in PauseFlags \ {"keep"}, PauseSession(k, flag)
      PROVE TypeOK'
  <2>1. left' \in Bounds  BY <1>2, SpendKeepsBounds DEF PauseSession
  <2>2. [pc |-> "publish", own |-> {}, list |-> {}, flag |-> flag, tell |-> TRUE] \in Handlers
    BY DEF Handlers
  <2>3. call' \in [Calls -> Handlers]  BY <1>2, <2>2 DEF PauseSession, TypeOK
  <2> QED  BY <1>2, <2>1, <2>3 DEF PauseSession, TypeOK
<1>3. ASSUME NEW k \in Calls, Published(k) PROVE TypeOK'
  <2>1. call[k] \in Handlers  BY DEF TypeOK
  <2>2. [call[k] EXCEPT !.pc = "patch", !.list = (Accepting \ call[k].own) \cup call[k].list] \in Handlers
    BY <2>1 DEF Handlers
  <2>3. NoCall \in Handlers  BY DEF NoCall, Handlers, PauseFlags
  <2>4. call' \in [Calls -> Handlers]  BY <1>3, <2>2, <2>3 DEF Published, TypeOK
  <2> QED  BY <1>3, <2>4 DEF Published, TypeOK
<1>4. ASSUME NEW k \in Calls, Patched(k) PROVE TypeOK'
  <2>1. call[k].list \in SUBSET People /\ call[k].flag \in PauseFlags  BY DEF TypeOK, Handlers
  <2>2. left' \in Bounds  BY <1>4, SpendKeepsBounds DEF Patched, TypeOK
  <2>3. agent' \in Agents /\ (agent'.state = "off" => agent' = Gone)
    BY <1>4, <2>1, ToldType DEF Patched, TypeOK
  <2>4. call' \in [Calls -> Handlers]
    BY <1>4 DEF Patched, TypeOK, NoCall, Handlers, PauseFlags
  <2> QED  BY <1>4, <2>2, <2>3, <2>4 DEF Patched, TypeOK, Gone
<1>5. CASE StartSession  BY <1>5 DEF StartSession, TypeOK, Gone
<1>6. CASE EndSession  BY <1>6 DEF EndSession, TypeOK, Gone
<1>7. CASE Finalize  BY <1>7 DEF Finalize, TypeOK, Agents, Gone
<1>8. CASE RoundReads  BY <1>8 DEF RoundReads, TypeOK, Rounds, Gone
<1>9. CASE RoundLooks
  <2>1. left' \in Bounds  BY <1>9, SpendKeepsBounds DEF RoundLooks, TypeOK
  <2>2. round' \in Rounds  BY <1>9 DEF RoundLooks, TypeOK, Rounds
  <2> QED  BY <1>9, <2>1, <2>2 DEF RoundLooks, TypeOK, Gone
<1>10. CASE RoundStarts
  <2>1. left' \in Bounds  BY <1>10, SpendKeepsBounds DEF RoundStarts, TypeOK
  <2>2. agent' \in Agents /\ (agent'.state = "off" => agent' = Gone)
    BY <1>10 DEF RoundStarts, TypeOK, Agents, Rounds
  <2>3. round' \in Rounds /\ started' \in BOOLEAN
    BY <1>10 DEF RoundStarts, TypeOK, Rounds, NoRound
  <2> QED  BY <1>10, <2>1, <2>2, <2>3 DEF RoundStarts, TypeOK, Gone
<1>11. CASE RoundPatches
  <2> DEFINE flag == IF round.paused THEN "pause" ELSE "resume"
  <2>1. round.list \in SUBSET People /\ flag \in PauseFlags  BY DEF TypeOK, Rounds, PauseFlags
  <2>2. left' \in Bounds  BY <1>11, SpendKeepsBounds DEF RoundPatches, TypeOK
  <2>3. agent' = Told(round.list, flag) \/ agent' = agent  BY <1>11 DEF RoundPatches
  <2> HIDE DEF flag
  <2>4. agent' \in Agents /\ (agent'.state = "off" => agent' = Gone)
    BY <2>1, <2>3, ToldType DEF TypeOK
  <2>5. round' \in Rounds /\ started' \in BOOLEAN
    BY <1>11 DEF RoundPatches, TypeOK, Rounds, NoRound
  <2> QED  BY <1>11, <2>2, <2>4, <2>5 DEF RoundPatches, TypeOK, Gone
<1>12. ASSUME NEW p \in People, Hear(p) PROVE TypeOK'
  <2>1. left' \in Bounds  BY <1>12, SpendKeepsBounds DEF Hear
  <2>2. speech' \subseteq Utterances  BY <1>12 DEF Hear, TypeOK, Utterances
  <2> QED  BY <1>12, <2>1, <2>2 DEF Hear, TypeOK, Gone
<1>13. ASSUME NEW u \in speech, Ingest(u) PROVE TypeOK'
  BY <1>13 DEF Ingest, TypeOK, Gone
<1>14. CASE AgentCrashes
  <2>1. left' \in Bounds  BY <1>14, SpendKeepsBounds DEF AgentCrashes
  <2> QED  BY <1>14, <2>1 DEF AgentCrashes, TypeOK, Agents, Gone
<1>15. CASE UNCHANGED vars  BY <1>15 DEF vars, TypeOK, Gone
<1> QED
  BY <1>1, <1>2, <1>3, <1>4, <1>5, <1>6, <1>7, <1>8, <1>9, <1>10, <1>11, <1>12, <1>13, <1>14, <1>15
  DEF Next, Runner

\* Every variable keeps its type: lists are lists of people, and a session
\* the agent does not run holds nothing.
THEOREM TypeCorrect == Spec => []TypeOK
<1>1. Init => TypeOK  BY InitType
<1>2. TypeOK /\ [Next]_vars => TypeOK'  BY NextType
<1> QED  BY <1>1, <1>2, PTL DEF Spec

----------------------------------------------------------------------------
LEMMA NextCovers == TypeOK /\ EverCovers /\ [Next]_vars => EverCovers'
<1> SUFFICES ASSUME TypeOK, EverCovers, [Next]_vars PROVE EverCovers'  OBVIOUS
<1>0. ASSUME UNCHANGED <<consent, ever>> PROVE Accepting' \subseteq ever'
  BY <1>0 DEF Accepting, EverCovers
<1>1. ASSUME NEW k \in Calls, NEW p \in People, NEW d \in Decisions, SetConsent(k, p, d)
      PROVE EverCovers'
  <2>1. ever \subseteq ever' /\ (d = "accept" => p \in ever')  BY <1>1 DEF SetConsent
  <2>2. Accepting' \subseteq ever'  BY <1>1, <2>1 DEF SetConsent, Accepting, EverCovers, TypeOK
  <2>3. \A l \in Calls : call'[l].list \subseteq ever'
    BY <1>1, <2>1 DEF SetConsent, EverCovers, TypeOK
  <2> QED  BY <1>1, <2>1, <2>2, <2>3 DEF SetConsent, EverCovers
<1>2. ASSUME NEW k \in Calls, NEW flag \in PauseFlags \ {"keep"}, PauseSession(k, flag)
      PROVE EverCovers'
  BY <1>2, <1>0 DEF PauseSession, EverCovers, TypeOK
<1>3. ASSUME NEW k \in Calls, Published(k) PROVE EverCovers'
  <2>1. \A l \in Calls : call'[l].list \subseteq ever
    BY <1>3 DEF Published, EverCovers, TypeOK, Handlers, NoCall
  <2> QED  BY <1>3, <2>1, <1>0 DEF Published, EverCovers
<1>4. ASSUME NEW k \in Calls, Patched(k) PROVE EverCovers'
  <2>1. call[k].list \in SUBSET People /\ call[k].flag \in PauseFlags  BY DEF TypeOK, Handlers
  <2>2. agent'.accepted \subseteq agent.accepted \cup call[k].list
    BY <1>4, <2>1, ToldType DEF Patched
  <2>3. \A l \in Calls : call'[l].list \subseteq ever
    BY <1>4 DEF Patched, EverCovers, TypeOK, NoCall
  <2> QED  BY <1>4, <2>2, <2>3, <1>0 DEF Patched, EverCovers
<1>5. CASE StartSession  BY <1>5, <1>0 DEF StartSession, EverCovers
<1>6. CASE EndSession  BY <1>6, <1>0 DEF EndSession, EverCovers
<1>7. CASE Finalize
  <2>1. agent'.accepted = agent.accepted  BY <1>7 DEF Finalize, TypeOK, Agents
  <2> QED  BY <1>7, <2>1, <1>0 DEF Finalize, EverCovers
<1>8. CASE RoundReads  BY <1>8, <1>0 DEF RoundReads, EverCovers
<1>9. CASE RoundLooks
  <2>1. round'.list = round.list  BY <1>9 DEF RoundLooks, TypeOK, Rounds
  <2> QED  BY <1>9, <2>1, <1>0 DEF RoundLooks, EverCovers
<1>10. CASE RoundStarts
  <2>1. agent'.accepted \subseteq ever  BY <1>10 DEF RoundStarts, EverCovers
  <2> QED  BY <1>10, <2>1, <1>0 DEF RoundStarts, EverCovers, NoRound
<1>11. CASE RoundPatches
  <2> DEFINE flag == IF round.paused THEN "pause" ELSE "resume"
  <2>1. round.list \in SUBSET People /\ flag \in PauseFlags  BY DEF TypeOK, Rounds, PauseFlags
  <2>2. agent' = Told(round.list, flag) \/ agent' = agent  BY <1>11 DEF RoundPatches
  <2> HIDE DEF flag
  <2>3. agent'.accepted \subseteq ever  BY <2>1, <2>2, ToldType DEF EverCovers
  <2> QED  BY <1>11, <2>3, <1>0 DEF RoundPatches, EverCovers, NoRound
<1>12. ASSUME NEW p \in People, Hear(p) PROVE EverCovers'
  BY <1>12, <1>0 DEF Hear, EverCovers
<1>13. ASSUME NEW u \in speech, Ingest(u) PROVE EverCovers'
  BY <1>13, <1>0 DEF Ingest, EverCovers
<1>14. CASE AgentCrashes  BY <1>14, <1>0 DEF AgentCrashes, EverCovers, Gone
<1>15. CASE UNCHANGED vars  BY <1>15, <1>0 DEF vars, EverCovers
<1> QED
  BY <1>1, <1>2, <1>3, <1>4, <1>5, <1>6, <1>7, <1>8, <1>9, <1>10, <1>11, <1>12, <1>13, <1>14, <1>15
  DEF Next, Runner

\* Nobody is heard, waits for delivery or has a stored segment who has never
\* accepted, whatever lists are in flight: the code's default-deny.
THEOREM DefaultDenyHolds == Spec => []DefaultDeny
<1>1. Init => EverCovers
  BY DEF Init, EverCovers, Accepting, Gone, NoRound, NoCall
<1>2. TypeOK /\ EverCovers /\ [Next]_vars => EverCovers'  BY NextCovers
<1>3. EverCovers => DefaultDeny  BY DEF EverCovers, DefaultDeny
<1> QED  BY <1>1, <1>2, <1>3, TypeCorrect, PTL DEF Spec

\* From the commit of an opt-out until the next acceptance ingest stores
\* nothing of that person.
THEOREM OptOutStandsHolds == Spec => OptOutStands
<1>1. [Next]_vars => [\A p \in People : consent[p] # "accept" => StoredOf(p)' = StoredOf(p)]_vars
  <2> SUFFICES ASSUME Next, NEW p \in People, consent[p] # "accept"
               PROVE  StoredOf(p)' = StoredOf(p)
    OBVIOUS
  <2>1. CASE \E v \in speech : Ingest(v)  BY <2>1 DEF Ingest, StoredOf
  <2>2. CASE rows' = rows  BY <2>2 DEF StoredOf
  <2> QED
    BY <2>1, <2>2 DEF Next, Runner, SetConsent, PauseSession, Published, Patched, StartSession,
       EndSession, Finalize, RoundReads, RoundLooks, RoundStarts, RoundPatches, Hear, AgentCrashes
<1> QED  BY <1>1, PTL DEF Spec, OptOutStands
=============================================================================
