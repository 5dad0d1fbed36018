-------------------------- MODULE StateSyncProofs --------------------------
(***************************************************************************)
(* For any rows and any bounds: the state protocol implements what Board   *)
(* promises, by an invariant that says of the database, of every snapshot  *)
(* on its way and of the board that it covers the version it carries.      *)
(***************************************************************************)
EXTENDS StateSync, TLAPS

Covers(s, v) == \A p \in Parts, u \in 1..v : p \in changes[u] => s[p] >= u

(* What a request has read so far covers the version it read first. *)
Sound(r) ==
    /\ r.stage = "versioned" => \A u \in 1..r.v : "live" \in changes[u] => r.live >= u
    /\ r.stage = "reply" => Covers(r.shown, r.v)

IInv ==
    /\ TypeOK
    /\ Covers(last, Version)
    /\ Covers(shown, at)
    /\ Sound(load) /\ Sound(fetch)

-----------------------------------------------------------------------------
(* Types. *)

LEMMA SameTypes ==
    ASSUME UNCHANGED changes
    PROVE  /\ Version' = Version /\ Versions' = Versions /\ Shown' = Shown
           /\ Requests' = Requests /\ Message' = Message /\ Sending' = Sending
BY DEF Version, Versions, Shown, Requests, Message, Sending

LEMMA MoreTypes ==
    ASSUME TypeOK, NEW S \in SUBSET Parts, changes' = Append(changes, S)
    PROVE  /\ Version' = Version + 1 /\ Version \in Nat
           /\ Versions \subseteq Versions' /\ Shown \subseteq Shown'
           /\ Requests \subseteq Requests' /\ Message \subseteq Message'
           /\ Sending \subseteq Sending'
<1>1. Version' = Version + 1 /\ Version \in Nat  BY DEF TypeOK, Version
<1>2. Versions \subseteq Versions'  BY <1>1 DEF Versions
<1>3. Shown \subseteq Shown'  BY <1>2 DEF Shown
<1>4. Requests \subseteq Requests'
  <2> SUFFICES ASSUME NEW r \in Requests PROVE r \in Requests'  OBVIOUS
  <2>1. CASE r \in [stage : {"versioned"}, v : Versions, live : Versions]  BY <1>2, <2>1 DEF Requests
  <2>2. CASE r \in [stage : {"reply"}, v : Versions, shown : Shown]  BY <1>2, <1>3, <2>2 DEF Requests
  <2> QED  BY <2>1, <2>2 DEF Requests
<1>5. Message \subseteq Message'  BY <1>2 DEF Message
<1>6. Sending \subseteq Sending'  BY <1>2 DEF Sending
<1> QED  BY <1>1, <1>2, <1>3, <1>4, <1>5, <1>6

LEMMA NoneAsked == None \in Requests /\ Asked \in Requests /\ None # Asked
BY DEF None, Asked, Requests

LEMMA RefetchType ==
    ASSUME TypeOK, UNCHANGED changes, Refetch \/ NoRefetch
    PROVE  load' \in Requests /\ fetch' \in Requests /\ again' \in BOOLEAN
BY NoneAsked DEF TypeOK, Refetch, NoRefetch, requests

LEMMA InitType == Init => TypeOK
<1> SUFFICES ASSUME Init PROVE TypeOK  OBVIOUS
<1>1. Version = 0 /\ 0 \in Versions  BY DEF Init, Version, Versions
<1>2. last \in Shown /\ shown \in Shown  BY <1>1 DEF Init, Shown
<1>3. changes \in Seq(SUBSET Parts) /\ net \in Seq(Message)  BY DEF Init
<1>4. Version <= MaxVersion /\ asked \in 0..Writes /\ faults \in 0..Faults  BY <1>1, Bounds DEF Init
<1>5. at \in Versions \cup {-1} /\ heard \in Versions \cup {-1} /\ want \in Versions  BY <1>1 DEF Init
<1>6. sending \subseteq Sending /\ writes \subseteq Versions /\ pending \subseteq Versions /\ missed \subseteq Versions
  BY DEF Init
<1>7. load \in Requests /\ fetch \in Requests  BY NoneAsked DEF Init
<1>8. again \in BOOLEAN /\ crossed \in BOOLEAN /\ connected \in BOOLEAN  BY DEF Init
<1> QED  BY <1>2, <1>3, <1>4, <1>5, <1>6, <1>7, <1>8 DEF TypeOK

LEMMA PublishType ==
    ASSUME TypeOK, NEW S \in SUBSET Parts, NEW fits \in BOOLEAN, NEW mine \in BOOLEAN,
           Publish(S, fits, mine)
    PROVE  TypeOK'
<1>1. changes' = Append(changes, S)  BY DEF Publish
<1>2. changes' \in Seq(SUBSET Parts) /\ Version' <= MaxVersion
  BY <1>1, MoreTypes, Bounds DEF Publish, TypeOK
<1>3. Version + 1 \in Versions'  BY <1>1, MoreTypes DEF Versions
<1>4. last' \in Shown'
  <2>1. \A p \in Parts : last[p] \in Versions'  BY <1>1, MoreTypes DEF TypeOK, Shown
  <2> QED  BY <1>3, <2>1 DEF Publish, Shown
<1>5. sending' \subseteq Sending'
  BY <1>1, <1>3, MoreTypes DEF Publish, TypeOK, Sending
<1>6. net' \in Seq(Message')
  <2>1. Message \subseteq Message'  BY <1>1, MoreTypes
  <2>2. net \in Seq(Message')  BY <2>1 DEF TypeOK
  <2> QED  BY <2>2 DEF Publish
<1>7. asked' \in 0..Writes  BY Bounds DEF Publish, TypeOK
<1> QED  BY <1>1, <1>2, <1>4, <1>5, <1>6, <1>7, MoreTypes
         DEF Publish, TypeOK, browser, requests, timers, told

LEMMA FaultType == TypeOK /\ Fault => faults' \in 0..Faults
BY Bounds DEF TypeOK, Fault

LEMMA SendType ==
    ASSUME TypeOK, NEW m \in sending, Send(m)
    PROVE  TypeOK'
<1>1. UNCHANGED changes  BY DEF Send, server
<1>2. m \in Sending  BY DEF TypeOK
<1>3. sending' \subseteq Sending
  BY <1>2 DEF Send, After, Sending, TypeOK
<1>4. net' \in Seq(Message)
  <2>1. [kind |-> m.kind, v |-> m.v, delta |-> m.delta] \in Message
    BY <1>2 DEF Send, Sending, Message
  <2>2. net \in Seq(Message)  BY DEF TypeOK
  <2>3. Append(net, [kind |-> m.kind, v |-> m.v, delta |-> m.delta]) \in Seq(Message)  BY <2>1, <2>2
  <2>4. net' = net \/ net' = Append(net, [kind |-> m.kind, v |-> m.v, delta |-> m.delta])  BY DEF Send
  <2> QED  BY <2>2, <2>3, <2>4
<1>5. faults' \in 0..Faults  BY FaultType DEF Send, TypeOK
<1> QED  BY <1>1, <1>3, <1>4, <1>5, SameTypes
         DEF Send, TypeOK, server, browser, requests, timers, told

LEMMA ReplyType ==
    ASSUME TypeOK, NEW m \in sending, Reply(m)
    PROVE  TypeOK'
<1>1. UNCHANGED changes  BY DEF Reply, server
<1>2. m.v \in Versions  BY DEF TypeOK, Sending
<1>3. heard' \in Versions \cup {-1}  BY <1>2 DEF Reply, Later, TypeOK
<1> QED  BY <1>1, <1>2, <1>3, SameTypes
         DEF Reply, TypeOK, server, browser, requests, timers, told

LEMMA TimerType ==
    ASSUME TypeOK, (\E v \in writes : WriteTimer(v)) \/ PositionTimer
    PROVE  TypeOK'
<1>1. UNCHANGED changes  BY DEF WriteTimer, PositionTimer, server
<1>2. Refetch \/ NoRefetch  BY DEF WriteTimer, PositionTimer, RefetchIfBehind
<1>3. load' \in Requests /\ fetch' \in Requests /\ again' \in BOOLEAN  BY <1>1, <1>2, RefetchType
<1>4. writes' \subseteq Versions /\ want' \in Versions
  <2>1. 0 \in Versions  BY DEF TypeOK, Version, Versions
  <2>2. CASE \E v \in writes : WriteTimer(v)  BY <2>2 DEF WriteTimer, TypeOK
  <2>3. CASE PositionTimer  BY <2>1, <2>3 DEF PositionTimer, TypeOK
  <2> QED  BY <2>2, <2>3
<1> QED  BY <1>1, <1>3, <1>4, SameTypes
         DEF WriteTimer, PositionTimer, TypeOK, server, browser, requests, timers, told

LEMMA ServedType ==
    ASSUME TypeOK, NEW r \in Requests, NEW r2, Served(r, r2)
    PROVE  r2 \in Requests
<1>1. Version \in Versions  BY DEF TypeOK, Version, Versions
<1>2. last["live"] \in Versions  BY DEF TypeOK, Shown, Parts
<1>3. CASE r.stage = "asked"  BY <1>1, <1>2, <1>3 DEF Served, ReadSession, Requests
<1>4. CASE r.stage = "versioned"
  <2>1. r \in [stage : {"versioned"}, v : Versions, live : Versions]
    BY <1>4 DEF Requests, None, Asked
  <2>2. [last EXCEPT !["live"] = r.live] \in Shown  BY <2>1 DEF TypeOK, Shown
  <2>3. r2 = ReadRows(r)  BY <1>4 DEF Served
  <2>4. r.v \in Versions  BY <2>1
  <2>5. ReadRows(r) \in [stage : {"reply"}, v : Versions, shown : Shown]  BY <2>2, <2>4 DEF ReadRows
  <2> QED  BY <2>3, <2>5 DEF Requests
<1> QED  BY <1>3, <1>4 DEF Served

LEMMA ServeType == TypeOK /\ Serve => TypeOK'
<1> SUFFICES ASSUME TypeOK, Serve PROVE TypeOK'  OBVIOUS
<1>1. UNCHANGED changes  BY DEF Serve, server
<1>2. fetch' \in Requests /\ load' \in Requests
  BY ServedType DEF Serve, TypeOK
<1> QED  BY <1>1, <1>2, SameTypes DEF Serve, TypeOK, server, browser, timers, told

LEMMA HeardStateType ==
    ASSUME TypeOK, NEW m \in Message, HearState(m), UNCHANGED <<server, sending, writes, connected, asked, faults>>,
           net' \in Seq(Message)
    PROVE  TypeOK'
<1>1. UNCHANGED changes  BY DEF server
<1>2. m.v \in Versions  BY DEF Message
<1>3. load' \in Requests /\ fetch' \in Requests /\ again' \in BOOLEAN
  BY <1>1, RefetchType DEF HearState
<1>4. at' \in Versions \cup {-1} /\ shown' \in Shown
  <2>1. CASE UNCHANGED <<at, shown>>  BY <2>1 DEF TypeOK
  <2>2. CASE /\ at' = m.v
             /\ shown' = [p \in Parts |-> IF p \in changes[m.v] THEN m.v ELSE shown[p]]
    BY <1>2, <2>2 DEF TypeOK, Shown
  <2> QED  BY <2>1, <2>2 DEF HearState, browser
<1>5. pending' \subseteq Versions /\ heard' \in Versions \cup {-1}
  BY <1>2 DEF HearState, TypeOK, browser, Later
<1> QED  BY <1>1, <1>3, <1>4, <1>5, SameTypes DEF HearState, TypeOK, server

LEMMA HeardPositionType ==
    ASSUME TypeOK, NEW m \in Message, HearPosition(m), UNCHANGED <<server, sending, writes, connected, asked, faults>>,
           net' \in Seq(Message)
    PROVE  TypeOK'
<1>1. UNCHANGED changes  BY DEF server
<1>2. m.v \in Versions  BY DEF Message
<1>3. shown' \in Shown  BY <1>2 DEF HearPosition, TypeOK, Shown
<1>4. want' \in Versions /\ heard' \in Versions \cup {-1} /\ crossed' \in BOOLEAN
  BY <1>2 DEF HearPosition, TypeOK, Later
<1> QED  BY <1>1, <1>3, <1>4, SameTypes DEF HearPosition, NoRefetch, requests, TypeOK, server

LEMMA HearType == TypeOK /\ Hear => TypeOK'
<1> SUFFICES ASSUME TypeOK, Hear PROVE TypeOK'  OBVIOUS
<1>1. Head(net) \in Message /\ net' \in Seq(Message)  BY DEF Hear, TypeOK
<1> QED  BY <1>1, HeardStateType, HeardPositionType DEF Hear

LEMMA SnapshotType ==
    ASSUME TypeOK, NEW r \in Requests, r.stage = "reply", ApplySnapshot(r)
    PROVE  at' \in Versions \cup {-1} /\ shown' \in Shown
<1>1. r.v \in Versions /\ r.shown \in Shown  BY DEF Requests, None, Asked
<1> QED  BY <1>1 DEF ApplySnapshot, TypeOK

LEMMA FetchEndsType ==
    ASSUME TypeOK, FetchEnds
    PROVE  fetch' \in Requests /\ load' \in Requests /\ again' \in BOOLEAN /\ pending' \subseteq Versions
BY NoneAsked DEF FetchEnds, TypeOK

LEMMA FetchedType == TypeOK /\ Fetched => TypeOK'
<1> SUFFICES ASSUME TypeOK, Fetched PROVE TypeOK'  OBVIOUS
<1>1. UNCHANGED changes  BY DEF Fetched, server
<1>2. at' \in Versions \cup {-1} /\ shown' \in Shown  BY SnapshotType DEF Fetched, TypeOK
<1> QED  BY <1>1, <1>2, FetchEndsType, SameTypes DEF Fetched, TypeOK, server, timers, told

LEMMA LoadedType == TypeOK /\ Loaded => TypeOK'
<1> SUFFICES ASSUME TypeOK, Loaded PROVE TypeOK'  OBVIOUS
<1>1. UNCHANGED changes  BY DEF Loaded, server
<1>2. at' \in Versions \cup {-1} /\ shown' \in Shown  BY SnapshotType DEF Loaded, TypeOK
<1> QED  BY <1>1, <1>2, NoneAsked, SameTypes DEF Loaded, TypeOK, server, timers, told

LEMMA FailsType == TypeOK /\ Fails => TypeOK'
<1> SUFFICES ASSUME TypeOK, Fails PROVE TypeOK'  OBVIOUS
<1>1. UNCHANGED changes  BY DEF Fails, server
<1>2. fetch' \in Requests /\ load' \in Requests /\ again' \in BOOLEAN /\ pending' \subseteq Versions
  BY FetchEndsType, NoneAsked DEF Fails, TypeOK
<1>3. heard' \in Versions \cup {-1} /\ missed' \subseteq Versions  BY DEF Fails, TypeOK
<1> QED  BY <1>1, <1>2, <1>3, FaultType, SameTypes DEF Fails, TypeOK, server, timers

LEMMA RoomType == TypeOK /\ (Disconnect \/ Reconnect) => TypeOK'
<1> SUFFICES ASSUME TypeOK, Disconnect \/ Reconnect PROVE TypeOK'  OBVIOUS
<1>1. UNCHANGED changes  BY DEF Disconnect, Reconnect, server
<1>2. CASE Disconnect
  <2>1. net' \in Seq(Message)  BY <1>2 DEF Disconnect
  <2>2. faults' \in 0..Faults  BY <1>2, FaultType DEF Disconnect
  <2> QED  BY <1>1, <1>2, <2>1, <2>2, SameTypes
           DEF Disconnect, TypeOK, server, browser, requests, timers, told
<1>3. CASE Reconnect
  <2>1. load' \in Requests /\ fetch' \in Requests /\ again' \in BOOLEAN
    BY <1>1, <1>3, RefetchType, NoneAsked DEF Reconnect, TypeOK
  <2> QED  BY <1>1, <1>3, <2>1, SameTypes DEF Reconnect, TypeOK, server, browser, timers, told
<1> QED  BY <1>2, <1>3

LEMMA NextType == TypeOK /\ [Next]_vars => TypeOK'
<1> SUFFICES ASSUME TypeOK, [Next]_vars PROVE TypeOK'  OBVIOUS
<1>1. CASE UNCHANGED vars
  <2>1. UNCHANGED changes  BY <1>1 DEF vars, server
  <2> QED  BY <1>1, <2>1, SameTypes DEF vars, TypeOK, server, browser, requests, timers, told
<1> QED  BY <1>1, PublishType, SendType, ReplyType, ServeType, HearType, FetchedType, LoadedType,
            FailsType, TimerType, RoomType DEF Next

(* The types of the protocol, of the database, the channel and the browser. *)
THEOREM TypeCorrect == Spec => []TypeOK
<1> QED  BY InitType, NextType, PTL DEF Spec

-----------------------------------------------------------------------------
(* Covering. *)

LEMMA VersionType ==
    ASSUME TypeOK
    PROVE  /\ Version \in Nat /\ Version \in Versions
           /\ \A v \in Versions : v \in Nat /\ v <= Version
           /\ last \in [Parts -> Nat] /\ shown \in [Parts -> Nat]
           /\ at \in Int /\ at <= Version
<1>1. Version \in Nat  BY DEF TypeOK, Version
<1>2. \A v \in Versions : v \in Nat /\ v <= Version  BY <1>1 DEF Versions
<1>3. Version \in Versions  BY <1>1 DEF Versions
<1>4. last \in [Parts -> Nat] /\ shown \in [Parts -> Nat]  BY <1>2 DEF TypeOK, Shown
<1>5. at \in Int /\ at <= Version  BY <1>1, <1>2 DEF TypeOK
<1> QED  BY <1>1, <1>2, <1>3, <1>4, <1>5

LEMMA LiveIsAPart == "live" \in Parts
BY DEF Parts

(* A publication adds a version and leaves the earlier ones as they are. *)
LEMMA EarlierVersions ==
    ASSUME TypeOK, NEW S \in SUBSET Parts, changes' = Append(changes, S)
    PROVE  /\ \A u \in 1..Version : changes'[u] = changes[u]
           /\ changes'[Version + 1] = S
BY DEF TypeOK, Version

(* None and asked requests have read nothing. *)
LEMMA FreshSound == Sound(None) /\ Sound(Asked)
BY DEF Sound, None, Asked

LEMMA RequestFields ==
    ASSUME NEW r \in Requests
    PROVE  /\ r.stage = "versioned" => r.v \in Versions /\ r.live \in Versions
           /\ r.stage = "reply" => r.v \in Versions /\ r.shown \in Shown
<1>1. CASE r \in {None, Asked}  BY <1>1 DEF None, Asked
<1>2. CASE r \in [stage : {"versioned"}, v : Versions, live : Versions]  BY <1>2
<1>3. CASE r \in [stage : {"reply"}, v : Versions, shown : Shown]  BY <1>3
<1> QED  BY <1>1, <1>2, <1>3 DEF Requests

LEMMA SoundStays ==
    ASSUME TypeOK, NEW S \in SUBSET Parts, changes' = Append(changes, S),
           NEW r \in Requests, Sound(r)
    PROVE  /\ r.stage = "versioned" => \A u \in 1..r.v : "live" \in changes'[u] => r.live >= u
           /\ r.stage = "reply" => \A p \in Parts, u \in 1..r.v : p \in changes'[u] => r.shown[p] >= u
<1>1. \A u \in 1..Version : changes'[u] = changes[u]  BY EarlierVersions
<1>2. r.stage \in {"versioned", "reply"} => \A u \in 1..r.v : u \in 1..Version
  BY RequestFields, VersionType
<1>3. r.stage \in {"versioned", "reply"} => \A u \in 1..r.v : changes'[u] = changes[u]
  BY <1>1, <1>2
<1> QED  BY <1>3 DEF Sound, Covers

LEMMA PublishInv ==
    ASSUME IInv, NEW S \in SUBSET Parts, NEW fits \in BOOLEAN, NEW mine \in BOOLEAN,
           Publish(S, fits, mine)
    PROVE  IInv'
<1> USE DEF IInv
<1>1. changes' = Append(changes, S)  BY DEF Publish
<1>2. TypeOK'  BY PublishType
<1>3. /\ Version' = Version + 1
      /\ \A u \in 1..Version : changes'[u] = changes[u]
      /\ changes'[Version + 1] = S
  BY <1>1, MoreTypes, EarlierVersions
<1>4. Covers(last, Version)'
  <2> SUFFICES ASSUME NEW p \in Parts, NEW u \in 1..(Version + 1), p \in changes'[u]
               PROVE  last'[p] >= u
    BY <1>3 DEF Covers
  <2>1. Version \in Nat /\ last[p] \in Nat  BY VersionType
  <2>2. last'[p] = IF p \in S THEN Version + 1 ELSE last[p]  BY DEF Publish
  <2>3. CASE p \in S  BY <2>1, <2>2, <2>3
  <2>4. CASE p \notin S
    <3>1. u \in 1..Version  BY <1>3, <2>1, <2>4
    <3>2. p \in changes[u]  BY <1>3, <3>1
    <3> QED  BY <2>2, <2>4, <3>1, <3>2 DEF Covers
  <2> QED  BY <2>3, <2>4
<1>5. Covers(shown, at)'
  <2>1. \A u \in 1..at : u \in 1..Version  BY VersionType
  <2> QED  BY <1>3, <2>1 DEF Publish, browser, Covers
<1>6. Sound(load)' /\ Sound(fetch)'
  <2>1. load \in Requests /\ fetch \in Requests /\ UNCHANGED <<load, fetch>>
    BY DEF TypeOK, Publish, requests
  <2> QED  BY <1>1, <2>1, SoundStays DEF Sound, Covers
<1> QED  BY <1>2, <1>4, <1>5, <1>6

(* What GET /state reads covers the version it reads first, although other *)
(* handlers commit between its two reads.                                  *)
LEMMA ReadSound ==
    ASSUME TypeOK, Covers(last, Version), NEW r \in Requests, Sound(r), NEW r2, Served(r, r2)
    PROVE  Sound(r2)
<1>1. CASE r.stage = "asked"
  <2>1. r2 = [stage |-> "versioned", v |-> Version, live |-> last["live"]]
    BY <1>1 DEF Served, ReadSession
  <2> QED  BY <2>1, LiveIsAPart DEF Sound, Covers
<1>2. CASE r.stage = "versioned"
  <2>1. r2 = [stage |-> "reply", v |-> r.v, shown |-> [last EXCEPT !["live"] = r.live]]
    BY <1>2 DEF Served, ReadRows
  <2>2. \A u \in 1..r.v : u \in 1..Version  BY <1>2, RequestFields, VersionType
  <2>3. ASSUME NEW p \in Parts, NEW u \in 1..r.v, p \in changes[u]
        PROVE  r2.shown[p] >= u
    <3>1. last \in [Parts -> Nat]  BY VersionType
    <3>2. CASE p = "live"  BY <1>2, <2>1, <2>3, <3>1, <3>2 DEF Sound
    <3>3. CASE p # "live"
      <4>1. last[p] >= u  BY <2>2, <2>3 DEF Covers
      <4> QED  BY <2>1, <3>1, <3>3, <4>1
    <3> QED  BY <3>2, <3>3
  <2> QED  BY <2>1, <2>3 DEF Sound, Covers
<1> QED  BY <1>1, <1>2 DEF Served

LEMMA RequestsStaySound ==
    ASSUME UNCHANGED changes, Sound(load), Sound(fetch),
           load' \in {load, None, Asked}, fetch' \in {fetch, None, Asked}
    PROVE  Sound(load)' /\ Sound(fetch)'
<1>1. Sound(load') /\ Sound(fetch')  BY FreshSound
<1> QED  BY <1>1 DEF Sound, Covers

LEMMA SnapshotCovers ==
    ASSUME UNCHANGED changes, Covers(shown, at), NEW r, Sound(r), r.stage = "reply", ApplySnapshot(r)
    PROVE  Covers(shown, at)'
BY DEF ApplySnapshot, Sound, Covers

LEMMA MergeCovers ==
    ASSUME TypeOK, UNCHANGED changes, Covers(shown, at), NEW m, Merge(m), at' = m.v,
           shown' = [p \in Parts |-> IF p \in changes[m.v] THEN m.v ELSE shown[p]]
    PROVE  Covers(shown, at)'
<1> SUFFICES ASSUME NEW p \in Parts, NEW u \in 1..m.v, p \in changes[u]
             PROVE  shown'[p] >= u
  BY DEF Covers
<1>1. m.v = at + 1 /\ at \in Int  BY VersionType DEF Merge
<1>2. shown'[p] = IF p \in changes[m.v] THEN m.v ELSE shown[p]  OBVIOUS
<1>3. CASE p \in changes[m.v]  BY <1>1, <1>2, <1>3
<1>4. CASE p \notin changes[m.v]
  <2>1. u \in 1..at  BY <1>1, <1>4
  <2> QED  BY <1>2, <1>4, <2>1 DEF Covers
<1> QED  BY <1>3, <1>4

LEMMA PositionCovers ==
    ASSUME TypeOK, UNCHANGED <<changes, at>>, Covers(shown, at), NEW m, m.v \in Versions, m.v > at,
           shown' = [shown EXCEPT !["live"] = m.v]
    PROVE  Covers(shown, at)'
<1> SUFFICES ASSUME NEW p \in Parts, NEW u \in 1..at, p \in changes[u]
             PROVE  shown'[p] >= u
  BY DEF Covers
<1>1. shown \in [Parts -> Nat] /\ at \in Int /\ m.v \in Nat  BY VersionType
<1>2. CASE p = "live"  BY <1>1, <1>2
<1>3. CASE p # "live"  BY <1>1, <1>3 DEF Covers
<1> QED  BY <1>2, <1>3

(* A step that publishes nothing: the database stays as it is, and what is *)
(* left to show is the board and the requests.                             *)
LEMMA QuietInv ==
    ASSUME IInv, [Next]_vars, UNCHANGED server,
           Covers(shown, at)', Sound(load)', Sound(fetch)'
    PROVE  IInv'
<1>1. TypeOK'  BY NextType DEF IInv
<1>2. Covers(last, Version)'  BY DEF IInv, server, Covers, Version
<1> QED  BY <1>1, <1>2 DEF IInv

LEMMA RefetchSound ==
    ASSUME IInv, UNCHANGED changes, Refetch \/ NoRefetch
    PROVE  Sound(load)' /\ Sound(fetch)'
BY RequestsStaySound DEF IInv, Refetch, NoRefetch, requests

LEMMA BoardStays ==
    ASSUME IInv, UNCHANGED <<changes, at, shown>>
    PROVE  Covers(shown, at)'
BY DEF IInv, Covers

LEMMA ServeInv == IInv /\ Serve => IInv'
<1> SUFFICES ASSUME IInv, Serve PROVE IInv'  OBVIOUS
<1>1. UNCHANGED <<changes, at, shown>> /\ UNCHANGED server  BY DEF Serve, server, browser
<1>2. Covers(shown, at)'  BY <1>1, BoardStays
<1>3. Sound(load') /\ Sound(fetch')  BY ReadSound DEF IInv, TypeOK, Serve
<1>4. Sound(load)' /\ Sound(fetch)'  BY <1>1, <1>3 DEF Sound, Covers
<1> QED  BY <1>1, <1>2, <1>4, QuietInv DEF Next

LEMMA HearInv == IInv /\ Hear => IInv'
<1> SUFFICES ASSUME IInv, Hear PROVE IInv'  OBVIOUS
<1>1. UNCHANGED changes /\ UNCHANGED server  BY DEF Hear, server
<1> DEFINE m == Head(net)
<1>2. m \in Message  BY DEF IInv, TypeOK, Hear
<1>3. m.v \in Versions  BY <1>2 DEF Message
<1> HIDE DEF m
<1>4. HearState(m) \/ HearPosition(m)  BY DEF Hear, m
<1>5. Sound(load)' /\ Sound(fetch)'  BY <1>1, <1>4, RefetchSound DEF HearState, HearPosition
<1>6. Covers(shown, at)'
  <2>1. CASE UNCHANGED <<at, shown>>  BY <1>1, <2>1, BoardStays
  <2>2. CASE HearState(m) /\ ~UNCHANGED <<at, shown>>
    BY <1>1, <2>2, MergeCovers DEF HearState, IInv, browser
  <2>3. CASE HearPosition(m) /\ ~UNCHANGED <<at, shown>>
    BY <1>1, <1>3, <2>3, PositionCovers DEF HearPosition, IInv
  <2> QED  BY <1>4, <2>1, <2>2, <2>3
<1> QED  BY <1>1, <1>5, <1>6, QuietInv DEF Next

LEMMA ReturnInv == IInv /\ (Fetched \/ Loaded) => IInv'
<1> SUFFICES ASSUME IInv, Fetched \/ Loaded PROVE IInv'  OBVIOUS
<1>1. UNCHANGED changes /\ UNCHANGED server  BY DEF Fetched, Loaded, server
<1>2. Covers(shown, at)'  BY <1>1, SnapshotCovers DEF Fetched, Loaded, IInv
<1>3. load' \in {load, None, Asked} /\ fetch' \in {fetch, None, Asked}
  BY DEF Fetched, Loaded, FetchEnds
<1>4. Sound(load)' /\ Sound(fetch)'  BY <1>1, <1>3, RequestsStaySound DEF IInv
<1> QED  BY <1>1, <1>2, <1>4, QuietInv DEF Next

LEMMA OtherInv ==
    ASSUME IInv,
           \/ \E m \in sending : Send(m) \/ Reply(m)
           \/ \E v \in writes : WriteTimer(v)
           \/ PositionTimer \/ Fails \/ Disconnect \/ Reconnect
    PROVE  IInv'
<1>1. UNCHANGED <<changes, at, shown>> /\ UNCHANGED server
  BY DEF Send, Reply, WriteTimer, PositionTimer, Fails, Disconnect, Reconnect, server, browser,
         RefetchIfBehind
<1>2. Covers(shown, at)'  BY <1>1, BoardStays
<1>3. load' \in {load, None, Asked} /\ fetch' \in {fetch, None, Asked}
  BY DEF Send, Reply, WriteTimer, PositionTimer, Fails, Disconnect, Reconnect, RefetchIfBehind,
         Refetch, NoRefetch, FetchEnds, requests
<1>4. Sound(load)' /\ Sound(fetch)'  BY <1>1, <1>3, RequestsStaySound DEF IInv
<1> QED  BY <1>1, <1>2, <1>4, QuietInv DEF Next

LEMMA StutterInv == IInv /\ UNCHANGED vars => IInv'
<1> SUFFICES ASSUME IInv, UNCHANGED vars PROVE IInv'  OBVIOUS
<1>1. UNCHANGED <<changes, at, shown>> /\ UNCHANGED server /\ UNCHANGED <<load, fetch>>
  BY DEF vars, server, browser, requests
<1>2. Covers(shown, at)'  BY <1>1, BoardStays
<1>3. Sound(load)' /\ Sound(fetch)'  BY <1>1, RequestsStaySound DEF IInv
<1> QED  BY <1>1, <1>2, <1>3, QuietInv

LEMMA InitInv == Init => IInv
<1> SUFFICES ASSUME Init PROVE IInv  OBVIOUS
<1>1. TypeOK  BY InitType
<1>2. Version = 0 /\ at = -1 /\ load = Asked /\ fetch = None  BY DEF Init, Version
<1>3. Covers(last, Version) /\ Covers(shown, at)  BY <1>2 DEF Covers
<1> QED  BY <1>1, <1>2, <1>3, FreshSound DEF IInv

LEMMA NextInv == IInv /\ [Next]_vars => IInv'
BY PublishInv, ServeInv, HearInv, ReturnInv, OtherInv, StutterInv DEF Next

LEMMA Invariant == Spec => []IInv
BY InitInv, NextInv, PTL DEF Spec

-----------------------------------------------------------------------------
(* The refinement. *)

(* The board never goes back to an earlier version. *)
LEMMA NeverBack == IInv /\ [Next]_vars => at' >= at
<1> SUFFICES ASSUME IInv, [Next]_vars PROVE at' >= at  OBVIOUS
<1>1. at \in Int  BY VersionType DEF IInv
<1>2. CASE UNCHANGED at  BY <1>1, <1>2
<1>3. CASE Fetched \/ Loaded
  <2>1. PICK r \in {fetch, load} : r.stage = "reply" /\ ApplySnapshot(r)  BY <1>3 DEF Fetched, Loaded
  <2>2. r.v \in Nat  BY <2>1, RequestFields, VersionType DEF IInv, TypeOK
  <2> QED  BY <1>1, <2>1, <2>2 DEF ApplySnapshot
<1>4. CASE Hear
  BY <1>1, <1>4 DEF Hear, HearState, HearPosition, Merge, browser
<1> QED  BY <1>2, <1>3, <1>4
         DEF Next, Publish, Send, Reply, Serve, WriteTimer, PositionTimer, Fails, Disconnect, Reconnect,
             vars, browser

(* Only a publication changes the state, and it leaves the board alone. *)
LEMMA OnlyPublications ==
    [Next]_vars => \/ UNCHANGED changes
                   \/ /\ \E S \in SUBSET Parts : changes' = Append(changes, S)
                      /\ UNCHANGED <<at, shown>>
BY DEF Next, Publish, Send, Reply, Serve, Hear, Fetched, Loaded, WriteTimer, PositionTimer, Fails,
       Disconnect, Reconnect, vars, server, browser

LEMMA StepPromise == IInv /\ IInv' /\ [Next]_vars => [Promise!Next]_(Promise!board)
<1> SUFFICES ASSUME IInv, IInv', [Next]_vars PROVE Promise!Next \/ UNCHANGED Promise!board
  BY DEF Promise!board
<1>1. CASE UNCHANGED changes
  <2>1. at' \in at..Len(changes)
    <3>1. at \in Int /\ at' \in Int /\ at' <= Version'
      BY VersionType, NextType, <1>1 DEF IInv, TypeOK, Versions, Version
    <3> QED  BY <1>1, <3>1, NeverBack DEF Version
  <2>2. shown' \in [Parts -> 0..Len(changes)]
    BY <1>1, SameTypes DEF IInv, TypeOK, Shown, Versions, Version
  <2>3. Promise!Covers(shown', at')  BY <1>1 DEF IInv, Covers, Promise!Covers
  <2>4. Promise!Show  BY <1>1, <2>1, <2>2, <2>3 DEF Promise!Show
  <2> QED  BY <2>4 DEF Promise!Next
<1>2. CASE ~UNCHANGED changes
  BY <1>2, OnlyPublications DEF Promise!Next, Promise!Change
<1> QED  BY <1>1, <1>2

(* The state protocol implements the promise to a browser: every step either *)
(* publishes a version, or leaves the board with no earlier version than     *)
(* before and with every change up to the one it has.                        *)
THEOREM KeepsPromise == Spec => Implements
<1>1. Init => Promise!Init  BY DEF Init, Promise!Init
<1> QED  BY <1>1, Invariant, StepPromise, PTL DEF Spec, Implements, Promise!Spec
=============================================================================
