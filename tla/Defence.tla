-------------------------------- MODULE Defence --------------------------------
(***************************************************************************)
(* What keeps one address from asking too often: the sliding window in     *)
(* Redis (services/rate_limit.py), the intrusion detector with its         *)
(* temporary blocks (intrusion_detector.py), and the block list of the     *)
(* administrators with its copy in memory and its counts (ip_block.py,     *)
(* admin.py).  A check reads the clock before Redis does its work.         *)
(***************************************************************************)
EXTENDS Naturals, Sequences, FiniteSets

CONSTANTS
  Limit, Window,           \* of a bucket
  Threshold, Cap, Block,   \* of the detector; its windows are taken as long as the bucket's
  Admins,                  \* changes of the block list under way at once
  MaxNow, MaxRequests, MaxChanges, MaxFaults   \* bounds

VARIABLES
  now,
  zset,       \* the bucket: its entries, each of its own: [at : its stamp, nth : of that stamp]
  stamp,      \* the check under way: the time it has read
  accepted,   \* history: the entries of the checks that have passed
  slow,       \* history: the clock moved on during a check, or Redis was down
  ring,       \* the detector's events of the address, in order
  blockedTo,  \* _temp_blocks: until when
  listed,     \* the address's row in blocked_ips
  cached,     \* it is in _cache
  reload,     \* the administrators' reloads: what each has read
  crossed,    \* history: two of them overlapped, or one failed
  hits,       \* refused requests: in _hits and in block_count
  requests, changes, faults

bucket == <<zset, stamp, accepted, slow>>
detector == <<ring, blockedTo>>
list == <<listed, cached, reload, crossed>>
vars == <<now, bucket, detector, list, hits, requests, changes, faults>>

Times == 0..MaxNow
NoStamp == MaxNow + 1
Kinds == {"login", "path"}
Entry == [at : Times, nth : 0..MaxRequests]

TypeOK ==
  /\ now \in Times
  /\ zset \subseteq Entry /\ accepted \subseteq Entry
  /\ stamp \in Times \cup {NoStamp} /\ slow \in BOOLEAN
  /\ ring \in Seq([kind : Kinds, at : Times]) /\ Len(ring) <= Cap
  /\ blockedTo \in 0..(MaxNow + Block)
  /\ listed \in {"none", "enabled", "off"} /\ cached \in BOOLEAN
  /\ reload \in [Admins -> {"none", "committed", "in", "out"}]
  /\ crossed \in BOOLEAN
  /\ hits \in [memory : Nat, row : Nat]
  /\ requests \in 0..MaxRequests /\ changes \in 0..MaxChanges /\ faults \in 0..MaxFaults

Init ==
  /\ now = 0
  /\ zset = {} /\ accepted = {} /\ stamp = NoStamp /\ slow = FALSE
  /\ ring = <<>> /\ blockedTo = 0
  /\ listed = "none" /\ cached = FALSE /\ reload = [a \in Admins |-> "none"] /\ crossed = FALSE
  /\ hits = [memory |-> 0, row |-> 0]
  /\ requests = 0 /\ changes = 0 /\ faults = 0

Tick ==
  /\ now < MaxNow /\ now' = now + 1
  /\ slow' = (slow \/ stamp # NoStamp)
  /\ UNCHANGED <<zset, stamp, accepted, detector, list, hits, requests, changes, faults>>

Ask == requests < MaxRequests /\ requests' = requests + 1
Fault == faults < MaxFaults /\ faults' = faults + 1

(* is_blocked, of a single range, by the copy in memory.                    *)
Listed == cached

(* is_temp_blocked *)
Blocked == blockedTo > now

(* IPBlockMiddleware refuses an address that is listed, and counts it.      *)
LetThrough == ~Listed /\ ~Blocked

Refused ==
  /\ Listed /\ Ask
  /\ hits' = [hits EXCEPT !.memory = @ + 1]
  /\ UNCHANGED <<now, bucket, detector, list, changes, faults>>

-----------------------------------------------------------------------------
(* rate_limit.check reads the clock,                                        *)
Looks ==
  /\ LetThrough /\ stamp = NoStamp /\ Ask
  /\ stamp' = now
  /\ UNCHANGED <<now, zset, accepted, slow, detector, list, hits, changes, faults>>

(* Mutant: the whole window is counted before it is trimmed to one less.    *)
OneMore(count) == count <= Limit

Passes(count) == count < Limit

(* and has Redis drop what is too old, count, and add the check, whether it *)
(* passes or not.  Its entry has an ULID beside the stamp: no two checks    *)
(* are one entry.                                                           *)
Check ==
  [at |-> stamp, nth |-> CHOOSE n \in 0..MaxRequests : [at |-> stamp, nth |-> n] \notin zset \cup accepted]

Counts ==
  /\ stamp # NoStamp
  /\ LET kept == {e \in zset : e.at + Window > stamp}
     IN /\ zset' = kept \cup {Check}
        /\ accepted' = IF Passes(Cardinality(kept)) THEN accepted \cup {Check} ELSE accepted
  /\ stamp' = NoStamp
  /\ UNCHANGED <<now, slow, detector, list, hits, requests, changes, faults>>

(* While Redis is down everything passes.                                   *)
RedisDown ==
  /\ stamp # NoStamp /\ Fault
  /\ accepted' = accepted \cup {Check}
  /\ stamp' = NoStamp /\ slow' = TRUE
  /\ UNCHANGED <<now, zset, detector, list, hits, requests, changes>>

-----------------------------------------------------------------------------
(* The detector: _trim, then _evaluate unless the address is blocked; what  *)
(* is recorded may come of a request from before the block.                 *)
Trimmed(events) ==
  SelectSeq(IF Len(events) > Cap THEN Tail(events) ELSE events, LAMBDA e : e.at + 2 * Window >= now)

Recent(events, kind) == Len(SelectSeq(events, LAMBDA e : e.kind = kind /\ e.at + Window >= now))

(* _evaluate: some kind of event has come too often.                        *)
Suspect(events) == \E k \in Kinds : Recent(events, k) >= Threshold

Record(kind) ==
  /\ Ask
  /\ ring' = Trimmed(Append(ring, [kind |-> kind, at |-> now]))
  /\ blockedTo' = IF ~Blocked /\ Suspect(ring') THEN now + Block ELSE blockedTo
  /\ UNCHANGED <<now, bucket, list, hits, changes, faults>>

(* An administrator takes the temporary block away; the events stay.        *)
Change == changes < MaxChanges /\ changes' = changes + 1

Unblock ==
  /\ Blocked /\ Change
  /\ blockedTo' = 0
  /\ UNCHANGED <<now, bucket, ring, list, hits, requests, faults>>

-----------------------------------------------------------------------------
(* add_blocked_ip, update_blocked_ip, delete_blocked_ip: the row is         *)
(* committed, then the table is read, then the copy replaced.               *)
Commits(a) ==
  /\ reload[a] = "none" /\ Change
  /\ listed' \in {"none", "enabled", "off"} \ {listed}
  /\ listed = "none" => listed' = "enabled"
  /\ hits' = IF listed' = "none" THEN [hits EXCEPT !.row = 0] ELSE hits
  /\ reload' = [reload EXCEPT ![a] = "committed"]
  /\ crossed' = (crossed \/ \E b \in Admins : reload[b] # "none")
  /\ UNCHANGED <<now, bucket, detector, cached, requests, faults>>

(* Mutant: a range that was switched off is read all the same.              *)
OnTheList == listed # "none"

Enabled == listed = "enabled"

Reads(a) ==
  /\ reload[a] = "committed"
  /\ reload' = [reload EXCEPT ![a] = IF Enabled THEN "in" ELSE "out"]
  /\ UNCHANGED <<now, bucket, detector, listed, cached, crossed, hits, requests, changes, faults>>

Replaces(a) ==
  /\ reload[a] \in {"in", "out"}
  /\ cached' = (reload[a] = "in")
  /\ reload' = [reload EXCEPT ![a] = "none"]
  /\ UNCHANGED <<now, bucket, detector, listed, crossed, hits, requests, changes, faults>>

(* The database cannot be read: the copy stays as it is.                    *)
ReloadFails(a) ==
  /\ reload[a] = "committed" /\ Fault
  /\ reload' = [reload EXCEPT ![a] = "none"] /\ crossed' = TRUE
  /\ UNCHANGED <<now, bucket, detector, listed, cached, hits, requests, changes>>

(* The process is shut down, which writes the counts, and starts again,     *)
(* which reads the list; the detector begins anew.                          *)
Restart ==
  /\ Fault
  /\ hits' = [memory |-> 0, row |-> IF listed = "none" THEN 0 ELSE hits.row + hits.memory]
  /\ ring' = <<>> /\ blockedTo' = 0
  /\ cached' = (listed = "enabled")
  /\ reload' = [a \in Admins |-> "none"] /\ crossed' = FALSE
  /\ stamp' = NoStamp
  /\ UNCHANGED <<now, zset, accepted, slow, listed, requests, changes>>

Next ==
  \/ Tick \/ Refused \/ Looks \/ Counts \/ RedisDown \/ Unblock \/ Restart
  \/ \E kind \in Kinds : Record(kind)
  \/ \E a \in Admins : Commits(a) \/ Reads(a) \/ Replaces(a) \/ ReloadFails(a)

Spec == Init /\ [][Next]_vars

-----------------------------------------------------------------------------
(* "429 if it exceeds limit in the trailing window_seconds"                 *)
(* (rate_limit.py): whichever window one looks at, no more than the limit   *)
(* has passed in it, though refused checks keep the bucket full.            *)
LimitHolds ==
  ~slow => \A t \in Times :
    Cardinality({e \in accepted : e.at <= t /\ e.at + Window > t}) <= Limit

(* The copy in memory is what the administrators have made of the list, in  *)
(* whatever order their changes came, as long as no two overlapped.         *)
ListApplied ==
  ~crossed /\ (\A a \in Admins : reload[a] = "none") => cached = (listed = "enabled")

-----------------------------------------------------------------------------
(* What holds between the steps.                                            *)
EntriesFinite ==
  /\ \A e \in zset \cup accepted : e.at \in Times
  /\ IsFiniteSet(zset) /\ IsFiniteSet(accepted)
  /\ now \in Times /\ stamp \in Times \cup {NoStamp} /\ slow \in BOOLEAN

(* As long as no check was slow, the one under way has the time of now, and *)
(* what passed in the window that ends now is in the bucket.                *)
BucketHolds ==
  ~slow =>
    /\ stamp \in {now, NoStamp}
    /\ \A e \in accepted : e.at <= now /\ (e.at + Window > now => e \in zset)

(* As long as no two changes of the list overlapped, one is under way at    *)
(* most, and what it has read is what the table says.                       *)
ListHolds ==
  /\ listed \in {"none", "enabled", "off"} /\ cached \in BOOLEAN /\ crossed \in BOOLEAN
  /\ reload \in [Admins -> {"none", "committed", "in", "out"}]
  /\ ~crossed =>
       /\ \A a, b \in Admins : reload[a] # "none" /\ reload[b] # "none" => a = b
       /\ \A a \in Admins : /\ reload[a] = "in" => listed = "enabled"
                            /\ reload[a] = "out" => listed # "enabled"
       /\ ListApplied

DefenceHolds == EntriesFinite /\ BucketHolds /\ LimitHolds /\ ListHolds
=============================================================================
