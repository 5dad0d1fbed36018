-------------------------------- MODULE Outputs --------------------------------
(***************************************************************************)
(* Publishing a session that was reviewed (invites.py, the review's routes  *)
(* and retention.py): the draft of the review, the versions that are        *)
(* published of it with their files, mails and rows, the new meeting the    *)
(* invitation may be for, the audio and the transcript, and the removal of  *)
(* the session with all that is its own.                                    *)
(* Publishing writes the database before it renders and after it has sent;  *)
(* in between it waits, and whatever else happens happens there.            *)
(***************************************************************************)
EXTENDS Naturals, FiniteSets

CONSTANTS
  Calls,                              \* publish requests that may be under way at once
  MaxPublishes, MaxEdits, MaxFaults   \* bounds: publish requests, changes of the draft, faults

VARIABLES
  status,     \* of the session; "deleted" when its row is gone
  version,    \* publish_version
  draft,      \* review_json: the next date, its room, the agenda, next_room
  rooms,      \* the meetings made for the next date
  proposed,   \* the session has a proposed action
  call,       \* the publish requests
  files,      \* outputs/ on the disk
  rows,       \* rows[v]: how many times version v is in meetpp_outputs
  audio, segments, age,   \* audio/ on the disk; the transcript; the time since the end
  overlap,    \* history: something began while a publish request waited
  cut,        \* history: the process stopped before the files were removed
  counts

vars == <<status, version, draft, rooms, proposed, call, files, rows, audio, segments, age,
          overlap, cut, counts>>

Versions == 1..MaxPublishes
Idle == [at |-> "idle"]

TypeOK ==
  /\ status \in {"finalising", "review", "published", "deleted"}
  /\ version \in 0..MaxPublishes /\ rooms \in 0..MaxPublishes
  /\ draft \in [dated : BOOLEAN, room : {"same", "new"}, next : 0..MaxPublishes]
  /\ call \in [Calls -> {Idle} \cup
       [at : {"report", "agenda", "mail"}, v : Versions, dated : BOOLEAN]]
  /\ files \subseteq Versions \X {"report", "agenda"}
  /\ rows \in [Versions -> 0..MaxPublishes]
  /\ age \in 0..2 /\ {proposed, audio, segments, overlap, cut} \subseteq BOOLEAN
  /\ counts \in [publishes : 0..MaxPublishes, edits : 0..MaxEdits, faults : 0..MaxFaults]

Init ==
  /\ status = "finalising" /\ version = 0 /\ rooms = 0 /\ proposed = TRUE
  /\ draft \in [dated : BOOLEAN, room : {"same"}, next : {0}]
  /\ call = [c \in Calls |-> Idle] /\ files = {} /\ rows = [v \in Versions |-> 0]
  /\ audio = TRUE /\ segments = TRUE /\ age = 0 /\ overlap = FALSE /\ cut = FALSE
  /\ counts = [publishes |-> 0, edits |-> 0, faults |-> 0]

Fault == counts.faults < MaxFaults /\ counts' = [counts EXCEPT !.faults = @ + 1]
UnderWay == \E c \in Calls : call[c] # Idle

-----------------------------------------------------------------------------
(* The finalisation ends, or a job of it that runs again has proposed an    *)
(* action.                                                                  *)
Reviewed ==
  /\ status = "finalising" /\ status' = "review"
  /\ UNCHANGED <<version, draft, rooms, proposed, call, files, rows, audio, segments, age,
                 overlap, cut, counts>>
JobProposes ==
  /\ status \in {"review", "published"} /\ ~proposed /\ segments /\ proposed' = TRUE
  /\ UNCHANGED <<status, version, draft, rooms, call, files, rows, audio, segments, age,
                 overlap, cut, counts>>

(* put_review; what it does not know of, the next room, stays.              *)
PutReview ==
  /\ status \in {"review", "published"} /\ counts.edits < MaxEdits
  /\ \E dated \in BOOLEAN, room \in {"same", "new"} :
       draft' = [draft EXCEPT !.dated = dated, !.room = room]
  /\ counts' = [counts EXCEPT !.edits = @ + 1]
  /\ UNCHANGED <<status, version, rooms, proposed, call, files, rows, audio, segments, age,
                 overlap, cut>>

(* Mutant: the room that was made is remembered when all is done.           *)
Forgotten(d, n) == d

(* _next_meeting_room: a new meeting is made once.                          *)
Remembered(d, n) == [d EXCEPT !.next = n]
NextRoom ==
  IF draft.dated /\ draft.room = "new" /\ draft.next = 0
  THEN rooms' = rooms + 1 /\ draft' = Remembered(draft, rooms + 1)
  ELSE UNCHANGED <<rooms, draft>>

(* publish, until its first commit.                                         *)
Publish(c) ==
  /\ status \in {"review", "published"} /\ call[c] = Idle
  /\ counts.publishes < MaxPublishes
  /\ counts' = [counts EXCEPT !.publishes = @ + 1]
  /\ call' = [call EXCEPT ![c] = [at |-> "report", v |-> version + 1, dated |-> draft.dated]]
  /\ proposed' = FALSE /\ NextRoom
  /\ overlap' = (overlap \/ UnderWay)
  /\ UNCHANGED <<status, version, files, rows, audio, segments, age, cut>>

(* A file is written when it is rendered; its directory is made for it.     *)
Render(c) ==
  /\ call[c].at \in {"report", "agenda"}
  /\ files' = files \cup {<<call[c].v, call[c].at>>}
  /\ call' = [call EXCEPT ![c].at =
       IF @ = "report" /\ call[c].dated THEN "agenda" ELSE "mail"]
  /\ UNCHANGED <<status, version, draft, rooms, proposed, rows, audio, segments, age, overlap,
                 cut, counts>>
RenderFails(c) ==
  /\ call[c].at \in {"report", "agenda"} /\ Fault
  /\ call' = [call EXCEPT ![c] = Idle]
  /\ UNCHANGED <<status, version, draft, rooms, proposed, files, rows, audio, segments, age,
                 overlap, cut>>

(* The mails are out (whether or not each was taken); the second commit, of *)
(* the rows and the version together, and then the audio.  Nothing is       *)
(* committed for a session that is gone.                                    *)
Finish(c) ==
  /\ call[c].at = "mail" /\ status # "deleted"
  /\ call' = [call EXCEPT ![c] = Idle]
  /\ rows' = [rows EXCEPT ![call[c].v] = @ + 1]
  /\ version' = call[c].v /\ status' = "published"
  /\ \/ audio' = FALSE /\ UNCHANGED <<cut, counts>>
     \/ Fault /\ cut' = TRUE /\ UNCHANGED audio
  /\ UNCHANGED <<draft, rooms, proposed, files, segments, age, overlap>>
FinishFails(c) ==
  /\ call[c].at = "mail" /\ status = "deleted"
  /\ call' = [call EXCEPT ![c] = Idle]
  /\ UNCHANGED <<status, version, draft, rooms, proposed, files, rows, audio, segments, age,
                 overlap, cut, counts>>

ProcessStops ==
  /\ UnderWay /\ Fault /\ call' = [c \in Calls |-> Idle]
  /\ UNCHANGED <<status, version, draft, rooms, proposed, files, rows, audio, segments, age,
                 overlap, cut>>

-----------------------------------------------------------------------------
(* delete_session: the rows, then the directory.                            *)
Delete ==
  /\ status \in {"review", "published"} /\ status' = "deleted"
  /\ rows' = [v \in Versions |-> 0] /\ segments' = FALSE /\ proposed' = FALSE
  /\ overlap' = (overlap \/ UnderWay)
  /\ \/ files' = {} /\ audio' = FALSE /\ UNCHANGED <<cut, counts>>
     \/ Fault /\ cut' = TRUE /\ UNCHANGED <<files, audio>>
  /\ UNCHANGED <<version, draft, rooms, call, age>>

(* run_retention: the audio after 7 days, the transcript after 30, of a     *)
(* session that is not being finalised any more.                            *)
TimePasses ==
  /\ age < 2 /\ age' = age + 1
  /\ UNCHANGED <<status, version, draft, rooms, proposed, call, files, rows, audio, segments,
                 overlap, cut, counts>>
Retention ==
  /\ status # "deleted" /\ age > 0
  /\ audio' = FALSE
  /\ segments' = (segments /\ ~(age = 2 /\ status \in {"review", "published"}))
  /\ UNCHANGED <<status, version, draft, rooms, proposed, call, files, rows, age, overlap, cut,
                 counts>>

Next ==
  \/ Reviewed \/ JobProposes \/ PutReview \/ ProcessStops \/ Delete \/ TimePasses \/ Retention
  \/ \E c \in Calls : Publish(c) \/ Render(c) \/ RenderFails(c) \/ Finish(c) \/ FinishFails(c)

Spec == Init /\ [][Next]_vars

-----------------------------------------------------------------------------
(* "one new meeting, created on the first publish and reused on             *)
(* re-publishing", also when that publish failed or another one overlaps.   *)
OneNextRoom == rooms <= 1

(* Every version up to the session's is listed and has its report, and none *)
(* after it; each was published once, unless two requests overlapped.       *)
VersionsWhole ==
  status # "deleted" =>
    /\ \A v \in 1..version : rows[v] > 0 /\ <<v, "report">> \in files
    /\ overlap \/ \A v \in Versions : rows[v] = (IF v <= version THEN 1 ELSE 0)

(* A published session has no audio and a removed one no file, unless the   *)
(* process stopped in between or a publish request was still at work.       *)
NothingKept ==
  /\ status = "published" => ~audio \/ cut
  /\ status = "deleted" => (~audio /\ files = {}) \/ cut \/ overlap

(* The transcript is there until the minutes are written.                   *)
TranscriptStays == status = "finalising" => segments

OutputsWhole == OneNextRoom /\ VersionsWhole /\ NothingKept /\ TranscriptStays

-----------------------------------------------------------------------------
(* What holds between any two steps, and makes the above hold after each.   *)
OutputTypes ==
  /\ status \in {"finalising", "review", "published", "deleted"}
  /\ version \in Nat /\ rooms \in Nat
  /\ draft \in [dated : BOOLEAN, room : {"same", "new"}, next : Nat]
  /\ call \in [Calls -> {Idle} \cup
       [at : {"report", "agenda", "mail"}, v : Versions, dated : BOOLEAN]]
  /\ rows \in [Versions -> Nat]
  /\ counts \in [publishes : Nat, edits : Nat, faults : Nat]

(* The room that was made is the one the draft names.                       *)
RoomNamed == IF draft.next = 0 THEN rooms = 0 ELSE rooms = 1

(* A request publishes the version after one that is whole, and its report  *)
(* is written before its mails are sent.                                    *)
CallsFollow ==
  /\ version <= counts.publishes
  /\ \A c \in Calls : call[c] # Idle =>
       /\ call[c].v <= counts.publishes
       /\ status # "finalising"
       /\ status = "deleted" => overlap
       /\ status # "deleted" =>
            /\ \A v \in 1..(call[c].v - 1) : rows[v] > 0 /\ <<v, "report">> \in files
            /\ call[c].at # "report" => <<call[c].v, "report">> \in files

(* Unless requests overlapped there is one, for the next version.           *)
OneAtATime ==
  overlap \/ \A c, d \in Calls :
    call[c] # Idle => call[c].v = version + 1 /\ (call[d] # Idle => c = d)

OutputsHold ==
  /\ OutputTypes /\ RoomNamed /\ CallsFollow /\ OneAtATime
  /\ VersionsWhole /\ NothingKept /\ TranscriptStays
=============================================================================
