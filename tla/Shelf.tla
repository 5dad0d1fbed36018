--------------------------------- MODULE Shelf ---------------------------------
(***************************************************************************)
(* One recording from the webhook of its egress on: its file, its          *)
(* transcript (services/transcription.py), its publication on YouTube      *)
(* (routes/recordings.py, services/youtube.py), and the ways it goes: its  *)
(* owner deletes it, it expires, or the disk is full.  The deletions read  *)
(* and write without a wait; the publication and the transcription wait,   *)
(* with the row as they read it, or without one.                           *)
(***************************************************************************)
EXTENDS Naturals, FiniteSets

CONSTANTS Calls, MaxRequests, MaxFaults

VARIABLES
  rec,        \* the row: status, file_path is set, youtube_status, transcript_status
  file,       \* the MP4 is on the disk
  text,       \* the transcript is
  videos,     \* how many of it YouTube has
  hooks,      \* egress_ended on its way: how it ended
  call,       \* publish_to_youtube under way
  jobs,       \* the transcriptions under way
  careless,   \* history: deleted before it ended, or its end told twice
  requests, faults

vars == <<rec, file, text, videos, hooks, call, jobs, careless, requests, faults>>

Statuses == {"running", "completed", "failed", "deleted"}
Jobs == {"queued", "running"}

TypeOK ==
  /\ rec \in [status : Statuses, path : BOOLEAN, youtube : {"none", "uploading", "failed", "published"},
              transcript : {"none", "pending", "processing", "failed", "completed"}]
  /\ file \in BOOLEAN /\ text \in BOOLEAN /\ videos \in 0..MaxRequests
  /\ hooks \in [{"complete", "failed"} -> Nat]
  /\ call \in [Calls -> {"idle", "uploading"}]
  /\ jobs \in [Jobs -> Nat]
  /\ careless \in BOOLEAN
  /\ requests \in 0..MaxRequests /\ faults \in 0..MaxFaults

Init ==
  /\ rec = [status |-> "running", path |-> TRUE, youtube |-> "none", transcript |-> "none"]
  /\ file = FALSE /\ text = FALSE /\ videos = 0
  /\ hooks = [h \in {"complete", "failed"} |-> 0]
  /\ call = [c \in Calls |-> "idle"] /\ jobs = [j \in Jobs |-> 0]
  /\ careless = FALSE /\ requests = 0 /\ faults = 0

Request == requests < MaxRequests /\ requests' = requests + 1
Fault == faults < MaxFaults /\ faults' = faults + 1

-----------------------------------------------------------------------------
(* The egress ends: it leaves a file, unless it failed, and LiveKit tells.  *)
Running == \A h \in DOMAIN hooks : hooks[h] = 0

EgressEnds(h) ==
  /\ rec.status = "running" /\ Running /\ ~careless
  /\ file' = (h = "complete")
  /\ hooks' = [hooks EXCEPT ![h] = 1]
  /\ UNCHANGED <<rec, text, videos, call, jobs, careless, requests, faults>>

(* Nothing is known of a recording that was deleted while it ran but that   *)
(* its egress goes on, and may leave a file in the end.                     *)
EndsLate ==
  /\ careless /\ ~file /\ Running /\ rec.status = "deleted" /\ videos = 0
  /\ file' \in BOOLEAN
  /\ hooks' = [hooks EXCEPT !["complete"] = 1]
  /\ UNCHANGED <<rec, text, videos, call, jobs, careless, requests, faults>>

(* The webhook: the end is written whatever the row says by then.  A        *)
(* session's own transcript covers the recording, or a job is queued.       *)
EgressEnded(h) ==
  /\ hooks[h] > 0
  /\ \/ hooks' = [hooks EXCEPT ![h] = @ - 1] /\ UNCHANGED <<careless, faults>>
     \/ UNCHANGED hooks /\ careless' = TRUE /\ Fault
  /\ \/ /\ h = "failed" /\ rec' = [rec EXCEPT !.status = "failed"]
        /\ UNCHANGED <<text, jobs>>
     \/ /\ h = "complete" /\ rec.path
        /\ rec' = [rec EXCEPT !.status = "completed", !.transcript = "completed"]
        /\ text' = TRUE /\ UNCHANGED jobs
     \/ /\ h = "complete"
        /\ rec' = [rec EXCEPT !.status = "completed", !.transcript = "pending"]
        /\ jobs' = [jobs EXCEPT !["queued"] = @ + 1] /\ UNCHANGED text
  /\ UNCHANGED <<file, videos, call, requests>>

-----------------------------------------------------------------------------
(* transcribe_recording, of a recording that still has its file; what is    *)
(* decoded and sent to whisper was opened then.                             *)
Transcribe ==
  /\ jobs["queued"] > 0
  /\ IF rec.path /\ file
     THEN /\ rec' = [rec EXCEPT !.transcript = "processing"]
          /\ jobs' = [jobs EXCEPT !["queued"] = @ - 1, !["running"] = @ + 1]
     ELSE /\ jobs' = [jobs EXCEPT !["queued"] = @ - 1]
          /\ UNCHANGED rec
  /\ UNCHANGED <<file, text, videos, hooks, call, careless, requests, faults>>

Transcribed ==
  /\ jobs["running"] > 0
  /\ jobs' = [jobs EXCEPT !["running"] = @ - 1]
  /\ rec' = [rec EXCEPT !.transcript = "completed"] /\ text' = TRUE
  /\ UNCHANGED <<file, videos, hooks, call, careless, requests, faults>>

(* ffmpeg fails, whisper does not answer four times over, or the text       *)
(* cannot be written.                                                       *)
TranscribeFails ==
  /\ jobs["running"] > 0 /\ Fault
  /\ jobs' = [jobs EXCEPT !["running"] = @ - 1]
  /\ rec' = [rec EXCEPT !.transcript = "failed"]
  /\ UNCHANGED <<file, text, videos, hooks, call, careless, requests>>

-----------------------------------------------------------------------------
(* publish_to_youtube: a second request is not told of the first one until  *)
(* that has published.                                                      *)
Publishable == rec.status = "completed" /\ rec.youtube # "published" /\ rec.path /\ file

Publish(c) ==
  /\ Request /\ call[c] = "idle" /\ Publishable
  /\ rec' = [rec EXCEPT !.youtube = "uploading"]
  /\ call' = [call EXCEPT ![c] = "uploading"]
  /\ UNCHANGED <<file, text, videos, hooks, jobs, careless, faults>>

(* Mutant: the file goes when the upload has ended, however it did.         *)
Always(uploaded) == TRUE

FileGoes(uploaded) == uploaded

(* The upload ends: YouTube has the video, and the answer may be lost.  The *)
(* file that cannot be removed stays with its row.                          *)
Uploaded(c, uploaded) ==
  /\ call[c] = "uploading"
  /\ call' = [call EXCEPT ![c] = "idle"]
  /\ IF uploaded THEN videos' = videos + 1 /\ UNCHANGED faults
     ELSE videos' \in {videos, videos + 1} /\ Fault
  /\ file' = (file /\ ~FileGoes(uploaded))
  /\ rec' = [rec EXCEPT !.youtube = IF uploaded THEN "published" ELSE "failed",
                        !.path = @ /\ ~FileGoes(uploaded)]
  /\ UNCHANGED <<text, hooks, jobs, careless, requests>>

CannotRemove(c) ==
  /\ call[c] = "uploading" /\ Fault
  /\ call' = [call EXCEPT ![c] = "idle"]
  /\ videos' = videos + 1
  /\ rec' = [rec EXCEPT !.youtube = "published"]
  /\ UNCHANGED <<file, text, hooks, jobs, careless, requests>>

-----------------------------------------------------------------------------
Removes ==
  /\ file' = (file /\ ~rec.path)
  /\ rec' = [rec EXCEPT !.status = "deleted", !.path = FALSE]

(* Its owner deletes it, in whatever state it is.                           *)
DeleteRecording ==
  /\ Request /\ Removes
  /\ careless' = (careless \/ rec.status = "running")
  /\ UNCHANGED <<text, videos, hooks, call, jobs, faults>>

(* cleanup_expired_recordings, which finds those that are completed, and    *)
(* enforce_disk_cap, those of them that have a file.                        *)
Expire ==
  /\ Request /\ rec.status = "completed" /\ Removes
  /\ UNCHANGED <<text, videos, hooks, call, jobs, careless, faults>>

Evict ==
  /\ Request /\ rec.status = "completed" /\ rec.path /\ Removes
  /\ UNCHANGED <<text, videos, hooks, call, jobs, careless, faults>>

(* The process stops; no job and no upload is taken up again.               *)
Restart ==
  /\ Fault
  /\ call' = [c \in Calls |-> "idle"] /\ jobs' = [j \in Jobs |-> 0]
  /\ UNCHANGED <<rec, file, text, videos, hooks, careless, requests>>

Next ==
  \/ \E h \in {"complete", "failed"} : EgressEnds(h) \/ EgressEnded(h)
  \/ EndsLate \/ Transcribe \/ Transcribed \/ TranscribeFails
  \/ \E c \in Calls : Publish(c) \/ CannotRemove(c) \/ (\E uploaded \in BOOLEAN : Uploaded(c, uploaded))
  \/ DeleteRecording \/ Expire \/ Evict \/ Restart

Spec == Init /\ [][Next]_vars

-----------------------------------------------------------------------------
(* "the local file is deleted (the YouTube URL becomes the system of        *)
(* record)" (recordings.py): whatever publishes, deletes or evicts at once, *)
(* a recording that the list still offers is on the disk or on YouTube, one *)
(* said to be published is there, and no file is left that no row names -   *)
(* unless it was deleted while it ran, or its end was told twice.           *)
SomewhereOrDeleted ==
  ~careless =>
    /\ rec.status = "completed" => (file /\ rec.path) \/ videos > 0
    /\ rec.youtube = "published" => videos > 0
    /\ file => rec.path
-----------------------------------------------------------------------------
(* What holds between any two steps, and gives the above: the end of a      *)
(* recording is told of once, while it runs, and what runs has no upload.   *)
ShelfTypes ==
  /\ DOMAIN rec = {"status", "path", "youtube", "transcript"}
  /\ DOMAIN hooks = {"complete", "failed"} /\ \A h \in {"complete", "failed"} : hooks[h] \in Nat
  /\ DOMAIN call = Calls /\ videos \in Nat
EndToldOnce ==
  ~careless =>
    /\ \A h \in {"complete", "failed"} : hooks[h] > 0 => hooks[h] = 1 /\ rec.status = "running"
    /\ hooks["complete"] = 0 \/ hooks["failed"] = 0
    /\ hooks["complete"] > 0 => file
    /\ rec.status = "running" => rec.path /\ \A c \in Calls : call[c] # "uploading"
ShelfHolds == ShelfTypes /\ EndToldOnce /\ SomewhereOrDeleted
=============================================================================
