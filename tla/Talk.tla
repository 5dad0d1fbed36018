---------------------------------- MODULE Talk ----------------------------------
(***************************************************************************)
(* What the people of a room write to each other (chat.py, polls.py): the  *)
(* chat with its pictures and reactions, the whiteboard, a poll and a      *)
(* question.  Each request runs in a thread of its own: it looks, and      *)
(* another may write before it does.  A database write is one step, and    *)
(* whoever clears the board holds the database until that is committed.    *)
(***************************************************************************)
EXTENDS Naturals, FiniteSets

CONSTANTS
  Calls,                \* requests under way at once
  People,               \* the ones that vote and react
  Cap,                  \* _WHITEBOARD_MAX_STROKES
  MaxRequests           \* bounds the requests

VARIABLES
  active,     \* the meeting is_active
  poll,       \* its status and the vote of each
  upvotes,    \* of the question
  messages,   \* how many the chat has; the reactions to the first; whether it is pinned
  pictures,   \* the files, and those a message names
  strokes,    \* of the whiteboard
  full,       \* the meeting is in _whiteboard_at_cap
  call,       \* the requests, with what they read
  tally,      \* history: the votes when the poll was closed
  late,       \* history: a vote was under way when the poll was closed; who pressed twice at once
  pressed,    \* history: how often each pressed the question's arrow
  stale,      \* history: the strokes were counted while the board was cleared
  requests

vars == <<active, poll, upvotes, messages, pictures, strokes, full, call, tally, late, pressed, stale,
          requests>>

Idle == [at |-> "idle"]
NoVote == [p \in People |-> 0]
Options == 1..2

TypeOK ==
  /\ active \in BOOLEAN /\ poll \in [status : {"open", "closed"}, votes : [People -> 0..2]]
  /\ upvotes \subseteq People /\ messages \in [posted : 0..MaxRequests, reacted : SUBSET People, pinned : BOOLEAN]
  /\ pictures \in [files : 0..MaxRequests, named : 0..MaxRequests]
  /\ strokes \in 0..(Cap + MaxRequests) /\ requests \in 0..MaxRequests
  /\ \A c \in Calls : call[c].at \in
       {"idle", "post", "picture", "vote", "add", "remove", "stroke", "count", "clear"}
  /\ tally \in {NoVote} \cup [People -> 0..2]
  /\ late \subseteq {"poll"} \cup People /\ pressed \in [People -> 0..MaxRequests]
  /\ {full, stale} \subseteq BOOLEAN

Init ==
  /\ active = TRUE /\ poll = [status |-> "open", votes |-> NoVote] /\ upvotes = {}
  /\ messages = [posted |-> 0, reacted |-> {}, pinned |-> FALSE]
  /\ pictures = [files |-> 0, named |-> 0]
  /\ strokes \in {0, Cap - 1} /\ full = FALSE /\ call = [c \in Calls |-> Idle]
  /\ tally = NoVote /\ late = {} /\ pressed = [p \in People |-> 0] /\ stale = FALSE /\ requests = 0

Request == requests < MaxRequests /\ requests' = requests + 1
Begins(c, r) == call[c] = Idle /\ Request /\ call' = [call EXCEPT ![c] = r]
Ends(c) == call' = [call EXCEPT ![c] = Idle] /\ UNCHANGED requests
UnderWay(ats) == \E c \in Calls : call[c].at \in ats

-----------------------------------------------------------------------------
(* post_chat and post_chat_attachment: the meeting is looked at first; a    *)
(* picture is on the disk before its message.                               *)
Chat(c) ==
  /\ active
  /\ \E at \in {"post", "picture"} :
       /\ Begins(c, [at |-> at])
       /\ pictures' = IF at = "picture" THEN [pictures EXCEPT !.files = @ + 1] ELSE pictures
  /\ UNCHANGED <<active, poll, upvotes, messages, strokes, full, tally, late, pressed, stale>>
Posted(c) ==
  /\ call[c].at \in {"post", "picture"} /\ Ends(c)
  /\ messages' = [messages EXCEPT !.posted = @ + 1]
  /\ pictures' = IF call[c].at = "picture" THEN [pictures EXCEPT !.named = @ + 1] ELSE pictures
  /\ UNCHANGED <<active, poll, upvotes, strokes, full, tally, late, pressed, stale>>
(* The picture was too large, or its sender went: what was written of it is *)
(* removed in the first case.                                               *)
PictureFails(c) ==
  /\ call[c].at = "picture" /\ Ends(c)
  /\ \E kept \in {0, 1} : pictures' = [pictures EXCEPT !.files = @ - 1 + kept]
  /\ UNCHANGED <<active, poll, upvotes, messages, strokes, full, tally, late, pressed, stale>>

(* The meeting is closed, or opened again (delete and reopen).              *)
CloseOrReopen ==
  /\ active' = ~active /\ Request
  /\ UNCHANGED <<poll, upvotes, messages, pictures, strokes, full, call, tally, late, pressed, stale>>

(* put_reaction and delete_reaction write whatever is there; so does        *)
(* set_pin.                                                                 *)
React(p) ==
  /\ active /\ messages.posted > 0 /\ Request
  /\ messages' \in {[messages EXCEPT !.reacted = @ \cup {p}], [messages EXCEPT !.reacted = @ \ {p}],
                    [messages EXCEPT !.pinned = ~@]}
  /\ UNCHANGED <<active, poll, upvotes, pictures, strokes, full, call, tally, late, pressed, stale>>

-----------------------------------------------------------------------------
(* vote_on_poll: an upsert, after the poll was found open.                  *)
Vote(c, p, o) ==
  /\ poll.status = "open" /\ Begins(c, [at |-> "vote", who |-> p, option |-> o])
  /\ UNCHANGED <<active, poll, upvotes, messages, pictures, strokes, full, tally, late, pressed, stale>>
Voted(c) ==
  /\ call[c].at = "vote" /\ Ends(c)
  /\ poll' = [poll EXCEPT !.votes[call[c].who] = call[c].option]
  /\ UNCHANGED <<active, upvotes, messages, pictures, strokes, full, tally, late, pressed, stale>>
ClosePoll ==
  /\ poll.status = "open" /\ Request
  /\ poll' = [poll EXCEPT !.status = "closed"] /\ tally' = poll.votes
  /\ late' = IF UnderWay({"vote"}) THEN late \cup {"poll"} ELSE late
  /\ UNCHANGED <<active, upvotes, messages, pictures, strokes, full, call, pressed, stale>>

(* upvote_question: the second press takes the first one back; a row is     *)
(* inserted once (uq_question_voter), and a row that is gone is no error.   *)
Presses(c, p) == call[c].at \in {"add", "remove"} /\ call[c].who = p
Press(c, p) ==
  /\ Begins(c, [at |-> IF p \in upvotes THEN "remove" ELSE "add", who |-> p])
  /\ pressed' = [pressed EXCEPT ![p] = @ + 1]
  /\ late' = IF \E d \in Calls : Presses(d, p) THEN late \cup {p} ELSE late
  /\ UNCHANGED <<active, poll, upvotes, messages, pictures, strokes, full, tally, stale>>
Toggled(c) ==
  /\ call[c].at \in {"add", "remove"} /\ Ends(c)
  /\ upvotes' = IF call[c].at = "add" THEN upvotes \cup {call[c].who} ELSE upvotes \ {call[c].who}
  /\ UNCHANGED <<active, poll, messages, pictures, strokes, full, tally, late, pressed, stale>>

-----------------------------------------------------------------------------
(* post_whiteboard_stroke: the cache is looked at; one request in fifty     *)
(* counts, and marks the meeting when it is at its cap.                     *)
Draw(c) ==
  /\ active /\ ~full
  /\ \E at \in {"stroke", "count"} : Begins(c, [at |-> at])
  /\ UNCHANGED <<active, poll, upvotes, messages, pictures, strokes, full, tally, late, pressed, stale>>
Clearing == UnderWay({"clear"})
Count(c) ==
  /\ call[c].at = "count"
  /\ IF strokes >= Cap
     THEN full' = TRUE /\ stale' = (stale \/ Clearing) /\ Ends(c)
     ELSE /\ call' = [call EXCEPT ![c].at = "stroke"]
          /\ UNCHANGED <<full, stale, requests>>
  /\ UNCHANGED <<active, poll, upvotes, messages, pictures, strokes, tally, late, pressed>>
Drawn(c) ==
  /\ call[c].at = "stroke" /\ ~Clearing /\ Ends(c)
  /\ strokes' = strokes + 1
  /\ UNCHANGED <<active, poll, upvotes, messages, pictures, full, tally, late, pressed, stale>>

(* Mutant: the mark stays when the board is cleared.                        *)
Keeps == full

(* clear_whiteboard_strokes: the rows and the mark, then the commit.        *)
Unmarked == FALSE
Clear(c) ==
  /\ active /\ ~Clearing /\ Begins(c, [at |-> "clear"]) /\ full' = Unmarked
  /\ UNCHANGED <<active, poll, upvotes, messages, pictures, strokes, tally, late, pressed, stale>>
Cleared(c) ==
  /\ call[c].at = "clear" /\ Ends(c) /\ strokes' = 0
  /\ UNCHANGED <<active, poll, upvotes, messages, pictures, full, tally, late, pressed, stale>>

Next ==
  \/ CloseOrReopen \/ ClosePoll
  \/ \E p \in People : React(p)
  \/ \E c \in Calls :
       \/ Chat(c) \/ Posted(c) \/ PictureFails(c) \/ Voted(c) \/ Toggled(c)
       \/ Draw(c) \/ Count(c) \/ Drawn(c) \/ Clear(c) \/ Cleared(c)
       \/ \E p \in People : Press(c, p) \/ \E o \in Options : Vote(c, p, o)

Spec == Init /\ [][Next]_vars

-----------------------------------------------------------------------------
(* A closed poll keeps the result it was closed with, unless a vote was     *)
(* under way.                                                               *)
ClosedPollStands == poll.status = "closed" => poll.votes = tally \/ "poll" \in late

(* "Once cleared, room is fresh again": a board without strokes takes the   *)
(* next one, unless its strokes were counted before its clearing was        *)
(* committed and marked after.                                              *)
BoardFresh == full => strokes >= Cap \/ Clearing \/ stale

(* A press gives a vote and the next takes it back, unless two were under   *)
(* way at once.                                                             *)
PressesCount ==
  \A p \in People : (\A c \in Calls : ~Presses(c, p)) =>
    (p \in upvotes <=> pressed[p] % 2 = 1) \/ p \in late

(* A message with a picture has its file.                                   *)
PicturesThere == pictures.named <= pictures.files

TalkKept == ClosedPollStands /\ BoardFresh /\ PressesCount /\ PicturesThere

-----------------------------------------------------------------------------
(* What holds between any two steps, and makes the above hold after each.   *)
Requests ==
  {Idle} \cup [at : {"post", "picture", "stroke", "count", "clear"}]
    \cup [at : {"vote"}, who : People, option : Options] \cup [at : {"add", "remove"}, who : People]
TalkTypes ==
  /\ poll \in [status : {"open", "closed"}, votes : [People -> Nat]]
  /\ call \in [Calls -> Requests]
  /\ pictures \in [files : Nat, named : Nat]
  /\ strokes \in Nat /\ pressed \in [People -> Nat]

(* No vote is under way for a closed poll, or one was when it was closed.   *)
VotesIn ==
  poll.status = "closed" => "poll" \in late \/ (poll.votes = tally /\ ~UnderWay({"vote"}))

(* The mark was taken from a board that is not being cleared.               *)
MarkedFull == full => stale \/ (strokes >= Cap /\ ~Clearing)

(* A press under way turns what the presses before it have made.            *)
Alternate(p) ==
  p \in late \/
    /\ \A c, d \in Calls : Presses(c, p) /\ Presses(d, p) => c = d
    /\ \A c \in Calls : Presses(c, p) =>
         /\ call[c].at = "add" <=> p \notin upvotes
         /\ p \in upvotes <=> pressed[p] % 2 = 0
    /\ (\A c \in Calls : ~Presses(c, p)) => (p \in upvotes <=> pressed[p] % 2 = 1)
PressesAlternate == \A p \in People : Alternate(p)

(* The pictures that messages name and those still to be named are on the   *)
(* disk.                                                                    *)
Sending == {c \in Calls : call[c].at = "picture"}
PicturesWritten == pictures.named + Cardinality(Sending) <= pictures.files

TalkHolds == TalkTypes /\ VotesIn /\ MarkedFull /\ PressesAlternate /\ PicturesWritten
=============================================================================
