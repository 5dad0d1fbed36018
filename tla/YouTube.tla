-------------------------------- MODULE YouTube --------------------------------
(***************************************************************************)
(* The YouTube broadcasts of a meeting whose owner has connected a channel *)
(* (services/youtube_live.py, routes/youtube_oauth.py): set up when a      *)
(* stream starts or the settings are saved (egress_mgr.py, meetings.py),   *)
(* completed when it stops (streams.py), rotated and cleaned up by the     *)
(* supervisor.  Each reads the meeting's row, waits for Google, and writes *)
(* the columns that it has changed; only the egress transitions hold the   *)
(* egress lock.  Another destination is always enabled, so that a stream   *)
(* starts without YouTube as well.                                         *)
(***************************************************************************)
EXTENDS Naturals, FiniteSets

CONSTANTS MaxBroadcasts, MaxAccounts, MaxRequests, MaxFaults      \* bounds

VARIABLES
  row,        \* the meeting: account connected, ingest known, broadcast, it is old, egress
  tube,       \* YouTube: each broadcast, and the account it belongs to
  tokens,     \* Google: whether it accepts the token of each account
  task,       \* what is under way: its step, and the row as it read it
  excused,    \* history: broadcasts lost to a failed call, another account or a stale write
  requests, faults

vars == <<row, tube, tokens, task, excused, requests, faults>>

Broadcasts == 1..MaxBroadcasts
Accounts == 1..MaxAccounts
None == 0
Tasks == {"start", "stop", "save", "oauth", "tick"}
Steps == {"idle", "setup", "egress", "complete", "rotate", "retire", "connect", "disconnect"}
Rows == [account : {None} \cup Accounts, ingest : BOOLEAN, bc : {None} \cup Broadcasts,
         old : BOOLEAN, egress : BOOLEAN]
Empty == [account |-> None, ingest |-> FALSE, bc |-> None, old |-> FALSE, egress |-> FALSE]
Idle == [step |-> "idle", seen |-> Empty]

TypeOK ==
  /\ row \in Rows
  /\ tube \in [Broadcasts -> [state : {"none", "open", "complete"}, of : {None} \cup Accounts]]
  /\ tokens \in [Accounts -> {"none", "good", "revoked"}]
  /\ task \in [Tasks -> [step : Steps, seen : Rows]]
  /\ excused \subseteq Broadcasts
  /\ requests \in 0..MaxRequests /\ faults \in 0..MaxFaults

Init ==
  /\ row = Empty
  /\ tube = [b \in Broadcasts |-> [state |-> "none", of |-> None]]
  /\ tokens = [a \in Accounts |-> "none"] /\ task = [t \in Tasks |-> Idle] /\ excused = {}
  /\ requests = 0 /\ faults = 0

Request == requests < MaxRequests /\ requests' = requests + 1
Fault == faults < MaxFaults /\ faults' = faults + 1
Waits(t, step, seen) == task' = [task EXCEPT ![t] = [step |-> step, seen |-> seen]]
Ends(t) == task' = [task EXCEPT ![t] = Idle]
Seen(t) == task[t].seen

(* What the row names loses its place to a task that had read another.      *)
Overwrites(t) == {row.bc} \ {None, Seen(t).bc}

(* create_broadcast: created, and bound to the meeting's stream.            *)
Free(b) == tube[b].state = "none" /\ \A c \in Broadcasts : c < b => tube[c].state # "none"
Creates(b, account) ==
  /\ Free(b) /\ tokens[account] = "good"
  /\ tube' = [tube EXCEPT ![b] = [state |-> "open", of |-> account]]

(* complete_broadcast, which ignores that the call fails: whether it is     *)
(* answered, and what the caller's write leaves without a name.             *)
Accepts(b, account) == tokens[account] = "good" /\ tube[b].of = account

Completes(b, account, unnamed) ==
  \E done \in BOOLEAN :
    /\ done => Accepts(b, account)
    /\ IF ~done /\ Accepts(b, account) THEN Fault ELSE UNCHANGED faults
    /\ tube' = IF done THEN [tube EXCEPT ![b].state = "complete"] ELSE tube
    /\ excused' = excused \cup unnamed \cup (IF done THEN {} ELSE {b})

-----------------------------------------------------------------------------
(* reconcile_egress with a stream wanted, under the lock: a new stream, or  *)
(* a new egress for the one that runs; that one is stopped first.           *)
LockFree == task["start"] = Idle

StartStream ==
  /\ Request /\ LockFree
  /\ row' = [row EXCEPT !.egress = FALSE]
  /\ Waits("start", IF row.account = None THEN "egress" ELSE "setup", row')
  /\ UNCHANGED <<tube, tokens, excused, faults>>

(* update_meeting provisions what a stream that runs is missing.            *)
SaveSettings ==
  /\ Request /\ task["save"] = Idle
  /\ row.egress /\ row.account # None /\ ~row.ingest
  /\ Waits("save", "setup", row)
  /\ UNCHANGED <<row, tube, tokens, excused, faults>>

(* _ensure_youtube_api_ready: the stream, and a broadcast if it read none.  *)
After(t) == IF t = "start" THEN Waits(t, "egress", Seen(t)) ELSE Ends(t)
Ingest(t) == IF Seen(t).ingest THEN row.ingest ELSE TRUE

SetUp(t) ==
  /\ task[t].step = "setup"
  /\ IF Seen(t).bc # None
     THEN /\ tokens[Seen(t).account] = "good"
          /\ row' = [row EXCEPT !.ingest = Ingest(t)]
          /\ UNCHANGED <<tube, excused>>
     ELSE \E b \in Broadcasts :
            /\ Creates(b, Seen(t).account)
            /\ row' = [row EXCEPT !.ingest = Ingest(t), !.bc = b, !.old = FALSE]
            /\ excused' = excused \cup Overwrites(t)
  /\ After(t)
  /\ UNCHANGED <<tokens, requests, faults>>

(* It fails: the token is refused, or YouTube refuses the stream, the       *)
(* broadcast or, once that is created, its binding; the egress starts all   *)
(* the same.  A connection that breaks off ends the request.                *)
Leaves(t, leaks) ==
  IF leaks THEN \E b \in Broadcasts : Creates(b, Seen(t).account) /\ excused' = excused \cup {b}
  ELSE UNCHANGED <<tube, excused>>

SetUpFails(t) ==
  /\ task[t].step = "setup"
  /\ IF tokens[Seen(t).account] = "good" THEN Fault ELSE UNCHANGED faults
  /\ \E known, leaks \in BOOLEAN :
       /\ known => tokens[Seen(t).account] = "good"
       /\ leaks => known /\ Seen(t).bc = None
       /\ Leaves(t, leaks)
       /\ \/ After(t) /\ row' = IF known THEN [row EXCEPT !.ingest = Ingest(t)] ELSE row
          \/ Ends(t) /\ UNCHANGED row
  /\ UNCHANGED <<tokens, requests>>

StartEgress ==
  /\ task["start"].step = "egress"
  /\ row' = [row EXCEPT !.egress = TRUE]
  /\ Ends("start")
  /\ UNCHANGED <<tube, tokens, excused, requests, faults>>

StartEgressFails ==
  /\ task["start"].step = "egress" /\ Fault
  /\ Ends("start")
  /\ UNCHANGED <<row, tube, tokens, excused, requests>>

(* stop_stream: the egress under the lock, then the broadcast without it.   *)
StopStream ==
  /\ Request /\ LockFree /\ task["stop"] = Idle /\ row.egress
  /\ row' = [row EXCEPT !.egress = FALSE]
  /\ IF row.account # None /\ row.bc # None THEN Waits("stop", "complete", row') ELSE UNCHANGED task
  /\ UNCHANGED <<tube, tokens, excused, faults>>

(* The egress ends of itself, and its webhook clears the pointer.           *)
EgressEnds ==
  /\ Request /\ row.egress
  /\ row' = [row EXCEPT !.egress = FALSE]
  /\ UNCHANGED <<tube, tokens, task, excused, faults>>

-----------------------------------------------------------------------------
(* supervise_meeting: a broadcast without an egress is completed, an old    *)
(* one makes room for the next.                                             *)
Age ==
  /\ row.egress /\ row.bc # None /\ ~row.old
  /\ row' = [row EXCEPT !.old = TRUE]
  /\ UNCHANGED <<tube, tokens, task, excused, requests, faults>>

Tick ==
  /\ task["tick"] = Idle /\ row.account # None /\ row.bc # None
  /\ \/ ~row.egress /\ Waits("tick", "complete", row)
     \/ row.egress /\ row.old /\ Waits("tick", "rotate", row)
  /\ UNCHANGED <<row, tube, tokens, excused, requests, faults>>

(* The end of the broadcast, for stop_stream and for the supervisor.        *)
Complete(t) ==
  /\ task[t].step = "complete"
  /\ Completes(Seen(t).bc, Seen(t).account, Overwrites(t))
  /\ row' = [row EXCEPT !.bc = None, !.old = FALSE]
  /\ Ends(t)
  /\ UNCHANGED <<tokens, requests>>

Rotate ==
  /\ task["tick"].step = "rotate"
  /\ \E b \in Broadcasts :
       /\ Creates(b, Seen("tick").account)
       /\ row' = [row EXCEPT !.bc = b, !.old = FALSE]
  /\ excused' = excused \cup Overwrites("tick")
  /\ Waits("tick", "retire", Seen("tick"))
  /\ UNCHANGED <<tokens, requests, faults>>

RotateFails ==
  /\ task["tick"].step = "rotate"
  /\ IF tokens[Seen("tick").account] = "good" THEN Fault ELSE UNCHANGED faults
  /\ \E leaks \in BOOLEAN : Leaves("tick", leaks)
  /\ Ends("tick")
  /\ UNCHANGED <<row, tokens, requests>>

(* Mutant: what is completed is what the row names by now.                  *)
Newest == IF row.bc = None THEN Seen("tick").bc ELSE row.bc

Retired == Seen("tick").bc

Retire ==
  /\ task["tick"].step = "retire"
  /\ Completes(Retired, Seen("tick").account, {})
  /\ Ends("tick")
  /\ UNCHANGED <<row, tokens, requests>>

-----------------------------------------------------------------------------
(* The owner's consent, and its withdrawal: what the row named is let go of *)
(* as it is, and what was set since it was read stays.                      *)
Forgets(t, account) ==
  LET lets == Seen(t).bc # None IN
    /\ row' = [row EXCEPT !.account = account,
                          !.ingest = @ /\ ~Seen(t).ingest,
                          !.bc = IF lets THEN None ELSE @,
                          !.old = @ /\ ~lets]
    /\ excused' = IF lets THEN excused \cup ({row.bc} \ {None}) ELSE excused

Callback ==
  /\ Request /\ task["oauth"] = Idle
  /\ Waits("oauth", "connect", row)
  /\ UNCHANGED <<row, tube, tokens, excused, faults>>

Connect ==
  /\ task["oauth"].step = "connect"
  /\ \E a \in Accounts :
       /\ tokens[a] = "none" /\ \A b \in Accounts : b < a => tokens[b] # "none"
       /\ tokens' = [tokens EXCEPT ![a] = "good"]
       /\ Forgets("oauth", a)
  /\ Ends("oauth")
  /\ UNCHANGED <<tube, requests, faults>>

ConnectFails ==
  /\ task["oauth"].step = "connect" /\ Fault
  /\ Ends("oauth")
  /\ UNCHANGED <<row, tube, tokens, excused, requests>>

Disconnect ==
  /\ Request /\ task["oauth"] = Idle /\ row.account # None
  /\ Waits("oauth", "disconnect", row)
  /\ UNCHANGED <<row, tube, tokens, excused, faults>>

Disconnected ==
  /\ task["oauth"].step = "disconnect"
  /\ \/ tokens' = [tokens EXCEPT ![Seen("oauth").account] = "revoked"] /\ UNCHANGED faults
     \/ UNCHANGED tokens /\ Fault
  /\ Forgets("oauth", None)
  /\ Ends("oauth")
  /\ UNCHANGED <<tube, requests>>

Next ==
  \/ StartStream \/ SaveSettings \/ StartEgress \/ StartEgressFails \/ StopStream \/ EgressEnds
  \/ \E t \in {"start", "save"} : SetUp(t) \/ SetUpFails(t)
  \/ \E t \in {"stop", "tick"} : Complete(t)
  \/ Age \/ Tick \/ Rotate \/ RotateFails \/ Retire
  \/ Callback \/ Connect \/ ConnectFails \/ Disconnect \/ Disconnected

Spec == Init /\ [][Next]_vars

-----------------------------------------------------------------------------
(* "Stale broadcast cleanup" and "transition old -> complete"               *)
(* (youtube_live.py): when nothing is under way, a broadcast that is still  *)
(* open is the meeting's, whatever started, stopped, rotated or crashed in  *)
(* between, unless YouTube refused its end, its account was changed, or a   *)
(* task that had read the row before wrote another in its place.            *)
BroadcastsEnd ==
  (\A t \in Tasks : task[t] = Idle) =>
    {b \in Broadcasts : tube[b].state = "open"} \subseteq {row.bc} \cup excused
-----------------------------------------------------------------------------
(* What holds between any two steps, and makes the above hold after each: a *)
(* broadcast that is open is the row's, excused, or the one that the        *)
(* rotation under way has replaced and is about to complete.                *)
TubeTypes ==
  /\ DOMAIN tube = Broadcasts
  /\ \A b \in Broadcasts : DOMAIN tube[b] = {"state", "of"}
  /\ DOMAIN task = Tasks
  /\ DOMAIN row = DOMAIN Empty

Replaced(b) == task["tick"].step = "retire" /\ Seen("tick").bc = b
OpenKnown ==
  \A b \in Broadcasts : tube[b].state = "open" => b = row.bc \/ b \in excused \/ Replaced(b)

BroadcastsHold == TubeTypes /\ OpenKnown
=============================================================================
