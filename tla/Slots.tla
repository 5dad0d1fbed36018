-------------------------------- MODULE Slots --------------------------------
(***************************************************************************)
(* The variables the parts of Services share, the constants that bound     *)
(* them, and the parts that SlotsProofs is about: the sittings Mail        *)
(* prepares, payments, an account, publishing, follow-up actions, what     *)
(* people write to each other, a meeting's broadcasts, the agent in the    *)
(* room, a finished recording, the videos of the playlist, the egress of a *)
(* room, where its stream goes and who is in it.  Services adds the others *)
(* and composes all.  The proofs of what one part does (SlotsProofs) need  *)
(* nothing of the rest.                                                    *)
(***************************************************************************)
EXTENDS Naturals, FiniteSets

CONSTANTS
  Callers,                        \* requests, or changes, under way at once
  RecorderKinds,                  \* of Egress
  Sittings, Own,                  \* of MailSync
  Payments, Vouchers,             \* of Billing
  Cameras, Shares,                \* of Stage
  Members, Guests, Waiters,       \* of Rooms
  Utterances, Strangers, Texts,   \* of Speech
  Platforms, Hidden,              \* of Destinations
  Copies,                         \* of Library
  Least, Few, Some, Many, Most    \* bounds and thresholds of the parts, by size

VARIABLES part, s1, s2, s3, s4, s5, s6, s7, s8, s9, s10, s11, s12, s13, s14, s15, s16

ASSUME BoundsAssumption == Least \in Nat \ {0} /\ {Few, Some, Many, Most} \subseteq Nat \ {0}
ASSUME CallersAssumption == IsFiniteSet(Callers)
ASSUME PaymentsAssumption == Payments \cap Vouchers = {}
ASSUME KeysAssumption ==
  Cameras \cap Shares = {} /\ (Cameras \cup Shares) \cap {"board", "none"} = {}

slots == <<s1, s2, s3, s4, s5, s6, s7, s8, s9, s10, s11, s12, s13, s14, s15, s16>>

Mail == INSTANCE MailSync WITH
  MaxSyncs <- Some, MaxEdits <- Some,
  status <- s1, decision <- s2, action <- s3, hidden <- s4, publishing <- s5, mail <- s6,
  counts <- s7

Bill == INSTANCE Billing WITH
  Calls <- Callers, Passes <- Payments, Shelf <- Least, MaxNow <- Few, MaxRequests <- Most,
  MaxFaults <- Least,
  now <- s1, entitled <- s2, order <- s3, paid <- s4, voucher <- s5, granted <- s6, call <- s7,
  sub <- s8, paypal <- s9, events <- s10, requests <- s11, faults <- s12

Account == INSTANCE Accounts WITH
  Calls <- Callers, CodeCount <- Least, MaxRequests <- Many, MaxLost <- Least,
  user <- s1, resets <- s2, otp <- s3, owner <- s4, call <- s5, overlap <- s6, requests <- s7,
  lost <- s8

Out == INSTANCE Outputs WITH
  Calls <- Callers, MaxPublishes <- Some, MaxEdits <- Few, MaxFaults <- Least,
  status <- s1, version <- s2, draft <- s3, rooms <- s4, proposed <- s5, call <- s6,
  files <- s7, rows <- s8, audio <- s9, segments <- s10, age <- s11, overlap <- s12, cut <- s13,
  counts <- s14

Follow == INSTANCE Actions WITH
  Sittings <- Few, MaxRows <- Few, MaxChanges <- Least, MaxFaults <- Least,
  sitting <- s1, phase <- s2, act <- s3, report <- s4, doc <- s5, job <- s6, said <- s7,
  unsure <- s8, checked <- s9, again <- s10, silent <- s11, counts <- s12

Chats == INSTANCE Talk WITH
  Calls <- Callers, People <- Members, Cap <- Few, MaxRequests <- Many,
  active <- s1, poll <- s2, upvotes <- s3, messages <- s4, pictures <- s5, strokes <- s6,
  full <- s7, call <- s8, tally <- s9, late <- s10, pressed <- s11, stale <- s12,
  requests <- s13

Tube == INSTANCE YouTube WITH
  MaxBroadcasts <- Some, MaxAccounts <- Few, MaxRequests <- Many, MaxFaults <- Least,
  row <- s1, tube <- s2, tokens <- s3, task <- s4, excused <- s5, requests <- s6, faults <- s7

Agent == INSTANCE Scribe WITH
  MaxStarts <- Few, MaxConns <- Many, MaxFaults <- Few,
  session <- s1, registry <- s2, obj <- s3, conn <- s4, heard <- s5, lost <- s6, faults <- s7

Kept == INSTANCE Shelf WITH
  Calls <- Callers, MaxRequests <- Some, MaxFaults <- Least,
  rec <- s1, file <- s2, text <- s3, videos <- s4, hooks <- s5, call <- s6, jobs <- s7,
  careless <- s8, requests <- s9, faults <- s10

Videos == INSTANCE Library WITH
  Links <- Copies, Calls <- Callers, MaxSize <- Some, Piece <- Few, MaxRequests <- Some,
  row <- s1, file <- s2, links <- s3, gate <- s4, call <- s5, reader <- s6, proc <- s7,
  crossed <- s8, requests <- s9

Recorder == INSTANCE Egress WITH
  Kinds <- RecorderKinds, Public <- FALSE, SlowHooks <- FALSE, Faults <- {},
  MaxRequests <- Many, MaxFaults <- 0,
  eg <- s1, hooks <- s2, pointer <- s3, running <- s4, layout <- s5, saved <- s6, playing <- s7,
  flags <- s8, syncs <- s9, call <- s10, requests <- s11, faults <- s12

Targets == INSTANCE Destinations WITH
  Calls <- Callers, MaxStreams <- Few, MaxEvents <- Least, MaxChanges <- Few, MaxFaults <- Least,
  on <- s1, pointer <- s2, host <- s3, transition <- s4, call <- s5, rows <- s6, events <- s7,
  apart <- s8, unheard <- s9, changes <- s10, faults <- s11

Room == INSTANCE Rooms WITH
  Calls <- Callers, MaxRequests <- Few, MaxJoins <- Few, MaxFaults <- Least,
  cafe <- s1, meeting <- s2, policy <- s3, open <- s4, started <- s5, tokens <- s6,
  unused <- s7, wait <- s8, call <- s9, present <- s10, up <- s11, hooks <- s12, live <- s13,
  seed <- s14, clean <- s15, counts <- s16
=============================================================================
