CONSTANTS
  d1 = d1
  Refs = {d1}
  Turnouts = {0, 2}
  Rules = {"ordinary", "unanimous"}
  VoteData <- MCVoteData
  Callers = {c1, c2}
  RecorderKinds = {"record", "stopRecord", "stream", "stopStream", "force", "restore"}
  Sittings = {m1, m2}
  Own = {own}
  Payments = {pass}
  Vouchers = {u1, u2}
  Cameras = {cam}
  Shares = {k1, k2}
  Members = {member}
  Guests = {guest}
  Waiters = {waiter}
  Utterances = {u3}
  Strangers = {x1}
  Texts = {t1}
  Platforms = {p1, p2}
  Hidden = {p2}
  Copies = {i1, i2}
  Least = 1
  Few = 2
  Some = 3
  Many = 4
  Most = 5
SPECIFICATION ServicesSpec
INVARIANTS
  AdoptedOnAgreement ResultFollowsRule RecorderKnown   
   AddressesLimited BroadcastsEnd SomewhereOrDeleted
  AttendanceKnown ScribeLeaves OutputsWhole ActionsKept TalkKept CaptureKept ModelsServe
PROPERTIES PersonsCountStands SittingsStand
SYMMETRY Symmetry
CHECK_DEADLOCK FALSE
