---------------------------- MODULE SlotsProofs ----------------------------
(***************************************************************************)
(* What one part of Services does: for each part in Slots, that its        *)
(* invariant (the "...Hold" of its module) holds at first and is kept by   *)
(* each of its steps.  ServicesProofs takes the steps together.            *)
(***************************************************************************)
EXTENDS Slots, Integers, Sequences, FiniteSetTheorems, SequenceTheorems, TLAPS

LEMMA PurchasesInit == Bill!Init => Bill!PurchasesHold
<1> SUFFICES ASSUME Bill!Init PROVE Bill!PurchasesHold  OBVIOUS
<1> QED BY PaymentsAssumption DEF Bill!Init, Bill!PurchasesHold, Bill!PurchaseTypes, Bill!ClaimHeldOnce, Bill!OrderStatuses, Bill!Idle

LEMMA PurchasesStep == Bill!PurchasesHold /\ [Bill!Next]_(Bill!vars) => Bill!PurchasesHold'
<1> SUFFICES ASSUME Bill!PurchasesHold, [Bill!Next]_(Bill!vars) PROVE Bill!PurchasesHold'  OBVIOUS
<1> USE BoundsAssumption, PaymentsAssumption
    DEF Bill!PurchasesHold, Bill!PurchaseTypes, Bill!ClaimHeldOnce, Bill!OrderStatuses, Bill!Idle
<1>1. ASSUME NEW p \in Payments, Bill!CreateOrder(p) PROVE Bill!PurchasesHold'
  BY <1>1 DEF Bill!CreateOrder, Bill!subscription
<1>2. ASSUME NEW c \in Callers, NEW p \in Payments, Bill!Capture(c, p) PROVE Bill!PurchasesHold'
  BY <1>2 DEF Bill!Capture, Bill!Does, Bill!Claimable, Bill!subscription
<1>3. ASSUME NEW c \in Callers, Bill!Captured(c) PROVE Bill!PurchasesHold'
  BY <1>3 DEF Bill!Captured, Bill!Does, Bill!Answers, Bill!subscription
<1>4. ASSUME NEW c \in Callers, Bill!CaptureRefused(c) PROVE Bill!PurchasesHold'
  BY <1>4 DEF Bill!CaptureRefused, Bill!Answers, Bill!subscription
<1>5. ASSUME NEW c \in Callers, Bill!CaptureLost(c) PROVE Bill!PurchasesHold'
  BY <1>5 DEF Bill!CaptureLost, Bill!Answers, Bill!Unanswered, Bill!subscription
<1>6. ASSUME NEW c \in Callers, Bill!GrantPass(c) PROVE Bill!PurchasesHold'
  BY <1>6 DEF Bill!GrantPass, Bill!Answers, Bill!Extends, Bill!subscription
<1>7. ASSUME NEW v \in Vouchers, Bill!Issue(v) PROVE Bill!PurchasesHold'
  BY <1>7 DEF Bill!Issue, Bill!subscription
<1>8. ASSUME NEW v \in Vouchers, NEW c \in Callers, Bill!Redeem(c, v) PROVE Bill!PurchasesHold'
  BY <1>8 DEF Bill!Redeem, Bill!Does, Bill!subscription
<1>9. ASSUME NEW c \in Callers, Bill!GrantVoucher(c) PROVE Bill!PurchasesHold'
  <2>1. CASE s5[s7[c].for].status = "open"
    <3>1. s5[s7[c].for] \in [status : {"none", "open", "redeemed"}, lapses : Nat]
      BY <1>9 DEF Bill!GrantVoucher
    <3>2. s5' = [s5 EXCEPT ![s7[c].for] = [status |-> "redeemed", lapses |-> @.lapses]]
      BY <1>9, <2>1, <3>1 DEF Bill!GrantVoucher
    <3> DEFINE v == s7[c].for
    <3>a. v \in Vouchers  BY <1>9 DEF Bill!GrantVoucher
    <3>b. s6[v] \in Nat /\ s6[v] <= 1 /\ s6[v] # 1  BY <3>a, <2>1
    <3>3. v \in Vouchers /\ v \notin Payments /\ s6[v] = 0
      <4> HIDE DEF v, Bill!PurchasesHold, Bill!PurchaseTypes, Bill!ClaimHeldOnce, Bill!OrderStatuses, Bill!Idle
      <4>1. s6[v] = 0  BY <3>b
      <4>2. v \notin Payments  BY <3>a
      <4> QED  BY <3>a, <4>1, <4>2
    <3>4. /\ s6' = [s6 EXCEPT ![v] = 1] /\ s7' = [s7 EXCEPT ![c] = Bill!Idle]
          /\ UNCHANGED <<s1, s3, s4>>
      BY <1>9, <2>1, <3>3 DEF Bill!GrantVoucher, Bill!Answers, Bill!Extends
    <3> HIDE DEF v
    <3>5. Bill!PurchaseTypes'  BY <3>1, <3>2, <3>3, <3>4 DEF v
    <3>6. Bill!ClaimHeldOnce'  BY <2>1, <3>1, <3>2, <3>3, <3>4 DEF v
    <3> QED  BY <3>5, <3>6
  <2>2. CASE s5[s7[c].for].status # "open"
    BY <1>9, <2>2 DEF Bill!GrantVoucher, Bill!Answers, Bill!subscription
  <2> QED  BY <2>1, <2>2
<1>10. ASSUME NEW v \in Vouchers, Bill!Revoke(v) PROVE Bill!PurchasesHold'
  BY <1>10 DEF Bill!Revoke, Bill!subscription
<1>11. ASSUME Bill!Approve \/ Bill!Renew \/ Bill!Lapse \/ Bill!Activated \/ Bill!Cancel \/ Bill!Webhook
              \/ Bill!WebhookLost \/ Bill!Tick \/ UNCHANGED Bill!vars
       PROVE  Bill!PurchasesHold'
  BY <1>11 DEF Bill!Approve, Bill!Renew, Bill!Lapse, Bill!Activated, Bill!Cancel, Bill!Webhook,
     Bill!WebhookLost, Bill!Tick, Bill!purchases, Bill!vars
<1> QED  BY <1>1, <1>2, <1>3, <1>4, <1>5, <1>6, <1>7, <1>8, <1>9, <1>10, <1>11 DEF Bill!Next


LEMMA CommittedFields ==
  ASSUME Account!AccountTypes, NEW c \in Callers, s5[c] # Account!Idle, s1.exists
  PROVE  LET u == Account!Committed(c) IN
         /\ u \in Account!Row
         /\ u.totp = (IF s5[c].writes.totp # s5[c].read.totp THEN s5[c].writes.totp ELSE s1.totp)
         /\ u.codes = (IF s5[c].writes.codes # s5[c].read.codes THEN s5[c].writes.codes ELSE s1.codes)
         /\ u.secret = (IF s5[c].writes.secret # s5[c].read.secret THEN s5[c].writes.secret ELSE s1.secret)
<1> DEFINE r == s5[c].read  w == s5[c].writes
<1>1. r \in Account!Row /\ w \in Account!Row /\ s1 \in Account!Row  BY DEF Account!AccountTypes
<1>2. DOMAIN s1 = {"exists", "disabled", "password", "totp", "secret", "codes", "left", "mail"}
  BY <1>1 DEF Account!Row
<1>3. Account!Committed(c) = [f \in DOMAIN s1 |-> IF w[f] # r[f] THEN w[f] ELSE s1[f]]
  BY DEF Account!Committed
<1> HIDE DEF r, w
<1> DEFINE u == [f \in DOMAIN s1 |-> IF w[f] # r[f] THEN w[f] ELSE s1[f]]
<1>4. u.totp = (IF w.totp # r.totp THEN w.totp ELSE s1.totp)  BY <1>2
<1>5. u.codes = (IF w.codes # r.codes THEN w.codes ELSE s1.codes)  BY <1>2
<1>6. u.secret = (IF w.secret # r.secret THEN w.secret ELSE s1.secret)  BY <1>2
<1>7. u = [exists |-> u.exists, disabled |-> u.disabled, password |-> u.password, totp |-> u.totp,
           secret |-> u.secret, codes |-> u.codes, left |-> u.left, mail |-> u.mail]
  BY <1>2
<1>8. /\ u.exists \in BOOLEAN /\ u.disabled \in BOOLEAN /\ u.mail \in BOOLEAN /\ u.totp \in BOOLEAN
      /\ u.password \in Account!Numbers /\ u.secret \in Account!Numbers /\ u.codes \in Account!Numbers
      /\ u.left \in 0..Least
  BY <1>1, <1>2 DEF Account!Row
<1>9. u \in Account!Row  BY <1>7, <1>8 DEF Account!Row
<1> QED  BY <1>3, <1>4, <1>5, <1>6, <1>9 DEF r, w

LEMMA AccountInit == Account!Init => Account!AccountHolds
<1> SUFFICES ASSUME Account!Init PROVE Account!AccountHolds  OBVIOUS
<1> USE BoundsAssumption DEF Account!Init, Account!Fresh
<1>1. Account!AccountTypes  BY DEF Account!AccountTypes, Account!Row, Account!Numbers
<1>2. Account!CallsWrite  BY DEF Account!CallsWrite
<1>3. Account!ReadsTheRow /\ Account!NotShutOut  BY DEF Account!ReadsTheRow, Account!NotShutOut
<1> QED  BY <1>1, <1>2, <1>3 DEF Account!AccountHolds

LEMMA AccountReads ==
  ASSUME Account!AccountHolds, NEW c \in Callers, NEW op \in Account!Ops, NEW w \in Account!Row, NEW t \in Account!Numbers,
         Account!Reads(c, op, w, t), UNCHANGED s2, Account!WritesItsOwn(op, s1, w, s7 + 1), w.codes <= s7 + 1,
         op = "setup" => ~s1.totp, op = "enable" => Account!HasDevice
  PROVE  Account!AccountHolds'
<1> DEFINE r == [op |-> op, read |-> s1, writes |-> w, made |-> s7 + 1, token |-> t]
<1>1. /\ s5[c] = Account!Idle /\ s5' = [s5 EXCEPT ![c] = r] /\ s7' = s7 + 1 /\ s7 < Many
      /\ s6' = (s6 \/ \E d \in Callers : s5[d] # Account!Idle)
      /\ UNCHANGED <<s1, s2, s4, s8>>
  BY DEF Account!Reads, Account!Request, Account!New
<1>2. s7 \in Nat /\ Many \in Nat /\ s7 + 1 \in Account!Numbers
  BY <1>1, BoundsAssumption DEF Account!AccountHolds, Account!AccountTypes, Account!Numbers
<1>3. Account!AccountTypes'
  BY <1>1, <1>2 DEF Account!AccountHolds, Account!AccountTypes
<1>4. Account!CallsWrite'
  <2>1. s1.codes <= s7 /\ s1.codes \in Nat
    BY DEF Account!AccountHolds, Account!AccountTypes, Account!CallsWrite, Account!Row, Account!Numbers
  <2>2. ASSUME NEW d \in Callers, s5'[d] # Account!Idle
        PROVE  /\ Account!WritesItsOwn(s5'[d].op, s5'[d].read, s5'[d].writes, s5'[d].made)
               /\ s5'[d].made <= s7' /\ s5'[d].read.codes < s5'[d].made /\ s5'[d].writes.codes <= s5'[d].made
    <3>1. CASE d = c  BY <1>1, <1>2, <2>1, <3>1 DEF Account!AccountHolds, Account!AccountTypes
    <3>2. CASE d # c
      <4>1. s5'[d] = s5[d] /\ s5[d].made \in Nat
        BY <1>1, <2>2, <3>2 DEF Account!AccountHolds, Account!AccountTypes, Account!Numbers
      <4> QED  BY <1>1, <1>2, <2>2, <4>1 DEF Account!AccountHolds, Account!CallsWrite
    <3> QED  BY <3>1, <3>2
  <2> QED  BY <1>1, <1>2, <2>1, <2>2 DEF Account!CallsWrite
<1>5. Account!ReadsTheRow'
  BY <1>1 DEF Account!AccountHolds, Account!AccountTypes, Account!ReadsTheRow, Account!HasDevice
<1>6. Account!NotShutOut'
  BY <1>1 DEF Account!AccountHolds, Account!NotShutOut, Account!HasDevice
<1> QED  BY <1>3, <1>4, <1>5, <1>6 DEF Account!AccountHolds

LEMMA AccountCommits ==
  ASSUME Account!AccountHolds, NEW c \in Callers, Account!Commits(c)
  PROVE  Account!AccountHolds'
<1> DEFINE k == s5[c]
<1>1. /\ k # Account!Idle /\ s1' = Account!Committed(c) /\ s5' = [s5 EXCEPT ![c] = Account!Idle]
      /\ UNCHANGED <<s3, s6, s7>>
  BY DEF Account!Commits
<1>2. k \in [op : Account!Ops, read : Account!Row, writes : Account!Row, made : Account!Numbers, token : Account!Numbers]
  BY <1>1 DEF Account!AccountHolds, Account!AccountTypes
<1>3. /\ Account!WritesItsOwn(k.op, k.read, k.writes, k.made)
      /\ k.made <= s7 /\ k.read.codes < k.made /\ k.writes.codes <= k.made
  BY <1>1 DEF Account!AccountHolds, Account!CallsWrite
<1>4. s2' \in [live : SUBSET Account!Numbers, mailed : SUBSET Account!Numbers]
  BY DEF Account!Commits, Account!AccountHolds, Account!AccountTypes
<1>5. /\ s4' \in [passwords : SUBSET Account!Numbers, secrets : SUBSET Account!Numbers,
                   codes : SUBSET Account!Numbers, mails : SUBSET Account!Numbers]
      /\ s4.secrets \subseteq s4'.secrets /\ s4.codes \subseteq s4'.codes
      /\ s8' \in Nat /\ (s8' = 0 => s8 = 0)
      /\ s8' = 0 /\ k.op \in {"enable", "regenerate"} => k.made \in s4'.codes
  <2>1. s4 \in [passwords : SUBSET Account!Numbers, secrets : SUBSET Account!Numbers,
                codes : SUBSET Account!Numbers, mails : SUBSET Account!Numbers] /\ s8 \in Nat
    BY DEF Account!AccountHolds, Account!AccountTypes
  <2>2. CASE s4' = Account!Typed(c, Account!Told(c)) /\ UNCHANGED s8
    <3> DEFINE o == Account!Told(c)
    <3>1. /\ o \in [passwords : SUBSET Account!Numbers, secrets : SUBSET Account!Numbers,
                     codes : SUBSET Account!Numbers, mails : SUBSET Account!Numbers]
          /\ s4.secrets \subseteq o.secrets /\ s4.codes \subseteq o.codes
          /\ k.op \in {"enable", "regenerate"} => k.made \in o.codes
      BY <1>2, <2>1 DEF Account!Told
    <3> HIDE DEF o
    <3>2. s4' = o \/ s4' = [o EXCEPT !.passwords = @ \cup {k.made}]
      BY <2>2 DEF Account!Typed, o
    <3> QED  BY <1>2, <2>1, <2>2, <3>1, <3>2
  <2>3. CASE s4' = Account!Typed(c, s4) /\ s8' = s8 + 1
    <3>1. s4' = s4 \/ s4' = [s4 EXCEPT !.passwords = @ \cup {k.made}]
      BY <2>3 DEF Account!Typed
    <3> QED  BY <1>2, <2>1, <2>3, <3>1
  <2> QED  BY <2>2, <2>3 DEF Account!Commits
<1>6. CASE ~s1.exists
  <2>1. s1' = s1  BY <1>1, <1>6 DEF Account!Committed
  <2>2. Account!AccountTypes'  BY <1>1, <1>4, <1>5, <2>1 DEF Account!AccountHolds, Account!AccountTypes
  <2>3. Account!CallsWrite'  BY <1>1, <2>1 DEF Account!AccountHolds, Account!AccountTypes, Account!CallsWrite
  <2>4. Account!ReadsTheRow'
    BY <1>1, <1>5, <2>1 DEF Account!AccountHolds, Account!AccountTypes, Account!ReadsTheRow, Account!HasDevice
  <2>5. Account!NotShutOut'
    BY <1>1, <1>5, <2>1 DEF Account!AccountHolds, Account!NotShutOut, Account!HasDevice
  <2> QED  BY <2>2, <2>3, <2>4, <2>5 DEF Account!AccountHolds
<1>7. CASE s1.exists
  <2>1. /\ s1' \in Account!Row
        /\ s1'.totp = (IF k.writes.totp # k.read.totp THEN k.writes.totp ELSE s1.totp)
        /\ s1'.codes = (IF k.writes.codes # k.read.codes THEN k.writes.codes ELSE s1.codes)
        /\ s1'.secret = (IF k.writes.secret # k.read.secret THEN k.writes.secret ELSE s1.secret)
    BY <1>1, <1>7, CommittedFields DEF Account!AccountHolds
  <2>2. Account!AccountTypes'  BY <1>1, <1>4, <1>5, <2>1 DEF Account!AccountHolds, Account!AccountTypes
  <2>3. Account!CallsWrite'
    <3>1. s1'.codes <= s7'
      BY <1>1, <1>2, <1>3, <2>1 DEF Account!AccountHolds, Account!AccountTypes, Account!CallsWrite, Account!Row, Account!Numbers
    <3> QED  BY <1>1, <3>1 DEF Account!AccountHolds, Account!AccountTypes, Account!CallsWrite
  <2>4. Account!ReadsTheRow'
    <3>1. s6 \/ \A d \in Callers : s5'[d] = Account!Idle
      BY <1>1 DEF Account!AccountHolds, Account!AccountTypes, Account!ReadsTheRow
    <3> QED  BY <1>1, <3>1 DEF Account!ReadsTheRow
  <2>5. ~s6' /\ s1'.totp => Account!HasDevice'
    <3> SUFFICES ASSUME ~s6, s1'.totp PROVE Account!HasDevice'  BY <1>1
    <3>1. k.read = s1 /\ (k.op = "setup" => ~s1.totp) /\ (k.op = "enable" => Account!HasDevice)
      BY <1>1 DEF Account!AccountHolds, Account!ReadsTheRow
    <3>2. s1.totp => Account!HasDevice
      BY DEF Account!AccountHolds, Account!NotShutOut
    <3>3. Account!HasDevice /\ s1'.secret = s1.secret
      BY <1>2, <1>3, <2>1, <3>1, <3>2 DEF Account!WritesItsOwn, Account!Ops
    <3> QED  BY <1>5, <3>3 DEF Account!HasDevice
  <2>6. s8' = 0 /\ s1'.totp => s1'.codes \in s4'.codes
    <3> SUFFICES ASSUME s8' = 0, s1'.totp PROVE s1'.codes \in s4'.codes  OBVIOUS
    <3>1. s1.totp => s1.codes \in s4'.codes
      BY <1>5 DEF Account!AccountHolds, Account!NotShutOut
    <3>2. CASE k.op \in {"enable", "regenerate"}
      <4>1. k.writes.codes = k.made /\ k.writes.codes # k.read.codes
        BY <1>2, <1>3, <3>2 DEF Account!WritesItsOwn, Account!Numbers, Account!Row
      <4> QED  BY <1>5, <2>1, <3>2, <4>1
    <3>3. CASE k.op = "disable"
      BY <1>2, <1>3, <2>1, <3>3 DEF Account!WritesItsOwn, Account!Row
    <3>4. CASE k.op \notin {"enable", "regenerate", "disable"}
      BY <1>2, <1>3, <2>1, <3>1, <3>4 DEF Account!WritesItsOwn, Account!Row
    <3> QED  BY <3>2, <3>3, <3>4
  <2> QED  BY <2>2, <2>3, <2>4, <2>5, <2>6 DEF Account!AccountHolds, Account!NotShutOut
<1> QED  BY <1>6, <1>7

LEMMA AccountStep == Account!AccountHolds /\ [Account!Next]_(Account!vars) => Account!AccountHolds'
<1> SUFFICES ASSUME Account!AccountHolds, [Account!Next]_(Account!vars) PROVE Account!AccountHolds'  OBVIOUS
<1>a. s1 \in Account!Row /\ s7 \in Nat /\ Many \in Nat /\ Least \in Nat \ {0} /\ s1.codes \in Nat /\ s1.codes <= s7
  BY BoundsAssumption DEF Account!AccountHolds, Account!AccountTypes, Account!CallsWrite, Account!Numbers, Account!Row
<1>b. s7 < Many => s7 + 1 \in Account!Numbers /\ s1.codes <= s7 + 1 /\ s7 + 1 <= s7 + 1
  BY <1>a DEF Account!Numbers
<1>1. ASSUME NEW c \in Callers, Account!Setup(c) PROVE Account!AccountHolds'
  <2> DEFINE w == [s1 EXCEPT !.secret = s7 + 1]
  <2>1. Account!Reads(c, "setup", w, 0) /\ UNCHANGED s2 /\ ~s1.totp
    BY <1>1 DEF Account!Setup, Account!New, Account!NotEnabled
  <2>2. s7 + 1 \in Account!Numbers /\ 0 \in Account!Numbers /\ s1.codes <= s7 + 1
    BY <1>a, <1>b, <2>1 DEF Account!Reads, Account!Request, Account!Numbers, Account!AccountHolds, Account!AccountTypes
  <2>3. w \in Account!Row /\ Account!WritesItsOwn("setup", s1, w, s7 + 1) /\ w.codes <= s7 + 1
    BY <1>a, <2>1, <2>2 DEF Account!Row, Account!WritesItsOwn, Account!Numbers
  <2> HIDE DEF w
  <2> QED  BY <2>1, <2>2, <2>3, AccountReads DEF Account!Ops
<1>2. ASSUME NEW c \in Callers, Account!Enable(c) PROVE Account!AccountHolds'
  <2> DEFINE w == [s1 EXCEPT !.totp = TRUE, !.codes = s7 + 1, !.left = Least]
  <2>1. Account!Reads(c, "enable", w, 0) /\ UNCHANGED s2 /\ Account!HasDevice
    BY <1>2 DEF Account!Enable, Account!New
  <2>2. s7 + 1 \in Account!Numbers /\ 0 \in Account!Numbers /\ s1.codes <= s7 + 1
    BY <1>a, <1>b, <2>1 DEF Account!Reads, Account!Request, Account!Numbers, Account!AccountHolds, Account!AccountTypes
  <2>3. w \in Account!Row /\ Account!WritesItsOwn("enable", s1, w, s7 + 1) /\ w.codes <= s7 + 1
    <3>1. Least \in 0..Least /\ 0 \in 0..Least /\ 0 \in Account!Numbers  BY <1>a DEF Account!Numbers
    <3>2. w \in Account!Row  BY <1>a, <2>2, <3>1 DEF Account!Row
    <3>3. w.totp = TRUE  BY <1>a DEF Account!Row
    <3>4. w.codes = s7 + 1  BY <1>a DEF Account!Row
    <3>5. w.secret = s1.secret  BY <1>a DEF Account!Row
    <3> HIDE DEF w
    <3> QED  BY <1>a, <2>1, <2>2, <3>2, <3>3, <3>4, <3>5 DEF Account!WritesItsOwn
  <2> HIDE DEF w
  <2> QED  BY <2>1, <2>2, <2>3, AccountReads DEF Account!Ops
<1>3. ASSUME NEW c \in Callers, Account!Disable(c) PROVE Account!AccountHolds'
  <2> DEFINE w == [s1 EXCEPT !.totp = FALSE, !.secret = 0, !.codes = 0, !.left = 0]
  <2>1. Account!Reads(c, "disable", w, 0) /\ UNCHANGED s2 /\ s1.totp
    BY <1>3 DEF Account!Disable, Account!New
  <2>2. s7 + 1 \in Account!Numbers /\ 0 \in Account!Numbers /\ s1.codes <= s7 + 1
    BY <1>a, <1>b, <2>1 DEF Account!Reads, Account!Request, Account!Numbers, Account!AccountHolds, Account!AccountTypes
  <2>3. w \in Account!Row /\ Account!WritesItsOwn("disable", s1, w, s7 + 1) /\ w.codes <= s7 + 1
    <3>1. Least \in 0..Least /\ 0 \in 0..Least /\ 0 \in Account!Numbers  BY <1>a DEF Account!Numbers
    <3>2. w \in Account!Row  BY <1>a, <2>2, <3>1 DEF Account!Row
    <3>3. w.totp = FALSE  BY <1>a DEF Account!Row
    <3>4. w.codes = 0  BY <1>a DEF Account!Row
    <3>5. w.secret = 0  BY <1>a DEF Account!Row
    <3> HIDE DEF w
    <3> QED  BY <1>a, <2>1, <2>2, <3>2, <3>3, <3>4, <3>5 DEF Account!WritesItsOwn
  <2> HIDE DEF w
  <2> QED  BY <2>1, <2>2, <2>3, AccountReads DEF Account!Ops
<1>4. ASSUME NEW c \in Callers, Account!Regenerate(c) PROVE Account!AccountHolds'
  <2> DEFINE w == [s1 EXCEPT !.codes = s7 + 1, !.left = Least]
  <2>1. Account!Reads(c, "regenerate", w, 0) /\ UNCHANGED s2
    BY <1>4 DEF Account!Regenerate, Account!New
  <2>2. s7 + 1 \in Account!Numbers /\ 0 \in Account!Numbers /\ s1.codes <= s7 + 1
    BY <1>a, <1>b, <2>1 DEF Account!Reads, Account!Request, Account!Numbers, Account!AccountHolds, Account!AccountTypes
  <2>3. w \in Account!Row /\ Account!WritesItsOwn("regenerate", s1, w, s7 + 1) /\ w.codes <= s7 + 1
    <3>1. Least \in 0..Least /\ 0 \in 0..Least /\ 0 \in Account!Numbers  BY <1>a DEF Account!Numbers
    <3>2. w \in Account!Row  BY <1>a, <2>2, <3>1 DEF Account!Row
    <3>3. w.totp = s1.totp  BY <1>a DEF Account!Row
    <3>4. w.codes = s7 + 1  BY <1>a DEF Account!Row
    <3>5. w.secret = s1.secret  BY <1>a DEF Account!Row
    <3> HIDE DEF w
    <3> QED  BY <1>a, <2>1, <2>2, <3>2, <3>3, <3>4, <3>5 DEF Account!WritesItsOwn
  <2> HIDE DEF w
  <2> QED  BY <2>1, <2>2, <2>3, AccountReads DEF Account!Ops
<1>5. ASSUME NEW c \in Callers, Account!Recover(c) PROVE Account!AccountHolds'
  <2> DEFINE w == [s1 EXCEPT !.left = @ - 1]
  <2>1. Account!Reads(c, "recover", w, 0) /\ UNCHANGED s2 /\ s1.left > 0
    BY <1>5 DEF Account!Recover, Account!New, Account!HasCode
  <2>2. s7 + 1 \in Account!Numbers /\ 0 \in Account!Numbers /\ s1.codes <= s7 + 1
    BY <1>a, <1>b, <2>1 DEF Account!Reads, Account!Request, Account!Numbers, Account!AccountHolds, Account!AccountTypes
  <2>3. w \in Account!Row /\ Account!WritesItsOwn("recover", s1, w, s7 + 1) /\ w.codes <= s7 + 1
    BY <1>a, <2>1, <2>2 DEF Account!Row, Account!WritesItsOwn, Account!Numbers
  <2> HIDE DEF w
  <2> QED  BY <2>1, <2>2, <2>3, AccountReads DEF Account!Ops
<1>6. ASSUME NEW c \in Callers, Account!ConfirmMail(c) PROVE Account!AccountHolds'
  <2> DEFINE w == [s1 EXCEPT !.mail = TRUE]
  <2>1. Account!Reads(c, "confirmMail", w, 0) /\ UNCHANGED s2
    BY <1>6 DEF Account!ConfirmMail, Account!New
  <2>2. s7 + 1 \in Account!Numbers /\ 0 \in Account!Numbers /\ s1.codes <= s7 + 1
    BY <1>a, <1>b, <2>1 DEF Account!Reads, Account!Request, Account!Numbers, Account!AccountHolds, Account!AccountTypes
  <2>3. w \in Account!Row /\ Account!WritesItsOwn("confirmMail", s1, w, s7 + 1) /\ w.codes <= s7 + 1
    BY <1>a, <2>1, <2>2 DEF Account!Row, Account!WritesItsOwn, Account!Numbers
  <2> HIDE DEF w
  <2> QED  BY <2>1, <2>2, <2>3, AccountReads DEF Account!Ops
<1>7. ASSUME NEW c \in Callers, Account!DisableMail(c) PROVE Account!AccountHolds'
  <2> DEFINE w == [s1 EXCEPT !.mail = FALSE]
  <2>1. Account!Reads(c, "disableMail", w, 0) /\ UNCHANGED s2
    BY <1>7 DEF Account!DisableMail, Account!New
  <2>2. s7 + 1 \in Account!Numbers /\ 0 \in Account!Numbers /\ s1.codes <= s7 + 1
    BY <1>a, <1>b, <2>1 DEF Account!Reads, Account!Request, Account!Numbers, Account!AccountHolds, Account!AccountTypes
  <2>3. w \in Account!Row /\ Account!WritesItsOwn("disableMail", s1, w, s7 + 1) /\ w.codes <= s7 + 1
    BY <1>a, <2>1, <2>2 DEF Account!Row, Account!WritesItsOwn, Account!Numbers
  <2> HIDE DEF w
  <2> QED  BY <2>1, <2>2, <2>3, AccountReads DEF Account!Ops
<1>8. ASSUME NEW c \in Callers, Account!ChangePassword(c) PROVE Account!AccountHolds'
  <2> DEFINE w == [s1 EXCEPT !.password = s7 + 1]
  <2>1. Account!Reads(c, "password", w, 0) /\ UNCHANGED s2
    BY <1>8 DEF Account!ChangePassword, Account!New
  <2>2. s7 + 1 \in Account!Numbers /\ 0 \in Account!Numbers /\ s1.codes <= s7 + 1
    BY <1>a, <1>b, <2>1 DEF Account!Reads, Account!Request, Account!Numbers, Account!AccountHolds, Account!AccountTypes
  <2>3. w \in Account!Row /\ Account!WritesItsOwn("password", s1, w, s7 + 1) /\ w.codes <= s7 + 1
    BY <1>a, <2>1, <2>2 DEF Account!Row, Account!WritesItsOwn, Account!Numbers
  <2> HIDE DEF w
  <2> QED  BY <2>1, <2>2, <2>3, AccountReads DEF Account!Ops
<1>9. ASSUME NEW c \in Callers, Account!Delete(c) PROVE Account!AccountHolds'
  <2> DEFINE w == [s1 EXCEPT !.exists = FALSE]
  <2>1. Account!Reads(c, "delete", w, 0) /\ UNCHANGED s2
    BY <1>9 DEF Account!Delete, Account!New
  <2>2. s7 + 1 \in Account!Numbers /\ 0 \in Account!Numbers /\ s1.codes <= s7 + 1
    BY <1>a, <1>b, <2>1 DEF Account!Reads, Account!Request, Account!Numbers, Account!AccountHolds, Account!AccountTypes
  <2>3. w \in Account!Row /\ Account!WritesItsOwn("delete", s1, w, s7 + 1) /\ w.codes <= s7 + 1
    BY <1>a, <2>1, <2>2 DEF Account!Row, Account!WritesItsOwn, Account!Numbers
  <2> HIDE DEF w
  <2> QED  BY <2>1, <2>2, <2>3, AccountReads DEF Account!Ops
<1>10. ASSUME NEW c \in Callers, Account!SetPassword(c) PROVE Account!AccountHolds'
  <2> DEFINE w == [s1 EXCEPT !.password = s7 + 1]
  <2>1. Account!Reads(c, "setPassword", w, 0) /\ UNCHANGED s2
    BY <1>10 DEF Account!SetPassword, Account!New
  <2>2. s7 + 1 \in Account!Numbers /\ 0 \in Account!Numbers /\ s1.codes <= s7 + 1
    BY <1>a, <1>b, <2>1 DEF Account!Reads, Account!Request, Account!Numbers, Account!AccountHolds, Account!AccountTypes
  <2>3. w \in Account!Row /\ Account!WritesItsOwn("setPassword", s1, w, s7 + 1) /\ w.codes <= s7 + 1
    BY <1>a, <2>1, <2>2 DEF Account!Row, Account!WritesItsOwn, Account!Numbers
  <2> HIDE DEF w
  <2> QED  BY <2>1, <2>2, <2>3, AccountReads DEF Account!Ops
<1>11. ASSUME NEW c \in Callers, Account!Suspend(c) PROVE Account!AccountHolds'
  <2> DEFINE w == [s1 EXCEPT !.disabled = ~@]
  <2>1. Account!Reads(c, "suspend", w, 0) /\ UNCHANGED s2
    BY <1>11 DEF Account!Suspend, Account!New
  <2>2. s7 + 1 \in Account!Numbers /\ 0 \in Account!Numbers /\ s1.codes <= s7 + 1
    BY <1>a, <1>b, <2>1 DEF Account!Reads, Account!Request, Account!Numbers, Account!AccountHolds, Account!AccountTypes
  <2>3. w \in Account!Row /\ Account!WritesItsOwn("suspend", s1, w, s7 + 1) /\ w.codes <= s7 + 1
    BY <1>a, <2>1, <2>2 DEF Account!Row, Account!WritesItsOwn, Account!Numbers
  <2> HIDE DEF w
  <2> QED  BY <2>1, <2>2, <2>3, AccountReads DEF Account!Ops
<1>12. ASSUME NEW c \in Callers, NEW t \in s2.live, Account!Reset(c, t) PROVE Account!AccountHolds'
  <2> DEFINE w == [s1 EXCEPT !.password = s7 + 1]
  <2>1. Account!Reads(c, "reset", w, t) /\ UNCHANGED s2
    BY <1>12 DEF Account!Reset, Account!New
  <2>2. s7 + 1 \in Account!Numbers /\ t \in Account!Numbers /\ s1.codes <= s7 + 1
    BY <1>a, <1>b, <2>1 DEF Account!Reads, Account!Request, Account!Numbers, Account!AccountHolds, Account!AccountTypes
  <2>3. w \in Account!Row /\ Account!WritesItsOwn("reset", s1, w, s7 + 1) /\ w.codes <= s7 + 1
    BY <1>a, <2>1, <2>2 DEF Account!Row, Account!WritesItsOwn, Account!Numbers
  <2> HIDE DEF w
  <2> QED  BY <2>1, <2>2, <2>3, AccountReads DEF Account!Ops
<1>13. CASE Account!MailCode \/ Account!LoginCode \/ Account!LoginByMail \/ Account!AskReset
  <2>1. UNCHANGED <<s1, s5, s6, s8>> /\ s7' = s7 + 1 /\ s7 < Many
    BY <1>13 DEF Account!MailCode, Account!LoginCode, Account!LoginByMail, Account!AskReset, Account!SendsCode, Account!Request
  <2>2. s7 + 1 \in Account!Numbers  BY <1>b, <2>1
  <2>3. /\ s4' \in [passwords : SUBSET Account!Numbers, secrets : SUBSET Account!Numbers,
                     codes : SUBSET Account!Numbers, mails : SUBSET Account!Numbers]
        /\ s4'.secrets = s4.secrets /\ s4'.codes = s4.codes
    BY <1>13, <2>2 DEF Account!MailCode, Account!LoginCode, Account!LoginByMail, Account!AskReset, Account!SendsCode, Account!New,
       Account!AccountHolds, Account!AccountTypes
  <2>4. s2' \in [live : SUBSET Account!Numbers, mailed : SUBSET Account!Numbers]
    BY <1>13, <2>2 DEF Account!MailCode, Account!LoginCode, Account!LoginByMail, Account!AskReset, Account!SendsCode, Account!New,
       Account!AccountHolds, Account!AccountTypes
  <2>5. Account!AccountTypes'  BY <2>1, <2>2, <2>3, <2>4 DEF Account!AccountHolds, Account!AccountTypes
  <2>6. Account!CallsWrite'
    <3>1. ASSUME NEW d \in Callers, s5[d] # Account!Idle PROVE s5[d].made <= s7'
      BY <1>a, <2>1, <3>1 DEF Account!AccountHolds, Account!AccountTypes, Account!CallsWrite, Account!Numbers
    <3> QED  BY <1>a, <2>1, <3>1 DEF Account!AccountHolds, Account!CallsWrite
  <2>7. Account!ReadsTheRow' /\ Account!NotShutOut'
    BY <2>1, <2>3 DEF Account!AccountHolds, Account!ReadsTheRow, Account!NotShutOut, Account!HasDevice
  <2> QED  BY <2>5, <2>6, <2>7 DEF Account!AccountHolds
<1>14. CASE UNCHANGED Account!vars
  BY <1>14 DEF Account!vars, Account!AccountHolds, Account!AccountTypes, Account!CallsWrite, Account!ReadsTheRow, Account!NotShutOut,
     Account!HasDevice
<1> QED  BY AccountCommits, <1>1, <1>2, <1>3, <1>4, <1>5, <1>6, <1>7, <1>8, <1>9, <1>10, <1>11, <1>12, <1>13, <1>14 DEF Account!Next

LEMMA MailCardinality == ASSUME NEW S PROVE Mail!Cardinality(S) = Cardinality(S)
BY DEF Mail!Cardinality, Cardinality

LEMMA MailInit == Mail!Init => Mail!MailHolds
<1> SUFFICES ASSUME Mail!Init PROVE Mail!MailHolds  OBVIOUS
<1> USE DEF Mail!Init, Mail!NoAction, Mail!Absent, Mail!LIVE_STATUSES, Mail!BUSY_STATUSES, Mail!ACTIVE, Mail!Statuses,
        Mail!CLOSED_STATUSES
<1>1. Mail!MailTypes  BY DEF Mail!MailTypes
<1>2. Mail!OneLive /\ Mail!ReviewedFirst /\ Mail!RaisedOnce  BY DEF Mail!OneLive, Mail!ReviewedFirst, Mail!RaisedOnce
<1> QED  BY <1>1, <1>2 DEF Mail!MailHolds

\* A push: what it drops was being prepared, and what it finds being held or reviewed keeps its outcome.
LEMMA MailPushes ==
  ASSUME Mail!MailHolds, NEW s \in Sittings, Mail!Sync(s)
  PROVE  Mail!MailHolds' /\ Mail!PushLeavesOutcome
<1> DEFINE dropped == Mail!Replaced(s)
           setup == s1[s] \in {"none", "setup"}
           a == Mail!Without(dropped)
<1> USE DEF Mail!LIVE_STATUSES, Mail!BUSY_STATUSES, Mail!ACTIVE, Mail!Statuses, Mail!CLOSED_STATUSES
<1>1. s \in Mail!Sessions /\ s1 \in [Mail!Sessions -> Mail!Statuses]  BY DEF Mail!MailHolds, Mail!MailTypes, Mail!Sessions
<1>2. PICK listsDecision \in BOOLEAN, listsAction \in BOOLEAN, wanted \in {"pending", "adopted"} :
        /\ s1' = [u \in Mail!Sessions |-> IF u \in dropped THEN "none" ELSE IF u = s /\ setup THEN "setup" ELSE s1[u]]
        /\ s2' = [u \in Mail!Sessions |-> IF u \in dropped THEN Mail!Absent
                    ELSE IF u = s THEN Mail!SyncedDecision(s2[s], setup, listsDecision, wanted) ELSE s2[u]]
        /\ s3' = Mail!SyncedAction(s, a, setup, listsAction)
  BY DEF Mail!Sync
<1>3. /\ s1[s] \in {"none", "setup", "running", "paused"}
      /\ \A u \in Mail!Sessions \ {s} : s1[u] \notin {"running", "paused", "finalising"}
      /\ UNCHANGED <<s5, s6>>
  BY <1>1 DEF Mail!Sync
<1>4. dropped = {u \in Mail!Sessions \ {s} : s1[u] = "setup"}  BY DEF Mail!Replaced
<1>5. s7' \in [syncs : Nat, edits : Nat]
  BY DEF Mail!Sync, Mail!Use, Mail!MailHolds, Mail!MailTypes
<1>6. \/ a = Mail!NoAction /\ s3.status = "absent"
      \/ a = Mail!NoAction /\ s3.home # {} /\ s3.home \subseteq dropped
      \/ /\ s3.status # "absent" /\ a = [s3 EXCEPT !.reports = @ \ dropped]
         /\ \E u \in Mail!Sessions \ dropped : s3.home = {u}
  <2>1. CASE s3.home # {} /\ s3.home \subseteq dropped  BY <2>1 DEF Mail!Without
  <2>2. CASE s3.status = "absent" /\ ~(s3.home # {} /\ s3.home \subseteq dropped)
    <3>1. s3 = Mail!NoAction  BY <2>2 DEF Mail!MailHolds, Mail!RaisedOnce
    <3>2. a = [s3 EXCEPT !.reports = s3.reports \ dropped]  BY <2>2 DEF Mail!Without
    <3>3. s3.reports \ dropped = {}  BY <3>1 DEF Mail!NoAction
    <3>4. a = Mail!NoAction  BY <3>1, <3>2, <3>3 DEF Mail!NoAction
    <3> QED  BY <2>2, <3>4
  <2>3. CASE s3.status # "absent" /\ ~(s3.home # {} /\ s3.home \subseteq dropped)
    <3>1. a = [s3 EXCEPT !.reports = s3.reports \ dropped]  BY <2>3 DEF Mail!Without
    <3>2. \E u \in Mail!Sessions : s3.home = {u}  BY <2>3 DEF Mail!MailHolds, Mail!RaisedOnce
    <3> QED  BY <2>3, <3>1, <3>2
  <2> QED  BY <2>1, <2>2, <2>3
<1> HIDE DEF a, dropped
<1> DEFINE Act == [status : {"absent", "open", "done"}, locked : BOOLEAN,
                   home : SUBSET Mail!Sessions, reports : SUBSET Mail!Sessions, later : SUBSET Mail!Sessions]
<1>t. s3 \in Act  BY DEF Mail!MailHolds, Mail!MailTypes
<1>7. a \in Act
  <2>1. CASE a = Mail!NoAction  BY <2>1 DEF Mail!NoAction
  <2>2. CASE a = [s3 EXCEPT !.reports = @ \ dropped]  BY <1>t, <2>2
  <2> QED  BY <1>6, <2>1, <2>2
<1>8. s6 \in [action : {"open", "done"}, took : SUBSET Mail!Sessions]  BY DEF Mail!MailHolds, Mail!MailTypes
<1>9. \/ s3' = a
      \/ s3' = [a EXCEPT !.status = s6.action] /\ a.status # "absent"
      \/ s3' = Mail!NoAction
      \/ s3' = [status |-> "open", locked |-> FALSE, home |-> {s}, reports |-> {},
                later |-> {u \in Mail!Sessions : s1[u] \in Mail!CLOSED_STATUSES}]
  BY <1>2, <1>7 DEF Mail!SyncedAction, Mail!NoAction
<1>10. Mail!MailTypes'
  <2>1. s1' \in [Mail!Sessions -> Mail!Statuses]  BY <1>1, <1>2
  <2>2. s2' \in [Mail!Sessions -> [status : {"absent", "pending", "adopted"}, locked : BOOLEAN]]
    <3>1. s2 \in [Mail!Sessions -> [status : {"absent", "pending", "adopted"}, locked : BOOLEAN]]
      BY DEF Mail!MailHolds, Mail!MailTypes
    <3>2. Mail!SyncedDecision(s2[s], setup, listsDecision, wanted) \in [status : {"absent", "pending", "adopted"}, locked : BOOLEAN]
      BY <1>1, <3>1 DEF Mail!SyncedDecision, Mail!Absent
    <3> HIDE DEF setup
    <3> QED  BY <1>1, <1>2, <3>1, <3>2 DEF Mail!Absent
  <2>3. s3' \in Act
    <3>1. CASE s3' = a  BY <1>7, <3>1
    <3>2. CASE s3' = [a EXCEPT !.status = s6.action]  BY <1>7, <1>8, <3>2
    <3>3. CASE s3' = Mail!NoAction  BY <3>3 DEF Mail!NoAction
    <3>4. CASE s3' = [status |-> "open", locked |-> FALSE, home |-> {s}, reports |-> {},
                      later |-> {u \in Mail!Sessions : s1[u] \in Mail!CLOSED_STATUSES}]
      BY <1>1, <3>4
    <3> QED  BY <1>9, <3>1, <3>2, <3>3, <3>4
  <2> QED  BY <1>3, <1>5, <2>1, <2>2, <2>3 DEF Mail!MailHolds, Mail!MailTypes
<1>11. Mail!OneLive'
  BY <1>1, <1>2, <1>3, <1>4 DEF Mail!OneLive
<1>12. Mail!ReviewedFirst'
  BY <1>1, <1>2, <1>3, <1>4 DEF Mail!ReviewedFirst, Mail!MailHolds, Mail!MailTypes
<1>13. Mail!RaisedOnce'
  <2>1. CASE s3' = Mail!NoAction  BY <2>1 DEF Mail!RaisedOnce, Mail!NoAction
  <2>2. CASE s3' = [status |-> "open", locked |-> FALSE, home |-> {s}, reports |-> {},
                    later |-> {u \in Mail!Sessions : s1[u] \in Mail!CLOSED_STATUSES}]
    <3>1. s1'[s] # "none"  BY <1>1, <1>2, <1>3, <1>4
    <3>2. \A u \in Mail!Sessions \ {s} : s1'[u] \in Mail!CLOSED_STATUSES => s1[u] \in Mail!CLOSED_STATUSES
      BY <1>1, <1>2, <1>4
    <3> QED  BY <1>1, <2>2, <3>1, <3>2 DEF Mail!RaisedOnce
  <2>3. CASE s3' = a \/ (s3' = [a EXCEPT !.status = s6.action] /\ a.status # "absent")
    <3>1. CASE a = Mail!NoAction  BY <2>3, <3>1 DEF Mail!RaisedOnce, Mail!NoAction
    <3>2. CASE s3.status # "absent" /\ a = [s3 EXCEPT !.reports = @ \ dropped] /\ \E u \in Mail!Sessions \ dropped : s3.home = {u}
      <4>1. PICK u \in Mail!Sessions \ dropped : s3.home = {u}  BY <3>2
      <4>2. /\ s1[u] # "none"
            /\ s1[u] = "setup" => /\ s3.reports = {}
                                  /\ \A v \in Mail!Sessions \ {u} : s1[v] \in Mail!CLOSED_STATUSES => v \in s3.later
        BY <3>2, <4>1 DEF Mail!MailHolds, Mail!RaisedOnce
      <4>3. s3'.home = {u} /\ s3'.later = s3.later /\ s3'.reports \subseteq s3.reports /\ s3'.status # "absent"
        <5>1. a.home = {u} /\ a.later = s3.later /\ a.reports \subseteq s3.reports /\ a.status # "absent"
          BY <1>t, <3>2, <4>1
        <5>2. CASE s3' = a  BY <5>1, <5>2
        <5>3. CASE s3' = [a EXCEPT !.status = s6.action]  BY <1>7, <1>8, <5>1, <5>3
        <5> QED  BY <2>3, <5>2, <5>3
      <4>4. s1'[u] # "none" /\ (s1'[u] = "setup" => s1[u] = "setup")
        BY <1>1, <1>2, <4>1, <4>2
      <4>5. \A v \in Mail!Sessions \ {u} : s1'[v] \in Mail!CLOSED_STATUSES => s1[v] \in Mail!CLOSED_STATUSES
        BY <1>1, <1>2
      <4> QED  BY <4>1, <4>2, <4>3, <4>4, <4>5 DEF Mail!RaisedOnce
    <3> QED  BY <1>6, <3>1, <3>2
  <2> QED  BY <1>9, <2>1, <2>2, <2>3
<1>14. Mail!PushLeavesOutcome
  <2> SUFFICES ASSUME NEW u \in Mail!Sessions, s1[u] \in {"running", "paused", "finalising", "review"}
               PROVE  /\ u \in s3.reports => s3'.status = s3.status
                      /\ s2[u].status = "adopted" => s2'[u] = s2[u]
    BY DEF Mail!PushLeavesOutcome
  <2>1. u \notin dropped /\ (u = s => ~setup)  BY <1>4
  <2>2. ASSUME u \in s3.reports PROVE s3'.status = s3.status
    <3>1. s3.status # "absent"  BY <2>2 DEF Mail!MailHolds, Mail!RaisedOnce, Mail!NoAction
    <3>2. ~(s3.home # {} /\ s3.home \subseteq dropped)
      BY <1>4, <2>2, <3>1 DEF Mail!MailHolds, Mail!RaisedOnce
    <3>3. a = [s3 EXCEPT !.reports = @ \ dropped]  BY <1>6, <3>1, <3>2
    <3>4. a.status = s3.status /\ a.reports = s3.reports \ dropped  BY <3>3 DEF Mail!MailHolds, Mail!MailTypes
    <3>5. Mail!OutcomePending  BY <2>2 DEF Mail!OutcomePending
    <3>6. s3' = a  BY <1>2, <2>1, <2>2, <3>1, <3>4, <3>5 DEF Mail!SyncedAction
    <3> QED  BY <3>4, <3>6
  <2>3. ASSUME s2[u].status = "adopted" PROVE s2'[u] = s2[u]
    BY <1>2, <2>1, <2>3 DEF Mail!SyncedDecision
  <2> QED  BY <2>2, <2>3
<1> QED  BY <1>10, <1>11, <1>12, <1>13, <1>14 DEF Mail!MailHolds

\* Every other step, none of which is a push.
LEMMA MailRest ==
  ASSUME Mail!MailHolds, Mail!Next, \A s \in Sittings : ~Mail!Sync(s)
  PROVE  Mail!MailHolds' /\ Mail!PushLeavesOutcome
<1> USE DEF Mail!LIVE_STATUSES, Mail!BUSY_STATUSES, Mail!ACTIVE, Mail!Statuses, Mail!CLOSED_STATUSES
<1> DEFINE Act == [status : {"absent", "open", "done"}, locked : BOOLEAN,
                   home : SUBSET Mail!Sessions, reports : SUBSET Mail!Sessions, later : SUBSET Mail!Sessions]
<1>t. /\ s1 \in [Mail!Sessions -> Mail!Statuses] /\ s3 \in Act /\ s5 \subseteq Mail!Sessions
      /\ s2 \in [Mail!Sessions -> [status : {"absent", "pending", "adopted"}, locked : BOOLEAN]]
      /\ s6 \in [action : {"open", "done"}, took : SUBSET Mail!Sessions] /\ s7 \in [syncs : Nat, edits : Nat]
  BY DEF Mail!MailHolds, Mail!MailTypes
<1>u. Mail!Use("edits", Some) => s7' \in [syncs : Nat, edits : Nat] /\ s7'.syncs = s7.syncs
  BY <1>t DEF Mail!Use
<1>1. ASSUME NEW s \in Own, Mail!Create(s) PROVE Mail!MailHolds' /\ s7'.syncs = s7.syncs
  <2>1. s \in Mail!Sessions /\ s1' = [s1 EXCEPT ![s] = "setup"] /\ s1[s] = "none" /\ UNCHANGED <<s2, s3, s5, s6>>
    BY <1>1 DEF Mail!Create, Mail!Sessions
  <2>2. \A u \in Mail!Sessions : s1[u] \notin Mail!LIVE_STATUSES  BY <1>1 DEF Mail!Create
  <2>3. Mail!MailTypes' /\ s7'.syncs = s7.syncs  BY <1>t, <1>u, <1>1, <2>1 DEF Mail!MailTypes, Mail!Create
  <2>4. Mail!OneLive'  BY <1>t, <2>1, <2>2 DEF Mail!OneLive
  <2>5. Mail!ReviewedFirst'  BY <1>t, <2>1 DEF Mail!ReviewedFirst, Mail!MailHolds
  <2>6. Mail!RaisedOnce'  BY <1>t, <2>1 DEF Mail!RaisedOnce, Mail!MailHolds, Mail!NoAction
  <2> QED  BY <2>3, <2>4, <2>5, <2>6 DEF Mail!MailHolds
<1>2. ASSUME NEW s \in Mail!Sessions, NEW to \in {"running", "paused", "finalising", "review", "aborted", "published"},
             s1' = [s1 EXCEPT ![s] = to], UNCHANGED <<s2, s3, s6>>, s7' \in [syncs : Nat, edits : Nat], s7'.syncs = s7.syncs,
             \/ s5' = s5 /\ s1[s] \in Mail!LIVE_STATUSES /\ (to = "review" \/ to # "published")
             \/ s1[s] \in {"review", "published"} /\ to = "published" /\ s5' = s5 \ {s}
      PROVE  Mail!MailHolds'
  <2>1. Mail!MailTypes'  BY <1>t, <1>2 DEF Mail!MailTypes
  <2>2. Mail!OneLive'  BY <1>t, <1>2 DEF Mail!OneLive, Mail!MailHolds
  <2>3. Mail!ReviewedFirst'  BY <1>t, <1>2 DEF Mail!ReviewedFirst, Mail!MailHolds
  <2>4. Mail!RaisedOnce'
    <3>1. CASE s3.status = "absent"  BY <1>2, <3>1 DEF Mail!RaisedOnce, Mail!MailHolds, Mail!NoAction
    <3>2. CASE s3.status # "absent"
      <4>1. PICK u \in Mail!Sessions :
              /\ s3.home = {u} /\ s1[u] # "none"
              /\ s1[u] = "setup" => /\ s3.reports = {}
                                    /\ \A v \in Mail!Sessions \ {u} : s1[v] \in Mail!CLOSED_STATUSES => v \in s3.later
        BY <3>2 DEF Mail!RaisedOnce, Mail!MailHolds
      <4>2. s1'[u] # "none" /\ (s1'[u] = "setup" => s1[u] = "setup" /\ u # s)  BY <1>t, <1>2, <4>1
      <4>3. ASSUME s1'[u] = "setup", NEW v \in Mail!Sessions \ {u}, s1'[v] \in Mail!CLOSED_STATUSES PROVE s1[v] \in Mail!CLOSED_STATUSES
        BY <1>t, <1>2, <4>2, <4>3 DEF Mail!OneLive, Mail!MailHolds
      <4> QED  BY <1>2, <3>2, <4>1, <4>2, <4>3 DEF Mail!RaisedOnce
    <3> QED  BY <3>1, <3>2
  <2> QED  BY <2>1, <2>2, <2>3, <2>4 DEF Mail!MailHolds
<1>3. ASSUME NEW s \in Mail!Sessions, Mail!Start(s) \/ Mail!Pause(s) \/ Mail!End(s) \/ Mail!Finalised(s) \/ Mail!Abort(s)
      PROVE  Mail!MailHolds' /\ s7'.syncs = s7.syncs
  <2>1. /\ UNCHANGED <<s2, s3, s5, s6>> /\ s7' \in [syncs : Nat, edits : Nat] /\ s7'.syncs = s7.syncs
    BY <1>t, <1>u, <1>3 DEF Mail!Start, Mail!Pause, Mail!End, Mail!Finalised, Mail!Abort, Mail!Moves
  <2>2. s1[s] \in Mail!LIVE_STATUSES /\ \E to \in {"running", "paused", "finalising", "review", "aborted"} : s1' = [s1 EXCEPT ![s] = to]
    BY <1>3 DEF Mail!Start, Mail!Pause, Mail!End, Mail!Finalised, Mail!Abort, Mail!Moves, Mail!Becomes
  <2> QED  BY <1>2, <2>1, <2>2
<1>4. ASSUME NEW s \in Mail!Sessions, Mail!Published(s) PROVE Mail!MailHolds' /\ s7'.syncs = s7.syncs
  <2>1. s1[s] \in {"review", "published"}  BY <1>4 DEF Mail!Published, Mail!ReviewedFirst, Mail!MailHolds
  <2> QED  BY <1>t, <1>2, <1>4, <2>1 DEF Mail!Published, Mail!Becomes
<1>5. ASSUME NEW s \in Mail!Sessions, Mail!Delete(s) PROVE Mail!MailHolds' /\ s7'.syncs = s7.syncs
  <2>1. /\ s1' = [s1 EXCEPT ![s] = "none"] /\ s2' = [s2 EXCEPT ![s] = Mail!Absent]
        /\ s3' = Mail!Without({s}) /\ s5' = s5 \ {s} /\ s6' = s6
        /\ s7' \in [syncs : Nat, edits : Nat] /\ s7'.syncs = s7.syncs
    BY <1>u, <1>5 DEF Mail!Delete, Mail!Becomes
  <2>2. Mail!OneLive'  BY <1>t, <2>1 DEF Mail!OneLive, Mail!MailHolds
  <2>3. Mail!ReviewedFirst'  BY <1>t, <2>1 DEF Mail!ReviewedFirst, Mail!MailHolds
  <2>4. \/ s3' = Mail!NoAction
        \/ /\ s3.status # "absent" /\ s3' = [s3 EXCEPT !.reports = @ \ {s}]
           /\ s3.home # {s}
    <3>1. CASE s3.status = "absent"
      <4>1. s3 = Mail!NoAction  BY <3>1 DEF Mail!RaisedOnce, Mail!MailHolds
      <4>2. s3' = [s3 EXCEPT !.reports = s3.reports \ {s}]  BY <2>1, <4>1 DEF Mail!Without, Mail!NoAction
      <4> QED  BY <4>1, <4>2 DEF Mail!NoAction
    <3>2. CASE s3.status # "absent"
      <4>1. s3' = Mail!NoAction \/ (s3' = [s3 EXCEPT !.reports = @ \ {s}] /\ ~(s3.home # {} /\ s3.home \subseteq {s}))
        BY <2>1 DEF Mail!Without
      <4> QED  BY <3>2, <4>1
    <3> QED  BY <3>1, <3>2
  <2>5. s3' \in Act
    <3>1. CASE s3' = Mail!NoAction  BY <3>1 DEF Mail!NoAction
    <3>2. CASE s3' = [s3 EXCEPT !.reports = @ \ {s}]  BY <1>t, <3>2
    <3> QED  BY <2>4, <3>1, <3>2
  <2>6. Mail!MailTypes'  BY <1>t, <2>1, <2>5 DEF Mail!MailTypes, Mail!Absent
  <2>7. Mail!RaisedOnce'
    <3>1. CASE s3' = Mail!NoAction  BY <3>1 DEF Mail!RaisedOnce, Mail!NoAction
    <3>2. CASE s3.status # "absent" /\ s3' = [s3 EXCEPT !.reports = @ \ {s}] /\ s3.home # {s}
      <4>1. PICK u \in Mail!Sessions :
              /\ s3.home = {u} /\ s1[u] # "none"
              /\ s1[u] = "setup" => /\ s3.reports = {}
                                    /\ \A v \in Mail!Sessions \ {u} : s1[v] \in Mail!CLOSED_STATUSES => v \in s3.later
        BY <3>2 DEF Mail!RaisedOnce, Mail!MailHolds
      <4>2. s3'.home = {u} /\ s3'.status # "absent" /\ s3'.reports \subseteq s3.reports /\ s3'.later = s3.later
        BY <1>t, <3>2, <4>1
      <4>3. s1'[u] = s1[u] /\ \A v \in Mail!Sessions : s1'[v] \in Mail!CLOSED_STATUSES => s1[v] \in Mail!CLOSED_STATUSES
        BY <1>t, <2>1, <3>2, <4>1
      <4> QED  BY <4>1, <4>2, <4>3 DEF Mail!RaisedOnce
    <3> QED  BY <2>4, <3>1, <3>2
  <2> QED  BY <2>1, <2>2, <2>3, <2>6, <2>7 DEF Mail!MailHolds
<1>6. ASSUME NEW s \in Mail!Sessions, Mail!Decide(s) PROVE Mail!MailHolds' /\ s7'.syncs = s7.syncs
  <2>1. UNCHANGED <<s1, s3, s5, s6>> /\ s7' \in [syncs : Nat, edits : Nat] /\ s7'.syncs = s7.syncs
    BY <1>u, <1>6 DEF Mail!Decide
  <2>2. s2' \in [Mail!Sessions -> [status : {"absent", "pending", "adopted"}, locked : BOOLEAN]]
    BY <1>t, <1>6 DEF Mail!Decide
  <2> QED
    BY <1>t, <2>1, <2>2 DEF Mail!MailTypes, Mail!OneLive, Mail!ReviewedFirst, Mail!RaisedOnce, Mail!MailHolds
<1>7. ASSUME NEW s \in Mail!Sessions, Mail!Report(s) PROVE Mail!MailHolds' /\ s7'.syncs = s7.syncs
  <2>1. UNCHANGED <<s1, s2, s5, s6>> /\ s7' \in [syncs : Nat, edits : Nat] /\ s7'.syncs = s7.syncs
    BY <1>u, <1>7 DEF Mail!Report
  <2>2. PICK new \in {"open", "done"}, human \in BOOLEAN :
          s3' = [s3 EXCEPT !.status = new, !.reports = @ \cup {s}, !.locked = @ \/ human]
    BY <1>7 DEF Mail!Report
  <2>3. s3' \in Act  BY <1>t, <2>2
  <2>4. s3'.status = new /\ s3'.home = s3.home /\ s3'.later = s3.later /\ s3'.reports = s3.reports \cup {s}  BY <1>t, <2>2
  <2>5. s1[s] \in {"running", "paused", "review"} /\ Mail!Shown(s)  BY <1>7 DEF Mail!Report
  <2>6. s3.status # "absent"  BY <2>5 DEF Mail!Shown, Mail!RaisedOnce, Mail!MailHolds, Mail!NoAction
  <2>7. PICK u \in Mail!Sessions :
              /\ s3.home = {u} /\ s1[u] # "none"
              /\ s1[u] = "setup" => /\ s3.reports = {}
                                    /\ \A v \in Mail!Sessions \ {u} : s1[v] \in Mail!CLOSED_STATUSES => v \in s3.later
    BY <2>6 DEF Mail!RaisedOnce, Mail!MailHolds
  <2>8. s1[u] # "setup"
    <3> SUFFICES ASSUME s1[u] = "setup" PROVE FALSE  OBVIOUS
    <3>1. u # s  BY <2>5
    <3>2. s1[s] \in Mail!CLOSED_STATUSES  BY <1>t, <2>5, <3>1 DEF Mail!OneLive, Mail!MailHolds
    <3> QED  BY <2>5, <2>7, <3>1, <3>2 DEF Mail!Shown
  <2>9. Mail!RaisedOnce'  BY <2>1, <2>4, <2>7, <2>8 DEF Mail!RaisedOnce
  <2>10. Mail!MailTypes'  BY <1>t, <2>1, <2>3 DEF Mail!MailTypes
  <2> QED  BY <2>1, <2>9, <2>10 DEF Mail!OneLive, Mail!ReviewedFirst, Mail!MailHolds
<1>8. ASSUME NEW s \in Mail!Sessions, Mail!Publish(s) \/ Mail!PublishFails(s) \/ Mail!Take(s)
      PROVE  Mail!MailHolds' /\ s7'.syncs = s7.syncs
  <2>1. UNCHANGED <<s1, s2, s3>> /\ s7' \in [syncs : Nat, edits : Nat] /\ s7'.syncs = s7.syncs
    BY <1>t, <1>u, <1>8 DEF Mail!Publish, Mail!PublishFails, Mail!Take
  <2>2. s5' \subseteq Mail!Sessions /\ Mail!ReviewedFirst'
    BY <1>t, <1>8 DEF Mail!Publish, Mail!PublishFails, Mail!Take, Mail!ReviewedFirst, Mail!MailHolds
  <2>3. s6' \in [action : {"open", "done"}, took : SUBSET Mail!Sessions]
    <3>1. CASE Mail!Take(s)
      <4>1. s3.status # "absent"  BY <3>1 DEF Mail!Take, Mail!RaisedOnce, Mail!MailHolds, Mail!NoAction
      <4> QED  BY <1>t, <3>1, <4>1 DEF Mail!Take
    <3>2. CASE s6' = s6  BY <1>t, <3>2
    <3> QED  BY <1>8, <3>1, <3>2 DEF Mail!Publish, Mail!PublishFails
  <2> QED  BY <1>t, <2>1, <2>2, <2>3 DEF Mail!MailTypes, Mail!OneLive, Mail!RaisedOnce, Mail!MailHolds
<1>9. ASSUME s7'.syncs = s7.syncs PROVE Mail!PushLeavesOutcome
  BY <1>t, <1>9 DEF Mail!PushLeavesOutcome
<1> QED  BY <1>1, <1>3, <1>4, <1>5, <1>6, <1>7, <1>8, <1>9 DEF Mail!Next

LEMMA MailOutcome == Mail!MailHolds /\ Mail!Next => Mail!MailHolds' /\ Mail!PushLeavesOutcome
BY MailPushes, MailRest

LEMMA MailStep == Mail!MailHolds /\ [Mail!Next]_(Mail!vars) => Mail!MailHolds'
<1> SUFFICES ASSUME Mail!MailHolds, [Mail!Next]_(Mail!vars) PROVE Mail!MailHolds'  OBVIOUS
<1>1. CASE Mail!Next  BY <1>1, MailOutcome
<1>2. CASE UNCHANGED Mail!vars
  BY <1>2 DEF Mail!vars, Mail!MailHolds, Mail!MailTypes, Mail!OneLive, Mail!ReviewedFirst, Mail!RaisedOnce,
     Mail!Sessions, Mail!Statuses, Mail!LIVE_STATUSES, Mail!CLOSED_STATUSES, Mail!NoAction
<1> QED  BY <1>1, <1>2

\* Two sittings that are one are counted as one.
LEMMA LiveSitting == Mail!OneLive => Mail!OneLiveSitting
<1> SUFFICES ASSUME Mail!OneLive PROVE Mail!OneLiveSitting  OBVIOUS
<1> DEFINE S == {s \in Mail!Sessions : s1[s] \in Mail!LIVE_STATUSES}
<1>1. CASE S = {}
  <2>1. Cardinality(S) = 0  BY <1>1, FS_EmptySet
  <2> QED  BY <2>1, MailCardinality DEF Mail!OneLiveSitting
<1>2. CASE S # {}
  <2>1. PICK u \in S : TRUE  BY <1>2
  <2>2. S = {u}  BY <2>1 DEF Mail!OneLive
  <2>3. Cardinality({u}) = 1  BY FS_Singleton
  <2>4. Cardinality(S) = 1  BY <2>2, <2>3
  <2> QED  BY <2>4, MailCardinality DEF Mail!OneLiveSitting
<1> QED  BY <1>1, <1>2

LEMMA OutputsInit == Out!Init => Out!OutputsHold
<1> SUFFICES ASSUME Out!Init PROVE Out!OutputsHold  OBVIOUS
<1> USE BoundsAssumption DEF Out!Init, Out!OutputsHold, Out!OutputTypes, Out!RoomNamed, Out!CallsFollow,
   Out!OneAtATime, Out!VersionsWhole, Out!NothingKept, Out!TranscriptStays, Out!Idle, Out!Versions
<1>1. Out!OutputTypes  OBVIOUS
<1>2. Out!RoomNamed  OBVIOUS
<1>3. Out!CallsFollow  OBVIOUS
<1>4. Out!OneAtATime  OBVIOUS
<1>5. Out!VersionsWhole  OBVIOUS
<1>6. Out!NothingKept /\ Out!TranscriptStays  OBVIOUS
<1> QED  BY <1>1, <1>2, <1>3, <1>4, <1>5, <1>6

LEMMA OutputsStep == Out!OutputsHold /\ [Out!Next]_(Out!vars) => Out!OutputsHold'
<1> SUFFICES ASSUME Out!OutputsHold, [Out!Next]_(Out!vars) PROVE Out!OutputsHold'  OBVIOUS
<1> USE BoundsAssumption DEF Out!OutputsHold, Out!OutputTypes, Out!RoomNamed, Out!CallsFollow,
   Out!OneAtATime, Out!VersionsWhole, Out!NothingKept, Out!TranscriptStays, Out!Idle, Out!Versions,
   Out!UnderWay, Out!Fault
<1>1. CASE Out!Reviewed  BY <1>1 DEF Out!Reviewed
<1>2. CASE Out!JobProposes  BY <1>2 DEF Out!JobProposes
<1>3. CASE Out!PutReview
  <2>a. PICK dated \in BOOLEAN, room \in {"same", "new"} :
          s3' = [dated |-> dated, room |-> room, next |-> s3.next]
    BY <1>3 DEF Out!PutReview
  <2>1. Out!OutputTypes'  BY <1>3, <2>a DEF Out!PutReview
  <2>2. Out!RoomNamed'  BY <1>3, <2>a DEF Out!PutReview
  <2>3. Out!CallsFollow'  BY <1>3, <2>a DEF Out!PutReview
  <2>4. Out!OneAtATime'  BY <1>3, <2>a DEF Out!PutReview
  <2>5. Out!VersionsWhole'  BY <1>3, <2>a DEF Out!PutReview
  <2>6. Out!NothingKept'  BY <1>3, <2>a DEF Out!PutReview
  <2>7. Out!TranscriptStays'  BY <1>3, <2>a DEF Out!PutReview
  <2> QED  BY <2>1, <2>2, <2>3, <2>4, <2>5, <2>6, <2>7
<1>4. CASE Out!ProcessStops
  <2>a. /\ s6' = [c \in Callers |-> Out!Idle] /\ s14' = [s14 EXCEPT !.faults = @ + 1]
        /\ UNCHANGED <<s1, s2, s3, s4, s8>>
    BY <1>4 DEF Out!ProcessStops
  <2>1. Out!OutputTypes'
    <3>1. s14' \in [publishes : Nat, edits : Nat, faults : Nat]  BY <2>a
    <3> QED  BY <2>a, <3>1
  <2>2. Out!RoomNamed'  BY <1>4 DEF Out!ProcessStops
  <2>3. Out!CallsFollow'  BY <1>4 DEF Out!ProcessStops
  <2>4. Out!OneAtATime'  BY <1>4 DEF Out!ProcessStops
  <2>5. Out!VersionsWhole'  BY <1>4 DEF Out!ProcessStops
  <2>6. Out!NothingKept'  BY <1>4 DEF Out!ProcessStops
  <2>7. Out!TranscriptStays'  BY <1>4 DEF Out!ProcessStops
  <2> QED  BY <2>1, <2>2, <2>3, <2>4, <2>5, <2>6, <2>7
<1>5. CASE Out!Delete
  <2>1. Out!OutputTypes'  BY <1>5 DEF Out!Delete
  <2>2. Out!RoomNamed'  BY <1>5 DEF Out!Delete
  <2>3. Out!CallsFollow'  BY <1>5 DEF Out!Delete
  <2>4. Out!OneAtATime'  BY <1>5 DEF Out!Delete
  <2>5. Out!VersionsWhole'  BY <1>5 DEF Out!Delete
  <2>6. Out!NothingKept'  BY <1>5 DEF Out!Delete
  <2>7. Out!TranscriptStays'  BY <1>5 DEF Out!Delete
  <2> QED  BY <2>1, <2>2, <2>3, <2>4, <2>5, <2>6, <2>7
<1>6. CASE Out!TimePasses  BY <1>6 DEF Out!TimePasses
<1>7. CASE Out!Retention  BY <1>7 DEF Out!Retention
<1>8. ASSUME NEW c \in Callers, Out!Publish(c) PROVE Out!OutputsHold'
  <2>a. /\ s1 \in {"review", "published"} /\ s6[c] = Out!Idle
        /\ s6' = [s6 EXCEPT ![c] = [at |-> "report", v |-> s2 + 1, dated |-> s3.dated]]
        /\ s12' = (s12 \/ \E d \in Callers : s6[d] # Out!Idle)
        /\ UNCHANGED <<s1, s2, s7, s8, s9, s10, s11, s13>>
    BY <1>8 DEF Out!Publish
  <2>b. s2 + 1 \in 1..Some /\ s14' = [s14 EXCEPT !.publishes = @ + 1]
    BY <1>8 DEF Out!Publish
  <2>c. \/ s4' = s4 /\ s3' = s3
        \/ s3.next = 0 /\ s4' = s4 + 1 /\ s3' = [dated |-> s3.dated, room |-> s3.room, next |-> s4 + 1]
    BY <1>8 DEF Out!Publish, Out!NextRoom, Out!Remembered
  <2>1. Out!OutputTypes'
    <3>1. s3' \in [dated : BOOLEAN, room : {"same", "new"}, next : Nat] /\ s4' \in Nat  BY <2>c
    <3>2. s6' \in [Callers -> {Out!Idle} \cup
                      [at : {"report", "agenda", "mail"}, v : 1..Some, dated : BOOLEAN]]
      BY <2>a, <2>b
    <3>3. s14' \in [publishes : Nat, edits : Nat, faults : Nat]  BY <2>b
    <3> QED  BY <2>a, <3>1, <3>2, <3>3
  <2>2. Out!RoomNamed'  BY <2>a, <2>c
  <2>3. Out!CallsFollow'  BY <2>a, <2>b
  <2>4. Out!OneAtATime'  BY <2>a, <2>b
  <2>5. Out!VersionsWhole' /\ Out!NothingKept' /\ Out!TranscriptStays'  BY <2>a
  <2> QED  BY <2>1, <2>2, <2>3, <2>4, <2>5
<1>9. ASSUME NEW c \in Callers, Out!Render(c) PROVE Out!OutputsHold'
  <2>a. s6[c] # Out!Idle /\ s6[c] \in [at : {"report", "agenda"}, v : 1..Some, dated : BOOLEAN]
    BY <1>9 DEF Out!Render
  <2> DEFINE at == IF s6[c].at = "report" /\ s6[c].dated THEN "agenda" ELSE "mail"
  <2>b. s6' = [s6 EXCEPT ![c] = [at |-> at, v |-> s6[c].v, dated |-> s6[c].dated]]
    <3>1. s6' = [s6 EXCEPT ![c] = [s6[c] EXCEPT !.at = at]]
      BY <1>9 DEF Out!Render
    <3>2. [s6[c] EXCEPT !.at = at] = [at |-> at, v |-> s6[c].v, dated |-> s6[c].dated]
      BY <2>a
    <3> QED  BY <3>1, <3>2
  <2>c. s7' = s7 \cup {<<s6[c].v, s6[c].at>>} /\ UNCHANGED <<s1, s2, s3, s4, s5, s8, s9, s10, s11, s12, s13, s14>>
    BY <1>9 DEF Out!Render
  <2>1. Out!OutputTypes'  BY <2>a, <2>b, <2>c
  <2>2. Out!RoomNamed'  BY <2>c
  <2>3. Out!CallsFollow'  BY <1>9, <2>a, <2>b, <2>c DEF Out!Render
  <2>4. Out!OneAtATime'  BY <2>a, <2>b, <2>c
  <2>5. Out!VersionsWhole' /\ Out!NothingKept' /\ Out!TranscriptStays'  BY <2>a, <2>c
  <2> QED  BY <2>1, <2>2, <2>3, <2>4, <2>5
<1>10. ASSUME NEW c \in Callers, Out!RenderFails(c) PROVE Out!OutputsHold'
  <2>a. s6[c] # Out!Idle
    BY <1>10 DEF Out!RenderFails
  <2>1. Out!OutputTypes'  BY <1>10, <2>a DEF Out!RenderFails
  <2>2. Out!RoomNamed'  BY <1>10, <2>a DEF Out!RenderFails
  <2>3. Out!CallsFollow'  BY <1>10, <2>a DEF Out!RenderFails
  <2>4. Out!OneAtATime'  BY <1>10, <2>a DEF Out!RenderFails
  <2>5. Out!VersionsWhole'  BY <1>10, <2>a DEF Out!RenderFails
  <2>6. Out!NothingKept'  BY <1>10, <2>a DEF Out!RenderFails
  <2>7. Out!TranscriptStays'  BY <1>10, <2>a DEF Out!RenderFails
  <2> QED  BY <2>1, <2>2, <2>3, <2>4, <2>5, <2>6, <2>7
<1>11. ASSUME NEW c \in Callers, Out!Finish(c) PROVE Out!OutputsHold'
  <2> DEFINE v == s6[c].v
  <2>a. s6[c] # Out!Idle /\ v \in 1..Some /\ s6[c].at = "mail"
    BY <1>11 DEF Out!Finish
  <2>b. /\ s1 # "deleted" /\ s6' = [s6 EXCEPT ![c] = Out!Idle] /\ s8' = [s8 EXCEPT ![v] = @ + 1]
        /\ s2' = v /\ s1' = "published" /\ ((s9' = FALSE /\ s13' = s13) \/ s13' = TRUE)
        /\ UNCHANGED <<s3, s4, s5, s7, s10, s11, s12>>
    BY <1>11 DEF Out!Finish
  <2>c. s14' \in [publishes : Nat, edits : Nat, faults : Nat] /\ s14'.publishes = s14.publishes
    BY <1>11 DEF Out!Finish
  <2>d. v <= s14.publishes /\ \A u \in 1..v : <<u, "report">> \in s7 /\ (u # v => s8[u] > 0)
    <3>1. v <= s14.publishes /\ <<v, "report">> \in s7 /\ v \in Nat
      BY <2>a, <2>b
    <3>2. \A u \in 1..(v - 1) : s8[u] > 0 /\ <<u, "report">> \in s7
      BY <2>a, <2>b
    <3> HIDE DEF v, Out!OutputsHold
    <3> QED  BY <3>1, <3>2
  <2>e. s12 \/ (v = s2 + 1 /\ \A d \in Callers : s6[d] # Out!Idle => d = c)
    <3> HIDE DEF Out!Idle
    <3> QED  BY <2>a
  <2> HIDE DEF v, Out!Idle
  <2>1. Out!OutputTypes'  BY <2>a, <2>b, <2>c
  <2>2. Out!RoomNamed'  BY <2>b
  <2>3. Out!CallsFollow'
    <3>1. s2' <= s14'.publishes  BY <2>b, <2>c, <2>d
    <3>2. ASSUME NEW d \in Callers, s6'[d] # Out!Idle
          PROVE  /\ d # c /\ s6'[d] = s6[d] /\ s6[d] # Out!Idle
                 /\ s6[d] \in [at : {"report", "agenda", "mail"}, v : 1..Some, dated : BOOLEAN]
      BY <2>b, <3>2
    <3>3. ASSUME NEW u \in 1..Some, s8[u] > 0 PROVE s8'[u] > 0
      <4>1. s8[u] \in Nat /\ s8'[u] \in {s8[u], s8[u] + 1}  BY <2>a, <2>b
      <4> HIDE DEF Out!OutputsHold
      <4> QED  BY <3>3, <4>1
    <3>4. ASSUME NEW d \in Callers, s6'[d] # Out!Idle
          PROVE  /\ s6'[d].v <= s14'.publishes /\ s1' # "finalising" /\ s1' # "deleted"
                 /\ s6'[d].at # "report" => <<s6'[d].v, "report">> \in s7'
                 /\ \A u \in 1..(s6'[d].v - 1) : s8'[u] > 0 /\ <<u, "report">> \in s7'
      <4>1. /\ s6[d].v <= s14.publishes
            /\ s6[d].at # "report" => <<s6[d].v, "report">> \in s7
            /\ \A u \in 1..(s6[d].v - 1) : s8[u] > 0 /\ <<u, "report">> \in s7
        BY <2>b, <3>2, <3>4
      <4>2. \A u \in 1..(s6[d].v - 1) : u \in 1..Some
        <5>1. s6[d].v \in 1..Some /\ Some \in Nat  BY <3>2, <3>4
        <5> HIDE DEF Out!OutputsHold
        <5> QED  BY <5>1
      <4>3. \A u \in 1..(s6[d].v - 1) : s8'[u] > 0 /\ <<u, "report">> \in s7'
        BY <2>b, <3>3, <4>1, <4>2
      <4>4. s6'[d] = s6[d]  BY <3>2, <3>4
      <4>5. s1' = "published" /\ s14'.publishes = s14.publishes /\ s7' = s7  BY <2>b, <2>c
      <4>6. s6'[d].v <= s14'.publishes /\ s1' # "finalising" /\ s1' # "deleted"  BY <4>1, <4>4, <4>5
      <4>7. s6'[d].at # "report" => <<s6'[d].v, "report">> \in s7'  BY <4>1, <4>4, <4>5
      <4>8. \A u \in 1..(s6'[d].v - 1) : s8'[u] > 0 /\ <<u, "report">> \in s7'  BY <4>3, <4>4
      <4> QED  BY <4>6, <4>7, <4>8
    <3> HIDE DEF Out!OutputsHold
    <3> QED  BY <3>1, <3>4
  <2>4. Out!OneAtATime'  BY <2>b, <2>e
  <2>5. Out!VersionsWhole'
    <3>1. ASSUME NEW u \in 1..v PROVE s8'[u] > 0 /\ <<u, "report">> \in s7'
      <4>1. s8 \in [1..Some -> Nat] /\ Some \in Nat  OBVIOUS
      <4>2. v \in Nat /\ v <= Some  BY <2>a
      <4>3. s8' = [s8 EXCEPT ![v] = @ + 1] /\ s7' = s7  BY <2>b
      <4>4. u \in 1..Some /\ s8[u] \in Nat  BY <4>1, <4>2
      <4> HIDE DEF Out!OutputsHold
      <4>5. s8'[u] > 0
        <5>1. CASE u = v  BY <5>1, <4>1, <4>3, <4>4
        <5>2. CASE u # v  BY <5>2, <2>d, <4>1, <4>3, <4>4
        <5> QED  BY <5>1, <5>2
      <4>6. <<u, "report">> \in s7'  BY <2>d, <4>3
      <4> QED  BY <4>5, <4>6
    <3>2. s12 \/ \A u \in 1..Some : s8'[u] = (IF u <= v THEN 1 ELSE 0)  BY <2>a, <2>b, <2>e
    <3> QED  BY <2>b, <3>1, <3>2
  <2>6. Out!NothingKept' /\ Out!TranscriptStays'  BY <2>b
  <2> QED  BY <2>1, <2>2, <2>3, <2>4, <2>5, <2>6
<1>12. ASSUME NEW c \in Callers, Out!FinishFails(c) PROVE Out!OutputsHold'
  BY <1>12 DEF Out!FinishFails
<1>13. CASE UNCHANGED Out!vars  BY <1>13 DEF Out!vars
<1> QED  BY <1>1, <1>2, <1>3, <1>4, <1>5, <1>6, <1>7, <1>8, <1>9, <1>10, <1>11, <1>12, <1>13 DEF Out!Next

\* What the behaviours of Outputs are checked for follows.
LEMMA KeptOutputs == Out!OutputsHold => Out!OutputsWhole
BY DEF Out!OutputsHold, Out!OutputsWhole, Out!OneNextRoom, Out!RoomNamed, Out!OutputTypes

\* A row that a step does not touch is kept as it was.
LEMMA RowUntouched ==
  ASSUME NEW i \in Follow!Rows, Follow!RowKept(i), s3'[i] = s3[i], s4'[i] = s4[i], s7'[i] = s7[i],
         i \in s8' => i \in s8, s11 => s11'
  PROVE  Follow!RowKept(i)'
BY DEF Follow!RowKept, Follow!Present, Follow!Rows, Follow!NoRow, Follow!Removed, Follow!NoReport

\* Two open rows of one wording need a step that opens one, or adds one to an open one.
LEMMA OpenedNone ==
  ASSUME Follow!OneOpen, s10 => s10',
         \A i \in Follow!Rows : i \in Follow!Present' /\ s3'[i].status \in Follow!Open =>
            i \in Follow!Present /\ s3[i].status \in Follow!Open
  PROVE  Follow!OneOpen'
<1> SUFFICES ASSUME ~s10', NEW i \in Follow!Present', NEW j \in Follow!Present',
                    s3'[i].status \in Follow!Open, s3'[j].status \in Follow!Open
             PROVE  i = j
  BY DEF Follow!OneOpen
<1>1. i \in Follow!Rows /\ j \in Follow!Rows  BY DEF Follow!Present, Follow!Rows
<1>2. {s3[i].status, s3[j].status} \subseteq Follow!Open /\ i \in Follow!Present /\ j \in Follow!Present
  BY <1>1
<1> QED  BY <1>2 DEF Follow!OneOpen

\* No closure of this sitting waits for a check that did not before.
LEMMA NothingPends ==
  ASSUME Follow!ChecksAsk, s9' = s9, s6' = s6, s2' = s2,
         \A i \in Follow!Rows : Follow!Pending(i)' => Follow!Pending(i)
  PROVE  Follow!ChecksAsk'
BY DEF Follow!ChecksAsk, Follow!Rows

LEMMA ActionsInit == Follow!Init => Follow!ActionsHold
<1> SUFFICES ASSUME Follow!Init PROVE Follow!ActionsHold  OBVIOUS
<1> USE BoundsAssumption
    DEF Follow!Init, Follow!Rows, Follow!Present, Follow!NoRow, Follow!Removed, Follow!NoReport, Follow!Idle
<1>1. Follow!ActionTypes  BY DEF Follow!ActionTypes
<1>2. Follow!RowsKept  BY DEF Follow!RowsKept, Follow!RowKept
<1>3. Follow!OneOpen  BY DEF Follow!OneOpen
<1>4. Follow!ChecksAsk  BY DEF Follow!ChecksAsk, Follow!Pending
<1> QED  BY <1>1, <1>2, <1>3, <1>4 DEF Follow!ActionsHold

\* A row of this wording is added where there was none.
LEMMA AddedRow ==
  ASSUME Follow!ActionsHold, NEW s \in Follow!Open, NEW locked \in BOOLEAN, NEW document \in BOOLEAN,
         Follow!Put(Follow!NewRow(s, locked, document)),
         ~\E i \in Follow!Present : s3[i].status \in Follow!Open,
         UNCHANGED <<s1, s2, s4, s6, s8, s9, s10>>, s11' = s11,
         \/ s7' = s7
         \/ locked /\ s7' = [i \in Follow!Rows |-> IF s3'[i] # s3[i] THEN s ELSE s7[i]]
  PROVE  Follow!ActionsHold'
<1> DEFINE row == Follow!NewRow(s, locked, document)
<1>1. PICK i \in Follow!Rows : s3[i] = Follow!NoRow /\ s3' = [s3 EXCEPT ![i] = row]
  BY DEF Follow!Put
<1>t. Follow!ActionTypes /\ Follow!RowsKept /\ Follow!OneOpen /\ Follow!ChecksAsk  BY DEF Follow!ActionsHold
<1>2. row \in Follow!Written /\ row.status = s /\ row.locked = locked /\ row.closed = 0
  BY <1>t, BoundsAssumption DEF Follow!Written, Follow!NewRow, Follow!ActionTypes, Follow!Statuses
<1>3. row # Follow!NoRow /\ row # Follow!Removed
  BY <1>2 DEF Follow!NoRow, Follow!Removed, Follow!Open
<1>4. i \notin Follow!Present  BY <1>1 DEF Follow!Present
<1>5. s7[i] = "none" /\ s4[i] = Follow!NoReport /\ i \notin s8
  BY <1>t, <1>4 DEF Follow!RowsKept, Follow!RowKept
<1>6. \A j \in Follow!Rows : s3'[j] = IF j = i THEN row ELSE s3[j]
  BY <1>1, <1>t DEF Follow!ActionTypes
<1>7. i \in Follow!Present' /\ \A j \in Follow!Rows \ {i} : j \in Follow!Present' <=> j \in Follow!Present
  BY <1>3, <1>6 DEF Follow!Present, Follow!Rows, Follow!NoRow, Follow!Removed
<1>8. s7'[i] = "none" \/ (locked /\ s7'[i] = s)
  BY <1>5, <1>6
<1>9. \A j \in Follow!Rows \ {i} : s7'[j] = s7[j]
  BY <1>6
<1> HIDE DEF row
<1>a. Follow!ActionTypes'
  <2>1. s3' \in [Follow!Rows -> {Follow!NoRow, Follow!Removed} \cup Follow!Written]
    BY <1>1, <1>2, <1>t DEF Follow!ActionTypes
  <2>2. s7' \in [Follow!Rows -> Follow!Statuses \cup {"none"}]
    BY <1>t DEF Follow!ActionTypes, Follow!Statuses
  <2> QED  BY <2>1, <2>2, <1>t DEF Follow!ActionTypes, Follow!NoRow, Follow!Removed, Follow!Written, Follow!Rows, Follow!Statuses
<1>b. Follow!RowsKept'
  <2>1. Follow!RowKept(i)'
    BY <1>2, <1>5, <1>6, <1>7, <1>8 DEF Follow!RowKept, Follow!NoReport
  <2>2. ASSUME NEW j \in Follow!Rows \ {i} PROVE Follow!RowKept(j)'
    BY RowUntouched, <1>6, <1>9, <1>t DEF Follow!RowsKept
  <2> QED  BY <2>1, <2>2 DEF Follow!RowsKept, Follow!Rows
<1>c. Follow!OneOpen'
  <2>1. Follow!Present' \subseteq Follow!Rows  BY DEF Follow!Present, Follow!Rows
  <2>2. \A j \in Follow!Present' : s3'[j].status \in Follow!Open => j = i
    BY <2>1, <1>6, <1>7
  <2> QED  BY <2>2 DEF Follow!OneOpen, Follow!Open
<1>d. Follow!ChecksAsk'
  <2>1. ASSUME NEW j \in Follow!Rows, Follow!Pending(j)' PROVE Follow!Pending(j)
    <3>1. j \in s8 /\ j # i  BY <2>1, <1>5 DEF Follow!Pending
    <3>2. s3'[j] = s3[j] /\ (j \in Follow!Present' <=> j \in Follow!Present)  BY <3>1, <1>6, <1>7
    <3> QED  BY <2>1, <3>1, <3>2 DEF Follow!Pending, Follow!Unconfirmed, Follow!Previous
  <2> QED  BY <2>1, <1>t, NothingPends
<1> QED  BY <1>a, <1>b, <1>c, <1>d DEF Follow!ActionsHold

\* One row is written, by the AI or a person: what is shared by both.
LEMMA UpdatedRow ==
  ASSUME Follow!ActionsHold, NEW i \in Follow!Present, NEW s \in Follow!Statuses, NEW note \in BOOLEAN,
         NEW lock \in BOOLEAN, Follow!Update(i, s, note, lock),
         s7' = [s7 EXCEPT ![i] = IF lock THEN s ELSE @], lock \/ ~s3[i].locked,
         \A j \in Follow!Rows : j # i /\ j \in s8' => j \in s8,
         s8' \subseteq Follow!Rows, lock => i \notin s8'
  PROVE  /\ Follow!ActionTypes' /\ Follow!RowsKept' /\ Follow!OneOpen'
         /\ \A j \in Follow!Rows : Follow!Pending(j)' /\ j # i => Follow!Pending(j)
<1>t. Follow!ActionTypes /\ Follow!RowsKept /\ Follow!OneOpen  BY DEF Follow!ActionsHold
<1>i. i \in Follow!Rows  BY DEF Follow!Present, Follow!Rows
<1> DEFINE row == [s3[i] EXCEPT !.status = s, !.closed = Follow!Closed(i, s), !.locked = s3[i].locked \/ lock]
<1>0. s3[i] \in Follow!Written
  BY <1>t, <1>i DEF Follow!ActionTypes, Follow!Present
<1>1. s3' = [s3 EXCEPT ![i] = row] /\ UNCHANGED <<s1, s2, s5, s6, s9, s11>>
  BY DEF Follow!Update
<1>2. Follow!Closed(i, s) \in Nat  BY <1>0, <1>t DEF Follow!Closed, Follow!Written, Follow!ActionTypes
<1>3. row \in Follow!Written /\ row.status = s /\ row.locked = (s3[i].locked \/ lock)
  <2> HIDE DEF Follow!Closed
  <2> QED  BY <1>0, <1>2 DEF Follow!Written
<1> HIDE DEF row
<1>4. row # Follow!NoRow /\ row # Follow!Removed
  BY <1>3 DEF Follow!NoRow, Follow!Removed, Follow!Statuses, Follow!Open
<1>5. s3'[i] = row /\ \A j \in Follow!Rows \ {i} : s3'[j] = s3[j]
  BY <1>1, <1>t, <1>i DEF Follow!ActionTypes
<1>6. i \in Follow!Present' /\ \A j \in Follow!Rows \ {i} : j \in Follow!Present' <=> j \in Follow!Present
  BY <1>4, <1>5, <1>i DEF Follow!Present, Follow!Rows, Follow!NoRow, Follow!Removed
<1>7. s4' = [s4 EXCEPT ![i] = [noted |-> @.noted \/ note, status |-> s]]
  BY DEF Follow!Update
<1>8. /\ s4'[i].status = s /\ \A j \in Follow!Rows \ {i} : s4'[j] = s4[j]
      /\ s4' \in [Follow!Rows -> [noted : BOOLEAN, status : Follow!Statuses \cup {"none"}]]
  BY <1>7, <1>t, <1>i DEF Follow!ActionTypes
<1>9. /\ \A j \in Follow!Rows \ {i} : s7'[j] = s7[j]
      /\ s7'[i] = IF lock THEN s ELSE s7[i]
      /\ s7' \in [Follow!Rows -> Follow!Statuses \cup {"none"}]
  BY <1>t, <1>i DEF Follow!ActionTypes
<1>a. Follow!ActionTypes'
  <2>1. s3' \in [Follow!Rows -> {Follow!NoRow, Follow!Removed} \cup Follow!Written]
    BY <1>1, <1>3, <1>t DEF Follow!ActionTypes
  <2> QED  BY <2>1, <1>1, <1>8, <1>9, <1>t
    DEF Follow!ActionTypes, Follow!NoRow, Follow!Removed, Follow!Written, Follow!Rows, Follow!Statuses
<1>b. Follow!RowsKept'
  <2>1. Follow!RowKept(i)'
    <3>1. Follow!RowKept(i)  BY <1>t, <1>i DEF Follow!RowsKept
    <3>2. CASE lock
      BY <3>2, <1>3, <1>5, <1>6, <1>8, <1>9 DEF Follow!RowKept
    <3>3. CASE ~lock
      BY <3>1, <3>3, <1>3, <1>5, <1>6, <1>8, <1>9 DEF Follow!RowKept
    <3> QED  BY <3>2, <3>3
  <2>2. ASSUME NEW j \in Follow!Rows \ {i} PROVE Follow!RowKept(j)'
    BY RowUntouched, <1>1, <1>5, <1>8, <1>9, <1>t DEF Follow!RowsKept
  <2> QED  BY <2>1, <2>2 DEF Follow!RowsKept, Follow!Rows
<1>c. Follow!OneOpen'
  <2>1. s10' = (s10 \/ (s3[i].status \notin Follow!Open /\ s \in Follow!Open))
    BY DEF Follow!Update, Follow!Opened
  <2>2. CASE s10'  BY <2>2 DEF Follow!OneOpen
  <2>3. CASE ~s10'
    <3>1. \A j \in Follow!Rows : j \in Follow!Present' /\ s3'[j].status \in Follow!Open =>
             j \in Follow!Present /\ s3[j].status \in Follow!Open
      BY <2>1, <2>3, <1>3, <1>5, <1>6
    <3> QED  BY <2>1, <3>1, <1>t, OpenedNone
  <2> QED  BY <2>2, <2>3
<1>d. ASSUME NEW j \in Follow!Rows, Follow!Pending(j)', j # i PROVE Follow!Pending(j)
  BY <1>d, <1>1, <1>5, <1>6 DEF Follow!Pending, Follow!Unconfirmed, Follow!Previous
<1> QED  BY <1>a, <1>b, <1>c, <1>d

LEMMA ActionUpdates ==
  ASSUME Follow!ActionsHold, NEW i \in Follow!Rows, NEW s \in Follow!Statuses, NEW note \in BOOLEAN,
         Follow!AiUpdates(i, s, note) \/ Follow!PersonUpdates(i, s, note)
  PROVE  Follow!ActionsHold'
<1>t. /\ Follow!ActionTypes /\ Follow!RowsKept /\ Follow!ChecksAsk /\ s8 \subseteq Follow!Rows
      /\ s7 \in [Follow!Rows -> Follow!Statuses \cup {"none"}]
  BY DEF Follow!ActionsHold, Follow!ActionTypes
<1>1. CASE Follow!AiUpdates(i, s, note)
  <2>1. /\ i \in Follow!Present /\ ~s3[i].locked /\ Follow!Update(i, s, note, FALSE)
        /\ s2 = "running" /\ s7' = s7 /\ s8' \subseteq s8 \cup {i}
    BY <1>1 DEF Follow!AiUpdates
  <2>2. s7' = [s7 EXCEPT ![i] = IF FALSE THEN s ELSE @]  BY <2>1, <1>t
  <2>3. Follow!ActionTypes' /\ Follow!RowsKept' /\ Follow!OneOpen'
    BY <2>1, <2>2, <1>t, UpdatedRow
  <2>4. s2' = s2 /\ s6' = s6 /\ s9' = s9  BY <2>1 DEF Follow!Update
  <2>5. Follow!ChecksAsk'  BY <2>1, <2>4, <1>t DEF Follow!ChecksAsk
  <2> QED  BY <2>3, <2>5 DEF Follow!ActionsHold
<1>2. CASE Follow!PersonUpdates(i, s, note)
  <2>1. /\ i \in Follow!Present /\ Follow!Update(i, s, note, TRUE)
        /\ s7' = [s7 EXCEPT ![i] = s] /\ s8' = s8 \ {i}
    BY <1>2 DEF Follow!PersonUpdates
  <2>2. s7' = [s7 EXCEPT ![i] = IF TRUE THEN s ELSE @]  BY <2>1
  <2>3. /\ Follow!ActionTypes' /\ Follow!RowsKept' /\ Follow!OneOpen'
        /\ \A j \in Follow!Rows : Follow!Pending(j)' /\ j # i => Follow!Pending(j)
    BY <2>1, <2>2, <1>t, UpdatedRow
  <2>4. s2' = s2 /\ s6' = s6 /\ s9' = s9  BY <2>1 DEF Follow!Update
  <2>5. ~Follow!Pending(i)'  BY <2>1 DEF Follow!Pending
  <2>6. Follow!ChecksAsk'  BY <2>3, <2>4, <2>5, <1>t, NothingPends
  <2> QED  BY <2>3, <2>6 DEF Follow!ActionsHold
<1> QED  BY <1>1, <1>2

\* Rows change their status, none of them to or from a closed one; a report may then be passed by.
LEMMA AcceptedRows ==
  ASSUME Follow!ActionsHold, UNCHANGED <<s1, s2, s6, s9, s10, s4>>, s8' \subseteq s8, s11 => s11',
         s3' \in [Follow!Rows -> {Follow!NoRow, Follow!Removed} \cup Follow!Written],
         s7' \in [Follow!Rows -> Follow!Statuses \cup {"none"}],
         \A i \in Follow!Rows :
           \/ s3'[i] = s3[i] /\ s7'[i] = s7[i]
           \/ /\ i \in Follow!Present /\ i \in Follow!Present'
              /\ s3[i].status \in Follow!Open => s3'[i].status \in Follow!Open
              /\ s3'[i].status \in Follow!Open => s3[i].status \in Follow!Open
              /\ s3'[i].status = "done" => s3[i].status = "done"
              /\ s3'[i].closed = s3[i].closed /\ s3'[i].raised = s3[i].raised
              /\ s3'[i].document = s3[i].document
              /\ Follow!RowKept(i)'
  PROVE  Follow!ActionsHold'
<1>t. Follow!ActionTypes /\ Follow!RowsKept /\ Follow!OneOpen /\ Follow!ChecksAsk  BY DEF Follow!ActionsHold
<1>1. Follow!ActionTypes'
  BY <1>t DEF Follow!ActionTypes, Follow!NoRow, Follow!Removed, Follow!Written, Follow!Rows, Follow!Statuses
<1>2. Follow!RowsKept'
  <2> SUFFICES ASSUME NEW i \in Follow!Rows PROVE Follow!RowKept(i)'  BY DEF Follow!RowsKept, Follow!Rows
  <2>1. CASE s3'[i] = s3[i] /\ s7'[i] = s7[i]
    BY <2>1, <1>t, RowUntouched DEF Follow!RowsKept
  <2>2. CASE ~(s3'[i] = s3[i] /\ s7'[i] = s7[i])
    BY <2>2
  <2> QED  BY <2>1, <2>2
<1>3. Follow!OneOpen'
  <2>1. ASSUME NEW i \in Follow!Rows, i \in Follow!Present', s3'[i].status \in Follow!Open
        PROVE  i \in Follow!Present /\ s3[i].status \in Follow!Open
    BY <2>1 DEF Follow!Present, Follow!NoRow, Follow!Removed
  <2> QED  BY <2>1, <1>t, OpenedNone
<1>4. Follow!ChecksAsk'
  <2>1. ASSUME NEW i \in Follow!Rows, Follow!Pending(i)' PROVE Follow!Pending(i)
    BY <2>1 DEF Follow!Pending, Follow!Unconfirmed, Follow!Previous, Follow!Present, Follow!NoRow, Follow!Removed
  <2> QED  BY <2>1, <1>t, NothingPends
<1> QED  BY <1>1, <1>2, <1>3, <1>4 DEF Follow!ActionsHold

LEMMA ActionConfirmed ==
  ASSUME Follow!ActionsHold, NEW i \in Follow!Rows, Follow!Confirm(i)
  PROVE  Follow!ActionsHold'
<1>t. Follow!ActionTypes /\ Follow!RowsKept  BY DEF Follow!ActionsHold
<1> DEFINE s == IF s3[i].status = "proposed" THEN "open" ELSE s3[i].status
           row == [s3[i] EXCEPT !.status = s, !.locked = TRUE]
<1>1. /\ i \in Follow!Present /\ s3' = [s3 EXCEPT ![i] = row] /\ s7' = [s7 EXCEPT ![i] = s]
      /\ s11' = (s11 \/ s # s3[i].status) /\ s8' = s8 \ {i}
      /\ UNCHANGED <<s1, s2, s4, s5, s6, s9, s10>>
  BY DEF Follow!Confirm
<1>2. s3[i] \in Follow!Written  BY <1>1, <1>t DEF Follow!ActionTypes, Follow!Present
<1>3. s \in Follow!Statuses  BY <1>2 DEF Follow!Written, Follow!Statuses, Follow!Open
<1>4. /\ row \in Follow!Written /\ row.status = s /\ row.locked /\ row.closed = s3[i].closed
      /\ row.raised = s3[i].raised /\ row.document = s3[i].document
  <2> HIDE DEF s
  <2> QED  BY <1>2, <1>3 DEF Follow!Written
<1>5. /\ s # "done" \/ s3[i].status = "done"
      /\ s3[i].status \in Follow!Open <=> s \in Follow!Open
  BY DEF Follow!Open
<1>6. Follow!RowKept(i)  BY <1>t DEF Follow!RowsKept
<1> HIDE DEF s, row
<1>7. row # Follow!NoRow /\ row # Follow!Removed
  BY <1>4, <1>3 DEF Follow!NoRow, Follow!Removed, Follow!Statuses, Follow!Open
<1>8. s3'[i] = row /\ s7'[i] = s /\ \A j \in Follow!Rows \ {i} : s3'[j] = s3[j] /\ s7'[j] = s7[j]
  BY <1>1, <1>t DEF Follow!ActionTypes
<1>9. i \in Follow!Present'  BY <1>7, <1>8 DEF Follow!Present, Follow!Rows, Follow!NoRow, Follow!Removed
<1>a. Follow!RowKept(i)'
  BY <1>1, <1>4, <1>6, <1>8, <1>9 DEF Follow!RowKept, Follow!NoReport
<1>b. s3' \in [Follow!Rows -> {Follow!NoRow, Follow!Removed} \cup Follow!Written]
  BY <1>1, <1>4, <1>t DEF Follow!ActionTypes
<1>c. s7' \in [Follow!Rows -> Follow!Statuses \cup {"none"}]
  BY <1>1, <1>3, <1>t DEF Follow!ActionTypes
<1>d. s8' \subseteq s8 /\ (s11 => s11')  BY <1>1
<1>e. ASSUME NEW j \in Follow!Rows
      PROVE  \/ s3'[j] = s3[j] /\ s7'[j] = s7[j]
             \/ /\ j \in Follow!Present /\ j \in Follow!Present'
                /\ s3[j].status \in Follow!Open => s3'[j].status \in Follow!Open
                /\ s3'[j].status \in Follow!Open => s3[j].status \in Follow!Open
                /\ s3'[j].status = "done" => s3[j].status = "done"
                /\ s3'[j].closed = s3[j].closed /\ s3'[j].raised = s3[j].raised
                /\ s3'[j].document = s3[j].document
                /\ Follow!RowKept(j)'
  <2>1. CASE j = i
    BY <2>1, <1>1, <1>4, <1>5, <1>8, <1>9, <1>a
  <2>2. CASE j # i
    BY <2>2, <1>8
  <2> QED  BY <2>1, <2>2
<1> QED  BY <1>1, <1>b, <1>c, <1>d, <1>e, AcceptedRows

LEMMA ActionsPublished ==
  ASSUME Follow!ActionsHold, Follow!Publish
  PROVE  Follow!ActionsHold'
<1>t. Follow!ActionTypes /\ Follow!RowsKept  BY DEF Follow!ActionsHold
<1>1. /\ s3' = [i \in Follow!Rows |->
                 IF i \in Follow!Present /\ s3[i].status = "proposed" /\ s3[i].raised = s1
                 THEN [s3[i] EXCEPT !.status = "open"] ELSE s3[i]]
      /\ s11' = TRUE /\ UNCHANGED <<s1, s2, s4, s5, s6, s7, s8, s9, s10>>
  BY DEF Follow!Publish
<1>2. ASSUME NEW i \in Follow!Present, s3[i].status = "proposed"
      PROVE  /\ s3[i] \in Follow!Written /\ [s3[i] EXCEPT !.status = "open"] \in Follow!Written
             /\ [s3[i] EXCEPT !.status = "open"].status = "open"
             /\ [s3[i] EXCEPT !.status = "open"].locked = s3[i].locked
             /\ [s3[i] EXCEPT !.status = "open"].closed = s3[i].closed
             /\ [s3[i] EXCEPT !.status = "open"].raised = s3[i].raised
             /\ [s3[i] EXCEPT !.status = "open"].document = s3[i].document
  <2>1. s3[i] \in Follow!Written  BY <1>t DEF Follow!ActionTypes, Follow!Present, Follow!Rows
  <2> QED  BY <2>1 DEF Follow!Written, Follow!Statuses, Follow!Open
<1>b. s3' \in [Follow!Rows -> {Follow!NoRow, Follow!Removed} \cup Follow!Written]
  BY <1>1, <1>2, <1>t DEF Follow!ActionTypes
<1>c. s7' \in [Follow!Rows -> Follow!Statuses \cup {"none"}]
  BY <1>1, <1>t DEF Follow!ActionTypes
<1>d. s8' \subseteq s8 /\ (s11 => s11')  BY <1>1
<1>e. ASSUME NEW j \in Follow!Rows
      PROVE  \/ s3'[j] = s3[j] /\ s7'[j] = s7[j]
             \/ /\ j \in Follow!Present /\ j \in Follow!Present'
                /\ s3[j].status \in Follow!Open => s3'[j].status \in Follow!Open
                /\ s3'[j].status \in Follow!Open => s3[j].status \in Follow!Open
                /\ s3'[j].status = "done" => s3[j].status = "done"
                /\ s3'[j].closed = s3[j].closed /\ s3'[j].raised = s3[j].raised
                /\ s3'[j].document = s3[j].document
                /\ Follow!RowKept(j)'
  <2>1. CASE j \in Follow!Present /\ s3[j].status = "proposed" /\ s3[j].raised = s1
    <3>1. /\ s3'[j].status = "open" /\ s3'[j].locked = s3[j].locked /\ s3'[j].closed = s3[j].closed
          /\ s3'[j].raised = s3[j].raised /\ s3'[j].document = s3[j].document
      BY <2>1, <1>1, <1>2
    <3>2. j \in Follow!Present'
      BY <3>1 DEF Follow!Present, Follow!Rows, Follow!NoRow, Follow!Removed
    <3>3. Follow!RowKept(j)  BY <1>t DEF Follow!RowsKept
    <3>4. Follow!RowKept(j)'
      BY <2>1, <3>1, <3>2, <3>3, <1>1 DEF Follow!RowKept, Follow!NoReport
    <3> QED  BY <2>1, <3>1, <3>2, <3>4 DEF Follow!Open
  <2>2. CASE ~(j \in Follow!Present /\ s3[j].status = "proposed" /\ s3[j].raised = s1)
    BY <2>2, <1>1
  <2> QED  BY <2>1, <2>2
<1> QED  BY <1>1, <1>b, <1>c, <1>d, <1>e, AcceptedRows

LEMMA ActionsImported ==
  ASSUME Follow!ActionsHold, NEW k \in {"agenda", "notes"}, NEW s \in {"open", "in_progress"},
         Follow!Import(k, s)
  PROVE  Follow!ActionsHold'
<1>t. Follow!ActionTypes /\ Follow!RowsKept  BY DEF Follow!ActionsHold
<1>1. UNCHANGED <<s1, s2, s4, s6, s7, s8, s9, s10>> /\ (UNCHANGED <<s3, s11>> \/ Follow!Merge(s))
  BY DEF Follow!Import
<1>c. s7' \in [Follow!Rows -> Follow!Statuses \cup {"none"}]
  BY <1>1, <1>t DEF Follow!ActionTypes
<1>2. CASE UNCHANGED <<s3, s11>>
  <2>1. s3' \in [Follow!Rows -> {Follow!NoRow, Follow!Removed} \cup Follow!Written]
    BY <1>2, <1>t DEF Follow!ActionTypes
  <2> QED  BY <1>1, <1>2, <1>c, <2>1, AcceptedRows
<1>3. CASE Follow!Present = {} /\ Follow!Put(Follow!NewRow(s, FALSE, TRUE)) /\ UNCHANGED s11
  <2>1. ~\E i \in Follow!Present : s3[i].status \in Follow!Open  BY <1>3
  <2>2. s \in Follow!Open /\ FALSE \in BOOLEAN /\ TRUE \in BOOLEAN  BY DEF Follow!Open
  <2>3. Follow!Put(Follow!NewRow(s, FALSE, TRUE)) /\ s11' = s11 /\ s7' = s7  BY <1>1, <1>3
  <2> QED  BY <1>1, <2>1, <2>2, <2>3, AddedRow
<1>4. ASSUME NEW i \in Follow!Rows, Follow!FirstKnown(i),
             ~s3[i].locked /\ s3[i].status = "open" /\ s = "in_progress",
             s3' = [s3 EXCEPT ![i] = [@ EXCEPT !.status = s]] /\ s11' = TRUE
      PROVE  Follow!ActionsHold'
  <2> DEFINE row == [s3[i] EXCEPT !.status = s]
  <2>1. i \in Follow!Present /\ s3' = [s3 EXCEPT ![i] = row]  BY <1>4 DEF Follow!FirstKnown
  <2>2. s3[i] \in Follow!Written  BY <2>1, <1>t DEF Follow!ActionTypes, Follow!Present
  <2>3. /\ row \in Follow!Written /\ row.status = s /\ row.locked = s3[i].locked
        /\ row.closed = s3[i].closed /\ row.raised = s3[i].raised /\ row.document = s3[i].document
    BY <2>2, <1>4 DEF Follow!Written, Follow!Statuses, Follow!Open
  <2> HIDE DEF row
  <2>4. s3'[i] = row /\ \A j \in Follow!Rows \ {i} : s3'[j] = s3[j]
    BY <2>1, <1>t DEF Follow!ActionTypes
  <2>5. i \in Follow!Present'
    BY <2>3, <2>4 DEF Follow!Present, Follow!Rows, Follow!NoRow, Follow!Removed
  <2>6. s3' \in [Follow!Rows -> {Follow!NoRow, Follow!Removed} \cup Follow!Written]
    BY <2>1, <2>3, <1>t DEF Follow!ActionTypes
  <2>7. Follow!RowKept(i)'
    <3>1. Follow!RowKept(i)  BY <1>t DEF Follow!RowsKept
    <3> QED  BY <3>1, <2>1, <2>3, <2>4, <2>5, <1>1, <1>4 DEF Follow!RowKept, Follow!NoReport
  <2>8. s11 => s11'  BY <1>4
  <2>9. ASSUME NEW j \in Follow!Rows
        PROVE  \/ s3'[j] = s3[j] /\ s7'[j] = s7[j]
               \/ /\ j \in Follow!Present /\ j \in Follow!Present'
                  /\ s3[j].status \in Follow!Open => s3'[j].status \in Follow!Open
                  /\ s3'[j].status \in Follow!Open => s3[j].status \in Follow!Open
                  /\ s3'[j].status = "done" => s3[j].status = "done"
                  /\ s3'[j].closed = s3[j].closed /\ s3'[j].raised = s3[j].raised
                  /\ s3'[j].document = s3[j].document
                  /\ Follow!RowKept(j)'
    <3>1. CASE j = i
      BY <3>1, <1>4, <2>1, <2>3, <2>4, <2>5, <2>7 DEF Follow!Open
    <3>2. CASE j # i
      BY <3>2, <2>4, <1>1
    <3> QED  BY <3>1, <3>2
  <2> QED  BY <1>1, <1>c, <2>6, <2>8, <2>9, AcceptedRows
<1> QED  BY <1>1, <1>2, <1>3, <1>4 DEF Follow!Merge

LEMMA ActionsAdded ==
  ASSUME Follow!ActionsHold, Follow!AiAdds \/ \E s \in Follow!Open : Follow!PersonAdds(s)
  PROVE  Follow!ActionsHold'
<1>0. Follow!Duplicate <=> \E i \in Follow!Present : ~Follow!Previous(i) \/ s3[i].status \in Follow!Open
  BY DEF Follow!Duplicate
<1>1. CASE Follow!AiAdds
  <2>1. "proposed" \in Follow!Open /\ FALSE \in BOOLEAN  BY DEF Follow!Open
  <2>2. /\ ~Follow!Duplicate /\ Follow!Put(Follow!NewRow("proposed", FALSE, FALSE))
        /\ UNCHANGED <<s1, s2, s4, s6, s7, s8, s9, s10, s11>>
    BY <1>1 DEF Follow!AiAdds
  <2> QED  BY <1>0, <2>1, <2>2, AddedRow
<1>2. ASSUME NEW s \in Follow!Open, Follow!PersonAdds(s) PROVE Follow!ActionsHold'
  <2>1. TRUE \in BOOLEAN /\ FALSE \in BOOLEAN  OBVIOUS
  <2>2. /\ ~Follow!Duplicate /\ Follow!Put(Follow!NewRow(s, TRUE, FALSE))
        /\ s7' = [i \in Follow!Rows |-> IF s3'[i] # s3[i] THEN s ELSE s7[i]]
        /\ UNCHANGED <<s1, s2, s4, s6, s8, s9, s10, s11>>
    BY <1>2 DEF Follow!PersonAdds
  <2> QED  BY <1>0, <2>1, <2>2, AddedRow
<1> QED  BY <1>1, <1>2

LEMMA ActionRejected ==
  ASSUME Follow!ActionsHold, NEW i \in Follow!Rows, Follow!Reject(i)
  PROVE  Follow!ActionsHold'
<1>t. Follow!ActionTypes /\ Follow!RowsKept /\ Follow!OneOpen /\ Follow!ChecksAsk  BY DEF Follow!ActionsHold
<1>1. /\ s3' = [s3 EXCEPT ![i] = Follow!Removed] /\ s4' = [s4 EXCEPT ![i] = Follow!NoReport]
      /\ s7' = [s7 EXCEPT ![i] = "none"] /\ s8' = s8 \ {i}
      /\ UNCHANGED <<s1, s2, s5, s6, s9, s10, s11>>
  BY DEF Follow!Reject
<1>2. /\ s3'[i] = Follow!Removed /\ s4'[i] = Follow!NoReport /\ s7'[i] = "none"
      /\ \A j \in Follow!Rows \ {i} : s3'[j] = s3[j] /\ s4'[j] = s4[j] /\ s7'[j] = s7[j]
  BY <1>1, <1>t DEF Follow!ActionTypes
<1>3. i \notin Follow!Present' /\ \A j \in Follow!Rows \ {i} : j \in Follow!Present' <=> j \in Follow!Present
  BY <1>2 DEF Follow!Present, Follow!Rows, Follow!NoRow, Follow!Removed
<1>4. Follow!ActionTypes'
  BY <1>1, <1>t DEF Follow!ActionTypes, Follow!NoRow, Follow!Removed, Follow!NoReport, Follow!Written,
     Follow!Rows, Follow!Statuses
<1>5. Follow!RowsKept'
  <2>1. Follow!RowKept(i)'  BY <1>1, <1>2, <1>3 DEF Follow!RowKept, Follow!NoReport
  <2>2. ASSUME NEW j \in Follow!Rows \ {i} PROVE Follow!RowKept(j)'
    BY <1>1, <1>2, <1>t, RowUntouched DEF Follow!RowsKept
  <2> QED  BY <2>1, <2>2 DEF Follow!RowsKept, Follow!Rows
<1>6. Follow!OneOpen'
  <2>1. ASSUME NEW j \in Follow!Rows, j \in Follow!Present', s3'[j].status \in Follow!Open
        PROVE  j \in Follow!Present /\ s3[j].status \in Follow!Open
    BY <2>1, <1>2, <1>3
  <2> QED  BY <2>1, <1>1, <1>t, OpenedNone
<1>7. Follow!ChecksAsk'
  <2>1. ASSUME NEW j \in Follow!Rows, Follow!Pending(j)' PROVE Follow!Pending(j)
    BY <2>1, <1>1, <1>2, <1>3 DEF Follow!Pending, Follow!Unconfirmed, Follow!Previous
  <2> QED  BY <2>1, <1>1, <1>t, NothingPends
<1> QED  BY <1>4, <1>5, <1>6, <1>7 DEF Follow!ActionsHold

\* What the model answers about previous actions nobody spoke of.
LEMMA ActionsReconciled ==
  ASSUME Follow!ActionsHold, Follow!Reconciled
  PROVE  Follow!ActionsHold'
<1>t. Follow!ActionTypes /\ Follow!RowsKept /\ Follow!OneOpen /\ Follow!ChecksAsk  BY DEF Follow!ActionsHold
<1> DEFINE Answered(i, x) ==
      [s3[i] EXCEPT !.status = x, !.closed = IF x = "done" /\ @ = 0 THEN s1 ELSE @]
<1>1. PICK R \in SUBSET {i \in DOMAIN s6.before : Follow!Same(i)} :
        \E s \in [R -> Follow!Statuses \ {"proposed"}] :
          /\ s3' = [i \in Follow!Rows |-> IF i \notin R THEN s3[i] ELSE Answered(i, s[i])]
          /\ s4' = [i \in Follow!Rows |-> IF i \in R THEN [noted |-> TRUE, status |-> s[i]] ELSE s4[i]]
          /\ s8' = (s8 \ {i \in R : s[i] # "done"})
                   \cup {i \in R : s[i] = "done" /\ s3[i].status # "done"}
          /\ s10' = (s10 \/ \E i \in R : s3[i].status \notin Follow!Open /\ s[i] \in Follow!Open)
  BY DEF Follow!Reconciled
<1>2. PICK s \in [R -> Follow!Statuses \ {"proposed"}] :
          /\ s3' = [i \in Follow!Rows |-> IF i \notin R THEN s3[i] ELSE Answered(i, s[i])]
          /\ s4' = [i \in Follow!Rows |-> IF i \in R THEN [noted |-> TRUE, status |-> s[i]] ELSE s4[i]]
          /\ s8' = (s8 \ {i \in R : s[i] # "done"})
                   \cup {i \in R : s[i] = "done" /\ s3[i].status # "done"}
          /\ s10' = (s10 \/ \E i \in R : s3[i].status \notin Follow!Open /\ s[i] \in Follow!Open)
  BY <1>1
<1>3. /\ s6.at = "asked" /\ s6' = [at |-> "verify"] /\ UNCHANGED <<s1, s2, s5, s7, s9, s11>>
  BY DEF Follow!Reconciled
<1>4. ASSUME NEW i \in R
      PROVE  /\ i \in Follow!Present /\ i \in Follow!Rows /\ ~s3[i].locked /\ s3[i] \in Follow!Written
             /\ s[i] \in Follow!Statuses
    <2>1. i \in Follow!Present /\ ~s3[i].locked  BY <1>1 DEF Follow!Same
    <2> QED  BY <2>1, <1>t, <1>2 DEF Follow!ActionTypes, Follow!Present, Follow!Rows
<1>5. ASSUME NEW i \in R
      PROVE  /\ Answered(i, s[i]) \in Follow!Written /\ Answered(i, s[i]).status = s[i]
             /\ Answered(i, s[i]).locked = s3[i].locked
  <2>1. s1 \in Nat  BY <1>t DEF Follow!ActionTypes
  <2>2. s3[i] \in Follow!Written /\ s[i] \in Follow!Statuses  BY <1>4
  <2> QED  BY <2>1, <2>2 DEF Follow!Written
<1> HIDE DEF Answered
<1>6. /\ \A i \in Follow!Rows \ R : s3'[i] = s3[i] /\ s4'[i] = s4[i]
      /\ \A i \in R : s3'[i] = Answered(i, s[i]) /\ s4'[i].status = s[i]
  BY <1>2, <1>4
<1>7. ASSUME NEW i \in R PROVE i \in Follow!Present'
  <2>1. s3'[i].status \in Follow!Statuses  BY <1>4, <1>5, <1>6
  <2> QED  BY <2>1, <1>4
    DEF Follow!Present, Follow!Rows, Follow!NoRow, Follow!Removed, Follow!Statuses, Follow!Open
<1>8. \A i \in Follow!Rows \ R : i \in Follow!Present' <=> i \in Follow!Present
  BY <1>6 DEF Follow!Present, Follow!Rows, Follow!NoRow, Follow!Removed
<1>9. R \subseteq Follow!Rows  BY <1>4
<1>a. Follow!ActionTypes'
  <2>1. s3' \in [Follow!Rows -> {Follow!NoRow, Follow!Removed} \cup Follow!Written]
    BY <1>2, <1>5, <1>t DEF Follow!ActionTypes
  <2>2. s4' \in [Follow!Rows -> [noted : BOOLEAN, status : Follow!Statuses \cup {"none"}]]
    BY <1>2, <1>4, <1>t DEF Follow!ActionTypes
  <2>3. s8' \subseteq Follow!Rows  BY <1>2, <1>9, <1>t DEF Follow!ActionTypes
  <2> QED  BY <2>1, <2>2, <2>3, <1>3, <1>t
    DEF Follow!ActionTypes, Follow!NoRow, Follow!Removed, Follow!Written, Follow!Rows, Follow!Statuses
<1>b. Follow!RowsKept'
  <2>1. ASSUME NEW i \in R PROVE Follow!RowKept(i)'
    <3>1. Follow!RowKept(i)  BY <1>4, <1>t DEF Follow!RowsKept
    <3>2. s7'[i] = s7[i] /\ s7[i] = "none"  BY <3>1, <1>3, <1>4 DEF Follow!RowKept
    <3>3. ~s3'[i].locked /\ s4'[i].status = s3'[i].status  BY <1>4, <1>5, <1>6
    <3> QED  BY <3>2, <3>3, <1>7 DEF Follow!RowKept
  <2>2. ASSUME NEW i \in Follow!Rows \ R PROVE Follow!RowKept(i)'
    BY <1>2, <1>3, <1>6, <1>t, RowUntouched DEF Follow!RowsKept
  <2> QED  BY <2>1, <2>2 DEF Follow!RowsKept, Follow!Rows
<1>c. Follow!OneOpen'
  <2>1. CASE s10'  BY <2>1 DEF Follow!OneOpen
  <2>2. CASE ~s10'
    <3>1. ~s10 /\ \A i \in R : s[i] \in Follow!Open => s3[i].status \in Follow!Open
      BY <2>2, <1>2
    <3>2. ASSUME NEW j \in Follow!Rows, j \in Follow!Present', s3'[j].status \in Follow!Open
          PROVE  j \in Follow!Present /\ s3[j].status \in Follow!Open
      <4>1. CASE j \in R
        BY <4>1, <3>1, <3>2, <1>4, <1>5, <1>6
      <4>2. CASE j \notin R
        BY <4>2, <3>2, <1>6, <1>8
      <4> QED  BY <4>1, <4>2
    <3> QED  BY <3>1, <3>2, <1>t, OpenedNone
  <2> QED  BY <2>1, <2>2
<1>d. Follow!ChecksAsk'  BY <1>3, <1>t DEF Follow!ChecksAsk
<1> QED  BY <1>a, <1>b, <1>c, <1>d DEF Follow!ActionsHold

\* What the model answers about the closures of this sitting.
LEMMA ClosuresVerified ==
  ASSUME Follow!ActionsHold, Follow!Verified
  PROVE  Follow!ActionsHold'
<1>t. Follow!ActionTypes /\ Follow!RowsKept /\ Follow!OneOpen /\ Follow!ChecksAsk  BY DEF Follow!ActionsHold
<1> DEFINE Reopened(i) == [s3[i] EXCEPT !.status = "open", !.closed = 0]
<1>1. PICK confirmed \in SUBSET s6.closed :
        LET R == {i \in s6.closed \ confirmed : Follow!StillClosed(i)} IN
        /\ s3' = [i \in Follow!Rows |-> IF i \in R THEN Reopened(i) ELSE s3[i]]
        /\ s4' = [i \in Follow!Rows |->
             IF i \in R /\ s4[i] # Follow!NoReport THEN [s4[i] EXCEPT !.status = "open"] ELSE s4[i]]
        /\ s8' = s8 \ (confirmed \cup R)
        /\ s10' = (s10 \/ R # {})
  BY DEF Follow!Verified
<1> DEFINE R == {i \in s6.closed \ confirmed : Follow!StillClosed(i)}
<1>2. /\ s3' = [i \in Follow!Rows |-> IF i \in R THEN Reopened(i) ELSE s3[i]]
      /\ s4' = [i \in Follow!Rows |->
           IF i \in R /\ s4[i] # Follow!NoReport THEN [s4[i] EXCEPT !.status = "open"] ELSE s4[i]]
      /\ s8' = s8 \ (confirmed \cup R) /\ s10' = (s10 \/ R # {})
  BY <1>1
<1>3. /\ s6.at = "asked again" /\ s6' = Follow!Idle /\ s9' = TRUE /\ s2' = "review"
      /\ UNCHANGED <<s1, s5, s7, s11>>
  BY DEF Follow!Verified
<1>4. ASSUME NEW i \in R
      PROVE  /\ i \in Follow!Present /\ i \in Follow!Rows /\ ~s3[i].locked /\ s3[i] \in Follow!Written
             /\ s4[i] \in [noted : BOOLEAN, status : Follow!Statuses \cup {"none"}]
  <2>1. i \in Follow!Present /\ ~s3[i].locked  BY DEF Follow!StillClosed
  <2>2. i \in Follow!Rows  BY <2>1 DEF Follow!Present, Follow!Rows
  <2> QED  BY <2>1, <2>2, <1>t DEF Follow!ActionTypes, Follow!Present
<1>5. ASSUME NEW i \in R
      PROVE  /\ Reopened(i) \in Follow!Written /\ Reopened(i).status = "open"
             /\ Reopened(i).locked = s3[i].locked
  <2>1. s3[i] \in Follow!Written  BY <1>4
  <2> QED  BY <2>1 DEF Follow!Written, Follow!Statuses, Follow!Open
<1>s. ASSUME NEW i \in Follow!Rows, Follow!StillClosed(i), i \in s6.closed, i \notin confirmed PROVE i \in R
  BY <1>s
<1> HIDE DEF Reopened, R
<1>6. /\ \A i \in Follow!Rows \ R : s3'[i] = s3[i] /\ s4'[i] = s4[i]
      /\ \A i \in R : s3'[i] = Reopened(i)
  BY <1>2, <1>4
<1>7. ASSUME NEW i \in R PROVE s4'[i] = Follow!NoReport \/ s4'[i].status = "open"
  <2>1. CASE s4[i] = Follow!NoReport  BY <2>1, <1>2, <1>4
  <2>2. CASE s4[i] # Follow!NoReport
    <3>1. s4'[i] = [s4[i] EXCEPT !.status = "open"]  BY <2>2, <1>2, <1>4
    <3> QED  BY <3>1, <1>4
  <2> QED  BY <2>1, <2>2
<1>8. ASSUME NEW i \in R PROVE i \in Follow!Present'
  <2>1. s3'[i].status = "open"  BY <1>5, <1>6
  <2> QED  BY <2>1, <1>4 DEF Follow!Present, Follow!Rows, Follow!NoRow, Follow!Removed
<1>9. \A i \in Follow!Rows \ R : i \in Follow!Present' <=> i \in Follow!Present
  BY <1>6 DEF Follow!Present, Follow!Rows, Follow!NoRow, Follow!Removed
<1>a. Follow!ActionTypes'
  <2>1. s3' \in [Follow!Rows -> {Follow!NoRow, Follow!Removed} \cup Follow!Written]
    BY <1>2, <1>5, <1>t DEF Follow!ActionTypes
  <2>2. s4' \in [Follow!Rows -> [noted : BOOLEAN, status : Follow!Statuses \cup {"none"}]]
    <3>1. "open" \in Follow!Statuses  BY DEF Follow!Statuses, Follow!Open
    <3>2. ASSUME NEW i \in Follow!Rows
          PROVE  (IF i \in R /\ s4[i] # Follow!NoReport THEN [s4[i] EXCEPT !.status = "open"] ELSE s4[i])
                   \in [noted : BOOLEAN, status : Follow!Statuses \cup {"none"}]
      <4>1. s4[i] \in [noted : BOOLEAN, status : Follow!Statuses \cup {"none"}]  BY <1>t DEF Follow!ActionTypes
      <4> QED  BY <3>1, <4>1
    <3> QED  BY <1>2, <3>2
  <2>3. s8' \subseteq Follow!Rows  BY <1>2, <1>t DEF Follow!ActionTypes
  <2> QED  BY <2>1, <2>2, <2>3, <1>3, <1>t
    DEF Follow!ActionTypes, Follow!NoRow, Follow!Removed, Follow!Written, Follow!Rows, Follow!Statuses
<1>b. Follow!RowsKept'
  <2>1. ASSUME NEW i \in R PROVE Follow!RowKept(i)'
    <3>1. Follow!RowKept(i)  BY <1>4, <1>t DEF Follow!RowsKept
    <3>2. s7'[i] = s7[i] /\ s7[i] = "none"  BY <3>1, <1>3, <1>4 DEF Follow!RowKept
    <3>3. ~s3'[i].locked /\ s3'[i].status = "open"  BY <1>4, <1>5, <1>6
    <3> QED  BY <3>2, <3>3, <1>7, <1>8 DEF Follow!RowKept
  <2>2. ASSUME NEW i \in Follow!Rows \ R PROVE Follow!RowKept(i)'
    BY <1>2, <1>3, <1>6, <1>t, RowUntouched DEF Follow!RowsKept
  <2> QED  BY <2>1, <2>2 DEF Follow!RowsKept, Follow!Rows
<1>c. Follow!OneOpen'
  <2>1. CASE s10'  BY <2>1 DEF Follow!OneOpen
  <2>2. CASE ~s10'
    <3>1. ~s10 /\ R = {}  BY <2>2, <1>2
    <3>2. ASSUME NEW j \in Follow!Rows, j \in Follow!Present', s3'[j].status \in Follow!Open
          PROVE  j \in Follow!Present /\ s3[j].status \in Follow!Open
      BY <3>1, <3>2, <1>6, <1>9
    <3> QED  BY <3>1, <3>2, <1>t, OpenedNone
  <2> QED  BY <2>1, <2>2
<1>d. Follow!ChecksAsk'
  <2>1. ASSUME NEW i \in Follow!Rows PROVE ~Follow!Pending(i)'
    <3> SUFFICES ASSUME Follow!Pending(i)' PROVE FALSE  OBVIOUS
    <3>1. i \in s8 /\ i \notin R /\ i \notin confirmed  BY <1>2 DEF Follow!Pending
    <3>2. Follow!Pending(i)
      BY <3>1, <1>3, <1>6, <1>9 DEF Follow!Pending, Follow!Unconfirmed, Follow!Previous
    <3>3. i \in s6.closed  BY <3>2, <1>3, <1>t DEF Follow!ChecksAsk
    <3>4. i \in Follow!Present /\ ~s3[i].locked
      BY <3>1, <3>2, <1>t DEF Follow!RowsKept, Follow!RowKept, Follow!Pending, Follow!Unconfirmed
    <3>5. Follow!StillClosed(i)
      BY <3>2, <3>4 DEF Follow!StillClosed, Follow!Pending, Follow!Unconfirmed
    <3> QED  BY <3>1, <3>3, <3>5, <1>s
  <2> QED  BY <2>1, <1>3 DEF Follow!ChecksAsk, Follow!Idle
<1> QED  BY <1>a, <1>b, <1>c, <1>d DEF Follow!ActionsHold

\* Nothing of the rows changes: the sitting and its checks go on.
LEMMA ActionsGoOn ==
  ASSUME Follow!ActionsHold,
         \/ Follow!Start \/ Follow!End \/ Follow!Reconcile \/ Follow!Verify \/ Follow!ModelFails
         \/ Follow!StartsOver \/ UNCHANGED Follow!vars
         \/ \E k \in {"agenda", "notes"} : Follow!Upload(k) \/ Follow!Read(k) \/ Follow!ReadFails(k)
  PROVE  Follow!ActionsHold'
<1>t. Follow!ActionTypes /\ Follow!RowsKept /\ Follow!OneOpen /\ Follow!ChecksAsk  BY DEF Follow!ActionsHold
<1>1. UNCHANGED <<s1, s3, s4, s7, s8, s10, s11>>
  BY DEF Follow!Start, Follow!End, Follow!Reconcile, Follow!Verify, Follow!ModelFails, Follow!StartsOver,
     Follow!vars, Follow!Upload, Follow!Read, Follow!ReadFails
<1>2. Follow!Present' = Follow!Present
  BY <1>1 DEF Follow!Present, Follow!Rows, Follow!NoRow, Follow!Removed
<1>3. Follow!ActionTypes'
  BY <1>1, <1>t DEF Follow!ActionTypes, Follow!NoRow, Follow!Removed, Follow!Written, Follow!Rows, Follow!Statuses
<1>4. Follow!RowsKept'
  BY <1>1, <1>t, RowUntouched DEF Follow!RowsKept, Follow!Rows
<1>5. Follow!OneOpen'
  BY <1>1, <1>2, <1>t DEF Follow!OneOpen, Follow!Open
<1>6. \A i \in Follow!Rows : Follow!Pending(i)' <=> Follow!Pending(i)
  BY <1>1, <1>2 DEF Follow!Pending, Follow!Unconfirmed, Follow!Previous
<1>7. Follow!ChecksAsk'
  <2>a. ASSUME ~s9', s6'.at # "asked again", s6'.at # "idle" => s2' \in {"finalising", "review"}
        PROVE  Follow!ChecksAsk'
    BY <2>a DEF Follow!ChecksAsk
  <2>1. CASE Follow!Start
    BY <2>1, <2>a, <1>t DEF Follow!Start, Follow!ChecksAsk
  <2>b. CASE Follow!End
    <3>1. ~s9  BY <2>b, <1>t DEF Follow!End, Follow!ChecksAsk
    <3>2. s9' = s9 /\ s6'.at = "reconcile" /\ s2' = "finalising"  BY <2>b DEF Follow!End
    <3> QED  BY <3>1, <3>2, <2>a
  <2>c. CASE Follow!Reconcile
    <3>1. s6.at = "reconcile" /\ s9' = s9 /\ s2' = s2 /\ s6'.at \in {"verify", "asked"}
      BY <2>c DEF Follow!Reconcile
    <3>2. ~s9 /\ s2 \in {"finalising", "review"}  BY <3>1, <1>t DEF Follow!ChecksAsk
    <3> QED  BY <3>1, <3>2, <2>a
  <2>2. CASE Follow!Verify
    <3>1. s6.at = "verify" /\ ~s9  BY <2>2, <1>t DEF Follow!Verify, Follow!ChecksAsk
    <3>2. ASSUME NEW i \in Follow!Rows, Follow!Pending(i) PROVE Follow!Doubtful(i)
      <4>1. i \in Follow!Present /\ ~s3[i].locked
        BY <3>2, <1>t DEF Follow!RowsKept, Follow!RowKept, Follow!Pending, Follow!Unconfirmed
      <4> QED  BY <4>1, <3>2, <1>t DEF Follow!Doubtful, Follow!Pending, Follow!Unconfirmed, Follow!ActionTypes
    <3> DEFINE closed == {i \in Follow!Rows : Follow!Doubtful(i)}
    <3>3. CASE closed = {}
      <4>1. s6' = Follow!Idle /\ s9' = TRUE /\ s2' = "review"  BY <3>3, <2>2 DEF Follow!Verify
      <4>2. \A i \in Follow!Rows : ~Follow!Pending(i)'  BY <1>6, <3>2, <3>3
      <4> QED  BY <4>1, <4>2 DEF Follow!ChecksAsk, Follow!Idle
    <3>4. CASE closed # {}
      <4>1. s6' = [at |-> "asked again", closed |-> closed] /\ UNCHANGED <<s9, s2>>
        BY <3>4, <2>2 DEF Follow!Verify
      <4>2. \A i \in Follow!Rows : Follow!Pending(i)' => i \in closed  BY <1>6, <3>2
      <4> HIDE DEF closed
      <4>3. s6'.at = "asked again" /\ s6'.closed = closed  BY <4>1
      <4>4. s2' \in {"finalising", "review"}  BY <4>1, <3>1, <1>t DEF Follow!ChecksAsk
      <4>5. ~s9'  BY <4>1, <3>1
      <4> QED  BY <4>2, <4>3, <4>4, <4>5 DEF Follow!ChecksAsk, Follow!Rows
    <3> QED  BY <3>3, <3>4
  <2>3. CASE Follow!ModelFails
    <3>1. /\ s9' = s9
          /\ \/ s6.at = "asked" /\ s6' = [at |-> "verify"] /\ s2' = s2
             \/ s6.at = "asked again" /\ s6' = [at |-> "idle"] /\ s2' = "review"
      BY <2>3 DEF Follow!ModelFails, Follow!Idle
    <3>2. ~s9 /\ s2 \in {"finalising", "review"}  BY <3>1, <1>t DEF Follow!ChecksAsk
    <3>3. s6'.at \in {"verify", "idle"} /\ s2' \in {s2, "review"}
      <4>1. CASE s6' = [at |-> "verify"] /\ s2' = s2  BY <4>1
      <4>2. CASE s6' = [at |-> "idle"] /\ s2' = "review"  BY <4>2
      <4> QED  BY <3>1, <4>1, <4>2
    <3>4. ~s9' /\ s2' \in {"finalising", "review"} /\ s6'.at # "asked again"  BY <3>1, <3>2, <3>3
    <3> QED  BY <3>4, <2>a
  <2>4. CASE Follow!StartsOver
    <3>1. s9' = FALSE /\ s6' = [at |-> "reconcile"] /\ s2' = s2 /\ (s6.at # "idle" \/ s2 = "review")
      BY <2>4 DEF Follow!StartsOver
    <3> QED  BY <3>1, <1>t DEF Follow!ChecksAsk
  <2>5. CASE UNCHANGED <<s2, s6, s9>>
    BY <2>5, <1>6, <1>t, NothingPends
  <2> QED  BY <2>1, <2>b, <2>c, <2>2, <2>3, <2>4, <2>5 DEF Follow!vars, Follow!Upload, Follow!Read, Follow!ReadFails
<1> QED  BY <1>3, <1>4, <1>5, <1>7 DEF Follow!ActionsHold

LEMMA ActionsNextSitting ==
  ASSUME Follow!ActionsHold, Follow!NextSitting
  PROVE  Follow!ActionsHold'
<1>t. Follow!ActionTypes /\ Follow!RowsKept /\ Follow!OneOpen  BY DEF Follow!ActionsHold
<1>1. /\ s1' = s1 + 1 /\ s4' = [i \in Follow!Rows |-> Follow!NoReport] /\ s8' = {} /\ s9' = FALSE
      /\ s6' = s6 /\ s6 = Follow!Idle /\ UNCHANGED <<s3, s7, s10>>
  BY DEF Follow!NextSitting
<1>2. Follow!Present' = Follow!Present
  BY <1>1 DEF Follow!Present, Follow!Rows, Follow!NoRow, Follow!Removed
<1>3. Follow!ActionTypes'
  BY <1>1, <1>t DEF Follow!ActionTypes, Follow!NoRow, Follow!Removed, Follow!NoReport, Follow!Written,
     Follow!Rows, Follow!Statuses
<1>4. Follow!RowsKept'
  BY <1>1, <1>2, <1>t DEF Follow!RowsKept, Follow!RowKept, Follow!NoReport, Follow!Rows
<1>5. Follow!OneOpen'  BY <1>1, <1>2, <1>t DEF Follow!OneOpen, Follow!Open
<1>6. Follow!ChecksAsk'  BY <1>1 DEF Follow!ChecksAsk, Follow!Idle
<1> QED  BY <1>3, <1>4, <1>5, <1>6 DEF Follow!ActionsHold

LEMMA ActionsStep == Follow!ActionsHold /\ [Follow!Next]_(Follow!vars) => Follow!ActionsHold'
<1> SUFFICES ASSUME Follow!ActionsHold, [Follow!Next]_(Follow!vars) PROVE Follow!ActionsHold'  OBVIOUS
<1>1. CASE Follow!AiAdds \/ \E s \in Follow!Open : Follow!PersonAdds(s)
  BY <1>1, ActionsAdded
<1>2. CASE Follow!Publish \/ Follow!Reconciled \/ Follow!Verified \/ Follow!NextSitting
  BY <1>2, ActionsPublished, ActionsReconciled, ClosuresVerified, ActionsNextSitting
<1>3. CASE \/ Follow!Start \/ Follow!End \/ Follow!Reconcile \/ Follow!Verify \/ Follow!ModelFails
           \/ Follow!StartsOver \/ UNCHANGED Follow!vars
  BY <1>3, ActionsGoOn
<1>4. ASSUME NEW i \in Follow!Rows, NEW s \in Follow!Statuses, NEW note \in BOOLEAN,
             Follow!AiUpdates(i, s, note) \/ Follow!PersonUpdates(i, s, note)
      PROVE  Follow!ActionsHold'
  BY <1>4, ActionUpdates
<1>5. ASSUME NEW i \in Follow!Rows, Follow!Confirm(i) \/ Follow!Reject(i) PROVE Follow!ActionsHold'
  BY <1>5, ActionConfirmed, ActionRejected
<1>6. ASSUME NEW k \in {"agenda", "notes"},
             \/ Follow!Upload(k) \/ Follow!Read(k) \/ Follow!ReadFails(k)
             \/ \E s \in {"open", "in_progress"} : Follow!Import(k, s)
      PROVE  Follow!ActionsHold'
  BY <1>6, ActionsGoOn, ActionsImported
<1> QED  BY <1>1, <1>2, <1>3, <1>4, <1>5, <1>6 DEF Follow!Next

LEMMA ActionsCardinality == \A S : Follow!Cardinality(S) = Cardinality(S)
BY DEF Follow!Cardinality, Cardinality

LEMMA KeptActions == Follow!ActionsHold => Follow!ActionsKept
<1> SUFFICES ASSUME Follow!ActionsHold PROVE Follow!ActionsKept  OBVIOUS
<1>t. Follow!ActionTypes /\ Follow!RowsKept /\ Follow!OneOpen /\ Follow!ChecksAsk  BY DEF Follow!ActionsHold
<1>1. Follow!PersonStands
  BY <1>t DEF Follow!PersonStands, Follow!RowsKept, Follow!RowKept, Follow!Present
<1>2. Follow!ClosedIsConfirmed
  BY <1>t DEF Follow!ClosedIsConfirmed, Follow!ChecksAsk, Follow!Pending, Follow!ActionTypes
<1>3. Follow!ReportAgrees
  BY <1>t DEF Follow!ReportAgrees, Follow!RowsKept, Follow!RowKept, Follow!Present
<1>4. Follow!NoDouble
  <2> SUFFICES ASSUME ~s10
               PROVE  Cardinality({i \in Follow!Present : s3[i].status \in Follow!Open}) <= 1
    BY ActionsCardinality DEF Follow!NoDouble
  <2> DEFINE S == {i \in Follow!Present : s3[i].status \in Follow!Open}
  <2>1. CASE S = {}  BY <2>1, FS_EmptySet
  <2>2. CASE S # {}
    <3>1. PICK i \in S : TRUE  BY <2>2
    <3>2. S = {i}  BY <3>1, <1>t DEF Follow!OneOpen
    <3>3. Cardinality({i}) = 1  BY FS_Singleton
    <3>4. Cardinality(S) = 1  BY <3>2, <3>3
    <3> QED  BY <3>4
  <2> QED  BY <2>1, <2>2
<1> QED  BY <1>1, <1>2, <1>3, <1>4 DEF Follow!ActionsKept

LEMMA TalkCardinality == ASSUME NEW S PROVE Chats!Cardinality(S) = Cardinality(S)
BY DEF Chats!Cardinality, Cardinality

LEMMA TalkInit == Chats!Init => Chats!TalkHolds
<1> SUFFICES ASSUME Chats!Init PROVE Chats!TalkHolds  OBVIOUS
<1> USE BoundsAssumption DEF Chats!Init, Chats!Idle
<1>1. Chats!TalkTypes  BY DEF Chats!TalkTypes, Chats!Requests, Chats!NoVote
<1>2. Chats!VotesIn /\ Chats!MarkedFull  BY DEF Chats!VotesIn, Chats!MarkedFull
<1>3. Chats!PressesAlternate  BY DEF Chats!PressesAlternate, Chats!Alternate, Chats!Presses
<1>4. Chats!PicturesWritten
  <2>1. Chats!Sending = {}  BY DEF Chats!Sending
  <2> QED  BY <2>1, FS_EmptySet, TalkCardinality DEF Chats!PicturesWritten
<1> QED  BY <1>1, <1>2, <1>3, <1>4 DEF Chats!TalkHolds

\* Every step that is of a request sets its record or ends it, and nothing else changes the requests.
LEMMA TalkCalls ==
  ASSUME Chats!TalkTypes, Chats!Next
  PROVE  \/ s8' = s8
         \/ \E c \in Callers, r \in Chats!Requests : s8' = [s8 EXCEPT ![c] = r]
<1> USE DEF Chats!TalkTypes, Chats!Requests, Chats!Begins, Chats!Ends, Chats!Idle
<1>1. CASE Chats!CloseOrReopen \/ Chats!ClosePoll \/ \E p \in Members : Chats!React(p)
  BY <1>1 DEF Chats!CloseOrReopen, Chats!ClosePoll, Chats!React
<1>2. ASSUME NEW c \in Callers, Chats!Chat(c) \/ Chats!Draw(c) \/ Chats!Clear(c)
      PROVE  \E r \in Chats!Requests : s8' = [s8 EXCEPT ![c] = r]
  BY <1>2 DEF Chats!Chat, Chats!Draw, Chats!Clear
<1>3. ASSUME NEW c \in Callers,
             Chats!Posted(c) \/ Chats!PictureFails(c) \/ Chats!Voted(c) \/ Chats!Toggled(c) \/ Chats!Drawn(c) \/ Chats!Cleared(c)
      PROVE  \E r \in Chats!Requests : s8' = [s8 EXCEPT ![c] = r]
  BY <1>3 DEF Chats!Posted, Chats!PictureFails, Chats!Voted, Chats!Toggled, Chats!Drawn, Chats!Cleared
<1>4. ASSUME NEW c \in Callers, NEW p \in Members,
             Chats!Press(c, p) \/ \E o \in Chats!Options : Chats!Vote(c, p, o)
      PROVE  \E r \in Chats!Requests : s8' = [s8 EXCEPT ![c] = r]
  BY <1>4 DEF Chats!Press, Chats!Vote
<1>5. ASSUME NEW c \in Callers, Chats!Count(c)
      PROVE  \/ s8' = s8
             \/ \E r \in Chats!Requests : s8' = [s8 EXCEPT ![c] = r]
  <2>1. s8[c] = [at |-> "count"]  BY <1>5 DEF Chats!Count
  <2>2. [s8[c] EXCEPT !.at = "stroke"] = [at |-> "stroke"]  BY <2>1
  <2> QED  BY <1>5, <2>2 DEF Chats!Count
<1> QED  BY <1>1, <1>2, <1>3, <1>4, <1>5 DEF Chats!Next

LEMMA TalkTypesStep ==
  ASSUME Chats!TalkTypes, Chats!PicturesWritten, Chats!Next PROVE Chats!TalkTypes'
<1>1. s8' \in [Callers -> Chats!Requests]  BY TalkCalls DEF Chats!TalkTypes
<1>2. s2' \in [status : {"open", "closed"}, votes : [Members -> Nat]]
  <2>1. CASE s2' = s2  BY <2>1 DEF Chats!TalkTypes
  <2>2. CASE Chats!ClosePoll  BY <2>2 DEF Chats!ClosePoll, Chats!TalkTypes
  <2>3. ASSUME NEW c \in Callers, Chats!Voted(c)
        PROVE  s2' \in [status : {"open", "closed"}, votes : [Members -> Nat]]
    <3>1. s8[c] \in [at : {"vote"}, who : Members, option : Nat]
      BY <2>3 DEF Chats!Voted, Chats!TalkTypes, Chats!Requests, Chats!Options, Chats!Idle
    <3>2. s2' = [s2 EXCEPT !.votes = [s2.votes EXCEPT ![s8[c].who] = s8[c].option]]
      BY <2>3 DEF Chats!Voted
    <3> QED  BY <3>1, <3>2 DEF Chats!TalkTypes
  <2> QED
    BY <2>1, <2>2, <2>3 DEF Chats!Next, Chats!CloseOrReopen, Chats!React, Chats!Chat, Chats!Posted, Chats!PictureFails,
       Chats!Toggled, Chats!Draw, Chats!Count, Chats!Drawn, Chats!Clear, Chats!Cleared, Chats!Press, Chats!Vote
<1>3. s6' \in Nat /\ s11' \in [Members -> Nat]
  <2>1. ASSUME NEW c \in Callers, NEW p \in Members, Chats!Press(c, p) PROVE s6' \in Nat /\ s11' \in [Members -> Nat]
    BY <2>1 DEF Chats!Press, Chats!TalkTypes
  <2>2. ASSUME NEW c \in Callers, Chats!Drawn(c) \/ Chats!Cleared(c) PROVE s6' \in Nat /\ s11' \in [Members -> Nat]
    BY <2>2 DEF Chats!Drawn, Chats!Cleared, Chats!TalkTypes
  <2>3. CASE UNCHANGED <<s6, s11>>  BY <2>3 DEF Chats!TalkTypes
  <2> QED
    BY <2>1, <2>2, <2>3 DEF Chats!Next, Chats!CloseOrReopen, Chats!ClosePoll, Chats!React, Chats!Chat, Chats!Posted,
       Chats!PictureFails, Chats!Voted, Chats!Toggled, Chats!Draw, Chats!Count, Chats!Clear, Chats!Vote
<1>4. s5' \in [files : Nat, named : Nat]
  <2>1. CASE s5' = s5  BY <2>1 DEF Chats!TalkTypes
  <2>2. ASSUME NEW c \in Callers, Chats!Chat(c) \/ Chats!Posted(c)
        PROVE  s5' \in [files : Nat, named : Nat]
    BY <2>2 DEF Chats!Chat, Chats!Posted, Chats!TalkTypes
  <2>3. ASSUME NEW c \in Callers, Chats!PictureFails(c)
        PROVE  s5' \in [files : Nat, named : Nat]
    <3>1. s5.files # 0
      <4>1. c \in Chats!Sending  BY <2>3 DEF Chats!PictureFails, Chats!Sending
      <4>2. IsFiniteSet(Chats!Sending)  BY CallersAssumption, FS_Subset DEF Chats!Sending
      <4>3. Cardinality(Chats!Sending) \in Nat /\ Cardinality(Chats!Sending) # 0
        BY <4>1, <4>2, FS_CardinalityType, FS_EmptySet
      <4> QED  BY <4>3, TalkCardinality DEF Chats!PicturesWritten, Chats!TalkTypes
    <3> QED  BY <2>3, <3>1 DEF Chats!PictureFails, Chats!TalkTypes
  <2> QED
    BY <2>1, <2>2, <2>3 DEF Chats!Next, Chats!CloseOrReopen, Chats!ClosePoll, Chats!React, Chats!Voted,
       Chats!Toggled, Chats!Draw, Chats!Count, Chats!Drawn, Chats!Clear, Chats!Cleared, Chats!Press, Chats!Vote
<1> QED  BY <1>1, <1>2, <1>3, <1>4 DEF Chats!TalkTypes

\* A closed poll: the only step that writes a vote is of a vote that is under way.
LEMMA VotesInStep ==
  ASSUME Chats!TalkTypes, Chats!VotesIn, Chats!Next PROVE Chats!VotesIn'
<1> USE DEF Chats!TalkTypes, Chats!Requests, Chats!Idle, Chats!VotesIn, Chats!UnderWay, Chats!Begins, Chats!Ends
<1>1. CASE Chats!CloseOrReopen \/ \E p \in Members : Chats!React(p)
  BY <1>1 DEF Chats!CloseOrReopen, Chats!React
<1>2. CASE Chats!ClosePoll  BY <1>2 DEF Chats!ClosePoll
<1>3. ASSUME NEW c \in Callers, Chats!Chat(c) \/ Chats!Draw(c) \/ Chats!Clear(c) PROVE Chats!VotesIn'
  BY <1>3 DEF Chats!Chat, Chats!Draw, Chats!Clear
<1>4. ASSUME NEW c \in Callers,
             Chats!Posted(c) \/ Chats!PictureFails(c) \/ Chats!Toggled(c) \/ Chats!Drawn(c) \/ Chats!Cleared(c)
      PROVE  Chats!VotesIn'
  BY <1>4 DEF Chats!Posted, Chats!PictureFails, Chats!Toggled, Chats!Drawn, Chats!Cleared
<1>5. ASSUME NEW c \in Callers, Chats!Voted(c) PROVE Chats!VotesIn'
  BY <1>5 DEF Chats!Voted
<1>6. ASSUME NEW c \in Callers, NEW p \in Members,
             Chats!Press(c, p) \/ \E o \in Chats!Options : Chats!Vote(c, p, o)
      PROVE  Chats!VotesIn'
  BY <1>6 DEF Chats!Press, Chats!Vote
<1>7. ASSUME NEW c \in Callers, Chats!Count(c) PROVE Chats!VotesIn'
  <2>1. s8[c] = [at |-> "count"]  BY <1>7 DEF Chats!Count
  <2>2. [s8[c] EXCEPT !.at = "stroke"] = [at |-> "stroke"]  BY <2>1
  <2> QED  BY <1>7, <2>2 DEF Chats!Count
<1> QED  BY <1>1, <1>2, <1>3, <1>4, <1>5, <1>6, <1>7 DEF Chats!Next

\* The mark: a count that saw a full board while it was cleared is remembered as stale.
LEMMA MarkedFullStep ==
  ASSUME Chats!TalkTypes, Chats!MarkedFull, Chats!Next PROVE Chats!MarkedFull'
<1> USE DEF Chats!TalkTypes, Chats!Requests, Chats!Idle, Chats!Clearing, Chats!UnderWay, Chats!Begins, Chats!Ends
<1>a. s6 \in Nat /\ Few \in Nat  BY BoundsAssumption
<1>1. ASSUME UNCHANGED <<s7, s12>>, s6' = s6 \/ s6' = s6 + 1, Chats!Clearing' => Chats!Clearing
      PROVE  Chats!MarkedFull'
  <2> HIDE DEF Chats!Clearing, Chats!TalkTypes
  <2>1. s6 >= Few => s6' >= Few  BY <1>1, <1>a
  <2> QED  BY <1>1, <2>1, Zenon DEF Chats!MarkedFull
<1>2. CASE Chats!CloseOrReopen \/ Chats!ClosePoll \/ \E p \in Members : Chats!React(p)
  BY <1>1, <1>2 DEF Chats!CloseOrReopen, Chats!ClosePoll, Chats!React
<1>3. ASSUME NEW c \in Callers, Chats!Chat(c) \/ Chats!Draw(c) PROVE Chats!MarkedFull'
  <2>1. UNCHANGED <<s6, s7, s12>>  BY <1>3 DEF Chats!Chat, Chats!Draw
  <2>2. Chats!Clearing' => Chats!Clearing  BY <1>3 DEF Chats!Chat, Chats!Draw
  <2> QED  BY <1>1, <2>1, <2>2
<1>4. ASSUME NEW c \in Callers, Chats!Clear(c) PROVE Chats!MarkedFull'
  BY <1>4 DEF Chats!Clear, Chats!Unmarked, Chats!MarkedFull
<1>5. ASSUME NEW c \in Callers, Chats!Posted(c) \/ Chats!PictureFails(c) \/ Chats!Voted(c) \/ Chats!Toggled(c) \/ Chats!Drawn(c)
      PROVE  Chats!MarkedFull'
  <2>1. UNCHANGED <<s7, s12>> /\ (s6' = s6 \/ s6' = s6 + 1)
    BY <1>5 DEF Chats!Posted, Chats!PictureFails, Chats!Voted, Chats!Toggled, Chats!Drawn
  <2>2. Chats!Clearing' => Chats!Clearing
    BY <1>5 DEF Chats!Posted, Chats!PictureFails, Chats!Voted, Chats!Toggled, Chats!Drawn
  <2> QED  BY <1>1, <2>1, <2>2
<1>6. ASSUME NEW c \in Callers, Chats!Cleared(c) PROVE Chats!MarkedFull'
  <2>1. Chats!Clearing /\ UNCHANGED <<s7, s12>>  BY <1>6 DEF Chats!Cleared
  <2> QED  BY <2>1, Zenon DEF Chats!MarkedFull
<1>7. ASSUME NEW c \in Callers, NEW p \in Members, Chats!Press(c, p) \/ \E o \in Chats!Options : Chats!Vote(c, p, o)
      PROVE  Chats!MarkedFull'
  <2>1. UNCHANGED <<s6, s7, s12>>  BY <1>7 DEF Chats!Press, Chats!Vote
  <2>2. Chats!Clearing' => Chats!Clearing  BY <1>7 DEF Chats!Press, Chats!Vote
  <2> QED  BY <1>1, <2>1, <2>2
<1>8. ASSUME NEW c \in Callers, Chats!Count(c) PROVE Chats!MarkedFull'
  <2>1. s8[c] = [at |-> "count"]  BY <1>8 DEF Chats!Count
  <2>2. [s8[c] EXCEPT !.at = "stroke"] = [at |-> "stroke"]  BY <2>1
  <2>3. Chats!Clearing' <=> Chats!Clearing  BY <1>8, <2>2 DEF Chats!Count
  <2>4. UNCHANGED <<s6, s7, s12>> \/ (s6 >= Few /\ s6' = s6 /\ (s12' <=> s12 \/ Chats!Clearing))
    BY <1>8 DEF Chats!Count
  <2>5. CASE UNCHANGED <<s6, s7, s12>>  BY <1>1, <2>3, <2>5
  <2>6. CASE s6 >= Few /\ s6' = s6 /\ (s12' <=> s12 \/ Chats!Clearing)
    <3> HIDE DEF Chats!Clearing, Chats!TalkTypes
    <3> QED  BY <2>3, <2>6 DEF Chats!MarkedFull
  <2> QED  BY <2>4, <2>5, <2>6
<1> QED  BY <1>2, <1>3, <1>4, <1>5, <1>6, <1>7, <1>8 DEF Chats!Next

LEMMA Parity == ASSUME NEW n \in Nat PROVE (n + 1) % 2 = 1 - (n % 2) /\ n % 2 \in {0, 1}
OBVIOUS

\* Presses: as long as one at a time is under way for a person, each turns the last one's vote.
LEMMA PressesAlternateStep ==
  ASSUME Chats!TalkTypes, Chats!PressesAlternate, Chats!Next PROVE Chats!PressesAlternate'
<1> SUFFICES ASSUME NEW q \in Members PROVE Chats!Alternate(q)'  BY DEF Chats!PressesAlternate
<1>a. Chats!Alternate(q)  BY DEF Chats!PressesAlternate
<1> USE DEF Chats!TalkTypes, Chats!Requests, Chats!Idle, Chats!Presses, Chats!Begins, Chats!Ends
<1> DEFINE Others == /\ UNCHANGED <<s3, s10, s11>>
                     /\ \A c \in Callers : \/ s8'[c] = s8[c]
                                           \/ s8'[c].at \notin {"add", "remove"} /\ s8[c].at \notin {"add", "remove"}
<1>b. ASSUME Others PROVE Chats!Alternate(q)'
  BY <1>a, <1>b DEF Chats!Alternate
<1>1. ASSUME Chats!CloseOrReopen \/ \E p \in Members : Chats!React(p) PROVE Others
  BY <1>1 DEF Chats!CloseOrReopen, Chats!React
<1>2. CASE Chats!ClosePoll
  BY <1>a, <1>2 DEF Chats!ClosePoll, Chats!Alternate
<1>3. ASSUME NEW c \in Callers, Chats!Chat(c) \/ Chats!Draw(c) \/ Chats!Clear(c) PROVE Others
  BY <1>3 DEF Chats!Chat, Chats!Draw, Chats!Clear
<1>4. ASSUME NEW c \in Callers,
             Chats!Posted(c) \/ Chats!PictureFails(c) \/ Chats!Voted(c) \/ Chats!Drawn(c) \/ Chats!Cleared(c)
      PROVE  Others
  BY <1>4 DEF Chats!Posted, Chats!PictureFails, Chats!Voted, Chats!Drawn, Chats!Cleared
<1>5. ASSUME NEW c \in Callers, NEW p \in Members, NEW o \in Chats!Options, Chats!Vote(c, p, o) PROVE Others
  BY <1>5 DEF Chats!Vote
<1>6. ASSUME NEW c \in Callers, Chats!Count(c) PROVE Others
  <2>1. s8[c] = [at |-> "count"]  BY <1>6 DEF Chats!Count
  <2>2. [s8[c] EXCEPT !.at = "stroke"] = [at |-> "stroke"]  BY <2>1
  <2> QED  BY <1>6, <2>2 DEF Chats!Count
<1>7. ASSUME NEW c \in Callers, NEW p \in Members, Chats!Press(c, p) PROVE Chats!Alternate(q)'
  <2>1. /\ s8[c].at = "idle" /\ s8' = [s8 EXCEPT ![c] = [at |-> IF p \in s3 THEN "remove" ELSE "add", who |-> p]]
        /\ s11' = [s11 EXCEPT ![p] = @ + 1] /\ s3' = s3
        /\ s10' = IF \E d \in Callers : Chats!Presses(d, p) THEN s10 \cup {p} ELSE s10
    BY <1>7 DEF Chats!Press
  <2>2. CASE q \in s10'  BY <2>2 DEF Chats!Alternate
  <2>3. CASE q \notin s10' /\ q # p
    <3>1. s11'[q] = s11[q] /\ q \notin s10  BY <2>1, <2>3
    <3>2. \A d \in Callers : /\ Chats!Presses(d, q)' <=> Chats!Presses(d, q)
                            /\ Chats!Presses(d, q) => s8'[d] = s8[d]
      BY <2>1, <2>3
    <3> QED  BY <1>a, <2>1, <3>1, <3>2 DEF Chats!Alternate
  <2>4. CASE q \notin s10' /\ q = p
    <3>1. q \notin s10 /\ \A d \in Callers : ~Chats!Presses(d, q)  BY <2>1, <2>4
    <3>2. q \in s3 <=> s11[q] % 2 = 1  BY <1>a, <3>1 DEF Chats!Alternate
    <3>3. q \in s3 <=> s11'[q] % 2 = 0  BY <2>1, <2>4, <3>2, Parity
    <3>4. \A d \in Callers : Chats!Presses(d, q)' => d = c  BY <2>1, <3>1
    <3>5. Chats!Presses(c, q)' /\ (s8'[c].at = "add" <=> q \notin s3')  BY <2>1, <2>4
    <3> QED  BY <2>1, <3>3, <3>4, <3>5 DEF Chats!Alternate
  <2> QED  BY <2>2, <2>3, <2>4
<1>8. ASSUME NEW c \in Callers, Chats!Toggled(c) PROVE Chats!Alternate(q)'
  <2>1. /\ s8[c] \in [at : {"add", "remove"}, who : Members] /\ s8' = [s8 EXCEPT ![c] = [at |-> "idle"]]
        /\ s3' = IF s8[c].at = "add" THEN s3 \cup {s8[c].who} ELSE s3 \ {s8[c].who}
        /\ UNCHANGED <<s10, s11>>
    BY <1>8 DEF Chats!Toggled
  <2>2. CASE q \in s10  BY <2>1, <2>2 DEF Chats!Alternate
  <2>3. CASE q \notin s10 /\ q # s8[c].who
    <3>1. q \in s3' <=> q \in s3  BY <2>1, <2>3
    <3>2. \A d \in Callers : /\ Chats!Presses(d, q)' <=> Chats!Presses(d, q)
                            /\ Chats!Presses(d, q) => s8'[d] = s8[d]
      BY <2>1, <2>3
    <3> QED  BY <1>a, <2>1, <3>1, <3>2 DEF Chats!Alternate
  <2>4. CASE q \notin s10 /\ q = s8[c].who
    <3>1. Chats!Presses(c, q)  BY <2>1, <2>4
    <3>2. /\ s8[c].at = "add" <=> q \notin s3
          /\ q \in s3 <=> s11[q] % 2 = 0
          /\ \A d \in Callers : Chats!Presses(d, q) => d = c
      BY <1>a, <2>4, <3>1 DEF Chats!Alternate
    <3>3. q \in s3' <=> s11[q] % 2 = 1  BY <2>1, <2>4, <3>2, Parity
    <3>4. \A d \in Callers : ~Chats!Presses(d, q)'  BY <2>1, <3>2
    <3> QED  BY <2>1, <3>3, <3>4 DEF Chats!Alternate
  <2> QED  BY <2>1, <2>2, <2>3, <2>4
<1> QED  BY <1>b, <1>1, <1>2, <1>3, <1>4, <1>5, <1>6, <1>7, <1>8 DEF Chats!Next

\* Pictures: a request holds a file until the message that names it is there or the file is removed.
LEMMA PicturesWrittenStep ==
  ASSUME Chats!TalkTypes, Chats!PicturesWritten, Chats!Next PROVE Chats!PicturesWritten'
<1> DEFINE Held(f) == {c \in Callers : f[c].at = "picture"}
<1>0. /\ Chats!Sending = Held(s8) /\ Chats!Sending' = Held(s8')
      /\ s5.named + Cardinality(Held(s8)) <= s5.files
  BY TalkCardinality DEF Chats!PicturesWritten, Chats!Sending
<1>c. ASSUME s5'.named + Cardinality(Held(s8')) <= s5'.files PROVE Chats!PicturesWritten'
  BY <1>0, <1>c, TalkCardinality DEF Chats!PicturesWritten
<1>a. IsFiniteSet(Held(s8)) /\ Cardinality(Held(s8)) \in Nat
  BY CallersAssumption, FS_Subset, FS_CardinalityType
<1>b. s5.named \in Nat /\ s5.files \in Nat  BY DEF Chats!TalkTypes
<1>1. CASE s5' = s5 /\ Held(s8') = Held(s8)  BY <1>0, <1>1, <1>c
<1>2. ASSUME NEW c \in Callers, Chats!Chat(c), s5' # s5 \/ Held(s8') # Held(s8) PROVE Chats!PicturesWritten'
  <2>1. /\ Held(s8') = Held(s8) \cup {c} /\ c \notin Held(s8)
        /\ s5'.named = s5.named /\ s5'.files = s5.files + 1
    BY <1>2 DEF Chats!Chat, Chats!Begins, Chats!Idle, Chats!TalkTypes
  <2>2. Cardinality(Held(s8')) = Cardinality(Held(s8)) + 1  BY <1>a, <2>1, FS_AddElement
  <2> HIDE DEF Held
  <2> QED  BY <1>0, <1>a, <1>b, <1>c, <2>1, <2>2
<1>3. ASSUME NEW c \in Callers, Chats!Posted(c) \/ Chats!PictureFails(c), s5' # s5 \/ Held(s8') # Held(s8) PROVE Chats!PicturesWritten'
  <2>1. /\ Held(s8') = Held(s8) \ {c} /\ c \in Held(s8)
        /\ \/ s5'.named = s5.named + 1 /\ s5'.files = s5.files
           \/ s5'.named = s5.named /\ s5'.files \in {s5.files - 1, s5.files}
    BY <1>3 DEF Chats!Posted, Chats!PictureFails, Chats!Ends, Chats!Idle, Chats!TalkTypes
  <2>2. Cardinality(Held(s8')) = Cardinality(Held(s8)) - 1 /\ Cardinality(Held(s8')) \in Nat
    BY <1>a, <2>1, FS_RemoveElement, FS_CardinalityType
  <2> HIDE DEF Held
  <2> QED  BY <1>0, <1>a, <1>b, <1>c, <2>1, <2>2
<1>4. ASSUME NEW c \in Callers,
             Chats!Voted(c) \/ Chats!Toggled(c) \/ Chats!Drawn(c) \/ Chats!Cleared(c) \/ Chats!Draw(c) \/ Chats!Clear(c)
      PROVE  s5' = s5 /\ Held(s8') = Held(s8)
  BY <1>4 DEF Chats!Voted, Chats!Toggled, Chats!Drawn, Chats!Cleared, Chats!Draw, Chats!Clear, Chats!Begins, Chats!Ends, Chats!Idle, Chats!TalkTypes
<1>5. ASSUME NEW c \in Callers, Chats!Count(c) PROVE s5' = s5 /\ Held(s8') = Held(s8)
  <2>1. s8[c] = [at |-> "count"]
    BY <1>5 DEF Chats!Count, Chats!Idle, Chats!TalkTypes, Chats!Requests
  <2>2. [s8[c] EXCEPT !.at = "stroke"] = [at |-> "stroke"]  BY <2>1
  <2>3. s5' = s5 /\ (s8' = [s8 EXCEPT ![c] = [at |-> "idle"]] \/ s8' = [s8 EXCEPT ![c] = [at |-> "stroke"]])
    BY <1>5, <2>2 DEF Chats!Count, Chats!Ends, Chats!Idle
  <2> QED  BY <2>1, <2>3 DEF Chats!TalkTypes
<1>6. ASSUME NEW c \in Callers, NEW p \in Members, Chats!Press(c, p) \/ \E o \in Chats!Options : Chats!Vote(c, p, o)
      PROVE  s5' = s5 /\ Held(s8') = Held(s8)
  BY <1>6 DEF Chats!Press, Chats!Vote, Chats!Begins, Chats!Idle, Chats!TalkTypes
<1>7. CASE Chats!CloseOrReopen \/ Chats!ClosePoll \/ \E p \in Members : Chats!React(p)
  BY <1>1, <1>7 DEF Chats!CloseOrReopen, Chats!ClosePoll, Chats!React
<1> QED  BY <1>1, <1>2, <1>3, <1>4, <1>5, <1>6, <1>7 DEF Chats!Next

LEMMA TalkStep == Chats!TalkHolds /\ [Chats!Next]_(Chats!vars) => Chats!TalkHolds'
<1> SUFFICES ASSUME Chats!TalkHolds, [Chats!Next]_(Chats!vars) PROVE Chats!TalkHolds'  OBVIOUS
<1>1. CASE Chats!Next
  BY <1>1, TalkTypesStep, VotesInStep, MarkedFullStep, PressesAlternateStep, PicturesWrittenStep
     DEF Chats!TalkHolds
<1>2. CASE UNCHANGED Chats!vars
  <2>1. UNCHANGED <<s2, s3, s5, s6, s7, s8, s9, s10, s11, s12>>  BY <1>2 DEF Chats!vars
  <2>2. Chats!TalkTypes'  BY <2>1 DEF Chats!TalkHolds, Chats!TalkTypes, Chats!Requests, Chats!Idle, Chats!Options
  <2>3. Chats!VotesIn'  BY <2>1 DEF Chats!TalkHolds, Chats!VotesIn, Chats!UnderWay
  <2>4. Chats!MarkedFull'
    BY <2>1 DEF Chats!TalkHolds, Chats!MarkedFull, Chats!Clearing, Chats!UnderWay
  <2>5. Chats!PressesAlternate'
    BY <2>1 DEF Chats!TalkHolds, Chats!PressesAlternate, Chats!Alternate, Chats!Presses
  <2>6. Chats!PicturesWritten'
    <3>1. Chats!Sending' = Chats!Sending  BY <2>1 DEF Chats!Sending
    <3> QED  BY <2>1, <3>1, TalkCardinality DEF Chats!TalkHolds, Chats!PicturesWritten
  <2> QED  BY <2>2, <2>3, <2>4, <2>5, <2>6 DEF Chats!TalkHolds
<1> QED  BY <1>1, <1>2

\* What the behaviours of Talk are checked for follows.
LEMMA KeptTalk == Chats!TalkHolds => Chats!TalkKept
<1> SUFFICES ASSUME Chats!TalkHolds PROVE Chats!TalkKept  OBVIOUS
<1>1. Chats!ClosedPollStands  BY DEF Chats!TalkHolds, Chats!VotesIn, Chats!ClosedPollStands
<1>2. Chats!BoardFresh  BY DEF Chats!TalkHolds, Chats!MarkedFull, Chats!BoardFresh
<1>3. Chats!PressesCount
  BY DEF Chats!TalkHolds, Chats!PressesAlternate, Chats!Alternate, Chats!PressesCount
<1>4. Chats!PicturesThere
  <2>1. Chats!Sending \subseteq Callers  BY DEF Chats!Sending
  <2>2. Cardinality(Chats!Sending) \in Nat
    BY <2>1, CallersAssumption, FS_Subset, FS_CardinalityType
  <2>3. s5.named + Cardinality(Chats!Sending) <= s5.files /\ s5.named \in Nat /\ s5.files \in Nat
    BY TalkCardinality DEF Chats!TalkHolds, Chats!PicturesWritten, Chats!TalkTypes
  <2> HIDE DEF Chats!Sending
  <2> QED  BY <2>2, <2>3 DEF Chats!PicturesThere
<1> QED  BY <1>1, <1>2, <1>3, <1>4 DEF Chats!TalkKept

-----------------------------------------------------------------------------
(* The broadcasts of a meeting.  One that is open is the row's, excused, or *)
(* the one that the rotation under way has just replaced.                   *)
LEMMA TubeInit == Tube!Init => Tube!BroadcastsHold
  BY DEF Tube!Init, Tube!BroadcastsHold, Tube!TubeTypes, Tube!OpenKnown, Tube!None

LEMMA TubeTypesStep == Tube!TubeTypes /\ [Tube!Next]_(Tube!vars) => Tube!TubeTypes'
<1> SUFFICES ASSUME Tube!TubeTypes, [Tube!Next]_(Tube!vars) PROVE Tube!TubeTypes'
  OBVIOUS
<1> USE DEF Tube!TubeTypes, Tube!Waits, Tube!Ends
<1>1. CASE Tube!StartStream \/ Tube!SaveSettings
  BY <1>1 DEF Tube!StartStream, Tube!SaveSettings
<1>2. ASSUME NEW t \in Tube!Tasks, Tube!SetUp(t) PROVE Tube!TubeTypes'
  <2>1. DOMAIN s1' = DOMAIN s1 /\ DOMAIN s4' = DOMAIN s4
    BY <1>2 DEF Tube!SetUp, Tube!After
  <2>2. UNCHANGED s2 \/ \E b \in Tube!Broadcasts : Tube!Creates(b, Tube!Seen(t).account)
    BY <1>2 DEF Tube!SetUp
  <2> QED  BY <2>1, <2>2 DEF Tube!Creates
<1>3. ASSUME NEW t \in Tube!Tasks, Tube!SetUpFails(t) PROVE Tube!TubeTypes'
  <2>1. DOMAIN s1' = DOMAIN s1 /\ DOMAIN s4' = DOMAIN s4
    BY <1>3 DEF Tube!SetUpFails, Tube!After
  <2>2. UNCHANGED s2 \/ \E b \in Tube!Broadcasts : Tube!Creates(b, Tube!Seen(t).account)
    BY <1>3 DEF Tube!SetUpFails, Tube!Leaves
  <2> QED  BY <2>1, <2>2 DEF Tube!Creates
<1>4. ASSUME NEW t \in Tube!Tasks, Tube!Complete(t) PROVE Tube!TubeTypes'
  BY <1>4 DEF Tube!Complete, Tube!Completes
<1>5. CASE Tube!Rotate  BY <1>5 DEF Tube!Rotate, Tube!Creates
<1>6. CASE Tube!RotateFails  BY <1>6 DEF Tube!RotateFails, Tube!Leaves, Tube!Creates
<1>7. CASE Tube!Retire  BY <1>7 DEF Tube!Retire, Tube!Completes
<1>8. CASE Tube!Connect \/ Tube!Disconnected
  BY <1>8 DEF Tube!Connect, Tube!Disconnected, Tube!Forgets
<1>9. CASE Tube!Tick \/ Tube!Callback \/ Tube!Disconnect \/ Tube!StopStream
  BY <1>9 DEF Tube!Tick, Tube!Callback, Tube!Disconnect, Tube!StopStream
<1>10. CASE \/ Tube!StartEgress \/ Tube!StartEgressFails \/ Tube!EgressEnds \/ Tube!Age
            \/ Tube!ConnectFails \/ UNCHANGED Tube!vars
  BY <1>10 DEF Tube!StartEgress, Tube!StartEgressFails, Tube!EgressEnds, Tube!Age, Tube!ConnectFails,
     Tube!vars
<1> HIDE DEF Tube!TubeTypes
<1> QED
  BY <1>1, <1>2, <1>3, <1>4, <1>5, <1>6, <1>7, <1>8, <1>9, <1>10 DEF Tube!Next, Tube!Tasks

LEMMA BroadcastsStep == Tube!BroadcastsHold /\ [Tube!Next]_(Tube!vars) => Tube!BroadcastsHold'
<1> SUFFICES ASSUME Tube!TubeTypes, Tube!OpenKnown, [Tube!Next]_(Tube!vars)
             PROVE  Tube!OpenKnown'
  BY TubeTypesStep DEF Tube!BroadcastsHold
<1>0. \A b \in Tube!Broadcasts : b # Tube!None  BY DEF Tube!Broadcasts, Tube!None
<1>t. /\ DOMAIN s4 = Tube!Tasks /\ "tick" \in Tube!Tasks
      /\ DOMAIN s1 = {"account", "ingest", "bc", "old", "egress"}
      /\ DOMAIN s2 = Tube!Broadcasts
      /\ \A b \in Tube!Broadcasts : DOMAIN s2[b] = {"state", "of"}
  BY DEF Tube!TubeTypes, Tube!Tasks, Tube!Empty
<1> USE DEF Tube!OpenKnown, Tube!Replaced, Tube!Seen
<1>a. ASSUME NEW t, t # "tick", NEW step, NEW seen, Tube!Waits(t, step, seen) \/ Tube!Ends(t)
      PROVE  s4'["tick"] = s4["tick"]
  BY <1>a, <1>t DEF Tube!Waits, Tube!Ends
<1>b. ASSUME NEW t, NEW leaks, Tube!Leaves(t, leaks), NEW b \in Tube!Broadcasts, s2'[b].state = "open"
      PROVE  (s2[b].state = "open" /\ (b \in s5 => b \in s5')) \/ b \in s5'
  BY <1>b, <1>t DEF Tube!Leaves, Tube!Creates
<1>c. ASSUME NEW b, NEW account, NEW unnamed, Tube!Completes(b, account, unnamed),
             NEW c \in Tube!Broadcasts, s2'[c].state = "open"
      PROVE  /\ s2[c].state = "open" /\ (c \in s5 => c \in s5')
             /\ c \in unnamed => c \in s5'
             /\ c = b => c \in s5'
  BY <1>c, <1>t DEF Tube!Completes
<1>d. ASSUME NEW t, NEW account, Tube!Forgets(t, account)
      PROVE  s5 \subseteq s5' /\ (s1'.bc = s1.bc \/ s1.bc = Tube!None \/ s1.bc \in s5')
  BY <1>d, <1>t DEF Tube!Forgets
<1>1. CASE Tube!StartStream \/ Tube!SaveSettings
  <2>1. s1'.bc = s1.bc /\ s2' = s2 /\ s5' = s5
    BY <1>1, <1>t DEF Tube!StartStream, Tube!SaveSettings
  <2>2. s4'["tick"] = s4["tick"]
    BY <1>1, <1>a DEF Tube!StartStream, Tube!SaveSettings
  <2> QED  BY <2>1, <2>2
<1>2. ASSUME NEW t \in {"start", "save"}, Tube!SetUp(t) PROVE Tube!OpenKnown'
  <2>1. s4'["tick"] = s4["tick"]  BY <1>2, <1>a DEF Tube!SetUp, Tube!After
  <2>2. CASE s1'.bc = s1.bc /\ s2' = s2 /\ s5' = s5  BY <2>1, <2>2
  <2>3. ASSUME NEW c \in Tube!Broadcasts, Tube!Creates(c, Tube!Seen(t).account), s1'.bc = c,
               s5' = s5 \cup Tube!Overwrites(t), Tube!Seen(t).bc = Tube!None
        PROVE  Tube!OpenKnown'
    BY <2>1, <2>3, <1>t, <1>0 DEF Tube!Creates, Tube!Overwrites
  <2> QED  BY <1>2, <1>t, <2>2, <2>3 DEF Tube!SetUp
<1>3. ASSUME NEW t \in {"start", "save"}, Tube!SetUpFails(t) PROVE Tube!OpenKnown'
  <2>1. s4'["tick"] = s4["tick"]  BY <1>3, <1>a DEF Tube!SetUpFails, Tube!After
  <2>2. s1'.bc = s1.bc  BY <1>3, <1>t DEF Tube!SetUpFails
  <2>3. \E leaks \in BOOLEAN : Tube!Leaves(t, leaks)  BY <1>3 DEF Tube!SetUpFails
  <2> QED  BY <2>1, <2>2, <2>3, <1>b
<1>4. ASSUME NEW t \in {"stop", "tick"}, Tube!Complete(t) PROVE Tube!OpenKnown'
  <2>1. /\ s4[t].step = "complete" /\ s1'.bc = Tube!None
        /\ Tube!Completes(Tube!Seen(t).bc, Tube!Seen(t).account, Tube!Overwrites(t))
    BY <1>4, <1>t DEF Tube!Complete
  <2>2. t = "tick" \/ s4'["tick"] = s4["tick"]  BY <1>4, <1>a DEF Tube!Complete
  <2>3. ASSUME NEW b \in Tube!Broadcasts, s2'[b].state = "open" PROVE b \in s5' \/ Tube!Replaced(b)'
    <3>1. s2[b].state = "open" /\ (b \in s5 => b \in s5')  BY <2>1, <2>3, <1>c
    <3>2. CASE b = s1.bc
      <4>1. b \in Tube!Overwrites(t) \/ b = Tube!Seen(t).bc  BY <3>2, <1>0 DEF Tube!Overwrites
      <4> QED  BY <4>1, <2>1, <2>3, <1>c
    <3>3. CASE Tube!Replaced(b)  BY <3>3, <2>1, <2>2
    <3> QED  BY <3>1, <3>2, <3>3
  <2> QED  BY <2>3
<1>5. CASE Tube!Rotate
  <2>1. PICK c \in Tube!Broadcasts : Tube!Creates(c, Tube!Seen("tick").account) /\ s1'.bc = c
    BY <1>5, <1>t DEF Tube!Rotate
  <2>2. /\ s5' = s5 \cup Tube!Overwrites("tick") /\ s4["tick"].step = "rotate"
        /\ s4'["tick"].step = "retire" /\ s4'["tick"].seen = s4["tick"].seen
    BY <1>5, <1>t DEF Tube!Rotate, Tube!Waits
  <2>3. ASSUME NEW b \in Tube!Broadcasts, s2'[b].state = "open"
        PROVE  b = s1'.bc \/ b \in s5' \/ b = s4["tick"].seen.bc
    <3>1. b = c \/ s2[b].state = "open"  BY <2>1, <2>3, <1>t DEF Tube!Creates
    <3>2. b = s1.bc => b = s4["tick"].seen.bc \/ b \in s5'  BY <2>2, <1>0 DEF Tube!Overwrites
    <3>3. s2[b].state = "open" => b = s1.bc \/ b \in s5  BY <2>2
    <3> QED  BY <2>1, <2>2, <3>1, <3>2, <3>3
  <2> QED  BY <2>2, <2>3
<1>6. CASE Tube!RotateFails
  <2>1. s1' = s1 /\ s4["tick"].step = "rotate"  BY <1>6 DEF Tube!RotateFails
  <2>2. \E leaks \in BOOLEAN : Tube!Leaves("tick", leaks)  BY <1>6 DEF Tube!RotateFails
  <2> QED  BY <2>1, <2>2, <1>b
<1>7. CASE Tube!Retire
  <2>1. s1' = s1 /\ Tube!Completes(Tube!Retired, Tube!Seen("tick").account, {})
    BY <1>7 DEF Tube!Retire
  <2> QED  BY <2>1, <1>c DEF Tube!Retired
<1>8. CASE Tube!Connect \/ Tube!Disconnected
  <2>1. s2' = s2 /\ \E account : Tube!Forgets("oauth", account)
    BY <1>8 DEF Tube!Connect, Tube!Disconnected
  <2>2. s4'["tick"] = s4["tick"]  BY <1>8, <1>a DEF Tube!Connect, Tube!Disconnected
  <2> QED  BY <2>1, <2>2, <1>d, <1>0
<1>9. CASE Tube!Tick
  <2>1. UNCHANGED <<s1, s2, s5>> /\ s4["tick"].step = "idle"
    BY <1>9 DEF Tube!Tick, Tube!Idle
  <2> QED  BY <2>1
<1>10. CASE Tube!Callback \/ Tube!Disconnect \/ Tube!StopStream
  <2>1. s1'.bc = s1.bc /\ s2' = s2 /\ s5' = s5
    BY <1>10, <1>t DEF Tube!Callback, Tube!Disconnect, Tube!StopStream
  <2>2. s4'["tick"] = s4["tick"]
    BY <1>10, <1>a DEF Tube!Callback, Tube!Disconnect, Tube!StopStream
  <2> QED  BY <2>1, <2>2
<1>11. CASE Tube!StartEgress \/ Tube!StartEgressFails \/ Tube!ConnectFails
  <2>1. s1'.bc = s1.bc /\ s2' = s2 /\ s5' = s5
    BY <1>11, <1>t DEF Tube!StartEgress, Tube!StartEgressFails, Tube!ConnectFails
  <2>2. s4'["tick"] = s4["tick"]
    BY <1>11, <1>a DEF Tube!StartEgress, Tube!StartEgressFails, Tube!ConnectFails
  <2> QED  BY <2>1, <2>2
<1>12. CASE Tube!EgressEnds \/ Tube!Age \/ UNCHANGED Tube!vars
  BY <1>12, <1>t DEF Tube!EgressEnds, Tube!Age, Tube!vars
<1> HIDE DEF Tube!OpenKnown
<1> QED
  BY <1>1, <1>2, <1>3, <1>4, <1>5, <1>6, <1>7, <1>8, <1>9, <1>10, <1>11, <1>12 DEF Tube!Next

\* When nothing is under way, no rotation is.
LEMMA OpenNamed == Tube!BroadcastsHold => Tube!BroadcastsEnd
  BY DEF Tube!BroadcastsHold, Tube!OpenKnown, Tube!Replaced, Tube!BroadcastsEnd, Tube!Tasks, Tube!Idle

-----------------------------------------------------------------------------
(* The agent in the room.                                                   *)
LEMMA ScribeInit == Agent!Init => Agent!ScribeHolds
<1> SUFFICES ASSUME Agent!Init PROVE Agent!ScribeHolds
  OBVIOUS
<1>1. 0 \notin Agent!Objects /\ 0 \notin Agent!Conns  BY DEF Agent!Objects, Agent!Conns
<1> USE DEF Agent!Init, Agent!NoObject, Agent!NoConn
<1>2. Agent!ScribeTypes  BY DEF Agent!ScribeTypes
<1>3. \A o \in Agent!Objects : Agent!ObjectHolds(o) /\ Agent!Registered(o)
  BY <1>1 DEF Agent!ObjectHolds, Agent!Registered
<1>4. \A k \in Agent!Conns : Agent!ConnHolds(k)
  BY <1>1 DEF Agent!ConnHolds, Agent!Again, Agent!Starting
<1>5. Agent!OneTalks /\ Agent!OneStarts /\ Agent!NoGhost /\ Agent!OfflineIsLast
  BY DEF Agent!OneTalks, Agent!OneStarts, Agent!Starting, Agent!NoGhost, Agent!OfflineIsLast
<1> QED  BY <1>2, <1>3, <1>4, <1>5 DEF Agent!ScribeHolds

LEMMA ScribeTypesStep == Agent!ScribeTypes /\ [Agent!Next]_(Agent!vars) => Agent!ScribeTypes'
<1> SUFFICES ASSUME Agent!ScribeTypes, [Agent!Next]_(Agent!vars) PROVE Agent!ScribeTypes'
  OBVIOUS
<1> USE DEF Agent!ScribeTypes
<1>1. CASE Agent!Start  BY <1>1 DEF Agent!Start, Agent!Connects, Agent!NoConn
<1>2. ASSUME NEW k \in Agent!Conns, Agent!Joined(k) PROVE Agent!ScribeTypes'
  <2>1. CASE Agent!ConnectedTo(s4[k].of, k)
    <3>1. DOMAIN s4' = Agent!Conns /\ \A j \in Agent!Conns : DOMAIN s4'[j] = DOMAIN s4[j]
      BY <2>1 DEF Agent!ConnectedTo, Agent!In
    <3> QED  BY <1>2, <2>1, <3>1 DEF Agent!Joined, Agent!ConnectedTo
  <2>2. CASE Agent!LeftAgain(s4[k].of, k)
    BY <1>2, <2>2 DEF Agent!Joined, Agent!LeftAgain, Agent!Out
  <2> QED  BY <1>2, <2>1, <2>2 DEF Agent!Joined
<1>3. ASSUME NEW k \in Agent!Conns, Agent!JoinFails(k) PROVE Agent!ScribeTypes'
  <2>1. s4' = Agent!Out(k) /\ s2' \in {0, s2}
    BY <1>3 DEF Agent!JoinFails, Agent!NotStarted
  <2>2. s3' = s3 \/ Agent!NotStarted(s4[k].of) \/ s3' = [s3 EXCEPT ![s4[k].of].again = "token"]
    BY <1>3 DEF Agent!JoinFails
  <2> QED  BY <2>1, <2>2 DEF Agent!Out, Agent!NotStarted
<1>4. ASSUME NEW k \in Agent!Conns, Agent!JoinsAbandoned(k) \/ Agent!LeaveAbandoned(k) \/ Agent!Drops(k)
      PROVE  Agent!ScribeTypes'
  <2>1. UNCHANGED <<s2, s3>> /\ (s4' = Agent!Out(k) \/ s4' = Agent!In(k, s4[k].waits))
    BY <1>4 DEF Agent!JoinsAbandoned, Agent!LeaveAbandoned, Agent!Drops
  <2>2. DOMAIN s4' = Agent!Conns /\ \A j \in Agent!Conns : DOMAIN s4'[j] = DOMAIN s4[j]
    BY <2>1 DEF Agent!Out, Agent!In
  <2> QED  BY <2>1, <2>2
<1>5. ASSUME NEW o \in Agent!Objects, Agent!StartTimesOut(o) PROVE Agent!ScribeTypes'
  BY <1>5 DEF Agent!StartTimesOut, Agent!NotStarted
<1>6. ASSUME NEW o \in Agent!Objects, Agent!Token(o) PROVE Agent!ScribeTypes'
  BY <1>6 DEF Agent!Token, Agent!Connects, Agent!NoConn
<1>7. ASSUME NEW o \in Agent!Objects, Agent!EndsWithoutPass(o) \/ Agent!DeleteSession(o) \/ Agent!Reap(o)
      PROVE  Agent!ScribeTypes'
  BY <1>7 DEF Agent!EndsWithoutPass, Agent!DeleteSession, Agent!Reap, Agent!Retire
<1>8. ASSUME NEW o \in Agent!Objects, Agent!FinalPass(o) \/ Agent!CloseStops(o) PROVE Agent!ScribeTypes'
  <2>1. s2' = s2 /\ (s4' = s4 \/ s4' = Agent!Out(s3[o].room))
    BY <1>8 DEF Agent!FinalPass, Agent!CloseStops, Agent!LeavesRoom
  <2>2. DOMAIN s3' = DOMAIN s3 /\ \A p \in Agent!Objects : DOMAIN s3'[p] = DOMAIN s3[p]
    BY <1>8 DEF Agent!FinalPass, Agent!CloseStops, Agent!LeavesRoom
  <2> QED  BY <2>1, <2>2 DEF Agent!Out
<1>9. ASSUME NEW o \in Agent!Objects, Agent!CloseEnds(o) PROVE Agent!ScribeTypes'
  <2>1. s2' = s2 /\ DOMAIN s4' = Agent!Conns /\ \A k \in Agent!Conns : DOMAIN s4'[k] = DOMAIN s4[k]
    BY <1>9 DEF Agent!CloseEnds
  <2>2. DOMAIN s3' = DOMAIN s3 /\ \A p \in Agent!Objects : DOMAIN s3'[p] = DOMAIN s3[p]
    BY <1>9 DEF Agent!CloseEnds
  <2> QED  BY <2>1, <2>2
<1>10. ASSUME NEW o \in Agent!Objects,
              Agent!Disconnected(o) \/ Agent!Finalize(o) \/ Agent!SetFinal(o) \/ Agent!PostStatus(o) \/ Agent!AgentStatus(o)
       PROVE  Agent!ScribeTypes'
  BY <1>10 DEF Agent!Disconnected, Agent!Finalize, Agent!SetFinal, Agent!PostStatus, Agent!AgentStatus
<1>11. CASE Agent!NothingToFinalize \/ Agent!Review \/ UNCHANGED Agent!vars
  BY <1>11 DEF Agent!NothingToFinalize, Agent!Review, Agent!vars
<1> HIDE DEF Agent!ScribeTypes
<1> QED
  BY <1>1, <1>2, <1>3, <1>4, <1>5, <1>6, <1>7, <1>8, <1>9, <1>10, <1>11 DEF Agent!Next

(* A step in two parts: what becomes of each connection, and of the object  *)
(* the step is about.  Most steps are quiet: they make no connection that   *)
(* starts an object, and put nobody into the room who stays there.          *)
LEMMA ScribeStep == Agent!ScribeHolds /\ [Agent!Next]_(Agent!vars) => Agent!ScribeHolds'
<1> DEFINE Inv == /\ \A o \in Agent!Objects : Agent!ObjectHolds(o) /\ Agent!Registered(o)
                  /\ \A k \in Agent!Conns : Agent!ConnHolds(k)
                  /\ Agent!OneTalks /\ Agent!OneStarts /\ Agent!NoGhost /\ Agent!OfflineIsLast
<1> SUFFICES ASSUME Agent!ScribeTypes, Inv, [Agent!Next]_(Agent!vars) PROVE Inv'
  BY ScribeTypesStep DEF Agent!ScribeHolds
<1>z. 0 \notin Agent!Objects /\ 0 \notin Agent!Conns  BY DEF Agent!Objects, Agent!Conns
<1>t. /\ DOMAIN s3 = Agent!Objects /\ DOMAIN s4 = Agent!Conns
      /\ \A o \in Agent!Objects : DOMAIN s3[o] =
           {"at", "talks", "stopped", "room", "again", "gaveUp", "final", "posting", "frozen"}
      /\ \A k \in Agent!Conns : DOMAIN s4[k] = {"of", "st", "waits"}
  BY DEF Agent!ScribeTypes, Agent!NoObject, Agent!NoConn
<1>i. Inv  OBVIOUS
<1>o. ASSUME NEW o \in Agent!Objects PROVE Agent!ObjectHolds(o) /\ Agent!Registered(o)
  BY <1>i
<1>k. ASSUME NEW k \in Agent!Conns PROVE Agent!ConnHolds(k)
  BY <1>i
<1>s. Agent!OneTalks /\ Agent!OneStarts /\ Agent!NoGhost /\ Agent!OfflineIsLast
  BY <1>i
<1>h. ASSUME \A o \in Agent!Objects : Agent!ObjectHolds(o)' /\ Agent!Registered(o)',
             \A k \in Agent!Conns : Agent!ConnHolds(k)',
             Agent!OneTalks', Agent!OneStarts', Agent!NoGhost', Agent!OfflineIsLast'
      PROVE  Inv'
  BY <1>h
<1> HIDE DEF Inv
<1> DEFINE ObjectsQuiet == \A p \in Agent!Objects :
             /\ s3'[p].talks <=> s3[p].talks
             /\ s3[p].at # "none" => s3'[p].at # "none"
             /\ s3'[p].at = "up" => s3[p].at = "up" \/ \A j \in Agent!Conns : Agent!Starting(j)' => s4[j].of # p
             /\ s3'[p].room \in {s3[p].room, 0}
           ConnsQuiet == \A j \in Agent!Conns :
             \/ /\ s4'[j].of = s4[j].of
                /\ s4'[j].st = "none" <=> s4[j].st = "none"
                /\ s4'[j].st = "joining" => /\ s4[j].st = "joining"
                                            /\ s4'[j].waits = s4[j].waits \/ s4'[j].waits = "abandoned"
             \/ /\ s4'[j].st = "joining" /\ s4'[j].waits = "reconnect"
                /\ s4'[j].of \in Agent!Objects /\ s3[s4'[j].of].talks
           Stays(j) ==
             /\ s4[j].st = "in" /\ s4[j].waits # "abandoned" /\ s4'[j].of = s4[j].of
             /\ s3'[s4[j].of].room = s3[s4[j].of].room
             /\ s2 = s4[j].of => s2' = s2 \/ s3'[s4[j].of].at = "closing"
             /\ s3[s4[j].of].at = "closing" => s3'[s4[j].of].at = "closing"
           RoomsQuiet == \A j \in Agent!Conns : s4'[j].st = "in" /\ s4'[j].waits # "abandoned" => Stays(j)
           Quiet ==
             /\ ObjectsQuiet /\ ConnsQuiet /\ RoomsQuiet
             /\ s1' = s1 \/ s1' # "live"
             /\ \/ s2' = s2
                \/ s2' = 0 /\ (s1' # "live" \/ \A j \in Agent!Conns : ~Agent!Starting(j)')
<1>q. ASSUME Quiet
      PROVE  (\A k \in Agent!Conns : Agent!ConnHolds(k)') /\ Agent!OneTalks' /\ Agent!OneStarts' /\ Agent!NoGhost'
  <2> USE DEF Agent!Starting, Agent!Again
  <2>1. ASSUME NEW k \in Agent!Conns, s4'[k].of = s4[k].of, s4'[k].st = "none" <=> s4[k].st = "none",
               s4'[k].st = "joining" => /\ s4[k].st = "joining"
                                        /\ s4'[k].waits = s4[k].waits \/ s4'[k].waits = "abandoned"
        PROVE  Agent!ConnHolds(k)'
    <3>1. Agent!ConnHolds(k)  BY <1>k
    <3>2. s4'[k].st # "none" => s4'[k].of \in Agent!Objects /\ s3'[s4'[k].of].at # "none"
      BY <1>q, <2>1, <3>1 DEF Agent!ConnHolds
    <3>3. s4'[k].st = "none" => \A o \in Agent!Objects : s3'[o].room # k
      BY <1>q, <1>z, <2>1, <3>1 DEF Agent!ConnHolds
    <3>4. s4'[k].st = "joining" => s4'[k].waits # "nobody"
      BY <2>1, <3>1 DEF Agent!ConnHolds
    <3>5. Agent!Again(k)' => s3'[s4'[k].of].talks
      BY <1>q, <2>1, <3>1 DEF Agent!ConnHolds
    <3>6. ASSUME Agent!Starting(k)'
          PROVE  /\ s3'[s4'[k].of].at # "up"
                 /\ s2' = s4'[k].of \/ (s2' = 0 /\ s1' # "live")
                 /\ \A o \in Agent!Objects : s3'[o].talks => o = s4'[k].of
      BY <1>q, <2>1, <3>1, <3>6 DEF Agent!ConnHolds
    <3> QED  BY <3>2, <3>3, <3>4, <3>5, <3>6 DEF Agent!ConnHolds
  <2>2. ASSUME NEW k \in Agent!Conns, s4'[k].st = "joining", s4'[k].waits = "reconnect",
               s4'[k].of \in Agent!Objects, s3[s4'[k].of].talks
        PROVE  Agent!ConnHolds(k)'
    <3>1. Agent!ObjectHolds(s4'[k].of)  BY <1>o, <2>2
    <3>2. s3'[s4'[k].of].talks /\ s3'[s4'[k].of].at # "none"
      BY <1>q, <2>2, <3>1 DEF Agent!ObjectHolds
    <3> QED  BY <2>2, <3>2 DEF Agent!ConnHolds
  <2>3. Agent!OneTalks'  BY <1>q, <1>s DEF Agent!OneTalks
  <2>4. Agent!OneStarts'  BY <1>q, <1>s DEF Agent!OneStarts
  <2>5. Agent!NoGhost'  BY <1>q, <1>s DEF Agent!NoGhost
  <2> QED  BY <1>q, <2>1, <2>2, <2>3, <2>4, <2>5
<1>p. ASSUME NEW p \in Agent!Objects, s3'[p] = s3[p], s2' = p <=> s2 = p, s1' = "live" => s1 = "live",
             UNCHANGED <<s1, s6>> \/ s2 # p
      PROVE  Agent!ObjectHolds(p)' /\ Agent!Registered(p)'
  <2>1. Agent!ObjectHolds(p) /\ Agent!Registered(p)  BY <1>o
  <2>2. Agent!ObjectHolds(p)'  BY <1>p, <2>1 DEF Agent!ObjectHolds
  <2>3. Agent!Registered(p)'  BY <1>p, <2>1 DEF Agent!Registered
  <2> QED  BY <2>2, <2>3
<1>l. ASSUME NEW o \in Agent!Objects, \A p \in Agent!Objects : p # o => s3'[p] = s3[p], s5' = s5,
             s3'[o].talks /\ s3'[o].frozen /\ s3'[o].posting = "no" => s5 = "offline"
      PROVE  Agent!OfflineIsLast'
  BY <1>l, <1>s DEF Agent!OfflineIsLast
<1>g. ASSUME NEW o \in Agent!Objects, \A p \in Agent!Objects : p # o => s3'[p] = s3[p],
             Agent!ObjectHolds(o)', Agent!Registered(o)', Agent!OfflineIsLast',
             s2' = s2 \/ (s2' = 0 /\ s2 \in {0, o}),
             UNCHANGED <<s1, s6>> \/ (s1' # "live" /\ s2 \in {0, o}), Quiet
      PROVE  Inv'
  <2>1. ASSUME NEW p \in Agent!Objects PROVE Agent!ObjectHolds(p)' /\ Agent!Registered(p)'
    <3>1. CASE p = o  BY <1>g, <3>1
    <3>2. CASE p # o
      <4>1. /\ s3'[p] = s3[p] /\ (s2' = p <=> s2 = p) /\ (s1' = "live" => s1 = "live")
            /\ UNCHANGED <<s1, s6>> \/ s2 # p
        BY <1>g, <1>z, <3>2
      <4> QED  BY <1>p, <4>1
    <3> QED  BY <3>1, <3>2
  <2> HIDE DEF Quiet
  <2> QED  BY <1>g, <1>h, <1>q, <2>1
\* No connection but k changes, or none.
<1>r. ASSUME NEW o \in Agent!Objects, UNCHANGED s4, UNCHANGED s1 \/ s1' # "live",
             UNCHANGED s2 \/ (s2' = 0 /\ s2 = o /\ s1' # "live" /\ s3'[o].at = "closing"),
             \A p \in Agent!Objects : p # o => s3'[p] = s3[p],
             s3'[o].talks <=> s3[o].talks, s3'[o].room = s3[o].room,
             s3'[o].at = s3[o].at \/ s3'[o].at = "closing"
      PROVE  Quiet
  <2>1. ObjectsQuiet  BY <1>r
  <2>2. ConnsQuiet  BY <1>r
  <2>3. ASSUME NEW j \in Agent!Conns, s4'[j].st = "in", s4'[j].waits # "abandoned" PROVE Stays(j)
    <3>1. s4[j].of \in Agent!Objects  BY <1>k, <1>r, <2>3 DEF Agent!ConnHolds
    <3> QED  BY <1>r, <2>3, <3>1
  <2> QED  BY <1>r, <2>1, <2>2, <2>3

\* The reconnect task of an object that talks begins, or ends.
<1>v1. ASSUME NEW o \in Agent!Objects, s3[o].talks, NEW again, again \in {"no", "token"},
             s3' = [s3 EXCEPT ![o].again = again], UNCHANGED <<s1, s2, s4, s5, s6>>
      PROVE  Inv'
  <2>1. s3[o].talks /\ UNCHANGED <<s1, s2, s4, s5, s6>>
    BY <1>v1
  <2>2. s3' = [s3 EXCEPT ![o] = [s3[o] EXCEPT !.again = again]]
    BY <1>v1, <2>1, <1>t
  <2>3. \A p \in Agent!Objects : p # o => s3'[p] = s3[p]
    BY <2>2, <1>t
  <2>4. /\ s3'[o].again = again
        /\ s3'[o].at = s3[o].at /\ s3'[o].talks = s3[o].talks /\ s3'[o].stopped = s3[o].stopped /\ s3'[o].room = s3[o].room
        /\ s3'[o].gaveUp = s3[o].gaveUp /\ s3'[o].final = s3[o].final /\ s3'[o].posting = s3[o].posting /\ s3'[o].frozen = s3[o].frozen
    BY <2>2, <1>t
  <2>5. Agent!ObjectHolds(o) /\ Agent!Registered(o)  BY <1>o
  <2>6. Agent!ObjectHolds(o)'  BY <2>1, <2>4, <2>5 DEF Agent!ObjectHolds
  <2>7. Agent!Registered(o)'  BY <2>1, <2>4, <2>5, <1>z DEF Agent!Registered, Agent!ObjectHolds
  <2>8. Agent!OfflineIsLast'  BY <2>1, <2>3, <2>4, <1>l, <1>s DEF Agent!OfflineIsLast
  <2>9. Quiet  BY <2>1, <2>3, <2>4, <1>r
  <2> HIDE DEF Quiet
  <2> QED  BY <1>g, <2>1, <2>3, <2>6, <2>7, <2>8, <2>9
\* It gives up: meeting-api has no session.
<1>v2. ASSUME NEW o \in Agent!Objects, Agent!Token(o), ~Agent!Ends(o), s1 = "gone"
      PROVE  Inv'
  <2>1. s1 # "live" /\ s3[o].again = "token" /\ UNCHANGED <<s1, s2, s4, s5, s6>>
    BY <1>v2 DEF Agent!Token
  <2>2. s3' = [s3 EXCEPT ![o] = [s3[o] EXCEPT !.again = "no", !.gaveUp = TRUE]]
    BY <1>v2, <2>1, <1>t DEF Agent!Token
  <2>3. \A p \in Agent!Objects : p # o => s3'[p] = s3[p]
    BY <2>2, <1>t
  <2>4. /\ s3'[o].again = "no" /\ s3'[o].gaveUp = TRUE
        /\ s3'[o].at = s3[o].at /\ s3'[o].talks = s3[o].talks /\ s3'[o].stopped = s3[o].stopped /\ s3'[o].room = s3[o].room
        /\ s3'[o].final = s3[o].final /\ s3'[o].posting = s3[o].posting /\ s3'[o].frozen = s3[o].frozen
    BY <2>2, <1>t
  <2>5. Agent!ObjectHolds(o) /\ Agent!Registered(o)  BY <1>o
  <2>6. Agent!ObjectHolds(o)'  BY <2>1, <2>4, <2>5 DEF Agent!ObjectHolds
  <2>7. Agent!Registered(o)'  BY <2>1, <2>4, <2>5, <1>z DEF Agent!Registered, Agent!ObjectHolds
  <2>8. Agent!OfflineIsLast'  BY <2>1, <2>3, <2>4, <1>l, <1>s DEF Agent!OfflineIsLast
  <2>9. Quiet  BY <2>1, <2>3, <2>4, <1>r
  <2> HIDE DEF Quiet
  <2> QED  BY <1>g, <2>1, <2>3, <2>6, <2>7, <2>8, <2>9
\* The final pass is asked for.
<1>v3. ASSUME NEW o \in Agent!Objects, Agent!Finalize(o), ~UNCHANGED s3
      PROVE  Inv'
  <2>1. s1' = "finalising" /\ s2 = o /\ UNCHANGED <<s2, s4, s5, s6>>
    BY <1>v3 DEF Agent!Finalize
  <2>2. s3' = [s3 EXCEPT ![o] = [s3[o] EXCEPT !.final = "asked", !.stopped = TRUE]]
    BY <1>v3, <2>1, <1>t DEF Agent!Finalize
  <2>3. \A p \in Agent!Objects : p # o => s3'[p] = s3[p]
    BY <2>2, <1>t
  <2>4. /\ s3'[o].final = "asked" /\ s3'[o].stopped = TRUE
        /\ s3'[o].at = s3[o].at /\ s3'[o].talks = s3[o].talks /\ s3'[o].room = s3[o].room /\ s3'[o].again = s3[o].again
        /\ s3'[o].gaveUp = s3[o].gaveUp /\ s3'[o].posting = s3[o].posting /\ s3'[o].frozen = s3[o].frozen
    BY <2>2, <1>t
  <2>5. Agent!ObjectHolds(o) /\ Agent!Registered(o)  BY <1>o
  <2>6. Agent!ObjectHolds(o)'  BY <2>1, <2>4, <2>5 DEF Agent!ObjectHolds, Agent!Registered
  <2>7. Agent!Registered(o)'  BY <2>1, <2>4, <2>5, <1>z DEF Agent!Registered, Agent!ObjectHolds
  <2>8. Agent!OfflineIsLast'  BY <2>1, <2>3, <2>4, <1>l, <1>s DEF Agent!OfflineIsLast
  <2>9. Quiet  BY <2>1, <2>3, <2>4, <1>r
  <2> HIDE DEF Quiet
  <2> QED  BY <1>g, <2>1, <2>3, <2>6, <2>7, <2>8, <2>9
\* The object is taken out to be closed.
<1>v4. ASSUME NEW o \in Agent!Objects, Agent!Retire(o), s2 = o, s1' # "live", UNCHANGED <<s4, s5>>
      PROVE  Inv'
  <2>1. s2 = o /\ s2' = 0 /\ s1' # "live" /\ UNCHANGED <<s4, s5>>
    BY <1>v4 DEF Agent!Retire
  <2>2. s3' = [s3 EXCEPT ![o] = [s3[o] EXCEPT !.at = "closing"]]
    BY <1>v4, <2>1, <1>t DEF Agent!Retire
  <2>3. \A p \in Agent!Objects : p # o => s3'[p] = s3[p]
    BY <2>2, <1>t
  <2>4. /\ s3'[o].at = "closing"
        /\ s3'[o].talks = s3[o].talks /\ s3'[o].stopped = s3[o].stopped /\ s3'[o].room = s3[o].room /\ s3'[o].again = s3[o].again
        /\ s3'[o].gaveUp = s3[o].gaveUp /\ s3'[o].final = s3[o].final /\ s3'[o].posting = s3[o].posting /\ s3'[o].frozen = s3[o].frozen
    BY <2>2, <1>t
  <2>5. Agent!ObjectHolds(o) /\ Agent!Registered(o)  BY <1>o
  <2>6. Agent!ObjectHolds(o)'  BY <2>1, <2>4, <2>5 DEF Agent!ObjectHolds
  <2>7. Agent!Registered(o)'  BY <2>1, <2>4, <2>5, <1>z DEF Agent!Registered, Agent!ObjectHolds
  <2>8. Agent!OfflineIsLast'  BY <2>1, <2>3, <2>4, <1>l, <1>s DEF Agent!OfflineIsLast
  <2>9. Quiet  BY <2>1, <2>3, <2>4, <1>r
  <2> HIDE DEF Quiet
  <2> QED  BY <1>g, <2>1, <2>3, <2>6, <2>7, <2>8, <2>9
\* The final pass is over, and says so last.
<1>v5. ASSUME NEW o \in Agent!Objects, Agent!SetFinal(o)
      PROVE  Inv'
  <2>1. s3[o].final = "running" /\ UNCHANGED <<s1, s2, s4, s5, s6>>
    BY <1>v5 DEF Agent!SetFinal
  <2> DEFINE postingNext == IF s3[o].talks THEN "offline" ELSE "no"
  <2>p. /\ s3[o].talks => postingNext = "offline"
        /\ ~s3[o].talks => postingNext = "no"
    OBVIOUS
  <2>2. s3' = [s3 EXCEPT ![o] = [s3[o] EXCEPT !.final = "over", !.frozen = TRUE, !.posting = postingNext]]
    BY <1>v5, <2>1, <1>t DEF Agent!SetFinal, Agent!Last
  <2> HIDE DEF postingNext
  <2>3. \A p \in Agent!Objects : p # o => s3'[p] = s3[p]
    BY <2>2, <1>t
  <2>4. /\ s3'[o].final = "over" /\ s3'[o].frozen = TRUE /\ s3'[o].posting = postingNext
        /\ s3'[o].at = s3[o].at /\ s3'[o].talks = s3[o].talks /\ s3'[o].stopped = s3[o].stopped /\ s3'[o].room = s3[o].room
        /\ s3'[o].again = s3[o].again /\ s3'[o].gaveUp = s3[o].gaveUp
    BY <2>2, <1>t
  <2>5. Agent!ObjectHolds(o) /\ Agent!Registered(o)  BY <1>o
  <2>6. Agent!ObjectHolds(o)'  BY <2>1, <2>4, <2>5, <2>p DEF Agent!ObjectHolds
  <2>7. Agent!Registered(o)'  BY <2>1, <2>4, <2>5, <1>z DEF Agent!Registered, Agent!ObjectHolds
  <2>8. Agent!OfflineIsLast'  BY <2>1, <2>3, <2>4, <1>l, <1>s, <2>p DEF Agent!OfflineIsLast
  <2>9. Quiet  BY <2>1, <2>3, <2>4, <1>r
  <2> HIDE DEF Quiet
  <2> QED  BY <1>g, <2>1, <2>3, <2>6, <2>7, <2>8, <2>9
\* A status is made, and
<1>v6. ASSUME NEW o \in Agent!Objects, Agent!PostStatus(o)
      PROVE  Inv'
  <2>1. s3[o].talks /\ ~s3[o].frozen /\ UNCHANGED <<s1, s2, s4, s5, s6>>
    BY <1>v6 DEF Agent!PostStatus
  <2> DEFINE postingNext == IF Agent!Ends(o) \/ s3[o].gaveUp THEN "offline" ELSE "live"
  <2>p. postingNext \in {"offline", "live"}
    OBVIOUS
  <2>2. s3' = [s3 EXCEPT ![o] = [s3[o] EXCEPT !.posting = postingNext]]
    BY <1>v6, <2>1, <1>t DEF Agent!PostStatus
  <2> HIDE DEF postingNext
  <2>3. \A p \in Agent!Objects : p # o => s3'[p] = s3[p]
    BY <2>2, <1>t
  <2>4. /\ s3'[o].posting = postingNext
        /\ s3'[o].at = s3[o].at /\ s3'[o].talks = s3[o].talks /\ s3'[o].stopped = s3[o].stopped /\ s3'[o].room = s3[o].room
        /\ s3'[o].again = s3[o].again /\ s3'[o].gaveUp = s3[o].gaveUp /\ s3'[o].final = s3[o].final /\ s3'[o].frozen = s3[o].frozen
    BY <2>2, <1>t
  <2>5. Agent!ObjectHolds(o) /\ Agent!Registered(o)  BY <1>o
  <2>6. Agent!ObjectHolds(o)'  BY <2>1, <2>4, <2>5, <2>p DEF Agent!ObjectHolds
  <2>7. Agent!Registered(o)'  BY <2>1, <2>4, <2>5, <1>z DEF Agent!Registered, Agent!ObjectHolds
  <2>8. Agent!OfflineIsLast'  BY <2>1, <2>3, <2>4, <1>l, <1>s, <2>p DEF Agent!OfflineIsLast
  <2>9. Quiet  BY <2>1, <2>3, <2>4, <1>r
  <2> HIDE DEF Quiet
  <2> QED  BY <1>g, <2>1, <2>3, <2>6, <2>7, <2>8, <2>9
\* delivered.
<1>v7. ASSUME NEW o \in Agent!Objects, Agent!AgentStatus(o)
      PROVE  Inv'
  <2>1. s3[o].posting # "no" /\ s5' = s3[o].posting /\ UNCHANGED <<s1, s2, s4, s6>>
    BY <1>v7 DEF Agent!AgentStatus
  <2>2. s3' = [s3 EXCEPT ![o] = [s3[o] EXCEPT !.posting = "no"]]
    BY <1>v7, <2>1, <1>t DEF Agent!AgentStatus
  <2>3. \A p \in Agent!Objects : p # o => s3'[p] = s3[p]
    BY <2>2, <1>t
  <2>4. /\ s3'[o].posting = "no"
        /\ s3'[o].at = s3[o].at /\ s3'[o].talks = s3[o].talks /\ s3'[o].stopped = s3[o].stopped /\ s3'[o].room = s3[o].room
        /\ s3'[o].again = s3[o].again /\ s3'[o].gaveUp = s3[o].gaveUp /\ s3'[o].final = s3[o].final /\ s3'[o].frozen = s3[o].frozen
    BY <2>2, <1>t
  <2>5. Agent!ObjectHolds(o) /\ Agent!Registered(o)  BY <1>o
  <2>6. Agent!ObjectHolds(o)'  BY <2>1, <2>4, <2>5 DEF Agent!ObjectHolds
  <2>7. Agent!Registered(o)'  BY <2>1, <2>4, <2>5, <1>z DEF Agent!Registered, Agent!ObjectHolds
  <2>8. Agent!OfflineIsLast'
    <3>1. \A p \in Agent!Objects : s3[p].talks => p = o
      BY <2>1, <2>5, <1>s DEF Agent!ObjectHolds, Agent!OneTalks
    <3> QED  BY <2>1, <2>3, <2>4, <2>5, <3>1 DEF Agent!OfflineIsLast, Agent!ObjectHolds
  <2>9. Quiet  BY <2>1, <2>3, <2>4, <1>r
  <2> HIDE DEF Quiet
  <2> QED  BY <1>g, <2>1, <2>3, <2>6, <2>7, <2>8, <2>9
\* A reconnection fails.
<1>v8. ASSUME NEW o \in Agent!Objects, NEW k \in Agent!Conns, Agent!Again(k), s4[k].of = o, s4' = Agent!Out(k),
             s3' = [s3 EXCEPT ![o].again = "token"], UNCHANGED <<s1, s2, s5, s6>>
      PROVE  Inv'
  <2>1. s3[o].talks /\ s4[k].st = "joining" /\ UNCHANGED <<s1, s2, s5, s6>>
    BY <1>v8, <1>k DEF Agent!ConnHolds, Agent!Again
  <2>2. s3' = [s3 EXCEPT ![o] = [s3[o] EXCEPT !.again = "token"]]
    BY <1>v8, <2>1, <1>t
  <2>3. \A p \in Agent!Objects : p # o => s3'[p] = s3[p]
    BY <2>2, <1>t
  <2>4. /\ s3'[o].again = "token"
        /\ s3'[o].at = s3[o].at /\ s3'[o].talks = s3[o].talks /\ s3'[o].stopped = s3[o].stopped /\ s3'[o].room = s3[o].room
        /\ s3'[o].gaveUp = s3[o].gaveUp /\ s3'[o].final = s3[o].final /\ s3'[o].posting = s3[o].posting /\ s3'[o].frozen = s3[o].frozen
    BY <2>2, <1>t
  <2>5. Agent!ObjectHolds(o) /\ Agent!Registered(o)  BY <1>o
  <2>6. Agent!ObjectHolds(o)'  BY <2>1, <2>4, <2>5 DEF Agent!ObjectHolds
  <2>7. Agent!Registered(o)'  BY <2>1, <2>4, <2>5, <1>z DEF Agent!Registered, Agent!ObjectHolds
  <2>8. Agent!OfflineIsLast'  BY <2>1, <2>3, <2>4, <1>l, <1>s DEF Agent!OfflineIsLast
  <2>c. /\ \A j \in Agent!Conns : j # k => s4'[j] = s4[j]
        /\ s4'[k].st = "out" /\ s4'[k].of = s4[k].of
    BY <1>v8, <1>t DEF Agent!Out
  <2>9. Quiet
    <3>1. ObjectsQuiet  BY <2>1, <2>3, <2>4
    <3>2. ConnsQuiet  BY <2>1, <2>3, <2>4, <2>c
    <3>3. ASSUME NEW j \in Agent!Conns, s4'[j].st = "in", s4'[j].waits # "abandoned" PROVE Stays(j)
      <4>1. s4[j].st = "in" /\ s4'[j] = s4[j]  BY <3>3, <2>1, <2>c
      <4>2. s4[j].of \in Agent!Objects  BY <4>1, <1>k DEF Agent!ConnHolds
      <4> QED  BY <2>1, <2>3, <2>4, <3>3, <4>1, <4>2
    <3> QED  BY <2>1, <2>3, <2>4, <3>1, <3>2, <3>3
  <2> HIDE DEF Quiet
  <2> QED  BY <1>g, <2>1, <2>3, <2>6, <2>7, <2>8, <2>9
\* A reconnection begins.
<1>v9. ASSUME NEW o \in Agent!Objects, Agent!Token(o), Agent!Connects(o, "reconnect")
      PROVE  Inv'
  <2>1. s3[o].again = "token" /\ UNCHANGED <<s1, s2, s5, s6>>
    BY <1>v9 DEF Agent!Token
  <2>k. PICK k \in Agent!Conns : /\ s4[k].st = "none"
                              /\ s4' = [s4 EXCEPT ![k] = [of |-> o, st |-> "joining", waits |-> "reconnect"]]
    BY <1>v9 DEF Agent!Connects
  <2>n. s4' # s4
    <3>1. s4'[k].st = "joining"  BY <2>k, <1>t
    <3> QED  BY <2>k, <3>1
  <2>2. s3' = [s3 EXCEPT ![o] = [s3[o] EXCEPT !.again = "joining"]]
    BY <1>v9, <2>1, <1>t, <2>n DEF Agent!Token
  <2>3. \A p \in Agent!Objects : p # o => s3'[p] = s3[p]
    BY <2>2, <1>t
  <2>4. /\ s3'[o].again = "joining"
        /\ s3'[o].at = s3[o].at /\ s3'[o].talks = s3[o].talks /\ s3'[o].stopped = s3[o].stopped /\ s3'[o].room = s3[o].room
        /\ s3'[o].gaveUp = s3[o].gaveUp /\ s3'[o].final = s3[o].final /\ s3'[o].posting = s3[o].posting /\ s3'[o].frozen = s3[o].frozen
    BY <2>2, <1>t
  <2>5. Agent!ObjectHolds(o) /\ Agent!Registered(o)  BY <1>o
  <2>6. Agent!ObjectHolds(o)'  BY <2>1, <2>4, <2>5 DEF Agent!ObjectHolds
  <2>7. Agent!Registered(o)'  BY <2>1, <2>4, <2>5, <1>z DEF Agent!Registered, Agent!ObjectHolds
  <2>8. Agent!OfflineIsLast'  BY <2>1, <2>3, <2>4, <1>l, <1>s DEF Agent!OfflineIsLast
  <2>c. /\ \A j \in Agent!Conns : j # k => s4'[j] = s4[j]
        /\ s4'[k].st = "joining" /\ s4'[k].waits = "reconnect" /\ s4'[k].of = o
    BY <2>k, <1>t
  <2>d. s3[o].talks  BY <2>1, <2>5 DEF Agent!ObjectHolds
  <2>9. Quiet
    <3>1. ObjectsQuiet  BY <2>1, <2>3, <2>4, <2>d
    <3>2. ConnsQuiet  BY <2>1, <2>3, <2>4, <2>d, <2>c
    <3>3. ASSUME NEW j \in Agent!Conns, s4'[j].st = "in", s4'[j].waits # "abandoned" PROVE Stays(j)
      <4>1. s4[j].st = "in" /\ s4'[j] = s4[j]  BY <3>3, <2>1, <2>c
      <4>2. s4[j].of \in Agent!Objects  BY <4>1, <1>k DEF Agent!ConnHolds
      <4> QED  BY <2>1, <2>3, <2>4, <2>d, <3>3, <4>1, <4>2
    <3> QED  BY <2>1, <2>3, <2>4, <2>d, <3>1, <3>2, <3>3
  <2> HIDE DEF Quiet
  <2> QED  BY <1>g, <2>1, <2>3, <2>6, <2>7, <2>8, <2>9
\* A start fails, or is not waited for any more.
<1>v10. ASSUME NEW o \in Agent!Objects, NEW k \in Agent!Conns, Agent!Starting(k), s4[k].of = o, Agent!NotStarted(o),
             \A j \in Agent!Conns : j # k => s4'[j] = s4[j],
             s4'[k].of = s4[k].of, s4'[k].st = "out" \/ (s4'[k].st = "joining" /\ s4'[k].waits = "abandoned"),
             UNCHANGED <<s1, s5, s6>>
      PROVE  Inv'
  <2>1. /\ s2' = 0 /\ s3[o].at # "up" /\ (s2 = o \/ (s2 = 0 /\ s1 # "live"))
        /\ UNCHANGED <<s1, s5, s6>>
    BY <1>v10, <1>k DEF Agent!ConnHolds, Agent!NotStarted
  <2> DEFINE atNext == IF s3[o].at = "starting" THEN "closing" ELSE s3[o].at
  <2>p. /\ s3[o].at = "starting" => atNext = "closing"
        /\ s3[o].at # "starting" => atNext = s3[o].at
    OBVIOUS
  <2>2. s3' = [s3 EXCEPT ![o] = [s3[o] EXCEPT !.at = atNext]]
    BY <1>v10, <2>1, <1>t DEF Agent!NotStarted
  <2> HIDE DEF atNext
  <2>3. \A p \in Agent!Objects : p # o => s3'[p] = s3[p]
    BY <2>2, <1>t
  <2>4. /\ s3'[o].at = atNext
        /\ s3'[o].talks = s3[o].talks /\ s3'[o].stopped = s3[o].stopped /\ s3'[o].room = s3[o].room /\ s3'[o].again = s3[o].again
        /\ s3'[o].gaveUp = s3[o].gaveUp /\ s3'[o].final = s3[o].final /\ s3'[o].posting = s3[o].posting /\ s3'[o].frozen = s3[o].frozen
    BY <2>2, <1>t
  <2>5. Agent!ObjectHolds(o) /\ Agent!Registered(o)  BY <1>o
  <2>6. Agent!ObjectHolds(o)'  BY <2>1, <2>4, <2>5, <2>p DEF Agent!ObjectHolds
  <2>7. Agent!Registered(o)'  BY <2>1, <2>4, <2>5, <1>z, <2>p DEF Agent!Registered, Agent!ObjectHolds
  <2>8. Agent!OfflineIsLast'  BY <2>1, <2>3, <2>4, <1>l, <1>s, <2>p DEF Agent!OfflineIsLast
  <2>c. ASSUME NEW j \in Agent!Conns PROVE ~Agent!Starting(j)'
    <3>1. CASE j = k  BY <3>1, <1>v10 DEF Agent!Starting
    <3>2. CASE j # k  BY <3>2, <1>v10, <1>s DEF Agent!Starting, Agent!OneStarts
    <3> QED  BY <3>1, <3>2
  <2>9. Quiet
    <3>1. ObjectsQuiet  BY <2>3, <2>4, <2>c, <2>p
    <3>2. ConnsQuiet  BY <1>v10 DEF Agent!Starting
    <3>3. ASSUME NEW j \in Agent!Conns, s4'[j].st = "in", s4'[j].waits # "abandoned" PROVE Stays(j)
      <4>1. s4[j].st = "in" /\ s4'[j] = s4[j]  BY <3>3, <1>v10
      <4>2. s4[j].of \in Agent!Objects  BY <4>1, <1>k DEF Agent!ConnHolds
      <4>3. s2 = o => s3'[o].at = "closing"  BY <2>1, <2>4, <2>5, <2>p DEF Agent!Registered
      <4> QED  BY <2>1, <2>3, <2>4, <2>p, <3>3, <4>1, <4>2, <4>3, <1>z
    <3> QED  BY <2>1, <2>c, <3>1, <3>2, <3>3
  <2> HIDE DEF Quiet
  <2> QED  BY <1>g, <2>1, <2>3, <2>6, <2>7, <2>8, <2>9
\* Come too late, a connection is left again.
<1>v11. ASSUME NEW o \in Agent!Objects, NEW k \in Agent!Conns, s4[k].st = "joining", s4[k].waits \in {"start", "reconnect"},
             s4[k].of = o, Agent!LeftAgain(o, k), UNCHANGED <<s1, s2, s5, s6>>
      PROVE  Inv'
  <2>1. s4[k].st = "joining" /\ UNCHANGED <<s1, s2, s5, s6>>
    BY <1>v11
  <2> DEFINE atNext == IF s3[o].at = "starting" THEN "up" ELSE s3[o].at
  <2>p. /\ s3[o].at = "starting" => atNext = "up"
        /\ s3[o].at # "starting" => atNext = s3[o].at
    OBVIOUS
  <2>2. s3' = [s3 EXCEPT ![o] = [s3[o] EXCEPT !.at = atNext, !.again = "no"]]
    BY <1>v11, <2>1, <1>t DEF Agent!LeftAgain, Agent!StartedAt
  <2> HIDE DEF atNext
  <2>3. \A p \in Agent!Objects : p # o => s3'[p] = s3[p]
    BY <2>2, <1>t
  <2>4. /\ s3'[o].at = atNext /\ s3'[o].again = "no"
        /\ s3'[o].talks = s3[o].talks /\ s3'[o].stopped = s3[o].stopped /\ s3'[o].room = s3[o].room /\ s3'[o].gaveUp = s3[o].gaveUp
        /\ s3'[o].final = s3[o].final /\ s3'[o].posting = s3[o].posting /\ s3'[o].frozen = s3[o].frozen
    BY <2>2, <1>t
  <2>5. Agent!ObjectHolds(o) /\ Agent!Registered(o)  BY <1>o
  <2>6. Agent!ObjectHolds(o)'  BY <2>1, <2>4, <2>5, <2>p DEF Agent!ObjectHolds
  <2>7. Agent!Registered(o)'  BY <2>1, <2>4, <2>5, <1>z, <2>p DEF Agent!Registered, Agent!ObjectHolds
  <2>8. Agent!OfflineIsLast'  BY <2>1, <2>3, <2>4, <1>l, <1>s, <2>p DEF Agent!OfflineIsLast
  <2>c. /\ \A j \in Agent!Conns : j # k => s4'[j] = s4[j]
        /\ s4'[k].st = "out" /\ s4'[k].of = s4[k].of
    BY <1>v11, <1>t DEF Agent!LeftAgain, Agent!Out
  <2>9. Quiet
    <3>1. s3'[o].at = "up" => s3[o].at = "up" \/ \A j \in Agent!Conns : Agent!Starting(j)' => s4[j].of # o
      <4>1. SUFFICES ASSUME s3[o].at = "starting", NEW j \in Agent!Conns, Agent!Starting(j)' PROVE FALSE
        BY <2>4, <2>p
      <4>2. j # k /\ Agent!Starting(j)  BY <4>1, <2>c DEF Agent!Starting
      <4>3. s4[k].waits # "start"  BY <4>2, <1>v11, <1>s DEF Agent!Starting, Agent!OneStarts
      <4>4. s3[o].talks  BY <4>3, <1>v11, <1>k DEF Agent!ConnHolds, Agent!Again
      <4> QED  BY <4>1, <4>4, <2>5 DEF Agent!ObjectHolds
    <3>2. ObjectsQuiet  BY <2>3, <2>4, <2>p, <3>1
    <3>3. ConnsQuiet  BY <2>1, <2>c
    <3>4. ASSUME NEW j \in Agent!Conns, s4'[j].st = "in", s4'[j].waits # "abandoned" PROVE Stays(j)
      <4>1. s4[j].st = "in" /\ s4'[j] = s4[j]  BY <3>4, <2>1, <2>c
      <4>2. s4[j].of \in Agent!Objects  BY <4>1, <1>k DEF Agent!ConnHolds
      <4> QED  BY <2>1, <2>3, <2>4, <2>p, <3>4, <4>1, <4>2
    <3> QED  BY <2>1, <3>2, <3>3, <3>4
  <2> HIDE DEF Quiet
  <2> QED  BY <1>g, <2>1, <2>3, <2>6, <2>7, <2>8, <2>9
\* The final pass leaves the room, and so does
<1>v12. ASSUME NEW o \in Agent!Objects, Agent!FinalPass(o)
      PROVE  Inv'
  <2>1. s3[o].final = "asked" /\ s3[o].at \in {"starting", "up"} /\ UNCHANGED <<s1, s2, s5, s6>>
    BY <1>v12 DEF Agent!FinalPass, Agent!LeavesRoom
  <2>2. s3' = [s3 EXCEPT ![o] = [s3[o] EXCEPT !.final = "running", !.stopped = TRUE, !.room = 0]]
    BY <1>v12, <2>1, <1>t DEF Agent!FinalPass, Agent!LeavesRoom
  <2>3. \A p \in Agent!Objects : p # o => s3'[p] = s3[p]
    BY <2>2, <1>t
  <2>4. /\ s3'[o].final = "running" /\ s3'[o].stopped = TRUE /\ s3'[o].room = 0
        /\ s3'[o].at = s3[o].at /\ s3'[o].talks = s3[o].talks /\ s3'[o].again = s3[o].again /\ s3'[o].gaveUp = s3[o].gaveUp
        /\ s3'[o].posting = s3[o].posting /\ s3'[o].frozen = s3[o].frozen
    BY <2>2, <1>t
  <2>5. Agent!ObjectHolds(o) /\ Agent!Registered(o)  BY <1>o
  <2>6. Agent!ObjectHolds(o)'  BY <2>1, <2>4, <2>5 DEF Agent!ObjectHolds
  <2>7. Agent!Registered(o)'  BY <2>1, <2>4, <2>5, <1>z DEF Agent!Registered, Agent!ObjectHolds
  <2>8. Agent!OfflineIsLast'  BY <2>1, <2>3, <2>4, <1>l, <1>s DEF Agent!OfflineIsLast
  <2>c. /\ \A j \in Agent!Conns : j # s3[o].room => s4'[j] = s4[j]
        /\ s3[o].room \in Agent!Conns =>
             s4'[s3[o].room].st = "out" /\ s4'[s3[o].room].of = s4[s3[o].room].of
    BY <1>v12, <1>t, <1>z DEF Agent!FinalPass, Agent!LeavesRoom, Agent!Out
  <2>9. Quiet
    <3>1. ObjectsQuiet  BY <2>1, <2>3, <2>4
    <3>2. ASSUME NEW j \in Agent!Conns, j = s3[o].room PROVE s4[j].st # "none"
      BY <3>2, <1>k DEF Agent!ConnHolds
    <3>3. ConnsQuiet  BY <2>c, <3>2
    <3>4. ASSUME NEW j \in Agent!Conns, s4'[j].st = "in", s4'[j].waits # "abandoned" PROVE Stays(j)
      <4>1. s4[j].st = "in" /\ s4'[j] = s4[j] /\ j # s3[o].room  BY <3>4, <2>c
      <4>2. s4[j].of \in Agent!Objects  BY <4>1, <1>k DEF Agent!ConnHolds
      <4>3. s4[j].of # o  BY <3>4, <4>1, <1>s DEF Agent!NoGhost
      <4> QED  BY <2>1, <2>3, <3>4, <4>1, <4>2, <4>3
    <3> QED  BY <2>1, <3>1, <3>3, <3>4
  <2> HIDE DEF Quiet
  <2> QED  BY <1>g, <2>1, <2>3, <2>6, <2>7, <2>8, <2>9
\* the close, that
<1>v13. ASSUME NEW o \in Agent!Objects, Agent!CloseStops(o)
      PROVE  Inv'
  <2>1. s3[o].at = "closing" /\ UNCHANGED <<s1, s2, s5, s6>>
    BY <1>v13 DEF Agent!CloseStops, Agent!LeavesRoom
  <2> DEFINE finalNext == IF s3[o].final = "none" THEN "none" ELSE "over"
  <2>p. /\ s3[o].final = "none" => finalNext = "none"
        /\ finalNext \in {"none", "over"}
    OBVIOUS
  <2>2. s3' = [s3 EXCEPT ![o] = [s3[o] EXCEPT !.at = "left", !.final = finalNext, !.stopped = TRUE, !.room = 0]]
    BY <1>v13, <2>1, <1>t DEF Agent!CloseStops, Agent!LeavesRoom
  <2> HIDE DEF finalNext
  <2>3. \A p \in Agent!Objects : p # o => s3'[p] = s3[p]
    BY <2>2, <1>t
  <2>4. /\ s3'[o].at = "left" /\ s3'[o].final = finalNext /\ s3'[o].stopped = TRUE /\ s3'[o].room = 0
        /\ s3'[o].talks = s3[o].talks /\ s3'[o].again = s3[o].again /\ s3'[o].gaveUp = s3[o].gaveUp /\ s3'[o].posting = s3[o].posting
        /\ s3'[o].frozen = s3[o].frozen
    BY <2>2, <1>t
  <2>5. Agent!ObjectHolds(o) /\ Agent!Registered(o)  BY <1>o
  <2>6. Agent!ObjectHolds(o)'  BY <2>1, <2>4, <2>5, <2>p DEF Agent!ObjectHolds
  <2>7. Agent!Registered(o)'  BY <2>1, <2>4, <2>5, <1>z, <2>p DEF Agent!Registered, Agent!ObjectHolds
  <2>8. Agent!OfflineIsLast'  BY <2>1, <2>3, <2>4, <1>l, <1>s, <2>p DEF Agent!OfflineIsLast
  <2>c. /\ \A j \in Agent!Conns : j # s3[o].room => s4'[j] = s4[j]
        /\ s3[o].room \in Agent!Conns =>
             s4'[s3[o].room].st = "out" /\ s4'[s3[o].room].of = s4[s3[o].room].of
    BY <1>v13, <1>t, <1>z DEF Agent!CloseStops, Agent!LeavesRoom, Agent!Out
  <2>9. Quiet
    <3>1. ObjectsQuiet  BY <2>1, <2>3, <2>4
    <3>2. ASSUME NEW j \in Agent!Conns, j = s3[o].room PROVE s4[j].st # "none"
      BY <3>2, <1>k DEF Agent!ConnHolds
    <3>3. ConnsQuiet  BY <2>c, <3>2
    <3>4. ASSUME NEW j \in Agent!Conns, s4'[j].st = "in", s4'[j].waits # "abandoned" PROVE Stays(j)
      <4>1. s4[j].st = "in" /\ s4'[j] = s4[j] /\ j # s3[o].room  BY <3>4, <2>c
      <4>2. s4[j].of \in Agent!Objects  BY <4>1, <1>k DEF Agent!ConnHolds
      <4>3. s4[j].of # o  BY <3>4, <4>1, <1>s DEF Agent!NoGhost
      <4> QED  BY <2>1, <2>3, <3>4, <4>1, <4>2, <4>3
    <3> QED  BY <2>1, <3>1, <3>3, <3>4
  <2> HIDE DEF Quiet
  <2> QED  BY <1>g, <2>1, <2>3, <2>6, <2>7, <2>8, <2>9
\* ends what is left.
<1>v14. ASSUME NEW o \in Agent!Objects, Agent!CloseEnds(o)
      PROVE  Inv'
  <2>1. s3[o].at = "left" /\ s3[o].posting = "no" /\ UNCHANGED <<s1, s2, s5, s6>>
    BY <1>v14 DEF Agent!CloseEnds
  <2> DEFINE postingNext == IF s3[o].frozen THEN "no" ELSE IF s3[o].talks THEN "offline" ELSE "no"
  <2>p. /\ postingNext \in {"no", "offline"}
        /\ postingNext = "no" => s3[o].frozen \/ ~s3[o].talks
        /\ postingNext = "offline" => s3[o].talks
    OBVIOUS
  <2>2. s3' = [s3 EXCEPT ![o] = [s3[o] EXCEPT !.at = "closed", !.frozen = TRUE, !.again = "no", !.posting = postingNext]]
    BY <1>v14, <2>1, <1>t DEF Agent!CloseEnds, Agent!Last
  <2> HIDE DEF postingNext
  <2>3. \A p \in Agent!Objects : p # o => s3'[p] = s3[p]
    BY <2>2, <1>t
  <2>4. /\ s3'[o].at = "closed" /\ s3'[o].frozen = TRUE /\ s3'[o].again = "no" /\ s3'[o].posting = postingNext
        /\ s3'[o].talks = s3[o].talks /\ s3'[o].stopped = s3[o].stopped /\ s3'[o].room = s3[o].room /\ s3'[o].gaveUp = s3[o].gaveUp
        /\ s3'[o].final = s3[o].final
    BY <2>2, <1>t
  <2>5. Agent!ObjectHolds(o) /\ Agent!Registered(o)  BY <1>o
  <2>6. Agent!ObjectHolds(o)'  BY <2>1, <2>4, <2>5, <2>p DEF Agent!ObjectHolds
  <2>7. Agent!Registered(o)'  BY <2>1, <2>4, <2>5, <1>z, <2>p DEF Agent!Registered, Agent!ObjectHolds
  <2>8. Agent!OfflineIsLast'  BY <2>1, <2>3, <2>4, <1>l, <1>s, <2>p DEF Agent!OfflineIsLast
  <2>b. ASSUME NEW j \in Agent!Conns
        PROVE  s4'[j] = s4[j] \/ (s4[j].st = "joining" /\ s4'[j] = [s4[j] EXCEPT !.waits = "abandoned"])
    BY <1>v14, <1>t DEF Agent!CloseEnds, Agent!Abandoned
  <2>c. ASSUME NEW j \in Agent!Conns
        PROVE  /\ s4'[j].of = s4[j].of /\ s4'[j].st = s4[j].st
               /\ s4'[j].waits = s4[j].waits \/ (s4[j].st = "joining" /\ s4'[j].waits = "abandoned")
    BY <2>b, <1>t
  <2>9. Quiet
    <3>1. ObjectsQuiet  BY <2>1, <2>3, <2>4
    <3>2. ConnsQuiet  BY <2>c
    <3>3. ASSUME NEW j \in Agent!Conns, s4'[j].st = "in", s4'[j].waits # "abandoned" PROVE Stays(j)
      <4>1. s4[j].st = "in" /\ s4'[j].of = s4[j].of /\ s4'[j].waits = s4[j].waits
        BY <3>3, <2>c
      <4>2. s4[j].of \in Agent!Objects  BY <4>1, <1>k DEF Agent!ConnHolds
      <4> QED  BY <2>1, <2>3, <2>4, <3>3, <4>1, <4>2
    <3> QED  BY <2>1, <3>1, <3>2, <3>3
  <2> HIDE DEF Quiet
  <2> QED  BY <1>g, <2>1, <2>3, <2>6, <2>7, <2>8, <2>9

\* The first connection of an object, and one that an object has come to.
<1>v15. CASE Agent!Start
  <2>1. PICK o \in Agent!Objects :
          /\ s3[o].at = "none" /\ s2' = o /\ Agent!Connects(o, "start")
          /\ s3' = [s3 EXCEPT ![o].at = "starting"]
    BY <1>v15 DEF Agent!Start
  <2>2. PICK k \in Agent!Conns : /\ s4[k].st = "none"
                             /\ s4' = [s4 EXCEPT ![k] = [of |-> o, st |-> "joining", waits |-> "start"]]
    BY <2>1 DEF Agent!Connects
  <2>3. s1 = "live" /\ s2 = 0 /\ UNCHANGED <<s1, s5, s6>>  BY <1>v15 DEF Agent!Start
  <2>4. /\ \A p \in Agent!Objects : p # o => s3'[p] = s3[p]
        /\ s3'[o].at = "starting"
        /\ s3'[o].talks = s3[o].talks /\ s3'[o].stopped = s3[o].stopped /\ s3'[o].room = s3[o].room
        /\ s3'[o].again = s3[o].again /\ s3'[o].gaveUp = s3[o].gaveUp /\ s3'[o].final = s3[o].final
        /\ s3'[o].posting = s3[o].posting /\ s3'[o].frozen = s3[o].frozen
    BY <2>1, <1>t
  <2>5. /\ \A j \in Agent!Conns : j # k => s4'[j] = s4[j]
        /\ s4'[k].of = o /\ s4'[k].st = "joining" /\ s4'[k].waits = "start"
    BY <2>2, <1>t
  <2>6. ASSUME NEW p \in Agent!Objects
        PROVE  ~s3[p].talks /\ s3[p].at \notin {"starting", "up"}
    BY <2>3, <1>o, <1>z DEF Agent!Registered
  <2>7. ASSUME NEW p \in Agent!Objects PROVE Agent!ObjectHolds(p)' /\ Agent!Registered(p)'
    <3>1. Agent!ObjectHolds(p) /\ Agent!Registered(p)  BY <1>o
    <3>2. CASE p = o
      <4>1. Agent!ObjectHolds(o)'  BY <2>1, <2>4, <3>1, <3>2 DEF Agent!ObjectHolds
      <4>2. Agent!Registered(o)'  BY <2>1, <2>3, <2>4, <2>6, <3>1, <3>2 DEF Agent!Registered, Agent!ObjectHolds
      <4> QED  BY <3>2, <4>1, <4>2
    <3>3. CASE p # o
      <4>1. Agent!ObjectHolds(p)'  BY <2>4, <3>1, <3>3 DEF Agent!ObjectHolds
      <4>2. Agent!Registered(p)'  BY <2>1, <2>3, <2>4, <2>6, <3>1, <3>3 DEF Agent!Registered
      <4> QED  BY <4>1, <4>2
    <3> QED  BY <3>2, <3>3
  <2>8. ASSUME NEW j \in Agent!Conns PROVE ~Agent!Starting(j)
    BY <2>3, <1>k, <1>z DEF Agent!ConnHolds, Agent!Starting
  <2>9. ASSUME NEW j \in Agent!Conns PROVE Agent!ConnHolds(j)'
    <3>1. Agent!ConnHolds(j)  BY <1>k
    <3>2. CASE j = k
      BY <2>1, <2>4, <2>5, <2>6, <3>2 DEF Agent!ConnHolds, Agent!Starting, Agent!Again
    <3>3. CASE j # k
      <4>1. s4'[j] = s4[j] /\ ~Agent!Starting(j)'  BY <2>5, <2>8, <3>3 DEF Agent!Starting
      <4>2. \A p \in Agent!Objects : s3'[p].room = s3[p].room /\ s3'[p].talks = s3[p].talks
                                   /\ (s3[p].at # "none" => s3'[p].at # "none")
        BY <2>4
      <4> QED  BY <3>1, <4>1, <4>2 DEF Agent!ConnHolds, Agent!Again
    <3> QED  BY <3>2, <3>3
  <2>10. Agent!OneTalks'  BY <2>4, <2>6 DEF Agent!OneTalks
  <2>11. Agent!OneStarts'  BY <2>5, <2>8 DEF Agent!OneStarts, Agent!Starting
  <2>12. Agent!NoGhost'
    <3>1. SUFFICES ASSUME NEW j \in Agent!Conns, s4'[j].st = "in", s4'[j].waits # "abandoned"
                   PROVE  s3'[s4'[j].of].room = j /\ s3'[s4'[j].of].at = "closing"
      BY DEF Agent!NoGhost
    <3>2. j # k /\ s4'[j] = s4[j]  BY <2>5, <3>1
    <3>3. s4[j].of \in Agent!Objects  BY <3>1, <3>2, <1>k DEF Agent!ConnHolds
    <3>4. s3[s4[j].of].room = j /\ s3[s4[j].of].at = "closing"
      BY <2>3, <3>1, <3>2, <3>3, <1>s, <1>z DEF Agent!NoGhost
    <3> QED  BY <2>1, <2>4, <3>2, <3>3, <3>4
  <2>13. Agent!OfflineIsLast'  BY <2>3, <2>4, <2>6, <1>l
  <2> QED  BY <1>h, <2>7, <2>9, <2>10, <2>11, <2>12, <2>13
<1>v16. ASSUME NEW o \in Agent!Objects, NEW k \in Agent!Conns, s4[k].st = "joining", ~Agent!Ends(o),
               s4[k].waits \in {"start", "reconnect"}, s4[k].of = o, Agent!ConnectedTo(o, k),
               UNCHANGED <<s1, s2, s5, s6>>
        PROVE  Inv'
  <2> DEFINE atNext == IF s3[o].at = "starting" THEN "up" ELSE s3[o].at
  <2>1. /\ s3[o].at = "starting" => atNext = "up"
        /\ s3[o].at # "starting" => atNext = s3[o].at
    OBVIOUS
  <2>2. s3' = [s3 EXCEPT ![o] = [s3[o] EXCEPT !.at = atNext, !.talks = TRUE, !.room = k, !.again = "no"]]
    BY <1>v16, <1>t DEF Agent!ConnectedTo, Agent!StartedAt
  <2> HIDE DEF atNext
  <2>3. \A p \in Agent!Objects : p # o => s3'[p] = s3[p]  BY <2>2, <1>t
  <2>4. /\ s3'[o].at = atNext /\ s3'[o].talks = TRUE /\ s3'[o].room = k /\ s3'[o].again = "no"
        /\ s3'[o].stopped = s3[o].stopped /\ s3'[o].gaveUp = s3[o].gaveUp /\ s3'[o].final = s3[o].final
        /\ s3'[o].posting = s3[o].posting /\ s3'[o].frozen = s3[o].frozen
    BY <2>2, <1>t
  <2>5. Agent!ObjectHolds(o) /\ Agent!Registered(o) /\ Agent!ConnHolds(k)  BY <1>o, <1>k
  <2>6. /\ ~s3[o].stopped /\ s3[o].at \in {"starting", "up", "closing"} /\ ~s3[o].frozen
        /\ s1 = "live" => s2 = o
        /\ Agent!Starting(k) \/ (Agent!Again(k) /\ s3[o].talks /\ s3[o].at # "starting")
    BY <1>v16, <2>5 DEF Agent!Ends, Agent!ObjectHolds, Agent!Registered, Agent!ConnHolds, Agent!Starting, Agent!Again
  <2>7. \A p \in Agent!Objects : s3[p].talks => p = o
    BY <1>v16, <2>5, <2>6, <1>s DEF Agent!ConnHolds, Agent!OneTalks
  <2>8. Agent!ObjectHolds(o)'  BY <2>1, <2>4, <2>5, <2>6 DEF Agent!ObjectHolds
  <2>9. Agent!Registered(o)'  BY <1>v16, <2>1, <2>4, <2>5, <2>6 DEF Agent!Registered
  <2>10. ASSUME NEW p \in Agent!Objects PROVE Agent!ObjectHolds(p)' /\ Agent!Registered(p)'
    <3>1. CASE p = o  BY <2>8, <2>9, <3>1
    <3>2. CASE p # o  BY <2>3, <3>2, <1>p, <1>v16
    <3> QED  BY <3>1, <3>2
  <2>11. /\ s4'[k].of = o /\ s4'[k].st = "in" /\ s4'[k].waits = "nobody"
         /\ \A j \in Agent!Conns : j # k => s4'[j].of = s4[j].of /\ s4'[j].waits = s4[j].waits
                                /\ s4'[j].st # "in" /\ (s4[j].st # "in" => s4'[j].st = s4[j].st)
                                /\ (s4[j].st = "in" => s4'[j].st = "out")
    <3>1. s4' = Agent!In(k, "nobody")  BY <1>v16 DEF Agent!ConnectedTo
    <3>2. s4'[k] = [s4[k] EXCEPT !.st = "in", !.waits = "nobody"]  BY <3>1 DEF Agent!In
    <3>3. ASSUME NEW j \in Agent!Conns, j # k
          PROVE  \/ s4[j].st = "in" /\ s4'[j] = [s4[j] EXCEPT !.st = "out"]
                 \/ s4[j].st # "in" /\ s4'[j] = s4[j]
      BY <3>1, <3>3 DEF Agent!In
    <3> QED  BY <1>v16, <3>2, <3>3, <1>t
  <2>12. ASSUME NEW j \in Agent!Conns, j # k, Agent!Starting(j)' PROVE s4[j].of = o /\ atNext # "up"
    <3>1. Agent!Starting(j) /\ Agent!ConnHolds(j)  BY <2>11, <2>12, <1>k DEF Agent!Starting
    <3>2. ~Agent!Starting(k)  BY <2>12, <3>1, <1>s DEF Agent!OneStarts
    <3> QED  BY <2>1, <2>6, <2>7, <3>1, <3>2 DEF Agent!ConnHolds
  <2>13. ASSUME NEW j \in Agent!Conns PROVE Agent!ConnHolds(j)'
    <3>1. CASE j = k
      BY <2>1, <2>4, <2>6, <2>11, <3>1 DEF Agent!ConnHolds, Agent!Starting, Agent!Again
    <3>2. CASE j # k
      <4>1. Agent!ConnHolds(j)  BY <1>k
      <4>2. s4'[j].st # "none" => s4'[j].of \in Agent!Objects /\ s3'[s4'[j].of].at # "none"
        BY <2>1, <2>3, <2>4, <2>6, <2>11, <3>2, <4>1 DEF Agent!ConnHolds
      <4>3. s4'[j].st = "none" => \A p \in Agent!Objects : s3'[p].room # j
        BY <2>3, <2>4, <2>11, <3>2, <4>1 DEF Agent!ConnHolds
      <4>4. s4'[j].st = "joining" => s4'[j].waits # "nobody"
        BY <2>11, <3>2, <4>1 DEF Agent!ConnHolds
      <4>5. Agent!Again(j)' => s3'[s4'[j].of].talks
        BY <2>3, <2>4, <2>11, <3>2, <4>1, <4>2 DEF Agent!ConnHolds, Agent!Again
      <4>6. Agent!Starting(j)' =>
              /\ s3'[s4'[j].of].at # "up"
              /\ s2' = s4'[j].of \/ (s2' = 0 /\ s1' # "live")
              /\ \A p \in Agent!Objects : s3'[p].talks => p = s4'[j].of
        <5>1. SUFFICES ASSUME Agent!Starting(j)'
                       PROVE  /\ s3'[s4'[j].of].at # "up"
                              /\ s2' = s4'[j].of \/ (s2' = 0 /\ s1' # "live")
                              /\ \A p \in Agent!Objects : s3'[p].talks => p = s4'[j].of
          OBVIOUS
        <5>2. s4'[j].of = o /\ s4[j].of = o /\ atNext # "up"  BY <2>11, <2>12, <3>2, <5>1
        <5>3. Agent!Starting(j)  BY <2>11, <3>2, <5>1 DEF Agent!Starting
        <5>4. s2 = o \/ (s2 = 0 /\ s1 # "live")  BY <4>1, <5>2, <5>3 DEF Agent!ConnHolds
        <5> QED  BY <1>v16, <2>3, <2>4, <2>7, <5>2, <5>4
      <4> QED  BY <4>2, <4>3, <4>4, <4>5, <4>6 DEF Agent!ConnHolds
    <3> QED  BY <3>1, <3>2
  <2>14. Agent!OneTalks'  BY <2>3, <2>4, <2>7 DEF Agent!OneTalks
  <2>15. Agent!OneStarts'
    <3>1. ASSUME NEW j \in Agent!Conns, Agent!Starting(j)' PROVE Agent!Starting(j)
      BY <2>11, <3>1 DEF Agent!Starting
    <3> QED  BY <3>1, <1>s DEF Agent!OneStarts
  <2>16. Agent!NoGhost'
    <3>1. s2 = o \/ atNext = "closing"  BY <2>1, <2>5, <2>6 DEF Agent!Registered
    <3> QED  BY <1>v16, <2>4, <2>11, <3>1 DEF Agent!NoGhost
  <2>17. Agent!OfflineIsLast'  BY <1>v16, <2>3, <2>4, <2>6, <1>l
  <2> QED  BY <1>h, <2>10, <2>13, <2>14, <2>15, <2>16, <2>17
\* Steps of no object.
<1>v17. ASSUME NEW k \in Agent!Conns, s4[k].st # "none", s4' = Agent!Out(k), UNCHANGED <<s1, s2, s3, s5, s6>>
        PROVE  Inv'
  <2>1. /\ \A j \in Agent!Conns : j # k => s4'[j] = s4[j]
        /\ s4'[k].st = "out" /\ s4'[k].of = s4[k].of
    BY <1>v17, <1>t DEF Agent!Out
  <2>2. ObjectsQuiet  BY <1>v17
  <2>3. ConnsQuiet  BY <1>v17, <2>1
  <2>4. ASSUME NEW j \in Agent!Conns, s4'[j].st = "in", s4'[j].waits # "abandoned" PROVE Stays(j)
    BY <1>v17, <2>1, <2>4
  <2>5. Quiet  BY <1>v17, <2>2, <2>3, <2>4
  <2>6. \A p \in Agent!Objects : Agent!ObjectHolds(p)' /\ Agent!Registered(p)'  BY <1>v17, <1>p
  <2>7. Agent!OfflineIsLast'  BY <1>v17, <1>s DEF Agent!OfflineIsLast
  <2> HIDE DEF Quiet
  <2> QED  BY <1>h, <1>q, <2>5, <2>6, <2>7
<1>v18. ASSUME NEW k \in Agent!Conns, Agent!JoinsAbandoned(k) PROVE Inv'
  <2>1. /\ s4[k].st = "joining" /\ s4[k].waits = "abandoned"
        /\ s4' = Agent!In(k, "abandoned") /\ UNCHANGED <<s1, s2, s3, s5, s6>>
    BY <1>v18, <1>k DEF Agent!JoinsAbandoned, Agent!ConnHolds
  <2>2. s4'[k] = [s4[k] EXCEPT !.st = "in", !.waits = "abandoned"]  BY <2>1 DEF Agent!In
  <2>3. ASSUME NEW j \in Agent!Conns, j # k
        PROVE  \/ s4[j].st = "in" /\ s4'[j] = [s4[j] EXCEPT !.st = "out"]
               \/ s4[j].st # "in" /\ s4'[j] = s4[j]
    BY <2>1, <2>3 DEF Agent!In
  <2>4. ASSUME NEW j \in Agent!Conns
        PROVE  /\ s4'[j].of = s4[j].of /\ (s4'[j].st = "none" <=> s4[j].st = "none")
               /\ s4'[j].st = "joining" => s4[j].st = "joining" /\ s4'[j].waits = s4[j].waits
               /\ s4'[j].st = "in" => s4'[j].waits = "abandoned"
    <3>1. CASE j = k  BY <2>1, <2>2, <3>1, <1>t
    <3>2. CASE j # k  BY <2>3, <3>2, <1>t
    <3> QED  BY <3>1, <3>2
  <2>5. ObjectsQuiet  BY <2>1
  <2>6. ConnsQuiet  BY <2>4
  <2>7. RoomsQuiet  BY <2>4
  <2>8. Quiet  BY <2>1, <2>5, <2>6, <2>7
  <2>9. \A p \in Agent!Objects : Agent!ObjectHolds(p)' /\ Agent!Registered(p)'  BY <2>1, <1>p
  <2>10. Agent!OfflineIsLast'  BY <2>1, <1>s DEF Agent!OfflineIsLast
  <2> HIDE DEF Quiet
  <2> QED  BY <1>h, <1>q, <2>8, <2>9, <2>10
<1>v19. ASSUME UNCHANGED <<s2, s3, s4, s5>>, s1' # "live", s6' \/ s2 = 0 \/ (s1 # "live" /\ s6' = s6)
        PROVE  Inv'
  <2>1. ObjectsQuiet  BY <1>v19
  <2>2. ConnsQuiet  BY <1>v19
  <2>3. RoomsQuiet  BY <1>v19
  <2>4. Quiet  BY <1>v19, <2>1, <2>2, <2>3
  <2>5. ASSUME NEW p \in Agent!Objects PROVE Agent!ObjectHolds(p)' /\ Agent!Registered(p)'
    <3>1. Agent!ObjectHolds(p) /\ Agent!Registered(p)  BY <1>o
    <3>2. Agent!ObjectHolds(p)'  BY <3>1, <1>v19 DEF Agent!ObjectHolds
    <3>3. Agent!Registered(p)'  BY <3>1, <1>v19, <1>z DEF Agent!Registered
    <3> QED  BY <3>2, <3>3
  <2>6. Agent!OfflineIsLast'  BY <1>v19, <1>s DEF Agent!OfflineIsLast
  <2> HIDE DEF Quiet
  <2> QED  BY <1>h, <1>q, <2>4, <2>5, <2>6
\* The actions.
<1>1. ASSUME NEW k \in Agent!Conns, Agent!Joined(k) PROVE Inv'
  <2>1. s4[k].of \in Agent!Objects  BY <1>1, <1>k DEF Agent!Joined, Agent!ConnHolds
  <2> QED  BY <1>1, <1>v11, <1>v16, <2>1 DEF Agent!Joined
<1>2. ASSUME NEW k \in Agent!Conns, Agent!JoinFails(k) PROVE Inv'
  <2>1. s4[k].of \in Agent!Objects /\ s4[k].st = "joining"  BY <1>2, <1>k DEF Agent!JoinFails, Agent!ConnHolds
  <2>2. s4' = Agent!Out(k) /\ UNCHANGED <<s1, s5, s6>>  BY <1>2 DEF Agent!JoinFails
  <2>3. CASE s4[k].waits = "start"
    <3>1. Agent!NotStarted(s4[k].of)  BY <1>2, <2>3 DEF Agent!JoinFails
    <3>2. (\A j \in Agent!Conns : j # k => s4'[j] = s4[j]) /\ s4'[k].of = s4[k].of /\ s4'[k].st = "out"
      BY <2>2, <1>t DEF Agent!Out
    <3> QED  BY <2>1, <2>2, <2>3, <3>1, <3>2, <1>v10 DEF Agent!Starting
  <2>4. CASE s4[k].waits = "reconnect"
    BY <1>2, <1>v8, <2>1, <2>2, <2>4 DEF Agent!JoinFails, Agent!Again
  <2>5. CASE s4[k].waits \notin {"start", "reconnect"}
    BY <1>2, <1>v17, <2>1, <2>2, <2>5 DEF Agent!JoinFails
  <2> QED  BY <2>3, <2>4, <2>5
<1>3. ASSUME NEW k \in Agent!Conns, Agent!LeaveAbandoned(k) \/ Agent!Drops(k) PROVE Inv'
  BY <1>3, <1>v17 DEF Agent!LeaveAbandoned, Agent!Drops
<1>4. ASSUME NEW o \in Agent!Objects, Agent!StartTimesOut(o) PROVE Inv'
  <2>1. PICK k \in Agent!Conns : /\ s4[k].of = o /\ s4[k].st = "joining" /\ s4[k].waits = "start"
                             /\ s4' = [s4 EXCEPT ![k].waits = "abandoned"]
    BY <1>4 DEF Agent!StartTimesOut, Agent!Abandoned
  <2>2. /\ \A j \in Agent!Conns : j # k => s4'[j] = s4[j]
        /\ s4'[k].of = s4[k].of /\ s4'[k].st = "joining" /\ s4'[k].waits = "abandoned"
    BY <2>1, <1>t
  <2>3. Agent!NotStarted(o) /\ UNCHANGED <<s1, s5, s6>>  BY <1>4 DEF Agent!StartTimesOut
  <2> QED  BY <1>v10, <2>1, <2>2, <2>3 DEF Agent!Starting
<1>5. ASSUME NEW o \in Agent!Objects, Agent!Disconnected(o) PROVE Inv'
  <2>1. s3[o].talks  BY <1>5, <1>o DEF Agent!Disconnected, Agent!ObjectHolds
  <2> QED  BY <1>5, <1>v1, <2>1 DEF Agent!Disconnected
<1>6. ASSUME NEW o \in Agent!Objects, Agent!Token(o) PROVE Inv'
  <2>1. s3[o].talks  BY <1>6, <1>o DEF Agent!Token, Agent!ObjectHolds
  <2>2. CASE Agent!Ends(o)  BY <1>6, <1>v1, <2>1, <2>2 DEF Agent!Token
  <2>3. CASE ~Agent!Ends(o) /\ s1 = "gone"  BY <1>6, <1>v2, <2>3
  <2>4. CASE ~Agent!Ends(o) /\ s1 # "gone"
    <3>1. Agent!Connects(o, "reconnect")  BY <1>6, <2>4 DEF Agent!Token
    <3> QED  BY <1>6, <1>v9, <3>1
  <2> QED  BY <2>2, <2>3, <2>4
<1>7. ASSUME NEW o \in Agent!Objects, Agent!Finalize(o) PROVE Inv'
  <2>1. CASE s3' = s3
    <3>1. UNCHANGED <<s2, s4, s5>> /\ s1' # "live"  BY <1>7 DEF Agent!Finalize
    <3>2. s6'
      <4>1. SUFFICES ASSUME s3' = [s3 EXCEPT ![o].final = "asked", ![o].stopped = TRUE] PROVE s6'
        BY <1>7 DEF Agent!Finalize
      <4>2. s3'[o].final = "asked"  BY <4>1, <1>t
      <4> QED  BY <2>1, <4>2, <1>7, <1>o DEF Agent!Finalize, Agent!Registered
    <3> QED  BY <2>1, <3>1, <3>2, <1>v19
  <2>2. CASE s3' # s3  BY <1>7, <1>v3, <2>2
  <2> QED  BY <2>1, <2>2
<1>8. ASSUME NEW o \in Agent!Objects, Agent!EndsWithoutPass(o) \/ Agent!DeleteSession(o) \/ Agent!Reap(o) PROVE Inv'
  <2>1. s2 = o /\ UNCHANGED <<s4, s5>>  BY <1>8 DEF Agent!EndsWithoutPass, Agent!DeleteSession, Agent!Reap
  <2>2. s1' # "live"
    BY <1>8, <1>o DEF Agent!EndsWithoutPass, Agent!DeleteSession, Agent!Reap, Agent!Registered
  <2>3. Agent!Retire(o) \/ (s6' /\ UNCHANGED <<s2, s3>>)
    BY <1>8 DEF Agent!EndsWithoutPass, Agent!DeleteSession, Agent!Reap
  <2> QED  BY <2>1, <2>2, <2>3, <1>v4, <1>v19
<1>9. CASE Agent!NothingToFinalize \/ Agent!Review
  BY <1>9, <1>v19 DEF Agent!NothingToFinalize, Agent!Review
<1>10. CASE UNCHANGED Agent!vars
  <2>1. UNCHANGED <<s1, s2, s3, s4, s5, s6>>  BY <1>10 DEF Agent!vars
  <2>2. ObjectsQuiet /\ ConnsQuiet /\ RoomsQuiet  BY <2>1
  <2>3. Quiet  BY <2>1, <2>2
  <2>4. \A p \in Agent!Objects : Agent!ObjectHolds(p)' /\ Agent!Registered(p)'  BY <2>1, <1>p
  <2>5. Agent!OfflineIsLast'  BY <2>1, <1>s DEF Agent!OfflineIsLast
  <2> HIDE DEF Quiet
  <2> QED  BY <1>h, <1>q, <2>3, <2>4, <2>5
<1> QED
  BY <1>1, <1>2, <1>3, <1>4, <1>5, <1>6, <1>7, <1>8, <1>9, <1>10, <1>v5, <1>v6, <1>v7, <1>v12, <1>v13,
     <1>v14, <1>v15, <1>v18 DEF Agent!Next

\* When nothing is under way and nothing was lost, no object is registered,
\* and who is in the room would be closing.
LEMMA LeftByAll == Agent!ScribeHolds => Agent!ScribeLeaves
<1> SUFFICES ASSUME Agent!ScribeHolds PROVE Agent!ScribeLeaves
  OBVIOUS
<1>1. SUFFICES ASSUME s1 # "live", ~s6, ~Agent!Busy PROVE s2 = 0 /\ \A k \in Agent!Conns : s4[k].st # "in"
  BY DEF Agent!ScribeHolds, Agent!ScribeLeaves, Agent!RoomIsLeft
<1>2. s2 = 0
  <2>1. SUFFICES ASSUME s2 \in Agent!Objects PROVE FALSE  BY DEF Agent!ScribeHolds, Agent!ScribeTypes
  <2>2. Agent!ObjectHolds(s2) /\ Agent!Registered(s2)  BY <2>1 DEF Agent!ScribeHolds
  <2>3. s3[s2].final \in {"asked", "running", "over"}
    BY <1>1, <2>2 DEF Agent!ObjectHolds, Agent!Registered
  <2> QED  BY <1>1, <2>1, <2>3 DEF Agent!Busy
<1>3. ASSUME NEW k \in Agent!Conns, s4[k].st = "in" PROVE FALSE
  <2>1. s4[k].waits = "nobody"  BY <1>1, <1>3 DEF Agent!Busy
  <2>2. s4[k].of \in Agent!Objects  BY <1>3 DEF Agent!ScribeHolds, Agent!ConnHolds
  <2>3. 0 \notin Agent!Objects  BY DEF Agent!Objects
  <2>4. s3[s4[k].of].at = "closing"  BY <1>2, <1>3, <2>1, <2>2, <2>3 DEF Agent!ScribeHolds, Agent!NoGhost
  <2> QED  BY <1>1, <2>2, <2>4 DEF Agent!Busy
<1> QED  BY <1>2, <1>3

-----------------------------------------------------------------------------
(* A finished recording.                                                    *)
LEMMA ShelfInit == Kept!Init => Kept!ShelfHolds
  BY DEF Kept!Init, Kept!ShelfHolds, Kept!ShelfTypes, Kept!EndToldOnce, Kept!SomewhereOrDeleted

LEMMA ShelfTypesStep == Kept!ShelfTypes /\ [Kept!Next]_(Kept!vars) => Kept!ShelfTypes'
<1> SUFFICES ASSUME Kept!ShelfTypes, [Kept!Next]_(Kept!vars) PROVE Kept!ShelfTypes'
  OBVIOUS
<1> USE DEF Kept!ShelfTypes
<1>1. ASSUME NEW h \in {"complete", "failed"}, Kept!EgressEnds(h) \/ Kept!EgressEnded(h)
      PROVE  Kept!ShelfTypes'
  <2>1. /\ DOMAIN s1' = DOMAIN s1 /\ UNCHANGED <<s4, s6>>
        /\ s5' = s5 \/ s5' = [s5 EXCEPT ![h] = 1] \/ (s5[h] > 0 /\ s5' = [s5 EXCEPT ![h] = s5[h] - 1])
    BY <1>1 DEF Kept!EgressEnds, Kept!EgressEnded
  <2> QED  BY <2>1
<1>2. CASE Kept!EndsLate  BY <1>2 DEF Kept!EndsLate
<1>3. CASE Kept!Transcribe \/ Kept!Transcribed \/ Kept!TranscribeFails
  BY <1>3 DEF Kept!Transcribe, Kept!Transcribed, Kept!TranscribeFails
<1>4. ASSUME NEW c \in Callers, Kept!Publish(c) \/ Kept!CannotRemove(c) PROVE Kept!ShelfTypes'
  BY <1>4 DEF Kept!Publish, Kept!CannotRemove
<1>5. ASSUME NEW c \in Callers, NEW uploaded \in BOOLEAN, Kept!Uploaded(c, uploaded)
      PROVE  Kept!ShelfTypes'
  <2>1. /\ DOMAIN s1' = DOMAIN s1 /\ DOMAIN s6' = DOMAIN s6 /\ s5' = s5
        /\ s4' \in {s4, s4 + 1}
    BY <1>5 DEF Kept!Uploaded
  <2> QED  BY <2>1
<1>6. CASE Kept!DeleteRecording \/ Kept!Expire \/ Kept!Evict
  BY <1>6 DEF Kept!DeleteRecording, Kept!Expire, Kept!Evict, Kept!Removes
<1>7. CASE Kept!Restart \/ UNCHANGED Kept!vars  BY <1>7 DEF Kept!Restart, Kept!vars
<1> HIDE DEF Kept!ShelfTypes
<1> QED  BY <1>1, <1>2, <1>3, <1>4, <1>5, <1>6, <1>7 DEF Kept!Next

(* What is not running has no end to be told of, so that nothing completes  *)
(* a recording that was deleted; and only what has completed is uploaded.   *)
LEMMA ShelfStep == Kept!ShelfHolds /\ [Kept!Next]_(Kept!vars) => Kept!ShelfHolds'
<1> SUFFICES ASSUME Kept!ShelfTypes, Kept!EndToldOnce, Kept!SomewhereOrDeleted,
                    [Kept!Next]_(Kept!vars), ~s8'
             PROVE  Kept!EndToldOnce' /\ Kept!SomewhereOrDeleted'
  BY ShelfTypesStep DEF Kept!ShelfHolds, Kept!EndToldOnce, Kept!SomewhereOrDeleted
<1>t. /\ DOMAIN s1 = {"status", "path", "youtube", "transcript"} /\ DOMAIN s6 = Callers
      /\ DOMAIN s5 = {"complete", "failed"} /\ s5["complete"] \in Nat /\ s5["failed"] \in Nat
      /\ s4 \in Nat
  BY DEF Kept!ShelfTypes
<1>i. ASSUME ~s8
      PROVE  /\ s5["complete"] > 0 => s5["complete"] = 1 /\ s1.status = "running" /\ s2
             /\ s5["failed"] > 0 => s5["failed"] = 1 /\ s1.status = "running"
             /\ s5["complete"] = 0 \/ s5["failed"] = 0
             /\ s1.status = "running" => s1.path /\ \A c \in Callers : s6[c] # "uploading"
             /\ s1.status = "completed" => (s2 /\ s1.path) \/ s4 > 0
             /\ s1.youtube = "published" => s4 > 0
             /\ s2 => s1.path
  BY <1>i DEF Kept!EndToldOnce, Kept!SomewhereOrDeleted
<1>e. ASSUME s5'["complete"] > 0 => s5'["complete"] = 1 /\ s1'.status = "running" /\ s2',
             s5'["failed"] > 0 => s5'["failed"] = 1 /\ s1'.status = "running",
             s5'["complete"] = 0 \/ s5'["failed"] = 0,
             s1'.status = "running" => s1'.path /\ \A c \in Callers : s6'[c] # "uploading"
      PROVE  Kept!EndToldOnce'
  BY <1>e DEF Kept!EndToldOnce
<1>s. ASSUME s1'.status = "completed" => (s2' /\ s1'.path) \/ s4' > 0,
             s1'.youtube = "published" => s4' > 0, s2' => s1'.path
      PROVE  Kept!SomewhereOrDeleted'
  BY <1>s DEF Kept!SomewhereOrDeleted
<1>1. ASSUME NEW h \in {"complete", "failed"}, Kept!EgressEnds(h)
      PROVE  Kept!EndToldOnce' /\ Kept!SomewhereOrDeleted'
  <2>1. /\ s1.status = "running" /\ ~s8 /\ UNCHANGED <<s1, s4, s6>>
        /\ s5["complete"] = 0 /\ s5["failed"] = 0 /\ s5' = [s5 EXCEPT ![h] = 1]
    BY <1>1, <1>t DEF Kept!EgressEnds, Kept!Running
  <2>2. s2' = (h = "complete")  BY <1>1 DEF Kept!EgressEnds
  <2>3. h = "complete" => s2'  BY <2>2, Zenon
  <2>4. s1.path /\ \A c \in Callers : s6[c] # "uploading"  BY <2>1, <1>i
  <2>5. Kept!EndToldOnce'
    <3>1. CASE h = "complete"  BY <2>1, <2>3, <2>4, <3>1, <1>t, <1>e
    <3>2. CASE h = "failed"  BY <2>1, <2>4, <3>2, <1>t, <1>e
    <3> QED  BY <3>1, <3>2
  <2>6. Kept!SomewhereOrDeleted'  BY <2>1, <2>4, <1>i, <1>s
  <2> QED  BY <2>5, <2>6
<1>2. CASE Kept!EndsLate  BY <1>2 DEF Kept!EndsLate
<1>3. ASSUME NEW h \in {"complete", "failed"}, Kept!EgressEnded(h)
      PROVE  Kept!EndToldOnce' /\ Kept!SomewhereOrDeleted'
  <2>1. s5[h] > 0 /\ s5' = [s5 EXCEPT ![h] = s5[h] - 1] /\ s8' = s8 /\ UNCHANGED <<s2, s4, s6>>
    BY <1>3 DEF Kept!EgressEnded
  <2>2. /\ s1'.path = s1.path /\ s1'.youtube = s1.youtube
        /\ (h = "failed" /\ s1'.status = "failed") \/ (h = "complete" /\ s1'.status = "completed")
    BY <1>3, <1>t DEF Kept!EgressEnded
  <2>3. s1.status = "running" /\ s1.path /\ s5[h] = 1 /\ (h = "complete" => s2)
    BY <2>1, <1>i
  <2>4. s5'["complete"] = 0 /\ s5'["failed"] = 0
    <3>1. CASE h = "complete"  BY <2>1, <2>3, <3>1, <1>t, <1>i
    <3>2. CASE h = "failed"  BY <2>1, <2>3, <3>2, <1>t, <1>i
    <3> QED  BY <3>1, <3>2
  <2>5. Kept!EndToldOnce'  BY <2>2, <2>4, <1>e
  <2>6. Kept!SomewhereOrDeleted'  BY <2>1, <2>2, <2>3, <1>i, <1>s
  <2> QED  BY <2>5, <2>6
\* Steps that leave the ends alone, and start nothing.
<1>k. ASSUME ~s8, UNCHANGED s5, s1'.status = s1.status \/ (s1'.status # "running" /\ s1.status # "running"),
             s1'.path = s1.path \/ s1.status # "running",
             s2' = s2 \/ s1.status # "running",
             \A c \in Callers : s6'[c] = "uploading" => s6[c] = "uploading" \/ s1.status # "running"
      PROVE  Kept!EndToldOnce'
  BY <1>k, <1>t, <1>i, <1>e
<1>4. CASE Kept!Transcribe \/ Kept!Transcribed \/ Kept!TranscribeFails
  <2>1. /\ s1'.status = s1.status /\ s1'.path = s1.path /\ s1'.youtube = s1.youtube
        /\ ~s8 /\ UNCHANGED <<s2, s4, s5, s6>>
    BY <1>4, <1>t DEF Kept!Transcribe, Kept!Transcribed, Kept!TranscribeFails
  <2> QED  BY <2>1, <1>i, <1>k, <1>s
<1>5. ASSUME NEW c \in Callers, Kept!Publish(c) PROVE Kept!EndToldOnce' /\ Kept!SomewhereOrDeleted'
  <2>1. /\ s1.status = "completed" /\ s1'.status = s1.status /\ s1'.path = s1.path
        /\ s1'.youtube = "uploading" /\ ~s8 /\ UNCHANGED <<s2, s4, s5>>
    BY <1>5, <1>t DEF Kept!Publish, Kept!Publishable
  <2> QED  BY <2>1, <1>i, <1>k, <1>s
<1>6. ASSUME NEW c \in Callers, NEW uploaded \in BOOLEAN, Kept!Uploaded(c, uploaded)
      PROVE  Kept!EndToldOnce' /\ Kept!SomewhereOrDeleted'
  <2>1. /\ s6[c] = "uploading" /\ ~s8 /\ UNCHANGED s5 /\ s1'.status = s1.status
        /\ s4' = s4 \/ s4' = s4 + 1
    BY <1>6, <1>t DEF Kept!Uploaded
  <2>2. s1.status # "running"  BY <2>1, <1>i
  <2>3. \A d \in Callers : s6'[d] = "uploading" => s6[d] = "uploading"
    BY <1>6, <1>t DEF Kept!Uploaded
  <2>4. CASE uploaded
    <3>1. s2' = (s2 /\ ~uploaded) /\ s1'.path = (s1.path /\ ~uploaded)
      BY <1>6, <1>t DEF Kept!Uploaded, Kept!FileGoes
    <3>2. ~s2' /\ ~s1'.path  BY <2>4, <3>1, Zenon
    <3>3. s4' > 0  BY <1>6, <2>4, <1>t DEF Kept!Uploaded
    <3> QED  BY <2>1, <2>2, <2>3, <3>2, <3>3, <1>k, <1>s
  <2>5. CASE ~uploaded
    <3>1. s2' = (s2 /\ ~uploaded) /\ s1'.path = (s1.path /\ ~uploaded)
      BY <1>6, <1>t DEF Kept!Uploaded, Kept!FileGoes
    <3>2. (s2 => s2') /\ (s2' => s2) /\ (s1.path => s1'.path)  BY <2>5, <3>1, Zenon
    <3>3. s1'.youtube = "failed"  BY <1>6, <2>5, <1>t DEF Kept!Uploaded
    <3>4. s4 > 0 => s4' > 0  BY <2>1, <1>t
    <3> QED  BY <2>1, <2>2, <2>3, <3>2, <3>3, <3>4, <1>i, <1>k, <1>s
  <2> QED  BY <2>4, <2>5
<1>7. ASSUME NEW c \in Callers, Kept!CannotRemove(c) PROVE Kept!EndToldOnce' /\ Kept!SomewhereOrDeleted'
  <2>1. /\ s6[c] = "uploading" /\ ~s8 /\ UNCHANGED <<s2, s5>> /\ s1'.status = s1.status
        /\ s1'.path = s1.path /\ s4' = s4 + 1
        /\ \A d \in Callers : s6'[d] = "uploading" => s6[d] = "uploading"
    BY <1>7, <1>t DEF Kept!CannotRemove
  <2>2. s4' > 0  BY <2>1, <1>t
  <2> QED  BY <2>1, <2>2, <1>i, <1>k, <1>s
<1>8. CASE Kept!DeleteRecording \/ Kept!Expire \/ Kept!Evict
  <2>1. /\ s1'.status = "deleted" /\ s1'.path = FALSE /\ s1'.youtube = s1.youtube
        /\ UNCHANGED <<s4, s5, s6>>
    BY <1>8, <1>t DEF Kept!DeleteRecording, Kept!Expire, Kept!Evict, Kept!Removes
  <2>2. s2' = (s2 /\ ~s1.path)
    BY <1>8 DEF Kept!DeleteRecording, Kept!Expire, Kept!Evict, Kept!Removes
  <2>3. s8' = (s8 \/ s1.status = "running") \/ (s8' = s8 /\ s1.status = "completed")
    BY <1>8 DEF Kept!DeleteRecording, Kept!Expire, Kept!Evict
  <2>5. ~s8 /\ s1.status # "running"
    <3>1. CASE s8' = (s8 \/ s1.status = "running")
      <4>1. ~(s8 \/ s1.status = "running")  BY <3>1, Zenon
      <4> QED  BY <4>1
    <3>2. CASE s8' = s8 /\ s1.status = "completed"
      <4>1. ~s8  BY <3>2, Zenon
      <4> QED  BY <3>2, <4>1
    <3> QED  BY <2>3, <3>1, <3>2
  <2>6. s2 => s1.path  BY <2>5, <1>i
  <2>7. ~s2'  BY <2>2, <2>6, Zenon
  <2> QED  BY <2>1, <2>5, <2>7, <1>i, <1>k, <1>s
<1>9. CASE Kept!Restart \/ UNCHANGED Kept!vars
  <2>1. /\ ~s8 /\ UNCHANGED <<s1, s2, s4, s5>>
        /\ \A d \in Callers : s6'[d] = "uploading" => s6[d] = "uploading"
    BY <1>9 DEF Kept!Restart, Kept!vars
  <2> QED  BY <2>1, <1>i, <1>k, <1>s
<1> QED  BY <1>1, <1>2, <1>3, <1>4, <1>5, <1>6, <1>7, <1>8, <1>9 DEF Kept!Next

-----------------------------------------------------------------------------
(* The videos of the playlist: first the bytes that a range names.          *)
LEMMA RangeNamed ==
  ASSUME NEW r \in Videos!Asks, NEW size \in {0, Some}
  PROVE  LET p == Videos!Parse(r, size)
         IN  /\ p # Videos!Refused => /\ p[1] \in Nat /\ p[2] \in Int /\ p[1] <= p[2] + 1
                                      /\ Videos!Named(r, size) = p[1]..p[2]
             /\ p = Videos!Refused => Videos!Named(r, size) = {}
<1> DEFINE p == Videos!Parse(r, size)
<1>0. size \in Nat  BY BoundsAssumption
<1>1. CASE r.kind = "part"
  <2>1. r.a \in Nat /\ r.b \in Nat  BY <1>1, BoundsAssumption DEF Videos!Asks, Videos!Ask
  <2>2. Videos!Named(r, size) = {b \in 0..size - 1 : r.a <= b /\ b <= r.b}
    BY <1>1 DEF Videos!Named
  <2>3. CASE r.b < r.a \/ r.a >= size
    <3>1. p = Videos!Refused  BY <1>1, <2>3 DEF Videos!Parse
    <3>2. Videos!Named(r, size) = {}  BY <2>1, <2>2, <2>3, <1>0
    <3> QED  BY <3>1, <3>2
  <2>4. CASE ~(r.b < r.a \/ r.a >= size)
    <3> DEFINE last == IF r.b < size THEN r.b ELSE size - 1
    <3>1. p = <<r.a, last>>  BY <1>1, <2>4 DEF Videos!Parse
    <3>2. last \in Int /\ r.a <= last /\ last <= r.b /\ last <= size - 1 /\ (last = r.b \/ last = size - 1)
      BY <2>1, <2>4, <1>0
    <3>3. Videos!Named(r, size) = r.a..last  BY <2>1, <2>2, <3>2, <1>0
    <3>4. p # Videos!Refused  BY <2>1, <3>1, <3>2 DEF Videos!Refused
    <3> QED  BY <2>1, <3>1, <3>2, <3>3, <3>4
  <2> QED  BY <2>3, <2>4
<1>2. CASE r.kind = "from"
  <2>1. r.a \in Nat  BY <1>2, BoundsAssumption DEF Videos!Asks, Videos!Ask
  <2>2. Videos!Named(r, size) = {b \in 0..size - 1 : r.a <= b}
    BY <1>2 DEF Videos!Named
  <2>3. CASE r.a >= size
    <3>1. p = Videos!Refused  BY <1>2, <2>3 DEF Videos!Parse
    <3>2. Videos!Named(r, size) = {}  BY <2>1, <2>2, <2>3, <1>0
    <3> QED  BY <3>1, <3>2
  <2>4. CASE r.a < size
    <3>1. p = <<r.a, size - 1>>  BY <1>2, <2>1, <2>4, <1>0 DEF Videos!Parse
    <3>2. Videos!Named(r, size) = r.a..size - 1  BY <2>1, <2>2, <1>0
    <3>3. p # Videos!Refused  BY <2>1, <2>4, <3>1, <1>0 DEF Videos!Refused
    <3> QED  BY <2>1, <2>4, <3>1, <3>2, <3>3, <1>0
  <2> QED  BY <2>1, <2>3, <2>4, <1>0
<1>3. CASE r.kind = "last"
  <2>1. r.a \in Nat  BY <1>3, BoundsAssumption DEF Videos!Asks, Videos!Ask
  <2>2. Videos!Named(r, size) = {b \in 0..size - 1 : b >= size - r.a}
    BY <1>3 DEF Videos!Named
  <2>3. CASE r.a = 0
    <3>1. p = Videos!Refused  BY <1>3, <2>3 DEF Videos!Parse
    <3>2. Videos!Named(r, size) = {}  BY <2>1, <2>2, <2>3, <1>0
    <3> QED  BY <3>1, <3>2
  <2>4. CASE r.a # 0
    <3> DEFINE first == IF r.a > size THEN 0 ELSE size - r.a
    <3>1. p = <<first, size - 1>>  BY <1>3, <2>4 DEF Videos!Parse
    <3>2. first \in Nat /\ first <= size /\ (first = size - r.a \/ (first = 0 /\ size - r.a < 0))
      BY <2>1, <1>0
    <3>3. Videos!Named(r, size) = first..size - 1  BY <2>1, <2>2, <3>2, <1>0
    <3>4. p # Videos!Refused  BY <3>1, <1>0 DEF Videos!Refused
    <3> QED  BY <3>1, <3>2, <3>3, <3>4, <1>0
  <2> QED  BY <2>3, <2>4
<1>4. CASE r.kind = "whole"
  <2>1. p = <<0, size - 1>>  BY <1>4 DEF Videos!Parse
  <2>2. Videos!Named(r, size) = 0..size - 1  BY <1>4, <1>0 DEF Videos!Named
  <2>3. p # Videos!Refused  BY <2>1, <1>0 DEF Videos!Refused
  <2> QED  BY <2>1, <2>2, <2>3, <1>0
<1>5. CASE r.kind \notin {"part", "from", "last", "whole"}
  BY <1>5 DEF Videos!Parse, Videos!Named
<1> QED  BY <1>1, <1>2, <1>3, <1>4, <1>5

\* One piece after the other.
LEMMA PieceAfter ==
  ASSUME NEW a \in Int, NEW m \in Nat, NEW n \in Nat
  PROVE  [i \in 1..m |-> a + i - 1] \o [i \in 1..n |-> a + m + i - 1] = [i \in 1..m + n |-> a + i - 1]
<1> DEFINE f == [i \in 1..m |-> a + i - 1]
           g == [i \in 1..n |-> a + m + i - 1]
           h == [i \in 1..m + n |-> a + i - 1]
<1>1. f \in Seq(Int) /\ g \in Seq(Int) /\ Len(f) = m /\ Len(g) = n  OBVIOUS
<1>2. f \o g \in Seq(Int) /\ Len(f \o g) = m + n  BY <1>1
<1>3. h \in Seq(Int) /\ Len(h) = m + n  OBVIOUS
<1>4. ASSUME NEW i \in 1..m + n PROVE (f \o g)[i] = h[i]
  <2>1. CASE i <= m  BY <1>1, <2>1
  <2>2. CASE i > m  BY <1>1, <2>2
  <2> QED  BY <2>1, <2>2
<1> QED  BY <1>2, <1>3, <1>4

LEMMA LibraryInit == Videos!Init => Videos!LibraryHolds
<1> SUFFICES ASSUME Videos!Init PROVE Videos!LibraryHolds
  OBVIOUS
<1>1. PICK l \in Videos!Lengths, n \in {0, Some} :
        s2 = [there |-> TRUE, length |-> l, size |-> n] /\ s1 \in {l, Videos!Unknown}
  BY DEF Videos!Init
<1>2. /\ s3 = [i \in Copies |-> Videos!Absent] /\ s5 = [k \in Callers |-> Videos!Idle]
      /\ s6.phase = "none" /\ ~s7
  BY DEF Videos!Init, Videos!NoReader
<1>3. Videos!LibraryTypes  BY <1>1, <1>2 DEF Videos!LibraryTypes, Videos!Idle, Videos!NoReader, Videos!Init
<1>4. Videos!LengthsAgree
  BY <1>1, <1>2 DEF Videos!LengthsAgree, Videos!Idle, Videos!Lengths, Videos!Absent
<1>5. Videos!FilesStay  BY <1>1, <1>2 DEF Videos!FilesStay, Videos!Linked
<1>6. Videos!ReadInOrder  BY <1>2 DEF Videos!ReadInOrder
<1> QED  BY <1>3, <1>4, <1>5, <1>6 DEF Videos!LibraryHolds

LEMMA LibraryTypesStep == Videos!LibraryTypes /\ [Videos!Next]_(Videos!vars) => Videos!LibraryTypes'
<1> SUFFICES ASSUME Videos!LibraryTypes, [Videos!Next]_(Videos!vars) PROVE Videos!LibraryTypes'
  OBVIOUS
<1> USE DEF Videos!LibraryTypes
<1>1. ASSUME NEW k \in Callers, Videos!Probe(k) \/ Videos!Backfill(k) \/ Videos!Delete(k) \/ Videos!Deleted(k)
      PROVE  Videos!LibraryTypes'
  BY <1>1 DEF Videos!Probe, Videos!Backfill, Videos!Delete, Videos!Deleted, Videos!Idle
<1>2. ASSUME NEW k \in Callers, Videos!Copy(k) \/ Videos!CopyProbed(k) PROVE Videos!LibraryTypes'
  BY <1>2 DEF Videos!Copy, Videos!CopyProbed, Videos!Idle
<1>3. ASSUME NEW k \in Callers, Videos!Insert(k) \/ Videos!Unlink(k) PROVE Videos!LibraryTypes'
  BY <1>3 DEF Videos!Insert, Videos!Unlink, Videos!Idle
<1>4. CASE \/ Videos!DeleteLink \/ Videos!Change \/ Videos!Fetch \/ Videos!OpenFile \/ Videos!ReadPiece
           \/ Videos!Stream \/ Videos!StreamEnds \/ Videos!ProcEnds \/ Videos!Leave \/ UNCHANGED Videos!vars
  BY <1>4 DEF Videos!DeleteLink, Videos!Change, Videos!Fetch, Videos!OpenFile, Videos!ReadPiece,
     Videos!Stream, Videos!StreamEnds, Videos!ProcEnds, Videos!Leave, Videos!vars, Videos!NoReader
<1> HIDE DEF Videos!LibraryTypes
<1> QED  BY <1>1, <1>2, <1>3, <1>4 DEF Videos!Next

(* What a step does to the file, the video's row and the calls: the length  *)
(* and the size of the file stay, and the reader's steps change none.       *)
LEMMA FileStays == Videos!LibraryTypes /\ [Videos!Next]_(Videos!vars) =>
  s2'.length = s2.length /\ s2'.size = s2.size
<1> SUFFICES ASSUME Videos!LibraryTypes, [Videos!Next]_(Videos!vars)
             PROVE  s2'.length = s2.length /\ s2'.size = s2.size
  OBVIOUS
<1>1. s2' = s2 \/ s2' = [s2 EXCEPT !.there = FALSE]
  BY DEF Videos!Next, Videos!Probe, Videos!Backfill, Videos!Copy, Videos!CopyProbed, Videos!Insert,
     Videos!Delete, Videos!Unlink, Videos!Deleted, Videos!DeleteLink, Videos!Change, Videos!Fetch,
     Videos!OpenFile, Videos!ReadPiece, Videos!Stream, Videos!StreamEnds, Videos!ProcEnds, Videos!Leave,
     Videos!vars
<1> QED  BY <1>1 DEF Videos!LibraryTypes

ReaderSteps == \/ Videos!Change \/ Videos!Fetch \/ Videos!OpenFile \/ Videos!ReadPiece
               \/ Videos!Stream \/ Videos!StreamEnds \/ Videos!ProcEnds \/ Videos!Leave
               \/ UNCHANGED Videos!vars
LEMMA ReadersOnly == ReaderSteps => UNCHANGED <<s1, s2, s3, s5, s8>>
  BY DEF ReaderSteps, Videos!Change, Videos!Fetch, Videos!OpenFile, Videos!ReadPiece, Videos!Stream,
     Videos!StreamEnds, Videos!ProcEnds, Videos!Leave, Videos!vars

LEMMA LengthsAgreeStep ==
  Videos!LibraryTypes /\ Videos!LengthsAgree /\ [Videos!Next]_(Videos!vars) => Videos!LengthsAgree'
<1> SUFFICES ASSUME Videos!LibraryTypes, Videos!LengthsAgree, [Videos!Next]_(Videos!vars)
             PROVE  Videos!LengthsAgree'
  OBVIOUS
<1>0. s2'.length = s2.length  BY FileStays
<1>t. /\ DOMAIN s3 = Copies /\ DOMAIN s5 = Callers /\ \A k \in Callers : DOMAIN s5[k] = {"op", "length"}
      /\ s2.length \in {"short", "long"}
  BY DEF Videos!LibraryTypes, Videos!Lengths
<1> USE DEF Videos!LengthsAgree, Videos!Absent, Videos!Unknown
<1>1. ASSUME NEW k \in Callers, Videos!Probe(k) PROVE Videos!LengthsAgree'
  BY <1>0, <1>t, <1>1 DEF Videos!Probe, Videos!Probed
<1>2. ASSUME NEW k \in Callers, Videos!Backfill(k) PROVE Videos!LengthsAgree'
  BY <1>0, <1>t, <1>2 DEF Videos!Backfill, Videos!Idle
<1>3. ASSUME NEW k \in Callers, Videos!Copy(k) PROVE Videos!LengthsAgree'
  <2>1. UNCHANGED <<s1, s3>>  BY <1>3 DEF Videos!Copy
  <2>2. PICK op \in {"insert", "copy"}, l \in {s2.length, "unknown"} :
                     /\ s5' = [s5 EXCEPT ![k] = [op |-> op, length |-> l]]
                     /\ (op = "copy" => l = s2.length)
                     /\ (s1 = "unknown" /\ op = "insert" => l = "unknown")
    <3>1. CASE s1 \notin {"absent", "unknown"}  BY <1>3, <3>1 DEF Videos!Copy
    <3>2. CASE s1 = "unknown"
      <4>1. PICK l \in Videos!Probed :
              s5' = [s5 EXCEPT ![k] = [op |-> IF l = "unknown" THEN "insert" ELSE "copy", length |-> l]]
        BY <1>3, <3>2 DEF Videos!Copy
      <4>2. CASE l = "unknown"
        <5>1. s5' = [s5 EXCEPT ![k] = [op |-> "insert", length |-> l]]  BY <4>1, <4>2
        <5> QED  BY <4>2, <5>1
      <4>3. CASE l # "unknown"
        <5>1. s5' = [s5 EXCEPT ![k] = [op |-> "copy", length |-> l]]  BY <4>1, <4>3
        <5>2. l = s2.length  BY <4>3 DEF Videos!Probed
        <5> QED  BY <5>1, <5>2
      <4> QED  BY <4>2, <4>3
    <3>3. CASE s1 = "absent"
      <4>1. PICK i \in Videos!Linked : s5' = [s5 EXCEPT ![k] = [op |-> "insert", length |-> s3[i]]]
        BY <1>3, <3>3 DEF Videos!Copy
      <4>2. s3[i] \in {s2.length, "unknown"}  BY <4>1 DEF Videos!Linked
      <4> QED  BY <3>3, <4>1, <4>2
    <3> QED  BY <3>1, <3>2, <3>3
  <2> QED  BY <1>0, <1>t, <2>1, <2>2
<1>4. ASSUME NEW k \in Callers, Videos!CopyProbed(k) PROVE Videos!LengthsAgree'
  BY <1>0, <1>t, <1>4 DEF Videos!CopyProbed, Videos!Idle
<1>5. ASSUME NEW k \in Callers, Videos!Insert(k) PROVE Videos!LengthsAgree'
  BY <1>0, <1>t, <1>5 DEF Videos!Insert, Videos!Idle, Videos!Linked
<1>6. ASSUME NEW k \in Callers, Videos!Delete(k) \/ Videos!Unlink(k) \/ Videos!Deleted(k)
      PROVE  Videos!LengthsAgree'
  BY <1>0, <1>t, <1>6 DEF Videos!Delete, Videos!Unlink, Videos!Deleted, Videos!Idle
<1>7. CASE Videos!DeleteLink  BY <1>0, <1>t, <1>7 DEF Videos!DeleteLink, Videos!Linked
<1>8. CASE ReaderSteps  BY <1>0, <1>8, ReadersOnly
<1> HIDE DEF Videos!LengthsAgree
<1> QED  BY <1>1, <1>2, <1>3, <1>4, <1>5, <1>6, <1>7, <1>8 DEF Videos!Next, ReaderSteps

LEMMA FilesStayStep ==
  Videos!LibraryTypes /\ Videos!LengthsAgree /\ Videos!FilesStay /\ [Videos!Next]_(Videos!vars)
    => Videos!FilesStay'
<1> SUFFICES ASSUME Videos!LibraryTypes, Videos!LengthsAgree, Videos!FilesStay, [Videos!Next]_(Videos!vars)
             PROVE  Videos!FilesStay'
  OBVIOUS
<1>t. /\ DOMAIN s2 = {"there", "length", "size"} /\ DOMAIN s3 = Copies /\ DOMAIN s5 = Callers
      /\ \A k \in Callers : DOMAIN s5[k] = {"op", "length"}
      /\ s2.length \in {"short", "long"}
  BY DEF Videos!LibraryTypes, Videos!Lengths
<1>f. ASSUME ~s2.there PROVE s1 = "absent" \/ \E k \in Callers : s5[k].op = "unlinked"
  BY <1>f DEF Videos!FilesStay, Videos!Absent
<1>l. ASSUME Videos!Linked # {}, ~s8
      PROVE  s1 # "absent" /\ s2.there /\ \A k \in Callers : s5[k].op \notin {"delete", "unlinked"}
  BY <1>l DEF Videos!FilesStay, Videos!Deleting, Videos!Absent
<1>g. ASSUME ~s2'.there => s1' = "absent" \/ \E k \in Callers : s5'[k].op = "unlinked",
             Videos!Linked' # {} =>
               s8' \/ (s1' # "absent" /\ s2'.there /\ \A k \in Callers : s5'[k].op \notin {"delete", "unlinked"})
      PROVE  Videos!FilesStay'
  BY <1>g DEF Videos!FilesStay, Videos!Deleting, Videos!Absent
\* A step that neither deletes, nor adds a link.
<1>k. ASSUME s2' = s2, s8' = s8, Videos!Linked' \subseteq Videos!Linked, s1' = "absent" <=> s1 = "absent",
             \A k \in Callers : s5[k].op = "unlinked" => s5'[k].op = "unlinked",
             \A k \in Callers : s5'[k].op \in {"delete", "unlinked"} => s5[k].op \in {"delete", "unlinked"}
      PROVE  Videos!FilesStay'
  <2>1. ~s2'.there => s1' = "absent" \/ \E k \in Callers : s5'[k].op = "unlinked"
    BY <1>f, <1>k
  <2>2. ASSUME Videos!Linked' # {}, ~s8'
        PROVE  s1' # "absent" /\ s2'.there /\ \A k \in Callers : s5'[k].op \notin {"delete", "unlinked"}
    BY <1>k, <1>l, <2>2
  <2> QED  BY <1>g, <2>1, <2>2
<1>1. ASSUME NEW k \in Callers, Videos!Probe(k) \/ Videos!Copy(k) PROVE Videos!FilesStay'
  <2>1. UNCHANGED <<s1, s2, s3, s8>>  BY <1>1 DEF Videos!Probe, Videos!Copy
  <2>2. /\ s5[k].op = "none" /\ s5'[k].op \in {"probe", "insert", "copy"}
        /\ \A j \in Callers : j # k => s5'[j] = s5[j]
    BY <1>1, <1>t DEF Videos!Probe, Videos!Copy, Videos!Idle
  <2>3. Videos!Linked' = Videos!Linked  BY <2>1 DEF Videos!Linked
  <2> QED  BY <2>1, <2>2, <2>3, <1>k
<1>2. ASSUME NEW k \in Callers, Videos!Backfill(k) \/ Videos!CopyProbed(k) PROVE Videos!FilesStay'
  <2>1. /\ s2' = s2 /\ s8' = s8 /\ s5[k].op \in {"probe", "copy"} /\ s5'[k].op \in {"none", "insert"}
        /\ \A j \in Callers : j # k => s5'[j] = s5[j]
    BY <1>2, <1>t DEF Videos!Backfill, Videos!CopyProbed, Videos!Idle
  <2>2. s1' = s1 \/ (s1 # "absent" /\ s1' = s2.length)
    BY <1>2 DEF Videos!Backfill, Videos!CopyProbed, Videos!LengthsAgree, Videos!Absent, Videos!Unknown
  <2>3. Videos!Linked' \subseteq Videos!Linked
    BY <1>2, <1>t DEF Videos!Backfill, Videos!CopyProbed, Videos!Linked, Videos!Absent, Videos!Unknown
  <2> QED  BY <2>1, <2>2, <2>3, <1>t, <1>k
<1>3. ASSUME NEW k \in Callers, Videos!Insert(k) PROVE Videos!FilesStay'
  <2>1. /\ UNCHANGED <<s1, s2>> /\ s5[k].op = "insert" /\ s5'[k].op = "none"
        /\ \A j \in Callers : j # k => s5'[j] = s5[j]
    BY <1>3, <1>t DEF Videos!Insert, Videos!Idle
  <2>2. s8' = (s8 \/ s1 = "absent" \/ \E j \in Callers : s5[j].op \in {"delete", "unlinked"})
    BY <1>3 DEF Videos!Insert, Videos!Absent
  <2>3. ASSUME ~s8'
        PROVE  s1' # "absent" /\ s2'.there /\ \A j \in Callers : s5'[j].op \notin {"delete", "unlinked"}
    <3>1. ~(s8 \/ s1 = "absent" \/ \E j \in Callers : s5[j].op \in {"delete", "unlinked"})
      BY <2>2, <2>3, Zenon
    <3> QED  BY <2>1, <3>1, <1>f
  <2>4. ~s2'.there => s1' = "absent" \/ \E j \in Callers : s5'[j].op = "unlinked"
    BY <2>1, <1>f
  <2> QED  BY <2>3, <2>4, <1>g
<1>4. ASSUME NEW k \in Callers, Videos!Delete(k) PROVE Videos!FilesStay'
  <2>1. /\ UNCHANGED <<s1, s2, s3, s8>> /\ s5[k].op = "none"
        /\ \A j \in Callers : j # k => s5'[j] = s5[j]
    BY <1>4, <1>t DEF Videos!Delete, Videos!Idle
  <2>2. Videos!Linked' = {}  BY <1>4 DEF Videos!Delete, Videos!Referenced, Videos!Linked
  <2>3. ~s2'.there => s1' = "absent" \/ \E j \in Callers : s5'[j].op = "unlinked"
    BY <2>1, <1>f
  <2> QED  BY <2>2, <2>3, <1>g
<1>5. ASSUME NEW k \in Callers, Videos!Unlink(k) \/ Videos!Deleted(k) PROVE Videos!FilesStay'
  <2>1. /\ UNCHANGED <<s3, s8>> /\ s5[k].op \in {"delete", "unlinked"}
        /\ s5'[k].op = "unlinked" \/ s1' = "absent"
    BY <1>5, <1>t DEF Videos!Unlink, Videos!Deleted, Videos!Absent
  <2>2. Videos!Linked' = Videos!Linked  BY <2>1 DEF Videos!Linked
  <2> QED  BY <2>1, <2>2, <1>l, <1>g
<1>6. CASE Videos!DeleteLink
  <2>1. UNCHANGED <<s1, s2, s5, s8>>  BY <1>6 DEF Videos!DeleteLink
  <2>2. Videos!Linked' \subseteq Videos!Linked  BY <1>6, <1>t DEF Videos!DeleteLink, Videos!Linked
  <2> QED  BY <2>1, <2>2, <1>k
<1>7. CASE ReaderSteps
  <2>1. UNCHANGED <<s1, s2, s3, s5, s8>>  BY <1>7, ReadersOnly
  <2>2. Videos!Linked' = Videos!Linked  BY <2>1 DEF Videos!Linked
  <2> QED  BY <2>1, <2>2, <1>k
<1> QED  BY <1>1, <1>2, <1>3, <1>4, <1>5, <1>6, <1>7 DEF Videos!Next, ReaderSteps

LEMMA ReadInOrderStep ==
  Videos!LibraryTypes /\ Videos!ReadInOrder /\ [Videos!Next]_(Videos!vars) => Videos!ReadInOrder'
<1> SUFFICES ASSUME Videos!LibraryTypes, Videos!ReadInOrder, [Videos!Next]_(Videos!vars)
             PROVE  Videos!ReadInOrder'
  OBVIOUS
<1>0. s2'.size = s2.size /\ s2.size \in {0, Some} /\ Few \in Nat /\ Few >= 1
  BY FileStays, BoundsAssumption DEF Videos!LibraryTypes
<1> DEFINE Asked(r) == Videos!Parse(r, s2.size)
           InOrder(q) ==
             /\ q.ask \in Videos!Asks /\ Asked(q.ask) # Videos!Refused /\ q.end = Asked(q.ask)[2]
             /\ q.at \in Asked(q.ask)[1]..Asked(q.ask)[2] + 1
             /\ q.got = [i \in 1..q.at - Asked(q.ask)[1] |-> Asked(q.ask)[1] + i - 1]
<1>1. /\ s6.phase \in {"asked", "reading", "done"} => InOrder(s6)
      /\ s6.phase = "done" => s6.at = s6.end + 1
      /\ s6.phase = "refused" => s6.ask \in Videos!Asks /\ Asked(s6.ask) = Videos!Refused
      /\ s7 => s6.phase = "streams"
  BY DEF Videos!ReadInOrder
<1>2. ASSUME s6'.phase \in {"asked", "reading", "done"} => InOrder(s6'),
             s6'.phase = "done" => s6'.at = s6'.end + 1,
             s6'.phase = "refused" => s6'.ask \in Videos!Asks /\ Asked(s6'.ask) = Videos!Refused,
             s7' => s6'.phase = "streams"
      PROVE  Videos!ReadInOrder'
  BY <1>0, <1>2 DEF Videos!ReadInOrder, Videos!Parse
<1>3. CASE UNCHANGED <<s6, s7>>  BY <1>1, <1>2, <1>3
<1>4. CASE Videos!Fetch
  <2>1. PICK r \in Videos!Asks :
          s6' = [phase |-> IF Asked(r) = Videos!Refused THEN "refused" ELSE "asked", ask |-> r,
                 at |-> Asked(r)[1], end |-> Asked(r)[2], got |-> <<>>]
    BY <1>4 DEF Videos!Fetch
  <2>2. s7' = s7 /\ s6.phase = "none"  BY <1>4 DEF Videos!Fetch
  <2> HIDE DEF Asked
  <2>3. CASE Asked(r) = Videos!Refused
    <3>1. s6'.phase = "refused" /\ s6'.ask = r  BY <2>1, <2>3
    <3> QED  BY <1>1, <1>2, <2>2, <2>3, <3>1
  <2>4. CASE Asked(r) # Videos!Refused
    <3>1. /\ s6'.phase = "asked" /\ s6'.ask = r /\ s6'.at = Asked(r)[1] /\ s6'.end = Asked(r)[2]
          /\ s6'.got = <<>>
      BY <2>1, <2>4
    <3>2. Asked(r)[1] \in Nat /\ Asked(r)[2] \in Int /\ Asked(r)[1] <= Asked(r)[2] + 1
      BY <1>0, <2>4, RangeNamed DEF Asked
    <3>3. <<>> = [i \in 1..Asked(r)[1] - Asked(r)[1] |-> Asked(r)[1] + i - 1]
      BY <3>2
    <3>4. InOrder(s6')  BY <2>4, <3>1, <3>2, <3>3
    <3> QED  BY <1>1, <1>2, <2>2, <3>1, <3>4
  <2> QED  BY <2>3, <2>4
<1>5. CASE Videos!OpenFile
  <2>1. s6.phase = "asked" /\ s7' = s7 /\ (s6' = [s6 EXCEPT !.phase = "reading"] \/ s6' = [s6 EXCEPT !.phase = "broken"])
    BY <1>5 DEF Videos!OpenFile
  <2>2. s6'.phase \in {"reading", "broken"} /\ s6'.ask = s6.ask /\ s6'.at = s6.at /\ s6'.end = s6.end
        /\ s6'.got = s6.got
    BY <2>1 DEF Videos!LibraryTypes, Videos!NoReader
  <2> QED  BY <1>1, <1>2, <2>1, <2>2
<1>6. CASE Videos!ReadPiece
  <2> DEFINE n == Videos!Take(s6.at, s6.end)
  <2>1. s6.phase = "reading" /\ s7' = s7
    BY <1>6 DEF Videos!ReadPiece
  <2>2. InOrder(s6)  BY <2>1, <1>1
  <2> DEFINE first == Asked(s6.ask)[1]
             last == Asked(s6.ask)[2]
  <2> HIDE DEF Asked
  <2>3. first \in Nat /\ last \in Int /\ first <= last + 1
    BY <1>0, <2>2, RangeNamed DEF Asked
  <2>4. s6.at \in first..last + 1 /\ s6.end = last /\ s6.got = [i \in 1..s6.at - first |-> first + i - 1]
    BY <2>2
  <2>5. n \in Int /\ n <= last - s6.at + 1 /\ (n <= 0 => s6.at = last + 1)
    <3>1. s6.at \in Int /\ s6.at <= last + 1 /\ s6.end = last  BY <2>3, <2>4
    <3> HIDE DEF last
    <3>2. n = last - s6.at + 1 \/ (n = Few /\ Few <= last - s6.at + 1)
      BY <1>0, <2>3, <3>1 DEF Videos!Take
    <3> QED  BY <1>0, <2>3, <3>1, <3>2
  <2>6. CASE n <= 0
    <3>1. s6' = [s6 EXCEPT !.phase = "done"]  BY <1>6, <2>6 DEF Videos!ReadPiece
    <3>2. /\ s6'.phase = "done" /\ s6'.ask = s6.ask /\ s6'.at = s6.at /\ s6'.end = s6.end
          /\ s6'.got = s6.got
      BY <3>1 DEF Videos!LibraryTypes, Videos!NoReader
    <3>3. InOrder(s6')  BY <2>2, <3>2
    <3> QED  BY <1>1, <1>2, <2>1, <2>4, <2>5, <2>6, <3>2, <3>3
  <2>7. CASE n > 0
    <3> DEFINE piece == [i \in 1..n |-> s6.at + i - 1]
    <3>1. s6' = [s6 EXCEPT !.at = s6.at + n, !.got = s6.got \o piece]
      BY <1>6, <2>5, <2>7 DEF Videos!ReadPiece
    <3> HIDE DEF n
    <3>2. /\ s6'.phase = "reading" /\ s6'.ask = s6.ask /\ s6'.at = s6.at + n /\ s6'.end = s6.end
          /\ s6'.got = s6.got \o piece
      BY <2>1, <3>1 DEF Videos!LibraryTypes, Videos!NoReader
    <3> DEFINE m == s6.at - first
    <3>3. m \in Nat /\ n \in Nat /\ s6.at + n - first = m + n  BY <2>3, <2>4, <2>5, <2>7
    <3>4. piece = [i \in 1..n |-> first + m + i - 1]  BY <2>3, <2>4, <2>5
    <3>5. s6.got = [i \in 1..m |-> first + i - 1]  BY <2>4
    <3>6. s6.got \o piece = [i \in 1..m + n |-> first + i - 1]
      <4>1. [i \in 1..m |-> first + i - 1] \o [i \in 1..n |-> first + m + i - 1]
              = [i \in 1..m + n |-> first + i - 1]
        <5> HIDE DEF first, m
        <5> QED  BY <2>3, <3>3, PieceAfter
      <4> HIDE DEF first, m, piece
      <4> QED  BY <3>4, <3>5, <4>1
    <3>7. s6.at + n \in first..last + 1  BY <2>3, <2>4, <2>5, <2>7
    <3>8. s6'.at \in first..last + 1 /\ s6'.got = [i \in 1..s6'.at - first |-> first + i - 1]
      <4>1. s6'.at - first = m + n  BY <2>3, <2>4, <3>2, <3>3
      <4> HIDE DEF first, last, m, piece
      <4>2. s6'.got = [i \in 1..m + n |-> first + i - 1]  BY <3>2, <3>6
      <4> QED  BY <3>2, <3>7, <4>1, <4>2
    <3>9. InOrder(s6')  BY <2>2, <3>2, <3>8
    <3> QED  BY <1>1, <1>2, <2>1, <3>2, <3>9
  <2> QED  BY <2>5, <2>6, <2>7
<1>7. CASE Videos!Stream \/ Videos!StreamEnds \/ Videos!Leave \/ Videos!ProcEnds
  <2>1. \/ s6'.phase = "streams"
        \/ s6'.phase = "none" /\ ~s7'
        \/ s6' = s6 /\ ~s7'
    BY <1>7 DEF Videos!Stream, Videos!StreamEnds, Videos!Leave, Videos!ProcEnds, Videos!NoReader
  <2> QED  BY <1>1, <1>2, <2>1
<1>8. ASSUME NEW k \in Callers, \/ Videos!Probe(k) \/ Videos!Backfill(k) \/ Videos!Copy(k) \/ Videos!CopyProbed(k)
                               \/ Videos!Insert(k) \/ Videos!Delete(k) \/ Videos!Unlink(k) \/ Videos!Deleted(k)
      PROVE  UNCHANGED <<s6, s7>>
  BY <1>8 DEF Videos!Probe, Videos!Backfill, Videos!Copy, Videos!CopyProbed, Videos!Insert, Videos!Delete,
     Videos!Unlink, Videos!Deleted
<1>9. Videos!DeleteLink \/ Videos!Change \/ UNCHANGED Videos!vars => UNCHANGED <<s6, s7>>
  BY DEF Videos!DeleteLink, Videos!Change, Videos!vars
<1> QED  BY <1>3, <1>4, <1>5, <1>6, <1>7, <1>8, <1>9 DEF Videos!Next

LEMMA LibraryStep == Videos!LibraryHolds /\ [Videos!Next]_(Videos!vars) => Videos!LibraryHolds'
  BY LibraryTypesStep, LengthsAgreeStep, FilesStayStep, ReadInOrderStep DEF Videos!LibraryHolds

\* A reader at the end has what is named; what the list offers is the video,
\* whose length a link has or takes from it.
LEMMA KeptLibrary == Videos!LibraryHolds => Videos!LibraryKept
<1> SUFFICES ASSUME Videos!LibraryHolds PROVE Videos!LibraryKept
  OBVIOUS
<1>1. ASSUME s6.phase = "done"
      PROVE  /\ \A i \in 1..Len(s6.got) : s6.got[i] = s6.got[1] + i - 1
             /\ {s6.got[i] : i \in 1..Len(s6.got)} = Videos!Named(s6.ask, s2.size)
  <2> DEFINE p == Videos!Parse(s6.ask, s2.size)
  <2>1. /\ s6.ask \in Videos!Asks /\ p # Videos!Refused /\ s2.size \in {0, Some}
        /\ s6.at = p[2] + 1 /\ s6.got = [i \in 1..s6.at - p[1] |-> p[1] + i - 1]
    BY <1>1 DEF Videos!LibraryHolds, Videos!ReadInOrder, Videos!LibraryTypes
  <2>2. /\ p[1] \in Nat /\ p[2] \in Int /\ p[1] <= p[2] + 1
        /\ Videos!Named(s6.ask, s2.size) = p[1]..p[2]
    BY <2>1, RangeNamed
  <2> HIDE DEF p
  <2> DEFINE n == p[2] + 1 - p[1]
  <2>3. n \in Nat /\ s6.got = [i \in 1..n |-> p[1] + i - 1]  BY <2>1, <2>2
  <2>4. Len(s6.got) = n  BY <2>3
  <2>5. {s6.got[i] : i \in 1..n} = p[1]..p[2]
    <3>1. ASSUME NEW i \in 1..n PROVE s6.got[i] \in p[1]..p[2]  BY <2>2, <2>3, <3>1
    <3>2. ASSUME NEW b \in p[1]..p[2] PROVE \E i \in 1..n : s6.got[i] = b
      <4>1. b - p[1] + 1 \in 1..n /\ s6.got[b - p[1] + 1] = b  BY <2>2, <2>3, <3>2
      <4> QED  BY <4>1
    <3> QED  BY <3>1, <3>2
  <2>6. \A i \in 1..n : s6.got[i] = s6.got[1] + i - 1  BY <2>2, <2>3
  <2> QED  BY <2>2, <2>4, <2>5, <2>6
<1>2. s6.phase = "refused" => Videos!Named(s6.ask, s2.size) = {}
  BY RangeNamed DEF Videos!LibraryHolds, Videos!ReadInOrder, Videos!LibraryTypes
<1>3. s7 => s6.phase = "streams"  BY DEF Videos!LibraryHolds, Videos!ReadInOrder
<1>4. /\ s1 \in {s2.length, "unknown", "absent"} /\ s2.length \in {"short", "long"}
      /\ \A i \in Copies : s3[i] \in {s2.length, "unknown", "absent"}
      /\ s1 = "unknown" => \A i \in Copies : s3[i] # s2.length
  BY DEF Videos!LibraryHolds, Videos!LengthsAgree, Videos!LibraryTypes, Videos!Lengths, Videos!Unknown,
     Videos!Absent
<1>5. Videos!Catalogued /\ s2.there => Videos!Streamable
  <2>1. SUFFICES ASSUME Videos!Catalogued PROVE Videos!Eligible(s1)
    BY DEF Videos!Catalogued, Videos!Streamable
  <2>2. CASE Videos!Eligible(s1)  BY <2>2
  <2>3. ASSUME NEW i \in Videos!Linked, Videos!Eligible(s3[i]) PROVE Videos!Eligible(s1)
    BY <1>4, <2>3 DEF Videos!Eligible, Videos!LengthOf, Videos!Linked, Videos!Absent, Videos!Unknown
  <2> QED  BY <2>1, <2>2, <2>3 DEF Videos!Catalogued
<1>6. s1 \in Videos!Lengths => \A i \in Videos!Linked : Videos!Effective(i) = s1
  BY <1>4 DEF Videos!Lengths, Videos!Linked, Videos!Effective, Videos!Absent, Videos!Unknown
<1>7. Videos!Linked # {} => s8 \/ (s1 # Videos!Absent /\ s2.there)
  BY DEF Videos!LibraryHolds, Videos!FilesStay
<1> QED  BY <1>1, <1>2, <1>3, <1>5, <1>6, <1>7 DEF Videos!LibraryKept

-----------------------------------------------------------------------------
(* The egress of a room: first how LiveKit's list of them changes.          *)
Egresses == [st : {"active", "ending", "ended"}, file : BOOLEAN, stream : BOOLEAN]

LEMMA EgressBecomes ==
  ASSUME s1 \in Seq(Egresses), NEW e \in 1..Len(s1), NEW x \in {"ending", "ended"},
         s1' = [s1 EXCEPT ![e].st = x]
  PROVE  /\ s1' \in Seq(Egresses) /\ Len(s1') = Len(s1) /\ s1'[e].st = x
         /\ \A d \in 1..Len(s1) : d # e => s1'[d] = s1[d]
<1>1. s1 = [d \in 1..Len(s1) |-> s1[d]] /\ \A d \in 1..Len(s1) : s1[d] \in Egresses  OBVIOUS
<1>2. s1' = [d \in 1..Len(s1) |-> IF d = e THEN [s1[e] EXCEPT !.st = x] ELSE s1[d]]  BY <1>1
<1>3. [s1[e] EXCEPT !.st = x] \in Egresses /\ [s1[e] EXCEPT !.st = x].st = x  BY <1>1 DEF Egresses
<1> QED  BY <1>1, <1>2, <1>3

LEMMA EgressStarts ==
  ASSUME NEW q \in Seq(Egresses), NEW f \in BOOLEAN, NEW s \in BOOLEAN
  PROVE  LET r == Append(q, [st |-> "active", file |-> f, stream |-> s])
         IN  /\ r \in Seq(Egresses) /\ Len(r) = Len(q) + 1 /\ r[Len(r)].st = "active"
             /\ \A d \in 1..Len(q) : r[d] = q[d]
<1>1. [st |-> "active", file |-> f, stream |-> s] \in Egresses  BY DEF Egresses
<1> QED  BY <1>1

LEMMA RecorderInit == Recorder!Init => Recorder!EgressHolds
<1> SUFFICES ASSUME Recorder!Init PROVE Recorder!EgressHolds  OBVIOUS
<1>1. /\ s1 = <<>> /\ s2 = {} /\ s3 = 0 /\ s4 = {} /\ s9 = {}
      /\ s8 = [rec |-> FALSE, str |-> FALSE]
      /\ DOMAIN s10 = Callers /\ \A c \in Callers : s10[c] = Recorder!NoCall
  BY DEF Recorder!Init
<1>2. Recorder!Ids = {}  BY <1>1 DEF Recorder!Ids
<1>3. Recorder!NoCall.phase = "idle" /\ Recorder!NoCall.file = FALSE /\ Recorder!NoCall.stream = FALSE
  BY DEF Recorder!NoCall
<1>4. Recorder!EgressTypes
  <2>1. s1 \in Seq(Egresses)  BY <1>1
  <2>2. \A c \in Callers : s10[c].file \in BOOLEAN /\ s10[c].stream \in BOOLEAN  BY <1>1, <1>3
  <2> QED  BY <1>1, <1>2, <2>1, <2>2, Zenon DEF Recorder!EgressTypes, Egresses
<1>5. Recorder!OneHolds  BY <1>1, <1>3 DEF Recorder!OneHolds, Recorder!Holds
<1>6. Recorder!OneEgress  BY <1>2 DEF Recorder!OneEgress
<1>7. Recorder!NamedEndsTold  BY <1>1, <1>2 DEF Recorder!NamedEndsTold
<1>8. Recorder!FlagsKnown  BY <1>1 DEF Recorder!FlagsKnown, Recorder!FlagsNow
<1>9. \A c \in Callers : Recorder!Under(c)  BY <1>1, <1>3 DEF Recorder!Under
<1> QED  BY <1>4, <1>5, <1>6, <1>7, <1>8, <1>9 DEF Recorder!EgressHolds

(* A step of one caller that is not at work on the egress, before or after. *)
LEMMA RecorderLooks ==
  ASSUME Recorder!EgressHolds, NEW c \in Callers, UNCHANGED <<s1, s2, s3, s4, s8>>,
         s9' = s9 \/ s9' = s9 \cup {0},
         DOMAIN s10' = Callers, \A d \in Callers \ {c} : s10'[d] = s10[d],
         s10[c].phase \in {"idle", "waiting", "ingress"}, s10'[c].phase \in {"idle", "waiting", "ingress"},
         DOMAIN s10'[c] = DOMAIN Recorder!NoCall, s10'[c].file \in BOOLEAN, s10'[c].stream \in BOOLEAN
  PROVE  Recorder!EgressHolds'
<1>0. \A d \in Callers :
        \/ s10'[d] = s10[d]
        \/ /\ s10[d].phase \notin {"stopping", "starting", "started", "flags"}
           /\ s10'[d].phase \notin {"stopping", "starting", "started", "flags"}
  OBVIOUS
<1>1. Recorder!EgressTypes'
  <2>1. \A d \in Callers : DOMAIN s10'[d] = DOMAIN Recorder!NoCall
                            /\ s10'[d].file \in BOOLEAN /\ s10'[d].stream \in BOOLEAN
    BY DEF Recorder!EgressHolds, Recorder!EgressTypes
  <2> QED  BY <2>1 DEF Recorder!EgressHolds, Recorder!EgressTypes, Recorder!Ids, Recorder!NoCall
<1>2. Recorder!OneHolds'  BY <1>0 DEF Recorder!EgressHolds, Recorder!OneHolds, Recorder!Holds
<1>3. Recorder!OneEgress'  BY DEF Recorder!EgressHolds, Recorder!OneEgress, Recorder!Ids
<1>4. Recorder!NamedEndsTold'
  <2>1. \A e : Recorder!BeingStarted(e)' <=> Recorder!BeingStarted(e)  BY <1>0 DEF Recorder!BeingStarted
  <2> QED  BY <2>1 DEF Recorder!EgressHolds, Recorder!NamedEndsTold, Recorder!Named, Recorder!Active, Recorder!Ids
<1>5. Recorder!FlagsKnown'
  BY <1>0 DEF Recorder!EgressHolds, Recorder!FlagsKnown, Recorder!FlagsNow, Recorder!Named, Recorder!Active,
     Recorder!Ids
<1>6. \A d \in Callers : Recorder!Under(d)'
  BY <1>0 DEF Recorder!EgressHolds, Recorder!Under, Recorder!Active, Recorder!Ids
<1> QED  BY <1>1, <1>2, <1>3, <1>4, <1>5, <1>6 DEF Recorder!EgressHolds

LEMMA RecorderAsked ==
  ASSUME Recorder!EgressTypes, NEW c \in Callers,
         Recorder!Asks(c) \/ Recorder!IngressCreated(c) \/ Recorder!LockTimeout(c)
  PROVE  /\ UNCHANGED <<s1, s2, s3, s4, s8>> /\ (s9' = s9 \/ s9' = s9 \cup {0})
         /\ DOMAIN s10' = Callers /\ \A d \in Callers \ {c} : s10'[d] = s10[d]
         /\ s10[c].phase \in {"idle", "waiting", "ingress"} /\ s10'[c].phase \in {"idle", "waiting", "ingress"}
         /\ DOMAIN s10'[c] = DOMAIN Recorder!NoCall /\ s10'[c].file \in BOOLEAN /\ s10'[c].stream \in BOOLEAN
<1> USE DEF Recorder!EgressTypes
<1>0. /\ Recorder!NoCall.phase = "idle" /\ Recorder!NoCall.file = FALSE /\ Recorder!NoCall.stream = FALSE
      /\ DOMAIN Recorder!NoCall = {"phase", "kind", "file", "stream", "layout", "id"}
  BY DEF Recorder!NoCall
<1>1. ASSUME NEW k, NEW f \in BOOLEAN, NEW s \in BOOLEAN, NEW l, Recorder!Waits(c, k, f, s, l)
      PROVE  /\ DOMAIN s10' = Callers /\ \A d \in Callers \ {c} : s10'[d] = s10[d]
             /\ s10'[c].phase = "waiting" /\ DOMAIN s10'[c] = DOMAIN Recorder!NoCall
             /\ s10'[c].file \in BOOLEAN /\ s10'[c].stream \in BOOLEAN
  <2> DEFINE w == [Recorder!NoCall EXCEPT !.phase = "waiting", !.kind = k, !.file = f, !.stream = s, !.layout = l]
  <2>1. w.phase = "waiting" /\ w.file = f /\ w.stream = s /\ DOMAIN w = DOMAIN Recorder!NoCall
    BY DEF Recorder!NoCall
  <2>2. s10' = [s10 EXCEPT ![c] = w]  BY <1>1 DEF Recorder!Waits
  <2> HIDE DEF w
  <2> QED  BY <2>1, <2>2
<1>2. /\ Recorder!HasFile \in BOOLEAN /\ Recorder!HasStream \in BOOLEAN
      /\ (s3 = Recorder!FirstRow) \in BOOLEAN /\ (s3 \in s4) \in BOOLEAN
  <2>1. Recorder!HasFile \in BOOLEAN  BY DEF Recorder!HasFile
  <2>2. Recorder!HasStream \in BOOLEAN  BY DEF Recorder!HasStream
  <2>3. (s3 = Recorder!FirstRow) \in BOOLEAN  OBVIOUS
  <2>4. (s3 \in s4) \in BOOLEAN  OBVIOUS
  <2> QED  BY <2>1, <2>2, <2>3, <2>4
<1>3. CASE Recorder!StartRecording(c)
  BY <1>0, <1>1, <1>2, <1>3 DEF Recorder!StartRecording, Recorder!Request, Recorder!livekit
<1>4. CASE Recorder!StopRecording(c)
  BY <1>0, <1>1, <1>2, <1>4 DEF Recorder!StopRecording, Recorder!Request, Recorder!livekit
<1>5. CASE Recorder!StartStream(c)
  BY <1>0, <1>1, <1>2, <1>5 DEF Recorder!StartStream, Recorder!Request, Recorder!livekit
<1>6. CASE Recorder!StopStream(c)
  <2>1. CASE Recorder!HasStream
    <3> DEFINE f == s3 \in s4
    <3>1. f \in BOOLEAN /\ FALSE \in BOOLEAN  BY <1>2
    <3>2. Recorder!Waits(c, "stopStream", f, FALSE, "keep") /\ UNCHANGED s9
      BY <1>6, <2>1 DEF Recorder!StopStream
    <3> HIDE DEF f
    <3>3. /\ DOMAIN s10' = Callers /\ \A d \in Callers \ {c} : s10'[d] = s10[d]
          /\ s10'[c].phase = "waiting" /\ DOMAIN s10'[c] = DOMAIN Recorder!NoCall
          /\ s10'[c].file \in BOOLEAN /\ s10'[c].stream \in BOOLEAN
      BY <1>1, <3>1, <3>2
    <3> QED  BY <1>0, <1>6, <3>2, <3>3 DEF Recorder!StopStream, Recorder!Request, Recorder!livekit
  <2>2. CASE ~Recorder!HasStream
    BY <1>0, <1>6, <2>2 DEF Recorder!StopStream, Recorder!Request, Recorder!livekit
  <2> QED  BY <2>1, <2>2
<1>7. CASE Recorder!PlaybackStarts(c)
  <2>1. CASE s10' = [s10 EXCEPT ![c] = [Recorder!NoCall EXCEPT !.phase = "ingress"]]
    <3>1. /\ s10'[c] = [Recorder!NoCall EXCEPT !.phase = "ingress"]
          /\ DOMAIN s10' = Callers /\ \A d \in Callers \ {c} : s10'[d] = s10[d]
      BY <2>1
    <3>2. /\ [Recorder!NoCall EXCEPT !.phase = "ingress"].phase = "ingress"
          /\ [Recorder!NoCall EXCEPT !.phase = "ingress"].file = FALSE
          /\ [Recorder!NoCall EXCEPT !.phase = "ingress"].stream = FALSE
          /\ DOMAIN [Recorder!NoCall EXCEPT !.phase = "ingress"] = DOMAIN Recorder!NoCall
      BY DEF Recorder!NoCall
    <3> QED  BY <1>0, <1>2, <1>7, <3>1, <3>2 DEF Recorder!PlaybackStarts, Recorder!Request, Recorder!livekit
  <2>2. CASE Recorder!Waits(c, "force", Recorder!HasFile, Recorder!HasStream, "single")
    BY <1>0, <1>1, <1>2, <1>7, <2>2 DEF Recorder!PlaybackStarts, Recorder!Request, Recorder!livekit
  <2> QED  BY <1>7, <2>1, <2>2 DEF Recorder!PlaybackStarts
<1>8. CASE Recorder!PlaybackEnds(c)
  <2>1. CASE UNCHANGED s10
    BY <1>0, <1>8, <2>1 DEF Recorder!PlaybackEnds, Recorder!Request, Recorder!livekit
  <2>2. CASE Recorder!Waits(c, "restore", Recorder!HasFile, Recorder!HasStream, s6)
    <3>1. /\ DOMAIN s10' = Callers /\ \A d \in Callers \ {c} : s10'[d] = s10[d]
          /\ s10'[c].phase = "waiting" /\ DOMAIN s10'[c] = DOMAIN Recorder!NoCall
          /\ s10'[c].file \in BOOLEAN /\ s10'[c].stream \in BOOLEAN
      BY <1>1, <1>2, <2>2
    <3> QED  BY <1>0, <1>8, <3>1 DEF Recorder!PlaybackEnds, Recorder!Request, Recorder!livekit
  <2> QED  BY <1>8, <2>1, <2>2 DEF Recorder!PlaybackEnds
<1>9. CASE Recorder!IngressCreated(c)
  BY <1>0, <1>2, <1>9 DEF Recorder!IngressCreated, Recorder!livekit
<1>10. CASE Recorder!LockTimeout(c)
  BY <1>0, <1>2, <1>10 DEF Recorder!LockTimeout, Recorder!Raises, Recorder!livekit, Recorder!meeting
<1> QED  BY <1>3, <1>4, <1>5, <1>6, <1>7, <1>8, <1>9, <1>10 DEF Recorder!Asks

(* Acquire: what the database names runs, and it is all that runs.          *)
LEMMA RecorderFree ==
  ASSUME Recorder!EgressHolds, Recorder!LockIsFree,
         \A e \in Recorder!Ids : s1[e].st # "ending" /\ e \notin s2
  PROVE  /\ s2 = {}
         /\ \A e \in Recorder!Ids : Recorder!Active(e) <=> Recorder!Named(e)
         /\ \A d, e \in s4 : d = e
         /\ s4 # {} => Recorder!FirstRow \in s4
         /\ \A c \in Callers : ~Recorder!Holds(c)
<1> USE DEF Recorder!EgressHolds
<1>1. s2 = {} /\ s4 \subseteq Recorder!Ids  BY DEF Recorder!EgressTypes
<1>2. \A c \in Callers : ~Recorder!Holds(c)  BY DEF Recorder!LockIsFree
<1>3. \A e : ~Recorder!BeingStarted(e)  BY <1>2 DEF Recorder!BeingStarted, Recorder!Holds
<1>4. \A e \in Recorder!Ids : Recorder!Active(e) <=> Recorder!Named(e)
  BY <1>1, <1>3 DEF Recorder!NamedEndsTold
<1>5. \A d, e \in s4 : d = e
  BY <1>1, <1>4 DEF Recorder!OneEgress, Recorder!Named, Recorder!Active
<1>6. ASSUME s4 # {} PROVE Recorder!FirstRow \in s4
  <2>1. PICK e \in s4 : TRUE  BY <1>6
  <2>2. e \in Nat  BY <1>1 DEF Recorder!Ids
  <2>3. \A f \in s4 : e <= f
    <3>1. TAKE f \in s4
    <3>2. f = e  BY <1>5, <2>1
    <3> QED  BY <2>2, <3>2
  <2>4. \E x \in s4 : \A f \in s4 : x <= f  BY <2>1, <2>3
  <2> QED  BY <2>4 DEF Recorder!FirstRow
<1> QED  BY <1>1, <1>2, <1>4, <1>5, <1>6

(* The lock changes hands: nobody else is at work.                          *)
LEMMA RecorderAlone ==
  ASSUME Recorder!OneHolds, NEW c \in Callers, Recorder!Holds(c)
  PROVE  \A d \in Callers \ {c} : s10[d].phase \notin {"stopping", "starting", "started", "flags"}
BY DEF Recorder!OneHolds, Recorder!Holds

LEMMA RecorderEnded ==
  ASSUME NEW w
  PROVE  /\ Recorder!Ended(w).phase \in {"idle", "ingress"}
         /\ DOMAIN Recorder!Ended(w) = DOMAIN Recorder!NoCall
         /\ Recorder!Ended(w).file = FALSE /\ Recorder!Ended(w).stream = FALSE
<1>1. CASE w.kind = "force"  BY <1>1 DEF Recorder!Ended, Recorder!NoCall
<1>2. CASE w.kind # "force"  BY <1>2 DEF Recorder!Ended, Recorder!NoCall
<1> QED  BY <1>1, <1>2

LEMMA RecorderAcquires ==
  ASSUME Recorder!EgressHolds, NEW c \in Callers, Recorder!Acquire(c)
  PROVE  Recorder!EgressHolds'
<1> DEFINE w == s10[c]
           lay == IF w.layout # "keep" THEN w.layout ELSE IF s5 = "none" THEN "speaker" ELSE s5
           cur == IF s3 # 0 THEN s3 ELSE IF Recorder!HasFile THEN Recorder!FirstRow ELSE 0
           same == Recorder!HasFile = w.file /\ (s3 # 0) = w.stream /\ (cur = 0 \/ s5 = lay)
           p == IF cur = 0 THEN "starting" ELSE "stopping"
           v == [w EXCEPT !.phase = p, !.id = cur, !.layout = lay]
<1>1. /\ UNCHANGED <<s1, s2, s3, s4, s8, s9>> /\ w.phase = "waiting" /\ Recorder!LockIsFree
      /\ \A e \in Recorder!Ids : s1[e].st # "ending" /\ e \notin s2
      /\ s10' = [s10 EXCEPT ![c] = IF same THEN Recorder!Ended(w) ELSE v]
  BY DEF Recorder!Acquire, Recorder!Transition, Recorder!livekit, Recorder!meeting
<1>2. /\ DOMAIN s10 = Callers /\ DOMAIN w = DOMAIN Recorder!NoCall /\ w.file \in BOOLEAN /\ w.stream \in BOOLEAN
      /\ DOMAIN Recorder!NoCall = {"phase", "kind", "file", "stream", "layout", "id"}
      /\ s3 \in {0} \cup Recorder!Ids /\ s4 \subseteq Recorder!Ids
  BY DEF Recorder!EgressHolds, Recorder!EgressTypes, Recorder!NoCall
<1>3. CASE same
  <2> DEFINE n == Recorder!Ended(w)
  <2>1. s10' = [s10 EXCEPT ![c] = n]  BY <1>1, <1>3
  <2>2. n.phase \in {"idle", "ingress"} /\ DOMAIN n = DOMAIN Recorder!NoCall /\ n.file \in BOOLEAN /\ n.stream \in BOOLEAN
    BY RecorderEnded
  <2> HIDE DEF n
  <2>3. DOMAIN s10' = Callers /\ s10'[c] = n /\ \A d \in Callers \ {c} : s10'[d] = s10[d]  BY <1>2, <2>1
  <2> HIDE DEF same
  <2>4. s9' = s9  BY <1>1
  <2> QED  BY <1>1, <2>2, <2>3, <2>4, RecorderLooks
<1>4. CASE ~same
  <2>1. s10' = [s10 EXCEPT ![c] = v]  BY <1>1, <1>4
  <2>2. /\ s2 = {} /\ \A e \in Recorder!Ids : Recorder!Active(e) <=> Recorder!Named(e)
        /\ s4 # {} => Recorder!FirstRow \in s4
        /\ \A d \in Callers : ~Recorder!Holds(d)
    BY <1>1, RecorderFree
  <2>3. cur # 0 => cur \in Recorder!Ids /\ Recorder!Active(cur)
    BY <1>2, <2>2 DEF Recorder!Named, Recorder!HasFile
  <2>4. cur = 0 => s3 = 0 /\ s4 = {}
    <3>1. 0 \notin s4  BY <1>2 DEF Recorder!Ids
    <3> QED  BY <2>2, <3>1 DEF Recorder!HasFile
  <2>5. cur = 0 => \A e \in Recorder!Ids : ~Recorder!Active(e)
    <3>1. \A e \in Recorder!Ids : e # 0  BY DEF Recorder!Ids
    <3> QED  BY <2>2, <2>4, <3>1 DEF Recorder!Named
  <2>6. cur = 0 => w.file \/ w.stream  BY <1>2, <1>4, <2>4 DEF Recorder!HasFile
  <2>7. p \in {"starting", "stopping"} /\ (p = "starting" <=> cur = 0)  OBVIOUS
  <2> HIDE DEF cur, lay, p, same
  <2>8. v.phase = p /\ v.id = cur /\ v.file = w.file /\ v.stream = w.stream /\ DOMAIN v = DOMAIN w  BY <1>2
  <2> HIDE DEF v
  <2>9. DOMAIN s10' = Callers /\ s10'[c] = v /\ \A d \in Callers \ {c} : s10'[d] = s10[d]  BY <1>2, <2>1
  <2> HIDE DEF w
  <2>10. Recorder!EgressTypes'
    <3>1. \A d \in Callers : DOMAIN s10'[d] = DOMAIN Recorder!NoCall /\ s10'[d].file \in BOOLEAN /\ s10'[d].stream \in BOOLEAN
      BY <1>2, <2>8, <2>9 DEF Recorder!EgressHolds, Recorder!EgressTypes
    <3> QED  BY <1>1, <2>9, <3>1 DEF Recorder!EgressHolds, Recorder!EgressTypes, Recorder!Ids, Recorder!NoCall
  <2>11. \A d \in Callers \ {c} : s10'[d].phase \notin {"stopping", "starting", "started", "flags"}
    BY <2>2, <2>9 DEF Recorder!Holds
  <2>12. Recorder!OneHolds'  BY <2>11 DEF Recorder!OneHolds, Recorder!Holds
  <2>13. Recorder!OneEgress'  BY <1>1 DEF Recorder!EgressHolds, Recorder!OneEgress, Recorder!Ids
  <2>14. \A e : ~Recorder!BeingStarted(e) /\ ~Recorder!BeingStarted(e)'
    BY <2>2, <2>7, <2>8, <2>9, <2>11 DEF Recorder!BeingStarted, Recorder!Holds
  <2>15. Recorder!NamedEndsTold'
    BY <1>1, <2>14 DEF Recorder!EgressHolds, Recorder!NamedEndsTold, Recorder!Named, Recorder!Active, Recorder!Ids
  <2>16. Recorder!FlagsKnown'
    BY <1>1, <2>2 DEF Recorder!EgressHolds, Recorder!FlagsKnown, Recorder!FlagsNow, Recorder!Named, Recorder!Active,
       Recorder!Ids, Recorder!Holds
  <2>17. Recorder!Under(c)'
    BY <1>1, <2>2, <2>3, <2>4, <2>5, <2>6, <2>7, <2>8, <2>9 DEF Recorder!Under, Recorder!Active, Recorder!Ids
  <2>18. \A d \in Callers : Recorder!Under(d)'  BY <2>11, <2>17 DEF Recorder!Under
  <2> QED  BY <2>10, <2>12, <2>13, <2>15, <2>16, <2>18 DEF Recorder!EgressHolds
<1> QED  BY <1>3, <1>4

LEMMA RecorderStops ==
  ASSUME Recorder!EgressHolds, NEW c \in Callers, Recorder!StopDone(c)
  PROVE  Recorder!EgressHolds'
<1> DEFINE w == s10[c]
           o == w.id
           v == IF w.file \/ w.stream THEN [w EXCEPT !.phase = "starting", !.id = 0] ELSE Recorder!Ended(w)
<1>1. /\ UNCHANGED <<s2, s4, s9>> /\ s3' = 0 /\ w.phase = "stopping"
      /\ s1' = [s1 EXCEPT ![o].st = "ending"]
      /\ s8' = [rec |-> w.file, str |-> w.stream]
  BY DEF Recorder!StopDone
<1>2. s10' = [s10 EXCEPT ![c] = v]
  <2>1. CASE w.file \/ w.stream
    <3>1. s10' = [s10 EXCEPT ![c].phase = "starting", ![c].id = 0]  BY <2>1 DEF Recorder!StopDone
    <3> QED  BY <2>1, <3>1
  <2>2. CASE ~(w.file \/ w.stream)  BY <2>2 DEF Recorder!StopDone, Recorder!Done
  <2> QED  BY <2>1, <2>2
<1>3. /\ DOMAIN s10 = Callers /\ DOMAIN w = DOMAIN Recorder!NoCall /\ w.file \in BOOLEAN /\ w.stream \in BOOLEAN
      /\ DOMAIN Recorder!NoCall = {"phase", "kind", "file", "stream", "layout", "id"}
      /\ s4 \subseteq Recorder!Ids /\ s1 \in Seq(Egresses)
  BY DEF Recorder!EgressHolds, Recorder!EgressTypes, Recorder!NoCall, Egresses
<1>4. o \in Recorder!Ids /\ Recorder!Active(o) /\ s2 = {} /\ \A e \in Recorder!Ids : s1[e].st # "ending"
  BY <1>1 DEF Recorder!EgressHolds, Recorder!Under
<1> HIDE DEF w, o
<1>5. /\ s1' \in Seq(Egresses) /\ Recorder!Ids' = Recorder!Ids /\ s1'[o].st = "ending"
      /\ \A e \in Recorder!Ids : e # o => s1'[e] = s1[e]
  <2> HIDE DEF v
  <2>1. o \in 1..Len(s1)  BY <1>4 DEF Recorder!Ids
  <2>3. s1 \in Seq(Egresses) /\ s1' = [s1 EXCEPT ![o].st = "ending"] /\ "ending" \in {"ending", "ended"}  BY <1>1, <1>3
  <2>2. s1' \in Seq(Egresses) /\ Len(s1') = Len(s1) /\ s1'[o].st = "ending"
        /\ \A d \in 1..Len(s1) : d # o => s1'[d] = s1[d]
    BY <2>1, <2>3, EgressBecomes
  <2> QED  BY <2>2 DEF Recorder!Ids
<1>6. /\ v.phase \in {"starting", "idle", "ingress"} /\ DOMAIN v = DOMAIN Recorder!NoCall
      /\ v.file \in BOOLEAN /\ v.stream \in BOOLEAN
      /\ v.phase = "starting" <=> w.file \/ w.stream
      /\ v.phase = "starting" => v.file \/ v.stream
  <2>1. CASE w.file \/ w.stream  BY <1>3, <2>1
  <2>2. CASE ~(w.file \/ w.stream)  BY <1>3, <2>2, RecorderEnded
  <2> QED  BY <2>1, <2>2
<1> HIDE DEF v
<1>7. DOMAIN s10' = Callers /\ s10'[c] = v /\ \A d \in Callers \ {c} : s10'[d] = s10[d]  BY <1>2, <1>3
<1>8. \A d \in Callers \ {c} : s10'[d].phase \notin {"stopping", "starting", "started", "flags"}
  BY <1>1, <1>7, RecorderAlone DEF w, Recorder!EgressHolds, Recorder!Holds
<1>9. \A e \in Recorder!Ids : e # o => s1[e].st = "ended"
  <2>1. \A e \in Recorder!Ids : s1[e] \in Egresses  BY <1>3 DEF Recorder!Ids
  <2> QED  BY <1>4, <2>1 DEF Recorder!EgressHolds, Recorder!OneEgress, Recorder!Active, Egresses
<1>10. \A e \in Recorder!Ids : s1'[e].st # "active"  BY <1>5, <1>9
<1>11. Recorder!EgressTypes'
  <2>1. \A d \in Callers : DOMAIN s10'[d] = DOMAIN Recorder!NoCall /\ s10'[d].file \in BOOLEAN /\ s10'[d].stream \in BOOLEAN
    BY <1>6, <1>7 DEF Recorder!EgressHolds, Recorder!EgressTypes
  <2> QED  BY <1>1, <1>5, <1>7, <2>1 DEF Recorder!EgressHolds, Recorder!EgressTypes, Recorder!NoCall, Egresses
<1>12. Recorder!OneHolds'  BY <1>8 DEF Recorder!OneHolds, Recorder!Holds
<1>13. Recorder!OneEgress'  BY <1>5, <1>10 DEF Recorder!OneEgress
<1>14. Recorder!NamedEndsTold'
  <2>1. \A e \in Recorder!Ids : Recorder!Named(e)' => e = o
    <3>1. TAKE e \in Recorder!Ids
    <3>2. ASSUME Recorder!Named(e)' PROVE Recorder!Named(e)
      <4>1. e # 0  BY DEF Recorder!Ids
      <4> QED  BY <1>1, <3>2, <4>1 DEF Recorder!Named
    <3> QED  BY <1>4, <1>9, <3>2 DEF Recorder!EgressHolds, Recorder!NamedEndsTold, Recorder!Active
  <2>2. \A e \in s9 \ {0} : e # o  BY <1>4 DEF Recorder!EgressHolds, Recorder!NamedEndsTold, Recorder!Active
  <2> QED  BY <1>1, <1>4, <1>5, <1>10, <2>1, <2>2 DEF Recorder!EgressHolds, Recorder!NamedEndsTold, Recorder!Active
<1>15. Recorder!FlagsKnown'
  <2>1. CASE v.phase = "starting"  BY <1>7, <2>1 DEF Recorder!FlagsKnown
  <2>2. CASE v.phase # "starting" /\ s4 # {}
    <3>1. PICK e \in s4 : TRUE  BY <2>2
    <3>2. e \in Recorder!Ids' /\ Recorder!Named(e)' /\ ~Recorder!Active(e)'
      BY <1>1, <1>3, <1>5, <1>10, <3>1 DEF Recorder!Named, Recorder!Active
    <3> QED  BY <3>2 DEF Recorder!FlagsKnown
  <2>3. CASE v.phase # "starting" /\ s4 = {}
    <3>1. w.file = FALSE /\ w.stream = FALSE  BY <1>3, <1>6, <2>3
    <3>2. s4' \ {0} = {}  BY <1>1, <2>3
    <3>3. Recorder!FlagsNow(0)' = [rec |-> FALSE, str |-> FALSE]  BY <1>1, <3>2 DEF Recorder!FlagsNow
    <3> QED  BY <1>1, <3>1, <3>3 DEF Recorder!FlagsKnown
  <2> QED  BY <2>1, <2>2, <2>3
<1>16. Recorder!Under(c)'  BY <1>1, <1>5, <1>6, <1>7, <1>10 DEF Recorder!Under, Recorder!Active
<1>17. \A d \in Callers : Recorder!Under(d)'  BY <1>8, <1>16 DEF Recorder!Under
<1> QED  BY <1>11, <1>12, <1>13, <1>14, <1>15, <1>17 DEF Recorder!EgressHolds

LEMMA RecorderStarts ==
  ASSUME Recorder!EgressHolds, NEW c \in Callers, Recorder!LiveKitStarts(c)
  PROVE  Recorder!EgressHolds'
<1>0. PICK n : n = Len(s1) + 1  OBVIOUS
<1> DEFINE w == s10[c]
           v == [w EXCEPT !.phase = "started", !.id = n]
<1>1. /\ UNCHANGED <<s2, s3, s4, s8, s9>> /\ w.phase = "starting"
      /\ s1' = Append(s1, [st |-> "active", file |-> w.file, stream |-> w.stream])
      /\ s10' = [s10 EXCEPT ![c].phase = "started", ![c].id = Len(s1) + 1]
  BY DEF Recorder!LiveKitStarts, Recorder!meeting
<1>2. s10' = [s10 EXCEPT ![c] = v]  BY <1>0, <1>1
<1>3. /\ DOMAIN s10 = Callers /\ DOMAIN w = DOMAIN Recorder!NoCall /\ w.file \in BOOLEAN /\ w.stream \in BOOLEAN
      /\ DOMAIN Recorder!NoCall = {"phase", "kind", "file", "stream", "layout", "id"}
      /\ s4 \subseteq Recorder!Ids /\ s2 \subseteq Recorder!Ids /\ s1 \in Seq(Egresses)
  BY DEF Recorder!EgressHolds, Recorder!EgressTypes, Recorder!NoCall, Egresses
<1>4. s3 = 0 /\ (\A e \in Recorder!Ids : ~Recorder!Active(e)) /\ (w.file \/ w.stream)
  BY <1>1 DEF Recorder!EgressHolds, Recorder!Under
<1>5. /\ s1' \in Seq(Egresses) /\ Recorder!Ids' = Recorder!Ids \cup {n} /\ s1'[n].st = "active"
      /\ n \notin Recorder!Ids /\ n # 0
      /\ \A e \in Recorder!Ids : s1'[e] = s1[e]
  <2>1. s1' \in Seq(Egresses) /\ Len(s1') = Len(s1) + 1 /\ s1'[Len(s1')].st = "active"
        /\ \A d \in 1..Len(s1) : s1'[d] = s1[d]
    BY <1>1, <1>3, EgressStarts
  <2> QED  BY <1>0, <1>3, <2>1 DEF Recorder!Ids
<1>6. v.phase = "started" /\ v.id = n /\ v.file = w.file /\ v.stream = w.stream /\ DOMAIN v = DOMAIN Recorder!NoCall
  BY <1>3
<1> HIDE DEF v
<1>7. DOMAIN s10' = Callers /\ s10'[c] = v /\ \A d \in Callers \ {c} : s10'[d] = s10[d]  BY <1>2, <1>3
<1>8. \A d \in Callers \ {c} : /\ s10'[d].phase \notin {"stopping", "starting", "started", "flags"}
                               /\ s10[d].phase # "started"
  BY <1>1, <1>7, RecorderAlone DEF Recorder!EgressHolds, Recorder!Holds
<1> HIDE DEF w
<1>9. Recorder!EgressTypes'
  <2>1. \A d \in Callers : DOMAIN s10'[d] = DOMAIN Recorder!NoCall /\ s10'[d].file \in BOOLEAN /\ s10'[d].stream \in BOOLEAN
    BY <1>3, <1>6, <1>7 DEF Recorder!EgressHolds, Recorder!EgressTypes
  <2> QED  BY <1>1, <1>3, <1>4, <1>5, <1>7, <2>1 DEF Recorder!EgressTypes, Recorder!NoCall, Egresses
<1>10. Recorder!OneHolds'  BY <1>8 DEF Recorder!OneHolds, Recorder!Holds
<1>11. \A e \in Recorder!Ids' : Recorder!Active(e)' => e = n  BY <1>4, <1>5 DEF Recorder!Active
<1>12. Recorder!OneEgress'  BY <1>11 DEF Recorder!OneEgress, Recorder!Active
<1>13. Recorder!NamedEndsTold'
  <2>1. Recorder!BeingStarted(n)'  BY <1>6, <1>7 DEF Recorder!BeingStarted
  <2>2. \A e \in Recorder!Ids' : Recorder!Named(e)' => e \in Recorder!Ids /\ Recorder!Named(e)
    BY <1>1, <1>3, <1>4, <1>5 DEF Recorder!Named
  <2>3. \A e \in Recorder!Ids' : Recorder!Active(e)' => Recorder!BeingStarted(e)'  BY <1>11, <2>1
  <2> QED  BY <1>1, <1>3, <1>5, <2>2, <2>3 DEF Recorder!EgressHolds, Recorder!NamedEndsTold, Recorder!Active
<1>14. Recorder!FlagsKnown'  BY <1>6, <1>7 DEF Recorder!FlagsKnown
<1>15. Recorder!Under(c)'
  <2>1. n \in Recorder!Ids' /\ Recorder!Active(n)' /\ s3' = 0 /\ n \notin s4'
    BY <1>1, <1>3, <1>4, <1>5 DEF Recorder!Active
  <2> QED  BY <1>4, <1>6, <1>7, <2>1 DEF Recorder!Under
<1>16. \A d \in Callers : Recorder!Under(d)'  BY <1>8, <1>15 DEF Recorder!Under
<1> QED  BY <1>9, <1>10, <1>12, <1>13, <1>14, <1>16 DEF Recorder!EgressHolds

LEMMA RecorderCommits ==
  ASSUME Recorder!EgressHolds, NEW c \in Callers, Recorder!Commit(c)
  PROVE  Recorder!EgressHolds'
<1>0. PICK o : o = s10[c].id  OBVIOUS
<1> DEFINE w == s10[c]
           v == [w EXCEPT !.phase = "flags"]
<1>1. /\ UNCHANGED <<s1, s2, s8, s9>> /\ w.phase = "started"
      /\ s4' = IF w.file THEN s4 \cup {o} ELSE s4
      /\ s3' = IF w.stream THEN o ELSE s3
      /\ s10' = [s10 EXCEPT ![c].phase = "flags"]
  BY <1>0 DEF Recorder!Commit, Recorder!Track, Recorder!livekit
<1>2. s10' = [s10 EXCEPT ![c] = v]  BY <1>1
<1>3. /\ DOMAIN s10 = Callers /\ DOMAIN w = DOMAIN Recorder!NoCall /\ w.file \in BOOLEAN /\ w.stream \in BOOLEAN
      /\ DOMAIN Recorder!NoCall = {"phase", "kind", "file", "stream", "layout", "id"}
      /\ s4 \subseteq Recorder!Ids /\ Recorder!Ids' = Recorder!Ids
  BY <1>1 DEF Recorder!EgressHolds, Recorder!EgressTypes, Recorder!NoCall, Recorder!Ids
<1>4. /\ o \in Recorder!Ids /\ s1[o].st = "active" /\ s3 = 0 /\ o \notin s4 /\ (w.file \/ w.stream)
  BY <1>0, <1>1 DEF Recorder!EgressHolds, Recorder!Under, Recorder!Active
<1>5. v.phase = "flags" /\ v.id = o /\ v.file = w.file /\ v.stream = w.stream /\ DOMAIN v = DOMAIN Recorder!NoCall
  BY <1>0, <1>3
<1> HIDE DEF v
<1>6. DOMAIN s10' = Callers /\ s10'[c] = v /\ \A d \in Callers \ {c} : s10'[d] = s10[d]  BY <1>2, <1>3
<1>7. \A d \in Callers \ {c} : /\ s10'[d].phase \notin {"stopping", "starting", "started", "flags"}
                               /\ s10[d].phase # "started"
  BY <1>1, <1>6, RecorderAlone DEF Recorder!EgressHolds, Recorder!Holds
<1>8. \A e : Recorder!BeingStarted(e) => e = o  BY <1>0, <1>7 DEF Recorder!BeingStarted
<1> HIDE DEF w
<1>9. Recorder!EgressTypes'
  <2>1. \A d \in Callers : DOMAIN s10'[d] = DOMAIN Recorder!NoCall /\ s10'[d].file \in BOOLEAN /\ s10'[d].stream \in BOOLEAN
    BY <1>3, <1>5, <1>6 DEF Recorder!EgressHolds, Recorder!EgressTypes
  <2>2. s4' \subseteq Recorder!Ids /\ s3' \in {0} \cup Recorder!Ids  BY <1>1, <1>3, <1>4
  <2> QED  BY <1>1, <1>3, <1>6, <2>1, <2>2 DEF Recorder!EgressHolds, Recorder!EgressTypes, Recorder!NoCall
<1>10. Recorder!OneHolds'  BY <1>7 DEF Recorder!OneHolds, Recorder!Holds
<1>11. Recorder!OneEgress'  BY <1>1, <1>3 DEF Recorder!EgressHolds, Recorder!OneEgress
<1>12. Recorder!NamedEndsTold'
  <2>1. Recorder!Named(o)'  BY <1>1, <1>3, <1>4 DEF Recorder!Named
  <2>2. \A e \in Recorder!Ids : Recorder!Named(e)' <=> Recorder!Named(e) \/ e = o
    <3>1. TAKE e \in Recorder!Ids
    <3>2. e # 0  BY DEF Recorder!Ids
    <3> QED  BY <1>1, <1>3, <1>4, <2>1, <3>2 DEF Recorder!Named
  <2> QED  BY <1>1, <1>3, <1>4, <1>8, <2>2 DEF Recorder!EgressHolds, Recorder!NamedEndsTold, Recorder!Active
<1>13. Recorder!FlagsKnown'  BY <1>5, <1>6 DEF Recorder!FlagsKnown
<1>14. Recorder!Under(c)'
  <2>1. Recorder!Active(o)' /\ o \in Recorder!Ids'  BY <1>1, <1>3, <1>4 DEF Recorder!Active
  <2>2. w.file <=> o \in s4'  BY <1>1, <1>3, <1>4
  <2>3. s3' = IF w.stream THEN o ELSE 0  BY <1>1, <1>4
  <2> QED  BY <1>4, <1>5, <1>6, <2>1, <2>2, <2>3 DEF Recorder!Under
<1>15. \A d \in Callers : Recorder!Under(d)'  BY <1>7, <1>14 DEF Recorder!Under
<1> QED  BY <1>9, <1>10, <1>11, <1>12, <1>13, <1>15 DEF Recorder!EgressHolds

LEMMA RecorderFlags ==
  ASSUME Recorder!EgressHolds, NEW c \in Callers, Recorder!WriteFlags(c)
  PROVE  Recorder!EgressHolds'
<1>0. PICK o : o = s10[c].id  OBVIOUS
<1> DEFINE w == s10[c]
           v == Recorder!Ended(w)
<1>1. /\ UNCHANGED <<s1, s2, s3, s4, s9>> /\ w.phase = "flags"
      /\ s8' = [rec |-> w.file, str |-> w.stream]
      /\ s10' = [s10 EXCEPT ![c] = v]
  BY DEF Recorder!WriteFlags, Recorder!Done, Recorder!livekit, Recorder!meeting
<1>2. /\ DOMAIN s10 = Callers /\ w.file \in BOOLEAN /\ w.stream \in BOOLEAN
      /\ s4 \subseteq Recorder!Ids /\ Recorder!Ids' = Recorder!Ids
  BY <1>1 DEF Recorder!EgressHolds, Recorder!EgressTypes, Recorder!Ids
<1>3. /\ o \in Recorder!Ids /\ s1[o].st = "active" /\ (w.file <=> o \in s4)
      /\ s3 = IF w.stream THEN o ELSE 0
  BY <1>0, <1>1 DEF Recorder!EgressHolds, Recorder!Under, Recorder!Active
<1>4. v.phase \in {"idle", "ingress"} /\ DOMAIN v = DOMAIN Recorder!NoCall /\ v.file \in BOOLEAN /\ v.stream \in BOOLEAN
  BY RecorderEnded
<1> HIDE DEF v
<1>5. DOMAIN s10' = Callers /\ s10'[c] = v /\ \A d \in Callers \ {c} : s10'[d] = s10[d]  BY <1>1, <1>2
<1>6. \A d \in Callers : /\ s10'[d].phase \notin {"stopping", "starting", "started", "flags"}
                         /\ s10[d].phase # "started"
  BY <1>1, <1>4, <1>5, RecorderAlone DEF Recorder!EgressHolds, Recorder!Holds
<1> HIDE DEF w
<1>7. Recorder!EgressTypes'
  <2>1. \A d \in Callers : DOMAIN s10'[d] = DOMAIN Recorder!NoCall /\ s10'[d].file \in BOOLEAN /\ s10'[d].stream \in BOOLEAN
    BY <1>4, <1>5 DEF Recorder!EgressHolds, Recorder!EgressTypes
  <2> QED  BY <1>1, <1>2, <1>5, <2>1 DEF Recorder!EgressHolds, Recorder!EgressTypes, Recorder!NoCall
<1>8. Recorder!OneHolds'  BY <1>6 DEF Recorder!OneHolds, Recorder!Holds
<1>9. Recorder!OneEgress'  BY <1>1, <1>2 DEF Recorder!EgressHolds, Recorder!OneEgress
<1>10. Recorder!NamedEndsTold'
  <2>1. \A e : ~Recorder!BeingStarted(e)  BY <1>6 DEF Recorder!BeingStarted
  <2> QED  BY <1>1, <1>2, <2>1 DEF Recorder!EgressHolds, Recorder!NamedEndsTold, Recorder!Named, Recorder!Active
<1>11. Recorder!FlagsKnown'
  <2>1. CASE ~w.file /\ s4 # {}
    <3>1. PICK e \in s4 : TRUE  BY <2>1
    <3>2. e \in Recorder!Ids /\ e # o  BY <1>2, <1>3, <2>1, <3>1
    <3>3. s1[e].st # "active"  BY <1>3, <3>2 DEF Recorder!EgressHolds, Recorder!OneEgress
    <3> QED  BY <1>1, <1>2, <3>1, <3>2, <3>3 DEF Recorder!FlagsKnown, Recorder!Named, Recorder!Active
  <2>2. CASE w.file \/ s4 = {}
    <3>1. 0 \notin Recorder!Ids  BY DEF Recorder!Ids
    <3>2. w.file <=> s4 \ {0} # {}  BY <1>2, <1>3, <2>2, <3>1
    <3>3. w.stream <=> s3 \notin {0, 0}  BY <1>3, <3>1
    <3>4. s8' = [rec |-> s4 \ {0} # {}, str |-> s3 \notin {0, 0}]  BY <1>1, <1>2, <3>2, <3>3
    <3> QED  BY <1>1, <3>4 DEF Recorder!FlagsKnown, Recorder!FlagsNow
  <2> QED  BY <2>1, <2>2
<1>12. \A d \in Callers : Recorder!Under(d)'  BY <1>6 DEF Recorder!Under
<1> QED  BY <1>7, <1>8, <1>9, <1>10, <1>11, <1>12 DEF Recorder!EgressHolds

LEMMA RecorderIsTold ==
  ASSUME Recorder!EgressHolds, NEW o \in Recorder!Ids, Recorder!EgressEnded(o)
  PROVE  Recorder!EgressHolds'
<1>1. /\ UNCHANGED <<s1, s8, s10>> /\ o \in s2 /\ s2' = s2 \ {o}
      /\ s3' = (IF s3 = o THEN 0 ELSE s3) /\ s4' = s4 \ {o}
      /\ s9' = IF s3 = o \/ o \in s4 THEN s9 \cup {o} ELSE s9
      /\ Recorder!Ids' = Recorder!Ids
  BY DEF Recorder!EgressEnded, Recorder!Ids
<1>2. /\ s2 \subseteq Recorder!Ids /\ s4 \subseteq Recorder!Ids /\ s3 \in {0} \cup Recorder!Ids
  BY DEF Recorder!EgressHolds, Recorder!EgressTypes
<1>3. s1[o].st = "ended" /\ 0 \notin Recorder!Ids  BY <1>1 DEF Recorder!EgressHolds, Recorder!NamedEndsTold, Recorder!Ids
<1>4. \A e \in Recorder!Ids : Recorder!Named(e)' <=> Recorder!Named(e) /\ e # o
  BY <1>1, <1>2, <1>3 DEF Recorder!Named
<1>5. \A e : (Recorder!BeingStarted(e)' <=> Recorder!BeingStarted(e)) /\ (Recorder!Active(e)' <=> Recorder!Active(e))
  BY <1>1 DEF Recorder!BeingStarted, Recorder!Active
<1>6. ~Recorder!Active(o)  BY <1>3 DEF Recorder!Active
<1>7. Recorder!EgressTypes'
  <2>1. s3' \in {0} \cup Recorder!Ids /\ s2' \subseteq Recorder!Ids /\ s4' \subseteq Recorder!Ids  BY <1>1, <1>2
  <2> QED  BY <1>1, <2>1 DEF Recorder!EgressHolds, Recorder!EgressTypes, Recorder!NoCall
<1>8. Recorder!OneHolds'  BY <1>1 DEF Recorder!EgressHolds, Recorder!OneHolds, Recorder!Holds
<1>9. Recorder!OneEgress'  BY <1>1 DEF Recorder!EgressHolds, Recorder!OneEgress
<1>10. Recorder!NamedEndsTold'
  <2>1. \A e \in s2' : s1'[e].st = "ended"  BY <1>1 DEF Recorder!EgressHolds, Recorder!NamedEndsTold
  <2>2. \A e \in Recorder!Ids' : Recorder!Named(e)' => Recorder!Active(e)' \/ s1'[e].st = "ending" \/ e \in s2'
    BY <1>1, <1>4, <1>5 DEF Recorder!EgressHolds, Recorder!NamedEndsTold
  <2>3. \A e \in Recorder!Ids' : Recorder!Active(e)' => Recorder!Named(e)' \/ Recorder!BeingStarted(e)'
    BY <1>1, <1>4, <1>5, <1>6 DEF Recorder!EgressHolds, Recorder!NamedEndsTold
  <2>4. \A e \in s9' \ {0} : e \in Recorder!Ids' /\ s1'[e].st = "ended" /\ e \notin s2'
    BY <1>1, <1>3 DEF Recorder!EgressHolds, Recorder!NamedEndsTold
  <2> QED  BY <2>1, <2>2, <2>3, <2>4 DEF Recorder!NamedEndsTold
<1>11. Recorder!FlagsKnown'
  <2>1. CASE s3 = o \/ o \in s4  BY <1>1, <2>1 DEF Recorder!FlagsKnown
  <2>2. CASE ~(s3 = o \/ o \in s4)
    <3>1. s3' = s3 /\ s4' = s4 /\ s9' = s9  BY <1>1, <2>2
    <3> QED  BY <1>1, <1>5, <3>1 DEF Recorder!EgressHolds, Recorder!FlagsKnown, Recorder!FlagsNow, Recorder!Named
  <2> QED  BY <2>1, <2>2
<1>12. ASSUME NEW d \in Callers PROVE Recorder!Under(d)'
  <2>1. Recorder!Under(d)  BY DEF Recorder!EgressHolds
  <2>2. s10[d].phase # "stopping"  BY <1>1, <2>1 DEF Recorder!Under
  <2>3. s10[d].phase = "flags" => s10[d].id # o  BY <1>6, <2>1 DEF Recorder!Under
  <2>4. s10[d].phase = "flags" => (s3' = IF s10[d].stream THEN s10[d].id ELSE 0)
    BY <1>1, <2>1, <2>3 DEF Recorder!Under
  <2>5. s10[d].phase = "flags" => (s10[d].id \in s4' <=> s10[d].id \in s4)  BY <1>1, <2>3
  <2>6. s10[d].phase = "started" => s3' = 0 /\ s10[d].id \notin s4'  BY <1>1, <2>1 DEF Recorder!Under
  <2>7. s10[d].phase = "starting" => s3' = 0  BY <1>1, <2>1 DEF Recorder!Under
  <2> QED  BY <1>1, <1>5, <2>1, <2>2, <2>4, <2>5, <2>6, <2>7 DEF Recorder!Under
<1> QED  BY <1>7, <1>8, <1>9, <1>10, <1>11, <1>12 DEF Recorder!EgressHolds

LEMMA RecorderEnds ==
  ASSUME Recorder!EgressHolds, NEW o \in Recorder!Ids, Recorder!Stopped(o)
  PROVE  Recorder!EgressHolds'
<1>1. /\ UNCHANGED <<s3, s4, s8, s9, s10>> /\ s1[o].st = "ending"
      /\ s1' = [s1 EXCEPT ![o].st = "ended"] /\ s2' = s2 \cup {o}
  BY DEF Recorder!Stopped, Recorder!meeting
<1>2. s1 \in Seq(Egresses) /\ o \in 1..Len(s1)
  BY DEF Recorder!EgressHolds, Recorder!EgressTypes, Recorder!Ids, Egresses
<1>3. /\ s1' \in Seq(Egresses) /\ Recorder!Ids' = Recorder!Ids /\ s1'[o].st = "ended"
      /\ \A e \in Recorder!Ids : e # o => s1'[e] = s1[e]
  <2>1. s1' \in Seq(Egresses) /\ Len(s1') = Len(s1) /\ s1'[o].st = "ended"
        /\ \A d \in 1..Len(s1) : d # o => s1'[d] = s1[d]
    BY <1>1, <1>2, EgressBecomes
  <2> QED  BY <2>1 DEF Recorder!Ids
<1>4. /\ \A e : (Recorder!BeingStarted(e)' <=> Recorder!BeingStarted(e)) /\ (Recorder!Named(e)' <=> Recorder!Named(e))
      /\ \A e \in Recorder!Ids : Recorder!Active(e)' <=> Recorder!Active(e)
  BY <1>1, <1>3 DEF Recorder!BeingStarted, Recorder!Named, Recorder!Active
<1>5. Recorder!EgressTypes'
  BY <1>1, <1>3 DEF Recorder!EgressHolds, Recorder!EgressTypes, Recorder!NoCall, Egresses
<1>6. Recorder!OneHolds'  BY <1>1 DEF Recorder!EgressHolds, Recorder!OneHolds, Recorder!Holds
<1>7. Recorder!OneEgress'  BY <1>3, <1>4 DEF Recorder!EgressHolds, Recorder!OneEgress, Recorder!Active
<1>8. Recorder!NamedEndsTold'
  <2>1. s2 \subseteq Recorder!Ids  BY DEF Recorder!EgressHolds, Recorder!EgressTypes
  <2>2. \A e \in s2' : s1'[e].st = "ended"  BY <1>1, <1>3, <2>1 DEF Recorder!EgressHolds, Recorder!NamedEndsTold
  <2>3. \A e \in Recorder!Ids : Recorder!Named(e)' => Recorder!Active(e)' \/ s1'[e].st = "ending" \/ e \in s2'
    BY <1>1, <1>3, <1>4 DEF Recorder!EgressHolds, Recorder!NamedEndsTold
  <2>4. \A e \in Recorder!Ids : Recorder!Active(e)' => Recorder!Named(e)' \/ Recorder!BeingStarted(e)'
    BY <1>4 DEF Recorder!EgressHolds, Recorder!NamedEndsTold
  <2>5. \A e \in s9' \ {0} : e \in Recorder!Ids' /\ s1'[e].st = "ended" /\ e \notin s2'
    BY <1>1, <1>3 DEF Recorder!EgressHolds, Recorder!NamedEndsTold
  <2> QED  BY <1>3, <2>2, <2>3, <2>4, <2>5 DEF Recorder!NamedEndsTold
<1>9. Recorder!FlagsKnown'
  BY <1>1, <1>3, <1>4 DEF Recorder!EgressHolds, Recorder!FlagsKnown, Recorder!FlagsNow
<1>10. ASSUME NEW d \in Callers PROVE Recorder!Under(d)'
  <2>1. Recorder!Under(d)  BY DEF Recorder!EgressHolds
  <2>2. s10[d].phase # "stopping"  BY <1>1, <2>1 DEF Recorder!Under
  <2> QED  BY <1>1, <1>3, <1>4, <2>1, <2>2 DEF Recorder!Under
<1> QED  BY <1>5, <1>6, <1>7, <1>8, <1>9, <1>10 DEF Recorder!EgressHolds

LEMMA RecorderSyncs ==
  ASSUME Recorder!EgressHolds, NEW o, Recorder!SyncFlags(o)
  PROVE  Recorder!EgressHolds'
<1>1. /\ UNCHANGED <<s1, s2, s3, s4, s10>> /\ o \in s9 /\ s9' = s9 \ {o}
      /\ s8' = Recorder!FlagsNow(o) /\ Recorder!Ids' = Recorder!Ids
  BY DEF Recorder!SyncFlags, Recorder!livekit, Recorder!meeting, Recorder!Ids
<1>2. /\ \A e : (Recorder!BeingStarted(e)' <=> Recorder!BeingStarted(e)) /\ (Recorder!Named(e)' <=> Recorder!Named(e))
      /\ \A e : Recorder!Active(e)' <=> Recorder!Active(e)
  BY <1>1 DEF Recorder!BeingStarted, Recorder!Named, Recorder!Active
<1>3. Recorder!EgressTypes'  BY <1>1 DEF Recorder!EgressHolds, Recorder!EgressTypes, Recorder!NoCall
<1>4. Recorder!OneHolds'  BY <1>1 DEF Recorder!EgressHolds, Recorder!OneHolds, Recorder!Holds
<1>5. Recorder!OneEgress'  BY <1>1 DEF Recorder!EgressHolds, Recorder!OneEgress
<1>6. Recorder!NamedEndsTold'  BY <1>1, <1>2 DEF Recorder!EgressHolds, Recorder!NamedEndsTold
<1>7. Recorder!FlagsNow(o) = Recorder!FlagsNow(0)
  <2>1. CASE o = 0  BY <2>1
  <2>2. CASE o # 0
    <3>1. o \in Recorder!Ids /\ ~Recorder!Named(o)
      BY <1>1, <2>2 DEF Recorder!EgressHolds, Recorder!NamedEndsTold, Recorder!Active
    <3>2. s4 \ {o} = s4 \ {0}
      BY <3>1 DEF Recorder!Named, Recorder!EgressHolds, Recorder!EgressTypes, Recorder!Ids
    <3>3. s3 \notin {0, o} <=> s3 \notin {0, 0}  BY <3>1 DEF Recorder!Named
    <3> QED  BY <3>2, <3>3 DEF Recorder!FlagsNow
  <2> QED  BY <2>1, <2>2
<1>8. Recorder!FlagsKnown'
  <2>1. Recorder!FlagsNow(0)' = Recorder!FlagsNow(0)  BY <1>1 DEF Recorder!FlagsNow
  <2> QED  BY <1>1, <1>7, <2>1 DEF Recorder!FlagsKnown
<1>9. \A d \in Callers : Recorder!Under(d)'  BY <1>1, <1>2 DEF Recorder!EgressHolds, Recorder!Under
<1> QED  BY <1>3, <1>4, <1>5, <1>6, <1>8, <1>9 DEF Recorder!EgressHolds

LEMMA RecorderStep ==
  ASSUME Recorder!EgressHolds, [Recorder!Next]_(Recorder!vars)
  PROVE  Recorder!EgressHolds'
<1>1. CASE UNCHANGED Recorder!vars
  <2>1. UNCHANGED <<s1, s2, s3, s4, s8, s9, s10>>
    BY <1>1 DEF Recorder!vars, Recorder!livekit, Recorder!meeting
  <2> QED
    BY <2>1 DEF Recorder!EgressHolds, Recorder!EgressTypes, Recorder!OneHolds, Recorder!OneEgress, Recorder!NamedEndsTold,
       Recorder!FlagsKnown, Recorder!Under, Recorder!Ids, Recorder!NoCall, Recorder!Holds, Recorder!Named, Recorder!Active,
       Recorder!BeingStarted, Recorder!FlagsNow
<1>2. ASSUME NEW c \in Callers, Recorder!Asks(c) \/ Recorder!IngressCreated(c) \/ Recorder!LockTimeout(c)
      PROVE  Recorder!EgressHolds'
  <2>1. Recorder!EgressTypes  BY DEF Recorder!EgressHolds
  <2> QED  BY <1>2, <2>1, RecorderAsked, RecorderLooks
<1>3. ASSUME NEW c \in Callers, Recorder!StopFails(c) PROVE FALSE
  BY <1>3 DEF Recorder!StopFails, Recorder!EgressHolds, Recorder!Under, Recorder!Active
<1>4. ASSUME NEW c \in Callers, Recorder!Watchdog(c) \/ Recorder!StartFails(c) PROVE FALSE
  BY <1>4 DEF Recorder!Watchdog, Recorder!Watch, Recorder!StartFails, Recorder!Fault
<1>5. ASSUME NEW e, Recorder!Reap(e) \/ Recorder!EndsAlone(e) \/ Recorder!HandlerDies(e) \/ Recorder!Crash PROVE FALSE
  BY <1>5 DEF Recorder!Reap, Recorder!EndsAlone, Recorder!HandlerDies, Recorder!Crash, Recorder!Fault
<1>6. ASSUME NEW c \in Callers, Recorder!Asks(c) \/ Recorder!Proceeds(c) \/ Recorder!LockTimeout(c)
      PROVE  Recorder!EgressHolds'
  BY <1>2, <1>3, <1>6, RecorderAcquires, RecorderStops, RecorderStarts, RecorderCommits, RecorderFlags
  DEF Recorder!Proceeds
<1> QED  BY <1>1, <1>4, <1>5, <1>6, RecorderIsTold, RecorderEnds, RecorderSyncs DEF Recorder!Next

(* And what it gives: the room has one egress, and once nothing is under way *)
(* its flags are the database's.                                             *)
LEMMA RecorderGives ==
  ASSUME Recorder!EgressHolds
  PROVE  Recorder!OneEgress /\ Recorder!FlagsFollow
<1>1. ASSUME Recorder!Quiet PROVE s8 = Recorder!FlagsNow(0)
  <2>1. s9 = {}  BY <1>1 DEF Recorder!Quiet
  <2>2. \A c \in Callers : s10[c].phase = "idle"  BY <1>1 DEF Recorder!Quiet, Recorder!NoCall
  <2>3. \A e \in Recorder!Ids : Recorder!Named(e) => Recorder!Active(e)
    BY <1>1 DEF Recorder!Quiet, Recorder!EgressHolds, Recorder!NamedEndsTold
  <2> QED  BY <2>1, <2>2, <2>3 DEF Recorder!EgressHolds, Recorder!FlagsKnown
<1> QED  BY <1>1 DEF Recorder!FlagsFollow, Recorder!EgressHolds

-----------------------------------------------------------------------------
(* Where the stream goes: the egress of LiveKit's own steps.                *)
LEMMA TargetsInit == Targets!Init => Targets!DestinationsHold
<1> SUFFICES ASSUME Targets!Init PROVE Targets!DestinationsHold  OBVIOUS
<1>1. /\ s1 = Platforms /\ s2 = 0 /\ s4 = "none" /\ s7 = {} /\ s9 = {}
      /\ DOMAIN s3 = Targets!Egresses
      /\ \A e \in Targets!Egresses : s3[e] = [is |-> "new", out |-> {}, results |-> Targets!Unseen]
      /\ DOMAIN s5 = Callers /\ \A k \in Callers : s5[k].eg = 0
      /\ DOMAIN s6 = Platforms /\ \A p \in Platforms : s6[p] = "idle"
  BY DEF Targets!Init, Targets!None, Targets!Idle
<1>2. \A e \in Targets!Egresses : /\ DOMAIN s3[e] = {"is", "out", "results"} /\ DOMAIN s3[e].results = Platforms
                                  /\ s3[e].is = "new"
  BY <1>1 DEF Targets!Unseen
<1>3. Targets!DestinationTypes  BY <1>1, <1>2 DEF Targets!DestinationTypes, Targets!None
<1>4. Targets!InOrder  BY <1>1, <1>2 DEF Targets!InOrder, Targets!None
<1>5. Targets!StartFits  BY <1>1 DEF Targets!StartFits
<1>6. Targets!PushesFit  BY <1>1 DEF Targets!PushesFit, Targets!Runs, Targets!None
<1>7. Targets!EndIsTold  BY <1>1 DEF Targets!EndIsTold
<1> QED  BY <1>3, <1>4, <1>5, <1>6, <1>7 DEF Targets!DestinationsHold

(* A step that leaves the egresses and the pushes as they are.              *)
LEMMA TargetsWait ==
  ASSUME Targets!DestinationsHold, UNCHANGED <<s1, s2, s3, s5, s6, s8, s9>>, s7' \subseteq s7,
         s4' = s4 \/ s4' \notin {"start", "starting"} \/ (s4' = "start" /\ s2 = 0)
  PROVE  Targets!DestinationsHold'
<1>1. Targets!DestinationTypes'  BY DEF Targets!DestinationsHold, Targets!DestinationTypes
<1>2. Targets!InOrder'  BY DEF Targets!DestinationsHold, Targets!InOrder
<1>3. Targets!StartFits'  BY DEF Targets!DestinationsHold, Targets!StartFits, Targets!Newest, Targets!None
<1>4. Targets!PushesFit'  BY DEF Targets!DestinationsHold, Targets!PushesFit, Targets!Runs, Targets!Pushes
<1>5. Targets!EndIsTold'  BY DEF Targets!DestinationsHold, Targets!EndIsTold
<1> QED  BY <1>1, <1>2, <1>3, <1>4, <1>5 DEF Targets!DestinationsHold

(* A running egress o changes, but for whether it was started; nothing it   *)
(* has heard of a destination is taken back, and what is told of it is true.*)
LEMMA TargetsLive ==
  ASSUME Targets!DestinationsHold, NEW o \in Targets!Egresses, Targets!Runs(o), UNCHANGED <<s2, s6, s9>>,
         DOMAIN s3' = Targets!Egresses, \A f \in Targets!Egresses : f # o => s3'[f] = s3[f],
         s3'[o].is \in {"runs", "ended"},
         DOMAIN s3'[o] = {"is", "out", "results"}, DOMAIN s3'[o].results = Platforms,
         \A p \in Platforms : s3[o].results[p] # "unseen" => s3'[o].results[p] # "unseen",
         DOMAIN s5' = Callers, \A k \in Callers : s5'[k].eg \in {s5[k].eg, 0}, s1' = s1,
         NEW v, s7' = s7 \cup {v}, v.eg = o, v.results = s3'[o].results, v.kind = "ended" => s3'[o].is = "ended"
  PROVE  Targets!DestinationTypes' /\ Targets!InOrder' /\ Targets!EndIsTold'
<1>1. s3[o].is = "runs"  BY DEF Targets!Runs
<1>2. Targets!DestinationTypes'  BY DEF Targets!DestinationsHold, Targets!DestinationTypes
<1>3. \A f \in Targets!Egresses : s3'[f].is = "new" <=> s3[f].is = "new"  BY <1>1
<1>4. Targets!InOrder'
  BY <1>3 DEF Targets!DestinationsHold, Targets!DestinationTypes, Targets!InOrder, Targets!None
<1>5. \A f \in Targets!Egresses, p \in Platforms : s3[f].results[p] # "unseen" => s3'[f].results[p] # "unseen"
  OBVIOUS
<1>6. \A f \in Targets!Egresses : s3[f].is = "ended" => s3'[f] = s3[f]  BY <1>1
<1>7. \A x \in s7 : x.eg \in Targets!Egresses  BY DEF Targets!DestinationsHold, Targets!DestinationTypes
<1>8. \A x \in s7' : /\ x.kind = "ended" => s3'[x.eg].is = "ended" /\ x.results = s3'[x.eg].results
                     /\ \A p \in Platforms : x.results[p] # "unseen" => s3'[x.eg].results[p] # "unseen"
  <2>1. TAKE x \in s7'
  <2>2. CASE x \in s7  BY <1>5, <1>6, <1>7, <2>2 DEF Targets!DestinationsHold, Targets!EndIsTold
  <2>3. CASE x = v  BY <2>3
  <2> QED  BY <2>1, <2>2, <2>3
<1>9. \A p \in Platforms \ s9 : s6[p] = "streaming" => s2 # 0 /\ s3'[s2].results[p] # "unseen"
  BY <1>5 DEF Targets!DestinationsHold, Targets!DestinationTypes, Targets!EndIsTold, Targets!None
<1>10. Targets!EndIsTold'  BY <1>8, <1>9 DEF Targets!EndIsTold, Targets!None
<1> QED  BY <1>2, <1>4, <1>10

LEMMA TargetsConnect ==
  ASSUME Targets!DestinationsHold, NEW o \in Targets!Egresses, Targets!Connects(o)
  PROVE  Targets!DestinationsHold'
<1>1. PICK q \in s3[o].out \ Hidden, r \in {"active", "failed"} :
        /\ s3' = [s3 EXCEPT ![o].results[q] = r]
        /\ s7' = s7 \cup {Targets!Event(o, "updated", s3'[o].results)}
  BY DEF Targets!Connects
<1>2. Targets!Runs(o) /\ UNCHANGED <<s1, s2, s4, s5, s6, s8, s9>>  BY DEF Targets!Connects
<1>3. DOMAIN s3 = Targets!Egresses /\ DOMAIN s3[o] = {"is", "out", "results"} /\ DOMAIN s3[o].results = Platforms
      /\ DOMAIN s5 = Callers
  BY DEF Targets!DestinationsHold, Targets!DestinationTypes
<1>4. /\ DOMAIN s3' = Targets!Egresses /\ \A f \in Targets!Egresses : f # o => s3'[f] = s3[f]
      /\ s3'[o] = [s3[o] EXCEPT !.results = [s3[o].results EXCEPT ![q] = r]]
  BY <1>1, <1>3
<1>5. /\ DOMAIN s3'[o] = {"is", "out", "results"} /\ s3'[o].is = s3[o].is /\ s3'[o].out = s3[o].out
      /\ s3'[o].results = [s3[o].results EXCEPT ![q] = r]
  BY <1>3, <1>4
<1>6. /\ DOMAIN s3'[o].results = Platforms
      /\ \A p \in Platforms : s3[o].results[p] # "unseen" => s3'[o].results[p] # "unseen"
  BY <1>3, <1>5
<1> DEFINE v == Targets!Event(o, "updated", s3'[o].results)
<1>7. v.eg = o /\ v.results = s3'[o].results /\ v.kind = "updated"  BY DEF Targets!Event
<1>8. s7' = s7 \cup {v}  BY <1>1
<1> HIDE DEF v
<1>9. Targets!DestinationTypes' /\ Targets!InOrder' /\ Targets!EndIsTold'
  <2>1. s3'[o].is \in {"runs", "ended"}  BY <1>2, <1>5 DEF Targets!Runs
  <2>2. DOMAIN s5' = Callers /\ \A k \in Callers : s5'[k].eg \in {s5[k].eg, 0}  BY <1>2, <1>3
  <2>3. v.kind = "ended" => s3'[o].is = "ended"  BY <1>7
  <2> QED  BY <1>2, <1>4, <1>5, <1>6, <1>7, <1>8, <2>1, <2>2, <2>3, TargetsLive
<1>10. \A f \in Targets!Egresses : s3'[f].is = s3[f].is /\ s3'[f].out = s3[f].out  BY <1>4, <1>5
<1>11. Targets!StartFits'
  BY <1>2, <1>10 DEF Targets!DestinationsHold, Targets!StartFits, Targets!Newest
<1>12. Targets!PushesFit'
  <2>1. Targets!Runs(s2)' => Targets!Runs(s2) /\ s3'[s2].out = s3[s2].out
    BY <1>2, <1>10 DEF Targets!Runs, Targets!DestinationsHold, Targets!DestinationTypes, Targets!None
  <2> QED  BY <1>2, <2>1 DEF Targets!DestinationsHold, Targets!PushesFit, Targets!Pushes
<1> QED  BY <1>9, <1>11, <1>12 DEF Targets!DestinationsHold

LEMMA TargetsEnd ==
  ASSUME Targets!DestinationsHold, NEW o \in Targets!Egresses, Targets!Runs(o), UNCHANGED <<s1, s2, s4, s5, s6, s8, s9>>,
         s3' = Targets!Ended(o), s7' = s7 \cup {Targets!Event(o, "ended", s3[o].results)}
  PROVE  Targets!DestinationsHold'
<1>1. DOMAIN s3 = Targets!Egresses /\ DOMAIN s3[o] = {"is", "out", "results"} /\ DOMAIN s3[o].results = Platforms
      /\ DOMAIN s5 = Callers
  BY DEF Targets!DestinationsHold, Targets!DestinationTypes
<1>2. /\ DOMAIN s3' = Targets!Egresses /\ \A f \in Targets!Egresses : f # o => s3'[f] = s3[f]
      /\ s3'[o] = [s3[o] EXCEPT !.is = "ended"]
  BY <1>1 DEF Targets!Ended
<1>3. /\ DOMAIN s3'[o] = {"is", "out", "results"} /\ s3'[o].is = "ended" /\ s3'[o].out = s3[o].out
      /\ s3'[o].results = s3[o].results
  BY <1>1, <1>2
<1> DEFINE v == Targets!Event(o, "ended", s3[o].results)
<1>4. v.eg = o /\ v.results = s3'[o].results /\ v.kind = "ended"  BY <1>3 DEF Targets!Event
<1>5. s7' = s7 \cup {v}  OBVIOUS
<1> HIDE DEF v
<1>6. Targets!DestinationTypes' /\ Targets!InOrder' /\ Targets!EndIsTold'
  <2>1. s3'[o].is \in {"runs", "ended"} /\ DOMAIN s3'[o].results = Platforms  BY <1>1, <1>3
  <2>2. DOMAIN s5' = Callers /\ \A k \in Callers : s5'[k].eg \in {s5[k].eg, 0}  BY <1>1
  <2>3. \A p \in Platforms : s3[o].results[p] # "unseen" => s3'[o].results[p] # "unseen"  BY <1>3
  <2> QED  BY <1>2, <1>3, <1>4, <1>5, <2>1, <2>2, <2>3, TargetsLive
<1>7. \A f \in Targets!Egresses : (s3'[f].is = "new" <=> s3[f].is = "new") /\ s3'[f].out = s3[f].out
  BY <1>2, <1>3 DEF Targets!Runs
<1>8. Targets!StartFits'  BY <1>7 DEF Targets!DestinationsHold, Targets!StartFits, Targets!Newest
<1>9. Targets!PushesFit'
  <2>1. Targets!Runs(s2)' => Targets!Runs(s2) /\ s3'[s2].out = s3[s2].out
    BY <1>2, <1>3, <1>7 DEF Targets!Runs, Targets!DestinationsHold, Targets!DestinationTypes, Targets!None
  <2> QED  BY <2>1 DEF Targets!DestinationsHold, Targets!PushesFit, Targets!Pushes
<1> QED  BY <1>6, <1>8, <1>9 DEF Targets!DestinationsHold

LEMMA TargetsStop ==
  ASSUME Targets!DestinationsHold, Targets!StopDone
  PROVE  Targets!DestinationsHold'
<1>1. /\ UNCHANGED <<s1, s3, s5, s6, s7, s8>> /\ s2' = 0 /\ s4' \in {"start", "none"}
      /\ s9' = s9 \cup {p \in Platforms : s6[p] = "streaming"}
  BY DEF Targets!StopDone, Targets!None
<1>2. Targets!DestinationTypes'  BY <1>1 DEF Targets!DestinationsHold, Targets!DestinationTypes, Targets!None
<1>3. Targets!InOrder'  BY <1>1 DEF Targets!DestinationsHold, Targets!InOrder, Targets!None
<1>4. Targets!StartFits'  BY <1>1 DEF Targets!StartFits, Targets!None
<1>5. Targets!PushesFit'  BY <1>1 DEF Targets!PushesFit, Targets!Runs, Targets!None
<1>6. Targets!EndIsTold'  BY <1>1 DEF Targets!DestinationsHold, Targets!EndIsTold
<1> QED  BY <1>2, <1>3, <1>4, <1>5, <1>6 DEF Targets!DestinationsHold

(* The next egress is started with what the settings name.                  *)
LEMMA TargetsStart ==
  ASSUME Targets!DestinationsHold, NEW o \in Targets!Egresses, s4 = "start",
         \A f \in 1..o : (s3[f].is = "new") <=> (f = o),
         s3' = [s3 EXCEPT ![o].is = "runs", ![o].out = s1],
         s4' = "starting", s8' = {}, UNCHANGED <<s1, s2, s5, s6, s7, s9>>
  PROVE  Targets!DestinationsHold'
<1>0. Few \in Nat  BY BoundsAssumption
<1>1. DOMAIN s3 = Targets!Egresses /\ DOMAIN s3[o] = {"is", "out", "results"} /\ DOMAIN s3[o].results = Platforms
      /\ s2 = 0
  BY DEF Targets!DestinationsHold, Targets!DestinationTypes, Targets!StartFits, Targets!None
<1>2. /\ DOMAIN s3' = Targets!Egresses /\ \A f \in Targets!Egresses : f # o => s3'[f] = s3[f]
      /\ s3'[o] = [s3[o] EXCEPT !.is = "runs", !.out = s1]
  BY <1>1
<1>3. /\ DOMAIN s3'[o] = {"is", "out", "results"} /\ s3'[o].is = "runs" /\ s3'[o].out = s1
      /\ s3'[o].results = s3[o].results
  BY <1>1, <1>2
<1>4. s3[o].is = "new" /\ \A f \in Targets!Egresses : s3[f].is # "new" <=> f < o
  <2>1. s3[o].is = "new"  BY <1>0 DEF Targets!Egresses
  <2>2. ASSUME NEW f \in Targets!Egresses PROVE s3[f].is # "new" <=> f < o
    <3>1. CASE f <= o  BY <1>0, <2>1, <3>1 DEF Targets!Egresses
    <3>2. CASE ~(f <= o)
      <4>1. o <= f  BY <1>0, <3>2 DEF Targets!Egresses
      <4> QED  BY <1>0, <2>1, <3>2, <4>1 DEF Targets!DestinationsHold, Targets!InOrder, Targets!Egresses
    <3> QED  BY <3>1, <3>2
  <2> QED  BY <2>1, <2>2
<1>5. \A f \in Targets!Egresses : s3'[f].is # "new" <=> f <= o
  BY <1>0, <1>2, <1>3, <1>4 DEF Targets!Egresses
<1>6. Targets!DestinationTypes'
  BY <1>1, <1>2, <1>3 DEF Targets!DestinationsHold, Targets!DestinationTypes
<1>7. Targets!InOrder'
  <2>1. \A e, f \in Targets!Egresses : f <= e /\ s3'[e].is # "new" => s3'[f].is # "new"
    <3>1. SUFFICES ASSUME NEW e \in Targets!Egresses, NEW f \in Targets!Egresses, f <= e, s3'[e].is # "new"
                   PROVE  s3'[f].is # "new"
      OBVIOUS
    <3>2. e \in Nat /\ f \in Nat /\ o \in Nat  BY <1>0 DEF Targets!Egresses
    <3>3. e <= o  BY <1>5, <3>1
    <3>4. f <= o  BY <3>1, <3>2, <3>3
    <3> QED  BY <1>5, <3>1, <3>4
  <2>2. \A f \in Targets!Egresses : s3[f].is # "new" => s3'[f].is # "new"  BY <1>2, <1>3
  <2>3. \A k \in Callers : s5[k].eg # 0 => s5[k].eg \in Targets!Egresses /\ s3'[s5[k].eg].is # "new"
    BY <2>2 DEF Targets!DestinationsHold, Targets!InOrder, Targets!None
  <2> QED  BY <1>1, <2>1, <2>3 DEF Targets!InOrder, Targets!None
<1>8. Targets!StartFits'
  <2>1. Targets!Newest(o)'  BY <1>5 DEF Targets!Newest
  <2>2. \A k \in Callers : s5[k].eg # o
    BY <1>0, <1>4 DEF Targets!DestinationsHold, Targets!InOrder, Targets!None, Targets!Egresses
  <2> QED  BY <1>1, <1>3, <2>1, <2>2 DEF Targets!StartFits, Targets!None
<1>9. Targets!PushesFit'  BY <1>1 DEF Targets!PushesFit, Targets!Runs, Targets!None
<1>10. Targets!EndIsTold'
  <2>1. \A f \in Targets!Egresses : s3'[f].results = s3[f].results /\ (s3[f].is = "ended" => s3'[f].is = "ended")
    BY <1>2, <1>3, <1>4
  <2>2. \A v \in s7 : v.eg \in Targets!Egresses  BY DEF Targets!DestinationsHold, Targets!DestinationTypes
  <2> QED  BY <1>1, <2>1, <2>2 DEF Targets!DestinationsHold, Targets!EndIsTold, Targets!None
<1> QED  BY <1>6, <1>7, <1>8, <1>9, <1>10 DEF Targets!DestinationsHold

LEMMA TargetsStarted ==
  ASSUME Targets!DestinationsHold, Targets!StartDone
  PROVE  Targets!DestinationsHold'
<1>0. Few \in Nat  BY BoundsAssumption
<1>1. /\ UNCHANGED <<s1, s3, s5, s6, s7, s8, s9>> /\ s4 = "starting" /\ s4' = "none"
      /\ s2' = CHOOSE e \in Targets!Egresses : Targets!Newest(e)
  BY DEF Targets!StartDone, Targets!Newest
<1>2. PICK o \in Targets!Egresses : /\ Targets!Newest(o) /\ \A k \in Callers : s5[k].eg # o
                                    /\ \A p \in Platforms \ s8 : p \in s3[o].out <=> p \in s1
  BY <1>1 DEF Targets!DestinationsHold, Targets!StartFits
<1>3. s2 = 0  BY <1>1 DEF Targets!DestinationsHold, Targets!StartFits, Targets!None
<1>4. s2' = o
  <2>1. s2' \in Targets!Egresses /\ Targets!Newest(s2')  BY <1>1, <1>2
  <2>2. o <= s2' /\ s2' <= o  BY <1>0, <1>2, <2>1 DEF Targets!Newest, Targets!Egresses
  <2> QED  BY <1>0, <2>1, <2>2 DEF Targets!Egresses
<1>5. s3[o].is # "new" /\ o # 0  BY <1>0, <1>2 DEF Targets!Newest, Targets!Egresses
<1>6. Targets!DestinationTypes'  BY <1>1, <1>4 DEF Targets!DestinationsHold, Targets!DestinationTypes
<1>7. Targets!InOrder'  BY <1>1, <1>4, <1>5 DEF Targets!DestinationsHold, Targets!InOrder
<1>8. Targets!StartFits'  BY <1>1 DEF Targets!StartFits
<1>9. Targets!PushesFit'
  <2>1. \A p : Targets!Pushes(p)' = {}  BY <1>1, <1>2, <1>4 DEF Targets!Pushes
  <2> QED  BY <1>1, <1>2, <1>4, <2>1 DEF Targets!PushesFit
<1>10. Targets!EndIsTold'
  BY <1>1, <1>3 DEF Targets!DestinationsHold, Targets!EndIsTold, Targets!None
<1> QED  BY <1>6, <1>7, <1>8, <1>9, <1>10 DEF Targets!DestinationsHold

(* The settings change, and the difference is on its way.                   *)
LEMMA TargetsChange ==
  ASSUME Targets!DestinationsHold, NEW k \in Callers, Targets!Change(k)
  PROVE  Targets!DestinationsHold'
<1>1. PICK q \in Platforms :
        /\ s1' = (s1 \cup {q}) \ (s1 \cap {q})
        /\ s5' = IF s2 = 0 THEN s5 ELSE [s5 EXCEPT ![k] = [eg |-> s2, add |-> s1' \ s1, remove |-> s1 \ s1']]
        /\ s8' = IF \/ s4 = "starting"
                    \/ \E j \in Callers : s5[j].eg # 0 /\ q \in s5[j].add \cup s5[j].remove
                 THEN s8 \cup {q} ELSE s8
  BY DEF Targets!Change, Targets!None, Targets!Removed
<1>2. UNCHANGED <<s2, s3, s4, s6, s7, s9>> /\ s5[k].eg = 0  BY DEF Targets!Change, Targets!None
<1>3. DOMAIN s5 = Callers /\ s1 \subseteq Platforms /\ s2 \in Targets!Egresses \cup {0}
  BY DEF Targets!DestinationsHold, Targets!DestinationTypes, Targets!None
<1>4. s1' \subseteq Platforms /\ \A p \in Platforms : p # q => (p \in s1' <=> p \in s1)
  BY <1>1, <1>3
<1>5. /\ DOMAIN s5' = Callers /\ \A j \in Callers \ {k} : s5'[j] = s5[j]
      /\ s2 # 0 => s5'[k].eg = s2 /\ s5'[k].add = s1' \ s1 /\ s5'[k].remove = s1 \ s1'
      /\ s2 = 0 => s5' = s5
  <2>1. CASE s2 = 0  BY <1>1, <1>3, <2>1
  <2>2. CASE s2 # 0
    <3> DEFINE w == [eg |-> s2, add |-> s1' \ s1, remove |-> s1 \ s1']
    <3>1. w.eg = s2 /\ w.add = s1' \ s1 /\ w.remove = s1 \ s1'  OBVIOUS
    <3>2. s5' = [s5 EXCEPT ![k] = w]  BY <1>1, <2>2
    <3> HIDE DEF w
    <3> QED  BY <1>3, <2>2, <3>1, <3>2
  <2> QED  BY <2>1, <2>2
<1>6. Targets!DestinationTypes'
  BY <1>2, <1>4, <1>5 DEF Targets!DestinationsHold, Targets!DestinationTypes
<1>7. Targets!InOrder'
  <2>1. \A j \in Callers : s5'[j].eg # 0 => s5'[j].eg \in Targets!Egresses /\ s3[s5'[j].eg].is # "new"
    BY <1>3, <1>5 DEF Targets!DestinationsHold, Targets!InOrder, Targets!None
  <2> QED  BY <1>2, <2>1 DEF Targets!DestinationsHold, Targets!InOrder, Targets!None
<1>8. Targets!StartFits'
  <2>1. CASE s4 = "starting"
    <3>1. s2 = 0 /\ s5' = s5  BY <1>5, <2>1 DEF Targets!DestinationsHold, Targets!StartFits, Targets!None
    <3>2. \A p \in Platforms \ s8' : p \in Platforms \ s8 /\ (p \in s1' <=> p \in s1)  BY <1>1, <1>4, <2>1
    <3>3. PICK o \in Targets!Egresses : /\ Targets!Newest(o) /\ \A j \in Callers : s5[j].eg # o
                                        /\ \A p \in Platforms \ s8 : p \in s3[o].out <=> p \in s1
      BY <2>1 DEF Targets!DestinationsHold, Targets!StartFits
    <3>4. Targets!Newest(o)'  BY <1>2, <3>3 DEF Targets!Newest
    <3>5. \A p \in Platforms \ s8' : p \in s3[o].out <=> p \in s1'  BY <3>2, <3>3
    <3> QED  BY <1>2, <2>1, <3>1, <3>3, <3>4, <3>5 DEF Targets!StartFits, Targets!None
  <2>2. CASE s4 # "starting"
    BY <1>2, <2>2 DEF Targets!DestinationsHold, Targets!StartFits
  <2> QED  BY <2>1, <2>2
<1>9. Targets!PushesFit'
  <2>1. SUFFICES ASSUME Targets!Runs(s2)', NEW p \in Platforms, p \notin s8'
                 PROVE  /\ \A j \in Targets!Pushes(p)' : (p \in s5'[j].add => p \in s1') /\ (p \in s5'[j].remove => p \notin s1')
                        /\ \A i, j \in Targets!Pushes(p)' : i = j
                        /\ Targets!Pushes(p)' = {} => (p \in s3'[s2'].out <=> p \in s1')
    BY DEF Targets!PushesFit
  <2>2. Targets!Runs(s2) /\ s2 # 0 /\ p \notin s8  BY <1>1, <1>2, <2>1 DEF Targets!Runs, Targets!None
  <2>3. /\ \A j \in Targets!Pushes(p) : (p \in s5[j].add => p \in s1) /\ (p \in s5[j].remove => p \notin s1)
        /\ \A i, j \in Targets!Pushes(p) : i = j
        /\ Targets!Pushes(p) = {} => (p \in s3[s2].out <=> p \in s1)
    BY <2>2 DEF Targets!DestinationsHold, Targets!PushesFit
  <2>4. k \notin Targets!Pushes(p)  BY <1>2, <2>2 DEF Targets!Pushes
  <2>5. CASE p = q
    <3>1. Targets!Pushes(p)' = {k}
      <4>1. k \in Targets!Pushes(p)'  BY <1>1, <1>2, <1>3, <1>5, <2>2, <2>5 DEF Targets!Pushes
      <4>2. \A j \in Callers \ {k} : j \notin Targets!Pushes(p)'
        BY <1>1, <1>2, <1>5, <2>1, <2>2, <2>5 DEF Targets!Pushes
      <4> QED  BY <4>1, <4>2 DEF Targets!Pushes
    <3> QED  BY <1>5, <2>2, <3>1
  <2>6. CASE p # q
    <3>1. p \in s1' <=> p \in s1  BY <1>4, <2>6
    <3>2. k \notin Targets!Pushes(p)'  BY <1>5, <2>2, <3>1 DEF Targets!Pushes
    <3>3. Targets!Pushes(p)' = Targets!Pushes(p)
      <4>1. \A j \in Callers \ {k} : j \in Targets!Pushes(p)' <=> j \in Targets!Pushes(p)
        BY <1>2, <1>5 DEF Targets!Pushes
      <4> QED  BY <2>4, <3>2, <4>1 DEF Targets!Pushes
    <3>4. \A j \in Targets!Pushes(p) : s5'[j] = s5[j]  BY <1>5, <2>4 DEF Targets!Pushes
    <3> QED  BY <1>2, <2>3, <3>1, <3>3, <3>4
  <2> QED  BY <2>5, <2>6
<1>10. Targets!EndIsTold'  BY <1>2 DEF Targets!DestinationsHold, Targets!EndIsTold
<1> QED  BY <1>6, <1>7, <1>8, <1>9, <1>10 DEF Targets!DestinationsHold

(* The push of one change: it comes in, it comes too late, or it fails.     *)
LEMMA TargetsPush ==
  ASSUME Targets!DestinationsHold, NEW k \in Callers, Targets!Push(k)
  PROVE  Targets!DestinationsHold'
<1>0. PICK o : o = s5[k].eg  OBVIOUS
<1>1. /\ UNCHANGED <<s1, s2, s4, s6, s9>> /\ o # 0 /\ s5' = [s5 EXCEPT ![k] = Targets!Idle]
  BY <1>0 DEF Targets!Push, Targets!None
<1>2. /\ o \in Targets!Egresses /\ DOMAIN s5 = Callers /\ DOMAIN s3 = Targets!Egresses
      /\ DOMAIN s3[o] = {"is", "out", "results"} /\ DOMAIN s3[o].results = Platforms
  BY <1>0, <1>1 DEF Targets!DestinationsHold, Targets!DestinationTypes, Targets!InOrder, Targets!None
<1>3. DOMAIN s5' = Callers /\ s5'[k].eg = 0 /\ \A j \in Callers \ {k} : s5'[j] = s5[j]
  BY <1>1, <1>2 DEF Targets!Idle, Targets!None
<1>4. \A j \in Callers : s5'[j].eg \in {s5[j].eg, 0}  BY <1>3
<1>5. s2 # 0 => \A p : Targets!Pushes(p)' = Targets!Pushes(p) \ {k}
  BY <1>1, <1>3 DEF Targets!Pushes
<1>6. CASE UNCHANGED <<s3, s7>> /\ s8 \subseteq s8'
           /\ (~Targets!Runs(o) \/ s8' = s8 \cup s5[k].add \cup s5[k].remove)
  <2>1. Targets!DestinationTypes'  BY <1>1, <1>3, <1>6 DEF Targets!DestinationsHold, Targets!DestinationTypes
  <2>2. Targets!InOrder'  BY <1>1, <1>4, <1>6 DEF Targets!DestinationsHold, Targets!InOrder, Targets!None
  <2>3. Targets!StartFits'
    <3>1. \A e \in Targets!Egresses : Targets!Newest(e)' <=> Targets!Newest(e)  BY <1>6 DEF Targets!Newest
    <3>2. \A e \in Targets!Egresses : (\A j \in Callers : s5[j].eg # e) => \A j \in Callers : s5'[j].eg # e
      <4>1. 0 \notin Targets!Egresses  BY DEF Targets!Egresses
      <4> QED  BY <1>4, <4>1
    <3> QED  BY <1>1, <1>6, <3>1, <3>2 DEF Targets!DestinationsHold, Targets!StartFits, Targets!None
  <2>4. Targets!PushesFit'
    <3>1. SUFFICES ASSUME Targets!Runs(s2)', NEW p \in Platforms, p \notin s8'
                   PROVE  /\ \A j \in Targets!Pushes(p)' : (p \in s5'[j].add => p \in s1') /\ (p \in s5'[j].remove => p \notin s1')
                          /\ \A i, j \in Targets!Pushes(p)' : i = j
                          /\ Targets!Pushes(p)' = {} => (p \in s3'[s2'].out <=> p \in s1')
      BY DEF Targets!PushesFit
    <3>2. Targets!Runs(s2) /\ s2 # 0 /\ p \notin s8  BY <1>1, <1>6, <3>1 DEF Targets!Runs, Targets!None
    <3>3. /\ \A j \in Targets!Pushes(p) : (p \in s5[j].add => p \in s1) /\ (p \in s5[j].remove => p \notin s1)
          /\ \A i, j \in Targets!Pushes(p) : i = j
          /\ Targets!Pushes(p) = {} => (p \in s3[s2].out <=> p \in s1)
      BY <3>2 DEF Targets!DestinationsHold, Targets!PushesFit
    <3>4. k \notin Targets!Pushes(p)  BY <1>0, <1>6, <3>1, <3>2 DEF Targets!Pushes
    <3>5. Targets!Pushes(p)' = Targets!Pushes(p)  BY <1>5, <3>2, <3>4
    <3>6. \A j \in Targets!Pushes(p) : s5'[j] = s5[j]  BY <1>3, <3>4 DEF Targets!Pushes
    <3> QED  BY <1>1, <1>6, <3>3, <3>5, <3>6
  <2>5. Targets!EndIsTold'  BY <1>1, <1>6 DEF Targets!DestinationsHold, Targets!EndIsTold
  <2> QED  BY <2>1, <2>2, <2>3, <2>4, <2>5 DEF Targets!DestinationsHold
<1>7. CASE /\ Targets!Runs(o) /\ UNCHANGED s8
           /\ s3' = [s3 EXCEPT ![o].out = (s3[o].out \cup s5[k].add) \ s5[k].remove,
                               ![o].results = [p \in Platforms |-> IF p \in s5[k].remove /\ s3[o].results[p] = "active"
                                                                   THEN "finished" ELSE s3[o].results[p]]]
           /\ s7' = s7 \cup {Targets!Event(o, "updated", s3'[o].results)}
  <2> DEFINE out == (s3[o].out \cup s5[k].add) \ s5[k].remove
             results == [p \in Platforms |-> IF p \in s5[k].remove /\ s3[o].results[p] = "active"
                                             THEN "finished" ELSE s3[o].results[p]]
             v == Targets!Event(o, "updated", s3'[o].results)
  <2>1. DOMAIN results = Platforms /\ \A p \in Platforms : s3[o].results[p] # "unseen" => results[p] # "unseen"
    OBVIOUS
  <2>2. s3' = [s3 EXCEPT ![o].out = out, ![o].results = results]  BY <1>7
  <2> HIDE DEF out, results
  <2>3. /\ DOMAIN s3' = Targets!Egresses /\ \A f \in Targets!Egresses : f # o => s3'[f] = s3[f]
        /\ s3'[o] = [s3[o] EXCEPT !.out = out, !.results = results]
    BY <1>2, <2>2
  <2>4. DOMAIN s3'[o] = {"is", "out", "results"} /\ s3'[o].is = s3[o].is /\ s3'[o].out = out /\ s3'[o].results = results
    BY <1>2, <2>3
  <2>5. v.eg = o /\ v.results = s3'[o].results /\ v.kind = "updated"  BY DEF Targets!Event
  <2>6. s7' = s7 \cup {v}  BY <1>7
  <2> HIDE DEF v
  <2>7. Targets!DestinationTypes' /\ Targets!InOrder' /\ Targets!EndIsTold'
    <3>1. s3'[o].is \in {"runs", "ended"}  BY <1>7, <2>4 DEF Targets!Runs
    <3>2. v.kind = "ended" => s3'[o].is = "ended"  BY <2>5
    <3>3. /\ DOMAIN s3'[o].results = Platforms
          /\ \A p \in Platforms : s3[o].results[p] # "unseen" => s3'[o].results[p] # "unseen"
      BY <2>1, <2>4
    <3>4. Targets!Runs(o)  BY <1>7
    <3> QED  BY <1>1, <1>2, <1>3, <1>4, <2>3, <2>4, <2>5, <2>6, <3>1, <3>2, <3>3, <3>4, TargetsLive
  <2>8. Targets!StartFits'
    <3>1. \A e \in Targets!Egresses : Targets!Newest(e)' <=> Targets!Newest(e)  BY <2>3, <2>4 DEF Targets!Newest
    <3>2. \A e \in Targets!Egresses : (\A j \in Callers : s5[j].eg # e) =>
              e # o /\ \A j \in Callers : s5'[j].eg # e
      <4>1. 0 \notin Targets!Egresses  BY DEF Targets!Egresses
      <4> QED  BY <1>0, <1>4, <4>1
    <3> QED  BY <1>1, <1>7, <2>3, <3>1, <3>2 DEF Targets!DestinationsHold, Targets!StartFits, Targets!None
  <2>9. Targets!PushesFit'
    <3>1. SUFFICES ASSUME Targets!Runs(s2)', NEW p \in Platforms, p \notin s8'
                   PROVE  /\ \A j \in Targets!Pushes(p)' : (p \in s5'[j].add => p \in s1') /\ (p \in s5'[j].remove => p \notin s1')
                          /\ \A i, j \in Targets!Pushes(p)' : i = j
                          /\ Targets!Pushes(p)' = {} => (p \in s3'[s2'].out <=> p \in s1')
      BY DEF Targets!PushesFit
    <3>2. s2 # 0 /\ p \notin s8 /\ s2 \in Targets!Egresses
      BY <1>1, <1>7, <3>1 DEF Targets!Runs, Targets!None, Targets!DestinationsHold, Targets!DestinationTypes
    <3>3. Targets!Runs(s2)  BY <1>1, <2>3, <2>4, <3>1, <3>2 DEF Targets!Runs, Targets!None
    <3>4. /\ \A j \in Targets!Pushes(p) : (p \in s5[j].add => p \in s1) /\ (p \in s5[j].remove => p \notin s1)
          /\ \A i, j \in Targets!Pushes(p) : i = j
          /\ Targets!Pushes(p) = {} => (p \in s3[s2].out <=> p \in s1)
      BY <3>2, <3>3 DEF Targets!DestinationsHold, Targets!PushesFit
    <3>5. Targets!Pushes(p)' = Targets!Pushes(p) \ {k}  BY <1>5, <3>2
    <3>6. \A j \in Targets!Pushes(p)' : s5'[j] = s5[j]  BY <1>3, <3>5 DEF Targets!Pushes
    <3>7. ASSUME Targets!Pushes(p)' = {} PROVE p \in s3'[s2].out <=> p \in s1
      <4>1. CASE k \in Targets!Pushes(p)
        <5>1. s2 = o /\ p \in s5[k].add \cup s5[k].remove  BY <1>0, <4>1 DEF Targets!Pushes
        <5>2. (p \in s5[k].add => p \in s1) /\ (p \in s5[k].remove => p \notin s1)  BY <3>4, <4>1
        <5> QED  BY <2>4, <5>1, <5>2 DEF out
      <4>2. CASE k \notin Targets!Pushes(p)
        <5>1. Targets!Pushes(p) = {}  BY <3>5, <3>7, <4>2
        <5>2. s2 = o => p \notin s5[k].add /\ p \notin s5[k].remove  BY <1>0, <4>2 DEF Targets!Pushes
        <5>3. p \in s3'[s2].out <=> p \in s3[s2].out  BY <2>3, <2>4, <3>2, <5>2 DEF out
        <5> QED  BY <3>4, <5>1, <5>3
      <4> QED  BY <4>1, <4>2
    <3> QED  BY <1>1, <3>4, <3>5, <3>6, <3>7
  <2> QED  BY <2>7, <2>8, <2>9 DEF Targets!DestinationsHold
<1> QED
  <2>1. \/ /\ Targets!Runs(o) /\ UNCHANGED s8
           /\ s3' = [s3 EXCEPT ![o].out = (s3[o].out \cup s5[k].add) \ s5[k].remove,
                               ![o].results = [p \in Platforms |-> IF p \in s5[k].remove /\ s3[o].results[p] = "active"
                                                                   THEN "finished" ELSE s3[o].results[p]]]
           /\ s7' = s7 \cup {Targets!Event(o, "updated", s3'[o].results)}
        \/ ~Targets!Runs(o) /\ UNCHANGED <<s3, s7, s8>>
        \/ UNCHANGED <<s3, s7>> /\ s8' = s8 \cup s5[k].add \cup s5[k].remove
    BY <1>0, <1>2 DEF Targets!Push
  <2> QED  BY <1>6, <1>7, <2>1

(* An event comes in: of another egress, of this one, or of its end.        *)
LEMMA TargetsHear ==
  ASSUME Targets!DestinationsHold, Targets!Deliver
  PROVE  Targets!DestinationsHold'
<1>1. PICK v \in s7 :
        /\ s7' = s7 \ {v}
        /\ IF v.eg = s2
           THEN /\ s6' = [p \in Platforms |-> IF p \in Targets!Matched(v)
                            THEN Targets!AtEnd(v.kind, Targets!Status(v.results[p])) ELSE s6[p]]
                /\ s2' = IF v.kind = "ended" THEN 0 ELSE s2
                /\ s9' = (s9 \ Targets!Matched(v)) \cup
                           (IF v.kind = "ended" THEN {p \in Platforms \ s1 : s6[p] = "streaming"} ELSE {})
           ELSE UNCHANGED <<s6, s2, s9>>
  BY DEF Targets!Deliver, Targets!OfMeeting, Targets!None
<1>2. UNCHANGED <<s1, s3, s4, s5, s8>>  BY DEF Targets!Deliver
<1>3. v.eg \in Targets!Egresses /\ v.eg # 0
  BY DEF Targets!DestinationsHold, Targets!DestinationTypes, Targets!Egresses
<1>4. CASE v.eg # s2
  <2>1. UNCHANGED <<s2, s6, s9>> /\ s7' \subseteq s7  BY <1>1, <1>4
  <2> QED  BY <1>2, <2>1, TargetsWait
<1>5. CASE v.eg = s2 /\ v.kind = "ended"
  <2>1. /\ s2' = 0 /\ DOMAIN s6' = Platforms
        /\ \A p \in Platforms : p \notin Targets!Matched(v) => s6'[p] = s6[p]
        /\ \A p \in Targets!Matched(v) : s6'[p] # "streaming"
        /\ s9' = (s9 \ Targets!Matched(v)) \cup {p \in Platforms \ s1 : s6[p] = "streaming"}
    <3>1. Targets!Matched(v) \subseteq Platforms
      BY DEF Targets!Matched, Targets!DestinationsHold, Targets!DestinationTypes
    <3>2. \A s : Targets!AtEnd("ended", s) # "streaming"  BY DEF Targets!AtEnd
    <3> QED  BY <1>1, <1>5, <3>1, <3>2
  <2>2. Targets!DestinationTypes'
    BY <1>1, <1>2, <2>1 DEF Targets!DestinationsHold, Targets!DestinationTypes, Targets!None
  <2>3. Targets!InOrder'  BY <1>2, <2>1 DEF Targets!DestinationsHold, Targets!InOrder, Targets!None
  <2>4. Targets!StartFits'
    BY <1>2, <2>1 DEF Targets!DestinationsHold, Targets!StartFits, Targets!None, Targets!Newest
  <2>5. Targets!PushesFit'  BY <2>1 DEF Targets!PushesFit, Targets!Runs, Targets!None
  <2>6. \A p \in Platforms \ s9' : s6'[p] # "streaming"
    <3>1. TAKE p \in Platforms \ s9'
    <3>2. CASE p \in Targets!Matched(v)  BY <2>1, <3>2
    <3>3. CASE p \notin Targets!Matched(v)
      <4>1. s6'[p] = s6[p] /\ p \notin s9  BY <2>1, <3>1, <3>3
      <4>2. ASSUME s6[p] = "streaming" PROVE FALSE
        <5>1. p \in s1  BY <2>1, <3>1, <4>2
        <5>2. s3[s2].results[p] # "unseen"
          BY <3>1, <4>1, <4>2 DEF Targets!DestinationsHold, Targets!EndIsTold
        <5>3. v.results = s3[s2].results  BY <1>5 DEF Targets!DestinationsHold, Targets!EndIsTold
        <5> QED  BY <3>3, <5>1, <5>2, <5>3 DEF Targets!Matched
      <4> QED  BY <4>1, <4>2
    <3> QED  BY <3>2, <3>3
  <2>7. Targets!EndIsTold'
    BY <1>1, <1>2, <2>6 DEF Targets!DestinationsHold, Targets!EndIsTold
  <2> QED  BY <2>2, <2>3, <2>4, <2>5, <2>7 DEF Targets!DestinationsHold
<1>6. CASE v.eg = s2 /\ v.kind # "ended"
  <2>1. /\ s2' = s2 /\ DOMAIN s6' = Platforms /\ s9' = s9 \ Targets!Matched(v)
        /\ \A p \in Platforms : p \notin Targets!Matched(v) => s6'[p] = s6[p]
    BY <1>1, <1>6
  <2>2. Targets!DestinationTypes'
    BY <1>1, <1>2, <2>1 DEF Targets!DestinationsHold, Targets!DestinationTypes
  <2>3. Targets!InOrder'  BY <1>2, <2>1 DEF Targets!DestinationsHold, Targets!InOrder
  <2>4. Targets!StartFits'
    BY <1>2, <2>1 DEF Targets!DestinationsHold, Targets!StartFits, Targets!Newest
  <2>5. Targets!PushesFit'
    BY <1>2, <2>1 DEF Targets!DestinationsHold, Targets!PushesFit, Targets!Runs, Targets!Pushes
  <2>6. \A p \in Platforms \ s9' : s6'[p] = "streaming" => s2 # 0 /\ s3[s2].results[p] # "unseen"
    <3>1. TAKE p \in Platforms \ s9'
    <3>2. CASE p \in Targets!Matched(v)
      BY <1>3, <1>6, <3>1, <3>2 DEF Targets!Matched, Targets!DestinationsHold, Targets!EndIsTold
    <3>3. CASE p \notin Targets!Matched(v)
      BY <2>1, <3>1, <3>3 DEF Targets!DestinationsHold, Targets!EndIsTold, Targets!None
    <3> QED  BY <3>2, <3>3
  <2>7. Targets!EndIsTold'
    BY <1>1, <1>2, <2>1, <2>6 DEF Targets!DestinationsHold, Targets!EndIsTold, Targets!None
  <2> QED  BY <2>2, <2>3, <2>4, <2>5, <2>7 DEF Targets!DestinationsHold
<1> QED  BY <1>4, <1>5, <1>6

LEMMA TargetsStep ==
  ASSUME Targets!DestinationsHold, [Targets!Next]_(Targets!vars)
  PROVE  Targets!DestinationsHold'
<1>1. CASE UNCHANGED Targets!vars
  <2>1. UNCHANGED <<s1, s2, s3, s4, s5, s6, s7, s8, s9>>  BY <1>1 DEF Targets!vars
  <2> QED  BY <2>1, TargetsWait
<1>2. ASSUME NEW e \in Targets!Egresses, Targets!Dies(e) PROVE Targets!DestinationsHold'
  BY <1>2, TargetsEnd DEF Targets!Dies
<1>3. ASSUME Targets!StopsAtHost PROVE Targets!DestinationsHold'
  <2>1. s2 \in Targets!Egresses /\ Targets!Runs(s2)
    BY <1>3 DEF Targets!StopsAtHost, Targets!Runs, Targets!DestinationsHold, Targets!DestinationTypes
  <2> QED  BY <1>3, <2>1, TargetsEnd DEF Targets!StopsAtHost
<1>4. ASSUME Targets!Lost PROVE Targets!DestinationsHold'
  <2>1. s7' \subseteq s7  BY <1>4 DEF Targets!Lost
  <2> QED  BY <1>4, <2>1, TargetsWait DEF Targets!Lost
<1>5. ASSUME Targets!Ask PROVE Targets!DestinationsHold'
  <2>1. /\ UNCHANGED <<s1, s2, s3, s5, s6, s7, s8, s9>>
        /\ s4' \notin {"start", "starting"} \/ (s4' = "start" /\ s2 = 0)
    BY <1>5 DEF Targets!Ask, Targets!None
  <2> QED  BY <2>1, TargetsWait
<1>6. ASSUME Targets!Start PROVE Targets!DestinationsHold'
  <2>1. UNCHANGED <<s1, s2, s5, s6, s7, s9>> /\ s4 = "start"  BY <1>6 DEF Targets!Start
  <2>2. CASE s4' = "none" /\ UNCHANGED <<s3, s8>>  BY <2>1, <2>2, TargetsWait
  <2>3. CASE /\ s4' = "starting" /\ s8' = {}
             /\ \E e \in Targets!Egresses :
                  /\ \A f \in 1..e : (s3[f].is = "new") <=> (f = e)
                  /\ s3' = [s3 EXCEPT ![e].is = "runs", ![e].out = s1]
    BY <2>1, <2>3, TargetsStart
  <2> QED  BY <1>6, <2>2, <2>3 DEF Targets!Start
<1> QED
  BY <1>1, <1>2, <1>3, <1>4, <1>5, <1>6, TargetsConnect, TargetsStop, TargetsStarted, TargetsChange, TargetsPush, TargetsHear
  DEF Targets!Next

(* And what it gives.                                                       *)
LEMMA TargetsGive ==
  ASSUME Targets!DestinationsHold
  PROVE  Targets!DestinationsFollow
<1>1. ASSUME \A k \in Callers : s5[k] = Targets!Idle, Targets!Runs(s2), NEW p \in Platforms \ s8
      PROVE  p \in s3[s2].out <=> p \in s1
  <2>1. Targets!Pushes(p) = {}  BY <1>1 DEF Targets!Pushes, Targets!Runs, Targets!Idle
  <2> QED  BY <1>1, <2>1 DEF Targets!DestinationsHold, Targets!PushesFit
<1>2. ASSUME s2 = 0, NEW p \in s1 \ s9 PROVE Targets!Shown(p) # "streaming"
  BY <1>2 DEF Targets!Shown, Targets!None, Targets!DestinationsHold, Targets!EndIsTold, Targets!DestinationTypes
<1> QED  BY <1>1, <1>2 DEF Targets!DestinationsFollow, Targets!None

-----------------------------------------------------------------------------
(* Who is in a room: the webhooks on their way.                             *)
LEMMA RoomFinite == \A S : Room!IsFiniteSet(S) <=> IsFiniteSet(S)
BY DEF Room!IsFiniteSet, IsFiniteSet

\* LiveKit tells of everybody who was there, in some order.
LEMMA RoomListed ==
  ASSUME NEW S, IsFiniteSet(S)
  PROVE  /\ Room!Cardinality(S) \in Nat
         /\ Room!InSomeOrder(S) \in [1..Room!Cardinality(S) -> S]
         /\ \A x \in S : \E n \in 1..Room!Cardinality(S) : Room!InSomeOrder(S)[n] = x
<1>1. Room!Cardinality(S) = Cardinality(S)  BY DEF Room!Cardinality, Cardinality, Room!IsFiniteSet, IsFiniteSet
<1> DEFINE N == Cardinality(S)
           f == Room!InSomeOrder(S)
<1>2. N \in Nat /\ ExistsBijection(1..N, S)  BY FS_CardinalityType
<1>3. PICK g \in [1..N -> S] : \A a, b \in 1..N : g[a] = g[b] => a = b
  BY <1>2 DEF ExistsBijection, Bijection, Injection, IsInjective
<1>4. DOMAIN g = 1..N  BY <1>3
<1>5. Room!IsInjective(g)  BY <1>3, <1>4 DEF Room!IsInjective
<1>6. f \in [1..N -> S] /\ Room!IsInjective(f)  BY <1>1, <1>5 DEF Room!InSomeOrder
<1> HIDE DEF f
<1>7. f \in Injection(1..N, S)  BY <1>6 DEF Injection, IsInjective, Room!IsInjective
<1>8. IsFiniteSet(1..N) /\ Cardinality(1..N) = N
  <2>1. 1 \in Int /\ N \in Int  BY <1>2
  <2>2. IsFiniteSet(1..N) /\ Cardinality(1..N) = IF 1 > N THEN 0 ELSE N - 1 + 1  BY <2>1, FS_Interval
  <2> QED  BY <1>2, <2>2
<1>9. f \in Surjection(1..N, S)  BY <1>7, <1>8, FS_Injection
<1> QED  BY <1>1, <1>2, <1>6, <1>9 DEF Surjection, f

LEMMA RoomInit == Room!Init => Room!RoomHolds
<1> SUFFICES ASSUME Room!Init PROVE Room!RoomHolds  OBVIOUS
<1>1. /\ s4 = [i \in Room!Ids |-> 0] /\ s10 = {} /\ s12 = <<>> /\ s13 = {}
      /\ s14 = [done |-> FALSE, waiting |-> FALSE, list |-> {}]
  BY DEF Room!Init
<1>2. Room!RoomTypes
  <2>1. Room!IsFiniteSet(s10)  BY <1>1, RoomFinite, FS_EmptySet
  <2> QED  BY <1>1, <2>1 DEF Room!RoomTypes
<1>3. \A i : Room!Telling(i) = {}  BY <1>1 DEF Room!Telling
<1>4. Room!LastTells  BY <1>3 DEF Room!LastTells
<1> QED  BY <1>1, <1>2, <1>3, <1>4 DEF Room!RoomHolds, Room!RowOf

(* A step that changes no more than the rows: one is opened for somebody a  *)
(* token was just made for.                                                 *)
LEMMA RoomRows ==
  ASSUME Room!RoomHolds, UNCHANGED <<s1, s10, s12, s13, s14, s15>>, s7 \subseteq s7',
         DOMAIN s4' = Room!Ids,
         \A i \in Room!Ids : s4'[i] = s4[i] \/ (s4'[i] = 1 /\ i \in s7')
  PROVE  Room!RoomHolds'
<1>1. \A i : Room!Telling(i)' = Room!Telling(i)  BY DEF Room!Telling, Room!Tells
<1>2. Room!RoomTypes'  BY DEF Room!RoomHolds, Room!RoomTypes, Room!Events, Room!Ids, Room!NoOne
<1>3. s15 => Room!LastTells'  BY <1>1 DEF Room!RoomHolds, Room!LastTells
<1>4. \A i \in Room!Ids : Room!RowOf(i) => Room!RowOf(i)'
  <2>1. TAKE i \in Room!Ids
  <2> QED  BY <2>1 DEF Room!RowOf
<1> QED  BY <1>1, <1>2, <1>3, <1>4 DEF Room!RoomHolds

(* LiveKit tells of more.                                                   *)
LEMMA RoomTold ==
  ASSUME Room!RoomHolds, NEW q \in Seq(Room!Events), s12' = s12 \o q, UNCHANGED <<s1, s4, s13, s14, s15>>,
         s10' \subseteq Room!Ids, IsFiniteSet(s10'),
         \A k \in 1..Len(q) : q[k].type = "joined" => q[k].who \in Room!Ids,
         \A i \in Room!Ids : \A k \in 1..Len(q) :
           Room!Tells(q[k], i) /\ (\A m \in 1..Len(q) : Room!Tells(q[m], i) => m <= k)
             => (q[k].type = "joined" <=> i \in s10'),
         \A i \in Room!Ids : (\A k \in 1..Len(q) : ~Room!Tells(q[k], i))
             => (i \in s10' <=> i \in s10) /\ (i \in s7 => i \in s7')
  PROVE  Room!RoomHolds'
<1>0. PICK L, K : L = Len(s12) /\ K = Len(q)  OBVIOUS
<1>1. /\ s12 \in Seq(Room!Events) /\ L \in Nat /\ K \in Nat
      /\ \A n \in 1..L : s12[n].type = "joined" => s12[n].who \in Room!Ids
  BY <1>0 DEF Room!RoomHolds, Room!RoomTypes
<1>2. /\ s12' \in Seq(Room!Events) /\ Len(s12') = L + K
      /\ \A n \in 1..L : s12'[n] = s12[n]
      /\ \A k \in 1..K : s12'[L + k] = q[k]
  BY <1>0, <1>1
<1>3. \A n \in 1..(L + K) : n \in 1..L \/ \E k \in 1..K : n = L + k
  <2>1. TAKE n \in 1..(L + K)
  <2>2. CASE n <= L  BY <1>1, <2>1, <2>2
  <2>3. CASE n > L
    <3>1. n - L \in 1..K /\ n = L + (n - L)  BY <1>1, <2>1, <2>3
    <3> QED  BY <3>1
  <2> QED  BY <1>1, <2>1, <2>2, <2>3
<1>4. Room!RoomTypes'
  <2>1. \A n \in 1..(L + K) : s12'[n].type = "joined" => s12'[n].who \in Room!Ids
    BY <1>0, <1>1, <1>2, <1>3
  <2>2. Room!IsFiniteSet(s10')  BY RoomFinite
  <2> QED
    BY <1>2, <2>1, <2>2 DEF Room!RoomHolds, Room!RoomTypes, Room!Events, Room!Ids, Room!NoOne
<1>5. ASSUME NEW i \in Room!Ids, \A k \in 1..K : ~Room!Tells(q[k], i)
      PROVE  /\ Room!Telling(i)' = Room!Telling(i) /\ \A n \in Room!Telling(i) : s12'[n] = s12[n]
             /\ (i \in s10' <=> i \in s10) /\ (i \in s7 => i \in s7')
  <2>1. Room!Telling(i)' = {n \in 1..(L + K) : Room!Tells(s12'[n], i)}
    BY <1>2 DEF Room!Telling, Room!Tells
  <2>2. Room!Telling(i) = {n \in 1..L : Room!Tells(s12[n], i)}  BY <1>0 DEF Room!Telling
  <2>3. \A n \in 1..L : n \in 1..(L + K)  BY <1>1
  <2>4. \A n \in 1..(L + K) : Room!Tells(s12'[n], i) <=> n \in 1..L /\ Room!Tells(s12[n], i)
    <3>1. TAKE n \in 1..(L + K)
    <3>2. CASE n \in 1..L  BY <1>2, <3>2
    <3>3. CASE n \notin 1..L
      <4>1. PICK k \in 1..K : n = L + k  BY <1>3, <3>1, <3>3
      <4> QED  BY <1>2, <1>5, <3>3, <4>1
    <3> QED  BY <3>2, <3>3
  <2>5. Room!Telling(i)' = Room!Telling(i)  BY <2>1, <2>2, <2>3, <2>4
  <2> QED  BY <1>0, <1>2, <1>5, <2>2, <2>5
<1>6. ASSUME NEW i \in Room!Ids, NEW j \in 1..K, Room!Tells(q[j], i)
      PROVE  /\ Room!Telling(i)' # {}
             /\ \A n \in Room!Telling(i)' : (\A m \in Room!Telling(i)' : m <= n) => (s12'[n].type = "joined" <=> i \in s10')
  <2>1. \A n : n \in Room!Telling(i)' <=> n \in 1..(L + K) /\ Room!Tells(s12'[n], i)
    BY <1>2 DEF Room!Telling, Room!Tells
  <2>2. \A k \in 1..K : L + k \in Room!Telling(i)' <=> Room!Tells(q[k], i)
    <3>1. TAKE k \in 1..K
    <3>2. L + k \in 1..(L + K)  BY <1>1, <3>1
    <3> QED  BY <1>2, <2>1, <3>2
  <2>3. L + j \in Room!Telling(i)'  BY <1>6, <2>2
  <2>4. ASSUME NEW n \in Room!Telling(i)', \A m \in Room!Telling(i)' : m <= n
        PROVE  s12'[n].type = "joined" <=> i \in s10'
    <3>1. L + j <= n /\ n \in 1..(L + K)  BY <2>1, <2>3, <2>4
    <3>2. n \notin 1..L  BY <1>1, <3>1
    <3>3. PICK k \in 1..K : n = L + k  BY <1>3, <3>1, <3>2
    <3>4. Room!Tells(q[k], i)  BY <2>2, <2>4, <3>3
    <3>5. ASSUME NEW m \in 1..K, Room!Tells(q[m], i) PROVE m <= k
      <4>1. L + m <= n  BY <2>2, <2>4, <3>5
      <4> QED  BY <1>1, <3>3, <4>1
    <3>6. q[k].type = "joined" <=> i \in s10'  BY <1>0, <3>4, <3>5
    <3> QED  BY <1>2, <3>3, <3>6
  <2> QED  BY <2>3, <2>4
<1>7. s15' => Room!LastTells'
  <2>1. SUFFICES ASSUME s15, NEW i \in Room!Ids, NEW n \in Room!Telling(i)', \A m \in Room!Telling(i)' : m <= n
                 PROVE  s12'[n].type = "joined" <=> i \in s10'
    BY DEF Room!LastTells
  <2>2. CASE \E j \in 1..K : Room!Tells(q[j], i)  BY <1>6, <2>1, <2>2
  <2>3. CASE \A j \in 1..K : ~Room!Tells(q[j], i)
    <3>1. /\ n \in Room!Telling(i) /\ \A m \in Room!Telling(i) : m <= n
          /\ s12'[n] = s12[n] /\ (i \in s10' <=> i \in s10)
      BY <1>5, <2>1, <2>3
    <3> QED  BY <2>1, <3>1 DEF Room!RoomHolds, Room!LastTells
  <2> QED  BY <2>2, <2>3
<1>8. \A i \in Room!Ids : Room!Telling(i)' = {} =>
        Room!Telling(i) = {} /\ (i \in s10' <=> i \in s10) /\ (i \in s7 => i \in s7')
  BY <1>5, <1>6
<1>9. \A i \in Room!Ids : Room!Telling(i)' = {} /\ Room!RowOf(i) => Room!RowOf(i)'
  BY <1>8 DEF Room!RowOf
<1> QED  BY <1>4, <1>7, <1>8, <1>9 DEF Room!RoomHolds

(* The database, or the list, is told of the next.                          *)
LEMMA RoomHears ==
  ASSUME Room!RoomHolds, Room!Webhook
  PROVE  Room!RoomHolds'
<1>0. PICK L, h : L = Len(s12) /\ h = Head(s12)  OBVIOUS
<1>1. /\ s12 # <<>> /\ s12' = Tail(s12) /\ UNCHANGED <<s1, s7, s10, s14>>
      /\ s15' = (s15 /\ ~s14.waiting)
      /\ CASE h.type = "joined" -> Room!Joined(h.who)
           [] h.type = "left" -> Room!Left(h.who)
           [] h.type = "finished" -> Room!Finished
  BY <1>0 DEF Room!Webhook
<1>2. /\ s12 \in Seq(Room!Events) /\ L \in Nat \ {0} /\ h = s12[1] /\ h.type \in {"joined", "left", "finished"}
      /\ \A n \in 1..L : s12[n].type = "joined" => s12[n].who \in Room!Ids
      /\ DOMAIN s4 = Room!Ids /\ \A i \in Room!Ids : s4[i] \in {0, 1}
  <2>1. /\ s12 \in Seq(Room!Events) /\ \A n \in 1..L : s12[n].type = "joined" => s12[n].who \in Room!Ids
        /\ DOMAIN s4 = Room!Ids /\ \A i \in Room!Ids : s4[i] \in {0, 1}
    BY <1>0 DEF Room!RoomHolds, Room!RoomTypes
  <2>2. L \in Nat \ {0} /\ h = s12[1] /\ h \in Room!Events  BY <1>0, <1>1, <2>1
  <2> QED  BY <2>1, <2>2 DEF Room!Events
<1>3. /\ s12' \in Seq(Room!Events) /\ Len(s12') = L - 1
      /\ \A n \in 1..(L - 1) : s12'[n] = s12[n + 1] /\ n + 1 \in 1..L
  <2>1. s12' \in Seq(Room!Events) /\ Len(s12') = L - 1 /\ \A n \in 1..Len(s12') : s12'[n] = s12[n + 1]
    BY <1>0, <1>1, <1>2
  <2> QED  BY <1>2, <2>1
<1>4. /\ DOMAIN s4' = Room!Ids /\ \A i \in Room!Ids : s4'[i] \in {0, 1}
      /\ ~s1 => \A i \in Room!Ids : IF Room!Tells(h, i) THEN s4'[i] = (IF h.type = "joined" THEN 1 ELSE 0)
                                                        ELSE s4'[i] = s4[i]
      /\ s1 => \A i \in Room!Ids : IF Room!Tells(h, i) THEN i \in s13' <=> h.type = "joined"
                                                       ELSE i \in s13' <=> i \in s13
      /\ s13 \subseteq Room!Ids => s13' \subseteq Room!Ids
  <2>1. CASE h.type = "joined"
    <3>1. Room!Joined(h.who)  BY <1>1, <2>1
    <3>2. h.who \in Room!Ids  BY <1>2, <2>1
    <3>3. CASE s1
      <4>1. s4' = s4 /\ s13' = s13 \cup {h.who}  BY <3>1, <3>3 DEF Room!Joined
      <4> QED  BY <1>2, <2>1, <3>2, <3>3, <4>1 DEF Room!Tells
    <3>4. CASE ~s1
      <4>1. s13' = s13 /\ s4' = IF s4[h.who] = 0 THEN [s4 EXCEPT ![h.who] = 1] ELSE s4
        BY <3>1, <3>4 DEF Room!Joined, Room!Insert
      <4> QED  BY <1>2, <2>1, <3>2, <3>4, <4>1 DEF Room!Tells
    <3> QED  BY <3>3, <3>4
  <2>2. CASE h.type = "left"
    <3>1. Room!Left(h.who)  BY <1>1, <2>2
    <3>2. s4' = [s4 EXCEPT ![h.who] = IF s4[h.who] > 0 THEN s4[h.who] - 1 ELSE 0] /\ s13' = s13 \ {h.who}
      BY <3>1 DEF Room!Left
    <3>3. DOMAIN s4' = Room!Ids  BY <1>2, <3>2
    <3>4. ASSUME NEW i \in Room!Ids
          PROVE  s4'[i] = IF i = h.who THEN 0 ELSE s4[i]
      <4>1. CASE i = h.who
        <5>1. s4'[i] = IF s4[i] > 0 THEN s4[i] - 1 ELSE 0  BY <1>2, <3>2, <4>1
        <5> QED  BY <1>2, <4>1, <5>1
      <4>2. CASE i # h.who  BY <1>2, <3>2, <4>2
      <4> QED  BY <4>1, <4>2
    <3>5. \A i : Room!Tells(h, i) <=> i = h.who  BY <2>2 DEF Room!Tells
    <3> QED  BY <1>2, <2>2, <3>2, <3>3, <3>4, <3>5
  <2>3. CASE h.type = "finished"
    <3>1. Room!Finished  BY <1>1, <2>3
    <3>2. s4' = s4 /\ s13' = IF s1 THEN {} ELSE s13  BY <3>1 DEF Room!Finished
    <3> QED  BY <1>2, <2>3, <3>2 DEF Room!Tells
  <2> QED  BY <1>2, <2>1, <2>2, <2>3
<1>5. Room!RoomTypes'
  BY <1>1, <1>2, <1>3, <1>4 DEF Room!RoomHolds, Room!RoomTypes, Room!Events, Room!Ids, Room!NoOne
<1>6. ASSUME NEW i \in Room!Ids
      PROVE  \A n : n \in Room!Telling(i)' <=> n \in 1..(L - 1) /\ n + 1 \in Room!Telling(i)
  BY <1>0, <1>1, <1>3 DEF Room!Telling, Room!Tells
<1>7. ASSUME NEW i \in Room!Ids
      PROVE  \A m \in Room!Telling(i) : m = 1 \/ m - 1 \in Room!Telling(i)'
  <2>1. TAKE m \in Room!Telling(i)
  <2>2. m \in 1..L  BY <1>0, <2>1 DEF Room!Telling
  <2>3. CASE m # 1
    <3>1. m - 1 \in 1..(L - 1) /\ (m - 1) + 1 = m  BY <1>2, <2>2, <2>3
    <3> QED  BY <1>6, <2>1, <3>1
  <2> QED  BY <2>3
<1>8. ASSUME s15 PROVE Room!LastTells'
  <2>1. SUFFICES ASSUME NEW i \in Room!Ids, NEW n \in Room!Telling(i)', \A m \in Room!Telling(i)' : m <= n
                 PROVE  s12'[n].type = "joined" <=> i \in s10'
    BY DEF Room!LastTells
  <2>2. n \in 1..(L - 1) /\ n + 1 \in Room!Telling(i)  BY <1>6, <2>1
  <2>3. ASSUME NEW m \in Room!Telling(i) PROVE m <= n + 1
    <3>1. m \in Nat  BY <1>0, <1>2, <2>3 DEF Room!Telling
    <3>2. m = 1 \/ m - 1 <= n  BY <1>7, <2>1, <2>3
    <3> QED  BY <1>2, <2>2, <3>1, <3>2
  <2> QED  BY <1>1, <1>3, <1>8, <2>2, <2>3 DEF Room!RoomHolds, Room!LastTells
<1>9. ASSUME s15, NEW i \in Room!Ids, Room!Telling(i)' = {}
      PROVE  IF Room!Tells(h, i) THEN h.type = "joined" <=> i \in s10 ELSE Room!Telling(i) = {}
  <2>1. 1 \in Room!Telling(i) <=> Room!Tells(h, i)  BY <1>0, <1>2 DEF Room!Telling
  <2>2. \A m \in Room!Telling(i) : m = 1  BY <1>7, <1>9
  <2>3. CASE Room!Tells(h, i)
    <3>1. 1 \in Room!Telling(i) /\ \A m \in Room!Telling(i) : m <= 1  BY <2>1, <2>2, <2>3
    <3> QED  BY <1>2, <1>9, <2>3, <3>1 DEF Room!RoomHolds, Room!LastTells
  <2>4. CASE ~Room!Tells(h, i)  BY <2>1, <2>2, <2>4
  <2> QED  BY <2>3, <2>4
<1>10. ASSUME s15, ~s1, NEW i \in Room!Ids, Room!Telling(i)' = {} PROVE Room!RowOf(i)'
  <2>1. CASE Room!Tells(h, i)  BY <1>1, <1>4, <1>9, <1>10, <2>1 DEF Room!RowOf
  <2>2. CASE ~Room!Tells(h, i)
    <3>1. Room!RowOf(i)  BY <1>9, <1>10, <2>2 DEF Room!RoomHolds
    <3> QED  BY <1>1, <1>4, <1>10, <2>2, <3>1 DEF Room!RowOf
  <2> QED  BY <2>1, <2>2
<1>11. ASSUME s15, s1, s14.done, NEW i \in Room!Ids, Room!Telling(i)' = {} PROVE i \in s13' <=> i \in s10'
  BY <1>1, <1>4, <1>9, <1>11 DEF Room!RoomHolds
<1> QED  BY <1>1, <1>4, <1>5, <1>8, <1>10, <1>11 DEF Room!RoomHolds

LEMMA RoomBreaks ==
  ASSUME Room!RoomHolds, Room!WebhookFails
  PROVE  Room!RoomHolds'
<1>1. /\ s12 # <<>> /\ s12' \in {Tail(s12), Append(s12, Head(s12))} /\ s15' = FALSE
      /\ UNCHANGED <<s1, s4, s10, s14>>
  BY DEF Room!WebhookFails, Room!book
<1>2. s12 \in Seq(Room!Events) /\ \A n \in 1..Len(s12) : s12[n].type = "joined" => s12[n].who \in Room!Ids
  BY DEF Room!RoomHolds, Room!RoomTypes
<1>3. s12' \in Seq(Room!Events) /\ \A n \in 1..Len(s12') : s12'[n].type = "joined" => s12'[n].who \in Room!Ids
  <2>1. CASE s12' = Tail(s12)  BY <1>1, <1>2, <2>1
  <2>2. CASE s12' = Append(s12, Head(s12))
    <3>1. Head(s12) = s12[1] /\ 1 \in 1..Len(s12) /\ Head(s12) \in Room!Events  BY <1>1, <1>2
    <3>2. s12' \in Seq(Room!Events) /\ \A n \in 1..Len(s12') : s12'[n] = s12[1] \/ (n \in 1..Len(s12) /\ s12'[n] = s12[n])
      BY <1>2, <2>2, <3>1
    <3> QED  BY <1>2, <3>1, <3>2
  <2> QED  BY <1>1, <2>1, <2>2
<1>4. Room!RoomTypes'
  BY <1>1, <1>3 DEF Room!RoomHolds, Room!RoomTypes, Room!Events, Room!Ids, Room!NoOne
<1> QED  BY <1>1, <1>4 DEF Room!RoomHolds

(* The list is read, put in place, not read, or forgotten.                  *)
LEMMA RoomSeeds ==
  ASSUME Room!RoomHolds, Room!Seed \/ Room!Seeded \/ Room!SeedFails \/ Room!Restart
  PROVE  Room!RoomHolds'
<1>1. UNCHANGED <<s1, s4, s7, s10, s12, s15>>
  BY DEF Room!Seed, Room!Seeded, Room!SeedFails, Room!Restart, Room!book, Room!livekit
<1>2. \A i : Room!Telling(i)' = Room!Telling(i) /\ Room!RowOf(i)' = Room!RowOf(i)
  BY <1>1 DEF Room!Telling, Room!Tells, Room!RowOf
<1>3. s14'.done => ~s14'.waiting
  BY DEF Room!Seed, Room!Seeded, Room!SeedFails, Room!Restart
<1>4. Room!RoomTypes'
  BY <1>1, <1>3 DEF Room!RoomHolds, Room!RoomTypes, Room!Events, Room!Ids, Room!NoOne
<1>5. s15 => Room!LastTells'  BY <1>1, <1>2 DEF Room!RoomHolds, Room!LastTells
<1>6. \/ ~s14'.done /\ ~s14'.waiting
      \/ ~s14'.done /\ s14'.list = s10
      \/ s14.waiting /\ s13' = s14.list /\ ~s14'.waiting
  BY DEF Room!Seed, Room!Seeded, Room!SeedFails, Room!Restart
<1> QED  BY <1>1, <1>2, <1>4, <1>5, <1>6 DEF Room!RoomHolds, Room!RoomTypes

\* One entry after another is a pair of entries after what was there.
LEMMA TwoAppended ==
  ASSUME NEW S, NEW s \in Seq(S), NEW u \in Seq(S), NEW v \in Seq(S), Len(u) = 1, Len(v) = 1
  PROVE  /\ s \o u \o v = s \o (u \o v) /\ u \o v \in Seq(S)
         /\ Len(u \o v) = 2 /\ (u \o v)[1] = u[1] /\ (u \o v)[2] = v[1]
<1>1. s \o u \o v = s \o (u \o v)  BY ConcatAssociative
<1>2. /\ u \o v \in Seq(S) /\ Len(u \o v) = Len(u) + Len(v)
      /\ \A i \in 1..Len(u) + Len(v) : (u \o v)[i] = IF i <= Len(u) THEN u[i] ELSE v[i - Len(u)]
  BY ConcatProperties
<1>3. PICK w : w = u \o v  OBVIOUS
<1>4. /\ Len(w) = 2
      /\ \A i \in 1..2 : w[i] = IF i <= 1 THEN u[i] ELSE v[i - 1]
  BY <1>2, <1>3
<1>5. w[1] = u[1] /\ w[2] = v[1]  BY <1>4
<1> QED  BY <1>1, <1>2, <1>3, <1>4, <1>5

LEMMA RoomJoins ==
  ASSUME Room!RoomHolds, NEW x \in Room!Ids, Room!Join(x)
  PROVE  Room!RoomHolds'
<1>1. /\ UNCHANGED <<s1, s4, s13, s14, s15>> /\ s10' = s10 \cup {x} /\ s7' = s7 \ {x}
      /\ s12' = s12 \o (IF x \in s10 THEN <<Room!Event("left", x)>> ELSE <<>>) \o <<Room!Event("joined", x)>>
  BY DEF Room!Join, Room!book
<1>2. s10 \subseteq Room!Ids /\ IsFiniteSet(s10) /\ s12 \in Seq(Room!Events)
  BY RoomFinite DEF Room!RoomHolds, Room!RoomTypes
<1>3. s10' \subseteq Room!Ids /\ IsFiniteSet(s10')  BY <1>1, <1>2, FS_AddElement
<1>4. PICK a, b : a = Room!Event("left", x) /\ b = Room!Event("joined", x)  OBVIOUS
<1>5. /\ a.type = "left" /\ a.who = x /\ b.type = "joined" /\ b.who = x
      /\ a \in Room!Events /\ b \in Room!Events
  BY <1>4 DEF Room!Event, Room!Events
<1>6. \A i : (Room!Tells(a, i) <=> i = x) /\ (Room!Tells(b, i) <=> i = x)  BY <1>5 DEF Room!Tells
<1>7. \A i : i # x => (i \in s10' <=> i \in s10) /\ (i \in s7 => i \in s7')  BY <1>1
<1>8. x \in s10'  BY <1>1
<1>9. CASE x \in s10
  <2>0. PICK u, v : u = <<a>> /\ v = <<b>>  OBVIOUS
  <2>9. u \in Seq(Room!Events) /\ Len(u) = 1 /\ u[1] = a  BY <1>5, <2>0
  <2>10. v \in Seq(Room!Events) /\ Len(v) = 1 /\ v[1] = b  BY <1>5, <2>0
  <2>1. PICK q \in Seq(Room!Events) : /\ s12 \o u \o v = s12 \o q
                                     /\ Len(q) = 2 /\ q[1] = a /\ q[2] = b
    BY <1>2, <2>9, <2>10, TwoAppended
  <2>2. s12' = s12 \o q  BY <1>1, <1>4, <1>9, <2>0, <2>1
  <2>3. \A k \in 1..Len(q) : k = 1 \/ k = 2  BY <2>1
  <2>4. \A k \in 1..Len(q) : q[k].type = "joined" => q[k].who \in Room!Ids  BY <1>5, <2>1, <2>3
  <2>5. \A i \in Room!Ids : \A k \in 1..Len(q) :
          Room!Tells(q[k], i) /\ (\A m \in 1..Len(q) : Room!Tells(q[m], i) => m <= k)
            => (q[k].type = "joined" <=> i \in s10')
    <3>1. TAKE i \in Room!Ids
    <3>2. TAKE k \in 1..Len(q)
    <3>3. HAVE Room!Tells(q[k], i) /\ (\A m \in 1..Len(q) : Room!Tells(q[m], i) => m <= k)
    <3>4. i = x  BY <1>6, <2>1, <2>3, <3>2, <3>3
    <3>5. 2 \in 1..Len(q) /\ Room!Tells(q[2], i)  BY <1>6, <2>1, <3>4
    <3>6. 2 <= k  BY <3>3, <3>5
    <3>7. k = 2  BY <2>3, <3>2, <3>6
    <3> QED  BY <1>5, <1>8, <2>1, <3>4, <3>7
  <2>6. \A i \in Room!Ids : (\A k \in 1..Len(q) : ~Room!Tells(q[k], i))
             => (i \in s10' <=> i \in s10) /\ (i \in s7 => i \in s7')
    <3>1. 1 \in 1..Len(q)  BY <2>1
    <3> QED  BY <1>6, <1>7, <2>1, <3>1
  <2> QED  BY <1>1, <1>3, <2>1, <2>2, <2>4, <2>5, <2>6, RoomTold
<1>10. CASE x \notin s10
  <2> DEFINE q == <<b>>
  <2>1. q \in Seq(Room!Events) /\ Len(q) = 1 /\ q[1] = b  BY <1>5
  <2>2. s12' = s12 \o q
    <3>1. s12' = s12 \o <<>> \o <<b>>  BY <1>1, <1>4, <1>10
    <3> QED  BY <1>2, <1>5, <3>1
  <2>3. \A k \in 1..Len(q) : k = 1  BY <2>1
  <2>4. \A k \in 1..Len(q) : q[k].type = "joined" => q[k].who \in Room!Ids  BY <1>5, <2>1, <2>3
  <2>5. \A i \in Room!Ids : \A k \in 1..Len(q) : Room!Tells(q[k], i) => (q[k].type = "joined" <=> i \in s10')
    BY <1>5, <1>6, <1>8, <2>1, <2>3
  <2>6. \A i \in Room!Ids : (\A k \in 1..Len(q) : ~Room!Tells(q[k], i))
             => (i \in s10' <=> i \in s10) /\ (i \in s7 => i \in s7')
    <3>1. 1 \in 1..Len(q)  BY <2>1
    <3> QED  BY <1>6, <1>7, <2>1, <3>1
  <2> HIDE DEF q
  <2> QED  BY <1>1, <1>3, <2>1, <2>2, <2>4, <2>5, <2>6, RoomTold
<1> QED  BY <1>9, <1>10

LEMMA RoomLeaves ==
  ASSUME Room!RoomHolds,
         (\E x \in Room!Ids : Room!Leave(x)) \/ Room!RoomEmpties
  PROVE  Room!RoomHolds'
<1>1. s10 \subseteq Room!Ids /\ IsFiniteSet(s10) /\ s12 \in Seq(Room!Events)
  BY RoomFinite DEF Room!RoomHolds, Room!RoomTypes
<1>2. PICK e \in Room!Events :
        /\ s12' = Append(s12, e) /\ e.type # "joined" /\ UNCHANGED <<s1, s4, s7, s13, s14, s15>>
        /\ s10' \subseteq s10
        /\ \A i \in Room!Ids : IF Room!Tells(e, i) THEN i \notin s10' ELSE i \in s10' <=> i \in s10
  <2>1. ASSUME NEW x \in Room!Ids, Room!Leave(x)
        PROVE  \E e \in Room!Events :
                 /\ s12' = Append(s12, e) /\ e.type # "joined" /\ UNCHANGED <<s1, s4, s7, s13, s14, s15>>
                 /\ s10' \subseteq s10
                 /\ \A i \in Room!Ids : IF Room!Tells(e, i) THEN i \notin s10' ELSE i \in s10' <=> i \in s10
    <3> DEFINE e == Room!Event("left", x)
    <3>1. e \in Room!Events /\ e.type = "left" /\ e.who = x  BY DEF Room!Event, Room!Events
    <3>2. s12' = Append(s12, e) /\ UNCHANGED <<s1, s4, s7, s13, s14, s15>> /\ s10' = s10 \ {x}
      BY <2>1 DEF Room!Leave, Room!book
    <3>3. \A i \in Room!Ids : Room!Tells(e, i) <=> i = x  BY <3>1 DEF Room!Tells
    <3> HIDE DEF e
    <3> QED  BY <3>1, <3>2, <3>3
  <2>2. ASSUME Room!RoomEmpties
        PROVE  \E e \in Room!Events :
                 /\ s12' = Append(s12, e) /\ e.type # "joined" /\ UNCHANGED <<s1, s4, s7, s13, s14, s15>>
                 /\ s10' \subseteq s10
                 /\ \A i \in Room!Ids : IF Room!Tells(e, i) THEN i \notin s10' ELSE i \in s10' <=> i \in s10
    <3> DEFINE e == Room!Event("finished", Room!NoOne)
    <3>1. e \in Room!Events /\ e.type = "finished"  BY DEF Room!Event, Room!Events
    <3>2. s12' = Append(s12, e) /\ UNCHANGED <<s1, s4, s7, s13, s14, s15>> /\ s10' = s10 /\ s10 = {}
      BY <2>2 DEF Room!RoomEmpties, Room!book
    <3> HIDE DEF e
    <3> QED  BY <3>1, <3>2
  <2> QED  BY <2>1, <2>2
<1> DEFINE q == <<e>>
<1>3. q \in Seq(Room!Events) /\ Len(q) = 1 /\ q[1] = e /\ s12' = s12 \o q  BY <1>1, <1>2
<1>4. s10' \subseteq Room!Ids /\ IsFiniteSet(s10')  BY <1>1, <1>2, FS_Subset
<1>5. \A k \in 1..Len(q) : q[k] = e  BY <1>3
<1>6. 1 \in 1..Len(q)  BY <1>3
<1> HIDE DEF q
<1>7. \A k \in 1..Len(q) : q[k].type = "joined" => q[k].who \in Room!Ids  BY <1>2, <1>5
<1>8. \A i \in Room!Ids : \A k \in 1..Len(q) : Room!Tells(q[k], i) => (q[k].type = "joined" <=> i \in s10')
  BY <1>2, <1>5
<1>9. \A i \in Room!Ids : (\A k \in 1..Len(q) : ~Room!Tells(q[k], i))
           => (i \in s10' <=> i \in s10) /\ (i \in s7 => i \in s7')
  BY <1>2, <1>5, <1>6
<1> QED  BY <1>2, <1>3, <1>4, <1>7, <1>8, <1>9, RoomTold

LEMMA RoomIsEnded ==
  ASSUME Room!RoomHolds, NEW c \in Callers, Room!EndMeeting(c)
  PROVE  Room!RoomHolds'
<1>1. s10 \subseteq Room!Ids /\ IsFiniteSet(s10) /\ s12 \in Seq(Room!Events)
  BY RoomFinite DEF Room!RoomHolds, Room!RoomTypes
<1> DEFINE N == Room!Cardinality(s10)
           f == Room!InSomeOrder(s10)
           a == [n \in 1..N |-> Room!Event("left", f[n])]
           b == IF s11 THEN <<Room!Event("finished", Room!NoOne)>> ELSE <<>>
           q == a \o b
<1>2. UNCHANGED <<s1, s4, s7, s13, s14, s15>> /\ ~s1 /\ s10' = {} /\ s12' = s12 \o a \o b
  BY DEF Room!EndMeeting, Room!book
<1>3. N \in Nat /\ f \in [1..N -> s10] /\ \A x \in s10 : \E n \in 1..N : f[n] = x  BY <1>1, RoomListed
<1> HIDE DEF N, f
<1>4. \A x \in Room!Ids : Room!Event("left", x) \in Room!Events /\ Room!Event("left", x).type = "left"
                          /\ Room!Event("left", x).who = x
  BY DEF Room!Event, Room!Events
<1>5. a \in Seq(Room!Events) /\ Len(a) = N /\ \A n \in 1..N : a[n] = Room!Event("left", f[n]) /\ a[n].type = "left"
  <2>1. \A n \in 1..N : f[n] \in Room!Ids  BY <1>1, <1>3
  <2> QED  BY <1>3, <1>4, <2>1
<1>6. b \in Seq(Room!Events) /\ \A n \in 1..Len(b) : b[n].type = "finished"
  <2> DEFINE e == Room!Event("finished", Room!NoOne)
  <2>1. e \in Room!Events /\ e.type = "finished"  BY DEF Room!Event, Room!Events
  <2>2. b = IF s11 THEN <<e>> ELSE <<>>  OBVIOUS
  <2> HIDE DEF e, b
  <2>3. CASE s11  BY <2>1, <2>2, <2>3
  <2>4. CASE ~s11  BY <2>2, <2>4
  <2> QED  BY <2>3, <2>4
<1> HIDE DEF a, b
<1>7. s12' = s12 \o q  BY <1>1, <1>2, <1>5, <1>6
<1>8. /\ q \in Seq(Room!Events) /\ Len(q) = N + Len(b) /\ Len(b) \in Nat
      /\ \A n \in 1..N : q[n] = a[n] /\ n \in 1..Len(q)
      /\ \A n \in 1..Len(q) : q[n].type # "joined"
  <2>1. q \in Seq(Room!Events) /\ Len(q) = N + Len(b) /\ Len(b) \in Nat  BY <1>5, <1>6
  <2>2. \A n \in 1..N : q[n] = a[n] /\ n \in 1..Len(q)  BY <1>3, <1>5, <1>6, <2>1
  <2>3. \A n \in 1..Len(q) : q[n].type # "joined"
    <3>1. TAKE n \in 1..Len(q)
    <3>2. CASE n \in 1..N  BY <1>5, <2>2, <3>2
    <3>3. CASE n \notin 1..N
      <4>1. n - N \in 1..Len(b) /\ q[n] = b[n - N]  BY <1>3, <1>5, <1>6, <2>1, <3>1, <3>3
      <4> QED  BY <1>6, <4>1
    <3> QED  BY <3>2, <3>3
  <2> QED  BY <2>1, <2>2, <2>3
<1> HIDE DEF q
<1>9. \A i \in Room!Ids : (\A k \in 1..Len(q) : ~Room!Tells(q[k], i)) => i \notin s10
  <2>1. SUFFICES ASSUME NEW i \in Room!Ids, i \in s10 PROVE \E k \in 1..Len(q) : Room!Tells(q[k], i)
    OBVIOUS
  <2>2. PICK n \in 1..N : f[n] = i  BY <1>3, <2>1
  <2>3. q[n] = Room!Event("left", i) /\ n \in 1..Len(q)  BY <1>5, <1>8, <2>2
  <2> QED  BY <1>4, <2>1, <2>3 DEF Room!Tells
<1>10. s10' \subseteq Room!Ids /\ IsFiniteSet(s10')  BY <1>2, FS_EmptySet
<1> QED  BY <1>2, <1>7, <1>8, <1>9, <1>10, RoomTold

LEMMA RoomMints ==
  ASSUME Room!RoomHolds, NEW c, Room!Minted(c) \/ Room!AdmittedRow(c)
  PROVE  Room!RoomHolds'
<1>1. /\ UNCHANGED <<s1, s10, s12, s13, s14, s15>>
      /\ s7' = s7 \cup {s9[c].who} /\ (s4' = s4 \/ s4' = Room!Insert(s9[c].who))
  BY DEF Room!Minted, Room!AdmittedRow, Room!livekit
<1>2. DOMAIN s4 = Room!Ids  BY DEF Room!RoomHolds, Room!RoomTypes
<1>3. PICK y : y = s9[c].who  OBVIOUS
<1>4. s4' = s4 \/ s4' = [s4 EXCEPT ![y] = 1]  BY <1>1, <1>3 DEF Room!Insert
<1>5. DOMAIN s4' = Room!Ids /\ \A i \in Room!Ids : s4'[i] = s4[i] \/ (s4'[i] = 1 /\ i \in s7')
  BY <1>1, <1>2, <1>3, <1>4
<1> QED  BY <1>1, <1>5, RoomRows

LEMMA RoomStep ==
  ASSUME Room!RoomHolds, [Room!Next]_(Room!vars)
  PROVE  Room!RoomHolds'
<1>0. DOMAIN s4 = Room!Ids  BY DEF Room!RoomHolds, Room!RoomTypes
<1>1. ASSUME UNCHANGED <<s1, s4, s10, s12, s13, s14, s15>>, s7 \subseteq s7' PROVE Room!RoomHolds'
  BY <1>0, <1>1, RoomRows
<1>2. CASE UNCHANGED Room!vars
  BY <1>1, <1>2 DEF Room!vars, Room!book, Room!livekit
<1>3. ASSUME NEW c \in Callers,
             \/ \E who \in Room!Ids : Room!GuestToken(c, who) \/ Room!OwnerToken(c, who)
             \/ \E w \in Waiters : Room!Deny(c, w) \/ \E g \in Guests : Room!Admit(c, w, g)
             \/ Room!Admitted(c) \/ Room!Denied(c) \/ Room!Ended(c)
      PROVE  Room!RoomHolds'
  BY <1>1, <1>3 DEF Room!GuestToken, Room!OwnerToken, Room!Deny, Room!Admit, Room!Admitted, Room!Denied, Room!Ended,
     Room!book, Room!livekit
<1>4. ASSUME NEW w \in Waiters, Room!Enqueue(w) \/ Room!Poll(w) \/ Room!Expire(w) PROVE Room!RoomHolds'
  BY <1>1, <1>4 DEF Room!Enqueue, Room!Poll, Room!Expire, Room!book, Room!livekit
<1>5. ASSUME NEW field, Room!Settings(field) PROVE Room!RoomHolds'
  BY <1>1, <1>5 DEF Room!Settings, Room!book, Room!livekit
<1>6. ASSUME NEW who \in Room!Ids, Room!CafeToken(who) PROVE Room!RoomHolds'
  BY <1>1, <1>6 DEF Room!CafeToken, Room!book, Room!livekit
<1>7. ASSUME Room!HideOrReopen PROVE Room!RoomHolds'
  BY <1>1, <1>7 DEF Room!HideOrReopen, Room!book, Room!livekit
<1> QED
  BY <1>2, <1>3, <1>4, <1>5, <1>6, <1>7, RoomHears, RoomBreaks, RoomSeeds, RoomJoins, RoomLeaves, RoomIsEnded, RoomMints
  DEF Room!Next

(* And what it gives, once all webhooks have been handled.                  *)
LEMMA RoomGives ==
  ASSUME Room!RoomHolds
  PROVE  Room!RowsFollowRoom /\ Room!CafeListsRoom
<1>1. ASSUME Room!Quiet, NEW i PROVE s15 /\ Room!Telling(i) = {}
  BY <1>1 DEF Room!Quiet, Room!Telling
<1>2. Room!RowsFollowRoom
  BY <1>1 DEF Room!RowsFollowRoom, Room!RoomHolds, Room!RoomTypes, Room!RowOf
<1>3. Room!CafeListsRoom
  BY <1>1 DEF Room!CafeListsRoom, Room!RoomHolds, Room!RoomTypes
<1> QED  BY <1>2, <1>3
=============================================================================
