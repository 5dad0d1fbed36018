-------------------------------- MODULE Accounts --------------------------------
(***************************************************************************)
(* One native account and its owner (routes/auth_native.py, totp.py and    *)
(* the user part of admin.py): password and its reset by mail, the second  *)
(* factors - an authenticator with recovery codes, codes by mail - and     *)
(* their set-up.  Each request runs in a thread: it reads the row, checks, *)
(* and commits the columns it changed; its answer is the only time the     *)
(* owner sees a secret or the recovery codes, and an answer can be lost.   *)
(* Passwords, secrets and sets of codes are numbered as they are made.     *)
(***************************************************************************)
EXTENDS Naturals, FiniteSets

CONSTANTS
  Calls,                 \* requests under way at once
  CodeCount,             \* recovery codes in a set (_RECOVERY_CODE_COUNT)
  MaxRequests, MaxLost   \* bound requests and lost answers

VARIABLES
  user,      \* the row: is it there, disabled, the factors
  resets,    \* password_reset_tokens: live ones, and those that were mailed
  otp,       \* the mailed code in Redis: 0 for none
  owner,     \* passwords, secrets, sets of codes and mailed codes the owner has
  call,      \* the requests under way
  overlap,   \* two requests were under way at once
  requests, lost

vars == <<user, resets, otp, owner, call, overlap, requests, lost>>

Numbers == 0..MaxRequests
Row == [exists : BOOLEAN, disabled : BOOLEAN, password : Numbers,
        totp : BOOLEAN, secret : Numbers, codes : Numbers, left : 0..CodeCount, mail : BOOLEAN]
Fresh == [exists |-> TRUE, disabled |-> FALSE, password |-> 0,
          totp |-> FALSE, secret |-> 0, codes |-> 0, left |-> 0, mail |-> FALSE]
Idle == [op |-> "idle", read |-> Fresh, writes |-> Fresh, made |-> 0, token |-> 0]
Ops == {"setup", "enable", "disable", "regenerate", "recover", "confirmMail", "disableMail",
        "password", "reset", "delete", "setPassword", "suspend"}

TypeOK ==
  /\ user \in Row
  /\ resets \in [live : SUBSET Numbers, mailed : SUBSET Numbers]
  /\ otp \in Numbers
  /\ owner \in [passwords : SUBSET Numbers, secrets : SUBSET Numbers, codes : SUBSET Numbers, mails : SUBSET Numbers]
  /\ call \in [Calls -> [op : Ops \cup {"idle"}, read : Row, writes : Row, made : Numbers, token : Numbers]]
  /\ overlap \in BOOLEAN /\ requests \in Numbers /\ lost \in 0..MaxLost

Init ==
  /\ user = Fresh
  /\ resets = [live |-> {}, mailed |-> {}] /\ otp = 0
  /\ owner = [passwords |-> {0}, secrets |-> {}, codes |-> {}, mails |-> {}]
  /\ call = [c \in Calls |-> Idle] /\ overlap = FALSE
  /\ requests = 0 /\ lost = 0

-----------------------------------------------------------------------------
Request == user.exists /\ requests < MaxRequests /\ requests' = requests + 1
New == requests + 1

(* A thread has read the row and passed its checks; it will write these.    *)
Reads(c, op, writes, token) ==
  /\ Request /\ call[c] = Idle
  /\ call' = [call EXCEPT ![c] = [op |-> op, read |-> user, writes |-> writes, made |-> New, token |-> token]]
  /\ overlap' = (overlap \/ \E d \in Calls : call[d] # Idle)
  /\ UNCHANGED <<user, owner, lost>>

KnowsPassword == user.password \in owner.passwords
HasDevice == user.secret # 0 /\ user.secret \in owner.secrets
HasCode == user.left > 0 /\ user.codes \in owner.codes

(* Mutant: a secret can be rotated while it is in use.                      *)
Rotates == TRUE

NotEnabled == ~user.totp

Setup(c) ==
  /\ NotEnabled
  /\ Reads(c, "setup", [user EXCEPT !.secret = New], 0)
  /\ UNCHANGED <<resets, otp>>

Enable(c) ==
  /\ ~user.totp /\ HasDevice
  /\ Reads(c, "enable", [user EXCEPT !.totp = TRUE, !.codes = New, !.left = CodeCount], 0)
  /\ UNCHANGED <<resets, otp>>

Disable(c) ==
  /\ user.totp /\ KnowsPassword /\ (HasDevice \/ HasCode)
  /\ Reads(c, "disable", [user EXCEPT !.totp = FALSE, !.secret = 0, !.codes = 0, !.left = 0], 0)
  /\ UNCHANGED <<resets, otp>>

Regenerate(c) ==
  /\ user.totp /\ HasDevice
  /\ Reads(c, "regenerate", [user EXCEPT !.codes = New, !.left = CodeCount], 0)
  /\ UNCHANGED <<resets, otp>>

(* A login with a recovery code, which is used up.                          *)
Recover(c) ==
  /\ user.totp /\ KnowsPassword /\ ~user.disabled /\ HasCode
  /\ Reads(c, "recover", [user EXCEPT !.left = @ - 1], 0)
  /\ UNCHANGED <<resets, otp>>

(* _email_otp_store: a code by mail, in the place of the one before.        *)
SendsCode ==
  /\ Request
  /\ otp' = New
  /\ owner' = [owner EXCEPT !.mails = @ \cup {New}]
  /\ UNCHANGED <<user, resets, call, overlap, lost>>

MailCode == SendsCode
LoginCode == user.mail /\ KnowsPassword /\ ~user.disabled /\ SendsCode

(* The code is taken from Redis at once, the flag is committed later.       *)
ConfirmMail(c) ==
  /\ ~user.mail /\ otp # 0 /\ otp \in owner.mails
  /\ otp' = 0
  /\ Reads(c, "confirmMail", [user EXCEPT !.mail = TRUE], 0)
  /\ UNCHANGED resets

LoginByMail ==
  /\ Request
  /\ user.mail /\ ~user.disabled /\ KnowsPassword
  /\ otp # 0 /\ otp \in owner.mails
  /\ otp' = 0
  /\ UNCHANGED <<user, resets, owner, call, overlap, lost>>

DisableMail(c) ==
  /\ user.mail /\ KnowsPassword
  /\ Reads(c, "disableMail", [user EXCEPT !.mail = FALSE], 0)
  /\ UNCHANGED <<resets, otp>>

ChangePassword(c) ==
  /\ KnowsPassword
  /\ Reads(c, "password", [user EXCEPT !.password = New], 0)
  /\ UNCHANGED <<resets, otp>>

(* Only the last token asked for can be redeemed; it is mailed.             *)
AskReset ==
  /\ Request
  /\ resets' = [live |-> {New}, mailed |-> resets.mailed \cup {New}]
  /\ UNCHANGED <<user, otp, owner, call, overlap, lost>>

Reset(c, t) ==
  /\ t \in resets.live \cap resets.mailed
  /\ Reads(c, "reset", [user EXCEPT !.password = New], t)
  /\ UNCHANGED <<resets, otp>>

Delete(c) ==
  /\ KnowsPassword
  /\ Reads(c, "delete", [user EXCEPT !.exists = FALSE], 0)
  /\ UNCHANGED <<resets, otp>>

(* What a platform administrator does to the account.                       *)
SetPassword(c) ==
  /\ Reads(c, "setPassword", [user EXCEPT !.password = New], 0)
  /\ UNCHANGED <<resets, otp>>

Suspend(c) ==
  /\ Reads(c, "suspend", [user EXCEPT !.disabled = ~@], 0)
  /\ UNCHANGED <<resets, otp>>

-----------------------------------------------------------------------------
(* The commit writes the columns that were changed, and only those; the row *)
(* of an account that is gone refuses it.                                   *)
Committed(c) ==
  IF ~user.exists THEN user
  ELSE [f \in DOMAIN user |-> IF call[c].writes[f] # call[c].read[f] THEN call[c].writes[f] ELSE user[f]]

(* The owner typed the password; secret and codes come with the answer.     *)
Told(c) ==
  CASE call[c].op = "setup" -> [owner EXCEPT !.secrets = @ \cup {call[c].made}]
    [] call[c].op \in {"enable", "regenerate"} -> [owner EXCEPT !.codes = @ \cup {call[c].made}]
    [] OTHER -> owner

Typed(c, o) ==
  IF call[c].op \in {"password", "reset"} THEN [o EXCEPT !.passwords = @ \cup {call[c].made}] ELSE o

Commits(c) ==
  /\ call[c] # Idle
  /\ user' = Committed(c)
  /\ resets' = IF call[c].op = "delete" THEN [resets EXCEPT !.live = {}]
               ELSE [resets EXCEPT !.live = @ \ {call[c].token}]
  /\ call' = [call EXCEPT ![c] = Idle]
  /\ \/ owner' = Typed(c, Told(c)) /\ UNCHANGED lost
     \/ owner' = Typed(c, owner) /\ lost < MaxLost /\ lost' = lost + 1
  /\ UNCHANGED <<otp, overlap, requests>>

Next ==
  \/ \E c \in Calls :
       \/ Setup(c) \/ Enable(c) \/ Disable(c) \/ Regenerate(c) \/ Recover(c) \/ ConfirmMail(c)
       \/ DisableMail(c) \/ ChangePassword(c) \/ Delete(c) \/ SetPassword(c) \/ Suspend(c)
       \/ \E t \in resets.live : Reset(c, t)
       \/ Commits(c)
  \/ MailCode \/ LoginCode \/ LoginByMail \/ AskReset

Spec == Init /\ [][Next]_vars

-----------------------------------------------------------------------------
(* Once an authenticator is asked for, the owner has it: requests one after *)
(* the other never put an unknown secret in its place, whatever answers are *)
(* lost.  And with every answer delivered the owner has the recovery codes, *)
(* whatever requests overlap.                                               *)
NotShutOut ==
  user.totp =>
    /\ ~overlap => HasDevice
    /\ lost = 0 => user.codes \in owner.codes

-----------------------------------------------------------------------------
(* What holds between any two steps, and makes the above hold after each.   *)
AccountTypes ==
  /\ user \in Row /\ resets \in [live : SUBSET Numbers, mailed : SUBSET Numbers]
  /\ owner \in [passwords : SUBSET Numbers, secrets : SUBSET Numbers, codes : SUBSET Numbers, mails : SUBSET Numbers]
  /\ call \in [Calls -> {Idle} \cup [op : Ops, read : Row, writes : Row, made : Numbers, token : Numbers]]
  /\ requests \in Numbers /\ lost \in Nat

(* Only the set-up and the end of the authenticator write its secret, and   *)
(* new codes are unlike those that were read.                               *)
WritesItsOwn(op, r, w, made) ==
  CASE op = "setup" -> w.totp = r.totp /\ w.codes = r.codes /\ w.secret = made
    [] op = "enable" -> w.totp /\ w.codes = made /\ w.secret = r.secret
    [] op = "regenerate" -> w.totp = r.totp /\ w.codes = made /\ w.secret = r.secret
    [] op = "disable" -> r.totp /\ ~w.totp
    [] OTHER -> w.totp = r.totp /\ w.codes = r.codes /\ w.secret = r.secret
CallsWrite ==
  /\ user.codes <= requests
  /\ \A c \in Calls : call[c] # Idle =>
       /\ WritesItsOwn(call[c].op, call[c].read, call[c].writes, call[c].made)
       /\ call[c].made <= requests /\ call[c].read.codes < call[c].made
       /\ call[c].writes.codes <= call[c].made

(* Unless requests overlapped, the one under way has read the row as it is. *)
ReadsTheRow ==
  overlap \/ \A c \in Calls : call[c] # Idle =>
    /\ \A d \in Calls : call[d] # Idle => c = d
    /\ call[c].read = user
    /\ call[c].op = "setup" => ~user.totp
    /\ call[c].op = "enable" => HasDevice

AccountHolds == AccountTypes /\ CallsWrite /\ ReadsTheRow /\ NotShutOut
=============================================================================
