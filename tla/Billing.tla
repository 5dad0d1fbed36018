-------------------------------- MODULE Billing --------------------------------
(***************************************************************************)
(* What a native account has paid for (routes/billing.py, vouchers.py): the *)
(* passes bought with PayPal, the vouchers and the subscription that extend *)
(* one entitlement.  Time is counted in months; the two days of grace are   *)
(* left out.  PayPal is modelled from how the code uses it: it answers, it  *)
(* refuses, it is silent, and it tells of its subscription by webhooks.     *)
(***************************************************************************)
EXTENDS Naturals, Sequences

CONSTANTS
  Calls,      \* requests of the account that may be under way at once
  Passes,     \* one-time orders, of a month
  Vouchers,   \* of a month too
  Shelf,      \* how long a voucher can be redeemed
  MaxNow,       \* bounds the time
  MaxRequests,  \* bounds what the account and the voucher administrators ask
  MaxFaults     \* bounds the silences, the reordered and the lost webhooks

VARIABLES
  now,
  entitled,   \* users.entitlement_kind and entitlement_expires_at
  order,      \* paypal_orders.status
  paid,       \* orders PayPal has captured
  voucher,    \* a voucher's row: open, redeemed, and when it lapses
  granted,    \* how often a pass or voucher has extended the entitlement
  call,       \* the requests under way
  sub,        \* the row of the subscription
  paypal,     \* PayPal's side of it
  events,     \* webhooks on their way
  requests, faults

purchases == <<order, paid, voucher, granted, call>>
subscription == <<sub, paypal, events>>
vars == <<now, entitled, purchases, subscription, requests, faults>>

Months == 0..(MaxNow + MaxRequests + Shelf)
Idle == [step |-> "idle", for |-> "none", seen |-> 0]
OrderStatuses == {"none", "CREATED", "PENDING", "CAPTURING", "COMPLETED"}
SubStatuses == {"none", "ACTIVE", "SUSPENDED", "CANCELLED", "EXPIRED"}

TypeOK ==
  /\ now \in 0..MaxNow
  /\ entitled \in [kind : {"none", "pass", "voucher", "subscription"}, until : Months]
  /\ order \in [Passes -> OrderStatuses] /\ paid \subseteq Passes
  /\ voucher \in [Vouchers -> [status : {"none", "open", "redeemed"}, lapses : Months]]
  /\ granted \in [Passes \cup Vouchers -> Nat]
  /\ call \in [Calls -> [step : {"idle", "paypal", "grant"},
                         for : Passes \cup Vouchers \cup {"none"}, seen : Months]]
  /\ sub \in [status : SubStatuses, next : Months]
  /\ paypal \in [status : SubStatuses, next : Months]
  /\ \A i \in DOMAIN events : events[i].type \in {"ACTIVATED", "SALE", "SUSPENDED", "CANCELLED", "EXPIRED"}
  /\ requests \in 0..MaxRequests /\ faults \in 0..MaxFaults

Init ==
  /\ now = 0 /\ entitled = [kind |-> "none", until |-> 0]
  /\ order = [p \in Passes |-> "none"] /\ paid = {}
  /\ voucher = [v \in Vouchers |-> [status |-> "none", lapses |-> 0]]
  /\ granted = [x \in Passes \cup Vouchers |-> 0]
  /\ call = [c \in Calls |-> Idle]
  /\ sub = [status |-> "none", next |-> 0] /\ paypal = sub
  /\ events = <<>> /\ requests = 0 /\ faults = 0

Fault == faults < MaxFaults /\ faults' = faults + 1
Fine == faults' = faults
Ask == requests < MaxRequests /\ requests' = requests + 1

Does(c, step, for, seen) == call' = [call EXCEPT ![c] = [step |-> step, for |-> for, seen |-> seen]]
Answers(c) == call' = [call EXCEPT ![c] = Idle]

(* The new end is counted from the one that was read, or from now.          *)
Extends(x, kind, seen) ==
  /\ entitled' = [kind |-> kind, until |-> (IF seen > now THEN seen ELSE now) + 1]
  /\ granted' = [granted EXCEPT ![x] = @ + 1]

-----------------------------------------------------------------------------
(* create_billing_order, once PayPal has given the order its id.            *)
CreateOrder(p) ==
  /\ Ask /\ order[p] = "none"
  /\ order' = [order EXCEPT ![p] = "CREATED"]
  /\ UNCHANGED <<now, entitled, paid, voucher, granted, call, subscription, faults>>

(* Mutant: the status that was read before is taken for the claim.          *)
NotCompleted(p) == order[p] # "COMPLETED"

(* The claim: an UPDATE that only finds an order nobody captures.           *)
Claimable(p) == order[p] \notin {"COMPLETED", "CAPTURING"}

Capture(c, p) ==
  /\ Ask /\ call[c] = Idle /\ order[p] # "none" /\ Claimable(p)
  /\ order' = [order EXCEPT ![p] = "CAPTURING"]
  /\ Does(c, "paypal", p, 0)
  /\ UNCHANGED <<now, entitled, paid, voucher, granted, subscription, faults>>

(* PayPal captures it, and the account is read; or it says it is pending.   *)
Captured(c) ==
  LET p == call[c].for IN
  /\ call[c].step = "paypal"
  /\ \/ paid' = paid \cup {p} /\ Does(c, "grant", p, entitled.until) /\ UNCHANGED order
     \/ /\ p \notin paid /\ UNCHANGED paid /\ Answers(c)
        /\ order' = [order EXCEPT ![p] = "PENDING"]
  /\ UNCHANGED <<now, entitled, voucher, granted, subscription, faults, requests>>

(* PayPal refuses what it has not captured: the order may be tried again.   *)
CaptureRefused(c) ==
  LET p == call[c].for IN
  /\ call[c].step = "paypal" /\ p \notin paid /\ Fault
  /\ order' = [order EXCEPT ![p] = "CREATED"] /\ Answers(c)
  /\ UNCHANGED <<now, entitled, paid, voucher, granted, subscription, requests>>

(* No answer, or the process dies: whether it was paid is not known, and    *)
(* the order keeps its claim.                                               *)
Unanswered(p) == order' = order

(* Mutant: every error lets the order be tried again.                       *)
TriedAgain(p) == order' = [order EXCEPT ![p] = "CREATED"]

CaptureLost(c) ==
  LET p == call[c].for IN
  /\ call[c].step = "paypal" /\ Fault /\ Answers(c)
  /\ paid' \in {paid, paid \cup {p}}
  /\ Unanswered(p)
  /\ UNCHANGED <<now, entitled, voucher, granted, subscription, requests>>

GrantPass(c) ==
  LET p == call[c].for IN
  /\ call[c].step = "grant" /\ p \in Passes
  /\ order' = [order EXCEPT ![p] = "COMPLETED"]
  /\ Extends(p, "pass", call[c].seen) /\ Answers(c)
  /\ UNCHANGED <<now, paid, voucher, subscription, faults, requests>>

-----------------------------------------------------------------------------
Issue(v) ==
  /\ Ask /\ voucher[v].status = "none" /\ voucher[v].lapses = 0
  /\ voucher' = [voucher EXCEPT ![v] = [status |-> "open", lapses |-> now + Shelf]]
  /\ UNCHANGED <<now, entitled, order, paid, granted, call, subscription, faults>>

(* redeem_voucher reads the account and the voucher.                        *)
Redeem(c, v) ==
  /\ Ask /\ call[c] = Idle
  /\ voucher[v].status = "open" /\ voucher[v].lapses > now
  /\ Does(c, "grant", v, entitled.until)
  /\ UNCHANGED <<now, entitled, order, paid, voucher, granted, subscription, faults>>

(* Its claim is an UPDATE that only finds a voucher nobody redeemed.        *)
GrantVoucher(c) ==
  LET v == call[c].for IN
  /\ call[c].step = "grant" /\ v \in Vouchers /\ Answers(c)
  /\ IF voucher[v].status = "open"
     THEN /\ voucher' = [voucher EXCEPT ![v].status = "redeemed"]
          /\ Extends(v, "voucher", call[c].seen)
     ELSE UNCHANGED <<voucher, entitled, granted>>
  /\ UNCHANGED <<now, order, paid, subscription, faults, requests>>

(* revoke_voucher: the row goes, and a redeemer whose entitlement says      *)
(* voucher loses it.                                                        *)
Revoke(v) ==
  /\ Ask /\ voucher[v].status \in {"open", "redeemed"}
  /\ voucher' = [voucher EXCEPT ![v].status = "none"]
  /\ entitled' = IF voucher[v].status = "redeemed" /\ entitled.kind = "voucher"
                 THEN [kind |-> "none", until |-> 0] ELSE entitled
  /\ UNCHANGED <<now, order, paid, granted, call, subscription, faults>>

-----------------------------------------------------------------------------
(* PayPal's side of the subscription.                                       *)
Told(type, next) == events' = Append(events, [type |-> type, next |-> next])

Approve ==
  /\ Ask /\ paypal.status = "none"
  /\ paypal' = [status |-> "ACTIVE", next |-> now + 1] /\ Told("ACTIVATED", now + 1)
  /\ UNCHANGED <<now, entitled, purchases, sub, faults>>

Renew ==
  /\ paypal.status = "ACTIVE" /\ paypal.next = now
  /\ paypal' = [paypal EXCEPT !.next = now + 1] /\ Told("SALE", now + 1)
  /\ UNCHANGED <<now, entitled, purchases, sub, faults, requests>>

Lapse ==
  /\ paypal.status = "ACTIVE"
  /\ \E new \in {"SUSPENDED", "EXPIRED"} :
       paypal' = [paypal EXCEPT !.status = new] /\ Told(new, 0)
  /\ Ask /\ UNCHANGED <<now, entitled, purchases, sub, faults>>

(* confirm_subscription asks PayPal, and stores and grants what it says.    *)
Activated ==
  /\ Ask /\ paypal.status # "none"
  /\ sub' = paypal
  /\ entitled' = IF paypal.status = "ACTIVE"
                 THEN [kind |-> "subscription", until |-> paypal.next] ELSE entitled
  /\ UNCHANGED <<now, purchases, paypal, events, faults>>

(* cancel_my_subscription; a PayPal that refuses changes nothing.           *)
Cancel ==
  /\ Ask /\ sub.status = "ACTIVE" /\ paypal.status = "ACTIVE"
  /\ paypal' = [paypal EXCEPT !.status = "CANCELLED"] /\ Told("CANCELLED", 0)
  /\ sub' = [sub EXCEPT !.status = "CANCELLED"]
  /\ UNCHANGED <<now, entitled, purchases, faults>>

(* The id of the subscription is only taken from BILLING.SUBSCRIPTION       *)
(* events: a sale is not one.                                               *)
SubscriptionEvent(e) == e.type # "SALE"

(* paypal_webhook.  The next event, or with a fault another one.            *)
Webhook ==
  /\ events # <<>>
  /\ \E i \in DOMAIN events :
       LET e == events[i] IN
       /\ IF i = 1 THEN Fine ELSE Fault
       /\ events' = SubSeq(events, 1, i - 1) \o SubSeq(events, i + 1, Len(events))
       /\ IF ~SubscriptionEvent(e) \/ sub.status = "none" THEN UNCHANGED <<sub, entitled>>
          ELSE IF e.type = "ACTIVATED"
          THEN /\ sub' = [status |-> "ACTIVE", next |-> e.next]
               /\ entitled' = [kind |-> "subscription", until |-> e.next]
          ELSE sub' = [sub EXCEPT !.status = e.type] /\ UNCHANGED entitled
  /\ UNCHANGED <<now, purchases, paypal, requests>>

WebhookLost ==
  /\ events # <<>> /\ Fault
  /\ events' = Tail(events)
  /\ UNCHANGED <<now, entitled, purchases, sub, paypal, requests>>

(* PayPal renews on the day.                                                *)
Tick ==
  /\ now < MaxNow /\ ~(paypal.status = "ACTIVE" /\ paypal.next = now)
  /\ now' = now + 1
  /\ UNCHANGED <<entitled, purchases, subscription, faults, requests>>

Next ==
  \/ \E p \in Passes : CreateOrder(p) \/ \E c \in Calls : Capture(c, p)
  \/ \E v \in Vouchers : Issue(v) \/ Revoke(v) \/ \E c \in Calls : Redeem(c, v)
  \/ \E c \in Calls :
       Captured(c) \/ CaptureRefused(c) \/ CaptureLost(c) \/ GrantPass(c) \/ GrantVoucher(c)
  \/ Approve \/ Renew \/ Lapse \/ Activated \/ Cancel \/ Webhook \/ WebhookLost \/ Tick

Spec == Init /\ [][Next]_vars

-----------------------------------------------------------------------------
(* A purchase counts once: no pass or voucher extends the entitlement       *)
(* twice, however its requests overlap, and a pass PayPal has captured is   *)
(* granted, or still claimed: it is never offered for payment again.        *)
CountsOnce ==
  /\ \A x \in Passes \cup Vouchers : granted[x] <= 1
  /\ \A p \in paid : order[p] \in {"CAPTURING", "COMPLETED"}

(* Why: a request that is under way for a pass holds the pass's claim       *)
(* alone, and a pass or a voucher that can still be granted was not.        *)
PurchaseTypes ==
  /\ now \in Nat
  /\ order \in [Passes -> OrderStatuses] /\ paid \subseteq Passes
  /\ voucher \in [Vouchers -> [status : {"none", "open", "redeemed"}, lapses : Nat]]
  /\ granted \in [Passes \cup Vouchers -> Nat]
  /\ DOMAIN call = Calls
  /\ \A c \in Calls :
       \/ call[c] = Idle
       \/ call[c].step = "paypal" /\ call[c].for \in Passes
       \/ call[c].step = "grant" /\ call[c].for \in Passes \cup Vouchers

ClaimHeldOnce ==
  /\ \A c \in Calls : call[c] # Idle /\ call[c].for \in Passes =>
       /\ order[call[c].for] = "CAPTURING"
       /\ call[c].step = "grant" => call[c].for \in paid
       /\ \A d \in Calls \ {c} : call[d] # Idle => call[d].for # call[c].for
  /\ \A p \in Passes : granted[p] = IF order[p] = "COMPLETED" THEN 1 ELSE 0
  /\ \A p \in paid : order[p] \in {"CAPTURING", "COMPLETED"}
  /\ \A v \in Vouchers :
       /\ granted[v] <= 1
       /\ granted[v] = 1 => voucher[v].lapses # 0 /\ voucher[v].status # "open"
       /\ voucher[v].status = "open" => voucher[v].lapses # 0

PurchasesHold == PurchaseTypes /\ ClaimHeldOnce

(* "Webhook events afterwards keep status / next_billing_at in sync"        *)
(* (billing.py): with every webhook delivered in order, the row of an       *)
(* active subscription knows PayPal's next billing time.                    *)
InSync ==
  faults = 0 /\ events = <<>> /\ sub.status = "ACTIVE" /\ paypal.status = "ACTIVE"
    => sub.next = paypal.next
=============================================================================
