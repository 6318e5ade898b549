------------------------------- MODULE Orders -------------------------------
(***************************************************************************)
(* Credit-pack orders from checkout to refund: create_order, the gateway   *)
(* callback, wallet checkout, the hourly sweep and the admin refund        *)
(* (app/payment/orders.py, app/main.py, app/routes/admin.py).              *)
(*                                                                         *)
(* A session runs one request at a time under READ COMMITTED.  A textual   *)
(* UPDATE acts on the committed row; an ORM attribute is read at one step  *)
(* and its new value, computed from what was read, is written at the       *)
(* session's commit, a later step, whatever the row holds by then.         *)
(***************************************************************************)
EXTENDS Integers, FiniteSets

CONSTANTS
    Orders,
    Coupons,
    NoCoupon,
    MaxUses,     \* MaxUses[c]: coupons.max_uses
    Requests,    \* sessions that serve checkouts and gateway callbacks
    Admins,      \* sessions that serve admin refunds
    Sweepers,    \* sessions of the hourly sweep
    NoOrder,
    MaxNok,      \* bound: "Status=NOK" callbacks per order
    CanCrash     \* whether the process may die inside a request

Sessions == Requests \union Admins \union Sweepers

ASSUME OrdersAssumption ==
    /\ IsFiniteSet(Orders)
    /\ NoOrder \notin Orders
    /\ NoCoupon \notin Coupons
    /\ MaxUses \in [Coupons -> Nat]
    /\ MaxNok \in Nat
    /\ CanCrash \in BOOLEAN

VARIABLES
    status,     \* orders.status; "none" before the row exists
    coupon,     \* orders.coupon_id
    used,       \* used[c]: coupons.used_count
    delivered,  \* orders whose credits were granted (key purchase:{order})
    balancePaid, \* orders settled from the wallet
    gate,       \* what the gateway holds for the order's authority
    task,       \* task[s]: the step session s is at, and its order
    seen,       \* seen[s]: used_count of every coupon as s has loaded it
    batch,      \* batch[s]: the stale orders a sweep has loaded
    nok,        \* nok[o]: NOK callbacks received so far
    finals      \* finals[o]: how many refunds of o won the final transition

vars == <<status, coupon, used, delivered, balancePaid, gate, task, seen, batch,
          nok, finals>>
rowVars == <<status, coupon, used, delivered, balancePaid, finals>>

Statuses == {"none", "pending", "verifying", "paid", "failed", "cancelled",
             "refunding", "refund_failed", "refunded"}

\* A payment at the gateway: requested but the buyer was never sent there
\* ("unseen"), open for payment, paid by the buyer, verified by the shop,
\* cancelled by the buyer, reversed because the shop did not verify it in time,
\* or refunded.
GateStates == {"none", "unseen", "open", "captured", "confirmed", "cancelled",
               "reversed", "returned"}

Steps == {"idle", "verify", "settle", "reopen", "refused", "cancel",
          "wallet", "walletShort", "sweep",
          "refund", "finalize", "refundError", "release", "releaseWrite"}

Idle == [pc |-> "idle", order |-> NoOrder]
NothingSeen == [c \in Coupons |-> 0]

TypeOK ==
    /\ status \in [Orders -> Statuses]
    /\ coupon \in [Orders -> Coupons \union {NoCoupon}]
    /\ used \in [Coupons -> Nat]
    /\ delivered \subseteq Orders
    /\ balancePaid \subseteq Orders
    /\ gate \in [Orders -> GateStates]
    /\ task \in [Sessions -> [pc : Steps, order : Orders \union {NoOrder}]]
    /\ seen \in [Sessions -> [Coupons -> Nat]]
    /\ batch \in [Sessions -> SUBSET Orders]
    /\ nok \in [Orders -> Nat]
    /\ finals \in [Orders -> Nat]

Init ==
    /\ status = [o \in Orders |-> "none"]
    /\ coupon = [o \in Orders |-> NoCoupon]
    /\ used = [c \in Coupons |-> 0]
    /\ delivered = {}
    /\ balancePaid = {}
    /\ gate = [o \in Orders |-> "none"]
    /\ task = [s \in Sessions |-> Idle]
    /\ seen = [s \in Sessions |-> NothingSeen]
    /\ batch = [s \in Sessions |-> {}]
    /\ nok = [o \in Orders |-> 0]
    /\ finals = [o \in Orders |-> 0]

-----------------------------------------------------------------------------
(* Pieces of the handlers.                                                 *)

IsIdle(s) == task[s].pc = "idle"
At(s, pc, o) == task[s] = [pc |-> pc, order |-> o] /\ o \in Orders

Goto(s, pc, o) ==
    /\ task' = [task EXCEPT ![s] = [pc |-> pc, order |-> o]]
    /\ UNCHANGED <<seen, batch>>

\* As Goto, and the session loads the coupon row of its order.
GotoLoaded(s, pc, o) ==
    /\ task' = [task EXCEPT ![s] = [pc |-> pc, order |-> o]]
    /\ seen' = [seen EXCEPT ![s] = used]
    /\ UNCHANGED batch

Done(s) ==
    /\ task' = [task EXCEPT ![s] = Idle]
    /\ seen' = [seen EXCEPT ![s] = NothingSeen]
    /\ batch' = [batch EXCEPT ![s] = {}]

SetStatus(o, new) == status' = [status EXCEPT ![o] = new]

\* A fault: the count is not looked at before it goes down.
ReleaseAlways(s, o) ==
    used' = [c \in Coupons |-> IF coupon[o] = c THEN seen[s][c] - 1 ELSE used[c]]

\* _release_coupon: c.used_count -= 1 on the loaded object, if it was positive.
ReleaseCoupon(s, o) ==
    used' = [c \in Coupons |->
                IF coupon[o] = c /\ seen[s][c] > 0 THEN seen[s][c] - 1 ELSE used[c]]

-----------------------------------------------------------------------------
(* Checkout: create_order.                                                 *)

\* A fault: the coupon slot is not reserved by a guarded UPDATE.
ReserveUnguarded(c) ==
    used' = IF c = NoCoupon THEN used ELSE [used EXCEPT ![c] = @ + 1]

\* UPDATE coupons SET used_count = used_count + 1 WHERE used_count < max_uses.
Reserve(c) ==
    IF c = NoCoupon THEN used' = used
    ELSE used[c] < MaxUses[c] /\ used' = [used EXCEPT ![c] = @ + 1]

\* The row lock of the coupon is held until the one commit of the checkout, so
\* the reservation and the new order appear together.
CreateOrder(o, c, g) ==
    /\ status[o] = "none"
    /\ Reserve(c)
    /\ coupon' = [coupon EXCEPT ![o] = c]
    /\ gate' = [gate EXCEPT ![o] = g]
    /\ SetStatus(o, "pending")

NewOrder(s, o, c) ==
    /\ IsIdle(s)
    /\ CreateOrder(o, c, "open")
    /\ UNCHANGED <<delivered, balancePaid, task, seen, batch, nok, finals>>

\* The gateway refuses the request: the order is recorded as failed, its slot
\* goes back in the same commit, and the row keeps its coupon_id.
NewOrderRejected(s, o, c) ==
    /\ IsIdle(s)
    /\ status[o] = "none"
    /\ c # NoCoupon => used[c] < MaxUses[c]
    /\ coupon' = [coupon EXCEPT ![o] = c]
    /\ SetStatus(o, "failed")
    /\ UNCHANGED <<used, delivered, balancePaid, gate, task, seen, batch, nok, finals>>

\* Wallet checkout: the order is created first, then settled from the balance
\* in a second transaction.
WalletOrder(s, o, c) ==
    /\ IsIdle(s)
    /\ CreateOrder(o, c, "unseen")
    /\ Goto(s, "wallet", o)
    /\ UNCHANGED <<delivered, balancePaid, nok, finals>>

\* pay_order_with_balance: the guarded debit, the status and the credits in
\* one commit.
WalletPaid(s, o) ==
    /\ At(s, "wallet", o)
    /\ status[o] = "pending"
    /\ SetStatus(o, "paid")
    /\ delivered' = delivered \union {o}
    /\ balancePaid' = balancePaid \union {o}
    /\ Done(s)
    /\ UNCHANGED <<coupon, used, gate, nok, finals>>

\* The balance no longer covers it: cancel and release.
WalletShort(s, o) ==
    /\ At(s, "wallet", o)
    /\ GotoLoaded(s, "walletShort", o)
    /\ UNCHANGED <<rowVars, gate, nok>>

WalletCancelled(s, o) ==
    /\ At(s, "walletShort", o)
    /\ SetStatus(o, "cancelled")
    /\ ReleaseCoupon(s, o)
    /\ Done(s)
    /\ UNCHANGED <<coupon, delivered, balancePaid, gate, nok, finals>>

-----------------------------------------------------------------------------
(* The buyer and the gateway (external).                                   *)

Gateway(o, from, to) ==
    /\ gate[o] = from
    /\ gate' = [gate EXCEPT ![o] = to]
    /\ UNCHANGED <<rowVars, task, seen, batch, nok>>

BuyerPays(o) == Gateway(o, "open", "captured")
BuyerCancels(o) == Gateway(o, "open", "cancelled")
GatewayReverses(o) == Gateway(o, "captured", "reversed")

-----------------------------------------------------------------------------
(* GET /api/payments/verify with Status=OK.                                *)

\* A fault: the claim is a check followed by an assignment that any callback
\* of an unpaid order passes.
ClaimAnyUnpaid(s, o) ==
    /\ IsIdle(s)
    /\ gate[o] \in {"captured", "confirmed", "reversed"}
    /\ status[o] \in {"pending", "verifying"}
    /\ SetStatus(o, "verifying")
    /\ Goto(s, "verify", o)
    /\ UNCHANGED <<coupon, used, delivered, balancePaid, gate, nok, finals>>

\* UPDATE orders SET status = 'verifying' WHERE status = 'pending'; COMMIT.
\* A callback of an order in any other state only redirects.
Claim(s, o) ==
    /\ IsIdle(s)
    /\ gate[o] \in {"captured", "confirmed", "reversed"}
    /\ status[o] = "pending"
    /\ SetStatus(o, "verifying")
    /\ Goto(s, "verify", o)
    /\ UNCHANGED <<coupon, used, delivered, balancePaid, gate, nok, finals>>

\* verify() answers 100, or 101 when it had confirmed the payment before.
GatewayConfirms(s, o) ==
    /\ At(s, "verify", o)
    /\ gate[o] \in {"captured", "confirmed"}
    /\ gate' = [gate EXCEPT ![o] = "confirmed"]
    /\ Goto(s, "settle", o)
    /\ UNCHANGED <<rowVars, nok>>

\* verify() dies on the network, before or after the gateway confirmed.
VerifyTimeout(s, o) ==
    /\ At(s, "verify", o)
    /\ \/ UNCHANGED gate
       \/ gate[o] = "captured" /\ gate' = [gate EXCEPT ![o] = "confirmed"]
    /\ Goto(s, "reopen", o)
    /\ UNCHANGED <<rowVars, nok>>

\* The gateway definitely has no payment: ZarinpalError.
GatewayRefuses(s, o) ==
    /\ At(s, "verify", o)
    /\ gate[o] \notin {"captured", "confirmed"}
    /\ GotoLoaded(s, "refused", o)
    /\ UNCHANGED <<rowVars, gate, nok>>

\* A reply that is not JSON, an error page say, raises the same ZarinpalError,
\* whatever the gateway did with the payment.
GatewayUnreadable(s, o) ==
    /\ At(s, "verify", o)
    /\ gate[o] \in {"captured", "confirmed"}
    /\ gate' \in {gate, [gate EXCEPT ![o] = "confirmed"]}
    /\ GotoLoaded(s, "refused", o)
    /\ UNCHANGED <<rowVars, nok>>

\* A fault: the status is committed before the credits are granted.
SettleWithoutCredits(s, o) ==
    /\ At(s, "settle", o)
    /\ SetStatus(o, "paid")
    /\ Done(s)
    /\ UNCHANGED <<coupon, used, delivered, balancePaid, gate, nok, finals>>

\* status = paid and the credit grant, in one commit.
SettlePaid(s, o) ==
    /\ At(s, "settle", o)
    /\ SetStatus(o, "paid")
    /\ delivered' = delivered \union {o}
    /\ Done(s)
    /\ UNCHANGED <<coupon, used, balancePaid, gate, nok, finals>>

\* A fault: an unknown outcome leaves the claim in place.
LeaveClaimed(s, o) ==
    /\ At(s, "reopen", o)
    /\ Done(s)
    /\ UNCHANGED <<rowVars, gate, nok>>

\* The outcome is unknown: back to pending, so that a refresh verifies again.
Reopen(s, o) ==
    /\ At(s, "reopen", o)
    /\ SetStatus(o, "pending")
    /\ Done(s)
    /\ UNCHANGED <<coupon, used, delivered, balancePaid, gate, nok, finals>>

\* A fault: the slot of the refused order is kept.
SettleFailedKeepsSlot(s, o) ==
    /\ At(s, "refused", o)
    /\ SetStatus(o, "failed")
    /\ Done(s)
    /\ UNCHANGED <<coupon, used, delivered, balancePaid, gate, nok, finals>>

SettleFailed(s, o) ==
    /\ At(s, "refused", o)
    /\ SetStatus(o, "failed")
    /\ ReleaseCoupon(s, o)
    /\ Done(s)
    /\ UNCHANGED <<coupon, delivered, balancePaid, gate, nok, finals>>

-----------------------------------------------------------------------------
(* GET /api/payments/verify with Status=NOK.                               *)

\* Unless the order is paid the handler goes on to fail it; nothing asks
\* whether it has failed before.
CancelCallback(s, o) ==
    /\ IsIdle(s)
    /\ gate[o] = "cancelled"
    /\ status[o] # "paid"
    /\ nok[o] < MaxNok
    /\ nok' = [nok EXCEPT ![o] = @ + 1]
    /\ GotoLoaded(s, "cancel", o)
    /\ UNCHANGED <<rowVars, gate>>

CancelWrite(s, o) ==
    /\ At(s, "cancel", o)
    /\ SetStatus(o, "failed")
    /\ ReleaseCoupon(s, o)
    /\ Done(s)
    /\ UNCHANGED <<coupon, delivered, balancePaid, gate, nok, finals>>

-----------------------------------------------------------------------------
(* The hourly sweep, sweep_stale_orders.                                   *)

\* It loads the pending orders that are older than 30 minutes and their
\* coupons.  Which orders are that old is left open, except that a wallet
\* checkout in progress is not.
SweepLoad(s, S) ==
    /\ IsIdle(s)
    /\ \A o \in S :
          /\ status[o] = "pending"
          /\ ~ \E r \in Requests : task[r].order = o /\ task[r].pc \in {"wallet", "walletShort"}
    /\ task' = [task EXCEPT ![s] = [pc |-> "sweep", order |-> NoOrder]]
    /\ seen' = [seen EXCEPT ![s] = used]
    /\ batch' = [batch EXCEPT ![s] = S]
    /\ UNCHANGED <<rowVars, gate, nok>>

LoadedOf(s, c) == {o \in batch[s] : coupon[o] = c}
HasFailedOrder(c) == \E o \in Orders : status[o] = "failed" /\ coupon[o] = c

\* One commit: the loaded orders fail, their loaded coupons lose one slot per
\* order; a coupon not written that way loses one slot if any order of it has
\* failed, now or in the past (the textual UPDATE, run before the flush).
SweepWrite(s) ==
    /\ task[s].pc = "sweep"
    /\ used' = [c \in Coupons |->
          IF LoadedOf(s, c) # {} /\ seen[s][c] > 0
          THEN IF seen[s][c] > Cardinality(LoadedOf(s, c))
               THEN seen[s][c] - Cardinality(LoadedOf(s, c)) ELSE 0
          ELSE IF HasFailedOrder(c) /\ used[c] > 0 THEN used[c] - 1
          ELSE used[c]]
    /\ status' = [o \in Orders |-> IF o \in batch[s] THEN "failed" ELSE status[o]]
    /\ Done(s)
    /\ UNCHANGED <<coupon, delivered, balancePaid, gate, nok, finals>>

-----------------------------------------------------------------------------
(* POST /api/admin/orders/{id}/refund.                                     *)

\* A fault: an order that was never paid can be refunded.
RefundClaimUnpaid(s, o) ==
    /\ IsIdle(s)
    /\ status[o] \in {"pending", "paid", "refund_failed", "refunding"}
    /\ SetStatus(o, "refunding")
    /\ Goto(s, "refund", o)
    /\ UNCHANGED <<coupon, used, delivered, balancePaid, gate, nok, finals>>

\* A fault: an order that was refunded can be refunded again.
RefundClaimAgain(s, o) ==
    /\ IsIdle(s)
    /\ status[o] \in {"paid", "refund_failed", "refunding", "refunded"}
    /\ SetStatus(o, "refunding")
    /\ Goto(s, "refund", o)
    /\ UNCHANGED <<coupon, used, delivered, balancePaid, gate, nok, finals>>

\* 'refunding' is committed before the gateway is called.  A request that died
\* there, or a second admin, passes as well.
RefundClaim(s, o) ==
    /\ IsIdle(s)
    /\ status[o] \in {"paid", "refund_failed", "refunding"}
    /\ SetStatus(o, "refunding")
    /\ Goto(s, "refund", o)
    /\ UNCHANGED <<coupon, used, delivered, balancePaid, gate, nok, finals>>

\* Code 100, or 66/67 for a payment returned before.
GatewayReturns(s, o) ==
    /\ At(s, "refund", o)
    /\ gate[o] \in {"confirmed", "returned"}
    /\ gate' = [gate EXCEPT ![o] = "returned"]
    /\ Goto(s, "finalize", o)
    /\ UNCHANGED <<rowVars, nok>>

\* A fault: every error is taken for "returned before".
ErrorMeansReturned(s, o) ==
    /\ At(s, "refund", o)
    /\ UNCHANGED gate
    /\ Goto(s, "finalize", o)
    /\ UNCHANGED <<rowVars, nok>>

\* Any other error, the money moved or not.
RefundCallFails(s, o) ==
    /\ At(s, "refund", o)
    /\ \/ UNCHANGED gate
       \/ gate[o] = "confirmed" /\ gate' = [gate EXCEPT ![o] = "returned"]
    /\ Goto(s, "refundError", o)
    /\ UNCHANGED <<rowVars, nok>>

\* A fault: nothing is written when the gateway call fails.
LeaveRefunding(s, o) ==
    /\ At(s, "refundError", o)
    /\ Done(s)
    /\ UNCHANGED <<rowVars, gate, nok>>

\* order.status = "refund_failed" on the loaded row: unconditional.
RefundFailed(s, o) ==
    /\ At(s, "refundError", o)
    /\ SetStatus(o, "refund_failed")
    /\ Done(s)
    /\ UNCHANGED <<coupon, used, delivered, balancePaid, gate, nok, finals>>

\* UPDATE orders SET status = 'refunded' WHERE status = 'refunding'; COMMIT.
\* (finals counts the winners up to 2.)
Finalize(s, o) ==
    /\ At(s, "finalize", o)
    /\ status[o] = "refunding"
    /\ SetStatus(o, "refunded")
    /\ finals' = [finals EXCEPT ![o] = IF @ < 2 THEN @ + 1 ELSE @]
    /\ Goto(s, "release", o)
    /\ UNCHANGED <<coupon, used, delivered, balancePaid, gate, nok>>

\* Another admin's request made the transition: the loser stops here.
FinalizeLost(s, o) ==
    /\ At(s, "finalize", o)
    /\ status[o] # "refunding"
    /\ Done(s)
    /\ UNCHANGED <<rowVars, gate, nok>>

ReleaseLoad(s, o) ==
    /\ At(s, "release", o)
    /\ GotoLoaded(s, "releaseWrite", o)
    /\ UNCHANGED <<rowVars, gate, nok>>

ReleaseWrite(s, o) ==
    /\ At(s, "releaseWrite", o)
    /\ ReleaseCoupon(s, o)
    /\ Done(s)
    /\ UNCHANGED <<status, coupon, delivered, balancePaid, gate, nok, finals>>

-----------------------------------------------------------------------------

\* The process dies; what was committed stays.
Crash(s) ==
    /\ CanCrash
    /\ ~IsIdle(s)
    /\ Done(s)
    /\ UNCHANGED <<rowVars, gate, nok>>

\* The next step of the request a session is in the middle of.
Proceed(s) ==
    \/ \E o \in Orders :
          \/ WalletPaid(s, o) \/ WalletShort(s, o) \/ WalletCancelled(s, o)
          \/ GatewayConfirms(s, o) \/ VerifyTimeout(s, o)
          \/ GatewayRefuses(s, o) \/ GatewayUnreadable(s, o)
          \/ SettlePaid(s, o) \/ Reopen(s, o) \/ SettleFailed(s, o)
          \/ CancelWrite(s, o)
          \/ GatewayReturns(s, o) \/ RefundCallFails(s, o) \/ RefundFailed(s, o)
          \/ Finalize(s, o) \/ FinalizeLost(s, o) \/ ReleaseLoad(s, o) \/ ReleaseWrite(s, o)
    \/ SweepWrite(s)

Start ==
    \/ \E s \in Requests, o \in Orders, c \in Coupons \union {NoCoupon} :
          NewOrder(s, o, c) \/ NewOrderRejected(s, o, c) \/ WalletOrder(s, o, c)
    \/ \E o \in Orders :
          \/ BuyerPays(o) \/ BuyerCancels(o) \/ GatewayReverses(o)
          \/ \E s \in Requests : Claim(s, o) \/ CancelCallback(s, o)
          \/ \E s \in Admins : RefundClaim(s, o)
    \/ \E s \in Sweepers, S \in SUBSET Orders : SweepLoad(s, S)

Next == Start \/ \E s \in Sessions : Proceed(s) \/ Crash(s)

Spec == Init /\ [][Next]_vars

\* A request that runs is not starved: the server's thread pool and the
\* gateway's timeout (15 s) bring every call to its end.  Nothing is assumed of
\* buyers, of the gateway or of when the next request comes.
FairSpec == Spec /\ \A s \in Sessions : WF_vars(Proceed(s))

-----------------------------------------------------------------------------
(* Correctness.                                                            *)

Settled == {"paid", "refunding", "refund_failed", "refunded"}
Holding == {"pending", "verifying", "paid", "refunding", "refund_failed"}

\* used_count never leaves 0 .. max_uses, whatever stale values are written.
SlotsWithinLimit == \A c \in Coupons : used[c] <= MaxUses[c]

\* The shop has, or had, the money of every order it treats as paid and of
\* every order it granted credits for.
MoneyReceived(o) == o \in balancePaid \/ gate[o] \in {"confirmed", "returned"}
PaidIsBacked ==
    \A o \in Orders : status[o] \in Settled \/ o \in delivered => MoneyReceived(o)

\* An order the shop treats as paid had its credits granted: no crash, retry or
\* sweep between the gateway's answer and the grant loses them.
PaidIsDelivered == \A o \in Orders : status[o] \in Settled => o \in delivered

\* At most one callback is between claim and outcome for an order, so the
\* gateway's answer is settled once.
Claimants(o) == {s \in Sessions : task[s].order = o
                                  /\ task[s].pc \in {"verify", "settle", "reopen", "refused"}}
ClaimIsExclusive ==
    \A o \in Orders : \A s, t \in Claimants(o) : s = t

\* Credits that were granted are never for sale again: no order goes back to a
\* payable state after its grant.
NotPayableAgain ==
    \A o \in delivered : status[o] \notin {"none", "pending", "verifying"}

\* What is shown as refunded was returned by the gateway.
RefundedIsReturned ==
    \A o \in Orders : status[o] = "refunded" => gate[o] = "returned"

\* What the shop shows of an order's money is where the money is.
StatusMatchesMoney == PaidIsBacked /\ RefundedIsReturned

\* Neither the shop nor the buyer is left with money and goods at once, or with neither.
MoneyAndGoods == StatusMatchesMoney /\ PaidIsDelivered

HeldSlots(c) == Cardinality({o \in Orders : coupon[o] = c /\ status[o] \in Holding})
SlotsToRelease(c) ==
    Cardinality({s \in Sessions : /\ task[s].pc \in {"release", "releaseWrite"}
                                  /\ coupon[task[s].order] = c})

\* _release_coupon: "Keeps used_count honest so slots are never lost": the count
\* is the number of orders that hold a slot or are about to give it back.
UsedIsHonest == \A c \in Coupons : used[c] = HeldSlots(c) + SlotsToRelease(c)

\* Every order that holds a slot is counted: no slot is given back twice, none
\* is handed out uncounted.
SlotsCounted == \A c \in Coupons : HeldSlots(c) <= used[c]

\* admin_refund: its side effects "run EXACTLY once even under concurrent admins".
RefundEffectsOnce == \A o \in Orders : finals[o] <= 1

\* Where writers of an order come one at a time, its slot and its refund are counted
\* exactly: _release_coupon for each slot given back, admin_refund once.
OrdersAreExact == UsedIsHonest /\ RefundEffectsOnce

\* A claimed order does not stay in "verifying": it is settled or re-opened.
VerifyingEnds ==
    \A o \in Orders : status[o] = "verifying" ~> status[o] # "verifying"

\* A refund that was begun comes to an answer.
RefundingEnds ==
    \A o \in Orders : status[o] = "refunding" ~> status[o] # "refunding"

\* No order is left halfway: not by a callback, not by a refund.
OrdersSettle == VerifyingEnds /\ RefundingEnds
=============================================================================
