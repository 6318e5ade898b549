------------------------------- MODULE Wallet -------------------------------
(***************************************************************************)
(* The referral wallet, app/payment/orders.py: rewards for orders placed   *)
(* with a referral code, orders paid from the balance, cash-out requests   *)
(* and their resolution, and the credit a referred buyer gets.             *)
(*                                                                         *)
(* Debits and refunds are single UPDATEs.  A reward is not: reward_referral*)
(* reads the referrer's row, walks the buyer's referral ancestry and       *)
(* writes back the balance it computed from what it had read, in a         *)
(* transaction of its own after the order was settled.                     *)
(***************************************************************************)
EXTENDS Integers, FiniteSetsExt

CONSTANTS
    Users,
    NoUser,          \* not a user
    Orders,          \* orders, each with its price
    Referred,        \* the orders that carry a referral event
    Buyer,           \* Buyer[o]: Order.user_id and the event's new_user_id
    ChartOwner,      \* ChartOwner[o]: the user whose chart order o is for
    Referrer,        \* Referrer[o]: whose code order o was placed with
    Price,           \* Price[o]: Order.amount_rial
    Reward,          \* Reward[o]: ReferralEvent.reward_rial
    Requests,        \* calls of withdraw_request
    Requester,       \* Requester[q]: the user
    Amount,          \* Amount[q]: the amount asked for
    MinWithdraw,     \* MIN_WITHDRAW_RIAL
    Refundable,      \* orders an admin may refund
    Overlapping,     \* orders whose reward other transactions may commit inside
    MaxHops          \* how far the referral ancestry is followed

ASSUME WalletAssumption ==
    /\ NoUser \notin Users
    /\ Referred \subseteq Orders
    /\ Buyer \in [Orders -> Users \union {NoUser}]
    /\ ChartOwner \in [Orders -> Users \union {NoUser}]
    /\ Referrer \in [Orders -> Users]
    /\ Price \in [Orders -> Nat] /\ Reward \in [Orders -> Nat]
    /\ Requester \in [Requests -> Users]
    /\ Amount \in [Requests -> Nat]
    /\ MinWithdraw \in Nat /\ MaxHops \in Nat
    /\ Overlapping \subseteq Orders

VARIABLES
    balance,   \* users.balance_rial
    order,     \* order[o]: its status; a paid one names who took the money
    request,   \* request[q]: the withdrawal's status; "none" without a row
    event,     \* event[o]: the referral event's status; "none" without one
    session,   \* session[o]: the step of order o's reward, and what it has read
    bonus      \* orders whose event has granted the buyer a credit

vars == <<balance, order, request, event, session, bonus>>

NoSession == [pc |-> "idle", seen |-> 0]

TypeOK ==
    /\ balance \in [Users -> Nat]
    /\ order \in [Orders -> {"none", "pending", "wallet", "gateway", "cancelled", "refunded"}]
    /\ request \in [Requests -> {"none", "pending", "paid", "rejected"}]
    /\ event \in [Orders -> {"none", "pending", "rewarded", "voided"}]
    /\ session \in [Orders -> [pc : {"idle", "reward", "write"}, seen : Nat]]
    /\ bonus \subseteq Orders

Init ==
    /\ balance = [u \in Users |-> 0]
    /\ order = [o \in Orders |-> "none"]
    /\ request = [q \in Requests |-> "none"]
    /\ event = [o \in Orders |-> "none"]
    /\ session = [o \in Orders |-> NoSession]
    /\ bonus = {}

\* Order.status = "paid".
Paid(o) == order[o] \in {"wallet", "gateway"}

Credit(u, amount) == balance' = [balance EXCEPT ![u] = @ + amount]

\* A fault: the UPDATE of a debit has no WHERE balance_rial >= :amount.
DebitUnguarded(u, amount) == balance' = [balance EXCEPT ![u] = @ - amount]

Debit(u, amount) ==
    /\ balance[u] >= amount
    /\ balance' = [balance EXCEPT ![u] = @ - amount]

-----------------------------------------------------------------------------
(* Cash-out requests.                                                      *)

\* A fault: there is no index that refuses a second pending request.
WithdrawAgain(q) ==
    /\ request[q] = "none" /\ Amount[q] >= MinWithdraw
    /\ Debit(Requester[q], Amount[q])
    /\ request' = [request EXCEPT ![q] = "pending"]
    /\ UNCHANGED <<order, event, session, bonus>>

\* The amount is reserved by a guarded UPDATE; the partial unique index on
\* pending requests rolls the whole transaction back.
Withdraw(q) ==
    /\ request[q] = "none" /\ Amount[q] >= MinWithdraw
    /\ \A p \in Requests : Requester[p] = Requester[q] => request[p] # "pending"
    /\ Debit(Requester[q], Amount[q])
    /\ request' = [request EXCEPT ![q] = "pending"]
    /\ UNCHANGED <<order, event, session, bonus>>

PayOut(q) ==
    /\ request[q] = "pending"
    /\ request' = [request EXCEPT ![q] = "paid"]
    /\ UNCHANGED <<balance, order, event, session, bonus>>

\* A fault: the resolution is not conditional on the request being pending.
RejectAgain(q) ==
    /\ request[q] # "none"
    /\ request' = [request EXCEPT ![q] = "rejected"]
    /\ Credit(Requester[q], Amount[q])
    /\ UNCHANGED <<order, event, session, bonus>>

Reject(q) ==
    /\ request[q] = "pending"
    /\ request' = [request EXCEPT ![q] = "rejected"]
    /\ Credit(Requester[q], Amount[q])
    /\ UNCHANGED <<order, event, session, bonus>>

-----------------------------------------------------------------------------
(* Orders.                                                                 *)

\* create_order: the order and the event of its referral code.
Place(o) ==
    /\ order[o] = "none"
    /\ order' = [order EXCEPT ![o] = "pending"]
    /\ event' = [event EXCEPT ![o] = IF o \in Referred THEN "pending" ELSE "none"]
    /\ UNCHANGED <<balance, request, session, bonus>>

\* Order o is paid; its reward is looked at once this is committed.
Settle(o, by) ==
    /\ order[o] = "pending"
    /\ order' = [order EXCEPT ![o] = by]
    /\ session' = [session EXCEPT ![o] = [pc |-> "reward", seen |-> 0]]
    /\ UNCHANGED <<request, event, bonus>>

PayFromBalance(o) ==
    /\ Buyer[o] # NoUser
    /\ Debit(Buyer[o], Price[o])
    /\ Settle(o, "wallet")

\* Not enough: the order is cancelled at once.
RefuseBalance(o) ==
    /\ order[o] = "pending"
    /\ Buyer[o] # NoUser => balance[Buyer[o]] < Price[o]
    /\ order' = [order EXCEPT ![o] = "cancelled"]
    /\ UNCHANGED <<balance, request, event, session, bonus>>

\* The payment gateway confirmed the payment (module Orders).
PayAtGateway(o) == Settle(o, "gateway") /\ UNCHANGED balance

\* An admin returns a gateway payment (module Orders); rewards stay.
Refund(o) ==
    /\ o \in Refundable /\ order[o] = "gateway"
    /\ order' = [order EXCEPT ![o] = "refunded"]
    /\ UNCHANGED <<balance, request, event, session, bonus>>

-----------------------------------------------------------------------------
(* Rewards.                                                                *)

\* Who may have referred u, by the events that count; the query takes any one.
Parents(u) ==
    LET found == {Referrer[f] : f \in {g \in Referred : Buyer[g] = u
                                                     /\ event[g] \in {"pending", "rewarded"}}}
    IN  IF found = {} THEN {NoUser} ELSE found

\* The walks up the ancestry that starts at o's referrer, after at most n hops:
\* the users met, the buyer among them, and the one the walk has come to.
Walks(o) ==
    LET more(w) == IF w.at = NoUser \/ w.at \in w.met THEN {w}
                   ELSE {[met |-> w.met \union {w.at}, at |-> p] : p \in Parents(w.at)}
        walks[n \in 0 .. MaxHops] ==
            IF n = 0 THEN {[met |-> {Buyer[o]}, at |-> Referrer[o]]}
            ELSE UNION {more(w) : w \in walks[n - 1]}
    IN  walks[MaxHops]

\* A fault: the ancestry is not looked at.
VoidSelfOnly(o, isVoid) == isVoid = (ChartOwner[o] = Referrer[o])

\* Whether o's event is voided: the referrer's own chart, or a cycle.
Void(o, isVoid) ==
    IF ChartOwner[o] = Referrer[o] THEN isVoid
    ELSE IF Buyer[o] = NoUser THEN ~isVoid
    ELSE \E w \in Walks(o) : isVoid = (w.at \in w.met)

EndSession(o) == session' = [session EXCEPT ![o] = NoSession]

NothingToReward(o) ==
    /\ session[o].pc = "reward" /\ event[o] # "pending"
    /\ EndSession(o)
    /\ UNCHANGED <<balance, order, request, event, bonus>>

VoidReward(o) ==
    /\ session[o].pc = "reward" /\ event[o] = "pending"
    /\ Void(o, TRUE)
    /\ event' = [event EXCEPT ![o] = "voided"]
    /\ EndSession(o)
    /\ UNCHANGED <<balance, order, request, bonus>>

\* A fault: every rewarded order brings its buyer a credit.
BonusAlways(o) ==
    bonus' = IF Buyer[o] # NoUser /\ Reward[o] > 0 THEN bonus \union {o} ELSE bonus

\* The buyer gets a credit unless another order of theirs is paid.
Bonus(o) ==
    bonus' = IF /\ Buyer[o] # NoUser /\ Reward[o] > 0
                /\ \A p \in Orders \ {o} : Buyer[p] = Buyer[o] => ~Paid(p)
             THEN bonus \union {o} ELSE bonus

\* The balance read earlier, plus the reward, becomes the balance.
WriteReward(o, seen) ==
    /\ balance' = [balance EXCEPT ![Referrer[o]] = seen + Reward[o]]
    /\ event' = [event EXCEPT ![o] = "rewarded"]
    /\ Bonus(o)
    /\ EndSession(o)
    /\ UNCHANGED <<order, request>>

\* The whole reward, with nobody else writing inside it.
RewardAlone(o) ==
    /\ o \notin Overlapping
    /\ session[o].pc = "reward" /\ event[o] = "pending"
    /\ Void(o, FALSE)
    /\ WriteReward(o, balance[Referrer[o]])

ReadReferrer(o) ==
    /\ o \in Overlapping
    /\ session[o].pc = "reward" /\ event[o] = "pending"
    /\ Void(o, FALSE)
    /\ session' = [session EXCEPT ![o] = [pc |-> "write", seen |-> balance[Referrer[o]]]]
    /\ UNCHANGED <<balance, order, request, event, bonus>>

RewardAfterRead(o) ==
    /\ session[o].pc = "write"
    /\ WriteReward(o, session[o].seen)

\* The reward is best-effort: it fails, or the process dies.
Abandon(o) ==
    /\ session[o].pc # "idle"
    /\ EndSession(o)
    /\ UNCHANGED <<balance, order, request, event, bonus>>

-----------------------------------------------------------------------------

CashOut(q) == Withdraw(q) \/ PayOut(q) \/ Reject(q)
Purchase(o) ==
    Place(o) \/ PayFromBalance(o) \/ RefuseBalance(o) \/ PayAtGateway(o) \/ Refund(o)
RewardStep(o) ==
    \/ NothingToReward(o) \/ VoidReward(o) \/ RewardAlone(o)
    \/ ReadReferrer(o) \/ RewardAfterRead(o) \/ Abandon(o)

Next ==
    \/ \E q \in Requests : CashOut(q)
    \/ \E o \in Orders : Purchase(o) \/ RewardStep(o)

Spec == Init /\ [][Next]_vars

-----------------------------------------------------------------------------
(* Correctness.                                                            *)

\* withdraw_request: "one pending at a time", for every user, however requests
\* and resolutions interleave.
OnePendingRequest ==
    \A p, q \in Requests :
        request[p] = "pending" /\ request[q] = "pending" /\ Requester[p] = Requester[q] => p = q

\* A cash-out is money the user had: what was ever taken out of a wallet is
\* covered by what was ever put into it.
NeverOverdrawn ==
    \A u \in Users :
        LET out(q) == IF Requester[q] = u /\ request[q] \in {"pending", "paid"} THEN Amount[q] ELSE 0
            spent(o) == IF Buyer[o] = u /\ order[o] = "wallet" THEN Price[o] ELSE 0
            earned(o) == IF Referrer[o] = u /\ event[o] = "rewarded" THEN Reward[o] ELSE 0
        IN  MapThenSumSet(out, Requests) + MapThenSumSet(spent, Orders)
            <= MapThenSumSet(earned, Orders)

\* The credit for the "first paid order" is granted once per buyer, however the
\* rewards of their orders overlap.
BonusOnce == \A o, p \in bonus : Buyer[o] = Buyer[p] => o = p

\* reward_referral: "Referral cycles (A->B->A) are voided": of two users who
\* referred each other, at most one brings a reward.
NoMutualReward ==
    \A o, p \in Referred :
        ~ (/\ event[o] = "rewarded" /\ event[p] = "rewarded"
           /\ Buyer[o] = Referrer[p] /\ Buyer[p] = Referrer[o])

\* The two rules of the code against rewards that repeat.
BonusFair == BonusOnce /\ NoMutualReward

(***************************************************************************)
(* The wallet implements the account of CreditAccount for every user whose *)
(* rewards nobody commits inside: each reservation, return, purchase and   *)
(* reward moves the balance exactly once and by its amount, and no balance *)
(* is overdrawn, whatever happens to the wallets of the others.            *)
(***************************************************************************)
Movements == (Requests \X {"out", "back"}) \union (Orders \X {"price", "reward"})

MovementUser == [m \in Movements |-> IF m[1] \in Requests /\ m[2] \in {"out", "back"}
                                     THEN Requester[m[1]]
                                     ELSE IF m[2] = "price" THEN Buyer[m[1]] ELSE Referrer[m[1]]]
MovementDelta == [m \in Movements |-> CASE m[2] = "out" -> -Amount[m[1]]
                                        [] m[2] = "back" -> Amount[m[1]]
                                        [] m[2] = "price" -> -Price[m[1]]
                                        [] m[2] = "reward" -> Reward[m[1]]]
HasMoved(m) ==
    \/ m[2] = "out" /\ request[m[1]] # "none"
    \/ m[2] = "back" /\ request[m[1]] = "rejected"
    \/ m[2] = "price" /\ order[m[1]] = "wallet"
    \/ m[2] = "reward" /\ event[m[1]] = "rewarded"

Calm == Users \ {Referrer[o] : o \in Overlapping}
CalmMovements == {m \in Movements : MovementUser[m] \in Calm}
CalmBalance == [u \in Calm |-> balance[u]]
CalmMoved == {m \in CalmMovements : HasMoved(m)}

Account == INSTANCE CreditAccount
           WITH Users <- Calm, Postings <- CalmMovements, AccountOf <- MovementUser,
                Delta <- MovementDelta, balance <- CalmBalance, posted <- CalmMoved

\* withdraw_request, resolve_withdrawal, pay_order_with_balance and
\* reward_referral implement that account.
ImplementsAccount == Account!Spec
=============================================================================
