--------------------------- MODULE ServicesProofs ---------------------------
(***************************************************************************)
(* What the run services checks on small instances, for every value of the *)
(* constants: the wallet (BonusOnce, NoMutualReward, the account it        *)
(* implements), the settings (SavedIsUsed), the audio version of a report  *)
(* (GeneratingHasJob), the articles (NothingIsLost), the deletion of an    *)
(* account (FailClosed), the digests (SentOnce), the pool of provider keys *)
(* (KeyPoolKept), the one-time passwords (GuessesBounded), what a reader   *)
(* may open (AccessHeld), subscriptions (PeriodsArePaidFor) and purchases  *)
(* (BoughtIsBound). The services share no variable; each part below        *)
(* concerns one of them, and the last part puts them side by side.         *)
(***************************************************************************)
EXTENDS MCServices, SumProofs

-----------------------------------------------------------------------------
(* The wallet.                                                             *)

\* An order that was paid, and may have been refunded since.
WasPaid(o) == Paid(o) \/ order[o] = "refunded"

\* An order whose reward is being looked at, or has brought its buyer a
\* credit, was paid, and only some orders are ever refunded.
RewardsFollowPayment ==
    \A o \in Orders : /\ session[o].pc # "idle" \/ o \in bonus => WasPaid(o)
                      /\ order[o] = "refunded" => o \in Refundable

\* A reward that nobody interrupts has no state between its read and its write.
NoReadAhead == \A o \in Orders : session[o].pc = "write" => o \in Overlapping

\* Events and rewards belong to orders that were placed.
PlacedFirst ==
    \A o \in Orders : event[o] # "none" \/ session[o].pc # "idle" => order[o] # "none"

\* Of two orders that brought one buyer a credit, one was refunded.
BonusOnceUnlessRefunded ==
    \A o, p \in bonus :
        Buyer[o] = Buyer[p] => o = p \/ order[o] = "refunded" \/ order[p] = "refunded"

\* An order that may be refunded is the only one of its buyer.
RefundsStandAlone ==
    \A o \in Refundable : \A p \in Orders \ {o} : Buyer[p] # Buyer[o]

IInv ==
    /\ TypeOK
    /\ OnePendingRequest
    /\ RewardsFollowPayment
    /\ NoReadAhead
    /\ PlacedFirst
    /\ BonusOnceUnlessRefunded

\* The steps of orders and of their rewards, apart.
LEMMA NextSplit ==
  ASSUME Next
  PROVE  \/ \E q \in Requests : CashOut(q)
         \/ \E o \in Orders : Purchase(o)
         \/ \E o \in Orders : RewardStep(o)
  BY DEF Next

LEMMA TypeInit == Init => TypeOK
  BY WalletAssumption DEF Init, TypeOK, NoSession

\* What a user asks for, pays and earns is a natural number of rials.
LEMMA Amounts ==
  /\ \A q \in Requests : Amount[q] \in Nat /\ Requester[q] \in Users
  /\ \A o \in Orders : Price[o] \in Nat /\ Reward[o] \in Nat /\ Referrer[o] \in Users
  /\ \A o \in Orders : Buyer[o] # NoUser => Buyer[o] \in Users
  BY WalletAssumption

LEMMA DebitType ==
  ASSUME TypeOK, NEW u \in Users, NEW n \in Nat, Debit(u, n)
  PROVE  balance' \in [Users -> Nat]
  <1>1. balance[u] \in Nat /\ balance[u] - n \in Nat
    BY DEF TypeOK, Debit
  <1> QED BY <1>1 DEF TypeOK, Debit

LEMMA CreditType ==
  ASSUME TypeOK, NEW u \in Users, NEW n \in Nat, Credit(u, n)
  PROVE  balance' \in [Users -> Nat]
  <1>1. balance[u] \in Nat /\ balance[u] + n \in Nat
    BY DEF TypeOK
  <1> QED BY <1>1 DEF TypeOK, Credit

LEMMA CashOutType == ASSUME TypeOK, NEW q \in Requests, CashOut(q) PROVE TypeOK'
  <1>1. CASE Withdraw(q)
    <2>1. balance' \in [Users -> Nat]
      BY <1>1, Amounts, DebitType DEF Withdraw
    <2> QED BY <1>1, <2>1 DEF Withdraw, TypeOK
  <1>2. CASE PayOut(q)
    BY <1>2 DEF PayOut, TypeOK
  <1>3. CASE Reject(q)
    <2>1. balance' \in [Users -> Nat]
      BY <1>3, Amounts, CreditType DEF Reject
    <2> QED BY <1>3, <2>1 DEF Reject, TypeOK
  <1> QED BY <1>1, <1>2, <1>3 DEF CashOut

LEMMA SettleType ==
  ASSUME TypeOK, NEW o \in Orders, NEW by \in {"wallet", "gateway"}, Settle(o, by),
         balance' \in [Users -> Nat]
  PROVE  TypeOK'
  <1>1. session' \in [Orders -> [pc : {"idle", "reward", "write"}, seen : Nat]]
    BY DEF Settle, TypeOK
  <1>2. order' \in [Orders -> {"none", "pending", "wallet", "gateway", "cancelled", "refunded"}]
    BY DEF Settle, TypeOK
  <1> QED BY <1>1, <1>2 DEF Settle, TypeOK

LEMMA PurchaseType == ASSUME TypeOK, NEW o \in Orders, Purchase(o) PROVE TypeOK'
  <1>1. CASE Place(o)
    BY <1>1 DEF Place, TypeOK
  <1>2. CASE PayFromBalance(o)
    <2>1. balance' \in [Users -> Nat]
      BY <1>2, Amounts, DebitType DEF PayFromBalance
    <2> QED BY <1>2, <2>1, SettleType DEF PayFromBalance
  <1>3. CASE RefuseBalance(o)
    BY <1>3 DEF RefuseBalance, TypeOK
  <1>4. CASE PayAtGateway(o)
    <2>1. balance' \in [Users -> Nat]
      BY <1>4 DEF PayAtGateway, TypeOK
    <2> QED BY <1>4, <2>1, SettleType DEF PayAtGateway
  <1>5. CASE Refund(o)
    BY <1>5 DEF Refund, TypeOK
  <1> QED BY <1>1, <1>2, <1>3, <1>4, <1>5 DEF Purchase

LEMMA SessionType ==
  ASSUME TypeOK, NEW o \in Orders, EndSession(o)
  PROVE  session' \in [Orders -> [pc : {"idle", "reward", "write"}, seen : Nat]]
  BY DEF EndSession, NoSession, TypeOK

LEMMA WriteType ==
  ASSUME TypeOK, NEW o \in Orders, NEW seen \in Nat, WriteReward(o, seen)
  PROVE  TypeOK'
  <1>1. seen + Reward[o] \in Nat
    BY Amounts
  <1>2. balance' \in [Users -> Nat]
    BY <1>1, Amounts DEF WriteReward, TypeOK
  <1>3. session' \in [Orders -> [pc : {"idle", "reward", "write"}, seen : Nat]]
    BY SessionType DEF WriteReward
  <1>4. bonus' \subseteq Orders
    BY DEF WriteReward, Bonus, TypeOK
  <1> QED BY <1>2, <1>3, <1>4 DEF WriteReward, TypeOK

LEMMA RewardType == ASSUME TypeOK, NEW o \in Orders, RewardStep(o) PROVE TypeOK'
  <1>1. CASE NothingToReward(o)
    BY <1>1, SessionType DEF NothingToReward, TypeOK
  <1>2. CASE VoidReward(o)
    BY <1>2, SessionType DEF VoidReward, TypeOK
  <1>3. CASE RewardAlone(o)
    <2>1. balance[Referrer[o]] \in Nat
      BY Amounts DEF TypeOK
    <2> QED BY <1>3, <2>1, WriteType DEF RewardAlone
  <1>4. CASE ReadReferrer(o)
    <2>1. balance[Referrer[o]] \in Nat
      BY Amounts DEF TypeOK
    <2> QED BY <1>4, <2>1 DEF ReadReferrer, TypeOK
  <1>5. CASE RewardAfterRead(o)
    <2>1. session[o].seen \in Nat
      BY DEF TypeOK
    <2> QED BY <1>5, <2>1, WriteType DEF RewardAfterRead
  <1>6. CASE Abandon(o)
    BY <1>6, SessionType DEF Abandon, TypeOK
  <1> QED BY <1>1, <1>2, <1>3, <1>4, <1>5, <1>6 DEF RewardStep

-----------------------------------------------------------------------------

\* A user's pending request is the only one.
LEMMA OnePendingStep ==
  ASSUME TypeOK, OnePendingRequest, [Next]_vars
  PROVE  OnePendingRequest'
<1>1. ASSUME NEW q \in Requests, Withdraw(q)
      PROVE  OnePendingRequest'
  <2>1. \A p \in Requests : request'[p] = "pending" => p = q \/ request[p] = "pending"
    BY <1>1 DEF Withdraw, TypeOK
  <2>2. \A p \in Requests : Requester[p] = Requester[q] => request[p] # "pending"
    BY <1>1 DEF Withdraw
  <2> QED BY <2>1, <2>2 DEF OnePendingRequest
<1>2. ASSUME NEW q \in Requests, PayOut(q) \/ Reject(q)
      PROVE  OnePendingRequest'
  <2>1. \A p \in Requests : request'[p] = "pending" => request[p] = "pending"
    BY <1>2 DEF PayOut, Reject, TypeOK
  <2> QED BY <2>1 DEF OnePendingRequest
<1>3. ASSUME UNCHANGED request
      PROVE  OnePendingRequest'
  BY <1>3 DEF OnePendingRequest
<1>4. ASSUME NEW o \in Orders, Purchase(o)
      PROVE  OnePendingRequest'
  BY <1>3, <1>4 DEF Purchase, Place, PayFromBalance, RefuseBalance, PayAtGateway, Settle, Refund
<1>5. ASSUME NEW o \in Orders, RewardStep(o)
      PROVE  OnePendingRequest'
  BY <1>3, <1>5 DEF RewardStep, NothingToReward, VoidReward, RewardAlone, ReadReferrer,
              RewardAfterRead, WriteReward, Abandon
<1>6. CASE UNCHANGED vars
  BY <1>3, <1>6 DEF vars
<1>7. ASSUME NEW q \in Requests, CashOut(q)
      PROVE  OnePendingRequest'
  BY <1>1, <1>2, <1>7 DEF CashOut
<1> QED BY <1>4, <1>5, <1>6, <1>7, NextSplit

-----------------------------------------------------------------------------

\* What was paid stays paid or is refunded, and stays that.
LEMMA WasPaidStays ==
  ASSUME TypeOK, [Next]_vars, NEW o \in Orders
  PROVE  /\ WasPaid(o) => WasPaid(o)'
         /\ order[o] = "refunded" => order'[o] = "refunded"
         /\ order'[o] = "refunded" => order[o] = "refunded" \/ o \in Refundable
<1>1. ASSUME NEW q \in Requests, CashOut(q)
      PROVE  UNCHANGED order
  BY <1>1 DEF CashOut, Withdraw, PayOut, Reject
<1>2. ASSUME NEW p \in Orders, RewardStep(p)
      PROVE  UNCHANGED order
  BY <1>2 DEF RewardStep, NothingToReward, VoidReward, RewardAlone, ReadReferrer,
              RewardAfterRead, WriteReward, Abandon
<1>3. ASSUME NEW p \in Orders, Purchase(p)
      PROVE  \/ order'[o] = order[o]
             \/ order[o] \in {"none", "pending"} /\ order'[o] # "refunded"
             \/ order[o] = "gateway" /\ order'[o] = "refunded" /\ o \in Refundable
  <2>1. CASE Place(p) \/ RefuseBalance(p)
    BY <2>1 DEF Place, RefuseBalance, TypeOK
  <2>2. ASSUME NEW by \in {"wallet", "gateway"}, Settle(p, by)
        PROVE  order'[o] = order[o] \/ (order[o] = "pending" /\ order'[o] # "refunded")
    <3>1. order[p] = "pending" /\ order' = [order EXCEPT ![p] = by] /\ by # "refunded"
      BY <2>2 DEF Settle
    <3>2. o # p => order'[o] = order[o]
      BY <3>1
    <3>3. o = p => order'[o] = by
      BY <3>1 DEF TypeOK
    <3> QED BY <3>1, <3>2, <3>3
  <2>3. CASE Refund(p)
    BY <2>3 DEF Refund, TypeOK
  <2> QED BY <1>3, <2>1, <2>2, <2>3 DEF Purchase, PayFromBalance, PayAtGateway
<1>4. CASE UNCHANGED vars
  BY <1>4 DEF vars, WasPaid, Paid
<1> QED BY <1>1, <1>2, <1>3, <1>4, NextSplit DEF WasPaid, Paid

\* What a reward leaves behind: its session idle, and its own order at most new
\* among those that brought a credit.
LEMMA WriteFrame ==
  ASSUME TypeOK, NEW o \in Orders, NEW seen, WriteReward(o, seen)
  PROVE  /\ session'[o].pc = "idle"
         /\ \A p \in Orders : p # o => session'[p] = session[p]
         /\ bonus' \subseteq bonus \union {o}
         /\ o \in bonus' \ bonus =>
                \A p \in Orders \ {o} : Buyer[p] = Buyer[o] => ~Paid(p)
<1>1. session'[o].pc = "idle" /\ \A p \in Orders : p # o => session'[p] = session[p]
  BY DEF WriteReward, EndSession, NoSession, TypeOK
<1>2. bonus' \subseteq bonus \union {o}
  BY DEF WriteReward, Bonus
<1>3. o \in bonus' \ bonus => \A p \in Orders \ {o} : Buyer[p] = Buyer[o] => ~Paid(p)
  BY DEF WriteReward, Bonus
<1> QED BY <1>1, <1>2, <1>3

\* How a step of o's reward moves sessions and credits.
LEMMA RewardFrame ==
  ASSUME TypeOK, NEW o \in Orders, RewardStep(o)
  PROVE  /\ session[o].pc # "idle"
         /\ session'[o].pc = "write" => o \in Overlapping
         /\ \A p \in Orders : p # o => session'[p] = session[p]
         /\ bonus' \subseteq bonus \union {o}
         /\ o \in bonus' \ bonus =>
                \A p \in Orders \ {o} : Buyer[p] = Buyer[o] => ~Paid(p)
<1>1. CASE NothingToReward(o) \/ VoidReward(o) \/ Abandon(o)
  <2>1. session[o].pc # "idle" /\ EndSession(o) /\ UNCHANGED bonus
    BY <1>1 DEF NothingToReward, VoidReward, Abandon
  <2>2. session'[o].pc = "idle" /\ \A p \in Orders : p # o => session'[p] = session[p]
    BY <2>1 DEF EndSession, NoSession, TypeOK
  <2> QED BY <2>1, <2>2
<1>2. CASE RewardAlone(o)
  BY <1>2, WriteFrame DEF RewardAlone
<1>3. CASE ReadReferrer(o)
  BY <1>3 DEF ReadReferrer, TypeOK
<1>4. CASE RewardAfterRead(o)
  BY <1>4, WriteFrame DEF RewardAfterRead
<1> QED BY <1>1, <1>2, <1>3, <1>4 DEF RewardStep

\* How a purchase moves them.
LEMMA PurchaseFrame ==
  ASSUME TypeOK, NEW o \in Orders, Purchase(o)
  PROVE  /\ UNCHANGED bonus
         /\ \A p \in Orders : session'[p] # session[p]
                                => p = o /\ session'[p].pc = "reward" /\ Paid(p)'
<1>1. CASE Place(o) \/ RefuseBalance(o) \/ Refund(o)
  BY <1>1 DEF Place, RefuseBalance, Refund
<1>2. ASSUME NEW by \in {"wallet", "gateway"}, Settle(o, by)
      PROVE  UNCHANGED bonus /\ \A p \in Orders : session'[p] # session[p]
                                => p = o /\ session'[p].pc = "reward" /\ Paid(p)'
  BY <1>2 DEF Settle, Paid, TypeOK
<1> QED BY <1>1, <1>2 DEF Purchase, PayFromBalance, PayAtGateway

LEMMA RewardsFollowStep ==
  ASSUME TypeOK, RewardsFollowPayment, [Next]_vars
  PROVE  RewardsFollowPayment'
<1> SUFFICES ASSUME NEW o \in Orders
             PROVE  /\ session'[o].pc # "idle" \/ o \in bonus' => WasPaid(o)'
                    /\ order'[o] = "refunded" => o \in Refundable
  BY DEF RewardsFollowPayment
<1>0. order'[o] = "refunded" => o \in Refundable
  BY WasPaidStays DEF RewardsFollowPayment
<1> SUFFICES ASSUME session'[o].pc # "idle" \/ o \in bonus' PROVE WasPaid(o)'
  BY <1>0
<1>1. session[o].pc # "idle" \/ o \in bonus => WasPaid(o)'
  BY WasPaidStays DEF RewardsFollowPayment
<1>2. ASSUME NEW q \in Requests, CashOut(q)
      PROVE  WasPaid(o)'
  BY <1>1, <1>2 DEF CashOut, Withdraw, PayOut, Reject
<1>3. ASSUME NEW p \in Orders, Purchase(p)
      PROVE  WasPaid(o)'
  BY <1>1, <1>3, PurchaseFrame DEF WasPaid
<1>4. ASSUME NEW p \in Orders, RewardStep(p)
      PROVE  WasPaid(o)'
  BY <1>1, <1>4, RewardFrame
<1>5. CASE UNCHANGED vars
  BY <1>1, <1>5 DEF vars
<1> QED BY <1>2, <1>3, <1>4, <1>5, NextSplit

LEMMA NoReadAheadStep ==
  ASSUME TypeOK, NoReadAhead, [Next]_vars
  PROVE  NoReadAhead'
<1> SUFFICES ASSUME NEW o \in Orders, o \notin Overlapping
             PROVE  session'[o].pc # "write"
  BY DEF NoReadAhead
<1>1. session[o].pc # "write"
  BY DEF NoReadAhead
<1>2. ASSUME NEW q \in Requests, CashOut(q)
      PROVE  session'[o].pc # "write"
  BY <1>1, <1>2 DEF CashOut, Withdraw, PayOut, Reject
<1>3. ASSUME NEW p \in Orders, Purchase(p)
      PROVE  session'[o].pc # "write"
  BY <1>1, <1>3, PurchaseFrame
<1>4. ASSUME NEW p \in Orders, RewardStep(p)
      PROVE  session'[o].pc # "write"
  BY <1>1, <1>4, RewardFrame
<1>5. CASE UNCHANGED vars
  BY <1>1, <1>5 DEF vars
<1> QED BY <1>2, <1>3, <1>4, <1>5, NextSplit

LEMMA PlacedFirstStep ==
  ASSUME TypeOK, PlacedFirst, [Next]_vars
  PROVE  PlacedFirst'
<1> SUFFICES ASSUME NEW o \in Orders, event'[o] # "none" \/ session'[o].pc # "idle"
             PROVE  order'[o] # "none"
  BY DEF PlacedFirst
<1>1. event[o] # "none" \/ session[o].pc # "idle" => order[o] # "none"
  BY DEF PlacedFirst
<1>2. ASSUME NEW q \in Requests, CashOut(q)
      PROVE  order'[o] # "none"
  BY <1>1, <1>2 DEF CashOut, Withdraw, PayOut, Reject
<1>3. ASSUME NEW p \in Orders, Purchase(p)
      PROVE  order'[o] # "none"
  <2>1. CASE Place(p) \/ RefuseBalance(p) \/ Refund(p)
    BY <1>1, <2>1 DEF Place, RefuseBalance, Refund, TypeOK
  <2>2. ASSUME NEW by \in {"wallet", "gateway"}, Settle(p, by)
        PROVE  order'[o] # "none"
    BY <1>1, <2>2 DEF Settle, TypeOK
  <2> QED BY <1>3, <2>1, <2>2 DEF Purchase, PayFromBalance, PayAtGateway
<1>4. ASSUME NEW p \in Orders, RewardStep(p)
      PROVE  order'[o] # "none"
  <2>1. session[p].pc # "idle" /\ UNCHANGED order
    BY <1>4, RewardFrame DEF RewardStep, NothingToReward, VoidReward, RewardAlone, ReadReferrer,
                             RewardAfterRead, WriteReward, Abandon
  <2>2. o # p => event'[o] = event[o] /\ session'[o] = session[o]
    <3>1. o # p => session'[o] = session[o]
      BY <1>4, RewardFrame
    <3>2. o # p => event'[o] = event[o]
      BY <1>4 DEF RewardStep, NothingToReward, VoidReward, RewardAlone, ReadReferrer,
                  RewardAfterRead, WriteReward, Abandon, TypeOK
    <3> QED BY <3>1, <3>2
  <2> QED BY <1>1, <2>1, <2>2
<1>5. CASE UNCHANGED vars
  BY <1>1, <1>5 DEF vars
<1> QED BY <1>2, <1>3, <1>4, <1>5, NextSplit

\* A new credit finds no other paid order of its buyer: those that brought one before it
\* were refunded.
LEMMA BonusOnceStep ==
  ASSUME TypeOK, RewardsFollowPayment, BonusOnceUnlessRefunded, [Next]_vars
  PROVE  BonusOnceUnlessRefunded'
<1>1. \A o \in bonus : o \in Orders /\ WasPaid(o)
  BY DEF RewardsFollowPayment, TypeOK
<1>2. \A o \in Orders : order[o] = "refunded" => order'[o] = "refunded"
  BY WasPaidStays
<1>3. ASSUME bonus' \subseteq bonus
      PROVE  BonusOnceUnlessRefunded'
  BY <1>1, <1>2, <1>3 DEF BonusOnceUnlessRefunded
<1>4. ASSUME NEW q \in Requests, CashOut(q)
      PROVE  UNCHANGED bonus
  BY <1>4 DEF CashOut, Withdraw, PayOut, Reject
<1>5. ASSUME NEW o \in Orders, Purchase(o)
      PROVE  UNCHANGED bonus
  BY <1>5, PurchaseFrame
<1>6. ASSUME NEW o \in Orders, RewardStep(o)
      PROVE  BonusOnceUnlessRefunded'
  <2>1. CASE o \in bonus' \ bonus
    <3>1. \A p \in bonus : Buyer[p] = Buyer[o] => order'[p] = "refunded"
      BY <1>1, <1>2, <1>6, <2>1, RewardFrame DEF WasPaid
    <3>2. bonus' \subseteq bonus \union {o}
      BY <1>6, RewardFrame
    <3> QED BY <1>1, <1>2, <3>1, <3>2 DEF BonusOnceUnlessRefunded
  <2>2. CASE o \notin bonus' \ bonus
    <3>1. bonus' \subseteq bonus
      BY <1>6, <2>2, RewardFrame
    <3> QED BY <1>3, <3>1
  <2> QED BY <2>1, <2>2
<1>7. CASE UNCHANGED vars
  BY <1>3, <1>7 DEF vars
<1> QED BY <1>3, <1>4, <1>5, <1>6, <1>7, NextSplit

-----------------------------------------------------------------------------

LEMMA TypeStep == ASSUME TypeOK, [Next]_vars PROVE TypeOK'
<1>1. CASE UNCHANGED vars
  BY <1>1 DEF vars, TypeOK
<1> QED BY <1>1, NextSplit, CashOutType, PurchaseType, RewardType

\* The inductive invariant of the wallet.
THEOREM InvCorrect == Spec => []IInv
<1>1. Init => IInv
  <2> SUFFICES ASSUME Init PROVE IInv
    OBVIOUS
  <2>1. OnePendingRequest
    BY DEF Init, OnePendingRequest
  <2>2. RewardsFollowPayment /\ NoReadAhead /\ PlacedFirst
    BY DEF Init, RewardsFollowPayment, NoReadAhead, PlacedFirst, NoSession
  <2>3. BonusOnceUnlessRefunded
    BY DEF Init, BonusOnceUnlessRefunded
  <2> QED BY <2>1, <2>2, <2>3, TypeInit DEF IInv
<1>2. IInv /\ [Next]_vars => IInv'
  BY TypeStep, OnePendingStep, RewardsFollowStep, NoReadAheadStep, PlacedFirstStep, BonusOnceStep DEF IInv
<1> QED BY <1>1, <1>2, PTL DEF Spec

\* Every balance, status and session stays within its type; in particular no
\* balance is negative.
THEOREM TypeCorrect == Spec => []TypeOK
<1>1. IInv => TypeOK
  BY DEF IInv
<1> QED BY <1>1, InvCorrect, PTL

\* withdraw_request and resolve_withdrawal, however they interleave, leave a
\* user at most one pending cash-out.
THEOREM OnePendingCorrect == Spec => []OnePendingRequest
<1>1. IInv => OnePendingRequest
  BY DEF IInv
<1> QED BY <1>1, InvCorrect, PTL

\* However the rewards of a buyer's orders and the refunds overlap, only the refund of an
\* order that brought the buyer the credit lets another one bring it again.
THEOREM OnlyRefundsRepeatBonus == Spec => []BonusOnceUnlessRefunded
<1>1. IInv => BonusOnceUnlessRefunded
  BY DEF IInv
<1> QED BY <1>1, InvCorrect, PTL

\* Where a buyer of an order that may be refunded has no other, the rewards of a buyer's
\* orders grant one credit between them, however they overlap.
THEOREM BonusCorrect == ASSUME RefundsStandAlone PROVE Spec => []BonusOnce
<1>1. IInv => BonusOnce
  <2> SUFFICES ASSUME IInv, NEW o \in bonus, NEW p \in bonus, Buyer[o] = Buyer[p] PROVE o = p
    BY DEF BonusOnce
  <2>1. o \in Orders /\ p \in Orders
    BY DEF IInv, TypeOK
  <2>2. o = p \/ o \in Refundable \/ p \in Refundable
    BY <2>1 DEF IInv, BonusOnceUnlessRefunded, RewardsFollowPayment
  <2> QED BY <2>1, <2>2 DEF RefundsStandAlone
<1> QED BY <1>1, InvCorrect, PTL

-----------------------------------------------------------------------------
(* The refinement.                                                         *)

\* The balance takes movement m, and can cover it.
Moves(m) ==
    /\ balance[MovementUser[m]] + MovementDelta[m] >= 0
    /\ balance' = [balance EXCEPT ![MovementUser[m]] = @ + MovementDelta[m]]

LEMMA MovementsTyped ==
  /\ \A q \in Requests : <<q, "out">> \in Movements /\ <<q, "back">> \in Movements
  /\ \A o \in Orders : <<o, "price">> \in Movements /\ <<o, "reward">> \in Movements
  /\ \A m \in Movements :
        /\ m = <<m[1], m[2]>>
        /\ \/ m[1] \in Requests /\ m[2] \in {"out", "back"}
           \/ m[1] \in Orders /\ m[2] \in {"price", "reward"}
  BY DEF Movements

LEMMA MovementColumns ==
  /\ \A q \in Requests :
        /\ MovementUser[<<q, "out">>] = Requester[q] /\ MovementDelta[<<q, "out">>] = -Amount[q]
        /\ MovementUser[<<q, "back">>] = Requester[q] /\ MovementDelta[<<q, "back">>] = Amount[q]
  /\ \A o \in Orders :
        /\ MovementUser[<<o, "price">>] = Buyer[o] /\ MovementDelta[<<o, "price">>] = -Price[o]
        /\ MovementUser[<<o, "reward">>] = Referrer[o]
        /\ MovementDelta[<<o, "reward">>] = Reward[o]
<1>1. ASSUME NEW q \in Requests
      PROVE  /\ MovementUser[<<q, "out">>] = Requester[q]
             /\ MovementUser[<<q, "back">>] = Requester[q]
             /\ MovementDelta[<<q, "out">>] = -Amount[q]
             /\ MovementDelta[<<q, "back">>] = Amount[q]
  BY MovementsTyped DEF MovementUser, MovementDelta
<1>2. ASSUME NEW o \in Orders
      PROVE  /\ MovementUser[<<o, "price">>] = Buyer[o]
             /\ MovementUser[<<o, "reward">>] = Referrer[o]
             /\ MovementDelta[<<o, "price">>] = -Price[o]
             /\ MovementDelta[<<o, "reward">>] = Reward[o]
  BY MovementsTyped DEF MovementUser, MovementDelta
<1> QED BY <1>1, <1>2

\* What the account of the calm users sees of a step.
AccountStep == Account!Next \/ UNCHANGED <<CalmBalance, CalmMoved>>

\* A step that moves the balance by m and has m alone newly moved is a posting,
\* or it is the business of a user who is not calm.
LEMMA PostingOf ==
  ASSUME NEW m \in Movements, ~HasMoved(m), HasMoved(m)',
         \A n \in Movements : n # m => (HasMoved(n)' <=> HasMoved(n)),
         TypeOK, Moves(m)
  PROVE  AccountStep
<1>1. CASE m \in CalmMovements
  <2> DEFINE u == MovementUser[m]
  <2>1. u \in Calm /\ u \in Users
    BY <1>1 DEF CalmMovements, Calm
  <2>2. m \notin CalmMoved /\ CalmMoved' = CalmMoved \union {m}
    BY <1>1 DEF CalmMoved, CalmMovements
  <2>3. CalmBalance[u] = balance[u]
    BY <2>1 DEF CalmBalance
  <2>4. CalmBalance' = [CalmBalance EXCEPT ![u] = @ + MovementDelta[m]]
    BY <2>1, <2>3 DEF CalmBalance, Calm, Moves, TypeOK
  <2>5. Account!Post(m)
    BY <2>2, <2>3, <2>4 DEF Moves, Account!Post
  <2> QED BY <1>1, <2>5 DEF Account!Next, AccountStep
<1>2. CASE m \notin CalmMovements
  <2>1. MovementUser[m] \notin Calm
    BY <1>2 DEF CalmMovements
  <2>2. UNCHANGED CalmBalance
    BY <2>1 DEF CalmBalance, Calm, Moves, TypeOK
  <2>3. UNCHANGED CalmMoved
    BY <1>2 DEF CalmMoved, CalmMovements
  <2> QED BY <2>2, <2>3 DEF AccountStep
<1> QED BY <1>1, <1>2

LEMMA DebitMoves ==
  ASSUME TypeOK, NEW m \in Movements, NEW u \in Users, NEW n \in Nat,
         MovementUser[m] = u, MovementDelta[m] = -n, Debit(u, n)
  PROVE  Moves(m)
<1>1. balance[u] \in Nat /\ balance[u] - n = balance[u] + (-n) /\ balance[u] + (-n) >= 0
  BY DEF TypeOK, Debit
<1>2. balance' = [balance EXCEPT ![u] = balance[u] + (-n)]
  BY <1>1 DEF Debit
<1> QED BY <1>1, <1>2 DEF Moves

LEMMA CreditMoves ==
  ASSUME TypeOK, NEW m \in Movements, NEW u \in Users, NEW n \in Nat,
         MovementUser[m] = u, MovementDelta[m] = n,
         balance' = [balance EXCEPT ![u] = balance[u] + n]
  PROVE  Moves(m)
<1>1. balance[u] \in Nat /\ balance[u] + n >= 0
  BY DEF TypeOK
<1> QED BY <1>1 DEF Moves

\* A step that leaves the balance alone and has nothing newly moved.
LEMMA NothingMoved ==
  ASSUME UNCHANGED balance, \A n \in Movements : HasMoved(n)' <=> HasMoved(n)
  PROVE  AccountStep
  BY DEF AccountStep, CalmBalance, CalmMoved, CalmMovements

LEMMA CashOutPosts ==
  ASSUME TypeOK, NEW q \in Requests, CashOut(q)
  PROVE  AccountStep
<1> USE MovementsTyped, MovementColumns, Amounts
<1>1. CASE Withdraw(q)
  <2> DEFINE m == <<q, "out">>
  <2>1. ~HasMoved(m) /\ HasMoved(m)'
    BY <1>1 DEF Withdraw, HasMoved, TypeOK
  <2>2. \A n \in Movements : n # m => (HasMoved(n)' <=> HasMoved(n))
    BY <1>1 DEF Withdraw, HasMoved, TypeOK
  <2>3. Moves(m)
    BY <1>1, DebitMoves DEF Withdraw
  <2> QED BY <2>1, <2>2, <2>3, PostingOf
<1>2. CASE PayOut(q)
  <2>1. \A n \in Movements : HasMoved(n)' <=> HasMoved(n)
    BY <1>2 DEF PayOut, HasMoved, TypeOK
  <2> QED BY <1>2, <2>1, NothingMoved DEF PayOut
<1>3. CASE Reject(q)
  <2> DEFINE m == <<q, "back">>
  <2>1. ~HasMoved(m) /\ HasMoved(m)'
    BY <1>3 DEF Reject, HasMoved, TypeOK
  <2>2. \A n \in Movements : n # m => (HasMoved(n)' <=> HasMoved(n))
    BY <1>3 DEF Reject, HasMoved, TypeOK
  <2>3. Moves(m)
    BY <1>3, CreditMoves DEF Reject, Credit
  <2> QED BY <2>1, <2>2, <2>3, PostingOf
<1> QED BY <1>1, <1>2, <1>3 DEF CashOut

LEMMA PurchasePosts ==
  ASSUME TypeOK, PlacedFirst, NEW o \in Orders, Purchase(o)
  PROVE  AccountStep
<1> USE MovementsTyped, MovementColumns, Amounts
<1>1. CASE PayFromBalance(o)
  <2> DEFINE m == <<o, "price">>
  <2>1. ~HasMoved(m) /\ HasMoved(m)'
    BY <1>1 DEF PayFromBalance, Settle, HasMoved, TypeOK
  <2>2. \A n \in Movements : n # m => (HasMoved(n)' <=> HasMoved(n))
    BY <1>1 DEF PayFromBalance, Settle, HasMoved, TypeOK
  <2>3. Moves(m)
    BY <1>1, DebitMoves DEF PayFromBalance
  <2> QED BY <2>1, <2>2, <2>3, PostingOf
<1>2. CASE Place(o)
  <2>1. event[o] = "none"
    BY <1>2 DEF Place, PlacedFirst
  <2>2. \A n \in Movements : HasMoved(n)' <=> HasMoved(n)
    BY <1>2, <2>1 DEF Place, HasMoved, TypeOK
  <2> QED BY <1>2, <2>2, NothingMoved DEF Place
<1>3. CASE RefuseBalance(o) \/ PayAtGateway(o) \/ Refund(o)
  <2>1. \A n \in Movements : HasMoved(n)' <=> HasMoved(n)
    BY <1>3 DEF RefuseBalance, PayAtGateway, Settle, Refund, HasMoved, TypeOK
  <2> QED BY <1>3, <2>1, NothingMoved DEF RefuseBalance, PayAtGateway, Refund
<1> QED BY <1>1, <1>2, <1>3 DEF Purchase

\* The stale write of a reward that others committed inside concerns a user who
\* is not calm.
LEMMA StaleRewardPosts ==
  ASSUME TypeOK, NoReadAhead, NEW o \in Orders, RewardAfterRead(o)
  PROVE  AccountStep
<1> USE MovementsTyped, MovementColumns, Amounts
<1>1. Referrer[o] \notin Calm
  BY DEF RewardAfterRead, NoReadAhead, Calm
<1>2. UNCHANGED CalmBalance
  BY <1>1 DEF CalmBalance, Calm, RewardAfterRead, WriteReward, TypeOK
<1>3. <<o, "reward">> \notin CalmMovements
  BY <1>1 DEF CalmMovements
<1>4. \A n \in Movements : n # <<o, "reward">> => (HasMoved(n)' <=> HasMoved(n))
  BY DEF RewardAfterRead, WriteReward, HasMoved, TypeOK
<1>5. UNCHANGED CalmMoved
  BY <1>3, <1>4 DEF CalmMoved, CalmMovements
<1> QED BY <1>2, <1>5 DEF AccountStep

LEMMA RewardPosts ==
  ASSUME TypeOK, NoReadAhead, NEW o \in Orders, RewardStep(o)
  PROVE  AccountStep
<1> USE MovementsTyped, MovementColumns, Amounts
<1>1. CASE RewardAlone(o)
  <2> DEFINE m == <<o, "reward">>
  <2>1. ~HasMoved(m) /\ HasMoved(m)'
    BY <1>1 DEF RewardAlone, WriteReward, HasMoved, TypeOK
  <2>2. \A n \in Movements : n # m => (HasMoved(n)' <=> HasMoved(n))
    BY <1>1 DEF RewardAlone, WriteReward, HasMoved, TypeOK
  <2>3. Moves(m)
    BY <1>1, CreditMoves DEF RewardAlone, WriteReward
  <2> QED BY <2>1, <2>2, <2>3, PostingOf
<1>2. CASE NothingToReward(o) \/ VoidReward(o) \/ ReadReferrer(o) \/ Abandon(o)
  <2>1. \A n \in Movements : HasMoved(n)' <=> HasMoved(n)
    BY <1>2 DEF NothingToReward, VoidReward, ReadReferrer, Abandon, HasMoved, TypeOK
  <2> QED BY <1>2, <2>1, NothingMoved
        DEF NothingToReward, VoidReward, ReadReferrer, Abandon
<1> QED BY <1>1, <1>2, StaleRewardPosts DEF RewardStep

\* For the users whose rewards nobody commits inside, every step of the wallet is
\* one movement of the abstract account or leaves it alone.
THEOREM WalletIsAnAccount == Spec => ImplementsAccount
<1>1. Init => Account!Init
  BY MovementsTyped DEF Init, Account!Init, CalmBalance, CalmMoved, CalmMovements, Calm, HasMoved
<1>2. IInv /\ [Next]_vars => [Account!Next]_(Account!vars)
  <2> SUFFICES ASSUME IInv, [Next]_vars PROVE AccountStep
    BY DEF Account!vars, AccountStep
  <2>1. CASE UNCHANGED vars
    <3>1. \A n \in Movements : HasMoved(n)' <=> HasMoved(n)
      BY <2>1 DEF vars, HasMoved
    <3> QED BY <2>1, <3>1, NothingMoved DEF vars
  <2>2. TypeOK /\ NoReadAhead /\ PlacedFirst
    BY DEF IInv
  <2> QED BY <2>1, <2>2, NextSplit, CashOutPosts, PurchasePosts, RewardPosts
<1> QED BY <1>1, <1>2, InvCorrect, PTL DEF Spec, ImplementsAccount, Account!Spec

-----------------------------------------------------------------------------
(* Two users who referred each other.                                      *)

\* Every buyer used the codes of one referrer: the ancestry has no forks.
OneReferrer ==
    \A f, g \in Referred : Buyer[f] = Buyer[g] /\ Buyer[f] # NoUser => Referrer[f] = Referrer[g]

Mutual(o, p) == Buyer[o] = Referrer[p] /\ Buyer[p] = Referrer[o]

\* The walk from order o's referrer, if that is o's buyer or was referred by them, ends
\* where it began.
LEMMA WalksReturn ==
    ASSUME MaxHops >= 1, NEW o \in Orders, Buyer[o] # NoUser,
           Referrer[o] = Buyer[o] \/ Parents(Referrer[o]) = {Buyer[o]}
    PROVE  \A w \in Walks(o) : w.at \in w.met
<1> DEFINE a == Referrer[o]
           b == Buyer[o]
           more(w) == IF w.at = NoUser \/ w.at \in w.met THEN {w}
                      ELSE {[met |-> w.met \union {w.at}, at |-> p] : p \in Parents(w.at)}
           w0 == [met |-> {b}, at |-> a]
           w1 == IF a = b THEN w0 ELSE [met |-> {b} \union {a}, at |-> b]
           Is(f) == f = [n \in 0 .. MaxHops |->
                            IF n = 0 THEN {[met |-> {b}, at |-> a]}
                            ELSE UNION {more(w) : w \in f[n - 1]}]
           g == [n \in 0 .. MaxHops |-> IF n = 0 THEN {w0} ELSE {w1}]
           W == CHOOSE f : Is(f)
<1>1. Walks(o) = W[MaxHops]
  BY DEF Walks
<1>2. a \in Users /\ a # NoUser /\ MaxHops \in Nat
  BY WalletAssumption
<1>3. more(w0) = {w1}
  <2>1. CASE a = b
    BY <2>1
  <2>2. CASE a # b
    <3>1. Parents(a) = {b} /\ w0.at = a /\ w0.met = {b}
      BY <2>2
    <3> QED BY <1>2, <2>2, <3>1
  <2> QED BY <2>1, <2>2
<1>4. more(w1) = {w1} /\ w1.at \in w1.met
  BY <1>2
<1> HIDE DEF more, w0, w1
<1>5. Is(g)
  <2> SUFFICES ASSUME NEW n \in 0 .. MaxHops, n # 0 PROVE {w1} = UNION {more(w) : w \in g[n - 1]}
    BY DEF w0
  <2>1. g[n - 1] = {w0} \/ g[n - 1] = {w1}
    BY <1>2
  <2> HIDE DEF g
  <2> QED BY <1>3, <1>4, <2>1
<1>6. Is(W)
  <2> HIDE DEF Is, g
  <2> QED BY <1>5
<1> HIDE DEF W, g
<1>60. W[0] = {w0} /\ \A n \in 0 .. MaxHops : n # 0 => W[n] = UNION {more(w) : w \in W[n - 1]}
  BY <1>2, <1>6 DEF w0
<1> HIDE DEF Is
<1>7. ASSUME NEW n \in 0 .. MaxHops, n >= 1, W[n] # {w1} PROVE FALSE
  <2> DEFINE Bad == {m \in Nat : m >= 1 /\ m <= MaxHops /\ W[m] # {w1}}
  <2>1. n \in Bad
    BY <1>2, <1>7
  <2>2. \A m \in Bad : m \in Nat /\ m >= 1 /\ m <= MaxHops /\ W[m] # {w1}
    OBVIOUS
  <2>3. \A m \in Nat : m >= 1 /\ m <= MaxHops /\ m \notin Bad => W[m] = {w1}
    OBVIOUS
  <2> HIDE DEF Bad
  <2>4. PICK m \in Bad : \A k \in Bad : m <= k
    <3>1. Bad \in SUBSET Nat
      BY <2>2
    <3> QED BY <2>1, <3>1, LeastNatural
  <2>5. m \in 0 .. MaxHops /\ m # 0
    BY <1>2, <2>2
  <2>6. W[m - 1] = {w0} \/ W[m - 1] = {w1}
    <3>1. CASE m = 1
      BY <1>60, <3>1
    <3>2. CASE m # 1
      <4>1. m - 1 \in Nat /\ m - 1 >= 1 /\ m - 1 <= MaxHops /\ ~ (m <= m - 1)
        BY <1>2, <2>2, <3>2
      <4> QED BY <2>3, <2>4, <4>1
    <3> QED BY <3>1, <3>2
  <2>7. W[m] = UNION {more(w) : w \in W[m - 1]}
    BY <1>60, <2>5
  <2>8. UNION {more(w) : w \in {w0}} = {w1} /\ UNION {more(w) : w \in {w1}} = {w1}
    BY <1>3, <1>4
  <2>9. W[m] = {w1}
    BY <2>6, <2>7, <2>8
  <2> QED BY <2>2, <2>9
<1>8. W[MaxHops] = {w1}
  BY <1>2, <1>7
<1> QED BY <1>1, <1>4, <1>8

\* What a reward in progress has passed.
Passed(o) == event[o] = "rewarded" \/ session[o].pc = "write"

\* The event of an order whose reward was let through is one that counts, and it is never
\* let through again against the other order of two that are mutual.
NotBothPassed ==
    /\ \A o \in Orders : session[o].pc = "write" => event[o] = "pending" /\ o \in Referred
    /\ \A o \in Orders : event[o] # "none" => o \in Referred
    /\ \A o, p \in Referred : Mutual(o, p) => ~ (Passed(o) /\ Passed(p))

\* Who referred u is known by one order whose event counts.
LEMMA ParentsKnown ==
    ASSUME OneReferrer, NEW p \in Referred, event[p] \in {"pending", "rewarded"},
           Buyer[p] # NoUser
    PROVE  Parents(Buyer[p]) = {Referrer[p]}
<1> DEFINE found == {Referrer[f] : f \in {g \in Referred : Buyer[g] = Buyer[p]
                                                     /\ event[g] \in {"pending", "rewarded"}}}
<1>1. found = {Referrer[p]}
  BY DEF OneReferrer
<1> QED BY <1>1 DEF Parents

\* The check refuses an order whose counterpart, or itself, counts.
LEMMA MutualIsVoid ==
    ASSUME OneReferrer, MaxHops >= 1, NEW o \in Referred, NEW p \in Referred, Mutual(o, p),
           o = p \/ event[p] \in {"pending", "rewarded"}
    PROVE  ~ Void(o, FALSE)
<1>1. o \in Orders /\ p \in Orders
  BY WalletAssumption
<1>2. Buyer[o] # NoUser /\ Buyer[p] # NoUser
  BY <1>1, WalletAssumption DEF Mutual
<1>3. Referrer[o] = Buyer[o] \/ Parents(Referrer[o]) = {Buyer[o]}
  <2>1. CASE o = p
    BY <2>1 DEF Mutual
  <2>2. CASE o # p
    BY <1>2, <2>2, ParentsKnown DEF Mutual
  <2> QED BY <2>1, <2>2
<1>4. \A w \in Walks(o) : w.at \in w.met
  BY <1>1, <1>2, <1>3, WalksReturn
<1>5. CASE ChartOwner[o] = Referrer[o]
  BY <1>5 DEF Void
<1>6. CASE ChartOwner[o] # Referrer[o]
  BY <1>2, <1>4, <1>6 DEF Void
<1> QED BY <1>5, <1>6

LEMMA NotBothPassedStep ==
    ASSUME OneReferrer, MaxHops >= 1, TypeOK, PlacedFirst, NotBothPassed, [Next]_vars
    PROVE  NotBothPassed'
<1>0. Referred \subseteq Orders
  BY WalletAssumption
\* A step that lets nothing through.
<1>1. ASSUME \A o \in Orders : session'[o].pc = "write" => session[o].pc = "write" /\ event'[o] = event[o],
             \A o \in Orders : event'[o] = event[o] \/ (o \in Referred /\ event'[o] \in {"pending", "voided"})
      PROVE  NotBothPassed'
  <2>1. \A o \in Orders : Passed(o)' => Passed(o)
    BY <1>1 DEF Passed
  <2>2. \A o \in Orders : session'[o].pc = "write" => event'[o] = "pending" /\ o \in Referred
    <3>1. \A o \in Orders : session[o].pc = "write" => event[o] = "pending" /\ o \in Referred
      BY DEF NotBothPassed
    <3> QED BY <1>1, <3>1
  <2>3. \A o \in Orders : event'[o] # "none" => o \in Referred
    BY <1>1 DEF NotBothPassed
  <2>4. \A o, p \in Referred : Mutual(o, p) => ~ (Passed(o)' /\ Passed(p)')
    BY <1>0, <2>1 DEF NotBothPassed
  <2> QED BY <2>2, <2>3, <2>4 DEF NotBothPassed, Mutual
\* A step that lets order o through.
<1>2. ASSUME NEW o \in Orders, event[o] = "pending", Void(o, FALSE) \/ session[o].pc = "write",
             \A p \in Orders \ {o} : session'[p] = session[p] /\ event'[p] = event[p],
             \/ session'[o].pc = "write" /\ event'[o] = "pending"
             \/ session'[o].pc = "idle" /\ event'[o] = "rewarded"
      PROVE  NotBothPassed'
  <2>1. o \in Referred
    BY <1>2 DEF NotBothPassed
  <2>2. ASSUME NEW p \in Referred, Mutual(o, p) \/ Mutual(p, o) PROVE p # o /\ ~ Passed(p)
    <3>1. Mutual(o, p) /\ Mutual(p, o)
      BY <2>2 DEF Mutual
    <3>2. CASE session[o].pc = "write"
      BY <2>1, <2>2, <3>1, <3>2 DEF NotBothPassed, Passed
    <3>3. CASE Void(o, FALSE)
      <4>1. p # o /\ event[p] \notin {"pending", "rewarded"}
        BY <2>1, <3>1, <3>3, MutualIsVoid
      <4> QED BY <1>0, <4>1 DEF NotBothPassed, Passed
    <3> QED BY <1>2, <3>2, <3>3
  <2>3. \A p \in Orders \ {o} : (Passed(p)' <=> Passed(p))
    BY <1>2 DEF Passed
  <2>4. \A p, q \in Referred : Mutual(p, q) => ~ (Passed(p)' /\ Passed(q)')
    BY <1>0, <2>1, <2>2, <2>3 DEF NotBothPassed
  <2> QED BY <1>0, <1>2, <2>1, <2>4 DEF NotBothPassed, Mutual
<1>3. ASSUME NEW q \in Requests, CashOut(q) PROVE NotBothPassed'
  BY <1>1, <1>3 DEF CashOut, Withdraw, PayOut, Reject
<1>4. ASSUME NEW o \in Orders, Purchase(o) PROVE NotBothPassed'
  <2>1. CASE Place(o)
    <3>1. order[o] = "none" /\ session[o].pc = "idle"
      BY <2>1 DEF Place, PlacedFirst
    <3>2. session' = session /\ event' = [event EXCEPT ![o] = IF o \in Referred THEN "pending" ELSE "none"]
      BY <2>1 DEF Place
    <3>3. event[o] = "none"
      BY <3>1 DEF PlacedFirst
    <3>4. \A p \in Orders : event'[p] = event[p] \/ (p \in Referred /\ event'[p] = "pending")
      BY <3>2, <3>3 DEF TypeOK
    <3>5. \A p \in Orders : session'[p].pc = "write" => session[p].pc = "write" /\ event'[p] = event[p]
      BY <3>1, <3>2 DEF TypeOK
    <3> QED BY <1>1, <3>4, <3>5
  <2>2. CASE PayFromBalance(o) \/ PayAtGateway(o)
    <3>1. event' = event /\ session' = [session EXCEPT ![o] = [pc |-> "reward", seen |-> 0]]
      BY <2>2 DEF PayFromBalance, PayAtGateway, Settle
    <3>2. \A p \in Orders : session'[p].pc = "write" => session[p].pc = "write"
      BY <3>1 DEF TypeOK
    <3> QED BY <1>1, <3>1, <3>2
  <2>3. CASE RefuseBalance(o) \/ Refund(o)
    BY <1>1, <2>3 DEF RefuseBalance, Refund
  <2> QED BY <1>4, <2>1, <2>2, <2>3 DEF Purchase
<1>5. ASSUME NEW o \in Orders, RewardStep(o) PROVE NotBothPassed'
  <2>1. ASSUME EndSession(o)
        PROVE  /\ session'[o].pc = "idle" /\ \A p \in Orders \ {o} : session'[p] = session[p]
               /\ \A p \in Orders : session'[p].pc = "write" => session[p].pc = "write" /\ p # o
    BY <2>1 DEF EndSession, NoSession, TypeOK
  <2>2. CASE NothingToReward(o) \/ Abandon(o)
    BY <1>1, <2>1, <2>2 DEF NothingToReward, Abandon
  <2>3. CASE VoidReward(o)
    <3>1. \A p \in Orders : event'[p] = IF p = o THEN "voided" ELSE event[p]
      BY <2>3 DEF VoidReward, TypeOK
    <3>2. EndSession(o) /\ o \in Referred
      BY <2>3 DEF VoidReward, NotBothPassed
    <3> QED BY <1>1, <2>1, <3>1, <3>2
  <2>4. CASE RewardAlone(o) \/ RewardAfterRead(o)
    <3>1. EndSession(o) /\ event' = [event EXCEPT ![o] = "rewarded"]
      BY <2>4 DEF RewardAlone, RewardAfterRead, WriteReward
    <3>2. event'[o] = "rewarded" /\ \A p \in Orders \ {o} : event'[p] = event[p]
      BY <3>1 DEF TypeOK
    <3>3. event[o] = "pending" /\ (Void(o, FALSE) \/ session[o].pc = "write")
      BY <2>4 DEF RewardAlone, RewardAfterRead, NotBothPassed
    <3> QED BY <1>2, <2>1, <3>1, <3>2, <3>3
  <2>5. CASE ReadReferrer(o)
    <3>1. /\ event' = event /\ event[o] = "pending" /\ Void(o, FALSE)
          /\ session' = [session EXCEPT ![o] = [pc |-> "write", seen |-> balance[Referrer[o]]]]
      BY <2>5 DEF ReadReferrer
    <3>2. session'[o].pc = "write" /\ \A p \in Orders \ {o} : session'[p] = session[p]
      BY <3>1 DEF TypeOK
    <3> QED BY <1>2, <3>1, <3>2
  <2> QED BY <1>5, <2>2, <2>3, <2>4, <2>5 DEF RewardStep
<1>6. CASE UNCHANGED vars
  BY <1>1, <1>6 DEF vars
<1> QED BY <1>3, <1>4, <1>5, <1>6 DEF Next

\* reward_referral, "Referral cycles (A->B->A) are voided": where no buyer used the codes
\* of two referrers, of any two users who referred each other one brings a reward at most,
\* however their orders and rewards overlap.
THEOREM NoMutualRewards ==
    ASSUME OneReferrer, MaxHops >= 1 PROVE Spec => []NoMutualReward
<1>1. Init => NotBothPassed
  BY WalletAssumption DEF Init, NotBothPassed, Passed, NoSession
<1>2. NotBothPassed => NoMutualReward
  BY DEF NotBothPassed, NoMutualReward, Passed, Mutual
<1>3. IInv /\ NotBothPassed /\ [Next]_vars => NotBothPassed'
  BY NotBothPassedStep DEF IInv
<1> QED
  BY InvCorrect, <1>1, <1>2, <1>3, PTL DEF Spec

\* Under the hypotheses of both: a buyer brings one bonus credit, and of two users who
\* referred each other one brings a reward.
THEOREM BonusIsFair ==
    ASSUME RefundsStandAlone, OneReferrer, MaxHops >= 1 PROVE Spec => []BonusFair
<1>1. Spec => []BonusOnce
  BY BonusCorrect
<1>2. Spec => []NoMutualReward
  BY NoMutualRewards
<1>3. BonusOnce /\ NoMutualReward => BonusFair
  BY DEF BonusFair
<1> QED BY <1>1, <1>2, <1>3, PTL

-----------------------------------------------------------------------------
(* Settings.                                                               *)

\* What a process keeps, and what one of its threads has read and is about to keep, is
\* the stored value, unless the process is behind.
SettingsInv ==
    /\ SettingsTypeOK
    /\ SavedIsUsed
    /\ \A t \in Threads :
          thread[t].at = "read" /\ thread[t].value # Effective => HostOf(t) \in behind

LEMMA SettingsTypeStep == SettingsTypeOK /\ [SettingsNext]_settingVars => SettingsTypeOK'
<1> SUFFICES ASSUME SettingsTypeOK, [SettingsNext]_settingVars PROVE SettingsTypeOK'
  OBVIOUS
<1> USE SettingsAssumption DEF SettingsTypeOK, Resting, NoValue
<1>1. ASSUME NEW t \in Threads, NEW fails \in BOOLEAN, ReadSetting(t, fails)
      PROVE SettingsTypeOK'
  BY <1>1 DEF ReadSetting, Effective
<1>2. ASSUME NEW t \in Threads, FillCache(t) PROVE SettingsTypeOK'
  BY <1>2 DEF FillCache
<1>3. ASSUME NEW t \in Threads, NEW value \in Values \union {NoValue}, SaveSetting(t, value)
      PROVE SettingsTypeOK'
  BY <1>3 DEF SaveSetting
<1>4. ASSUME NEW t \in Threads, Invalidate(t) PROVE SettingsTypeOK'
  BY <1>4 DEF Invalidate, Emptied
<1>5. ASSUME NEW h \in Hosts, RestartHost(h) PROVE SettingsTypeOK'
  BY <1>5 DEF RestartHost
<1>6. CASE UNCHANGED settingVars
  BY <1>6 DEF settingVars
<1> QED
  BY <1>1, <1>2, <1>3, <1>4, <1>5, <1>6 DEF SettingsNext

LEMMA SettingsStep == SettingsInv /\ [SettingsNext]_settingVars => SettingsInv'
<1> SUFFICES ASSUME SettingsInv, [SettingsNext]_settingVars PROVE SettingsInv'
  OBVIOUS
<1>0. SettingsTypeOK /\ SettingsTypeOK'
  BY SettingsTypeStep DEF SettingsInv
<1> USE <1>0, SettingsAssumption DEF SettingsInv, SavedIsUsed, Resting
<1>1. ASSUME NEW t \in Threads, NEW fails \in BOOLEAN, ReadSetting(t, fails)
      PROVE SettingsInv'
  <2>1. UNCHANGED <<stored, cached>> /\ Effective' = Effective /\ behind \subseteq behind'
    BY <1>1 DEF ReadSetting, Effective
  <2>2. thread'[t].value # Effective => HostOf(t) \in behind'
    BY <1>1 DEF ReadSetting, SettingsTypeOK
  <2>3. \A u \in Threads \ {t} : thread'[u] = thread[u]
    BY <1>1 DEF ReadSetting, SettingsTypeOK
  <2> QED BY <2>1, <2>2, <2>3
<1>2. ASSUME NEW t \in Threads, FillCache(t) PROVE SettingsInv'
  <2>1. UNCHANGED <<stored, behind>> /\ Effective' = Effective
    BY <1>2 DEF FillCache, Effective
  <2>2. \A u \in Threads : thread'[u].at = "read" => thread'[u] = thread[u]
    BY <1>2 DEF FillCache, SettingsTypeOK
  <2>3. \A h \in Hosts : cached'[h] = IF h = HostOf(t) THEN thread[t].value ELSE cached[h]
    BY <1>2 DEF FillCache, SettingsTypeOK
  <2> QED BY <1>2, <2>1, <2>2, <2>3 DEF FillCache
<1>3. ASSUME NEW t \in Threads, NEW value \in Values \union {NoValue}, SaveSetting(t, value)
      PROVE SettingsInv'
  BY <1>3 DEF SaveSetting
<1>4. ASSUME NEW t \in Threads, Invalidate(t) PROVE SettingsInv'
  <2>1. UNCHANGED stored /\ Effective' = Effective
    BY <1>4 DEF Invalidate, Effective
  <2>2. \A h \in Hosts : cached'[h] = IF h = HostOf(t) THEN NoValue ELSE cached[h]
    BY <1>4 DEF Invalidate, Emptied, SettingsTypeOK
  <2>3. /\ thread'[t].at = "rest"
        /\ \A u \in Threads \ {t} : thread'[u] = thread[u]
    BY <1>4 DEF Invalidate, SettingsTypeOK
  <2>4. /\ behind \ {HostOf(t)} \subseteq behind'
        /\ (\E u \in Others(t) : thread[u].at # "rest") => behind' = behind
    BY <1>4 DEF Invalidate
  <2> QED BY <2>1, <2>2, <2>3, <2>4 DEF Others
<1>5. ASSUME NEW h \in Hosts, RestartHost(h) PROVE SettingsInv'
  BY <1>5 DEF RestartHost, Effective, SettingsTypeOK
<1>6. CASE UNCHANGED settingVars
  BY <1>6 DEF settingVars, Effective
<1> QED
  BY <1>1, <1>2, <1>3, <1>4, <1>5, <1>6 DEF SettingsNext

LEMMA SettingsInvCorrect == SettingsSpec => []SettingsInv
<1>1. SettingsInit => SettingsInv
  BY SettingsAssumption DEF SettingsInit, SettingsInv, SettingsTypeOK, SavedIsUsed, Resting
<1> QED
  BY <1>1, SettingsStep, PTL DEF SettingsSpec

\* secret_store, "Clearing a DB row reverts to env": with any number of processes and
\* threads, what a process uses is what is stored, but for the processes named as behind:
\* those that did not save it and were not restarted, or were reading meanwhile.
THEOREM SavedSettingUsed == SettingsSpec => []SavedIsUsed
<1>1. SettingsInv => SavedIsUsed
  BY DEF SettingsInv
<1> QED
  BY <1>1, SettingsInvCorrect, PTL

-----------------------------------------------------------------------------
(* The audio version of a report.                                          *)

AudioInv == AudioTypeOK /\ GeneratingHasJob

LEMMA AudioStep == AudioInv /\ [AudioNext]_audioVars => AudioInv'
<1> SUFFICES ASSUME AudioInv, [AudioNext]_audioVars PROVE AudioInv'
  OBVIOUS
<1> USE AudioAssumption DEF AudioInv, AudioTypeOK, GeneratingHasJob, Status
<1>1. ASSUME NEW r \in Listeners, NEW yes \in BOOLEAN, AskForAudio(r, yes) PROVE AudioInv'
  BY <1>1 DEF AskForAudio
<1>2. ASSUME NEW r \in Listeners, NEW yes \in BOOLEAN, PayAudio(r, yes) PROVE AudioInv'
  BY <1>2 DEF PayAudio, Hear
<1>3. ASSUME NEW r \in Listeners, NEW yes \in BOOLEAN, QueueAudio(r, yes) PROVE AudioInv'
  BY <1>3 DEF QueueAudio, Hear
<1>4. ASSUME NEW r \in Listeners, AnswerUnavailable(r) PROVE AudioInv'
  BY <1>4 DEF AnswerUnavailable, Hear
<1>5. ASSUME NEW r \in Listeners, ListenerDies(r) PROVE AudioInv'
  BY <1>5 DEF ListenerDies, Hear
<1>6. ASSUME NEW w \in Speakers, StartAudio(w) PROVE AudioInv'
  BY <1>6 DEF StartAudio
<1>7. ASSUME NEW w \in Speakers, SpeakerDies(w) PROVE AudioInv'
  BY <1>7 DEF SpeakerDies
<1>8. ASSUME NEW w \in Speakers, AudioTimeout(w) PROVE AudioInv'
  BY <1>8 DEF AudioTimeout
<1>9. ASSUME NEW w \in Speakers, NEW how \in {"stored", "unstored", "error"},
             FinishAudio(w, how)
      PROVE AudioInv'
  <2>1. audio' \in [status : Status, key : BOOLEAN] /\ audio'.status # "generating"
    <3>1. CASE how = "stored"
      BY <1>9, <3>1 DEF FinishAudio
    <3>2. CASE how = "unstored"
      BY <1>9, <3>2 DEF FinishAudio
    <3>3. CASE how = "error"
      BY <1>9, <3>3 DEF FinishAudio
    <3> QED BY <3>1, <3>2, <3>3
  <2> QED BY <1>9, <2>1 DEF FinishAudio
<1>10. CASE UNCHANGED audioVars
  BY <1>10 DEF audioVars
<1> QED
  BY <1>1, <1>2, <1>3, <1>4, <1>5, <1>6, <1>7, <1>8, <1>9, <1>10 DEF AudioNext

LEMMA AudioInvCorrect == AudioSpec => []AudioInv
<1>1. AudioInit => AudioInv
  <2> SUFFICES ASSUME AudioInit PROVE AudioInv
    OBVIOUS
  <2>1. audio \in [status : Status, key : BOOLEAN] /\ audio.status # "generating"
    BY DEF AudioInit, Status
  <2>2. asking \in [Listeners -> [pc : {"idle", "pay", "enqueue", "answer"}, read : Status]]
    BY DEF AudioInit, Status
  <2>3. queued \in 0 .. MaxAudioJobs
    BY AudioAssumption DEF AudioInit
  <2>4. speaking \subseteq Speakers /\ audioPaid \in BOOLEAN /\ cutOff \in BOOLEAN
    BY DEF AudioInit
  <2> QED
    BY <2>1, <2>2, <2>3, <2>4 DEF AudioInv, AudioTypeOK, GeneratingHasJob
<1> QED
  BY <1>1, AudioStep, PTL DEF AudioSpec

\* api_report_audio_request starts nothing for a report whose audio is "generating":
\* with any number of requests and workers there is then a job that will change it,
\* unless one was cut off at its time limit.
THEOREM GeneratingAudioHasJob == AudioSpec => []GeneratingHasJob
<1>1. AudioInv => GeneratingHasJob
  BY DEF AudioInv
<1> QED
  BY <1>1, AudioInvCorrect, PTL

-----------------------------------------------------------------------------
(* Articles.                                                               *)

\* Of the revisions only the text matters.
LEMMA CommitKeeps ==
    ASSUME NothingIsLost, NEW e \in Editors, NEW text, Commit(e, text)
    PROVE  NothingIsLost'
<1>1. CASE article = Gone
  BY <1>1 DEF Commit, NothingIsLost
<1>2. CASE article # Gone
  <2>1. /\ article' = There(edit[e].number + 1, Flushed(e, text))
        /\ versions' = versions \union {[number |-> edit[e].number, snapshot |-> edit[e].read]}
        /\ lives' = lives \union {Flushed(e, text)}
    BY <1>2 DEF Commit, Write
  <2>2. /\ crossed \subseteq crossed'
        /\ edit[e].read # article.text => article.text \in crossed'
    <3>1. CASE edit[e].read # article.text
      <4>1. crossed' = crossed \union {article.text, Flushed(e, text)}
        BY <1>2, <3>1 DEF Commit
      <4> QED BY <4>1
    <3>2. CASE edit[e].read = article.text
      <4>1. \/ crossed' = crossed \union {article.text, Flushed(e, text)}
            \/ crossed' = crossed
        BY <1>2 DEF Commit
      <4> QED BY <3>2, <4>1
    <3> QED BY <3>1, <3>2
  <2>3. Stored \subseteq Stored' /\ edit[e].read \in Stored'
    <3> DEFINE kept == [number |-> edit[e].number, snapshot |-> edit[e].read]
    <3>1. kept.snapshot = edit[e].read
      OBVIOUS
    <3>2. versions' = versions \union {kept}
      BY <2>1
    <3> HIDE DEF kept
    <3> QED BY <3>1, <3>2 DEF Stored
  <2>4. article'.text = Flushed(e, text)
    BY <2>1 DEF There
  <2> QED
    BY <1>2, <2>1, <2>2, <2>3, <2>4 DEF NothingIsLost
<1> QED
  BY <1>1, <1>2

\* cms_admin.py, "Revision history": whatever edits, restorations and deletions overlap,
\* a text the article once had is its text now, or in a revision, or was lost to an edit
\* that overlapped another.
THEOREM NoTextIsLost == ContentSpec => []NothingIsLost
<1>1. ContentInit => NothingIsLost
  BY DEF ContentInit, NothingIsLost
<1>2. NothingIsLost /\ [ContentNext]_contentVars => NothingIsLost'
  <2> SUFFICES ASSUME NothingIsLost, [ContentNext]_contentVars PROVE NothingIsLost'
    OBVIOUS
  <2>1. ASSUME NEW text \in Texts, CreateArticle(text) PROVE NothingIsLost'
    BY <2>1 DEF CreateArticle, NothingIsLost, There
  <2>2. ASSUME NEW e \in Editors, ReadArticle(e) PROVE NothingIsLost'
    BY <2>2 DEF ReadArticle, NothingIsLost, Stored
  <2>3. ASSUME NEW e \in Editors, UpdateArticle(e) PROVE NothingIsLost'
    BY <2>3, CommitKeeps DEF UpdateArticle
  <2>4. ASSUME NEW e \in Editors, RestoreArticle(e) PROVE NothingIsLost'
    BY <2>4, CommitKeeps DEF RestoreArticle
  <2>5. CASE DeleteArticle
    BY <2>5 DEF DeleteArticle, NothingIsLost
  <2>6. CASE UNCHANGED contentVars
    BY <2>6 DEF contentVars, NothingIsLost, Stored
  <2> QED
    BY <2>1, <2>2, <2>3, <2>4, <2>5, <2>6 DEF ContentNext
<1> QED
  BY <1>1, <1>2, PTL DEF ContentSpec

-----------------------------------------------------------------------------
(* Deletion of an account.  When the deletion selects the reports it sees   *)
(* every key there is, since a key is written into a row that exists; what *)
(* becomes of the store after that is the doing of a job that runs         *)
(* meanwhile, and every such job is among the busy ones.                   *)

\* From the selection of the reports to the end of the account, and beyond it.
Underway == del.at = "objects" \/ ~present

\* A key belongs to a row, as long as there are rows.
KeysInRows == present => keyed \subseteq reportRows

\* A deletion under way knows of every job that may still touch the store.
JobsAreBusy == Underway => \A r \in Reports : job[r] # "none" => r \in busy

\* What it has not deleted yet is on its list, or belongs to such a job.
LeftToDelete == Underway => store \intersect keyed \subseteq busy \union del.todo

\* It runs on an account that exists, and has a list only while it runs.
ListOfDeletion ==
    /\ del.at = "objects" => present
    /\ del.at = "idle" => del.todo = {}

DeletionInv == DeletionTypeOK /\ KeysInRows /\ JobsAreBusy /\ LeftToDelete /\ ListOfDeletion

-----------------------------------------------------------------------------

LEMMA DeletionTypeStep == DeletionTypeOK /\ [DeletionNext]_delVars => DeletionTypeOK'
<1> SUFFICES ASSUME DeletionTypeOK, [DeletionNext]_delVars PROVE DeletionTypeOK'
  OBVIOUS
<1> USE DeletionAssumption DEF DeletionTypeOK, NoDeletion
<1>1. ASSUME NEW k \in RowKinds, NEW late \in BOOLEAN, Acquire(k, late) PROVE DeletionTypeOK'
  BY <1>1 DEF Acquire
<1>2. ASSUME NEW r \in Reports, StartJob(r) PROVE DeletionTypeOK'
  BY <1>2 DEF StartJob
<1>3. ASSUME NEW r \in Reports, NEW ok \in BOOLEAN, Upload(r, ok) PROVE DeletionTypeOK'
  BY <1>3 DEF Upload
<1>4. ASSUME NEW r \in Reports, CommitJob(r) PROVE DeletionTypeOK'
  BY <1>4 DEF CommitJob
<1>5. ASSUME NEW r \in Reports, DropObject(r) PROVE DeletionTypeOK'
  BY <1>5 DEF DropObject
<1>6. ASSUME NEW r \in Reports, DropFails(r) PROVE DeletionTypeOK'
  BY <1>6 DEF DropFails
<1>7. CASE BeginDeletion
  BY <1>7 DEF BeginDeletion
<1>8. CASE CommitDeletion
  BY <1>8 DEF CommitDeletion
<1>9. CASE DeletionRefused
  BY <1>9 DEF DeletionRefused
<1>10. CASE UNCHANGED delVars
  BY <1>10 DEF delVars
<1> QED
  BY <1>1, <1>2, <1>3, <1>4, <1>5, <1>6, <1>7, <1>8, <1>9, <1>10 DEF DeletionNext

LEMMA DeletionStep == DeletionInv /\ [DeletionNext]_delVars => DeletionInv'
<1> SUFFICES ASSUME DeletionInv, [DeletionNext]_delVars PROVE DeletionInv'
  OBVIOUS
<1>0. DeletionTypeOK'
  BY DeletionTypeStep DEF DeletionInv
<1> USE <1>0 DEF DeletionInv, KeysInRows, JobsAreBusy, LeftToDelete, ListOfDeletion, Underway,
                 DeletionTypeOK, NoDeletion
<1>1. ASSUME NEW k \in RowKinds, NEW late \in BOOLEAN, Acquire(k, late) PROVE DeletionInv'
  BY <1>1 DEF Acquire
<1>2. ASSUME NEW r \in Reports, StartJob(r) PROVE DeletionInv'
  BY <1>2 DEF StartJob
<1>3. ASSUME NEW r \in Reports, NEW ok \in BOOLEAN, Upload(r, ok) PROVE DeletionInv'
  BY <1>3 DEF Upload
<1>4. ASSUME NEW r \in Reports, CommitJob(r) PROVE DeletionInv'
  <2>1. /\ Underway => r \in busy
        /\ UNCHANGED <<present, reportRows, store, del, busy>>
    BY <1>4 DEF CommitJob
  <2>2. keyed' \subseteq keyed \union (reportRows \intersect {r})
    BY <1>4 DEF CommitJob
  <2>3. KeysInRows' /\ LeftToDelete' /\ ListOfDeletion'
    BY <2>1, <2>2
  <2>4. JobsAreBusy'
    BY <1>4, <2>1 DEF CommitJob
  <2> QED BY <2>3, <2>4
<1>5. ASSUME NEW r \in Reports, DropObject(r) PROVE DeletionInv'
  BY <1>5 DEF DropObject
<1>6. ASSUME NEW r \in Reports, DropFails(r) PROVE DeletionInv'
  BY <1>6 DEF DropFails
<1>7. CASE BeginDeletion
  BY <1>7 DEF BeginDeletion
<1>8. CASE CommitDeletion
  BY <1>8 DEF CommitDeletion
<1>9. CASE DeletionRefused
  BY <1>9 DEF DeletionRefused
<1>10. CASE UNCHANGED delVars
  BY <1>10 DEF delVars
<1> QED
  BY <1>1, <1>2, <1>3, <1>4, <1>5, <1>6, <1>7, <1>8, <1>9, <1>10 DEF DeletionNext

\* The inductive invariant of the deletion: keys are in rows, jobs under way are known,
\* and whatever is left of the account's objects is on the list or a known job's.
THEOREM DeletionInvCorrect == DeletionSpec => []DeletionInv
<1>1. DeletionInit => DeletionInv
  BY DeletionAssumption DEF DeletionInit, DeletionInv, DeletionTypeOK, KeysInRows, JobsAreBusy,
     LeftToDelete, ListOfDeletion, Underway, NoDeletion
<1> QED
  BY <1>1, DeletionStep, PTL DEF DeletionSpec

\* account_delete, "R2 deletion is FAIL-CLOSED": however its steps, R2 errors, retries,
\* requests of the user and jobs of the worker interleave, an account is never gone
\* before the objects that its rows named, but for those a job was writing meanwhile.
THEOREM DeletionFailsClosed == DeletionSpec => []FailClosed
<1>1. DeletionInv => FailClosed
  BY DEF DeletionInv, LeftToDelete, ListOfDeletion, Underway, FailClosed, DeletionTypeOK
<1> QED
  BY <1>1, DeletionInvCorrect, PTL

-----------------------------------------------------------------------------
(* Digests.                                                                *)

\* Run b is about to send, or has just sent, a message of kind k for chart c.
On(b, k, c) ==
    /\ batch[b].pc \in {"looked", "stored", "sent"}
    /\ batch[b].kind = k /\ ChartOf(batch[b].sub) = c

\* But for the charts excused, a chart has one run on it at a time; what is about to be
\* sent has not been sent; and what was sent is logged, or about to be.
OneOnChart ==
    \A k \in Digests, c \in SentCharts : c \notin excused[k] =>
        /\ \A a, b \in Batches : On(a, k, c) /\ On(b, k, c) => a = b
        /\ sent[k][c] <= 1
        /\ \A b \in Batches : On(b, k, c) /\ batch[b].pc # "sent" => sent[k][c] = 0
        /\ sent[k][c] = 0 \/ c \in logged[k] \/ \E b \in Batches : On(b, k, c) /\ batch[b].pc = "sent"

\* The weekly reflection is logged and then sent, the alert the other way round.
StepsOfKind ==
    \A b \in Batches :
        /\ batch[b].pc = "stored" =>
              batch[b].kind = "weekly" /\ ChartOf(batch[b].sub) \in logged["weekly"]
        /\ batch[b].pc = "sent" => batch[b].kind = "alert"

DigestsInv == DigestsTypeOK /\ StepsOfKind /\ OneOnChart

LEMMA DigestsTypeStep == DigestsTypeOK /\ [DigestsNext]_digestVars => DigestsTypeOK'
<1> SUFFICES ASSUME DigestsTypeOK, [DigestsNext]_digestVars PROVE DigestsTypeOK'
  OBVIOUS
<1>0. \A s \in Subscribers : ChartOf(s) \in SentCharts /\ ReaderOf(ChartOf(s)) \in Readers
  BY DEF SentCharts, Readers
<1>1. \A b \in Batches : /\ batch[b].pc \in {"new", "next", "over", "looked", "stored", "sent"}
                         /\ batch[b].kind \in Digests
                         /\ batch[b].todo \in SUBSET Subscribers
                         /\ batch[b].seen \in SUBSET Readers
                         /\ batch[b].pc \in {"looked", "stored", "sent"} => batch[b].sub \in Subscribers
  BY DEF DigestsTypeOK, Between, AtWork
<1>2. ASSUME NEW b \in Batches, NEW kind \in Digests, NEW subs \in SUBSET Subscribers,
             StartBatch(b, kind, subs)
      PROVE DigestsTypeOK'
  BY <1>2 DEF StartBatch, DigestsTypeOK, Between
<1>3. ASSUME NEW b \in Batches, NEW s \in Subscribers, PassOver(b, s) PROVE DigestsTypeOK'
  BY <1>0, <1>1, <1>3 DEF PassOver, Forward, DigestsTypeOK, Between
<1>4. ASSUME NEW b \in Batches, NEW s \in Subscribers, Look(b, s) PROVE DigestsTypeOK'
  BY <1>0, <1>1, <1>4 DEF Look, Unsent, Work, Excuse, DigestsTypeOK, AtWork
<1>5. ASSUME NEW b \in Batches, Store(b) PROVE DigestsTypeOK'
  BY <1>0, <1>1, <1>5 DEF Store, Log, Work, DigestsTypeOK, AtWork, Digests
<1>6. ASSUME NEW b \in Batches, NEW ok \in BOOLEAN, SendWeekly(b, ok) PROVE DigestsTypeOK'
  BY <1>0, <1>1, <1>6 DEF SendWeekly, Count, Forward, DigestsTypeOK, Between, Digests
<1>7. ASSUME NEW b \in Batches, NEW ok \in BOOLEAN, SendAlert(b, ok) PROVE DigestsTypeOK'
  BY <1>0, <1>1, <1>7 DEF SendAlert, Count, Work, DigestsTypeOK, AtWork, Digests
<1>8. ASSUME NEW b \in Batches, NEW ok \in BOOLEAN, LogAlert(b, ok) PROVE DigestsTypeOK'
  BY <1>0, <1>1, <1>8 DEF LogAlert, Log, Excuse, Forward, DigestsTypeOK, Between, Digests
<1>9. ASSUME NEW b \in Batches, EndBatch(b) PROVE DigestsTypeOK'
  BY <1>0, <1>1, <1>9 DEF EndBatch, Over, NotStarted, Excuse, DigestsTypeOK, Between, Digests
<1>10. CASE UNCHANGED digestVars
  BY <1>10 DEF digestVars, DigestsTypeOK
<1> QED
  BY <1>2, <1>3, <1>4, <1>5, <1>6, <1>7, <1>8, <1>9, <1>10 DEF DigestsNext

\* What a step of run b leaves alone.
OthersStay(b) ==
    /\ \A a \in Batches \ {b} : batch'[a] = batch[a]
    /\ \A a \in Batches \ {b}, k \in Digests, c \in SentCharts : On(a, k, c)' <=> On(a, k, c)

LEMMA BatchChanges ==
    ASSUME DigestsTypeOK, NEW b \in Batches, NEW n, batch' = [batch EXCEPT ![b] = n]
    PROVE  batch'[b] = n /\ OthersStay(b)
<1> QED BY DEF DigestsTypeOK, On, OthersStay

LEMMA WorkChanges ==
    ASSUME DigestsTypeOK, NEW b \in Batches, NEW pc, NEW s, Work(b, pc, s)
    PROVE  /\ batch'[b].pc = pc /\ batch'[b].kind = batch[b].kind /\ batch'[b].sub = s
           /\ OthersStay(b)
<1> DEFINE n == [pc |-> pc, kind |-> batch[b].kind, todo |-> batch[b].todo, seen |-> batch[b].seen,
                 sub |-> s]
<1>1. batch' = [batch EXCEPT ![b] = n]
  BY DEF Work
<1>2. n.pc = pc /\ n.kind = batch[b].kind /\ n.sub = s
  OBVIOUS
<1> HIDE DEF n
<1> QED BY <1>1, <1>2, BatchChanges

LEMMA ForwardChanges ==
    ASSUME DigestsTypeOK, NEW b \in Batches, NEW s, NEW seen, Forward(b, s, seen)
    PROVE  batch'[b].pc = "next" /\ OthersStay(b)
<1> DEFINE n == [pc |-> "next", kind |-> batch[b].kind, todo |-> batch[b].todo \ {s}, seen |-> seen]
<1>1. batch' = [batch EXCEPT ![b] = n] /\ n.pc = "next"
  BY DEF Forward
<1> HIDE DEF n
<1> QED BY <1>1, BatchChanges

LEMMA DigestsStep == DigestsInv /\ [DigestsNext]_digestVars => DigestsInv'
<1> SUFFICES ASSUME DigestsInv, [DigestsNext]_digestVars PROVE DigestsInv'
  OBVIOUS
<1>0. DigestsTypeOK /\ DigestsTypeOK'
  BY DigestsTypeStep DEF DigestsInv
<1>1. \A b \in Batches :
         batch[b].pc \in {"looked", "stored", "sent"} =>
            batch[b].sub \in Subscribers /\ ChartOf(batch[b].sub) \in SentCharts
  BY <1>0 DEF DigestsTypeOK, Between, AtWork, SentCharts
<1>2. /\ \A k \in Digests, c \in SentCharts : sent[k][c] \in Nat
      /\ "weekly" \in Digests /\ "alert" \in Digests
      /\ \A b \in Batches : batch[b].kind \in Digests
  BY <1>0 DEF DigestsTypeOK, Digests, Between, AtWork
<1> USE DEF DigestsInv, StepsOfKind, OthersStay
\* A run that starts, ends or passes over a subscription is on no chart afterwards.
<1>3. ASSUME NEW b \in Batches, NEW n, batch' = [batch EXCEPT ![b] = n],
             n.pc \notin {"looked", "stored", "sent"}, batch[b].pc # "sent",
             UNCHANGED <<logged, sent, excused>>
      PROVE DigestsInv'
  <2>1. /\ batch'[b] = n
        /\ OthersStay(b)
    BY <1>0, <1>3, BatchChanges
  <2>2. \A k \in Digests, c \in SentCharts : ~ On(b, k, c)'
    BY <1>3, <2>1 DEF On
  <2>3. StepsOfKind'
    BY <1>3, <2>1
  <2>4. OneOnChart'
    BY <1>3, <2>1, <2>2 DEF OneOnChart
  <2> QED BY <1>0, <2>3, <2>4
<1>4. ASSUME NEW b \in Batches, NEW kind \in Digests, NEW subs \in SUBSET Subscribers,
             StartBatch(b, kind, subs)
      PROVE DigestsInv'
  <2> DEFINE n == [pc |-> "next", kind |-> kind, todo |-> subs, seen |-> {}]
  <2>1. batch' = [batch EXCEPT ![b] = n] /\ n.pc = "next" /\ UNCHANGED <<logged, sent, excused>>
        /\ batch[b].pc = "new"
    BY <1>4 DEF StartBatch, NotStarted
  <2> HIDE DEF n
  <2> QED BY <1>3, <2>1
<1>5. ASSUME NEW b \in Batches, NEW s \in Subscribers, PassOver(b, s) PROVE DigestsInv'
  <2> DEFINE n(seen) == [pc |-> "next", kind |-> batch[b].kind, todo |-> batch[b].todo \ {s},
                         seen |-> seen]
  <2>1. PICK seen : batch' = [batch EXCEPT ![b] = n(seen)]
    BY <1>5 DEF PassOver, Forward
  <2>2. batch[b].pc = "next" /\ UNCHANGED <<logged, sent, excused>> /\ n(seen).pc = "next"
    BY <1>5 DEF PassOver
  <2> HIDE DEF n
  <2> QED BY <1>3, <2>1, <2>2
<1>6. ASSUME NEW b \in Batches, NEW s \in Subscribers, Look(b, s) PROVE DigestsInv'
  <2> DEFINE k == batch[b].kind  c == ChartOf(s)
  <2>1. /\ batch'[b].pc = "looked" /\ batch'[b].kind = k /\ batch'[b].sub = s
        /\ OthersStay(b)
    BY <1>0, <1>6, WorkChanges DEF Look
  <2>2. /\ UNCHANGED <<logged, sent>> /\ k \in Digests /\ c \in SentCharts /\ c \notin logged[k]
        /\ batch[b].pc = "next"
        /\ \A l \in Digests : excused[l] \subseteq excused'[l]
    BY <1>0, <1>2, <1>6 DEF Look, Unsent, Excuse, DigestsTypeOK, SentCharts
  <2>3. ASSUME c \notin excused'[k]
        PROVE  \A a \in Batches : ~ On(a, k, c)
    <3>1. ~ \E a \in Batches \ {b} : /\ batch[a].kind = k
                                     /\ batch[a].pc \in {"looked", "sent"}
                                     /\ ChartOf(batch[a].sub) = c
      BY <1>0, <1>2, <1>6, <2>3 DEF Look, Excuse, DigestsTypeOK
    <3> QED BY <2>2, <3>1 DEF On
  <2>4. StepsOfKind'
    BY <2>1, <2>2
  <2>5. \A l \in Digests, d \in SentCharts : On(b, l, d)' <=> l = k /\ d = c
    BY <2>1 DEF On
  <2>6. OneOnChart'
    <3> SUFFICES ASSUME NEW l \in Digests, NEW d \in SentCharts, d \notin excused'[l]
                 PROVE  /\ \A a, e \in Batches : On(a, l, d)' /\ On(e, l, d)' => a = e
                        /\ sent[l][d] <= 1
                        /\ \A e \in Batches : On(e, l, d)' /\ batch'[e].pc # "sent" => sent[l][d] = 0
                        /\ \/ sent[l][d] = 0 \/ d \in logged[l]
                           \/ \E e \in Batches : On(e, l, d)' /\ batch'[e].pc = "sent"
      BY <2>2 DEF OneOnChart
    <3>1. CASE l = k /\ d = c
      BY <1>2, <2>1, <2>2, <2>3, <2>5, <3>1 DEF OneOnChart
    <3>2. CASE ~ (l = k /\ d = c)
      <4>1. \A a \in Batches : On(a, l, d)' <=> On(a, l, d)
        BY <2>1, <2>2, <2>5, <3>2 DEF On
      <4>2. \A a \in Batches : On(a, l, d) => batch'[a] = batch[a]
        BY <2>1, <2>2 DEF On
      <4> QED BY <2>2, <4>1, <4>2 DEF OneOnChart
    <3> QED BY <3>1, <3>2
  <2> QED BY <1>0, <2>4, <2>6
<1>7. ASSUME NEW b \in Batches, Store(b) PROVE DigestsInv'
  <2> DEFINE s == batch[b].sub
  <2>1. /\ batch'[b].pc = "stored" /\ batch'[b].kind = "weekly" /\ batch'[b].sub = s
        /\ OthersStay(b)
    BY <1>0, <1>7, WorkChanges DEF Store
  <2>2. /\ UNCHANGED <<sent, excused>> /\ batch[b].pc = "looked" /\ batch[b].kind = "weekly"
        /\ \A l \in Digests : logged[l] \subseteq logged'[l]
        /\ ChartOf(s) \in logged'["weekly"]
    BY <1>0, <1>2, <1>7 DEF Store, Log, DigestsTypeOK
  <2>3. \A l \in Digests, d \in SentCharts : On(b, l, d)' <=> On(b, l, d)
    BY <2>1, <2>2 DEF On
  <2>4. StepsOfKind'
    BY <1>2, <2>1, <2>2
  <2>5. OneOnChart'
    BY <2>1, <2>2, <2>3 DEF OneOnChart
  <2> QED BY <1>0, <2>4, <2>5
<1>8. ASSUME NEW b \in Batches, NEW ok \in BOOLEAN, SendWeekly(b, ok) PROVE DigestsInv'
  <2> DEFINE c == ChartOf(batch[b].sub)
  <2>1. /\ batch'[b].pc = "next"
        /\ OthersStay(b)
    BY <1>0, <1>8, ForwardChanges DEF SendWeekly
  <2>2. /\ UNCHANGED <<logged, excused>> /\ batch[b].pc = "stored" /\ batch[b].kind = "weekly"
        /\ c \in logged["weekly"] /\ c \in SentCharts /\ On(b, "weekly", c)
    BY <1>1, <1>8 DEF SendWeekly, On
  <2>3. \A l \in Digests, d \in SentCharts :
           \/ sent'[l][d] = sent[l][d]
           \/ l = "weekly" /\ d = c /\ sent'[l][d] = sent[l][d] + 1
    BY <1>0, <1>2, <1>8, <2>2 DEF SendWeekly, Count, DigestsTypeOK
  <2>4. \A l \in Digests, d \in SentCharts : ~ On(b, l, d)'
    BY <2>1 DEF On
  <2>5. StepsOfKind'
    BY <2>1, <2>2
  <2>6. OneOnChart'
    <3> SUFFICES ASSUME NEW l \in Digests, NEW d \in SentCharts, d \notin excused[l]
                 PROVE  /\ \A a, e \in Batches : On(a, l, d)' /\ On(e, l, d)' => a = e
                        /\ sent'[l][d] <= 1
                        /\ \A e \in Batches : On(e, l, d)' /\ batch'[e].pc # "sent" => sent'[l][d] = 0
                        /\ \/ sent'[l][d] = 0 \/ d \in logged[l]
                           \/ \E e \in Batches : On(e, l, d)' /\ batch'[e].pc = "sent"
      BY <2>2 DEF OneOnChart
    <3>1. CASE l = "weekly" /\ d = c
      <4>1. sent[l][d] = 0 /\ sent'[l][d] \in {0, 1} /\ d \in logged[l]
        BY <1>2, <2>2, <2>3, <3>1 DEF OneOnChart
      <4>2. \A a \in Batches : ~ On(a, l, d)'
        BY <2>1, <2>2, <2>4, <3>1 DEF OneOnChart
      <4> QED BY <4>1, <4>2
    <3>2. CASE ~ (l = "weekly" /\ d = c)
      <4>1. sent'[l][d] = sent[l][d] /\ \A a \in Batches : On(a, l, d)' => On(a, l, d) /\ batch'[a] = batch[a]
        BY <2>1, <2>3, <2>4, <3>2
      <4>2. \A a \in Batches : On(a, l, d) /\ batch[a].pc = "sent" => On(a, l, d)' /\ batch'[a] = batch[a]
        BY <2>1, <2>2
      <4> QED BY <2>2, <4>1, <4>2 DEF OneOnChart
    <3> QED BY <3>1, <3>2
  <2> QED BY <1>0, <2>5, <2>6
<1>9. ASSUME NEW b \in Batches, NEW ok \in BOOLEAN, SendAlert(b, ok) PROVE DigestsInv'
  <2> DEFINE c == ChartOf(batch[b].sub)
  <2>1. /\ batch'[b].pc = "sent" /\ batch'[b].kind = "alert" /\ batch'[b].sub = batch[b].sub
        /\ OthersStay(b)
    BY <1>0, <1>9, WorkChanges DEF SendAlert
  <2>2. /\ UNCHANGED <<logged, excused>> /\ batch[b].pc = "looked" /\ batch[b].kind = "alert"
        /\ c \in SentCharts
    BY <1>1, <1>9 DEF SendAlert
  <2>3. \A l \in Digests, d \in SentCharts :
           \/ sent'[l][d] = sent[l][d]
           \/ l = "alert" /\ d = c /\ sent'[l][d] = sent[l][d] + 1
    BY <1>0, <1>2, <1>9, <2>2 DEF SendAlert, Count, DigestsTypeOK
  <2>4. \A l \in Digests, d \in SentCharts : On(b, l, d)' <=> On(b, l, d)
    BY <2>1, <2>2 DEF On
  <2>5. StepsOfKind'
    BY <2>1, <2>2
  <2>6. OneOnChart'
    <3> SUFFICES ASSUME NEW l \in Digests, NEW d \in SentCharts, d \notin excused[l]
                 PROVE  /\ \A a, e \in Batches : On(a, l, d)' /\ On(e, l, d)' => a = e
                        /\ sent'[l][d] <= 1
                        /\ \A e \in Batches : On(e, l, d)' /\ batch'[e].pc # "sent" => sent'[l][d] = 0
                        /\ \/ sent'[l][d] = 0 \/ d \in logged[l]
                           \/ \E e \in Batches : On(e, l, d)' /\ batch'[e].pc = "sent"
      BY <2>2 DEF OneOnChart
    <3>0. \A a \in Batches : On(a, l, d)' <=> On(a, l, d)
      BY <2>1, <2>4
    <3>1. CASE l = "alert" /\ d = c
      <4>1. On(b, l, d) /\ sent[l][d] = 0 /\ sent'[l][d] \in {0, 1}
        BY <1>2, <2>2, <2>3, <3>1 DEF OneOnChart, On
      <4>2. \A a \in Batches : On(a, l, d) => a = b
        BY <4>1 DEF OneOnChart
      <4> QED BY <2>1, <3>0, <4>1, <4>2
    <3>2. CASE ~ (l = "alert" /\ d = c)
      <4>1. sent'[l][d] = sent[l][d] /\ ~ On(b, l, d)
        BY <2>2, <2>3, <3>2 DEF On
      <4>2. \A a \in Batches : On(a, l, d) => batch'[a] = batch[a]
        BY <2>1, <4>1
      <4> QED BY <3>0, <4>1, <4>2 DEF OneOnChart
    <3> QED BY <3>1, <3>2
  <2> QED BY <1>0, <2>5, <2>6
<1>10. ASSUME NEW b \in Batches, NEW ok \in BOOLEAN, LogAlert(b, ok) PROVE DigestsInv'
  <2> DEFINE c == ChartOf(batch[b].sub)
  <2>1. /\ batch'[b].pc = "next"
        /\ OthersStay(b)
    BY <1>0, <1>10, ForwardChanges DEF LogAlert
  <2>2. /\ UNCHANGED sent /\ batch[b].pc = "sent" /\ batch[b].kind = "alert" /\ c \in SentCharts
        /\ \A l \in Digests : logged[l] \subseteq logged'[l] /\ excused[l] \subseteq excused'[l]
        /\ c \in logged'["alert"] \/ c \in excused'["alert"]
    <3>1. UNCHANGED sent /\ batch[b].pc = "sent" /\ batch[b].kind = "alert" /\ c \in SentCharts
      BY <1>1, <1>10 DEF LogAlert
    <3>2. CASE ok
      BY <1>0, <1>2, <1>10, <3>1, <3>2 DEF LogAlert, Log, DigestsTypeOK
    <3>3. CASE ~ ok
      BY <1>0, <1>2, <1>10, <3>1, <3>3 DEF LogAlert, Excuse, DigestsTypeOK
    <3> QED BY <3>1, <3>2, <3>3
  <2>3. \A l \in Digests, d \in SentCharts : ~ On(b, l, d)'
    BY <2>1 DEF On
  <2>4. StepsOfKind'
    BY <1>2, <2>1, <2>2
  <2>5. \A l \in Digests, d \in SentCharts : On(b, l, d) => l = "alert" /\ d = c
    BY <2>2 DEF On
  <2>6. OneOnChart'
    BY <2>1, <2>2, <2>3, <2>5 DEF OneOnChart
  <2> QED BY <1>0, <2>4, <2>6
<1>11. ASSUME NEW b \in Batches, EndBatch(b) PROVE DigestsInv'
  <2>1. CASE batch[b].pc # "sent"
    <3>1. /\ batch' = [batch EXCEPT ![b] = Over] /\ Over.pc = "over"
          /\ UNCHANGED <<logged, sent, excused>>
      BY <1>11, <2>1 DEF EndBatch, Over, NotStarted
    <3> QED BY <1>3, <2>1, <3>1
  <2>2. CASE batch[b].pc = "sent"
    <3> DEFINE c == ChartOf(batch[b].sub)
    <3>1. /\ batch'[b].pc = "over"
          /\ OthersStay(b)
      <4>1. batch' = [batch EXCEPT ![b] = Over] /\ Over.pc = "over"
        BY <1>11 DEF EndBatch, Over, NotStarted
      <4> QED BY <1>0, <4>1, BatchChanges
    <3>2. /\ UNCHANGED <<logged, sent>> /\ batch[b].kind = "alert" /\ c \in SentCharts
          /\ \A l \in Digests : excused[l] \subseteq excused'[l]
          /\ c \in excused'["alert"]
      BY <1>0, <1>1, <1>2, <1>11, <2>2 DEF EndBatch, Excuse, DigestsTypeOK
    <3>3. \A l \in Digests, d \in SentCharts : ~ On(b, l, d)'
      BY <3>1 DEF On
    <3>4. StepsOfKind'
      BY <3>1, <3>2
    <3>5. \A l \in Digests, d \in SentCharts : On(b, l, d) => l = "alert" /\ d = c
      BY <3>2 DEF On
    <3>6. OneOnChart'
      BY <3>1, <3>2, <3>3, <3>5 DEF OneOnChart
    <3> QED BY <1>0, <3>4, <3>6
  <2> QED BY <2>1, <2>2
<1>12. CASE UNCHANGED digestVars
  BY <1>0, <1>12 DEF digestVars, OneOnChart, On
<1> QED
  BY <1>4, <1>5, <1>6, <1>7, <1>8, <1>9, <1>10, <1>11, <1>12 DEF DigestsNext

LEMMA DigestsInvCorrect == DigestsSpec => []DigestsInv
<1>1. DigestsInit => DigestsInv
  <2> SUFFICES ASSUME DigestsInit PROVE DigestsInv
    OBVIOUS
  <2>1. DigestsTypeOK
    BY DEF DigestsInit, DigestsTypeOK, NotStarted, Between, Digests
  <2>2. \A b \in Batches : batch[b].pc = "new"
    BY DEF DigestsInit, NotStarted
  <2>3. \A k \in Digests, c \in SentCharts : sent[k][c] = 0
    BY DEF DigestsInit
  <2> QED BY <2>1, <2>2, <2>3 DEF DigestsInv, StepsOfKind, OneOnChart, On
<1> QED
  BY <1>1, DigestsStep, PTL DEF DigestsSpec

\* "Store once per chart/week", and "anti-duplicate" of the alerts: with any number of
\* runs of the two scripts a chart has one message of a kind in a week, unless two runs
\* looked for its row at once, or one sent it and left no row.
THEOREM MessagesSentOnce == DigestsSpec => []SentOnce
<1>1. DigestsInv => SentOnce
  <2> SUFFICES ASSUME DigestsInv, NEW k \in Digests, NEW c \in SentCharts, sent[k][c] > 1
               PROVE  c \in excused[k]
    BY DEF SentOnce
  <2>1. sent[k][c] \in Nat
    BY DEF DigestsInv, DigestsTypeOK
  <2> QED BY <2>1 DEF DigestsInv, OneOnChart
<1> QED
  BY <1>1, DigestsInvCorrect, PTL

-----------------------------------------------------------------------------
(* The pool of keys.                                                       *)

\* The calls that wait for an answer to key k.
Waiters(k) == {c \in Calls : call[c].pc = "pool" /\ call[c].key = k}

\* Key books s are right but for call c, which waits for none by now.
HonestBut(s, c) ==
    /\ s \in [ApiKeys -> KeySlot]
    /\ \A k \in ApiKeys : s[k].inFlight = Cardinality(Waiters(k) \ {c})

WaitersHaveKeys ==
    \A c \in Calls : /\ call[c].pc \in Waiting => call[c].pc \in Providers
                     /\ call[c].pc = "pool" => call[c].key \in ApiKeys

RouterInv == RouterTypeOK /\ WaitersHaveKeys /\ InFlightHonest

LEMMA WaitersFinite == \A k : IsFiniteSet(Waiters(k)) /\ \A c : IsFiniteSet(Waiters(k) \ {c})
<1>1. \A k : IsFiniteSet(Waiters(k))
  BY LLMAssumption, FS_Subset DEF Waiters
<1> QED BY <1>1, FS_Subset

\* Call c goes on to wait for key n.key, or for no key.
LEMMA BooksKept ==
    ASSUME RouterInv, NEW c \in Calls, NEW n \in Call, NEW s,
           HonestBut(s, c),
           call' = [call EXCEPT ![c] = n],
           n.pc \in Waiting => n.pc \in Providers,
           \/ n.pc # "pool" /\ slots' = s
           \/ /\ n.pc = "pool" /\ n.key \in ApiKeys
              /\ slots' = [s EXCEPT ![n.key].inFlight = @ + 1]
    PROVE  /\ slots' \in [ApiKeys -> KeySlot] /\ call' \in [Calls -> Call]
           /\ WaitersHaveKeys' /\ InFlightHonest'
<1>1. /\ call' \in [Calls -> Call] /\ call'[c] = n
      /\ \A d \in Calls \ {c} : call'[d] = call[d]
  BY DEF RouterInv, RouterTypeOK
<1>2. WaitersHaveKeys'
  BY <1>1 DEF RouterInv, WaitersHaveKeys
<1>3. \A k \in ApiKeys :
         Waiters(k)' = IF n.pc = "pool" /\ n.key = k THEN (Waiters(k) \ {c}) \union {c}
                       ELSE Waiters(k) \ {c}
  BY <1>1 DEF Waiters
<1>4. \A k \in ApiKeys : /\ Cardinality(Waiters(k) \ {c}) \in Nat
                         /\ Cardinality((Waiters(k) \ {c}) \union {c}) = Cardinality(Waiters(k) \ {c}) + 1
  BY WaitersFinite, FS_CardinalityType, FS_AddElement
<1>5. slots' \in [ApiKeys -> KeySlot]
  BY DEF HonestBut, KeySlot
<1>6. \A k \in ApiKeys :
         slots'[k].inFlight = s[k].inFlight + IF n.pc = "pool" /\ n.key = k THEN 1 ELSE 0
  BY DEF HonestBut, KeySlot
<1>7. InFlightHonest'
  <2> SUFFICES ASSUME NEW k \in ApiKeys PROVE slots'[k].inFlight = Cardinality(Waiters(k)')
    BY DEF InFlightHonest, Waiters
  <2>1. s[k].inFlight = Cardinality(Waiters(k) \ {c})
    BY DEF HonestBut
  <2>2. CASE n.pc = "pool" /\ n.key = k
    <3>1. Waiters(k)' = (Waiters(k) \ {c}) \union {c} /\ slots'[k].inFlight = s[k].inFlight + 1
      BY <1>3, <1>6, <2>2
    <3> QED BY <1>4, <2>1, <3>1
  <2>3. CASE ~ (n.pc = "pool" /\ n.key = k)
    <3>1. Waiters(k)' = Waiters(k) \ {c} /\ slots'[k].inFlight = s[k].inFlight
      BY <1>3, <1>6, <2>3 DEF HonestBut, KeySlot
    <3> QED BY <1>4, <2>1, <3>1
  <2> QED BY <2>2, <2>3
<1> QED BY <1>1, <1>2, <1>5, <1>7

\* The books without call c: it is taken off its key, if it waits for one.
LEMMA BooksWithout ==
    ASSUME RouterInv, NEW c \in Calls
    PROVE  /\ call[c].pc # "pool" => HonestBut(slots, c)
           /\ call[c].pc = "pool" => HonestBut([slots EXCEPT ![call[c].key] = Returned(@)], c)
<1>1. \A k \in ApiKeys : slots[k].inFlight = Cardinality(Waiters(k)) /\ slots[k] \in KeySlot
  BY DEF RouterInv, RouterTypeOK, InFlightHonest, Waiters
<1>2. CASE call[c].pc # "pool"
  <2>1. \A k \in ApiKeys : Waiters(k) \ {c} = Waiters(k)
    BY <1>2 DEF Waiters
  <2> QED BY <1>1, <1>2, <2>1 DEF HonestBut, RouterInv, RouterTypeOK
<1>3. CASE call[c].pc = "pool"
  <2> DEFINE k == call[c].key
             s == [slots EXCEPT ![k] = Returned(@)]
  <2>1. k \in ApiKeys /\ c \in Waiters(k)
    BY <1>3 DEF RouterInv, WaitersHaveKeys, Waiters
  <2>2. \A j \in ApiKeys \ {k} : Waiters(j) \ {c} = Waiters(j) /\ s[j] = slots[j]
    BY DEF Waiters, RouterInv, RouterTypeOK
  <2>3. Cardinality(Waiters(k) \ {c}) = Cardinality(Waiters(k)) - 1 /\ Cardinality(Waiters(k) \ {c}) \in Nat
    BY <2>1, WaitersFinite, FS_RemoveElement, FS_CardinalityType
  <2>4. s[k] \in KeySlot /\ s[k].inFlight = Cardinality(Waiters(k) \ {c})
    BY <1>1, <2>1, <2>3 DEF Returned, KeySlot, RouterInv, RouterTypeOK
  <2>5. s \in [ApiKeys -> KeySlot]
    BY <2>1, <2>4 DEF RouterInv, RouterTypeOK
  <2>6. HonestBut(s, c)
    BY <1>1, <2>2, <2>4, <2>5 DEF HonestBut
  <2> QED BY <1>3, <2>6
<1> QED BY <1>2, <1>3

\* What the streaks do leaves the counts alone, and does not end a rest.
LEMMA TrackKeepsCount ==
    ASSUME NEW slot \in KeySlot, NEW res \in Results
    PROVE  /\ Track(slot, res) \in KeySlot
           /\ Track(slot, res).inFlight = slot.inFlight
           /\ slot.tripped => Track(slot, res).tripped
<1>1. CASE res = "text"
  BY <1>1 DEF Track, KeySlot
<1>2. CASE res \in {"empty", "quota"}
  BY <1>2 DEF Track, KeySlot
<1>3. CASE res = "error" /\ slot.streak + 1 >= Threshold
  BY <1>3 DEF Track, KeySlot
<1>4. CASE res = "error" /\ ~ (slot.streak + 1 >= Threshold)
  BY <1>4 DEF Track, KeySlot
<1> QED BY <1>1, <1>2, <1>3, <1>4 DEF Results

LEMMA BooksTracked ==
    ASSUME RouterInv, NEW c \in Calls, NEW res \in Results, call[c].pc = "pool"
    PROVE  LET s == [slots EXCEPT ![call[c].key] = Track(Returned(@), res)]
           IN  HonestBut(s, c) /\ \A k \in ApiKeys : slots[k].tripped => s[k].tripped
<1> DEFINE k == call[c].key
           r == [slots EXCEPT ![k] = Returned(@)]
           s == [slots EXCEPT ![k] = Track(Returned(@), res)]
<1>1. HonestBut(r, c) /\ k \in ApiKeys
  BY BooksWithout DEF RouterInv, WaitersHaveKeys
<1>2. r[k] = Returned(slots[k]) /\ Returned(slots[k]).tripped = slots[k].tripped /\ r[k] \in KeySlot
  BY <1>1 DEF HonestBut, RouterInv, RouterTypeOK, Returned, KeySlot
<1>3. s[k] = Track(r[k], res) /\ s[k] \in KeySlot /\ s[k].inFlight = r[k].inFlight
      /\ (slots[k].tripped => s[k].tripped)
  BY <1>1, <1>2, TrackKeepsCount DEF RouterInv, RouterTypeOK
<1>4. \A j \in ApiKeys \ {k} : s[j] = slots[j] /\ r[j] = slots[j]
  BY <1>1 DEF RouterInv, RouterTypeOK
<1>5. s \in [ApiKeys -> KeySlot]
  BY <1>1, <1>3 DEF RouterInv, RouterTypeOK
<1>6. HonestBut(s, c)
  BY <1>1, <1>3, <1>4, <1>5 DEF HonestBut
<1> QED BY <1>3, <1>4, <1>6

LEMMA RankType == Rank \in [Providers -> Nat] /\ Candidates \in SUBSET Providers
<1>1. Candidates \in SUBSET Providers
  BY DEF Candidates, Closed
<1>2. IsFiniteSet({"gateway", "pool", "zen"})
  <2>1. IsFiniteSet({"gateway"}) /\ IsFiniteSet({"pool"}) /\ IsFiniteSet({"zen"})
    BY FS_Singleton
  <2>2. {"gateway", "pool", "zen"} = ({"gateway"} \union {"pool"}) \union {"zen"}
    OBVIOUS
  <2>3. IsFiniteSet({"gateway"} \union {"pool"})
    BY <2>1, FS_Union
  <2>4. IsFiniteSet(({"gateway"} \union {"pool"}) \union {"zen"})
    BY <2>1, <2>3, FS_Union
  <2> QED BY <2>2, <2>4
<1>3. IsFiniteSet(Providers)
  BY <1>2, FS_Subset, LLMAssumption
<1>4. \A p \in Providers : Cardinality({q \in Candidates : Before(q, p)}) \in Nat
  BY <1>1, <1>3, FS_Subset, FS_CardinalityType
<1> QED BY <1>1, <1>4 DEF Rank

LEMMA HealthType ==
    ASSUME RouterInv, NEW p
    PROVE  /\ Success(p) \in [Providers -> ProviderHealth]
           /\ Failure(p) \in [Providers -> ProviderHealth]
           /\ FreeQuota \in [Providers -> ProviderHealth]
<1>1. health \in [Providers -> ProviderHealth] /\ Threshold \in Nat
  BY LLMAssumption DEF RouterInv, RouterTypeOK
<1>2. Success(p) \in [Providers -> ProviderHealth]
  <2> DEFINE n == [healthy |-> health[p].healthy, streak |-> 0,
                   cost |-> health[p].cost \/ p = "pool", open |-> FALSE]
  <2>1. Success(p) = [health EXCEPT ![p] = n]
    BY DEF Success
  <2>2. p \in Providers => n \in ProviderHealth
    BY <1>1 DEF ProviderHealth
  <2> HIDE DEF n
  <2> QED BY <1>1, <2>1, <2>2
<1>3. Failure(p) \in [Providers -> ProviderHealth]
  <2> DEFINE n == [healthy |-> health[p].streak + 1 < 5, streak |-> health[p].streak + 1,
                   cost |-> health[p].cost,
                   open |-> health[p].open \/ health[p].streak + 1 >= Threshold]
  <2>1. Failure(p) = [health EXCEPT ![p] = n]
    BY DEF Failure
  <2>2. p \in Providers => n \in ProviderHealth
    BY <1>1 DEF ProviderHealth
  <2> HIDE DEF n
  <2> QED BY <1>1, <2>1, <2>2
<1>4. FreeQuota \in [Providers -> ProviderHealth]
  <2> DEFINE n == [healthy |-> health["zen"].streak + 1 < 5, streak |-> 0,
                   cost |-> health["zen"].cost, open |-> TRUE]
  <2>1. FreeQuota = [health EXCEPT !["zen"] = n]
    BY DEF FreeQuota
  <2>2. "zen" \in Providers => n \in ProviderHealth
    BY <1>1 DEF ProviderHealth
  <2> HIDE DEF n
  <2> QED BY <1>1, <2>1, <2>2
<1> QED BY <1>2, <1>3, <1>4

LEMMA NoCallType == NoCall \in Call
BY DEF NoCall, Call, Ends

\* What a step leaves to prove: the rest of the types is plain.
Books == /\ slots \in [ApiKeys -> KeySlot] /\ call \in [Calls -> Call]
         /\ WaitersHaveKeys /\ InFlightHonest

NoneReopened == \A k \in ApiKeys : slots[k].tripped => slots'[k].tripped

LEMMA EndKeepsBooks ==
    ASSUME RouterInv, NEW c \in Calls, NEW cl \in Call, NEW how \in Ends, NEW s,
           HonestBut(s, c), End(c, cl, how), slots' = s
    PROVE  Books'
<1> DEFINE n == [(IF how = "failed" THEN cl ELSE NoCall) EXCEPT !.pc = "ended", !.end = how]
<1>1. n \in Call /\ n.pc \notin Waiting /\ n.pc # "pool"
  BY NoCallType DEF Call, Waiting
<1> HIDE DEF n
<1>2. call' = [call EXCEPT ![c] = n]
  BY DEF End, n
<1> QED BY <1>1, <1>2, BooksKept DEF Books

LEMMA AskKeyKeepsBooks ==
    ASSUME RouterInv, NEW c \in Calls, NEW cl \in Call, NEW s, HonestBut(s, c),
           \A k \in ApiKeys : slots[k].tripped => s[k].tripped,
           "pool" \in Providers, NEW k \in ApiKeys, AskKey(c, cl, s, k)
    PROVE  Books' /\ NoneReopened
<1> DEFINE n == [cl EXCEPT !.pc = "pool", !.key = k, !.tried = @ \union {k},
                           !.asked = @ \union {"pool"}]
<1>1. n \in Call /\ n.pc = "pool" /\ n.key = k
  BY DEF Call, Waiting
<1>2. call' = [call EXCEPT ![c] = n] /\ slots' = [s EXCEPT ![k].inFlight = @ + 1]
  BY DEF AskKey
<1> HIDE DEF n
<1>3. Books'
  BY <1>1, <1>2, BooksKept DEF Books
<1>4. NoneReopened
  BY <1>2 DEF NoneReopened, HonestBut, KeySlot
<1> QED BY <1>3, <1>4

LEMMA AskNextKeepsBooks ==
    ASSUME RouterInv, NEW c \in Calls, NEW cl \in Call, NEW s, HonestBut(s, c),
           \A k \in ApiKeys : slots[k].tripped => s[k].tripped,
           AskNext(c, cl, s)
    PROVE  Books' /\ NoneReopened
<1>1. CASE cl.left = {}
  <2>1. End(c, cl, "failed") /\ slots' = s
    BY <1>1 DEF AskNext
  <2> QED BY <2>1, EndKeepsBooks DEF Ends, NoneReopened
<1>2. CASE cl.left # {}
  <2>1. PICK p \in cl.left :
           IF p = "pool" THEN \E k \in KeyChoices(s, {}) : AskKey(c, cl, s, k)
           ELSE /\ call' = [call EXCEPT ![c] = [cl EXCEPT !.pc = p, !.asked = @ \union {p}]]
                /\ slots' = s
    BY <1>2 DEF AskNext
  <2>2. p \in Providers /\ p \in {"gateway", "pool", "zen"}
    BY LLMAssumption DEF Call
  <2>3. CASE p = "pool"
    <3>1. PICK k \in KeyChoices(s, {}) : AskKey(c, cl, s, k)
      BY <2>1, <2>3
    <3>2. k \in ApiKeys
      BY DEF KeyChoices
    <3> QED BY <2>2, <2>3, <3>1, <3>2, AskKeyKeepsBooks
  <2>4. CASE p # "pool"
    <3> DEFINE n == [cl EXCEPT !.pc = p, !.asked = @ \union {p}]
    <3>1. n \in Call /\ n.pc # "pool"
      BY <2>2, <2>4 DEF Call
    <3>2. call' = [call EXCEPT ![c] = n] /\ slots' = s
      BY <2>1, <2>4
    <3> HIDE DEF n
    <3>3. n.pc \in Waiting => n.pc \in Providers
      BY <2>2 DEF Call, n
    <3> QED BY <3>1, <3>2, <3>3, BooksKept DEF Books, NoneReopened
  <2> QED BY <2>3, <2>4
<1> QED BY <1>1, <1>2

LEMMA RouterStep ==
    RouterInv /\ [RouterNext]_routerVars
        => RouterInv' /\ \A k \in ApiKeys : slots[k].tripped /\ ~slots'[k].tripped => KeyCooledDown(k)
<1> SUFFICES ASSUME RouterInv, [RouterNext]_routerVars
             PROVE  /\ RouterInv'
                    /\ \A k \in ApiKeys : slots[k].tripped /\ ~slots'[k].tripped => KeyCooledDown(k)
  OBVIOUS
<1>0. /\ slots \in [ApiKeys -> KeySlot] /\ health \in [Providers -> ProviderHealth]
      /\ call \in [Calls -> Call] /\ begun \in 0 .. MaxCalls /\ MaxCalls \in Nat
  BY LLMAssumption DEF RouterInv, RouterTypeOK
<1>1. ASSUME NEW c \in Calls, BeginCall(c)
      PROVE  Books' /\ NoneReopened /\ health' = health /\ begun' \in 0 .. MaxCalls
  <2> DEFINE cl == [NoCall EXCEPT !.left = Candidates, !.rank = Rank, !.skipped = Providers \ Candidates]
  <2>1. cl \in Call
    BY RankType, NoCallType DEF Call
  <2>2. AskNext(c, cl, slots) /\ call[c].pc # "pool" /\ health' = health /\ begun' \in 0 .. MaxCalls
    BY <1>0, <1>1 DEF BeginCall
  <2> HIDE DEF cl
  <2> QED BY <2>1, <2>2, BooksWithout, AskNextKeepsBooks
<1>2. ASSUME NEW c \in Calls, NEW res \in Results, GatewayAnswers(c, res)
      PROVE  Books' /\ NoneReopened /\ health' = health /\ begun' = begun
  <2>0. HonestBut(slots, c) /\ health' = health /\ begun' = begun
    BY <1>2, BooksWithout DEF GatewayAnswers
  <2>1. CASE res \in {"text", "empty"}
    <3>1. End(c, call[c], res) /\ slots' = slots /\ res \in Ends
      BY <1>2, <2>1 DEF GatewayAnswers, Ends
    <3> QED BY <1>0, <2>0, <3>1, EndKeepsBooks DEF NoneReopened
  <2>2. CASE res \notin {"text", "empty"}
    <3> DEFINE cl == [call[c] EXCEPT !.left = @ \ {"gateway"}]
    <3>1. AskNext(c, cl, slots)
      BY <1>2, <2>2 DEF GatewayAnswers
    <3>2. cl \in Call
      BY <1>0 DEF Call
    <3> HIDE DEF cl
    <3> QED BY <2>0, <3>1, <3>2, AskNextKeepsBooks
  <2> QED BY <2>1, <2>2
<1>3. ASSUME NEW c \in Calls, NEW res \in Results, ZenAnswers(c, res)
      PROVE  Books' /\ NoneReopened /\ health' \in [Providers -> ProviderHealth] /\ begun' = begun
  <2>0. HonestBut(slots, c) /\ begun' = begun
    BY <1>3, BooksWithout DEF ZenAnswers
  <2>1. health' \in [Providers -> ProviderHealth]
    BY <1>0, <1>3, HealthType DEF ZenAnswers, Results
  <2>2. CASE res \in {"text", "empty"}
    <3>1. End(c, call[c], res) /\ slots' = slots /\ res \in Ends
      BY <1>3, <2>2 DEF ZenAnswers, Ends
    <3> QED BY <1>0, <2>0, <2>1, <3>1, EndKeepsBooks DEF NoneReopened
  <2>3. CASE res \notin {"text", "empty"}
    <3> DEFINE cl == [call[c] EXCEPT !.left = @ \ {"zen"}]
    <3>1. AskNext(c, cl, slots)
      BY <1>3, <2>3 DEF ZenAnswers
    <3>2. cl \in Call
      BY <1>0 DEF Call
    <3> HIDE DEF cl
    <3> QED BY <2>0, <2>1, <3>1, <3>2, AskNextKeepsBooks
  <2> QED BY <2>2, <2>3
<1>4. ASSUME NEW c \in Calls, NEW res \in Results, PoolAnswers(c, res)
      PROVE  Books' /\ NoneReopened /\ health' \in [Providers -> ProviderHealth] /\ begun' = begun
  <2> DEFINE s == [slots EXCEPT ![call[c].key] = Track(Returned(@), res)]
  <2>0. /\ HonestBut(s, c) /\ \A k \in ApiKeys : slots[k].tripped => s[k].tripped
        /\ begun' = begun /\ call[c].pc = "pool" /\ "pool" \in Providers /\ call[c] \in Call
    BY <1>0, <1>4, BooksTracked DEF PoolAnswers, RouterInv, WaitersHaveKeys, Waiting
  <2>1. health' \in [Providers -> ProviderHealth]
    BY <1>0, <1>4, HealthType DEF PoolAnswers
  <2>2. \/ res \in Ends /\ End(c, call[c], res) /\ slots' = s
        \/ \E j \in KeyChoices(s, call[c].tried) : AskKey(c, call[c], s, j)
        \/ AskNext(c, [call[c] EXCEPT !.left = @ \ {"pool"}], s)
    BY <1>4 DEF PoolAnswers, Ends
  <2>3. CASE res \in Ends /\ End(c, call[c], res) /\ slots' = s
    BY <2>0, <2>1, <2>3, EndKeepsBooks DEF NoneReopened
  <2>4. CASE \E j \in KeyChoices(s, call[c].tried) : AskKey(c, call[c], s, j)
    <3>1. PICK j \in KeyChoices(s, call[c].tried) : AskKey(c, call[c], s, j)
      BY <2>4
    <3>2. j \in ApiKeys
      BY DEF KeyChoices
    <3> HIDE DEF s
    <3> QED BY <2>0, <2>1, <3>1, <3>2, AskKeyKeepsBooks
  <2>5. CASE AskNext(c, [call[c] EXCEPT !.left = @ \ {"pool"}], s)
    <3> DEFINE cl == [call[c] EXCEPT !.left = @ \ {"pool"}]
    <3>1. cl \in Call
      BY <2>0 DEF Call
    <3> HIDE DEF cl, s
    <3>2. AskNext(c, cl, s)
      BY <2>5 DEF cl
    <3> QED BY <2>0, <2>1, <3>1, <3>2, AskNextKeepsBooks
  <2> QED BY <2>2, <2>3, <2>4, <2>5
<1>5. ASSUME NEW c \in Calls, Deadline(c)
      PROVE  Books' /\ NoneReopened /\ health' = health /\ begun' = begun
  <2>1. HonestBut(slots', c) /\ End(c, call[c], "deadline") /\ health' = health /\ begun' = begun
    BY <1>5, BooksWithout DEF Deadline
  <2>2. NoneReopened
    BY <1>0, <1>5 DEF Deadline, NoneReopened, Returned, KeySlot
  <2> QED BY <1>0, <2>1, <2>2, EndKeepsBooks DEF Ends
<1>6. ASSUME NEW k \in ApiKeys, KeyCooledDown(k)
      PROVE  /\ Books' /\ health' = health /\ begun' = begun
             /\ \A j \in ApiKeys \ {k} : slots'[j] = slots[j]
  <2>1. /\ slots' \in [ApiKeys -> KeySlot] /\ \A j \in ApiKeys : slots'[j].inFlight = slots[j].inFlight
        /\ \A j \in ApiKeys \ {k} : slots'[j] = slots[j]
    BY <1>0, <1>6 DEF KeyCooledDown, KeySlot
  <2>2. health' = health /\ begun' = begun /\ call' = call
    BY <1>6 DEF KeyCooledDown
  <2> QED BY <1>0, <2>1, <2>2 DEF RouterInv, Books, WaitersHaveKeys, InFlightHonest
<1>7. ASSUME NEW p \in Providers, ProviderCooledDown(p)
      PROVE  Books' /\ NoneReopened /\ health' \in [Providers -> ProviderHealth] /\ begun' = begun
  BY <1>0, <1>7 DEF ProviderCooledDown, ProviderHealth, RouterInv, Books, WaitersHaveKeys,
                    InFlightHonest, NoneReopened
<1>8. CASE UNCHANGED routerVars
  BY <1>0, <1>8 DEF routerVars, RouterInv, RouterTypeOK, WaitersHaveKeys, InFlightHonest
<1>9. ASSUME NoneReopened
      PROVE  \A k \in ApiKeys : slots[k].tripped /\ ~slots'[k].tripped => KeyCooledDown(k)
  BY <1>9 DEF NoneReopened
<1>10. ASSUME Books', health' \in [Providers -> ProviderHealth], begun' \in 0 .. MaxCalls
       PROVE  RouterInv'
  BY <1>10 DEF Books, RouterInv, RouterTypeOK
<1> QED
  BY <1>0, <1>1, <1>2, <1>3, <1>4, <1>5, <1>6, <1>7, <1>8, <1>9, <1>10 DEF RouterNext

LEMMA RouterInvCorrect == RouterSpec => []RouterInv
<1>1. RouterInit => RouterInv
  <2> SUFFICES ASSUME RouterInit PROVE RouterInv
    OBVIOUS
  <2>1. RouterTypeOK
    BY LLMAssumption, NoCallType DEF RouterInit, RouterTypeOK, KeySlot, ProviderHealth
  <2>2. \A c \in Calls : call[c].pc = "idle"
    BY DEF RouterInit, NoCall
  <2>3. \A k \in ApiKeys : Waiters(k) = {}
    BY <2>2 DEF Waiters
  <2>4. InFlightHonest
    BY <2>3, FS_EmptySet DEF RouterInit, InFlightHonest, Waiters
  <2> QED BY <2>1, <2>2, <2>4 DEF RouterInv, WaitersHaveKeys, Waiting
<1>2. RouterInv /\ [RouterNext]_routerVars => RouterInv'
  BY RouterStep
<1> QED
  BY <1>1, <1>2, PTL DEF RouterSpec

\* Whichever way calls end and whatever else is going on: in_flight of a key is the
\* number of calls that wait for it, and no late answer brings back a key that rests.
THEOREM KeyPoolCorrect == RouterSpec => KeyPoolKept
<1>1. RouterInv /\ [RouterNext]_routerVars
        => [/\ InFlightHonest'
            /\ \A k \in ApiKeys : slots[k].tripped /\ ~slots'[k].tripped => KeyCooledDown(k)]_routerVars
  BY RouterStep DEF RouterInv
<1> QED
  BY <1>1, RouterInvCorrect, PTL DEF RouterSpec, KeyPoolKept

-----------------------------------------------------------------------------
(* One-time passwords.  The guesses that two overlapping requests can have *)
(* compared with the present code are bounded by a function of its counter *)
(* and of the counts they are about to write; numbers are doubled, so that *)
(* T(r) stands for the bound r(r+3)/2 without a division.                  *)

Last == MaxAttempts - 1
T(r) == r * (r + 3)
Lesser(a, b) == IF a <= b THEN a ELSE b

\* x guesses were compared and the counter is at k: with no request under way, with one
\* that will write a, and with two, of which that of a writes first.
Room0(x, k) == 2 * x + T(Last - k) <= T(Last)
Room1(x, k, a) == 2 * x + 2 * (Last - k + 1) + T(Last - Lesser(a, k + 1)) <= T(Last)
Room2(x, a, b) == 2 * x + 2 * (Last - a + 2) + T(Last - Lesser(b, a + 1)) <= T(Last)

LEMMA LastType == Last \in Nat /\ MaxAttempts = Last + 1
BY LoginAssumption DEF Last

LEMMA Triangle ==
    /\ T(0) = 0
    /\ \A r \in Nat : T(r) \in Nat /\ T(r + 1) = T(r) + 2 * r + 4
    /\ \A r, s \in Nat : r <= s => T(r) <= T(s)
<1>1. T(0) = 0 /\ \A r \in Nat : T(r) \in Nat /\ T(r + 1) = T(r) + 2 * r + 4
  BY DEF T
<1>2. \A r, s \in Nat : r <= s => T(r) <= T(s)
  <2> SUFFICES ASSUME NEW r \in Nat, NEW s \in Nat, r <= s PROVE r * (r + 3) <= s * (s + 3)
    BY DEF T
  <2>1. PICK d \in Nat : s = r + d
    <3>1. s - r \in Nat /\ s = r + (s - r)
      OBVIOUS
    <3> QED BY <3>1
  <2>2. s * (s + 3) = r * (r + 3) + (2 * r * d + d * d + 3 * d)
    BY <2>1
  <2>3. 2 * r * d \in Nat /\ d * d \in Nat /\ 3 * d \in Nat
    OBVIOUS
  <2> QED BY <2>2, <2>3
<1> QED BY <1>1, <1>2

LEMMA TriangleType == T(0) = 0 /\ \A r \in Nat : T(r) \in Nat
BY Triangle

LEMMA LastRoom == Last \in Nat /\ T(Last) \in Nat
BY LastType, TriangleType

LEMMA LesserType ==
    \A a, b \in Nat : Lesser(a, b) \in Nat /\ Lesser(a, b) <= a /\ Lesser(a, b) <= b
                     /\ Lesser(a, b) \in {a, b}
BY DEF Lesser

\* What is left up to the last attempt, for two counters.
LEMMA RoomLeft ==
    ASSUME NEW a \in 0 .. Last, NEW b \in 0 .. Last
    PROVE  /\ T(Last - Lesser(a, b + 1)) \in Nat
           /\ T(Last - a) \in Nat /\ T(Last - a) <= T(Last - Lesser(a, b + 1))
           /\ a <= b + 1 => T(Last - Lesser(a, b + 1)) = T(Last - a)
           /\ a > b => T(Last - Lesser(a, b + 1)) = T(Last - (b + 1))
           /\ a < Last => T(Last - a) = T(Last - (a + 1)) + 2 * (Last - a + 1)
<1> DEFINE l == Lesser(a, b + 1)
<1>1. Last \in Nat /\ l \in Nat /\ l <= a /\ Last - l \in Nat /\ Last - a \in Nat /\ Last - a <= Last - l
  <2>1. Last \in Nat /\ a \in Nat /\ b + 1 \in Nat
    BY LastType
  <2>2. l \in Nat /\ l <= a
    BY <2>1, LesserType
  <2> HIDE DEF l
  <2> QED BY <2>1, <2>2
<1>2. (a <= b + 1 => l = a) /\ (a > b => l = b + 1)
  BY DEF Lesser
<1>3. a < Last => T(Last - a) = T(Last - (a + 1)) + 2 * (Last - a + 1)
  <2> SUFFICES ASSUME a < Last PROVE T(Last - a) = T(Last - (a + 1)) + 2 * (Last - a + 1)
    OBVIOUS
  <2> DEFINE r == Last - (a + 1)
  <2>1. r \in Nat /\ Last - a = r + 1 /\ 2 * (Last - a + 1) = 2 * r + 4
    BY <1>1
  <2> HIDE DEF r
  <2>2. T(r + 1) = T(r) + 2 * r + 4 /\ T(r) \in Nat
    BY <2>1, Triangle
  <2> QED BY <2>1, <2>2 DEF r
<1> HIDE DEF l
<1>4. T(Last - l) \in Nat /\ T(Last - a) \in Nat /\ T(Last - a) <= T(Last - l)
  BY <1>1, Triangle
<1> QED BY <1>2, <1>3, <1>4 DEF l

\* A request reads the counter k.
LEMMA RoomRead ==
    ASSUME NEW x \in Nat, NEW k \in Nat, k < Last
    PROVE  /\ Room0(x, k) => Room1(x, k, k + 1)
           /\ \A b \in 1 .. Last :
                 Room1(x, k, b) => Room2(x, k + 1, b) /\ Room2(x, b, k + 1)
<1>0. Last \in Nat /\ k \in 0 .. Last /\ k + 1 \in 0 .. Last /\ T(Last) \in Nat
  BY LastType, TriangleType
<1>1. /\ T(Last - k) = T(Last - (k + 1)) + 2 * (Last - k + 1) /\ T(Last - (k + 1)) \in Nat
      /\ T(Last - Lesser(k + 1, k + 1)) = T(Last - (k + 1)) /\ T(Last - k) \in Nat
  BY <1>0, RoomLeft
<1>2. Room0(x, k) => Room1(x, k, k + 1)
  BY <1>0, <1>1 DEF Room0, Room1
<1>3. ASSUME NEW b \in 1 .. Last, Room1(x, k, b) PROVE Room2(x, k + 1, b)
  <2> DEFINE t == T(Last - Lesser(b, k + 1))  u == T(Last - Lesser(b, (k + 1) + 1))
  <2>1. t \in Nat /\ u \in Nat
    BY <1>0, RoomLeft, b \in 0 .. Last
  <2>2. u <= t
    <3>1. CASE b <= k + 1
      <4>1. b <= (k + 1) + 1
        BY <1>0, <3>1
      <4> QED BY <1>0, <2>1, <3>1, <4>1, RoomLeft, b \in 0 .. Last
    <3>2. CASE b > k + 1
      <4>1. /\ u = T(Last - ((k + 1) + 1)) /\ t = T(Last - (k + 1))
            /\ T(Last - (k + 1)) = T(Last - ((k + 1) + 1)) + 2 * (Last - (k + 1) + 1)
        BY <1>0, <3>2, RoomLeft, b \in 0 .. Last, k + 1 < Last, b > k
      <4> QED BY <1>0, <2>1, <4>1
    <3> QED BY <1>0, <3>1, <3>2
  <2> HIDE DEF t, u
  <2>3. 2 * x + 2 * (Last - k + 1) + t <= T(Last)
    BY <1>3 DEF Room1, t
  <2>4. 2 * x + 2 * (Last - (k + 1) + 2) + u <= T(Last)
    BY <1>0, <2>1, <2>2, <2>3
  <2> QED BY <2>4 DEF Room2, u
<1>4. ASSUME NEW b \in 1 .. Last, Room1(x, k, b) PROVE Room2(x, b, k + 1)
  <2>0. b \in 0 .. Last
    OBVIOUS
  <2>1. CASE b <= k
    <3>1. /\ T(Last - Lesser(b, k + 1)) = T(Last - b)
          /\ T(Last - Lesser(k + 1, b + 1)) = T(Last - (b + 1))
          /\ T(Last - b) = T(Last - (b + 1)) + 2 * (Last - b + 1)
          /\ T(Last - b) \in Nat /\ T(Last - (b + 1)) \in Nat
      BY <1>0, <2>0, <2>1, RoomLeft, b <= k + 1, k + 1 > b, b < Last, b + 1 \in 0 .. Last
    <3>2. 2 * x + 2 * (Last - k + 1) + T(Last - b) <= T(Last)
      BY <1>4, <3>1 DEF Room1
    <3>3. 2 * x + 2 * (Last - b + 2) + T(Last - (b + 1)) <= T(Last)
      BY <1>0, <2>1, <3>1, <3>2
    <3> QED BY <3>1, <3>3 DEF Room2
  <2>2. CASE b > k
    <3>1. /\ T(Last - Lesser(b, k + 1)) = T(Last - (k + 1))
          /\ T(Last - Lesser(k + 1, b + 1)) = T(Last - (k + 1))
      BY <1>0, <2>0, <2>2, RoomLeft, k + 1 <= b + 1
    <3>2. 2 * x + 2 * (Last - k + 1) + T(Last - (k + 1)) <= T(Last)
      BY <1>4, <3>1 DEF Room1
    <3>3. 2 * x + 2 * (Last - b + 2) + T(Last - (k + 1)) <= T(Last)
      BY <1>0, <1>1, <2>2, <3>2
    <3> QED BY <3>1, <3>3 DEF Room2
  <2> QED BY <1>0, <2>1, <2>2
<1> QED BY <1>2, <1>3, <1>4

\* A request writes a; its guess is compared with the present code or with another.
LEMMA RoomWrite ==
    ASSUME NEW x \in Nat, NEW k \in 0 .. Last, NEW a \in 1 .. Last, NEW y \in {x, x + 1}
    PROVE  /\ Room1(x, k, a) => Room0(y, a)
           /\ \A b \in 1 .. Last : Room2(x, a, b) => Room1(y, a, b)
<1>0. Last \in Nat /\ T(Last) \in Nat /\ a \in 0 .. Last
  BY LastType, TriangleType
<1>1. /\ T(Last - a) <= T(Last - Lesser(a, k + 1))
      /\ T(Last - a) \in Nat /\ T(Last - Lesser(a, k + 1)) \in Nat
  BY <1>0, RoomLeft
<1>2. Room1(x, k, a) => Room0(y, a)
  BY <1>0, <1>1 DEF Room0, Room1
<1>3. ASSUME NEW b \in 1 .. Last, Room2(x, a, b) PROVE Room1(y, a, b)
  <2>1. T(Last - Lesser(b, a + 1)) \in Nat
    BY <1>0, RoomLeft, b \in 0 .. Last
  <2> QED BY <1>0, <1>3, <2>1 DEF Room1, Room2
<1> QED BY <1>2, <1>3

\* A new code, and what is left of the bound when the code is gone.
LEMMA RoomEnds ==
    /\ Room0(0, 0) /\ \A a \in 1 .. Last : Room1(0, 0, a)
    /\ \A x \in Nat, k \in 0 .. Last :
          /\ Room0(x, k) => 2 * x <= T(Last)
          /\ \A a \in 1 .. Last : Room1(x, k, a) => 2 * x + 2 <= T(Last)
    /\ \A x \in Nat, a, b \in 1 .. Last : Room2(x, a, b) => 2 * x + 4 <= T(Last)
<1>0. T(Last) \in Nat /\ Last \in Nat /\ Last - 0 = Last /\ 0 \in 0 .. Last
  BY LastType, TriangleType
<1>1. Room0(0, 0)
  <2>1. 2 * 0 + T(Last) <= T(Last)
    BY <1>0
  <2> QED BY <1>0, <2>1 DEF Room0
<1>2. ASSUME NEW a \in 1 .. Last PROVE Room1(0, 0, a)
  <2>1. /\ T(Last - 0) = T(Last - (0 + 1)) + 2 * (Last - 0 + 1)
        /\ T(Last - Lesser(a, 0 + 1)) = T(Last - (0 + 1)) /\ T(Last - Lesser(a, 0 + 1)) \in Nat
    BY <1>0, RoomLeft, a \in 0 .. Last, a > 0, 0 < Last
  <2> HIDE DEF Lesser
  <2> QED BY <1>0, <2>1 DEF Room1
<1>3. ASSUME NEW x \in Nat, NEW k \in 0 .. Last, Room0(x, k) PROVE 2 * x <= T(Last)
  <2>1. T(Last - k) \in Nat
    BY <1>0, RoomLeft
  <2> QED BY <1>0, <1>3, <2>1 DEF Room0
<1>4. ASSUME NEW x \in Nat, NEW k \in 0 .. Last, NEW a \in 1 .. Last, Room1(x, k, a)
      PROVE  2 * x + 2 <= T(Last)
  <2>1. T(Last - Lesser(a, k + 1)) \in Nat
    BY <1>0, RoomLeft, a \in 0 .. Last
  <2> QED BY <1>0, <1>4, <2>1 DEF Room1
<1>5. ASSUME NEW x \in Nat, NEW a \in 1 .. Last, NEW b \in 1 .. Last, Room2(x, a, b)
      PROVE  2 * x + 4 <= T(Last)
  <2>1. T(Last - Lesser(b, a + 1)) \in Nat
    BY <1>0, RoomLeft, a \in 0 .. Last, b \in 0 .. Last
  <2> QED BY <1>0, <1>5, <2>1 DEF Room2
<1> QED BY <1>1, <1>2, <1>3, <1>4, <1>5

-----------------------------------------------------------------------------

\* A request that will compare a guess and write its count.
Pending(v) == visit[v].pc = "count" /\ visit[v].attempts <= Last
Guess(v, i) == IF Pending(v) /\ visit[v].code = i THEN 1 ELSE 0

\* Codes that were not made yet are nowhere; a count to be written is one at least.
CodesInOrder ==
    /\ otp.code <= codes /\ otp.attempts <= Last
    /\ \A i \in 1 .. MaxCodes : i > codes => compared[i] = 0
    /\ \A v \in Visitors : /\ visit[v].code <= codes
                           /\ visit[v].pc = "count" => visit[v].attempts >= 1

\* The present code, of two visitors, and the codes of before.
PresentCode(i) ==
    /\ Room0(compared[i], otp.attempts)
    /\ \A v \in Visitors : Pending(v) => Room1(compared[i], otp.attempts, visit[v].attempts)
    /\ \A v, w \in Visitors :
          v # w /\ Pending(v) /\ Pending(w) => Room2(compared[i], visit[v].attempts, visit[w].attempts)

PastCode(i, v, w) == 2 * (compared[i] + Guess(v, i) + Guess(w, i)) <= T(Last)

TwoInv(v, w) ==
    /\ LoginTypeOK /\ CodesInOrder
    /\ \A i \in 1 .. MaxCodes : IF i = otp.code THEN PresentCode(i) ELSE PastCode(i, v, w)

\* One visitor: the guesses compared with the present code are counted.
OneInv(v) ==
    /\ LoginTypeOK /\ CodesInOrder
    /\ otp.code > 0 => compared[otp.code] <= otp.attempts
    /\ \A i \in 1 .. MaxCodes : compared[i] <= Last
    /\ Pending(v) /\ otp.code > 0 => visit[v].code = otp.code
    /\ Pending(v) /\ visit[v].code > 0 => compared[visit[v].code] < visit[v].attempts

Otp == [there : BOOLEAN, code : 0 .. MaxCodes, attempts : 0 .. MaxAttempts, ttl : BOOLEAN]
Visit == [pc : {"idle", "asked", "count", "delete", "find", "create", "in"},
          code : 0 .. MaxCodes, attempts : 0 .. MaxAttempts, right : BOOLEAN]

LEMMA LoginBounds ==
    /\ MaxAttempts \in Nat /\ MaxCodes \in Nat /\ Last \in Nat /\ MaxAttempts = Last + 1
    /\ NoOtp \in Otp /\ NoOtp.code = 0 /\ NoOtp.attempts = 0
    /\ NoVisit \in Visit /\ NoVisit.code = 0 /\ NoVisit.pc = "idle"
<1>1. MaxAttempts \in Nat /\ MaxCodes \in Nat /\ Last \in Nat /\ MaxAttempts = Last + 1
  BY LoginAssumption, LastType
<1> QED BY <1>1 DEF NoOtp, Otp, NoVisit, Visit

LEMMA LoginTypes ==
    LoginTypeOK <=> /\ otp \in Otp /\ window \in [count : Nat, ttl : BOOLEAN]
                    /\ codes \in 0 .. MaxCodes /\ compared \in [1 .. MaxCodes -> Nat]
                    /\ visit \in [Visitors -> Visit] /\ users \in Nat
BY DEF LoginTypeOK, Otp, Visit

\* Where a visit goes: nothing else of it changes, or it is forgotten.
VisitsFit ==
    /\ visit \in [Visitors -> Visit]
    /\ \A v \in Visitors : /\ visit[v].code <= codes
                           /\ visit[v].pc = "count" => visit[v].attempts >= 1

LEMMA VisitMoves ==
    ASSUME VisitsFit, codes \in 0 .. MaxCodes, NEW v \in Visitors,
           NEW pc \in {"idle", "asked", "delete", "find", "create", "in"},
           GoOn(v, pc) \/ EndVisit(v, pc), codes' \in Nat, codes' >= codes
    PROVE  /\ VisitsFit' /\ visit'[v].pc = pc
           /\ \A u \in Visitors \ {v} : visit'[u] = visit[u]
<1>1. CASE GoOn(v, pc)
  <2> DEFINE n == [visit[v] EXCEPT !.pc = pc]
  <2>1. n \in Visit /\ n.pc = pc /\ n.code = visit[v].code
    BY DEF VisitsFit, Visit
  <2>2. visit' = [visit EXCEPT ![v] = n]
    BY <1>1 DEF GoOn
  <2> HIDE DEF n
  <2>3. visit'[v] = n /\ visit' \in [Visitors -> Visit] /\ \A u \in Visitors \ {v} : visit'[u] = visit[u]
    BY <2>1, <2>2 DEF VisitsFit
  <2>4. \A u \in Visitors : visit[u].code \in Nat /\ visit[u].code <= codes'
    BY LoginBounds DEF VisitsFit, Visit
  <2> QED BY <2>1, <2>3, <2>4 DEF VisitsFit
<1>2. CASE EndVisit(v, pc)
  <2> DEFINE n == [NoVisit EXCEPT !.pc = pc]
  <2>1. n \in Visit /\ n.pc = pc /\ n.code = 0
    BY LoginBounds DEF NoVisit, Visit
  <2>2. visit' = [visit EXCEPT ![v] = n]
    BY <1>2 DEF EndVisit
  <2> HIDE DEF n
  <2>3. visit'[v] = n /\ visit' \in [Visitors -> Visit] /\ \A u \in Visitors \ {v} : visit'[u] = visit[u]
    BY <2>1, <2>2 DEF VisitsFit
  <2>4. \A u \in Visitors : visit[u].code \in Nat /\ visit[u].code <= codes'
    BY LoginBounds DEF VisitsFit, Visit
  <2> QED BY <2>1, <2>3, <2>4 DEF VisitsFit
<1> QED BY <1>1, <1>2

LEMMA LoginTypeStep ==
    LoginTypeOK /\ CodesInOrder /\ [LoginNext]_loginVars => LoginTypeOK' /\ CodesInOrder'
<1> DEFINE OthersFit == /\ otp \in Otp /\ window \in [count : Nat, ttl : BOOLEAN]
                   /\ codes \in 0 .. MaxCodes /\ compared \in [1 .. MaxCodes -> Nat] /\ users \in Nat
                   /\ otp.code <= codes /\ otp.attempts <= Last
                   /\ \A i \in 1 .. MaxCodes : i > codes => compared[i] = 0
<1>0. /\ LoginTypeOK /\ CodesInOrder <=> OthersFit /\ VisitsFit
      /\ (LoginTypeOK /\ CodesInOrder)' <=> OthersFit' /\ VisitsFit'
  BY LoginTypes DEF CodesInOrder, VisitsFit, LoginTypeOK, Otp, Visit
<1> SUFFICES ASSUME OthersFit, VisitsFit, [LoginNext]_loginVars
             PROVE  OthersFit' /\ VisitsFit'
  BY <1>0
<1> USE LoginBounds
<1>1. ASSUME NEW v \in Visitors, Ask(v) PROVE OthersFit' /\ VisitsFit'
  <2>1. OthersFit' /\ codes' = codes
    BY <1>1 DEF Ask
  <2>2. GoOn(v, "asked") \/ EndVisit(v, "idle")
    BY <1>1 DEF Ask
  <2> QED BY <2>1, <2>2, VisitMoves
<1>2. ASSUME NEW v \in Visitors, AskDies(v) PROVE OthersFit' /\ VisitsFit'
  <2>1. OthersFit' /\ codes' = codes /\ EndVisit(v, "idle")
    BY <1>2 DEF AskDies
  <2> QED BY <2>1, VisitMoves
<1>3. ASSUME NEW v \in Visitors, StoreCode(v) PROVE OthersFit' /\ VisitsFit'
  <2>1. codes' = codes + 1 /\ codes' \in 0 .. MaxCodes /\ UNCHANGED <<window, compared, users>>
        /\ EndVisit(v, "idle")
    BY <1>3 DEF StoreCode
  <2>2. otp' \in Otp /\ otp'.code = codes' /\ otp'.attempts = 0
    BY <1>3, <2>1 DEF StoreCode, Otp
  <2>3. VisitsFit'
    BY <2>1, VisitMoves
  <2> QED BY <2>1, <2>2, <2>3
<1>4. ASSUME NEW v \in Visitors, NEW right \in BOOLEAN, Submit(v, right) PROVE OthersFit' /\ VisitsFit'
  <2> DEFINE n == [pc |-> "count", code |-> otp.code, attempts |-> otp.attempts + 1, right |-> right]
  <2>1. n \in Visit /\ n.code <= codes /\ n.attempts >= 1
    BY DEF Otp, Visit
  <2>2. visit' = [visit EXCEPT ![v] = n] /\ OthersFit' /\ codes' = codes
    BY <1>4 DEF Submit
  <2> HIDE DEF n
  <2> QED BY <2>1, <2>2 DEF VisitsFit
<1>5. ASSUME NEW v \in Visitors, LastAttempt(v) PROVE OthersFit' /\ VisitsFit'
  <2>1. OthersFit' /\ codes' = codes /\ EndVisit(v, "idle")
    BY <1>5 DEF LastAttempt
  <2> QED BY <2>1, VisitMoves
<1>6. ASSUME NEW v \in Visitors, CountAttempt(v) PROVE OthersFit' /\ VisitsFit'
  <2>0. visit[v].attempts \in 0 .. Last /\ visit[v].code \in 0 .. MaxCodes /\ visit[v].code <= codes
    <3>1. visit[v] \in Visit /\ visit[v].code <= codes /\ visit[v].attempts < MaxAttempts
      BY <1>6 DEF CountAttempt, VisitsFit
    <3> QED BY <3>1 DEF Visit
  <2>1. otp' \in Otp /\ otp'.code = otp.code /\ otp'.attempts <= Last
    <3> DEFINE a == visit[v].attempts
    <3>1. otp' = [otp EXCEPT !.there = TRUE, !.attempts = a] /\ a \in 0 .. Last
      BY <1>6, <2>0 DEF CountAttempt
    <3>2. a \in 0 .. MaxAttempts
      BY <3>1
    <3>3. otp' \in Otp
      BY <3>1, <3>2 DEF Otp
    <3> HIDE DEF a
    <3>4. otp'.code = otp.code /\ otp'.attempts = a
      BY <3>1 DEF Otp
    <3> QED BY <3>1, <3>3, <3>4
  <2>2. /\ compared' \in [1 .. MaxCodes -> Nat]
        /\ \A i \in 1 .. MaxCodes : i > codes => compared'[i] = 0
    BY <1>6, <2>0 DEF CountAttempt
  <2>3. UNCHANGED <<window, codes, users>> /\ (GoOn(v, "delete") \/ EndVisit(v, "idle"))
    BY <1>6 DEF CountAttempt
  <2>4. VisitsFit'
    BY <2>3, VisitMoves
  <2> QED BY <2>1, <2>2, <2>3, <2>4
<1>7. ASSUME NEW v \in Visitors, UseUp(v) PROVE OthersFit' /\ VisitsFit'
  <2>1. OthersFit' /\ codes' = codes /\ GoOn(v, "find")
    BY <1>7 DEF UseUp
  <2> QED BY <2>1, VisitMoves
<1>8. ASSUME NEW v \in Visitors, FindUser(v) PROVE OthersFit' /\ VisitsFit'
  <2>1. OthersFit' /\ codes' = codes /\ (GoOn(v, "create") \/ EndVisit(v, "in"))
    BY <1>8 DEF FindUser
  <2>2. VisitsFit'
    BY <2>1, VisitMoves
  <2> QED BY <2>1, <2>2
<1>9. ASSUME NEW v \in Visitors, CreateUser(v) PROVE OthersFit' /\ VisitsFit'
  <2>1. OthersFit' /\ codes' = codes /\ (EndVisit(v, "in") \/ EndVisit(v, "idle"))
    BY <1>9 DEF CreateUser
  <2> QED BY <2>1, VisitMoves
<1>10. ASSUME NEW v \in Visitors, VisitDies(v) PROVE OthersFit' /\ VisitsFit'
  <2>1. OthersFit' /\ codes' = codes /\ EndVisit(v, "idle")
    BY <1>10 DEF VisitDies
  <2> QED BY <2>1, VisitMoves
<1>11. CASE CodeExpires
  BY <1>11 DEF CodeExpires, VisitsFit
<1>12. CASE WindowOver
  BY <1>12 DEF WindowOver, VisitsFit
<1>13. CASE UNCHANGED loginVars
  BY <1>13 DEF loginVars, VisitsFit
<1> QED
  BY <1>1, <1>2, <1>3, <1>4, <1>5, <1>6, <1>7, <1>8, <1>9, <1>10, <1>11, <1>12, <1>13
  DEF LoginNext

\* The steps of login in six kinds: what they do to the code, its counter and the guesses.
Rests(v) == \E n : /\ visit' = [visit EXCEPT ![v] = n] /\ n.pc # "count"
                   /\ UNCHANGED <<codes, compared>> /\ otp' \in {otp, NoOtp}
Stands == UNCHANGED <<codes, compared, visit>> /\ otp' \in {otp, NoOtp}

LEMMA LoginSteps ==
    ASSUME LoginTypeOK, [LoginNext]_loginVars
    PROVE  \/ Stands
           \/ \E v \in Visitors : \/ Rests(v) \/ StoreCode(v) \/ CountAttempt(v)
                                  \/ \E right \in BOOLEAN : Submit(v, right)
<1> USE DEF Rests, NoVisit, EndVisit
<1>0. ASSUME NEW v \in Visitors, NEW pc, pc # "count", GoOn(v, pc),
             UNCHANGED <<codes, compared>>, otp' \in {otp, NoOtp}
      PROVE  Rests(v)
  <2>1. visit' = [visit EXCEPT ![v] = [visit[v] EXCEPT !.pc = pc]]
    BY <1>0 DEF GoOn
  <2>2. [visit[v] EXCEPT !.pc = pc].pc = pc
    BY DEF LoginTypeOK
  <2> QED BY <1>0, <2>1, <2>2
<1>1. ASSUME NEW v \in Visitors, Ask(v) \/ AskDies(v) PROVE Rests(v)
  BY <1>0, <1>1 DEF Ask, AskDies
<1>2. ASSUME NEW v \in Visitors, LastAttempt(v) \/ VisitDies(v) PROVE Rests(v)
  BY <1>2 DEF LastAttempt, VisitDies
<1>3. ASSUME NEW v \in Visitors, UseUp(v) \/ FindUser(v) \/ CreateUser(v) PROVE Rests(v)
  BY <1>0, <1>3 DEF UseUp, FindUser, CreateUser
<1>4. CASE CodeExpires \/ WindowOver \/ UNCHANGED loginVars
  BY <1>4 DEF CodeExpires, WindowOver, loginVars, Stands
<1> QED
  BY <1>1, <1>2, <1>3, <1>4 DEF LoginNext

-----------------------------------------------------------------------------

LEMMA TwoStep ==
    ASSUME NEW v, NEW w, Visitors = {v, w}, v # w,
           TwoInv(v, w), [LoginNext]_loginVars
    PROVE  TwoInv(v, w)'
<1>0. LoginTypeOK /\ CodesInOrder /\ LoginTypeOK' /\ CodesInOrder'
  BY LoginTypeStep DEF TwoInv
<1>1. \A i \in 1 .. MaxCodes : IF i = otp.code THEN PresentCode(i) ELSE PastCode(i, v, w)
  BY DEF TwoInv
<1>2. /\ MaxCodes \in Nat /\ codes \in 0 .. MaxCodes /\ Last \in Nat /\ T(Last) \in Nat
      /\ otp.attempts \in 0 .. Last /\ otp.code \in 0 .. MaxCodes
      /\ \A i \in 1 .. MaxCodes : compared[i] \in Nat
  <2>1. otp \in Otp /\ codes \in 0 .. MaxCodes /\ compared \in [1 .. MaxCodes -> Nat] /\ otp.attempts <= Last
    BY <1>0, LoginTypes DEF CodesInOrder
  <2>2. MaxAttempts = Last + 1 /\ MaxCodes \in Nat /\ Last \in Nat
    BY LoginBounds
  <2> QED BY <2>1, <2>2, LastRoom DEF Otp
<1>3. \A u \in Visitors : Pending(u) => visit[u].attempts \in 1 .. Last
  <2> SUFFICES ASSUME NEW u \in Visitors, Pending(u) PROVE visit[u].attempts \in 1 .. Last
    OBVIOUS
  <2>1. visit[u] \in Visit /\ visit[u].attempts >= 1 /\ visit[u].attempts <= Last
    BY <1>0, LoginTypes DEF CodesInOrder, Pending
  <2> QED BY <1>2, <2>1 DEF Visit
<1>4. \A u \in Visitors, i \in 1 .. MaxCodes : Guess(u, i) \in {0, 1} /\ Guess(u, i)' \in {0, 1}
  BY DEF Guess
\* The present code, when it is gone, is one of the past.
<1>5. ASSUME NEW i \in 1 .. MaxCodes, PresentCode(i) PROVE PastCode(i, v, w)
  <2>1. Room0(compared[i], otp.attempts) => 2 * compared[i] <= T(Last)
    BY <1>2, RoomEnds
  <2>2. \A u \in Visitors : Pending(u) => 2 * compared[i] + 2 <= T(Last)
    BY <1>2, <1>3, <1>5, RoomEnds DEF PresentCode
  <2>3. Pending(v) /\ Pending(w) => 2 * compared[i] + 4 <= T(Last)
    BY <1>2, <1>3, <1>5, RoomEnds DEF PresentCode
  <2> QED BY <1>2, <1>5, <2>1, <2>2, <2>3 DEF PresentCode, PastCode, Guess
<1>6. \A i \in 1 .. MaxCodes : PastCode(i, v, w)
  BY <1>1, <1>5
<1>7. SUFFICES \A i \in 1 .. MaxCodes : IF i = otp'.code THEN PresentCode(i)' ELSE PastCode(i, v, w)'
  BY <1>0 DEF TwoInv
\* Where nothing is compared and no new guess comes, a code stays or becomes past.
<1>8. ASSUME \A u \in Visitors : Pending(u)' => Pending(u) /\ visit'[u] = visit[u],
             compared' = compared, otp' \in {otp, NoOtp}, NEW i \in 1 .. MaxCodes
      PROVE  IF i = otp'.code THEN PresentCode(i)' ELSE PastCode(i, v, w)'
  <2>1. CASE i = otp'.code
    BY <1>1, <1>8, <2>1 DEF PresentCode, NoOtp
  <2>2. CASE i # otp'.code
    <3>1. Guess(v, i)' <= Guess(v, i) /\ Guess(w, i)' <= Guess(w, i)
      BY <1>8 DEF Guess
    <3> QED BY <1>2, <1>4, <1>6, <1>8, <2>2, <3>1 DEF PastCode
  <2> QED BY <2>1, <2>2
<1>9. CASE Stands
  BY <1>8, <1>9 DEF Stands, Pending
<1>10. ASSUME NEW u \in Visitors, Rests(u)
       PROVE  \A x \in Visitors : Pending(x)' => Pending(x) /\ visit'[x] = visit[x]
  BY <1>0, <1>10 DEF Rests, Pending, LoginTypeOK
<1>11. ASSUME NEW u \in Visitors, Rests(u)
       PROVE  \A i \in 1 .. MaxCodes : IF i = otp'.code THEN PresentCode(i)' ELSE PastCode(i, v, w)'
  BY <1>8, <1>10, <1>11 DEF Rests
<1>12. ASSUME NEW u \in Visitors, StoreCode(u), NEW i \in 1 .. MaxCodes
       PROVE  IF i = otp'.code THEN PresentCode(i)' ELSE PastCode(i, v, w)'
  <2>1. /\ otp'.code = codes + 1 /\ otp'.attempts = 0 /\ compared' = compared
        /\ ~ Pending(u)' /\ \A x \in Visitors \ {u} : visit'[x] = visit[x]
    BY <1>0, <1>12 DEF StoreCode, EndVisit, NoVisit, Pending, LoginTypeOK
  <2>2. \A x \in Visitors : Pending(x)' => Pending(x) /\ visit'[x] = visit[x]
    BY <2>1 DEF Pending
  <2>3. CASE i = otp'.code
    <3>1. compared'[i] = 0
      BY <1>0, <1>2, <2>1, <2>3 DEF CodesInOrder
    <3>2. \A x, y \in Visitors : Pending(x)' /\ Pending(y)' => x = y
      BY <2>1
    <3>3. \A x \in Visitors : Pending(x)' => visit'[x].attempts \in 1 .. Last
      BY <1>3, <2>2
    <3>4. Room0(compared'[i], otp'.attempts)
      BY <2>1, <3>1, RoomEnds
    <3>5. \A x \in Visitors : Pending(x)' => Room1(compared'[i], otp'.attempts, visit'[x].attempts)
      BY <2>1, <3>1, <3>3, RoomEnds
    <3> QED BY <2>3, <3>2, <3>4, <3>5 DEF PresentCode
  <2>4. CASE i # otp'.code
    <3>1. Guess(v, i)' <= Guess(v, i) /\ Guess(w, i)' <= Guess(w, i)
      BY <2>2 DEF Guess
    <3> QED BY <1>2, <1>4, <1>6, <2>1, <2>4, <3>1 DEF PastCode
  <2> QED BY <2>3, <2>4
<1>13. ASSUME NEW u \in Visitors, NEW right \in BOOLEAN, Submit(u, right), NEW i \in 1 .. MaxCodes
       PROVE  IF i = otp'.code THEN PresentCode(i)' ELSE PastCode(i, v, w)'
  <2>1. /\ UNCHANGED <<otp, compared>> /\ ~ Pending(u)
        /\ visit'[u].pc = "count" /\ visit'[u].code = otp.code
        /\ visit'[u].attempts = otp.attempts + 1
        /\ \A x \in Visitors \ {u} : visit'[x] = visit[x]
    BY <1>0, <1>13 DEF Submit, AtRest, Pending, LoginTypeOK
  <2>2. \A x \in Visitors \ {u} : Pending(x)' <=> Pending(x)
    BY <2>1 DEF Pending
  <2>3. CASE i # otp.code
    <3>1. Guess(v, i)' <= Guess(v, i) /\ Guess(w, i)' <= Guess(w, i)
      BY <2>1, <2>2, <2>3 DEF Guess
    <3> QED BY <1>2, <1>4, <1>6, <2>1, <2>3, <3>1 DEF PastCode
  <2>4. CASE i = otp.code
    <3> DEFINE x == compared[i]  k == otp.attempts
    <3>0. PresentCode(i) /\ x \in Nat /\ k \in 0 .. Last
      BY <1>1, <1>2, <2>4
    <3>1. Pending(u)' => k < Last
      BY <1>2, <2>1 DEF Pending
    <3>2. Pending(u)' => Room1(x, k, k + 1)
      BY <1>2, <3>0, <3>1, RoomRead DEF PresentCode
    <3>3. \A y \in Visitors : Pending(y) => visit[y].attempts \in 1 .. Last /\ Room1(x, k, visit[y].attempts)
      BY <1>3, <3>0 DEF PresentCode
    <3>4. \A y \in Visitors \ {u} : Pending(y)' /\ Pending(u)' =>
             Room2(x, k + 1, visit[y].attempts) /\ Room2(x, visit[y].attempts, k + 1)
      BY <1>2, <2>2, <3>1, <3>3, RoomRead
    <3>5. \A y, z \in Visitors : y # z => y = u \/ z = u
      OBVIOUS
    <3> QED BY <2>1, <2>2, <2>4, <3>0, <3>2, <3>3, <3>4, <3>5 DEF PresentCode
  <2> QED BY <2>1, <2>3, <2>4
<1>14. ASSUME NEW u \in Visitors, CountAttempt(u), NEW i \in 1 .. MaxCodes
       PROVE  IF i = otp'.code THEN PresentCode(i)' ELSE PastCode(i, v, w)'
  <2> DEFINE a == visit[u].attempts
  <2>1. /\ otp'.code = otp.code /\ otp'.attempts = a /\ Pending(u) /\ ~ Pending(u)'
        /\ \A x \in Visitors \ {u} : visit'[x] = visit[x]
        /\ compared'[i] = compared[i] + Guess(u, i)
    <3>0. /\ visit \in [Visitors -> Visit] /\ otp \in Otp /\ compared \in [1 .. MaxCodes -> Nat]
          /\ VisitsFit /\ codes' = codes /\ codes \in Nat
      BY <1>0, <1>2, <1>14, LoginTypes DEF CountAttempt, VisitsFit, CodesInOrder
    <3>1. Pending(u)
      <4>1. a < MaxAttempts /\ a \in Nat
        BY <1>14, <3>0, LoginBounds DEF CountAttempt, Visit
      <4> QED BY <1>14, <4>1, LoginBounds DEF CountAttempt, Pending
    <3>2. visit'[u].pc \in {"delete", "idle"} /\ \A x \in Visitors \ {u} : visit'[x] = visit[x]
      BY <1>2, <1>14, <3>0, VisitMoves DEF CountAttempt
    <3>3. otp'.code = otp.code /\ otp'.attempts = a
      BY <1>14, <3>0 DEF CountAttempt, Otp
    <3>4. compared'[i] = compared[i] + Guess(u, i)
      BY <1>2, <1>14, <3>0, <3>1 DEF CountAttempt, Guess
    <3> QED BY <3>1, <3>2, <3>3, <3>4 DEF Pending
  <2>2. \A x \in Visitors \ {u} : (Pending(x)' <=> Pending(x)) /\ Guess(x, i)' = Guess(x, i)
    BY <2>1 DEF Pending, Guess
  <2>3. CASE i # otp.code
    <3>1. Guess(u, i)' = 0
      BY <2>1 DEF Guess
    <3>2. compared'[i] + Guess(v, i)' + Guess(w, i)' = compared[i] + Guess(v, i) + Guess(w, i)
      BY <1>2, <1>4, <2>1, <2>2, <3>1
    <3> QED BY <1>6, <2>1, <2>3, <3>2 DEF PastCode
  <2>4. CASE i = otp.code
    <3> DEFINE x == compared[i]  k == otp.attempts
    <3>0. PresentCode(i) /\ x \in Nat /\ k \in 0 .. Last /\ a \in 1 .. Last /\ compared'[i] \in {x, x + 1}
      BY <1>1, <1>2, <1>3, <1>4, <2>1, <2>4
    <3>1. Room0(compared'[i], a)
      BY <2>1, <3>0, RoomWrite DEF PresentCode
    <3>2. \A y \in Visitors \ {u} : Pending(y)' => Room1(compared'[i], a, visit'[y].attempts)
      BY <1>3, <2>1, <2>2, <3>0, RoomWrite DEF PresentCode
    <3>3. \A y, z \in Visitors : Pending(y)' /\ Pending(z)' => y = z
      BY <2>1
    <3> QED BY <2>1, <2>4, <3>1, <3>2, <3>3 DEF PresentCode
  <2> QED BY <2>1, <2>3, <2>4
<1> QED
  BY <1>0, <1>9, <1>11, <1>12, <1>13, <1>14, LoginSteps

LEMMA OneStep ==
    ASSUME NEW v, Visitors = {v}, OneInv(v), [LoginNext]_loginVars
    PROVE  OneInv(v)'
<1>0. LoginTypeOK /\ CodesInOrder /\ LoginTypeOK' /\ CodesInOrder'
  BY LoginTypeStep DEF OneInv
<1>1. /\ MaxCodes \in Nat /\ codes \in 0 .. MaxCodes /\ Last \in Nat
      /\ otp.attempts \in 0 .. Last /\ otp.code \in 0 .. MaxCodes
      /\ \A i \in 1 .. MaxCodes : compared[i] \in Nat
  BY <1>0, LoginAssumption, LastType DEF LoginTypeOK, CodesInOrder
<1>2. /\ otp.code > 0 => compared[otp.code] <= otp.attempts
      /\ \A i \in 1 .. MaxCodes : compared[i] <= Last
      /\ Pending(v) /\ otp.code > 0 => visit[v].code = otp.code
      /\ Pending(v) /\ visit[v].code > 0 => compared[visit[v].code] < visit[v].attempts
  BY DEF OneInv
<1>3. SUFFICES /\ otp'.code > 0 => compared'[otp'.code] <= otp'.attempts
               /\ \A i \in 1 .. MaxCodes : compared'[i] <= Last
               /\ Pending(v)' /\ otp'.code > 0 => visit'[v].code = otp'.code
               /\ Pending(v)' /\ visit'[v].code > 0 => compared'[visit'[v].code] < visit'[v].attempts
  BY <1>0 DEF OneInv
<1>4. CASE Stands
  BY <1>2, <1>4 DEF Stands, NoOtp, Pending
<1>5. CASE Rests(v)
  BY <1>0, <1>2, <1>5 DEF Rests, NoOtp, Pending, LoginTypeOK
<1>6. CASE StoreCode(v)
  <2>1. /\ otp'.code = codes + 1 /\ otp'.attempts = 0 /\ compared' = compared /\ ~ Pending(v)'
        /\ codes + 1 \in 1 .. MaxCodes
    BY <1>0, <1>1, <1>6 DEF StoreCode, EndVisit, NoVisit, Pending, LoginTypeOK
  <2> QED BY <1>0, <1>1, <1>2, <2>1 DEF CodesInOrder
<1>7. ASSUME NEW right \in BOOLEAN, Submit(v, right)
      PROVE /\ otp'.code > 0 => compared'[otp'.code] <= otp'.attempts
            /\ \A i \in 1 .. MaxCodes : compared'[i] <= Last
            /\ Pending(v)' /\ otp'.code > 0 => visit'[v].code = otp'.code
            /\ Pending(v)' /\ visit'[v].code > 0 => compared'[visit'[v].code] < visit'[v].attempts
  <2>1. /\ UNCHANGED <<otp, compared>> /\ visit'[v].code = otp.code
        /\ visit'[v].attempts = otp.attempts + 1
    BY <1>0, <1>7 DEF Submit, LoginTypeOK
  <2> QED BY <1>1, <1>2, <2>1
<1>8. CASE CountAttempt(v)
  <2> DEFINE a == visit[v].attempts  j == visit[v].code
  <2>1. /\ otp'.code = otp.code /\ otp'.attempts = a /\ Pending(v) /\ ~ Pending(v)'
        /\ compared' = IF j = 0 THEN compared ELSE [compared EXCEPT ![j] = @ + 1]
        /\ j \in 0 .. MaxCodes /\ a \in 1 .. Last
    BY SMTT(30), <1>0, <1>1, <1>8, LastType
       DEF CountAttempt, Pending, LoginTypeOK, CodesInOrder, GoOn, EndVisit, NoVisit
  <2>2. \A i \in 1 .. MaxCodes : compared'[i] = IF i = j THEN compared[i] + 1 ELSE compared[i]
    BY <1>0, <1>1, <2>1 DEF LoginTypeOK
  <2> QED BY <1>1, <1>2, <2>1, <2>2
<1> QED
  BY <1>0, <1>4, <1>5, <1>6, <1>7, <1>8, LoginSteps

LEMMA LoginInitially == LoginInit => LoginTypeOK /\ CodesInOrder
BY LoginAssumption, LastType DEF LoginInit, LoginTypeOK, CodesInOrder, NoOtp, NoVisit

\* Types of the code, its attempts, the window and the visits, for any visitors.
THEOREM LoginTypeCorrect == LoginSpec => []LoginTypeOK
<1> QED BY LoginInitially, LoginTypeStep, PTL DEF LoginSpec

\* auth.py counts attempts to bound them: whatever the limits, the codes that are asked for
\* and the deaths of requests, a code is compared with at most L guesses when one request
\* runs at a time, and with L(L+3)/2 when two can overlap.
THEOREM GuessesAreBounded ==
    ASSUME NEW v, NEW w, Visitors = {v, w} PROVE LoginSpec => []GuessesBounded
<1>0. LoginInit => LoginTypeOK /\ CodesInOrder
  BY LoginInitially
<1>1. CASE v = w
  <2>0. Visitors = {v} /\ Cardinality(Visitors) = 1
    BY <1>1, FS_Singleton
  <2>1. LoginInit => OneInv(v)
    <3> SUFFICES ASSUME LoginInit PROVE OneInv(v)
      OBVIOUS
    <3>1. otp.code = 0 /\ visit[v].pc = "idle" /\ \A i \in 1 .. MaxCodes : compared[i] = 0
      BY <2>0, LoginBounds DEF LoginInit
    <3> QED BY <1>0, <3>1, LoginBounds DEF OneInv, Pending
  <2>2. OneInv(v) => GuessesBounded
    BY <2>0 DEF OneInv, GuessesBounded, Last
  <2>3. OneInv(v) /\ [LoginNext]_loginVars => OneInv(v)'
    BY <2>0, OneStep
  <2> QED BY <2>1, <2>2, <2>3, PTL DEF LoginSpec
<1>2. CASE v # w
  <2>0. Cardinality(Visitors) # 1
    <3>1. IsFiniteSet({v}) /\ Cardinality({v}) = 1
      BY FS_Singleton
    <3>2. Cardinality({v} \union {w}) = 2
      BY <1>2, <3>1, FS_AddElement
    <3> QED BY <3>2, {v} \union {w} = {v, w}
  <2>1. LoginInit => TwoInv(v, w)
    <3> SUFFICES ASSUME LoginInit PROVE TwoInv(v, w)
      OBVIOUS
    <3>1. \A i \in 1 .. MaxCodes : i # otp.code /\ compared[i] = 0
      BY DEF LoginInit, NoOtp
    <3>2. \A u \in Visitors, i \in 1 .. MaxCodes : Guess(u, i) = 0
      BY DEF LoginInit, NoVisit, Guess, Pending
    <3>3. 2 * (0 + 0 + 0) <= T(Last)
      BY LastType, TriangleType
    <3> QED BY <1>0, <3>1, <3>2, <3>3 DEF TwoInv, PastCode
  <2>2. TwoInv(v, w) => GuessesBounded
    <3> SUFFICES ASSUME TwoInv(v, w), NEW i \in 1 .. MaxCodes
                 PROVE  compared[i] <= ((MaxAttempts - 1) * ((MaxAttempts - 1) + 3)) \div 2
      BY <2>0 DEF GuessesBounded
    <3>1. compared[i] \in Nat /\ otp.attempts \in 0 .. Last
      BY LastType DEF TwoInv, LoginTypeOK, CodesInOrder
    <3>2. 2 * compared[i] <= T(Last)
      <4>1. CASE i = otp.code
        BY <3>1, <4>1, RoomEnds DEF TwoInv, PresentCode
      <4>2. CASE i # otp.code
        <5>1. 2 * (compared[i] + Guess(v, i) + Guess(w, i)) <= T(Last)
          BY <4>2 DEF TwoInv, PastCode
        <5>2. Guess(v, i) \in {0, 1} /\ Guess(w, i) \in {0, 1} /\ T(Last) \in Nat
          BY LastType, Triangle DEF Guess
        <5> QED BY <3>1, <5>1, <5>2
      <4> QED BY <4>1, <4>2
    <3>3. T(Last) \in Nat /\ T(Last) = (MaxAttempts - 1) * ((MaxAttempts - 1) + 3)
      BY LastType, Triangle DEF T, Last
    <3>4. \A x, y \in Nat : 2 * x <= y => x <= y \div 2
      OBVIOUS
    <3> QED BY <3>1, <3>2, <3>3, <3>4
  <2>3. TwoInv(v, w) /\ [LoginNext]_loginVars => TwoInv(v, w)'
    BY <1>2, TwoStep
  <2> QED BY <2>1, <2>2, <2>3, PTL DEF LoginSpec
<1> QED BY <1>1, <1>2

-----------------------------------------------------------------------------
(* Access.  A chart of a cookie was made in that browser, so nobody else   *)
(* has it in theirs, and signing in claims it; that a page of the newest   *)
(* charts shows it is a count of the charts made after it.                 *)

Documents == [chart : Leaves, ready : BOOLEAN]

AccessInv ==
    /\ holder \in [Leaves -> People \union {NoOne, Unmade}]
    /\ made \in Seq(Leaves)
    /\ cookie \in [People -> SUBSET Leaves]
    /\ signed \subseteq People
    /\ papers \in Seq(Documents)
    /\ \A i, j \in DOMAIN made : made[i] = made[j] => i = j
    /\ \A c \in Leaves : holder[c] # Unmade <=> \E i \in DOMAIN made : made[i] = c
    /\ \A v \in People : \A c \in cookie[v] : /\ holder[c] = v \/ holder[c] = NoOne
                                              /\ v \in signed => holder[c] = v
    /\ \A v, w \in People : v # w => cookie[v] \intersect cookie[w] = {}

LEMMA PapersKept ==
  ASSUME papers \in Seq(Documents),
         \/ papers' = papers
         \/ \E c \in Leaves : NewPaper(c)
         \/ \E p \in DOMAIN papers : papers' = [papers EXCEPT ![p].ready = TRUE]
  PROVE  papers' \in Seq(Documents)
<1>1. CASE papers' = papers
  BY <1>1
<1>2. ASSUME NEW c \in Leaves, NewPaper(c) PROVE papers' \in Seq(Documents)
  <2> DEFINE row == [chart |-> c, ready |-> FALSE]
  <2>1. row \in Documents
    BY DEF Documents
  <2>2. papers' = Append(papers, row)
    BY <1>2 DEF NewPaper
  <2> HIDE DEF row
  <2> QED BY <2>1, <2>2
<1>3. ASSUME NEW p \in DOMAIN papers, papers' = [papers EXCEPT ![p].ready = TRUE]
      PROVE  papers' \in Seq(Documents)
  <2>1. papers[p] \in Documents
    OBVIOUS
  <2>2. [papers[p] EXCEPT !.ready = TRUE] \in Documents
    BY <2>1 DEF Documents
  <2>3. PICK row \in Documents : papers' = [papers EXCEPT ![p] = row]
    BY <1>3, <2>2
  <2> QED BY <2>3
<1> QED BY <1>1, <1>2, <1>3

\* Steps that make and claim no chart.
LEMMA OthersStep ==
  ASSUME AccessInv, UNCHANGED <<holder, made, cookie>>, signed' \subseteq signed,
         papers' \in Seq(Documents)
  PROVE  AccessInv'
BY DEF AccessInv

LEMMA MakeStep ==
  ASSUME AccessInv, NEW v \in People, NEW c \in Leaves, MakeChart(v, c) PROVE AccessInv'
<1> USE AccessAssumption DEF AccessInv
<1>1. PICK h \in {v, NoOne} : /\ holder' = [holder EXCEPT ![c] = h]
                              /\ v \in signed => h = v
  BY DEF MakeChart
<1>2. /\ holder[c] = Unmade /\ UNCHANGED <<signed, papers>>
      /\ made' = Append(made, c) /\ cookie' = [cookie EXCEPT ![v] = @ \union {c}]
  BY DEF MakeChart
<1>3. NoOne # Unmade
  BY DEF NoOne, Unmade
<1>4. /\ made' \in Seq(Leaves) /\ Len(made) \in Nat
      /\ DOMAIN made = 1 .. Len(made) /\ DOMAIN made' = 1 .. Len(made) + 1
      /\ \A i \in 1 .. Len(made) : made'[i] = made[i] /\ made[i] # c
      /\ made'[Len(made) + 1] = c
  BY <1>2
<1>5. /\ holder' \in [Leaves -> People \union {NoOne, Unmade}]
      /\ holder'[c] = h /\ \A d \in Leaves \ {c} : holder'[d] = holder[d]
  BY <1>1
<1>6. /\ cookie' \in [People -> SUBSET Leaves]
      /\ cookie'[v] = cookie[v] \union {c} /\ \A w \in People \ {v} : cookie'[w] = cookie[w]
      /\ \A w \in People : c \notin cookie[w]
  <2>1. \A w \in People : c \notin cookie[w]
    BY <1>2, <1>3
  <2> QED BY <1>2, <2>1
<1>7. \A i, j \in DOMAIN made' : made'[i] = made'[j] => i = j
  <2>1. \A i \in DOMAIN made' : i \in 1 .. Len(made) \/ i = Len(made) + 1
    BY <1>4
  <2>2. \A i, j \in 1 .. Len(made) : made[i] = made[j] => i = j
    BY <1>4
  <2> QED BY <1>4, <2>1, <2>2
<1>8. ASSUME NEW d \in Leaves
      PROVE  holder'[d] # Unmade <=> \E i \in DOMAIN made' : made'[i] = d
  <2>1. CASE d = c
    <3>1. Len(made) + 1 \in DOMAIN made' /\ made'[Len(made) + 1] = d
      BY <1>4, <2>1
    <3>2. holder'[d] # Unmade
      BY <1>3, <1>5, <2>1
    <3> QED BY <3>1, <3>2
  <2>2. CASE d # c
    BY <1>4, <1>5, <2>2
  <2> QED BY <2>1, <2>2
<1>9. ASSUME NEW w \in People, NEW d \in cookie'[w]
      PROVE  (holder'[d] = w \/ holder'[d] = NoOne) /\ (w \in signed' => holder'[d] = w)
  <2>1. CASE d = c
    <3>1. w = v
      BY <1>6, <2>1
    <3> QED BY <1>1, <1>2, <1>5, <2>1, <3>1
  <2>2. CASE d # c
    <3>1. d \in cookie[w] /\ d \in Leaves
      BY <1>6, <2>2
    <3> QED BY <1>2, <1>5, <2>2, <3>1
  <2> QED BY <2>1, <2>2
<1>10. \A w, x \in People : w # x => cookie'[w] \intersect cookie'[x] = {}
  BY <1>6
<1> QED BY <1>2, <1>4, <1>5, <1>6, <1>7, <1>8, <1>9, <1>10

LEMMA SignInStep ==
  ASSUME AccessInv, NEW v \in People, SignIn(v) PROVE AccessInv'
<1> USE AccessAssumption DEF AccessInv
<1>1. /\ signed' = signed \union {v} /\ UNCHANGED <<made, cookie, papers>>
      /\ holder' = [c \in Leaves |-> IF c \in cookie[v] /\ holder[c] = NoOne THEN v
                                     ELSE holder[c]]
  BY DEF SignIn
<1>2. NoOne # Unmade
  BY DEF NoOne, Unmade
<1>3. /\ holder' \in [Leaves -> People \union {NoOne, Unmade}]
      /\ \A c \in Leaves : holder'[c] # Unmade <=> holder[c] # Unmade
  BY <1>1, <1>2
<1>4. ASSUME NEW w \in People, NEW d \in cookie'[w]
      PROVE  (holder'[d] = w \/ holder'[d] = NoOne) /\ (w \in signed' => holder'[d] = w)
  <2>1. d \in cookie[w] /\ d \in Leaves
    BY <1>1
  <2>2. CASE w = v
    BY <1>1, <2>1, <2>2
  <2>3. CASE w # v
    <3>1. d \notin cookie[v]
      BY <2>1, <2>3
    <3> QED BY <1>1, <2>1, <2>3, <3>1
  <2> QED BY <2>2, <2>3
<1> QED BY <1>1, <1>3, <1>4

LEMMA AccessStep == AccessInv /\ [AccessNext]_accessVars => AccessInv'
<1> SUFFICES ASSUME AccessInv, [AccessNext]_accessVars PROVE AccessInv'
  OBVIOUS
<1>0. papers \in Seq(Documents)
  BY DEF AccessInv
<1>1. ASSUME NEW v \in People, SignIn(v) PROVE AccessInv'
  BY <1>1, SignInStep
<1>2. ASSUME NEW v \in People, SignOut(v) PROVE AccessInv'
  BY <1>0, <1>2, OthersStep DEF SignOut
<1>3. ASSUME NEW v \in People, PayForCredits(v) PROVE AccessInv'
  BY <1>0, <1>3, OthersStep DEF PayForCredits
<1>4. ASSUME NEW v \in People, NEW c \in Leaves, MakeChart(v, c) PROVE AccessInv'
  BY <1>4, MakeStep
<1>5. ASSUME NEW v \in People, NEW c \in Leaves, BuyReport(v, c) PROVE AccessInv'
  <2>1. papers' = papers \/ NewPaper(c)
    BY <1>5 DEF BuyReport
  <2> QED BY <1>0, <1>5, <2>1, PapersKept, OthersStep DEF BuyReport
<1>6. ASSUME NEW v \in People, NEW c \in Leaves, CreateReport(v, c) PROVE AccessInv'
  BY <1>0, <1>6, PapersKept, OthersStep DEF CreateReport
<1>7. ASSUME NEW v \in People, NEW c \in Leaves, Talk(v, c) PROVE AccessInv'
  BY <1>0, <1>7, OthersStep DEF Talk
<1>8. ASSUME NEW v \in People, NEW w \in People, NEW c \in Leaves, ShareChart(v, w, c)
      PROVE  AccessInv'
  BY <1>0, <1>8, OthersStep DEF ShareChart
<1>9. ASSUME NEW v \in People, NEW c \in Leaves, NEW plan \in Plans, PayForChart(v, c, plan)
      PROVE  AccessInv'
  <2>1. papers' = papers \/ NewPaper(c)
    BY <1>9 DEF PayForChart
  <2> QED BY <1>0, <1>9, <2>1, PapersKept, OthersStep DEF PayForChart
<1>10. ASSUME NEW v \in People, NEW c \in Leaves, NEW kind \in Extras, BuyExtra(v, kind, c)
       PROVE  AccessInv'
  BY <1>0, <1>10, OthersStep DEF BuyExtra
<1>11. ASSUME NEW p \in DOMAIN papers, PaperReady(p) PROVE AccessInv'
  BY <1>0, <1>11, PapersKept, OthersStep DEF PaperReady
<1>12. ASSUME NEW c \in Leaves, SubscriptionEnds(c) PROVE AccessInv'
  BY <1>0, <1>12, OthersStep DEF SubscriptionEnds
<1>13. CASE UNCHANGED accessVars
  BY <1>0, <1>13, OthersStep DEF accessVars
<1> QED
  BY <1>1, <1>2, <1>3, <1>4, <1>5, <1>6, <1>7, <1>8, <1>9, <1>10, <1>11, <1>12, <1>13
     DEF AccessNext

\* The charts made after one of a reader's are fewer than all the charts of that reader.
LEMMA FewAfter ==
  ASSUME AccessInv, NEW v \in People, NEW j \in DOMAIN made, made[j] \in ChartsOf(v)
  PROVE  Cardinality({k \in DOMAIN made : k > j /\ made[k] \in ChartsOf(v)})
           < Cardinality(ChartsOf(v))
<1> DEFINE after == {k \in DOMAIN made : k > j /\ made[k] \in ChartsOf(v)}
           others == ChartsOf(v) \ {made[j]}
           f == [k \in after |-> made[k]]
<1>1. IsFiniteSet(ChartsOf(v)) /\ ChartsOf(v) \subseteq Leaves
  <2>1. ChartsOf(v) \in SUBSET Leaves
    BY DEF ChartsOf
  <2> QED BY <2>1, AccessAssumption, FS_Subset
<1>2. /\ IsFiniteSet(others) /\ Cardinality(others) = Cardinality(ChartsOf(v)) - 1
      /\ Cardinality(ChartsOf(v)) \in Nat
  BY <1>1, FS_RemoveElement, FS_CardinalityType
<1>3. f \in Injection(after, others)
  <2>1. DOMAIN made \subseteq Int
    BY DEF AccessInv
  <2>2. \A k \in after : made[k] \in others
    BY <2>1 DEF AccessInv
  <2>3. f \in [after -> others]
    BY <2>2
  <2>4. \A k, l \in after : f[k] = f[l] => k = l
    BY DEF AccessInv
  <2> HIDE DEF f, after, others
  <2> QED BY <2>3, <2>4 DEF Injection, IsInjective
<1> HIDE DEF f, others
<1>4. IsFiniteSet(after) /\ Cardinality(after) <= Cardinality(others)
  <2> HIDE DEF after
  <2> QED BY <1>2, <1>3, FS_Injection
<1>5. Cardinality(after) \in Nat
  BY <1>4, FS_CardinalityType
<1> QED BY <1>2, <1>4, <1>5

LEMMA OwnerHasAll ==
  ASSUME AccessInv, NEW v \in signed, NEW c \in Leaves, holder[c] = v PROVE HasAll(v, c)
<1> USE AccessAssumption
<1>1. v \in People /\ c \in ChartsOf(v) /\ MayOpenChart(v, c) /\ c # NoChart
  BY DEF AccessInv, ChartsOf, MayOpenChart
<1>2. Cardinality(ChartsOf(v)) <= Recent => TodayPage(v, c) = "shown"
  <2> SUFFICES ASSUME Cardinality(ChartsOf(v)) <= Recent PROVE TodayPage(v, c) = "shown"
    OBVIOUS
  <2>1. PICK j \in DOMAIN made : made[j] = c
    BY <1>1 DEF AccessInv
  <2> DEFINE few == Cardinality({k \in DOMAIN made : k > j /\ made[k] \in ChartsOf(v)})
  <2>2. few < Cardinality(ChartsOf(v))
    BY <1>1, <2>1, FewAfter
  <2>3. few \in Nat /\ Cardinality(ChartsOf(v)) \in Nat
    <3>1. IsFiniteSet(ChartsOf(v))
      <4>1. ChartsOf(v) \in SUBSET Leaves
        BY DEF ChartsOf
      <4> QED BY <4>1, FS_Subset
    <3>2. IsFiniteSet(DOMAIN made)
      BY FS_Interval DEF AccessInv
    <3>3. {k \in DOMAIN made : k > j /\ made[k] \in ChartsOf(v)} \in SUBSET DOMAIN made
      OBVIOUS
    <3>4. IsFiniteSet({k \in DOMAIN made : k > j /\ made[k] \in ChartsOf(v)})
      BY <3>2, <3>3, FS_Subset
    <3> QED BY <3>1, <3>4, FS_CardinalityType
  <2>4. few < Recent
    <3> HIDE DEF few
    <3> QED BY <2>2, <2>3
  <2>5. c \in RecentOf(v)
    BY <1>1, <2>1, <2>4 DEF RecentOf
  <2> QED BY <1>1, <2>5 DEF TodayPage
<1>3. ASSUME NEW p \in DOMAIN papers, papers[p].chart = c, papers[p].ready
      PROVE  /\ (\E o \in BillsOf(c) : bills[o].paper = p) \/ Bound(v, p) => p \in Downloads(v)
             /\ p \in AccountReports(v)
             /\ p \in ReportsPage(v) \/ Len(papers) - p >= Shelf
  <2>1. (\E o \in BillsOf(c) : bills[o].paper = p) \/ Bound(v, p) => p \in Downloads(v)
    BY <1>1, <1>3 DEF BillsOf, Downloads, ReportGate
  <2>2. p \in AccountReports(v)
    BY <1>1, <1>3 DEF AccountReports
  <2>3. p \in Int /\ Len(papers) \in Int /\ Shelf \in Int
    BY DEF AccessInv
  <2>4. p \in ReportsPage(v) \/ Len(papers) - p >= Shelf
    BY <1>1, <1>3, <2>3 DEF ReportsPage
  <2> QED BY <2>1, <2>2, <2>4
<1>4. BillsOf(c) \subseteq AccountOrders(v) \intersect Receipts(v)
  BY <1>1 DEF BillsOf, AccountOrders, Receipts, OwnsOrder
<1>5. \A t \in tickets : t.who = v /\ t.chart = c /\ t.kind \in Extras => Reads(v, t.kind, c)
  BY <1>1 DEF Reads, Admitted
<1>6. c \in talked => c \in ChatsPage(v)
  BY <1>1 DEF ChatsPage
<1>7. Subscribed(c) => c \in SubscriptionsPage(v)
  BY <1>1 DEF SubscriptionsPage
<1>8. (\A o \in BillsOf(c) : bills[o].plan = "gold") /\ BillsOf(c) # {}
         => ChatVerdicts(c) = {TRUE}
  <2> SUFFICES ASSUME \A o \in BillsOf(c) : bills[o].plan = "gold", BillsOf(c) # {}
               PROVE  ChatVerdicts(c) = {TRUE}
    OBVIOUS
  <2>1. \A o \in BillsOf(c) :
            (bills[o].plan \in {"gold", "monthly"} /\ StillSubscribed(o)) = TRUE
    BY DEF StillSubscribed
  <2>2. ChatVerdicts(c) =
          {bills[o].plan \in {"gold", "monthly"} /\ StillSubscribed(o) : o \in BillsOf(c)}
    BY DEF ChatVerdicts
  <2> QED BY <2>1, <2>2, Zenon
<1> QED BY <1>1, <1>2, <1>3, <1>4, <1>5, <1>6, <1>7, <1>8 DEF HasAll

\* Whatever the numbers of readers, charts, links, orders and reports: what a reader made or
\* paid for as a guest is on their pages once they sign in, and opens for nobody else.
THEOREM AccessIsHeld == AccessSpec => []AccessHeld
<1>1. AccessInit => AccessInv
  BY AccessAssumption DEF AccessInit, AccessInv, Documents
<1>2. AccessInv => AccessHeld
  <2> SUFFICES ASSUME AccessInv PROVE AccessHeld
    OBVIOUS
  <2>1. ASSUME NEW v \in signed, NEW c \in cookie[v]
        PROVE  v \in People /\ c \in Leaves /\ holder[c] = v
    BY DEF AccessInv
  <2>2. ASSUME NEW v \in signed, NEW c \in cookie[v] PROVE HasAll(v, c)
    BY <2>1, OwnerHasAll
  <2>3. ASSUME NEW v \in signed, NEW c \in cookie[v], NEW w \in People \ {v}
        PROVE  /\ ~MayOpenChart(w, c)
               /\ \A p \in Downloads(w) : papers[p].chart # c
               /\ \A kind \in Extras : ~Reads(w, kind, c)
    <3>1. ~MayOpenChart(w, c)
      BY <2>1, AccessAssumption DEF MayOpenChart
    <3> QED BY <3>1 DEF Downloads, ReportGate, Reads
  <2> QED BY <2>2, <2>3 DEF AccessHeld
<1> QED BY <1>1, <1>2, AccessStep, PTL DEF AccessSpec

\* An edit that has read the article holds a number and a text of it.
LEMMA CommitTyped ==
    ASSUME ContentTypeOK, NEW e \in Editors, NEW text \in Texts, Commit(e, text)
    PROVE  ContentTypeOK'
<1>1. edit[e] \in [at : {"editing"}, number : 1 .. MaxVersion, read : Texts] /\ edit[e].number < MaxVersion
  BY DEF Commit, ContentTypeOK
<1>2. edit[e].number + 1 \in 1 .. MaxVersion /\ edit[e].number \in 1 .. MaxVersion /\ edit[e].read \in Texts
  BY <1>1, ContentAssumption
<1>3. \A f \in Editors : edit'[f] = Unread \/ edit'[f] = edit[f]
  BY DEF Commit, ContentTypeOK
<1>4. CASE article = Gone
  <2>1. UNCHANGED <<article, versions, lives, crossed>>
    BY <1>4 DEF Commit
  <2> QED BY <1>3, <2>1 DEF ContentTypeOK
<1>5. CASE article # Gone
  <2>1. PICK n \in 1 .. MaxVersion, t \in Texts : article = There(n, t)
    BY <1>5 DEF ContentTypeOK, Rows
  <2>2. article.text \in Texts
    BY <2>1 DEF There
  <2>3. Flushed(e, text) \in Texts
    BY <1>2, <2>2 DEF Flushed, Texts
  <2>4. /\ article' = There(edit[e].number + 1, Flushed(e, text))
        /\ versions' = versions \union {[number |-> edit[e].number, snapshot |-> edit[e].read]}
        /\ lives' = lives \union {Flushed(e, text)}
        /\ crossed' \subseteq crossed \union {article.text, Flushed(e, text)}
    BY <1>5 DEF Commit, Write
  <2>5. article' \in Rows
    BY <1>2, <2>3, <2>4 DEF Rows
  <2>6. versions' \subseteq [number : 1 .. MaxVersion, snapshot : Texts]
    BY <1>2, <2>4 DEF ContentTypeOK
  <2>7. lives' \subseteq Texts /\ crossed' \subseteq Texts
    BY <2>2, <2>3, <2>4 DEF ContentTypeOK
  <2> QED BY <1>3, <2>5, <2>6, <2>7 DEF ContentTypeOK
<1> QED BY <1>4, <1>5

\* Types of the article, its revisions and the requests that edit it.
THEOREM ContentTypeCorrect == ContentSpec => []ContentTypeOK
<1>1. ContentInit => ContentTypeOK
  BY DEF ContentInit, ContentTypeOK, Rows
<1>2. ContentTypeOK /\ [ContentNext]_contentVars => ContentTypeOK'
  <2> SUFFICES ASSUME ContentTypeOK, [ContentNext]_contentVars PROVE ContentTypeOK'
    OBVIOUS
  <2>1. ASSUME NEW text \in Texts, CreateArticle(text) PROVE ContentTypeOK'
    <3>1. 1 \in 1 .. MaxVersion
      BY ContentAssumption
    <3>2. /\ article' = There(1, text) /\ versions' = {[number |-> 1, snapshot |-> text]}
          /\ lives' = {text} /\ edit' = edit /\ crossed' = crossed
      BY <2>1 DEF CreateArticle
    <3>3. article' \in Rows
      BY <3>1, <3>2 DEF Rows
    <3> QED BY <3>1, <3>2, <3>3 DEF ContentTypeOK
  <2>2. ASSUME NEW e \in Editors, ReadArticle(e) PROVE ContentTypeOK'
    <3>1. PICK n \in 1 .. MaxVersion, t \in Texts : article = There(n, t)
      BY <2>2 DEF ReadArticle, ContentTypeOK, Rows
    <3>2. article.version = n /\ article.text = t
      BY <3>1 DEF There
    <3>3. [at |-> "editing", number |-> article.version, read |-> article.text]
             \in [at : {"editing"}, number : 1 .. MaxVersion, read : Texts]
      BY <3>2
    <3>4. \A f \in Editors :
             edit'[f] = edit[f]
             \/ edit'[f] = [at |-> "editing", number |-> article.version, read |-> article.text]
      BY <2>2 DEF ReadArticle
    <3>5. UNCHANGED <<article, versions, lives, crossed>>
      BY <2>2 DEF ReadArticle
    <3> QED BY <3>3, <3>4, <3>5 DEF ContentTypeOK
  <2>3. ASSUME NEW e \in Editors, UpdateArticle(e) PROVE ContentTypeOK'
    BY <2>3, CommitTyped DEF UpdateArticle
  <2>4. ASSUME NEW e \in Editors, RestoreArticle(e) PROVE ContentTypeOK'
    <3>1. PICK v \in versions : Commit(e, v.snapshot)
      BY <2>4 DEF RestoreArticle
    <3>2. v.snapshot \in Texts
      BY DEF ContentTypeOK
    <3> QED BY <3>1, <3>2, CommitTyped
  <2>5. CASE DeleteArticle
    BY <2>5 DEF DeleteArticle, ContentTypeOK, Rows
  <2>6. CASE UNCHANGED contentVars
    BY <2>6 DEF contentVars, ContentTypeOK
  <2> QED BY <2>1, <2>2, <2>3, <2>4, <2>5, <2>6 DEF ContentNext
<1> QED BY <1>1, <1>2, PTL DEF ContentSpec

\* What readers were sent, have paid for, hold and talk about.
Bills == [chart : Leaves \union {NoChart}, plan : Plans, payer : People \union {NoOne},
          paper : 0 .. MaxPapers]
Tickets == [who : People, kind : Extras \union {"report"}, chart : Leaves, paper : 0 .. MaxPapers]

BooksTyped ==
    /\ links \in [People -> SUBSET Leaves]
    /\ bills \in Seq(Bills) /\ tickets \subseteq Tickets
    /\ talked \subseteq Leaves /\ lapsed \subseteq Leaves

\* The next report has a number within the bound.
LEMMA NextPaper ==
    ASSUME AccessInv, Len(papers) < MaxPapers
    PROVE  Len(papers) + 1 \in 0 .. MaxPapers
<1>1. Len(papers) \in Nat
  BY DEF AccessInv
<1> QED BY <1>1, AccessAssumption

LEMMA BillAdded ==
    ASSUME bills \in Seq(Bills), NEW b \in Bills, bills' = Append(bills, b)
    PROVE  bills' \in Seq(Bills)
OBVIOUS

LEMMA BooksStep == AccessInv /\ BooksTyped /\ [AccessNext]_accessVars => BooksTyped'
<1> SUFFICES ASSUME AccessInv, BooksTyped, [AccessNext]_accessVars PROVE BooksTyped'
  OBVIOUS
<1>0. 0 \in 0 .. MaxPapers
  BY AccessAssumption
<1>1. ASSUME NEW v \in People, SignIn(v) \/ SignOut(v) PROVE BooksTyped'
  BY <1>1 DEF SignIn, SignOut, BooksTyped
<1>2. ASSUME NEW v \in People, PayForCredits(v) PROVE BooksTyped'
  <2> DEFINE b == [chart |-> NoChart, plan |-> "credit3", payer |-> v, paper |-> 0]
  <2>1. b \in Bills
    BY <1>0, <1>2 DEF Bills, PayForCredits
  <2>2. bills' = Append(bills, b) /\ UNCHANGED <<links, tickets, talked, lapsed>>
    BY <1>2 DEF PayForCredits
  <2> HIDE DEF b
  <2>3. bills' \in Seq(Bills)
    BY <2>1, <2>2, BillAdded DEF BooksTyped
  <2> QED BY <2>2, <2>3 DEF BooksTyped
<1>3. ASSUME NEW v \in People, NEW c \in Leaves, MakeChart(v, c) PROVE BooksTyped'
  BY <1>3 DEF MakeChart, BooksTyped
<1>4. ASSUME NEW v \in People, NEW c \in Leaves, BuyReport(v, c) PROVE BooksTyped'
  <2> DEFINE p == IF LatestPaper(c) # 0 THEN 0 ELSE Len(papers) + 1
             t == [who |-> v, kind |-> "report", chart |-> c, paper |-> p]
  <2>1. /\ tickets' = tickets \union {t} /\ UNCHANGED <<links, bills, talked, lapsed>>
        /\ p = 0 \/ Len(papers) < MaxPapers
    BY <1>4 DEF BuyReport
  <2>2. p \in 0 .. MaxPapers
    BY <1>0, <2>1, NextPaper
  <2> HIDE DEF p
  <2>3. t \in Tickets
    BY <2>2 DEF Tickets
  <2> QED BY <2>1, <2>3 DEF BooksTyped
<1>5. ASSUME NEW v \in People, NEW c \in Leaves, CreateReport(v, c) PROVE BooksTyped'
  <2>1. /\ UNCHANGED <<links, bills, talked, lapsed>> /\ Len(papers) < MaxPapers
        /\ \A t \in tickets' : t \in tickets \/ \E u \in tickets : t = [u EXCEPT !.paper = Len(papers) + 1]
    BY <1>5 DEF CreateReport
  <2>2. Len(papers) + 1 \in 0 .. MaxPapers
    BY <2>1, NextPaper
  <2>3. \A u \in Tickets : [u EXCEPT !.paper = Len(papers) + 1] \in Tickets
    BY <2>2 DEF Tickets
  <2>4. tickets' \subseteq Tickets
    BY <2>1, <2>3 DEF BooksTyped
  <2> QED BY <2>1, <2>4 DEF BooksTyped
<1>6. ASSUME NEW v \in People, NEW c \in Leaves, Talk(v, c) PROVE BooksTyped'
  BY <1>6 DEF Talk, BooksTyped
<1>7. ASSUME NEW v \in People, NEW w \in People, NEW c \in Leaves, ShareChart(v, w, c) PROVE BooksTyped'
  <2>1. links' = [links EXCEPT ![w] = @ \union {c}] /\ UNCHANGED <<bills, tickets, talked, lapsed>>
    BY <1>7 DEF ShareChart
  <2> QED BY <2>1 DEF BooksTyped
<1>8. ASSUME NEW v \in People, NEW c \in Leaves, NEW plan \in Plans, PayForChart(v, c, plan)
      PROVE  BooksTyped'
  <2> DEFINE b == [chart |-> c, plan |-> plan, payer |-> IF v \in signed THEN v ELSE NoOne,
                   paper |-> IF plan = "monthly" THEN 0 ELSE Len(papers) + 1]
  <2>1. /\ bills' = Append(bills, b) /\ UNCHANGED <<links, tickets, talked>>
        /\ lapsed' \in {lapsed, lapsed \ {c}}
        /\ plan = "monthly" \/ Len(papers) < MaxPapers
    BY <1>8 DEF PayForChart
  <2>2. (IF plan = "monthly" THEN 0 ELSE Len(papers) + 1) \in 0 .. MaxPapers
    BY <1>0, <2>1, NextPaper
  <2>3. b \in Bills
    BY <2>2 DEF Bills
  <2> HIDE DEF b
  <2>4. bills' \in Seq(Bills)
    BY <2>1, <2>3, BillAdded DEF BooksTyped
  <2> QED BY <2>1, <2>4 DEF BooksTyped
<1>9. ASSUME NEW v \in People, NEW c \in Leaves, NEW kind \in Extras, BuyExtra(v, kind, c)
      PROVE  BooksTyped'
  <2>1. [who |-> v, kind |-> kind, chart |-> c, paper |-> 0] \in Tickets
    BY <1>0 DEF Tickets
  <2> QED BY <1>9, <2>1 DEF BuyExtra, BooksTyped
<1>10. ASSUME NEW p \in DOMAIN papers, PaperReady(p) PROVE BooksTyped'
  BY <1>10 DEF PaperReady, BooksTyped
<1>11. ASSUME NEW c \in Leaves, SubscriptionEnds(c) PROVE BooksTyped'
  BY <1>11 DEF SubscriptionEnds, BooksTyped
<1>12. CASE UNCHANGED accessVars
  BY <1>12 DEF accessVars, BooksTyped
<1> QED
  BY <1>1, <1>2, <1>3, <1>4, <1>5, <1>6, <1>7, <1>8, <1>9, <1>10, <1>11, <1>12 DEF AccessNext

\* Types of charts, cookies, links, orders, entitlements and reports.
THEOREM AccessTypeCorrect == AccessSpec => []AccessTypeOK
<1>1. AccessInit => AccessInv /\ BooksTyped
  <2>1. AccessInit => AccessInv
    BY AccessAssumption DEF AccessInit, AccessInv, Documents
  <2>2. AccessInit => BooksTyped
    BY DEF AccessInit, BooksTyped
  <2> QED BY <2>1, <2>2
<1>2. AccessInv /\ BooksTyped => AccessTypeOK
  <2> SUFFICES ASSUME AccessInv, BooksTyped PROVE AccessTypeOK
    OBVIOUS
  <2>1. \A p \in DOMAIN papers : papers[p] \in Documents
    BY DEF AccessInv
  <2>2. \A o \in DOMAIN bills : bills[o] \in Bills
    BY DEF BooksTyped
  <2>3. /\ holder \in [Leaves -> People \union {NoOne, Unmade}]
        /\ made \in Seq(Leaves)
        /\ cookie \in [People -> SUBSET Leaves]
        /\ signed \subseteq People
    BY DEF AccessInv
  <2>4. /\ links \in [People -> SUBSET Leaves]
        /\ tickets \subseteq Tickets
        /\ talked \subseteq Leaves /\ lapsed \subseteq Leaves
    BY DEF BooksTyped
  <2>5. \A p \in DOMAIN papers : papers[p] \in [chart : Leaves, ready : BOOLEAN]
    BY <2>1 DEF Documents
  <2>6. \A o \in DOMAIN bills :
          bills[o] \in [chart : Leaves \union {NoChart}, plan : Plans,
                        payer : People \union {NoOne}, paper : 0 .. MaxPapers]
    BY <2>2, Zenon DEF Bills
  <2>7. tickets \subseteq [who : People, kind : Extras \union {"report"}, chart : Leaves,
                          paper : 0 .. MaxPapers]
    BY <2>4, Zenon DEF Tickets
  <2> QED BY <2>3, <2>4, <2>5, <2>6, <2>7 DEF AccessTypeOK
<1>3. AccessInv /\ BooksTyped /\ [AccessNext]_accessVars => AccessInv' /\ BooksTyped'
  BY AccessStep, BooksStep
<1> QED BY <1>1, <1>2, <1>3, PTL DEF AccessSpec

-----------------------------------------------------------------------------
(* The subscription of a chart.                                            *)

\* What the orders activated so far paid for.
PaidTime == Total(Days, Activated)

\* A settlement writes what it read, and what it read was paid for.
ReadingsArePaid ==
    /\ sub.expires <= clock + PaidTime
    /\ \A o \in SubOrders :
          /\ settling[o].at <= clock
          /\ settling[o].pc = "read" => settling[o].expires <= clock + PaidTime
          /\ settling[o].there => sub.there

\* Grants belong to a row that is there.
GrantsHaveRow ==
    ~sub.there => grants = {} /\ \A o \in SubOrders : settling[o].pc \notin {"active", "granting"}

\* This month's grant is seen by who reads the row, and its key by who does not read it
\* again, as long as nobody carries a reading over from another tick.
ThisMonthIsKnown ==
    /\ \A g \in grants : g.made <= clock
    /\ (\E g \in grants : LocalMonth(g.made) = LocalMonth(clock)) /\ LocalMonth(clock) \notin straddled =>
          /\ sub.last # Never /\ LocalMonth(sub.last) = LocalMonth(clock)
          /\ \A o \in SubOrders : settling[o].pc = "granting" /\ settling[o].at = clock =>
                \E h \in grants : h.key = UtcMonth(clock)

SubInv ==
    /\ SubTypeOK
    /\ ReadingsArePaid
    /\ GrantsHaveRow
    /\ ThisMonthIsKnown
    /\ CreditsOncePerMonth

LEMMA MonthsGrow == \A s, t \in Nat : /\ LocalMonth(s) \in Nat /\ UtcMonth(s) \in Nat
                                       /\ s <= t => LocalMonth(s) <= LocalMonth(t)
  BY DEF LocalMonth, UtcMonth

LEMMA DaysType == Days \in [SubOrders -> Nat] /\ Days \in [SubOrders -> Int] /\ IsFiniteSet(SubOrders)
  BY SubscriptionsAssumption DEF Days

LEMMA PaidTimeType == PaidTime \in Nat
<1>1. Activated \in SUBSET SubOrders
  BY DEF Activated
<1> QED BY <1>1, DaysType, TotalIsNat DEF PaidTime

\* Settlements never go back before their activation.
LEMMA MonotonePaid ==
    ASSUME SubTypeOK, NEW o \in SubOrders, NEW n \in Settlement,
           settling' = [settling EXCEPT ![o] = n]
    PROVE  /\ PaidTime' \in Nat
           /\ (settling[o].pc \in {"active", "granting", "paid", "refunded"} <=>
                n.pc \in {"active", "granting", "paid", "refunded"}) => PaidTime' = PaidTime
           /\ /\ n.pc \in {"active", "granting", "paid", "refunded"}
              /\ settling[o].pc \notin {"active", "granting", "paid", "refunded"}
              => PaidTime' = PaidTime + Days[o]
<1>1. settling \in [SubOrders -> Settlement]
  BY DEF SubTypeOK
<1>2. \A p \in SubOrders : settling'[p] = IF p = o THEN n ELSE settling[p]
  BY <1>1
<1>3. Activated \in SUBSET SubOrders /\ Activated' \in SUBSET SubOrders
  BY DEF Activated
<1>4. PaidTime' = Total(Days, Activated')
  BY DEF PaidTime, Total, MapThenSumSet, MapThenFoldSet, Days, Activated
<1>5. Total(Days, Activated') \in Nat
  BY <1>3, DaysType, TotalIsNat
<1>6. ASSUME settling[o].pc \in {"active", "granting", "paid", "refunded"} <=>
                n.pc \in {"active", "granting", "paid", "refunded"}
      PROVE  PaidTime' = PaidTime
  <2>1. Activated' = Activated
    BY <1>2, <1>6 DEF Activated
  <2> QED BY <1>4, <2>1 DEF PaidTime
<1>7. ASSUME n.pc \in {"active", "granting", "paid", "refunded"},
             settling[o].pc \notin {"active", "granting", "paid", "refunded"}
      PROVE  PaidTime' = PaidTime + Days[o]
  <2>1. Activated' = Activated \union {o} /\ o \notin Activated
    BY <1>2, <1>7 DEF Activated
  <2>2. Total(Days, Activated \union {o}) = Total(Days, Activated) + Days[o]
    BY <1>3, <2>1, DaysType, TotalWith
  <2> QED BY <1>4, <2>1, <2>2 DEF PaidTime
<1> QED BY <1>4, <1>5, <1>6, <1>7

Bought == [there : BOOLEAN, active : BOOLEAN, expires : Nat, order : SUBSET SubOrders,
           last : Never .. LastTick]

\* Steps by which a settlement, or none, moves, and the row of the subscription may.
LEMMA ReadingTypes ==
    ASSUME SubTypeOK
    PROVE  /\ \A pc \in {"read"} : Reading(pc, sub, clock) \in Settlement
           /\ \A pc \in {"active", "granting", "paid", "refunded", "stuck"}, t \in Nat :
                 Reading(pc, NoSub, t) \in Settlement
           /\ sub \in Bought /\ clock \in 0 .. LastTick /\ LastTick \in Nat
           /\ settling \in [SubOrders -> Settlement]
  BY SubscriptionsAssumption DEF SubTypeOK, Reading, Settlement, NoSub, Never, Bought

\* A step of settlement o that leaves the grants alone.
LEMMA SettlementMoves ==
    ASSUME SubInv, NEW o \in SubOrders, NEW n \in Settlement,
           settling' = [settling EXCEPT ![o] = n], UNCHANGED <<clock, grants, straddled>>,
           sub' \in Bought, sub'.there = (sub.there \/ n.pc = "active"),
           sub.there => sub'.last = sub.last, n.at <= clock,
           n.pc \in {"active", "granting", "paid", "refunded"} \/
               settling[o].pc \notin {"active", "granting", "paid", "refunded"},
           sub'.expires <= clock + PaidTime',
           n.pc = "read" => n.expires <= clock + PaidTime,
           n.there => sub'.there,
           n.pc \in {"active", "granting"} => sub'.there,
           n.pc = "granting" => /\ n.at = clock
                                /\ ~ (sub.last # Never /\ LocalMonth(sub.last) = LocalMonth(clock))
    PROVE  SubInv'
<1>1. SubTypeOK /\ ReadingsArePaid /\ GrantsHaveRow /\ ThisMonthIsKnown /\ CreditsOncePerMonth
  BY DEF SubInv
<1>2. settling \in [SubOrders -> Settlement] /\ clock \in Nat
  BY <1>1, ReadingTypes
<1>3. \A p \in SubOrders : settling'[p] = IF p = o THEN n ELSE settling[p]
  BY <1>2
<1>4. PaidTime \in Nat /\ PaidTime' \in Nat /\ PaidTime <= PaidTime'
  <2>1. PaidTime \in Nat /\ Days[o] \in Nat
    BY PaidTimeType, DaysType
  <2> DEFINE D == {"active", "granting", "paid", "refunded"}
  <2>2. /\ PaidTime' \in Nat
        /\ (settling[o].pc \in D <=> n.pc \in D) => PaidTime' = PaidTime
        /\ n.pc \in D /\ settling[o].pc \notin D => PaidTime' = PaidTime + Days[o]
    BY <1>1, MonotonePaid
  <2>3. n.pc \in D \/ settling[o].pc \notin D
    OBVIOUS
  <2> HIDE DEF D
  <2> QED BY <2>1, <2>2, <2>3
<1>5. SubTypeOK'
  BY <1>1, <1>2 DEF SubTypeOK, Bought
<1>6. ReadingsArePaid'
  <2>1. \A p \in SubOrders : settling[p].expires \in Nat
    BY <1>2 DEF Settlement
  <2>2. n.expires \in Nat
    BY DEF Settlement
  <2>3. ASSUME NEW p \in SubOrders
        PROVE  /\ settling'[p].at <= clock'
               /\ settling'[p].pc = "read" => settling'[p].expires <= clock' + PaidTime'
               /\ settling'[p].there => sub'.there
    <3>1. CASE p = o
      <4>1. settling'[p] = n /\ clock' = clock
        BY <1>3, <3>1
      <4>2. n.pc = "read" => n.expires <= clock + PaidTime'
        BY <1>2, <1>4, <2>2
      <4>3. settling'[p].at <= clock'
        BY <4>1
      <4>4. settling'[p].pc = "read" => settling'[p].expires <= clock' + PaidTime'
        BY <4>1, <4>2
      <4>5. settling'[p].there => sub'.there
        BY <4>1
      <4> QED BY <4>3, <4>4, <4>5
    <3>2. CASE p # o
      <4>1. settling'[p] = settling[p] /\ clock' = clock
        BY <1>3, <3>2
      <4>2. /\ settling[p].at <= clock
            /\ settling[p].pc = "read" => settling[p].expires <= clock + PaidTime
            /\ settling[p].there => sub.there
        BY <1>1 DEF ReadingsArePaid
      <4>3. settling[p].pc = "read" => settling[p].expires <= clock + PaidTime'
        BY <1>2, <1>4, <2>1, <4>2
      <4>4. settling'[p].pc = "read" => settling'[p].expires <= clock' + PaidTime'
        BY <4>1, <4>3
      <4>5. settling'[p].there => sub'.there
        BY <4>1, <4>2
      <4> QED BY <4>1, <4>2, <4>4, <4>5
    <3> QED BY <3>1, <3>2
  <2> QED BY <2>3 DEF ReadingsArePaid, PaidTime
<1>7. GrantsHaveRow'
  BY <1>1, <1>3 DEF GrantsHaveRow
<1>8. ThisMonthIsKnown'
  <2>1. ASSUME \E g \in grants : LocalMonth(g.made) = LocalMonth(clock),
               LocalMonth(clock) \notin straddled
        PROVE  /\ sub'.last # Never /\ LocalMonth(sub'.last) = LocalMonth(clock)
               /\ \A p \in SubOrders : settling'[p].pc = "granting" /\ settling'[p].at = clock =>
                     \E h \in grants : h.key = UtcMonth(clock)
    <3>1. sub.there
      BY <1>1, <2>1 DEF GrantsHaveRow
    <3>2. sub'.last = sub.last
      BY <3>1
    <3>3. sub.last # Never /\ LocalMonth(sub.last) = LocalMonth(clock)
          /\ \A p \in SubOrders : settling[p].pc = "granting" /\ settling[p].at = clock =>
                \E h \in grants : h.key = UtcMonth(clock)
      BY <1>1, <2>1 DEF ThisMonthIsKnown
    <3> QED BY <1>3, <3>2, <3>3
  <2> QED BY <1>1, <2>1 DEF ThisMonthIsKnown
<1>9. CreditsOncePerMonth'
  BY <1>1 DEF CreditsOncePerMonth
<1> QED BY <1>5, <1>6, <1>7, <1>8, <1>9 DEF SubInv

\* A step that moves no settlement and touches at most the row of a subscription that is
\* there.
LEMMA RowMoves ==
    ASSUME SubInv, UNCHANGED <<clock, settling, grants, straddled>>, sub' \in Bought,
           sub'.there = sub.there, sub'.last = sub.last, sub'.expires <= clock + PaidTime
    PROVE  SubInv'
<1>1. SubTypeOK /\ ReadingsArePaid /\ GrantsHaveRow /\ ThisMonthIsKnown /\ CreditsOncePerMonth
  BY DEF SubInv
<1>2. SubTypeOK'
  BY <1>1 DEF SubTypeOK, Bought
<1>3. PaidTime' = PaidTime
  BY DEF PaidTime, Total, MapThenSumSet, MapThenFoldSet, Days, Activated
<1>4. ReadingsArePaid'
  <2>1. \A o \in SubOrders :
          /\ settling'[o].at <= clock'
          /\ settling'[o].pc = "read" => settling'[o].expires <= clock' + PaidTime
          /\ settling'[o].there => sub'.there
    BY <1>1 DEF ReadingsArePaid
  <2>2. sub'.expires <= clock' + PaidTime
    OBVIOUS
  <2> QED BY <1>3, <2>1, <2>2 DEF ReadingsArePaid
<1>5. GrantsHaveRow' /\ ThisMonthIsKnown' /\ CreditsOncePerMonth'
  BY <1>1 DEF GrantsHaveRow, ThisMonthIsKnown, CreditsOncePerMonth
<1> QED BY <1>2, <1>4, <1>5 DEF SubInv

LEMMA SubNumbers ==
    ASSUME SubInv
    PROVE  /\ clock \in Nat /\ clock \in 0 .. LastTick /\ PaidTime \in Nat /\ sub \in Bought
           /\ sub.expires \in Nat /\ sub.expires <= clock + PaidTime
           /\ settling \in [SubOrders -> Settlement]
           /\ \A o \in SubOrders : settling[o].expires \in Nat /\ settling[o].at \in Nat /\ Days[o] \in Nat
<1>1. sub \in Bought /\ clock \in 0 .. LastTick /\ LastTick \in Nat
      /\ settling \in [SubOrders -> Settlement]
  BY ReadingTypes DEF SubInv
<1>2. \A o \in SubOrders : settling[o].expires \in Nat /\ settling[o].at \in Nat
  BY <1>1 DEF Settlement
<1> QED BY <1>1, <1>2, PaidTimeType, DaysType DEF SubInv, ReadingsArePaid, Bought

\* A settlement goes on without touching the row.
LEMMA GoesOn ==
    ASSUME SubInv, NEW o \in SubOrders, NEW pc \in {"active", "paid", "refunded", "stuck"},
           StepTo(o, pc), UNCHANGED <<clock, sub, grants, straddled>>,
           settling[o].pc \in {"active", "granting", "paid", "refunded"} <=> pc # "stuck",
           pc = "active" => sub.there
    PROVE  SubInv'
<1> DEFINE n == Reading(pc, NoSub, 0)
           D == {"active", "granting", "paid", "refunded"}
<1>1. n \in Settlement /\ n.pc = pc /\ n.at = 0 /\ n.there = FALSE
  BY ReadingTypes DEF SubInv, Reading, NoSub
<1>2. settling' = [settling EXCEPT ![o] = n]
  BY DEF StepTo
<1> HIDE DEF n
<1>3. sub' \in Bought /\ sub'.there = (sub.there \/ n.pc = "active")
  BY <1>1, SubNumbers DEF Bought
<1>4. n.pc \in D \/ settling[o].pc \notin D
  BY <1>1
<1>5. PaidTime' = PaidTime
  <2>1. settling[o].pc \in D <=> n.pc \in D
    BY <1>1
  <2> QED BY <1>1, <1>2, <2>1, MonotonePaid DEF SubInv
<1>6. sub'.expires <= clock + PaidTime' /\ n.at <= clock
  BY <1>1, <1>5, SubNumbers
<1>7. n.pc # "read" /\ n.pc # "granting" /\ ~n.there /\ (n.pc \in {"active", "granting"} => sub'.there)
  BY <1>1
<1> QED BY <1>1, <1>2, <1>3, <1>4, <1>6, <1>7, SettlementMoves

\* activate_subscription extends from the later of now and the expiry that was read.
LEMMA ExtendedIsPaid ==
    ASSUME SubInv, NEW o \in SubOrders, settling[o].pc = "read", StepTo(o, "active"), clock' = clock
    PROVE  Extended(o) \in Nat /\ Extended(o) <= clock + PaidTime' /\ PaidTime' \in Nat
<1> DEFINE n == Reading("active", NoSub, 0)
<1>1. n \in Settlement /\ n.pc = "active"
  BY ReadingTypes DEF SubInv, Reading, NoSub
<1>2. settling' = [settling EXCEPT ![o] = n]
  BY DEF StepTo
<1> HIDE DEF n
<1>3. PaidTime' = PaidTime + Days[o] /\ PaidTime' \in Nat
  BY <1>1, <1>2, MonotonePaid DEF SubInv
<1>4. settling[o].at <= clock /\ settling[o].expires <= clock + PaidTime
  BY DEF SubInv, ReadingsArePaid
<1> QED BY <1>3, <1>4, SubNumbers DEF Extended

\* ... and writes the row of the order that was activated.
LEMMA RowIsExtended ==
    ASSUME SubInv, NEW o \in SubOrders, settling[o].pc = "read", StepTo(o, "active"),
           UNCHANGED <<clock, grants, straddled>>,
           sub' \in Bought, sub'.there = TRUE, sub.there => sub'.last = sub.last,
           sub'.expires = Extended(o)
    PROVE  SubInv'
<1> DEFINE n == Reading("active", NoSub, 0)
<1>1. n \in Settlement /\ n.pc = "active" /\ n.at = 0 /\ n.there = FALSE
  BY ReadingTypes DEF SubInv, Reading, NoSub
<1>2. settling' = [settling EXCEPT ![o] = n]
  BY DEF StepTo
<1> HIDE DEF n
<1>3. sub'.there = (sub.there \/ n.pc = "active")
  BY <1>1
<1>4. sub'.expires <= clock + PaidTime' /\ n.at <= clock
  BY <1>1, ExtendedIsPaid, SubNumbers
<1> QED BY <1>1, <1>2, <1>3, <1>4, SettlementMoves

\* The grant of a month.
LEMMA CreditStep ==
    ASSUME SubInv, NEW o \in SubOrders, NEW lost \in BOOLEAN, Grant(o, lost)
    PROVE  SubInv'
<1> DEFINE n == Reading("paid", NoSub, 0)
           D == {"active", "granting", "paid", "refunded"}
           M == LocalMonth(clock)
           at == settling[o].at
           key == UtcMonth(at)
           new == [key |-> key, made |-> clock]
<1>0. SubTypeOK /\ ReadingsArePaid /\ GrantsHaveRow /\ ThisMonthIsKnown /\ CreditsOncePerMonth
  BY DEF SubInv
<1>1. n \in Settlement /\ n.pc = "paid" /\ n.at = 0 /\ n.there = FALSE
  BY <1>0, ReadingTypes DEF Reading, NoSub
<1>2. settling' = [settling EXCEPT ![o] = n] /\ clock' = clock /\ settling[o].pc = "granting"
  BY DEF Grant, StepTo
<1> HIDE DEF n
<1>3. \A p \in SubOrders : settling'[p] = IF p = o THEN n ELSE settling[p]
  BY <1>2, SubNumbers
<1>4. PaidTime' = PaidTime
  <2>1. settling[o].pc \in D <=> n.pc \in D
    BY <1>1, <1>2
  <2> QED BY <1>0, <1>1, <1>2, <2>1, MonotonePaid
<1>5. at \in Nat /\ at <= clock /\ key \in Nat /\ M \in Nat /\ clock \in Nat /\ sub.there
  <2>1. at \in Nat /\ clock \in Nat
    BY SubNumbers
  <2>2. key \in Nat /\ M \in Nat
    BY <2>1 DEF UtcMonth, LocalMonth
  <2>3. at <= clock
    BY <1>0 DEF ReadingsArePaid
  <2>4. sub.there
    BY <1>0, <1>2 DEF GrantsHaveRow
  <2> QED BY <2>1, <2>2, <2>3, <2>4
<1>6. \/ lost /\ UNCHANGED <<sub, grants>> /\ \E g \in grants : g.key = key
      \/ sub' = [sub EXCEPT !.last = at] /\ grants' = grants /\ \E g \in grants : g.key = key
      \/ sub' = [sub EXCEPT !.last = at] /\ grants' = grants \union {new}
         /\ ~ \E g \in grants : g.key = key
  BY DEF Grant, BookGrant
<1>7. straddled' = IF at = clock THEN straddled ELSE straddled \union {M}
  BY DEF Grant
<1> HIDE DEF key, at, D
<1>8. sub' \in Bought /\ sub'.there = TRUE /\ sub'.expires = sub.expires
      /\ (sub' = sub \/ sub'.last = at)
  <2>1. sub \in Bought /\ at \in 0 .. LastTick
    BY <1>5, SubNumbers, SubscriptionsAssumption
  <2> QED BY <1>5, <1>6, <2>1 DEF Bought, Never
<1>9. new \in [key : Nat, made : 0 .. LastTick] /\ new.made = clock /\ new.key = key
  BY <1>5, SubNumbers
<1> HIDE DEF new
<1>10. SubTypeOK'
  <2>1. straddled' \subseteq Nat
    BY <1>0, <1>5, <1>7 DEF SubTypeOK
  <2>2. grants' \subseteq [key : Nat, made : 0 .. LastTick]
    BY <1>0, <1>6, <1>9 DEF SubTypeOK
  <2>3. settling' \in [SubOrders -> Settlement]
    BY <1>1, <1>2, SubNumbers
  <2> QED BY <1>0, <1>2, <1>8, <2>1, <2>2, <2>3 DEF SubTypeOK, Bought
<1>11. ReadingsArePaid'
  <2>1. \A p \in SubOrders :
          /\ settling'[p].at <= clock
          /\ settling'[p].pc = "read" => settling'[p].expires <= clock + PaidTime
          /\ settling'[p].there => sub'.there
    BY <1>0, <1>1, <1>3, <1>5, <1>8 DEF ReadingsArePaid
  <2> QED BY <1>0, <1>2, <1>4, <1>8, <2>1 DEF ReadingsArePaid
<1>12. GrantsHaveRow'
  BY <1>8 DEF GrantsHaveRow
<1>13. grants \subseteq grants' /\ (\A g \in grants' : g \in grants \/ g = new)
       /\ straddled \subseteq straddled'
  BY <1>6, <1>7
<1>14. ASSUME at = clock, M \notin straddled PROVE M \notin straddled'
  BY <1>7, <1>14
<1>15. ASSUME new \notin grants, new \in grants' PROVE ~ \E g \in grants : g.key = key
  BY <1>6, <1>15
<1>16. ASSUME at = clock, \E g \in grants : LocalMonth(g.made) = M, M \notin straddled
       PROVE  \E g \in grants : g.key = key
  BY <1>0, <1>2, <1>16 DEF ThisMonthIsKnown, key, at
<1>17. ThisMonthIsKnown'
  <2>1. \A g \in grants' : g.made <= clock
    BY <1>0, <1>5, <1>9, <1>13 DEF ThisMonthIsKnown
  <2>2. ASSUME \E g \in grants' : LocalMonth(g.made) = M, M \notin straddled'
        PROVE  /\ sub'.last # Never /\ LocalMonth(sub'.last) = M
               /\ \A p \in SubOrders : settling'[p].pc = "granting" /\ settling'[p].at = clock =>
                     \E h \in grants' : h.key = UtcMonth(clock)
    <3>1. at = clock
      BY <1>7, <2>2
    <3>2. M \notin straddled
      BY <1>13, <2>2
    <3>3. \E h \in grants' : h.key = UtcMonth(clock)
      BY <1>6, <1>9, <3>1 DEF key
    <3>4. CASE sub' = sub
      <4>1. grants' = grants \/ (sub'.last = at)
        BY <1>6, <1>8, SubNumbers DEF Bought
      <4>2. CASE grants' = grants
        BY <1>0, <2>2, <3>2, <3>3, <3>4, <4>2 DEF ThisMonthIsKnown
      <4>3. CASE sub'.last = at
        BY <1>5, <3>1, <3>3, <4>3 DEF Never
      <4> QED BY <4>1, <4>2, <4>3
    <3>5. CASE sub'.last = at
      BY <1>5, <3>1, <3>3, <3>5 DEF Never
    <3> QED BY <1>8, <3>4, <3>5
  <2> QED BY <1>2, <2>1, <2>2 DEF ThisMonthIsKnown
<1>18. CreditsOncePerMonth'
  <2> SUFFICES ASSUME NEW g \in grants', NEW h \in grants', LocalMonth(g.made) = LocalMonth(h.made),
                      g # h
               PROVE  LocalMonth(g.made) \in straddled'
    BY DEF CreditsOncePerMonth
  <2>1. CASE g \in grants /\ h \in grants
    BY <1>0, <1>13, <2>1 DEF CreditsOncePerMonth
  <2>2. CASE g \notin grants \/ h \notin grants
    <3>1. new \notin grants /\ new \in grants' /\ LocalMonth(g.made) = M
      BY <1>9, <1>13, <2>2
    <3>2. \E f \in grants : LocalMonth(f.made) = M
      BY <1>9, <1>13, <2>2, <3>1
    <3>3. at # clock \/ M \in straddled
      BY <1>15, <1>16, <3>1, <3>2
    <3> QED BY <1>7, <1>13, <3>1, <3>3
  <2> QED BY <2>1, <2>2
<1> QED BY <1>10, <1>11, <1>12, <1>17, <1>18 DEF SubInv

LEMMA TickStep == ASSUME SubInv, Tick PROVE SubInv'
<1>0. SubTypeOK /\ ReadingsArePaid /\ GrantsHaveRow /\ ThisMonthIsKnown /\ CreditsOncePerMonth
  BY DEF SubInv
<1>1. clock' = clock + 1 /\ UNCHANGED <<sub, settling, grants, straddled>> /\ clock < LastTick
      /\ LastTick \in Nat /\ clock \in Nat
  BY SubNumbers, SubscriptionsAssumption DEF Tick
<1>2. SubTypeOK'
  BY <1>0, <1>1 DEF SubTypeOK
<1>3. PaidTime' = PaidTime
  BY <1>1 DEF PaidTime, Total, MapThenSumSet, MapThenFoldSet, Days, Activated
<1>4. ReadingsArePaid'
  <2>1. sub'.expires <= clock' + PaidTime
    BY <1>1, SubNumbers
  <2>2. ASSUME NEW o \in SubOrders
        PROVE  /\ settling'[o].at <= clock'
               /\ settling'[o].pc = "read" => settling'[o].expires <= clock' + PaidTime
               /\ settling'[o].there => sub'.there
    <3>1. /\ settling[o].at <= clock
          /\ settling[o].pc = "read" => settling[o].expires <= clock + PaidTime
          /\ settling[o].there => sub.there
      BY <1>0 DEF ReadingsArePaid
    <3> QED BY <1>1, <3>1, SubNumbers
  <2> QED BY <1>3, <2>1, <2>2 DEF ReadingsArePaid
<1>5. GrantsHaveRow' /\ CreditsOncePerMonth'
  BY <1>0, <1>1 DEF GrantsHaveRow, CreditsOncePerMonth
<1>6. ThisMonthIsKnown'
  <2> DEFINE M == LocalMonth(clock)
             N == LocalMonth(clock + 1)
  <2>1. M \in Nat /\ N \in Nat /\ M <= N
    BY <1>1 DEF LocalMonth
  <2>2. \A g \in grants : g.made \in Nat /\ g.made <= clock /\ LocalMonth(g.made) <= M /\ LocalMonth(g.made) \in Nat
    <3>1. \A g \in grants : g.made \in Nat /\ g.made <= clock
      BY <1>0, SubscriptionsAssumption DEF SubTypeOK, ThisMonthIsKnown
    <3>2. ASSUME NEW g \in grants
          PROVE  LocalMonth(g.made) <= M /\ LocalMonth(g.made) \in Nat
      <4>1. g.made \in Nat /\ g.made <= clock /\ clock \in Nat
        BY <1>1, <3>1
      <4> QED BY <4>1 DEF LocalMonth
    <3> QED BY <3>1, <3>2
  <2>3. \A g \in grants : g.made <= clock'
    BY <1>1, <2>2
  <2>4. \A o \in SubOrders : settling[o].at # clock + 1
    BY <1>0, <1>1, SubNumbers DEF ReadingsArePaid
  <2> HIDE DEF M, N
  <2>5. ASSUME \E g \in grants : LocalMonth(g.made) = N, N \notin straddled
        PROVE  sub.last # Never /\ LocalMonth(sub.last) = N
    <3>1. M = N
      BY <2>1, <2>2, <2>5
    <3> QED BY <1>0, <2>5, <3>1 DEF ThisMonthIsKnown, M
  <2> QED BY <1>1, <2>3, <2>4, <2>5 DEF ThisMonthIsKnown, N
<1> QED BY <1>2, <1>4, <1>5, <1>6 DEF SubInv

LEMMA SubStep == SubInv /\ [SubNext]_subVars => SubInv'
<1> SUFFICES ASSUME SubInv, [SubNext]_subVars PROVE SubInv'
  OBVIOUS
<1>0. SubTypeOK /\ ReadingsArePaid /\ GrantsHaveRow /\ ThisMonthIsKnown /\ CreditsOncePerMonth
  BY DEF SubInv
<1>1. ASSUME NEW o \in SubOrders, LoadSub(o) PROVE SubInv'
  <2> DEFINE n == Reading("read", sub, clock)
  <2>1. n \in Settlement /\ n.pc = "read" /\ n.at = clock /\ n.there = sub.there /\ n.expires = sub.expires
    BY <1>0, ReadingTypes DEF Reading
  <2>2. settling' = [settling EXCEPT ![o] = n] /\ UNCHANGED <<clock, sub, grants, straddled>>
        /\ settling[o].pc = "pending"
    BY <1>1 DEF LoadSub, ReadTo
  <2> HIDE DEF n
  <2>3. sub' \in Bought /\ sub'.there = (sub.there \/ n.pc = "active")
    BY <2>1, <2>2, SubNumbers DEF Bought
  <2>4. PaidTime' = PaidTime
    BY <1>0, <2>1, <2>2, MonotonePaid
  <2>5. sub'.expires <= clock + PaidTime' /\ n.at <= clock /\ n.expires <= clock + PaidTime
    BY <2>1, <2>2, <2>4, SubNumbers
  <2>6. n.there => sub'.there
    BY <2>1, <2>2
  <2> QED BY <2>1, <2>2, <2>3, <2>5, <2>6, SettlementMoves
<1>2. ASSUME NEW o \in SubOrders, Extend(o) PROVE SubInv'
  <2>1. settling[o].pc = "read" /\ settling[o].there /\ StepTo(o, "active")
        /\ UNCHANGED <<clock, grants, straddled>>
    BY <1>2 DEF Extend
  <2>2. sub.there
    BY <1>0, <2>1 DEF ReadingsArePaid
  <2>3. Extended(o) \in Nat
    BY <2>1, ExtendedIsPaid
  <2> DEFINE a == sub.active \/ ~settling[o].active
             e == Extended(o)
  <2>4. sub' = [sub EXCEPT !.active = a, !.expires = e, !.order = {o}]
    BY <1>2 DEF Extend
  <2>5. a \in BOOLEAN
    OBVIOUS
  <2> HIDE DEF a, e
  <2>6. sub' \in Bought /\ sub'.there = TRUE /\ sub'.last = sub.last /\ sub'.expires = e
    <3>1. e \in Nat
      BY <2>3 DEF e
    <3> QED BY <2>2, <2>4, <2>5, <3>1, SubNumbers DEF Bought
  <2> QED BY <2>1, <2>6, RowIsExtended DEF e
<1>3. ASSUME NEW o \in SubOrders, Subscribe(o) PROVE SubInv'
  <2>1. CASE sub.there
    <3>1. StepTo(o, "stuck") /\ UNCHANGED <<clock, sub, grants, straddled>> /\ settling[o].pc = "read"
      BY <1>3, <2>1 DEF Subscribe
    <3> QED BY <3>1, GoesOn
  <2>2. CASE ~sub.there
    <3>1. StepTo(o, "active") /\ UNCHANGED <<clock, grants, straddled>> /\ settling[o].pc = "read"
          /\ sub' = [there |-> TRUE, active |-> TRUE, expires |-> Extended(o), order |-> {o}, last |-> Never]
      BY <1>3, <2>2 DEF Subscribe
    <3>2. Extended(o) \in Nat
      BY <3>1, ExtendedIsPaid
    <3>3. sub' \in Bought /\ sub'.there = TRUE /\ sub'.expires = Extended(o)
      BY <3>1, <3>2, SubscriptionsAssumption DEF Bought, Never
    <3> QED BY <2>2, <3>1, <3>3, RowIsExtended
  <2> QED BY <2>1, <2>2
<1>4. ASSUME NEW o \in SubOrders, LoadGrant(o) PROVE SubInv'
  <2>1. settling[o].pc = "active" /\ UNCHANGED <<clock, sub, grants, straddled>> /\ sub.there
    BY <1>0, <1>4 DEF LoadGrant, GrantsHaveRow
  <2>2. CASE sub.last # Never /\ LocalMonth(sub.last) = LocalMonth(clock)
    BY <1>4, <2>1, <2>2, GoesOn DEF LoadGrant
  <2>3. CASE ~ (sub.last # Never /\ LocalMonth(sub.last) = LocalMonth(clock))
    <3> DEFINE n == Reading("granting", NoSub, clock)
    <3>1. n \in Settlement /\ n.pc = "granting" /\ n.at = clock /\ n.there = FALSE
      BY <1>0, ReadingTypes, SubNumbers DEF Reading, NoSub
    <3>2. settling' = [settling EXCEPT ![o] = n]
      BY <1>4, <2>3 DEF LoadGrant
    <3> HIDE DEF n
    <3>3. sub' \in Bought /\ sub'.there = (sub.there \/ n.pc = "active")
      BY <2>1, <3>1, SubNumbers DEF Bought
    <3>4. PaidTime' = PaidTime
      BY <1>0, <2>1, <3>1, <3>2, MonotonePaid
    <3>5. sub'.expires <= clock + PaidTime' /\ n.at <= clock
      BY <2>1, <3>1, <3>4, SubNumbers
    <3> QED BY <2>1, <2>3, <3>1, <3>2, <3>3, <3>5, SettlementMoves
  <2> QED BY <2>2, <2>3
<1>5. ASSUME NEW o \in SubOrders, RefundOrder(o) PROVE SubInv'
  <2> DEFINE n == Reading("refunded", NoSub, 0)
  <2>1. n \in Settlement /\ n.pc = "refunded" /\ n.at = 0 /\ n.there = FALSE
    BY <1>0, ReadingTypes DEF Reading, NoSub
  <2>2. settling' = [settling EXCEPT ![o] = n] /\ settling[o].pc = "paid"
        /\ UNCHANGED <<clock, grants, straddled>>
        /\ sub' \in {sub, [sub EXCEPT !.active = FALSE, !.expires = clock]}
    BY <1>5 DEF RefundOrder, StepTo
  <2> HIDE DEF n
  <2>3. sub' \in Bought /\ sub'.there = (sub.there \/ n.pc = "active") /\ sub'.last = sub.last
        /\ sub'.expires \in {sub.expires, clock}
    BY <2>1, <2>2, SubNumbers DEF Bought
  <2>4. PaidTime' = PaidTime
    BY <1>0, <2>1, <2>2, MonotonePaid
  <2>5. sub'.expires <= clock + PaidTime' /\ n.at <= clock
    BY <2>1, <2>3, <2>4, SubNumbers
  <2> QED BY <2>1, <2>2, <2>3, <2>5, SettlementMoves
<1>6. ASSUME NEW o \in SubOrders, SettlementDies(o) PROVE SubInv'
  <2>1. CASE settling[o].pc = "read"
    <3>1. StepTo(o, "stuck") /\ UNCHANGED <<clock, sub, grants, straddled>>
      BY <1>6, <2>1 DEF SettlementDies
    <3> QED BY <2>1, <3>1, GoesOn
  <2>2. CASE settling[o].pc \in {"active", "granting"}
    <3>1. StepTo(o, "paid") /\ UNCHANGED <<clock, sub, grants, straddled>>
      BY <1>6, <2>2 DEF SettlementDies
    <3> QED BY <2>2, <3>1, GoesOn
  <2> QED BY <1>6, <2>1, <2>2 DEF SettlementDies
<1>7. CASE Cancel \/ CancelInChat
  <2>1. UNCHANGED <<clock, settling, grants, straddled>>
        /\ sub' \in {[sub EXCEPT !.active = FALSE, !.expires = clock], [sub EXCEPT !.active = FALSE]}
    BY <1>7 DEF Cancel, CancelInChat
  <2>2. sub' \in Bought /\ sub'.there = sub.there /\ sub'.last = sub.last
        /\ sub'.expires \in {sub.expires, clock}
    BY <2>1, SubNumbers DEF Bought
  <2>3. sub'.expires <= clock + PaidTime
    BY <2>2, SubNumbers
  <2> QED BY <2>1, <2>2, <2>3, RowMoves
<1>8. CASE UNCHANGED subVars
  <2>1. UNCHANGED <<clock, sub, settling, grants, straddled>>
    BY <1>8 DEF subVars
  <2> QED BY <2>1, RowMoves, SubNumbers
<1> QED
  BY <1>1, <1>2, <1>3, <1>4, <1>5, <1>6, <1>7, <1>8, CreditStep, TickStep DEF SubNext

LEMMA SubInitially == SubInit => SubInv
<1> SUFFICES ASSUME SubInit PROVE SubInv
  OBVIOUS
<1> USE SubscriptionsAssumption
<1>1. SubTypeOK
  BY DEF SubInit, SubTypeOK, Settlement, Reading, NoSub, Never
<1>2. sub.expires = 0 /\ clock = 0 /\ ~sub.there
  BY DEF SubInit, NoSub
<1>3. \A o \in SubOrders : settling[o].at = 0 /\ settling[o].pc = "pending" /\ settling[o].there = FALSE
  BY DEF SubInit, Reading, NoSub
<1>4. ReadingsArePaid
  BY <1>2, <1>3, PaidTimeType DEF ReadingsArePaid
<1>5. GrantsHaveRow /\ ThisMonthIsKnown /\ CreditsOncePerMonth
  BY <1>3 DEF SubInit, GrantsHaveRow, ThisMonthIsKnown, CreditsOncePerMonth
<1> QED BY <1>1, <1>4, <1>5 DEF SubInv

LEMMA TimeIsPaid == SubInv => PeriodsArePaidFor
<1>1. PaidTime = MapThenSumSet(LAMBDA o : Days[o], Activated)
  BY DEF PaidTime, Total
<1> QED BY <1>1 DEF SubInv, ReadingsArePaid, PeriodsArePaidFor, TimeIsPaidFor

\* activate_subscription and grant_subscription_credits, for any number of orders: however
\* settlements, cancellations and refunds overlap, a subscription lasts no longer than what
\* was paid, and a month in Tehran has one grant unless a settlement took its time from
\* another tick.
THEOREM SubscriptionIsPaidFor == SubSpec => []PeriodsArePaidFor
<1> QED
  BY SubInitially, SubStep, TimeIsPaid, PTL DEF SubSpec
-----------------------------------------------------------------------------
(* Purchases.  Bindings are never undone, a session that has made a report *)
(* knows its chart and tier until it binds it, and whoever was charged for *)
(* a report looks for one, or there is one that is bound or about to be.   *)

Kinds == UNION {Granted(a) : a \in Actions}
ReportRows == [chart : Charts, tier : {TierOf(a) : a \in Actions}, live : BOOLEAN]

\* The part of the types that the proof uses.
PurTypes ==
    /\ charged \subseteq Products
    /\ ents \in [Products -> SUBSET Kinds]
    /\ bound \in [Products -> Nat]
    /\ reports \in Seq(ReportRows)
    /\ buyer \in [Buyers -> [pc : {"idle", "find", "lock", "bind", "enqueue"},
                             prod : Products \union {<<>>}, ref : Nat, rep : Nat]]

\* A report that an entitlement is bound to was made for its chart, in its tier.
BoundRight(p) ==
    bound[p] # 0 =>
        /\ bound[p] \in DOMAIN reports
        /\ reports[bound[p]].chart = p[2]
        /\ reports[bound[p]].tier = TierOf(p[1])
        /\ "report" \in ents[p]

\* What a session knows of the entitlement it works for and of the report it has made.
Knows(s) ==
    LET b == buyer[s]
    IN  /\ b.pc # "idle" => b.prod \in Products /\ "report" \in ents[b.prod]
        /\ b.pc # "idle" /\ b.ref # 0 => bound[b.prod] # 0
        /\ b.pc \in {"bind", "enqueue"} => b.rep \in DOMAIN reports
        /\ b.pc = "bind" => /\ reports[b.rep].chart = b.prod[2]
                            /\ reports[b.rep].tier = TierOf(b.prod[1])

\* A report of a chart is bound, or about to be.
Bindings(c) ==
    (\E r \in DOMAIN reports : reports[r].chart = c) =>
        \/ died
        \/ \E q \in Products : q[2] = c /\ bound[q] # 0
        \/ \E s \in Buyers : buyer[s].pc = "bind" /\ buyer[s].prod[2] = c

\* What was charged is granted, and a report that was charged was found, or is looked for.
Served(p) ==
    IF p \notin charged THEN ents[p] = {}
    ELSE
        /\ ents[p] = Granted(p[1])
        /\ p[1] \in ReportActions =>
              \/ died
              \/ \E r \in DOMAIN reports : reports[r].chart = p[2]
              \/ \E s \in Buyers : buyer[s].pc = "find" /\ buyer[s].prod = p

PurInv ==
    /\ PurTypes
    /\ \A p \in Products : BoundRight(p) /\ Served(p)
    /\ \A s \in Buyers : Knows(s)
    /\ \A c \in Charts : Bindings(c)

\* What every step leaves of the reports: their charts and their tiers.
Kept == /\ reports' \in Seq(ReportRows)
        /\ DOMAIN reports \subseteq DOMAIN reports'
        /\ \A r \in DOMAIN reports : /\ reports'[r].chart = reports[r].chart
                                     /\ reports'[r].tier = reports[r].tier

\* No binding is undone.
StillBound == \A p \in Products : bound[p] # 0 => bound'[p] # 0

LEMMA KeptSame == ASSUME PurTypes, UNCHANGED reports PROVE Kept
BY DEF PurTypes, Kept

LEMMA KeptLive ==
  ASSUME PurTypes, NEW r \in DOMAIN reports, NEW live \in BOOLEAN,
         reports' = [reports EXCEPT ![r].live = live]
  PROVE  Kept /\ DOMAIN reports' = DOMAIN reports
<1>1. reports \in Seq(ReportRows) /\ reports[r] \in ReportRows
  BY DEF PurTypes
<1>2. [reports[r] EXCEPT !.live = live] \in ReportRows
  BY <1>1 DEF ReportRows
<1>3. PICK row \in ReportRows : /\ reports' = [reports EXCEPT ![r] = row]
                          /\ row.chart = reports[r].chart /\ row.tier = reports[r].tier
  BY <1>1, <1>2 DEF ReportRows
<1>4. reports' \in Seq(ReportRows) /\ DOMAIN reports' = DOMAIN reports
  BY <1>1, <1>3
<1> QED BY <1>1, <1>3, <1>4 DEF Kept

LEMMA KeptNew ==
  ASSUME PurTypes, NEW p \in Products, NewReport(p)
  PROVE  /\ Kept
         /\ DOMAIN reports' = DOMAIN reports \union {Len(reports) + 1}
         /\ reports'[Len(reports) + 1].chart = p[2]
         /\ reports'[Len(reports) + 1].tier = TierOf(p[1])
         /\ Len(reports) + 1 \in Nat \ {0}
<1> DEFINE row == [chart |-> p[2], tier |-> TierOf(p[1]), live |-> TRUE]
<1>1. row \in ReportRows
  BY DEF ReportRows, Products
<1>2. reports \in Seq(ReportRows) /\ reports' = Append(reports, row)
  BY DEF PurTypes, NewReport, Tier
<1>3. row.chart = p[2] /\ row.tier = TierOf(p[1])
  OBVIOUS
<1> HIDE DEF row
<1>4. /\ reports' \in Seq(ReportRows)
      /\ Len(reports') = Len(reports) + 1
      /\ Len(reports) \in Nat
      /\ \A i \in 1 .. Len(reports) : reports'[i] = reports[i]
      /\ reports'[Len(reports) + 1] = row
      /\ DOMAIN reports = 1 .. Len(reports) /\ DOMAIN reports' = 1 .. Len(reports')
  BY <1>1, <1>2
<1> QED BY <1>3, <1>4 DEF Kept

\* The newest report of a chart that has one.
LEMMA NewestReport ==
  ASSUME PurTypes, NEW c, OnChart(c) # {}
  PROVE  Latest(c) \in DOMAIN reports /\ reports[Latest(c)].chart = c
<1> DEFINE over == {n \in Nat : \A r \in OnChart(c) : r <= n}
<1>1. Len(reports) \in Nat /\ DOMAIN reports = 1 .. Len(reports)
  BY DEF PurTypes
<1>2. OnChart(c) \subseteq 1 .. Len(reports)
  BY <1>1 DEF OnChart
<1>3. Len(reports) \in over
  BY <1>1, <1>2
<1>4. PICK n \in over : \A k \in over : n <= k
  BY <1>3, LeastNatural
<1>5. n \in OnChart(c)
  <2> SUFFICES ASSUME n \notin OnChart(c) PROVE FALSE
    OBVIOUS
  <2>1. PICK r \in OnChart(c) : TRUE
    OBVIOUS
  <2>2. n \in Nat /\ n - 1 \in Nat
    BY <1>2, <1>4, <2>1
  <2>3. \A q \in OnChart(c) : q <= n - 1
    BY <1>2, <1>4, <2>2
  <2> QED BY <1>4, <2>2, <2>3
<1>6. \E r \in OnChart(c) : \A q \in OnChart(c) : q <= r
  BY <1>4, <1>5
<1> QED BY <1>6 DEF Latest, OnChart

\* How a step may move the requests: one that has made a report binds it, or the entitlement
\* is bound, and a report that is new is bound or about to be.
BindersSeen ==
    /\ \A s \in Buyers : buyer[s].pc = "bind" =>
           \/ buyer'[s].pc = "bind" /\ buyer'[s].prod = buyer[s].prod
           \/ died' \/ bound'[buyer[s].prod] # 0
    /\ \A r \in DOMAIN reports' \ DOMAIN reports :
           \/ \E s \in Buyers : buyer'[s].pc = "bind" /\ buyer'[s].prod[2] = reports'[r].chart
           \/ \E q \in Products : q[2] = reports'[r].chart /\ bound'[q] # 0

\* One that looks for a report finds one, or makes it.
FindersSeen ==
    \A s \in Buyers : buyer[s].pc = "find" =>
        \/ buyer'[s].pc = "find" /\ buyer'[s].prod = buyer[s].prod
        \/ died' \/ \E r \in DOMAIN reports' : reports'[r].chart = buyer[s].prod[2]

LEMMA BindingsStep ==
  ASSUME PurInv, Kept, StillBound, BindersSeen, died => died'
  PROVE  \A c \in Charts : Bindings(c)'
<1>0. /\ PurTypes
      /\ \A s \in Buyers : Knows(s)
      /\ \A c \in Charts : Bindings(c)
  BY DEF PurInv
<1> SUFFICES ASSUME NEW c \in Charts PROVE Bindings(c)'
  OBVIOUS
<1> DEFINE Now == \/ died'
                  \/ \E q \in Products : q[2] = c /\ bound'[q] # 0
                  \/ \E s \in Buyers : buyer'[s].pc = "bind" /\ buyer'[s].prod[2] = c
<1> SUFFICES ASSUME NEW r \in DOMAIN reports', reports'[r].chart = c PROVE Now
  BY DEF Bindings
<1>1. CASE r \notin DOMAIN reports
  BY <1>1 DEF BindersSeen
<1>2. ASSUME r \in DOMAIN reports PROVE Now
  <2>1. reports[r].chart = c
    BY <1>2 DEF Kept
  <2>2. ASSUME NEW s \in Buyers, buyer[s].pc = "bind", buyer[s].prod[2] = c PROVE Now
    <3>1. buyer[s].prod \in Products
      BY <1>0, <2>2 DEF Knows
    <3> QED BY <2>2, <3>1 DEF BindersSeen
  <2>3. ASSUME NEW q \in Products, q[2] = c, bound[q] # 0 PROVE Now
    BY <2>3 DEF StillBound
  <2> QED BY <1>0, <1>2, <2>1, <2>2, <2>3 DEF Bindings
<1> QED BY <1>1, <1>2

LEMMA ServedStep ==
  ASSUME PurInv, Kept, FindersSeen, UNCHANGED <<charged, ents>>, died => died'
  PROVE  \A p \in Products : Served(p)'
<1> SUFFICES ASSUME NEW p \in Products, Served(p) PROVE Served(p)'
  BY DEF PurInv
<1>1. (\E r \in DOMAIN reports : reports[r].chart = p[2])
         => \E r \in DOMAIN reports' : reports'[r].chart = p[2]
  BY DEF Kept
<1>2. ASSUME NEW s \in Buyers, buyer[s].pc = "find", buyer[s].prod = p
      PROVE  \/ died'
             \/ \E r \in DOMAIN reports' : reports'[r].chart = p[2]
             \/ \E t \in Buyers : buyer'[t].pc = "find" /\ buyer'[t].prod = p
  BY <1>2 DEF FindersSeen
<1> QED BY <1>1, <1>2 DEF Served

LEMMA BoundStep ==
  ASSUME PurInv, Kept, UNCHANGED <<bound, ents>>
  PROVE  (\A p \in Products : BoundRight(p)') /\ StillBound
BY DEF PurInv, BoundRight, Kept, StillBound

\* A step of one session: the others know what they knew.
LEMMA OthersKnow ==
  ASSUME PurInv, Kept, StillBound, NEW s \in Buyers, NEW b, buyer' = [buyer EXCEPT ![s] = b],
         \A p \in Products : "report" \in ents[p] => "report" \in ents'[p]
  PROVE  \A t \in Buyers \ {s} : buyer'[t] = buyer[t] /\ Knows(t)'
<1> SUFFICES ASSUME NEW t \in Buyers \ {s} PROVE buyer'[t] = buyer[t] /\ Knows(t)'
  OBVIOUS
<1>1. buyer'[t] = buyer[t]
  BY DEF PurInv, PurTypes
<1>2. Knows(t)
  BY DEF PurInv
<1> QED BY <1>1, <1>2 DEF Knows, Kept, StillBound

PurStates == {"idle", "find", "lock", "bind", "enqueue"}

\* Steps of one session that touch neither the ledger nor the entitlements.
LEMMA SessionStep ==
  ASSUME PurInv, Kept, UNCHANGED <<bound, charged, ents>>, died => died',
         NEW s \in Buyers,
         NEW b \in [pc : PurStates, prod : Products \union {<<>>}, ref : Nat, rep : Nat],
         buyer' = [buyer EXCEPT ![s] = b],
         Knows(s)', BindersSeen, FindersSeen
  PROVE  PurInv'
<1>1. PurTypes'
  BY DEF PurInv, PurTypes, Kept, PurStates
<1>2. (\A p \in Products : BoundRight(p)') /\ StillBound
  BY BoundStep
<1>3. \A p \in Products : Served(p)'
  BY ServedStep
<1>4. \A t \in Buyers : Knows(t)'
  BY <1>2, OthersKnow
<1>5. \A c \in Charts : Bindings(c)'
  BY <1>2, BindingsStep
<1> QED BY <1>1, <1>2, <1>3, <1>4, <1>5 DEF PurInv

LEMMA RestStep ==
  ASSUME PurInv, Kept, DOMAIN reports' = DOMAIN reports, UNCHANGED <<bound, charged, ents>>,
         died => died', NEW s \in Buyers, Rest(s),
         died' \/ buyer[s].pc \notin {"find", "bind"}
  PROVE  PurInv'
<1> DEFINE b == NoPurchase
<1>1. b \in [pc : PurStates, prod : Products \union {<<>>}, ref : Nat, rep : Nat] /\ b.pc = "idle"
  BY DEF NoPurchase, PurStates
<1>2. buyer' = [buyer EXCEPT ![s] = b]
  BY DEF Rest
<1> HIDE DEF b
<1>3. buyer'[s] = b /\ \A t \in Buyers \ {s} : buyer'[t] = buyer[t]
  BY <1>2 DEF PurInv, PurTypes
<1>4. Knows(s)'
  BY <1>1, <1>3 DEF Knows
<1>5. BindersSeen
  BY <1>3 DEF BindersSeen
<1>6. FindersSeen
  BY <1>3 DEF FindersSeen
<1> QED BY <1>1, <1>2, <1>4, <1>5, <1>6, SessionStep

LEMMA AskStep ==
  ASSUME PurInv, NEW s \in Buyers, NEW c \in Charts, AskForReport(s, c) PROVE PurInv'
<1>1. UNCHANGED <<charged, ents, bound, reports, died>> /\ buyer[s].pc = "idle"
  BY DEF AskForReport
<1>2. PurTypes /\ Kept
  BY <1>1, KeptSame DEF PurInv
<1>3. PICK p \in Has("report", c) :
        buyer' = [buyer EXCEPT ![s] = [pc |-> "lock", prod |-> p, ref |-> bound[p], rep |-> 0]]
  BY DEF AskForReport
<1>4. p \in Products /\ "report" \in ents[p] /\ bound[p] \in Nat
  BY <1>2 DEF Has, PurTypes
<1> DEFINE b == [pc |-> "lock", prod |-> p, ref |-> bound[p], rep |-> 0]
<1>5. /\ b \in [pc : PurStates, prod : Products \union {<<>>}, ref : Nat, rep : Nat]
      /\ b.pc = "lock" /\ b.prod = p /\ b.ref = bound[p]
  BY <1>4 DEF PurStates
<1>6. buyer' = [buyer EXCEPT ![s] = b]
  BY <1>3
<1> HIDE DEF b
<1>7. buyer'[s] = b /\ \A t \in Buyers \ {s} : buyer'[t] = buyer[t]
  BY <1>2, <1>6 DEF PurTypes
<1>8. Knows(s)'
  BY <1>1, <1>4, <1>5, <1>7 DEF Knows
<1>9. BindersSeen
  BY <1>1, <1>7 DEF BindersSeen
<1>10. FindersSeen
  BY <1>1, <1>7 DEF FindersSeen
<1> QED BY <1>1, <1>2, <1>5, <1>6, <1>8, <1>9, <1>10, SessionStep

LEMMA LookStep ==
  ASSUME PurInv, NEW s \in Buyers, NEW yes \in BOOLEAN, LookAndCreate(s, yes) PROVE PurInv'
<1> DEFINE c == buyer[s].prod[2]
<1>1. UNCHANGED <<charged, ents, bound, died>> /\ buyer[s].pc = "lock"
  BY DEF LookAndCreate
<1>2. PurTypes /\ Knows(s)
  BY DEF PurInv
<1>3. buyer[s].prod \in Products /\ "report" \in ents[buyer[s].prod]
      /\ (buyer[s].ref # 0 => bound[buyer[s].prod] # 0)
  BY <1>1, <1>2 DEF Knows
<1>4. CASE OnChart(c) # {} /\ ~yes /\ Rest(s) /\ reports' = reports
  <2>1. Kept
    BY <1>2, <1>4, KeptSame
  <2> QED BY <1>1, <1>4, <2>1, RestStep
\* What a session that goes on with a report knows, and what is seen of the others.
<1>5. ASSUME Kept, NEW pc \in {"bind", "enqueue"}, NEW r \in DOMAIN reports', r \in Nat,
             buyer' = [buyer EXCEPT ![s] = [@ EXCEPT !.pc = pc, !.rep = r]],
             pc = "bind" => reports'[r].chart = c /\ reports'[r].tier = TierOf(buyer[s].prod[1]),
             \A q \in DOMAIN reports' \ DOMAIN reports : pc = "bind" /\ q = r
      PROVE  PurInv'
  <2> DEFINE b == [buyer[s] EXCEPT !.pc = pc, !.rep = r]
  <2>1. /\ b \in [pc : PurStates, prod : Products \union {<<>>}, ref : Nat, rep : Nat]
        /\ b.pc = pc /\ b.rep = r /\ b.prod = buyer[s].prod /\ b.ref = buyer[s].ref
    BY <1>2, <1>5 DEF PurTypes, PurStates
  <2>2. buyer' = [buyer EXCEPT ![s] = b]
    BY <1>2, <1>5 DEF PurTypes
  <2> HIDE DEF b
  <2>3. buyer'[s] = b /\ \A t \in Buyers \ {s} : buyer'[t] = buyer[t]
    BY <1>2, <2>2 DEF PurTypes
  <2>4. Knows(s)'
    BY <1>1, <1>3, <1>5, <2>1, <2>3 DEF Knows
  <2>5. BindersSeen
    BY <1>1, <1>5, <2>1, <2>3 DEF BindersSeen
  <2>6. FindersSeen
    BY <1>1, <2>3 DEF FindersSeen
  <2> QED BY <1>1, <1>5, <2>1, <2>2, <2>4, <2>5, <2>6, SessionStep
<1>6. CASE /\ OnChart(c) # {}
           /\ reports' = [reports EXCEPT ![Latest(c)].live = TRUE]
           /\ buyer' = [buyer EXCEPT ![s] = [@ EXCEPT !.pc = "enqueue", !.rep = Latest(c)]]
  <2>1. Latest(c) \in DOMAIN reports
    BY <1>2, <1>6, NewestReport
  <2>2. Kept /\ DOMAIN reports' = DOMAIN reports
    BY <1>2, <1>6, <2>1, KeptLive
  <2>3. Latest(c) \in Nat
    BY <1>2, <2>1 DEF PurTypes
  <2> HIDE DEF c
  <2> QED BY <1>5, <1>6, <2>1, <2>2, <2>3
<1>7. CASE /\ NewReport(buyer[s].prod)
           /\ buyer' = [buyer EXCEPT ![s] = [@ EXCEPT !.pc = "bind", !.rep = Len(reports) + 1]]
  <2>1. /\ Kept
        /\ DOMAIN reports' = DOMAIN reports \union {Len(reports) + 1}
        /\ reports'[Len(reports) + 1].chart = c
        /\ reports'[Len(reports) + 1].tier = TierOf(buyer[s].prod[1])
        /\ Len(reports) + 1 \in Nat
    BY <1>2, <1>3, <1>7, KeptNew
  <2> HIDE DEF c
  <2> QED BY <1>5, <1>7, <2>1
<1> QED BY <1>4, <1>6, <1>7 DEF LookAndCreate

LEMMA EnqueueStep ==
  ASSUME PurInv, NEW s \in Buyers, NEW ok \in BOOLEAN, Enqueue(s, ok) PROVE PurInv'
<1>1. /\ UNCHANGED <<charged, ents, bound, died>> /\ buyer[s].pc = "enqueue" /\ Rest(s)
      /\ reports' = reports \/ reports' = [reports EXCEPT ![buyer[s].rep].live = FALSE]
  BY DEF Enqueue
<1>2. PurTypes /\ buyer[s].rep \in DOMAIN reports
  BY <1>1 DEF PurInv, Knows
<1>3. Kept /\ DOMAIN reports' = DOMAIN reports
  BY <1>1, <1>2, KeptSame, KeptLive
<1> QED BY <1>1, <1>3, RestStep

LEMMA FailsStep ==
  ASSUME PurInv, NEW r \in DOMAIN reports, ReportFails(r) PROVE PurInv'
<1>1. /\ UNCHANGED <<charged, ents, bound, buyer, died>>
      /\ reports' = [reports EXCEPT ![r].live = FALSE]
  BY DEF ReportFails
<1>2. PurTypes /\ Kept /\ DOMAIN reports' = DOMAIN reports
  BY <1>1, KeptLive DEF PurInv
<1>3. PurTypes'
  BY <1>1, <1>2 DEF PurTypes, Kept
<1>4. (\A p \in Products : BoundRight(p)') /\ StillBound
  BY <1>1, <1>2, BoundStep
<1>5. \A p \in Products : Served(p)'
  BY <1>1, <1>2, ServedStep DEF FindersSeen
<1>6. \A s \in Buyers : Knows(s)'
  BY <1>1, <1>2 DEF PurInv, Knows, Kept
<1>7. \A c \in Charts : Bindings(c)'
  BY <1>1, <1>2, <1>4, BindingsStep DEF BindersSeen
<1> QED BY <1>3, <1>4, <1>5, <1>6, <1>7 DEF PurInv

LEMMA GrantedStep ==
  ASSUME PurInv, NEW p \in Products, GrantFromCredits(p)
  PROVE  /\ charged' \subseteq Products /\ ents' \in [Products -> SUBSET Kinds]
         /\ p \in charged' /\ ents'[p] = Granted(p[1])
         /\ \A q \in Products \ {p} : ents'[q] = ents[q] /\ (q \in charged' <=> q \in charged)
         /\ \A q \in Products : "report" \in ents[q] => "report" \in ents'[q]
<1>1. PurTypes /\ Served(p)
  BY DEF PurInv
<1>2. Granted(p[1]) \in SUBSET Kinds
  BY DEF Kinds, Products
<1>3. CASE p \in charged
  BY <1>1, <1>3 DEF GrantFromCredits, PurTypes, Served
<1>4. CASE p \notin charged
  <2>1. charged' = charged \union {p} /\ ents' = [ents EXCEPT ![p] = Granted(p[1])]
    BY <1>4 DEF GrantFromCredits
  <2> QED BY <1>1, <1>2, <1>4, <2>1 DEF PurTypes, Served
<1> QED BY <1>3, <1>4

\* After a purchase whoever bought a report looks for it, and nobody else has moved.
LEMMA BoughtStep ==
  ASSUME PurInv, NEW p \in Products, GrantFromCredits(p), UNCHANGED <<bound, reports, died>>,
         buyer' \in [Buyers -> [pc : PurStates, prod : Products \union {<<>>},
                                ref : Nat, rep : Nat]],
         \A s \in Buyers : Knows(s)', BindersSeen, FindersSeen,
         p[1] \in ReportActions => \E s \in Buyers : buyer'[s].pc = "find" /\ buyer'[s].prod = p
  PROVE  PurInv'
<1>1. PurTypes /\ PurTypes' /\ Kept
  BY GrantedStep, KeptSame DEF PurInv, PurTypes, PurStates
<1>2. (\A q \in Products : BoundRight(q)') /\ StillBound
  BY GrantedStep DEF PurInv, BoundRight, StillBound
<1>3. \A c \in Charts : Bindings(c)'
  BY <1>1, <1>2, BindingsStep
<1>4. Served(p)'
  BY GrantedStep DEF Served
<1>5. ASSUME NEW q \in Products \ {p} PROVE Served(q)'
  <2>1. Served(q) /\ ents'[q] = ents[q] /\ (q \in charged' <=> q \in charged)
    BY GrantedStep DEF PurInv
  <2>2. ASSUME NEW s \in Buyers, buyer[s].pc = "find", buyer[s].prod = q
        PROVE  \/ died'
               \/ \E r \in DOMAIN reports' : reports'[r].chart = q[2]
               \/ \E t \in Buyers : buyer'[t].pc = "find" /\ buyer'[t].prod = q
    BY <2>2 DEF FindersSeen
  <2> QED BY <2>1, <2>2 DEF Served
<1> QED BY <1>1, <1>2, <1>3, <1>4, <1>5 DEF PurInv

LEMMA BuyStep ==
  ASSUME PurInv, NEW s \in Buyers, NEW p \in Products, BuyAction(s, p) PROVE PurInv'
<1>1. GrantFromCredits(p) /\ UNCHANGED <<bound, reports, died>> /\ buyer[s].pc = "idle"
  BY DEF BuyAction
<1>2. PurTypes /\ Kept /\ StillBound
  BY <1>1, KeptSame DEF PurInv, StillBound
<1>3. PICK b \in [pc : PurStates, prod : Products \union {<<>>}, ref : Nat, rep : Nat] :
         /\ buyer' = [buyer EXCEPT ![s] = b]
         /\ b.pc \in {"idle", "find"}
         /\ b.pc = "find" => b.prod = p /\ b.ref = bound[p]
         /\ b.pc = "find" <=> p[1] \in ReportActions
  <2>1. CASE p[1] \in ReportActions
    <3> DEFINE b == [pc |-> "find", prod |-> p, ref |-> bound[p], rep |-> 0]
    <3>1. b \in [pc : PurStates, prod : Products \union {<<>>}, ref : Nat, rep : Nat]
      BY <1>2 DEF PurStates, PurTypes
    <3> QED BY <2>1, <3>1 DEF BuyAction
  <2>2. CASE p[1] \notin ReportActions
    <3>1. NoPurchase \in [pc : PurStates, prod : Products \union {<<>>}, ref : Nat, rep : Nat]
      BY DEF PurStates, NoPurchase
    <3> QED BY <2>2, <3>1 DEF BuyAction, Rest, NoPurchase
  <2> QED BY <2>1, <2>2
<1>4. buyer'[s] = b /\ \A t \in Buyers \ {s} : buyer'[t] = buyer[t]
  BY <1>2, <1>3 DEF PurTypes
<1>5. /\ ents'[p] = Granted(p[1])
      /\ \A q \in Products : "report" \in ents[q] => "report" \in ents'[q]
  BY <1>1, GrantedStep
<1>6. Knows(s)'
  <2>1. p[1] \in ReportActions => "report" \in Granted(p[1])
    BY DEF ReportActions, Granted, KindOf
  <2> QED BY <1>1, <1>3, <1>4, <1>5, <2>1 DEF Knows
<1>7. \A t \in Buyers : Knows(t)'
  BY <1>2, <1>3, <1>5, <1>6, OthersKnow
<1>8. BindersSeen
  BY <1>1, <1>4 DEF BindersSeen
<1>9. FindersSeen
  BY <1>1, <1>4 DEF FindersSeen
<1>10. buyer' \in [Buyers -> [pc : PurStates, prod : Products \union {<<>>}, ref : Nat, rep : Nat]]
  BY <1>2, <1>3 DEF PurTypes, PurStates
<1>11. p[1] \in ReportActions => \E t \in Buyers : buyer'[t].pc = "find" /\ buyer'[t].prod = p
  BY <1>3, <1>4
<1> QED BY <1>1, <1>7, <1>8, <1>9, <1>10, <1>11, BoughtStep

LEMMA DirectStep ==
  ASSUME PurInv, NEW s \in Buyers, NEW p \in Products, PurchaseDirectly(s, p) PROVE PurInv'
<1>1. GrantFromCredits(p) /\ UNCHANGED <<bound, reports, buyer, died>>
      /\ p[1] \notin ReportActions
  BY DEF PurchaseDirectly, ReportActions
<1>2. PurTypes
  BY DEF PurInv
<1>3. \A q \in Products : "report" \in ents[q] => "report" \in ents'[q]
  BY <1>1, GrantedStep
<1>4. \A t \in Buyers : Knows(t)'
  BY <1>1, <1>3 DEF PurInv, Knows
<1>5. BindersSeen /\ FindersSeen
  BY <1>1 DEF BindersSeen, FindersSeen
<1>6. buyer' \in [Buyers -> [pc : PurStates, prod : Products \union {<<>>}, ref : Nat, rep : Nat]]
  BY <1>1, <1>2 DEF PurTypes, PurStates
<1> QED BY <1>1, <1>4, <1>5, <1>6, BoughtStep

\* A binding to a report that is of the right chart and tier.
LEMMA BindStep ==
  ASSUME PurInv, Kept, UNCHANGED <<charged, ents, died>>, NEW s \in Buyers, NEW r \in DOMAIN reports',
         r \in Nat \ {0}, buyer[s].pc \in {"find", "bind"},
         reports'[r].chart = buyer[s].prod[2], reports'[r].tier = TierOf(buyer[s].prod[1]),
         bound' = IF buyer[s].ref = 0 THEN [bound EXCEPT ![buyer[s].prod] = r] ELSE bound,
         buyer' = [buyer EXCEPT ![s] = [@ EXCEPT !.pc = "enqueue", !.rep = r]],
         \A q \in DOMAIN reports' \ DOMAIN reports : q = r
  PROVE  PurInv'
<1>1. PurTypes /\ Knows(s)
  BY DEF PurInv
<1> DEFINE p == buyer[s].prod
           b == [buyer[s] EXCEPT !.pc = "enqueue", !.rep = r]
<1>2. p \in Products /\ "report" \in ents[p] /\ (buyer[s].ref # 0 => bound[p] # 0)
  BY <1>1 DEF Knows
<1>3. /\ b \in [pc : PurStates, prod : Products \union {<<>>}, ref : Nat, rep : Nat]
      /\ b.pc = "enqueue" /\ b.rep = r /\ b.prod = p /\ b.ref = buyer[s].ref
  BY <1>1 DEF PurTypes, PurStates
<1>4. buyer' = [buyer EXCEPT ![s] = b]
  BY <1>1 DEF PurTypes
<1> HIDE DEF b
<1>5. buyer'[s] = b /\ \A t \in Buyers \ {s} : buyer'[t] = buyer[t]
  BY <1>1, <1>4 DEF PurTypes
<1>6. /\ bound' \in [Products -> Nat] /\ bound'[p] # 0
      /\ \A q \in Products : bound'[q] = bound[q] \/ (q = p /\ bound'[q] = r)
  BY <1>1, <1>2 DEF PurTypes
<1>7. PurTypes'
  BY <1>1, <1>3, <1>4, <1>6 DEF PurTypes, Kept, PurStates
<1>8. StillBound
  BY <1>6 DEF StillBound
<1>9. ASSUME NEW q \in Products PROVE BoundRight(q)'
  <2>1. CASE bound'[q] = bound[q]
    BY <2>1 DEF PurInv, BoundRight, Kept
  <2>2. CASE q = p /\ bound'[q] = r
    BY <1>2, <2>2 DEF BoundRight
  <2> QED BY <1>6, <2>1, <2>2
<1>10. FindersSeen
  BY <1>5 DEF FindersSeen
<1>11. BindersSeen
  BY <1>2, <1>5, <1>6 DEF BindersSeen
<1>12. \A q \in Products : Served(q)'
  BY <1>10, ServedStep
<1>13. \A c \in Charts : Bindings(c)'
  BY <1>8, <1>11, BindingsStep
<1>14. Knows(s)'
  BY <1>2, <1>3, <1>5, <1>6 DEF Knows
<1>15. \A t \in Buyers : Knows(t)'
  BY <1>4, <1>8, <1>14, OthersKnow
<1> QED BY <1>7, <1>9, <1>12, <1>13, <1>15 DEF PurInv

LEMMA FindStep ==
  ASSUME PurInv, NEW s \in Buyers, FindReport(s) PROVE PurInv'
<1> DEFINE p == buyer[s].prod
<1>1. UNCHANGED <<charged, ents, died>> /\ buyer[s].pc = "find"
  BY DEF FindReport
<1>2. PurTypes /\ p \in Products
  BY <1>1 DEF PurInv, Knows
<1>3. CASE OnChart(p[2]) # {} /\ Rest(s) /\ UNCHANGED <<bound, reports>>
  <2> DEFINE b == NoPurchase
  <2>1. b \in [pc : PurStates, prod : Products \union {<<>>}, ref : Nat, rep : Nat]
        /\ b.pc = "idle"
    BY DEF NoPurchase, PurStates
  <2>2. buyer' = [buyer EXCEPT ![s] = b]
    BY <1>3 DEF Rest
  <2> HIDE DEF b
  <2>3. buyer'[s] = b /\ \A t \in Buyers \ {s} : buyer'[t] = buyer[t]
    BY <1>2, <2>2 DEF PurTypes
  <2>4. Kept /\ Knows(s)'
    BY <1>2, <1>3, <2>1, <2>3, KeptSame DEF Knows
  <2>5. BindersSeen
    BY <1>1, <1>3, <2>3 DEF BindersSeen
  <2>6. \E r \in DOMAIN reports' : reports'[r].chart = p[2]
    BY <1>3 DEF OnChart
  <2>7. FindersSeen
    BY <2>3, <2>6 DEF FindersSeen
  <2> QED BY <1>1, <1>3, <2>1, <2>2, <2>4, <2>5, <2>7, SessionStep
<1>4. CASE /\ NewReport(p)
           /\ bound' = IF buyer[s].ref = 0 THEN [bound EXCEPT ![p] = Len(reports) + 1] ELSE bound
           /\ buyer' = [buyer EXCEPT ![s] = [@ EXCEPT !.pc = "enqueue", !.rep = Len(reports) + 1]]
  <2>1. /\ Kept
        /\ DOMAIN reports' = DOMAIN reports \union {Len(reports) + 1}
        /\ reports'[Len(reports) + 1].chart = p[2]
        /\ reports'[Len(reports) + 1].tier = TierOf(p[1])
        /\ Len(reports) + 1 \in Nat \ {0}
    BY <1>2, <1>4, KeptNew
  <2> QED BY <1>1, <1>4, <2>1, BindStep
<1> QED BY <1>3, <1>4 DEF FindReport

LEMMA BindsStep ==
  ASSUME PurInv, NEW s \in Buyers, Bind(s) PROVE PurInv'
<1>1. UNCHANGED <<charged, ents, died, reports>> /\ buyer[s].pc = "bind"
  BY DEF Bind
<1>2. PurTypes /\ Kept
  BY <1>1, KeptSame DEF PurInv
<1>3. /\ buyer[s].rep \in DOMAIN reports'
      /\ reports'[buyer[s].rep].chart = buyer[s].prod[2]
      /\ reports'[buyer[s].rep].tier = TierOf(buyer[s].prod[1])
  BY <1>1 DEF PurInv, Knows
<1>4. buyer[s].rep \in Nat \ {0}
  BY <1>1, <1>2, <1>3 DEF PurTypes
<1>5. buyer' = [buyer EXCEPT ![s] = [@ EXCEPT !.pc = "enqueue", !.rep = buyer[s].rep]]
  BY <1>2 DEF Bind, PurTypes
<1>6. bound' = IF buyer[s].ref = 0 THEN [bound EXCEPT ![buyer[s].prod] = buyer[s].rep] ELSE bound
  BY DEF Bind
<1> QED BY <1>1, <1>2, <1>3, <1>4, <1>5, <1>6, BindStep

LEMMA DiesStep ==
  ASSUME PurInv, NEW s \in Buyers, BuyerDies(s) PROVE PurInv'
<1>1. UNCHANGED <<charged, ents, bound, reports>> /\ Rest(s) /\ died'
  BY DEF BuyerDies
<1>2. Kept
  BY <1>1, KeptSame DEF PurInv
<1> QED BY <1>1, <1>2, RestStep

LEMMA PurStep == PurInv /\ [PurNext]_purVars => PurInv'
<1> SUFFICES ASSUME PurInv, [PurNext]_purVars PROVE PurInv'
  OBVIOUS
<1>1. ASSUME NEW s \in Buyers, NEW p \in Products, BuyAction(s, p) PROVE PurInv'
  BY <1>1, BuyStep
<1>2. ASSUME NEW s \in Buyers, NEW p \in Products, PurchaseDirectly(s, p) PROVE PurInv'
  BY <1>2, DirectStep
<1>3. ASSUME NEW s \in Buyers, NEW c \in Charts, AskForReport(s, c) PROVE PurInv'
  BY <1>3, AskStep
<1>4. ASSUME NEW s \in Buyers, FindReport(s) PROVE PurInv'
  BY <1>4, FindStep
<1>5. ASSUME NEW s \in Buyers, Bind(s) PROVE PurInv'
  BY <1>5, BindsStep
<1>6. ASSUME NEW s \in Buyers, BuyerDies(s) PROVE PurInv'
  BY <1>6, DiesStep
<1>7. ASSUME NEW s \in Buyers, NEW yes \in BOOLEAN, LookAndCreate(s, yes) PROVE PurInv'
  BY <1>7, LookStep
<1>8. ASSUME NEW s \in Buyers, NEW yes \in BOOLEAN, Enqueue(s, yes) PROVE PurInv'
  BY <1>8, EnqueueStep
<1>9. ASSUME NEW r \in DOMAIN reports, ReportFails(r) PROVE PurInv'
  BY <1>9, FailsStep
<1>10. CASE UNCHANGED purVars
  <2>1. UNCHANGED <<charged, ents, bound, reports, buyer, died>>
    BY <1>10 DEF purVars
  <2>2. PurTypes'
    BY <2>1 DEF PurInv, PurTypes
  <2>3. \A p \in Products : BoundRight(p)' /\ Served(p)'
    BY <2>1 DEF PurInv, BoundRight, Served
  <2>4. \A s \in Buyers : Knows(s)'
    BY <2>1 DEF PurInv, Knows
  <2>5. \A c \in Charts : Bindings(c)'
    BY <2>1 DEF PurInv, Bindings
  <2> QED BY <2>2, <2>3, <2>4, <2>5 DEF PurInv
<1> QED
  BY <1>1, <1>2, <1>3, <1>4, <1>5, <1>6, <1>7, <1>8, <1>9, <1>10 DEF PurNext

LEMMA PurStarts == PurInit => PurInv
BY DEF PurInit, PurInv, PurTypes, BoundRight, Served, Knows, Bindings, NoPurchase

\* Whatever the number of sessions, purchases, clicks and failures: an entitlement is bound
\* to a report of its own chart and tier, and with every request over, and none dead, whoever
\* bought a report of a chart can read one of it.
THEOREM BuyersCanRead == PurSpec => []BoughtIsBound
<1>1. PurInv => BoughtIsBound
  <2> SUFFICES ASSUME PurInv PROVE BoughtIsBound
    OBVIOUS
  <2>1. TierAsBought
    BY DEF PurInv, BoundRight, TierAsBought
  <2>2. ASSUME ~died, \A s \in Buyers : buyer[s].pc = "idle",
               NEW p \in charged, p[1] \in ReportActions
        PROVE  \E r \in OnChart(p[2]) : MayRead(r)
    <3>1. p \in Products /\ Served(p)
      BY DEF PurInv, PurTypes
    <3>2. \E r \in DOMAIN reports : reports[r].chart = p[2]
      BY <2>2, <3>1 DEF Served
    <3>3. p[2] \in Charts
      BY <3>1 DEF Products
    <3>4. PICK q \in Products : q[2] = p[2] /\ bound[q] # 0
      BY <2>2, <3>2, <3>3 DEF PurInv, Bindings
    <3>5. BoundRight(q)
      BY DEF PurInv
    <3> QED BY <3>4, <3>5 DEF BoundRight, OnChart, MayRead
  <2>3. BuyerCanRead
    BY <2>2 DEF BuyerCanRead
  <2> QED BY <2>1, <2>3 DEF BoughtIsBound
<1> QED BY <1>1, PurStarts, PurStep, PTL DEF PurSpec

\* The rows a bounded run can hold: reports of the three tiers, requests that know of no more
\* reports than there can be.
TieredRows == [chart : Charts, tier : {"basic", "full", "gold"}, live : BOOLEAN]
Visits == [pc : {"idle", "find", "lock", "bind", "enqueue"}, prod : Products \union {<<>>},
             ref : 0 .. MaxReports, rep : 0 .. MaxReports]

PurBounds ==
    /\ purse \in 0 .. Purse /\ died \in BOOLEAN
    /\ reports \in Seq(TieredRows) /\ Len(reports) <= MaxReports
    /\ buyer \in [Buyers -> Visits]

\* Only what is sold as a report lets its buyer have one, and it has a tier.
LEMMA ReportsHaveTiers ==
  ASSUME NEW p \in Products, "report" \in Granted(p[1])
  PROVE  p[1] \in ReportActions /\ TierOf(p[1]) \in {"basic", "full", "gold"}
<1>1. p[1] \in Actions
  BY DEF Products
<1>2. p[1] # "report"
  BY <1>1, PurchasesAssumption
<1>3. p[1] \in ReportActions
  BY <1>2 DEF Granted, KindOf, ReportActions
<1> QED BY <1>3 DEF ReportActions, TierOf

LEMMA WorksForReport ==
  ASSUME PurInv, NEW s \in Buyers, buyer[s].pc # "idle"
  PROVE  /\ buyer[s].prod \in Products
         /\ TierOf(buyer[s].prod[1]) \in {"basic", "full", "gold"}
<1>1. buyer[s].prod \in Products /\ "report" \in ents[buyer[s].prod]
  BY DEF PurInv, Knows
<1>2. Served(buyer[s].prod)
  BY <1>1 DEF PurInv
<1>3. "report" \in Granted(buyer[s].prod[1])
  BY <1>1, <1>2 DEF Served
<1> QED BY <1>1, <1>3, ReportsHaveTiers

\* What an entitlement is bound to is within the bound.
LEMMA BoundFits ==
  ASSUME PurInv, PurBounds, NEW p \in Products
  PROVE  bound[p] \in 0 .. MaxReports
<1>1. /\ bound[p] \in Nat /\ Len(reports) \in Nat /\ DOMAIN reports = 1 .. Len(reports)
      /\ Len(reports) <= MaxReports
  BY DEF PurInv, PurTypes, PurBounds
<1>2. bound[p] # 0 => bound[p] \in DOMAIN reports
  BY DEF PurInv, BoundRight
<1> QED BY <1>1, <1>2, PurchasesAssumption

LEMMA RestFits ==
  ASSUME PurBounds, NEW s \in Buyers, Rest(s)
  PROVE  buyer' \in [Buyers -> Visits]
<1>1. NoPurchase \in Visits
  BY PurchasesAssumption DEF NoPurchase, Visits
<1> QED BY <1>1 DEF Rest, PurBounds

LEMMA MovesOn ==
  ASSUME PurBounds, NEW s \in Buyers, NEW r \in 0 .. MaxReports,
         NEW pc \in {"bind", "enqueue"},
         buyer' = [buyer EXCEPT ![s] = [@ EXCEPT !.pc = pc, !.rep = r]]
  PROVE  buyer' \in [Buyers -> Visits]
<1>1. buyer \in [Buyers -> Visits] /\ buyer[s] \in Visits
  BY DEF PurBounds
<1>2. [buyer[s] EXCEPT !.pc = pc, !.rep = r] \in Visits
  BY <1>1 DEF Visits
<1> QED BY <1>1, <1>2

LEMMA CopyAdded ==
  ASSUME PurInv, PurBounds, NEW s \in Buyers, buyer[s].pc # "idle", Len(reports) < MaxReports,
         NewReport(buyer[s].prod)
  PROVE  /\ reports' \in Seq(TieredRows) /\ Len(reports') <= MaxReports
         /\ Len(reports) + 1 \in 0 .. MaxReports
<1> DEFINE row == [chart |-> buyer[s].prod[2], tier |-> TierOf(buyer[s].prod[1]), live |-> TRUE]
<1>1. row \in TieredRows
  BY WorksForReport DEF TieredRows, Products
<1>2. reports' = Append(reports, row) /\ reports \in Seq(TieredRows)
  BY DEF NewReport, Tier, PurBounds
<1> HIDE DEF row
<1>3. reports' \in Seq(TieredRows) /\ Len(reports') = Len(reports) + 1 /\ Len(reports) \in Nat
  BY <1>1, <1>2
<1> QED BY <1>3, PurchasesAssumption

LEMMA CopyChanges ==
  ASSUME PurBounds, NEW r \in DOMAIN reports, NEW live \in BOOLEAN,
         reports' = [reports EXCEPT ![r].live = live]
  PROVE  reports' \in Seq(TieredRows) /\ Len(reports') <= MaxReports
<1>1. reports \in Seq(TieredRows) /\ reports[r] \in TieredRows /\ Len(reports) <= MaxReports
  BY DEF PurBounds
<1> DEFINE row == [reports[r] EXCEPT !.live = live]
<1>2. row \in TieredRows
  BY <1>1 DEF TieredRows
<1>3. reports' = [reports EXCEPT ![r] = row]
  OBVIOUS
<1> HIDE DEF row
<1> QED BY <1>1, <1>2, <1>3

\* Buying takes no more than the purse holds.
LEMMA PurseFits ==
  ASSUME PurBounds, NEW p \in Products, GrantFromCredits(p)
  PROVE  purse' \in 0 .. Purse
<1>1. CreditPrice(p[1]) \in Nat
  BY PurchasesAssumption DEF Products
<1> QED BY <1>1, PurchasesAssumption DEF GrantFromCredits, PurBounds

LEMMA BoundsStep == PurInv /\ PurBounds /\ [PurNext]_purVars => PurBounds'
<1> SUFFICES ASSUME PurInv, PurBounds, [PurNext]_purVars PROVE PurBounds'
  OBVIOUS
<1>1. ASSUME NEW s \in Buyers, NEW p \in Products, BuyAction(s, p) PROVE PurBounds'
  <2>1. purse' \in 0 .. Purse /\ UNCHANGED <<reports, died>>
    BY <1>1, PurseFits DEF BuyAction
  <2>2. CASE p[1] \in ReportActions
    <3>1. [pc |-> "find", prod |-> p, ref |-> bound[p], rep |-> 0] \in Visits
      BY BoundFits, PurchasesAssumption DEF Visits
    <3> QED BY <1>1, <2>1, <2>2, <3>1 DEF BuyAction, PurBounds
  <2>3. CASE p[1] \notin ReportActions
    <3>1. buyer' \in [Buyers -> Visits]
      BY <1>1, <2>3, RestFits DEF BuyAction
    <3> QED BY <2>1, <3>1 DEF PurBounds
  <2> QED BY <2>2, <2>3
<1>2. ASSUME NEW s \in Buyers, NEW p \in Products, PurchaseDirectly(s, p) PROVE PurBounds'
  BY <1>2, PurseFits DEF PurchaseDirectly, PurBounds
<1>3. ASSUME NEW s \in Buyers, NEW c \in Charts, AskForReport(s, c) PROVE PurBounds'
  <2>1. PICK p \in Has("report", c) :
          buyer' = [buyer EXCEPT ![s] = [pc |-> "lock", prod |-> p, ref |-> bound[p], rep |-> 0]]
    BY <1>3 DEF AskForReport
  <2>2. p \in Products
    BY DEF Has
  <2>3. [pc |-> "lock", prod |-> p, ref |-> bound[p], rep |-> 0] \in Visits
    BY <2>2, BoundFits, PurchasesAssumption DEF Visits
  <2> QED BY <1>3, <2>1, <2>3 DEF AskForReport, PurBounds
<1>4. ASSUME NEW s \in Buyers, FindReport(s) PROVE PurBounds'
  <2>1. buyer[s].pc # "idle" /\ UNCHANGED <<purse, died>>
    BY <1>4 DEF FindReport
  <2>2. CASE Rest(s) /\ UNCHANGED <<bound, reports>>
    BY <2>1, <2>2, RestFits DEF PurBounds
  <2>3. CASE /\ Len(reports) < MaxReports /\ NewReport(buyer[s].prod)
             /\ buyer' = [buyer EXCEPT ![s] = [@ EXCEPT !.pc = "enqueue", !.rep = Len(reports) + 1]]
    <3>1. /\ reports' \in Seq(TieredRows) /\ Len(reports') <= MaxReports
          /\ Len(reports) + 1 \in 0 .. MaxReports
      BY <2>1, <2>3, CopyAdded
    <3>2. buyer' \in [Buyers -> Visits]
      BY <2>3, <3>1, MovesOn
    <3> QED BY <2>1, <3>1, <3>2 DEF PurBounds
  <2> QED BY <1>4, <2>2, <2>3 DEF FindReport
<1>5. ASSUME NEW s \in Buyers, NEW yes \in BOOLEAN, LookAndCreate(s, yes) PROVE PurBounds'
  <2> DEFINE c == buyer[s].prod[2]
  <2>1. buyer[s].pc # "idle" /\ UNCHANGED <<purse, died>>
    BY <1>5 DEF LookAndCreate
  <2>2. CASE Rest(s) /\ reports' = reports
    BY <2>1, <2>2, RestFits DEF PurBounds
  <2>3. CASE /\ OnChart(c) # {}
             /\ reports' = [reports EXCEPT ![Latest(c)].live = TRUE]
             /\ buyer' = [buyer EXCEPT ![s] = [@ EXCEPT !.pc = "enqueue", !.rep = Latest(c)]]
    <3>1. Latest(c) \in DOMAIN reports
      BY <2>3, NewestReport DEF PurInv
    <3>2. reports' \in Seq(TieredRows) /\ Len(reports') <= MaxReports
      BY <2>3, <3>1, CopyChanges
    <3>3. Latest(c) \in 0 .. MaxReports
      BY <3>1, PurchasesAssumption DEF PurBounds
    <3>4. buyer' \in [Buyers -> Visits]
      BY <2>3, <3>3, MovesOn
    <3> QED BY <2>1, <3>2, <3>4 DEF PurBounds
  <2>4. CASE /\ Len(reports) < MaxReports /\ NewReport(buyer[s].prod)
             /\ buyer' = [buyer EXCEPT ![s] = [@ EXCEPT !.pc = "bind", !.rep = Len(reports) + 1]]
    <3>1. /\ reports' \in Seq(TieredRows) /\ Len(reports') <= MaxReports
          /\ Len(reports) + 1 \in 0 .. MaxReports
      BY <2>1, <2>4, CopyAdded
    <3>2. buyer' \in [Buyers -> Visits]
      BY <2>4, <3>1, MovesOn
    <3> QED BY <2>1, <3>1, <3>2 DEF PurBounds
  <2> QED BY <1>5, <2>2, <2>3, <2>4 DEF LookAndCreate
<1>6. ASSUME NEW s \in Buyers, Bind(s) PROVE PurBounds'
  <2>1. /\ UNCHANGED <<purse, reports, died>>
        /\ buyer' = [buyer EXCEPT ![s].pc = "enqueue"]
    BY <1>6 DEF Bind
  <2>2. buyer \in [Buyers -> Visits] /\ buyer[s] \in Visits
    BY DEF PurBounds
  <2>3. [buyer[s] EXCEPT !.pc = "enqueue"] \in Visits
    BY <2>2 DEF Visits
  <2>4. buyer' \in [Buyers -> Visits]
    BY <2>1, <2>2, <2>3
  <2> QED BY <2>1, <2>4 DEF PurBounds
<1>7. ASSUME NEW s \in Buyers, BuyerDies(s) PROVE PurBounds'
  BY <1>7, RestFits DEF BuyerDies, PurBounds
<1>8. ASSUME NEW s \in Buyers, NEW ok \in BOOLEAN, Enqueue(s, ok) PROVE PurBounds'
  <2>1. Rest(s) /\ UNCHANGED <<purse, died>> /\ buyer[s].pc = "enqueue"
    BY <1>8 DEF Enqueue
  <2>2. buyer[s].rep \in DOMAIN reports
    BY <2>1 DEF PurInv, Knows
  <2>3. reports' \in Seq(TieredRows) /\ Len(reports') <= MaxReports
    <3>1. CASE reports' = reports
      BY <3>1 DEF PurBounds
    <3>2. CASE reports' = [reports EXCEPT ![buyer[s].rep].live = FALSE]
      BY <2>2, <3>2, CopyChanges
    <3> QED BY <1>8, <3>1, <3>2 DEF Enqueue
  <2> QED BY <2>1, <2>3, RestFits DEF PurBounds
<1>9. ASSUME NEW r \in DOMAIN reports, ReportFails(r) PROVE PurBounds'
  BY <1>9, CopyChanges DEF ReportFails, PurBounds
<1>10. CASE UNCHANGED purVars
  BY <1>10 DEF purVars, PurBounds
<1> QED BY <1>1, <1>2, <1>3, <1>4, <1>5, <1>6, <1>7, <1>8, <1>9, <1>10 DEF PurNext

\* Types of the purse, the ledger, entitlements, reports and requests.
THEOREM PurTypeCorrect == PurSpec => []PurTypeOK
<1>1. PurInit => PurBounds
  <2> SUFFICES ASSUME PurInit PROVE PurBounds
    OBVIOUS
  <2>1. NoPurchase \in Visits
    BY PurchasesAssumption DEF NoPurchase, Visits
  <2>2. reports \in Seq(TieredRows) /\ Len(reports) <= MaxReports
    BY PurchasesAssumption DEF PurInit
  <2>3. buyer \in [Buyers -> Visits]
    BY <2>1 DEF PurInit
  <2>4. purse \in 0 .. Purse
    BY PurchasesAssumption DEF PurInit
  <2>5. died \in BOOLEAN
    BY Zenon DEF PurInit
  <2> QED BY <2>2, <2>3, <2>4, <2>5 DEF PurBounds
<1>2. PurInv /\ PurBounds => PurTypeOK
  <2> SUFFICES ASSUME PurInv, PurBounds PROVE PurTypeOK
    OBVIOUS
  <2>1. ents \in [Products -> SUBSET UNION {Granted(a) : a \in Actions}]
    <3>1. ASSUME NEW p \in Products PROVE ents[p] \in SUBSET UNION {Granted(a) : a \in Actions}
      <4>1. p[1] \in Actions /\ Served(p)
        BY DEF Products, PurInv
      <4>2. ents[p] = {} \/ ents[p] = Granted(p[1])
        BY <4>1 DEF Served
      <4> QED BY <4>1, <4>2
    <3>2. ents \in [Products -> SUBSET Kinds]
      BY DEF PurInv, PurTypes
    <3> QED BY <3>1, <3>2
  <2>2. bound \in [Products -> 0 .. MaxReports]
    BY BoundFits DEF PurInv, PurTypes
  <2>3. \A r \in DOMAIN reports : reports[r] \in TieredRows
    BY DEF PurBounds
  <2>4. /\ purse \in 0 .. Purse /\ charged \subseteq Products /\ died \in BOOLEAN
        /\ buyer \in [Buyers -> Visits]
    BY DEF PurInv, PurTypes, PurBounds
  <2> QED BY <2>1, <2>2, <2>3, <2>4 DEF PurTypeOK, TieredRows, Visits
<1>3. PurInv /\ PurBounds /\ [PurNext]_purVars => PurInv' /\ PurBounds'
  BY BoundsStep, PurStep
<1> QED BY <1>1, <1>2, <1>3, PurStarts, PTL DEF PurSpec

-----------------------------------------------------------------------------
(* All services of MCServices side by side.  Every step of a run is a step *)
(* of one of them and leaves the variables of the others alone, so the run *)
(* is a behaviour of each.                                                 *)

LEMMA OneServiceRuns ==
    ASSUME [ServicesNext]_servicesVars
    PROVE  /\ [Next]_vars /\ [PurNext]_purVars /\ [SubNext]_subVars /\ [AccessNext]_accessVars
           /\ [RouterNext]_routerVars /\ [LoginNext]_loginVars /\ [AudioNext]_audioVars
           /\ [DeletionNext]_delVars /\ [ContentNext]_contentVars /\ [DigestsNext]_digestVars
           /\ [SettingsNext]_settingVars
<1>1. CASE UNCHANGED servicesVars
  BY <1>1 DEF servicesVars
<1>2. CASE ServicesNext
  BY <1>2 DEF ServicesNext, OnlyIn
<1> QED BY <1>1, <1>2

\* A run of MCServices is a behaviour of every service in it: what is proved of one holds in
\* the run.
THEOREM ServicesAreParts ==
    ServicesSpec => /\ Spec /\ PurSpec /\ SubSpec /\ AccessSpec /\ RouterSpec /\ LoginSpec
                    /\ AudioSpec /\ DeletionSpec /\ ContentSpec /\ DigestsSpec /\ SettingsSpec
<1>1. ServicesInit => /\ Init /\ PurInit /\ SubInit /\ AccessInit /\ RouterInit /\ LoginInit
                      /\ AudioInit /\ DeletionInit /\ ContentInit /\ DigestsInit /\ SettingsInit
  BY DEF ServicesInit
<1> QED
  BY <1>1, OneServiceRuns, PTL DEF ServicesSpec, Spec, PurSpec, SubSpec, AccessSpec, RouterSpec,
     LoginSpec, AudioSpec, DeletionSpec, ContentSpec, DigestsSpec, SettingsSpec

\* Whichever service runs, its variables have their types: no balance, purse or counter is
\* negative, no counter passes its bound, no status is unknown.
THEOREM ServiceTypesCorrect == ServicesSpec => []ServiceTypesOK
<1>1. SubInv => SubTypeOK
  BY DEF SubInv
<1>2. RouterInv => RouterTypeOK
  BY DEF RouterInv
<1>3. AudioInv => AudioTypeOK
  BY DEF AudioInv
<1>4. DeletionInv => DeletionTypeOK
  BY DEF DeletionInv
<1>5. DigestsInv => DigestsTypeOK
  BY DEF DigestsInv
<1>6. SettingsInv => SettingsTypeOK
  BY DEF SettingsInv
<1>7. SubSpec => []SubInv
  BY SubInitially, SubStep, PTL DEF SubSpec
<1>8. /\ TypeOK /\ PurTypeOK /\ SubTypeOK /\ AccessTypeOK /\ RouterTypeOK /\ LoginTypeOK
      /\ AudioTypeOK /\ DeletionTypeOK /\ ContentTypeOK /\ DigestsTypeOK /\ SettingsTypeOK
      => ServiceTypesOK
  BY DEF ServiceTypesOK
<1> QED
  BY <1>1, <1>2, <1>3, <1>4, <1>5, <1>6, <1>7, <1>8, ServicesAreParts, TypeCorrect,
     PurTypeCorrect, AccessTypeCorrect, RouterInvCorrect, LoginTypeCorrect, AudioInvCorrect,
     DeletionInvCorrect, ContentTypeCorrect, DigestsInvCorrect, SettingsInvCorrect, PTL

\* In a run of several services the wallet still implements the account of CreditAccount:
\* cash-outs, purchases and rewards move a balance once each, and never below zero.
THEOREM WalletOfServices == ServicesSpec => WalletImplementsAccount
<1>1. [Account!Next]_(Account!vars)
        => [running = "wallet" => [Account!Next]_(Account!vars)]_vars
  OBVIOUS
<1> QED
  BY <1>1, ServicesAreParts, WalletIsAnAccount, PTL
     DEF ImplementsAccount, Account!Spec, WalletImplementsAccount

\* Everything that a run of the services checks, for every instance of them: of the wallet,
\* where refunds stand alone and no buyer used the codes of two referrers; of the one-time
\* passwords, with two visitors.
THEOREM ServicesAreSound ==
    ASSUME RefundsStandAlone, OneReferrer, MaxHops >= 1, NEW v, NEW w, Visitors = {v, w}
    PROVE  ServicesSpec =>
              /\ []ServiceTypesOK /\ []BonusFair /\ []BoughtIsBound /\ []AccessHeld
              /\ []PeriodsArePaidFor /\ []GuessesBounded /\ []GeneratingHasJob
              /\ []FailClosed /\ []NothingIsLost /\ []SentOnce /\ []SavedIsUsed
              /\ WalletImplementsAccount /\ KeyPoolKept
<1>1. LoginSpec => []GuessesBounded
  BY GuessesAreBounded
<1>2. Spec => []BonusFair
  BY BonusIsFair
<1> QED
  BY <1>1, <1>2, ServicesAreParts, ServiceTypesCorrect, BuyersCanRead, AccessIsHeld,
     SubscriptionIsPaidFor, GeneratingAudioHasJob, DeletionFailsClosed, NoTextIsLost,
     MessagesSentOnce, SavedSettingUsed, WalletOfServices, KeyPoolCorrect, PTL
=============================================================================
