---------------------------- MODULE OrdersProofs ----------------------------
(***************************************************************************)
(* Proofs about the order lifecycle, for any number of orders, coupons and *)
(* concurrent sessions, with or without crashes: used_count stays within   *)
(* its limit, a claim is exclusive, what is paid is backed by money and    *)
(* delivered, is never for sale again, and what is refunded was returned.  *)
(* Where the writers come one at a time, the slots are counted exactly.    *)
(***************************************************************************)
EXTENDS Orders, FiniteSetTheorems, TLAPS

\* A loaded used_count is one the coupon had: within the limit.
SeenWithinLimit == \A s \in Sessions : \A c \in Coupons : seen[s][c] <= MaxUses[c]

\* The steps of a callback between its claim and its outcome, and those of a
\* refund after its first transition.
ClaimSteps == {"verify", "settle", "reopen", "refused"}
RefundSteps == {"refund", "finalize", "refundError", "release", "releaseWrite"}

\* No order in the middle of verification can be claimed again, and none of
\* them was delivered.
ClaimsGuarded ==
    \A s \in Sessions : task[s].pc \in ClaimSteps =>
        /\ task[s].order \in Orders
        /\ status[task[s].order] \notin {"none", "pending"}
        /\ task[s].order \notin delivered

ClaimsDisjoint ==
    \A s, t \in Sessions :
        /\ task[s].pc \in ClaimSteps
        /\ task[t].pc \in ClaimSteps
        /\ task[s].order = task[t].order
        => s = t

\* A callback that settles has the gateway's confirmation, one that refunds an
\* order works on a delivered one, and finalizes only when the money went back.
AnswersHold ==
    \A s \in Sessions :
        /\ task[s].pc = "settle" => gate[task[s].order] \in {"confirmed", "returned"}
        /\ task[s].pc \in RefundSteps => task[s].order \in delivered
        /\ task[s].pc = "finalize" => gate[task[s].order] = "returned"

Core ==
    /\ ClaimsGuarded
    /\ ClaimsDisjoint
    /\ AnswersHold
    /\ PaidIsBacked
    /\ PaidIsDelivered
    /\ NotPayableAgain
    /\ RefundedIsReturned

IInv == TypeOK /\ SlotsWithinLimit /\ SeenWithinLimit /\ Core

-----------------------------------------------------------------------------

\* Every step keeps the types.
LEMMA TypeStep ==
    ASSUME IInv, [Next]_vars
    PROVE  TypeOK'
<1> USE OrdersAssumption DEF IInv, TypeOK, Statuses, GateStates, Steps, Idle, NothingSeen,
           At, Goto, GotoLoaded, Done, SetStatus, rowVars
<1>1. CASE UNCHANGED vars
  BY <1>1 DEF vars
<1>2. ASSUME NEW s \in Sessions, NEW o \in Orders, NEW c \in Coupons \union {NoCoupon},
             NewOrder(s, o, c)
      PROVE  TypeOK'
  BY <1>2 DEF NewOrder, CreateOrder, Reserve
<1>3. ASSUME NEW s \in Sessions, NEW o \in Orders, NEW c \in Coupons \union {NoCoupon},
             NewOrderRejected(s, o, c)
      PROVE  TypeOK'
  BY <1>3 DEF NewOrderRejected
<1>4. ASSUME NEW s \in Sessions, NEW o \in Orders, NEW c \in Coupons \union {NoCoupon},
             WalletOrder(s, o, c)
      PROVE  TypeOK'
  <2>1. used' \in [Coupons -> Nat]
    BY <1>4 DEF WalletOrder, CreateOrder, Reserve
  <2>2. QED
    BY <1>4, <2>1 DEF WalletOrder, CreateOrder, SetStatus, Goto, Statuses,
      GateStates, Steps
<1>5. ASSUME NEW s \in Sessions, NEW o \in Orders,
             WalletPaid(s, o)
      PROVE  TypeOK'
  BY <1>5 DEF WalletPaid
<1>6. ASSUME NEW s \in Sessions, NEW o \in Orders,
             WalletShort(s, o)
      PROVE  TypeOK'
  BY <1>6 DEF WalletShort
<1>7. ASSUME NEW s \in Sessions, NEW o \in Orders,
             WalletCancelled(s, o)
      PROVE  TypeOK'
  BY <1>7 DEF WalletCancelled, ReleaseCoupon
<1>8. ASSUME NEW o \in Orders,
             BuyerPays(o)
      PROVE  TypeOK'
  BY <1>8 DEF BuyerPays, Gateway
<1>9. ASSUME NEW o \in Orders,
             BuyerCancels(o)
      PROVE  TypeOK'
  BY <1>9 DEF BuyerCancels, Gateway
<1>10. ASSUME NEW o \in Orders,
             GatewayReverses(o)
      PROVE  TypeOK'
  BY <1>10 DEF GatewayReverses, Gateway
<1>11. ASSUME NEW s \in Sessions, NEW o \in Orders,
             Claim(s, o)
      PROVE  TypeOK'
  BY <1>11 DEF Claim
<1>12. ASSUME NEW s \in Sessions, NEW o \in Orders,
             GatewayConfirms(s, o)
      PROVE  TypeOK'
  BY <1>12 DEF GatewayConfirms
<1>13. ASSUME NEW s \in Sessions, NEW o \in Orders,
             VerifyTimeout(s, o)
      PROVE  TypeOK'
  BY <1>13 DEF VerifyTimeout
<1>14. ASSUME NEW s \in Sessions, NEW o \in Orders,
             GatewayRefuses(s, o)
      PROVE  TypeOK'
  BY <1>14 DEF GatewayRefuses
<1>14a. ASSUME NEW s \in Sessions, NEW o \in Orders,
             GatewayUnreadable(s, o)
      PROVE  TypeOK'
  BY <1>14a DEF GatewayUnreadable
<1>15. ASSUME NEW s \in Sessions, NEW o \in Orders,
             SettlePaid(s, o)
      PROVE  TypeOK'
  BY <1>15 DEF SettlePaid
<1>16. ASSUME NEW s \in Sessions, NEW o \in Orders,
             Reopen(s, o)
      PROVE  TypeOK'
  BY <1>16 DEF Reopen
<1>17. ASSUME NEW s \in Sessions, NEW o \in Orders,
             SettleFailed(s, o)
      PROVE  TypeOK'
  BY <1>17 DEF SettleFailed, ReleaseCoupon
<1>18. ASSUME NEW s \in Sessions, NEW o \in Orders,
             CancelCallback(s, o)
      PROVE  TypeOK'
  BY <1>18 DEF CancelCallback
<1>19. ASSUME NEW s \in Sessions, NEW o \in Orders,
             CancelWrite(s, o)
      PROVE  TypeOK'
  BY <1>19 DEF CancelWrite, ReleaseCoupon
<1>20. ASSUME NEW s \in Sessions, NEW S \in SUBSET Orders,
             SweepLoad(s, S)
      PROVE  TypeOK'
  BY <1>20 DEF SweepLoad
<1>21. ASSUME NEW s \in Sessions,
             SweepWrite(s)
      PROVE  TypeOK'
  <2>1. \A c \in Coupons : LoadedOf(s, c) \in SUBSET Orders
    BY DEF LoadedOf
  <2>2. \A c \in Coupons : Cardinality(LoadedOf(s, c)) \in Nat
    BY <2>1, FS_Subset, FS_CardinalityType
  <2>3. used' \in [Coupons -> Nat]
    BY <1>21, <2>2 DEF SweepWrite
  <2>4. status' \in [Orders -> Statuses]
    BY <1>21 DEF SweepWrite, Statuses
  <2>5. QED
    BY <1>21, <2>3, <2>4 DEF SweepWrite, Done, Idle, NothingSeen, Steps
<1>22. ASSUME NEW s \in Sessions, NEW o \in Orders,
             RefundClaim(s, o)
      PROVE  TypeOK'
  BY <1>22 DEF RefundClaim
<1>23. ASSUME NEW s \in Sessions, NEW o \in Orders,
             GatewayReturns(s, o)
      PROVE  TypeOK'
  BY <1>23 DEF GatewayReturns
<1>24. ASSUME NEW s \in Sessions, NEW o \in Orders,
             RefundCallFails(s, o)
      PROVE  TypeOK'
  BY <1>24 DEF RefundCallFails
<1>25. ASSUME NEW s \in Sessions, NEW o \in Orders,
             RefundFailed(s, o)
      PROVE  TypeOK'
  BY <1>25 DEF RefundFailed
<1>26. ASSUME NEW s \in Sessions, NEW o \in Orders,
             Finalize(s, o)
      PROVE  TypeOK'
  <2>1. finals' \in [Orders -> Nat]
    BY <1>26 DEF Finalize
  <2>2. QED
    BY <1>26, <2>1 DEF Finalize, SetStatus, At, Goto, Statuses, Steps
<1>27. ASSUME NEW s \in Sessions, NEW o \in Orders,
             FinalizeLost(s, o)
      PROVE  TypeOK'
  BY <1>27 DEF FinalizeLost
<1>28. ASSUME NEW s \in Sessions, NEW o \in Orders,
             ReleaseLoad(s, o)
      PROVE  TypeOK'
  BY <1>28 DEF ReleaseLoad
<1>29. ASSUME NEW s \in Sessions, NEW o \in Orders,
             ReleaseWrite(s, o)
      PROVE  TypeOK'
  BY <1>29 DEF ReleaseWrite, ReleaseCoupon
<1>30. ASSUME NEW s \in Sessions,
             Crash(s)
      PROVE  TypeOK'
  BY <1>30 DEF Crash
<1> HIDE DEF IInv, TypeOK
<1>31. QED
  BY <1>1, <1>2, <1>3, <1>4, <1>5, <1>6, <1>7, <1>8, <1>9, <1>10, <1>11,
     <1>12, <1>13, <1>14, <1>14a, <1>15, <1>16, <1>17, <1>18, <1>19, <1>20,
     <1>21, <1>22, <1>23, <1>24, <1>25, <1>26, <1>27, <1>28, <1>29,
     <1>30
  DEF Next, Start, Proceed, Sessions

\* Every step keeps the counts, and the loaded counts, within their limits.
LEMMA SlotStep ==
    ASSUME IInv, [Next]_vars
    PROVE  SlotsWithinLimit' /\ SeenWithinLimit'
<1> USE OrdersAssumption DEF IInv, TypeOK, SlotsWithinLimit, SeenWithinLimit, NothingSeen,
           At, Goto, GotoLoaded, Done, SetStatus, rowVars
<1>1. CASE UNCHANGED vars
  BY <1>1 DEF vars
<1>2. ASSUME NEW s \in Sessions, NEW o \in Orders, NEW c \in Coupons \union {NoCoupon},
             NewOrder(s, o, c)
      PROVE  SlotsWithinLimit' /\ SeenWithinLimit'
  BY <1>2 DEF NewOrder, CreateOrder, Reserve
<1>3. ASSUME NEW s \in Sessions, NEW o \in Orders, NEW c \in Coupons \union {NoCoupon},
             NewOrderRejected(s, o, c)
      PROVE  SlotsWithinLimit' /\ SeenWithinLimit'
  BY <1>3 DEF NewOrderRejected
<1>4. ASSUME NEW s \in Sessions, NEW o \in Orders, NEW c \in Coupons \union {NoCoupon},
             WalletOrder(s, o, c)
      PROVE  SlotsWithinLimit' /\ SeenWithinLimit'
  <2>1. ASSUME NEW x \in Coupons PROVE used'[x] <= MaxUses[x]
    <3>1. CASE c = NoCoupon
      BY <1>4, <3>1 DEF WalletOrder, CreateOrder, Reserve
    <3>2. CASE c # NoCoupon
      <4>1. c \in Coupons /\ used[c] < MaxUses[c] /\ used' = [used EXCEPT ![c] =
      @ + 1]
        BY <1>4, <3>2 DEF WalletOrder, CreateOrder, Reserve
      <4>2. used[c] \in Nat /\ MaxUses[c] \in Nat /\ used[x] <= MaxUses[x]
        BY <4>1
      <4>3. QED
        BY <4>1, <4>2
    <3>3. QED
      BY <3>1, <3>2
  <2>2. QED
    BY <1>4, <2>1 DEF WalletOrder, Goto
<1>5. ASSUME NEW s \in Sessions, NEW o \in Orders,
             WalletPaid(s, o)
      PROVE  SlotsWithinLimit' /\ SeenWithinLimit'
  BY <1>5 DEF WalletPaid
<1>6. ASSUME NEW s \in Sessions, NEW o \in Orders,
             WalletShort(s, o)
      PROVE  SlotsWithinLimit' /\ SeenWithinLimit'
  BY <1>6 DEF WalletShort
<1>7. ASSUME NEW s \in Sessions, NEW o \in Orders,
             WalletCancelled(s, o)
      PROVE  SlotsWithinLimit' /\ SeenWithinLimit'
  BY <1>7 DEF WalletCancelled, ReleaseCoupon
<1>8. ASSUME NEW o \in Orders,
             BuyerPays(o)
      PROVE  SlotsWithinLimit' /\ SeenWithinLimit'
  BY <1>8 DEF BuyerPays, Gateway
<1>9. ASSUME NEW o \in Orders,
             BuyerCancels(o)
      PROVE  SlotsWithinLimit' /\ SeenWithinLimit'
  BY <1>9 DEF BuyerCancels, Gateway
<1>10. ASSUME NEW o \in Orders,
             GatewayReverses(o)
      PROVE  SlotsWithinLimit' /\ SeenWithinLimit'
  BY <1>10 DEF GatewayReverses, Gateway
<1>11. ASSUME NEW s \in Sessions, NEW o \in Orders,
             Claim(s, o)
      PROVE  SlotsWithinLimit' /\ SeenWithinLimit'
  BY <1>11 DEF Claim
<1>12. ASSUME NEW s \in Sessions, NEW o \in Orders,
             GatewayConfirms(s, o)
      PROVE  SlotsWithinLimit' /\ SeenWithinLimit'
  BY <1>12 DEF GatewayConfirms
<1>13. ASSUME NEW s \in Sessions, NEW o \in Orders,
             VerifyTimeout(s, o)
      PROVE  SlotsWithinLimit' /\ SeenWithinLimit'
  BY <1>13 DEF VerifyTimeout
<1>14. ASSUME NEW s \in Sessions, NEW o \in Orders,
             GatewayRefuses(s, o)
      PROVE  SlotsWithinLimit' /\ SeenWithinLimit'
  BY <1>14 DEF GatewayRefuses
<1>14a. ASSUME NEW s \in Sessions, NEW o \in Orders,
             GatewayUnreadable(s, o)
      PROVE  SlotsWithinLimit' /\ SeenWithinLimit'
  BY <1>14a DEF GatewayUnreadable
<1>15. ASSUME NEW s \in Sessions, NEW o \in Orders,
             SettlePaid(s, o)
      PROVE  SlotsWithinLimit' /\ SeenWithinLimit'
  BY <1>15 DEF SettlePaid
<1>16. ASSUME NEW s \in Sessions, NEW o \in Orders,
             Reopen(s, o)
      PROVE  SlotsWithinLimit' /\ SeenWithinLimit'
  BY <1>16 DEF Reopen
<1>17. ASSUME NEW s \in Sessions, NEW o \in Orders,
             SettleFailed(s, o)
      PROVE  SlotsWithinLimit' /\ SeenWithinLimit'
  BY <1>17 DEF SettleFailed, ReleaseCoupon
<1>18. ASSUME NEW s \in Sessions, NEW o \in Orders,
             CancelCallback(s, o)
      PROVE  SlotsWithinLimit' /\ SeenWithinLimit'
  BY <1>18 DEF CancelCallback
<1>19. ASSUME NEW s \in Sessions, NEW o \in Orders,
             CancelWrite(s, o)
      PROVE  SlotsWithinLimit' /\ SeenWithinLimit'
  BY <1>19 DEF CancelWrite, ReleaseCoupon
<1>20. ASSUME NEW s \in Sessions, NEW S \in SUBSET Orders,
             SweepLoad(s, S)
      PROVE  SlotsWithinLimit' /\ SeenWithinLimit'
  BY <1>20 DEF SweepLoad
<1>21. ASSUME NEW s \in Sessions,
             SweepWrite(s)
      PROVE  SlotsWithinLimit' /\ SeenWithinLimit'
  <2>1. \A c \in Coupons : LoadedOf(s, c) \in SUBSET Orders
    BY DEF LoadedOf
  <2>2. \A c \in Coupons : Cardinality(LoadedOf(s, c)) \in Nat
    BY <2>1, FS_Subset, FS_CardinalityType
  <2>3. ASSUME NEW c \in Coupons PROVE used'[c] <= MaxUses[c]
    <3>1. used[c] \in Nat /\ seen[s][c] \in Nat /\ MaxUses[c] \in Nat
          /\ seen[s][c] <= MaxUses[c] /\ used[c] <= MaxUses[c]
      BY <1>21
    <3>2. Cardinality(LoadedOf(s, c)) \in Nat
      BY <2>2
    <3>3. used'[c] \in {seen[s][c] - Cardinality(LoadedOf(s, c)), 0, used[c] -
      1, used[c]}
      BY <1>21 DEF SweepWrite
    <3>4. QED
      BY <3>1, <3>2, <3>3
  <2>4. \A r \in Sessions : \A c \in Coupons : seen'[r][c] <= MaxUses[c]
    BY <1>21 DEF SweepWrite, Done, NothingSeen
  <2>5. QED
    BY <2>3, <2>4
<1>22. ASSUME NEW s \in Sessions, NEW o \in Orders,
             RefundClaim(s, o)
      PROVE  SlotsWithinLimit' /\ SeenWithinLimit'
  BY <1>22 DEF RefundClaim
<1>23. ASSUME NEW s \in Sessions, NEW o \in Orders,
             GatewayReturns(s, o)
      PROVE  SlotsWithinLimit' /\ SeenWithinLimit'
  BY <1>23 DEF GatewayReturns
<1>24. ASSUME NEW s \in Sessions, NEW o \in Orders,
             RefundCallFails(s, o)
      PROVE  SlotsWithinLimit' /\ SeenWithinLimit'
  BY <1>24 DEF RefundCallFails
<1>25. ASSUME NEW s \in Sessions, NEW o \in Orders,
             RefundFailed(s, o)
      PROVE  SlotsWithinLimit' /\ SeenWithinLimit'
  BY <1>25 DEF RefundFailed
<1>26. ASSUME NEW s \in Sessions, NEW o \in Orders,
             Finalize(s, o)
      PROVE  SlotsWithinLimit' /\ SeenWithinLimit'
  BY <1>26 DEF Finalize
<1>27. ASSUME NEW s \in Sessions, NEW o \in Orders,
             FinalizeLost(s, o)
      PROVE  SlotsWithinLimit' /\ SeenWithinLimit'
  BY <1>27 DEF FinalizeLost
<1>28. ASSUME NEW s \in Sessions, NEW o \in Orders,
             ReleaseLoad(s, o)
      PROVE  SlotsWithinLimit' /\ SeenWithinLimit'
  BY <1>28 DEF ReleaseLoad
<1>29. ASSUME NEW s \in Sessions, NEW o \in Orders,
             ReleaseWrite(s, o)
      PROVE  SlotsWithinLimit' /\ SeenWithinLimit'
  BY <1>29 DEF ReleaseWrite, ReleaseCoupon
<1>30. ASSUME NEW s \in Sessions,
             Crash(s)
      PROVE  SlotsWithinLimit' /\ SeenWithinLimit'
  BY <1>30 DEF Crash
<1> HIDE DEF IInv, TypeOK, SlotsWithinLimit, SeenWithinLimit
<1>31. QED
  BY <1>1, <1>2, <1>3, <1>4, <1>5, <1>6, <1>7, <1>8, <1>9, <1>10, <1>11,
     <1>12, <1>13, <1>14, <1>14a, <1>15, <1>16, <1>17, <1>18, <1>19, <1>20,
     <1>21, <1>22, <1>23, <1>24, <1>25, <1>26, <1>27, <1>28, <1>29,
     <1>30
  DEF Next, Start, Proceed, Sessions

\* Every step keeps the rest of the invariant.
LEMMA CoreStep ==
    ASSUME IInv, [Next]_vars
    PROVE  Core'
<1> USE OrdersAssumption DEF IInv, TypeOK, Core, ClaimSteps, RefundSteps, Settled,
           ClaimsGuarded, ClaimsDisjoint, AnswersHold, PaidIsBacked, MoneyReceived,
           PaidIsDelivered, NotPayableAgain, RefundedIsReturned, Idle,
           At, Goto, GotoLoaded, Done, SetStatus, rowVars
<1>1. CASE UNCHANGED vars
  BY <1>1 DEF vars
<1>2. ASSUME NEW s \in Sessions, NEW o \in Orders, NEW c \in Coupons \union {NoCoupon},
             NewOrder(s, o, c)
      PROVE  Core'
  BY <1>2 DEF NewOrder, CreateOrder, Reserve
<1>3. ASSUME NEW s \in Sessions, NEW o \in Orders, NEW c \in Coupons \union {NoCoupon},
             NewOrderRejected(s, o, c)
      PROVE  Core'
  BY <1>3 DEF NewOrderRejected
<1>4. ASSUME NEW s \in Sessions, NEW o \in Orders, NEW c \in Coupons \union {NoCoupon},
             WalletOrder(s, o, c)
      PROVE  Core'
  BY <1>4 DEF WalletOrder, CreateOrder, Reserve
<1>5. ASSUME NEW s \in Sessions, NEW o \in Orders,
             WalletPaid(s, o)
      PROVE  Core'
  BY <1>5 DEF WalletPaid
<1>6. ASSUME NEW s \in Sessions, NEW o \in Orders,
             WalletShort(s, o)
      PROVE  Core'
  BY <1>6 DEF WalletShort
<1>7. ASSUME NEW s \in Sessions, NEW o \in Orders,
             WalletCancelled(s, o)
      PROVE  Core'
  BY <1>7 DEF WalletCancelled, ReleaseCoupon
<1>8. ASSUME NEW o \in Orders,
             BuyerPays(o)
      PROVE  Core'
  BY <1>8 DEF BuyerPays, Gateway
<1>9. ASSUME NEW o \in Orders,
             BuyerCancels(o)
      PROVE  Core'
  BY <1>9 DEF BuyerCancels, Gateway
<1>10. ASSUME NEW o \in Orders,
             GatewayReverses(o)
      PROVE  Core'
  BY <1>10 DEF GatewayReverses, Gateway
<1>11. ASSUME NEW s \in Sessions, NEW o \in Orders,
             Claim(s, o)
      PROVE  Core'
  BY <1>11 DEF Claim
<1>12. ASSUME NEW s \in Sessions, NEW o \in Orders,
             GatewayConfirms(s, o)
      PROVE  Core'
  BY <1>12 DEF GatewayConfirms
<1>13. ASSUME NEW s \in Sessions, NEW o \in Orders,
             VerifyTimeout(s, o)
      PROVE  Core'
  BY <1>13 DEF VerifyTimeout
<1>14. ASSUME NEW s \in Sessions, NEW o \in Orders,
             GatewayRefuses(s, o)
      PROVE  Core'
  BY <1>14 DEF GatewayRefuses
<1>14a. ASSUME NEW s \in Sessions, NEW o \in Orders,
             GatewayUnreadable(s, o)
      PROVE  Core'
  <2>1. CASE gate' = gate
    BY <1>14a, <2>1 DEF GatewayUnreadable
  <2>2. CASE gate' = [gate EXCEPT ![o] = "confirmed"]
    BY <1>14a, <2>2 DEF GatewayUnreadable
  <2>3. QED
    BY <1>14a, <2>1, <2>2 DEF GatewayUnreadable
<1>15. ASSUME NEW s \in Sessions, NEW o \in Orders,
             SettlePaid(s, o)
      PROVE  Core'
  BY <1>15 DEF SettlePaid
<1>16. ASSUME NEW s \in Sessions, NEW o \in Orders,
             Reopen(s, o)
      PROVE  Core'
  BY <1>16 DEF Reopen
<1>17. ASSUME NEW s \in Sessions, NEW o \in Orders,
             SettleFailed(s, o)
      PROVE  Core'
  BY <1>17 DEF SettleFailed, ReleaseCoupon
<1>18. ASSUME NEW s \in Sessions, NEW o \in Orders,
             CancelCallback(s, o)
      PROVE  Core'
  BY <1>18 DEF CancelCallback
<1>19. ASSUME NEW s \in Sessions, NEW o \in Orders,
             CancelWrite(s, o)
      PROVE  Core'
  BY <1>19 DEF CancelWrite, ReleaseCoupon
<1>20. ASSUME NEW s \in Sessions, NEW S \in SUBSET Orders,
             SweepLoad(s, S)
      PROVE  Core'
  BY <1>20 DEF SweepLoad
<1>21. ASSUME NEW s \in Sessions,
             SweepWrite(s)
      PROVE  Core'
  BY <1>21 DEF SweepWrite
<1>22. ASSUME NEW s \in Sessions, NEW o \in Orders,
             RefundClaim(s, o)
      PROVE  Core'
  BY <1>22 DEF RefundClaim
<1>23. ASSUME NEW s \in Sessions, NEW o \in Orders,
             GatewayReturns(s, o)
      PROVE  Core'
  BY <1>23 DEF GatewayReturns
<1>24. ASSUME NEW s \in Sessions, NEW o \in Orders,
             RefundCallFails(s, o)
      PROVE  Core'
  <2>1. task[s].pc = "refund" /\ task[s].order = o /\ o \in Orders
    BY <1>24 DEF RefundCallFails, At
  <2>2. UNCHANGED rowVars /\ task' = [task EXCEPT ![s] = [pc |-> "refundError",
      order |-> o]]
    BY <1>24 DEF RefundCallFails, Goto
  <2>3. CASE UNCHANGED gate
    BY <2>1, <2>2, <2>3
    DEF ClaimsGuarded, ClaimsDisjoint, AnswersHold, PaidIsBacked, MoneyReceived,
        PaidIsDelivered, NotPayableAgain, RefundedIsReturned, rowVars
  <2>4. CASE gate[o] = "confirmed" /\ gate' = [gate EXCEPT ![o] = "returned"]
    BY <2>1, <2>2, <2>4
    DEF ClaimsGuarded, ClaimsDisjoint, AnswersHold, PaidIsBacked, MoneyReceived,
        PaidIsDelivered, NotPayableAgain, RefundedIsReturned, rowVars
  <2>5. QED
    BY <1>24, <2>3, <2>4 DEF RefundCallFails
<1>25. ASSUME NEW s \in Sessions, NEW o \in Orders,
             RefundFailed(s, o)
      PROVE  Core'
  BY <1>25 DEF RefundFailed
<1>26. ASSUME NEW s \in Sessions, NEW o \in Orders,
             Finalize(s, o)
      PROVE  Core'
  BY <1>26 DEF Finalize
<1>27. ASSUME NEW s \in Sessions, NEW o \in Orders,
             FinalizeLost(s, o)
      PROVE  Core'
  BY <1>27 DEF FinalizeLost
<1>28. ASSUME NEW s \in Sessions, NEW o \in Orders,
             ReleaseLoad(s, o)
      PROVE  Core'
  BY <1>28 DEF ReleaseLoad
<1>29. ASSUME NEW s \in Sessions, NEW o \in Orders,
             ReleaseWrite(s, o)
      PROVE  Core'
  BY <1>29 DEF ReleaseWrite, ReleaseCoupon
<1>30. ASSUME NEW s \in Sessions,
             Crash(s)
      PROVE  Core'
  BY <1>30 DEF Crash
<1> HIDE DEF IInv, TypeOK, Core
<1>31. QED
  BY <1>1, <1>2, <1>3, <1>4, <1>5, <1>6, <1>7, <1>8, <1>9, <1>10, <1>11,
     <1>12, <1>13, <1>14, <1>14a, <1>15, <1>16, <1>17, <1>18, <1>19, <1>20,
     <1>21, <1>22, <1>23, <1>24, <1>25, <1>26, <1>27, <1>28, <1>29,
     <1>30
  DEF Next, Start, Proceed, Sessions

-----------------------------------------------------------------------------

\* The invariant of the order lifecycle.
THEOREM InvCorrect == Spec => []IInv
<1>1. Init => IInv
  BY OrdersAssumption
  DEF Init, IInv, TypeOK, SlotsWithinLimit, SeenWithinLimit, Core, ClaimsGuarded,
      ClaimsDisjoint, AnswersHold, PaidIsBacked, PaidIsDelivered, NotPayableAgain,
      RefundedIsReturned, Idle, NothingSeen, ClaimSteps, RefundSteps, Settled,
      Statuses, GateStates, Steps
<1>2. IInv /\ [Next]_vars => IInv'
  BY TypeStep, SlotStep, CoreStep DEF IInv
<1>3. QED
  BY <1>1, <1>2, PTL DEF Spec

\* Every variable has its type, and used_count is a natural number, however
\* stale the value a session writes.
THEOREM TypeCorrect == Spec => []TypeOK
<1>1. IInv => TypeOK
  BY DEF IInv
<1>2. QED
  BY <1>1, InvCorrect, PTL

\* No sweep, refund or cancelled payment drives used_count beyond max_uses.
THEOREM LimitKept == Spec => []SlotsWithinLimit
<1>1. IInv => SlotsWithinLimit
  BY DEF IInv
<1>2. QED
  BY <1>1, InvCorrect, PTL

\* Of any number of callbacks of one order, one at most is between the claim
\* and the outcome.
THEOREM ClaimExclusive == Spec => []ClaimIsExclusive
<1>1. IInv => ClaimIsExclusive
  BY DEF IInv, Core, ClaimsDisjoint, ClaimIsExclusive, Claimants, ClaimSteps
<1>2. QED
  BY <1>1, InvCorrect, PTL

\* An order is shown as paid only for money received, and as refunded only after the
\* gateway returned the money.
THEOREM MoneyMatched == Spec => []StatusMatchesMoney
<1>1. IInv => StatusMatchesMoney
  BY DEF IInv, Core, StatusMatchesMoney
<1>2. QED
  BY <1>1, InvCorrect, PTL

\* Every paid order had its credits granted, in the same commit.
THEOREM PaidDelivered == Spec => []PaidIsDelivered
<1>1. IInv => PaidIsDelivered
  BY DEF IInv, Core
<1>2. QED
  BY <1>1, InvCorrect, PTL

\* However callbacks, administrators, sweeps and retries meet: what an order shows is where
\* its money is, and what was bought with it was granted.
THEOREM MoneyAndGoodsMatch == Spec => []MoneyAndGoods
<1>1. StatusMatchesMoney /\ PaidIsDelivered => MoneyAndGoods
  BY DEF MoneyAndGoods
<1> QED
  BY <1>1, MoneyMatched, PaidDelivered, PTL

\* No order becomes payable again after its credits were granted.
THEOREM NotPayableAfterGrant == Spec => []NotPayableAgain
<1>1. IInv => NotPayableAgain
  BY DEF IInv, Core
<1>2. QED
  BY <1>1, InvCorrect, PTL

-----------------------------------------------------------------------------
(* Writers that come one at a time.  Between two steps of the one request  *)
(* nothing but the gateway moves, so a loaded used_count is the row's, and *)
(* the status of its order is the one the step before has left.            *)

\* One request or refund at a time, one cancellation for an order, no sweep, no crash.
OneAtATime ==
    /\ \E r : Requests \union Admins = {r}
    /\ Sweepers = {} /\ MaxNok <= 1 /\ ~CanCrash

\* What a request in the middle of an order knows of it.
WorkIsCurrent ==
    \A s \in Sessions :
       /\ task[s].pc # "sweep" /\ (task[s].pc # "idle" => task[s].order \in Orders)
       /\ task[s].pc \in {"wallet", "walletShort"} =>
             status[task[s].order] = "pending" /\ gate[task[s].order] = "unseen"
       /\ task[s].pc \in ClaimSteps => status[task[s].order] = "verifying"
       /\ task[s].pc = "cancel" =>
             /\ status[task[s].order] = "pending" /\ gate[task[s].order] = "cancelled"
             /\ nok[task[s].order] > 0
       /\ task[s].pc \in {"refund", "finalize", "refundError"} =>
             status[task[s].order] = "refunding"
       /\ task[s].pc \in {"release", "releaseWrite"} => status[task[s].order] = "refunded"
       /\ task[s].pc \in {"walletShort", "refused", "cancel", "releaseWrite"} => seen[s] = used

\* What the gateway holds says where the order is.
GateTellsStatus ==
    \A o \in Orders :
       /\ status[o] = "none" => gate[o] = "none" /\ nok[o] = 0
       /\ gate[o] = "none" => status[o] \in {"none", "failed"}
       /\ gate[o] = "open" => status[o] = "pending" /\ nok[o] = 0
       /\ gate[o] = "cancelled" /\ nok[o] = 0 => status[o] = "pending"

FinalsAreOne == \A o \in Orders : finals[o] = IF status[o] = "refunded" THEN 1 ELSE 0

SerialInv == IInv /\ WorkIsCurrent /\ GateTellsStatus /\ FinalsAreOne /\ UsedIsHonest

\* Only one session runs, and it runs no sweep.
LEMMA OnlySession ==
    ASSUME OneAtATime
    PROVE  \E r : Sessions = {r} /\ (Requests = {r} \/ Requests = {}) /\ (Admins = {r} \/ Admins = {})
BY DEF OneAtATime, Sessions

\* The steps of the serial system: those of Next but for sweeps and crashes.
LEMMA SerialNext ==
    ASSUME OneAtATime, IInv, WorkIsCurrent, Next
    PROVE  \/ \E s \in Sessions, o \in Orders, c \in Coupons \union {NoCoupon} :
                 NewOrder(s, o, c) \/ NewOrderRejected(s, o, c) \/ WalletOrder(s, o, c)
           \/ \E o \in Orders : BuyerPays(o) \/ BuyerCancels(o) \/ GatewayReverses(o)
           \/ \E s \in Sessions, o \in Orders :
                 \/ Claim(s, o) \/ CancelCallback(s, o) \/ RefundClaim(s, o)
                 \/ WalletPaid(s, o) \/ WalletShort(s, o) \/ WalletCancelled(s, o)
                 \/ GatewayConfirms(s, o) \/ VerifyTimeout(s, o)
                 \/ GatewayRefuses(s, o) \/ GatewayUnreadable(s, o)
                 \/ SettlePaid(s, o) \/ Reopen(s, o) \/ SettleFailed(s, o)
                 \/ CancelWrite(s, o)
                 \/ GatewayReturns(s, o) \/ RefundCallFails(s, o) \/ RefundFailed(s, o)
                 \/ Finalize(s, o) \/ ReleaseLoad(s, o) \/ ReleaseWrite(s, o)
<1>1. \A s \in Sessions : ~Crash(s) /\ ~SweepWrite(s)
  BY DEF OneAtATime, WorkIsCurrent, Crash, SweepWrite
<1>2. \A s \in Sessions, o \in Orders : ~FinalizeLost(s, o)
  BY DEF FinalizeLost, At, WorkIsCurrent
<1> QED BY <1>1, <1>2 DEF Next, Start, Proceed, Sessions, OneAtATime

LEMMA SerialStateStep ==
    ASSUME OneAtATime, IInv, WorkIsCurrent, GateTellsStatus, FinalsAreOne, Next
    PROVE  WorkIsCurrent' /\ GateTellsStatus' /\ FinalsAreOne'
<1> DEFINE Goal == WorkIsCurrent' /\ GateTellsStatus' /\ FinalsAreOne'
<1>a. PICK r : Sessions = {r}
  BY OnlySession
<1>b. /\ TypeOK /\ MaxNok \in Nat /\ MaxNok <= 1
      /\ \A o \in Orders : status[o] = "refunded" => gate[o] = "returned"
  BY OrdersAssumption DEF IInv, Core, RefundedIsReturned, OneAtATime
<1> USE <1>a, <1>b DEF TypeOK, WorkIsCurrent, GateTellsStatus, FinalsAreOne, ClaimSteps, At, IsIdle,
           Goto, GotoLoaded, Done, SetStatus, rowVars, Idle, Statuses, GateStates, Steps
<1>1. ASSUME NEW s \in Sessions, NEW o \in Orders, NEW c \in Coupons \union {NoCoupon},
             NewOrder(s, o, c)
      PROVE  Goal
  BY <1>1 DEF NewOrder, CreateOrder
<1>2. ASSUME NEW s \in Sessions, NEW o \in Orders, NEW c \in Coupons \union {NoCoupon},
             NewOrderRejected(s, o, c)
      PROVE  Goal
  BY <1>2 DEF NewOrderRejected
<1>3. ASSUME NEW s \in Sessions, NEW o \in Orders, NEW c \in Coupons \union {NoCoupon},
             WalletOrder(s, o, c)
      PROVE  Goal
  BY <1>3 DEF WalletOrder, CreateOrder
<1>4. ASSUME NEW o \in Orders, BuyerPays(o) PROVE Goal
  BY <1>4 DEF BuyerPays, Gateway
<1>5. ASSUME NEW o \in Orders, BuyerCancels(o) PROVE Goal
  BY <1>5 DEF BuyerCancels, Gateway
<1>6. ASSUME NEW o \in Orders, GatewayReverses(o) PROVE Goal
  BY <1>6 DEF GatewayReverses, Gateway
<1>7. ASSUME NEW s \in Sessions, NEW o \in Orders, Claim(s, o) PROVE Goal
  BY <1>7 DEF Claim
<1>8. ASSUME NEW s \in Sessions, NEW o \in Orders, CancelCallback(s, o) PROVE Goal
  BY <1>8 DEF CancelCallback
<1>9. ASSUME NEW s \in Sessions, NEW o \in Orders, RefundClaim(s, o) PROVE Goal
  BY <1>9 DEF RefundClaim
<1>10. ASSUME NEW s \in Sessions, NEW o \in Orders, WalletPaid(s, o) PROVE Goal
  BY <1>10 DEF WalletPaid
<1>11. ASSUME NEW s \in Sessions, NEW o \in Orders, WalletShort(s, o) PROVE Goal
  BY <1>11 DEF WalletShort
<1>12. ASSUME NEW s \in Sessions, NEW o \in Orders, WalletCancelled(s, o) PROVE Goal
  BY <1>12 DEF WalletCancelled, ReleaseCoupon
<1>13. ASSUME NEW s \in Sessions, NEW o \in Orders, GatewayConfirms(s, o) PROVE Goal
  BY <1>13 DEF GatewayConfirms
<1>14. ASSUME NEW s \in Sessions, NEW o \in Orders, VerifyTimeout(s, o) PROVE Goal
  BY <1>14 DEF VerifyTimeout
<1>15. ASSUME NEW s \in Sessions, NEW o \in Orders, GatewayRefuses(s, o) PROVE Goal
  BY <1>15 DEF GatewayRefuses
<1>16. ASSUME NEW s \in Sessions, NEW o \in Orders, GatewayUnreadable(s, o) PROVE Goal
  BY <1>16 DEF GatewayUnreadable
<1>17. ASSUME NEW s \in Sessions, NEW o \in Orders, SettlePaid(s, o) PROVE Goal
  BY <1>17 DEF SettlePaid
<1>18. ASSUME NEW s \in Sessions, NEW o \in Orders, Reopen(s, o) PROVE Goal
  BY <1>18 DEF Reopen
<1>19. ASSUME NEW s \in Sessions, NEW o \in Orders, SettleFailed(s, o) PROVE Goal
  BY <1>19 DEF SettleFailed, ReleaseCoupon
<1>20. ASSUME NEW s \in Sessions, NEW o \in Orders, CancelWrite(s, o) PROVE Goal
  BY <1>20 DEF CancelWrite, ReleaseCoupon
<1>21. ASSUME NEW s \in Sessions, NEW o \in Orders, GatewayReturns(s, o) PROVE Goal
  BY <1>21 DEF GatewayReturns
<1>22. ASSUME NEW s \in Sessions, NEW o \in Orders, RefundCallFails(s, o) PROVE Goal
  BY <1>22 DEF RefundCallFails
<1>23. ASSUME NEW s \in Sessions, NEW o \in Orders, RefundFailed(s, o) PROVE Goal
  BY <1>23 DEF RefundFailed
<1>24. ASSUME NEW s \in Sessions, NEW o \in Orders, Finalize(s, o) PROVE Goal
  BY <1>24 DEF Finalize
<1>25. ASSUME NEW s \in Sessions, NEW o \in Orders, ReleaseLoad(s, o) PROVE Goal
  BY <1>25 DEF ReleaseLoad
<1>26. ASSUME NEW s \in Sessions, NEW o \in Orders, ReleaseWrite(s, o) PROVE Goal
  BY <1>26 DEF ReleaseWrite, ReleaseCoupon
<1> HIDE <1>a, <1>b DEF Goal, TypeOK, WorkIsCurrent, GateTellsStatus, FinalsAreOne, At, IsIdle,
           Goto, GotoLoaded, Done, SetStatus, rowVars
<1> QED
  BY SerialNext, <1>1, <1>2, <1>3, <1>4, <1>5, <1>6, <1>7, <1>8, <1>9, <1>10, <1>11, <1>12, <1>13,
     <1>14, <1>15, <1>16, <1>17, <1>18, <1>19, <1>20, <1>21, <1>22, <1>23, <1>24, <1>25, <1>26
        DEF Goal

-----------------------------------------------------------------------------
\* The orders that hold a slot of coupon c.
Holders(c) == {o \in Orders : coupon[o] = c /\ status[o] \in Holding}

LEMMA HoldersCounted ==
    \A c : HeldSlots(c) = Cardinality(Holders(c)) /\ IsFiniteSet(Holders(c)) /\ HeldSlots(c) \in Nat
<1> TAKE c
<1>1. IsFiniteSet(Holders(c))
  BY OrdersAssumption, FS_Subset DEF Holders
<1> QED BY <1>1, FS_CardinalityType DEF HeldSlots, Holders

\* The set of holders after a step.
LEMMA HoldersMove ==
    ASSUME NEW c
    PROVE  /\ Holders(c)' = Holders(c) => HeldSlots(c)' = HeldSlots(c)
           /\ \A o \in Holders(c) : Holders(c)' = Holders(c) \ {o} =>
                 HeldSlots(c) > 0 /\ HeldSlots(c)' = HeldSlots(c) - 1
           /\ \A o \in Orders \ Holders(c) : Holders(c)' = Holders(c) \union {o} =>
                 HeldSlots(c)' = HeldSlots(c) + 1
<1>1. HeldSlots(c) = Cardinality(Holders(c)) /\ IsFiniteSet(Holders(c)) /\ HeldSlots(c) \in Nat
  BY HoldersCounted
<1>2. HeldSlots(c)' = Cardinality(Holders(c)')
  BY DEF HeldSlots, Holders
<1>3. ASSUME NEW o \in Holders(c), Holders(c)' = Holders(c) \ {o}
      PROVE  HeldSlots(c) > 0 /\ HeldSlots(c)' = HeldSlots(c) - 1
  <2>1. Cardinality(Holders(c) \ {o}) = Cardinality(Holders(c)) - 1
    BY <1>1, FS_RemoveElement
  <2>2. Cardinality(Holders(c)) # 0
    BY <1>1, FS_EmptySet
  <2> QED BY <1>1, <1>2, <1>3, <2>1, <2>2
<1>4. ASSUME NEW o \in Orders \ Holders(c), Holders(c)' = Holders(c) \union {o}
      PROVE  HeldSlots(c)' = HeldSlots(c) + 1
  <2>1. Cardinality(Holders(c) \union {o}) = Cardinality(Holders(c)) + 1
    BY <1>1, FS_AddElement
  <2> QED BY <1>1, <1>2, <1>4, <2>1
<1> QED BY <1>1, <1>2, <1>3, <1>4

\* The one session that can be about to give a slot of coupon c back.
Returning(s, c) == task[s].pc \in {"release", "releaseWrite"} /\ coupon[task[s].order] = c

LEMMA ReleasesCounted ==
    ASSUME NEW r, Sessions = {r}, NEW c
    PROVE  SlotsToRelease(c) = IF Returning(r, c) THEN 1 ELSE 0
<1>1. CASE Returning(r, c)
  <2>1. {s \in Sessions : task[s].pc \in {"release", "releaseWrite"} /\ coupon[task[s].order] = c} = {r}
    BY <1>1 DEF Returning
  <2> QED BY <1>1, <2>1, FS_Singleton DEF SlotsToRelease
<1>2. CASE ~Returning(r, c)
  <2>1. {s \in Sessions : task[s].pc \in {"release", "releaseWrite"} /\ coupon[task[s].order] = c} = {}
    BY <1>2 DEF Returning
  <2> QED BY <1>2, <2>1, FS_EmptySet DEF SlotsToRelease
<1> QED BY <1>1, <1>2

LEMMA ReleasesCountedAfter ==
    ASSUME NEW r, Sessions = {r}, NEW c
    PROVE  SlotsToRelease(c)' = IF Returning(r, c)' THEN 1 ELSE 0
<1>1. CASE Returning(r, c)'
  <2>1. {s \in Sessions : task'[s].pc \in {"release", "releaseWrite"} /\ coupon'[task'[s].order] = c} = {r}
    BY <1>1 DEF Returning
  <2> QED BY <1>1, <2>1, FS_Singleton DEF SlotsToRelease
<1>2. CASE ~Returning(r, c)'
  <2>1. {s \in Sessions : task'[s].pc \in {"release", "releaseWrite"} /\ coupon'[task'[s].order] = c} = {}
    BY <1>2 DEF Returning
  <2> QED BY <1>2, <2>1, FS_EmptySet DEF SlotsToRelease
<1> QED BY <1>1, <1>2

\* What a step does to the count of a coupon, its holders and its releases.
SlotKept(s, c) ==
    used'[c] = used[c] /\ Holders(c)' = Holders(c) /\ (Returning(s, c)' <=> Returning(s, c))
SlotTaken(s, o, c) ==
    /\ used'[c] = used[c] + 1 /\ o \notin Holders(c) /\ Holders(c)' = Holders(c) \union {o}
    /\ ~Returning(s, c) /\ ~Returning(s, c)'
SlotGivenBack(s, o, c) ==
    /\ used'[c] = IF used[c] > 0 THEN used[c] - 1 ELSE used[c]
    /\ o \in Holders(c) /\ Holders(c)' = Holders(c) \ {o}
    /\ ~Returning(s, c) /\ ~Returning(s, c)'
SlotRefunded(s, o, c) ==
    /\ used'[c] = used[c] /\ o \in Holders(c) /\ Holders(c)' = Holders(c) \ {o}
    /\ ~Returning(s, c) /\ Returning(s, c)'
SlotReleased(s, c) ==
    /\ used'[c] = IF used[c] > 0 THEN used[c] - 1 ELSE used[c]
    /\ Holders(c)' = Holders(c) /\ Returning(s, c) /\ ~Returning(s, c)'

SlotStepOf(s, o, c) ==
    \/ SlotKept(s, c) \/ SlotTaken(s, o, c) \/ SlotGivenBack(s, o, c)
    \/ SlotRefunded(s, o, c) \/ SlotReleased(s, c)

LEMMA SlotStaysExact ==
    ASSUME NEW r, Sessions = {r}, NEW c, NEW o \in Orders, SlotStepOf(r, o, c),
           used[c] = HeldSlots(c) + SlotsToRelease(c)
    PROVE  used'[c] = (HeldSlots(c) + SlotsToRelease(c))'
<1>1. SlotsToRelease(c) = IF Returning(r, c) THEN 1 ELSE 0
  BY ReleasesCounted
<1>2. SlotsToRelease(c)' = IF Returning(r, c)' THEN 1 ELSE 0
  BY ReleasesCountedAfter
<1>3. HeldSlots(c) \in Nat
  BY HoldersCounted
<1>4. CASE SlotKept(r, c)
  <2>1. HeldSlots(c)' = HeldSlots(c)
    BY <1>4, HoldersMove DEF SlotKept
  <2> QED BY <1>1, <1>2, <1>3, <1>4, <2>1 DEF SlotKept
<1>5. CASE SlotTaken(r, o, c)
  <2>1. HeldSlots(c)' = HeldSlots(c) + 1
    BY <1>5, HoldersMove DEF SlotTaken
  <2> QED BY <1>1, <1>2, <1>3, <1>5, <2>1 DEF SlotTaken
<1>6. CASE SlotGivenBack(r, o, c)
  <2>1. HeldSlots(c) > 0 /\ HeldSlots(c)' = HeldSlots(c) - 1
    BY <1>6, HoldersMove DEF SlotGivenBack
  <2> QED BY <1>1, <1>2, <1>3, <1>6, <2>1 DEF SlotGivenBack
<1>7. CASE SlotRefunded(r, o, c)
  <2>1. HeldSlots(c) > 0 /\ HeldSlots(c)' = HeldSlots(c) - 1
    BY <1>7, HoldersMove DEF SlotRefunded
  <2> QED BY <1>1, <1>2, <1>3, <1>7, <2>1 DEF SlotRefunded
<1>8. CASE SlotReleased(r, c)
  <2>1. HeldSlots(c)' = HeldSlots(c)
    BY <1>8, HoldersMove DEF SlotReleased
  <2> QED BY <1>1, <1>2, <1>3, <1>8, <2>1 DEF SlotReleased
<1> QED BY <1>4, <1>5, <1>6, <1>7, <1>8 DEF SlotStepOf

LEMMA SerialSlotStep ==
    ASSUME NEW r, Sessions = {r}, OneAtATime, IInv, WorkIsCurrent, GateTellsStatus, Next,
           NEW c \in Coupons
    PROVE  \E o \in Orders : SlotStepOf(r, o, c)
<1> DEFINE Goal == \E o \in Orders : SlotStepOf(r, o, c)
<1>b. TypeOK /\ NoCoupon \notin Coupons
  BY OrdersAssumption DEF IInv
<1> USE <1>b DEF TypeOK, WorkIsCurrent, ClaimSteps, At, IsIdle, Goto, GotoLoaded, Done, SetStatus,
           rowVars, Idle, Holding, Holders, Returning
<1>1. ASSUME NEW s \in Sessions, NEW o \in Orders, NEW d \in Coupons \union {NoCoupon},
             NewOrder(s, o, d)
      PROVE  Goal
  <2>1. SlotTaken(r, o, c) \/ SlotKept(r, c)
    BY <1>1 DEF NewOrder, CreateOrder, Reserve, SlotTaken, SlotKept
  <2> QED BY <2>1 DEF SlotStepOf
<1>2. ASSUME NEW s \in Sessions, NEW o \in Orders, NEW d \in Coupons \union {NoCoupon},
             WalletOrder(s, o, d)
      PROVE  Goal
  <2>1. SlotTaken(r, o, c) \/ SlotKept(r, c)
    BY <1>2 DEF WalletOrder, CreateOrder, Reserve, SlotTaken, SlotKept
  <2> QED BY <2>1 DEF SlotStepOf
<1>3. ASSUME NEW s \in Sessions, NEW o \in Orders, NEW d \in Coupons \union {NoCoupon},
             NewOrderRejected(s, o, d)
      PROVE  Goal
  <2>1. SlotKept(r, c)
    BY <1>3 DEF NewOrderRejected, SlotKept
  <2> QED BY <2>1 DEF SlotStepOf
<1>4. ASSUME NEW o \in Orders,
             BuyerPays(o)
      PROVE  Goal
  <2>1. SlotKept(r, c)
    BY <1>4 DEF BuyerPays, Gateway, SlotKept
  <2> QED BY <2>1 DEF SlotStepOf
<1>5. ASSUME NEW o \in Orders,
             BuyerCancels(o)
      PROVE  Goal
  <2>1. SlotKept(r, c)
    BY <1>5 DEF BuyerCancels, Gateway, SlotKept
  <2> QED BY <2>1 DEF SlotStepOf
<1>6. ASSUME NEW o \in Orders,
             GatewayReverses(o)
      PROVE  Goal
  <2>1. SlotKept(r, c)
    BY <1>6 DEF GatewayReverses, Gateway, SlotKept
  <2> QED BY <2>1 DEF SlotStepOf
<1>7. ASSUME NEW s \in Sessions, NEW o \in Orders,
             Claim(s, o)
      PROVE  Goal
  <2>1. SlotKept(r, c)
    BY <1>7 DEF Claim, SlotKept
  <2> QED BY <2>1 DEF SlotStepOf
<1>8. ASSUME NEW s \in Sessions, NEW o \in Orders,
             CancelCallback(s, o)
      PROVE  Goal
  <2>1. SlotKept(r, c)
    BY <1>8 DEF CancelCallback, SlotKept
  <2> QED BY <2>1 DEF SlotStepOf
<1>9. ASSUME NEW s \in Sessions, NEW o \in Orders,
             RefundClaim(s, o)
      PROVE  Goal
  <2>1. SlotKept(r, c)
    BY <1>9 DEF RefundClaim, SlotKept
  <2> QED BY <2>1 DEF SlotStepOf
<1>10. ASSUME NEW s \in Sessions, NEW o \in Orders,
             WalletPaid(s, o)
      PROVE  Goal
  <2>1. SlotKept(r, c)
    BY <1>10 DEF WalletPaid, SlotKept
  <2> QED BY <2>1 DEF SlotStepOf
<1>11. ASSUME NEW s \in Sessions, NEW o \in Orders,
             WalletShort(s, o)
      PROVE  Goal
  <2>1. SlotKept(r, c)
    BY <1>11 DEF WalletShort, SlotKept
  <2> QED BY <2>1 DEF SlotStepOf
<1>12. ASSUME NEW s \in Sessions, NEW o \in Orders,
             GatewayConfirms(s, o)
      PROVE  Goal
  <2>1. SlotKept(r, c)
    BY <1>12 DEF GatewayConfirms, SlotKept
  <2> QED BY <2>1 DEF SlotStepOf
<1>13. ASSUME NEW s \in Sessions, NEW o \in Orders,
             VerifyTimeout(s, o)
      PROVE  Goal
  <2>1. SlotKept(r, c)
    BY <1>13 DEF VerifyTimeout, SlotKept
  <2> QED BY <2>1 DEF SlotStepOf
<1>14. ASSUME NEW s \in Sessions, NEW o \in Orders,
             GatewayRefuses(s, o)
      PROVE  Goal
  <2>1. SlotKept(r, c)
    BY <1>14 DEF GatewayRefuses, SlotKept
  <2> QED BY <2>1 DEF SlotStepOf
<1>15. ASSUME NEW s \in Sessions, NEW o \in Orders,
             GatewayUnreadable(s, o)
      PROVE  Goal
  <2>1. SlotKept(r, c)
    BY <1>15 DEF GatewayUnreadable, SlotKept
  <2> QED BY <2>1 DEF SlotStepOf
<1>16. ASSUME NEW s \in Sessions, NEW o \in Orders,
             SettlePaid(s, o)
      PROVE  Goal
  <2>1. SlotKept(r, c)
    BY <1>16 DEF SettlePaid, SlotKept
  <2> QED BY <2>1 DEF SlotStepOf
<1>17. ASSUME NEW s \in Sessions, NEW o \in Orders,
             Reopen(s, o)
      PROVE  Goal
  <2>1. SlotKept(r, c)
    BY <1>17 DEF Reopen, SlotKept
  <2> QED BY <2>1 DEF SlotStepOf
<1>18. ASSUME NEW s \in Sessions, NEW o \in Orders,
             GatewayReturns(s, o)
      PROVE  Goal
  <2>1. SlotKept(r, c)
    BY <1>18 DEF GatewayReturns, SlotKept
  <2> QED BY <2>1 DEF SlotStepOf
<1>19. ASSUME NEW s \in Sessions, NEW o \in Orders,
             RefundCallFails(s, o)
      PROVE  Goal
  <2>1. SlotKept(r, c)
    BY <1>19 DEF RefundCallFails, SlotKept
  <2> QED BY <2>1 DEF SlotStepOf
<1>20. ASSUME NEW s \in Sessions, NEW o \in Orders,
             RefundFailed(s, o)
      PROVE  Goal
  <2>1. SlotKept(r, c)
    BY <1>20 DEF RefundFailed, SlotKept
  <2> QED BY <2>1 DEF SlotStepOf
<1>21. ASSUME NEW s \in Sessions, NEW o \in Orders,
             ReleaseLoad(s, o)
      PROVE  Goal
  <2>1. SlotKept(r, c)
    BY <1>21 DEF ReleaseLoad, SlotKept
  <2> QED BY <2>1 DEF SlotStepOf
<1>22. ASSUME NEW s \in Sessions, NEW o \in Orders,
             WalletCancelled(s, o)
      PROVE  Goal
  <2>1. SlotGivenBack(r, o, c) \/ SlotKept(r, c)
    BY <1>22 DEF WalletCancelled, ReleaseCoupon, SlotGivenBack, SlotKept
  <2> QED BY <2>1 DEF SlotStepOf
<1>23. ASSUME NEW s \in Sessions, NEW o \in Orders,
             SettleFailed(s, o)
      PROVE  Goal
  <2>1. SlotGivenBack(r, o, c) \/ SlotKept(r, c)
    BY <1>23 DEF SettleFailed, ReleaseCoupon, SlotGivenBack, SlotKept
  <2> QED BY <2>1 DEF SlotStepOf
<1>24. ASSUME NEW s \in Sessions, NEW o \in Orders,
             CancelWrite(s, o)
      PROVE  Goal
  <2>1. SlotGivenBack(r, o, c) \/ SlotKept(r, c)
    BY <1>24 DEF CancelWrite, ReleaseCoupon, SlotGivenBack, SlotKept
  <2> QED BY <2>1 DEF SlotStepOf
<1>25. ASSUME NEW s \in Sessions, NEW o \in Orders,
             Finalize(s, o)
      PROVE  Goal
  <2>1. SlotRefunded(r, o, c) \/ SlotKept(r, c)
    BY <1>25 DEF Finalize, SlotRefunded, SlotKept
  <2> QED BY <2>1 DEF SlotStepOf
<1>26. ASSUME NEW s \in Sessions, NEW o \in Orders,
             ReleaseWrite(s, o)
      PROVE  Goal
  <2>1. SlotReleased(r, c) \/ SlotKept(r, c)
    BY <1>26 DEF ReleaseWrite, ReleaseCoupon, SlotReleased, SlotKept
  <2> QED BY <2>1 DEF SlotStepOf
<1> HIDE <1>b DEF Goal, TypeOK, WorkIsCurrent, At, IsIdle, Goto, GotoLoaded, Done, SetStatus, rowVars
<1> QED
  BY SerialNext, <1>1, <1>2, <1>3, <1>4, <1>5, <1>6, <1>7, <1>8, <1>9, <1>10, <1>11, <1>12, <1>13,
     <1>14, <1>15, <1>16, <1>17, <1>18, <1>19, <1>20, <1>21, <1>22, <1>23, <1>24, <1>25, <1>26
        DEF Goal

LEMMA SerialStep == OneAtATime /\ SerialInv /\ [Next]_vars => SerialInv'
<1> SUFFICES ASSUME OneAtATime, SerialInv, [Next]_vars PROVE SerialInv'
  OBVIOUS
<1>1. IInv'
  BY TypeStep, SlotStep, CoreStep DEF SerialInv, IInv
<1>2. CASE UNCHANGED vars
  BY <1>1, <1>2 DEF vars, SerialInv, WorkIsCurrent, GateTellsStatus, FinalsAreOne, UsedIsHonest,
                    HeldSlots, SlotsToRelease
<1>3. CASE Next
  <2>1. WorkIsCurrent' /\ GateTellsStatus' /\ FinalsAreOne'
    BY <1>3, SerialStateStep DEF SerialInv
  <2>2. PICK r : Sessions = {r}
    BY OnlySession
  <2>3. ASSUME NEW c \in Coupons PROVE used'[c] = (HeldSlots(c) + SlotsToRelease(c))'
    <3>1. PICK o \in Orders : SlotStepOf(r, o, c)
      BY <1>3, <2>2, SerialSlotStep DEF SerialInv
    <3>2. used[c] = HeldSlots(c) + SlotsToRelease(c)
      BY DEF SerialInv, UsedIsHonest
    <3> QED BY <2>2, <3>1, <3>2, SlotStaysExact
  <2>4. UsedIsHonest'
    BY <2>3 DEF UsedIsHonest
  <2> QED BY <1>1, <2>1, <2>4 DEF SerialInv
<1> QED BY <1>2, <1>3

\* Where the writers of the orders come one at a time, used_count is the number of orders
\* that hold a slot and of slots about to be given back, and a refund has its effects once.
THEOREM OrdersExact == ASSUME OneAtATime PROVE Spec => []OrdersAreExact
<1>1. Init => SerialInv
  <2> SUFFICES ASSUME Init PROVE SerialInv
    OBVIOUS
  <2>1. IInv
    BY OrdersAssumption
    DEF Init, IInv, TypeOK, SlotsWithinLimit, SeenWithinLimit, Core, ClaimsGuarded,
      ClaimsDisjoint, AnswersHold, PaidIsBacked, PaidIsDelivered, NotPayableAgain,
      RefundedIsReturned, Idle, NothingSeen, ClaimSteps, RefundSteps, Settled,
      Statuses, GateStates, Steps
  <2>2. WorkIsCurrent /\ GateTellsStatus /\ FinalsAreOne
    BY DEF Init, WorkIsCurrent, GateTellsStatus, FinalsAreOne, Idle, ClaimSteps
  <2>3. ASSUME NEW c \in Coupons PROVE used[c] = HeldSlots(c) + SlotsToRelease(c)
    <3>1. {o \in Orders : coupon[o] = c /\ status[o] \in Holding} = {}
      BY DEF Init, Holding
    <3>2. {s \in Sessions : /\ task[s].pc \in {"release", "releaseWrite"}
                            /\ coupon[task[s].order] = c} = {}
      BY DEF Init, Idle
    <3>3. used[c] = 0
      BY DEF Init
    <3>4. HeldSlots(c) = 0
      BY <3>1, FS_EmptySet DEF HeldSlots
    <3>5. SlotsToRelease(c) = 0
      BY <3>2, FS_EmptySet DEF SlotsToRelease
    <3> QED BY <3>3, <3>4, <3>5
  <2> QED BY <2>1, <2>2, <2>3 DEF SerialInv, UsedIsHonest
<1>2. SerialInv => OrdersAreExact
  BY DEF SerialInv, OrdersAreExact, FinalsAreOne, RefundEffectsOnce
<1> QED BY <1>1, <1>2, SerialStep, PTL DEF Spec
=============================================================================
