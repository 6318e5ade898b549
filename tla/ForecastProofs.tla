--------------------------- MODULE ForecastProofs ---------------------------
(***************************************************************************)
(* Proofs about the paid transit analysis: every step of a request is a    *)
(* step of the credit ledger or leaves it alone, so that what is proved    *)
(* of the ledger holds here; and an analysis that is stored was paid for   *)
(* (DeliveredWasPaid), for any number of users, charts and requests.       *)
(***************************************************************************)
EXTENDS Forecast, CreditsProofs

-----------------------------------------------------------------------------
(* The invariant.                                                          *)

Places == {"idle", "charging", "narrating", "refund", "refunding", "goldFound",
           "goldNarrating", "topup"}
Requests == [at : Places, key : Spends \union {NoKey}, failed : 0 .. Narrated]

\* The parts of ForecastTypeOK that are not the ledger's.
OwnTypes ==
    /\ stored \subseteq Products
    /\ gold \in [Charts -> Nat]
    /\ req \in [Txns -> Requests]

\* What a request has behind it, at each of its steps.
Behind(t) ==
    LET k == req[t].key
    IN  /\ req[t].at \notin {"idle", "topup"} => k \in Spends
        /\ req[t].at = "charging" => txn[t].pc = "spend" /\ txn[t].key = <<k, 0>>
        /\ req[t].at \in {"narrating", "refund", "refunding"} => rows[<<k, 0>>] > 0
        /\ req[t].at = "goldFound" => GoldSold[GoldFor(k)] > 0
        /\ req[t].at = "goldNarrating" => gold[GoldFor(k)] < GoldSold[GoldFor(k)]

ForecastInv ==
    /\ IInv
    /\ OwnTypes
    /\ \A t \in Txns : Behind(t)
    /\ \A c \in Charts : gold[c] <= GoldSold[c]
    /\ DeliveredWasPaid

LEMMA TypesTogether == IInv /\ OwnTypes => ForecastTypeOK
  BY DEF IInv, OwnTypes, Requests, Places, ForecastTypeOK

-----------------------------------------------------------------------------
(* The ledger below.                                                       *)

\* The share given back for the events that failed is an amount of the ledger.
LEMMA ShareType ==
    ASSUME NEW k \in Spends, NEW f \in 0 .. Narrated PROVE FailedShare(k, f) \in Nat
<1> DEFINE a == Amount[k] * f
<1>1. Amount[k] \in Nat /\ f \in Nat /\ Narrated \in Nat /\ Narrated > 0
  BY CreditsAssumption, ForecastAssumption DEF Ops
<1>2. a \in Nat
  BY <1>1
<1> HIDE DEF a
<1>3. a + Narrated - 1 \in Nat
  BY <1>1, <1>2
<1> DEFINE b == a + Narrated - 1
<1> HIDE DEF b
<1>4. b \div Narrated \in Nat
  BY <1>1, <1>3 DEF b
<1> QED BY <1>4 DEF FailedShare, a, b

\* A request moves the ledger by a call of spend, grant or refund, if at all.
LEMMA LedgerSteps == ForecastInv /\ [ForecastNext]_forecastVars => [Next]_vars
<1> SUFFICES ASSUME ForecastInv, [ForecastNext]_forecastVars PROVE [Next]_vars
  OBVIOUS
<1>1. UNCHANGED ledgerVars => UNCHANGED vars
  BY DEF ledgerVars, vars
<1>2. ASSUME NEW t \in Txns, NEW k \in Grants, TopUp(t, k) PROVE [Next]_vars
  BY <1>2 DEF TopUp, Next
<1>3. ASSUME NEW t \in Txns, ToppedUp(t) PROVE [Next]_vars
  BY <1>3 DEF ToppedUp, Finish, Next
<1>4. ASSUME NEW t \in Txns, NEW k \in Spends, Open(t, k) PROVE [Next]_vars
  BY <1>1, <1>4 DEF Open, Next
<1>5. ASSUME NEW t \in Txns, Charged(t) \/ NotCharged(t) \/ Refunded(t) PROVE [Next]_vars
  BY <1>5 DEF Charged, NotCharged, Refunded, Finish, Next
<1>6. ASSUME NEW t \in Txns, RequestRefund(t) PROVE [Next]_vars
  <2> DEFINE k == req[t].key
             want == FailedShare(k, req[t].failed)
  <2>1. k \in Spends /\ req[t].failed \in 0 .. Narrated
    BY <1>6 DEF RequestRefund, ForecastInv, Behind, OwnTypes, Requests
  <2>2. want \in Nat /\ Amount[k] \in 0 .. MaxAmount
    BY <2>1, ShareType, CreditsAssumption DEF Ops
  <2>3. CASE UNCHANGED ledgerVars
    BY <1>1, <2>3
  <2>4. ASSUME NEW r \in RefundReasons, BeginRefund(t, k, want, r) PROVE [Next]_vars
    <3> HIDE DEF k, want
    <3>1. want <= Amount[k]
      BY <2>4 DEF BeginRefund, RefundDue
    <3>2. want \in 0 .. MaxAmount
      BY <2>2, <3>1, CreditsAssumption
    <3> QED BY <2>1, <2>4, <3>2 DEF Next
  <2> QED BY <1>6, <2>3, <2>4 DEF RequestRefund
<1>7. ASSUME NEW t \in Txns, Crash(t) PROVE [Next]_vars
  BY <1>1, <1>7 DEF Crash, Finish, Next
<1>8. ASSUME NEW t \in Txns, NEW f \in 0 .. Narrated, Narrate(t, f) \/ NarrateGold(t, f)
      PROVE  [Next]_vars
  BY <1>1, <1>8 DEF Narrate, NarrateGold
<1>9. ASSUME NEW t \in Txns, UseGold(t) PROVE [Next]_vars
  BY <1>1, <1>9 DEF UseGold
<1>10. ASSUME NEW t \in Txns, NEW k \in Spends, OpenGold(t, k) PROVE [Next]_vars
  BY <1>1, <1>10 DEF OpenGold
<1>11. ASSUME NEW p \in Products, Outdated(p) PROVE [Next]_vars
  BY <1>1, <1>11 DEF Outdated
<1>12. CASE UNCHANGED forecastVars
  BY <1>12 DEF forecastVars, vars
<1> QED
  BY <1>2, <1>3, <1>4, <1>5, <1>6, <1>7, <1>8, <1>9, <1>10, <1>11, <1>12 DEF ForecastNext

\* Rows of the ledger stay.
LEMMA RowsStay ==
    ASSUME IInv, [Next]_vars
    PROVE  \A p \in Keys : rows[p] > 0 => rows'[p] > 0
<1>1. rows \in [Keys -> Nat]
  BY DEF IInv, TypeOK
<1>2. CASE UNCHANGED <<credits, rows, reason>>
  BY <1>2
<1>3. ASSUME NEW q \in Keys, Posting(q) PROVE \A p \in Keys : rows[p] > 0 => rows'[p] > 0
  BY <1>1, <1>3 DEF Posting
<1> QED BY <1>2, <1>3, StepCases

LEMMA SpendKeys == \A k \in Spends : <<k, 0>> \in Keys
  BY KeysTyped DEF Ops

-----------------------------------------------------------------------------
(* One step of a request.                                                  *)

\* Only t moves, and only in the ledger's table and its own place.
LEMMA RequestMoves ==
    ASSUME ForecastInv, NEW t \in Txns, NEW n \in Requests, req' = [req EXCEPT ![t] = n],
           [Next]_vars, \A s \in Txns \ {t} : txn'[s] = txn[s],
           UNCHANGED gold,
           stored' \subseteq Products, \A p \in stored' : p \in stored \/
               (ChargedFor(p) \/ gold[ChartOf[p]] < GoldSold[ChartOf[p]]),
           Behind(t)'
    PROVE  ForecastInv'
<1>0. IInv /\ OwnTypes /\ (\A s \in Txns : Behind(s)) /\ (\A c \in Charts : gold[c] <= GoldSold[c])
      /\ DeliveredWasPaid
  BY DEF ForecastInv
<1>1. IInv'
  BY <1>0, InvStep
<1>2. OwnTypes'
  BY <1>0 DEF OwnTypes
<1>3. \A k \in Spends : rows[<<k, 0>>] > 0 => rows'[<<k, 0>>] > 0
  BY <1>0, RowsStay, SpendKeys
<1>4. ASSUME NEW s \in Txns PROVE Behind(s)'
  <2>1. CASE s = t
    BY <2>1
  <2>2. CASE s # t
    <3>1. Behind(s) /\ req'[s] = req[s] /\ txn'[s] = txn[s]
      BY <1>0, <2>2 DEF OwnTypes
    <3> QED BY <1>3, <3>1 DEF Behind, GoldFor
  <2> QED BY <2>1, <2>2
<1>5. DeliveredWasPaid'
  <2> SUFFICES ASSUME NEW p \in stored'
               PROVE  ChargedFor(p)' \/ gold[ChartOf[p]] < GoldSold[ChartOf[p]]
    BY DEF DeliveredWasPaid
  <2>1. ChargedFor(p) \/ gold[ChartOf[p]] < GoldSold[ChartOf[p]]
    BY <1>0 DEF DeliveredWasPaid
  <2> QED BY <1>3, <2>1 DEF ChargedFor
<1> QED BY <1>0, <1>1, <1>2, <1>4, <1>5 DEF ForecastInv

\* The other sessions' calls go on where they are.
LEMMA OthersWait ==
    ASSUME NEW t, \/ UNCHANGED txn
                  \/ \E n : txn' = [txn EXCEPT ![t] = n],
           txn \in [Txns -> [pc : {"idle", "spend", "grant", "refund"},
                             key : Keys \union {NoKey},
                             reason : RefundReasons \union {"none"}]]
    PROVE  \A s \in Txns \ {t} : txn'[s] = txn[s]
  OBVIOUS

LEMMA StepMovesOne ==
    ASSUME NEW t,
           \/ \E pc, p, r : Begin(t, pc, p, r)
           \/ Finish(t)
    PROVE  \E n : txn' = [txn EXCEPT ![t] = n]
  BY DEF Begin, Finish, Charge, ChargeDuplicate, ChargeRefused, AddGrant, AddGrantDuplicate,
         PayRefund, PayRefundDuplicate, Abandon, Book, GiveUp

LEMMA StoredWasPaid ==
    ASSUME ForecastInv, NEW t \in Txns, NEW f, Store(t, f), req[t].key \in Spends,
           rows[<<req[t].key, 0>>] > 0 \/ gold[GoldFor(req[t].key)] < GoldSold[GoldFor(req[t].key)]
    PROVE  /\ stored' \subseteq Products
           /\ \A p \in stored' : p \in stored \/
                  (ChargedFor(p) \/ gold[ChartOf[p]] < GoldSold[ChartOf[p]])
<1>1. ProductOf[req[t].key] \in Products
  BY ForecastAssumption
<1> QED BY <1>1 DEF Store, ForecastInv, OwnTypes, ChargedFor, GoldFor

LEMMA ForecastStep == ForecastInv /\ [ForecastNext]_forecastVars => ForecastInv'
<1> SUFFICES ASSUME ForecastInv, [ForecastNext]_forecastVars PROVE ForecastInv'
  OBVIOUS
<1>0. IInv /\ OwnTypes /\ (\A s \in Txns : Behind(s)) /\ (\A c \in Charts : gold[c] <= GoldSold[c])
      /\ DeliveredWasPaid /\ [Next]_vars
  BY LedgerSteps DEF ForecastInv
<1>1. /\ req \in [Txns -> Requests]
      /\ txn \in [Txns -> [pc : {"idle", "spend", "grant", "refund"},
                             key : Keys \union {NoKey},
                             reason : RefundReasons \union {"none"}]]
      /\ rows \in [Keys -> Nat]
  BY <1>0 DEF IInv, TypeOK, OwnTypes
<1>2. stored \subseteq Products /\ \A p \in stored : p \in stored
  BY <1>0 DEF OwnTypes
<1>3. NoReq \in Requests /\ \A k \in Spends, at \in Places, f \in 0 .. Narrated :
                               [at |-> at, key |-> k, failed |-> f] \in Requests
  BY ForecastAssumption DEF NoReq, Requests, Places
<1>4. ASSUME NEW t \in Txns, Reply(t) \/ GoTo(t, "topup", NoKey, 0), UNCHANGED gold,
             UNCHANGED stored, UNCHANGED txn \/ \E n : txn' = [txn EXCEPT ![t] = n]
      PROVE  ForecastInv'
  <2> DEFINE n == IF Reply(t) THEN NoReq ELSE [at |-> "topup", key |-> NoKey, failed |-> 0]
  <2>1. req' = [req EXCEPT ![t] = n] /\ n \in Requests /\ n.at \in {"idle", "topup"}
    BY <1>3, <1>4, ForecastAssumption DEF Reply, GoTo, NoReq, Requests, Places
  <2> HIDE DEF n
  <2>2. Behind(t)'
    BY <1>1, <2>1 DEF Behind
  <2> QED BY <1>0, <1>1, <1>2, <1>4, <2>1, <2>2, OthersWait, RequestMoves
<1>5. ASSUME NEW t \in Txns, NEW k \in Grants, TopUp(t, k) PROVE ForecastInv'
  BY <1>4, <1>5, StepMovesOne DEF TopUp, BeginGrant
<1>6. ASSUME NEW t \in Txns, ToppedUp(t) \/ NotCharged(t) \/ Refunded(t) PROVE ForecastInv'
  <2>1. Finish(t)
    BY <1>6 DEF ToppedUp, NotCharged, Refunded, Finish
  <2> QED BY <1>4, <1>6, <2>1, StepMovesOne DEF ToppedUp, NotCharged, Refunded
<1>7. ASSUME NEW t \in Txns, Crash(t) PROVE ForecastInv'
  <2>1. CASE UNCHANGED ledgerVars
    BY <1>4, <1>7, <2>1 DEF Crash, ledgerVars
  <2>2. CASE Abandon(t)
    <3>1. Finish(t)
      BY <2>2 DEF Finish
    <3> QED BY <1>4, <1>7, <3>1, StepMovesOne DEF Crash
  <2> QED BY <1>7, <2>1, <2>2 DEF Crash
<1>8. ASSUME NEW t \in Txns, NEW k \in Spends, Open(t, k) PROVE ForecastInv'
  <2>1. CASE rows[<<k, 0>>] > 0 /\ GoTo(t, "narrating", k, 0) /\ UNCHANGED ledgerVars
    <3> DEFINE n == [at |-> "narrating", key |-> k, failed |-> 0]
    <3>1. req' = [req EXCEPT ![t] = n] /\ n \in Requests /\ n.at = "narrating" /\ n.key = k
      BY <1>3, <2>1, ForecastAssumption DEF GoTo, Places
    <3> HIDE DEF n
    <3>2. Behind(t)'
      BY <1>1, <2>1, <3>1 DEF Behind, ledgerVars
    <3>3. UNCHANGED <<txn, gold, stored>>
      BY <1>8, <2>1 DEF Open, ledgerVars
    <3> QED BY <1>0, <1>2, <3>1, <3>2, <3>3, RequestMoves
  <2>2. CASE BeginSpend(t, k) /\ GoTo(t, "charging", k, 0)
    <3> DEFINE n == [at |-> "charging", key |-> k, failed |-> 0]
    <3>1. req' = [req EXCEPT ![t] = n] /\ n \in Requests /\ n.at = "charging" /\ n.key = k
      BY <1>3, <2>2, ForecastAssumption DEF GoTo, Places
    <3> HIDE DEF n
    <3>2. txn' = [txn EXCEPT ![t] = [pc |-> "spend", key |-> <<k, 0>>, reason |-> "none"]]
      BY <2>2 DEF BeginSpend, Begin
    <3>3. Behind(t)'
      BY <1>1, <3>1, <3>2 DEF Behind
    <3>4. \A s \in Txns \ {t} : txn'[s] = txn[s]
      BY <1>1, <3>2
    <3>5. UNCHANGED <<gold, stored>>
      BY <1>8 DEF Open
    <3> QED BY <1>0, <1>2, <3>1, <3>3, <3>4, <3>5, RequestMoves
  <2> QED BY <1>8, <2>1, <2>2 DEF Open
<1>9. ASSUME NEW t \in Txns, Charged(t) PROVE ForecastInv'
  <2> DEFINE k == req[t].key
             n == [at |-> "narrating", key |-> k, failed |-> 0]
  <2>1. k \in Spends /\ txn[t].key = <<k, 0>>
    BY <1>0, <1>9 DEF Charged, Behind
  <2>2. rows'[<<k, 0>>] > 0
    <3>1. <<k, 0>> \in Keys /\ rows[<<k, 0>>] \in Nat
      BY <1>1, <2>1, SpendKeys
    <3>2. CASE Charge(t)
      BY <1>1, <2>1, <3>1, <3>2 DEF Charge, Book
    <3>3. CASE ChargeDuplicate(t)
      BY <2>1, <3>1, <3>3 DEF ChargeDuplicate, KeyIsFree, GiveUp
    <3> QED BY <1>9, <3>2, <3>3 DEF Charged
  <2>3. req' = [req EXCEPT ![t] = n] /\ n \in Requests /\ n.at = "narrating" /\ n.key = k
    BY <1>3, <1>9, <2>1, ForecastAssumption DEF Charged, GoTo, Places
  <2> HIDE DEF n, k
  <2>4. Behind(t)'
    BY <1>1, <2>1, <2>2, <2>3 DEF Behind
  <2>5. Finish(t) /\ UNCHANGED <<gold, stored>>
    BY <1>9 DEF Charged, Finish
  <2>6. \A s \in Txns \ {t} : txn'[s] = txn[s]
    BY <1>1, <2>5, StepMovesOne, OthersWait
  <2> QED BY <1>0, <1>2, <2>3, <2>4, <2>5, <2>6, RequestMoves
<1>10. ASSUME NEW t \in Txns, NEW f \in 0 .. Narrated, Narrate(t, f) PROVE ForecastInv'
  <2> DEFINE k == req[t].key
             n == IF f = 0 THEN NoReq ELSE [at |-> "refund", key |-> k, failed |-> f]
  <2>1. k \in Spends /\ rows[<<k, 0>>] > 0 /\ Store(t, f) /\ UNCHANGED <<ledgerVars, gold>>
    BY <1>0, <1>10 DEF Narrate, Behind
  <2>2. /\ stored' \subseteq Products
        /\ \A p \in stored' : p \in stored \/
               (ChargedFor(p) \/ gold[ChartOf[p]] < GoldSold[ChartOf[p]])
    BY <2>1, StoredWasPaid
  <2>3. req' = [req EXCEPT ![t] = n] /\ n \in Requests
        /\ (n.at = "idle" \/ (n.at = "refund" /\ n.key = k))
    <3>1. CASE f = 0
      <4>1. n = NoReq
        BY <3>1
      <4>2. req' = [req EXCEPT ![t] = NoReq]
        BY <1>10, <3>1 DEF Narrate, Reply
      <4>3. NoReq.at = "idle"
        BY DEF NoReq
      <4> HIDE DEF n
      <4> QED BY <1>3, <4>1, <4>2, <4>3
    <3>2. CASE f # 0
      <4>1. req' = [req EXCEPT ![t] = n] /\ n = [at |-> "refund", key |-> k, failed |-> f]
        BY <1>10, <3>2 DEF Narrate, GoTo
      <4> HIDE DEF n, k
      <4> QED BY <1>3, <2>1, <4>1 DEF Places
    <3> QED BY <3>1, <3>2
  <2> HIDE DEF n, k
  <2>4. Behind(t)'
    BY <1>1, <2>1, <2>3 DEF Behind, ledgerVars
  <2> QED BY <1>0, <2>1, <2>2, <2>3, <2>4, RequestMoves DEF ledgerVars
<1>11. ASSUME NEW t \in Txns, RequestRefund(t) PROVE ForecastInv'
  <2> DEFINE k == req[t].key
  <2>1. k \in Spends /\ rows[<<k, 0>>] > 0 /\ UNCHANGED <<gold, stored>>
    BY <1>0, <1>11 DEF RequestRefund, Behind
  <2>2. ASSUME NEW want, NEW r, BeginRefund(t, k, want, r), GoTo(t, "refunding", k, req[t].failed)
        PROVE  ForecastInv'
    <3> DEFINE n == [at |-> "refunding", key |-> k, failed |-> req[t].failed]
    <3>1. req[t].failed \in 0 .. Narrated
      BY <1>1 DEF Requests
    <3>2. req' = [req EXCEPT ![t] = n] /\ n \in Requests /\ n.at = "refunding" /\ n.key = k
      BY <1>3, <2>1, <2>2, <3>1 DEF GoTo, Places
    <3> HIDE DEF n
    <3>3. \E m : txn' = [txn EXCEPT ![t] = m]
      BY <2>2 DEF BeginRefund, Begin
    <3>4. UNCHANGED rows
      BY <2>2 DEF BeginRefund, Begin
    <3> HIDE DEF k
    <3>5. Behind(t)'
      BY <1>1, <2>1, <3>2, <3>4 DEF Behind
    <3> QED BY <1>0, <1>1, <1>2, <2>1, <3>2, <3>3, <3>5, OthersWait, RequestMoves
  <2>3. CASE Reply(t) /\ UNCHANGED ledgerVars
    BY <1>4, <2>1, <2>3 DEF ledgerVars
  <2> QED BY <1>11, <2>2, <2>3 DEF RequestRefund
<1>12. ASSUME NEW t \in Txns, NEW k \in Spends, OpenGold(t, k) PROVE ForecastInv'
  <2> DEFINE n == [at |-> "goldFound", key |-> k, failed |-> 0]
  <2>1. req' = [req EXCEPT ![t] = n] /\ n \in Requests /\ n.at = "goldFound" /\ n.key = k
    BY <1>3, <1>12, ForecastAssumption DEF OpenGold, GoTo, Places
  <2> HIDE DEF n
  <2>2. GoldFor(k) \in Charts
    BY ForecastAssumption DEF GoldFor
  <2>3. GoldSold[GoldFor(k)] > 0
    <3>1. gold[GoldFor(k)] > 0 /\ gold[GoldFor(k)] <= GoldSold[GoldFor(k)]
          /\ gold[GoldFor(k)] \in Nat /\ GoldSold[GoldFor(k)] \in Nat
      BY <1>0, <1>12, <2>2, ForecastAssumption DEF OpenGold, OwnTypes
    <3> QED BY <3>1
  <2>4. Behind(t)'
    BY <1>1, <2>1, <2>3 DEF Behind, GoldFor
  <2>5. UNCHANGED <<txn, gold, stored>>
    BY <1>12 DEF OpenGold, ledgerVars
  <2> QED BY <1>0, <1>2, <2>1, <2>4, <2>5, RequestMoves
<1>13. ASSUME NEW t \in Txns, UseGold(t) PROVE ForecastInv'
  <2> DEFINE k == req[t].key
             c == GoldFor(k)
             n == [at |-> "goldNarrating", key |-> k, failed |-> 0]
             g == IF gold[c] > 0 THEN gold[c] - 1 ELSE gold[c]
  <2>1. k \in Spends /\ GoldSold[c] > 0
    BY <1>0, <1>13 DEF UseGold, Behind
  <2>2. c \in Charts /\ gold[c] \in Nat /\ GoldSold[c] \in Nat /\ gold[c] <= GoldSold[c]
    BY <1>0, <2>1, ForecastAssumption DEF GoldFor, OwnTypes
  <2>3. g \in Nat /\ g <= gold[c] /\ g < GoldSold[c]
    BY <2>1, <2>2
  <2>4. gold' = [gold EXCEPT ![c] = g] /\ UNCHANGED <<ledgerVars, stored>>
    BY <1>13 DEF UseGold
  <2>5. req' = [req EXCEPT ![t] = n] /\ n \in Requests /\ n.at = "goldNarrating" /\ n.key = k
    BY <1>3, <1>13, <2>1, ForecastAssumption DEF UseGold, GoTo, Places
  <2> HIDE DEF g, n
  <2>6. ASSUME NEW d \in Charts
        PROVE  gold'[d] \in Nat /\ gold'[d] <= gold[d] /\ gold[d] \in Nat /\ GoldSold[d] \in Nat
    <3>1. gold[d] \in Nat /\ GoldSold[d] \in Nat
      BY <1>0, ForecastAssumption DEF OwnTypes
    <3>2. gold'[d] = IF d = c THEN g ELSE gold[d]
      BY <1>0, <2>4 DEF OwnTypes
    <3> HIDE DEF c
    <3> QED BY <2>3, <3>1, <3>2
  <2>7. OwnTypes'
    BY <1>0, <2>2, <2>3, <2>4, <2>5 DEF OwnTypes
  <2>8. IInv' /\ UNCHANGED <<rows, txn>>
    BY <1>0, <2>4, InvStep DEF ledgerVars
  <2>9. ASSUME NEW s \in Txns PROVE Behind(s)'
    <3>1. CASE s = t
      <4>1. gold'[c] = g
        BY <1>0, <2>2, <2>4 DEF OwnTypes
      <4>2. req'[t] = n
        BY <1>1, <2>5
      <4> QED BY <2>1, <2>3, <2>5, <3>1, <4>1, <4>2 DEF Behind
    <3>2. CASE s # t
      <4>1. req'[s] = req[s] /\ Behind(s)
        BY <1>0, <1>1, <2>5, <3>2
      <4>2. ASSUME req[s].at = "goldNarrating"
            PROVE  gold'[GoldFor(req[s].key)] < GoldSold[GoldFor(req[s].key)]
        <5>1. req[s].key \in Spends /\ gold[GoldFor(req[s].key)] < GoldSold[GoldFor(req[s].key)]
          BY <4>1, <4>2 DEF Behind
        <5>2. GoldFor(req[s].key) \in Charts
          BY <5>1, ForecastAssumption DEF GoldFor
        <5> QED BY <2>6, <5>1, <5>2
      <4> QED BY <2>8, <4>1, <4>2 DEF Behind, GoldFor
    <3> QED BY <3>1, <3>2
  <2>10. \A d \in Charts : gold'[d] <= GoldSold[d]
    BY <1>0, <2>6
  <2>11. DeliveredWasPaid'
    <3> SUFFICES ASSUME NEW p \in stored
                 PROVE  ChargedFor(p)' \/ gold'[ChartOf[p]] < GoldSold[ChartOf[p]]
      BY <2>4 DEF DeliveredWasPaid
    <3>1. ChargedFor(p) \/ gold[ChartOf[p]] < GoldSold[ChartOf[p]]
      BY <1>0 DEF DeliveredWasPaid
    <3>2. ChartOf[p] \in Charts
      BY <1>2, ForecastAssumption
    <3> QED BY <2>6, <2>8, <3>1, <3>2 DEF ChargedFor
  <2> QED BY <2>7, <2>8, <2>9, <2>10, <2>11 DEF ForecastInv
<1>14. ASSUME NEW t \in Txns, NEW f \in 0 .. Narrated, NarrateGold(t, f) PROVE ForecastInv'
  <2> DEFINE k == req[t].key
  <2>1. k \in Spends /\ gold[GoldFor(k)] < GoldSold[GoldFor(k)] /\ Store(t, f)
        /\ UNCHANGED <<ledgerVars, gold>>
    BY <1>0, <1>14 DEF NarrateGold, Behind
  <2>2. /\ stored' \subseteq Products
        /\ \A p \in stored' : p \in stored \/
               (ChargedFor(p) \/ gold[ChartOf[p]] < GoldSold[ChartOf[p]])
    BY <2>1, StoredWasPaid
  <2>3. req' = [req EXCEPT ![t] = NoReq] /\ NoReq.at = "idle"
    BY <1>14 DEF NarrateGold, Reply, NoReq
  <2>4. Behind(t)'
    BY <1>1, <2>3 DEF Behind
  <2> QED BY <1>0, <1>3, <2>1, <2>2, <2>3, <2>4, RequestMoves DEF ledgerVars
<1>15. ASSUME NEW p \in Products, Outdated(p) PROVE ForecastInv'
  <2>1. UNCHANGED <<vars, gold, req>> /\ stored' \subseteq stored
    BY <1>15 DEF Outdated, ledgerVars, vars
  <2>2. IInv' /\ OwnTypes'
    BY <1>0, <2>1, InvStep DEF OwnTypes
  <2>3. \A s \in Txns : Behind(s)'
    BY <1>0, <2>1 DEF Behind, vars, GoldFor
  <2>4. DeliveredWasPaid'
    BY <1>0, <2>1 DEF DeliveredWasPaid, ChargedFor, vars
  <2> QED BY <1>0, <2>1, <2>2, <2>3, <2>4 DEF ForecastInv
<1>16. CASE UNCHANGED forecastVars
  <2>1. IInv' /\ OwnTypes'
    BY <1>0, <1>16, InvStep DEF forecastVars, OwnTypes
  <2>2. \A s \in Txns : Behind(s)'
    BY <1>0, <1>16 DEF forecastVars, Behind, GoldFor
  <2>3. DeliveredWasPaid'
    BY <1>0, <1>16 DEF forecastVars, DeliveredWasPaid, ChargedFor
  <2> QED BY <1>0, <1>16, <2>1, <2>2, <2>3 DEF ForecastInv, forecastVars
<1> QED
  BY <1>5, <1>6, <1>7, <1>8, <1>9, <1>10, <1>11, <1>12, <1>13, <1>14, <1>15, <1>16
     DEF ForecastNext

LEMMA ForecastInitially == ForecastInit => ForecastInv
<1> SUFFICES ASSUME ForecastInit PROVE ForecastInv
  OBVIOUS
<1>1. IInv
  BY DEF ForecastInit, Init, IInv, TypeOK, TxnOK, NoTxn
<1>2. OwnTypes
  BY ForecastAssumption DEF ForecastInit, OwnTypes, Requests, Places, NoReq
<1>3. \A t \in Txns : Behind(t)
  BY DEF ForecastInit, Behind, NoReq
<1>4. \A c \in Charts : gold[c] <= GoldSold[c]
  BY ForecastAssumption DEF ForecastInit
<1>5. DeliveredWasPaid
  BY DEF ForecastInit, DeliveredWasPaid
<1> QED BY <1>1, <1>2, <1>3, <1>4, <1>5 DEF ForecastInv

-----------------------------------------------------------------------------

\* The types of the handler of POST /api/charts/{id}/forecast/analyze, among
\* them that neither a balance nor a gold entitlement is ever overdrawn, and
\* the invariant of its requests.
THEOREM ForecastInvCorrect == ForecastSpec => []ForecastInv
  BY ForecastInitially, ForecastStep, PTL DEF ForecastSpec

\* An analysis in the cache was charged for in some month or took a gold unit
\* of its chart, whatever requests raced, failed or died on the way.
THEOREM DeliveredPaid == ForecastSpec => []DeliveredWasPaid
<1>1. ForecastInv => DeliveredWasPaid
  BY DEF ForecastInv
<1> QED BY <1>1, ForecastInvCorrect, PTL

\* The handler uses the credit ledger as app/credits.py means it to be used:
\* seen from the ledger, every run of it is one of concurrent calls.
THEOREM ForecastUsesLedger == ForecastSpec => Spec
<1>1. ForecastInit => Init
  BY DEF ForecastInit
<1> QED BY <1>1, LedgerSteps, ForecastInvCorrect, PTL DEF ForecastSpec, Spec

\* So the ledger under the handler is still the account of CreditAccount.
THEOREM ForecastImplementsAccount == ForecastSpec => ImplementsAccount
  BY ForecastUsesLedger, CreditsImplementAccount

\* And its rows add up to the balances.
THEOREM ForecastLedgerBalanced ==
    ASSUME IsFiniteSet(Ops) PROVE ForecastSpec => []LedgerMatchesBalance
  BY ForecastUsesLedger, LedgerBalanced
=============================================================================
