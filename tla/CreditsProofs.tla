--------------------------- MODULE CreditsProofs ---------------------------
(***************************************************************************)
(* Proofs about the credit ledger: the balance never goes negative, no     *)
(* idempotency key is booked twice, the ledger rows add up to the balance, *)
(* and app/credits.py implements the abstract account of CreditAccount,    *)
(* for any number of users, calls and sessions.                            *)
(***************************************************************************)
EXTENDS Credits, FiniteSetsExt, FiniteSetTheorems, WellFoundedInduction, TLAPS

\* The call a session is in the middle of writes the kind of row it says.
TxnOK ==
    \A t \in Txns :
        /\ IF txn[t].pc = "idle" THEN txn[t] = NoTxn ELSE txn[t].key \in Keys
        /\ txn[t].pc \in {"grant", "refund"} => Delta[txn[t].key] >= 0

IInv == TypeOK /\ TxnOK

-----------------------------------------------------------------------------

\* Ledger keys are pairs, and the amount and account columns are typed.
LEMMA KeysTyped ==
    /\ Delta \in [Keys -> Int]
    /\ AccountOf \in [Keys -> Users]
    /\ \A k \in Ops : <<k, 0>> \in Keys
    /\ \A k \in Spends, a \in 1 .. MaxAmount : <<k, a>> \in Keys
<1>1. \A p \in Keys : p[1] \in Ops /\ p[2] \in 0 .. MaxAmount
  BY CreditsAssumption DEF Keys, Ops
<1>2. \A p \in Keys : Owner[p[1]] \in Users /\ Amount[p[1]] \in Nat
  BY <1>1, CreditsAssumption
<1>3. QED
  BY <1>1, <1>2, CreditsAssumption DEF Delta, AccountOf, Keys, Ops

\* A grant or a refund moves a nonnegative amount.
LEMMA CreditRows ==
    /\ \A k \in Grants : Delta[<<k, 0>>] >= 0
    /\ \A k \in Spends, a \in 1 .. MaxAmount : Delta[<<k, a>>] >= 0
<1>1. ASSUME NEW k \in Grants PROVE Delta[<<k, 0>>] >= 0
  <2>1. <<k, 0>> \in Keys /\ Amount[k] \in Nat
    BY KeysTyped, CreditsAssumption DEF Ops
  <2>2. QED BY <2>1 DEF Delta
<1>2. ASSUME NEW k \in Spends, NEW a \in 1 .. MaxAmount PROVE Delta[<<k, a>>] >= 0
  BY KeysTyped, CreditsAssumption DEF Delta
<1>3. QED BY <1>1, <1>2

-----------------------------------------------------------------------------

\* What one step does: nothing to the ledger, or exactly one covered posting
\* of a free key.  Every property below follows from this split.
Posting(p) ==
    /\ rows[p] = 0
    /\ credits[AccountOf[p]] + Delta[p] >= 0
    /\ credits' = [credits EXCEPT ![AccountOf[p]] = @ + Delta[p]]
    /\ rows' = [rows EXCEPT ![p] = @ + 1]
    /\ reason' \in [Keys -> RefundReasons \union {"none"}]

LEMMA StepCases ==
    ASSUME IInv, [Next]_vars
    PROVE  /\ txn' \in [Txns -> [pc : {"idle", "spend", "grant", "refund"},
                                 key : Keys \union {NoKey},
                                 reason : RefundReasons \union {"none"}]]
           /\ TxnOK'
           /\ \/ UNCHANGED <<credits, rows, reason>>
              \/ \E p \in Keys : Posting(p)
<1> DEFINE Goal == /\ txn' \in [Txns -> [pc : {"idle", "spend", "grant", "refund"},
                                          key : Keys \union {NoKey},
                                          reason : RefundReasons \union {"none"}]]
                   /\ TxnOK'
                   /\ \/ UNCHANGED <<credits, rows, reason>>
                      \/ \E p \in Keys : Posting(p)
<1> USE DEF IInv, TypeOK, TxnOK
<1>1. CASE UNCHANGED vars
  BY <1>1 DEF vars
<1>2. ASSUME NEW t \in Txns, NEW k \in Spends, BeginSpend(t, k) PROVE Goal
  BY <1>2, KeysTyped DEF BeginSpend, Begin, Ops
<1>3. ASSUME NEW t \in Txns, NEW k \in Grants, BeginGrant(t, k) PROVE Goal
  BY <1>3, KeysTyped, CreditRows DEF BeginGrant, Begin, Ops
<1>4. ASSUME NEW t \in Txns, NEW k \in Spends, NEW want \in 0 .. MaxAmount,
             NEW r \in RefundReasons, BeginRefund(t, k, want, r)
      PROVE  Goal
  BY <1>4, KeysTyped, CreditRows DEF BeginRefund, Begin, Ops
<1>5. ASSUME NEW t \in Txns, GiveUp(t) PROVE Goal
  BY <1>5 DEF GiveUp, NoTxn
<1>6. ASSUME NEW t \in Txns, Book(t), KeyIsFree(t), txn[t].pc # "idle",
             txn[t].pc = "spend" => Affordable(t)
      PROVE  Goal
  <2> DEFINE p == txn[t].key
  <2>1. p \in Keys
    BY <1>6
  <2>2. txn' = [txn EXCEPT ![t] = NoTxn]
    BY <1>6 DEF Book
  <2>3. /\ txn' \in [Txns -> [pc : {"idle", "spend", "grant", "refund"},
                              key : Keys \union {NoKey},
                              reason : RefundReasons \union {"none"}]]
        /\ TxnOK'
    BY <2>2 DEF NoTxn
  <2>4. credits[AccountOf[p]] + Delta[p] >= 0
    <3>1. credits[AccountOf[p]] \in Nat /\ Delta[p] \in Int
      BY <2>1, KeysTyped
    <3>2. CASE txn[t].pc = "spend"
      BY <1>6, <3>2 DEF Affordable
    <3>3. CASE txn[t].pc \in {"grant", "refund"}
      BY <3>1, <3>3
    <3>4. QED BY <1>6, <3>2, <3>3
  <2>5. Posting(p)
    BY <1>6, <2>1, <2>4 DEF Book, KeyIsFree, Posting
  <2>6. QED BY <2>1, <2>3, <2>5
<1>7. ASSUME NEW t \in Txns, Finish(t) PROVE Goal
  BY <1>5, <1>6, <1>7
     DEF Finish, Charge, ChargeDuplicate, ChargeRefused, AddGrant,
         AddGrantDuplicate, PayRefund, PayRefundDuplicate, Abandon
<1>8. QED
  BY <1>1, <1>2, <1>3, <1>4, <1>7 DEF Next

-----------------------------------------------------------------------------

LEMMA InvStep == IInv /\ [Next]_vars => IInv'
<1> SUFFICES ASSUME IInv, [Next]_vars PROVE IInv'
  OBVIOUS
<1>1. CASE UNCHANGED <<credits, rows, reason>>
  BY <1>1, StepCases DEF IInv, TypeOK
<1>2. ASSUME NEW p \in Keys, Posting(p) PROVE IInv'
  <2>1. /\ AccountOf[p] \in Users
        /\ credits[AccountOf[p]] \in Nat
        /\ Delta[p] \in Int
        /\ rows[p] \in Nat
    BY KeysTyped DEF IInv, TypeOK
  <2>2. credits' \in [Users -> Nat]
    <3>1. credits[AccountOf[p]] + Delta[p] \in Nat
      BY <1>2, <2>1 DEF Posting
    <3>2. QED
      BY <1>2, <2>1, <3>1 DEF Posting, IInv, TypeOK
  <2>3. rows' \in [Keys -> Nat] /\ reason' \in [Keys -> RefundReasons \union {"none"}]
    BY <1>2, <2>1 DEF Posting, IInv, TypeOK
  <2>4. QED
    BY <2>2, <2>3, StepCases DEF IInv, TypeOK
<1>3. QED
  BY <1>1, <1>2, StepCases

\* Types, among them that no balance is negative, and the invariant the other
\* proofs rest on.
THEOREM InvCorrect == Spec => []IInv
<1>1. Init => IInv
  BY DEF Init, IInv, TypeOK, TxnOK, NoTxn
<1>2. QED
  BY <1>1, InvStep, PTL DEF Spec

THEOREM TypeCorrect == Spec => []TypeOK
<1>1. IInv => TypeOK
  BY DEF IInv
<1>2. QED
  BY <1>1, InvCorrect, PTL

\* However calls with the same idempotency key interleave, the key is booked
\* at most once (credits.py, spend: "no double charge").
THEOREM KeysBookedOnce == Spec => []KeyOnce
<1>1. Init => KeyOnce
  BY DEF Init, KeyOnce
<1>2. IInv /\ KeyOnce /\ [Next]_vars => KeyOnce'
  <2> SUFFICES ASSUME IInv, KeyOnce, [Next]_vars PROVE KeyOnce'
    OBVIOUS
  <2>1. CASE UNCHANGED <<credits, rows, reason>>
    BY <2>1 DEF KeyOnce
  <2>2. ASSUME NEW p \in Keys, Posting(p) PROVE KeyOnce'
    BY <2>2 DEF Posting, IInv, TypeOK, KeyOnce
  <2>3. QED
    BY <2>1, <2>2, StepCases
<1>3. QED
  BY <1>1, <1>2, InvCorrect, PTL DEF Spec

\* Every step of the ledger is one posting of the abstract account or leaves
\* it alone.
THEOREM CreditsImplementAccount == Spec => ImplementsAccount
<1>1. Init => Account!Init
  BY DEF Init, Account!Init
<1>2. IInv /\ [Next]_vars => [Account!Next]_(Account!vars)
  <2> SUFFICES ASSUME IInv, [Next]_vars PROVE [Account!Next]_(Account!vars)
    OBVIOUS
  <2>1. CASE UNCHANGED <<credits, rows, reason>>
    BY <2>1 DEF Account!vars
  <2>2. ASSUME NEW p \in Keys, Posting(p) PROVE Account!Post(p)
    <3>1. {q \in Keys : rows'[q] > 0} = {q \in Keys : rows[q] > 0} \union {p}
      BY <2>2 DEF Posting, IInv, TypeOK
    <3>2. QED
      BY <2>2, <3>1 DEF Posting, Account!Post
  <2>3. QED
    BY <2>1, <2>2, StepCases DEF Account!Next
<1>3. QED
  BY <1>1, <1>2, InvCorrect, PTL DEF Spec, ImplementsAccount, Account!Spec

-----------------------------------------------------------------------------
(* The sum of a user's ledger rows.  LedgerSum takes them one by one, in   *)
(* an order that CHOOSE fixes: the sums of all sets of rows on the way are *)
(* a function, and the equation below has one solution.                    *)

RowsOf(u) == {p \in Keys : AccountOf[p] = u}

Sums(f, u) ==
    f = [s \in SUBSET RowsOf(u) |->
            IF s = {} THEN 0
            ELSE LET x == CHOOSE x \in s : TRUE
                 IN  rows[x] * Delta[x] + f[s \ {x}]]

LEMMA SumsUnique ==
    ASSUME NEW u, IsFiniteSet(RowsOf(u)), NEW f, NEW g, Sums(f, u), Sums(g, u)
    PROVE  f[RowsOf(u)] = g[RowsOf(u)]
<1> DEFINE P == RowsOf(u)
           Bad == {s \in SUBSET P : f[s] # g[s]}
<1> SUFFICES Bad = {}
  OBVIOUS
<1> SUFFICES ASSUME Bad # {} PROVE FALSE
  OBVIOUS
<1>1. IsWellFoundedOn(StrictSubsetOrdering(P), SUBSET P)
  BY FS_StrictSubsetOrderingWellFounded, FS_FiniteSubsetsOfFinite
<1>2. PICK s \in Bad : \A r \in Bad : <<r, s>> \notin StrictSubsetOrdering(P)
  <2>1. Bad \subseteq SUBSET P
    OBVIOUS
  <2> HIDE DEF Bad
  <2> QED BY <1>1, <2>1, WFMin
<1>3. s # {}
  BY <1>2 DEF Sums
<1> DEFINE x == CHOOSE x \in s : TRUE
           r == s \ {x}
<1>4. x \in s
  BY <1>3
<1>5. r \in SUBSET P /\ <<r, s>> \in StrictSubsetOrdering(P)
  <2> HIDE DEF x
  <2> QED BY <1>2, <1>4 DEF StrictSubsetOrdering
<1>6. f[r] = g[r]
  BY <1>2, <1>5
<1>7. f[s] = rows[x] * Delta[x] + f[r] /\ g[s] = rows[x] * Delta[x] + g[r]
  <2>1. s \in SUBSET RowsOf(u)
    BY <1>2
  <2> QED BY <1>3, <2>1 DEF Sums
<1> QED
  BY <1>2, <1>6, <1>7

\* The sums of a user's rows exist, and that of all of them is the balance.
Summed ==
    \A u \in Users : \E f \in [SUBSET RowsOf(u) -> Int] :
        Sums(f, u) /\ f[RowsOf(u)] = credits[u]

LEMMA SummedInit == Init => Summed
<1> SUFFICES ASSUME Init, NEW u \in Users
             PROVE  \E f \in [SUBSET RowsOf(u) -> Int] :
                        Sums(f, u) /\ f[RowsOf(u)] = credits[u]
  BY DEF Summed
<1> DEFINE f == [s \in SUBSET RowsOf(u) |-> 0]
<1>1. ASSUME NEW s \in SUBSET RowsOf(u), s # {}
      PROVE  LET x == CHOOSE x \in s : TRUE
             IN  rows[x] * Delta[x] + f[s \ {x}] = 0
  <2> DEFINE x == CHOOSE x \in s : TRUE
  <2>1. x \in s
    BY <1>1
  <2> HIDE DEF x
  <2>2. x \in Keys /\ s \ {x} \in SUBSET RowsOf(u)
    BY <2>1 DEF RowsOf
  <2>3. rows[x] = 0 /\ Delta[x] \in Int
    BY <2>2, KeysTyped DEF Init
  <2>4. rows[x] * Delta[x] + f[s \ {x}] = 0
    BY <2>2, <2>3
  <2> QED BY <2>4 DEF x
<1>2. Sums(f, u)
  BY <1>1 DEF Sums
<1>3. f \in [SUBSET RowsOf(u) -> Int] /\ f[RowsOf(u)] = credits[u]
  BY DEF Init
<1> HIDE DEF f
<1> QED
  BY <1>2, <1>3

LEMMA SummedStep == IInv /\ Summed /\ [Next]_vars => Summed'
<1> SUFFICES ASSUME IInv, Summed, [Next]_vars, NEW u \in Users
             PROVE  \E f \in [SUBSET RowsOf(u) -> Int] :
                        Sums(f, u)' /\ f[RowsOf(u)] = credits'[u]
  BY DEF Summed
<1>1. PICK f \in [SUBSET RowsOf(u) -> Int] : Sums(f, u) /\ f[RowsOf(u)] = credits[u]
  BY DEF Summed
<1>2. CASE UNCHANGED <<credits, rows, reason>>
  BY <1>1, <1>2 DEF Sums
<1>3. ASSUME NEW p \in Keys, Posting(p)
      PROVE  \E g \in [SUBSET RowsOf(u) -> Int] :
                 Sums(g, u)' /\ g[RowsOf(u)] = credits'[u]
  <2> DEFINE g == [s \in SUBSET RowsOf(u) |-> f[s] + IF p \in s THEN Delta[p] ELSE 0]
  <2>1. /\ rows \in [Keys -> Nat] /\ Delta \in [Keys -> Int]
        /\ rows[p] = 0 /\ rows' = [rows EXCEPT ![p] = @ + 1]
        /\ credits \in [Users -> Nat]
        /\ credits' = [credits EXCEPT ![AccountOf[p]] = @ + Delta[p]]
        /\ AccountOf[p] \in Users
    BY <1>3, KeysTyped DEF IInv, TypeOK, Posting
  <2>2. g \in [SUBSET RowsOf(u) -> Int]
    BY <2>1
  <2>3. ASSUME NEW s \in SUBSET RowsOf(u), s # {}
        PROVE  LET x == CHOOSE x \in s : TRUE
               IN  g[s] = rows'[x] * Delta[x] + g[s \ {x}]
    <3> DEFINE x == CHOOSE x \in s : TRUE
    <3>1. x \in s
      BY <2>3
    <3>2. f[s] = rows[x] * Delta[x] + f[s \ {x}]
      BY <1>1, <2>3 DEF Sums
    <3> HIDE DEF x
    <3>3. x \in Keys /\ s \ {x} \in SUBSET RowsOf(u)
      BY <3>1 DEF RowsOf
    <3>4. f[s \ {x}] \in Int /\ Delta[x] \in Int /\ Delta[p] \in Int
      BY <2>1, <3>3
    <3>5. g[s] = rows'[x] * Delta[x] + g[s \ {x}]
      <4>1. CASE x = p
        <5>1. rows'[x] = 1 /\ rows[x] = 0
          BY <2>1, <3>3, <4>1
        <5>2. g[s] = f[s] + Delta[x] /\ g[s \ {x}] = f[s \ {x}] + 0
          BY <3>1, <3>3, <4>1
        <5> HIDE DEF g
        <5> QED BY <3>2, <3>4, <5>1, <5>2
      <4>2. CASE x # p
        <5>1. rows'[x] = rows[x] /\ rows[x] \in Nat
          BY <2>1, <3>3, <4>2
        <5>2. p \in s <=> p \in s \ {x}
          BY <4>2
        <5>3. PICK d \in Int : g[s] = f[s] + d /\ g[s \ {x}] = f[s \ {x}] + d
          BY <3>3, <3>4, <5>2
        <5>4. PICK w \in Int : w = rows[x] * Delta[x]
          BY <3>4, <5>1
        <5> HIDE DEF g
        <5> QED BY <3>2, <3>4, <5>1, <5>3, <5>4
      <4> QED BY <4>1, <4>2
    <3> QED BY <3>5 DEF x
  <2>4. g[{}] = 0
    <3>1. f[{}] = 0
      BY <1>1 DEF Sums
    <3> QED BY <3>1
  <2>5. g = [s \in SUBSET RowsOf(u) |->
               IF s = {} THEN 0
               ELSE LET x == CHOOSE x \in s : TRUE
                    IN  rows'[x] * Delta[x] + g[s \ {x}]]
    <3>1. g = [s \in SUBSET RowsOf(u) |-> g[s]]
      OBVIOUS
    <3> HIDE DEF g
    <3> QED BY <2>3, <2>4, <3>1
  <2>6. g[RowsOf(u)] = credits'[u]
    <3>1. p \in RowsOf(u) <=> AccountOf[p] = u
      BY DEF RowsOf
    <3> QED BY <1>1, <2>1, <3>1
  <2>7. Sums(g, u)'
    <3> HIDE DEF g
    <3> QED BY <2>5 DEF Sums, RowsOf
  <2> QED BY <2>2, <2>6, <2>7
<1> QED
  BY <1>2, <1>3, StepCases

\* The amounts of a user's ledger rows add up to users.credits, in every state
\* another session can see (the accounting invariant of app/credits.py), as long as
\* the calls that are ever made are finitely many.
THEOREM LedgerBalanced ==
    ASSUME IsFiniteSet(Ops)
    PROVE  Spec => []LedgerMatchesBalance
<1>1. \A u : IsFiniteSet(RowsOf(u))
  <2>1. IsFiniteSet({0}) /\ IsFiniteSet(1 .. MaxAmount)
    <3>1. MaxAmount \in Int /\ 1 \in Int
      BY CreditsAssumption
    <3> QED BY <3>1, FS_Singleton, FS_Interval
  <2>2. IsFiniteSet(Spends)
    BY FS_Subset DEF Ops
  <2>3. IsFiniteSet(Keys)
    BY <2>1, <2>2, FS_Product, FS_Union DEF Keys
  <2>4. \A u : RowsOf(u) \in SUBSET Keys
    BY DEF RowsOf
  <2> QED BY <2>3, <2>4, FS_Subset
<1>2. Summed => LedgerMatchesBalance
  <2> SUFFICES ASSUME Summed, NEW u \in Users PROVE credits[u] = LedgerSum(u)
    BY DEF LedgerMatchesBalance
  <2>1. PICK f \in [SUBSET RowsOf(u) -> Int] : Sums(f, u) /\ f[RowsOf(u)] = credits[u]
    BY DEF Summed
  <2> DEFINE It == CHOOSE g : Sums(g, u)
  <2>2. Sums(It, u)
    BY <2>1
  <2>3. It[RowsOf(u)] = f[RowsOf(u)]
    <3> HIDE DEF It
    <3> QED BY <1>1, <2>1, <2>2, SumsUnique
  <2>4. LedgerSum(u) = It[RowsOf(u)]
    BY DEF LedgerSum, MapThenSumSet, MapThenFoldSet, Sums, RowsOf
  <2> QED BY <2>1, <2>3, <2>4
<1>3. IInv /\ Summed /\ [Next]_vars => Summed'
  BY SummedStep
<1> QED
  BY SummedInit, InvCorrect, <1>2, <1>3, PTL DEF Spec
=============================================================================
