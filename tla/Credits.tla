------------------------------ MODULE Credits ------------------------------
(***************************************************************************)
(* The credit ledger, app/credits.py: spend, grant and refund, called from *)
(* concurrent database sessions under READ COMMITTED.                      *)
(*                                                                         *)
(* Every call reads first (the idempotency key, the refunds so far) and    *)
(* writes later.  The write is one transaction: the UPDATE of users takes  *)
(* the row lock, the INSERT of the ledger row meets the unique index on    *)
(* idempotency_key, and an IntegrityError rolls both back.  Other sessions *)
(* can commit between the read and the write, never inside the write, so   *)
(* a call is two steps.  With commit=False the write belongs to the        *)
(* caller's transaction and becomes visible at the caller's commit, which  *)
(* is then the second step; Abandon is that caller rolling back, or the    *)
(* process dying, before it.                                               *)
(***************************************************************************)
EXTENDS Integers, FiniteSetsExt

CONSTANTS
    Users,
    Spends,         \* spend calls, one per idempotency key
    Grants,         \* grant calls, one per idempotency key
    Owner,          \* Owner[k]: the user operation k belongs to
    Amount,         \* Amount[k]: credits it moves; for a spend, its price
    MaxAmount,      \* bound of all amounts
    RefundReasons,  \* the texts callers of refund() give as its reason
    Txns,           \* concurrent database sessions
    NoKey           \* not a ledger key

Ops == Spends \union Grants

ASSUME CreditsAssumption ==
    /\ Spends \intersect Grants = {}
    /\ MaxAmount \in Nat
    /\ Owner \in [Ops -> Users]
    /\ Amount \in [Ops -> 0 .. MaxAmount]

(***************************************************************************)
(* Idempotency keys of ledger rows.  <<k, 0>> is the key the caller chose  *)
(* for operation k; <<k, a>> is "refund:{id of k's row}:{a}", the key of a *)
(* refund of a credits of spend k.                                         *)
(***************************************************************************)
Keys == (Ops \X {0}) \union (Spends \X (1 .. MaxAmount))

\* The column amount of the row with key p, and the user it is booked on.
Delta == [p \in Keys |-> IF p[2] > 0 THEN p[2]
                         ELSE IF p[1] \in Grants THEN Amount[p[1]]
                         ELSE -Amount[p[1]]]
AccountOf == [p \in Keys |-> Owner[p[1]]]

VARIABLES
    credits,   \* users.credits
    rows,      \* rows[p]: how many ledger rows carry key p
    reason,    \* reason[p]: the reason column of the row of a refund key p
    txn        \* txn[t]: the call session t is in the middle of

vars == <<credits, rows, reason, txn>>

NoTxn == [pc |-> "idle", key |-> NoKey, reason |-> "none"]

TypeOK ==
    /\ credits \in [Users -> Nat]
    /\ rows \in [Keys -> Nat]
    /\ reason \in [Keys -> RefundReasons \union {"none"}]
    /\ txn \in [Txns -> [pc     : {"idle", "spend", "grant", "refund"},
                         key    : Keys \union {NoKey},
                         reason : RefundReasons \union {"none"}]]

Init ==
    /\ credits = [u \in Users |-> 0]
    /\ rows = [p \in Keys |-> 0]
    /\ reason = [p \in Keys |-> "none"]
    /\ txn = [t \in Txns |-> NoTxn]

-----------------------------------------------------------------------------
(* Pieces of the transactions.                                             *)

Begin(t, pc, p, r) ==
    /\ txn[t].pc = "idle"
    /\ txn' = [txn EXCEPT ![t] = [pc |-> pc, key |-> p, reason |-> r]]
    /\ UNCHANGED <<credits, rows, reason>>

\* UPDATE users SET credits = credits + delta; INSERT the row; COMMIT.
Book(t) ==
    LET p == txn[t].key
    IN  /\ credits' = [credits EXCEPT ![AccountOf[p]] = @ + Delta[p]]
        /\ rows' = [rows EXCEPT ![p] = @ + 1]
        /\ reason' = [reason EXCEPT ![p] = txn[t].reason]
        /\ txn' = [txn EXCEPT ![t] = NoTxn]

\* The call ends without writing.
GiveUp(t) ==
    /\ txn' = [txn EXCEPT ![t] = NoTxn]
    /\ UNCHANGED <<credits, rows, reason>>

\* The unique index uq_credit_tx_idem_key lets the row in.
KeyIsFree(t) == rows[txn[t].key] = 0

\* WHERE credits >= :c of the guarded decrement.
Affordable(t) == credits[AccountOf[txn[t].key]] + Delta[txn[t].key] >= 0

-----------------------------------------------------------------------------
(* spend                                                                   *)

\* No row has the key yet; otherwise spend returns the recorded one.
BeginSpend(t, k) == rows[<<k, 0>>] = 0 /\ Begin(t, "spend", <<k, 0>>, "none")

\* Faults a spend could have: the unique index missing, or the guard of the
\* UPDATE missing.
ChargeWithoutIndex(t) == txn[t].pc = "spend" /\ Affordable(t) /\ Book(t)
ChargeUnguarded(t) == txn[t].pc = "spend" /\ KeyIsFree(t) /\ Book(t)

Charge(t) ==
    /\ txn[t].pc = "spend"
    /\ Affordable(t)
    /\ KeyIsFree(t)
    /\ Book(t)

\* A fault: the losing session keeps its decrement.
DuplicateKeepsDebit(t) ==
    /\ txn[t].pc = "spend" /\ Affordable(t) /\ ~KeyIsFree(t)
    /\ credits' = [credits EXCEPT ![AccountOf[txn[t].key]] = @ + Delta[txn[t].key]]
    /\ txn' = [txn EXCEPT ![t] = NoTxn]
    /\ UNCHANGED <<rows, reason>>

\* Another session recorded the key first: IntegrityError, rollback of the
\* decrement too, and the winner's row is returned.
ChargeDuplicate(t) ==
    /\ txn[t].pc = "spend"
    /\ Affordable(t)
    /\ ~KeyIsFree(t)
    /\ GiveUp(t)

\* The UPDATE matched no row: InsufficientCredits.
ChargeRefused(t) ==
    /\ txn[t].pc = "spend"
    /\ ~Affordable(t)
    /\ GiveUp(t)

-----------------------------------------------------------------------------
(* grant                                                                   *)

BeginGrant(t, k) ==
    /\ Amount[k] > 0
    /\ rows[<<k, 0>>] = 0
    /\ Begin(t, "grant", <<k, 0>>, "none")

AddGrant(t) ==
    /\ txn[t].pc = "grant"
    /\ KeyIsFree(t)
    /\ Book(t)

AddGrantDuplicate(t) ==
    /\ txn[t].pc = "grant"
    /\ ~KeyIsFree(t)
    /\ GiveUp(t)

-----------------------------------------------------------------------------
(* refund                                                                  *)

\* SELECT SUM(amount) ... WHERE reason = 'refund' AND ref_id = <id of k>.
RefundedSoFar(k) ==
    SumSet({a \in 1 .. MaxAmount : rows[<<k, a>>] > 0 /\ reason[<<k, a>>] = "refund"})

\* refund(amount=want); want = 0 is amount=None, a full refund.  The amount is
\* clamped to the room that is left.
RefundAmount(k, want) ==
    LET room == Amount[k] - RefundedSoFar(k)
    IN  IF want = 0 \/ want > room THEN room ELSE want

\* The a credits are to be booked: there is room left, and no row of the refund's
\* key is recorded yet.
RefundDue(k, want, a) ==
    /\ rows[<<k, 0>>] > 0
    /\ want <= Amount[k]
    /\ a = RefundAmount(k, want)
    /\ rows[<<k, a>>] = 0

BeginRefund(t, k, want, r) ==
    \E a \in 1 .. MaxAmount :
        RefundDue(k, want, a) /\ Begin(t, "refund", <<k, a>>, r)

\* A fault: the refund row is inserted without its unique key.
PayRefundWithoutIndex(t) == txn[t].pc = "refund" /\ Book(t)

PayRefund(t) ==
    /\ txn[t].pc = "refund"
    /\ KeyIsFree(t)
    /\ Book(t)

PayRefundDuplicate(t) ==
    /\ txn[t].pc = "refund"
    /\ ~KeyIsFree(t)
    /\ GiveUp(t)

-----------------------------------------------------------------------------

\* The caller rolls back, or its process dies, before the commit.
Abandon(t) == txn[t].pc # "idle" /\ GiveUp(t)

Finish(t) ==
    \/ Charge(t) \/ ChargeDuplicate(t) \/ ChargeRefused(t)
    \/ AddGrant(t) \/ AddGrantDuplicate(t)
    \/ PayRefund(t) \/ PayRefundDuplicate(t)
    \/ Abandon(t)

Next ==
    \E t \in Txns :
        \/ \E k \in Spends : BeginSpend(t, k)
        \/ \E k \in Grants : BeginGrant(t, k)
        \/ \E k \in Spends, want \in 0 .. MaxAmount, r \in RefundReasons :
              BeginRefund(t, k, want, r)
        \/ Finish(t)

Spec == Init /\ [][Next]_vars

-----------------------------------------------------------------------------
(* Correctness.                                                            *)

\* No idempotency key is ever booked twice, however spend, grant and refund
\* calls with the same key interleave (credits.py: "never double-charges").
KeyOnce == \A p \in Keys : rows[p] <= 1

LedgerSum(u) ==
    MapThenSumSet(LAMBDA p : rows[p] * Delta[p], {p \in Keys : AccountOf[p] = u})

\* The accounting invariant of the module docstring: the amounts of a user's
\* ledger rows add up to users.credits, in every state another session can see.
LedgerMatchesBalance == \A u \in Users : credits[u] = LedgerSum(u)

\* Everything given back for a spend, whatever reason the rows carry.
RefundedInAll(k) == SumSet({a \in 1 .. MaxAmount : rows[<<k, a>>] > 0})

\* A spend is never refunded beyond its cost, and only a recorded spend is
\* refunded (the cumulative cap of refund()).
RefundCapped ==
    \A k \in Spends :
        RefundedInAll(k) <= IF rows[<<k, 0>>] > 0 THEN Amount[k] ELSE 0

\* The service seen from its callers: an account on which every posting takes
\* effect at most once, atomically, and never overdraws.
Account == INSTANCE CreditAccount
             WITH Postings <- Keys, balance <- credits,
                  posted <- {p \in Keys : rows[p] > 0}

\* app/credits.py implements that account.
ImplementsAccount == Account!Spec
=============================================================================
