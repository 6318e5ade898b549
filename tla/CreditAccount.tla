--------------------------- MODULE CreditAccount ---------------------------
(***************************************************************************)
(* What the credit service promises its callers: a set of postings, each   *)
(* with an account and a signed amount, every one of which moves the       *)
(* account's balance at most once and never below zero.  app/credits.py    *)
(* implements it with idempotency keys, a guarded UPDATE and a unique      *)
(* index; module Credits is that implementation.                           *)
(***************************************************************************)
EXTENDS Integers

CONSTANTS
    Users,       \* the accounts
    Postings,    \* everything that can ever be posted
    AccountOf,   \* AccountOf[p]: the user whose balance posting p moves
    Delta        \* Delta[p]: the signed number of credits p moves

VARIABLES
    balance,     \* balance[u]: credits of user u
    posted       \* the postings that have taken effect

vars == <<balance, posted>>

Init ==
    /\ balance = [u \in Users |-> 0]
    /\ posted = {}

\* A posting takes effect: once, atomically, and only if it can be covered.
Post(p) ==
    /\ p \notin posted
    /\ balance[AccountOf[p]] + Delta[p] >= 0
    /\ posted' = posted \union {p}
    /\ balance' = [balance EXCEPT ![AccountOf[p]] = @ + Delta[p]]

Next == \E p \in Postings : Post(p)

Spec == Init /\ [][Next]_vars
=============================================================================
