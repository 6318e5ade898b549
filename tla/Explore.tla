------------------------------ MODULE Explore ------------------------------
(***************************************************************************)
(* The card explorations, POST /api/explore/{card} (app/main.py) with      *)
(* app/explore/service.py: record the exploration, charge one credit or    *)
(* use the user's one free exploration, generate, and undo the charge when *)
(* no result comes of it.                                                  *)
(*                                                                         *)
(* The handler drives the credit ledger of module Credits: request t is    *)
(* database session t and exploration e is the spend with the key          *)
(* explore:{e}.  The handler is a coroutine, so one uvicorn process        *)
(* interleaves requests at its awaits only; the deployment runs two        *)
(* processes, and between these every commit is a place to interleave.     *)
(***************************************************************************)
EXTENDS Credits

ASSUME ExploreAssumption ==
    /\ \A e \in Spends : Amount[e] > 0
    /\ "failed_generation" \in RefundReasons
    /\ NoKey \notin Spends

VARIABLES
    freeUsed,  \* users.free_exploration_used
    exp,       \* exp[e]: the row of exploration e
    free,      \* explorations with a free_exploration row in the ledger
    req,       \* req[t]: where request t is
    \* History, read by the properties only:
    restored,  \* free explorations whose freebie was restored
    strays,    \* strays[u]: freebies marked as used that were, or restored again
    cut        \* explorations whose request broke off before its end

ghosts == <<restored, strays, cut>>
exploreVars == <<credits, rows, reason, txn, freeUsed, exp, free, req, ghosts>>
ledgerVars == <<credits, rows, reason, txn>>

NoReq == [at |-> "idle", key |-> NoKey, mayFree |-> FALSE, charged |-> FALSE,
          again |-> FALSE]

ExploreTypeOK ==
    /\ TypeOK
    /\ freeUsed \in [Users -> BOOLEAN]
    /\ exp \in [Spends -> {"none", "running", "done", "failed", "deleted"}]
    /\ free \subseteq Spends
    /\ req \in [Txns -> [at      : {"idle", "topup", "paying", "freeing", "running",
                                    "undo", "undoing", "close"},
                         key     : Spends \union {NoKey},
                         mayFree : BOOLEAN,   \* what the user row said at the start
                         charged : BOOLEAN,
                         again   : BOOLEAN]]  \* in the handler of the exception
    /\ restored \subseteq free
    /\ strays \in [Users -> Nat]
    /\ cut \subseteq Spends

ExploreInit ==
    /\ Init
    /\ freeUsed = [u \in Users |-> FALSE]
    /\ exp = [e \in Spends |-> "none"]
    /\ free = {}
    /\ req = [t \in Txns |-> NoReq]
    /\ restored = {} /\ strays = [u \in Users |-> 0] /\ cut = {}

GoTo(t, at) == req' = [req EXCEPT ![t].at = at]
Reply(t) == req' = [req EXCEPT ![t] = NoReq]
UserOf(t) == Owner[req[t].key]

\* The row's status, unless the row was deleted.
SetStatus(e, status) ==
    exp' = [exp EXCEPT ![e] = IF @ = "deleted" THEN @ ELSE status]

-----------------------------------------------------------------------------

\* A credit pack arrives on the user's account.
TopUp(t, k) ==
    /\ req[t].at = "idle"
    /\ BeginGrant(t, k)
    /\ GoTo(t, "topup")
    /\ UNCHANGED <<freeUsed, exp, free, ghosts>>

ToppedUp(t) ==
    /\ req[t].at = "topup"
    /\ AddGrant(t) \/ AddGrantDuplicate(t)
    /\ Reply(t)
    /\ UNCHANGED <<freeUsed, exp, free, ghosts>>

Starting(t) == req[t].at \in {"paying", "freeing"}

\* get_current_user reads the user, in a session of its own; the row of the
\* exploration is committed; spend() begins.
Open(t, e) ==
    /\ req[t].at = "idle"
    /\ exp[e] = "none"
    /\ BeginSpend(t, e)
    /\ exp' = [exp EXCEPT ![e] = "running"]
    /\ req' = [req EXCEPT ![t] = [at |-> "paying", key |-> e, charged |-> FALSE,
                                  mayFree |-> credits[Owner[e]] = 0 /\ ~freeUsed[Owner[e]],
                                  again |-> FALSE]]
    /\ UNCHANGED <<freeUsed, free, ghosts>>

\* A fault: the answer of spend_credit is not looked at.
ServeUnpaid(t) ==
    /\ req[t].at = "paying"
    /\ Charge(t) \/ ChargeRefused(t)
    /\ req' = [req EXCEPT ![t].at = "running", ![t].charged = TRUE]
    /\ UNCHANGED <<freeUsed, exp, free, ghosts>>

\* A fault: the UPDATE of spend() is not guarded.
ChargedUnguarded(t) ==
    /\ req[t].at = "paying"
    /\ ChargeUnguarded(t)
    /\ req' = [req EXCEPT ![t].at = "running", ![t].charged = TRUE]
    /\ UNCHANGED <<freeUsed, exp, free, ghosts>>

Charged(t) ==
    /\ req[t].at = "paying"
    /\ Charge(t)
    /\ req' = [req EXCEPT ![t].at = "running", ![t].charged = TRUE]
    /\ UNCHANGED <<freeUsed, exp, free, ghosts>>

\* No credit; the freebie is open, as far as the request knows.
LooksFree(t) ==
    /\ req[t].at = "paying" /\ req[t].mayFree
    /\ ChargeRefused(t)
    /\ GoTo(t, "freeing")
    /\ UNCHANGED <<freeUsed, exp, free, ghosts>>

\* 402.
NotPaid(t) ==
    /\ req[t].at = "paying" /\ ~req[t].mayFree
    /\ ChargeRefused(t)
    /\ SetStatus(req[t].key, "failed")
    /\ Reply(t)
    /\ UNCHANGED <<freeUsed, free, ghosts>>

\* The user's freebie is written although it is not this request's to write.
Stray(t, isStray) ==
    strays' = [strays EXCEPT ![UserOf(t)] = IF isStray THEN @ + 1 ELSE @]

\* A fault: the freebie is not marked as used.
MarkNothing(t) ==
    /\ req[t].at = "freeing"
    /\ free' = free \union {req[t].key}
    /\ GoTo(t, "running")
    /\ UNCHANGED <<ledgerVars, freeUsed, exp, ghosts>>

\* mark_free_exploration: UPDATE without a condition on what it was.
MarkFree(t) ==
    /\ req[t].at = "freeing"
    /\ freeUsed' = [freeUsed EXCEPT ![UserOf(t)] = TRUE]
    /\ free' = free \union {req[t].key}
    /\ Stray(t, freeUsed[UserOf(t)])
    /\ GoTo(t, "running")
    /\ UNCHANGED <<ledgerVars, exp, restored, cut>>

-----------------------------------------------------------------------------
(* event_stream                                                            *)

Deliver(t) ==
    /\ req[t].at = "running" /\ exp[req[t].key] = "running"
    /\ SetStatus(req[t].key, "done")
    /\ Reply(t)
    /\ UNCHANGED <<ledgerVars, freeUsed, free, ghosts>>

\* generate_exploration gives up (FALSE), or raises, or its row is gone when the
\* result is to be stored (TRUE).
Fails(t, raised) ==
    /\ req[t].at = "running"
    /\ exp[req[t].key] = "deleted" => raised
    /\ req' = [req EXCEPT ![t].at = "undo", ![t].again = raised]
    /\ UNCHANGED <<ledgerVars, freeUsed, exp, free, ghosts>>

\* A fault: what was charged is not given back.
KeepCharge(t) ==
    /\ req[t].at = "undo" /\ req[t].charged
    /\ GoTo(t, "close")
    /\ UNCHANGED <<ledgerVars, freeUsed, exp, free, ghosts>>

\* refund_credit, for a charged exploration: nothing is due if it was refunded.
Undo(t) ==
    /\ req[t].at = "undo" /\ req[t].charged
    /\ \/ /\ BeginRefund(t, req[t].key, 0, "failed_generation")
          /\ GoTo(t, "undoing")
       \/ /\ rows[<<req[t].key, Amount[req[t].key]>>] > 0
          /\ GoTo(t, "close")
          /\ UNCHANGED ledgerVars
    /\ UNCHANGED <<freeUsed, exp, free, ghosts>>

Undone(t) ==
    /\ req[t].at = "undoing"
    /\ PayRefund(t)
    /\ GoTo(t, "close")
    /\ UNCHANGED <<freeUsed, exp, free, ghosts>>

\* A fault: the freebie stays burned.
RestoreNothing(t) ==
    /\ req[t].at = "undo" /\ ~req[t].charged
    /\ GoTo(t, "close")
    /\ UNCHANGED <<ledgerVars, freeUsed, exp, free, ghosts>>

\* restore_free_exploration, for a free one: again without a condition.
Restore(t) ==
    /\ req[t].at = "undo" /\ ~req[t].charged
    /\ freeUsed' = [freeUsed EXCEPT ![UserOf(t)] = FALSE]
    /\ restored' = restored \union {req[t].key}
    /\ Stray(t, req[t].key \in restored)
    /\ GoTo(t, "close")
    /\ UNCHANGED <<ledgerVars, exp, free, cut>>

\* A fault: the failed row is not committed.
CloseNothing(t) ==
    /\ req[t].at = "close" /\ exp[req[t].key] # "deleted"
    /\ Reply(t)
    /\ UNCHANGED <<ledgerVars, freeUsed, exp, free, ghosts>>

Close(t) ==
    /\ req[t].at = "close" /\ exp[req[t].key] # "deleted"
    /\ SetStatus(req[t].key, "failed")
    /\ Reply(t)
    /\ UNCHANGED <<ledgerVars, freeUsed, free, ghosts>>

\* The request ends at once.
BreakOff(t) ==
    /\ cut' = IF req[t].key \in Spends THEN cut \union {req[t].key} ELSE cut
    /\ Reply(t)
    /\ UNCHANGED <<restored, strays>>

\* An exception inside the cleanup: the first time the handler runs the cleanup
\* again from its start, the second time it is swallowed.
TryAgain(t) ==
    IF req[t].again
    THEN BreakOff(t)
    ELSE /\ req' = [req EXCEPT ![t].at = "undo", ![t].again = TRUE]
         /\ UNCHANGED ghosts

\* There is no row to mark as failed.
CloseDeleted(t) ==
    /\ req[t].at = "close" /\ exp[req[t].key] = "deleted"
    /\ TryAgain(t)
    /\ UNCHANGED <<ledgerVars, freeUsed, exp, free>>

\* The database fails before a write of the cleanup.
Hiccup(t) ==
    /\ req[t].at \in {"undo", "undoing", "close"}
    /\ TryAgain(t)
    /\ GiveUp(t)
    /\ UNCHANGED <<freeUsed, exp, free>>

-----------------------------------------------------------------------------

\* The reader leaves: the stream is cancelled where it awaits the model.
\* CancelledError is not an Exception, so no cleanup runs.
Disconnect(t) ==
    /\ req[t].at = "running"
    /\ BreakOff(t)
    /\ UNCHANGED <<ledgerVars, freeUsed, exp, free>>

Crash(t) ==
    /\ req[t].at # "idle"
    /\ BreakOff(t)
    /\ GiveUp(t)
    /\ UNCHANGED <<freeUsed, exp, free>>

\* api_explore_delete, of a row the history lists, a running one included.
Delete(e) ==
    /\ exp[e] \in {"running", "done", "failed"}
    /\ \A t \in Txns : req[t].key = e => ~Starting(t)
    /\ exp' = [exp EXCEPT ![e] = "deleted"]
    /\ UNCHANGED <<ledgerVars, freeUsed, free, req, ghosts>>

Proceed(t) ==
    \/ ToppedUp(t)
    \/ Charged(t) \/ LooksFree(t) \/ NotPaid(t) \/ MarkFree(t)
    \/ Deliver(t) \/ (\E raised \in BOOLEAN : Fails(t, raised))
    \/ Undo(t) \/ Undone(t) \/ Restore(t) \/ Close(t) \/ CloseDeleted(t)

ExploreNext ==
    \/ \E t \in Txns :
          \/ \E k \in Grants : TopUp(t, k)
          \/ \E e \in Spends : Open(t, e)
          \/ Proceed(t)
          \/ Hiccup(t) \/ Disconnect(t) \/ Crash(t)
    \/ \E e \in Spends : Delete(e)

ExploreSpec == ExploreInit /\ [][ExploreNext]_exploreVars

-----------------------------------------------------------------------------
(* Correctness.                                                            *)

\* Paid for and not given back.
Paid(e) == rows[<<e, 0>>] > 0 /\ rows[<<e, Amount[e]>>] = 0

\* The handler's docstring, "Costs 1 credit, ATOMIC": what was delivered was
\* paid for, or was the user's free one.
DoneIsPaid == \A e \in Spends : exp[e] = "done" => Paid(e) \/ e \in free

\* "First-ever exploration is FREE": no user gets more than one result for
\* nothing, and one for each write of a freebie that had moved on meanwhile:
\* a start that overlaps another marks it a second time, a cleanup that is run
\* again restores it a second time.
FreeOnce ==
    \A u \in Users :
        Cardinality({e \in free : Owner[e] = u /\ exp[e] = "done"}) <= 1 + strays[u]

Live(e) == \E t \in Txns : req[t].key = e

\* "Failed generation -> auto refund": an exploration whose request ran to its
\* end was delivered, or deleted by its user, or its credit is back.
PaidIsServed ==
    \A e \in Spends \ cut : Paid(e) /\ ~Live(e) => exp[e] \in {"done", "deleted"}

\* restore_free_exploration: a failed free exploration must not burn the user's
\* one-time freebie; it stays used only for a result, or one that is coming, or
\* for a request that broke off.
FreebieNotBurned ==
    \A u \in Users :
        freeUsed[u] => \E e \in free :
            Owner[e] = u /\ (Live(e) \/ exp[e] \in {"done", "deleted"} \/ e \in cut)

\* No request ends and leaves its exploration running, in the user's history for
\* good, unless it breaks off.
EndsWithRequest ==
    \A e \in Spends \ cut : exp[e] = "running" => Live(e)

\* What is given was paid for, or was free, once.
GivenIsPaid == DoneIsPaid /\ FreeOnce

\* What was taken, a credit or the freebie, was taken for an exploration that was
\* delivered, and a request does not end before it has seen to that.
TakenIsServed == PaidIsServed /\ FreebieNotBurned /\ EndsWithRequest

\* Credits and explorations match, in both directions.
CreditsServed == GivenIsPaid /\ TakenIsServed
=============================================================================
