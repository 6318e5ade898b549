---------------------------- MODULE ActorsProofs ----------------------------
(***************************************************************************)
(* What the run actors checks on small instances, for every value of the   *)
(* constants: the explorations, on top of the proofs about the credit      *)
(* ledger they drive (GivenIsPaid, TakenIsServed), the bots                *)
(* (ConversationKept), the sections of a report (VerdictAndBudget), the    *)
(* price list (CatalogKept) and the rate limits (LimitsHeld).  The five    *)
(* share no variable; the last part puts them side by side.                *)
(***************************************************************************)
EXTENDS MCActors, CreditsProofs, SumProofs, FiniteSetTheorems

\* Nothing has been given back for the reason that the cap of refund() counts.
LEMMA NoSum == SumSet({}) = 0
<1> DEFINE Sum(f) == f = [s \in SUBSET {} |->
                            IF s = {} THEN 0
                            ELSE LET x == CHOOSE x \in s : TRUE IN x + f[s \ {x}]]
           It == CHOOSE f : Sum(f)
<1>1. Sum([s \in SUBSET {} |-> 0])
  OBVIOUS
<1>2. Sum(It)
  <2> HIDE DEF Sum
  <2> QED BY <1>1
<1>3. It[{}] = 0
  <2> HIDE DEF It
  <2> QED BY <1>2
<1> QED
  BY <1>3 DEF SumSet, FoldSet, MapThenFoldSet

-----------------------------------------------------------------------------
(* The invariant.                                                          *)

\* The call of the ledger that a request is in the middle of.
Calls(t) ==
    /\ req[t].at = "paying" => txn[t].pc = "spend" /\ txn[t].key = <<req[t].key, 0>>
    /\ req[t].at = "undoing" => /\ txn[t].pc = "refund"
                                /\ txn[t].key = <<req[t].key, Amount[req[t].key]>>
    /\ req[t].at = "topup" => txn[t].pc = "grant" /\ txn[t].key \in Grants \X {0}
    /\ txn[t].reason \in {"none", "failed_generation"}

\* What has been taken for the exploration of a request, at each of its steps.
Holds(t) ==
    LET e == req[t].key
        charged == rows[<<e, 0>>] > 0 /\ e \notin free
        given == rows[<<e, 0>>] = 0 /\ e \in free
    IN  /\ req[t].at \in {"idle", "topup"} <=> e = NoKey
        /\ e \in Spends => exp[e] \in {"running", "deleted"}
        /\ Starting(t) => /\ rows[<<e, 0>>] = 0 /\ rows[<<e, Amount[e]>>] = 0 /\ e \notin free
                          /\ ~req[t].charged /\ exp[e] = "running"
        /\ req[t].at \in {"running", "undo", "undoing", "close"} =>
              IF req[t].charged THEN charged ELSE given
        /\ req[t].at = "running" => e \notin restored /\ rows[<<e, Amount[e]>>] = 0
        /\ req[t].at = "undoing" => req[t].charged
        /\ req[t].at = "close" /\ req[t].charged => rows[<<e, Amount[e]>>] > 0

\* An exploration before its request, with a result, and after its request.
Fine(e) ==
    /\ exp[e] = "none" =>
          /\ rows[<<e, 0>>] = 0 /\ rows[<<e, Amount[e]>>] = 0
          /\ e \notin free /\ e \notin cut /\ ~Live(e)
    /\ exp[e] = "done" => (Paid(e) \/ e \in free) /\ e \notin restored /\ ~Live(e)
    /\ e \notin cut /\ ~Live(e) =>
          exp[e] # "running" /\ (Paid(e) => exp[e] \in {"done", "deleted"})

\* Who accounts for a freebie that is used.
Holder(u, e) ==
    /\ e \in free /\ Owner[e] = u
    /\ \/ e \in cut \/ exp[e] \in {"done", "deleted"}
       \/ \E t \in Txns : req[t].key = e /\ req[t].at \in {"running", "undo"}

\* Freebies of a user that were given and not restored.
Given(u) == {e \in free \ restored : Owner[e] = u}

OneRequestEach ==
    \A s, t \in Txns : s # t /\ req[s].key = req[t].key => req[s].key = NoKey

EInv ==
    /\ IInv /\ ExploreTypeOK
    /\ \A p \in Keys : reason[p] \in {"none", "failed_generation"}
    /\ OneRequestEach
    /\ \A t \in Txns : Calls(t) /\ Holds(t)
    /\ \A e \in Spends : Fine(e)

Freebies ==
    /\ IsFiniteSet(free)
    /\ \A u \in Users :
          /\ Cardinality(Given(u)) <= strays[u] + (IF freeUsed[u] THEN 1 ELSE 0)
          /\ freeUsed[u] => \E e \in Spends : Holder(u, e)

LEMMA SpendKeys ==
    /\ \A e \in Spends : /\ Amount[e] \in 1 .. MaxAmount
                         /\ <<e, 0>> \in Keys /\ <<e, Amount[e]>> \in Keys
                         /\ Owner[e] \in Users
    /\ Grants \X {0} \subseteq Keys
    /\ \A e \in Spends, p \in Grants \X {0} : p # <<e, 0>> /\ p # <<e, Amount[e]>>
<1>1. \A e \in Spends : Amount[e] \in 0 .. MaxAmount /\ Amount[e] > 0
  BY CreditsAssumption, ExploreAssumption DEF Ops
<1>2. \A e \in Spends : Amount[e] \in 1 .. MaxAmount
  BY <1>1, CreditsAssumption
<1> QED
  BY <1>2, CreditsAssumption DEF Keys, Ops

\* A full refund is of the whole price, as nothing counts against the cap.
LEMMA RefundsInFull ==
    ASSUME EInv, NEW e \in Spends, NEW a \in 1 .. MaxAmount, RefundDue(e, 0, a)
    PROVE  a = Amount[e]
<1>1. \A b \in 1 .. MaxAmount : <<e, b>> \in Keys
  BY DEF Keys
<1>2. RefundedSoFar(e) = 0
  <2>1. {b \in 1 .. MaxAmount : rows[<<e, b>>] > 0 /\ reason[<<e, b>>] = "refund"} = {}
    BY <1>1 DEF EInv
  <2> QED BY <2>1, NoSum DEF RefundedSoFar
<1>3. Amount[e] - 0 = Amount[e]
  <2>1. Amount[e] \in 1 .. MaxAmount
    BY SpendKeys
  <2>2. Amount[e] \in Int
    BY <2>1
  <2> QED BY <2>2
<1>4. RefundAmount(e, 0) = Amount[e] - RefundedSoFar(e)
  BY DEF RefundAmount
<1> QED
  BY <1>2, <1>3, <1>4 DEF RefundDue

-----------------------------------------------------------------------------
(* The steps of the ledger.                                                *)

\* Every step of a request is a step of the ledger, or leaves it alone.
LEMMA LedgerSteps == EInv /\ [ExploreNext]_exploreVars => [Next]_vars
<1> SUFFICES ASSUME EInv, [ExploreNext]_exploreVars PROVE [Next]_vars
  OBVIOUS
<1>1. ASSUME NEW t \in Txns, GiveUp(t) PROVE [Next]_vars
  <2>1. CASE txn[t].pc = "idle"
    <3>1. txn' = txn
      BY <1>1, <2>1 DEF GiveUp, EInv, IInv, TypeOK, TxnOK
    <3> QED BY <1>1, <3>1 DEF GiveUp, vars
  <2>2. CASE txn[t].pc # "idle"
    BY <1>1, <2>2 DEF Next, Finish, Abandon
  <2> QED BY <2>1, <2>2
<1>2. ASSUME NEW t \in Txns, Proceed(t) PROVE [Next]_vars
  <2>1. 0 \in 0 .. MaxAmount /\ "failed_generation" \in RefundReasons
    BY CreditsAssumption, ExploreAssumption
  <2>2. ASSUME Undo(t) PROVE [Next]_vars
    <3>1. CASE UNCHANGED ledgerVars
      BY <3>1 DEF ledgerVars, vars
    <3>2. CASE BeginRefund(t, req[t].key, 0, "failed_generation")
      <4>1. req[t].key \in Spends
        BY <2>2 DEF Undo, EInv, ExploreTypeOK, Holds
      <4> QED BY <2>1, <3>2, <4>1 DEF Next
    <3> QED BY <2>2, <3>1, <3>2 DEF Undo
  <2>3. ASSUME ToppedUp(t) \/ Charged(t) \/ LooksFree(t) \/ NotPaid(t) \/ Undone(t)
        PROVE  [Next]_vars
    BY <2>3 DEF ToppedUp, Charged, LooksFree, NotPaid, Undone, Next, Finish
  <2>4. ASSUME \/ MarkFree(t) \/ Deliver(t) \/ Restore(t) \/ Close(t) \/ CloseDeleted(t)
               \/ \E raised \in BOOLEAN : Fails(t, raised)
        PROVE  [Next]_vars
    BY <2>4 DEF MarkFree, Deliver, Restore, Close, CloseDeleted, Fails, ledgerVars, vars
  <2> QED
    BY <1>2, <2>2, <2>3, <2>4 DEF Proceed
<1>3. ASSUME NEW t \in Txns, Hiccup(t) \/ Disconnect(t) \/ Crash(t) PROVE [Next]_vars
  BY <1>1, <1>3 DEF Hiccup, Disconnect, Crash, ledgerVars, vars
<1>4. CASE UNCHANGED exploreVars
  BY <1>4 DEF exploreVars, vars
<1> QED
  BY <1>2, <1>3, <1>4 DEF ExploreNext, TopUp, Open, Delete, Next, ledgerVars, vars

-----------------------------------------------------------------------------
(* What a step of one request leaves alone.                                *)

\* Request t works on exploration e, and on nothing else.
Local(t, e) ==
    /\ \A s \in Txns \ {t} : req'[s] = req[s] /\ txn'[s] = txn[s]
    /\ \A f \in Spends \ {e} :
          /\ exp'[f] = exp[f]
          /\ rows'[<<f, 0>>] = rows[<<f, 0>>]
          /\ rows'[<<f, Amount[f]>>] = rows[<<f, Amount[f]>>]
          /\ (f \in free') = (f \in free)
          /\ (f \in restored') = (f \in restored)
          /\ (f \in cut') = (f \in cut)
    /\ req[t].key \in {e, NoKey} /\ req'[t].key \in {e, NoKey}
    /\ \A s \in Txns \ {t} : req[s].key # e \/ e = NoKey

LEMMA Frame ==
    ASSUME EInv, NEW t \in Txns, NEW e \in Spends \union {NoKey}, Local(t, e),
           ExploreTypeOK'
    PROVE  /\ OneRequestEach'
           /\ \A s \in Txns \ {t} : Calls(s)' /\ Holds(s)'
           /\ \A f \in Spends \ {e} : Fine(f)'
<1>1. OneRequestEach'
  BY DEF EInv, OneRequestEach, Local
<1>2. ASSUME NEW s \in Txns \ {t} PROVE Calls(s)' /\ Holds(s)'
  <2>1. req'[s] = req[s] /\ txn'[s] = txn[s] /\ Calls(s) /\ Holds(s)
    BY <1>2 DEF Local, EInv
  <2>2. CASE req[s].key = NoKey
    <3>1. req[s].key \notin Spends
      BY <2>2, ExploreAssumption
    <3>2. req[s].at \in {"idle", "topup"}
      BY <2>1, <2>2 DEF Holds
    <3> QED BY <2>1, <2>2, <3>1, <3>2 DEF Calls, Holds, Starting
  <2>3. CASE req[s].key # NoKey
    <3>1. req[s].key \in Spends \ {e}
      BY <2>3 DEF Local, EInv, ExploreTypeOK
    <3> DEFINE f == req[s].key
    <3>2. /\ exp'[f] = exp[f]
          /\ rows'[<<f, 0>>] = rows[<<f, 0>>]
          /\ rows'[<<f, Amount[f]>>] = rows[<<f, Amount[f]>>]
          /\ (f \in free') = (f \in free)
          /\ (f \in restored') = (f \in restored)
      BY <3>1 DEF Local
    <3>3. Calls(s)'
      BY <2>1 DEF Calls
    <3>4. Holds(s)'
      BY <2>1, <3>2 DEF Holds, Starting
    <3> QED BY <3>3, <3>4
  <2> QED BY <2>2, <2>3
<1>3. ASSUME NEW f \in Spends \ {e} PROVE Fine(f)'
  <2>1. Fine(f)
    BY DEF EInv
  <2>2. Live(f)' = Live(f)
    BY ExploreAssumption DEF Local, Live
  <2>3. Paid(f)' = Paid(f)
    BY DEF Local, Paid
  <2> QED BY <2>1, <2>2, <2>3 DEF Fine, Local
<1> QED
  BY <1>1, <1>2, <1>3

-----------------------------------------------------------------------------
(* Types.                                                                  *)

Steps == {"idle", "topup", "paying", "freeing", "running", "undo", "undoing", "close"}
Requests == [at : Steps, key : Spends \union {NoKey}, mayFree : BOOLEAN, charged : BOOLEAN,
             again : BOOLEAN]

\* The parts of ExploreTypeOK that are not the ledger's.
OwnTypes ==
    /\ freeUsed \in [Users -> BOOLEAN]
    /\ exp \in [Spends -> {"none", "running", "done", "failed", "deleted"}]
    /\ free \subseteq Spends
    /\ req \in [Txns -> Requests]
    /\ restored \subseteq free
    /\ strays \in [Users -> Nat]
    /\ cut \subseteq Spends

LEMMA TypesSplit == ExploreTypeOK <=> TypeOK /\ OwnTypes
BY DEF ExploreTypeOK, OwnTypes, Requests, Steps

\* A request at work has an exploration.
LEMMA AtWork ==
    ASSUME EInv, NEW t \in Txns, req[t].at \notin {"idle", "topup"}
    PROVE  /\ req[t].key \in Spends /\ UserOf(t) \in Users /\ Holds(t) /\ Calls(t)
           /\ \A s \in Txns \ {t} : req[s].key # req[t].key
<1>1. Holds(t) /\ Calls(t)
  BY DEF EInv
<1>2. req[t].key \in Spends
  BY <1>1 DEF EInv, ExploreTypeOK, Holds
<1>3. \A s \in Txns \ {t} : req[s].key # req[t].key
  BY <1>2, ExploreAssumption DEF EInv, OneRequestEach
<1> QED
  BY <1>1, <1>2, <1>3, SpendKeys DEF UserOf

LEMMA ReqTyped ==
    ASSUME OwnTypes, NEW t \in Txns
    PROVE  /\ \A at \in Steps : GoTo(t, at) => req' \in [Txns -> Requests]
           /\ Reply(t) => req' \in [Txns -> Requests]
<1>1. NoReq \in Requests
  BY DEF NoReq, Requests, Steps
<1>2. ASSUME NEW at \in Steps, GoTo(t, at) PROVE req' \in [Txns -> Requests]
  BY <1>2 DEF GoTo, OwnTypes, Requests
<1>3. ASSUME Reply(t) PROVE req' \in [Txns -> Requests]
  BY <1>1, <1>3 DEF Reply, OwnTypes
<1> QED
  BY <1>2, <1>3

LEMMA BreakTyped ==
    ASSUME OwnTypes, NEW t \in Txns, BreakOff(t) \/ TryAgain(t),
           UNCHANGED <<freeUsed, exp, free>>
    PROVE  OwnTypes'
<1>1. ASSUME BreakOff(t) PROVE OwnTypes'
  BY <1>1, ReqTyped DEF BreakOff, OwnTypes
<1>2. ASSUME ~BreakOff(t) PROVE OwnTypes'
  <2>1. req' = [req EXCEPT ![t].at = "undo", ![t].again = TRUE] /\ UNCHANGED ghosts
    BY <1>2 DEF TryAgain
  <2>2. [req[t] EXCEPT !.at = "undo", !.again = TRUE] \in Requests
    BY DEF OwnTypes, Requests, Steps
  <2>3. req' = [req EXCEPT ![t] = [req[t] EXCEPT !.at = "undo", !.again = TRUE]]
    BY <2>1
  <2>4. req' \in [Txns -> Requests]
    BY <2>2, <2>3 DEF OwnTypes
  <2> QED BY <2>1, <2>4 DEF OwnTypes, ghosts
<1> QED
  BY <1>1, <1>2

LEMMA TypeStep == EInv /\ [ExploreNext]_exploreVars => IInv' /\ ExploreTypeOK'
<1> SUFFICES ASSUME EInv, [ExploreNext]_exploreVars PROVE IInv' /\ OwnTypes'
  BY DEF IInv, ExploreTypeOK, OwnTypes, Requests, Steps
<1>1. IInv'
  BY LedgerSteps, InvStep DEF EInv
<1>2. OwnTypes
  BY TypesSplit DEF EInv
<1>3. ASSUME NEW t \in Txns, NEW k \in Grants, TopUp(t, k) PROVE OwnTypes'
  BY <1>2, <1>3, ReqTyped DEF TopUp, OwnTypes, ghosts, Steps
<1>4. ASSUME NEW t \in Txns, NEW e \in Spends, Open(t, e) PROVE OwnTypes'
  <2>1. (credits[Owner[e]] = 0 /\ ~freeUsed[Owner[e]]) \in BOOLEAN
    OBVIOUS
  <2>2. req' \in [Txns -> Requests]
    BY <1>2, <1>4, <2>1 DEF Open, OwnTypes, Requests, Steps
  <2>3. exp' \in [Spends -> {"none", "running", "done", "failed", "deleted"}]
    BY <1>2, <1>4 DEF Open, OwnTypes
  <2> QED BY <1>2, <1>4, <2>2, <2>3 DEF Open, OwnTypes, ghosts
<1>5. ASSUME NEW t \in Txns, ToppedUp(t) \/ LooksFree(t) \/ Undone(t) PROVE OwnTypes'
  BY <1>2, <1>5, ReqTyped DEF ToppedUp, LooksFree, Undone, OwnTypes, ghosts, Steps
<1>6. ASSUME NEW t \in Txns, Charged(t) PROVE OwnTypes'
  <2>1. req' \in [Txns -> Requests]
    BY ZenonT(40), <1>2, <1>6 DEF Charged, OwnTypes, Requests, Steps
  <2> QED BY <1>2, <1>6, <2>1 DEF Charged, OwnTypes, ghosts
<1>7. ASSUME NEW t \in Txns, NotPaid(t) \/ Deliver(t) \/ Close(t) PROVE OwnTypes'
  <2>1. exp' \in [Spends -> {"none", "running", "done", "failed", "deleted"}]
    BY <1>2, <1>7 DEF NotPaid, Deliver, Close, SetStatus, OwnTypes
  <2> QED BY <1>2, <1>7, <2>1, ReqTyped DEF NotPaid, Deliver, Close, OwnTypes, ghosts
<1>8. ASSUME NEW t \in Txns, MarkFree(t) PROVE OwnTypes'
  <2>1. req[t].key \in Spends /\ UserOf(t) \in Users
    BY <1>8, AtWork DEF MarkFree
  <2>2. strays' \in [Users -> Nat] /\ freeUsed' \in [Users -> BOOLEAN]
    BY <1>2, <1>8, <2>1 DEF MarkFree, Stray, OwnTypes
  <2> QED BY <1>2, <1>8, <2>1, <2>2, ReqTyped DEF MarkFree, OwnTypes, Steps
<1>9. ASSUME NEW t \in Txns, NEW raised \in BOOLEAN, Fails(t, raised) PROVE OwnTypes'
  <2> DEFINE r == [req[t] EXCEPT !.at = "undo", !.again = raised]
  <2>1. req[t] \in Requests /\ req \in [Txns -> Requests]
    BY <1>2, <1>9 DEF OwnTypes
  <2>2. r \in Requests
    BY <2>1 DEF Requests, Steps
  <2>3. req' = [req EXCEPT ![t] = r]
    BY <1>9, <2>1 DEF Fails, Requests
  <2> HIDE DEF r
  <2>4. req' \in [Txns -> Requests]
    BY <2>1, <2>2, <2>3
  <2> QED BY <1>2, <1>9, <2>4 DEF Fails, OwnTypes, ghosts
<1>10. ASSUME NEW t \in Txns, Undo(t) PROVE OwnTypes'
  BY <1>2, <1>10, ReqTyped DEF Undo, OwnTypes, ghosts, Steps
<1>11. ASSUME NEW t \in Txns, Restore(t) PROVE OwnTypes'
  <2>1. req[t].key \in free /\ UserOf(t) \in Users
    BY <1>11, AtWork DEF Restore, Holds
  <2>2. strays' \in [Users -> Nat] /\ freeUsed' \in [Users -> BOOLEAN]
    BY <1>2, <1>11, <2>1 DEF Restore, Stray, OwnTypes
  <2> QED BY <1>2, <1>11, <2>1, <2>2, ReqTyped DEF Restore, OwnTypes, Steps
<1>12. ASSUME NEW t \in Txns, CloseDeleted(t) \/ Hiccup(t) \/ Disconnect(t) \/ Crash(t)
       PROVE OwnTypes'
  BY <1>2, <1>12, BreakTyped DEF CloseDeleted, Hiccup, Disconnect, Crash
<1>13. ASSUME NEW e \in Spends, Delete(e) PROVE OwnTypes'
  BY <1>2, <1>13 DEF Delete, OwnTypes, ghosts
<1>14. CASE UNCHANGED exploreVars
  <2>1. UNCHANGED <<freeUsed, exp, free, req, restored, strays, cut>>
    BY <1>14 DEF exploreVars, ghosts
  <2> QED BY <1>1, <1>2, <2>1 DEF OwnTypes
<1> QED
  BY <1>1, <1>3, <1>4, <1>5, <1>6, <1>7, <1>8, <1>9, <1>10, <1>11, <1>12, <1>13, <1>14
     DEF ExploreNext, Proceed

-----------------------------------------------------------------------------
(* One lemma for each step of a request.                                   *)

Reasons == \A p \in Keys : reason[p] \in {"none", "failed_generation"}

\* What is to be shown of a step of request t on exploration e.
Right(t, e) ==
    /\ Local(t, e)
    /\ Reasons' /\ Calls(t)' /\ Holds(t)'
    /\ e \in Spends => Fine(e)'

\* Steps that write no row of the ledger.
LEMMA Quiet ==
    ASSUME EInv, NEW t \in Txns,
           \/ GiveUp(t) \/ UNCHANGED ledgerVars
           \/ \E pc, p, r : Begin(t, pc, p, r)
    PROVE  /\ rows' = rows /\ Reasons'
           /\ \A s \in Txns \ {t} : txn'[s] = txn[s]
<1>1. reason' = reason /\ rows' = rows
  BY DEF GiveUp, Begin, ledgerVars
<1>2. \A s \in Txns \ {t} : txn'[s] = txn[s]
  BY DEF GiveUp, Begin, ledgerVars, EInv, IInv, TypeOK
<1> QED
  BY <1>1, <1>2 DEF Reasons, EInv

\* Steps that write one.
LEMMA Booked ==
    ASSUME EInv, NEW t \in Txns, Book(t), txn[t].key \in Keys
    PROVE  /\ Reasons' /\ txn'[t] = NoTxn
           /\ \A s \in Txns \ {t} : txn'[s] = txn[s]
           /\ \A p \in Keys \ {txn[t].key} : rows'[p] = rows[p]
           /\ rows'[txn[t].key] > 0
<1> DEFINE p == txn[t].key
<1>1. /\ rows \in [Keys -> Nat] /\ reason \in [Keys -> RefundReasons \union {"none"}]
      /\ txn[t].reason \in {"none", "failed_generation"} /\ Reasons
      /\ txn \in [Txns -> [pc : {"idle", "spend", "grant", "refund"},
                           key : Keys \union {NoKey},
                           reason : RefundReasons \union {"none"}]]
  BY DEF EInv, IInv, TypeOK, Calls, Reasons
<1>2. /\ rows' = [rows EXCEPT ![p] = @ + 1] /\ reason' = [reason EXCEPT ![p] = txn[t].reason]
      /\ txn' = [txn EXCEPT ![t] = NoTxn]
  BY DEF Book
<1>3. rows'[p] = rows[p] + 1 /\ rows[p] \in Nat
  BY <1>1, <1>2
<1>4. Reasons'
  BY <1>1, <1>2 DEF Reasons
<1> QED
  BY <1>1, <1>2, <1>3, <1>4

\* What a request does to its own exploration alone is local.
LEMMA LocalSteps ==
    ASSUME EInv, NEW t \in Txns, NEW e, e = req[t].key,
           req[t].at \notin {"idle", "topup"},
           \A s \in Txns \ {t} : req'[s] = req[s] /\ txn'[s] = txn[s],
           req'[t].key \in {e, NoKey},
           \A f \in Spends \ {e} :
              /\ exp'[f] = exp[f]
              /\ rows'[<<f, 0>>] = rows[<<f, 0>>]
              /\ rows'[<<f, Amount[f]>>] = rows[<<f, Amount[f]>>]
              /\ (f \in free') = (f \in free)
              /\ (f \in restored') = (f \in restored)
              /\ (f \in cut') = (f \in cut)
    PROVE  Local(t, e)
BY AtWork DEF Local

LEMMA TopUpRight ==
    ASSUME EInv, ExploreTypeOK', NEW t \in Txns, NEW k \in Grants, TopUp(t, k)
    PROVE  Right(t, NoKey)
<1>1. req[t].key = NoKey
  BY DEF TopUp, EInv, Holds
<1>2. req' = [req EXCEPT ![t].at = "topup"] /\ txn'[t] = [pc |-> "grant", key |-> <<k, 0>>, reason |-> "none"]
  BY DEF TopUp, GoTo, BeginGrant, Begin, EInv, IInv, TypeOK
<1>3. req'[t].at = "topup" /\ req'[t].key = NoKey /\ \A s \in Txns \ {t} : req'[s] = req[s]
  BY <1>1, <1>2 DEF EInv, ExploreTypeOK
<1>4. rows' = rows /\ Reasons' /\ \A s \in Txns \ {t} : txn'[s] = txn[s]
  BY Quiet DEF TopUp, BeginGrant
<1>5. UNCHANGED <<exp, free, restored, cut>>
  BY DEF TopUp, ghosts
<1>6. Local(t, NoKey)
  BY <1>1, <1>3, <1>4, <1>5 DEF Local
<1>7. Calls(t)'
  BY <1>2, <1>3 DEF Calls
<1>8. Holds(t)'
  BY <1>3, ExploreAssumption DEF Holds, Starting
<1> QED
  BY <1>4, <1>6, <1>7, <1>8, ExploreAssumption DEF Right

LEMMA ToppedUpRight ==
    ASSUME EInv, ExploreTypeOK', NEW t \in Txns, ToppedUp(t)
    PROVE  Right(t, NoKey)
<1>1. /\ req[t].key = NoKey /\ txn[t].pc = "grant" /\ txn[t].key \in Grants \X {0}
      /\ req[t].at = "topup"
  BY DEF ToppedUp, EInv, Holds, Calls
<1>2. req'[t] = NoReq /\ \A s \in Txns \ {t} : req'[s] = req[s]
  BY DEF ToppedUp, Reply, EInv, ExploreTypeOK
<1>3. /\ \A e \in Spends : /\ rows'[<<e, 0>>] = rows[<<e, 0>>]
                             /\ rows'[<<e, Amount[e]>>] = rows[<<e, Amount[e]>>]
      /\ Reasons' /\ \A s \in Txns \ {t} : txn'[s] = txn[s]
      /\ txn'[t] = NoTxn
  <2>1. CASE Book(t)
    BY <1>1, <2>1, Booked, SpendKeys
  <2>2. CASE GiveUp(t)
    BY <2>2, Quiet DEF GiveUp, EInv, IInv, TypeOK
  <2> QED BY <2>1, <2>2 DEF ToppedUp, AddGrant, AddGrantDuplicate
<1>4. UNCHANGED <<exp, free, restored, cut>>
  BY DEF ToppedUp, ghosts
<1>5. Local(t, NoKey)
  BY <1>1, <1>2, <1>3, <1>4 DEF Local, NoReq
<1>6. Calls(t)' /\ Holds(t)'
  BY <1>2, <1>3, ExploreAssumption DEF Calls, Holds, NoReq, NoTxn, Starting
<1> QED
  BY <1>3, <1>5, <1>6, ExploreAssumption DEF Right

\* An exploration of which the request goes on, or has ended.
LEMMA StillLive ==
    ASSUME NEW t \in Txns, NEW e \in Spends, req'[t].key = e,
           exp'[e] \in {"running", "deleted"}
    PROVE  Fine(e)'
BY DEF Fine, Live

LEMMA Ended ==
    ASSUME EInv, NEW t \in Txns, NEW e, e = req[t].key,
           req[t].at \notin {"idle", "topup"}, Reply(t)
    PROVE  /\ ~Live(e)' /\ req'[t] = NoReq
           /\ \A s \in Txns \ {t} : req'[s] = req[s]
<1>1. req'[t] = NoReq /\ \A s \in Txns \ {t} : req'[s] = req[s]
  BY DEF Reply, EInv, ExploreTypeOK
<1>2. /\ e \in Spends /\ \A s \in Txns \ {t} : req[s].key # e
  BY AtWork
<1> QED
  BY <1>1, <1>2, ExploreAssumption DEF Live, NoReq

LEMMA OpenRight ==
    ASSUME EInv, ExploreTypeOK', NEW t \in Txns, NEW e \in Spends, Open(t, e)
    PROVE  Right(t, e)
<1>1. req[t].key = NoKey /\ exp[e] = "none" /\ Fine(e)
  BY DEF Open, EInv, Holds
<1>2. /\ req'[t].at = "paying" /\ req'[t].key = e /\ ~req'[t].charged
      /\ \A s \in Txns \ {t} : req'[s] = req[s]
  BY DEF Open, EInv, ExploreTypeOK
<1>3. txn'[t] = [pc |-> "spend", key |-> <<e, 0>>, reason |-> "none"]
  BY DEF Open, BeginSpend, Begin, EInv, IInv, TypeOK
<1>4. rows' = rows /\ Reasons' /\ \A s \in Txns \ {t} : txn'[s] = txn[s]
  BY Quiet DEF Open, BeginSpend
<1>5. /\ UNCHANGED <<free, restored, cut>> /\ exp'[e] = "running"
      /\ \A f \in Spends \ {e} : exp'[f] = exp[f]
  BY DEF Open, ghosts, EInv, ExploreTypeOK
<1>6. rows[<<e, 0>>] = 0 /\ rows[<<e, Amount[e]>>] = 0 /\ e \notin free /\ ~Live(e)
  BY <1>1 DEF Fine
<1>7. Local(t, e)
  BY <1>1, <1>2, <1>4, <1>5, <1>6 DEF Local, Live
<1>8. Calls(t)'
  BY <1>2, <1>3 DEF Calls
<1>9. Holds(t)'
  BY <1>2, <1>4, <1>5, <1>6, ExploreAssumption DEF Holds, Starting
<1> QED
  BY <1>2, <1>4, <1>5, <1>7, <1>8, <1>9, StillLive DEF Right

LEMMA ChargedRight ==
    ASSUME EInv, ExploreTypeOK', NEW t \in Txns, NEW e, e = req[t].key,
           Charged(t)
    PROVE  Right(t, e)
<1>1. /\ req[t].at = "paying" /\ e \in Spends /\ Holds(t) /\ Calls(t)
      /\ txn[t].key = <<e, 0>> /\ exp[e] = "running" /\ e \notin free
  BY AtWork DEF Charged, Holds, Calls, Starting
<1>2. Fine(e) /\ \A s \in Txns \ {t} : req[s].key # e
  BY <1>1, AtWork DEF EInv
<1>3. /\ req'[t].at = "running" /\ req'[t].charged /\ req'[t].key = e
      /\ \A s \in Txns \ {t} : req'[s] = req[s]
  BY DEF Charged, EInv, ExploreTypeOK
<1>4. /\ Reasons' /\ txn'[t] = NoTxn /\ \A s \in Txns \ {t} : txn'[s] = txn[s]
      /\ \A p \in Keys \ {<<e, 0>>} : rows'[p] = rows[p]
      /\ rows'[<<e, 0>>] > 0
  BY <1>1, Booked, SpendKeys DEF Charged, Charge
<1>5. UNCHANGED <<exp, free, restored, cut>>
  BY DEF Charged, ghosts
<1>6. \A f \in Spends \ {e} : /\ rows'[<<f, 0>>] = rows[<<f, 0>>]
                              /\ rows'[<<f, Amount[f]>>] = rows[<<f, Amount[f]>>]
  BY <1>4, SpendKeys
<1>7. Local(t, e)
  BY <1>1, <1>2, <1>3, <1>4, <1>5, <1>6 DEF Local
<1>8. Calls(t)'
  BY <1>3, <1>4 DEF Calls, NoTxn
<1>9. rows'[<<e, Amount[e]>>] = 0
  BY <1>1, <1>4, SpendKeys DEF Holds, Starting
<1>10. e \notin restored
  BY <1>1 DEF EInv, ExploreTypeOK
<1>11. Holds(t)'
  BY <1>1, <1>3, <1>4, <1>5, <1>9, <1>10, ExploreAssumption DEF Holds, Starting
<1> QED
  BY <1>1, <1>3, <1>4, <1>5, <1>7, <1>8, <1>11, StillLive DEF Right

LEMMA LooksFreeRight ==
    ASSUME EInv, ExploreTypeOK', NEW t \in Txns, NEW e, e = req[t].key,
           LooksFree(t)
    PROVE  Right(t, e)
<1>1. /\ req[t].at = "paying" /\ e \in Spends /\ Holds(t) /\ Calls(t) /\ exp[e] = "running"
      /\ ~req[t].charged /\ rows[<<e, 0>>] = 0 /\ rows[<<e, Amount[e]>>] = 0 /\ e \notin free
  BY AtWork DEF LooksFree, Holds, Starting
<1>2. /\ req'[t].at = "freeing" /\ req'[t].charged = req[t].charged /\ req'[t].key = e
      /\ \A s \in Txns \ {t} : req'[s] = req[s]
  BY DEF LooksFree, GoTo, EInv, ExploreTypeOK
<1>3. rows' = rows /\ Reasons' /\ \A s \in Txns \ {t} : txn'[s] = txn[s]
  BY Quiet DEF LooksFree, ChargeRefused
<1>4. txn'[t] = NoTxn
  BY DEF LooksFree, ChargeRefused, GiveUp, EInv, IInv, TypeOK
<1>5. UNCHANGED <<exp, free, restored, cut>>
  BY DEF LooksFree, ghosts
<1>6. Local(t, e)
  BY <1>1, <1>2, <1>3, <1>5, LocalSteps
<1>7. Calls(t)'
  BY <1>2, <1>4 DEF Calls, NoTxn
<1>8. Holds(t)'
  BY <1>1, <1>2, <1>3, <1>5, ExploreAssumption DEF Holds, Starting
<1> QED
  BY <1>1, <1>2, <1>3, <1>5, <1>6, <1>7, <1>8, StillLive DEF Right

LEMMA NotPaidRight ==
    ASSUME EInv, ExploreTypeOK', NEW t \in Txns, NEW e, e = req[t].key,
           NotPaid(t)
    PROVE  Right(t, e)
<1>1. /\ req[t].at = "paying" /\ e \in Spends /\ exp[e] = "running" /\ rows[<<e, 0>>] = 0
  BY AtWork DEF NotPaid, Holds, Starting
<1>2. /\ ~Live(e)' /\ req'[t] = NoReq /\ \A s \in Txns \ {t} : req'[s] = req[s]
  BY <1>1, Ended DEF NotPaid
<1>3. rows' = rows /\ Reasons' /\ \A s \in Txns \ {t} : txn'[s] = txn[s]
  BY Quiet DEF NotPaid, ChargeRefused
<1>4. txn'[t] = NoTxn
  BY DEF NotPaid, ChargeRefused, GiveUp, EInv, IInv, TypeOK
<1>5. /\ UNCHANGED <<free, restored, cut>> /\ exp'[e] = "failed"
      /\ \A f \in Spends \ {e} : exp'[f] = exp[f]
  BY <1>1 DEF NotPaid, SetStatus, ghosts, EInv, ExploreTypeOK
<1>6. Local(t, e)
  BY <1>1, <1>2, <1>3, <1>5, LocalSteps DEF NoReq
<1>7. Calls(t)' /\ Holds(t)'
  BY <1>2, <1>4, ExploreAssumption DEF Calls, Holds, Starting, NoReq, NoTxn
<1>8. Fine(e)'
  BY <1>1, <1>2, <1>3, <1>5 DEF Fine, Paid
<1> QED
  BY <1>3, <1>6, <1>7, <1>8 DEF Right

LEMMA MarkFreeRight ==
    ASSUME EInv, ExploreTypeOK', NEW t \in Txns, NEW e, e = req[t].key,
           MarkFree(t)
    PROVE  Right(t, e)
<1>1. /\ req[t].at = "freeing" /\ e \in Spends /\ Holds(t) /\ Calls(t) /\ exp[e] = "running"
      /\ ~req[t].charged /\ rows[<<e, 0>>] = 0 /\ rows[<<e, Amount[e]>>] = 0 /\ e \notin free
  BY AtWork DEF MarkFree, Holds, Starting
<1>2. /\ req'[t].at = "running" /\ req'[t].charged = req[t].charged /\ req'[t].key = e
      /\ \A s \in Txns \ {t} : req'[s] = req[s]
  BY DEF MarkFree, GoTo, EInv, ExploreTypeOK
<1>3. rows' = rows /\ Reasons' /\ txn' = txn
  BY Quiet DEF MarkFree, ledgerVars
<1>4. UNCHANGED <<exp, restored, cut>> /\ free' = free \union {e} /\ e \notin restored
  BY <1>1 DEF MarkFree, Stray, EInv, ExploreTypeOK
<1>5. Local(t, e)
  BY <1>1, <1>2, <1>3, <1>4, LocalSteps
<1>6. Calls(t)'
  BY <1>1, <1>2, <1>3 DEF Calls
<1>7. Holds(t)'
  BY <1>1, <1>2, <1>3, <1>4, ExploreAssumption DEF Holds, Starting
<1> QED
  BY <1>1, <1>2, <1>3, <1>4, <1>5, <1>6, <1>7, StillLive DEF Right

LEMMA DeliverRight ==
    ASSUME EInv, ExploreTypeOK', NEW t \in Txns, NEW e, e = req[t].key,
           Deliver(t)
    PROVE  Right(t, e)
<1>1. /\ req[t].at = "running" /\ e \in Spends /\ exp[e] = "running" /\ Holds(t) /\ Calls(t)
  BY AtWork DEF Deliver
<1>2. /\ ~Live(e)' /\ req'[t] = NoReq /\ \A s \in Txns \ {t} : req'[s] = req[s]
  BY <1>1, Ended DEF Deliver
<1>3. rows' = rows /\ Reasons' /\ txn' = txn
  BY Quiet DEF Deliver, ledgerVars
<1>4. /\ UNCHANGED <<free, restored, cut>> /\ exp'[e] = "done"
      /\ \A f \in Spends \ {e} : exp'[f] = exp[f]
  BY <1>1 DEF Deliver, SetStatus, ghosts, EInv, ExploreTypeOK
<1>5. Local(t, e)
  BY <1>1, <1>2, <1>3, <1>4, LocalSteps DEF NoReq
<1>6. Calls(t)' /\ Holds(t)'
  BY <1>1, <1>2, <1>3, ExploreAssumption DEF Calls, Holds, Starting, NoReq
<1>7. (Paid(e) \/ e \in free) /\ e \notin restored
  BY <1>1 DEF Holds, Paid
<1>8. Fine(e)'
  BY <1>2, <1>3, <1>4, <1>7 DEF Fine, Paid
<1> QED
  BY <1>3, <1>5, <1>6, <1>8 DEF Right

LEMMA FailsRight ==
    ASSUME EInv, ExploreTypeOK', NEW t \in Txns, NEW e, e = req[t].key,
           NEW raised \in BOOLEAN, Fails(t, raised)
    PROVE  Right(t, e)
<1>1. /\ req[t].at = "running" /\ e \in Spends /\ Holds(t) /\ Calls(t)
      /\ exp[e] \in {"running", "deleted"}
  BY AtWork DEF Fails, Holds
<1>2. /\ req'[t].at = "undo" /\ req'[t].charged = req[t].charged /\ req'[t].key = e
      /\ \A s \in Txns \ {t} : req'[s] = req[s]
  BY DEF Fails, EInv, ExploreTypeOK
<1>3. rows' = rows /\ Reasons' /\ txn' = txn
  BY Quiet DEF Fails, ledgerVars
<1>4. UNCHANGED <<exp, free, restored, cut>>
  BY DEF Fails, ghosts
<1>5. Local(t, e)
  BY <1>1, <1>2, <1>3, <1>4, LocalSteps
<1>6. Calls(t)' /\ Holds(t)'
  BY <1>1, <1>2, <1>3, <1>4, ExploreAssumption DEF Calls, Holds, Starting
<1> QED
  BY <1>1, <1>2, <1>3, <1>4, <1>5, <1>6, StillLive DEF Right

LEMMA UndoRight ==
    ASSUME EInv, ExploreTypeOK', NEW t \in Txns, NEW e, e = req[t].key,
           Undo(t)
    PROVE  Right(t, e)
<1>1. /\ req[t].at = "undo" /\ req[t].charged /\ e \in Spends /\ Holds(t) /\ Calls(t)
      /\ exp[e] \in {"running", "deleted"} /\ rows[<<e, 0>>] > 0 /\ e \notin free
  BY AtWork DEF Undo, Holds
<1>2. UNCHANGED <<exp, free, restored, cut>>
  BY DEF Undo, ghosts
<1>3. CASE BeginRefund(t, e, 0, "failed_generation") /\ GoTo(t, "undoing")
  <2>1. PICK a \in 1 .. MaxAmount :
           RefundDue(e, 0, a) /\ Begin(t, "refund", <<e, a>>, "failed_generation")
    BY <1>3 DEF BeginRefund
  <2>2. a = Amount[e]
    BY <1>1, <2>1, RefundsInFull
  <2>3. txn'[t] = [pc |-> "refund", key |-> <<e, Amount[e]>>, reason |-> "failed_generation"]
    BY <2>1, <2>2 DEF Begin, EInv, IInv, TypeOK
  <2>4. rows' = rows /\ Reasons' /\ \A s \in Txns \ {t} : txn'[s] = txn[s]
    BY <2>1, Quiet
  <2>5. /\ req'[t].at = "undoing" /\ req'[t].charged = req[t].charged /\ req'[t].key = e
        /\ \A s \in Txns \ {t} : req'[s] = req[s]
    BY <1>3 DEF GoTo, EInv, ExploreTypeOK
  <2>6. Local(t, e)
    BY <1>1, <1>2, <2>4, <2>5, LocalSteps
  <2>7. Calls(t)'
    BY <2>3, <2>5 DEF Calls
  <2>8. Holds(t)'
    BY <1>1, <1>2, <2>4, <2>5, ExploreAssumption DEF Holds, Starting
  <2> QED
    BY <1>1, <1>2, <2>4, <2>5, <2>6, <2>7, <2>8, StillLive DEF Right
<1>4. CASE rows[<<e, Amount[e]>>] > 0 /\ GoTo(t, "close") /\ UNCHANGED ledgerVars
  <2>1. rows' = rows /\ Reasons' /\ txn' = txn
    BY <1>4, Quiet DEF ledgerVars
  <2>2. /\ req'[t].at = "close" /\ req'[t].charged = req[t].charged /\ req'[t].key = e
        /\ \A s \in Txns \ {t} : req'[s] = req[s]
    BY <1>4 DEF GoTo, EInv, ExploreTypeOK
  <2>3. Local(t, e)
    BY <1>1, <1>2, <2>1, <2>2, LocalSteps
  <2>4. Calls(t)' /\ Holds(t)'
    BY <1>1, <1>2, <1>4, <2>1, <2>2, ExploreAssumption DEF Calls, Holds, Starting
  <2> QED
    BY <1>1, <1>2, <2>1, <2>2, <2>3, <2>4, StillLive DEF Right
<1> QED
  BY <1>3, <1>4 DEF Undo

LEMMA UndoneRight ==
    ASSUME EInv, ExploreTypeOK', NEW t \in Txns, NEW e, e = req[t].key,
           Undone(t)
    PROVE  Right(t, e)
<1>1. /\ req[t].at = "undoing" /\ req[t].charged /\ e \in Spends /\ Holds(t) /\ Calls(t)
      /\ txn[t].key = <<e, Amount[e]>> /\ exp[e] \in {"running", "deleted"}
      /\ rows[<<e, 0>>] > 0 /\ e \notin free
  BY AtWork DEF Undone, Holds, Calls
<1>2. \A s \in Txns \ {t} : req[s].key # e
  BY <1>1, AtWork
<1>3. /\ req'[t].at = "close" /\ req'[t].charged /\ req'[t].key = e
      /\ \A s \in Txns \ {t} : req'[s] = req[s]
  BY <1>1 DEF Undone, GoTo, EInv, ExploreTypeOK
<1>4. /\ Reasons' /\ txn'[t] = NoTxn /\ \A s \in Txns \ {t} : txn'[s] = txn[s]
      /\ \A p \in Keys \ {<<e, Amount[e]>>} : rows'[p] = rows[p]
      /\ rows'[<<e, Amount[e]>>] > 0
  BY <1>1, Booked, SpendKeys DEF Undone, PayRefund
<1>5. UNCHANGED <<exp, free, restored, cut>>
  BY DEF Undone, ghosts
<1>6. rows'[<<e, 0>>] = rows[<<e, 0>>]
  <2>1. Amount[e] # 0
    BY <1>1, ExploreAssumption
  <2> QED BY <1>1, <1>4, <2>1, SpendKeys
<1>7. \A f \in Spends \ {e} : /\ rows'[<<f, 0>>] = rows[<<f, 0>>]
                              /\ rows'[<<f, Amount[f]>>] = rows[<<f, Amount[f]>>]
  BY <1>4, SpendKeys
<1>8. Local(t, e)
  BY <1>1, <1>2, <1>3, <1>4, <1>5, <1>7 DEF Local
<1>9. Calls(t)' /\ Holds(t)'
  BY <1>1, <1>3, <1>4, <1>5, <1>6, ExploreAssumption DEF Calls, Holds, NoTxn, Starting
<1> QED
  BY <1>1, <1>3, <1>4, <1>5, <1>8, <1>9, StillLive DEF Right

LEMMA RestoreRight ==
    ASSUME EInv, ExploreTypeOK', NEW t \in Txns, NEW e, e = req[t].key,
           Restore(t)
    PROVE  Right(t, e)
<1>1. /\ req[t].at = "undo" /\ ~req[t].charged /\ e \in Spends /\ Holds(t) /\ Calls(t)
      /\ exp[e] \in {"running", "deleted"} /\ rows[<<e, 0>>] = 0 /\ e \in free
  BY AtWork DEF Restore, Holds
<1>2. /\ req'[t].at = "close" /\ req'[t].charged = req[t].charged /\ req'[t].key = e
      /\ \A s \in Txns \ {t} : req'[s] = req[s]
  BY DEF Restore, GoTo, EInv, ExploreTypeOK
<1>3. rows' = rows /\ Reasons' /\ txn' = txn
  BY Quiet DEF Restore, ledgerVars
<1>4. UNCHANGED <<exp, free, cut>> /\ restored' = restored \union {e}
  BY DEF Restore, Stray
<1>5. Local(t, e)
  BY <1>1, <1>2, <1>3, <1>4, LocalSteps
<1>6. Calls(t)' /\ Holds(t)'
  BY <1>1, <1>2, <1>3, <1>4, ExploreAssumption DEF Calls, Holds, Starting
<1> QED
  BY <1>1, <1>2, <1>3, <1>4, <1>5, <1>6, StillLive DEF Right

LEMMA CloseRight ==
    ASSUME EInv, ExploreTypeOK', NEW t \in Txns, NEW e, e = req[t].key,
           Close(t)
    PROVE  Right(t, e)
<1>1. /\ req[t].at = "close" /\ e \in Spends /\ exp[e] = "running" /\ Holds(t) /\ Calls(t)
      /\ ~Paid(e)
  BY AtWork DEF Close, Holds, Paid
<1>2. /\ ~Live(e)' /\ req'[t] = NoReq /\ \A s \in Txns \ {t} : req'[s] = req[s]
  BY <1>1, Ended DEF Close
<1>3. rows' = rows /\ Reasons' /\ txn' = txn
  BY Quiet DEF Close, ledgerVars
<1>4. /\ UNCHANGED <<free, restored, cut>> /\ exp'[e] = "failed"
      /\ \A f \in Spends \ {e} : exp'[f] = exp[f]
  BY <1>1 DEF Close, SetStatus, ghosts, EInv, ExploreTypeOK
<1>5. Local(t, e)
  BY <1>1, <1>2, <1>3, <1>4, LocalSteps DEF NoReq
<1>6. Calls(t)' /\ Holds(t)'
  BY <1>1, <1>2, <1>3, ExploreAssumption DEF Calls, Holds, Starting, NoReq
<1>7. Fine(e)'
  BY <1>1, <1>2, <1>3, <1>4 DEF Fine, Paid
<1> QED
  BY <1>3, <1>5, <1>6, <1>7 DEF Right

LEMMA BreakRight ==
    ASSUME EInv, ExploreTypeOK', NEW t \in Txns, NEW e, e = req[t].key,
           BreakOff(t), GiveUp(t) \/ UNCHANGED ledgerVars, UNCHANGED <<exp, free>>
    PROVE  Right(t, e)
<1>1. Holds(t) /\ Calls(t)
  BY DEF EInv
<1>2. req'[t] = NoReq /\ \A s \in Txns \ {t} : req'[s] = req[s]
  BY DEF BreakOff, Reply, EInv, ExploreTypeOK
<1>3. /\ rows' = rows /\ Reasons' /\ \A s \in Txns \ {t} : txn'[s] = txn[s]
      /\ txn'[t] \in {NoTxn, txn[t]}
  BY Quiet DEF GiveUp, ledgerVars, EInv, IInv, TypeOK
<1>4. Calls(t)' /\ Holds(t)'
  BY <1>1, <1>2, <1>3, ExploreAssumption DEF Calls, Holds, Starting, NoReq, NoTxn
<1>5. /\ restored' = restored
      /\ cut' = IF e \in Spends THEN cut \union {e} ELSE cut
  BY DEF BreakOff
<1>6. CASE e = NoKey
  <2>1. Local(t, e)
    BY <1>2, <1>3, <1>5, <1>6, ExploreAssumption DEF Local, NoReq
  <2> QED BY <1>3, <1>4, <1>6, <2>1, ExploreAssumption DEF Right
<1>7. CASE e # NoKey
  <2>1. e \in Spends /\ req[t].at \notin {"idle", "topup"} /\ exp[e] \in {"running", "deleted"}
    BY <1>1, <1>7 DEF Holds, EInv, ExploreTypeOK
  <2>2. Local(t, e)
    BY <1>2, <1>3, <1>5, <2>1, LocalSteps DEF NoReq
  <2>3. Fine(e)'
    BY <1>5, <2>1 DEF Fine
  <2> QED BY <1>3, <1>4, <2>2, <2>3 DEF Right
<1> QED
  BY <1>6, <1>7

LEMMA AgainRight ==
    ASSUME EInv, ExploreTypeOK', NEW t \in Txns, NEW e, e = req[t].key,
           req[t].at \in {"undo", "undoing", "close"}, TryAgain(t),
           GiveUp(t) \/ UNCHANGED ledgerVars, UNCHANGED <<exp, free>>
    PROVE  Right(t, e)
<1>1. CASE req[t].again
  BY <1>1, BreakRight DEF TryAgain
<1>2. CASE ~req[t].again
  <2>1. /\ e \in Spends /\ Holds(t) /\ Calls(t) /\ exp[e] \in {"running", "deleted"}
    BY AtWork DEF Holds
  <2>2. /\ req'[t].at = "undo" /\ req'[t].charged = req[t].charged /\ req'[t].key = e
        /\ \A s \in Txns \ {t} : req'[s] = req[s]
    BY <1>2 DEF TryAgain, EInv, ExploreTypeOK
  <2>3. /\ rows' = rows /\ Reasons' /\ \A s \in Txns \ {t} : txn'[s] = txn[s]
        /\ txn'[t] \in {NoTxn, txn[t]}
    BY Quiet DEF GiveUp, ledgerVars, EInv, IInv, TypeOK
  <2>4. UNCHANGED <<exp, free, restored, cut>>
    BY <1>2 DEF TryAgain, ghosts
  <2>5. Local(t, e)
    BY <2>1, <2>2, <2>3, <2>4, LocalSteps
  <2>6. Calls(t)' /\ Holds(t)'
    BY <2>1, <2>2, <2>3, <2>4, ExploreAssumption DEF Calls, Holds, Starting, NoTxn
  <2> QED
    BY <2>1, <2>2, <2>3, <2>4, <2>5, <2>6, StillLive DEF Right
<1> QED
  BY <1>1, <1>2

-----------------------------------------------------------------------------
(* The invariant holds.                                                    *)

\* A step of a request, and the exploration it works on.
LEMMA RequestSteps ==
    ASSUME EInv, ExploreTypeOK', [ExploreNext]_exploreVars
    PROVE  \/ \E t \in Txns, e \in Spends \union {NoKey} : Right(t, e)
           \/ \E e \in Spends : Delete(e)
           \/ UNCHANGED exploreVars
<1> DEFINE Goal == \E t \in Txns, e \in Spends \union {NoKey} : Right(t, e)
<1>1. ASSUME NEW t \in Txns, Proceed(t) \/ Hiccup(t) \/ Disconnect(t) \/ Crash(t) PROVE Goal
  <2>1. PICK e \in Spends \union {NoKey} : e = req[t].key
    BY DEF EInv, ExploreTypeOK
  <2>2. CASE ToppedUp(t)
    BY <2>2, ToppedUpRight
  <2>3. CASE CloseDeleted(t)
    BY <2>1, <2>3, AgainRight DEF CloseDeleted
  <2>4. CASE Hiccup(t)
    BY <2>1, <2>4, AgainRight DEF Hiccup
  <2>5. CASE Disconnect(t) \/ Crash(t)
    BY <2>1, <2>5, BreakRight DEF Disconnect, Crash
  <2>6. CASE \/ Charged(t) \/ LooksFree(t) \/ NotPaid(t) \/ MarkFree(t) \/ Deliver(t)
             \/ \E raised \in BOOLEAN : Fails(t, raised)
    BY <2>1, <2>6, ChargedRight, LooksFreeRight, NotPaidRight, MarkFreeRight, DeliverRight,
       FailsRight
  <2>7. CASE Undo(t) \/ Undone(t) \/ Restore(t) \/ Close(t)
    BY <2>1, <2>7, UndoRight, UndoneRight, RestoreRight, CloseRight
  <2> QED
    BY <1>1, <2>2, <2>3, <2>4, <2>5, <2>6, <2>7 DEF Proceed
<1>2. ASSUME NEW t \in Txns, NEW k \in Grants, TopUp(t, k) PROVE Goal
  BY <1>2, TopUpRight
<1>3. ASSUME NEW t \in Txns, NEW e \in Spends, Open(t, e) PROVE Goal
  BY <1>3, OpenRight
<1> QED
  BY <1>1, <1>2, <1>3 DEF ExploreNext

LEMMA EStep == EInv /\ [ExploreNext]_exploreVars => EInv'
<1> SUFFICES ASSUME EInv, [ExploreNext]_exploreVars PROVE EInv'
  OBVIOUS
<1>1. IInv' /\ ExploreTypeOK'
  BY TypeStep
<1>2. ASSUME NEW t \in Txns, NEW e \in Spends \union {NoKey}, Right(t, e) PROVE EInv'
  <2>1. Local(t, e) /\ Reasons' /\ Calls(t)' /\ Holds(t)' /\ (e \in Spends => Fine(e)')
    BY <1>2 DEF Right
  <2> QED BY <1>1, <2>1, Frame DEF EInv, Reasons
<1>3. ASSUME NEW e \in Spends, Delete(e) PROVE EInv'
  <2>1. /\ UNCHANGED <<credits, rows, reason, txn, freeUsed, free, req, restored, strays, cut>>
        /\ exp'[e] = "deleted" /\ \A f \in Spends \ {e} : exp'[f] = exp[f]
        /\ \A t \in Txns : req[t].key = e => ~Starting(t)
    BY <1>3 DEF Delete, ledgerVars, ghosts, EInv, ExploreTypeOK
  <2>2. ASSUME NEW t \in Txns PROVE Calls(t)' /\ Holds(t)'
    <3>1. Calls(t) /\ Holds(t) /\ (Starting(t) => req[t].key # e)
      BY <2>1 DEF EInv
    <3>2. CASE req[t].key \in Spends
      <4>1. exp'[req[t].key] \in {exp[req[t].key], "deleted"}
        BY <2>1, <3>2
      <4>2. Starting(t) => exp'[req[t].key] = exp[req[t].key]
        BY <2>1, <3>1, <3>2
      <4> QED BY <2>1, <3>1, <4>1, <4>2 DEF Calls, Holds, Starting
    <3>3. CASE req[t].key \notin Spends
      <4>1. req[t].key = NoKey
        BY <3>3 DEF EInv, ExploreTypeOK
      <4>2. req[t].at \in {"idle", "topup"}
        BY <3>1, <4>1 DEF Holds
      <4> QED BY <2>1, <3>1, <3>3, <4>2 DEF Calls, Holds, Starting
    <3> QED BY <3>2, <3>3
  <2>3. ASSUME NEW f \in Spends PROVE Fine(f)'
    <3>1. Fine(f) /\ Live(f)' = Live(f) /\ Paid(f)' = Paid(f)
      BY <2>1 DEF EInv, Live, Paid
    <3> QED BY <2>1, <3>1 DEF Fine
  <2>4. OneRequestEach' /\ Reasons'
    BY <2>1 DEF EInv, OneRequestEach, Reasons
  <2> QED BY <1>1, <2>2, <2>3, <2>4 DEF EInv, Reasons
<1>4. CASE UNCHANGED exploreVars
  <2>1. UNCHANGED <<credits, rows, reason, txn, exp, free, req, restored, cut>>
    BY <1>4 DEF exploreVars, ghosts
  <2>2. \A t \in Txns : Calls(t)' /\ Holds(t)'
    BY <2>1 DEF EInv, Calls, Holds, Starting
  <2>3. \A f \in Spends : Fine(f)'
    BY <2>1 DEF EInv, Fine, Live, Paid
  <2> QED BY <1>1, <2>1, <2>2, <2>3 DEF EInv, OneRequestEach
<1> QED
  BY <1>1, <1>2, <1>3, <1>4, RequestSteps

LEMMA EInit == ExploreInit => EInv /\ Freebies
<1> SUFFICES ASSUME ExploreInit PROVE EInv /\ Freebies
  OBVIOUS
<1>1. IInv
  BY DEF ExploreInit, Init, IInv, TypeOK, TxnOK, NoTxn
<1>2. ExploreTypeOK
  BY <1>1 DEF ExploreInit, ExploreTypeOK, NoReq, IInv
<1>3. \A t \in Txns : req[t] = NoReq /\ txn[t] = NoTxn
  BY DEF ExploreInit, Init
<1>4. \A t \in Txns : Calls(t) /\ Holds(t)
  BY <1>3, ExploreAssumption DEF Calls, Holds, Starting, NoReq, NoTxn
<1>5. ASSUME NEW e \in Spends PROVE Fine(e)
  <2>1. exp[e] = "none" /\ rows[<<e, 0>>] = 0 /\ rows[<<e, Amount[e]>>] = 0
    BY SpendKeys DEF ExploreInit, Init
  <2>2. ~Live(e) /\ e \notin free /\ e \notin cut
    BY <1>3, ExploreAssumption DEF Live, NoReq, ExploreInit
  <2> QED BY <2>1, <2>2 DEF Fine, Paid
<1>6. OneRequestEach /\ Reasons
  BY <1>3 DEF OneRequestEach, Reasons, NoReq, ExploreInit, Init
<1>7. Freebies
  <2>1. \A u \in Users : Given(u) = {}
    BY DEF Given, ExploreInit
  <2> QED BY <2>1, FS_EmptySet DEF Freebies, ExploreInit
<1> QED
  BY <1>1, <1>2, <1>4, <1>5, <1>6, <1>7 DEF EInv, Reasons

-----------------------------------------------------------------------------
(* The freebies.                                                           *)

\* Whatever a step does, an account of a used freebie stays one, unless the request
\* behind it restores the freebie.
LEMMA HolderStays ==
    ASSUME EInv, ExploreTypeOK', [ExploreNext]_exploreVars, NEW u \in Users,
           NEW e \in Spends, Holder(u, e)
    PROVE  Holder(u, e)' \/ \E t \in Txns : Restore(t) /\ req[t].key = e
<1>0. /\ \A t \in Txns : Holds(t) /\ \A s \in Txns : s # t => req[s].key # req[t].key \/ req[s].key = NoKey
      /\ exp \in [Spends -> {"none", "running", "done", "failed", "deleted"}]
      /\ req \in [Txns -> Requests] /\ NoKey \notin Spends
      /\ e \in free /\ Owner[e] = u
  BY ExploreAssumption DEF EInv, OneRequestEach, ExploreTypeOK, Requests, Steps, Holder
<1>1. ASSUME NEW t \in Txns, NEW k \in Grants, TopUp(t, k) PROVE Holder(u, e)'
  <2>1. /\ UNCHANGED <<exp, free, cut>> /\ req[t].at = "idle"
        /\ \A s \in Txns \ {t} : req'[s] = req[s]
    BY <1>0, <1>1 DEF TopUp, GoTo, ghosts, Requests
  <2> QED BY <2>1 DEF Holder
<1>2. ASSUME NEW t \in Txns, NEW f \in Spends, Open(t, f) PROVE Holder(u, e)'
  <2>1. /\ UNCHANGED <<free, cut>> /\ req[t].at = "idle" /\ exp[f] = "none"
        /\ \A s \in Txns \ {t} : req'[s] = req[s]
        /\ \A g \in Spends \ {f} : exp'[g] = exp[g]
    BY <1>0, <1>2 DEF Open, ghosts
  <2> QED BY <1>0, <2>1 DEF Holder
<1>3. ASSUME NEW f \in Spends, Delete(f) PROVE Holder(u, e)'
  <2>1. UNCHANGED <<free, cut, req>> /\ exp'[e] \in {exp[e], "deleted"}
    BY <1>0, <1>3 DEF Delete, ghosts
  <2> QED BY <2>1 DEF Holder
<1>4. CASE UNCHANGED exploreVars
  BY <1>4 DEF exploreVars, ghosts, Holder
<1>5. ASSUME NEW t \in Txns,
             \/ Proceed(t) \/ Hiccup(t) \/ Disconnect(t) \/ Crash(t), req[t].key # e
      PROVE Holder(u, e)'
  <2>1. e \in free' /\ (e \in cut => e \in cut') /\ \A s \in Txns \ {t} : req'[s] = req[s]
    BY <1>0, <1>5
       DEF Proceed, ToppedUp, Charged, LooksFree, NotPaid, MarkFree, Deliver, Fails, Undo,
           Undone, Restore, Close, CloseDeleted, Hiccup, Disconnect, Crash, TryAgain, BreakOff,
           GoTo, Reply, ghosts, Stray
  <2>2. exp'[e] = exp[e]
    BY <1>0, <1>5
       DEF Proceed, ToppedUp, Charged, LooksFree, NotPaid, MarkFree, Deliver, Fails, Undo,
           Undone, Restore, Close, CloseDeleted, Hiccup, Disconnect, Crash, SetStatus
  <2> QED BY <1>5, <2>1, <2>2 DEF Holder
<1>6. ASSUME NEW t \in Txns, Proceed(t) \/ Hiccup(t) \/ Disconnect(t) \/ Crash(t),
             req[t].key = e, ~Restore(t)
      PROVE Holder(u, e)'
  <2>1. /\ exp[e] \in {"running", "deleted"}
        /\ ~req[t].charged \/ ~(req[t].at \in {"running", "undo", "undoing", "close"})
        /\ ~Starting(t) /\ req[t].at \notin {"idle", "topup"} /\ req[t].at # "undoing"
    BY <1>0, <1>6 DEF Holds
  <2>2. req[t].at \in {"running", "undo", "close"} /\ ~req[t].charged
    BY <1>0, <2>1 DEF Requests, Steps, Starting
  <2>3. CASE BreakOff(t) /\ UNCHANGED <<exp, free>>
    BY <1>0, <1>6, <2>3 DEF BreakOff, Holder
  <2>4. CASE TryAgain(t) /\ UNCHANGED <<exp, free>>
    <3>1. CASE req[t].again
      BY <2>3, <2>4, <3>1 DEF TryAgain
    <3>2. CASE ~req[t].again
      <4>1. req'[t].key = e /\ req'[t].at = "undo"
        BY <1>0, <1>6, <2>4, <3>2 DEF TryAgain, Requests
      <4> QED BY <1>0, <2>4, <4>1 DEF Holder
    <3> QED BY <3>1, <3>2
  <2>5. CASE Deliver(t)
    <3>1. exp'[e] = "done" /\ free' = free
      BY <1>0, <1>6, <2>5 DEF Deliver, SetStatus
    <3> QED BY <1>0, <3>1 DEF Holder
  <2>6. CASE \E raised \in BOOLEAN : Fails(t, raised)
    <3>1. free' = free /\ req'[t].key = e /\ req'[t].at = "undo"
      BY <1>0, <1>6, <2>6 DEF Fails, Requests
    <3> QED BY <1>0, <3>1 DEF Holder
  <2>7. CASE Close(t)
    <3>1. req[t].at = "close" /\ exp[e] = "running"
      BY <1>6, <2>1, <2>7 DEF Close
    <3>2. UNCHANGED <<free, cut>> /\ \A s \in Txns \ {t} : req'[s] = req[s]
      BY <1>0, <2>7 DEF Close, Reply, ghosts
    <3>3. e \in cut
      BY <1>0, <1>6, <3>1 DEF Holder
    <3> QED BY <1>0, <3>2, <3>3 DEF Holder
  <2>8. ~ToppedUp(t) /\ ~Charged(t) /\ ~LooksFree(t) /\ ~NotPaid(t) /\ ~MarkFree(t)
        /\ ~Undo(t) /\ ~Undone(t)
    BY <2>2 DEF ToppedUp, Charged, LooksFree, NotPaid, MarkFree, Undo, Undone
  <2> QED
    BY <1>6, <2>3, <2>4, <2>5, <2>6, <2>7, <2>8
       DEF Proceed, Hiccup, Disconnect, Crash, CloseDeleted
<1> QED
  BY <1>1, <1>2, <1>3, <1>4, <1>5, <1>6 DEF ExploreNext

\* What a user was given changes where a freebie is marked or restored only, and
\* by one exploration at most.
LEMMA FreebieStep ==
    ASSUME EInv, ExploreTypeOK', Freebies, [ExploreNext]_exploreVars
    PROVE  Freebies'
<1>0. /\ freeUsed \in [Users -> BOOLEAN] /\ strays \in [Users -> Nat]
      /\ req \in [Txns -> Requests] /\ free \subseteq Spends /\ restored \subseteq free
      /\ IsFiniteSet(free) /\ \A e \in Spends : Owner[e] \in Users
  BY SpendKeys DEF EInv, ExploreTypeOK, Requests, Steps, Freebies
<1>1. \A u \in Users : IsFiniteSet(Given(u)) /\ Cardinality(Given(u)) \in Nat
  <2>1. \A u \in Users : Given(u) \subseteq free
    BY DEF Given
  <2> QED BY <1>0, <2>1, FS_Subset, FS_CardinalityType
<1>2. ASSUME UNCHANGED <<freeUsed, free, restored, strays>>,
             \A t \in Txns : ~Restore(t)
      PROVE  Freebies'
  <2>1. ASSUME NEW u \in Users, freeUsed[u] PROVE \E e \in Spends : Holder(u, e)'
    <3>1. PICK e \in Spends : Holder(u, e)
      BY <2>1 DEF Freebies
    <3> QED BY <1>2, <3>1, HolderStays
  <2>2. ASSUME NEW u \in Users PROVE Given(u)' = Given(u)
    BY <1>2 DEF Given
  <2> QED BY <1>2, <2>1, <2>2 DEF Freebies
<1>3. ASSUME NEW t \in Txns, MarkFree(t) PROVE Freebies'
  <2> DEFINE e == req[t].key
             o == Owner[e]
  <2>1. /\ e \in Spends /\ e \notin free /\ e \notin restored /\ o \in Users
        /\ \A s \in Txns : ~Restore(s) \/ s # t
    BY <1>0, <1>3, ExploreAssumption
       DEF MarkFree, EInv, Holds, Starting, ExploreTypeOK, Restore
  <2>2. /\ freeUsed' = [freeUsed EXCEPT ![o] = TRUE] /\ free' = free \union {e}
        /\ strays' = [strays EXCEPT ![o] = IF freeUsed[o] THEN @ + 1 ELSE @]
        /\ restored' = restored
        /\ req' = [req EXCEPT ![t].at = "running"]
    BY <1>3 DEF MarkFree, Stray, UserOf, GoTo
  <2>3. IsFiniteSet(free')
    BY <1>0, <2>2, FS_AddElement
  <2>4. ASSUME NEW u \in Users
        PROVE  Cardinality(Given(u)') <= strays'[u] + (IF freeUsed'[u] THEN 1 ELSE 0)
    <3>1. Cardinality(Given(u)) <= strays[u] + (IF freeUsed[u] THEN 1 ELSE 0)
      BY DEF Freebies
    <3>2. CASE u = o
      <4>1. Given(u)' = Given(u) \union {e} /\ e \notin Given(u)
        BY <2>1, <2>2, <3>2 DEF Given
      <4>2. Cardinality(Given(u)') = Cardinality(Given(u)) + 1
        BY <1>1, <4>1, FS_AddElement
      <4>3. freeUsed'[u] /\ strays'[u] = IF freeUsed[u] THEN strays[u] + 1 ELSE strays[u]
        BY <1>0, <2>2, <3>2
      <4> HIDE DEF e, o
      <4> QED BY <1>0, <1>1, <3>1, <4>2, <4>3
    <3>3. CASE u # o
      <4>1. Given(u)' = Given(u)
        BY <2>2, <3>3 DEF Given
      <4>2. freeUsed'[u] = freeUsed[u] /\ strays'[u] = strays[u]
        BY <1>0, <2>2, <3>3
      <4> QED BY <3>1, <4>1, <4>2
    <3> QED BY <3>2, <3>3
  <2>5. ASSUME NEW u \in Users, freeUsed'[u] PROVE \E f \in Spends : Holder(u, f)'
    <3>1. CASE u = o
      <4>1. req'[t].key = e /\ req'[t].at = "running"
        BY <1>0, <2>2 DEF Requests
      <4>2. PICK f \in Spends : f = e
        BY <2>1
      <4>3. Holder(u, f)'
        BY <2>2, <3>1, <4>1, <4>2 DEF Holder
      <4> QED BY <4>3
    <3>2. CASE u # o
      <4>1. PICK f \in Spends : Holder(u, f)
        BY <1>0, <2>2, <2>5, <3>2 DEF Freebies
      <4>2. f # e
        BY <3>2, <4>1 DEF Holder
      <4>3. /\ f \in free' /\ exp' = exp /\ cut' = cut
            /\ \A s \in Txns \ {t} : req'[s] = req[s]
        BY <1>0, <1>3, <2>2, <4>1 DEF Holder, MarkFree
      <4>4. Holder(u, f)'
        BY <4>1, <4>2, <4>3 DEF Holder
      <4> QED BY <4>4
    <3> QED BY <3>1, <3>2
  <2> QED BY <2>3, <2>4, <2>5 DEF Freebies
<1>4. ASSUME NEW t \in Txns, Restore(t) PROVE Freebies'
  <2> DEFINE e == req[t].key
             o == Owner[e]
  <2>1. /\ e \in free /\ o \in Users
    BY <1>0, <1>4 DEF Restore, EInv, Holds
  <2>2. /\ freeUsed' = [freeUsed EXCEPT ![o] = FALSE] /\ free' = free
        /\ strays' = [strays EXCEPT ![o] = IF e \in restored THEN @ + 1 ELSE @]
        /\ restored' = restored \union {e} /\ exp' = exp /\ cut' = cut
        /\ \A s \in Txns \ {t} : req'[s] = req[s]
    BY <1>0, <1>4 DEF Restore, Stray, UserOf, GoTo
  <2>4. ASSUME NEW u \in Users
        PROVE  Cardinality(Given(u)') <= strays'[u] + (IF freeUsed'[u] THEN 1 ELSE 0)
    <3>1. Cardinality(Given(u)) <= strays[u] + (IF freeUsed[u] THEN 1 ELSE 0)
      BY DEF Freebies
    <3>2. CASE u = o /\ e \notin restored
      <4>1. Given(u)' = Given(u) \ {e} /\ e \in Given(u)
        BY <2>1, <2>2, <3>2 DEF Given
      <4>2. Cardinality(Given(u)') = Cardinality(Given(u)) - 1
        BY ZenonT(40), <1>1, <4>1, FS_RemoveElement
      <4>3. ~freeUsed'[u] /\ strays'[u] = strays[u]
        BY <1>0, <2>2, <3>2
      <4> HIDE DEF e, o
      <4> QED BY <1>0, <1>1, <3>1, <4>2, <4>3
    <3>3. CASE u = o /\ e \in restored
      <4>1. Given(u)' = Given(u)
        BY <2>2, <3>3 DEF Given
      <4>2. ~freeUsed'[u] /\ strays'[u] = strays[u] + 1
        BY <1>0, <2>2, <3>3
      <4> HIDE DEF e, o
      <4> QED BY <1>0, <1>1, <3>1, <4>1, <4>2
    <3>4. CASE u # o
      <4>1. Given(u)' = Given(u)
        BY <2>2, <3>4 DEF Given
      <4>2. freeUsed'[u] = freeUsed[u] /\ strays'[u] = strays[u]
        BY <1>0, <2>2, <3>4
      <4> QED BY <3>1, <4>1, <4>2
    <3> QED BY <3>2, <3>3, <3>4
  <2>5. ASSUME NEW u \in Users, freeUsed'[u] PROVE \E f \in Spends : Holder(u, f)'
    <3>1. u # o
      BY <1>0, <2>2, <2>5
    <3>2. PICK f \in Spends : Holder(u, f)
      BY <1>0, <2>2, <2>5, <3>1 DEF Freebies
    <3>3. f # e
      BY <3>1, <3>2 DEF Holder
    <3>4. Holder(u, f)'
      BY <2>2, <3>2, <3>3 DEF Holder
    <3> QED BY <3>4
  <2> QED BY <1>0, <2>2, <2>4, <2>5 DEF Freebies
<1>5. ASSUME NEW t \in Txns, Proceed(t), ~MarkFree(t), ~Restore(t)
      PROVE  UNCHANGED <<freeUsed, free, restored, strays>>
  BY <1>5 DEF Proceed, ToppedUp, Charged, LooksFree, NotPaid, Deliver, Fails, Undo, Undone,
              Close, CloseDeleted, TryAgain, BreakOff, ghosts
<1>6. ASSUME NEW t \in Txns,
             \/ Hiccup(t) \/ Disconnect(t) \/ Crash(t)
             \/ \E k \in Grants : TopUp(t, k)
             \/ \E e \in Spends : Open(t, e)
      PROVE  UNCHANGED <<freeUsed, free, restored, strays>>
  BY <1>6 DEF Hiccup, Disconnect, Crash, TryAgain, BreakOff, TopUp, Open, ghosts
<1>7. ASSUME (\E e \in Spends : Delete(e)) \/ UNCHANGED exploreVars
      PROVE  UNCHANGED <<freeUsed, free, restored, strays>>
  BY <1>7 DEF Delete, exploreVars, ghosts
<1> QED
  BY <1>2, <1>3, <1>4, <1>5, <1>6, <1>7 DEF ExploreNext

-----------------------------------------------------------------------------

\* The inductive invariant of the explorations.
LEMMA Always == ExploreSpec => [](EInv /\ Freebies /\ ExploreTypeOK)
<1>1. EInv => ExploreTypeOK
  BY DEF EInv
<1>2. EInv /\ Freebies /\ [ExploreNext]_exploreVars => EInv' /\ Freebies'
  BY EStep, TypeStep, FreebieStep
<1> QED
  BY EInit, <1>1, <1>2, PTL DEF ExploreSpec

\* The state keeps its type: no exploration takes the credits of a user below
\* zero, whatever requests overlap.
THEOREM ExploreTypeCorrect == ExploreSpec => []ExploreTypeOK
BY Always, PTL

\* Each result was paid for with a credit that was not given back, or was free, and
\* no user has more free results than one, and one for each write of a freebie that
\* had moved on meanwhile (api_explore, mark_free_exploration).
THEOREM GivenCorrect == ExploreSpec => []GivenIsPaid
<1>1. EInv /\ Freebies => GivenIsPaid
  <2> SUFFICES ASSUME EInv, Freebies PROVE GivenIsPaid
    OBVIOUS
  <2>1. DoneIsPaid
    BY DEF EInv, Fine, DoneIsPaid
  <2>2. ASSUME NEW u \in Users
        PROVE  Cardinality({e \in free : Owner[e] = u /\ exp[e] = "done"}) <= 1 + strays[u]
    <3> DEFINE D == {e \in free : Owner[e] = u /\ exp[e] = "done"}
    <3>1. free \subseteq Spends /\ strays[u] \in Nat
      BY DEF EInv, ExploreTypeOK
    <3>2. D \subseteq Given(u) /\ Given(u) \subseteq free
      BY <3>1 DEF EInv, Fine, Given
    <3>3. IsFiniteSet(Given(u))
      BY <3>2, FS_Subset DEF Freebies
    <3>4. Cardinality(D) <= Cardinality(Given(u)) /\ Cardinality(D) \in Nat
          /\ Cardinality(Given(u)) \in Nat
      BY <3>2, <3>3, FS_Subset, FS_CardinalityType
    <3>5. Cardinality(Given(u)) <= strays[u] + (IF freeUsed[u] THEN 1 ELSE 0)
      BY DEF Freebies
    <3> HIDE DEF D
    <3>6. Cardinality(D) <= 1 + strays[u]
      BY <3>1, <3>4, <3>5
    <3> QED BY <3>6 DEF D
  <2> QED BY <2>1, <2>2 DEF GivenIsPaid, FreeOnce
<1> QED
  BY <1>1, Always, PTL

\* What was taken, a credit or the freebie, was taken for an exploration that was
\* delivered or is still coming, and no request ends and leaves its exploration
\* running, except where it breaks off (event_stream and its cleanup).
THEOREM TakenCorrect == ExploreSpec => []TakenIsServed
<1>1. EInv /\ Freebies => TakenIsServed
  <2> SUFFICES ASSUME EInv, Freebies PROVE TakenIsServed
    OBVIOUS
  <2>1. PaidIsServed /\ EndsWithRequest
    BY DEF EInv, Fine, PaidIsServed, EndsWithRequest
  <2>2. FreebieNotBurned
    <3>1. \A u \in Users, e \in Spends :
             Holder(u, e) => /\ e \in free /\ Owner[e] = u
                             /\ Live(e) \/ exp[e] \in {"done", "deleted"} \/ e \in cut
      BY DEF Holder, Live
    <3> QED BY <3>1 DEF Freebies, FreebieNotBurned
  <2> QED BY <2>1, <2>2 DEF TakenIsServed
<1> QED
  BY <1>1, Always, PTL

\* Both: credits are taken for explorations, and explorations given for credits.
THEOREM CreditsAreServed == ExploreSpec => []CreditsServed
<1>1. GivenIsPaid /\ TakenIsServed => CreditsServed
  BY DEF CreditsServed
<1> QED BY <1>1, GivenCorrect, TakenCorrect, PTL

-----------------------------------------------------------------------------
(* The bots.                                                               *)

\* The processes that have update u in their local set.
Holders(u) == {p \in Processes : u \in local[p]}

\* What an update has used up: its claim, the processes that know it, the lapses.
RepeatsAreCounted ==
    \A u \in Updates : handled[u] <= Cardinality(Holders(u)) + lapses
                                     + (IF u \in claims THEN 1 ELSE 0)

\* What a handler is about to write suits the stage it writes.
NextFits == \A p \in Processes : ~torn /\ step[p].pc \in {"set", "write"} => Fits(step[p].next)

HandledOfDelivered == \A u \in Updates : handled[u] <= delivered

BotsInv == BotsTypeOK /\ HandledOfDelivered /\ PayloadFitsState /\ NextFits /\ RepeatsAreCounted

LEMMA FitsMeans ==
    ASSUME NEW r \in Row
    PROVE  Fits(r) <=> /\ r.at \in {"time", "city", "zodiac"} => r.has["date"] # Missing
                       /\ r.at \in {"city", "zodiac"} => r.has["time"] # Missing
                       /\ r.at = "zodiac" => r.has["city"] # Missing
<1>1. r.at \in {"none", "date", "time", "city", "zodiac"}
  BY DEF Row, Stages
<1>2. CASE r.at = "none" \/ r.at = "date"
  BY <1>2 DEF Fits, Presupposed
<1>3. CASE r.at = "time"
  BY <1>3 DEF Fits, Presupposed
<1>4. CASE r.at = "city"
  BY <1>4 DEF Fits, Presupposed
<1>5. CASE r.at = "zodiac"
  BY <1>5 DEF Fits, Presupposed, Fields
<1> QED BY <1>1, <1>2, <1>3, <1>4, <1>5

LEMMA RowTypes ==
    /\ NoFields \in Payload /\ NoRow \in Row
    /\ [at |-> "date", has |-> NoFields] \in Row
    /\ Fits([at |-> "date", has |-> NoFields])
<1>1. NoFields \in Payload
  BY DEF NoFields, Payload
<1>2. NoRow \in Row /\ [at |-> "date", has |-> NoFields] \in Row
  BY <1>1 DEF NoRow, Row, Stages
<1> QED BY <1>1, <1>2, FitsMeans

\* An answer to the question of the stage makes a row of the next stage.
LEMMA FilledFits ==
    ASSUME NEW r \in Row, NEW f \in Fields, r.at = f, NEW u \in Updates
    PROVE  Filled(r, f, u) \in Row /\ (Fits(r) => Fits(Filled(r, f, u)))
<1> DEFINE has == [r.has EXCEPT ![f] = u]
           n == [at |-> After(f), has |-> has]
<1>1. has \in Payload /\ has[f] = u /\ \A g \in Fields \ {f} : has[g] = r.has[g]
  BY DEF Row, Payload
<1>2. u # Missing
  BY BotsAssumption
<1>3. After("date") = "time" /\ After("time") = "city" /\ After("city") = "zodiac"
  BY DEF After
<1>4. f \in {"date", "time", "city"}
  BY DEF Fields
<1> HIDE DEF has
<1>5. n \in Row /\ n.at = After(f) /\ n.has = has
  BY <1>1, <1>3, <1>4 DEF Row, Stages
<1>6. Filled(r, f, u) = n
  BY DEF Filled, has
<1> HIDE DEF n
<1>7. ASSUME Fits(r) PROVE Fits(n)
  <2>1. /\ r.at \in {"time", "city", "zodiac"} => r.has["date"] # Missing
        /\ r.at \in {"city", "zodiac"} => r.has["time"] # Missing
    BY <1>7, FitsMeans
  <2>2. /\ n.at \in {"time", "city", "zodiac"} => has["date"] # Missing
        /\ n.at \in {"city", "zodiac"} => has["time"] # Missing
        /\ n.at = "zodiac" => has["city"] # Missing
    BY <1>1, <1>2, <1>3, <1>4, <1>5, <2>1 DEF Fields
  <2> QED BY <1>5, <2>2, FitsMeans
<1> QED BY <1>5, <1>6, <1>7

Step == [pc : {"idle", "set", "write", "clear", "compute"}, read : Row, next : Row]

\* A handler's look at the row.
LEMMA ReadFits ==
    ASSUME BotsTypeOK, PayloadFitsState, NextFits, NEW p \in Processes, NEW u \in Updates,
           Read(p, u), UNCHANGED <<row, torn>>
    PROVE  step' \in [Processes -> Step] /\ NextFits'
<1>1. row \in Row /\ step \in [Processes -> Step] /\ msg[u] \in UpdateKinds
  BY DEF BotsTypeOK, Step
<1>2. ASSUME NEW pc \in {"set", "clear"}, NEW next \in Row,
             step' = [step EXCEPT ![p] = [pc |-> pc, read |-> row, next |-> next]],
             pc = "set" /\ ~torn => Fits(next)
      PROVE  step' \in [Processes -> Step] /\ NextFits'
  <2> DEFINE n == [pc |-> pc, read |-> row, next |-> next]
  <2>1. n \in Step /\ n.pc = pc /\ n.next = next
    BY <1>1, <1>2 DEF Step
  <2> HIDE DEF n
  <2>2. step' = [step EXCEPT ![p] = n]
    BY <1>2 DEF n
  <2>3. step' \in [Processes -> Step]
    BY <1>1, <2>1, <2>2
  <2>4. \A q \in Processes : step'[q] = IF q = p THEN n ELSE step[q]
    BY <1>1, <2>2
  <2>5. NextFits'
    BY <1>2, <2>1, <2>4 DEF NextFits, Fits
  <2> QED BY <2>3, <2>5
<1>3. CASE step' = step
  BY <1>1, <1>3 DEF NextFits, Fits
<1>4. CASE msg[u] = "chart_start"
  <2> DEFINE next == [at |-> "date", has |-> NoFields]
  <2>1. step' = [step EXCEPT ![p] = [pc |-> "set", read |-> row, next |-> next]]
    BY <1>4 DEF Read, Fields
  <2>2. next \in Row /\ Fits(next)
    BY RowTypes
  <2> HIDE DEF next
  <2> QED BY <1>2, <2>1, <2>2
<1>5. CASE msg[u] = "cancel"
  <2>1. step' = [step EXCEPT ![p] = [pc |-> "clear", read |-> row, next |-> NoRow]]
    BY <1>5 DEF Read, Fields
  <2> QED BY <1>2, <2>1, RowTypes
<1>6. CASE msg[u] = "zodiac" /\ row.at = "zodiac"
  <2>1. step' = [step EXCEPT ![p] = [pc |-> "clear", read |-> row, next |-> row]]
    BY <1>6 DEF Read, Fields
  <2> QED BY <1>1, <1>2, <2>1
<1>7. CASE msg[u] \in Fields /\ row.at = msg[u]
  <2> DEFINE next == Filled(row, msg[u], u)
  <2>1. step' = [step EXCEPT ![p] = [pc |-> "set", read |-> row, next |-> next]]
    BY <1>7 DEF Read, Fields
  <2>2. next \in Row /\ (Fits(row) => Fits(next))
    BY <1>1, <1>7, FilledFits
  <2>3. ~torn => Fits(next)
    BY <2>2 DEF PayloadFitsState
  <2> HIDE DEF next
  <2> QED BY <1>2, <2>1, <2>2, <2>3
<1>8. \/ msg[u] \in {"chart_start", "cancel"} \/ (msg[u] = "zodiac" /\ row.at = "zodiac")
      \/ (msg[u] \in Fields /\ row.at = msg[u]) \/ step' = step
  BY DEF Read
<1> QED BY <1>3, <1>4, <1>5, <1>6, <1>7, <1>8

\* One process more or less knows an update.
LEMMA HoldersCount ==
    ASSUME NEW S, IsFiniteSet(S), NEW p
    PROVE  /\ Cardinality(S) \in Nat
           /\ p \notin S => Cardinality(S \union {p}) = Cardinality(S) + 1
           /\ Cardinality(S) <= Cardinality(S \ {p}) + 1
<1>1. Cardinality(S) \in Nat
  BY FS_CardinalityType
<1>2. p \notin S => Cardinality(S \union {p}) = Cardinality(S) + 1
  BY FS_AddElement
<1>3. CASE p \in S
  <2>1. Cardinality(S \ {p}) = Cardinality(S) - 1
    BY <1>3, FS_RemoveElement
  <2> QED BY <1>1, <1>2, <2>1
<1>4. CASE p \notin S
  <2>1. S \ {p} = S
    BY <1>4
  <2> QED BY <1>1, <1>2, <2>1
<1> QED BY <1>3, <1>4

LEMMA HoldersFinite == \A u : IsFiniteSet(Holders(u))
<1> SUFFICES ASSUME NEW u PROVE IsFiniteSet(Holders(u))
  OBVIOUS
<1>1. Holders(u) \subseteq Processes
  BY DEF Holders
<1> QED BY <1>1, FS_Subset, BotsAssumption

\* What counts the repetitions of one update.
LEMMA CountGrows ==
    ASSUME BotsTypeOK, RepeatsAreCounted, NEW v \in Updates,
           NEW u \in Updates, NEW p \in Processes, NEW redisUp \in BOOLEAN, New(p, u, redisUp),
           handled' = [handled EXCEPT ![u] = @ + 1]
    PROVE  handled'[v] <= Cardinality(Holders(v)') + lapses' + (IF v \in claims' THEN 1 ELSE 0)
<1>1. handled[v] <= Cardinality(Holders(v)) + lapses + (IF v \in claims THEN 1 ELSE 0)
  BY DEF RepeatsAreCounted
<1>2. handled'[v] = (IF v = u THEN handled[v] + 1 ELSE handled[v])
      /\ handled[v] \in Nat /\ lapses \in Nat
  BY BotsAssumption DEF BotsTypeOK
<1>3. Cardinality(Holders(v)) \in Nat
  BY HoldersFinite, FS_CardinalityType
<1>4. CASE redisUp /\ u \notin claims
  <2>1. claims' = claims \union {u} /\ lapses' = lapses /\ Holders(v)' = Holders(v)
    BY <1>4 DEF New, Holders
  <2> QED BY <1>1, <1>2, <1>3, <1>4, <2>1
<1>5. CASE Remember(p, u) /\ UNCHANGED claims
  <2>1. CASE local' = [local EXCEPT ![p] = @ \union {u}] /\ lapses' = lapses
    <3>1. Holders(v)' = IF v = u THEN Holders(v) \union {p} ELSE Holders(v)
      BY <2>1 DEF Holders, BotsTypeOK
    <3>2. p \notin Holders(u)
      BY <1>5 DEF Remember, Holders
    <3>3. v = u => Cardinality(Holders(v)') = Cardinality(Holders(v)) + 1
      BY <3>1, <3>2, HoldersFinite, HoldersCount
    <3>4. v # u => Cardinality(Holders(v)') = Cardinality(Holders(v))
      BY <3>1
    <3> QED BY <1>1, <1>2, <1>3, <1>5, <2>1, <3>3, <3>4
  <2>2. ASSUME NEW w \in local[p], lapses' = lapses + 1,
               local' = [local EXCEPT ![p] = (@ \ {w}) \union {u}]
        PROVE  handled'[v] <= Cardinality(Holders(v)') + lapses' + (IF v \in claims' THEN 1 ELSE 0)
    <3>1. p \notin Holders(u) /\ w # u
      BY <1>5, <2>2 DEF Remember, Holders
    <3>2. Holders(v)' = IF v = u THEN Holders(v) \union {p}
                        ELSE IF v = w THEN Holders(v) \ {p} ELSE Holders(v)
      BY <2>2, <3>1 DEF Holders, BotsTypeOK
    <3>3. v = u => Cardinality(Holders(v)') = Cardinality(Holders(v)) + 1
      BY <3>1, <3>2, HoldersFinite, HoldersCount
    <3>4. v = w => Cardinality(Holders(v)) <= Cardinality(Holders(v)') + 1
      BY <3>1, <3>2, HoldersFinite, HoldersCount
    <3>5. v # u /\ v # w => Cardinality(Holders(v)') = Cardinality(Holders(v))
      BY <3>2
    <3>6. Cardinality(Holders(v)') \in Nat
      <4>1. IsFiniteSet(Holders(v)')
        BY <3>2, HoldersFinite, FS_AddElement, FS_RemoveElement
      <4> QED BY <4>1, FS_CardinalityType
    <3> QED BY <1>1, <1>2, <1>3, <1>5, <2>2, <3>1, <3>3, <3>4, <3>5, <3>6
  <2> QED BY <1>5, <2>1, <2>2 DEF Remember
<1> QED BY <1>4, <1>5 DEF New

\* A lapse makes room for one repetition.
LEMMA CountLapses ==
    ASSUME BotsTypeOK, RepeatsAreCounted, handled' = handled, lapses' = lapses + 1,
           \/ \E u \in Updates : claims' = claims \ {u} /\ local' = local
           \/ \E p \in Processes : local' = [local EXCEPT ![p] = {}] /\ claims' = claims
    PROVE  RepeatsAreCounted'
<1>0. ASSUME \A v \in Updates : handled[v] <= Cardinality(Holders(v)') + lapses'
                                                + (IF v \in claims' THEN 1 ELSE 0)
      PROVE  RepeatsAreCounted'
  BY <1>0 DEF RepeatsAreCounted, Holders
<1> SUFFICES ASSUME NEW v \in Updates
             PROVE  handled[v] <= Cardinality(Holders(v)') + lapses'
                                  + (IF v \in claims' THEN 1 ELSE 0)
  BY <1>0
<1>1. handled[v] <= Cardinality(Holders(v)) + lapses + (IF v \in claims THEN 1 ELSE 0)
  BY DEF RepeatsAreCounted
<1>2. handled[v] \in Nat /\ lapses \in Nat
  BY BotsAssumption DEF BotsTypeOK
<1>3. Cardinality(Holders(v)) \in Nat
  BY HoldersFinite, FS_CardinalityType
<1>4. CASE \E u \in Updates : claims' = claims \ {u} /\ local' = local
  <2>1. Holders(v)' = Holders(v)
    BY <1>4 DEF Holders
  <2> QED BY <1>1, <1>2, <1>3, <1>4, <2>1
<1>5. ASSUME NEW p \in Processes, local' = [local EXCEPT ![p] = {}], claims' = claims
      PROVE  handled[v] <= Cardinality(Holders(v)') + lapses' + (IF v \in claims' THEN 1 ELSE 0)
  <2>1. Holders(v)' = Holders(v) \ {p}
    BY <1>5 DEF Holders, BotsTypeOK
  <2>2. Cardinality(Holders(v)) <= Cardinality(Holders(v)') + 1
    BY <2>1, HoldersFinite, HoldersCount
  <2>3. Cardinality(Holders(v)') \in Nat
    BY <2>1, HoldersFinite, FS_RemoveElement, FS_CardinalityType
  <2> QED BY <1>1, <1>2, <1>3, <1>5, <2>2, <2>3
<1> QED BY <1>4, <1>5

LEMMA StepType == ASSUME BotsTypeOK PROVE step \in [Processes -> Step] /\ row \in Row /\ NoUpdate \in Step
  BY RowTypes DEF BotsTypeOK, Step, NoUpdate

\* Process p, and maybe others, end or go on with what they have.
LEMMA HandlersGoOn ==
    ASSUME BotsTypeOK, NextFits, torn => torn',
           \A q \in Processes : \/ step'[q] \in {step[q], NoUpdate}
                                \/ step'[q] \in Step /\ step'[q].pc \notin {"set", "write"}
                                \/ step'[q] \in Step /\ step'[q].next = step[q].next
                                   /\ step[q].pc = "set",
           step' = [q \in Processes |-> step'[q]]
    PROVE  step' \in [Processes -> Step] /\ NextFits'
<1>1. step' \in [Processes -> Step]
  BY StepType
<1>2. ASSUME NEW q \in Processes, ~torn', step'[q].pc \in {"set", "write"}
      PROVE  Fits(step'[q].next)
  <2>1. ~torn /\ NoUpdate.pc = "idle"
    BY <1>2 DEF NoUpdate
  <2>2. step'[q].next = step[q].next /\ step[q].pc \in {"set", "write"}
    BY <1>2, <2>1
  <2> QED BY <2>1, <2>2 DEF NextFits, Fits
<1> QED BY <1>1, <1>2 DEF NextFits, Fits

\* A step of a handler leaves the counts alone.
LEMMA CountsStay ==
    RepeatsAreCounted /\ UNCHANGED <<claims, local, handled, lapses>> => RepeatsAreCounted'
  BY DEF RepeatsAreCounted, Holders

LEMMA BotsStep == BotsInv /\ [BotsNext]_botsVars => BotsInv'
<1> SUFFICES ASSUME BotsInv, [BotsNext]_botsVars PROVE BotsInv'
  OBVIOUS
<1> USE BotsAssumption
<1>0. BotsTypeOK /\ HandledOfDelivered /\ PayloadFitsState /\ NextFits /\ RepeatsAreCounted
  BY DEF BotsInv
<1>1. ASSUME NEW p \in Processes, NEW u \in Updates, NEW redisUp \in BOOLEAN,
             DeliverUpdate(p, u, redisUp)
      PROVE  BotsInv'
  <2>1. UNCHANGED <<row, msg, torn>> /\ delivered' \in 0 .. MaxDeliveries
        /\ delivered' = delivered + 1 /\ delivered \in Nat
    BY <1>0, <1>1 DEF DeliverUpdate, BotsTypeOK
  <2>2. PayloadFitsState'
    BY <1>0, <2>1 DEF PayloadFitsState, Fits
  <2>3. CASE Known(p, u, redisUp) /\ UNCHANGED <<handled, step>>
    <3>1. UNCHANGED <<claims, local, lapses>>
      BY <2>3 DEF Known, SeenLocally
    <3>2. BotsTypeOK' /\ NextFits'
      BY <1>0, <2>1, <2>3, <3>1 DEF BotsTypeOK, NextFits, Fits
    <3>3. HandledOfDelivered'
      BY <1>0, <2>1, <2>3 DEF HandledOfDelivered, BotsTypeOK
    <3> QED BY <1>0, <2>2, <2>3, <3>1, <3>2, <3>3, CountsStay DEF BotsInv
  <2>4. CASE New(p, u, redisUp) /\ handled' = [handled EXCEPT ![u] = @ + 1] /\ Read(p, u)
    <3>1. step' \in [Processes -> Step] /\ NextFits'
      BY <1>0, <2>1, <2>4, ReadFits
    <3>2. RepeatsAreCounted'
      BY <1>0, <2>4, CountGrows DEF RepeatsAreCounted
    <3>3. claims' \subseteq Updates /\ local' \in [Processes -> SUBSET Updates]
          /\ lapses' \in 0 .. MaxLapses
      BY <1>0, <2>4 DEF New, Remember, BotsTypeOK
    <3>4. handled' \in [Updates -> 0 .. MaxDeliveries] /\ HandledOfDelivered'
      <4>1. \A v \in Updates : handled[v] \in Nat /\ handled[v] + 1 <= delivered'
        BY <1>0, <2>1 DEF BotsTypeOK, HandledOfDelivered
      <4>2. \A v \in Updates : handled'[v] \in 0 .. MaxDeliveries /\ handled'[v] <= delivered'
        BY <1>0, <2>1, <2>4, <4>1 DEF BotsTypeOK
      <4>3. handled' = [v \in Updates |-> handled'[v]]
        BY <1>0, <2>4 DEF BotsTypeOK
      <4> QED BY <4>2, <4>3 DEF HandledOfDelivered
    <3>5. BotsTypeOK'
      BY <1>0, <2>1, <3>1, <3>3, <3>4 DEF BotsTypeOK, Step
    <3> QED BY <2>2, <3>1, <3>2, <3>4, <3>5 DEF BotsInv
  <2> QED BY <1>1, <2>3, <2>4 DEF DeliverUpdate
\* The steps of a handler that has its update.
<1>2. ASSUME UNCHANGED <<msg, claims, local, delivered, handled, lapses>>,
             row' \in Row, torn' \in BOOLEAN, PayloadFitsState',
             step' \in [Processes -> Step], NextFits'
      PROVE  BotsInv'
  <2>1. BotsTypeOK'
    BY <1>0, <1>2 DEF BotsTypeOK, Step
  <2> QED BY <1>0, <1>2, <2>1, CountsStay DEF BotsInv, HandledOfDelivered
<1>3. step \in [Processes -> Step] /\ row \in Row /\ NoUpdate \in Step /\ torn \in BOOLEAN
      /\ NoUpdate.pc = "idle"
  BY <1>0, StepType DEF BotsTypeOK, NoUpdate
<1>4. ASSUME NEW p \in Processes, LoadRow(p) PROVE BotsInv'
  <2> DEFINE n == [step[p] EXCEPT !.pc = "write", !.read = row]
  <2>1. step' = [step EXCEPT ![p] = n]
    BY <1>3, <1>4 DEF LoadRow
  <2>2. n \in Step /\ n.next = step[p].next
    BY <1>3 DEF Step
  <2> HIDE DEF n
  <2>3. step' \in [Processes -> Step] /\ NextFits'
    <3>1. \A q \in Processes : step'[q] = IF q = p THEN n ELSE step[q]
      BY <1>3, <2>1
    <3>2. torn' = torn /\ step[p].pc = "set" /\ step' = [q \in Processes |-> step'[q]]
      BY <1>3, <1>4, <2>1 DEF LoadRow
    <3> QED BY <1>0, <2>2, <3>1, <3>2, HandlersGoOn
  <2>4. PayloadFitsState'
    BY <1>0, <1>4 DEF LoadRow, PayloadFitsState, Fits
  <2> QED BY <1>2, <1>3, <1>4, <2>3, <2>4 DEF LoadRow
<1>5. ASSUME NEW p \in Processes, WriteRow(p) PROVE BotsInv'
  <2>1. step' = [step EXCEPT ![p] = NoUpdate]
    BY <1>5 DEF WriteRow
  <2>2. \A q \in Processes : step'[q] \in {step[q], NoUpdate}
    BY <1>3, <2>1
  <2>3. torn => torn'
    BY <1>5 DEF WriteRow
  <2>4. step' \in [Processes -> Step] /\ NextFits'
    <3>1. step' = [q \in Processes |-> step'[q]]
      BY <1>3, <2>1
    <3> QED BY <1>0, <2>2, <2>3, <3>1, HandlersGoOn
  <2>5. step[p] \in Step /\ step[p].pc = "write"
    BY <1>3, <1>5 DEF WriteRow
  <2> DEFINE old == step[p].read
             new == step[p].next
  <2>6. old \in Row /\ new \in Row
    BY <2>5 DEF Step
  <2>7. /\ row' = IF old.at = "none" /\ row.at # "none" THEN row
                  ELSE [at |-> IF new.at = old.at THEN row.at ELSE new.at,
                        has |-> IF new.has = old.has THEN row.has ELSE new.has]
        /\ torn' = (torn \/ (row # old /\ row' # row /\ row' # new))
    BY <1>5 DEF WriteRow
  <2>8. ~torn => Fits(new)
    BY <1>0, <2>5 DEF NextFits
  <2> HIDE DEF old, new
  <2>9. row' \in Row
    BY <1>3, <2>6, <2>7 DEF Row
  <2>10. CASE row = old
    <3>1. row' = [at |-> new.at, has |-> new.has] \/ row' = row
      BY <2>7, <2>10
    <3>2. old.at = "none" /\ row.at # "none" <=> FALSE
      BY <2>10
    <3>3. row' = new
      BY <2>6, <2>7, <2>10, <3>2 DEF Row
    <3>4. PayloadFitsState'
      BY <2>3, <2>8, <3>3 DEF PayloadFitsState, Fits
    <3> QED BY <1>2, <1>3, <1>5, <2>4, <2>7, <2>9, <3>4 DEF WriteRow
  <2>11. CASE row # old
    <3>1. ~torn' => ~torn /\ (row' = row \/ row' = new)
      BY <2>7, <2>11
    <3>2. PayloadFitsState'
      BY <1>0, <2>8, <3>1 DEF PayloadFitsState, Fits
    <3> QED BY <1>2, <1>3, <1>5, <2>4, <2>7, <2>9, <3>2 DEF WriteRow
  <2> QED BY <2>10, <2>11
<1>6. ASSUME NEW p \in Processes, ClearRow(p) PROVE BotsInv'
  <2> DEFINE n == [step[p] EXCEPT !.pc = "compute"]
  <2>1. n \in Step /\ n.pc = "compute"
    BY <1>3 DEF Step
  <2>2. step' = [q \in Processes |->
                  IF q = p /\ step[p].next # NoRow THEN n
                  ELSE IF q = p \/ (step[q].pc = "write" /\ step[q].read # NoRow) THEN NoUpdate
                  ELSE step[q]]
    BY <1>6 DEF ClearRow
  <2> HIDE DEF n
  <2>3. \A q \in Processes : step'[q] \in {n, step[q], NoUpdate}
    BY <2>2
  <2>4. step' = [q \in Processes |-> step'[q]] /\ torn' = torn
    BY <1>6, <2>2 DEF ClearRow
  <2>5. step' \in [Processes -> Step] /\ NextFits'
    BY <1>0, <2>1, <2>3, <2>4, HandlersGoOn
  <2>6. row' \in Row /\ Fits(NoRow)
    BY <1>6, RowTypes, FitsMeans DEF ClearRow, NoRow
  <2>7. PayloadFitsState'
    BY <1>6, <2>6 DEF ClearRow, PayloadFitsState, Fits
  <2> QED BY <1>2, <1>3, <1>6, <2>5, <2>6, <2>7 DEF ClearRow
<1>7. ASSUME NEW p \in Processes, Compute(p) PROVE BotsInv'
  <2>1. step' = [step EXCEPT ![p] = NoUpdate] /\ torn' = torn /\ row' = row
    BY <1>7 DEF Compute
  <2>2. (\A q \in Processes : step'[q] \in {step[q], NoUpdate})
        /\ step' = [q \in Processes |-> step'[q]]
    BY <1>3, <2>1
  <2>3. step' \in [Processes -> Step] /\ NextFits'
    BY <1>0, <2>1, <2>2, HandlersGoOn
  <2>4. PayloadFitsState'
    BY <1>0, <2>1 DEF PayloadFitsState, Fits
  <2> QED BY <1>2, <1>3, <1>7, <2>1, <2>3, <2>4 DEF Compute
<1>8. ASSUME NEW u \in Updates, ClaimExpires(u) PROVE BotsInv'
  <2>1. RepeatsAreCounted'
    BY <1>0, <1>8, CountLapses DEF ClaimExpires
  <2>2. BotsTypeOK'
    BY <1>0, <1>8 DEF ClaimExpires, BotsTypeOK
  <2>3. PayloadFitsState' /\ NextFits' /\ HandledOfDelivered'
    BY <1>0, <1>8 DEF ClaimExpires, PayloadFitsState, NextFits, Fits, HandledOfDelivered
  <2> QED BY <2>1, <2>2, <2>3 DEF BotsInv
<1>9. ASSUME NEW p \in Processes, ProcessRestarts(p) PROVE BotsInv'
  <2>1. RepeatsAreCounted'
    BY <1>0, <1>9, CountLapses DEF ProcessRestarts
  <2>2. step' = [step EXCEPT ![p] = NoUpdate] /\ UNCHANGED <<row, msg, claims, delivered, handled, torn>>
        /\ local' = [local EXCEPT ![p] = {}] /\ lapses' \in 0 .. MaxLapses
    BY <1>0, <1>9 DEF ProcessRestarts, BotsTypeOK
  <2>3. (\A q \in Processes : step'[q] \in {step[q], NoUpdate})
        /\ step' = [q \in Processes |-> step'[q]]
    BY <1>3, <2>2
  <2>4. step' \in [Processes -> Step] /\ NextFits'
    BY <1>0, <2>2, <2>3, HandlersGoOn
  <2>5. BotsTypeOK'
    BY <1>0, <2>2, <2>4 DEF BotsTypeOK, Step
  <2>6. PayloadFitsState'
    BY <1>0, <2>2 DEF PayloadFitsState, Fits
  <2>7. HandledOfDelivered'
    BY <1>0, <1>9 DEF ProcessRestarts, HandledOfDelivered
  <2> QED BY <2>1, <2>4, <2>5, <2>6, <2>7 DEF BotsInv
<1>10. CASE UNCHANGED botsVars
  <2>1. BotsTypeOK' /\ RepeatsAreCounted'
    BY <1>0, <1>10, CountsStay DEF botsVars, BotsTypeOK
  <2>2. PayloadFitsState' /\ NextFits' /\ HandledOfDelivered'
    BY <1>0, <1>10 DEF botsVars, PayloadFitsState, NextFits, Fits, HandledOfDelivered
  <2> QED BY <2>1, <2>2 DEF BotsInv
<1> QED
  BY <1>1, <1>4, <1>5, <1>6, <1>7, <1>8, <1>9, <1>10 DEF BotsNext

LEMMA BotsInitially == BotsInit => BotsInv
<1> SUFFICES ASSUME BotsInit PROVE BotsInv
  OBVIOUS
<1>1. PICK at \in StartStages :
         row = [at |-> at, has |-> [f \in Fields |-> IF f \in Presupposed(at) THEN Earlier ELSE Missing]]
  BY DEF BotsInit
<1>2. at \in Stages \union {"none"} /\ Missing # Earlier
  BY BotsAssumption DEF Stages
<1>3. row \in Row
  BY <1>1, <1>2 DEF Row, Payload
<1>4. Presupposed(at) \subseteq Fields
  BY <1>2 DEF Presupposed, Fields, Stages
<1>5. Fits(row)
  BY <1>1, <1>2, <1>4 DEF Fits
<1>6. NoUpdate \in Step /\ NoUpdate.pc = "idle"
  BY RowTypes DEF NoUpdate, Step
<1>7. BotsTypeOK
  <2>1. handled \in [Updates -> 0 .. MaxDeliveries] /\ delivered \in 0 .. MaxDeliveries
        /\ lapses \in 0 .. MaxLapses
    BY BotsAssumption DEF BotsInit
  <2>2. step \in [Processes -> Step] /\ local \in [Processes -> SUBSET Updates]
    BY <1>6 DEF BotsInit
  <2> QED BY <1>3, <2>1, <2>2 DEF BotsInit, BotsTypeOK, Step
<1>8. PayloadFitsState /\ NextFits
  BY <1>5, <1>6 DEF BotsInit, PayloadFitsState, NextFits
<1>9. RepeatsAreCounted
  <2>1. \A u \in Updates : handled[u] = 0 /\ lapses = 0 /\ Cardinality(Holders(u)) \in Nat
    BY HoldersFinite, FS_CardinalityType DEF BotsInit
  <2> QED BY <2>1 DEF RepeatsAreCounted
<1>10. HandledOfDelivered
  BY DEF BotsInit, HandledOfDelivered
<1> QED BY <1>7, <1>8, <1>9, <1>10 DEF BotsInv

LEMMA CountsBound == BotsInv => ConversationKept
<1> SUFFICES ASSUME BotsInv PROVE ConversationKept
  OBVIOUS
<1>1. ASSUME NEW u \in Updates PROVE handled[u] <= 1 + Cardinality(Processes) + lapses
  <2>1. handled[u] <= Cardinality(Holders(u)) + lapses + (IF u \in claims THEN 1 ELSE 0)
    BY DEF BotsInv, RepeatsAreCounted
  <2>2. Holders(u) \subseteq Processes
    BY DEF Holders
  <2>3. Cardinality(Holders(u)) <= Cardinality(Processes)
        /\ Cardinality(Holders(u)) \in Nat /\ Cardinality(Processes) \in Nat
    BY <2>2, BotsAssumption, FS_Subset, FS_CardinalityType
  <2>4. handled[u] \in Nat /\ lapses \in Nat
    BY BotsAssumption DEF BotsInv, BotsTypeOK
  <2> QED BY <2>1, <2>3, <2>4
<1> QED BY <1>1 DEF BotsInv, ConversationKept, RepeatsAreBounded

\* _dedupe_update and _route_by_state, for any number of processes and updates: an update
\* is handled once more per process and per lapse at most, and the dialogue is never ahead
\* of its payload unless a stale row was written over a newer one.
THEOREM ConversationIsKept == BotsSpec => []ConversationKept
<1> QED
  BY BotsInitially, BotsStep, CountsBound, PTL DEF BotsSpec

-----------------------------------------------------------------------------
(* The sections of a report and the budget of a day.  Whenever a run is    *)
(* let in, the money spent is below the budget and the calls that all the  *)
(* runs inside may still make are bounded by their number; each answer     *)
(* moves at most one unit from what may still be spent to what is.         *)

\* The calls answered for a section of a run.
Answered(j, d) == part[j][d].calls - (IF part[j][d].at = "calling" THEN 1 ELSE 0)

Places == Parts \X (1 .. Attempts)

\* The answers that runs under way may still get: the i-th for section d of run j.
Awaited ==
    {t \in Runs \X Places : /\ run[t[1]].pc \in {"writing", "orphaned"}
                            /\ Answered(t[1], t[2][1]) < t[2][2]}

Gone == {j \in Runs : run[j].pc \in {"orphaned", "lost"}}
Room(n) == (Slots + n) * Cardinality(Parts) * Attempts

SpentIsCovered == Spent + Cardinality(Awaited) < Budget + Room(Cardinality(Gone))

CallsFit ==
    \A j \in Runs, d \in Parts :
        /\ part[j][d].at = "waiting" => part[j][d].calls = 0
        /\ part[j][d].at = "calling" => part[j][d].calls >= 1

RunsHavePapers == \A j \in Runs : run[j].pc # "new" => run[j].of \in Papers

SectionInv == SecTypeOK /\ CallsFit /\ RunsHavePapers /\ DoneIsReal /\ SpentIsCovered

LEMMA PlacesCount ==
    /\ IsFiniteSet(Places) /\ Cardinality(Places) = Cardinality(Parts) * Attempts
    /\ Cardinality(Parts) \in Nat \ {0}
<1>1. IsFiniteSet(1 .. Attempts) /\ Cardinality(1 .. Attempts) = Attempts
  BY SectionsAssumption, FS_Interval
<1>2. IsFiniteSet(Parts) /\ Cardinality(Parts) \in Nat /\ Cardinality(Parts) # 0
  BY SectionsAssumption, FS_CardinalityType, FS_EmptySet
<1> QED BY <1>1, <1>2, FS_Product DEF Places

LEMMA RoomType == \A n \in Nat : Room(n) \in Nat /\ Room(n) = (Slots + n) * Cardinality(Places)
<1> SUFFICES ASSUME NEW n \in Nat
             PROVE  Room(n) \in Nat /\ Room(n) = (Slots + n) * Cardinality(Places)
  OBVIOUS
<1> DEFINE k == Cardinality(Parts)
<1>1. k \in Nat /\ Attempts \in Nat /\ Slots + n \in Nat
  BY PlacesCount, SectionsAssumption
<1>2. Room(n) = ((Slots + n) * k) * Attempts /\ Cardinality(Places) = k * Attempts
  BY PlacesCount DEF Room
<1> HIDE DEF k
<1> QED BY <1>1, <1>2

LEMMA RoomGrows == \A m, n \in Nat : m <= n => Room(m) <= Room(n)
<1> SUFFICES ASSUME NEW m \in Nat, NEW n \in Nat, m <= n PROVE Room(m) <= Room(n)
  OBVIOUS
<1> DEFINE k == Cardinality(Places)
<1>1. k \in Nat /\ Slots \in Nat
  BY PlacesCount, FS_CardinalityType, SectionsAssumption
<1>2. Room(m) = (Slots + m) * k /\ Room(n) = (Slots + n) * k
  BY RoomType
<1> HIDE DEF k
<1>3. \A a, b \in Nat : a <= b => a * k <= b * k
  BY <1>1
<1>4. Slots + m \in Nat /\ Slots + n \in Nat /\ Slots + m <= Slots + n
  BY <1>1
<1> QED BY <1>2, <1>3, <1>4

LEMMA GoneCount == IsFiniteSet(Gone) /\ Cardinality(Gone) \in Nat
<1>1. Gone \subseteq Runs
  BY DEF Gone
<1> QED BY <1>1, FS_Subset, FS_CardinalityType, SectionsAssumption

LEMMA AwaitedCount == IsFiniteSet(Awaited) /\ Cardinality(Awaited) \in Nat
<1>1. Awaited \subseteq Runs \X Places
  BY DEF Awaited
<1>2. IsFiniteSet(Runs \X Places)
  BY PlacesCount, FS_Product, SectionsAssumption
<1> QED BY <1>1, <1>2, FS_Subset, FS_CardinalityType

LEMMA SpentIsTotal == Spent = Total(cost, Papers)
  BY DEF Spent, Total

LEMMA SpentType == SecTypeOK => Spent \in Int
<1> SUFFICES ASSUME SecTypeOK PROVE Total(cost, Papers) \in Int
  BY SpentIsTotal
<1>1. cost \in [Papers -> Int]
  BY DEF SecTypeOK
<1> QED BY <1>1, TotalType, SectionsAssumption

\* An answer costs a unit at most.
LEMMA SpentGrows ==
    ASSUME SecTypeOK, NEW p \in Papers, NEW d \in {0, 1}, cost' = [cost EXCEPT ![p] = @ + d]
    PROVE  Spent' = Spent + d
<1>1. cost \in [Papers -> Int] /\ cost' \in [Papers -> Int] /\ cost'[p] = cost[p] + d
      /\ \A q \in Papers \ {p} : cost'[q] = cost[q]
  BY DEF SecTypeOK
<1>2. Total(cost', Papers) = Total(cost, Papers) + d
  <2> DEFINE c == cost'
  <2> HIDE DEF c
  <2>1. c \in [Papers -> Int] /\ c[p] = cost[p] + d /\ \A q \in Papers \ {p} : c[q] = cost[q]
    BY <1>1 DEF c
  <2>2. Total(c, Papers) = Total(cost, Papers) + d
    BY <1>1, <2>1, TotalGrows, SectionsAssumption
  <2> QED BY <2>2 DEF c
<1>3. Spent' = Total(cost', Papers)
  BY DEF Spent, Total, MapThenSumSet, MapThenFoldSet
<1> QED BY <1>2, <1>3, SpentIsTotal

\* A step that costs nothing and lets nobody in.
LEMMA CoveredStays ==
    ASSUME SecTypeOK, SpentIsCovered, cost' = cost, Awaited' \subseteq Awaited, Gone \subseteq Gone',
           Gone' \subseteq Runs
    PROVE  SpentIsCovered'
<1>1. Spent' = Spent
  BY DEF Spent, MapThenSumSet, MapThenFoldSet
<1>2. Cardinality(Awaited') \in Nat /\ Cardinality(Awaited') <= Cardinality(Awaited)
  BY AwaitedCount, FS_Subset, FS_CardinalityType
<1>3. Cardinality(Gone') \in Nat /\ Cardinality(Gone) <= Cardinality(Gone')
  <2>1. IsFiniteSet(Gone')
    BY FS_Subset, SectionsAssumption
  <2> QED BY <2>1, FS_Subset, FS_CardinalityType
<1>4. Room(Cardinality(Gone)) \in Nat /\ Room(Cardinality(Gone')) \in Nat
      /\ Room(Cardinality(Gone)) <= Room(Cardinality(Gone'))
  BY <1>3, GoneCount, RoomType, RoomGrows
<1>5. Spent + Cardinality(Awaited) < Budget + Room(Cardinality(Gone))
  BY DEF SpentIsCovered
<1>6. Spent + Cardinality(Awaited') < Budget + Room(Cardinality(Gone'))
  BY <1>2, <1>4, <1>5, AwaitedCount, SpentType, SectionsAssumption
<1>7. Room(Cardinality(Gone))' = Room(Cardinality(Gone'))
  BY DEF Room
<1> QED BY <1>1, <1>6, <1>7 DEF SpentIsCovered

PartState == [at : {"waiting", "calling", "ok", "fallback", "raised"}, calls : 0 .. Attempts]
RunState == [pc : {"new", "writing", "over", "orphaned", "lost"}, of : Papers \union {"none"}]
PaperState == [status : {"queued", "running", "done", "degraded", "failed"},
               real : SUBSET Parts, capped : BOOLEAN]

LEMMA SectionTypes ==
    ASSUME SecTypeOK
    PROVE  /\ run \in [Runs -> RunState] /\ part \in [Runs -> [Parts -> PartState]]
           /\ paper \in [Papers -> PaperState] /\ cost \in [Papers -> Nat]
           /\ NoParts \in [Parts -> PartState]
  BY SectionsAssumption DEF SecTypeOK, RunState, PartState, PaperState, NoParts

\* Where no run is under way that was not, and no fewer calls are answered, no more
\* answers are awaited.
LEMMA AwaitedStays ==
    ASSUME \A j \in Runs : run'[j].pc \in {"writing", "orphaned"} =>
               run[j].pc \in {"writing", "orphaned"} /\ part'[j] = part[j]
    PROVE  Awaited' \subseteq Awaited
<1> SUFFICES ASSUME NEW t \in Awaited' PROVE t \in Awaited
  OBVIOUS
<1>1. t \in Runs \X Places /\ run'[t[1]].pc \in {"writing", "orphaned"}
      /\ Answered(t[1], t[2][1])' < t[2][2]
  BY DEF Awaited, Places
<1>2. t[1] \in Runs
  BY <1>1
<1>3. Answered(t[1], t[2][1])' = Answered(t[1], t[2][1])
  BY <1>1, <1>2 DEF Answered
<1> QED BY <1>1, <1>2, <1>3 DEF Awaited

\* The runs inside when one is let in.
LEMMA CoveredAtStart ==
    ASSUME SecTypeOK, SectionInv, NEW j \in Runs, NEW p \in Papers,
           run[j].pc = "new", Cardinality(Writing) < Slots, WithinBudget,
           run' = [run EXCEPT ![j] = [pc |-> "writing", of |-> p]], UNCHANGED <<part, cost>>
    PROVE  SpentIsCovered'
<1> DEFINE In == (Writing \union {j}) \union Gone
           Place == Places
<1>1. \A i \in Runs : run'[i].pc = IF i = j THEN "writing" ELSE run[i].pc
  BY SectionTypes
<1>2. Gone' = Gone
  BY <1>1 DEF Gone
<1>3. Spent' = Spent /\ Spent < Budget
  BY DEF Spent, MapThenSumSet, MapThenFoldSet, WithinBudget
<1>4. Writing \subseteq Runs /\ IsFiniteSet(Writing) /\ j \notin Writing
  <2>1. Writing \subseteq Runs /\ j \notin Writing
    BY DEF Writing
  <2> QED BY <2>1, FS_Subset, SectionsAssumption
<1>5. IsFiniteSet(In) /\ Cardinality(In) \in Nat /\ Cardinality(In) <= Slots + Cardinality(Gone)
  <2> DEFINE S == Writing \union {j}
  <2>1. IsFiniteSet(S) /\ Cardinality(S) = Cardinality(Writing) + 1 /\ Cardinality(Writing) \in Nat
    BY <1>4, FS_AddElement, FS_CardinalityType
  <2> HIDE DEF S
  <2>2. IsFiniteSet(S \union Gone) /\ Cardinality(S \union Gone)
                                     = Cardinality(S) + Cardinality(Gone) - Cardinality(S \cap Gone)
    BY <2>1, GoneCount, FS_Union
  <2>3. Cardinality(S \cap Gone) \in Nat
    BY <2>1, FS_Intersection, FS_CardinalityType
  <2>4. Cardinality(S \union Gone) \in Nat
    BY <2>2, FS_CardinalityType
  <2>5. Cardinality(S \union Gone) <= Slots + Cardinality(Gone)
    BY <2>1, <2>2, <2>3, GoneCount, SectionsAssumption
  <2> QED BY <2>2, <2>4, <2>5 DEF S
<1>6. Awaited' \subseteq In \X Place
  <2> SUFFICES ASSUME NEW t \in Awaited' PROVE t \in In \X Place
    OBVIOUS
  <2>1. t \in Runs \X Place /\ run'[t[1]].pc \in {"writing", "orphaned"}
    BY DEF Awaited, Places
  <2>2. t[1] \in In
    BY <1>1, <2>1 DEF Writing, Gone
  <2> HIDE DEF In, Place
  <2> QED BY <2>1, <2>2
<1>7. IsFiniteSet(Place) /\ Cardinality(Place) \in Nat
  BY PlacesCount, FS_CardinalityType
<1> HIDE DEF In
<1>8. /\ Cardinality(Awaited') <= Cardinality(In) * Cardinality(Place)
      /\ Cardinality(Awaited') \in Nat
  <2> HIDE DEF Place
  <2>1. IsFiniteSet(In \X Place) /\ Cardinality(In \X Place) = Cardinality(In) * Cardinality(Place)
    BY <1>5, <1>7, FS_Product
  <2> QED BY <1>6, <2>1, FS_Subset, FS_CardinalityType
<1>9. Room(Cardinality(Gone)) = (Slots + Cardinality(Gone)) * Cardinality(Place)
      /\ Room(Cardinality(Gone)) \in Nat
  BY GoneCount, RoomType
<1> HIDE DEF Place
<1>10. Cardinality(In) * Cardinality(Place) <= (Slots + Cardinality(Gone)) * Cardinality(Place)
  <2> DEFINE k == Cardinality(Place)
  <2>1. k \in Nat
    BY <1>7
  <2> HIDE DEF k
  <2>2. \A a, b \in Nat : a <= b => a * k <= b * k
    BY <2>1
  <2>3. Slots + Cardinality(Gone) \in Nat
    BY GoneCount, SectionsAssumption
  <2>4. Cardinality(In) * k <= (Slots + Cardinality(Gone)) * k
    BY <1>5, <2>2, <2>3
  <2> QED BY <2>4 DEF k
<1>11. Cardinality(Awaited') <= Room(Cardinality(Gone))
  <2>1. Cardinality(In) * Cardinality(Place) \in Nat
    BY <1>5, <1>7
  <2> QED BY <1>8, <1>9, <1>10, <2>1
<1>12. Spent + Cardinality(Awaited') < Budget + Room(Cardinality(Gone))
  BY <1>3, <1>8, <1>9, <1>11, SpentType, SectionsAssumption
<1>13. Room(Cardinality(Gone))' = Room(Cardinality(Gone))
  BY <1>2 DEF Room
<1> QED BY <1>3, <1>12, <1>13 DEF SpentIsCovered

\* An answer that was awaited comes.
LEMMA CoveredAtAnswer ==
    ASSUME SectionInv, NEW j \in Runs, NEW d \in Parts, NEW metered \in BOOLEAN, NEW how,
           Answer(j, d, metered, how)
    PROVE  SpentIsCovered'
<1> DEFINE n == part[j][d].calls
           t == <<j, <<d, n>>>>
<1>1. n \in 1 .. Attempts /\ part[j][d].at = "calling" /\ run[j].pc \in {"writing", "orphaned"}
  <2>1. part[j][d] \in PartState
    BY SectionTypes DEF SectionInv
  <2> QED BY <2>1 DEF SectionInv, CallsFit, Answer, PartState
<1>2. t \in Awaited
  BY <1>1 DEF Awaited, Places, Answered
<1>3. Awaited' \subseteq Awaited \ {t}
  <2> SUFFICES ASSUME NEW s \in Awaited' PROVE s \in Awaited /\ s # t
    OBVIOUS
  <2>1. s \in Runs \X Places /\ run[s[1]].pc \in {"writing", "orphaned"}
        /\ Answered(s[1], s[2][1])' < s[2][2]
    BY DEF Awaited, Places, Answer
  <2>2. PICK i \in Runs, e \in Parts, m \in 1 .. Attempts : s = <<i, <<e, m>>>>
    BY <2>1 DEF Places
  <2>3. run[i].pc \in {"writing", "orphaned"} /\ Answered(i, e)' < m
    BY <2>1, <2>2
  <2>4. CASE i = j /\ e = d
    <3>1. part' = [part EXCEPT ![j][d] =
                      CASE how = "good" -> [at |-> "ok", calls |-> n]
                        [] how = "raises" -> [at |-> "raised", calls |-> n]
                        [] how = "bad" /\ n < Attempts -> [at |-> "calling", calls |-> n + 1]
                        [] OTHER -> [at |-> "fallback", calls |-> n]]
      BY DEF Answer
    <3> DEFINE c == CASE how = "good" -> [at |-> "ok", calls |-> n]
                        [] how = "raises" -> [at |-> "raised", calls |-> n]
                        [] how = "bad" /\ n < Attempts -> [at |-> "calling", calls |-> n + 1]
                        [] OTHER -> [at |-> "fallback", calls |-> n]
    <3>2. \/ c.at # "calling" /\ c.calls = n
          \/ c.at = "calling" /\ c.calls = n + 1
      OBVIOUS
    <3> HIDE DEF c, n
    <3>3. part'[j][d] = c
      BY <3>1, SectionTypes DEF SectionInv, c
    <3>4. Answered(j, d)' = n
      BY <1>1, <3>2, <3>3 DEF Answered
    <3>5. m > n
      BY <1>1, <2>2, <2>3, <2>4, <3>4
    <3>6. Answered(j, d) < m
      BY <1>1, <3>5 DEF Answered, n
    <3>7. s \in Awaited
      BY <2>1, <2>2, <2>3, <2>4, <3>6 DEF Awaited
    <3> QED BY <1>1, <2>2, <3>5, <3>7
  <2>5. CASE ~ (i = j /\ e = d)
    <3>1. part'[i][e] = part[i][e]
      BY <2>5, SectionTypes DEF SectionInv, Answer
    <3>2. Answered(i, e)' = Answered(i, e)
      BY <3>1 DEF Answered
    <3>3. s \in Awaited
      BY <2>1, <2>2, <2>3, <3>2 DEF Awaited
    <3> QED BY <2>2, <2>5, <3>3
  <2> QED BY <2>4, <2>5
<1> HIDE DEF t
<1>4. /\ Cardinality(Awaited') \in Nat /\ Cardinality(Awaited) \in Nat
      /\ Cardinality(Awaited') + 1 <= Cardinality(Awaited)
  <2>1. Cardinality(Awaited \ {t}) = Cardinality(Awaited) - 1 /\ IsFiniteSet(Awaited \ {t})
    BY <1>2, AwaitedCount, FS_RemoveElement
  <2>2. Cardinality(Awaited') <= Cardinality(Awaited \ {t}) /\ Cardinality(Awaited') \in Nat
    BY <1>3, <2>1, FS_Subset, FS_CardinalityType
  <2> QED BY <2>1, <2>2, AwaitedCount
<1>5. Spent' \in Int /\ Spent' <= Spent + 1
  <2>1. run[j].of \in Papers /\ SecTypeOK
    BY <1>1 DEF SectionInv, RunsHavePapers
  <2>2. CASE metered
    <3>1. Spent' = Spent + 1
      BY <2>1, <2>2, SpentGrows DEF Answer
    <3> QED BY <2>1, <3>1, SpentType
  <2>3. CASE ~metered
    <3>1. Spent' = Spent
      BY <2>3 DEF Answer, Spent, MapThenSumSet, MapThenFoldSet
    <3> QED BY <2>1, <3>1, SpentType
  <2> QED BY <2>2, <2>3
<1>6. Gone' = Gone
  BY DEF Answer, Gone
<1>7. Spent \in Int /\ Room(Cardinality(Gone)) \in Nat /\ Room(Cardinality(Gone))' = Room(Cardinality(Gone))
  BY <1>6, SpentType, GoneCount, RoomType DEF SectionInv, Room
<1>8. Spent + Cardinality(Awaited) < Budget + Room(Cardinality(Gone))
  BY DEF SectionInv, SpentIsCovered
<1>9. Spent' + Cardinality(Awaited') < Budget + Room(Cardinality(Gone))
  BY <1>4, <1>5, <1>7, <1>8, SectionsAssumption
<1> QED BY <1>7, <1>9 DEF SpentIsCovered

\* What stays of a run when one of its fields is set.
LEMMA RunMoves ==
    ASSUME SectionInv, NEW j \in Runs, NEW n \in RunState, run' = [run EXCEPT ![j] = n],
           n.pc # "new" => n.of \in Papers
    PROVE  run' \in [Runs -> RunState] /\ RunsHavePapers'
  BY SectionTypes DEF SectionInv, RunsHavePapers

\* The verdict on a report is as DoneIsReal says.
LEMMA PaperMoves ==
    ASSUME SectionInv, NEW p \in Papers, NEW n \in PaperState, paper' = [paper EXCEPT ![p] = n],
           n.status = "done" => n.real = Parts \/ n.capped
    PROVE  paper' \in [Papers -> PaperState] /\ DoneIsReal'
  BY SectionTypes DEF SectionInv, DoneIsReal

LEMMA PartMoves ==
    ASSUME SectionInv, NEW j \in Runs, NEW d \in Parts, NEW n \in PartState,
           part' = [part EXCEPT ![j][d] = n],
           n.at = "waiting" => n.calls = 0, n.at = "calling" => n.calls >= 1
    PROVE  part' \in [Runs -> [Parts -> PartState]] /\ CallsFit'
<1>1. part \in [Runs -> [Parts -> PartState]]
  BY SectionTypes DEF SectionInv
<1>2. part' \in [Runs -> [Parts -> PartState]]
  BY <1>1
<1>3. \A i \in Runs, e \in Parts : part'[i][e] = IF i = j /\ e = d THEN n ELSE part[i][e]
  BY <1>1
<1> QED BY <1>2, <1>3 DEF SectionInv, CallsFit

LEMMA SectionTypesBack ==
    ASSUME run' \in [Runs -> RunState], part' \in [Runs -> [Parts -> PartState]],
           paper' \in [Papers -> PaperState], cost' \in [Papers -> Nat]
    PROVE  SecTypeOK'
  BY DEF SecTypeOK, RunState, PartState, PaperState

LEMMA SectionsStep == SectionInv /\ [SecNext]_secVars => SectionInv'
<1> SUFFICES ASSUME SectionInv, [SecNext]_secVars PROVE SectionInv'
  OBVIOUS
<1>0. /\ SecTypeOK /\ CallsFit /\ RunsHavePapers /\ DoneIsReal /\ SpentIsCovered
      /\ run \in [Runs -> RunState] /\ part \in [Runs -> [Parts -> PartState]]
      /\ paper \in [Papers -> PaperState] /\ cost \in [Papers -> Nat]
      /\ NoParts \in [Parts -> PartState]
  BY SectionTypes DEF SectionInv
<1>1. ASSUME NEW j \in Runs, NEW p \in Papers, StartRun(j, p) PROVE SectionInv'
  <2>1. part' = part /\ cost' = cost /\ CallsFit'
    BY <1>0, <1>1 DEF StartRun, CallsFit
  <2>2. CASE WithinBudget
    <3> DEFINE r == [pc |-> "writing", of |-> p]
               n == [paper[p] EXCEPT !.status = "running"]
    <3>1. run' = [run EXCEPT ![j] = r] /\ r \in RunState /\ r.of \in Papers
      BY <1>1, <2>2 DEF StartRun, RunState
    <3>2. paper' = [paper EXCEPT ![p] = n] /\ n \in PaperState /\ n.status = "running"
      BY <1>0, <1>1, <2>2 DEF StartRun, PaperState
    <3>3. SpentIsCovered'
      BY <1>0, <1>1, <2>2, <3>1, CoveredAtStart DEF StartRun
    <3> HIDE DEF r, n
    <3>4. run' \in [Runs -> RunState] /\ RunsHavePapers'
      BY <3>1, RunMoves
    <3>5. paper' \in [Papers -> PaperState] /\ DoneIsReal'
      BY <3>2, PaperMoves
    <3> QED BY <1>0, <2>1, <3>3, <3>4, <3>5, SectionTypesBack DEF SectionInv
  <2>3. CASE ~WithinBudget
    <3> DEFINE r == [pc |-> "over", of |-> p]
               n == [status |-> "degraded", real |-> {}, capped |-> FALSE]
    <3>1. run' = [run EXCEPT ![j] = r] /\ r \in RunState /\ r.of \in Papers /\ r.pc = "over"
          /\ run[j].pc = "new"
      BY <1>1, <2>3 DEF StartRun, RunState
    <3>2. paper' = [paper EXCEPT ![p] = n] /\ n \in PaperState /\ n.status = "degraded"
      BY <1>1, <2>3 DEF StartRun, PaperState
    <3> HIDE DEF r, n
    <3>3. SpentIsCovered'
      <4>1. Awaited' \subseteq Awaited
        BY <1>0, <2>1, <3>1, AwaitedStays
      <4>2. Gone' = Gone
        BY <1>0, <3>1 DEF Gone
      <4> QED BY <1>0, <2>1, <4>1, <4>2, CoveredStays DEF Gone
    <3>4. run' \in [Runs -> RunState] /\ RunsHavePapers'
      BY <3>1, RunMoves
    <3>5. paper' \in [Papers -> PaperState] /\ DoneIsReal'
      BY <3>2, PaperMoves
    <3> QED BY <1>0, <2>1, <3>3, <3>4, <3>5, SectionTypesBack DEF SectionInv
  <2> QED BY <2>2, <2>3
<1>2. ASSUME NEW j \in Runs, FinishRun(j) PROVE SectionInv'
  <2> DEFINE p == run[j].of
             real == SectionsAt(j, {"ok"})
             capped == cost[p] >= Cap
             n == [status |-> Verdict(real, capped), real |-> real, capped |-> capped]
             r == [run[j] EXCEPT !.pc = "over"]
  <2>1. p \in Papers /\ run[j].pc = "writing"
    BY <1>0, <1>2 DEF FinishRun, RunsHavePapers
  <2>2. r \in RunState /\ r.of \in Papers /\ r.pc = "over" /\ run' = [run EXCEPT ![j] = r]
    BY <1>0, <1>2, <2>1 DEF FinishRun, RunState
  <2>3. paper' = [paper EXCEPT ![p] = n] /\ part' = [part EXCEPT ![j] = NoParts] /\ cost' = cost
    BY <1>2 DEF FinishRun
  <2>4. n \in PaperState /\ (n.status = "done" => n.real = Parts \/ n.capped)
    <3>1. real \in SUBSET Parts /\ capped \in BOOLEAN
      BY DEF SectionsAt
    <3> HIDE DEF real, capped
    <3> QED BY <3>1 DEF Verdict, PaperState
  <2> HIDE DEF n, r, p
  <2>5. run' \in [Runs -> RunState] /\ RunsHavePapers'
    BY <2>2, RunMoves
  <2>6. paper' \in [Papers -> PaperState] /\ DoneIsReal'
    BY <2>1, <2>3, <2>4, PaperMoves
  <2>7. part' \in [Runs -> [Parts -> PartState]] /\ CallsFit'
    <3>1. \A i \in Runs : part'[i] = IF i = j THEN NoParts ELSE part[i]
      BY <1>0, <2>3
    <3>2. \A e \in Parts : NoParts[e].at = "waiting" /\ NoParts[e].calls = 0
      BY DEF NoParts
    <3> QED BY <1>0, <2>3, <3>1, <3>2 DEF CallsFit
  <2>8. SpentIsCovered'
    <3>1. Awaited' \subseteq Awaited
      BY <1>0, <2>2, <2>3, AwaitedStays
    <3>2. Gone' = Gone
      BY <1>0, <2>1, <2>2 DEF Gone
    <3> QED BY <1>0, <2>3, <3>1, <3>2, CoveredStays DEF Gone
  <2> QED BY <1>0, <2>3, <2>5, <2>6, <2>7, <2>8, SectionTypesBack DEF SectionInv
<1>3. ASSUME NEW j \in Runs, FailRun(j) PROVE SectionInv'
  <2> DEFINE p == run[j].of
             n == [paper[p] EXCEPT !.status = "failed"]
             r == [run[j] EXCEPT !.pc = "orphaned"]
  <2>1. p \in Papers /\ run[j].pc = "writing"
    BY <1>0, <1>3 DEF FailRun, RunsHavePapers
  <2>2. r \in RunState /\ r.of \in Papers /\ r.pc = "orphaned" /\ run' = [run EXCEPT ![j] = r]
    BY <1>0, <1>3, <2>1 DEF FailRun, RunState
  <2>3. paper' = [paper EXCEPT ![p] = n] /\ part' = part /\ cost' = cost
    BY <1>3, <1>0, <2>1 DEF FailRun
  <2>4. n \in PaperState /\ n.status = "failed"
    <3> HIDE DEF p
    <3>1. paper[p] \in PaperState
      BY <1>0, <2>1
    <3> QED BY <3>1 DEF PaperState
  <2> HIDE DEF n, r, p
  <2>5. run' \in [Runs -> RunState] /\ RunsHavePapers'
    BY <2>2, RunMoves
  <2>6. paper' \in [Papers -> PaperState] /\ DoneIsReal'
    BY <2>1, <2>3, <2>4, PaperMoves
  <2>7. CallsFit'
    BY <1>0, <2>3 DEF CallsFit
  <2>8. SpentIsCovered'
    <3>1. Awaited' \subseteq Awaited
      BY <1>0, <2>1, <2>2, <2>3, AwaitedStays
    <3>2. Gone \subseteq Gone' /\ Gone' \subseteq Runs
      BY <1>0, <2>1, <2>2 DEF Gone
    <3> QED BY <1>0, <2>3, <3>1, <3>2, CoveredStays
  <2> QED BY <1>0, <2>3, <2>5, <2>6, <2>7, <2>8, SectionTypesBack DEF SectionInv
<1>4. ASSUME NEW j \in Runs, NEW d \in Parts, BeginSection(j, d) PROVE SectionInv'
  <2> DEFINE n == [at |-> "calling", calls |-> 1]
  <2>1. n \in PartState /\ n.at = "calling" /\ n.calls = 1 /\ n.at # "waiting" /\ n.calls >= 1
    BY SectionsAssumption DEF PartState
  <2>2. part' = [part EXCEPT ![j][d] = n] /\ UNCHANGED <<run, cost, paper>>
    BY <1>4 DEF BeginSection
  <2> HIDE DEF n
  <2>3. part' \in [Runs -> [Parts -> PartState]] /\ CallsFit'
    BY <2>1, <2>2, PartMoves
  <2>4. RunsHavePapers' /\ DoneIsReal'
    BY <1>0, <2>2 DEF RunsHavePapers, DoneIsReal
  <2>5. SpentIsCovered'
    <3>1. Awaited' \subseteq Awaited
      <4> SUFFICES ASSUME NEW t \in Awaited' PROVE t \in Awaited
        OBVIOUS
      <4>1. t \in Runs \X Places /\ run[t[1]].pc \in {"writing", "orphaned"}
            /\ Answered(t[1], t[2][1])' < t[2][2]
        BY <2>2 DEF Awaited, Places
      <4>2. PICK i \in Runs, e \in Parts, m \in 1 .. Attempts : t = <<i, <<e, m>>>>
        BY <4>1 DEF Places
      <4>3. Answered(i, e)' = Answered(i, e)
        <5>1. part'[i][e] = IF i = j /\ e = d THEN n ELSE part[i][e]
          BY <1>0, <2>2
        <5>2. part[j][d].at = "waiting" /\ part[j][d].calls = 0
          BY <1>0, <1>4 DEF BeginSection, CallsFit
        <5> QED BY <2>1, <5>1, <5>2 DEF Answered
      <4> QED BY <4>1, <4>2, <4>3 DEF Awaited
    <3>2. Gone' = Gone
      BY <2>2 DEF Gone
    <3> QED BY <1>0, <2>2, <3>1, <3>2, CoveredStays DEF Gone
  <2> QED BY <1>0, <2>2, <2>3, <2>4, <2>5, SectionTypesBack DEF SectionInv
<1>5. ASSUME NEW j \in Runs, NEW d \in Parts, NEW metered \in BOOLEAN,
             NEW how \in {"good", "bad", "raises"}, Answer(j, d, metered, how)
      PROVE  SectionInv'
  <2> DEFINE k == part[j][d].calls
             n == CASE how = "good" -> [at |-> "ok", calls |-> k]
                    [] how = "raises" -> [at |-> "raised", calls |-> k]
                    [] how = "bad" /\ k < Attempts -> [at |-> "calling", calls |-> k + 1]
                    [] OTHER -> [at |-> "fallback", calls |-> k]
  <2>1. k \in 1 .. Attempts
    <3>1. part[j][d] \in PartState
      BY <1>0
    <3> QED BY <1>0, <1>5, <3>1 DEF CallsFit, Answer, PartState
  <2>2. part' = [part EXCEPT ![j][d] = n] /\ UNCHANGED <<run, paper>>
    BY <1>5 DEF Answer
  <2>3. n \in PartState /\ n.at # "waiting" /\ (n.at = "calling" => n.calls >= 1)
    <3> HIDE DEF k
    <3> QED BY <2>1, SectionsAssumption DEF PartState
  <2> HIDE DEF n
  <2>4. part' \in [Runs -> [Parts -> PartState]] /\ CallsFit'
    BY <2>2, <2>3, PartMoves
  <2>5. RunsHavePapers' /\ DoneIsReal'
    BY <1>0, <2>2 DEF RunsHavePapers, DoneIsReal
  <2>6. SpentIsCovered'
    BY <1>5, CoveredAtAnswer
  <2>7. cost' \in [Papers -> Nat]
    <3>1. run[j].of \in Papers
      BY <1>0, <1>5 DEF Answer, RunsHavePapers
    <3> QED BY <1>0, <1>5, <3>1 DEF Answer
  <2> QED BY <1>0, <2>2, <2>4, <2>5, <2>6, <2>7, SectionTypesBack DEF SectionInv
<1>6. CASE WorkerDies
  <2>1. run' = [j \in Runs |-> CASE j \in Writing -> [run[j] EXCEPT !.pc = "over"]
                                [] j \in Orphaned -> [run[j] EXCEPT !.pc = "lost"]
                                [] OTHER -> run[j]]
    BY <1>6 DEF WorkerDies
  <2>2. \A j \in Runs : \/ run[j].pc = "writing" /\ run'[j] = [run[j] EXCEPT !.pc = "over"]
                        \/ run[j].pc = "orphaned" /\ run'[j] = [run[j] EXCEPT !.pc = "lost"]
                        \/ run[j].pc \notin {"writing", "orphaned"} /\ run'[j] = run[j]
    BY <2>1 DEF Writing, Orphaned
  <2>3. \A j \in Runs : /\ run'[j] \in RunState /\ run'[j].of = run[j].of
                         /\ run'[j].pc \notin {"writing", "orphaned"}
                         /\ (run'[j].pc = "new" <=> run[j].pc = "new")
                         /\ (run'[j].pc \in {"orphaned", "lost"} <=> run[j].pc \in {"orphaned", "lost"})
    BY <1>0, <2>2 DEF RunState
  <2>4. run' \in [Runs -> RunState] /\ RunsHavePapers'
    BY <1>0, <2>1, <2>3 DEF RunsHavePapers
  <2>5. paper' = [p \in Papers |-> IF \E j \in Writing : run[j].of = p
                                  THEN [paper[p] EXCEPT !.status = "queued"] ELSE paper[p]]
        /\ part' = [j \in Runs |-> NoParts] /\ cost' = cost
    BY <1>6 DEF WorkerDies
  <2>6. paper' \in [Papers -> PaperState] /\ DoneIsReal'
    <3>1. \A p \in Papers : paper'[p] \in {paper[p], [paper[p] EXCEPT !.status = "queued"]}
      BY <2>5
    <3>2. \A n \in PaperState : /\ [n EXCEPT !.status = "queued"] \in PaperState
                                /\ [n EXCEPT !.status = "queued"].status = "queued"
      BY DEF PaperState
    <3>3. ASSUME NEW p \in Papers
          PROVE  paper'[p] \in PaperState /\ (paper'[p] = paper[p] \/ paper'[p].status = "queued")
      <4> DEFINE n == paper[p]
      <4>1. n \in PaperState
        BY <1>0
      <4>2. paper'[p] = n \/ paper'[p] = [n EXCEPT !.status = "queued"]
        BY <3>1
      <4> HIDE DEF n
      <4>3. paper'[p] \in PaperState /\ (paper'[p] = n \/ paper'[p].status = "queued")
        BY <3>2, <4>1, <4>2
      <4> QED BY <4>3 DEF n
    <3> QED BY <1>0, <2>5, <3>3 DEF DoneIsReal
  <2>7. part' \in [Runs -> [Parts -> PartState]] /\ CallsFit'
    <3>1. \A e \in Parts : NoParts[e].at = "waiting" /\ NoParts[e].calls = 0
      BY DEF NoParts
    <3>2. \A i \in Runs : part'[i] = NoParts
      BY <2>5
    <3> QED BY <1>0, <2>5, <3>1, <3>2 DEF CallsFit
  <2>8. SpentIsCovered'
    <3>1. Awaited' \subseteq Awaited
      BY <2>3, AwaitedStays
    <3>2. Gone' = Gone
      BY <2>3 DEF Gone
    <3> QED BY <1>0, <2>5, <3>1, <3>2, CoveredStays DEF Gone
  <2> QED BY <1>0, <2>4, <2>5, <2>6, <2>7, <2>8, SectionTypesBack DEF SectionInv
<1>7. CASE UNCHANGED secVars
  <2>1. SecTypeOK' /\ CallsFit' /\ RunsHavePapers' /\ DoneIsReal'
    BY <1>0, <1>7 DEF secVars, SecTypeOK, CallsFit, RunsHavePapers, DoneIsReal
  <2>2. SpentIsCovered'
    <3>1. Awaited' \subseteq Awaited
      BY <1>7, AwaitedStays DEF secVars
    <3> QED BY <1>0, <1>7, <3>1, CoveredStays DEF secVars, Gone
  <2> QED BY <2>1, <2>2 DEF SectionInv
<1> QED BY <1>1, <1>2, <1>3, <1>4, <1>5, <1>6, <1>7 DEF SecNext

LEMMA SectionsInitially == SecInit => SectionInv
<1> SUFFICES ASSUME SecInit PROVE SectionInv
  OBVIOUS
<1>1. SecTypeOK /\ CallsFit /\ RunsHavePapers /\ DoneIsReal
  BY SectionsAssumption DEF SecInit, SecTypeOK, NoParts, CallsFit, RunsHavePapers, DoneIsReal
<1>2. Spent = 0
  <2>1. cost \in [Papers -> Int] /\ \A p \in Papers : cost[p] = 0
    BY DEF SecInit
  <2> QED BY <2>1, SpentIsTotal, TotalOfZeros, SectionsAssumption
<1>3. Awaited = {} /\ Gone = {}
  BY DEF SecInit, Awaited, Gone
<1>4. Cardinality(Awaited) = 0 /\ Cardinality(Gone) = 0
  BY <1>3, FS_EmptySet
<1>5. Room(0) >= 1
  <2> DEFINE k == Cardinality(Parts)
  <2>1. k \in Nat /\ k >= 1 /\ Slots \in Nat /\ Slots >= 1 /\ Attempts \in Nat /\ Attempts >= 1
    BY PlacesCount, SectionsAssumption
  <2>2. Room(0) = Slots * k * Attempts
    BY <2>1 DEF Room
  <2> HIDE DEF k
  <2>3. Slots * k \in Nat /\ Slots * k >= 1
    BY <2>1
  <2>4. \A a, b \in Nat : a >= 1 /\ b >= 1 => a * b >= 1
    OBVIOUS
  <2> QED BY <2>1, <2>2, <2>3, <2>4
<1>6. SpentIsCovered
  <2>1. Budget \in Nat /\ Room(0) \in Nat
    BY SectionsAssumption, RoomType
  <2>2. Spent + Cardinality(Awaited) < Budget + Room(0)
    BY <1>2, <1>4, <1>5, <2>1
  <2> QED BY <1>4, <2>2 DEF SpentIsCovered
<1> QED BY <1>1, <1>6 DEF SectionInv

LEMMA OvershootIsBounded == SectionInv => VerdictAndBudget
<1> SUFFICES ASSUME SectionInv PROVE OvershootBounded
  BY DEF SectionInv, VerdictAndBudget
<1>1. Spent \in Int /\ Room(Cardinality(Gone)) \in Nat
  BY SpentType, GoneCount, RoomType DEF SectionInv
<1>2. Spent + Cardinality(Awaited) < Budget + Room(Cardinality(Gone))
  BY DEF SectionInv, SpentIsCovered
<1>3. Spent < Budget + Room(Cardinality(Gone))
  BY <1>1, <1>2, AwaitedCount, SectionsAssumption
<1> QED BY <1>3 DEF OvershootBounded, Room, Gone

\* generate_report and generate_sections_async, for any numbers of runs, reports, sections
\* and attempts: the "hard daily cost ceiling" is passed by what the runs inside may still
\* cost and by no more, and a report that is done consists of real sections or has
\* reached its own cap.
THEOREM BudgetAndVerdictHold == SecSpec => []VerdictAndBudget
<1> QED
  BY SectionsInitially, SectionsStep, OvershootIsBounded, PTL DEF SecSpec

-----------------------------------------------------------------------------
(* The catalogue.                                                          *)

SeedsPrices == {"legacy", "up"}

\* A row is there once it was read or seeded, and costs what was asked for it last.
RowsKept ==
    /\ \A o \in Offers : asked[o] = IF offer[o] = NoOffer THEN SeedCost(o) ELSE offer[o].cost
    /\ \A w \in Starters, o \in Offers : starter[w].seen[o] # NoOffer => offer[o] # NoOffer
    /\ \A w \in Starters : starter[w].at \in PlansDone => \A o \in PlanRows : offer[o] # NoOffer
    /\ \A w \in Starters : starter[w].at \in SeedsPrices => \A o \in PriceRows : offer[o] # NoOffer
    /\ \A w \in Starters : starter[w].at \in {"prices", "legacy", "up"} => launch \/ w \in unlucky

\* What is retired is for sale only where it was switched, or where this worker is going to
\* write it.
RetiredKept ==
    \A w \in Starters, o \in PlanRows :
       SeedSale(o) = "off" /\ offer[o].sale /\ o \notin switched[w] =>
          /\ starter[w].at \notin PlansDone
          /\ starter[w].at = "plans" /\ starter[w].seen[o] # NoOffer => starter[w].seen[o].sale

\* A price that was right when it was read still is.
PricesRight ==
    \A w \in Starters, o \in PriceRows :
       offer[o].sale # (SeedSale(o) = "on") =>
          /\ starter[w].at \notin SeedsPrices
          /\ starter[w].at = "prices" /\ starter[w].seen[o] # NoOffer =>
                starter[w].seen[o].sale # (SeedSale(o) = "on")

CatalogInv == CatalogTypeOK /\ RowsKept /\ RetiredKept /\ PricesRight

\* A row is an offer or none, and can be told from none.
LEMMA OfferParts ==
    ASSUME NEW r \in Offer \union {NoOffer}
    PROVE  /\ r = [cost |-> r.cost, sale |-> r.sale] /\ r.sale \in BOOLEAN /\ r.cost \in Costs \union {0}
           /\ r # NoOffer => r \in Offer
           /\ r # NoOffer <=> r.cost # 0
<1>1. 0 \notin Costs /\ NoOffer.cost = 0
  BY CatalogAssumption DEF NoOffer
<1>2. r \in Offer => r = [cost |-> r.cost, sale |-> r.sale] /\ r.sale \in BOOLEAN /\ r.cost \in Costs
  BY DEF Offer
<1>3. r = NoOffer => r = [cost |-> r.cost, sale |-> r.sale] /\ r.sale \in BOOLEAN
  BY DEF NoOffer
<1> QED BY <1>1, <1>2, <1>3

\* What a seed writes where nobody else has inserted the row.
LEMMA WhatIsWritten ==
    ASSUME CatalogTypeOK, NEW o \in Offers, NEW seen \in Offer \union {NoOffer},
           seen = NoOffer <=> offer[o] = NoOffer
    PROVE  /\ Written(o, seen) \in Offer /\ Written(o, seen) # NoOffer
           /\ Written(o, seen).cost = IF seen = NoOffer THEN SeedCost(o) ELSE offer[o].cost
           /\ Written(o, seen).sale =
                 IF seen = NoOffer THEN SeedSale(o) # "off"
                 ELSE IF SeedSale(o) = "unsaid" \/ (SeedSale(o) = "on") = seen.sale THEN offer[o].sale
                      ELSE SeedSale(o) = "on"
<1>1. offer[o] \in Offer \union {NoOffer} /\ SeedCost(o) \in Costs /\ 0 \notin Costs
  BY CatalogAssumption DEF CatalogTypeOK
<1>2. CASE seen = NoOffer
  <2> DEFINE on == SeedSale(o) # "off"
  <2>1. Written(o, seen) = [cost |-> SeedCost(o), sale |-> on] /\ on \in BOOLEAN
    BY <1>2 DEF Written, Fresh
  <2>2. SeedCost(o) # 0
    BY <1>1
  <2> HIDE DEF on
  <2>3. Written(o, seen) \in Offer /\ Written(o, seen).cost = SeedCost(o) /\ Written(o, seen).sale = on
    BY <1>1, <2>1 DEF Offer
  <2> QED BY <1>2, <2>2, <2>3 DEF NoOffer, on
<1>3. CASE seen # NoOffer
  <2>1. /\ seen = [cost |-> seen.cost, sale |-> seen.sale] /\ seen.sale \in BOOLEAN
        /\ offer[o] = [cost |-> offer[o].cost, sale |-> offer[o].sale] /\ offer[o].sale \in BOOLEAN
        /\ offer[o].cost \in Costs
    BY <1>1, <1>3, OfferParts DEF Offer
  <2>2. /\ Refreshed(seen, o).cost = seen.cost
        /\ Refreshed(seen, o).sale = IF SeedSale(o) = "unsaid" THEN seen.sale ELSE SeedSale(o) = "on"
    BY <2>1 DEF Refreshed
  <2>3. Written(o, seen) = [offer[o] EXCEPT !.cost = @,
                               !.sale = IF Refreshed(seen, o).sale = seen.sale THEN @
                                        ELSE Refreshed(seen, o).sale]
    BY <1>3, <2>2 DEF Written
  <2>4. Written(o, seen) = [cost |-> offer[o].cost,
                            sale |-> IF Refreshed(seen, o).sale = seen.sale THEN offer[o].sale
                                     ELSE Refreshed(seen, o).sale]
    BY <2>1, <2>3
  <2>5. Refreshed(seen, o).sale \in BOOLEAN
    BY <2>1, <2>2
  <2> QED BY <1>1, <1>3, <2>1, <2>2, <2>4, <2>5 DEF Offer, NoOffer
<1> QED BY <1>2, <1>3

LEMMA SeedKeeps ==
    ASSUME CatalogInv, NEW w \in Starters,
           \/ SeedPlans(w)
           \/ SeedPrices(w)
    PROVE  CatalogInv'
<1> PICK these, next :
       /\ Seed(w, these, next)
       /\ \/ these = PlanRows /\ next = "coupon" /\ starter[w].at = "plans"
          \/ these = PriceRows /\ next = "legacy" /\ starter[w].at = "prices"
  BY DEF SeedPlans, SeedPrices
<1> DEFINE seen == starter[w].seen
<1>1. /\ starter \in [Starters -> [at : StartSteps, seen : [Offers -> Offer \union {NoOffer}]]]
      /\ seen \in [Offers -> Offer \union {NoOffer}] /\ Stopped \in [at : StartSteps, seen : [Offers -> Offer \union {NoOffer}]]
      /\ Stopped.at = "down" /\ \A o \in Offers : Stopped.seen[o] = NoOffer
      /\ next \in StartSteps /\ these \subseteq Offers
  BY DEF CatalogInv, CatalogTypeOK, Stopped, StartSteps, Offers
<1>2. UNCHANGED <<launch, asked, switched, unlucky>>
  BY DEF Seed
<1>3. CASE Clash(w, these)
  <2>1. starter' = [starter EXCEPT ![w] = Stopped] /\ offer' = offer
    BY <1>3 DEF Seed
  <2>2. \A v \in Starters : starter'[v] = IF v = w THEN Stopped ELSE starter[v]
    BY <1>1, <2>1
  <2>3. CatalogTypeOK'
    BY <1>1, <1>2, <2>1 DEF CatalogInv, CatalogTypeOK
  <2> QED
    BY <1>1, <1>2, <2>1, <2>2, <2>3
       DEF CatalogInv, RowsKept, RetiredKept, PricesRight, PlansDone, SeedsPrices
<1>4. CASE ~Clash(w, these)
  <2> DEFINE S == [Stopped EXCEPT !.at = next]
  <2>1. /\ starter' = [starter EXCEPT ![w] = S]
        /\ offer' = [o \in Offers |-> IF o \in these THEN Written(o, starter[w].seen[o]) ELSE offer[o]]
    BY <1>4 DEF Seed
  <2>2. /\ S \in [at : StartSteps, seen : [Offers -> Offer \union {NoOffer}]]
        /\ S.at = next /\ \A o \in Offers : S.seen[o] = NoOffer
    BY <1>1 DEF Stopped
  <2> HIDE DEF S
  <2>3. \A v \in Starters : starter'[v] = IF v = w THEN S ELSE starter[v]
    BY <1>1, <2>1
  <2>4. ASSUME NEW o \in these
        PROVE  /\ seen[o] = NoOffer <=> offer[o] = NoOffer
               /\ offer'[o] \in Offer /\ offer'[o] # NoOffer
               /\ offer'[o].cost = IF seen[o] = NoOffer THEN SeedCost(o) ELSE offer[o].cost
               /\ offer'[o].sale =
                     IF seen[o] = NoOffer THEN SeedSale(o) # "off"
                     ELSE IF SeedSale(o) = "unsaid" \/ (SeedSale(o) = "on") = seen[o].sale THEN offer[o].sale
                          ELSE SeedSale(o) = "on"
    <3>1. o \in Offers /\ offer'[o] = Written(o, seen[o]) /\ seen[o] \in Offer \union {NoOffer}
      BY <1>1, <2>1
    <3>2. seen[o] = NoOffer <=> offer[o] = NoOffer
      BY <1>4, <3>1 DEF Clash, CatalogInv, RowsKept
    <3> QED BY <3>1, <3>2, WhatIsWritten DEF CatalogInv
  <2>5. \A o \in Offers \ these : offer'[o] = offer[o]
    BY <2>1
  <2>6. CatalogTypeOK'
    <3>1. offer' \in [Offers -> Offer \union {NoOffer}]
      BY <2>1, <2>4, <2>5 DEF CatalogInv, CatalogTypeOK
    <3> QED BY <1>1, <1>2, <2>1, <2>2, <3>1 DEF CatalogInv, CatalogTypeOK
  <2>7. RowsKept'
    <3>1. \A o \in Offers : offer[o] # NoOffer => offer'[o] # NoOffer
      BY <2>4, <2>5
    <3>2. \A o \in Offers : asked'[o] = IF offer'[o] = NoOffer THEN SeedCost(o) ELSE offer'[o].cost
      BY <1>2, <2>4, <2>5 DEF CatalogInv, RowsKept
    <3>3. \A v \in Starters, o \in Offers : starter'[v].seen[o] # NoOffer => offer'[o] # NoOffer
      BY <2>2, <2>3, <3>1 DEF CatalogInv, RowsKept
    <3>4. these = PlanRows => \A o \in PlanRows : offer'[o] # NoOffer
      BY <2>4
    <3>5. these = PriceRows => \A o \in PriceRows : offer'[o] # NoOffer
      BY <2>4
    <3>6. \A v \in Starters : starter'[v].at \in PlansDone => \A o \in PlanRows : offer'[o] # NoOffer
      BY <2>2, <2>3, <3>1, <3>4 DEF CatalogInv, RowsKept, PlansDone, Offers
    <3>7. \A v \in Starters : starter'[v].at \in SeedsPrices => \A o \in PriceRows : offer'[o] # NoOffer
      BY <2>2, <2>3, <3>1, <3>5 DEF CatalogInv, RowsKept, SeedsPrices, Offers
    <3>8. \A v \in Starters : starter'[v].at \in {"prices", "legacy", "up"} => launch' \/ v \in unlucky'
      BY <1>2, <2>2, <2>3 DEF CatalogInv, RowsKept
    <3> QED BY <3>2, <3>3, <3>6, <3>7, <3>8 DEF RowsKept
  <2>8. RetiredKept'
    <3> SUFFICES ASSUME NEW v \in Starters, NEW o \in PlanRows, SeedSale(o) = "off", offer'[o].sale,
                        o \notin switched'[v]
                 PROVE  /\ starter'[v].at \notin PlansDone
                        /\ starter'[v].at = "plans" /\ starter'[v].seen[o] # NoOffer => starter'[v].seen[o].sale
      BY DEF RetiredKept
    <3>1. /\ o \in Offers /\ o \notin switched[v] /\ SeedSale(o) # "on" /\ SeedSale(o) # "unsaid"
          /\ offer[o] \in Offer \union {NoOffer} /\ seen[o] \in Offer \union {NoOffer}
      BY <1>1, <1>2 DEF Offers, CatalogInv, CatalogTypeOK
    <3>2. offer[o].sale
      BY <2>4, <2>5, <3>1, OfferParts
    <3>3. v # w => starter'[v] = starter[v]
      BY <2>3
    <3>4. CASE v = w
      <4>1. these = PlanRows => FALSE
        <5> SUFFICES ASSUME these = PlanRows PROVE FALSE
          OBVIOUS
        <5>1. seen[o] # NoOffer /\ ~seen[o].sale
          <6>1. seen[o] # NoOffer
            BY <2>4, <3>1
          <6>2. seen[o].sale \in BOOLEAN
            BY <3>1, OfferParts
          <6> QED BY <2>4, <3>1, <6>1, <6>2
        <5>2. starter[w].at = "plans"
          BY <3>1, CatalogAssumption DEF Offers
        <5> QED BY <3>1, <3>2, <3>4, <5>1, <5>2 DEF CatalogInv, RetiredKept
      <4>2. starter[w].at = "prices"
        BY <4>1
      <4> QED BY <3>1, <3>2, <3>4, <4>2 DEF CatalogInv, RetiredKept, PlansDone
    <3> QED BY <3>1, <3>2, <3>3, <3>4 DEF CatalogInv, RetiredKept
  <2>9. PricesRight'
    <3> SUFFICES ASSUME NEW v \in Starters, NEW o \in PriceRows, offer'[o].sale # (SeedSale(o) = "on")
                 PROVE  /\ starter'[v].at \notin SeedsPrices
                        /\ starter'[v].at = "prices" /\ starter'[v].seen[o] # NoOffer =>
                              starter'[v].seen[o].sale # (SeedSale(o) = "on")
      BY DEF PricesRight
    <3>1. /\ o \in Offers /\ SeedSale(o) \in {"on", "off"}
          /\ offer[o] \in Offer \union {NoOffer} /\ seen[o] \in Offer \union {NoOffer}
      BY <1>1, CatalogAssumption DEF Offers, CatalogInv, CatalogTypeOK
    <3>2. o \in these => these = PriceRows /\ starter[w].at = "prices"
      BY CatalogAssumption
    <3>3. /\ offer[o].sale \in BOOLEAN /\ seen[o].sale \in BOOLEAN
      BY <3>1, OfferParts
    <3>4. CASE o \notin these
      <4>1. offer'[o] = offer[o] /\ these = PlanRows /\ next = "coupon"
        BY <2>5, <3>1, <3>4
      <4> QED BY <2>2, <2>3, <4>1 DEF CatalogInv, PricesRight, SeedsPrices
    <3>5. CASE o \in these
      <4>1. seen[o] # NoOffer /\ seen[o].sale = (SeedSale(o) = "on") /\ offer'[o].sale = offer[o].sale
        BY <2>4, <3>1, <3>3, <3>5
      <4>2. offer[o].sale = (SeedSale(o) = "on")
        BY <3>2, <3>5, <4>1 DEF CatalogInv, PricesRight
      <4> QED BY <4>1, <4>2
    <3> QED BY <3>4, <3>5
  <2> QED BY <2>6, <2>7, <2>8, <2>9 DEF CatalogInv
<1> QED BY <1>3, <1>4

LEMMA CatalogInitially == CatalogInit => CatalogInv
<1> SUFFICES ASSUME CatalogInit PROVE CatalogInv
  OBVIOUS
<1>1. PICK old \in SUBSET Offers :
         offer = [o \in Offers |-> IF o \in old THEN [cost |-> SeedCost(o), sale |-> TRUE] ELSE NoOffer]
  BY DEF CatalogInit
<1>2. /\ \A o \in Offers : offer[o] = NoOffer \/ (offer[o].cost = SeedCost(o) /\ offer[o] \in Offer)
      /\ offer \in [Offers -> Offer \union {NoOffer}]
  BY <1>1, CatalogAssumption DEF Offer, NoOffer
<1>3. \A w \in Starters : starter[w] = Stopped
  BY DEF CatalogInit
<1>4. CatalogTypeOK
  BY <1>2, CatalogAssumption DEF CatalogInit, CatalogTypeOK, Stopped, StartSteps
<1>5. RowsKept
  BY <1>2, <1>3 DEF CatalogInit, RowsKept, Stopped, PlansDone, SeedsPrices
<1>6. RetiredKept /\ PricesRight
  BY <1>3 DEF RetiredKept, PricesRight, Stopped, PlansDone, SeedsPrices
<1> QED BY <1>4, <1>5, <1>6 DEF CatalogInv

LEMMA LookRight ==
    ASSUME CatalogTypeOK, NEW these
    PROVE  /\ Look(these) \in [Offers -> Offer \union {NoOffer}]
           /\ \A o \in Offers : Look(these)[o] = IF o \in these THEN offer[o] ELSE NoOffer
  BY DEF Look, CatalogTypeOK

LEMMA CatalogStep == CatalogInv /\ [CatalogNext]_catalogVars => CatalogInv'
<1> SUFFICES ASSUME CatalogInv, [CatalogNext]_catalogVars PROVE CatalogInv'
  OBVIOUS
<1> DEFINE State == [at : StartSteps, seen : [Offers -> Offer \union {NoOffer}]]
<1>1. /\ starter \in [Starters -> State] /\ offer \in [Offers -> Offer \union {NoOffer}]
      /\ asked \in [Offers -> Costs] /\ switched \in [Starters -> SUBSET PlanRows]
      /\ Stopped \in State /\ Stopped.at = "down" /\ \A o \in Offers : Stopped.seen[o] = NoOffer
  BY DEF CatalogInv, CatalogTypeOK, Stopped, StartSteps
<1>2. ASSUME NEW w \in Starters, Start(w) PROVE CatalogInv'
  <2> DEFINE S == [at |-> "plans", seen |-> Look(PlanRows)]
  <2>1. S \in State /\ S.at = "plans" /\ \A o \in Offers : S.seen[o] = IF o \in PlanRows THEN offer[o] ELSE NoOffer
    BY LookRight DEF CatalogInv, StartSteps
  <2>2. /\ starter' = [starter EXCEPT ![w] = S] /\ switched' = [switched EXCEPT ![w] = {}]
        /\ unlucky' = unlucky \ {w} /\ UNCHANGED <<offer, launch, asked>>
    BY <1>2 DEF Start
  <2> HIDE DEF S
  <2>3. \A v \in Starters : /\ starter'[v] = IF v = w THEN S ELSE starter[v]
                            /\ switched'[v] = IF v = w THEN {} ELSE switched[v]
    BY <1>1, <2>2
  <2>4. CatalogTypeOK'
    BY <1>1, <2>1, <2>2 DEF CatalogInv, CatalogTypeOK
  <2>5. RowsKept'
    BY <2>1, <2>2, <2>3 DEF CatalogInv, RowsKept, PlansDone, SeedsPrices
  <2>6. RetiredKept'
    BY <2>1, <2>2, <2>3 DEF CatalogInv, RetiredKept, PlansDone, Offers
  <2>7. PricesRight'
    BY <2>1, <2>2, <2>3 DEF CatalogInv, PricesRight, SeedsPrices
  <2> QED BY <2>4, <2>5, <2>6, <2>7 DEF CatalogInv
<1>3. ASSUME NEW w \in Starters, SeedPlans(w) \/ SeedPrices(w) PROVE CatalogInv'
  BY <1>3, SeedKeeps
<1>4. ASSUME NEW w \in Starters, NEW fails \in BOOLEAN, SeedCoupon(w, fails) PROVE CatalogInv'
  <2> DEFINE S == [at |-> "prices", seen |-> Look(PriceRows)]
  <2>1. S \in State /\ S.at = "prices" /\ \A o \in Offers : S.seen[o] = IF o \in PriceRows THEN offer[o] ELSE NoOffer
    BY LookRight DEF CatalogInv, StartSteps
  <2>2. /\ starter' = [starter EXCEPT ![w] = S] /\ launch' = (launch \/ ~fails)
        /\ unlucky' = IF fails /\ ~launch THEN unlucky \union {w} ELSE unlucky
        /\ starter[w].at = "coupon" /\ UNCHANGED <<offer, asked, switched>>
    BY <1>4 DEF SeedCoupon
  <2> HIDE DEF S
  <2>3. \A v \in Starters : starter'[v] = IF v = w THEN S ELSE starter[v]
    BY <1>1, <2>2
  <2>4. CatalogTypeOK'
    BY <1>1, <2>1, <2>2 DEF CatalogInv, CatalogTypeOK
  <2>5. RowsKept'
    <3>1. launch' \/ w \in unlucky'
      BY <2>2
    <3>2. \A v \in Starters : launch \/ v \in unlucky => launch' \/ v \in unlucky'
      BY <2>2
    <3> QED BY <2>1, <2>2, <2>3, <3>1, <3>2 DEF CatalogInv, RowsKept, PlansDone, SeedsPrices
  <2>6. RetiredKept'
    BY <2>1, <2>2, <2>3 DEF CatalogInv, RetiredKept, PlansDone, Offers
  <2>7. PricesRight'
    BY <2>1, <2>2, <2>3 DEF CatalogInv, PricesRight, SeedsPrices, Offers
  <2> QED BY <2>4, <2>5, <2>6, <2>7 DEF CatalogInv
<1>5. ASSUME NEW w \in Starters, SeedLegacy(w) PROVE CatalogInv'
  <2> DEFINE S == [Stopped EXCEPT !.at = "up"]
  <2>1. S \in State /\ S.at = "up" /\ \A o \in Offers : S.seen[o] = NoOffer
    BY DEF Stopped, StartSteps
  <2>2. /\ starter' = [starter EXCEPT ![w] = S] /\ starter[w].at = "legacy"
        /\ UNCHANGED <<launch, asked, switched, unlucky>>
    BY <1>5 DEF SeedLegacy
  <2>3. offer' = offer
    <3>1. \A o \in PlanRows : offer[o] # NoOffer
      BY <2>2 DEF CatalogInv, RowsKept, PlansDone
    <3>2. offer' = [o \in Offers |-> IF o \in PlanRows THEN LegacyRow(o) ELSE offer[o]]
      BY <1>5 DEF SeedLegacy
    <3> QED BY <1>1, <3>1, <3>2 DEF LegacyRow
  <2> HIDE DEF S
  <2>4. \A v \in Starters : starter'[v] = IF v = w THEN S ELSE starter[v]
    BY <1>1, <2>2
  <2>5. CatalogTypeOK'
    BY <1>1, <2>1, <2>2, <2>3 DEF CatalogInv, CatalogTypeOK
  <2> QED
    BY <2>1, <2>2, <2>3, <2>4, <2>5
       DEF CatalogInv, RowsKept, RetiredKept, PricesRight, PlansDone, SeedsPrices
<1>6. ASSUME NEW w \in Starters, StopWorker(w) PROVE CatalogInv'
  <2>1. starter' = [starter EXCEPT ![w] = Stopped] /\ UNCHANGED <<offer, launch, asked, switched, unlucky>>
    BY <1>6 DEF StopWorker
  <2>2. \A v \in Starters : starter'[v] = IF v = w THEN Stopped ELSE starter[v]
    BY <1>1, <2>1
  <2>3. CatalogTypeOK'
    BY <1>1, <2>1 DEF CatalogInv, CatalogTypeOK
  <2> QED
    BY <1>1, <2>1, <2>2, <2>3
       DEF CatalogInv, RowsKept, RetiredKept, PricesRight, PlansDone, SeedsPrices
<1>7. ASSUME NEW o \in Offers, NEW c \in Costs, SetCost(o, c) PROVE CatalogInv'
  <2>1. /\ offer[o] # NoOffer /\ offer' = [offer EXCEPT ![o].cost = c] /\ asked' = [asked EXCEPT ![o] = c]
        /\ UNCHANGED <<launch, starter, switched, unlucky>>
    BY <1>7 DEF SetCost
  <2>2. offer[o] \in Offer /\ 0 \notin Costs
    BY <1>1, <2>1, CatalogAssumption
  <2>3. /\ offer'[o] \in Offer /\ offer'[o].cost = c /\ offer'[o].sale = offer[o].sale
        /\ offer'[o] # NoOffer /\ \A p \in Offers \ {o} : offer'[p] = offer[p]
    BY <1>1, <2>1, <2>2 DEF Offer, NoOffer
  <2>4. offer' \in [Offers -> Offer \union {NoOffer}] /\ asked' \in [Offers -> Costs]
    BY <1>1, <2>1, <2>3
  <2>5. CatalogTypeOK'
    BY <2>1, <2>4 DEF CatalogInv, CatalogTypeOK
  <2>6. RowsKept'
    <3>1. \A p \in Offers : offer[p] # NoOffer => offer'[p] # NoOffer
      BY <2>3
    <3>2. \A p \in Offers : asked'[p] = IF offer'[p] = NoOffer THEN SeedCost(p) ELSE offer'[p].cost
      BY <1>1, <2>1, <2>3 DEF CatalogInv, RowsKept
    <3> QED BY <2>1, <3>1, <3>2 DEF CatalogInv, RowsKept, Offers
  <2>7. RetiredKept' /\ PricesRight'
    BY <2>1, <2>3 DEF CatalogInv, RetiredKept, PricesRight, Offers
  <2> QED BY <2>5, <2>6, <2>7 DEF CatalogInv
<1>8. ASSUME NEW o \in Offers, NEW on \in BOOLEAN, SwitchPlan(o, on) PROVE CatalogInv'
  <2>1. /\ o \in PlanRows /\ offer[o] # NoOffer /\ offer' = [offer EXCEPT ![o].sale = on]
        /\ switched' = [w \in Starters |-> switched[w] \union {o}]
        /\ UNCHANGED <<launch, starter, asked, unlucky>>
    BY <1>8 DEF SwitchPlan
  <2>2. offer[o] \in Offer
    BY <1>1, <2>1
  <2>3. /\ offer'[o] \in Offer /\ offer'[o].cost = offer[o].cost
        /\ offer'[o] # NoOffer /\ \A p \in Offers \ {o} : offer'[p] = offer[p]
    BY <1>1, <2>1, <2>2, CatalogAssumption DEF Offer, NoOffer
  <2>4. offer' \in [Offers -> Offer \union {NoOffer}] /\ switched' \in [Starters -> SUBSET PlanRows]
    BY <1>1, <2>1, <2>3
  <2>5. CatalogTypeOK'
    BY <2>1, <2>4 DEF CatalogInv, CatalogTypeOK
  <2>6. RowsKept'
    <3>1. \A p \in Offers : offer[p] # NoOffer => offer'[p] # NoOffer
      BY <2>3
    <3>2. \A p \in Offers : asked'[p] = IF offer'[p] = NoOffer THEN SeedCost(p) ELSE offer'[p].cost
      BY <1>1, <2>1, <2>3 DEF CatalogInv, RowsKept
    <3> QED BY <2>1, <3>1, <3>2 DEF CatalogInv, RowsKept, Offers
  <2>7. RetiredKept'
    BY <2>1, <2>3 DEF CatalogInv, RetiredKept, Offers
  <2>8. PricesRight'
    BY <2>1, <2>3, CatalogAssumption DEF CatalogInv, PricesRight, Offers
  <2> QED BY <2>5, <2>6, <2>7, <2>8 DEF CatalogInv
<1>9. CASE UNCHANGED catalogVars
  BY <1>9 DEF catalogVars, CatalogInv, CatalogTypeOK, RowsKept, RetiredKept, PricesRight
<1> QED BY <1>2, <1>3, <1>4, <1>5, <1>6, <1>7, <1>8, <1>9 DEF CatalogNext

\* "an admin price edit must survive app restarts", "honor retirements", and a worker serves
\* requests with the whole catalogue: for any numbers of workers, plans and prices, however
\* their starts and the edits interleave.
THEOREM CatalogIsKept == CatalogSpec => []CatalogKept
<1>1. CatalogInv => CatalogKept
  <2> SUFFICES ASSUME CatalogInv PROVE CatalogKept
    OBVIOUS
  <2>1. \A o \in Offers : offer[o] # NoOffer => offer[o].cost = asked[o]
    BY DEF CatalogInv, RowsKept
  <2>2. ASSUME NEW w \in Starters, starter[w].at = "up"
        PROVE  /\ \A o \in Offers : offer[o] # NoOffer
               /\ launch \/ w \in unlucky
               /\ \A o \in OnSale : SeedSale(o) = "off" => o \in switched[w]
               /\ \A o \in PriceRows \ Ungated : SeedSale(o) = "on" => o \in OnSale
    <3>1. starter[w].at \in PlansDone /\ starter[w].at \in SeedsPrices
      BY <2>2 DEF PlansDone, SeedsPrices
    <3>2. /\ \A o \in Offers : offer[o] # NoOffer
          /\ launch \/ w \in unlucky
      BY <2>2, <3>1 DEF CatalogInv, RowsKept, Offers
    <3>3. \A o \in PriceRows : offer[o].sale = (SeedSale(o) = "on")
      BY <3>1 DEF CatalogInv, PricesRight
    <3>4. \A o \in PlanRows : SeedSale(o) = "off" /\ offer[o].sale => o \in switched[w]
      BY <3>1 DEF CatalogInv, RetiredKept
    <3> QED BY <3>2, <3>3, <3>4 DEF OnSale, Offers
  <2> QED BY <2>1, <2>2 DEF CatalogKept
<1> QED BY <1>1, CatalogInitially, CatalogStep, PTL DEF CatalogSpec

-----------------------------------------------------------------------------
(* The rate limits.                                                        *)

\* From here on nobody asks for window b.
EndOf(b) == (Window * b) + Window + Grace

\* A call asks for the window it began in, and is not older than it may be.
CallsAreFresh ==
    \A p \in Servers : asking[p] # NoCall =>
       /\ asking[p].window = WindowOf(asking[p].since)
       /\ asking[p].since <= now /\ now <= asking[p].since + Patience

\* The counter of a window lives until nobody asks for it.
CountersOutlive ==
    \A b \in Windows : dies[b] # Never => dies[b] > now /\ dies[b] >= EndOf(b)

AdmittedIsCounted ==
    \A b \in Windows : admitted[b] <= Allowance /\ (now < EndOf(b) => admitted[b] <= counter[b])

\* What has left a deque is too old for good.
LeftAreOld ==
    \A p \in Servers :
       /\ head[p] <= Len(log[p]) + 1
       /\ \A j \in 1 .. head[p] - 1 : now - log[p][j] > Window
       /\ \A i \in 1 .. Len(log[p]) - Allowance : log[p][i + Allowance] - log[p][i] > Window
       /\ backend = "redis" => log[p] = <<>>

LimitsInv == LimitsTypeOK /\ CallsAreFresh /\ CountersOutlive /\ AdmittedIsCounted /\ LeftAreOld

\* The window of a moment.
LEMMA WindowHolds ==
    ASSUME NEW t \in 0 .. LastTime
    PROVE  WindowOf(t) \in Windows /\ Window * WindowOf(t) <= t /\ t < (Window * WindowOf(t)) + Window
<1> DEFINE q == t \div Window
           n == LastTime \div Window
<1>1. Window \in Nat \ {0} /\ LastTime \in Nat /\ t \in Int
  BY LimitsAssumption
<1>2. q \in Int /\ (t % Window) \in 0 .. Window - 1 /\ t = (Window * q) + (t % Window)
  BY <1>1, ModParts
<1>3. n \in Int /\ (LastTime % Window) \in 0 .. Window - 1 /\ LastTime = (Window * n) + (LastTime % Window)
  BY <1>1, ModParts
<1>4. WindowOf(t) = q /\ Windows = 0 .. n
  BY DEF WindowOf, Windows
<1> HIDE DEF q, n
<1>5. Window * q <= t /\ t < (Window * q) + Window
  BY <1>1, <1>2
<1>6. q >= 0
  <2>1. CASE q <= -1
    <3>1. Window * q <= Window * (-1)
      BY <1>1, <1>2, <2>1
    <3>2. Window * (-1) = -Window
      BY <1>1
    <3> QED BY <1>1, <1>2, <1>5, <3>1, <3>2
  <2> QED BY <1>2, <2>1
<1>7. q <= n
  <2>1. CASE q >= n + 1
    <3>1. Window * q >= Window * (n + 1)
      BY <1>1, <1>2, <1>3, <2>1
    <3>2. Window * (n + 1) = (Window * n) + Window
      BY <1>1, <1>3
    <3>3. LastTime < (Window * n) + Window /\ Window * n \in Int
      BY <1>1, <1>3
    <3> QED BY <1>1, <1>2, <1>5, <3>1, <3>2, <3>3
  <2> QED BY <1>2, <1>3, <2>1
<1> QED BY <1>2, <1>4, <1>5, <1>6, <1>7

\* The calls that a deque gives up are those at its front that are too old.
LEMMA FrontIs ==
    ASSUME LimitsInv, NEW p \in Servers
    PROVE  /\ Front(p) \in head[p] .. Len(log[p]) + 1
           /\ \A j \in head[p] .. Front(p) - 1 : ~Recent(log[p][j])
<1> DEFINE L == Len(log[p])
           Ends(i) == /\ \A j \in head[p] .. i - 1 : ~Recent(log[p][j])
                      /\ i <= L => Recent(log[p][i])
           B == {i \in head[p] .. L + 1 : i = L + 1 \/ Recent(log[p][i])}
<1>1. L \in Nat /\ head[p] \in Nat \ {0} /\ head[p] <= L + 1
  BY DEF LimitsInv, LimitsTypeOK, LeftAreOld
<1>2. B \in SUBSET Nat /\ L + 1 \in B
  BY <1>1
<1>3. PICK m \in B : \A k \in B : m <= k
  <2> HIDE DEF B
  <2> QED BY <1>2, LeastNatural
<1>4. Ends(m)
  <2>1. ASSUME NEW j \in head[p] .. m - 1, Recent(log[p][j]) PROVE FALSE
    <3>1. j \in B /\ j < m
      BY <1>1, <2>1
    <3> QED BY <1>1, <1>3, <3>1
  <2>2. m <= L => Recent(log[p][m])
    BY <1>1
  <2> QED BY <2>1, <2>2
<1>5. m \in head[p] .. L + 1
  OBVIOUS
<1>6. Front(p) = CHOOSE i \in head[p] .. L + 1 : Ends(i)
  BY DEF Front
<1> HIDE DEF Ends, B
<1>7. Front(p) \in head[p] .. L + 1 /\ Ends(Front(p))
  BY <1>4, <1>5, <1>6
<1> QED BY <1>7 DEF Ends

\* A call that is under way finds the counter that has counted the calls before it.
LEMMA CallIsCovered ==
    ASSUME LimitsInv, NEW p \in Servers, asking[p] # NoCall
    PROVE  LET b == asking[p].window
           IN  /\ b \in Windows /\ admitted[b] <= counter[b]
               /\ now >= Window * b
<1> DEFINE b == asking[p].window
           t == asking[p].since
<1>1. /\ t \in Nat /\ b = WindowOf(t) /\ t <= now /\ now <= t + Patience /\ now \in 0 .. LastTime
  BY DEF LimitsInv, LimitsTypeOK, CallsAreFresh
<1>2. /\ Window \in Nat \ {0} /\ Grace \in Nat /\ Patience \in Nat /\ LastTime \in Nat /\ Patience <= Grace
  BY LimitsAssumption
<1>3. t \in 0 .. LastTime
  BY <1>1, <1>2
<1> HIDE DEF t
<1>4. b \in Windows /\ Window * b <= t /\ t < (Window * b) + Window
  BY <1>1, <1>3, WindowHolds
<1>5. Window * b \in Int
  <2>1. b \in Int
    BY <1>4, <1>2 DEF Windows
  <2> QED BY <1>2, <2>1
<1> HIDE DEF b
<1>6. now < (Window * b) + Window + Grace
  BY <1>1, <1>2, <1>4, <1>5
<1>7. now < EndOf(b)
  BY <1>6 DEF EndOf
<1>8. admitted[b] <= counter[b]
  BY <1>4, <1>7 DEF LimitsInv, AdmittedIsCounted
<1>9. now >= Window * b
  BY <1>1, <1>2, <1>4, <1>5
<1> QED BY <1>4, <1>8, <1>9 DEF b

LEMMA EndIsInt == \A b \in Windows : b \in Int /\ EndOf(b) \in Int /\ Window * b \in Int
<1> SUFFICES ASSUME NEW b \in Windows PROVE b \in Int /\ EndOf(b) \in Int /\ Window * b \in Int
  OBVIOUS
<1>1. b \in Int
  BY DEF Windows
<1>2. Window * b \in Int /\ Window \in Int /\ Grace \in Int
  BY <1>1, LimitsAssumption
<1> QED BY <1>1, <1>2 DEF EndOf

LEMMA LimitsInitially == LimitsInit => LimitsInv
<1> SUFFICES ASSUME LimitsInit PROVE LimitsInv
  OBVIOUS
<1>1. LimitsTypeOK
  BY LimitsAssumption DEF LimitsInit, LimitsTypeOK, NoCall, Never
<1>2. CallsAreFresh /\ CountersOutlive
  BY DEF LimitsInit, CallsAreFresh, CountersOutlive
<1>3. AdmittedIsCounted
  BY LimitsAssumption DEF LimitsInit, AdmittedIsCounted
<1>4. LeftAreOld
  <2>1. \A p \in Servers : log[p] = <<>> /\ head[p] = 1 /\ Len(log[p]) = 0
    BY DEF LimitsInit
  <2>2. \A j : j \notin 1 .. 1 - 1 /\ j \notin 1 .. 0 - Allowance
    BY LimitsAssumption
  <2> SUFFICES ASSUME NEW p \in Servers
               PROVE  /\ head[p] <= Len(log[p]) + 1
                      /\ \A j \in 1 .. head[p] - 1 : now - log[p][j] > Window
                      /\ \A i \in 1 .. Len(log[p]) - Allowance : log[p][i + Allowance] - log[p][i] > Window
                      /\ backend = "redis" => log[p] = <<>>
    BY DEF LeftAreOld
  <2>3. head[p] = 1 /\ Len(log[p]) = 0 /\ log[p] = <<>>
    BY <2>1
  <2> QED BY <2>2, <2>3
<1> QED BY <1>1, <1>2, <1>3, <1>4 DEF LimitsInv

LEMMA LimitsStep == LimitsInv /\ [LimitsNext]_limitVars => LimitsInv'
<1> SUFFICES ASSUME LimitsInv, [LimitsNext]_limitVars PROVE LimitsInv'
  OBVIOUS
<1> DEFINE Call == [window : Windows \union {Never}, since : Nat, failed : BOOLEAN]
<1>1. /\ backend \in {"redis", "either", "memory"} /\ now \in 0 .. LastTime /\ now \in Nat
      /\ counter \in [Windows -> Nat] /\ dies \in [Windows -> Nat \union {Never}]
      /\ asking \in [Servers -> Call] /\ NoCall \in Call
      /\ log \in [Servers -> Seq(Nat)] /\ head \in [Servers -> Nat \ {0}]
      /\ admitted \in [Windows -> Nat]
  BY LimitsAssumption DEF LimitsInv, LimitsTypeOK, NoCall, Never
<1>2. /\ Window \in Nat \ {0} /\ Grace \in Nat /\ Patience \in Nat /\ Allowance \in Nat \ {0}
      /\ LastTime \in Nat
  BY LimitsAssumption
<1>3. ASSUME NEW p \in Servers, Request(p) PROVE LimitsInv'
  <2> DEFINE c == [window |-> WindowOf(now), since |-> now, failed |-> FALSE]
  <2>1. asking' = [asking EXCEPT ![p] = c] /\ UNCHANGED <<backend, now, counter, dies, log, head, admitted>>
    BY <1>3 DEF Request
  <2>2. c \in Call /\ c.window = WindowOf(c.since) /\ c.since = now
    BY <1>1, WindowHolds
  <2> HIDE DEF c
  <2>3. LimitsTypeOK'
    BY <1>1, <2>1, <2>2 DEF LimitsTypeOK
  <2>4. CallsAreFresh'
    BY <1>1, <1>2, <2>1, <2>2 DEF LimitsInv, CallsAreFresh
  <2> QED BY <2>1, <2>3, <2>4 DEF LimitsInv, CountersOutlive, AdmittedIsCounted, LeftAreOld
<1>4. ASSUME NEW p \in Servers, Count(p) PROVE LimitsInv'
  <2> DEFINE b == asking[p].window
             n == counter[b] + 1
  <2>1. /\ asking[p] # NoCall
        /\ counter' = [counter EXCEPT ![b] = n]
        /\ dies' = IF n = 1 THEN [dies EXCEPT ![b] = Lifetime(now)] ELSE dies
        /\ admitted' = IF n <= Allowance THEN [admitted EXCEPT ![b] = @ + 1] ELSE admitted
        /\ asking' = [asking EXCEPT ![p] = NoCall]
        /\ UNCHANGED <<backend, now, log, head>>
    BY <1>4 DEF Count
  <2>2. b \in Windows /\ admitted[b] <= counter[b] /\ now >= Window * b
    BY <2>1, CallIsCovered
  <2>3. n \in Nat /\ counter[b] \in Nat /\ admitted[b] \in Nat /\ n = counter[b] + 1
    BY <1>1, <2>2
  <2> HIDE DEF b, n
  <2>4. Lifetime(now) \in Nat /\ Lifetime(now) > now /\ Lifetime(now) >= EndOf(b)
    BY <1>1, <1>2, <2>2, EndIsInt DEF Lifetime, EndOf
  <2>5. LimitsTypeOK'
    BY <1>1, <2>1, <2>2, <2>3, <2>4 DEF LimitsTypeOK
  <2>6. CallsAreFresh'
    BY <1>1, <2>1 DEF LimitsInv, CallsAreFresh
  <2>7. CountersOutlive'
    <3>1. \A w \in Windows : dies'[w] = IF n = 1 /\ w = b THEN Lifetime(now) ELSE dies[w]
      BY <1>1, <2>1
    <3>2. now' = now /\ \A w \in Windows : EndOf(w)' = EndOf(w)
      BY <2>1 DEF EndOf
    <3> QED BY <2>4, <3>1, <3>2 DEF LimitsInv, CountersOutlive
  <2>8. AdmittedIsCounted'
    <3>1. \A w \in Windows : /\ counter'[w] = IF w = b THEN n ELSE counter[w]
                             /\ admitted'[w] = IF w = b /\ n <= Allowance THEN admitted[w] + 1 ELSE admitted[w]
      BY <1>1, <2>1
    <3>2. admitted'[b] <= Allowance /\ admitted'[b] <= counter'[b]
      <4>1. admitted[b] <= Allowance
        BY <2>2 DEF LimitsInv, AdmittedIsCounted
      <4> QED BY <1>2, <2>2, <2>3, <3>1, <4>1
    <3> QED BY <2>1, <3>1, <3>2 DEF LimitsInv, AdmittedIsCounted, EndOf
  <2> QED BY <2>1, <2>5, <2>6, <2>7, <2>8 DEF LimitsInv, LeftAreOld
<1>5. ASSUME NEW p \in Servers, CountLost(p) PROVE LimitsInv'
  <2> DEFINE b == asking[p].window
             c == [asking[p] EXCEPT !.failed = TRUE]
  <2>1. /\ asking[p] # NoCall
        /\ counter' = [counter EXCEPT ![b] = @ + 1]
        /\ asking' = [asking EXCEPT ![p] = c]
        /\ UNCHANGED <<backend, now, dies, log, head, admitted>>
    BY <1>5 DEF CountLost
  <2>2. b \in Windows
    BY <2>1, CallIsCovered
  <2>3. c \in Call /\ c.window = b /\ c.since = asking[p].since
    BY <1>1
  <2> HIDE DEF b, c
  <2>4. LimitsTypeOK'
    BY <1>1, <2>1, <2>2, <2>3 DEF LimitsTypeOK
  <2>5. CallsAreFresh'
    BY <1>1, <2>1, <2>3 DEF LimitsInv, CallsAreFresh, b
  <2>6. AdmittedIsCounted'
    <3>1. \A w \in Windows : counter'[w] \in Nat /\ counter[w] \in Nat /\ counter'[w] >= counter[w] /\ admitted[w] \in Nat
      BY <1>1, <2>1
    <3> QED BY <2>1, <3>1 DEF LimitsInv, AdmittedIsCounted, EndOf
  <2> QED BY <2>1, <2>4, <2>5, <2>6 DEF LimitsInv, CountersOutlive, LeftAreOld, EndOf
<1>6. ASSUME NEW p \in Servers, Refuse(p) PROVE LimitsInv'
  <2>1. asking' = [asking EXCEPT ![p] = NoCall] /\ UNCHANGED <<backend, now, counter, dies, log, head, admitted>>
    BY <1>6 DEF Refuse
  <2>2. LimitsTypeOK'
    BY <1>1, <2>1 DEF LimitsTypeOK
  <2>3. CallsAreFresh'
    BY <1>1, <2>1 DEF LimitsInv, CallsAreFresh
  <2> QED BY <2>1, <2>2, <2>3 DEF LimitsInv, CountersOutlive, AdmittedIsCounted, LeftAreOld, EndOf
<1>7. ASSUME NEW p \in Servers, CountAlone(p) PROVE LimitsInv'
  <2> DEFINE L == Len(log[p])
             F == Front(p)
  <2>1. /\ backend # "redis"
        /\ asking' = asking \/ asking' = [asking EXCEPT ![p] = NoCall]
        /\ head' = [head EXCEPT ![p] = F]
        /\ log' = IF L + 1 - F >= Allowance THEN log ELSE [log EXCEPT ![p] = Append(log[p], now)]
        /\ UNCHANGED <<backend, now, counter, dies, admitted>>
    BY <1>7 DEF CountAlone
  <2>2. L \in Nat /\ log[p] \in Seq(Nat) /\ head[p] \in Nat \ {0} /\ \A j \in 1 .. L : log[p][j] \in Nat
    BY <1>1
  <2>3. /\ F \in head[p] .. L + 1
        /\ \A j \in head[p] .. F - 1 : now - log[p][j] > Window
    <3>1. F \in head[p] .. L + 1 /\ \A j \in head[p] .. F - 1 : ~Recent(log[p][j])
      BY FrontIs
    <3>2. ASSUME NEW j \in head[p] .. F - 1 PROVE now - log[p][j] > Window
      <4>1. log[p][j] \in Nat
        BY <2>2, <3>1
      <4> QED BY <1>1, <1>2, <3>1, <4>1 DEF Recent
    <3> QED BY <3>1, <3>2
  <2>4. \A j \in 1 .. head[p] - 1 : now - log[p][j] > Window
    BY DEF LimitsInv, LeftAreOld
  <2>5. F \in Nat \ {0} /\ F <= L + 1 /\ \A j \in 1 .. F - 1 : now - log[p][j] > Window
    BY <2>2, <2>3, <2>4
  <2> HIDE DEF F
  <2>6. LimitsTypeOK'
    <3>1. log' \in [Servers -> Seq(Nat)]
      <4>1. Append(log[p], now) \in Seq(Nat)
        BY <1>1, <2>2
      <4> QED BY <1>1, <2>1, <4>1
    <3>2. asking' \in [Servers -> Call] /\ head' \in [Servers -> Nat \ {0}]
      BY <1>1, <2>1, <2>5
    <3> QED BY <1>1, <2>1, <3>1, <3>2 DEF LimitsTypeOK
  <2>7. CallsAreFresh'
    BY <1>1, <2>1 DEF LimitsInv, CallsAreFresh
  <2>8. \A q \in Servers \ {p} : log'[q] = log[q] /\ head'[q] = head[q]
    BY <1>1, <2>1
  <2>9. /\ head'[p] <= Len(log'[p]) + 1
        /\ \A j \in 1 .. head'[p] - 1 : now - log'[p][j] > Window
        /\ \A i \in 1 .. Len(log'[p]) - Allowance : log'[p][i + Allowance] - log'[p][i] > Window
    <3>1. head'[p] = F
      BY <1>1, <2>1
    <3>2. \A i \in 1 .. L - Allowance : log[p][i + Allowance] - log[p][i] > Window
      BY DEF LimitsInv, LeftAreOld
    <3>3. CASE L + 1 - F >= Allowance
      BY <2>1, <2>5, <3>1, <3>2, <3>3
    <3>4. CASE ~(L + 1 - F >= Allowance)
      <4>1. log'[p] = Append(log[p], now)
        BY <1>1, <2>1, <3>4
      <4>2. Len(log'[p]) = L + 1 /\ log'[p][L + 1] = now /\ \A j \in 1 .. L : log'[p][j] = log[p][j]
        BY <1>1, <2>2, <4>1
      <4>3. \A j \in 1 .. F - 1 : now - log'[p][j] > Window
        <5> TAKE j \in 1 .. F - 1
        <5>1. j \in 1 .. L
          BY <2>2, <2>5
        <5> QED BY <2>5, <4>2, <5>1
      <4>4. ASSUME NEW i \in 1 .. Len(log'[p]) - Allowance
            PROVE  log'[p][i + Allowance] - log'[p][i] > Window
        <5>1. CASE i + Allowance <= L
          <6>1. i \in 1 .. L /\ i + Allowance \in 1 .. L /\ i \in 1 .. L - Allowance
            BY <1>2, <2>2, <4>2, <5>1
          <6> QED BY <3>2, <4>2, <6>1
        <5>2. CASE i + Allowance = L + 1
          <6>1. i \in 1 .. F - 1
            BY <1>2, <2>2, <2>5, <3>4, <5>2
          <6> QED BY <4>2, <4>3, <5>2, <6>1
        <5> QED BY <1>2, <2>2, <4>2, <5>1, <5>2
      <4> QED BY <2>2, <2>5, <3>1, <4>2, <4>3, <4>4
    <3> QED BY <3>3, <3>4
  <2>10. LeftAreOld'
    BY <2>1, <2>8, <2>9 DEF LimitsInv, LeftAreOld
  <2> QED BY <2>1, <2>6, <2>7, <2>10 DEF LimitsInv, CountersOutlive, AdmittedIsCounted, EndOf
<1>8. ASSUME NEW p \in Servers, RestartServer(p) PROVE LimitsInv'
  <2>1. /\ asking' = [asking EXCEPT ![p] = NoCall] /\ log' = [log EXCEPT ![p] = <<>>]
        /\ head' = [head EXCEPT ![p] = 1] /\ UNCHANGED <<backend, now, counter, dies, admitted>>
    BY <1>8 DEF RestartServer
  <2>2. LimitsTypeOK'
    BY <1>1, <2>1 DEF LimitsTypeOK
  <2>3. CallsAreFresh'
    BY <1>1, <2>1 DEF LimitsInv, CallsAreFresh
  <2>4. LeftAreOld'
    <3>1. \A q \in Servers : /\ log'[q] = IF q = p THEN <<>> ELSE log[q]
                             /\ head'[q] = IF q = p THEN 1 ELSE head[q]
      BY <1>1, <2>1
    <3>2. ASSUME NEW q \in Servers, q # p
          PROVE  /\ head'[q] <= Len(log'[q]) + 1
                 /\ \A j \in 1 .. head'[q] - 1 : now' - log'[q][j] > Window
                 /\ \A i \in 1 .. Len(log'[q]) - Allowance : log'[q][i + Allowance] - log'[q][i] > Window
                 /\ backend' = "redis" => log'[q] = <<>>
      BY <2>1, <3>1, <3>2 DEF LimitsInv, LeftAreOld
    <3>3. /\ head'[p] = 1 /\ log'[p] = <<>>
      BY <3>1
    <3> QED BY <1>2, <3>2, <3>3 DEF LeftAreOld
  <2> QED BY <2>1, <2>2, <2>3, <2>4 DEF LimitsInv, CountersOutlive, AdmittedIsCounted, EndOf
<1>9. CASE Tick
  <2>1. /\ now < LastTime /\ now' = now + 1
        /\ \A p \in Servers : asking[p] # NoCall => now - asking[p].since < Patience
        /\ counter' = [b \in Windows |-> IF dies[b] = now + 1 THEN 0 ELSE counter[b]]
        /\ dies' = [b \in Windows |-> IF dies[b] = now + 1 THEN Never ELSE dies[b]]
        /\ UNCHANGED <<backend, asking, log, head, admitted>>
    BY <1>9 DEF Tick
  <2>2. LimitsTypeOK'
    BY <1>1, <1>2, <2>1 DEF LimitsTypeOK
  <2>3. CallsAreFresh'
    <3> SUFFICES ASSUME NEW p \in Servers, asking[p] # NoCall
                 PROVE  /\ asking[p].window = WindowOf(asking[p].since)
                        /\ asking[p].since <= now' /\ now' <= asking[p].since + Patience
      BY <2>1 DEF CallsAreFresh
    <3>1. asking[p].since \in Nat
      BY <1>1
    <3> QED BY <1>1, <1>2, <2>1, <3>1 DEF LimitsInv, CallsAreFresh
  <2>4. CountersOutlive'
    <3> SUFFICES ASSUME NEW b \in Windows, dies'[b] # Never
                 PROVE  dies'[b] > now' /\ dies'[b] >= EndOf(b)
      BY DEF CountersOutlive, EndOf
    <3>1. dies'[b] = dies[b] /\ dies[b] # now + 1 /\ dies[b] \in Nat
      BY <1>1, <2>1
    <3> QED BY <1>1, <2>1, <3>1 DEF LimitsInv, CountersOutlive
  <2>5. AdmittedIsCounted'
    <3> SUFFICES ASSUME NEW b \in Windows
                 PROVE  admitted[b] <= Allowance /\ (now' < EndOf(b) => admitted[b] <= counter'[b])
      BY <2>1 DEF AdmittedIsCounted, EndOf
    <3>1. admitted[b] <= Allowance /\ (now < EndOf(b) => admitted[b] <= counter[b]) /\ EndOf(b) \in Int
      BY EndIsInt DEF LimitsInv, AdmittedIsCounted
    <3>2. CASE dies[b] = now + 1
      <4>1. dies[b] # Never
        BY <1>1, <3>2 DEF Never
      <4>2. now' >= EndOf(b)
        BY <2>1, <3>2, <4>1 DEF LimitsInv, CountersOutlive
      <4> QED BY <1>1, <2>1, <3>1, <4>2
    <3>3. CASE dies[b] # now + 1
      BY <1>1, <2>1, <3>1, <3>3
    <3> QED BY <3>2, <3>3
  <2>6. LeftAreOld'
    <3> SUFFICES ASSUME NEW p \in Servers
                 PROVE  \A j \in 1 .. head[p] - 1 : now' - log[p][j] > Window
      BY <2>1 DEF LimitsInv, LeftAreOld
    <3> TAKE j \in 1 .. head[p] - 1
    <3>1. now - log[p][j] > Window /\ j \in 1 .. Len(log[p])
      BY <1>1 DEF LimitsInv, LeftAreOld
    <3>2. log[p][j] \in Nat
      BY <1>1, <3>1
    <3> QED BY <1>1, <1>2, <2>1, <3>1, <3>2
  <2> QED BY <2>2, <2>3, <2>4, <2>5, <2>6 DEF LimitsInv
<1>10. CASE UNCHANGED limitVars
  BY <1>10 DEF limitVars, LimitsInv, LimitsTypeOK, CallsAreFresh, CountersOutlive, AdmittedIsCounted,
               LeftAreOld, EndOf
<1> QED BY <1>3, <1>4, <1>5, <1>6, <1>7, <1>8, <1>9, <1>10 DEF LimitsNext

\* For any numbers of processes and any limit: no window brings more calls than it may, however
\* late they ask Redis, no process admits more by itself in any window of time, and none where
\* Redis is mandatory.
THEOREM LimitsAreHeld == LimitsSpec => []LimitsHeld
<1>1. LimitsInv => LimitsHeld
  BY DEF LimitsInv, AdmittedIsCounted, LeftAreOld, LimitsHeld
<1> QED BY <1>1, LimitsInitially, LimitsStep, PTL DEF LimitsSpec

-----------------------------------------------------------------------------
(* All services of MCActors side by side.  Every step of a run is a step   *)
(* of one of them and leaves the variables of the others alone.            *)

LEMMA OneActorRuns ==
    ASSUME [ActorsNext]_actorsVars
    PROVE  /\ [ExploreNext]_exploreVars /\ [BotsNext]_botsVars /\ [SecNext]_secVars
           /\ [CatalogNext]_catalogVars /\ [LimitsNext]_limitVars
<1>1. CASE UNCHANGED actorsVars
  BY <1>1 DEF actorsVars
<1>2. CASE ActorsNext
  BY <1>2 DEF ActorsNext, OnlyIn
<1> QED BY <1>1, <1>2

\* A run of MCActors is a behaviour of every service in it: what is proved of one holds in
\* the run.
THEOREM ActorsAreParts ==
    ActorsSpec => ExploreSpec /\ BotsSpec /\ SecSpec /\ CatalogSpec /\ LimitsSpec
<1>1. ActorsInit => ExploreInit /\ BotsInit /\ SecInit /\ CatalogInit /\ LimitsInit
  BY DEF ActorsInit
<1> QED
  BY <1>1, OneActorRuns, PTL
     DEF ActorsSpec, ExploreSpec, BotsSpec, SecSpec, CatalogSpec, LimitsSpec

\* Whichever service runs, its variables have their types: explorations, updates, payloads,
\* sections and costs stay within what the tables can hold.
THEOREM ActorTypesCorrect == ActorsSpec => []ActorTypesOK
<1>1. BotsInv => BotsTypeOK
  BY DEF BotsInv
<1>2. SectionInv => SecTypeOK
  BY DEF SectionInv
<1>3. BotsSpec => []BotsInv
  BY BotsInitially, BotsStep, PTL DEF BotsSpec
<1>4. SecSpec => []SectionInv
  BY SectionsInitially, SectionsStep, PTL DEF SecSpec
<1>5. CatalogSpec => []CatalogTypeOK
  <2>1. CatalogInv => CatalogTypeOK
    BY DEF CatalogInv
  <2> QED BY <2>1, CatalogInitially, CatalogStep, PTL DEF CatalogSpec
<1>6. LimitsSpec => []LimitsTypeOK
  <2>1. LimitsInv => LimitsTypeOK
    BY DEF LimitsInv
  <2> QED BY <2>1, LimitsInitially, LimitsStep, PTL DEF LimitsSpec
<1>7. ExploreTypeOK /\ BotsTypeOK /\ SecTypeOK /\ CatalogTypeOK /\ LimitsTypeOK => ActorTypesOK
  BY DEF ActorTypesOK
<1> QED
  BY <1>1, <1>2, <1>3, <1>4, <1>5, <1>6, <1>7, ActorsAreParts, ExploreTypeCorrect, PTL

\* Everything that a run of the actors checks, for every instance of them.
THEOREM ActorsAreSound ==
    ActorsSpec => /\ []ActorTypesOK /\ []CreditsServed /\ []ConversationKept
                  /\ []VerdictAndBudget /\ []CatalogKept /\ []LimitsHeld
<1> QED
  BY ActorsAreParts, ActorTypesCorrect, CreditsAreServed, ConversationIsKept,
     BudgetAndVerdictHold, CatalogIsKept, LimitsAreHeld, PTL
=============================================================================
