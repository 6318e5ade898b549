-------------------------------- MODULE Chat --------------------------------
(***************************************************************************)
(* The paid chat of one account, POST /api/chat and POST /api/chat/stream  *)
(* (app/main.py), with the daily quota in Redis (app/security.py) and the  *)
(* units of a chat pack (app/entitlements.py).                             *)
(*                                                                         *)
(* A request finds the account's pack or plan, claims a slot of the day,   *)
(* asks the model, writes the turn to the history and takes a unit of the  *)
(* pack it found.  Each of these is a step; requests of the account        *)
(* overlap, and midnight (UTC) may pass inside one.                        *)
(***************************************************************************)
EXTENDS Integers, FiniteSets

CONSTANTS
    Requests,
    LastDay,       \* bound: days looked at
    Limit,         \* chat_daily_limit
    MaxAsked,      \* bound: questions asked, refused ones included
    Units,         \* quantity of the account's chat pack, 0 without one
    HasPlan        \* whether a paid order admits the account without a pack

ASSUME ChatAssumption ==
    /\ IsFiniteSet(Requests) /\ Requests # {}
    /\ LastDay \in Nat /\ Limit \in Nat /\ MaxAsked \in Nat /\ Units \in Nat
    /\ HasPlan \in BOOLEAN

Days == 0 .. LastDay

VARIABLES
    asked,      \* questions asked so far
    day,        \* the date of the server's clock
    counter,    \* counter[d]: the Redis key chatq:{d}:{account}
    history,    \* history[d]: questions stored in chat_messages on day d
    used,       \* entitlements.used of the pack
    served,     \* served[d]: answers to requests that claimed a slot of day d
    packServed, \* answers to requests that were admitted by the pack
    req,        \* req[r]: where request r is and what it holds
    \* History, read by the properties only:
    strays,       \* strays[d]: releases of a slot that was not claimed on day d
    placeholders, \* placeholders returned to requests that were admitted by the pack
    lost          \* answers whose request died before it took its unit

ghosts == <<strays, placeholders, lost>>
vars == <<asked, day, counter, history, used, served, packServed, req, ghosts>>

NoReq == [pc |-> "idle", day |-> 0, claimed |-> FALSE, pack |-> FALSE]

TypeOK ==
    /\ asked \in 0 .. MaxAsked
    /\ day \in Days
    /\ counter \in [Days -> Int]
    /\ history \in [Days -> Nat]
    /\ used \in 0 .. Units
    /\ served \in [Days -> Nat]
    /\ packServed \in Nat
    /\ req \in [Requests -> [pc : {"idle", "found", "asking", "consume"}, day : Days,
                             claimed : BOOLEAN, pack : BOOLEAN]]
    /\ strays \in [Days -> Nat]
    /\ placeholders \in Nat /\ lost \in Nat

Init ==
    /\ asked = 0
    /\ day = 0
    /\ counter = [d \in Days |-> 0]
    /\ history = [d \in Days |-> 0]
    /\ used = 0
    /\ served = [d \in Days |-> 0]
    /\ packServed = 0
    /\ req = [r \in Requests |-> NoReq]
    /\ strays = [d \in Days |-> 0]
    /\ placeholders = 0 /\ lost = 0

-----------------------------------------------------------------------------
(* Admission: _chat_guarded_context.                                       *)

\* A usable pack, or else a plan.
Admissible == used < Units \/ HasPlan

\* The pack is looked up once, with the paid order; a unit of it is taken much
\* later.  A request that finds neither is answered 403.
Admit(r) ==
    /\ req[r].pc = "idle" /\ Admissible
    /\ asked < MaxAsked /\ asked' = asked + 1
    /\ req' = [req EXCEPT ![r] = [NoReq EXCEPT !.pc = "found", !.pack = used < Units]]
    /\ UNCHANGED <<day, counter, history, used, served, packServed, ghosts>>

\* The request goes on to the model.
Ask(r, isClaimed) ==
    req' = [req EXCEPT ![r] = [@ EXCEPT !.pc = "asking", !.day = day, !.claimed = isClaimed]]

Reply(r) == req' = [req EXCEPT ![r] = NoReq]

\* A fault: the comparison with the limit is off by one.
ClaimOffByOne(r) ==
    /\ req[r].pc = "found"
    /\ counter[day] + 1 <= Limit + 1
    /\ counter' = [counter EXCEPT ![day] = @ + 1]
    /\ Ask(r, TRUE)
    /\ UNCHANGED <<asked, day, history, used, served, packServed, ghosts>>

\* chat_quota_claim: INCR answers with a number within the limit.
Claim(r) ==
    /\ req[r].pc = "found"
    /\ counter[day] + 1 <= Limit
    /\ counter' = [counter EXCEPT ![day] = @ + 1]
    /\ Ask(r, TRUE)
    /\ UNCHANGED <<asked, day, history, used, served, packServed, ghosts>>

\* 429: the slot past the limit stays counted.
ClaimRefused(r) ==
    /\ req[r].pc = "found"
    /\ counter[day] + 1 > Limit
    /\ counter' = [counter EXCEPT ![day] = @ + 1]
    /\ Reply(r)
    /\ UNCHANGED <<asked, day, history, used, served, packServed, ghosts>>

\* Redis does not answer, and may have counted all the same: the questions
\* stored on this day decide.
ClaimDegraded(r) ==
    /\ req[r].pc = "found"
    /\ \/ UNCHANGED counter
       \/ counter' = [counter EXCEPT ![day] = @ + 1]
    /\ IF history[day] < Limit THEN Ask(r, FALSE) ELSE Reply(r)
    /\ UNCHANGED <<asked, day, history, used, served, packServed, ghosts>>

-----------------------------------------------------------------------------
(* The answer.                                                             *)

\* The turn is stored; a request with a pack goes on to take a unit.
Store(r) ==
    /\ history' = [history EXCEPT ![day] = @ + 1]
    /\ req' = [req EXCEPT ![r] = IF @.pack THEN [@ EXCEPT !.pc = "consume"] ELSE NoReq]

Answer(r) ==
    /\ req[r].pc = "asking"
    /\ Store(r)
    /\ served' = [served EXCEPT ![req[r].day] = IF req[r].claimed THEN @ + 1 ELSE @]
    /\ packServed' = packServed + (IF req[r].pack THEN 1 ELSE 0)
    /\ UNCHANGED <<asked, day, counter, used, ghosts>>

\* /api/chat: the model ends with no text; a placeholder is returned and the
\* request goes on like an answered one.
Placeholder(r) ==
    /\ req[r].pc = "asking"
    /\ Store(r)
    /\ placeholders' = placeholders + (IF req[r].pack THEN 1 ELSE 0)
    /\ UNCHANGED <<asked, day, counter, used, served, packServed, strays, lost>>

Claimed(r, d) == req[r].claimed /\ req[r].day = d

\* A fault: an error path and the cleanup after it both give the slot back.
ReleaseTwice(r) ==
    /\ counter' = [counter EXCEPT ![day] = @ - 2]
    /\ strays' = [strays EXCEPT ![day] = IF Claimed(r, day) THEN @ ELSE @ + 1]

\* chat_quota_release: DECR of the key of the date it is now, whether or not the
\* request has claimed a slot, and of which day.
Release(r) ==
    /\ counter' = [counter EXCEPT ![day] = @ - 1]
    /\ strays' = [strays EXCEPT ![day] = IF Claimed(r, day) THEN @ ELSE @ + 1]

\* The call raises, or the stream ends before its first token.  Redis may not
\* answer the release.
NoAnswer(r) ==
    /\ req[r].pc = "asking"
    /\ Release(r) \/ UNCHANGED <<counter, strays>>
    /\ Reply(r)
    /\ UNCHANGED <<asked, day, history, used, served, packServed, placeholders, lost>>

\* A fault: the unit is taken although the reader has left.
CutConsumes(r) ==
    /\ req[r].pc = "asking"
    /\ req' = [req EXCEPT ![r] = IF @.pack THEN [@ EXCEPT !.pc = "consume"] ELSE NoReq]
    /\ UNCHANGED <<asked, day, counter, history, used, served, packServed, ghosts>>

\* The reader of a stream leaves after the first token, or the model breaks
\* off there: the slot is kept, nothing is stored, no unit is taken.
StreamCut(r) ==
    /\ req[r].pc = "asking"
    /\ Reply(r)
    /\ UNCHANGED <<asked, day, counter, history, used, served, packServed, ghosts>>

\* A fault: the UPDATE of consume() is not guarded.
ConsumeUnguarded(r) ==
    /\ req[r].pc = "consume"
    /\ used' = used + 1
    /\ Reply(r)
    /\ UNCHANGED <<asked, day, counter, history, served, packServed, ghosts>>

\* A fault: the decrement is not committed.
ConsumeNothing(r) ==
    /\ req[r].pc = "consume"
    /\ Reply(r)
    /\ UNCHANGED <<asked, day, counter, history, used, served, packServed, ghosts>>

\* consume(): used <= quantity - 1; a pack that has run out meanwhile is only
\* reported.
Consume(r) ==
    /\ req[r].pc = "consume"
    /\ used' = IF used < Units THEN used + 1 ELSE used
    /\ Reply(r)
    /\ UNCHANGED <<asked, day, counter, history, served, packServed, ghosts>>

-----------------------------------------------------------------------------

Midnight ==
    /\ day < LastDay
    /\ day' = day + 1
    /\ UNCHANGED <<asked, counter, history, used, served, packServed, req, ghosts>>

Crash(r) ==
    /\ req[r].pc # "idle"
    /\ lost' = lost + (IF req[r].pc = "consume" THEN 1 ELSE 0)
    /\ Reply(r)
    /\ UNCHANGED <<asked, day, counter, history, used, served, packServed, strays, placeholders>>

Next ==
    \/ Midnight
    \/ \E r \in Requests :
          \/ Admit(r) \/ Claim(r) \/ ClaimRefused(r) \/ ClaimDegraded(r)
          \/ Answer(r) \/ Placeholder(r) \/ NoAnswer(r) \/ StreamCut(r)
          \/ Consume(r) \/ Crash(r)

Spec == Init /\ [][Next]_vars

-----------------------------------------------------------------------------
(* Correctness.                                                            *)

\* _chat_guarded_context: the claim is atomic "so concurrent requests can't both
\* pass the last slot".  No day brings more answers than its limit, and one for
\* each slot that was given back on it without having been claimed on it:
\* chat_quota_release is called by requests that claimed before midnight, or
\* that were admitted while Redis was away.
QuotaKept == \A d \in Days : served[d] <= Limit + strays[d]

\* Requests that hold a slot of day d.
Holders(d) == {r \in Requests : req[r].pc = "asking" /\ Claimed(r, d)}

\* chat_quota_release: "Undo a claim when the request failed before producing an
\* answer".  But for the releases just named, the counter covers every slot that
\* is held or was answered, so nobody is let in twice on one claim.
CounterCoversClaims ==
    \A d \in Days : served[d] + Cardinality(Holders(d)) <= counter[d] + strays[d]

\* "The pack must actually be CONSUMED per message".  The unit is taken after the
\* answer, so requests that overlap at the last unit are answered all the same:
\* one more than it has units for every other request of the account that can
\* run at the time, and one for each that died before consume().
PackCoversAnswers == packServed <= Units + (Cardinality(Requests) - 1) + lost

\* "A chat-pack entitlement is CONSUMED per successful answer": no unit is taken
\* without one, except for the placeholder of /api/chat.
ConsumedPerAnswer == used <= packServed + placeholders

\* consume() takes the units of a pack for the answers it gave, and for placeholders.
PackIsHonest == PackCoversAnswers /\ ConsumedPerAnswer

\* What the chat answers is covered by the quota of the day or by a pack, and what it takes
\* it takes for answers.
ChatIsPaid == QuotaKept /\ PackIsHonest
=============================================================================
