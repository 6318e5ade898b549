---------------------------- MODULE RecordsProofs ----------------------------
(***************************************************************************)
(* What the run records checks on small instances, for every value of the  *)
(* constants. Chat.tla: the daily quota and the chat pack, with Redis      *)
(* failing and midnight passing at any time. Owners.tla: the charts of a   *)
(* reader, with any number of browsers and tabs. Today.tla: what a chart   *)
(* shows for free. Backups.tla: the good backup that is kept. Zodiac.tla:  *)
(* what a chart and its forecasts say of the sky. TextGate.tla: the gates  *)
(* between the language model and a reader. Answers.tla: the turns of a    *)
(* conversation. Memory.tla: what the chat remembers of a report.          *)
(* Migrations.tla: what the revisions of the database make of its schema,  *)
(* and of the rows that they move. The last part puts them side by side.   *)
(***************************************************************************)
EXTENDS MCRecords, SumProofs

\* Answers and held slots of a day stay within the limit, but for the slots that
\* were given back without having been claimed that day.
HeldWithinLimit ==
    \A d \in Days : served[d] + Cardinality(Holders(d)) <= Limit + strays[d]

QInv == TypeOK /\ CounterCoversClaims /\ HeldWithinLimit

-----------------------------------------------------------------------------

\* The holders of a slot are finitely many.
LEMMA HoldersFinite ==
    \A d : IsFiniteSet(Holders(d)) /\ Cardinality(Holders(d)) \in Nat
<1>1. TAKE d
<1>2. Holders(d) \subseteq Requests
  BY DEF Holders
<1>3. QED
  BY <1>2, ChatAssumption, FS_Subset, FS_CardinalityType DEF ChatAssumption

ReqType == [pc : {"idle", "found", "asking", "consume"}, day : Days, claimed : BOOLEAN, pack : BOOLEAN]

\* What a step makes of a request has the type of requests: a request that has
\* nothing, one that goes on to take a unit, and one that goes on to the model.
LEMMA ReqTyped ==
    ASSUME TypeOK, NEW r \in Requests, NEW b \in BOOLEAN
    PROVE  /\ Reply(r) => req' \in [Requests -> ReqType]
           /\ Store(r) => req' \in [Requests -> ReqType]
           /\ Ask(r, b) => req' \in [Requests -> ReqType]
           /\ Admit(r) => req' \in [Requests -> ReqType]
<1> DEFINE next == [req[r] EXCEPT !.pc = "consume"]
           new == [req[r] EXCEPT !.pc = "asking", !.day = day, !.claimed = b]
           found == [NoReq EXCEPT !.pc = "found", !.pack = used < Units]
<1>1. req \in [Requests -> ReqType]
  BY DEF TypeOK, ReqType
<1>2. NoReq \in ReqType
  BY ChatAssumption DEF NoReq, ReqType, Days, ChatAssumption
<1>3. next \in ReqType /\ new \in ReqType
  BY <1>1 DEF ReqType, TypeOK
<1>4. found \in ReqType
  <2>1. (used < Units) \in BOOLEAN
    BY ChatAssumption DEF TypeOK, ChatAssumption
  <2>2. ASSUME NEW x \in BOOLEAN PROVE [NoReq EXCEPT !.pc = "found", !.pack = x] \in ReqType
    BY <1>2, <2>2 DEF ReqType
  <2>3. QED
    BY <2>1, <2>2, Zenon
<1>5. Store(r) => req' = [req EXCEPT ![r] = IF req[r].pack THEN next ELSE NoReq]
  BY DEF Store
<1>6. Ask(r, b) => req' = [req EXCEPT ![r] = new]
  BY DEF Ask
<1>7. (IF req[r].pack THEN next ELSE NoReq) \in ReqType
  BY <1>2, <1>3
<1>8. Admit(r) => req' = [req EXCEPT ![r] = found]
  BY Zenon DEF Admit
<1> HIDE DEF next, new, found
<1>9. QED
  BY <1>1, <1>2, <1>3, <1>4, <1>5, <1>6, <1>7, <1>8 DEF Reply

\* Every step keeps the types of the requests.
LEMMA ReqStep ==
    ASSUME TypeOK, [Next]_vars
    PROVE  req' \in [Requests -> ReqType]
<1>1. UNCHANGED req => req' \in [Requests -> ReqType]
  BY DEF TypeOK, ReqType
<1>2. CASE UNCHANGED vars \/ Midnight
  BY <1>1, <1>2 DEF vars, Midnight
<1>3. ASSUME NEW r \in Requests,
             \/ Admit(r) \/ Claim(r) \/ ClaimRefused(r) \/ ClaimDegraded(r)
             \/ Answer(r) \/ Placeholder(r) \/ NoAnswer(r) \/ StreamCut(r)
             \/ Consume(r) \/ Crash(r)
      PROVE  req' \in [Requests -> ReqType]
  <2>1. Admit(r) \/ Reply(r) \/ Store(r) \/ Ask(r, TRUE) \/ Ask(r, FALSE)
    BY <1>3, Zenon DEF Claim, ClaimRefused, ClaimDegraded, Answer, Placeholder,
                       NoAnswer, StreamCut, Consume, Crash
  <2>2. QED
    BY <1>1, <2>1, ReqTyped
<1>4. QED
  BY <1>2, <1>3, Zenon DEF Next

\* Every step keeps the types.
LEMMA TypeStep ==
    ASSUME TypeOK, [Next]_vars
    PROVE  TypeOK'
<1> DEFINE Others == /\ asked \in 0 .. MaxAsked
                     /\ day \in Days
                     /\ counter \in [Days -> Int]
                     /\ history \in [Days -> Nat]
                     /\ used \in 0 .. Units
                     /\ served \in [Days -> Nat]
                     /\ packServed \in Nat
                     /\ strays \in [Days -> Nat]
                     /\ placeholders \in Nat /\ lost \in Nat
<1>a. LastDay \in Nat /\ Limit \in Nat /\ MaxAsked \in Nat /\ Units \in Nat
  BY ChatAssumption DEF ChatAssumption
<1>b. Others
  BY DEF TypeOK
<1>c. ASSUME NEW r \in Requests PROVE req[r].day \in Days
  BY <1>c DEF TypeOK
<1>d. Others' => TypeOK'
  BY ReqStep DEF TypeOK, ReqType
<1> USE <1>a, <1>b DEF ghosts
<1>1. CASE UNCHANGED vars
  BY <1>1, <1>d DEF vars
<1>2. CASE Midnight
  <2>1. day' \in Days
    BY <1>2 DEF Midnight, Days
  <2>2. Others'
    BY <1>2, <2>1 DEF Midnight
  <2> QED BY <1>d, <2>2
<1>3. ASSUME NEW r \in Requests, Claim(r) PROVE Others'
  BY <1>3 DEF Claim
<1>4. ASSUME NEW r \in Requests, ClaimRefused(r) PROVE Others'
  BY <1>4 DEF ClaimRefused
<1>5. ASSUME NEW r \in Requests, ClaimDegraded(r) PROVE Others'
  BY <1>5 DEF ClaimDegraded
<1>6. ASSUME NEW r \in Requests, Answer(r) PROVE Others'
  BY <1>6, <1>c DEF Answer, Store
<1>7. ASSUME NEW r \in Requests, Placeholder(r) PROVE Others'
  BY <1>7 DEF Placeholder, Store
<1>8. ASSUME NEW r \in Requests, NoAnswer(r) PROVE Others'
  BY <1>8 DEF NoAnswer, Release
<1>9. ASSUME NEW r \in Requests, StreamCut(r) PROVE Others'
  BY <1>9 DEF StreamCut
<1>10. ASSUME NEW r \in Requests, Consume(r) PROVE Others'
  BY <1>10 DEF Consume
<1>11. ASSUME NEW r \in Requests, Crash(r) PROVE Others'
  BY <1>11 DEF Crash
<1>12. ASSUME NEW r \in Requests, Admit(r) PROVE Others'
  BY <1>12 DEF Admit
<1>13. QED
  BY <1>d, <1>1, <1>2, <1>3, <1>4, <1>5, <1>6, <1>7, <1>8, <1>9, <1>10, <1>11, <1>12, Zenon
     DEF Next

\* Types hold in every reachable state: in particular no more units are taken than
\* the pack has.
THEOREM TypeCorrect == Spec => []TypeOK
<1>1. Init => TypeOK
  BY ChatAssumption DEF Init, TypeOK, Days, NoReq, ChatAssumption
<1>2. TypeOK /\ [Next]_vars => TypeOK'
  BY TypeStep
<1>3. QED
  BY <1>1, <1>2, PTL DEF Spec

-----------------------------------------------------------------------------

\* A request that goes on to the model becomes a holder of this day's slots.
LEMMA ClaimAddsHolder ==
    ASSUME TypeOK, NEW r \in Requests, req[r].pc = "found", Ask(r, TRUE)
    PROVE  \A d : Cardinality(Holders(d)') =
                      Cardinality(Holders(d)) + (IF d = day THEN 1 ELSE 0)
<1>1. /\ req'[r].pc = "asking" /\ req'[r].claimed /\ req'[r].day = day
      /\ \A q \in Requests \ {r} : req'[q] = req[q]
  BY DEF Ask, TypeOK
<1>2. \A d : d = day => Holders(d)' = Holders(d) \cup {r} /\ r \notin Holders(d)
  BY <1>1 DEF Holders, Claimed
<1>3. \A d : d # day => Holders(d)' = Holders(d)
  BY <1>1 DEF Holders, Claimed
<1>4. \A d : IsFiniteSet(Holders(d)) /\ Cardinality(Holders(d)) \in Nat
  BY HoldersFinite
<1>5. ASSUME NEW d, d = day
      PROVE  Cardinality(Holders(d) \cup {r}) = Cardinality(Holders(d)) + 1
  BY <1>2, <1>4, <1>5, FS_AddElement
<1>6. \A d : d # day => Cardinality(Holders(d)) = Cardinality(Holders(d)) + 0
  BY <1>4
<1>7. QED
  BY <1>1, <1>2, <1>3, <1>5, <1>6

\* A request that leaves the model gives up the slot it holds, if it holds one.
LEMMA LeavingDropsHolder ==
    ASSUME TypeOK, NEW r \in Requests, Reply(r) \/ Store(r)
    PROVE  \A d : Cardinality(Holders(d)') =
                      Cardinality(Holders(d)) - (IF r \in Holders(d) THEN 1 ELSE 0)
<1>1. /\ req'[r].pc # "asking"
      /\ \A q \in Requests \ {r} : req'[q] = req[q]
  <2>1. CASE Reply(r)
    BY <2>1 DEF Reply, NoReq, TypeOK
  <2>2. CASE Store(r)
    BY <2>2 DEF Store, NoReq, TypeOK
  <2>3. QED
    BY <2>1, <2>2
<1>2. \A d : Holders(d)' = Holders(d) \ {r}
  BY <1>1 DEF Holders, Claimed
<1>3. ASSUME NEW d
      PROVE  Cardinality(Holders(d) \ {r}) =
                 Cardinality(Holders(d)) - (IF r \in Holders(d) THEN 1 ELSE 0)
  <2>1. IsFiniteSet(Holders(d)) /\ Cardinality(Holders(d)) \in Nat
    BY HoldersFinite
  <2>2. Cardinality(Holders(d) \ {r}) =
            IF r \in Holders(d) THEN Cardinality(Holders(d)) - 1 ELSE Cardinality(Holders(d))
    BY <2>1, FS_RemoveElement, Zenon
  <2>3. QED
    BY <2>1, <2>2
<1>4. QED
  BY <1>1, <1>2, <1>3

\* A request without an answer that keeps slots of other days, or none, releases
\* one of today's all the same; that is a stray.
LEMMA ReleaseCounts ==
    ASSUME TypeOK, NEW r \in Requests, req[r].pc = "asking", Release(r)
    PROVE  \A d \in Days :
               /\ counter'[d] = counter[d] - (IF d = day THEN 1 ELSE 0)
               /\ strays'[d] = strays[d] + (IF d = day /\ r \notin Holders(d) THEN 1 ELSE 0)
<1>1. \A d \in Days : counter[d] \in Int /\ strays[d] \in Nat
  BY DEF TypeOK
<1>2. \A d : r \in Holders(d) <=> Claimed(r, d)
  BY DEF Holders
<1>3. QED
  BY <1>1, <1>2 DEF Release, TypeOK

\* Every step keeps the quota's invariant.
LEMMA QuotaStep ==
    ASSUME QInv, [Next]_vars
    PROVE  QInv'
<1> DEFINE Held(d) == Cardinality(Holders(d))
           Safe == CounterCoversClaims /\ HeldWithinLimit
<1>a. TypeOK'
  BY TypeStep DEF QInv
<1>b. Limit \in Nat /\ \A d : Held(d) \in Nat
  BY HoldersFinite, ChatAssumption DEF ChatAssumption
<1>c. /\ TypeOK /\ Safe
      /\ \A d \in Days : counter[d] \in Int /\ served[d] \in Nat /\ strays[d] \in Nat
      /\ counter \in [Days -> Int] /\ served \in [Days -> Nat] /\ day \in Days
  BY DEF QInv, TypeOK
<1>d. Safe' => QInv'
  BY <1>a DEF QInv
\* Leaving without an answer and without giving the slot back.
<1>e. ASSUME NEW r \in Requests, Reply(r) \/ Store(r), UNCHANGED <<counter, served, strays>>
      PROVE  Safe'
  <2>1. \A d \in Days : Held(d)' = Held(d) - (IF r \in Holders(d) THEN 1 ELSE 0)
    BY <1>b, <1>c, <1>e, LeavingDropsHolder
  <2> HIDE DEF Held
  <2>2. (\A d \in Days : served[d] + Held(d) <= counter[d] + strays[d])'
    BY <1>b, <1>c, <1>e, <2>1 DEF CounterCoversClaims, Held
  <2>3. (\A d \in Days : served[d] + Held(d) <= Limit + strays[d])'
    BY <1>b, <1>c, <1>e, <2>1 DEF HeldWithinLimit, Held
  <2>4. QED
    BY <2>2, <2>3 DEF CounterCoversClaims, HeldWithinLimit, Held
\* Neither counter, answers, releases nor the askers change.
<1>f. ASSUME UNCHANGED <<counter, served, strays, req>>
      PROVE  Safe'
  BY <1>c, <1>f DEF CounterCoversClaims, HeldWithinLimit, Holders, Claimed
<1>1. CASE UNCHANGED vars
  BY <1>1, <1>d, <1>f DEF vars, ghosts
<1>2. CASE Midnight
  BY <1>2, <1>d, <1>f DEF Midnight, ghosts
<1>3. ASSUME NEW r \in Requests, Claim(r) PROVE Safe'
  <2>1. \A d : Held(d)' = Held(d) + (IF d = day THEN 1 ELSE 0)
    BY <1>3, <1>c, ClaimAddsHolder DEF Claim
  <2> HIDE DEF Held
  <2>2. \A d \in Days : counter'[d] = counter[d] + (IF d = day THEN 1 ELSE 0)
    BY <1>3, <1>c DEF Claim
  <2>3. UNCHANGED <<served, strays>> /\ counter[day] + 1 <= Limit
    BY <1>3 DEF Claim, ghosts
  <2>4. (\A d \in Days : served[d] + Held(d) <= counter[d] + strays[d])'
    BY <1>b, <1>c, <2>1, <2>2, <2>3 DEF CounterCoversClaims, Held
  <2>5. (\A d \in Days : served[d] + Held(d) <= Limit + strays[d])'
    BY <1>b, <1>c, <2>1, <2>3 DEF CounterCoversClaims, HeldWithinLimit, Held
  <2>6. QED
    BY <2>4, <2>5 DEF CounterCoversClaims, HeldWithinLimit, Held
\* A slot that nobody holds is counted.
<1>4. ASSUME UNCHANGED <<served, strays>>, \A d : Holders(d)' = Holders(d),
             \A d \in Days : counter'[d] \in Int /\ counter'[d] >= counter[d]
      PROVE  Safe'
  <2>1. \A d : Held(d)' = Held(d)
    BY <1>4
  <2> HIDE DEF Held
  <2>2. (\A d \in Days : served[d] + Held(d) <= counter[d] + strays[d])'
    BY <1>b, <1>c, <1>4, <2>1 DEF CounterCoversClaims, Held
  <2>3. (\A d \in Days : served[d] + Held(d) <= Limit + strays[d])'
    BY <1>c, <1>4, <2>1 DEF HeldWithinLimit, Held
  <2>4. QED
    BY <2>2, <2>3 DEF CounterCoversClaims, HeldWithinLimit, Held
<1>5. ASSUME NEW r \in Requests, ClaimRefused(r) PROVE Safe'
  <2>1. req'[r].pc = "idle" /\ req[r].pc = "found" /\ \A q \in Requests \ {r} : req'[q] = req[q]
    BY <1>5, <1>c DEF ClaimRefused, Reply, NoReq, TypeOK
  <2>2. \A d : Holders(d)' = Holders(d)
    BY <2>1 DEF Holders, Claimed
  <2>3. QED
    BY <1>5, <1>c, <1>4, <2>2 DEF ClaimRefused, ghosts
<1>6. ASSUME NEW r \in Requests, ClaimDegraded(r) PROVE Safe'
  <2>1. /\ req[r].pc = "found" /\ ~req'[r].claimed
        /\ \A q \in Requests \ {r} : req'[q] = req[q]
    <3>1. req[r].pc = "found" /\ (Ask(r, FALSE) \/ Reply(r))
      BY <1>6, Zenon DEF ClaimDegraded
    <3>2. Ask(r, FALSE) => /\ ~req'[r].claimed
                           /\ \A q \in Requests \ {r} : req'[q] = req[q]
      BY <1>c DEF Ask, TypeOK
    <3>3. Reply(r) => /\ ~req'[r].claimed
                      /\ \A q \in Requests \ {r} : req'[q] = req[q]
      BY <1>c DEF Reply, NoReq, TypeOK
    <3>4. QED
      BY <3>1, <3>2, <3>3, Zenon
  <2>2. \A d : Holders(d)' = Holders(d)
    BY <1>6, <2>1 DEF ClaimDegraded, Holders, Claimed
  <2>3. QED
    BY <1>6, <1>c, <1>4, <2>2 DEF ClaimDegraded, ghosts
<1>7. ASSUME NEW r \in Requests, Answer(r) PROVE Safe'
  <2>1. \A d : Held(d)' = Held(d) - (IF r \in Holders(d) THEN 1 ELSE 0)
    BY <1>7, <1>c, LeavingDropsHolder DEF Answer
  <2>2. \A d \in Days : served'[d] = served[d] + (IF r \in Holders(d) THEN 1 ELSE 0)
    BY <1>7, <1>c DEF Answer, Holders, Claimed
  <2>3. UNCHANGED <<counter, strays>>
    BY <1>7 DEF Answer, ghosts
  <2> HIDE DEF Held
  <2>4. \A d \in Days : served'[d] + Held(d)' = served[d] + Held(d)
    BY <1>b, <1>c, <2>1, <2>2
  <2>5. QED
    BY <1>c, <2>3, <2>4 DEF CounterCoversClaims, HeldWithinLimit, Held
<1>8. ASSUME NEW r \in Requests, NoAnswer(r), Release(r) PROVE Safe'
  <2>1. \A d : Held(d)' = Held(d) - (IF r \in Holders(d) THEN 1 ELSE 0)
    BY <1>8, <1>c, LeavingDropsHolder DEF NoAnswer
  <2>2. /\ UNCHANGED served
        /\ \A d \in Days :
              /\ counter'[d] = counter[d] - (IF d = day THEN 1 ELSE 0)
              /\ strays'[d] = strays[d] + (IF d = day /\ r \notin Holders(d) THEN 1 ELSE 0)
    BY <1>8, <1>c, ReleaseCounts DEF NoAnswer
  <2> HIDE DEF Held
  <2>3. (\A d \in Days : served[d] + Held(d) <= counter[d] + strays[d])'
    BY <1>b, <1>c, <2>1, <2>2 DEF CounterCoversClaims, Held
  <2>4. (\A d \in Days : served[d] + Held(d) <= Limit + strays[d])'
    BY <1>b, <1>c, <2>1, <2>2 DEF HeldWithinLimit, Held
  <2>5. QED
    BY <2>3, <2>4 DEF CounterCoversClaims, HeldWithinLimit, Held
<1>9. ASSUME NEW r \in Requests,
             \/ Placeholder(r) \/ StreamCut(r) \/ Consume(r) \/ Crash(r)
             \/ NoAnswer(r) /\ ~Release(r)
      PROVE  Safe'
  BY <1>9, <1>e DEF Placeholder, StreamCut, Consume, Crash, NoAnswer, ghosts
\* Whoever is admitted holds no slot yet.
<1>10. ASSUME NEW r \in Requests, Admit(r) PROVE Safe'
  <2>1. /\ req[r].pc = "idle" /\ req'[r].pc = "found"
        /\ \A q \in Requests \ {r} : req'[q] = req[q]
    BY <1>10, <1>c DEF Admit, NoReq, TypeOK
  <2>2. \A d : Holders(d)' = Holders(d)
    BY <2>1 DEF Holders, Claimed
  <2>3. QED
    BY <1>10, <1>c, <1>4, <2>2 DEF Admit, ghosts
<1>11. QED
  BY <1>d, <1>1, <1>2, <1>3, <1>5, <1>6, <1>7, <1>8, <1>9, <1>10, Zenon DEF Next

\* Nobody holds a slot at the start.
LEMMA QuotaInit == Init => QInv
<1> SUFFICES ASSUME Init PROVE QInv
  OBVIOUS
<1>1. \A d : Holders(d) = {}
  BY DEF Init, Holders, NoReq
<1>2. Cardinality({}) = 0
  BY FS_EmptySet
<1>3. TypeOK
  BY ChatAssumption DEF Init, TypeOK, Days, NoReq, ChatAssumption
<1>4. CounterCoversClaims /\ HeldWithinLimit
  BY <1>1, <1>2, ChatAssumption DEF Init, CounterCoversClaims, HeldWithinLimit,
     ChatAssumption
<1>5. QED
  BY <1>3, <1>4 DEF QInv

\* The counter of a day covers the slots that are held or were answered, but for
\* the releases of slots that were not claimed on it (chat_quota_release).
THEOREM CounterCorrect == Spec => []CounterCoversClaims
<1>1. QInv /\ [Next]_vars => QInv'
  BY QuotaStep
<1>2. QInv => CounterCoversClaims
  BY DEF QInv
<1>3. QED
  BY <1>1, <1>2, QuotaInit, PTL DEF Spec

\* However many requests overlap, no day brings more answers than its limit and
\* one for each of those releases (chat_quota_claim).
THEOREM QuotaCorrect == Spec => []QuotaKept
<1>1. QInv /\ [Next]_vars => QInv'
  BY QuotaStep
<1>2. QInv => QuotaKept
  <2> SUFFICES ASSUME QInv, NEW d \in Days PROVE served[d] <= Limit + strays[d]
    BY DEF QuotaKept
  <2>1. served[d] \in Nat /\ strays[d] \in Nat /\ Cardinality(Holders(d)) \in Nat
    BY HoldersFinite DEF QInv, TypeOK
  <2>2. QED
    BY <2>1, ChatAssumption DEF QInv, HeldWithinLimit, ChatAssumption
<1>3. QED
  BY <1>1, <1>2, QuotaInit, PTL DEF Spec

-----------------------------------------------------------------------------
(* The chat pack.                                                          *)

\* Requests that were admitted by the pack and are not answered yet, and requests
\* that are about to take their unit.
Askers == {r \in Requests : req[r].pc \in {"found", "asking"} /\ req[r].pack}
Consumers == {r \in Requests : req[r].pc = "consume"}

\* As long as there are units, every answer has taken one, is about to, or died
\* before it could.
PaidSoFar ==
    used < Units => packServed <= used + Cardinality(Consumers) + lost

\* When they are gone nobody is admitted by the pack any more; the requests that
\* are still unanswered are the overrun that is left.
OverrunLeft ==
    used = Units =>
        packServed + Cardinality(Askers) <= Units + (Cardinality(Requests) - 1) + lost

\* Units are taken, or about to be, for answers and placeholders only.
NothingForFree == used + Cardinality(Consumers) <= packServed + placeholders

PackInv == TypeOK /\ PaidSoFar /\ OverrunLeft /\ NothingForFree

\* Askers and consumers are different requests.
LEMMA PackRequests ==
    /\ IsFiniteSet(Askers) /\ IsFiniteSet(Consumers)
    /\ Cardinality(Askers) \in Nat /\ Cardinality(Consumers) \in Nat
    /\ Cardinality(Requests) \in Nat
    /\ Cardinality(Askers) + Cardinality(Consumers) <= Cardinality(Requests)
<1>1. Askers \subseteq Requests /\ Consumers \subseteq Requests /\ Askers \cap Consumers = {}
  BY DEF Askers, Consumers
<1>2. IsFiniteSet(Requests)
  BY ChatAssumption DEF ChatAssumption
<1>3. IsFiniteSet(Askers) /\ IsFiniteSet(Consumers) /\ IsFiniteSet(Askers \cup Consumers)
  BY <1>1, <1>2, FS_Subset, FS_Union
<1>4. Cardinality(Askers \cup Consumers) <= Cardinality(Requests)
  <2>1. Askers \cup Consumers \subseteq Requests
    BY <1>1
  <2>2. QED
    BY <1>2, <2>1, FS_Subset
<1>5. Cardinality(Askers \cup Consumers) = Cardinality(Askers) + Cardinality(Consumers)
  <2>1. Cardinality(Askers \cup Consumers) =
            Cardinality(Askers) + Cardinality(Consumers) - Cardinality(Askers \cap Consumers)
    BY <1>3, FS_Union
  <2>2. Cardinality(Askers \cap Consumers) = 0
    BY <1>1, FS_EmptySet
  <2>3. QED
    BY <1>3, <2>1, <2>2, FS_CardinalityType
<1>6. QED
  BY <1>2, <1>3, <1>4, <1>5, FS_CardinalityType

\* Adding a request to a finite set, or taking one out, changes its size by one
\* at most.
LEMMA SizeOfChange ==
    ASSUME NEW S, NEW r, IsFiniteSet(S)
    PROVE  /\ Cardinality(S) \in Nat
           /\ r \notin S => Cardinality(S \cup {r}) = Cardinality(S) + 1
           /\ Cardinality(S \ {r}) = Cardinality(S) - (IF r \in S THEN 1 ELSE 0)
<1>1. Cardinality(S) \in Nat
  BY FS_CardinalityType
<1>2. r \notin S => Cardinality(S \cup {r}) = Cardinality(S) + 1
  BY FS_AddElement
<1>3. Cardinality(S \ {r}) = IF r \in S THEN Cardinality(S) - 1 ELSE Cardinality(S)
  BY FS_RemoveElement, Zenon
<1>4. QED
  BY <1>1, <1>2, <1>3

\* How admission, the answer and the end of a request move it between the two.
LEMMA AdmitFrame ==
    ASSUME TypeOK, NEW r \in Requests, Admit(r)
    PROVE  Consumers' = Consumers /\ (used = Units => Askers' = Askers)
<1> DEFINE found == [NoReq EXCEPT !.pc = "found", !.pack = used < Units]
<1>1. req' = [req EXCEPT ![r] = found] /\ req[r].pc = "idle"
  BY Zenon DEF Admit
<1>2. found.pc = "found" /\ (found.pack <=> used < Units)
  BY Zenon DEF NoReq
<1>3. used = Units => ~(used < Units)
  BY ChatAssumption DEF ChatAssumption
<1> HIDE DEF found
<1>4. req'[r] = found /\ \A q \in Requests \ {r} : req'[q] = req[q]
  BY <1>1 DEF TypeOK
<1>5. QED
  BY <1>1, <1>2, <1>3, <1>4 DEF Askers, Consumers

LEMMA AskFrame ==
    ASSUME TypeOK, NEW r \in Requests, NEW b \in BOOLEAN, req[r].pc = "found", Ask(r, b)
    PROVE  Consumers' = Consumers /\ Askers' = Askers
<1>1. /\ req'[r].pc = "asking" /\ req'[r].pack = req[r].pack
      /\ \A q \in Requests \ {r} : req'[q] = req[q]
  BY DEF Ask, TypeOK
<1>2. QED
  BY <1>1 DEF Askers, Consumers

LEMMA StoreFrame ==
    ASSUME TypeOK, NEW r \in Requests, req[r].pc = "asking", Store(r)
    PROVE  /\ req[r].pack => Askers' = Askers \ {r} /\ Consumers' = Consumers \cup {r}
           /\ ~req[r].pack => Askers' = Askers /\ Consumers' = Consumers
<1>1. /\ req'[r].pc = IF req[r].pack THEN "consume" ELSE "idle"
      /\ \A q \in Requests \ {r} : req'[q] = req[q]
  BY DEF Store, NoReq, TypeOK
<1>2. QED
  BY <1>1 DEF Askers, Consumers

LEMMA ReplyFrame ==
    ASSUME TypeOK, NEW r \in Requests, Reply(r)
    PROVE  Askers' = Askers \ {r} /\ Consumers' = Consumers \ {r}
<1>1. req'[r].pc = "idle" /\ \A q \in Requests \ {r} : req'[q] = req[q]
  BY DEF Reply, NoReq, TypeOK
<1>2. QED
  BY <1>1 DEF Askers, Consumers

\* The same, counted.
LEMMA StoreCount ==
    ASSUME TypeOK, NEW r \in Requests, req[r].pc = "asking", Store(r)
    PROVE  /\ Cardinality(Askers') = Cardinality(Askers) - (IF req[r].pack THEN 1 ELSE 0)
           /\ Cardinality(Consumers') =
                  Cardinality(Consumers) + (IF req[r].pack THEN 1 ELSE 0)
<1>1. /\ IsFiniteSet(Askers) /\ IsFiniteSet(Consumers)
      /\ Cardinality(Askers) \in Nat /\ Cardinality(Consumers) \in Nat
  BY PackRequests
<1>2. CASE req[r].pack
  <2>1. r \in Askers /\ r \notin Consumers
    BY <1>2 DEF Askers, Consumers
  <2>2. /\ Cardinality(Askers \ {r}) = Cardinality(Askers) - 1
        /\ Cardinality(Consumers \cup {r}) = Cardinality(Consumers) + 1
    BY <1>1, <2>1, SizeOfChange
  <2>3. QED
    BY <1>2, <2>2, StoreFrame
<1>3. CASE ~req[r].pack
  BY <1>1, <1>3, StoreFrame
<1>4. QED
  BY <1>2, <1>3

LEMMA ReplyCount ==
    ASSUME TypeOK, NEW r \in Requests, Reply(r)
    PROVE  /\ Cardinality(Askers') = Cardinality(Askers) - (IF r \in Askers THEN 1 ELSE 0)
           /\ Cardinality(Consumers') =
                  Cardinality(Consumers) - (IF req[r].pc = "consume" THEN 1 ELSE 0)
<1>1. IsFiniteSet(Askers) /\ IsFiniteSet(Consumers)
  BY PackRequests
<1>2. r \in Consumers <=> req[r].pc = "consume"
  BY DEF Consumers
<1>3. /\ Cardinality(Askers \ {r}) = Cardinality(Askers) - (IF r \in Askers THEN 1 ELSE 0)
      /\ Cardinality(Consumers \ {r}) =
             Cardinality(Consumers) - (IF r \in Consumers THEN 1 ELSE 0)
  BY <1>1, SizeOfChange
<1>4. QED
  BY <1>2, <1>3, ReplyFrame

\* Every step keeps the pack's invariant.
LEMMA PackStep ==
    ASSUME PackInv, [Next]_vars
    PROVE  PackInv'
<1> DEFINE a == Cardinality(Askers)
           c == Cardinality(Consumers)
           n == Cardinality(Requests)
           Safe == PaidSoFar /\ OverrunLeft /\ NothingForFree
<1>1. TypeOK /\ Safe /\ TypeOK'
  BY TypeStep DEF PackInv
<1>2. /\ a \in Nat /\ c \in Nat /\ n \in Nat /\ a + c <= n
      /\ Units \in Nat /\ used \in 0 .. Units /\ packServed \in Nat
      /\ lost \in Nat /\ placeholders \in Nat
  BY <1>1, PackRequests, ChatAssumption DEF TypeOK, ChatAssumption
<1>3. Safe' => PackInv'
  BY <1>1 DEF PackInv
<1>4. Safe' <=> /\ used' < Units => packServed' <= used' + c' + lost'
                /\ used' = Units => packServed' + a' <= Units + (n - 1) + lost'
                /\ used' + c' <= packServed' + placeholders'
  BY DEF PaidSoFar, OverrunLeft, NothingForFree
<1>5. /\ used < Units => packServed <= used + c + lost
      /\ used = Units => packServed + a <= Units + (n - 1) + lost
      /\ used + c <= packServed + placeholders
  BY <1>1 DEF PaidSoFar, OverrunLeft, NothingForFree
<1>6. ASSUME UNCHANGED <<used, packServed, lost, placeholders, req>> PROVE Safe'
  BY <1>1, <1>6 DEF PaidSoFar, OverrunLeft, NothingForFree, Askers, Consumers
<1>7. CASE UNCHANGED vars \/ Midnight
  BY <1>6, <1>7, <1>3 DEF vars, ghosts, Midnight
<1>8. ASSUME NEW r \in Requests, Admit(r) PROVE Safe'
  <2>1. c' = c /\ (used = Units => a' = a)
    BY <1>8, <1>1, AdmitFrame
  <2>2. UNCHANGED <<used, packServed, lost, placeholders>>
    BY <1>8 DEF Admit, ghosts
  <2> HIDE DEF a, c, n, Safe
  <2>3. QED
    BY <1>2, <1>4, <1>5, <2>1, <2>2
<1>9. ASSUME NEW r \in Requests, NEW b \in BOOLEAN, req[r].pc = "found", Ask(r, b),
             UNCHANGED <<used, packServed, lost, placeholders>>
      PROVE  Safe'
  <2>1. c' = c /\ a' = a
    BY <1>9, <1>1, AskFrame
  <2> HIDE DEF a, c, n, Safe
  <2>2. QED
    BY <1>2, <1>4, <1>5, <1>9, <2>1
<1>10. ASSUME NEW r \in Requests, Answer(r) PROVE Safe'
  <2> DEFINE k == IF req[r].pack THEN 1 ELSE 0
  <2>1. a' = a - k /\ c' = c + k
    BY <1>10, <1>1, StoreCount DEF Answer
  <2>2. packServed' = packServed + k /\ UNCHANGED <<used, lost, placeholders>>
    BY <1>10 DEF Answer, ghosts
  <2>3. k \in Nat
    OBVIOUS
  <2> HIDE DEF a, c, n, Safe, k
  <2>4. QED
    BY <1>2, <1>4, <1>5, <2>1, <2>2, <2>3
<1>11. ASSUME NEW r \in Requests, Placeholder(r) PROVE Safe'
  <2> DEFINE k == IF req[r].pack THEN 1 ELSE 0
  <2>1. a' = a - k /\ c' = c + k
    BY <1>11, <1>1, StoreCount DEF Placeholder
  <2>2. placeholders' = placeholders + k /\ UNCHANGED <<used, lost, packServed>>
    BY <1>11 DEF Placeholder
  <2>3. k \in Nat
    OBVIOUS
  <2> HIDE DEF a, c, n, Safe, k
  <2>4. QED
    BY <1>2, <1>4, <1>5, <2>1, <2>2, <2>3
\* A request ends without having got as far as its unit.
<1>12. ASSUME NEW r \in Requests, req[r].pc # "consume", Reply(r),
              UNCHANGED <<used, packServed, lost, placeholders>>
       PROVE  Safe'
  <2> DEFINE i == IF r \in Askers THEN 1 ELSE 0
  <2>1. a' = a - i /\ c' = c
    BY <1>1, <1>2, <1>12, ReplyCount
  <2>2. i \in Nat
    OBVIOUS
  <2> HIDE DEF a, c, n, Safe, i
  <2>3. QED
    BY <1>2, <1>4, <1>5, <1>12, <2>1, <2>2
<1>13. ASSUME NEW r \in Requests, Consume(r) PROVE Safe'
  <2>1. req[r].pc = "consume" /\ Reply(r)
    BY <1>13 DEF Consume
  <2>2. r \notin Askers
    BY <2>1 DEF Askers
  <2>3. a' = a /\ c' = c - 1
    BY <1>1, <1>2, <2>1, <2>2, ReplyCount
  <2>4. used' = (IF used < Units THEN used + 1 ELSE used)
    BY <1>13 DEF Consume
  <2>5. UNCHANGED <<packServed, lost, placeholders>>
    BY <1>13 DEF Consume, ghosts
  <2> HIDE DEF a, c, n, Safe
  <2>6. QED
    BY <1>2, <1>4, <1>5, <2>3, <2>4, <2>5
<1>14. ASSUME NEW r \in Requests, Crash(r) PROVE Safe'
  <2> DEFINE i == IF r \in Askers THEN 1 ELSE 0
             k == IF req[r].pc = "consume" THEN 1 ELSE 0
  <2>1. Reply(r)
    BY <1>14 DEF Crash
  <2>2. a' = a - i /\ c' = c - k
    BY <1>1, <2>1, ReplyCount
  <2>3. lost' = lost + k /\ UNCHANGED <<used, packServed, placeholders>>
    BY <1>14 DEF Crash
  <2>4. i \in Nat /\ k \in Nat
    OBVIOUS
  <2> HIDE DEF a, c, n, Safe, i, k
  <2>5. QED
    BY <1>2, <1>4, <1>5, <2>2, <2>3, <2>4
<1>15. ASSUME NEW r \in Requests, Claim(r) \/ ClaimRefused(r) \/ ClaimDegraded(r)
       PROVE  Safe'
  <2>1. /\ req[r].pc = "found" /\ UNCHANGED <<used, packServed, lost, placeholders>>
        /\ Ask(r, TRUE) \/ Ask(r, FALSE) \/ Reply(r)
    BY <1>15 DEF Claim, ClaimRefused, ClaimDegraded, ghosts
  <2>2. QED
    BY <1>9, <1>12, <2>1
<1>16. ASSUME NEW r \in Requests, NoAnswer(r) \/ StreamCut(r) PROVE Safe'
  <2>1. /\ req[r].pc = "asking" /\ Reply(r)
        /\ UNCHANGED <<used, packServed, lost, placeholders>>
    BY <1>16 DEF NoAnswer, StreamCut, ghosts
  <2>2. QED
    BY <1>12, <2>1
<1>17. QED
  BY <1>3, <1>7, <1>8, <1>10, <1>11, <1>13, <1>14, <1>15, <1>16, Zenon DEF Next

LEMMA PackInit == Init => PackInv
<1> SUFFICES ASSUME Init PROVE PackInv
  OBVIOUS
<1>1. TypeOK
  BY ChatAssumption DEF Init, TypeOK, Days, NoReq, ChatAssumption
<1>2. Askers = {} /\ Consumers = {}
  BY DEF Init, Askers, Consumers, NoReq
<1>3. Cardinality({}) = 0 /\ Cardinality(Requests) \in Nat /\ Cardinality(Requests) # 0
  BY ChatAssumption, FS_EmptySet, FS_CardinalityType DEF ChatAssumption
<1>4. QED
  BY <1>1, <1>2, <1>3, ChatAssumption
     DEF Init, PackInv, PaidSoFar, OverrunLeft, NothingForFree, ChatAssumption

\* The overrun of a pack is bounded by the requests of the account that can run at
\* a time: api_chat and api_chat_stream answer first and consume() afterwards.  And no
\* unit is taken but for an answer or a placeholder, however requests overlap, break off
\* or die.
THEOREM PackCorrect == Spec => []PackIsHonest
<1>1. PackInv /\ [Next]_vars => PackInv'
  BY PackStep
<1>2. PackInv => PackCoversAnswers
  <2> SUFFICES ASSUME PackInv PROVE PackCoversAnswers
    OBVIOUS
  <2>1. /\ Cardinality(Askers) \in Nat /\ Cardinality(Consumers) \in Nat
        /\ Cardinality(Requests) \in Nat
        /\ Cardinality(Askers) + Cardinality(Consumers) <= Cardinality(Requests)
    BY PackRequests
  <2>2. /\ Units \in Nat /\ used \in 0 .. Units /\ packServed \in Nat /\ lost \in Nat
    BY ChatAssumption DEF PackInv, TypeOK, ChatAssumption
  <2>3. QED
    BY <2>1, <2>2 DEF PackInv, PaidSoFar, OverrunLeft, PackCoversAnswers
<1>3. PackInv => ConsumedPerAnswer
  BY PackRequests DEF PackInv, TypeOK, NothingForFree, ConsumedPerAnswer
<1>4. QED
  BY <1>1, <1>2, <1>3, PackInit, PTL DEF Spec, PackIsHonest

\* Both, for any number of requests: what the chat answers is covered, and what it takes is
\* for answers.
THEOREM ChatIsCovered == Spec => []ChatIsPaid
<1>1. QuotaKept /\ PackIsHonest => ChatIsPaid
  BY DEF ChatIsPaid
<1> QED BY <1>1, QuotaCorrect, PackCorrect, PTL

-----------------------------------------------------------------------------
(* The charts of a reader.  The two facts that keep the cookie whole: a    *)
(* request that will answer with the cookie was sent with every entry that *)
(* counts, and it was sent with none that the browser has lost since.      *)

\* A request that runs is some browser's; a claim is some account's, for a chart.
RequestsHaveOwners ==
    \A t \in Tabs :
       /\ tab[t].pc # "idle" => tab[t].from \in Browsers
       /\ tab[t].pc \in {"claim", "claiming"} => tab[t].who \in Accounts
       /\ tab[t].pc \in {"claiming", "respond"} => tab[t].sheet \in Sheets

AloneMeansAlone ==
    \A t, s \in Tabs : tab[t].pc # "idle" /\ tab[t].alone /\ s # t /\ tab[s].pc # "idle"
                          => tab[s].from # tab[t].from

CookieOfRequest ==
    \A t \in Tabs : tab[t].pc \in {"compute", "respond"} =>
       \A c \in answered[tab[t].from] : c \in jar[tab[t].from] <=> c \in tab[t].jar

\* Of the charts a claim was sent with, each is still to be looked at, about to be
\* written, or owned.
ClaimsCover ==
    \A t \in Tabs : tab[t].pc \in {"claim", "claiming"} =>
       \A c \in answered[tab[t].from] \intersect jar[tab[t].from] :
          \/ c \in tab[t].jar
          \/ tab[t].pc = "claiming" /\ tab[t].sheet = c
          \/ keeper[c] \in Accounts

ChartsExist ==
    /\ \A b \in Browsers : \A c \in answered[b] \union jar[b] : keeper[c] # Absent
    /\ \A t \in Tabs : \A c \in tab[t].jar : keeper[c] # Absent

NewChartIsNew ==
    \A t \in Tabs : tab[t].pc = "respond" =>
       /\ keeper[tab[t].sheet] # Absent
       /\ \A b \in Browsers : tab[t].sheet \notin answered[b]
       /\ \A s \in Tabs \ {t} : tab[s].pc = "respond" => tab[s].sheet # tab[t].sheet

LooksAreFresh ==
    \A t \in Tabs : tab[t].pc = "claiming" /\ tab[t].sheet \notin contested =>
       /\ keeper[tab[t].sheet] = Nobody
       /\ \A s \in Tabs \ {t} : tab[s].pc = "claiming" => tab[s].sheet # tab[t].sheet

OwnersInv ==
    /\ OwnersTypeOK /\ RequestsHaveOwners /\ AloneMeansAlone /\ CookieOfRequest
    /\ ClaimsCover /\ ChartsExist /\ NewChartIsNew /\ LooksAreFresh

-----------------------------------------------------------------------------
\* The requests of Create and Verify, before the browser adds its cookie.
AskedFor == [pc : {"compute", "claim"}, from : {"none"}, jar : {{}},
          who : Accounts \union {Nobody}, sheet : {"none"}, alone : BOOLEAN]

TabRequests == [pc : {"idle", "compute", "respond", "claim", "claiming"},
                from : Browsers \union {"none"}, jar : SUBSET Sheets,
                who : Accounts \union {Nobody}, sheet : Sheets \union {"none"},
                alone : BOOLEAN]

\* What sending a request leaves of the tabs.
Sent(t, b, r) ==
    /\ tab[t].pc = "idle" /\ r.pc \in {"compute", "claim"}
    /\ tab'[t].pc = r.pc /\ tab'[t].from = b /\ tab'[t].jar = jar[b] /\ tab'[t].who = r.who
    /\ Waiting(b) # {} => tab'[t].alone = FALSE
    /\ \A s \in Tabs \ {t} :
          /\ tab'[s].pc = tab[s].pc /\ tab'[s].from = tab[s].from
          /\ tab'[s].jar = tab[s].jar /\ tab'[s].who = tab[s].who
          /\ tab'[s].sheet = tab[s].sheet
          /\ tab'[s].alone => tab[s].alone /\ s \notin Waiting(b)

LEMMA SendTabs ==
    ASSUME OwnersTypeOK, NEW t \in Tabs, NEW b \in Browsers, NEW r, Send(t, b, r), r \in AskedFor
    PROVE  Sent(t, b, r) /\ tab' \in [Tabs -> TabRequests]
<1> USE DEF TabRequests
<1>1. tab \in [Tabs -> TabRequests] /\ jar[b] \in SUBSET Sheets
  BY DEF OwnersTypeOK
<1>2. tab'[t] = [r EXCEPT !.from = b, !.jar = jar[b], !.alone = Waiting(b) = {}]
  BY DEF Send
<1>3. \A s \in Tabs \ {t} :
         tab'[s] = IF s \in Waiting(b) THEN [tab[s] EXCEPT !.alone = FALSE] ELSE tab[s]
  BY DEF Send
<1>4. tab'[t] = [pc |-> r.pc, from |-> b, jar |-> jar[b], who |-> r.who, sheet |-> "none",
                 alone |-> Waiting(b) = {}]
  BY <1>2 DEF AskedFor
<1>6. tab'[t] \in TabRequests
  <2>1. r.pc \in {"compute", "claim"} /\ r.who \in Accounts \union {Nobody}
    BY DEF AskedFor
  <2> QED BY <1>1, <1>4, <2>1
<1>7. \A s \in Tabs \ {t} : tab'[s] \in TabRequests
  <2> SUFFICES ASSUME NEW s \in Tabs \ {t} PROVE tab'[s] \in TabRequests
    OBVIOUS
  <2>1. tab[s] \in TabRequests
    BY <1>1
  <2>2. [tab[s] EXCEPT !.alone = FALSE] \in TabRequests
    BY ONLY <2>1
  <2> HIDE DEF TabRequests
  <2> QED BY <1>3, <2>1, <2>2
<1>8. tab' = [s \in Tabs |-> tab'[s]]
  BY DEF Send
<1>9. tab' \in [Tabs -> TabRequests]
  BY <1>6, <1>7, <1>8
<1>10. \A s \in Tabs \ {t} :
                 /\ tab'[s].pc = tab[s].pc /\ tab'[s].from = tab[s].from
                 /\ tab'[s].jar = tab[s].jar /\ tab'[s].who = tab[s].who
                 /\ tab'[s].sheet = tab[s].sheet
                 /\ tab'[s].alone => tab[s].alone /\ s \notin Waiting(b)
  <2> SUFFICES ASSUME NEW s \in Tabs \ {t}
               PROVE  /\ tab'[s].pc = tab[s].pc /\ tab'[s].from = tab[s].from
                      /\ tab'[s].jar = tab[s].jar /\ tab'[s].who = tab[s].who
                      /\ tab'[s].sheet = tab[s].sheet
                      /\ tab'[s].alone => tab[s].alone /\ s \notin Waiting(b)
    OBVIOUS
  <2>1. CASE s \in Waiting(b)
    <3>1. tab[s] \in TabRequests /\ tab'[s] = [tab[s] EXCEPT !.alone = FALSE]
      BY <1>1, <1>3, <2>1
    <3>2. tab'[s].alone = FALSE
      BY <3>1
    <3> QED BY <3>1, <3>2
  <2>2. CASE s \notin Waiting(b)
    BY <1>3, <2>2
  <2> QED BY <2>1, <2>2
<1>11. ASSUME Waiting(b) # {} PROVE tab'[t].alone = FALSE
  <2>1. tab'[t] = [pc |-> r.pc, from |-> b, jar |-> jar[b], who |-> r.who, sheet |-> "none",
                   alone |-> FALSE]
    BY <1>4, <1>11, Zenon
  <2> QED BY <2>1
<1>12. tab'[t].pc = r.pc /\ tab'[t].from = b /\ tab'[t].jar = jar[b] /\ tab'[t].who = r.who
  BY <1>4
<1>13. r.pc \in {"compute", "claim"}
  BY DEF AskedFor
<1> QED BY <1>9, <1>10, <1>11, <1>12, <1>13 DEF Send, Sent

\* All tabs but t run what they ran.
OtherTabs(t) == \A s \in Tabs \ {t} : tab'[s] = tab[s]

\* What the actions of a tab do to it.
LEMMA ClosedTabs ==
    ASSUME tab \in [Tabs -> TabRequests], NEW t \in Tabs, Closed(t)
    PROVE  tab' \in [Tabs -> TabRequests] /\ OtherTabs(t) /\ tab'[t].pc = "idle" /\ tab'[t].jar = {}
<1>1. NoRequest \in TabRequests /\ NoRequest.pc = "idle" /\ NoRequest.jar = {}
  BY DEF NoRequest, TabRequests
<1> HIDE DEF NoRequest
<1> QED BY <1>1 DEF Closed, OtherTabs

LEMMA OwnersTypeStep ==
    OwnersTypeOK /\ RequestsHaveOwners /\ [OwnersNext]_ownersVars => OwnersTypeOK'
<1> SUFFICES ASSUME OwnersTypeOK, RequestsHaveOwners, [OwnersNext]_ownersVars PROVE OwnersTypeOK'
  OBVIOUS
<1>0. /\ keeper \in [Sheets -> Accounts \union {Nobody, Absent}]
      /\ jar \in [Browsers -> SUBSET Sheets]
      /\ login \in [Browsers -> Accounts \union {Nobody}]
      /\ tab \in [Tabs -> TabRequests]
      /\ answered \in [Browsers -> SUBSET Sheets]
      /\ contested \subseteq Sheets
  BY DEF OwnersTypeOK, TabRequests
<1> DEFINE Typed == /\ keeper' \in [Sheets -> Accounts \union {Nobody, Absent}]
                    /\ jar' \in [Browsers -> SUBSET Sheets]
                    /\ login' \in [Browsers -> Accounts \union {Nobody}]
                    /\ tab' \in [Tabs -> TabRequests]
                    /\ answered' \in [Browsers -> SUBSET Sheets]
                    /\ contested' \subseteq Sheets
<1>1. \A t \in Tabs, b \in Browsers : Create(t, b) => Typed
  <2> SUFFICES ASSUME NEW t \in Tabs, NEW b \in Browsers, Create(t, b) PROVE Typed
    OBVIOUS
  <2>1. tab' \in [Tabs -> TabRequests]
    <3> DEFINE r == [NoRequest EXCEPT !.pc = "compute", !.who = login[b]]
    <3>1. r \in AskedFor
      BY <1>0 DEF NoRequest, AskedFor
    <3>2. Send(t, b, r)
      BY DEF Create
    <3> HIDE DEF r
    <3> QED BY <3>1, <3>2, SendTabs
  <2> QED BY <1>0, <2>1 DEF Create
<1>2. \A t \in Tabs, b \in Browsers, u \in Accounts : Verify(t, b, u) => Typed
  <2> SUFFICES ASSUME NEW t \in Tabs, NEW b \in Browsers, NEW u \in Accounts, Verify(t, b, u)
               PROVE Typed
    OBVIOUS
  <2>1. tab' \in [Tabs -> TabRequests]
    <3> DEFINE r == [NoRequest EXCEPT !.pc = "claim", !.who = u]
    <3>1. r \in AskedFor
      BY <1>0 DEF NoRequest, AskedFor
    <3>2. Send(t, b, r)
      BY DEF Verify
    <3> HIDE DEF r
    <3> QED BY <3>1, <3>2, SendTabs
  <2> QED BY <1>0, <2>1 DEF Verify
<1>3. \A t \in Tabs, c \in Sheets : SaveChart(t, c) => Typed
  <2> SUFFICES ASSUME NEW t \in Tabs, NEW c \in Sheets, SaveChart(t, c) PROVE Typed
    OBVIOUS
  <2>1. tab' \in [Tabs -> TabRequests]
    <3>1. [tab[t] EXCEPT !.pc = "respond", !.sheet = c] \in TabRequests
      <4>1. tab[t] \in TabRequests
        BY <1>0
      <4> QED BY ONLY <4>1, c \in Sheets DEF TabRequests
    <3>2. tab' = [tab EXCEPT ![t] = [tab[t] EXCEPT !.pc = "respond", !.sheet = c]]
      BY <1>0 DEF SaveChart
    <3> QED BY <1>0, <3>1, <3>2
  <2>2. tab[t].who \in Accounts \union {Nobody, Absent}
    BY <1>0 DEF TabRequests
  <2> QED BY <1>0, <2>1, <2>2 DEF SaveChart
<1>4. \A t \in Tabs, c, d \in Sheets : SavePair(t, c, d) => Typed
  <2> SUFFICES ASSUME NEW t \in Tabs, NEW c \in Sheets, NEW d \in Sheets, SavePair(t, c, d)
               PROVE Typed
    OBVIOUS
  <2>1. tab' \in [Tabs -> TabRequests]
    BY <1>0, ClosedTabs DEF SavePair
  <2>2. tab[t].who \in Accounts \union {Nobody, Absent}
    BY <1>0 DEF TabRequests
  <2> QED BY <1>0, <2>1, <2>2 DEF SavePair
<1>5. \A t \in Tabs : RefuseChart(t) \/ ResponseLost(t) => Typed
  BY <1>0, ClosedTabs DEF RefuseChart, ResponseLost
<1>6. \A t \in Tabs : ChartResponse(t) => Typed
  <2> SUFFICES ASSUME NEW t \in Tabs, ChartResponse(t) PROVE Typed
    OBVIOUS
  <2>1. tab' \in [Tabs -> TabRequests]
    BY <1>0, ClosedTabs DEF ChartResponse
  <2>2. tab[t].from \in Browsers /\ tab[t].sheet \in Sheets
    BY DEF RequestsHaveOwners, ChartResponse
  <2>3. tab[t].jar \subseteq Sheets
    BY <1>0 DEF TabRequests
  <2>4. NewJar(t) \in SUBSET Sheets
    BY <1>0, <2>2, <2>3 DEF NewJar
  <2> QED BY <1>0, <2>1, <2>2, <2>4 DEF ChartResponse
<1>7. \A t \in Tabs, c \in Sheets : ClaimLook(t, c) => Typed
  <2> SUFFICES ASSUME NEW t \in Tabs, NEW c \in Sheets, ClaimLook(t, c) PROVE Typed
    OBVIOUS
  <2> DEFINE pc == IF keeper[c] = Nobody THEN "claiming" ELSE "claim"
             r == [tab[t] EXCEPT !.jar = @ \ {c}, !.pc = pc, !.sheet = c]
  <2>1. tab[t] \in TabRequests /\ pc \in {"claiming", "claim"}
    BY <1>0
  <2> HIDE DEF pc
  <2>2. r \in TabRequests
    BY ONLY <2>1, c \in Sheets DEF TabRequests
  <2>3. tab' = [tab EXCEPT ![t] = r]
    BY <1>0 DEF ClaimLook, pc
  <2> HIDE DEF r
  <2>4. tab' \in [Tabs -> TabRequests]
    BY <1>0, <2>2, <2>3
  <2> QED BY <1>0, <2>4 DEF ClaimLook
<1>8. \A t \in Tabs : ClaimWrite(t) => Typed
  <2> SUFFICES ASSUME NEW t \in Tabs, ClaimWrite(t) PROVE Typed
    OBVIOUS
  <2>1. tab[t] \in TabRequests /\ tab[t].who \in Accounts \union {Nobody, Absent}
    BY <1>0 DEF TabRequests
  <2>2. [tab[t] EXCEPT !.pc = "claim"] \in TabRequests
    BY ONLY <2>1 DEF TabRequests
  <2>3. tab' = [tab EXCEPT ![t] = [tab[t] EXCEPT !.pc = "claim"]]
    BY <1>0 DEF ClaimWrite
  <2>4. tab' \in [Tabs -> TabRequests]
    BY <1>0, <2>2, <2>3
  <2> QED BY <1>0, <2>1, <2>4 DEF ClaimWrite
<1>9. \A t \in Tabs : LoginResponse(t) => Typed
  <2> SUFFICES ASSUME NEW t \in Tabs, LoginResponse(t) PROVE Typed
    OBVIOUS
  <2>1. tab' \in [Tabs -> TabRequests]
    BY <1>0, ClosedTabs DEF LoginResponse
  <2>2. tab[t].who \in Accounts \union {Nobody}
    BY <1>0 DEF TabRequests
  <2> QED BY <1>0, <2>1, <2>2 DEF LoginResponse
<1>10. \A b \in Browsers : Logout(b) => Typed
  BY <1>0 DEF Logout
<1>11. UNCHANGED ownersVars => Typed
  BY <1>0 DEF ownersVars
<1>12. Typed
  BY <1>1, <1>2, <1>3, <1>4, <1>5, <1>6, <1>7, <1>8, <1>9, <1>10, <1>11 DEF OwnersNext
<1> QED BY <1>12 DEF OwnersTypeOK, TabRequests

ReaderInv ==
    /\ RequestsHaveOwners /\ AloneMeansAlone /\ CookieOfRequest
    /\ ClaimsCover /\ ChartsExist /\ NewChartIsNew /\ LooksAreFresh

\* A request that ends without an effect on charts or on the cookie.
LEMMA EndedStep ==
    ASSUME OwnersTypeOK, ReaderInv, NEW t \in Tabs, Closed(t),
           UNCHANGED <<keeper, jar, answered, contested>>
    PROVE  ReaderInv'
<1>0. tab \in [Tabs -> TabRequests]
  BY DEF OwnersTypeOK, TabRequests
<1>1. OtherTabs(t) /\ tab'[t].pc = "idle" /\ tab'[t].jar = {}
  BY <1>0, ClosedTabs
<1>2. RequestsHaveOwners'
  BY <1>1 DEF ReaderInv, RequestsHaveOwners, OtherTabs
<1>3. AloneMeansAlone'
  BY <1>1 DEF ReaderInv, AloneMeansAlone, OtherTabs
<1>4. CookieOfRequest'
  BY <1>1 DEF ReaderInv, CookieOfRequest, OtherTabs
<1>5. ClaimsCover'
  BY <1>1 DEF ReaderInv, ClaimsCover, OtherTabs
<1>6. ChartsExist'
  BY <1>1 DEF ReaderInv, ChartsExist, OtherTabs
<1>7. NewChartIsNew'
  BY <1>1 DEF ReaderInv, NewChartIsNew, OtherTabs
<1>8. LooksAreFresh'
  BY <1>1 DEF ReaderInv, LooksAreFresh, OtherTabs
<1> QED BY <1>2, <1>3, <1>4, <1>5, <1>6, <1>7, <1>8 DEF ReaderInv

IsAnAccounts(r) == r.pc = "claim" => r.who \in Accounts

LEMMA SentStep ==
    ASSUME OwnersTypeOK, ReaderInv, NEW t \in Tabs, NEW b \in Browsers, NEW r, Send(t, b, r),
           r \in AskedFor, IsAnAccounts(r),
           UNCHANGED <<keeper, jar, answered, contested>>
    PROVE  ReaderInv'
<1>0. Sent(t, b, r)
  BY SendTabs
<1>1. /\ tab[t].pc = "idle"
      /\ tab'[t].pc = r.pc /\ tab'[t].from = b /\ tab'[t].jar = jar[b] /\ tab'[t].who = r.who
      /\ r.pc \in {"compute", "claim"}
  BY <1>0 DEF Sent
<1>10. Waiting(b) # {} => tab'[t].alone = FALSE
  BY <1>0 DEF Sent
<1>2. \A s \in Tabs \ {t} :
         /\ tab'[s].pc = tab[s].pc /\ tab'[s].from = tab[s].from
         /\ tab'[s].jar = tab[s].jar /\ tab'[s].who = tab[s].who
         /\ tab'[s].sheet = tab[s].sheet
         /\ tab'[s].alone => tab[s].alone /\ s \notin Waiting(b)
  BY <1>0 DEF Sent
<1>3. RequestsHaveOwners'
  BY <1>1, <1>2 DEF ReaderInv, RequestsHaveOwners, IsAnAccounts
<1>4. AloneMeansAlone'
  <2> SUFFICES ASSUME NEW p \in Tabs, NEW s \in Tabs, tab'[p].pc # "idle", tab'[p].alone, s # p,
                      tab'[s].pc # "idle"
               PROVE  tab'[s].from # tab'[p].from
    BY DEF AloneMeansAlone
  <2>1. CASE p = t
    BY <1>1, <1>2, <1>10, <2>1 DEF Waiting
  <2>2. CASE s = t
    BY <1>1, <1>2, <2>2 DEF Waiting
  <2>3. CASE p # t /\ s # t
    BY <1>2, <2>3 DEF ReaderInv, AloneMeansAlone
  <2> QED BY <2>1, <2>2, <2>3
<1>5. CookieOfRequest'
  BY <1>1, <1>2 DEF ReaderInv, CookieOfRequest
<1>6. ClaimsCover'
  BY <1>1, <1>2 DEF ReaderInv, ClaimsCover
<1>7. ChartsExist'
  BY <1>1, <1>2 DEF ReaderInv, ChartsExist
<1>8. NewChartIsNew'
  BY <1>1, <1>2 DEF ReaderInv, NewChartIsNew
<1>9. LooksAreFresh'
  BY <1>1, <1>2 DEF ReaderInv, LooksAreFresh
<1> QED BY <1>3, <1>4, <1>5, <1>6, <1>7, <1>8, <1>9 DEF ReaderInv

LEMMA SavedStep ==
    ASSUME OwnersTypeOK, ReaderInv, NEW t \in Tabs, NEW c \in Sheets, SaveChart(t, c)
    PROVE  ReaderInv'
<1>0. /\ tab \in [Tabs -> TabRequests] /\ tab[t].who \in Accounts \union {Nobody}
      /\ keeper \in [Sheets -> Accounts \union {Nobody, Absent}] /\ Nobody # Absent
      /\ tab[t].who # Absent
  BY OwnersAssumption DEF OwnersTypeOK, TabRequests, Nobody, Absent
<1>1. /\ OtherTabs(t) /\ tab[t].pc = "compute" /\ tab'[t].pc = "respond" /\ tab'[t].sheet = c
      /\ tab'[t].from = tab[t].from /\ tab'[t].jar = tab[t].jar /\ tab'[t].alone = tab[t].alone
  BY <1>0 DEF SaveChart, OtherTabs, TabRequests
<1>2. /\ keeper[c] = Absent /\ keeper'[c] # Absent
      /\ \A d \in Sheets \ {c} : keeper'[d] = keeper[d]
      /\ UNCHANGED <<jar, answered, contested>>
  BY <1>0 DEF SaveChart
<1>3. /\ \A b \in Browsers : c \notin answered[b] \union jar[b] /\ answered[b] \union jar[b] \subseteq Sheets
      /\ \A s \in Tabs : c \notin tab[s].jar /\ tab[s].jar \subseteq Sheets
  BY <1>0, <1>2 DEF ReaderInv, ChartsExist, OwnersTypeOK, TabRequests
<1>4. RequestsHaveOwners'
  BY <1>1 DEF ReaderInv, RequestsHaveOwners, OtherTabs
<1>5. AloneMeansAlone'
  BY <1>1 DEF ReaderInv, AloneMeansAlone, OtherTabs
<1>6. CookieOfRequest'
  BY <1>1, <1>2 DEF ReaderInv, CookieOfRequest, OtherTabs
<1>7. ClaimsCover'
  <2> SUFFICES ASSUME NEW s \in Tabs, tab'[s].pc \in {"claim", "claiming"},
                      NEW d \in answered[tab'[s].from] \intersect jar[tab'[s].from]
               PROVE  \/ d \in tab'[s].jar
                      \/ tab'[s].pc = "claiming" /\ tab'[s].sheet = d
                      \/ keeper'[d] \in Accounts
    BY <1>2 DEF ClaimsCover
  <2>1. s # t /\ tab'[s] = tab[s] /\ tab[s].from \in Browsers
    BY <1>1 DEF OtherTabs, ReaderInv, RequestsHaveOwners
  <2>2. d \in Sheets \ {c}
    BY <1>3, <2>1
  <2> QED BY <1>2, <2>1, <2>2 DEF ReaderInv, ClaimsCover
<1>8. ChartsExist'
  BY <1>1, <1>2, <1>3 DEF ReaderInv, ChartsExist, OtherTabs
<1>9. NewChartIsNew'
  <2>1. \A s \in Tabs \ {t} : tab[s].pc = "respond" => tab[s].sheet \in Sheets \ {c}
    BY <1>2 DEF ReaderInv, RequestsHaveOwners, NewChartIsNew
  <2> QED BY <1>1, <1>2, <1>3, <2>1 DEF ReaderInv, NewChartIsNew, OtherTabs
<1>10. LooksAreFresh'
  <2>1. \A s \in Tabs \ {t} : tab[s].pc = "claiming" /\ tab[s].sheet \notin contested
                                  => tab[s].sheet \in Sheets \ {c}
    BY <1>0, <1>2 DEF ReaderInv, RequestsHaveOwners, LooksAreFresh
  <2> QED BY <1>1, <1>2, <2>1 DEF ReaderInv, LooksAreFresh, OtherTabs
<1> QED BY <1>4, <1>5, <1>6, <1>7, <1>8, <1>9, <1>10 DEF ReaderInv

LEMMA PairSavedStep ==
    ASSUME OwnersTypeOK, ReaderInv, NEW t \in Tabs, NEW c \in Sheets, NEW e \in Sheets,
           SavePair(t, c, e)
    PROVE  ReaderInv'
<1>0. /\ tab \in [Tabs -> TabRequests] /\ tab[t].who \in Accounts \union {Nobody}
      /\ keeper \in [Sheets -> Accounts \union {Nobody, Absent}] /\ Nobody # Absent
      /\ tab[t].who # Absent
  BY OwnersAssumption DEF OwnersTypeOK, TabRequests, Nobody, Absent
<1>1. OtherTabs(t) /\ tab'[t].pc = "idle" /\ tab'[t].jar = {}
  BY <1>0, ClosedTabs DEF SavePair
<1>2. /\ keeper[c] = Absent /\ keeper[e] = Absent /\ keeper'[c] # Absent /\ keeper'[e] # Absent
      /\ \A d \in Sheets \ {c, e} : keeper'[d] = keeper[d]
      /\ UNCHANGED <<jar, answered, contested>>
  BY <1>0 DEF SavePair
<1>3. /\ \A b \in Browsers : answered[b] \union jar[b] \subseteq Sheets \ {c, e}
      /\ \A s \in Tabs : tab[s].jar \subseteq Sheets \ {c, e}
  BY <1>0, <1>2 DEF ReaderInv, ChartsExist, OwnersTypeOK, TabRequests
<1>4. RequestsHaveOwners'
  BY <1>1 DEF ReaderInv, RequestsHaveOwners, OtherTabs
<1>5. AloneMeansAlone'
  BY <1>1 DEF ReaderInv, AloneMeansAlone, OtherTabs
<1>6. CookieOfRequest'
  BY <1>1, <1>2 DEF ReaderInv, CookieOfRequest, OtherTabs
<1>7. ClaimsCover'
  <2> SUFFICES ASSUME NEW s \in Tabs, tab'[s].pc \in {"claim", "claiming"},
                      NEW d \in answered[tab'[s].from] \intersect jar[tab'[s].from]
               PROVE  \/ d \in tab'[s].jar
                      \/ tab'[s].pc = "claiming" /\ tab'[s].sheet = d
                      \/ keeper'[d] \in Accounts
    BY <1>2 DEF ClaimsCover
  <2>1. s # t /\ tab'[s] = tab[s] /\ tab[s].from \in Browsers
    BY <1>1 DEF OtherTabs, ReaderInv, RequestsHaveOwners
  <2>2. d \in Sheets \ {c, e}
    BY <1>3, <2>1
  <2> QED BY <1>2, <2>1, <2>2 DEF ReaderInv, ClaimsCover
<1>8. ChartsExist'
  BY <1>1, <1>2, <1>3 DEF ReaderInv, ChartsExist, OtherTabs
<1>9. NewChartIsNew'
  <2>1. \A s \in Tabs \ {t} : tab[s].pc = "respond" => tab[s].sheet \in Sheets \ {c, e}
    BY <1>2 DEF ReaderInv, RequestsHaveOwners, NewChartIsNew
  <2> QED BY <1>1, <1>2, <1>3, <2>1 DEF ReaderInv, NewChartIsNew, OtherTabs
<1>10. LooksAreFresh'
  <2>1. \A s \in Tabs \ {t} : tab[s].pc = "claiming" /\ tab[s].sheet \notin contested
                                  => tab[s].sheet \in Sheets \ {c, e}
    BY <1>0, <1>2 DEF ReaderInv, RequestsHaveOwners, LooksAreFresh
  <2> QED BY <1>1, <1>2, <2>1 DEF ReaderInv, LooksAreFresh, OtherTabs
<1> QED BY <1>4, <1>5, <1>6, <1>7, <1>8, <1>9, <1>10 DEF ReaderInv

\* The cookie of a response: what the browser loses of it counts for nobody, unless the
\* response is alone, and then no other request was sent with the old one.
LEMMA RespondedStep ==
    ASSUME OwnersTypeOK, ReaderInv, NEW t \in Tabs, ChartResponse(t)
    PROVE  ReaderInv'
<1> DEFINE b == tab[t].from
           new == tab[t].sheet
           all == tab[t].jar \union {new}
<1>0. /\ tab \in [Tabs -> TabRequests] /\ b \in Browsers /\ new \in Sheets
      /\ jar \in [Browsers -> SUBSET Sheets] /\ answered \in [Browsers -> SUBSET Sheets]
      /\ tab[t].pc = "respond"
  BY DEF OwnersTypeOK, TabRequests, ReaderInv, RequestsHaveOwners, ChartResponse
<1>1. OtherTabs(t) /\ tab'[t].pc = "idle" /\ tab'[t].jar = {}
  BY <1>0, ClosedTabs DEF ChartResponse
<1>2. /\ jar'[b] = all \/ jar'[b] = jar[b]
      /\ \A x \in Browsers \ {b} : jar'[x] = jar[x] /\ answered'[x] = answered[x]
      /\ ~tab[t].alone => answered'[b] = answered[b]
      /\ tab[t].alone => answered'[b] = answered[b] \union {new}
      /\ UNCHANGED <<keeper, contested>>
  BY <1>0 DEF ChartResponse, NewJar
<1>3. tab[t].alone => \A s \in Tabs \ {t} : tab[s].pc # "idle" => tab[s].from # b
  BY <1>0 DEF ReaderInv, AloneMeansAlone
<1>4. /\ new \notin answered[b] /\ keeper[new] # Absent
      /\ \A c \in answered[b] : c \in jar[b] <=> c \in tab[t].jar
      /\ \A x \in Browsers : new \notin answered[x]
  BY <1>0 DEF ReaderInv, NewChartIsNew, CookieOfRequest
<1>5. \A c \in answered[b] : c \in jar'[b] <=> c \in jar[b]
  BY <1>2, <1>4
<1>6. \A s \in Tabs \ {t} : tab[s].pc # "idle" =>
         /\ answered'[tab[s].from] = answered[tab[s].from]
         /\ \A c \in answered[tab[s].from] : c \in jar'[tab[s].from] <=> c \in jar[tab[s].from]
  <2> SUFFICES ASSUME NEW s \in Tabs \ {t}, tab[s].pc # "idle"
               PROVE  /\ answered'[tab[s].from] = answered[tab[s].from]
                      /\ \A c \in answered[tab[s].from] :
                            c \in jar'[tab[s].from] <=> c \in jar[tab[s].from]
    OBVIOUS
  <2>1. tab[s].from \in Browsers
    BY DEF ReaderInv, RequestsHaveOwners
  <2>2. CASE tab[s].from = b
    BY <1>2, <1>3, <1>5, <2>2
  <2>3. CASE tab[s].from # b
    BY <1>2, <2>1, <2>3
  <2> QED BY <2>2, <2>3
<1> HIDE DEF b, new, all
<1>7. RequestsHaveOwners'
  BY <1>1 DEF ReaderInv, RequestsHaveOwners, OtherTabs
<1>8. AloneMeansAlone'
  BY <1>1 DEF ReaderInv, AloneMeansAlone, OtherTabs
<1>9. CookieOfRequest'
  BY <1>1, <1>6 DEF ReaderInv, CookieOfRequest, OtherTabs
<1>10. ClaimsCover'
  BY <1>1, <1>2, <1>6 DEF ReaderInv, ClaimsCover, OtherTabs
<1>11. ChartsExist'
  <2>1. \A x \in Browsers : \A c \in answered'[x] \union jar'[x] : keeper[c] # Absent
    BY <1>0, <1>2, <1>4 DEF ReaderInv, ChartsExist, all
  <2> QED BY <1>1, <1>2, <2>1 DEF ReaderInv, ChartsExist, OtherTabs
<1>12. NewChartIsNew'
  <2>1. \A s \in Tabs \ {t} : tab[s].pc = "respond" => tab[s].sheet # new
    BY <1>0 DEF ReaderInv, NewChartIsNew, new
  <2>2. \A x \in Browsers : answered'[x] \subseteq answered[x] \union {new}
    BY <1>2
  <2> QED BY <1>1, <1>2, <2>1, <2>2 DEF ReaderInv, NewChartIsNew, OtherTabs
<1>13. LooksAreFresh'
  BY <1>1, <1>2 DEF ReaderInv, LooksAreFresh, OtherTabs
<1> QED BY <1>7, <1>8, <1>9, <1>10, <1>11, <1>12, <1>13 DEF ReaderInv

LEMMA LookedStep ==
    ASSUME OwnersTypeOK, ReaderInv, NEW t \in Tabs, NEW c \in Sheets, ClaimLook(t, c)
    PROVE  ReaderInv'
<1>0. /\ tab \in [Tabs -> TabRequests] /\ keeper[c] \in Accounts \union {Nobody, Absent}
      /\ tab[t].pc = "claim" /\ c \in tab[t].jar /\ Nobody # Absent
  BY DEF OwnersTypeOK, TabRequests, ClaimLook, Nobody, Absent
<1>1. /\ OtherTabs(t)
      /\ tab'[t].pc = IF keeper[c] = Nobody THEN "claiming" ELSE "claim"
      /\ tab'[t].sheet = c /\ tab'[t].jar = tab[t].jar \ {c}
      /\ tab'[t].from = tab[t].from /\ tab'[t].who = tab[t].who /\ tab'[t].alone = tab[t].alone
  BY <1>0 DEF ClaimLook, OtherTabs, TabRequests
<1>2. /\ UNCHANGED <<keeper, jar, answered>> /\ contested \subseteq contested'
      /\ (\E s \in Tabs : tab[s].pc = "claiming" /\ tab[s].sheet = c) => c \in contested'
  BY DEF ClaimLook
<1>3. keeper[c] # Absent
  BY <1>0 DEF ReaderInv, ChartsExist
<1>4. RequestsHaveOwners'
  BY <1>0, <1>1 DEF ReaderInv, RequestsHaveOwners, OtherTabs
<1>5. AloneMeansAlone'
  BY <1>0, <1>1 DEF ReaderInv, AloneMeansAlone, OtherTabs
<1>6. CookieOfRequest'
  BY <1>0, <1>1, <1>2 DEF ReaderInv, CookieOfRequest, OtherTabs
<1>7. ClaimsCover'
  BY <1>0, <1>1, <1>2, <1>3 DEF ReaderInv, ClaimsCover, OtherTabs
<1>8. ChartsExist'
  BY <1>0, <1>1, <1>2 DEF ReaderInv, ChartsExist, OtherTabs
<1>9. NewChartIsNew'
  BY <1>0, <1>1, <1>2 DEF ReaderInv, NewChartIsNew, OtherTabs
<1>10. LooksAreFresh'
  BY <1>0, <1>1, <1>2 DEF ReaderInv, LooksAreFresh, OtherTabs
<1> QED BY <1>4, <1>5, <1>6, <1>7, <1>8, <1>9, <1>10 DEF ReaderInv

LEMMA ClaimedStep ==
    ASSUME OwnersTypeOK, ReaderInv, NEW t \in Tabs, ClaimWrite(t)
    PROVE  ReaderInv'
<1>0. /\ tab \in [Tabs -> TabRequests] /\ tab[t].who \in Accounts /\ tab[t].sheet \in Sheets
      /\ keeper \in [Sheets -> Accounts \union {Nobody, Absent}] /\ Absent \notin Accounts
      /\ tab[t].pc = "claiming"
  BY OwnersAssumption DEF OwnersTypeOK, TabRequests, ClaimWrite, ReaderInv, RequestsHaveOwners
<1>1. /\ OtherTabs(t) /\ tab'[t].pc = "claim" /\ tab'[t].sheet = tab[t].sheet
      /\ tab'[t].jar = tab[t].jar /\ tab'[t].from = tab[t].from /\ tab'[t].who = tab[t].who
      /\ tab'[t].alone = tab[t].alone
  BY <1>0 DEF ClaimWrite, OtherTabs, TabRequests
<1>2. /\ keeper'[tab[t].sheet] \in Accounts
      /\ \A d \in Sheets : d # tab[t].sheet => keeper'[d] = keeper[d]
      /\ UNCHANGED <<jar, answered, contested>>
  BY <1>0 DEF ClaimWrite
<1>3. /\ \A b \in Browsers : answered[b] \union jar[b] \subseteq Sheets
      /\ \A s \in Tabs : tab[s].jar \subseteq Sheets
  BY <1>0 DEF OwnersTypeOK, TabRequests
<1>4. RequestsHaveOwners'
  BY <1>0, <1>1 DEF ReaderInv, RequestsHaveOwners, OtherTabs
<1>5. AloneMeansAlone'
  BY <1>0, <1>1 DEF ReaderInv, AloneMeansAlone, OtherTabs
<1>6. CookieOfRequest'
  BY <1>0, <1>1, <1>2 DEF ReaderInv, CookieOfRequest, OtherTabs
<1>7. ClaimsCover'
  <2> SUFFICES ASSUME NEW s \in Tabs, tab'[s].pc \in {"claim", "claiming"},
                      NEW d \in answered[tab'[s].from] \intersect jar[tab'[s].from]
               PROVE  \/ d \in tab'[s].jar
                      \/ tab'[s].pc = "claiming" /\ tab'[s].sheet = d
                      \/ keeper'[d] \in Accounts
    BY <1>2 DEF ClaimsCover
  <2>1. tab'[s].from = tab[s].from /\ tab[s].pc \in {"claim", "claiming"} /\ tab[s].from \in Browsers
    BY <1>0, <1>1 DEF OtherTabs, ReaderInv, RequestsHaveOwners
  <2>2. d \in Sheets
    BY <1>3, <2>1
  <2>3. d \in tab[s].jar \/ (tab[s].pc = "claiming" /\ tab[s].sheet = d) \/ keeper[d] \in Accounts
    BY <2>1 DEF ReaderInv, ClaimsCover
  <2> QED BY <1>0, <1>1, <1>2, <2>2, <2>3 DEF OtherTabs
<1>8. ChartsExist'
  <2>1. \A d \in Sheets : keeper[d] # Absent => keeper'[d] # Absent
    BY <1>0, <1>2
  <2> QED BY <1>0, <1>1, <1>2, <1>3, <2>1 DEF ReaderInv, ChartsExist, OtherTabs
<1>9. NewChartIsNew'
  <2>1. \A d \in Sheets : keeper[d] # Absent => keeper'[d] # Absent
    BY <1>0, <1>2
  <2> QED BY <1>0, <1>1, <1>2, <2>1 DEF ReaderInv, NewChartIsNew, RequestsHaveOwners, OtherTabs
<1>10. LooksAreFresh'
  BY <1>0, <1>1, <1>2 DEF ReaderInv, LooksAreFresh, RequestsHaveOwners, OtherTabs
<1> QED BY <1>4, <1>5, <1>6, <1>7, <1>8, <1>9, <1>10 DEF ReaderInv

LEMMA OwnersStep == OwnersInv /\ [OwnersNext]_ownersVars => OwnersInv'
<1> SUFFICES ASSUME OwnersInv, [OwnersNext]_ownersVars PROVE OwnersInv'
  OBVIOUS
<1>0. OwnersTypeOK /\ ReaderInv
  BY DEF OwnersInv, ReaderInv
<1>1. OwnersTypeOK'
  BY <1>0, OwnersTypeStep DEF ReaderInv
<1>2. ASSUME NEW t \in Tabs, NEW b \in Browsers, Create(t, b) PROVE ReaderInv'
  <2> DEFINE r == [NoRequest EXCEPT !.pc = "compute", !.who = login[b]]
  <2>1. r \in AskedFor /\ IsAnAccounts(r)
    BY <1>0 DEF NoRequest, AskedFor, OwnersTypeOK, IsAnAccounts
  <2>2. Send(t, b, r) /\ UNCHANGED <<keeper, jar, answered, contested>>
    BY <1>2 DEF Create
  <2> HIDE DEF r
  <2> QED BY <1>0, <2>1, <2>2, SentStep
<1>3. ASSUME NEW t \in Tabs, NEW b \in Browsers, NEW u \in Accounts, Verify(t, b, u) PROVE ReaderInv'
  <2> DEFINE r == [NoRequest EXCEPT !.pc = "claim", !.who = u]
  <2>1. r \in AskedFor /\ IsAnAccounts(r)
    BY DEF NoRequest, AskedFor, IsAnAccounts
  <2>2. Send(t, b, r) /\ UNCHANGED <<keeper, jar, answered, contested>>
    BY <1>3 DEF Verify
  <2> HIDE DEF r
  <2> QED BY <1>0, <2>1, <2>2, SentStep
<1>4. ASSUME NEW t \in Tabs, RefuseChart(t) \/ ResponseLost(t) \/ LoginResponse(t) PROVE ReaderInv'
  <2>1. Closed(t) /\ UNCHANGED <<keeper, jar, answered, contested>>
    BY <1>4 DEF RefuseChart, ResponseLost, LoginResponse
  <2> QED BY <1>0, <2>1, EndedStep
<1>5. ASSUME UNCHANGED <<keeper, jar, tab, answered, contested>> PROVE ReaderInv'
  BY <1>0, <1>5 DEF ReaderInv, RequestsHaveOwners, AloneMeansAlone, CookieOfRequest, ClaimsCover,
                    ChartsExist, NewChartIsNew, LooksAreFresh
<1>6. ReaderInv'
  BY <1>0, <1>2, <1>3, <1>4, <1>5, SavedStep, PairSavedStep, RespondedStep, LookedStep, ClaimedStep
     DEF OwnersNext, Logout, ownersVars
<1> QED BY <1>1, <1>6 DEF OwnersInv, ReaderInv

LEMMA OwnersInitially == OwnersInit => OwnersInv
<1> SUFFICES ASSUME OwnersInit PROVE OwnersInv
  OBVIOUS
<1>1. \A t \in Tabs : tab[t] = NoRequest
  BY DEF OwnersInit
<1>2. NoRequest.pc = "idle" /\ NoRequest.jar = {} /\ NoRequest \in TabRequests
  BY DEF NoRequest, TabRequests
<1>3. OwnersTypeOK
  BY <1>2 DEF OwnersInit, OwnersTypeOK, TabRequests
<1>4. (\A t \in Tabs : tab[t].pc = "idle" /\ tab[t].jar = {})
      /\ (\A b \in Browsers : answered[b] = {} /\ jar[b] = {})
  BY <1>1, <1>2 DEF OwnersInit
<1> QED BY <1>3, <1>4 DEF OwnersInv, RequestsHaveOwners, AloneMeansAlone, CookieOfRequest,
           ClaimsCover, ChartsExist, NewChartIsNew, LooksAreFresh

LEMMA ReaderStep ==
    ASSUME OwnersInv, OwnersNext
    PROVE  /\ \A b \in Browsers : \A c \in answered[b] \intersect jar[b] :
                 /\ c \in jar'[b]
                 /\ login'[b] \notin {login[b], Nobody} => \E u \in Accounts : c \in Listed(u)
           /\ \A c \in Sheets \ contested :
                 keeper[c] \in Accounts => keeper'[c] = keeper[c]
<1>0. /\ OwnersTypeOK /\ ReaderInv /\ Nobody \notin Accounts /\ Absent \notin Accounts
      /\ keeper \in [Sheets -> Accounts \union {Nobody, Absent}]
      /\ jar \in [Browsers -> SUBSET Sheets] /\ answered \in [Browsers -> SUBSET Sheets]
      /\ login \in [Browsers -> Accounts \union {Nobody}]
  BY OwnersAssumption DEF OwnersInv, ReaderInv, OwnersTypeOK
<1>1. ASSUME NEW b \in Browsers, NEW c \in answered[b] \intersect jar[b] PROVE c \in jar'[b]
  <2>1. ASSUME NEW t \in Tabs, ChartResponse(t) PROVE c \in jar'[b]
    <3>1. tab[t].pc = "respond" /\ tab[t].from \in Browsers
          /\ jar'[tab[t].from] = NewJar(t) /\ (b # tab[t].from => jar'[b] = jar[b])
      BY <1>0, <2>1 DEF ChartResponse, ReaderInv, RequestsHaveOwners
    <3>2. b = tab[t].from => c \in tab[t].jar
      BY <3>1, <1>0 DEF ReaderInv, CookieOfRequest
    <3> QED BY <3>1, <3>2 DEF NewJar
  <2>2. CASE UNCHANGED jar
    BY <2>2
  <2> QED BY <2>1, <2>2 DEF OwnersNext, Create, Verify, SaveChart, ClaimLook, SavePair,
             RefuseChart, ResponseLost, ClaimWrite, LoginResponse, Logout
<1>2. ASSUME NEW b \in Browsers, NEW c \in answered[b] \intersect jar[b],
             login'[b] \notin {login[b], Nobody}
      PROVE  \E u \in Accounts : c \in Listed(u)
  <2>1. PICK t \in Tabs : LoginResponse(t)
    BY <1>0, <1>2 DEF OwnersNext, Create, Verify, SaveChart, ClaimLook, SavePair,
       RefuseChart, ResponseLost, ClaimWrite, ChartResponse, Logout
  <2>2. tab[t].from = b /\ tab[t].pc = "claim" /\ tab[t].jar = {}
    BY <1>0, <1>2, <2>1 DEF LoginResponse
  <2>3. keeper[c] \in Accounts /\ c \in Sheets
    BY <1>0, <2>2 DEF ReaderInv, ClaimsCover
  <2> QED BY <2>3 DEF Listed
<1>3. ASSUME NEW c \in Sheets \ contested, keeper[c] \in Accounts PROVE keeper'[c] = keeper[c]
  <2>1. ASSUME NEW t \in Tabs, ClaimWrite(t) PROVE keeper'[c] = keeper[c]
    <3>1. tab[t].sheet # c
      BY <1>0, <1>3, <2>1 DEF ClaimWrite, ReaderInv, LooksAreFresh
    <3> QED BY <1>0, <2>1, <3>1 DEF ClaimWrite
  <2>2. ASSUME NEW t \in Tabs, NEW d \in Sheets, SaveChart(t, d) PROVE keeper'[c] = keeper[c]
    BY <1>0, <1>3, <2>2 DEF SaveChart
  <2>3. ASSUME NEW t \in Tabs, NEW d \in Sheets, NEW e \in Sheets, SavePair(t, d, e)
        PROVE keeper'[c] = keeper[c]
    BY <1>0, <1>3, <2>3 DEF SavePair
  <2>4. CASE UNCHANGED keeper
    BY <2>4
  <2> QED BY <2>1, <2>2, <2>3, <2>4 DEF OwnersNext, Create, Verify, ClaimLook,
             RefuseChart, ResponseLost, ChartResponse, LoginResponse, Logout
<1> QED BY <1>1, <1>2, <1>3

\* Whatever tabs, logins and logouts of any number of browsers overlap, an entry of the
\* cookie that was answered alone stays, its chart is on a dashboard when an account logs
\* in, and only claims that overlap move a chart from one account to another.
THEOREM ReadersKeepCharts == OwnersSpec => ChartsFollowReader
<1>1. OwnersInv /\ [OwnersNext]_ownersVars =>
        [/\ \A b \in Browsers : \A c \in answered[b] \intersect jar[b] :
               /\ c \in jar'[b]
               /\ login'[b] \notin {login[b], Nobody} => \E u \in Accounts : c \in Listed(u)
         /\ \A c \in Sheets \ contested :
               keeper[c] \in Accounts => keeper'[c] = keeper[c]]_ownersVars
  BY ReaderStep
<1> QED BY <1>1, OwnersInitially, OwnersStep, PTL DEF OwnersSpec, ChartsFollowReader

-----------------------------------------------------------------------------
(* The free layer of a chart.  The days in a row that Row counts downwards *)
(* end at the last day that was missed.                                    *)

\* How far back from day e a missed day lies, or the day before the first one.
Missed(days, e) == {m \in Nat : m = e + 1 \/ (m <= e /\ e - m \notin days)}
Length(days, e) == CHOOSE m \in Missed(days, e) : \A k \in Missed(days, e) : m <= k

LEMMA LengthIsLeast ==
    ASSUME NEW days, NEW e \in Nat
    PROVE  /\ Length(days, e) \in Missed(days, e) /\ Length(days, e) \in Nat
           /\ \A k \in Missed(days, e) : Length(days, e) <= k
<1>1. e + 1 \in Missed(days, e) /\ Missed(days, e) \in SUBSET Nat
  BY DEF Missed
<1>2. \E m \in Missed(days, e) : \A k \in Missed(days, e) : m <= k
  BY <1>1, LeastNatural
<1> QED BY <1>1, <1>2 DEF Length

LEMMA LengthSteps ==
    ASSUME NEW days, NEW e \in Nat
    PROVE  Length(days, e) = IF e \notin days THEN 0 ELSE IF e = 0 THEN 1 ELSE 1 + Length(days, e - 1)
<1>1. CASE e \notin days
  <2>1. 0 \in Missed(days, e)
    BY <1>1 DEF Missed
  <2>2. Length(days, e) \in Nat /\ Length(days, e) <= 0
    BY <2>1, LengthIsLeast
  <2> QED BY <1>1, <2>2
<1>2. CASE e \in days /\ e = 0
  <2>1. Missed(days, e) = {1}
    BY <1>2 DEF Missed
  <2>2. Length(days, e) \in Missed(days, e)
    BY LengthIsLeast
  <2> QED BY <1>2, <2>1, <2>2
<1>3. CASE e \in days /\ e # 0
  <2> DEFINE a == Length(days, e)
             b == Length(days, e - 1)
  <2>1. e - 1 \in Nat
    BY <1>3
  <2>2. /\ a \in Missed(days, e) /\ a \in Nat /\ \A k \in Missed(days, e) : a <= k
        /\ b \in Missed(days, e - 1) /\ b \in Nat /\ \A k \in Missed(days, e - 1) : b <= k
    BY <2>1, LengthIsLeast
  <2> HIDE DEF a, b
  <2>3. b + 1 \in Missed(days, e)
    <3>1. b = e \/ (b <= e - 1 /\ e - 1 - b \notin days)
      BY <2>1, <2>2 DEF Missed
    <3>2. e - 1 - b = e - (b + 1)
      BY <2>2
    <3> QED BY <2>2, <3>1, <3>2 DEF Missed
  <2>4. a # 0 /\ a - 1 \in Missed(days, e - 1)
    <3>1. a = e + 1 \/ (a <= e /\ e - a \notin days)
      BY <2>2 DEF Missed
    <3>2. a # 0
      BY <1>3, <2>2, <3>1
    <3>3. e - a = e - 1 - (a - 1) /\ a - 1 \in Nat
      BY <2>2, <3>2
    <3> QED BY <2>1, <2>2, <3>1, <3>2, <3>3 DEF Missed
  <2>5. a <= b + 1 /\ b <= a - 1
    BY <2>2, <2>3, <2>4
  <2>6. a = 1 + b
    BY <2>2, <2>5
  <2> QED BY <1>3, <2>6 DEF a, b
<1> QED BY <1>1, <1>2, <1>3

IsRow(f, days, d) ==
    f = [e \in 0 .. d |-> IF e \notin days THEN 0 ELSE IF e = 0 THEN 1 ELSE 1 + f[e - 1]]

LEMMA RowIsLength == ASSUME NEW days, NEW d \in Nat PROVE Row(days, d) = Length(days, d)
<1> DEFINE f == [e \in 0 .. d |-> Length(days, e)]
           g == CHOOSE h : IsRow(h, days, d)
<1>1. IsRow(f, days, d)
  <2> SUFFICES ASSUME NEW e \in 0 .. d
               PROVE  Length(days, e) = IF e \notin days THEN 0 ELSE IF e = 0 THEN 1 ELSE 1 + f[e - 1]
    BY DEF IsRow
  <2>1. e \in Nat /\ (e # 0 => e - 1 \in 0 .. d)
    OBVIOUS
  <2>2. e # 0 => f[e - 1] = Length(days, e - 1)
    BY <2>1
  <2> HIDE DEF f
  <2> QED BY <2>1, <2>2, LengthSteps
<1> HIDE DEF f
<1>2. IsRow(g, days, d)
  BY <1>1
<1>3. Row(days, d) = g[d]
  BY DEF Row, IsRow
<1> HIDE DEF g
<1>4. f[d] = g[d]
  <2> DEFINE Bad == {e \in 0 .. d : f[e] # g[e]}
  <2> SUFFICES ASSUME Bad # {} PROVE FALSE
    OBVIOUS
  <2>1. Bad \in SUBSET Nat
    OBVIOUS
  <2>2. PICK m \in Bad : \A k \in Bad : m <= k
    <3> HIDE DEF Bad
    <3> QED BY <2>1, LeastNatural
  <2>3. m \in 0 .. d /\ f[m] # g[m]
    OBVIOUS
  <2>4. m # 0 => m - 1 \in 0 .. d /\ f[m - 1] = g[m - 1]
    <3>1. m # 0 => m - 1 \in 0 .. d /\ ~ (m <= m - 1)
      BY <2>3
    <3> QED BY <2>2, <3>1
  <2>5. f[m] = IF m \notin days THEN 0 ELSE IF m = 0 THEN 1 ELSE 1 + f[m - 1]
    BY <1>1, <2>3 DEF IsRow
  <2>6. g[m] = IF m \notin days THEN 0 ELSE IF m = 0 THEN 1 ELSE 1 + g[m - 1]
    BY <1>2, <2>3 DEF IsRow
  <2> HIDE DEF Bad
  <2> QED BY <2>3, <2>4, <2>5, <2>6
<1>5. f[d] = Length(days, d)
  BY DEF f
<1> QED BY <1>3, <1>4, <1>5

\* compute_streak: what it counts, and that writing about a later day does not change it.
LEMMA RowSteps ==
    ASSUME NEW days, NEW d \in Nat
    PROVE  /\ Row(days, d) = IF d \notin days THEN 0 ELSE IF d = 0 THEN 1 ELSE 1 + Row(days, d - 1)
           /\ Row(days, d) \in Nat
           /\ \A c \in Nat : d < c => Row(days \union {c}, d) = Row(days, d)
<1>1. Row(days, d) = Length(days, d)
  BY RowIsLength
<1>2. d # 0 => d - 1 \in Nat /\ Row(days, d - 1) = Length(days, d - 1)
  BY RowIsLength
<1>3. ASSUME NEW c \in Nat, d < c PROVE Row(days \union {c}, d) = Row(days, d)
  <2>1. Missed(days \union {c}, d) = Missed(days, d)
    <3>1. \A m \in Nat : d - m # c
      BY <1>3
    <3> QED BY <3>1 DEF Missed
  <2>2. Length(days \union {c}, d) = Length(days, d)
    BY <2>1 DEF Length
  <2>3. Row(days \union {c}, d) = Length(days \union {c}, d)
    BY RowIsLength
  <2> QED BY <1>1, <2>2, <2>3
<1>4. Length(days, d) = IF d \notin days THEN 0 ELSE IF d = 0 THEN 1 ELSE 1 + Length(days, d - 1)
  BY LengthSteps
<1>5. Length(days, d) \in Nat
  BY LengthIsLeast
<1> QED BY <1>1, <1>2, <1>3, <1>4, <1>5

\* A settled preview is the answer, for good, and nobody is about to write another thing.
TodayInv ==
    /\ TodayTypeOK
    /\ \A d \in diary : d <= date
    /\ settled => /\ preview = [holds |-> "answer", forever |-> TRUE]
                  /\ \A p \in Pages : page[p].pc \notin {"preview", "failed"}

LEMMA TodayTypeStep == TodayTypeOK /\ [TodayNext]_todayVars => TodayTypeOK'
<1> SUFFICES ASSUME TodayTypeOK, [TodayNext]_todayVars PROVE TodayTypeOK'
  OBVIOUS
<1> DEFINE Loads == [pc : {"idle", "preview", "answered", "failed", "daily", "told",
                                 "wrote", "shown"}, date : Dates]
<1> USE TodayAssumption DEF TodayTypeOK
<1>0. 0 \in Dates /\ Blank \in Loads
  BY DEF Dates, Blank
<1>1. ASSUME NEW p \in Pages, Leave(p) PROVE page' \in [Pages -> Loads]
  BY <1>0, <1>1 DEF Leave
<1>2. ASSUME NEW p \in Pages, NEW pc \in {"idle", "preview", "answered", "failed", "daily", "told",
                                          "wrote", "shown"}, Turn(p, pc)
      PROVE  page' \in [Pages -> Loads]
  BY <1>2 DEF Turn
<1>3. ASSUME NEW p \in Pages, NEW yes \in BOOLEAN, OpenPreview(p, yes) PROVE TodayTypeOK'
  BY <1>2, <1>3 DEF OpenPreview
<1>4. ASSUME NEW p \in Pages, NEW yes \in BOOLEAN, Enrich(p, yes) PROVE TodayTypeOK'
  BY <1>2, <1>4 DEF Enrich
<1>5. ASSUME NEW p \in Pages, KeepAnswer(p) PROVE TodayTypeOK'
  BY <1>1, <1>5 DEF KeepAnswer
<1>6. ASSUME NEW p \in Pages, KeepBaseline(p) PROVE TodayTypeOK'
  BY <1>1, <1>6 DEF KeepBaseline
<1>7. ASSUME NEW p \in Pages, Forgotten(p) \/ TellStreak(p) PROVE TodayTypeOK'
  BY <1>1, <1>7 DEF Forgotten, TellStreak
<1>8. ASSUME NEW p \in Pages, OpenToday(p) PROVE TodayTypeOK'
  BY <1>8 DEF OpenToday
<1>9. ASSUME NEW p \in Pages, AskInsight(p) PROVE TodayTypeOK'
  BY <1>2, <1>9 DEF AskInsight
<1>10. ASSUME NEW p \in Pages, KeepInsight(p) PROVE TodayTypeOK'
  BY <1>1, <1>10 DEF KeepInsight, KeyOf
<1>11. ASSUME NEW p \in Pages, Reflect(p) PROVE TodayTypeOK'
  BY <1>11 DEF Reflect
<1>12. CASE PreviewLapses
  BY <1>12 DEF PreviewLapses, Empty
<1>13. CASE DayEnds
  BY <1>13 DEF DayEnds, Dates
<1>14. CASE UNCHANGED todayVars
  BY <1>14 DEF todayVars
<1> QED
  BY <1>3, <1>4, <1>5, <1>6, <1>7, <1>8, <1>9, <1>10, <1>11, <1>12, <1>13, <1>14 DEF TodayNext

LEMMA TodayStep == TodayInv /\ [TodayNext]_todayVars => TodayInv'
<1> SUFFICES ASSUME TodayInv, [TodayNext]_todayVars PROVE TodayInv'
  OBVIOUS
<1> DEFINE Written == \A d \in diary : d <= date
           Final == settled => /\ preview = [holds |-> "answer", forever |-> TRUE]
                               /\ \A p \in Pages : page[p].pc \notin {"preview", "failed"}
<1>0. TodayTypeOK /\ TodayTypeOK' /\ Written /\ Final
  BY TodayTypeStep DEF TodayInv
<1>1. page \in [Pages -> [pc : {"idle", "preview", "answered", "failed", "daily", "told",
                                 "wrote", "shown"}, date : Dates]] /\ date \in Nat
  BY <1>0, TodayAssumption DEF TodayTypeOK, Dates
<1>2. Written'
  <2>1. CASE DayEnds
    <3>1. \A d \in diary : d \in Nat
      BY <1>0, TodayAssumption DEF TodayTypeOK, Dates
    <3> QED BY <1>0, <1>1, <2>1, <3>1 DEF DayEnds
  <2>2. ASSUME NEW p \in Pages, Reflect(p) PROVE Written'
    BY <1>0, <1>1, <2>2 DEF Reflect
  <2>3. CASE UNCHANGED <<date, diary>>
    BY <1>0, <2>3
  <2> QED
    BY <2>1, <2>2, <2>3 DEF TodayNext, todayVars, OpenPreview, Enrich, KeepAnswer, KeepBaseline,
       Forgotten, OpenToday, AskInsight, KeepInsight, TellStreak, PreviewLapses
<1>3. ASSUME NEW p \in Pages, Leave(p)
      PROVE  \A q \in Pages : page'[q].pc = page[q].pc \/ page'[q].pc = "idle"
  BY <1>1, <1>3 DEF Leave, Blank
<1>4. ASSUME NEW p \in Pages, NEW pc, Turn(p, pc)
      PROVE  \A q \in Pages : page'[q].pc = page[q].pc \/ (q = p /\ page'[q].pc = pc)
  BY <1>1, <1>4 DEF Turn
<1>5. ASSUME NEW p \in Pages, NEW yes \in BOOLEAN, OpenPreview(p, yes) PROVE Final'
  <2>1. ASSUME settled' PROVE page' = page /\ preview' = preview /\ settled
    <3>1. settled /\ yes
      BY <1>0, <1>5, <2>1 DEF OpenPreview, TodayTypeOK
    <3>2. preview.holds = "answer"
      BY <1>0, <3>1
    <3> QED BY <1>5, <3>1, <3>2 DEF OpenPreview
  <2> QED BY <1>0, <2>1
<1>6. ASSUME NEW p \in Pages, NEW yes \in BOOLEAN, Enrich(p, yes) PROVE Final'
  BY <1>0, <1>6 DEF Enrich, At
<1>7. ASSUME NEW p \in Pages, KeepAnswer(p) PROVE Final'
  <2>1. page'[p].pc = "idle" /\ \A q \in Pages \ {p} : page'[q] = page[q]
    BY <1>1, <1>7 DEF KeepAnswer, Leave, Blank
  <2>2. preview' = [holds |-> "answer", forever |-> TRUE]
    BY <1>7 DEF KeepAnswer
  <2>3. settled' => \A q \in Pages \ {p} : page[q].pc \notin {"preview", "failed"}
    BY <1>0, <1>7 DEF KeepAnswer
  <2> QED BY <2>1, <2>2, <2>3
<1>8. ASSUME NEW p \in Pages, KeepBaseline(p) PROVE Final'
  BY <1>0, <1>8 DEF KeepBaseline, At
<1>9. ASSUME NEW p \in Pages, Forgotten(p) \/ TellStreak(p) PROVE Final'
  BY <1>0, <1>3, <1>9 DEF Forgotten, TellStreak
<1>10. ASSUME NEW p \in Pages, OpenToday(p) PROVE Final'
  <2>1. \A q \in Pages : page'[q].pc = page[q].pc \/ page'[q].pc = "daily"
    BY <1>1, <1>10 DEF OpenToday
  <2> QED BY <1>0, <1>10, <2>1 DEF OpenToday
<1>11. ASSUME NEW p \in Pages, AskInsight(p) PROVE Final'
  BY <1>0, <1>4, <1>11 DEF AskInsight
<1>12. ASSUME NEW p \in Pages, KeepInsight(p) PROVE Final'
  BY <1>0, <1>3, <1>12 DEF KeepInsight
<1>13. ASSUME NEW p \in Pages, Reflect(p) PROVE Final'
  <2>1. \A q \in Pages : page'[q].pc = page[q].pc \/ page'[q].pc = "wrote"
    BY <1>1, <1>13 DEF Reflect
  <2> QED BY <1>0, <1>13, <2>1 DEF Reflect
<1>14. ASSUME PreviewLapses PROVE Final'
  <2>1. ~settled /\ settled' = settled
    BY <1>0, <1>14 DEF PreviewLapses
  <2> QED BY <2>1
<1>15. ASSUME DayEnds \/ UNCHANGED todayVars PROVE Final'
  <2>1. UNCHANGED <<settled, preview, page>>
    BY <1>15 DEF DayEnds, todayVars
  <2> QED BY <1>0, <2>1
<1>16. Final'
  <2> HIDE DEF Final
  <2> QED BY <1>5, <1>6, <1>7, <1>8, <1>9, <1>10, <1>11, <1>12, <1>13, <1>14, <1>15 DEF TodayNext
<1> QED BY <1>0, <1>2, <1>16 DEF TodayInv

LEMMA TodayInitially == TodayInit => TodayInv
<1> SUFFICES ASSUME TodayInit PROVE TodayInv
  OBVIOUS
<1>1. TodayTypeOK
  <2>1. 0 \in Dates
    BY TodayAssumption DEF Dates
  <2>2. page \in [Pages -> [pc : {"idle", "preview", "answered", "failed", "daily", "told",
                                 "wrote", "shown"}, date : Dates]]
    BY <2>1 DEF TodayInit, Blank
  <2>3. preview \in [holds : {"nothing", "baseline", "answer"}, forever : BOOLEAN]
    BY DEF TodayInit, Empty
  <2>4. insight \in [Dates -> Dates \union {None}]
    BY DEF TodayInit
  <2> QED BY <2>1, <2>2, <2>3, <2>4 DEF TodayInit, TodayTypeOK
<1> QED BY <1>1 DEF TodayInit, TodayInv

\* The types of the preview, of the insight of the day and of the reflections.
THEOREM TodayTypeCorrect == TodaySpec => []TodayTypeOK
<1>1. TodayInv => TodayTypeOK
  BY DEF TodayInv
<1> QED BY <1>1, TodayInitially, TodayTypeStep, PTL DEF TodaySpec

LEMMA FreeLayerStep ==
    ASSUME TodayInv, [TodayNext]_todayVars
    PROVE  [/\ diary' # diary => Streak(diary', date) = Streak(diary, date) + 1
            /\ date' # date => Streak(diary, date') = (IF date \in diary THEN Streak(diary, date) ELSE 0)
            /\ \A d \in Dates : insight'[d] \in {insight[d], d}
            /\ settled /\ settled' => preview' = preview]_todayVars
<1>0. TodayTypeOK /\ date \in Nat /\ insight \in [Dates -> Dates \union {None}]
      /\ (\A d \in diary : d <= date)
      /\ (settled => /\ preview = [holds |-> "answer", forever |-> TRUE]
                     /\ \A p \in Pages : page[p].pc \notin {"preview", "failed"})
  BY TodayAssumption DEF TodayInv, TodayTypeOK, Dates
<1> SUFFICES ASSUME TodayNext
             PROVE  /\ diary' # diary => Streak(diary', date) = Streak(diary, date) + 1
                    /\ date' # date =>
                         Streak(diary, date') = (IF date \in diary THEN Streak(diary, date) ELSE 0)
                    /\ \A d \in Dates : insight'[d] \in {insight[d], d}
                    /\ settled /\ settled' => preview' = preview
  OBVIOUS
<1>1. ASSUME diary' # diary PROVE Streak(diary', date) = Streak(diary, date) + 1
  <2>1. date \notin diary /\ diary' = diary \union {date}
    BY <1>1 DEF TodayNext, OpenPreview, Enrich, KeepAnswer, KeepBaseline, Forgotten, OpenToday,
                AskInsight, KeepInsight, Reflect, TellStreak, PreviewLapses, DayEnds
  <2>2. Streak(diary', date) = Row(diary', date)
    BY <2>1 DEF Streak
  <2>3. Streak(diary, date) = IF date = 0 THEN 0 ELSE Row(diary, date - 1)
    BY <2>1 DEF Streak
  <2>4. Row(diary', date) = IF date = 0 THEN 1 ELSE 1 + Row(diary', date - 1)
    BY <1>0, <2>1, RowSteps
  <2>5. date # 0 => Row(diary', date - 1) = Row(diary, date - 1) /\ Row(diary, date - 1) \in Nat
    <3>1. date # 0 => date - 1 \in Nat /\ date - 1 < date
      BY <1>0
    <3> QED BY <1>0, <2>1, <3>1, RowSteps
  <2> QED BY <2>2, <2>3, <2>4, <2>5
<1>2. ASSUME date' # date
      PROVE  Streak(diary, date') = (IF date \in diary THEN Streak(diary, date) ELSE 0)
  <2>1. date' = date + 1
    BY <1>2 DEF TodayNext, OpenPreview, Enrich, KeepAnswer, KeepBaseline, Forgotten, OpenToday,
                AskInsight, KeepInsight, Reflect, TellStreak, PreviewLapses, DayEnds
  <2>3. Streak(diary, date + 1) = Row(diary, date)
    <3>1. PICK next \in Nat : next = date + 1
      BY <1>0
    <3>2. next \notin diary /\ next # 0 /\ next - 1 = date
      BY <1>0, <3>1
    <3>3. Streak(diary, next) = Row(diary, next - 1)
      BY <3>2 DEF Streak
    <3> QED BY <3>1, <3>2, <3>3
  <2>4. date \notin diary => Row(diary, date) = 0
    BY <1>0, RowSteps
  <2>5. date \in diary => Row(diary, date) = Streak(diary, date)
    BY DEF Streak
  <2> QED BY <2>1, <2>3, <2>4, <2>5
<1>3. ASSUME NEW d \in Dates PROVE insight'[d] \in {insight[d], d}
  <2>1. ASSUME NEW p \in Pages, KeepInsight(p) PROVE insight'[d] \in {insight[d], d}
    BY <1>0, <2>1 DEF KeepInsight, KeyOf
  <2>2. CASE UNCHANGED insight
    BY <2>2
  <2> QED BY <2>1, <2>2 DEF TodayNext, OpenPreview, Enrich, KeepAnswer, KeepBaseline, Forgotten,
                            OpenToday, AskInsight, Reflect, TellStreak, PreviewLapses, DayEnds
<1>4. ASSUME settled, settled' PROVE preview' = preview
  <2>1. ASSUME NEW p \in Pages, KeepAnswer(p) PROVE preview' = preview
    BY <1>0, <1>4, <2>1 DEF KeepAnswer
  <2>2. ASSUME NEW p \in Pages, KeepBaseline(p) PROVE preview' = preview
    BY <1>0, <1>4, <2>2 DEF KeepBaseline, At
  <2>3. CASE PreviewLapses
    BY <1>0, <1>4, <2>3 DEF PreviewLapses
  <2>4. CASE UNCHANGED preview
    BY <2>4
  <2> QED BY <2>1, <2>2, <2>3, <2>4 DEF TodayNext, OpenPreview, Enrich, Forgotten, OpenToday,
                                        AskInsight, KeepInsight, Reflect, TellStreak, DayEnds
<1> QED BY <1>1, <1>2, <1>3, <1>4

\* A reflection makes the streak one longer, the sentence kept for a day is about that
\* day, and a settled answer is never replaced, however loads of the pages overlap.
THEOREM FreeLayerIsKept == TodaySpec => FreeLayerKept
  BY TodayInitially, TodayStep, FreeLayerStep, PTL DEF TodaySpec, FreeLayerKept

-----------------------------------------------------------------------------
(* The backups.  Without a restore beside it a dump that passes the sanity *)
(* gate is of the live database, and a run that deletes has stored its own *)
(* archive, of the same day, in both places.                               *)

\* What holds unless a restore ran beside a run or stopped half-way.
Untorn ==
    /\ restoring \in {"no", "live"}
    /\ restoring = "no" => db # "half"
    /\ \A a \in disk \union bucket : a.holds = "live"
    /\ safe => Good(disk) /\ Good(bucket)
    /\ \A r \in Runs :
          /\ run[r].pc # "idle" => restoring = "no"
          /\ run[r].pc = "dumped" /\ run[r].holds # "live" => db = "empty"
          /\ run[r].pc \notin {"idle", "dumped"} => run[r].holds = "live"
          /\ run[r].pc \in {"encrypted", "uploaded", "pruned"} => Ours(r) \in disk
          /\ run[r].pc \in {"uploaded", "pruned"} => Ours(r) \in bucket

BackupsInv == BackupsTypeOK /\ (torn \/ Untorn)

LEMMA BackupsInitially == BackupsInit => BackupsInv
<1> SUFFICES ASSUME BackupsInit PROVE BackupsInv
  OBVIOUS
<1>1. BackupsTypeOK
  <2>1. db \in Contents /\ restoring \in Contents \union {"no"}
    BY DEF BackupsInit, Contents
  <2>2. run \in [Runs -> [pc : {"idle", "dumped", "checked", "encrypted", "uploaded", "pruned"},
                         holds : Contents]]
    BY DEF BackupsInit, NoRun, Contents
  <2>3. today \in 0 .. FinalDay /\ dumps \in 0 .. MaxDumps
    BY BackupsAssumption DEF BackupsInit
  <2> QED BY <2>1, <2>2, <2>3 DEF BackupsInit, BackupsTypeOK
<1>2. \A r \in Runs : run[r].pc = "idle"
  BY DEF BackupsInit, NoRun
<1>3. Untorn
  BY <1>2 DEF BackupsInit, Untorn
<1> QED BY <1>1, <1>3 DEF BackupsInv

\* Archives of today are not old.
LEMMA TodayStays ==
    ASSUME BackupsTypeOK, NEW archives, NEW days \in Nat, NEW a \in archives, a.day = today
    PROVE  a \in archives \ Old(archives, days)
<1>1. today \in Nat /\ ~ (today + days < today)
  BY BackupsAssumption DEF BackupsTypeOK
<1> QED BY <1>1 DEF Old

LEMMA OursType == ASSUME BackupsTypeOK, NEW r \in Runs PROVE Ours(r) \in Archives /\ Ours(r).day = today
                                                        /\ Ours(r).holds = run[r].holds
  BY DEF BackupsTypeOK, Ours, Archives

LEMMA BackupsTypeStep == BackupsTypeOK /\ [BackupsNext]_backupVars => BackupsTypeOK'
<1> SUFFICES ASSUME BackupsTypeOK, [BackupsNext]_backupVars PROVE BackupsTypeOK'
  OBVIOUS
<1> USE BackupsAssumption DEF BackupsTypeOK, Contents
<1>1. ASSUME NEW r \in Runs, Dump(r) PROVE BackupsTypeOK'
  BY <1>1 DEF Dump
<1>2. ASSUME NEW r \in Runs, CheckSanity(r) PROVE BackupsTypeOK'
  BY <1>2 DEF CheckSanity, Step
<1>3. ASSUME NEW r \in Runs, Encrypt(r) PROVE BackupsTypeOK'
  BY <1>3, OursType DEF Encrypt, Step
<1>4. ASSUME NEW r \in Runs, Upload(r) PROVE BackupsTypeOK'
  BY <1>4, OursType DEF Upload, Step
<1>5. ASSUME NEW r \in Runs, PruneDisk(r) PROVE BackupsTypeOK'
  BY <1>5 DEF PruneDisk, Step
<1>6. ASSUME NEW r \in Runs, PruneBucket(r) PROVE BackupsTypeOK'
  BY <1>6 DEF PruneBucket, NoRun
<1>7. ASSUME NEW r \in Runs, RunFails(r) PROVE BackupsTypeOK'
  BY <1>7 DEF RunFails, NoRun
<1>8. ASSUME NEW a \in Archives, RestoreFrom(a) PROVE BackupsTypeOK'
  BY <1>8 DEF RestoreFrom, Archives
<1>9. CASE RestoreGoesOn
  BY <1>9 DEF RestoreGoesOn
<1>10. CASE Accident
  BY <1>10 DEF Accident
<1>11. CASE NextDay
  BY <1>11 DEF NextDay, Archives
<1>12. CASE UNCHANGED backupVars
  BY <1>12 DEF backupVars
<1> QED
  BY <1>1, <1>2, <1>3, <1>4, <1>5, <1>6, <1>7, <1>8, <1>9, <1>10, <1>11, <1>12 DEF BackupsNext

LEMMA BackupsStep == BackupsInv /\ [BackupsNext]_backupVars => BackupsInv'
<1> SUFFICES ASSUME BackupsInv, [BackupsNext]_backupVars, ~torn' PROVE Untorn'
  BY BackupsTypeStep DEF BackupsInv
<1>0. /\ BackupsTypeOK /\ (torn \/ Untorn)
      /\ run \in [Runs -> [pc : {"idle", "dumped", "checked", "encrypted", "uploaded", "pruned"},
                           holds : Contents]]
  BY DEF BackupsInv, BackupsTypeOK
<1>1. ASSUME NEW r \in Runs, Dump(r) PROVE Untorn'
  <2>1. Untorn /\ restoring = "no"
    BY <1>0, <1>1 DEF Dump
  <2>2. db \in {"live", "empty"}
    BY <1>0, <2>1 DEF Untorn, BackupsTypeOK, Contents
  <2> QED BY <1>0, <1>1, <2>1, <2>2 DEF Dump, Untorn, Ours, Good
<1>2. ASSUME NEW r \in Runs, CheckSanity(r) PROVE Untorn'
  <2>1. Untorn /\ run[r].holds = "live"
    BY <1>0, <1>2 DEF CheckSanity, Step, HasPlans, Untorn
  <2> QED BY <1>0, <1>2, <2>1 DEF CheckSanity, Step, Untorn, Ours, Good
<1>3. ASSUME NEW r \in Runs, Encrypt(r) PROVE Untorn'
  <2>1. Untorn /\ Ours(r).holds = "live"
    BY <1>0, <1>3, OursType DEF Encrypt, Step, Untorn
  <2>2. \A s \in Runs : Ours(s)' = Ours(s)
    BY <1>0, <1>3 DEF Encrypt, Step, Ours
  <2>3. \A s \in Runs : run'[s].holds = run[s].holds /\ (s # r => run'[s] = run[s])
    BY <1>0, <1>3 DEF Encrypt, Step
  <2>4. run[r].pc = "checked" /\ run'[r].pc = "encrypted" /\ disk' = disk \union {Ours(r)}
        /\ UNCHANGED <<db, today, bucket, restoring, safe>>
    BY <1>0, <1>3 DEF Encrypt, Step
  <2>5. safe' => Good(disk)' /\ Good(bucket)'
    BY <2>1, <2>4 DEF Untorn, Good
  <2> QED BY <1>0, <2>1, <2>2, <2>3, <2>4, <2>5 DEF Untorn
<1>4. ASSUME NEW r \in Runs, Upload(r) PROVE Untorn'
  <2>1. Untorn /\ Ours(r).holds = "live" /\ Ours(r) \in disk
    BY <1>0, <1>4, OursType DEF Upload, Step, Untorn
  <2>2. \A s \in Runs : Ours(s)' = Ours(s)
    BY <1>0, <1>4 DEF Upload, Step, Ours
  <2>3. \A s \in Runs : run'[s].holds = run[s].holds /\ (s # r => run'[s] = run[s])
    BY <1>0, <1>4 DEF Upload, Step
  <2>4. run[r].pc = "encrypted" /\ run'[r].pc = "uploaded" /\ bucket' = bucket \union {Ours(r)}
        /\ UNCHANGED <<db, today, disk, restoring>>
    BY <1>0, <1>4 DEF Upload, Step
  <2>5. Good(disk)' /\ Good(bucket)'
    BY <2>1, <2>4 DEF Good
  <2> QED BY <1>0, <2>1, <2>2, <2>3, <2>4, <2>5 DEF Untorn
<1>5. ASSUME NEW r \in Runs, PruneDisk(r) PROVE Untorn'
  <2>1. Untorn
    BY <1>0, <1>5 DEF PruneDisk
  <2>2. \A s \in Runs : Ours(s)' = Ours(s) /\ run'[s].holds = run[s].holds /\ (s # r => run'[s] = run[s])
    BY <1>0, <1>5 DEF PruneDisk, Step, Ours
  <2>3. run[r].pc = "uploaded" /\ run'[r].pc = "pruned" /\ disk' = disk \ Old(disk, LocalDays)
        /\ UNCHANGED <<db, today, bucket, restoring, safe>>
    BY <1>0, <1>5 DEF PruneDisk, Step
  <2>4. \A s \in Runs : Ours(s) \in disk => Ours(s) \in disk'
    BY <1>0, <2>3, TodayStays, OursType, BackupsAssumption
  <2>5. Ours(r) \in disk /\ Ours(r).holds = "live"
    BY <1>0, <2>1, <2>3, OursType DEF Untorn
  <2>6. Good(disk)'
    BY <2>4, <2>5 DEF Good
  <2>7. Good(bucket)' = Good(bucket) /\ disk' \subseteq disk
    BY <2>3 DEF Good
  <2>8. (safe => Good(disk)' /\ Good(bucket)') /\ \A a \in disk' \union bucket' : a.holds = "live"
    BY <2>1, <2>3, <2>6, <2>7 DEF Untorn
  <2> QED BY <1>0, <2>1, <2>2, <2>3, <2>4, <2>8 DEF Untorn
<1>6. ASSUME NEW r \in Runs, PruneBucket(r) PROVE Untorn'
  <2>1. Untorn
    BY <1>0, <1>6 DEF PruneBucket
  <2>2. PICK gone \in SUBSET Old(bucket, RemoteDays) : bucket' = bucket \ gone
    BY <1>6 DEF PruneBucket
  <2>3. run[r].pc = "pruned" /\ run' = [run EXCEPT ![r] = NoRun]
        /\ UNCHANGED <<db, today, disk, restoring, safe>>
    BY <1>6 DEF PruneBucket
  <2>4. \A s \in Runs : (s # r => run'[s] = run[s] /\ Ours(s)' = Ours(s)) /\ run'[r].pc = "idle"
    BY <1>0, <2>3 DEF NoRun, Ours
  <2>5. \A s \in Runs : Ours(s) \in bucket => Ours(s) \in bucket'
    BY <1>0, <2>2, TodayStays, OursType, BackupsAssumption
  <2>6. Ours(r) \in bucket /\ Ours(r).holds = "live"
    BY <1>0, <2>1, <2>3, OursType DEF Untorn
  <2>7. Good(bucket)'
    BY <2>5, <2>6 DEF Good
  <2>8. Good(disk)' = Good(disk) /\ bucket' \subseteq bucket
    BY <2>2, <2>3 DEF Good
  <2>9. (safe => Good(disk)' /\ Good(bucket)') /\ \A a \in disk' \union bucket' : a.holds = "live"
    BY <2>1, <2>3, <2>7, <2>8 DEF Untorn
  <2> QED BY <1>0, <2>1, <2>3, <2>4, <2>5, <2>9 DEF Untorn
<1>7. ASSUME NEW r \in Runs, RunFails(r) PROVE Untorn'
  <2>1. Untorn
    BY <1>0, <1>7 DEF RunFails
  <2>2. \A s \in Runs : (s # r => run'[s] = run[s] /\ Ours(s)' = Ours(s)) /\ run'[r].pc = "idle"
    BY <1>0, <1>7 DEF RunFails, NoRun, Ours
  <2> QED BY <1>0, <1>7, <2>1, <2>2 DEF RunFails, Untorn, Good
<1>8. ASSUME NEW a \in Archives, RestoreFrom(a) PROVE Untorn'
  <2>1. Untorn /\ \A r \in Runs : run[r].pc = "idle"
    BY <1>0, <1>8 DEF RestoreFrom
  <2>2. a.holds = "live"
    BY <1>8, <2>1 DEF RestoreFrom, Untorn
  <2>3. restoring' = "live" /\ db' = "empty" /\ UNCHANGED <<disk, bucket, run, safe>>
    BY <1>8, <2>2 DEF RestoreFrom
  <2>4. (Good(disk) <=> Good(disk)') /\ (Good(bucket) <=> Good(bucket)')
    BY <2>3 DEF Good
  <2>5. \A r \in Runs : run'[r].pc = "idle"
    BY <2>1, <2>3
  <2>6. (\A b \in disk' \union bucket' : b.holds = "live") /\ (safe' => Good(disk)' /\ Good(bucket)')
    BY <2>1, <2>3, <2>4 DEF Untorn
  <2> QED BY <2>3, <2>5, <2>6 DEF Untorn
<1>9. CASE RestoreGoesOn
  <2>1. Untorn /\ restoring = "live" /\ \A r \in Runs : run[r].pc = "idle"
    <3>1. CASE torn
      BY <1>9, <3>1 DEF RestoreGoesOn
    <3>2. CASE Untorn
      BY <1>9, <3>2 DEF RestoreGoesOn, Untorn
    <3> QED BY <1>0, <3>1, <3>2
  <2> QED BY <1>0, <1>9, <2>1 DEF RestoreGoesOn, Untorn, Good, Ours
<1>10. CASE Accident
  <2>1. Untorn
    BY <1>0, <1>10 DEF Accident
  <2> QED BY <1>0, <1>10, <2>1 DEF Accident, Untorn, Good, Ours
<1>11. CASE NextDay
  <2>1. Untorn /\ \A r \in Runs : run[r].pc = "idle"
    BY <1>0, <1>11 DEF NextDay
  <2> QED BY <1>0, <1>11, <2>1 DEF NextDay, Untorn, Good
<1>12. CASE UNCHANGED backupVars
  <2>1. Untorn
    BY <1>0, <1>12 DEF backupVars
  <2> QED BY <1>0, <1>12, <2>1 DEF backupVars, Untorn, Good, Ours
<1> QED
  BY <1>1, <1>2, <1>3, <1>4, <1>5, <1>6, <1>7, <1>8, <1>9, <1>10, <1>11, <1>12 DEF BackupsNext

\* The types of backup_db.py and restore_db.sh.
THEOREM BackupsTypeCorrect == BackupsSpec => []BackupsTypeOK
<1>1. BackupsInit => BackupsTypeOK
  BY BackupsInitially DEF BackupsInv
<1> QED BY <1>1, BackupsTypeStep, PTL DEF BackupsSpec

\* Once a good archive has been stored, one stays on the disk and one in the bucket, and
\* every archive passes the drill, whatever runs overlap, fail and delete, unless a restore
\* ran beside a backup or stopped half-way.
THEOREM BackupsAreKept == BackupsSpec => []GoodBackupKept
<1>1. BackupsInv => GoodBackupKept
  BY DEF BackupsInv, Untorn, GoodBackupKept, DrillPasses, HasPlans
<1> QED BY <1>1, BackupsInitially, BackupsStep, PTL DEF BackupsSpec

-----------------------------------------------------------------------------
(* The geometry of Zodiac.  Longitudes and days are whole numbers, counted *)
(* with the turns of the circle; what the code computes modulo Circle is   *)
(* shown to be the one representative in its range.  % and \div stand in   *)
(* brackets: the prover reads a + n % c from the left.                     *)

\* The same, for any quotient.
LEMMA ModIs ==
    ASSUME NEW n \in Int, NEW c \in Nat \ {0}, NEW r \in 0 .. c - 1,
           \E q \in Int : n = (c * q) + r
    PROVE  (n % c) = r
BY ModUnique

\* _norm180 finds the only representative of a longitude around zero.
LEMMA NormUnique ==
    ASSUME ZodiacAssumption, NEW n \in Int, NEW q \in Int,
           NEW g \in -Half .. Circle - 1 - Half, n = (Circle * q) + g
    PROVE  Norm180(n) = g
<1>1. Circle \in Nat \ {0} /\ Half \in Int
  BY DEF ZodiacAssumption, Half
<1>2. n + Half = (Circle * q) + (g + Half)
  BY <1>1
<1> DEFINE m == n + Half
           r == g + Half
<1>3. m \in Int /\ r \in 0 .. Circle - 1 /\ m = (Circle * q) + r
  BY <1>1, <1>2
<1>4. Norm180(n) = (m % Circle) - Half
  BY DEF Norm180
<1> HIDE DEF m
<1>5. (m % Circle) = r
  <2> HIDE DEF r
  <2> QED BY <1>1, <1>3, ModUnique
<1> QED BY <1>1, <1>4, <1>5

\* It is one, and lies around zero.
LEMMA NormParts ==
    ASSUME ZodiacAssumption, NEW n \in Int
    PROVE  /\ Norm180(n) \in -Half .. Circle - 1 - Half
           /\ \E q \in Int : n = (Circle * q) + Norm180(n)
<1>1. Circle \in Nat \ {0} /\ Half \in Int
  BY DEF ZodiacAssumption, Half
<1> DEFINE m == n + Half
           g == (m % Circle) - Half
<1>2. m \in Int
  BY <1>1
<1>3. (m \div Circle) \in Int /\ (m % Circle) \in 0 .. Circle - 1
      /\ m = (Circle * (m \div Circle)) + (m % Circle)
  BY <1>1, <1>2, ModParts
<1>4. g = Norm180(n)
  BY DEF Norm180
<1>5. n = (Circle * (m \div Circle)) + g /\ g \in -Half .. Circle - 1 - Half
  BY <1>1, <1>2, <1>3
<1> HIDE DEF m, g
<1> QED BY <1>3, <1>4, <1>5

\* The operators of the library, of two numbers.
LEMMA MinOfTwo ==
    ASSUME NEW x \in Int, NEW y \in Int
    PROVE  Min({x, y}) = (IF x <= y THEN x ELSE y)
BY DEF Min

LEMMA MaxOfTwo ==
    ASSUME NEW x \in Int, NEW y \in Int
    PROVE  Max({x, y}) = (IF x >= y THEN x ELSE y)
BY DEF Max

\* The product changes its sign with one of the two.
LEMMA OppositeSigns ==
    ASSUME NEW g \in Int, NEW h \in Int
    PROVE  g * h < 0 <=> (g < 0 /\ h > 0) \/ (g > 0 /\ h < 0)
<1>1. CASE g = 0 \/ h = 0
  BY <1>1
<1>2. CASE g > 0 /\ h > 0
  <2>1. g * h > 0
    BY <1>2
  <2> QED BY <1>2, <2>1
<1>3. CASE g < 0 /\ h < 0
  <2>1. (-g) * (-h) > 0
    BY <1>3
  <2>2. (-g) * (-h) = g * h
    OBVIOUS
  <2> QED BY <1>3, <2>1, <2>2
<1>4. CASE g > 0 /\ h < 0
  <2>1. g * (-h) > 0
    BY <1>4
  <2>2. g * (-h) = -(g * h)
    OBVIOUS
  <2> QED BY <1>4, <2>1, <2>2
<1>5. CASE g < 0 /\ h > 0
  <2>1. (-g) * h > 0
    BY <1>5
  <2>2. (-g) * h = -(g * h)
    OBVIOUS
  <2> QED BY <1>5, <2>1, <2>2
<1> QED BY <1>1, <1>2, <1>3, <1>4, <1>5

\* A sample is exact where the distance is a whole number of turns.
LEMMA ExactSeen ==
    ASSUME ZodiacAssumption, target \in Int, NEW x \in Int, NEW a \in Int
    PROVE  ExactAt(x, a) <=> ((x - target - a) % Circle) = 0
<1> DEFINE n == x - target - a
<1>1. n \in Int /\ Circle \in Nat \ {0} /\ Half \in Nat /\ 2 * Half <= Circle
  BY DEF ZodiacAssumption, Half
<1>2. ExactAt(x, a) <=> Norm180(n) = 0
  BY DEF ExactAt
<1> HIDE DEF n
<1>3. ASSUME Norm180(n) = 0 PROVE (n % Circle) = 0
  <2>1. PICK q \in Int : n = (Circle * q) + 0
    BY <1>1, <1>3, NormParts
  <2>2. 0 \in 0 .. Circle - 1
    BY <1>1
  <2> QED BY <1>1, <2>1, <2>2, ModUnique
<1>4. ASSUME (n % Circle) = 0 PROVE Norm180(n) = 0
  <2> DEFINE q == n \div Circle
  <2>1. q \in Int /\ n = (Circle * q) + 0
    BY <1>1, <1>4, ModParts
  <2> HIDE DEF q
  <2>2. 0 \in -Half .. Circle - 1 - Half
    BY <1>1 DEF ZodiacAssumption, Half
  <2> QED BY <1>1, <2>1, <2>2, NormUnique
<1> QED BY <1>2, <1>3, <1>4 DEF n

\* With samples no further apart than Pace a change of sign near the aspect is a passage, and
\* every passage is one: the flip opposite to the aspect is further away than DETECT_ORB.
LEMMA PassingSeen ==
    ASSUME ZodiacAssumption, target \in Int,
           NEW x \in Int, NEW y \in Int, NEW a \in Int, y - x <= Pace, x - y <= Pace
    PROVE  CrossedBetween(x, y, a) <=> PassesAt(x, y, a)
<1> DEFINE n == x - target - a
           m == y - target - a
           g == Norm180(n)
           h == Norm180(m)
           least == Min({Distance(g, 0), Distance(h, 0)})
           low == Min({x, y})
           high == Max({x, y})
<1>1. /\ Circle \in Nat \ {0} /\ Half \in Nat /\ 2 * Half <= Circle /\ Circle <= 2 * Half + 1
      /\ Pace \in Nat /\ Gate \in Nat /\ Pace < 2 * Gate /\ Pace + Gate <= Half
  BY DEF ZodiacAssumption, Half
<1>2. n \in Int /\ m \in Int /\ m - n = y - x
  OBVIOUS
<1>3. /\ g \in -Half .. Circle - 1 - Half /\ h \in -Half .. Circle - 1 - Half
      /\ \E p \in Int : n = (Circle * p) + g
      /\ \E p \in Int : m = (Circle * p) + h
  <2> HIDE DEF n, m
  <2> QED BY <1>2, NormParts
<1>4. PICK p \in Int : n = (Circle * p) + g
  BY <1>3
<1>5. PICK q \in Int : m = (Circle * q) + h
  BY <1>3
<1>6. /\ low = (IF x <= y THEN x ELSE y) /\ high = (IF x >= y THEN x ELSE y)
  BY MinOfTwo, MaxOfTwo
<1>7. /\ Distance(g, 0) = (IF g < 0 THEN -g ELSE g) /\ Distance(h, 0) = (IF h < 0 THEN -h ELSE h)
      /\ Distance(g, 0) \in Int /\ Distance(h, 0) \in Int
  <2> HIDE DEF g, h
  <2> QED BY <1>1, <1>3 DEF Distance
<1>8. least = (IF Distance(g, 0) <= Distance(h, 0) THEN Distance(g, 0) ELSE Distance(h, 0))
  <2> HIDE DEF g, h
  <2> QED BY <1>7, MinOfTwo
<1>9. CrossedBetween(x, y, a) <=> ((g < 0 /\ h > 0) \/ (g > 0 /\ h < 0)) /\ least < Gate
  <2>1. CrossedBetween(x, y, a) <=> g * h < 0 /\ least < Gate
    BY DEF CrossedBetween
  <2>2. g \in Int /\ h \in Int
    BY <1>1, <1>3
  <2> HIDE DEF g, h, least
  <2> QED BY <2>1, <2>2, OppositeSigns
<1>10. ASSUME NEW e \in low + 1 .. high - 1 PROVE e \in Int
  BY <1>6
<1>11. ASSUME CrossedBetween(x, y, a) PROVE PassesAt(x, y, a)
  <2>1. q - p = 0
    <3>1. Circle * (q - p) = (Circle * q) - (Circle * p)
      BY <1>1
    <3>2. Circle * (q - p) < Circle /\ Circle * (q - p) > -Circle
      <4>1. Circle * (q - p) = (y - x) - (h - g)
        <5> HIDE DEF g, h
        <5> QED BY <1>1, <1>2, <1>3, <1>4, <1>5, <3>1
      <4> HIDE DEF g, h, least, n, m
      <4> QED BY <1>1, <1>3, <1>7, <1>8, <1>9, <1>11, <4>1
    <3> QED BY <1>1, <3>2, NoMultiple
  <2>2. h - g = y - x
    <3> HIDE DEF g, h, n, m
    <3> QED BY <1>1, <1>2, <1>3, <1>4, <1>5, <2>1
  <2> DEFINE e == x - g
  <2>3. e \in low + 1 .. high - 1
    <3> HIDE DEF g, h, least, low, high
    <3> QED BY <1>1, <1>3, <1>6, <1>9, <1>11, <2>2
  <2>4. e - target - a = (Circle * p) + 0
    <3>1. g \in Int /\ Circle * p \in Int
      BY <1>1, <1>3
    <3>2. e - target - a = n - g
      <4> HIDE DEF g
      <4> QED BY <3>1
    <3> HIDE DEF g, n, e
    <3> QED BY <1>2, <1>4, <3>1, <3>2
  <2>5. ((e - target - a) % Circle) = 0
    <3> DEFINE k == e - target - a
    <3>1. k \in Int /\ 0 \in 0 .. Circle - 1 /\ k = (Circle * p) + 0
      BY <1>1, <2>4
    <3> HIDE DEF k
    <3>2. (k % Circle) = 0
      BY <1>1, <3>1, ModUnique
    <3> QED BY <3>2 DEF k
  <2> HIDE DEF e
  <2> QED BY <2>3, <2>5 DEF PassesAt
<1>12. ASSUME PassesAt(x, y, a) PROVE CrossedBetween(x, y, a)
  <2>1. PICK e \in low + 1 .. high - 1 : ((e - target - a) % Circle) = 0
    BY <1>12 DEF PassesAt
  <2> DEFINE k == e - target - a
             r == k \div Circle
  <2>2. e \in Int /\ k \in Int
    BY <1>10
  <2>3. r \in Int /\ k = (Circle * r) + 0
    <3>1. (k % Circle) = 0
      BY <2>1
    <3> HIDE DEF k
    <3> QED BY <1>1, <2>2, <3>1, ModParts
  <2>4. /\ low < e /\ e < high /\ x - e \in -Half .. Circle - 1 - Half
        /\ y - e \in -Half .. Circle - 1 - Half
    <3> HIDE DEF low, high
    <3> QED BY <1>1, <1>6, <2>1, <2>2
  <2>5. g = x - e
    <3>1. n = (Circle * r) + (x - e)
      <4>1. n = k + (x - e)
        BY <2>2
      <4> HIDE DEF n, k, r
      <4> QED BY <1>1, <2>2, <2>3, <4>1
    <3> HIDE DEF n, r
    <3> QED BY <1>2, <2>3, <2>4, <3>1, NormUnique
  <2>6. h = y - e
    <3>1. m = (Circle * r) + (y - e)
      <4>1. m = k + (y - e)
        BY <2>2
      <4> HIDE DEF m, k, r
      <4> QED BY <1>1, <2>2, <2>3, <4>1
    <3> HIDE DEF m, r
    <3> QED BY <1>2, <2>3, <2>4, <3>1, NormUnique
  <2> HIDE DEF g, h, least, low, high
  <2> QED BY <1>1, <1>6, <1>7, <1>8, <1>9, <2>2, <2>4, <2>5, <2>6
<1> QED BY <1>11, <1>12

-----------------------------------------------------------------------------

\* A way no longer than a sign touches the signs of its ends only.
LEMMA SignsOnTheWay ==
    ASSUME ZodiacAssumption, NEW x \in Int, NEW y \in Int, NEW e \in x .. y, y - x <= Pace
    PROVE  SignOf(e) \in {SignOf(x), SignOf(y)}
<1> DEFINE s == Circle \div 12
           Floor(n) == n \div s
<1>1. /\ s \in Nat \ {0} /\ Circle = 12 * s /\ Circle \in Nat \ {0}
      /\ Pace \in Nat /\ Pace <= s
  BY DEF ZodiacAssumption
<1> HIDE DEF s
<1>2. ASSUME NEW n \in Int
      PROVE  /\ Floor(n) \in Int
             /\ s * Floor(n) <= n /\ n < (s * Floor(n)) + s
             /\ SignOf(n) = (Floor(n) % 12)
  <2>1. Floor(n) \in Int /\ (n % s) \in 0 .. s - 1 /\ n = (s * Floor(n)) + (n % s)
    BY <1>1, ModParts
  <2> DEFINE f == Floor(n)
             k == f \div 12
             r == f % 12
             t == n % s
  <2>2. k \in Int /\ r \in 0 .. 11 /\ f = (12 * k) + r
    BY <2>1
  <2> HIDE DEF f, k, r, t
  <2>3. f \in Int /\ t \in 0 .. s - 1 /\ n = (s * f) + t
    BY <2>1 DEF f, t
  <2>4. n = (Circle * k) + ((s * r) + t)
    <3>1. s * f = (s * (12 * k)) + (s * r)
      BY <1>1, <2>2, <2>3
    <3>2. s * (12 * k) = Circle * k
      BY <1>1, <2>2
    <3>3. s * r \in Int /\ Circle * k \in Int /\ s * f \in Int
      BY <1>1, <2>2, <2>3
    <3> QED BY <2>3, <3>1, <3>2, <3>3
  <2>5. (s * r) + t \in 0 .. Circle - 1
    <3>1. s * r <= s * 11 /\ s * r >= 0 /\ s * r \in Int
      BY <1>1, <2>2
    <3> QED BY <1>1, <2>3, <3>1
  <2>6. (n % Circle) = (s * r) + t
    <3> DEFINE m == (s * r) + t
    <3> HIDE DEF m
    <3>1. m \in 0 .. Circle - 1 /\ n = (Circle * k) + m
      BY <2>4, <2>5 DEF m
    <3>2. (n % Circle) = m
      BY <1>1, <2>2, <3>1, ModUnique
    <3> QED BY <3>2 DEF m
  <2>7. (((s * r) + t) \div s) = r
    <3> DEFINE m == (s * r) + t
    <3>1. /\ m \in Int /\ m = (s * r) + t
          /\ s \in Nat \ {0} /\ r \in Int /\ t \in 0 .. s - 1
      BY <1>1, <2>2, <2>3
    <3> HIDE DEF m
    <3>2. (m \div s) = r
      BY <3>1, ModUnique
    <3> QED BY <3>2 DEF m
  <2>8. SignOf(n) = r
    BY <2>6, <2>7 DEF SignOf, s
  <2>9. s * f <= n /\ n < (s * f) + s
    <3>1. s * f \in Int
      BY <1>1, <2>3
    <3> QED BY <1>1, <2>3, <3>1
  <2> QED BY <2>1, <2>8, <2>9 DEF r, f
<1> DEFINE p == Floor(x)
           q == Floor(y)
           u == Floor(e)
<1>3. /\ p \in Int /\ s * p <= x /\ x < (s * p) + s
      /\ q \in Int /\ s * q <= y /\ y < (s * q) + s
      /\ u \in Int /\ s * u <= e /\ e < (s * u) + s
  BY <1>2
<1> HIDE DEF p, q, u
<1>4. /\ s * p \in Int /\ s * q \in Int /\ s * u \in Int
      /\ s * (u - p) = (s * u) - (s * p)
      /\ s * (q - u) = (s * q) - (s * u)
  BY <1>1, <1>3
<1>5. ASSUME NEW k \in Int, s * k > -s PROVE k >= 0
  <2>1. CASE k <= -1
    <3>1. s * (-k) >= s * 1 /\ s * (-k) = -(s * k)
      BY <1>1, <2>1
    <3> QED BY <1>1, <1>5, <3>1
  <2> QED BY <2>1
<1>6. u - p >= 0 /\ q - u >= 0
  <2>1. u - p \in Int /\ q - u \in Int
    BY <1>3
  <2>2. s * (u - p) > -s /\ s * (q - u) > -s
    BY <1>1, <1>3, <1>4
  <2> QED BY <1>5, <2>1, <2>2
<1>7. u = p \/ u = q
  <2>1. CASE u - p >= 1 /\ q - u >= 1
    <3>1. s * (u - p) >= s * 1 /\ s * (q - u) >= s * 1
      BY <1>1, <1>3, <2>1
    <3> QED BY <1>1, <1>3, <1>4, <3>1
  <2> QED BY <1>3, <1>6, <2>1
<1> QED BY <1>2, <1>7 DEF p, q, u

\* What the scans have noted is true of the samples seen, the last entry being of the last
\* whole day; a sample is no further than Pace from the one before.
SkyInv ==
    /\ cusps \in CuspLists /\ target \in Targets
    /\ path \in Seq(Int) /\ Len(path) >= 1 /\ Seen <= LastSample
    /\ \A d \in 1 .. Seen : path[d + 1] - path[d] \in -Pace .. Pace
    /\ exacts \in [Angles -> SUBSET Int]
    /\ \A a \in Angles : exacts[a] \subseteq 0 .. 2 * Seen - 1
    /\ active = InOrb(path[Len(path)])
    /\ CrossingsDated /\ StaysReported

\* What the proofs below need of the constants.
LEMMA ConstantsOfSky ==
    ASSUME ZodiacAssumption
    PROVE  /\ Circle \in Nat \ {0} /\ Pace \in Nat /\ LastSample \in Nat
           /\ Targets \subseteq Int /\ Angles \subseteq Int
BY DEF ZodiacAssumption

\* The first sample of a path.
LEMMA SkyStarts == ZodiacAssumption /\ ZodiacInit => SkyInv
<1> SUFFICES ASSUME ZodiacAssumption, ZodiacInit PROVE SkyInv
  OBVIOUS
<1>1. PICK x \in Longitudes : path = <<x>>
  BY DEF ZodiacInit
<1>2. x \in Int /\ path \in Seq(Int) /\ Len(path) = 1 /\ path[1] = x /\ Seen = 0
  BY <1>1, ConstantsOfSky DEF Longitudes, Seen
<1>3. exacts \in [Angles -> SUBSET Int] /\ \A a \in Angles : exacts[a] = {}
  BY DEF ZodiacInit
<1>4. active = InOrb(path[Len(path)]) /\ starts = IF active THEN {0} ELSE {}
  BY <1>2 DEF ZodiacInit
<1>5. CrossingsDated
  BY <1>2 DEF CrossingsDated
<1>6. StaysReported
  BY <1>2, <1>4 DEF StaysReported
<1> QED BY <1>2, <1>3, <1>4, <1>5, <1>6, ConstantsOfSky DEF SkyInv, ZodiacInit

\* One more sample.
LEMMA AppendInts ==
    ASSUME NEW s \in Seq(Int), NEW y \in Int, NEW n \in Nat, Len(s) = n + 1
    PROVE  /\ Append(s, y) \in Seq(Int) /\ Len(Append(s, y)) = n + 2 /\ Append(s, y)[n + 2] = y
           /\ \A d \in 1 .. n + 1 : Append(s, y)[d] = s[d]
OBVIOUS

\* The next sample: the scans note what lies between it and the one before.
LEMMA SkySteps ==
    ASSUME ZodiacAssumption, SkyInv, NEW v \in -Pace .. Pace, Sample(v)
    PROVE  SkyInv'
<1>g. Circle \in Nat \ {0} /\ Pace \in Nat /\ LastSample \in Nat /\ target \in Int
  BY ConstantsOfSky DEF SkyInv
<1>0. path \in Seq(Int) /\ Len(path) >= 1 /\ Len(path) \in Nat
  BY DEF SkyInv
<1>e. Seen \in Nat /\ Len(path) = Seen + 1
  BY <1>0 DEF Seen
<1>a. PICK n \in Nat : n = Seen /\ Len(path) = n + 1
  BY <1>e
<1>b. PICK x \in Int : x = path[n + 1]
  BY <1>0, <1>a
<1>h. v \in Int /\ -Pace <= v /\ v <= Pace
  BY <1>g
<1>c. PICK y \in Int : y = x + v
  BY <1>h
<1>f. n < LastSample /\ path' = Append(path, y) /\ cusps' = cusps /\ target' = target
  BY <1>a, <1>b, <1>c DEF Sample
<1>d. /\ exacts' = [a \in Angles |-> exacts[a]
                       \union (IF ExactAt(x, a) THEN {2 * n} ELSE {})
                       \union (IF CrossedBetween(x, y, a) THEN {2 * n + 1} ELSE {})]
      /\ active' = InOrb(y)
      /\ starts' = IF InOrb(y) /\ ~active THEN starts \union {n + 1} ELSE starts
  BY <1>a, <1>b, <1>c DEF Sample
<1> DEFINE last(a) == IF ExactAt(x, a) THEN {2 * n} ELSE {}
           between(a) == IF CrossedBetween(x, y, a) THEN {2 * n + 1} ELSE {}
<1>1. /\ n < LastSample /\ n \in Nat /\ Len(path) = n + 1 /\ x = path[n + 1]
      /\ y - x = v /\ v \in Int /\ y \in Int
      /\ y - x <= Pace /\ x - y <= Pace
  <2>1. y - x = v /\ y - x <= Pace /\ x - y <= Pace
    BY <1>c, <1>g, <1>h
  <2> QED BY <1>0, <1>a, <1>b, <1>f, <1>g, <1>h, <2>1
<1>2. path' = Append(path, y) /\ cusps' = cusps /\ target' = target
  BY <1>f
<1>i. /\ path' \in Seq(Int) /\ Len(path') = n + 2 /\ path'[n + 2] = y
      /\ \A d \in 1 .. n + 1 : path'[d] = path[d]
  <2>1. n \in Nat /\ y \in Int /\ path \in Seq(Int) /\ Len(path) = n + 1
    BY <1>0, <1>a
  <2>2. /\ Append(path, y) \in Seq(Int) /\ Len(Append(path, y)) = n + 2
        /\ Append(path, y)[n + 2] = y
        /\ \A d \in 1 .. n + 1 : Append(path, y)[d] = path[d]
    BY SMTT(30), <2>1, AppendInts
  <2> QED BY <2>2, <1>2
<1>j. Seen' = n + 1
  BY <1>i DEF Seen
<1>3. /\ Len(path') = n + 2 /\ Seen' = n + 1 /\ path'[n + 2] = y
      /\ \A d \in 1 .. n + 1 : path'[d] = path[d]
  BY <1>i, <1>j
<1>4. \A a \in Angles : exacts'[a] = exacts[a] \union last(a) \union between(a)
  BY <1>d
<1>5. exacts' \in [Angles -> SUBSET Int]
  <2>1. \A a \in Angles :
           exacts[a] \subseteq Int /\ last(a) \subseteq Int /\ between(a) \subseteq Int
    BY <1>1, <1>a DEF SkyInv
  <2>2. DOMAIN exacts' = Angles
    BY <1>d
  <2>3. exacts' = [a \in Angles |-> exacts'[a]]
    BY <1>d
  <2> QED BY <1>4, <2>1, <2>2, <2>3
<1>k. n \in Nat /\ x \in Int /\ y \in Int /\ y - x <= Pace /\ x - y <= Pace
  BY <1>1
<1>6. \A a \in Angles : exacts'[a] \subseteq 0 .. 2 * (n + 1) - 1
  <2> SUFFICES ASSUME NEW a \in Angles PROVE exacts'[a] \subseteq 0 .. 2 * (n + 1) - 1
    OBVIOUS
  <2>1. exacts[a] \subseteq 0 .. 2 * n - 1
    BY <1>a DEF SkyInv
  <2>2. exacts'[a] = exacts[a] \union last(a) \union between(a)
    BY <1>4
  <2>3. last(a) \union between(a) \subseteq {2 * n, 2 * n + 1}
    OBVIOUS
  <2> HIDE DEF last, between
  <2>4. exacts'[a] \subseteq (0 .. 2 * n - 1) \union {2 * n, 2 * n + 1}
    BY <2>1, <2>2, <2>3
  <2>5. (0 .. 2 * n - 1) \union {2 * n, 2 * n + 1} \subseteq 0 .. 2 * (n + 1) - 1
    OBVIOUS
  <2> QED BY <2>4, <2>5
<1>7. \A d \in 1 .. n + 1 : path'[d + 1] - path'[d] \in -Pace .. Pace
  <2> SUFFICES ASSUME NEW d \in 1 .. n + 1 PROVE path'[d + 1] - path'[d] \in -Pace .. Pace
    OBVIOUS
  <2>1. path'[d] = path[d]
    BY <1>i
  <2>2. CASE d = n + 1
    <3>1. path'[d + 1] = y /\ path[d] = x
      BY <1>b, <1>i, <2>2
    <3> QED BY <1>g, <1>k, <2>1, <3>1
  <2>3. CASE d # n + 1
    <3>1. d \in 1 .. n /\ d + 1 \in 1 .. n + 1
      BY <2>3
    <3>2. path'[d + 1] = path[d + 1]
      BY <1>i, <3>1
    <3>3. path[d + 1] - path[d] \in -Pace .. Pace
      BY <1>a, <3>1 DEF SkyInv
    <3> QED BY <2>1, <3>2, <3>3
  <2> QED BY <2>2, <2>3
<1>10. CrossingsDated'
  <2>1. ASSUME NEW a \in Angles, NEW d \in 0 .. n
        PROVE  /\ 2 * d \in exacts'[a] <=> ((path'[d + 1] - target - a) % Circle) = 0
               /\ 2 * d + 1 \in exacts'[a] <=> PassesAt(path'[d + 1], path'[d + 2], a)
    <3>1. a \in Int /\ d \in Int
      BY <2>1, ConstantsOfSky
    <3>2. exacts'[a] = exacts[a] \union last(a) \union between(a)
      BY <1>4
    <3>3. d + 1 \in 1 .. n + 1 /\ path'[d + 1] = path[d + 1]
      <4>1. d + 1 \in 1 .. n + 1
        BY <2>1
      <4> QED BY <1>i, <4>1
    <3>4. CASE d # n
      <4>1. d \in 0 .. Seen - 1
        BY <1>a, <3>4
      <4>2. path'[d + 2] = path[d + 2]
        <5>1. d + 2 \in 1 .. n + 1
          BY <3>4
        <5> QED BY <1>i, <5>1
      <4>3. /\ 2 * d \in exacts[a] <=> ((path[d + 1] - target - a) % Circle) = 0
            /\ 2 * d + 1 \in exacts[a] <=> PassesAt(path[d + 1], path[d + 2], a)
        BY <4>1 DEF SkyInv, CrossingsDated
      <4>4. {2 * d, 2 * d + 1} \intersect {2 * n, 2 * n + 1} = {}
        BY <3>1, <3>4
      <4>5. last(a) \union between(a) \subseteq {2 * n, 2 * n + 1}
        OBVIOUS
      <4> HIDE DEF last, between
      <4>6. /\ 2 * d \in exacts'[a] <=> 2 * d \in exacts[a]
            /\ 2 * d + 1 \in exacts'[a] <=> 2 * d + 1 \in exacts[a]
        BY <3>2, <4>4, <4>5
      <4> QED BY <3>3, <4>2, <4>3, <4>6
    <3>5. CASE d = n
      <4>1. 2 * n \notin exacts[a] /\ 2 * n + 1 \notin exacts[a]
        <5>1. exacts[a] \subseteq 0 .. 2 * n - 1
          BY <1>a DEF SkyInv
        <5>2. 2 * n \notin 0 .. 2 * n - 1 /\ 2 * n + 1 \notin 0 .. 2 * n - 1 /\ 2 * n # 2 * n + 1
          OBVIOUS
        <5> QED BY <5>1, <5>2
      <4>2. 2 * n # 2 * n + 1
        OBVIOUS
      <4>3. /\ 2 * n \in exacts'[a] <=> ExactAt(x, a)
            /\ 2 * n + 1 \in exacts'[a] <=> CrossedBetween(x, y, a)
        BY <3>2, <4>1, <4>2
      <4>4. CrossedBetween(x, y, a) <=> PassesAt(x, y, a)
        BY <1>g, <1>k, <3>1, PassingSeen
      <4>5. ExactAt(x, a) <=> ((x - target - a) % Circle) = 0
        BY <1>g, <3>1, ExactSeen
      <4>6. path'[d + 1] = x /\ path'[d + 2] = y
        BY <1>b, <1>i, <3>3, <3>5
      <4> QED BY <3>5, <4>3, <4>4, <4>5, <4>6
    <3> QED BY <3>4, <3>5
  <2>2. CrossingsDated' <=> \A a \in Angles : \A d \in 0 .. Seen' - 1 :
           /\ 2 * d \in exacts'[a] <=> ((path'[d + 1] - target' - a) % Circle) = 0
           /\ 2 * d + 1 \in exacts'[a] <=>
                 \E e \in Min({path'[d + 1], path'[d + 2]}) + 1 ..
                         Max({path'[d + 1], path'[d + 2]}) - 1 :
                    ((e - target' - a) % Circle) = 0
    BY DEF CrossingsDated, PassesAt
  <2>3. Seen' - 1 = n
    BY <1>j
  <2> QED BY <1>2, <2>1, <2>2, <2>3 DEF PassesAt
<1>11. (active = InOrb(path[Len(path)]))'
  <2>1. path'[Len(path')] = y
    BY <1>i
  <2> QED BY <1>2, <1>d, <2>1 DEF InOrb
<1>12. StaysReported'
  <2> DEFINE Begins(d) == InOrb(path[d + 1]) /\ (d = 0 \/ ~InOrb(path[d]))
             Begun(d) == InOrb(path'[d + 1]) /\ (d = 0 \/ ~InOrb(path'[d]))
  <2>1. starts = {d \in 0 .. n : Begins(d)}
    BY <1>a DEF SkyInv, StaysReported
  <2>2. ASSUME NEW d \in 0 .. n PROVE Begun(d) <=> Begins(d)
    <3>1. path'[d + 1] = path[d + 1] /\ (d # 0 => path'[d] = path[d])
      <4>1. d + 1 \in 1 .. n + 1 /\ (d # 0 => d \in 1 .. n + 1)
        OBVIOUS
      <4> QED BY <1>i, <4>1
    <3> QED BY <3>1
  <2>3. Begun(n + 1) <=> InOrb(y) /\ ~active
    <3>1. path'[n + 1] = x /\ path'[(n + 1) + 1] = y /\ n + 1 # 0
      <4>1. n + 1 \in 1 .. n + 1 /\ (n + 1) + 1 = n + 2 /\ n + 1 # 0
        OBVIOUS
      <4> QED BY <1>b, <1>i, <4>1
    <3>2. active = InOrb(x)
      BY <1>a, <1>b DEF SkyInv
    <3> QED BY <3>1, <3>2
  <2>4. starts' = starts \union (IF Begun(n + 1) THEN {n + 1} ELSE {})
    BY <1>d, <2>3
  <2>5. 0 .. n + 1 = (0 .. n) \union {n + 1}
    OBVIOUS
  <2>6. StaysReported' <=> starts' = {d \in 0 .. Seen' :
           /\ AspectOf(Apart(path'[d + 1], target')) # {}
           /\ d = 0 \/ ~(AspectOf(Apart(path'[d], target')) # {})}
    BY DEF StaysReported, InOrb
  <2>8. StaysReported' <=> starts' = {d \in 0 .. n + 1 : Begun(d)}
    BY <1>2, <1>j, <2>6 DEF InOrb
  <2> HIDE DEF Begins, Begun
  <2>7. starts' = {d \in 0 .. n + 1 : Begun(d)}
    BY <2>1, <2>2, <2>4, <2>5
  <2> QED BY <2>7, <2>8
<1>13. cusps' \in CuspLists /\ target' \in Targets
  BY <1>2 DEF SkyInv
<1>14. Len(path') >= 1 /\ Seen' <= LastSample
  BY <1>1, <1>g, <1>i, <1>j
<1>15. \A d \in 1 .. Seen' : path'[d + 1] - path'[d] \in -Pace .. Pace
  BY <1>7, <1>j
<1>16. \A a \in Angles : exacts'[a] \subseteq 0 .. 2 * Seen' - 1
  BY <1>6, <1>j
<1>17. path' \in Seq(Int)
  BY <1>i
<1> QED BY <1>5, <1>10, <1>11, <1>12, <1>13, <1>14, <1>15, <1>16, <1>17 DEF SkyInv

-----------------------------------------------------------------------------

\* Within the first turn a number is its own remainder.
LEMMA ModSmall ==
    ASSUME NEW c \in Nat \ {0}, NEW n \in 0 .. c - 1
    PROVE  (n % c) = n
<1>1. n \in Int /\ 0 \in Int /\ n = (c * 0) + n
  OBVIOUS
<1> QED BY <1>1, ModUnique

\* Within the turn before, it is one turn less.
LEMMA ModOnce ==
    ASSUME NEW c \in Nat \ {0}, NEW n \in -c .. -1
    PROVE  (n % c) = n + c
<1> DEFINE r == n + c
           q == -1
<1>1. n \in Int /\ q \in Int /\ r \in 0 .. c - 1 /\ n = (c * q) + r
  OBVIOUS
<1> HIDE DEF r, q
<1>2. (n % c) = r
  BY <1>1, ModUnique
<1> QED BY <1>2 DEF r

\* How far y lies behind x on the circle.
LEMMA Ahead ==
    ASSUME ZodiacAssumption, NEW x \in Longitudes, NEW y \in Longitudes
    PROVE  ((x - y) % Circle) = IF x >= y THEN x - y ELSE (x - y) + Circle
<1>1. Circle \in Nat \ {0} /\ x \in 0 .. Circle - 1 /\ y \in 0 .. Circle - 1
  BY ConstantsOfSky DEF Longitudes
<1> DEFINE n == x - y
<1>2. CASE x >= y
  <2>1. n \in 0 .. Circle - 1
    BY <1>1, <1>2
  <2> HIDE DEF n
  <2>2. (n % Circle) = n
    BY <1>1, <2>1, ModSmall
  <2> QED BY <1>2, <2>2 DEF n
<1>3. CASE ~(x >= y)
  <2>1. n \in -Circle .. -1
    BY <1>1, <1>3
  <2> HIDE DEF n
  <2>2. (n % Circle) = n + Circle
    BY <1>1, <2>1, ModOnce
  <2> QED BY <1>3, <2>2 DEF n
<1> QED BY <1>2, <1>3

\* What one point lies ahead of another on a circle of z is a number.
LEMMA AheadIsNat ==
    ASSUME NEW z \in Nat, NEW x \in 0 .. z - 1, NEW b \in 0 .. z - 1
    PROVE  (IF x >= b THEN x - b ELSE (x - b) + z) \in Nat
OBVIOUS

\* What lies behind x on a circle of z: of two points, the one nearer behind has x on its way
\* to the other, which has not.
LEMMA NearestBehind ==
    ASSUME NEW z \in Nat, NEW x \in 0 .. z - 1, NEW b \in 0 .. z - 1, NEW c \in 0 .. z - 1, b # c,
           (IF x >= b THEN x - b ELSE (x - b) + z) <= (IF x >= c THEN x - c ELSE (x - c) + z)
    PROVE  /\ (IF x >= b THEN x - b ELSE (x - b) + z) < (IF c >= b THEN c - b ELSE (c - b) + z)
           /\ (IF b >= c THEN b - c ELSE (b - c) + z) <= (IF x >= c THEN x - c ELSE (x - c) + z)
OBVIOUS

\* A longitude is between two cusps when it is less ahead of the first than the second is;
\* both ways of the code to ask this agree.
LEMMA HousesAgree ==
    ASSUME ZodiacAssumption, NEW x \in Longitudes, NEW b \in Longitudes, NEW c \in Longitudes, b # c
    PROVE  /\ Between(x, b, c) <=> ((x - b) % Circle) < ((c - b) % Circle)
           /\ HeldIn(x, b, c) <=> Between(x, b, c)
<1>1. /\ Circle \in Nat \ {0} /\ x \in 0 .. Circle - 1 /\ b \in 0 .. Circle - 1
      /\ c \in 0 .. Circle - 1
  BY ConstantsOfSky DEF Longitudes
<1>2. /\ ((x - b) % Circle) = IF x >= b THEN x - b ELSE (x - b) + Circle
      /\ ((c - b) % Circle) = IF c >= b THEN c - b ELSE (c - b) + Circle
  BY Ahead
<1> QED BY <1>1, <1>2 DEF Between, HeldIn

\* A list of cusps names longitudes, at least two.
LEMMA CuspList ==
    ASSUME CuspsInOrder, NEW cs \in CuspLists
    PROVE  /\ cs \in Seq(Longitudes) /\ Len(cs) > 1 /\ Len(cs) \in Nat /\ DOMAIN cs = 1 .. Len(cs)
           /\ DOMAIN cs # {} /\ \A j \in DOMAIN cs : cs[j] \in Longitudes
<1>1. cs \in Seq(Longitudes) /\ Len(cs) > 1
  BY Zenon DEF CuspsInOrder
<1> HIDE CuspsInOrder
<1> QED BY <1>1

\* One further on a list that is a circle is another place of it.
LEMMA NextIndex ==
    ASSUME NEW l \in Nat, l > 1, NEW i \in 1 .. l
    PROVE  (i % l) + 1 \in 1 .. l /\ (i % l) + 1 # i
<1>1. CASE i = l
  <2>1. i = (l * 1) + 0 /\ 0 \in 0 .. l - 1
    BY <1>1
  <2>2. (i % l) = 0
    BY <2>1, ModUnique
  <2> QED BY <1>1, <2>2
<1>2. CASE i # l
  <2>1. i \in 0 .. l - 1
    BY <1>2
  <2>2. (i % l) = i
    BY <2>1, ModSmall
  <2> QED BY <1>2, <2>2
<1> QED BY <1>1, <1>2

\* The cusp after one is another of the list.
LEMMA NextCusp ==
    ASSUME ZodiacAssumption, CuspsInOrder, NEW cs \in CuspLists, NEW i \in DOMAIN cs
    PROVE  \E j \in DOMAIN cs : j # i /\ After(cs, i) = cs[j]
<1>1. Len(cs) > 1 /\ Len(cs) \in Nat /\ DOMAIN cs = 1 .. Len(cs)
  BY CuspList
<1>2. (i % Len(cs)) + 1 \in DOMAIN cs /\ (i % Len(cs)) + 1 # i
  BY <1>1, NextIndex
<1>3. After(cs, i) = cs[(i % Len(cs)) + 1]
  BY DEF After
<1> QED BY <1>2, <1>3

\* The house of x is the one whose cusp is the nearest behind.
LEMMA OneHouse ==
    ASSUME ZodiacAssumption, CuspsInOrder, NEW cs \in CuspLists, NEW x \in Longitudes
    PROVE  \E i \in DOMAIN cs :
              /\ {j \in DOMAIN cs : Between(x, cs[j], After(cs, j))} = {i}
              /\ {j \in DOMAIN cs : HeldIn(x, cs[j], After(cs, j))} = {i}
              /\ ((x - cs[i]) % Circle) < ((After(cs, i) - cs[i]) % Circle)
<1> DEFINE A(c) == (x - c) % Circle
           W(b, c) == (c - b) % Circle
           B == {A(cs[i]) : i \in DOMAIN cs}
<1>1. /\ Circle \in Nat \ {0} /\ x \in 0 .. Circle - 1 /\ Longitudes = 0 .. Circle - 1
      /\ \A j \in DOMAIN cs : cs[j] \in Longitudes
      /\ DOMAIN cs # {}
  <2>1. Circle \in Nat \ {0} /\ x \in 0 .. Circle - 1 /\ Longitudes = 0 .. Circle - 1
    BY ConstantsOfSky DEF Longitudes
  <2> QED BY <2>1, CuspList
<1>2. \A i, j \in DOMAIN cs : i # j => cs[i] # cs[j] /\ W(cs[i], After(cs, i)) <= W(cs[i], cs[j])
  BY DEF CuspsInOrder
<1>3. ASSUME NEW b \in Longitudes, NEW c \in Longitudes
      PROVE  W(b, c) = IF c >= b THEN c - b ELSE (c - b) + Circle
  BY Ahead
<1>4. ASSUME NEW c \in Longitudes
      PROVE  A(c) = IF x >= c THEN x - c ELSE (x - c) + Circle
  BY Ahead
<1> HIDE DEF A, W
<1>5. ASSUME NEW i \in DOMAIN cs
      PROVE  /\ After(cs, i) \in Longitudes /\ After(cs, i) # cs[i]
             /\ Between(x, cs[i], After(cs, i)) <=> A(cs[i]) < W(cs[i], After(cs, i))
             /\ HeldIn(x, cs[i], After(cs, i)) <=> A(cs[i]) < W(cs[i], After(cs, i))
  <2>1. PICK j \in DOMAIN cs : j # i /\ After(cs, i) = cs[j]
    BY NextCusp
  <2>2. After(cs, i) \in Longitudes /\ After(cs, i) # cs[i] /\ cs[i] \in Longitudes
    BY <1>1, <1>2, <2>1
  <2>3. /\ Between(x, cs[i], After(cs, i))
             <=> ((x - cs[i]) % Circle) < ((After(cs, i) - cs[i]) % Circle)
        /\ HeldIn(x, cs[i], After(cs, i)) <=> Between(x, cs[i], After(cs, i))
    BY <2>2, HousesAgree
  <2> QED BY <2>2, <2>3 DEF A, W
<1>6. \A i \in DOMAIN cs : A(cs[i]) \in Nat
  <2>1. ASSUME NEW c \in Longitudes PROVE A(c) \in Nat
    <3>1. A(c) = (IF x >= c THEN x - c ELSE (x - c) + Circle)
      BY <1>4
    <3>2. x \in 0 .. Circle - 1 /\ c \in 0 .. Circle - 1 /\ Circle \in Nat
      BY <1>1
    <3>3. (IF x >= c THEN x - c ELSE (x - c) + Circle) \in Nat
      BY <3>2, AheadIsNat
    <3> QED BY <3>1, <3>3
  <2> QED BY <1>1, <2>1
<1>7. PICK i \in DOMAIN cs : \A j \in DOMAIN cs : A(cs[i]) <= A(cs[j])
  <2>1. B \in SUBSET Nat /\ B # {}
    BY <1>1, <1>6
  <2>2. PICK m \in B : \A k \in B : m <= k
    <3> HIDE DEF B
    <3> QED BY <2>1, LeastNatural
  <2> QED BY <2>2
<1>8. A(cs[i]) < W(cs[i], After(cs, i))
  <2>1. PICK j \in DOMAIN cs : j # i /\ After(cs, i) = cs[j]
    BY NextCusp
  <2>2. PICK b \in Longitudes : b = cs[i]
    BY <1>1
  <2>3. PICK c \in Longitudes : c = cs[j]
    BY <1>1
  <2>4. b # c /\ A(b) <= A(c)
    BY <1>2, <1>7, <2>1, <2>2, <2>3
  <2>5. A(b) < W(b, c)
    <3>1. /\ A(b) = (IF x >= b THEN x - b ELSE (x - b) + Circle)
          /\ A(c) = (IF x >= c THEN x - c ELSE (x - c) + Circle)
          /\ W(b, c) = (IF c >= b THEN c - b ELSE (c - b) + Circle)
      BY <1>3, <1>4
    <3>2. /\ x \in 0 .. Circle - 1 /\ b \in 0 .. Circle - 1 /\ c \in 0 .. Circle - 1
          /\ Circle \in Nat
      BY <1>1
    <3>3. (IF x >= b THEN x - b ELSE (x - b) + Circle) <= (IF x >= c THEN x - c ELSE (x - c) + Circle)
      BY <2>4, <3>1
    <3>4. (IF x >= b THEN x - b ELSE (x - b) + Circle) < (IF c >= b THEN c - b ELSE (c - b) + Circle)
      BY <2>4, <3>2, <3>3, NearestBehind
    <3> QED BY <3>1, <3>4
  <2> QED BY <2>1, <2>2, <2>3, <2>5
<1>9. ASSUME NEW j \in DOMAIN cs, j # i PROVE ~(A(cs[j]) < W(cs[j], After(cs, j)))
  <2>1. PICK b \in Longitudes : b = cs[i]
    BY <1>1
  <2>2. PICK c \in Longitudes : c = cs[j]
    BY <1>1
  <2>3. b # c /\ A(b) <= A(c) /\ W(c, After(cs, j)) <= W(c, b)
    BY <1>2, <1>7, <1>9, <2>1, <2>2
  <2>4. W(c, b) <= A(c)
    <3>1. /\ A(b) = (IF x >= b THEN x - b ELSE (x - b) + Circle)
          /\ A(c) = (IF x >= c THEN x - c ELSE (x - c) + Circle)
          /\ W(c, b) = (IF b >= c THEN b - c ELSE (b - c) + Circle)
      BY <1>3, <1>4
    <3>2. /\ x \in 0 .. Circle - 1 /\ b \in 0 .. Circle - 1 /\ c \in 0 .. Circle - 1
          /\ Circle \in Nat
      BY <1>1
    <3>3. (IF x >= b THEN x - b ELSE (x - b) + Circle) <= (IF x >= c THEN x - c ELSE (x - c) + Circle)
      BY <2>3, <3>1
    <3>4. (IF b >= c THEN b - c ELSE (b - c) + Circle) <= (IF x >= c THEN x - c ELSE (x - c) + Circle)
      BY <2>3, <3>2, <3>3, NearestBehind
    <3> QED BY <3>1, <3>4
  <2>5. W(c, After(cs, j)) \in Nat /\ W(c, b) \in Nat /\ A(c) \in Nat
    <3>1. ASSUME NEW d \in Longitudes PROVE W(c, d) \in Nat
      <4>1. W(c, d) = (IF d >= c THEN d - c ELSE (d - c) + Circle)
        BY <1>3
      <4>2. c \in 0 .. Circle - 1 /\ d \in 0 .. Circle - 1 /\ Circle \in Nat
        BY <1>1
      <4>3. (IF d >= c THEN d - c ELSE (d - c) + Circle) \in Nat
        BY <4>2, AheadIsNat
      <4> QED BY <4>1, <4>3
    <3>2. A(c) \in Nat
      BY <1>6, <2>2
    <3> QED BY <1>5, <3>1, <3>2
  <2> QED BY <2>2, <2>3, <2>4, <2>5
<1>10. \A j \in DOMAIN cs : A(cs[j]) < W(cs[j], After(cs, j)) <=> j = i
  BY <1>8, <1>9
<1>11. /\ {j \in DOMAIN cs : Between(x, cs[j], After(cs, j))} = {i}
       /\ {j \in DOMAIN cs : HeldIn(x, cs[j], After(cs, j))} = {i}
  BY <1>5, <1>10
<1> QED BY <1>8, <1>11 DEF A, W

\* Houses, claims and the houses of another place agree.
LEMMA HousesHold ==
    ASSUME ZodiacAssumption, CuspsInOrder, SkyInv
    PROVE  HousesPartition
<1> SUFFICES ASSUME NEW x \in Longitudes
             PROVE  LET i == HouseOf(x, cusps)
                    IN  /\ ((x - cusps[i]) % Circle) < ((After(cusps, i) - cusps[i]) % Circle)
                        /\ i = ClaimedHouse(x, cusps)
                        /\ x \notin Moved(Longitudes, cusps, cusps)
  BY DEF HousesPartition
<1>1. cusps \in CuspLists /\ DOMAIN cusps \subseteq Int
  <2>1. cusps \in CuspLists
    BY DEF SkyInv
  <2> QED BY <2>1, CuspList
<1>2. PICK i \in DOMAIN cusps :
         /\ {j \in DOMAIN cusps : Between(x, cusps[j], After(cusps, j))} = {i}
         /\ {j \in DOMAIN cusps : HeldIn(x, cusps[j], After(cusps, j))} = {i}
         /\ ((x - cusps[i]) % Circle) < ((After(cusps, i) - cusps[i]) % Circle)
  BY <1>1, OneHouse
<1>3. i \in Int
  BY <1>1
<1>4. Min({i}) = i /\ {i} # {}
  BY <1>3 DEF Min
<1>5. HouseOf(x, cusps) = i /\ Rehoused(x, cusps) = i
  BY <1>2, <1>4 DEF HouseOf, Rehoused, FirstHouse
<1>6. ClaimedHouse(x, cusps) = i
  BY <1>2, <1>4 DEF ClaimedHouse, FirstHouse
<1>7. x \notin Moved(Longitudes, cusps, cusps)
  BY <1>5 DEF Moved
<1> QED BY <1>2, <1>5, <1>6, <1>7

-----------------------------------------------------------------------------

\* _angular_gap finds the only representative of a distance around zero.
LEMMA GapOfDay ==
    ASSUME ZodiacAssumption, NEW natal \in Int, NEW t \in Int, NEW q \in Int,
           NEW g \in (Half - Circle) + 1 .. Half, t - natal = (Circle * q) + g
    PROVE  Gap(Sun(t), natal) = g
<1>1. Circle \in Nat \ {0} /\ Half \in Nat /\ 2 * Half <= Circle /\ Half < Circle
  BY DEF ZodiacAssumption, Half
<1> DEFINE s == t \div Circle
           u == t % Circle
           n == u - natal
           d == n % Circle
<1>2. s \in Int /\ u \in 0 .. Circle - 1 /\ t = (Circle * s) + u
  BY <1>1, ModParts
<1> HIDE DEF s, u
<1>3. u \in Int
  BY <1>2
<1>4. n = (Circle * (q - s)) + g
  <2>1. Circle * (q - s) = (Circle * q) - (Circle * s)
    BY <1>1, <1>2
  <2>2. Circle * q \in Int /\ Circle * s \in Int
    BY <1>1, <1>2
  <2> QED BY <1>1, <1>2, <1>3, <2>1, <2>2
<1>5. n \in Int /\ q - s \in Int
  BY <1>2, <1>3
<1> HIDE DEF n
<1>6. CASE g >= 0
  <2>1. g \in 0 .. Circle - 1
    BY <1>1, <1>6
  <2>2. d = g
    BY <1>1, <1>4, <1>5, <2>1, ModIs
  <2>3. ~(d > Half)
    BY <1>1, <2>2
  <2> QED BY <2>2, <2>3 DEF Gap, Sun, n, u
<1>7. CASE g < 0
  <2> DEFINE h == g + Circle
  <2>1. h \in 0 .. Circle - 1 /\ h > Half /\ h - Circle = g
    BY <1>1, <1>7
  <2>2. n = (Circle * ((q - s) - 1)) + h
    <3>1. Circle * ((q - s) - 1) = (Circle * (q - s)) - Circle
      BY <1>1, <1>5
    <3>2. Circle * (q - s) \in Int
      BY <1>1, <1>5
    <3> QED BY <1>1, <1>4, <1>5, <3>1, <3>2
  <2> HIDE DEF h
  <2>3. d = h
    <3>1. (q - s) - 1 \in Int
      BY <1>5
    <3> QED BY <1>1, <1>5, <2>1, <2>2, <3>1, ModUnique
  <2>4. d > Half /\ d - Circle = g
    BY <2>1, <2>3
  <2> QED BY <2>4 DEF Gap, Sun, n, u
<1> QED BY <1>1, <1>6, <1>7

\* It is one, and lies around zero.
LEMMA GapParts ==
    ASSUME ZodiacAssumption, NEW natal \in Int, NEW t \in Int
    PROVE  /\ Gap(Sun(t), natal) \in (Half - Circle) + 1 .. Half
           /\ \E q \in Int : t - natal = (Circle * q) + Gap(Sun(t), natal)
<1>1. Circle \in Nat \ {0} /\ Half \in Nat /\ 2 * Half <= Circle /\ Half < Circle
  BY DEF ZodiacAssumption, Half
<1> DEFINE n == t - natal
           s == n \div Circle
           r == n % Circle
<1>2. n \in Int /\ s \in Int /\ r \in 0 .. Circle - 1 /\ n = (Circle * s) + r
  <2>1. n \in Int
    OBVIOUS
  <2> HIDE DEF n
  <2> QED BY <1>1, <2>1, ModParts
<1> HIDE DEF n, s, r
<1>3. CASE r <= Half
  <2>1. r \in (Half - Circle) + 1 .. Half
    BY <1>1, <1>2, <1>3
  <2>2. t - natal = (Circle * s) + r
    BY <1>2 DEF n
  <2>3. Gap(Sun(t), natal) = r
    BY <1>2, <2>1, <2>2, GapOfDay
  <2> QED BY <1>2, <2>1, <2>2, <2>3
<1>4. CASE ~(r <= Half)
  <2> DEFINE g == r - Circle
             q == s + 1
  <2>1. g \in (Half - Circle) + 1 .. Half /\ q \in Int
    BY <1>1, <1>2, <1>4
  <2>2. t - natal = (Circle * q) + g
    <3>1. Circle * q = (Circle * s) + Circle /\ Circle * s \in Int
      BY <1>1, <1>2
    <3>2. n = (Circle * q) + g
      <4> HIDE DEF q
      <4> QED BY <1>1, <1>2, <3>1
    <3> QED BY <3>2 DEF n
  <2> HIDE DEF g, q
  <2>3. Gap(Sun(t), natal) = g
    BY <2>1, <2>2, GapOfDay
  <2> QED BY <2>1, <2>2, <2>3
<1> QED BY <1>3, <1>4

\* The search finds the one return that lies in the days it looks at, and takes no later one
\* and no flip at the opposite point for it.
LEMMA ReturnFound ==
    ASSUME ZodiacAssumption, NEW natal \in Int, NEW guess \in Int, NEW q \in Int, NEW back \in Int,
           back - natal = Circle * q,
           guess - Back < back, back <= (guess - Back) + 2 * Steps, back - Circle <= guess - Back
    PROVE  FindReturn(natal, guess) = back
<1> DEFINE at(k) == (guess - Back) + 2 * k
           gap(k) == Gap(Sun(at(k)), natal)
           found == {k \in 1 .. Steps : gap(k - 1) < 0 /\ gap(k) >= 0}
           low == guess - Back
           e == back - low
<1>1. /\ Circle \in Nat \ {0} /\ Half \in Nat /\ 2 * Half <= Circle /\ Circle <= 2 * Half + 1
      /\ Circle >= 12 /\ Back \in Nat /\ Steps \in Nat
  BY DEF ZodiacAssumption, Half
<1>2. low \in Int /\ e \in Int /\ e >= 1 /\ e <= 2 * Steps /\ e <= Circle
  BY <1>1
<1>3. \A k \in Int : at(k) \in Int /\ at(k - 1) \in Int /\ at(k) = at(k - 1) + 2 /\ at(k) - back = 2 * k - e
  BY <1>1
<1>4. FindReturn(natal, guess) = IF found = {} THEN at(Steps) ELSE at(Min(found)) - gap(Min(found))
  BY DEF FindReturn
<1> HIDE DEF at, low, e
<1>5. PICK k \in 1 .. Steps : 2 * k = e \/ 2 * k = e + 1
  <2>1. ((e % 2) = 0 \/ (e % 2) = 1) /\ e = (2 * (e \div 2)) + (e % 2) /\ (e \div 2) \in Int
    BY <1>2
  <2>2. CASE (e % 2) = 0
    <3>1. (e \div 2) \in 1 .. Steps /\ 2 * (e \div 2) = e
      BY <1>1, <1>2, <2>1, <2>2
    <3> QED BY <3>1
  <2>3. CASE (e % 2) = 1
    <3>1. (e \div 2) + 1 \in 1 .. Steps /\ 2 * ((e \div 2) + 1) = e + 1
      BY <1>1, <1>2, <2>1, <2>3
    <3> QED BY <3>1
  <2> QED BY <2>1, <2>2, <2>3
<1>6. ASSUME NEW j \in Int, NEW g \in (Half - Circle) + 1 .. Half, at(j) - back = g
      PROVE  gap(j) = g
  <2>1. at(j) - natal = (Circle * q) + g /\ at(j) \in Int
    <3>1. Circle * q \in Int
      BY <1>1
    <3>2. at(j) \in Int
      BY <1>3
    <3>3. g \in Int
      BY <1>1
    <3> QED BY <1>6, <3>1, <3>2, <3>3
  <2> QED BY <2>1, GapOfDay
<1>7. gap(k) \in {0, 1} /\ at(k) - gap(k) = back /\ gap(k - 1) < 0
  <2>1. /\ at(k) - back \in {0, 1} /\ at(k - 1) - back \in {-1, -2} /\ k \in Int /\ k - 1 \in Int
        /\ at(k) \in Int
    <3>1. k \in Int /\ k - 1 \in Int
      OBVIOUS
    <3>2. at(k) \in Int /\ at(k - 1) \in Int /\ at(k) = at(k - 1) + 2 /\ at(k) - back = 2 * k - e
      BY <1>3, <3>1
    <3>3. e \in Int
      BY <1>2
    <3>4. at(k) - back \in {0, 1}
      BY <1>5, <3>1, <3>2, <3>3
    <3> QED BY <3>1, <3>2, <3>4
  <2>2. {0, 1, -1, -2} \subseteq (Half - Circle) + 1 .. Half
    BY <1>1
  <2>3. gap(k) = at(k) - back /\ gap(k - 1) = at(k - 1) - back
    <3> HIDE DEF gap
    <3> QED BY <1>6, <2>1, <2>2
  <2> HIDE DEF gap
  <2> QED BY <2>1, <2>3
<1>8. k \in found
  BY <1>7
<1>9. ASSUME NEW j \in found PROVE k <= j
  <2>1. j \in 1 .. Steps /\ gap(j - 1) < 0 /\ gap(j) >= 0
    OBVIOUS
  <2> DEFINE g == gap(j - 1)
             a == at(j - 1)
  <2>2. a \in Int /\ at(j) = a + 2 /\ a >= low
    BY <1>1, <1>2, <1>3, <2>1 DEF at, low
  <2>3. g \in (Half - Circle) + 1 .. Half /\ \E r \in Int : a - natal = (Circle * r) + g
    <3> HIDE DEF a
    <3>1. Gap(Sun(a), natal) = g
      BY DEF a
    <3>2. a \in Int
      BY <2>2
    <3>3. /\ Gap(Sun(a), natal) \in (Half - Circle) + 1 .. Half
          /\ \E r \in Int : a - natal = (Circle * r) + Gap(Sun(a), natal)
      BY <3>2, GapParts
    <3> HIDE DEF g
    <3> QED BY <3>1, <3>3
  <2>4. PICK r \in Int : a - natal = (Circle * r) + g
    BY <2>3
  <2>5. gap(j) = g + 2
    <3> HIDE DEF a, g
    <3>1. g + 2 \in (Half - Circle) + 1 .. Half /\ a + 2 \in Int
      BY <1>1, <2>1, <2>2, <2>3 DEF g
    <3>2. (a + 2) - natal = (Circle * r) + (g + 2)
      <4>1. Circle * r \in Int
        BY <1>1
      <4> QED BY <1>1, <2>2, <2>3, <2>4, <4>1
    <3>3. Gap(Sun(a + 2), natal) = g + 2
      <4> DEFINE u == a + 2
                 h == g + 2
      <4> HIDE DEF u, h
      <4>1. u \in Int /\ h \in (Half - Circle) + 1 .. Half /\ u - natal = (Circle * r) + h
        BY <3>1, <3>2 DEF u, h
      <4>2. Gap(Sun(u), natal) = h
        BY <4>1, GapOfDay
      <4> QED BY <4>2 DEF u, h
    <3> QED BY <2>2, <3>3
  <2>6. g \in {-1, -2}
    <3> HIDE DEF g
    <3> QED BY <1>1, <2>1, <2>3, <2>5 DEF g
  <2>7. r - q >= 0
    <3>1. Circle * (r - q) = (Circle * r) - (Circle * q) /\ Circle * r \in Int /\ Circle * q \in Int
      BY <1>1
    <3>2. Circle * (r - q) > -Circle
      <4>1. Circle * (r - q) = (a - g) - back
        <5> HIDE DEF a, g
        <5> QED BY <2>2, <2>4, <2>6, <3>1
      <4>2. back - Circle <= low
        BY DEF low
      <4> HIDE DEF a, g
      <4> QED BY <1>1, <1>2, <2>2, <2>6, <4>1, <4>2
    <3>3. CASE r - q <= -1
      <4>1. Circle * (-(r - q)) >= Circle * 1 /\ Circle * (-(r - q)) = -(Circle * (r - q))
        BY <1>1, <3>3
      <4> QED BY <1>1, <3>1, <3>2, <4>1
    <3> QED BY <3>3
  <2>8. a - g >= back
    <3>1. Circle * (r - q) >= 0 /\ Circle * (r - q) = (Circle * r) - (Circle * q)
          /\ Circle * r \in Int /\ Circle * q \in Int
      BY <1>1, <2>7
    <3> HIDE DEF a, g
    <3> QED BY <2>2, <2>4, <2>6, <3>1
  <2>9. at(j) >= back
    <3> HIDE DEF a, g
    <3> QED BY <2>2, <2>6, <2>8
  <2>10. at(j) - back = 2 * j - e /\ at(j) \in Int /\ j \in Int
    BY <1>3, <2>1
  <2> QED BY <1>2, <1>5, <2>9, <2>10
<1>10. Min(found) = k
  <2>1. k \in Int /\ \A j \in found : j \in Int
    OBVIOUS
  <2> HIDE DEF found
  <2>2. ASSUME NEW m \in found, \A j \in found : m <= j PROVE m = k
    <3>1. m \in Int /\ m <= k /\ k <= m
      BY <1>8, <1>9, <2>1, <2>2
    <3> QED BY <2>1, <3>1
  <2> QED BY <1>8, <1>9, <2>2 DEF Min
<1> QED BY <1>4, <1>7, <1>8, <1>10

\* The later of the two returns that is not in the future is the last one.
LEMMA YearsFound ==
    ASSUME ZodiacAssumption, SkyInv
    PROVE  SolarYearFound
<1> SUFFICES ASSUME NEW now \in Longitudes,
                    LET ago == (Sun(now) - target) % Circle
                    IN  ago < Back \/ Circle - ago <= 2 * Steps - Back
             PROVE  ActiveReturn(target, now) = now - ((Sun(now) - target) % Circle)
  BY DEF SolarYearFound
<1> DEFINE u == now % Circle
           s == now \div Circle
           n == u - target
           ago == n % Circle
           p == n \div Circle
           R == {t \in {FindReturn(target, now - Circle), FindReturn(target, now)} : t <= now}
<1>1. /\ Circle \in Nat \ {0} /\ Back \in Nat /\ Steps \in Nat /\ Back <= Circle
      /\ Back <= 2 * Steps /\ target \in Int /\ now \in Int
  BY ConstantsOfSky DEF ZodiacAssumption, SkyInv, Longitudes
<1>2. u \in 0 .. Circle - 1 /\ s \in Int /\ now = (Circle * s) + u
  BY <1>1, ModParts
<1>3. n \in Int
  BY <1>1, <1>2
<1>4. ago \in 0 .. Circle - 1 /\ p \in Int /\ n = (Circle * p) + ago
  <2> HIDE DEF n
  <2> QED BY <1>1, <1>3, ModParts
<1>5. ((Sun(now) - target) % Circle) = ago
  BY DEF Sun
<1>6. ago < Back \/ Circle - ago <= 2 * Steps - Back
  BY DEF Sun
<1>7. ActiveReturn(target, now) = Max(R)
  BY DEF ActiveReturn
<1> DEFINE q == s + p
<1>8. (now - ago) - target = Circle * q /\ q \in Int
  <2>1. Circle * q = (Circle * s) + (Circle * p) /\ Circle * s \in Int /\ Circle * p \in Int
    BY <1>1, <1>2, <1>4
  <2>2. u - target = n
    OBVIOUS
  <2> HIDE DEF u, s, n, ago, p
  <2> QED BY <1>1, <1>2, <1>4, <2>1, <2>2
<1> HIDE DEF u, s, n, ago, p, q
<1> DEFINE last == now - ago
           before == last - Circle
           next == last + Circle
<1>9. /\ last \in Int /\ before \in Int /\ next \in Int /\ last <= now /\ before < last /\ now < next
      /\ q - 1 \in Int /\ q + 1 \in Int
      /\ last - target = Circle * q
      /\ before - target = Circle * (q - 1)
      /\ next - target = Circle * (q + 1)
  <2>1. Circle * (q - 1) = (Circle * q) - Circle /\ Circle * (q + 1) = (Circle * q) + Circle
        /\ Circle * q \in Int
    BY <1>1, <1>8
  <2> QED BY <1>1, <1>4, <1>8, <2>1
<1>10. CASE ago < Back
  <2>1. /\ now - Back < last /\ last <= (now - Back) + 2 * Steps /\ last - Circle <= now - Back
        /\ (now - Circle) - Back < before /\ before <= ((now - Circle) - Back) + 2 * Steps
        /\ before - Circle <= (now - Circle) - Back /\ now - Circle \in Int
    BY <1>1, <1>4, <1>10
  <2> HIDE DEF last, before
  <2>2. FindReturn(target, now) = last
    BY <1>1, <1>8, <1>9, <2>1, ReturnFound
  <2>3. FindReturn(target, now - Circle) = before
    <3> DEFINE g == now - Circle
    <3> HIDE DEF g
    <3>1. g \in Int /\ g - Back < before /\ before <= (g - Back) + 2 * Steps
          /\ before - Circle <= g - Back
      BY <2>1 DEF g
    <3>2. FindReturn(target, g) = before
      BY <1>1, <1>9, <3>1, ReturnFound
    <3> QED BY <3>2 DEF g
  <2>4. R = {before, last}
    <3>1. before <= now
      BY <1>1, <1>9
    <3> QED BY <1>9, <2>2, <2>3, <3>1
  <2>5. Max(R) = last
    <3> HIDE DEF R
    <3>1. Max({before, last}) = last
      BY <1>9, MaxOfTwo
    <3> QED BY <2>4, <3>1
  <2> QED BY <1>5, <1>7, <2>5 DEF last
<1>11. CASE ~(ago < Back)
  <2>1. /\ now - Back < next /\ next <= (now - Back) + 2 * Steps /\ next - Circle <= now - Back
        /\ (now - Circle) - Back < last /\ last <= ((now - Circle) - Back) + 2 * Steps
        /\ last - Circle <= (now - Circle) - Back /\ now - Circle \in Int
    BY <1>1, <1>4, <1>6, <1>11
  <2> HIDE DEF last, next
  <2>2. FindReturn(target, now) = next
    BY <1>1, <1>9, <2>1, ReturnFound
  <2>3. FindReturn(target, now - Circle) = last
    <3> DEFINE g == now - Circle
    <3> HIDE DEF g
    <3>1. g \in Int /\ g - Back < last /\ last <= (g - Back) + 2 * Steps
          /\ last - Circle <= g - Back
      BY <2>1 DEF g
    <3>2. FindReturn(target, g) = last
      BY <1>1, <1>8, <1>9, <3>1, ReturnFound
    <3> QED BY <3>2 DEF g
  <2>4. R = {last}
    <3>1. ~(next <= now)
      BY <1>1, <1>9
    <3> QED BY <1>9, <2>2, <2>3, <3>1
  <2>5. Max(R) = last
    <3> HIDE DEF R
    <3>1. Max({last}) = last
      BY <1>9 DEF Max
    <3> QED BY <2>4, <3>1
  <2> QED BY <1>5, <1>7, <2>5 DEF last
<1> QED BY <1>10, <1>11

\* Elements of a path are longitudes.
LEMMA ElementIsInt ==
    ASSUME NEW s \in Seq(Int), NEW i \in 1 .. Len(s)
    PROVE  s[i] \in Int
OBVIOUS

\* A day of the Moon touches two signs at most.
LEMMA MoonsNamed ==
    ASSUME ZodiacAssumption, SkyInv
    PROVE  MoonCovered
<1> SUFFICES ASSUME NEW d \in 0 .. Seen - 1, NEW x \in path[d + 1] .. path[d + 2]
             PROVE  SignOf(x) \in MoonSigns(path[d + 1], path[d + 1], path[d + 2])
  BY DEF MoonCovered
<1> DEFINE l == Len(path)
<1>0. path \in Seq(Int)
  BY DEF SkyInv
<1>1. l \in Nat /\ Seen = l - 1
  BY <1>0 DEF Seen
<1> HIDE DEF l
<1>2. d + 1 \in 1 .. Seen /\ (d + 1) + 1 = d + 2 /\ d + 1 \in 1 .. l /\ d + 2 \in 1 .. l
  BY <1>1
<1>3. path[d + 2] - path[d + 1] \in -Pace .. Pace
  BY <1>2 DEF SkyInv
<1>4. PICK a \in Int : a = path[d + 1]
  BY <1>0, <1>2, ElementIsInt DEF l
<1>5. PICK b \in Int : b = path[d + 2]
  BY <1>0, <1>2, ElementIsInt DEF l
<1>6. x \in a .. b /\ x \in Int /\ b - a <= Pace
  <2>1. Pace \in Nat /\ b - a \in -Pace .. Pace
    BY <1>3, <1>4, <1>5, ConstantsOfSky
  <2> QED BY <1>4, <1>5, <2>1
<1>7. SignOf(x) \in {SignOf(a), SignOf(b)}
  BY <1>6, SignsOnTheWay
<1> QED BY <1>4, <1>5, <1>7 DEF MoonSigns

\* The dates of a loop are counted from its first.
LEMMA LoopsComplete ==
    ASSUME ZodiacAssumption, SkyInv
    PROVE  LoopsShown
<1> SUFFICES ASSUME NEW a \in Angles, NEW t \in exacts[a]
             PROVE  t \in ShownDates(a, t) \/ Cardinality({u \in Loop(a, t) : u < t}) >= 3
  BY DEF LoopsShown
<1>1. t \in Int /\ exacts[a] \subseteq 0 .. 2 * Seen - 1 /\ Seen \in Int
  <2>1. exacts[a] \subseteq 0 .. 2 * Seen - 1
    BY DEF SkyInv
  <2>2. Seen \in Int
    BY DEF SkyInv, Seen
  <2> QED BY <2>1, <2>2
<1>2. IsFiniteSet({u \in Loop(a, t) : u < t})
  <2>1. IsFiniteSet(0 .. 2 * Seen - 1)
    <3> DEFINE m == 2 * Seen - 1
    <3>1. m \in Int /\ 0 \in Int
      BY <1>1
    <3> HIDE DEF m
    <3>2. IsFiniteSet(0 .. m)
      BY <3>1, FS_Interval
    <3> QED BY <3>2 DEF m
  <2>2. {u \in Loop(a, t) : u < t} \subseteq 0 .. 2 * Seen - 1
    BY <1>1 DEF Loop
  <2> QED BY <2>1, <2>2, FS_Subset
<1>3. Cardinality({u \in Loop(a, t) : u < t}) \in Nat
  BY <1>2, FS_CardinalityType
<1>4. t \in Loop(a, t)
  <2>1. Min({t, t}) = t /\ Max({t, t}) = t
    BY <1>1, MinOfTwo, MaxOfTwo
  <2>2. \A w \in exacts[a] : ~(w > Min({t, t}) /\ w <= Max({t, t}))
    BY <1>1, <2>1
  <2> QED BY <2>2 DEF Loop
<1> QED BY <1>3, <1>4 DEF ShownDates

\* The inductive invariant of the scans.
THEOREM SkyInvCorrect == ZodiacSpec => []SkyInv
<1>1. ZodiacInit => SkyInv
  BY SkyStarts, ZodiacAssumption
<1>2. SkyInv /\ [ZodiacNext]_zodiacVars => SkyInv'
  <2> SUFFICES ASSUME SkyInv, [ZodiacNext]_zodiacVars PROVE SkyInv'
    OBVIOUS
  <2>1. CASE ZodiacNext
    BY <2>1, SkySteps, ZodiacAssumption DEF ZodiacNext
  <2>2. CASE UNCHANGED zodiacVars
    BY <2>2 DEF zodiacVars, SkyInv, Seen, InOrb, CrossingsDated, PassesAt, StaysReported
  <2> QED BY <2>1, <2>2
<1> QED BY <1>1, <1>2, PTL DEF ZodiacSpec

\* For any circle, aspects, cusps, pace and gate, whatever way a body moves: every passage of
\* an aspect is dated once and nothing else is, a stay within an orb is one event, a longitude
\* is in one house by each of the ways to ask, the Moon of a day is in a sign named for it, and
\* the solar year begins at the last return where the search reaches it.
THEOREM SkyIsRead == ZodiacSpec => []SkyReadRight
<1>1. SkyInv => SkyReadRight
  <2> SUFFICES ASSUME SkyInv PROVE SkyReadRight
    OBVIOUS
  <2>1. HousesPartition /\ SolarYearFound /\ LoopsShown /\ MoonCovered
    BY HousesHold, YearsFound, LoopsComplete, MoonsNamed, ZodiacAssumption, CuspsInOrder
  <2>2. CrossingsDated /\ StaysReported
    BY DEF SkyInv
  <2> QED BY <2>1, <2>2 DEF SkyReadRight
<1> QED BY <1>1, SkyInvCorrect, PTL

\* The types of the sky follow from what its notes are true of.
THEOREM SkyTypeCorrect == ZodiacSpec => []ZodiacTypeOK
<1>1. SkyInv => ZodiacTypeOK
  <2> SUFFICES ASSUME SkyInv PROVE ZodiacTypeOK
    OBVIOUS
  <2>1. Seen \in Nat /\ LastSample \in Nat /\ Seen <= LastSample
    BY ConstantsOfSky, ZodiacAssumption DEF SkyInv, Seen
  <2>2. \A i \in DOMAIN path : path[i] \in Int
    BY DEF SkyInv
  <2>3. exacts \in [Angles -> SUBSET (0 .. 2 * LastSample)]
    <3>1. 0 .. 2 * Seen - 1 \subseteq 0 .. 2 * LastSample
      BY <2>1
    <3>2. \A a \in Angles : exacts[a] \subseteq 0 .. 2 * LastSample
      BY <3>1 DEF SkyInv
    <3> QED BY <3>2 DEF SkyInv
  <2>4. starts \subseteq 0 .. LastSample
    BY <2>1 DEF SkyInv, StaysReported
  <2>5. active \in BOOLEAN
    BY DEF SkyInv, InOrb
  <2>6. cusps \in CuspLists /\ target \in Targets
    BY DEF SkyInv
  <2> QED BY <2>2, <2>3, <2>4, <2>5, <2>6 DEF ZodiacTypeOK
<1> QED BY <1>1, SkyInvCorrect, PTL

-----------------------------------------------------------------------------
(* The gates of the texts (TextGate.tla).  What is shown was a draft that  *)
(* passed; the rest follows draft by draft.                                *)

\* Up to two insights, of the lengths and the evidence of the model.
InsightsFit(is) ==
    /\ is \in Seq(Range(is)) /\ Len(is) \in 0 .. 2
    /\ \A k \in 1 .. Len(is) :
          is[k].words \in {30, 50, 100} /\ is[k].evidence \subseteq Items \union Companions

\* What a draft names as evidence is an item, and it has two insights at most.
LEMMA InsightsOfDraft ==
    ASSUME NEW d \in Drafts
    PROVE  InsightsFit(d.insights)
<1>1. d.insights \in Insights \union {<<>>}
  <2>1. \E is \in Insights \union {<<>>} : \E shape, banned, claims, about :
           d = Draft(shape, is, banned, claims, about)
    <3>1. Long \subseteq Insights
      BY DEF Long
    <3>2. CASE \E is \in Insights : d = Draft("object", is, "nowhere", {}, "target")
      BY <3>2
    <3>3. CASE \E is \in Long : d = Draft("embedded", is, "nowhere", {}, "target")
      BY <3>1, <3>3
    <3>4. CASE \E is \in Long, p \in {"insight", "advice"} : d = Draft("object", is, p, {}, "target")
      BY <3>1, <3>4
    <3>5. CASE \E is \in Long : d = Draft("object", is, "nowhere", {}, "other")
      BY <3>1, <3>5
    <3>6. CASE \E is \in Long, cs \in OneClaim :
                  d = Draft("object", is, "nowhere", cs, "target")
      BY <3>1, <3>6
    <3>7. CASE \E p \in {"prose", "misshapen"} : d = Draft(p, <<>>, "nowhere", {}, "target")
      BY <3>7
    <3> QED BY <3>2, <3>3, <3>4, <3>5, <3>6, <3>7 DEF Drafts
  <2>2. PICK is \in Insights \union {<<>>} : \E shape, banned, claims, about :
           d = Draft(shape, is, banned, claims, about)
    BY <2>1
  <2>3. d.insights = is
    BY <2>2 DEF Draft
  <2> QED BY <2>3
<1>2. ASSUME NEW is \in Insights \union {<<>>} PROVE InsightsFit(is)
  <2> DEFINE some(ws, xs) == {[words |-> w, evidence |-> e] : w \in ws, e \in {{}} \union {{i} : i \in xs}}
  <2>1. ASSUME NEW ws, NEW xs, NEW s \in some(ws, xs)
        PROVE  s.words \in ws /\ s.evidence \subseteq xs
    BY <2>1
  <2>2. Insights = {<<s>> : s \in some({30, 50, 100}, Items)}
                   \union {<<s, t>> : s \in some({30, 50, 100}, Items), t \in some({50, 100}, Companions)}
    BY DEF Insights
  <2> HIDE DEF some
  <2>3. CASE is = <<>>
    BY <2>3 DEF InsightsFit, Range
  <2>4. CASE \E s \in some({30, 50, 100}, Items) : is = <<s>>
    <3>1. PICK s \in some({30, 50, 100}, Items) : is = <<s>>
      BY <2>4
    <3>2. s.words \in {30, 50, 100} /\ s.evidence \subseteq Items
      BY <2>1
    <3>3. Len(is) = 1 /\ is[1] = s /\ is \in Seq(Range(is))
      BY <3>1 DEF Range
    <3> QED BY <3>2, <3>3 DEF InsightsFit
  <2>5. CASE \E s \in some({30, 50, 100}, Items), t \in some({50, 100}, Companions) : is = <<s, t>>
    <3>1. PICK s \in some({30, 50, 100}, Items), t \in some({50, 100}, Companions) : is = <<s, t>>
      BY <2>5
    <3>2. /\ s.words \in {30, 50, 100} /\ s.evidence \subseteq Items
          /\ t.words \in {50, 100} /\ t.evidence \subseteq Companions
      BY <2>1
    <3>3. Len(is) = 2 /\ is[1] = s /\ is[2] = t /\ is \in Seq(Range(is))
      BY <3>1 DEF Range
    <3> QED BY <3>2, <3>3 DEF InsightsFit
  <2> QED BY <2>2, <2>3, <2>4, <2>5
<1> QED BY <1>1, <1>2

\* The sum over two insights: the recursive function exists, and has the sum as its value.
LEMMA WordsOfTwo ==
    ASSUME NEW d, Len(d.insights) = 2, d.insights[1].words \in Nat, d.insights[2].words \in Nat
    PROVE  Words(d) = d.insights[1].words + d.insights[2].words
<1> DEFINE v == d.insights[1].words
           w == d.insights[2].words
           S == 0 .. 2
           Longer(f) == [k \in S |-> IF k = 0 THEN 0 ELSE f[k - 1] + d.insights[k].words]
           Sums == CHOOSE f : f = Longer(f)
           g == [k \in S |-> IF k = 0 THEN 0 ELSE IF k = 1 THEN v ELSE v + w]
<1>1. g = Longer(g)
  <2>1. ASSUME NEW k \in S PROVE g[k] = Longer(g)[k]
    <3>1. CASE k = 0
      BY <3>1
    <3>2. CASE k = 1
      BY <3>2
    <3>3. CASE k = 2
      BY <3>3
    <3> QED BY <3>1, <3>2, <3>3
  <2> QED BY <2>1
<1>2. Sums = Longer(Sums)
  <2> HIDE DEF g, Longer
  <2> QED BY <1>1
<1>3. Words(d) = Sums[2]
  BY DEF Words
<1> HIDE DEF Sums
<1>4. Sums[0] = 0
  BY <1>2
<1>5. Sums[1] = v
  <2>1. Sums[1] = Sums[0] + d.insights[1].words
    BY <1>2
  <2> QED BY <1>4, <2>1
<1>6. Sums[2] = v + w
  <2>1. Sums[2] = Sums[1] + d.insights[2].words
    BY <1>2
  <2> QED BY <1>5, <2>1
<1> QED BY <1>3, <1>6

\* A shown text is a draft that passed the gate of its kind, for its chart.
TextInv ==
    /\ job \in Jobs /\ chart \in Charts
    /\ calls \in Nat
    /\ Shown => text \in Drafts /\ Passes(text, job, chart)

\* Nothing is shown at first.
LEMMA TextStarts == TextAssumption /\ TextInit => TextInv
BY DEF TextInit, TextInv, Shown, Pending

\* Only what passed is shown.
LEMMA TextSteps ==
    ASSUME TextAssumption, TextInv, NEW d \in Drafts, Judge(d)
    PROVE  TextInv'
<1>1. job' = job /\ chart' = chart /\ calls' = calls + 1
  BY DEF Judge
<1>2. text' = Raised \/ text' = Pending \/ text' = Fallback \/ (text' = d /\ Passes(d, job, chart))
  BY DEF Judge
<1>3. ~(Raised.shape \in {"object", "embedded"}) /\ ~(Pending.shape \in {"object", "embedded"})
      /\ ~(Fallback.shape \in {"object", "embedded"})
  BY DEF Raised, Pending, Fallback
<1>4. Shown' <=> text'.shape \in {"object", "embedded"}
  BY DEF Shown
<1>5. Shown' => text' = d /\ Passes(d, job, chart)
  BY <1>2, <1>3, <1>4
<1>7. Passes(text, job, chart)' <=> Passes(text', job', chart')
  OBVIOUS
<1> QED BY <1>1, <1>5, <1>7 DEF TextInv

\* The factors of a chart are among its points, and a chart has some.
LEMMA FactorsArePoints ==
    ASSUME TextAssumption, NEW c \in Charts
    PROVE  /\ \A e : Active(e, c) \subseteq Points(c) /\ Active(e, c) \subseteq ActiveAnywhere(c)
           /\ ActiveAnywhere(c) \subseteq Points(c) /\ ActiveAnywhere(c) # {}
<1>1. ASSUME NEW e PROVE Active(e, c) \subseteq Points(c) /\ Active(e, c) \subseteq ActiveAnywhere(c)
  <2> SUFFICES ASSUME NEW f \in Active(e, c) PROVE f \in Points(c) /\ f \in ActiveAnywhere(c)
    OBVIOUS
  <2>1. PICK q \in Rules : q.domain = e /\ Matched(q, c) /\ f = q.factor
    BY DEF Active
  <2>2. f \in Points(c)
    BY <2>1 DEF Matched
  <2>3. f \in ActiveAnywhere(c)
    BY <2>1 DEF ActiveAnywhere
  <2> QED BY <2>2, <2>3
<1>2. ActiveAnywhere(c) \subseteq Points(c)
  BY <1>1 DEF ActiveAnywhere
<1>3. ActiveAnywhere(c) # {}
  <2>1. PICK r \in Rules : r.needs = "sign" /\ r.factor \in Bodies
    BY DEF TextAssumption
  <2>2. Matched(r, c)
    BY <2>1 DEF Matched, Points
  <2>3. r.factor \in Active(r.domain, c)
    BY <2>2 DEF Active
  <2> QED BY <2>3, <1>1
<1> QED BY <1>1, <1>2, <1>3

\* The items of a draft.
LEMMA EvidenceIsItems ==
    ASSUME TextAssumption, NEW d \in Drafts, NEW i \in Evidence(d)
    PROVE  i \in Items \union Companions
<1>1. InsightsFit(d.insights)
  BY InsightsOfDraft
<1>2. PICK k \in DOMAIN d.insights : i \in d.insights[k].evidence
  BY DEF Evidence, Range
<1>3. k \in 1 .. Len(d.insights)
  BY <1>1, <1>2 DEF InsightsFit
<1> QED BY <1>1, <1>2, <1>3 DEF InsightsFit

\* ShownIsSound: what passed the gate of its kind says nothing that the chart refutes.
LEMMA ShownSound == TextAssumption /\ TextInv => ShownIsSound
<1> SUFFICES ASSUME TextAssumption, TextInv, Shown
             PROVE  /\ text.banned = "nowhere"
                    /\ \A s \in text.claims :
                          s.body = "ASC" /\ chart.known /\ job.kind # "exploration" => s.right
                    /\ job.kind # "transit" => \A i \in Evidence(text) :
                          /\ i.form = "aspect" \/ i.head \in Points(chart) \union Soft
                          /\ i.right \/ job.kind = "exploration"
                             \/ i.head \notin Active(job.domain, chart)
  BY DEF ShownIsSound
<1>1. /\ text \in Drafts /\ Passes(text, job, chart) /\ chart \in Charts
      /\ job.kind \in {"section", "personal", "exploration", "transit"}
  BY DEF TextInv, TextAssumption
<1>2. /\ job.kind \in {"section", "personal"} => QaSection(text, job, chart)
      /\ job.kind = "exploration" => QaExplore(text, chart)
      /\ job.kind = "transit" => QaTransit(text, chart)
  BY <1>1 DEF Passes
<1>3. text.banned = "nowhere"
  BY <1>1, <1>2 DEF QaSection, QaExplore, QaTransit
<1>4. ASSUME NEW s \in text.claims, s.body = "ASC", chart.known, job.kind # "exploration"
      PROVE  s.right
  <2>1. ~Hallucinates(text, chart)
    BY <1>1, <1>2, <1>4 DEF QaSection, QaTransit
  <2>2. s.body \in Known(chart)
    BY <1>4 DEF Known
  <2> QED BY <1>4, <2>1, <2>2 DEF Hallucinates
<1>5. ASSUME job.kind # "transit", NEW i \in Evidence(text)
      PROVE  /\ i.form = "aspect" \/ i.head \in Points(chart) \union Soft
             /\ i.right \/ job.kind = "exploration" \/ i.head \notin Active(job.domain, chart)
  <2>1. /\ i.form \in {"name", "sign", "phrase", "aspect"}
        /\ i.form # "sign" => i.right
    BY <1>1, <1>5, EvidenceIsItems DEF TextAssumption
  <2>2. CASE job.kind \in {"section", "personal"}
    <3>1. Grounded(i, job, chart)
      BY <1>2, <1>5, <2>2 DEF QaSection
    <3>2. CASE i.form = "sign"
      <4>1. \/ i.head \in Soft \ Points(chart)
            \/ /\ i.head \in Points(chart)
               /\ i.right \/ i.head \notin Active(job.domain, chart)
        BY <3>1, <3>2 DEF Grounded
      <4>2. Active(job.domain, chart) \subseteq Points(chart)
        BY <1>1, FactorsArePoints
      <4> QED BY <4>1, <4>2
    <3>3. CASE i.form # "sign"
      <4>1. i.right
        BY <2>1, <3>3
      <4>2. i.form = "aspect" \/ i.head \in Points(chart) \union Soft
        BY <2>1, <3>1, <3>3 DEF Grounded
      <4> QED BY <4>1, <4>2
    <3> QED BY <3>2, <3>3
  <2>3. CASE job.kind = "exploration"
    <3>1. ActiveAnywhere(chart) # {} /\ ActiveAnywhere(chart) \subseteq Points(chart)
      BY <1>1, FactorsArePoints
    <3>2. i.head \in ActiveAnywhere(chart)
      BY <1>2, <1>5, <2>3, <3>1 DEF QaExplore
    <3> QED BY <2>3, <3>1, <3>2
  <2> QED BY <1>1, <1>5, <2>2, <2>3
<1> QED BY <1>3, <1>4, <1>5

\* An item of a prompt is a point of the chart with its right sign, or an aspect of the chart.
LEMMA PromptIsGrounded ==
    ASSUME TextAssumption, NEW c \in Charts, NEW j \in Jobs, NEW i \in Items, InPrompt(i, j, c)
    PROVE  /\ i.form \in {"sign", "aspect"} => Grounded(i, j, c)
           /\ i.form = "name" => i.head \in ActiveAnywhere(c)
<1>1. Active(Domain(j), c) \subseteq Points(c) /\ Active(Domain(j), c) \subseteq ActiveAnywhere(c)
  BY FactorsArePoints
<1>2. CASE i.form = "sign"
  <2>1. i.head \in Points(c) /\ i.right
    BY <1>1, <1>2 DEF InPrompt
  <2> QED BY <1>2, <2>1 DEF Grounded
<1>3. CASE i.form = "name"
  BY <1>1, <1>3 DEF InPrompt
<1>4. CASE i.form = "aspect"
  <2>1. <<i.head, i.tail>> \in c.aspects
    BY <1>4 DEF InPrompt
  <2>2. {i.head, i.tail} \subseteq Points(c)
    <3>1. \A a \in c.aspects : {a[1], a[2]} \subseteq Points(c)
      BY DEF Charts
    <3>2. {<<i.head, i.tail>>[1], <<i.head, i.tail>>[2]} \subseteq Points(c)
      BY <2>1, <3>1
    <3> QED BY <3>2
  <2> QED BY <1>4, <2>2 DEF Grounded
<1> QED BY <1>2, <1>3, <1>4

\* A draft that does what its prompt says passes, but for the two prompts that ask for more.
LEMMA ObedientIsPassed ==
    ASSUME TextAssumption, NEW c \in Charts, NEW j \in Jobs, NEW d \in Drafts, Obedient(d, j, c)
    PROVE  \/ Passes(d, j, c)
           \/ j.kind = "personal" /\ Len(d.insights) = 1
           \/ j.kind = "exploration" /\ \E i \in Evidence(d) : i.head \notin ActiveAnywhere(c)
<1>1. /\ Parsed(d) /\ d.banned = "nowhere" /\ d.about = "target"
      /\ ~Hallucinates(d, c)
  BY DEF Obedient, Parsed, Hallucinates
<1>2. InsightsFit(d.insights)
  BY InsightsOfDraft
<1>3. CASE j.kind = "transit"
  BY <1>1, <1>3 DEF Passes, QaTransit
<1>4. ASSUME j.kind # "transit", Len(d.insights) = 2
      PROVE  /\ Words(d) >= 150
             /\ \A s \in Range(d.insights) : s.words >= 100 /\ s.evidence # {}
             /\ \A i \in Evidence(d) : i \in Items /\ i.form \in Forms(j) /\ InPrompt(i, j, c)
  <2>1. /\ DOMAIN d.insights = 1 .. 2
        /\ d.insights[1].words \in {30, 50, 100} /\ d.insights[2].words \in {30, 50, 100}
    BY <1>2, <1>4 DEF InsightsFit
  <2>2. \A k \in DOMAIN d.insights :
           /\ d.insights[k].words >= 100
           /\ \E i \in Items : /\ d.insights[k].evidence = {i}
                               /\ i.form \in Forms(j) /\ InPrompt(i, j, c)
    BY <1>4 DEF Obedient
  <2>3. d.insights[1].words >= 100 /\ d.insights[2].words >= 100
    BY <2>1, <2>2
  <2>4. Words(d) = d.insights[1].words + d.insights[2].words
    BY <1>4, <2>1, WordsOfTwo
  <2>5. Words(d) >= 150
    BY <2>1, <2>3, <2>4
  <2>6. \A s \in Range(d.insights) : s.words >= 100 /\ s.evidence # {}
    BY <2>2 DEF Range
  <2>7. ASSUME NEW i \in Evidence(d) PROVE i \in Items /\ i.form \in Forms(j) /\ InPrompt(i, j, c)
    <3>1. PICK k \in DOMAIN d.insights : i \in d.insights[k].evidence
      BY DEF Evidence, Range
    <3> QED BY <2>2, <3>1
  <2> QED BY <2>5, <2>6, <2>7
<1>5. CASE j.kind \in {"section", "personal"}
  <2>1. CASE Len(d.insights) = 2
    <3>1. \A i \in Evidence(d) : Grounded(i, j, c)
      <4> SUFFICES ASSUME NEW i \in Evidence(d) PROVE Grounded(i, j, c)
        OBVIOUS
      <4>1. i \in Items /\ i.form \in {"sign", "aspect"} /\ InPrompt(i, j, c)
        BY <1>4, <1>5, <2>1 DEF Forms
      <4> QED BY <4>1, PromptIsGrounded
    <3>2. \A s \in Range(d.insights) : s.words >= 40
      <4> SUFFICES ASSUME NEW s \in Range(d.insights) PROVE s.words >= 40
        OBVIOUS
      <4>1. PICK k \in DOMAIN d.insights : s = d.insights[k]
        BY DEF Range
      <4>2. s.words \in {30, 50, 100}
        BY <1>2, <4>1 DEF InsightsFit
      <4>3. s.words >= 100
        BY <1>4, <1>5, <2>1
      <4> QED BY <4>2, <4>3
    <3>3. QaSection(d, j, c)
      BY <1>1, <1>4, <1>5, <2>1, <3>1, <3>2 DEF QaSection
    <3> QED BY <1>1, <1>5, <3>3 DEF Passes
  <2>2. CASE Len(d.insights) # 2
    <3>1. Len(d.insights) \in Asked(j)
      BY <1>5 DEF Obedient
    <3> QED BY <1>5, <2>2, <3>1 DEF Asked
  <2> QED BY <2>1, <2>2
<1>6. CASE j.kind = "exploration" /\ \A i \in Evidence(d) : i.head \in ActiveAnywhere(c)
  <2>1. Len(d.insights) = 2
    BY <1>6 DEF Obedient, Asked
  <2>2. \A i \in Evidence(d) : i.form \in {"name", "phrase"}
    BY <1>4, <1>6, <2>1 DEF Forms
  <2>3. \A s \in Range(d.insights) : s.words >= 60 /\ s.evidence # {}
    <3> SUFFICES ASSUME NEW s \in Range(d.insights) PROVE s.words >= 60 /\ s.evidence # {}
      OBVIOUS
    <3>1. PICK k \in DOMAIN d.insights : s = d.insights[k]
      BY DEF Range
    <3>2. s.words \in {30, 50, 100}
      BY <1>2, <3>1 DEF InsightsFit
    <3>3. s.words >= 100 /\ s.evidence # {}
      BY <1>4, <1>6, <2>1
    <3> QED BY <3>2, <3>3
  <2>4. QaExplore(d, c)
    BY <1>1, <1>4, <1>6, <2>1, <2>2, <2>3 DEF QaExplore
  <2> QED BY <1>1, <1>6, <2>4 DEF Passes
<1>7. j.kind \in {"section", "personal", "exploration", "transit"}
  BY DEF TextAssumption
<1> QED BY <1>3, <1>5, <1>6, <1>7

\* GateIsFair, for every set of rules, of evidence and of jobs: what a reader is shown is
\* sound, and a draft that does what its prompt says is shown, but for the two prompts.
THEOREM GatesAreFairAlways == TextSpec => []GateIsFair
<1>1. TextInit => TextInv
  BY TextAssumption, TextStarts
<1>2. TextInv /\ [TextNext]_textVars => TextInv'
  <2> SUFFICES ASSUME TextInv, [TextNext]_textVars PROVE TextInv'
    OBVIOUS
  <2>1. CASE UNCHANGED textVars
    BY <2>1 DEF textVars, TextInv, Shown
  <2>2. ASSUME NEW d \in Drafts, Judge(d) PROVE TextInv'
    BY <2>2, TextAssumption, TextSteps
  <2> QED BY <2>1, <2>2 DEF TextNext
<1>3. TextInv => GateIsFair
  <2> SUFFICES ASSUME TextInv PROVE GateIsFair
    OBVIOUS
  <2>1. chart \in Charts /\ job \in Jobs
    BY DEF TextInv
  <2>2. ObedientPasses
    BY <2>1, TextAssumption, ObedientIsPassed DEF ObedientPasses
  <2> QED BY <2>2, TextAssumption, ShownSound DEF GateIsFair
<1> QED BY <1>1, <1>2, <1>3, PTL DEF TextSpec

\* There is an attempt left where another answer is waited for.
TextTypes ==
    /\ job \in Jobs /\ chart \in Charts /\ calls \in 0 .. Attempts
    /\ text = Pending => calls < Attempts
    /\ text.shape \in {"object", "embedded", "pending", "fallback", "raised"}

\* Types of the texts, and MAX_RETRIES: a text costs no more calls than there are attempts.
THEOREM TextTypeCorrect == TextSpec => []TextTypeOK
<1>1. TextInit => TextTypes
  BY TextAssumption DEF TextInit, TextTypes, Pending
<1>2. TextTypes /\ [TextNext]_textVars => TextTypes'
  <2> SUFFICES ASSUME TextTypes, [TextNext]_textVars PROVE TextTypes'
    OBVIOUS
  <2>1. CASE UNCHANGED textVars
    BY <2>1 DEF textVars, TextTypes
  <2>2. ASSUME NEW d \in Drafts, Judge(d) PROVE TextTypes'
    <3>1. job' = job /\ chart' = chart /\ calls' = calls + 1 /\ text = Pending
      BY <2>2 DEF Judge
    <3>2. calls' \in 0 .. Attempts
      BY <3>1, TextAssumption DEF TextTypes
    <3>3. \/ text' = Raised \/ text' = Fallback
          \/ text' = d /\ Passes(d, job, chart)
          \/ text' = Pending /\ calls + 1 < Attempts
      BY <2>2 DEF Judge
    <3>4. /\ Pending.shape = "pending" /\ Raised.shape = "raised" /\ Fallback.shape = "fallback"
          /\ Passes(d, job, chart) => d.shape \in {"object", "embedded"}
      BY DEF Raised, Fallback, Pending, Passes, Parsed
    <3>5. /\ text'.shape \in {"object", "embedded", "pending", "fallback", "raised"}
          /\ text' = Pending => calls' < Attempts
      <4>1. CASE text' = d /\ Passes(d, job, chart)
        BY <3>4, <4>1
      <4>2. CASE text' = Raised \/ text' = Fallback
        BY <3>4, <4>2
      <4>3. CASE text' = Pending /\ calls + 1 < Attempts
        BY <3>1, <3>4, <4>3
      <4> QED BY <3>3, <4>1, <4>2, <4>3
    <3> QED BY <3>1, <3>2, <3>5 DEF TextTypes
  <2> QED BY <2>1, <2>2 DEF TextNext
<1>3. TextTypes => TextTypeOK
  BY DEF TextTypes, TextTypeOK
<1> QED BY <1>1, <1>2, <1>3, PTL DEF TextSpec

-----------------------------------------------------------------------------
(* The turns of a conversation: what is stored and what the prompt replays. *)

\* The rows picked from the first n.
PicksUpTo(f, s, at, n) ==
    f = [i \in 0 .. n |-> IF i = 0 THEN <<>>
                          ELSE IF i \in at THEN Append(f[i - 1], s[i]) ELSE f[i - 1]]

LEMMA PicksExist ==
    ASSUME NEW s, NEW at, NEW l \in Nat
    PROVE  \E f : PicksUpTo(f, s, at, l)
<1> DEFINE Bad == {n \in Nat : ~ \E f : PicksUpTo(f, s, at, n)}
<1> SUFFICES ASSUME Bad # {} PROVE FALSE
  OBVIOUS
<1>1. PICK n \in Bad : \A k \in Bad : n <= k
  <2> HIDE DEF Bad
  <2>1. Bad \in SUBSET Nat
    BY DEF Bad
  <2> QED BY <2>1, LeastNatural
<1>2. n \in Nat /\ ~ \E f : PicksUpTo(f, s, at, n)
  OBVIOUS
<1>3. CASE n = 0
  <2> DEFINE f == [i \in 0 .. 0 |-> <<>>]
  <2>1. PicksUpTo(f, s, at, 0)
    BY DEF PicksUpTo
  <2> QED BY <1>2, <1>3, <2>1
<1>4. CASE n > 0
  <2>1. n - 1 \in Nat /\ n - 1 \notin Bad
    BY <1>1, <1>2, <1>4
  <2>2. PICK f : PicksUpTo(f, s, at, n - 1)
    BY <2>1
  <2> DEFINE g == [i \in 0 .. n |-> IF i = n THEN IF n \in at THEN Append(f[n - 1], s[n]) ELSE f[n - 1]
                                    ELSE f[i]]
  <2>3. ASSUME NEW i \in 0 .. n
        PROVE  g[i] = IF i = 0 THEN <<>> ELSE IF i \in at THEN Append(g[i - 1], s[i]) ELSE g[i - 1]
    <3>1. CASE i = n
      <4>1. g[n - 1] = f[n - 1]
        BY <1>2, <1>4
      <4> QED BY <1>2, <1>4, <3>1, <4>1
    <3>2. CASE i # n
      <4>1. i \in 0 .. n - 1 /\ (i # 0 => i - 1 \in 0 .. n - 1 /\ i - 1 \in 0 .. n /\ i - 1 # n)
        BY <1>2, <3>2
      <4>2. f[i] = IF i = 0 THEN <<>> ELSE IF i \in at THEN Append(f[i - 1], s[i]) ELSE f[i - 1]
        BY <2>2, <4>1 DEF PicksUpTo
      <4>3. g[i] = f[i] /\ (i # 0 => g[i - 1] = f[i - 1])
        BY <3>2, <4>1
      <4> HIDE DEF g
      <4> QED BY <4>2, <4>3
    <3> QED BY <3>1, <3>2
  <2>4. PicksUpTo(g, s, at, n)
    <3>1. g = [i \in 0 .. n |-> g[i]]
      OBVIOUS
    <3> HIDE DEF g
    <3> QED BY <2>3, <3>1 DEF PicksUpTo
  <2> QED BY <1>2, <2>4
<1> QED BY <1>2, <1>3, <1>4

\* f picks step by step.
Picking(f, s, at, T) ==
    /\ Picked(s, at) = f[Len(s)] /\ f[0] = <<>>
    /\ \A i \in 0 .. Len(s) : f[i] \in Seq(T)
    /\ \A i \in 1 .. Len(s) : f[i] = IF i \in at THEN Append(f[i - 1], s[i]) ELSE f[i - 1]

\* What is picked, step by step.
LEMMA PickedFrom ==
    ASSUME NEW T, NEW s \in Seq(T), NEW at
    PROVE  \E f : Picking(f, s, at, T)
<1> DEFINE l == Len(s)
           Is(f) == f = [i \in 0 .. l |-> IF i = 0 THEN <<>>
                                          ELSE IF i \in at THEN Append(f[i - 1], s[i]) ELSE f[i - 1]]
           f == CHOOSE f : Is(f)
<1>1. l \in Nat
  OBVIOUS
<1>2. Picked(s, at) = f[l]
  BY DEF Picked
<1>3. PicksUpTo(f, s, at, l)
  <2>1. PICK g : PicksUpTo(g, s, at, l)
    BY <1>1, PicksExist
  <2>2. Is(g)
    BY <2>1 DEF PicksUpTo
  <2>3. Is(f)
    <3> HIDE DEF Is
    <3> QED BY <2>2
  <2> QED BY <2>3 DEF PicksUpTo
<1> HIDE DEF f
<1>4. /\ f[0] = <<>>
      /\ \A i \in 1 .. l : f[i] = IF i \in at THEN Append(f[i - 1], s[i]) ELSE f[i - 1]
  <2>1. f[0] = <<>>
    BY <1>1, <1>3 DEF PicksUpTo
  <2>2. ASSUME NEW i \in 1 .. l
        PROVE  f[i] = IF i \in at THEN Append(f[i - 1], s[i]) ELSE f[i - 1]
    <3>1. i \in 0 .. l /\ i # 0
      BY <1>1
    <3> HIDE DEF l
    <3> QED BY <1>3, <3>1 DEF PicksUpTo
  <2> QED BY <2>1, <2>2
<1>5. \A i \in 0 .. Len(s) : f[i] \in Seq(T)
  <2> DEFINE Bad == {i \in 0 .. Len(s) : f[i] \notin Seq(T)}
  <2> SUFFICES ASSUME Bad # {} PROVE FALSE
    OBVIOUS
  <2>1. PICK n \in Bad : \A k \in Bad : n <= k
    <3>1. Bad \in SUBSET Nat
      BY <1>1
    <3> HIDE DEF Bad
    <3> QED BY <3>1, LeastNatural
  <2>2. n # 0
    <3>1. f[0] \in Seq(T)
      BY <1>4
    <3> QED BY <3>1
  <2>3. n \in 1 .. l /\ n - 1 \in 0 .. l /\ n - 1 \notin Bad
    BY <1>1, <2>1, <2>2
  <2>4. f[n - 1] \in Seq(T) /\ s[n] \in T
    BY <2>3
  <2>5. f[n] = IF n \in at THEN Append(f[n - 1], s[n]) ELSE f[n - 1]
    BY <1>4, <2>3
  <2>6. f[n] \in Seq(T)
    BY <2>4, <2>5
  <2> QED BY <2>6
<1>6. Picking(f, s, at, T)
  BY <1>2, <1>4, <1>5 DEF Picking
<1> QED BY <1>6

\* Question and answer, side by side from the beginning on.
Couple(a, b) == a.turn = b.turn /\ a.role = "user" /\ b.role = "assistant" /\ a.by = b.by

Couples(s) ==
    /\ \E n \in Nat : Len(s) = 2 * n
    /\ \A k \in Nat \ {0} : 2 * k <= Len(s) => Couple(s[2 * k - 1], s[2 * k])

\* What is picked comes from the positions.
LEMMA PickedIsThere ==
    ASSUME NEW T, NEW s \in Seq(T), NEW at
    PROVE  /\ Picked(s, at) \in Seq(T)
           /\ \A j \in DOMAIN Picked(s, at) : \E i \in at : i \in DOMAIN s /\ Picked(s, at)[j] = s[i]
<1>0. PICK f : Picking(f, s, at, T)
  BY PickedFrom
<1>1. /\ Picked(s, at) = f[Len(s)] /\ f[0] = <<>>
      /\ \A i \in 0 .. Len(s) : f[i] \in Seq(T)
      /\ \A i \in 1 .. Len(s) : f[i] = IF i \in at THEN Append(f[i - 1], s[i]) ELSE f[i - 1]
  BY <1>0 DEF Picking
<1> DEFINE Comes(r) == \A j \in DOMAIN r : \E i \in at : i \in DOMAIN s /\ r[j] = s[i]
           Bad == {i \in 0 .. Len(s) : ~ Comes(f[i])}
<1>2. Len(s) \in Nat /\ DOMAIN s = 1 .. Len(s)
  OBVIOUS
<1>3. Bad = {}
  <2> SUFFICES ASSUME Bad # {} PROVE FALSE
    OBVIOUS
  <2>1. PICK n \in Bad : \A k \in Bad : n <= k
    <3>1. Bad \in SUBSET Nat
      BY <1>2
    <3> HIDE DEF Bad
    <3> QED BY <3>1, LeastNatural
  <2>2. n # 0
    BY <1>1
  <2>3. n \in 1 .. Len(s) /\ n - 1 \in 0 .. Len(s) /\ n - 1 \notin Bad
    BY <1>2, <2>1, <2>2
  <2>4. f[n - 1] \in Seq(T) /\ Comes(f[n - 1]) /\ s[n] \in T
    BY <1>1, <2>3
  <2>5. Comes(f[n])
    <3>1. CASE n \in at
      <4>1. f[n] = Append(f[n - 1], s[n])
        BY <1>1, <2>3, <3>1
      <4> SUFFICES ASSUME NEW j \in DOMAIN f[n] PROVE \E i \in at : i \in DOMAIN s /\ f[n][j] = s[i]
        OBVIOUS
      <4>2. j \in DOMAIN f[n - 1] \/ j = Len(f[n - 1]) + 1
        BY <2>4, <4>1
      <4>3. CASE j \in DOMAIN f[n - 1]
        BY <2>4, <4>1, <4>3
      <4>4. CASE j = Len(f[n - 1]) + 1
        <5>1. f[n][j] = s[n]
          BY <2>4, <4>1, <4>4
        <5> QED BY <1>2, <2>3, <3>1, <5>1
      <4> QED BY <4>2, <4>3, <4>4
    <3>2. CASE n \notin at
      BY <1>1, <2>3, <2>4, <3>2
    <3> QED BY <3>1, <3>2
  <2> QED BY <2>5
<1>4. Comes(f[Len(s)])
  BY <1>2, <1>3
<1> QED BY <1>1, <1>2, <1>4

LEMMA CouplesGrow ==
    ASSUME NEW T, NEW r \in Seq(T), Couples(r), NEW a \in T, NEW b \in T, Couple(a, b)
    PROVE  Couples(Append(Append(r, a), b))
<1> DEFINE t == Append(Append(r, a), b)
<1>1. PICK n \in Nat : Len(r) = 2 * n
  BY DEF Couples
<1>2. /\ Len(t) = 2 * (n + 1)
      /\ \A i \in 1 .. 2 * n : t[i] = r[i]
      /\ t[2 * n + 1] = a /\ t[2 * n + 2] = b
  BY <1>1
<1> HIDE DEF t
<1>3. ASSUME NEW k \in Nat \ {0}, 2 * k <= Len(t) PROVE Couple(t[2 * k - 1], t[2 * k])
  <2>1. k <= n \/ k = n + 1
    BY <1>2, <1>3
  <2>2. CASE k <= n
    <3>1. 2 * k - 1 \in 1 .. 2 * n /\ 2 * k \in 1 .. 2 * n /\ 2 * k <= Len(r)
      BY <1>1, <2>2
    <3>2. t[2 * k - 1] = r[2 * k - 1] /\ t[2 * k] = r[2 * k]
      BY <1>2, <3>1
    <3>3. Couple(r[2 * k - 1], r[2 * k])
      BY <3>1 DEF Couples
    <3> QED BY <3>2, <3>3
  <2>3. CASE k = n + 1
    <3>1. 2 * k - 1 = 2 * n + 1 /\ 2 * k = 2 * n + 2
      BY <2>3
    <3> QED BY <1>2, <3>1
  <2> QED BY <2>1, <2>2, <2>3
<1>4. Couples(t)
  <2>1. n + 1 \in Nat
    BY <1>1
  <2> QED BY <1>2, <1>3, <2>1 DEF Couples
<1> QED BY <1>4 DEF t

\* Where both of a pair are picked, or neither, what is picked is pairs.
LEMMA PickedCouples ==
    ASSUME NEW T, NEW s \in Seq(T), Couples(s), NEW at,
           \A k \in Nat \ {0} : 2 * k <= Len(s) => (2 * k - 1 \in at <=> 2 * k \in at)
    PROVE  Couples(Picked(s, at))
<1>0. PICK f : Picking(f, s, at, T)
  BY PickedFrom
<1>1. /\ Picked(s, at) = f[Len(s)] /\ f[0] = <<>>
      /\ \A i \in 0 .. Len(s) : f[i] \in Seq(T)
      /\ \A i \in 1 .. Len(s) : f[i] = IF i \in at THEN Append(f[i - 1], s[i]) ELSE f[i - 1]
  BY <1>0 DEF Picking
<1>2. PICK m \in Nat : Len(s) = 2 * m
  BY DEF Couples
<1> DEFINE Bad == {k \in 0 .. m : ~ Couples(f[2 * k])}
<1>3. Bad = {}
  <2> SUFFICES ASSUME Bad # {} PROVE FALSE
    OBVIOUS
  <2>1. PICK k \in Bad : \A j \in Bad : k <= j
    <3>1. Bad \in SUBSET Nat
      BY <1>2
    <3> HIDE DEF Bad
    <3> QED BY <3>1, LeastNatural
  <2>2. k # 0
    <3>1. Couples(<<>>)
      <4>1. Len(<<>>) = 2 * 0
        OBVIOUS
      <4> QED BY <4>1 DEF Couples
    <3>2. ASSUME k = 0 PROVE f[2 * k] = <<>>
      <4>1. 2 * k = 0
        BY <3>2
      <4> QED BY <1>1, <4>1
    <3> QED BY <3>1, <3>2
  <2>3. k \in 1 .. m /\ k - 1 \in 0 .. m /\ k - 1 \notin Bad
    <3>1. k \in 0 .. m
      OBVIOUS
    <3> HIDE DEF Bad
    <3>2. k - 1 \notin Bad
      BY <2>1, <3>1
    <3> QED BY <2>2, <3>1, <3>2
  <2>4. 2 * (k - 1) = 2 * k - 2 /\ 2 * k \in 1 .. Len(s) /\ 2 * k - 1 \in 1 .. Len(s) /\ 2 * k - 2 \in 0 .. Len(s)
    BY <1>2, <2>3
  <2>5. Couples(f[2 * k - 2]) /\ f[2 * k - 2] \in Seq(T)
    BY <1>1, <2>3, <2>4
  <2>6. Couple(s[2 * k - 1], s[2 * k]) /\ (2 * k - 1 \in at <=> 2 * k \in at) /\ k \in Nat \ {0} /\ 2 * k <= Len(s)
    BY <1>2, <2>3, <2>4 DEF Couples
  <2>7. s[2 * k - 1] \in T /\ s[2 * k] \in T
    BY <2>4
  <2>8. /\ f[2 * k] = IF 2 * k \in at THEN Append(f[2 * k - 1], s[2 * k]) ELSE f[2 * k - 1]
        /\ f[2 * k - 1] = IF 2 * k - 1 \in at THEN Append(f[2 * k - 2], s[2 * k - 1]) ELSE f[2 * k - 2]
    <3>1. (2 * k - 1) - 1 = 2 * k - 2
      BY <2>3
    <3> QED BY <1>1, <2>4, <3>1
  <2>9. Couples(f[2 * k])
    <3>1. CASE 2 * k \in at
      <4>1. f[2 * k] = Append(Append(f[2 * k - 2], s[2 * k - 1]), s[2 * k])
        BY <2>6, <2>8, <3>1
      <4> QED BY <2>5, <2>6, <2>7, <4>1, CouplesGrow
    <3>2. CASE 2 * k \notin at
      BY <2>5, <2>6, <2>8, <3>2
    <3> QED BY <3>1, <3>2
  <2> QED BY <2>9
<1>4. Couples(f[2 * m])
  <2>1. m \in 0 .. m /\ m \notin Bad
    <3> HIDE DEF Bad
    <3> QED BY <1>2, <1>3
  <2> QED BY <2>1
<1> QED BY <1>1, <1>2, <1>4

\* Every answer has its question before it, every question its answer behind it, or has none.
FitToShow(r, said) ==
    \A i \in DOMAIN r :
       /\ r[i].role = "assistant" => i > 1 /\ Couple(r[i - 1], r[i])
       /\ r[i].role = "user" => \/ i < Len(r) /\ Couple(r[i], r[i + 1])
                                \/ said[r[i].turn][r[i].by] = 0

LEMMA ShownGrows ==
    ASSUME NEW r \in Seq(Message), FitToShow(r, spoken), NEW a \in Message, NEW b \in Message, Couple(a, b)
    PROVE  /\ FitToShow(Append(Append(r, a), b), spoken)
           /\ spoken[a.turn][a.by] = 0 => FitToShow(Append(r, a), spoken)
<1>1. a.role = "user" /\ b.role = "assistant" /\ Len(r) \in Nat
  BY DEF Couple
<1>2. FitToShow(Append(Append(r, a), b), spoken)
  <2> DEFINE t == Append(Append(r, a), b)
             n == Len(r)
  <2>1. /\ Len(t) = n + 2 /\ DOMAIN t = 1 .. n + 2
        /\ \A i \in 1 .. n : t[i] = r[i]
        /\ t[n + 1] = a /\ t[n + 2] = b
    OBVIOUS
  <2>2. DOMAIN r = 1 .. n
    OBVIOUS
  <2> HIDE DEF t, n
  <2> SUFFICES ASSUME NEW i \in 1 .. n + 2
               PROVE  /\ t[i].role = "assistant" => i > 1 /\ Couple(t[i - 1], t[i])
                      /\ t[i].role = "user" => \/ i < Len(t) /\ Couple(t[i], t[i + 1])
                                               \/ spoken[t[i].turn][t[i].by] = 0
    BY <2>1 DEF FitToShow, t
  <2>3. n \in Nat
    BY <1>1 DEF n
  <2>4. CASE i \in 1 .. n
    <3>1. /\ r[i].role = "assistant" => i > 1 /\ Couple(r[i - 1], r[i])
          /\ r[i].role = "user" => \/ i < n /\ Couple(r[i], r[i + 1])
                                   \/ spoken[r[i].turn][r[i].by] = 0
      BY <2>2, <2>4 DEF FitToShow, n
    <3>2. t[i] = r[i] /\ (i > 1 => t[i - 1] = r[i - 1]) /\ (i < n => t[i + 1] = r[i + 1])
      BY <2>1, <2>3, <2>4
    <3> QED BY <2>1, <2>3, <2>4, <3>1, <3>2
  <2>5. CASE i = n + 1
    <3>1. t[i] = a /\ t[i + 1] = b
      BY <2>1, <2>3, <2>5
    <3> QED BY <1>1, <2>1, <2>3, <2>5, <3>1
  <2>6. CASE i = n + 2
    <3>1. t[i] = b /\ t[i - 1] = a
      BY <2>1, <2>3, <2>6
    <3> QED BY <1>1, <2>1, <2>3, <2>6, <3>1
  <2> QED BY <2>3, <2>4, <2>5, <2>6
<1>3. ASSUME spoken[a.turn][a.by] = 0 PROVE FitToShow(Append(r, a), spoken)
  <2> DEFINE t == Append(r, a)
             n == Len(r)
  <2>1. /\ Len(t) = n + 1 /\ DOMAIN t = 1 .. n + 1
        /\ \A i \in 1 .. n : t[i] = r[i]
        /\ t[n + 1] = a
    OBVIOUS
  <2>2. DOMAIN r = 1 .. n
    OBVIOUS
  <2> HIDE DEF t, n
  <2> SUFFICES ASSUME NEW i \in 1 .. n + 1
               PROVE  /\ t[i].role = "assistant" => i > 1 /\ Couple(t[i - 1], t[i])
                      /\ t[i].role = "user" => \/ i < Len(t) /\ Couple(t[i], t[i + 1])
                                               \/ spoken[t[i].turn][t[i].by] = 0
    BY <2>1 DEF FitToShow, t
  <2>3. n \in Nat
    BY <1>1 DEF n
  <2>4. CASE i \in 1 .. n
    <3>1. /\ r[i].role = "assistant" => i > 1 /\ Couple(r[i - 1], r[i])
          /\ r[i].role = "user" => \/ i < n /\ Couple(r[i], r[i + 1])
                                   \/ spoken[r[i].turn][r[i].by] = 0
      BY <2>2, <2>4 DEF FitToShow, n
    <3>2. t[i] = r[i] /\ (i > 1 => t[i - 1] = r[i - 1]) /\ (i < n => t[i + 1] = r[i + 1])
      BY <2>1, <2>3, <2>4
    <3> QED BY <2>1, <2>3, <2>4, <3>1, <3>2
  <2>5. CASE i = n + 1
    BY <1>1, <1>3, <2>1, <2>5
  <2> QED BY <2>3, <2>4, <2>5
<1> QED BY <1>2, <1>3

\* What a prompt makes of pairs.
LEMMA RenderedFits ==
    ASSUME NEW s \in Seq(Message), Couples(s),
           \A i \in DOMAIN s : s[i].role = "assistant" => s[i].pieces = spoken[s[i].turn][s[i].by]
    PROVE  FitToShow(Rendered(s), spoken)
<1> DEFINE at == WithContent(s)
<1> HIDE DEF at
<1>0. PICK f : Picking(f, s, at, Message)
  BY PickedFrom
<1>1. /\ Picked(s, at) = f[Len(s)] /\ f[0] = <<>>
      /\ \A i \in 0 .. Len(s) : f[i] \in Seq(Message)
      /\ \A i \in 1 .. Len(s) : f[i] = IF i \in at THEN Append(f[i - 1], s[i]) ELSE f[i - 1]
  BY <1>0 DEF Picking
<1>2. PICK m \in Nat : Len(s) = 2 * m
  BY DEF Couples
<1> DEFINE Bad == {k \in 0 .. m : ~ FitToShow(f[2 * k], spoken)}
<1>3. Bad = {}
  <2> SUFFICES ASSUME Bad # {} PROVE FALSE
    OBVIOUS
  <2>1. PICK k \in Bad : \A j \in Bad : k <= j
    <3>1. Bad \in SUBSET Nat
      BY <1>2
    <3> HIDE DEF Bad
    <3> QED BY <3>1, LeastNatural
  <2>2. k # 0
    <3>1. FitToShow(<<>>, spoken)
      BY DEF FitToShow
    <3>2. ASSUME k = 0 PROVE f[2 * k] = <<>>
      <4>1. 2 * k = 0
        BY <3>2
      <4> QED BY <1>1, <4>1
    <3> QED BY <3>1, <3>2
  <2>3. k \in 1 .. m /\ k - 1 \in 0 .. m /\ k - 1 \notin Bad
    <3>1. k \in 0 .. m
      OBVIOUS
    <3> HIDE DEF Bad
    <3>2. k - 1 \notin Bad
      BY <2>1, <3>1
    <3> QED BY <2>2, <3>1, <3>2
  <2>4. 2 * (k - 1) = 2 * k - 2 /\ 2 * k \in 1 .. Len(s) /\ 2 * k - 1 \in 1 .. Len(s) /\ 2 * k - 2 \in 0 .. Len(s)
    BY <1>2, <2>3
  <2>5. FitToShow(f[2 * k - 2], spoken) /\ f[2 * k - 2] \in Seq(Message)
    BY <1>1, <2>3, <2>4
  <2>6. Couple(s[2 * k - 1], s[2 * k])
    BY <1>2, <2>3, <2>4 DEF Couples
  <2>7. s[2 * k - 1] \in Message /\ s[2 * k] \in Message
    BY <2>4
  <2>8. /\ f[2 * k] = IF 2 * k \in at THEN Append(f[2 * k - 1], s[2 * k]) ELSE f[2 * k - 1]
        /\ f[2 * k - 1] = IF 2 * k - 1 \in at THEN Append(f[2 * k - 2], s[2 * k - 1]) ELSE f[2 * k - 2]
    <3>1. (2 * k - 1) - 1 = 2 * k - 2
      BY <2>3
    <3> QED BY <1>1, <2>4, <3>1
  <2>9. 2 * k - 1 \in at
    BY <2>4, <2>6 DEF at, WithContent, Couple
  <2>10. 2 * k \notin at => spoken[s[2 * k - 1].turn][s[2 * k - 1].by] = 0
    <3>1. 2 * k \in DOMAIN s /\ s[2 * k].role = "assistant" /\ s[2 * k].pieces \in Nat
      BY <2>4, <2>6, <2>7 DEF Couple, Message
    <3>2. 2 * k \notin at => s[2 * k].pieces = 0
      BY <3>1 DEF at, WithContent
    <3> QED BY <2>6, <3>1, <3>2 DEF Couple
  <2>11. FitToShow(f[2 * k], spoken)
    <3>1. CASE 2 * k \in at
      <4>1. f[2 * k] = Append(Append(f[2 * k - 2], s[2 * k - 1]), s[2 * k])
        BY <2>8, <2>9, <3>1
      <4> QED BY <2>5, <2>6, <2>7, <4>1, ShownGrows
    <3>2. CASE 2 * k \notin at
      <4>1. f[2 * k] = Append(f[2 * k - 2], s[2 * k - 1])
        BY <2>8, <2>9, <3>2
      <4> QED BY <2>5, <2>6, <2>7, <2>10, <3>2, <4>1, ShownGrows
    <3> QED BY <3>1, <3>2
  <2> QED BY <2>11
<1>4. FitToShow(f[2 * m], spoken)
  <2>1. m \in 0 .. m /\ m \notin Bad
    <3> HIDE DEF Bad
    <3> QED BY <1>2, <1>3
  <2> QED BY <2>1
<1> QED BY <1>1, <1>2, <1>4 DEF Rendered, at

\* The last n of a sequence.
LEMMA LastOnes ==
    ASSUME NEW T, NEW s \in Seq(T), NEW n \in Nat
    PROVE  LET d == IF Len(s) > n THEN Len(s) - n ELSE 0
           IN  /\ Last(s, n) \in Seq(T) /\ Len(Last(s, n)) = Len(s) - d
               /\ DOMAIN Last(s, n) = 1 .. Len(s) - d /\ d \in 0 .. Len(s)
               /\ \A i \in 1 .. Len(s) - d : Last(s, n)[i] = s[i + d]
<1> DEFINE d == IF Len(s) > n THEN Len(s) - n ELSE 0
<1>1. d \in Nat /\ d <= Len(s) /\ Len(s) \in Nat
  OBVIOUS
<1>2. Last(s, n) = SubSeq(s, d + 1, Len(s))
  BY DEF Last
<1> HIDE DEF d
<1>3. /\ SubSeq(s, d + 1, Len(s)) \in Seq(T)
      /\ Len(SubSeq(s, d + 1, Len(s))) = Len(s) - d
      /\ \A i \in 1 .. Len(s) - d : SubSeq(s, d + 1, Len(s))[i] = s[i + d]
  BY <1>1
<1>4. DOMAIN SubSeq(s, d + 1, Len(s)) = 1 .. Len(s) - d
  BY <1>3
<1>5. /\ Last(s, n) \in Seq(T) /\ Len(Last(s, n)) = Len(s) - d
      /\ DOMAIN Last(s, n) = 1 .. Len(s) - d /\ d \in 0 .. Len(s)
      /\ \A i \in 1 .. Len(s) - d : Last(s, n)[i] = s[i + d]
  <2>1. d \in 0 .. Len(s)
    BY <1>1
  <2> QED BY <1>2, <1>3, <1>4, <2>1
<1> QED BY <1>5 DEF d

LEMMA LastOfLast ==
    ASSUME NEW n \in Nat, NEW m \in Nat, NEW R \in Nat, NEW W \in Nat, W <= R,
           m = n - (IF n > R THEN n - R ELSE 0)
    PROVE  /\ (IF n > R THEN n - R ELSE 0) + (IF m > W THEN m - W ELSE 0) = (IF n > W THEN n - W ELSE 0)
           /\ (IF n > W THEN n - W ELSE 0) \in 0 .. n
OBVIOUS

\* The window of the prompt holds whole pairs, whatever number of rows is loaded.
LEMMA WindowOfCouples ==
    ASSUME AnswersAssumption, NEW s \in Seq(Message), Couples(s)
    PROVE  LET w == Last(Last(s, HistoryRows), HistoryWindow)
           IN  /\ w \in Seq(Message) /\ Couples(w)
               /\ \A j \in DOMAIN w : \E i \in DOMAIN s : w[j] = s[i]
<1> DEFINE l == Last(s, HistoryRows)
           w == Last(l, HistoryWindow)
           R == HistoryRows
           W == HistoryWindow
           d == IF Len(s) > R THEN Len(s) - R ELSE 0
           e == IF Len(l) > W THEN Len(l) - W ELSE 0
<1>1. R \in Nat /\ W \in Nat /\ W <= R /\ (W % 2) = 0 /\ Len(s) \in Nat
  BY DEF AnswersAssumption
<1>2. /\ l \in Seq(Message) /\ Len(l) = Len(s) - d /\ d \in 0 .. Len(s)
      /\ \A i \in 1 .. Len(s) - d : l[i] = s[i + d]
  BY <1>1, LastOnes
<1> HIDE DEF l
<1>3. /\ w \in Seq(Message) /\ Len(w) = Len(l) - e /\ e \in 0 .. Len(l)
      /\ \A i \in 1 .. Len(l) - e : w[i] = l[i + e]
      /\ DOMAIN w = 1 .. Len(l) - e
  BY <1>1, <1>2, LastOnes
<1> DEFINE g == IF Len(s) > W THEN Len(s) - W ELSE 0
<1>4. d + e = g /\ g \in 0 .. Len(s) /\ Len(w) = Len(s) - g
  <2>1. d + e = g /\ g \in 0 .. Len(s)
    <3>1. Len(l) \in Nat
      BY <1>2
    <3> QED BY <1>1, <1>2, <3>1, LastOfLast
  <2>2. d \in Int /\ e \in Int /\ Len(l) = Len(s) - d /\ Len(w) = Len(l) - e
    BY <1>2, <1>3
  <2> HIDE DEF d, e, g, w
  <2> QED BY <1>1, <2>1, <2>2
<1>5. PICK m \in Nat : Len(s) = 2 * m
  BY DEF Couples
<1>6. PICK h \in Nat : g = 2 * h /\ h <= m
  <2>1. W = 2 * (W \div 2) /\ (W \div 2) \in Int
    <3> HIDE DEF W
    <3>1. W \in Int /\ 2 \in Nat \ {0}
      BY <1>1
    <3>2. (W \div 2) \in Int /\ W = (2 * (W \div 2)) + (W % 2)
      BY <3>1, ModParts
    <3> QED BY <1>1, <3>2
  <2>2. CASE Len(s) > W
    <3> DEFINE h == m - (W \div 2)
    <3>1. g = 2 * h /\ h \in Nat /\ h <= m
      <4> DEFINE v == W \div 2
      <4>1. W = 2 * v /\ v \in Int
        BY <2>1
      <4> HIDE DEF v, W
      <4> SUFFICES g = 2 * (m - v) /\ m - v \in Nat /\ m - v <= m
        BY DEF v
      <4>2. g = Len(s) - W
        BY <2>2
      <4>3. g = 2 * m - 2 * v /\ 2 * m > 2 * v /\ 2 * v >= 0
        <5>1. Len(s) > W
          BY <2>2
        <5> HIDE DEF g
        <5>2. W \in Nat
          BY <1>1
        <5> DEFINE x == Len(s)
        <5>3. x = 2 * m /\ g = x - W /\ x > W
          BY <1>5, <4>2, <5>1
        <5> HIDE DEF x
        <5> QED BY <4>1, <5>2, <5>3
      <4> HIDE DEF g
      <4> QED BY <4>1, <4>3
    <3> QED BY <3>1
  <2>3. CASE ~ (Len(s) > W)
    BY <2>3
  <2> QED BY <2>2, <2>3
<1> HIDE DEF w, d, e, g, W, R
<1>7. \A i \in 1 .. Len(s) - g : w[i] = s[i + g]
  <2> SUFFICES ASSUME NEW i \in 1 .. Len(s) - g PROVE w[i] = s[i + g]
    OBVIOUS
  <2>1. i \in 1 .. Len(l) - e /\ i + e \in 1 .. Len(s) - d /\ (i + e) + d = i + g
    BY <1>1, <1>2, <1>3, <1>4
  <2> QED BY <1>2, <1>3, <2>1
<1>8. Couples(w)
  <2>1. Len(w) = 2 * (m - h) /\ m - h \in Nat
    BY <1>4, <1>5, <1>6
  <2>2. ASSUME NEW k \in Nat \ {0}, 2 * k <= Len(w) PROVE Couple(w[2 * k - 1], w[2 * k])
    <3>1. 2 * k - 1 \in 1 .. Len(s) - g /\ 2 * k \in 1 .. Len(s) - g
      BY <1>4, <1>5, <1>6, <2>1, <2>2
    <3>2. w[2 * k - 1] = s[2 * (k + h) - 1] /\ w[2 * k] = s[2 * (k + h)]
      <4>1. (2 * k - 1) + g = 2 * (k + h) - 1 /\ (2 * k) + g = 2 * (k + h)
        BY <1>6
      <4> QED BY <1>7, <3>1, <4>1
    <3>3. k + h \in Nat \ {0} /\ 2 * (k + h) <= Len(s)
      BY <1>4, <1>5, <1>6, <2>1, <2>2
    <3> QED BY <3>2, <3>3 DEF Couples
  <2> QED BY <2>1, <2>2 DEF Couples
<1>9. \A j \in DOMAIN w : \E i \in DOMAIN s : w[j] = s[i]
  <2> SUFFICES ASSUME NEW j \in DOMAIN w PROVE \E i \in DOMAIN s : w[j] = s[i]
    OBVIOUS
  <2>1. j \in 1 .. Len(s) - g
    BY <1>3, <1>4
  <2>2. w[j] = s[j + g] /\ j + g \in 1 .. Len(s) /\ DOMAIN s = 1 .. Len(s)
    BY <1>1, <1>4, <1>7, <2>1
  <2> QED BY <2>2
<1> QED BY <1>3, <1>8, <1>9 DEF w, W, R, l

-----------------------------------------------------------------------------

\* The conversation is pairs, whatever of them is visible.
LEMMA CommittedCouples ==
    ASSUME NEW s \in Seq(Message), Couples(s)
    PROVE  /\ Picked(s, Committed(s)) \in Seq(Message) /\ Couples(Picked(s, Committed(s)))
           /\ \A j \in DOMAIN Picked(s, Committed(s)) :
                 \E i \in DOMAIN s : s[i].turn \in visible /\ Picked(s, Committed(s))[j] = s[i]
<1> DEFINE at == Committed(s)
<1>1. \A k \in Nat \ {0} : 2 * k <= Len(s) => (2 * k - 1 \in at <=> 2 * k \in at)
  <2> SUFFICES ASSUME NEW k \in Nat \ {0}, 2 * k <= Len(s) PROVE 2 * k - 1 \in at <=> 2 * k \in at
    OBVIOUS
  <2>1. 2 * k - 1 \in DOMAIN s /\ 2 * k \in DOMAIN s
    OBVIOUS
  <2>2. s[2 * k - 1].turn = s[2 * k].turn
    BY DEF Couples, Couple
  <2> QED BY <2>1, <2>2 DEF Committed
<1>2. at \subseteq DOMAIN s /\ \A i \in at : s[i].turn \in visible
  BY DEF Committed
<1> HIDE DEF at
<1>3. Picked(s, at) \in Seq(Message) /\ Couples(Picked(s, at))
  BY <1>1, PickedCouples, PickedIsThere
<1>4. \A j \in DOMAIN Picked(s, at) : \E i \in at : i \in DOMAIN s /\ Picked(s, at)[j] = s[i]
  BY PickedIsThere
<1> QED BY <1>2, <1>3, <1>4 DEF at

\* A turn whose messages are stored has passed this point.
Stored(q) == turn[q].pc = "made" \/ turn[q].end = "done"

AnswersInv ==
    /\ AnswersTypeOK
    /\ Couples(messages)
    /\ \A i \in DOMAIN messages :
          LET m == messages[i]
          IN  /\ Stored(m.turn)
              /\ m.role = "assistant" =>
                    /\ m.pieces = spoken[m.turn][m.by]
                    /\ m.pieces > 0 => turn[m.turn].shown = [by |-> m.by, pieces |-> m.pieces, error |-> FALSE]
    /\ \A q \in Turns :
          LET t == turn[q]
          IN  /\ t.end # "none" <=> t.pc = "over"
              /\ q \in visible => t.end = "done"
              /\ t.pc \in {"closing", "answered"} =>
                    /\ ~ t.last.error /\ spoken[q][t.last.by] = t.last.pieces
                    /\ t.last.pieces > 0 => t.shown = t.last
              /\ FitToShow(t.prompt, spoken)
              /\ \A i \in DOMAIN t.prompt :
                    t.prompt[i].turn # q /\ turn[t.prompt[i].turn].end = "done"

LEMMA RecordOf ==
    ASSUME NEW c \in Chunk
    PROVE  c = [by |-> c.by, pieces |-> c.pieces, error |-> c.error] /\ c.by \in Links
           /\ c.pieces \in Nat /\ c.error \in BOOLEAN
BY DEF Chunk

LEMMA AnswersInitially == AnswersAssumption /\ AnswersInit => AnswersInv
<1> SUFFICES ASSUME AnswersAssumption, AnswersInit PROVE AnswersInv
  OBVIOUS
<1>1. 1 \in Links
  BY DEF AnswersAssumption, Links
<1>2. NewTurn \in TurnState
  BY <1>1 DEF NewTurn, TurnState, NoChunk, Chunk
<1>3. AnswersTypeOK
  BY <1>2 DEF AnswersInit, AnswersTypeOK
<1>4. Couples(messages)
  <2>1. Len(messages) = 2 * 0
    BY DEF AnswersInit
  <2> QED BY <2>1 DEF Couples
<1>5. FitToShow(<<>>, spoken)
  BY DEF FitToShow
<1>6. \A i \in DOMAIN messages : FALSE
  BY DEF AnswersInit
<1>7. \A q \in Turns : turn[q] = NewTurn /\ q \notin visible
  BY DEF AnswersInit
<1> QED BY <1>3, <1>4, <1>5, <1>6, <1>7 DEF AnswersInv, NewTurn

\* A turn that stores nothing in this step, and has stored nothing before, disturbs nothing
\* but itself.
LEMMA OtherTurnsStay ==
    ASSUME AnswersInv, NEW q \in Turns, NEW t \in TurnState,
           turn' = [turn EXCEPT ![q] = t], ~ Stored(q), turn[q].end = "none",
           messages' = messages, visible' = visible,
           spoken' \in [Turns -> [Links -> Nat \union {Unsaid}]],
           \A p \in Turns \ {q} : spoken'[p] = spoken[p],
           t.pc # "made", t.end # "done", t.end # "none" <=> t.pc = "over",
           t.pc \in {"closing", "answered"} =>
              /\ ~ t.last.error /\ spoken'[q][t.last.by] = t.last.pieces
              /\ t.last.pieces > 0 => t.shown = t.last,
           FitToShow(t.prompt, spoken),
           \A i \in DOMAIN t.prompt : t.prompt[i].turn # q /\ turn[t.prompt[i].turn].end = "done"
    PROVE  AnswersInv'
<1>1. /\ turn \in [Turns -> TurnState] /\ messages \in Seq(Message) /\ visible \subseteq Turns
      /\ \A i \in DOMAIN messages : messages[i] \in Message
  BY DEF AnswersInv, AnswersTypeOK
<1>2. turn'[q] = t /\ \A p \in Turns \ {q} : turn'[p] = turn[p]
  BY <1>1
<1>3. AnswersTypeOK'
  BY <1>1 DEF AnswersTypeOK
<1>4. ASSUME NEW p \in Turns, FitToShow(turn'[p].prompt, spoken),
             \A i \in DOMAIN turn'[p].prompt : turn'[p].prompt[i].turn # q
      PROVE  FitToShow(turn'[p].prompt, spoken')
  <2>1. turn'[p] \in TurnState
    BY <1>3 DEF AnswersTypeOK
  <2> DEFINE r == turn'[p].prompt
  <2>2. r \in Seq(Message)
    BY <2>1 DEF TurnState
  <2>3. \A i \in DOMAIN r : r[i].turn \in Turns \ {q}
    <3>1. \A i \in DOMAIN r : r[i] \in Message
      BY <2>2
    <3> QED BY <1>4, <3>1 DEF Message
  <2>4. \A i \in DOMAIN r : spoken'[r[i].turn] = spoken[r[i].turn]
    BY <2>3
  <2>5. FitToShow(r, spoken)
    BY <1>4
  <2> HIDE DEF r
  <2>6. \A i \in DOMAIN r :
          /\ r[i].role = "assistant" => i > 1 /\ Couple(r[i - 1], r[i])
          /\ r[i].role = "user" => \/ i < Len(r) /\ Couple(r[i], r[i + 1])
                                   \/ spoken'[r[i].turn][r[i].by] = 0
    <3> SUFFICES ASSUME NEW i \in DOMAIN r
                 PROVE  /\ r[i].role = "assistant" => i > 1 /\ Couple(r[i - 1], r[i])
                        /\ r[i].role = "user" => \/ i < Len(r) /\ Couple(r[i], r[i + 1])
                                                 \/ spoken'[r[i].turn][r[i].by] = 0
      OBVIOUS
    <3>1. spoken'[r[i].turn][r[i].by] = spoken[r[i].turn][r[i].by]
      BY <2>4
    <3>2. /\ r[i].role = "assistant" => i > 1 /\ Couple(r[i - 1], r[i])
          /\ r[i].role = "user" => \/ i < Len(r) /\ Couple(r[i], r[i + 1])
                                   \/ spoken[r[i].turn][r[i].by] = 0
      BY <2>5 DEF FitToShow
    <3> QED BY <3>1, <3>2
  <2> QED BY <2>6 DEF FitToShow, r
<1>5. ASSUME NEW p \in Turns
      PROVE  /\ turn'[p].end # "none" <=> turn'[p].pc = "over"
             /\ p \in visible => turn'[p].end = "done"
             /\ turn'[p].pc \in {"closing", "answered"} =>
                   /\ ~ turn'[p].last.error /\ spoken'[p][turn'[p].last.by] = turn'[p].last.pieces
                   /\ turn'[p].last.pieces > 0 => turn'[p].shown = turn'[p].last
             /\ FitToShow(turn'[p].prompt, spoken')
             /\ \A i \in DOMAIN turn'[p].prompt :
                   turn'[p].prompt[i].turn # p /\ turn'[turn'[p].prompt[i].turn].end = "done"
  <2> DEFINE r == turn'[p].prompt
  <2>1. FitToShow(r, spoken) /\ \A i \in DOMAIN r : r[i].turn # p /\ turn[r[i].turn].end = "done" /\ r[i].turn \in Turns
    <3>1. turn'[p] \in TurnState
      BY <1>3 DEF AnswersTypeOK
    <3>2. \A i \in DOMAIN r : r[i].turn \in Turns
      <4>1. r \in Seq(Message)
        BY <3>1 DEF TurnState
      <4> HIDE DEF r
      <4>2. \A i \in DOMAIN r : r[i] \in Message
        BY <4>1
      <4> QED BY <4>2 DEF Message
    <3>3. CASE p = q
      BY <1>2, <3>2, <3>3
    <3>4. CASE p # q
      BY <1>2, <3>2, <3>4 DEF AnswersInv
    <3> QED BY <3>3, <3>4
  <2>2. \A i \in DOMAIN r : r[i].turn # q /\ turn'[r[i].turn].end = "done"
    BY <1>2, <2>1
  <2>3. FitToShow(r, spoken')
    BY <1>4, <2>1, <2>2
  <2>4. CASE p = q
    BY <1>2, <2>1, <2>2, <2>3, <2>4 DEF AnswersInv
  <2>5. CASE p # q
    BY <1>2, <2>1, <2>2, <2>3, <2>5 DEF AnswersInv
  <2> QED BY <2>4, <2>5
<1>6. ASSUME NEW i \in DOMAIN messages
      PROVE  /\ Stored(messages[i].turn)'
             /\ messages[i].role = "assistant" =>
                   /\ messages[i].pieces = spoken'[messages[i].turn][messages[i].by]
                   /\ messages[i].pieces > 0 => turn'[messages[i].turn].shown =
                          [by |-> messages[i].by, pieces |-> messages[i].pieces, error |-> FALSE]
  <2>1. messages[i].turn \in Turns /\ Stored(messages[i].turn)
    BY <1>1 DEF AnswersInv, Message
  <2>2. messages[i].turn \in Turns \ {q}
    BY <2>1
  <2>3. turn'[messages[i].turn] = turn[messages[i].turn] /\ spoken'[messages[i].turn] = spoken[messages[i].turn]
    BY <1>2, <2>2
  <2> QED BY <2>1, <2>3 DEF AnswersInv, Stored
<1>7. Couples(messages')
  <2>1. Couples(messages)
    BY DEF AnswersInv
  <2> QED BY <2>1
<1> QED BY <1>3, <1>5, <1>6, <1>7 DEF AnswersInv, Stored

\* What the invariant says of a turn.
LEMMA TurnIs ==
    ASSUME AnswersInv, NEW q \in Turns
    PROVE  /\ turn[q] \in TurnState /\ turn[q].last \in Chunk /\ turn[q].shown \in Chunk
           /\ turn[q].end # "none" <=> turn[q].pc = "over"
           /\ turn[q].pc \in {"closing", "answered"} =>
                 /\ ~ turn[q].last.error /\ spoken[q][turn[q].last.by] = turn[q].last.pieces
                 /\ turn[q].last.pieces > 0 => turn[q].shown = turn[q].last
           /\ FitToShow(turn[q].prompt, spoken)
           /\ \A i \in DOMAIN turn[q].prompt :
                 turn[q].prompt[i].turn # q /\ turn[turn[q].prompt[i].turn].end = "done"
BY DEF AnswersInv, AnswersTypeOK, TurnState

LEMMA BeginKeeps == ASSUME AnswersAssumption, AnswersInv, NEW q \in Turns, Begin(q) PROVE AnswersInv'
<1> DEFINE seen == Picked(messages, Committed(messages))
           window == Last(Last(seen, HistoryRows), HistoryWindow)
           r == Rendered(window)
           t == [turn[q] EXCEPT !.pc = "asking", !.prompt = r]
<1>1. messages \in Seq(Message) /\ Couples(messages) /\ turn \in [Turns -> TurnState]
  BY DEF AnswersInv, AnswersTypeOK
<1>2. /\ seen \in Seq(Message) /\ Couples(seen)
      /\ \A j \in DOMAIN seen : \E i \in DOMAIN messages : messages[i].turn \in visible /\ seen[j] = messages[i]
  BY <1>1, CommittedCouples
<1> HIDE DEF seen
<1>3. /\ window \in Seq(Message) /\ Couples(window)
      /\ \A j \in DOMAIN window : \E i \in DOMAIN seen : window[j] = seen[i]
  BY <1>2, WindowOfCouples
<1> HIDE DEF window
<1>4. \A j \in DOMAIN window : \E i \in DOMAIN messages : messages[i].turn \in visible /\ window[j] = messages[i]
  BY <1>2, <1>3
<1>5. ASSUME NEW j \in DOMAIN window, window[j].role = "assistant"
      PROVE  window[j].pieces = spoken[window[j].turn][window[j].by]
  <2>1. PICK i \in DOMAIN messages : window[j] = messages[i]
    BY <1>4
  <2>2. messages[i].role = "assistant" => messages[i].pieces = spoken[messages[i].turn][messages[i].by]
    BY DEF AnswersInv
  <2> QED BY <1>5, <2>1, <2>2
<1>6. FitToShow(r, spoken)
  BY <1>3, <1>5, RenderedFits
<1>7. /\ r \in Seq(Message)
      /\ \A j \in DOMAIN r : \E i \in DOMAIN window : r[j] = window[i]
  BY <1>3, PickedIsThere DEF Rendered
<1> HIDE DEF r
<1>8. \A j \in DOMAIN r : r[j].turn \in visible
  BY <1>4, <1>7
<1>9. turn[q].end = "none" /\ turn[q].pc = "new" /\ ~ Stored(q)
  BY TurnIs DEF Begin, Stored
<1>10. \A p \in visible : p \in Turns /\ turn[p].end = "done"
  BY DEF AnswersInv, AnswersTypeOK
<1>11. \A i \in DOMAIN r : r[i].turn # q /\ turn[r[i].turn].end = "done"
  BY <1>8, <1>9, <1>10
<1>12. t \in TurnState /\ t.pc = "asking" /\ t.end = "none" /\ t.prompt = r
  BY <1>1, <1>7, <1>9 DEF TurnState
<1>13. turn' = [turn EXCEPT ![q] = t]
  BY <1>1 DEF Begin, Replayed, r, window, seen
<1>14. messages' = messages /\ visible' = visible /\ spoken' = spoken
       /\ spoken' \in [Turns -> [Links -> Nat \union {Unsaid}]]
  BY DEF Begin, AnswersInv, AnswersTypeOK
<1> HIDE DEF t
<1> QED BY <1>6, <1>9, <1>11, <1>12, <1>13, <1>14, OtherTurnsStay

\* The steps of a turn that is being answered.
LEMMA AnswerKeeps ==
    ASSUME AnswersAssumption, AnswersInv, NEW q \in Turns,
           StreamLine(q) \/ (\E n \in 0 .. MaxPieces : Ends(q, n)) \/ Fails(q) \/ Deliver(q) \/ LeaveTurn(q)
    PROVE  AnswersInv'
<1>1. /\ turn \in [Turns -> TurnState] /\ turn[q] \in TurnState /\ turn[q].last \in Chunk
      /\ turn[q].end = "none" /\ ~ Stored(q) /\ turn[q].pc \in {"asking", "closing", "answered"}
      /\ spoken \in [Turns -> [Links -> Nat \union {Unsaid}]]
      /\ turn[q].at \in Links /\ turn[q].sent \in Nat /\ turn[q].shown \in Chunk
  <2>1. turn[q].pc \in {"asking", "closing", "answered"}
    BY DEF StreamLine, Ends, Fails, Deliver, LeaveTurn
  <2>2. turn[q].end = "none"
    BY <2>1, TurnIs
  <2> QED BY <2>1, <2>2, TurnIs DEF AnswersInv, AnswersTypeOK, Stored, TurnState
<1>2. /\ FitToShow(turn[q].prompt, spoken)
      /\ \A i \in DOMAIN turn[q].prompt :
            turn[q].prompt[i].turn # q /\ turn[turn[q].prompt[i].turn].end = "done"
  BY TurnIs
<1>3. messages' = messages /\ visible' = visible
  BY DEF StreamLine, Ends, Fails, Deliver, LeaveTurn
<1>4. CASE StreamLine(q)
  <2> DEFINE c == Sends(q, turn[q].sent + 1)
             t == [turn[q] EXCEPT !.sent = c.pieces, !.last = c, !.shown = Token(q, c)]
  <2>1. c \in Chunk /\ Token(q, c) \in Chunk /\ c.pieces \in Nat
    BY <1>1 DEF Sends, Token, Chunk
  <2>2. turn' = [turn EXCEPT ![q] = t] /\ spoken' = spoken /\ turn[q].pc = "asking"
    BY <1>1, <1>4 DEF StreamLine
  <2> HIDE DEF c
  <2>3. t \in TurnState /\ t.pc = "asking" /\ t.end = "none" /\ t.prompt = turn[q].prompt
    BY <1>1, <2>1, <2>2 DEF TurnState
  <2> HIDE DEF t
  <2> QED BY <1>1, <1>2, <1>3, <2>2, <2>3, OtherTurnsStay
<1>5. CASE \E n \in 0 .. MaxPieces : Ends(q, n)
  <2> PICK n \in 0 .. MaxPieces : Ends(q, n)
    BY <1>5
  <2> DEFINE c == Sends(q, n)
             t == [turn[q] EXCEPT !.pc = "closing", !.sent = n, !.last = c, !.shown = Token(q, c)]
  <2>1. /\ c \in Chunk /\ Token(q, c) \in Chunk /\ c.pieces = n /\ n \in Nat /\ c.by = turn[q].at
        /\ c.error = FALSE /\ (c.pieces > 0 => Token(q, c) = c)
    BY <1>1 DEF Sends, Token, Chunk, AnswersAssumption
  <2>2. turn' = [turn EXCEPT ![q] = t] /\ spoken' = [spoken EXCEPT ![q][turn[q].at] = n]
    BY <1>1 DEF Ends
  <2> HIDE DEF c
  <2>3. /\ t \in TurnState /\ t.pc = "closing" /\ t.end = "none" /\ t.prompt = turn[q].prompt
        /\ t.last = c /\ t.shown = Token(q, c)
    BY <1>1, <2>1 DEF TurnState
  <2> HIDE DEF t
  <2>4. /\ spoken' \in [Turns -> [Links -> Nat \union {Unsaid}]]
        /\ \A p \in Turns \ {q} : spoken'[p] = spoken[p]
        /\ spoken'[q][turn[q].at] = n
    BY <1>1, <2>1, <2>2
  <2>5. /\ ~ t.last.error /\ spoken'[q][t.last.by] = t.last.pieces
        /\ t.last.pieces > 0 => t.shown = t.last
    BY <2>1, <2>3, <2>4
  <2>6. /\ FitToShow(t.prompt, spoken)
        /\ \A i \in DOMAIN t.prompt : t.prompt[i].turn # q /\ turn[t.prompt[i].turn].end = "done"
    BY <1>2, <2>3
  <2>7. t.pc # "made" /\ t.end # "done" /\ (t.end # "none" <=> t.pc = "over")
    BY <2>3
  <2> QED BY <1>1, <1>3, <2>2, <2>3, <2>4, <2>5, <2>6, <2>7, OtherTurnsStay
<1>6. CASE Fails(q)
  <2> DEFINE c == [by |-> turn[q].at, pieces |-> turn[q].sent, error |-> TRUE]
             t == IF turn[q].at < Len(Route)
                  THEN [turn[q] EXCEPT !.at = @ + 1, !.sent = 0, !.last = c]
                  ELSE [turn[q] EXCEPT !.pc = "over", !.last = c, !.end = "error"]
  <2>1. c \in Chunk /\ c.error
    BY <1>1 DEF Chunk
  <2>2. turn' = [turn EXCEPT ![q] = t] /\ spoken' = spoken /\ turn[q].pc = "asking"
    <3>1. Broken(c)
      BY <2>1 DEF Broken
    <3> QED BY <1>1, <1>6, <3>1 DEF Fails
  <2> HIDE DEF c
  <2>3. /\ t \in TurnState /\ t.prompt = turn[q].prompt
        /\ (t.pc = "asking" /\ t.end = "none") \/ (t.pc = "over" /\ t.end = "error")
    <3>1. turn[q].at < Len(Route) => turn[q].at + 1 \in Links
      BY <1>1 DEF Links, AnswersAssumption
    <3> QED BY <1>1, <2>1, <2>2, <3>1 DEF TurnState
  <2> HIDE DEF t
  <2> QED BY <1>1, <1>2, <1>3, <2>2, <2>3, OtherTurnsStay
<1>7. CASE Deliver(q)
  <2> DEFINE t == [turn[q] EXCEPT !.pc = "answered"]
  <2>1. turn' = [turn EXCEPT ![q] = t] /\ spoken' = spoken /\ turn[q].pc = "closing"
    BY <1>1, <1>7 DEF Deliver
  <2>2. /\ t \in TurnState /\ t.prompt = turn[q].prompt /\ t.pc = "answered" /\ t.end = "none"
        /\ t.last = turn[q].last /\ t.shown = turn[q].shown
    BY <1>1 DEF TurnState
  <2>3. /\ ~ turn[q].last.error /\ spoken[q][turn[q].last.by] = turn[q].last.pieces
        /\ turn[q].last.pieces > 0 => turn[q].shown = turn[q].last
    BY <2>1, TurnIs
  <2> HIDE DEF t
  <2> QED BY <1>1, <1>2, <1>3, <2>1, <2>2, <2>3, OtherTurnsStay
<1>8. CASE LeaveTurn(q)
  <2> DEFINE t == [turn[q] EXCEPT !.pc = "over", !.end = "left"]
  <2>1. turn' = [turn EXCEPT ![q] = t] /\ spoken' = spoken
    BY <1>1, <1>8 DEF LeaveTurn
  <2>2. t \in TurnState /\ t.prompt = turn[q].prompt /\ t.pc = "over" /\ t.end = "left"
    BY <1>1 DEF TurnState
  <2> HIDE DEF t
  <2> QED BY <1>1, <1>2, <1>3, <2>1, <2>2, OtherTurnsStay
<1> QED BY <1>4, <1>5, <1>6, <1>7, <1>8

\* A step that changes nothing of a turn but its pc and end leaves what is said of prompts.
LEMMA MakeRowsKeeps ==
    ASSUME AnswersAssumption, AnswersInv, NEW q \in Turns, MakeRows(q) PROVE AnswersInv'
<1> DEFINE c == turn[q].last
           a == [turn |-> q, role |-> "user", by |-> c.by, pieces |-> 0]
           b == [turn |-> q, role |-> "assistant", by |-> c.by, pieces |-> c.pieces]
<1>1. /\ turn \in [Turns -> TurnState] /\ messages \in Seq(Message) /\ Couples(messages)
      /\ turn[q].pc = "answered" /\ c \in Chunk /\ turn[q].end = "none"
      /\ ~ c.error /\ spoken[q][c.by] = c.pieces /\ (c.pieces > 0 => turn[q].shown = c)
  <2>1. turn[q].pc = "answered" /\ turn[q].end = "none"
    BY TurnIs DEF MakeRows
  <2> QED BY <2>1, TurnIs DEF AnswersInv, AnswersTypeOK
<1>2. /\ turn' = [turn EXCEPT ![q].pc = "made"] /\ visible' = visible /\ spoken' = spoken
      /\ messages' = messages \o <<a, b>>
  BY DEF MakeRows
<1>3. a \in Message /\ b \in Message /\ Couple(a, b)
  BY <1>1 DEF Chunk, Message, Couple
<1>4. c = [by |-> c.by, pieces |-> c.pieces, error |-> FALSE]
  BY <1>1, RecordOf
<1>5. a.turn = q /\ b.turn = q /\ a.role = "user" /\ b.by = c.by /\ b.pieces = c.pieces
  OBVIOUS
<1> HIDE DEF a, b
<1>6. messages' = Append(Append(messages, a), b)
  BY <1>1, <1>2, <1>3
<1>7. /\ Couples(messages') /\ messages' \in Seq(Message)
  BY <1>1, <1>3, <1>6, CouplesGrow
<1>8. \A i \in DOMAIN messages' :
         (i \in DOMAIN messages /\ messages'[i] = messages[i]) \/ messages'[i] = a \/ messages'[i] = b
  BY <1>1, <1>3, <1>6
<1>9. /\ turn' \in [Turns -> TurnState] /\ turn'[q] = [turn[q] EXCEPT !.pc = "made"]
      /\ \A p \in Turns \ {q} : turn'[p] = turn[p]
  <2>1. [turn[q] EXCEPT !.pc = "made"] \in TurnState
    BY <1>1 DEF TurnState
  <2> QED BY <1>1, <1>2, <2>1
<1>10. /\ turn'[q].pc = "made" /\ turn'[q].end = "none" /\ turn'[q].shown = turn[q].shown
       /\ turn'[q].prompt = turn[q].prompt
  BY <1>1, <1>9 DEF TurnState
<1>11. AnswersTypeOK'
  BY <1>2, <1>7, <1>9 DEF AnswersInv, AnswersTypeOK
<1>12. ASSUME NEW i \in DOMAIN messages'
       PROVE  /\ turn'[messages'[i].turn].pc = "made" \/ turn'[messages'[i].turn].end = "done"
              /\ messages'[i].role = "assistant" =>
                    /\ messages'[i].pieces = spoken'[messages'[i].turn][messages'[i].by]
                    /\ messages'[i].pieces > 0 => turn'[messages'[i].turn].shown =
                          [by |-> messages'[i].by, pieces |-> messages'[i].pieces, error |-> FALSE]
  <2> DEFINE m == messages'[i]
  <2>1. CASE i \in DOMAIN messages /\ m = messages[i]
    <3>1. /\ m.turn \in Turns /\ Stored(m.turn)
          /\ m.role = "assistant" =>
                    /\ m.pieces = spoken[m.turn][m.by]
                    /\ m.pieces > 0 => turn[m.turn].shown = [by |-> m.by, pieces |-> m.pieces, error |-> FALSE]
      <4>1. messages[i] \in Message
        BY <1>1, <2>1
      <4> QED BY <2>1, <4>1 DEF AnswersInv, Message
    <3>2. m.turn # q
      BY <1>1, <3>1 DEF Stored
    <3> HIDE DEF m
    <3>3. turn'[m.turn] = turn[m.turn]
      BY <1>9, <3>1, <3>2
    <3>4. turn'[m.turn].pc = "made" \/ turn'[m.turn].end = "done"
      BY <3>1, <3>3 DEF Stored
    <3> QED BY <1>2, <3>1, <3>3, <3>4 DEF m
  <2>2. CASE m = a
    BY <1>5, <1>10, <2>2
  <2>3. CASE m = b
    <3>1. m.turn = q /\ m.by = c.by /\ m.pieces = c.pieces
      BY <1>5, <2>3
    <3> HIDE DEF m
    <3>2. c.pieces = spoken'[q][c.by] /\ (c.pieces > 0 => turn'[q].shown = c)
      BY <1>1, <1>2, <1>10
    <3> HIDE DEF c
    <3>3. m.pieces > 0 => turn'[m.turn].shown = [by |-> m.by, pieces |-> m.pieces, error |-> FALSE]
      BY <1>4, <3>1, <3>2
    <3>4. m.pieces = spoken'[m.turn][m.by] /\ turn'[m.turn].pc = "made"
      BY <1>10, <3>1, <3>2
    <3> QED BY <3>3, <3>4 DEF m
  <2> QED BY <1>8, <2>1, <2>2, <2>3
<1>13. ASSUME NEW p \in Turns
       PROVE  /\ turn'[p].end # "none" <=> turn'[p].pc = "over"
              /\ p \in visible' => turn'[p].end = "done"
              /\ turn'[p].pc \in {"closing", "answered"} =>
                    /\ ~ turn'[p].last.error /\ spoken'[p][turn'[p].last.by] = turn'[p].last.pieces
                    /\ turn'[p].last.pieces > 0 => turn'[p].shown = turn'[p].last
              /\ FitToShow(turn'[p].prompt, spoken')
              /\ \A i \in DOMAIN turn'[p].prompt :
                    turn'[p].prompt[i].turn # p /\ turn'[turn'[p].prompt[i].turn].end = "done"
  <2>1. /\ turn'[p].prompt = turn[p].prompt
        /\ turn'[p].pc = "made" \/ turn'[p] = turn[p]
        /\ turn'[p].end = turn[p].end /\ (turn'[p].pc = "over" <=> turn[p].pc = "over")
    <3>1. CASE p = q
      BY <1>1, <1>10, <3>1
    <3>2. CASE p # q
      BY <1>9, <3>2
    <3> QED BY <3>1, <3>2
  <2>2. /\ turn[p].end # "none" <=> turn[p].pc = "over"
        /\ p \in visible => turn[p].end = "done"
        /\ turn[p].pc \in {"closing", "answered"} =>
              /\ ~ turn[p].last.error /\ spoken[p][turn[p].last.by] = turn[p].last.pieces
              /\ turn[p].last.pieces > 0 => turn[p].shown = turn[p].last
        /\ FitToShow(turn[p].prompt, spoken)
        /\ \A i \in DOMAIN turn[p].prompt :
              turn[p].prompt[i].turn # p /\ turn[turn[p].prompt[i].turn].end = "done"
    BY DEF AnswersInv
  <2>3. \A i \in DOMAIN turn[p].prompt :
           turn[p].prompt[i].turn # p /\ turn'[turn[p].prompt[i].turn].end = "done"
    <3> SUFFICES ASSUME NEW i \in DOMAIN turn[p].prompt
                 PROVE  turn[p].prompt[i].turn # p /\ turn'[turn[p].prompt[i].turn].end = "done"
      OBVIOUS
    <3>1. turn[p].prompt[i] \in Message
      BY <1>1 DEF TurnState
    <3>2. turn[p].prompt[i].turn \in Turns \ {q}
      BY <1>1, <2>2, <3>1 DEF Message
    <3> QED BY <1>9, <2>2, <3>2
  <2> QED BY <1>2, <2>1, <2>2, <2>3
<1> QED BY <1>7, <1>11, <1>12, <1>13 DEF AnswersInv, Stored

LEMMA CommitRowsKeeps ==
    ASSUME AnswersAssumption, AnswersInv, NEW q \in Turns, NEW well \in BOOLEAN, CommitRows(q, well)
    PROVE  AnswersInv'
<1>1. /\ turn \in [Turns -> TurnState] /\ turn[q].pc = "made" /\ turn[q].end = "none"
      /\ messages \in Seq(Message)
  BY TurnIs DEF CommitRows, AnswersInv, AnswersTypeOK
<1>2. /\ turn' = [turn EXCEPT ![q].pc = "over", ![q].end = "done"] /\ messages' = messages
      /\ spoken' = spoken /\ visible' \subseteq visible \union {q}
  BY DEF CommitRows
<1>3. /\ turn' \in [Turns -> TurnState]
      /\ turn'[q] = [turn[q] EXCEPT !.pc = "over", !.end = "done"]
      /\ \A p \in Turns \ {q} : turn'[p] = turn[p]
  <2>1. [turn[q] EXCEPT !.pc = "over", !.end = "done"] \in TurnState
    BY <1>1 DEF TurnState
  <2> QED BY <1>1, <1>2, <2>1
<1>4. /\ turn'[q].pc = "over" /\ turn'[q].end = "done" /\ turn'[q].shown = turn[q].shown
      /\ turn'[q].prompt = turn[q].prompt
  BY <1>1, <1>3 DEF TurnState
<1>5. AnswersTypeOK'
  BY <1>2, <1>3 DEF AnswersInv, AnswersTypeOK
<1>6. \A p \in Turns : /\ turn'[p].shown = turn[p].shown /\ turn'[p].prompt = turn[p].prompt
                       /\ turn[p].end = "done" => turn'[p].end = "done"
                       /\ Stored(p) => turn'[p].pc = "made" \/ turn'[p].end = "done"
  BY <1>3, <1>4 DEF Stored
<1>7. ASSUME NEW i \in DOMAIN messages
      PROVE  /\ turn'[messages[i].turn].pc = "made" \/ turn'[messages[i].turn].end = "done"
             /\ messages[i].role = "assistant" =>
                   /\ messages[i].pieces = spoken[messages[i].turn][messages[i].by]
                   /\ messages[i].pieces > 0 => turn'[messages[i].turn].shown =
                          [by |-> messages[i].by, pieces |-> messages[i].pieces, error |-> FALSE]
  <2> DEFINE m == messages[i]
  <2>1. m.turn \in Turns
    <3>1. m \in Message
      BY <1>1
    <3> QED BY <3>1 DEF Message
  <2>2. /\ Stored(m.turn)
        /\ m.role = "assistant" =>
              /\ m.pieces = spoken[m.turn][m.by]
              /\ m.pieces > 0 => turn[m.turn].shown = [by |-> m.by, pieces |-> m.pieces, error |-> FALSE]
    BY DEF AnswersInv
  <2> HIDE DEF m
  <2>3. turn'[m.turn].pc = "made" \/ turn'[m.turn].end = "done"
    BY <1>6, <2>1, <2>2
  <2>4. turn'[m.turn].shown = turn[m.turn].shown
    BY <1>6, <2>1
  <2> QED BY <2>2, <2>3, <2>4 DEF m
<1>8. ASSUME NEW p \in Turns
      PROVE  /\ turn'[p].end # "none" <=> turn'[p].pc = "over"
             /\ p \in visible' => turn'[p].end = "done"
             /\ turn'[p].pc \in {"closing", "answered"} =>
                   /\ ~ turn'[p].last.error /\ spoken'[p][turn'[p].last.by] = turn'[p].last.pieces
                   /\ turn'[p].last.pieces > 0 => turn'[p].shown = turn'[p].last
             /\ FitToShow(turn'[p].prompt, spoken')
             /\ \A i \in DOMAIN turn'[p].prompt :
                   turn'[p].prompt[i].turn # p /\ turn'[turn'[p].prompt[i].turn].end = "done"
  <2>1. /\ turn[p].end # "none" <=> turn[p].pc = "over"
        /\ p \in visible => turn[p].end = "done"
        /\ turn[p].pc \in {"closing", "answered"} =>
              /\ ~ turn[p].last.error /\ spoken[p][turn[p].last.by] = turn[p].last.pieces
              /\ turn[p].last.pieces > 0 => turn[p].shown = turn[p].last
        /\ FitToShow(turn[p].prompt, spoken)
        /\ \A i \in DOMAIN turn[p].prompt :
              turn[p].prompt[i].turn # p /\ turn[turn[p].prompt[i].turn].end = "done"
    BY DEF AnswersInv
  <2>2. \A i \in DOMAIN turn[p].prompt :
           turn[p].prompt[i].turn # p /\ turn'[turn[p].prompt[i].turn].end = "done"
    <3> SUFFICES ASSUME NEW i \in DOMAIN turn[p].prompt
                 PROVE  turn[p].prompt[i].turn # p /\ turn'[turn[p].prompt[i].turn].end = "done"
      OBVIOUS
    <3>1. turn[p].prompt[i] \in Message
      BY <1>1 DEF TurnState
    <3> QED BY <1>6, <2>1, <3>1 DEF Message
  <2>3. turn'[p].prompt = turn[p].prompt
    BY <1>6
  <2>4. CASE p = q
    BY <1>2, <1>4, <2>1, <2>2, <2>3, <2>4
  <2>5. CASE p # q
    <3>1. turn'[p] = turn[p] /\ (p \in visible' => p \in visible)
      BY <1>2, <1>3, <2>5
    <3> QED BY <1>2, <2>1, <2>2, <3>1
  <2> QED BY <2>4, <2>5
<1>9. Couples(messages')
  <2>1. Couples(messages)
    BY DEF AnswersInv
  <2> QED BY <1>2, <2>1
<1>10. ASSUME NEW i \in DOMAIN messages'
       PROVE  /\ turn'[messages'[i].turn].pc = "made" \/ turn'[messages'[i].turn].end = "done"
              /\ messages'[i].role = "assistant" =>
                    /\ messages'[i].pieces = spoken'[messages'[i].turn][messages'[i].by]
                    /\ messages'[i].pieces > 0 => turn'[messages'[i].turn].shown =
                          [by |-> messages'[i].by, pieces |-> messages'[i].pieces, error |-> FALSE]
  BY <1>2, <1>7
<1> QED BY <1>5, <1>8, <1>9, <1>10 DEF AnswersInv, Stored

LEMMA AnswersStep ==
    ASSUME AnswersAssumption, AnswersInv, [AnswersNext]_answersVars PROVE AnswersInv'
<1>1. CASE AnswersNext
  <2> PICK q \in Turns :
         \/ Begin(q) \/ StreamLine(q) \/ Fails(q) \/ Deliver(q) \/ MakeRows(q) \/ LeaveTurn(q)
         \/ \E n \in 0 .. MaxPieces : Ends(q, n)
         \/ \E well \in BOOLEAN : CommitRows(q, well)
    BY <1>1 DEF AnswersNext
  <2>1. CASE Begin(q)
    BY <2>1, BeginKeeps
  <2>2. CASE StreamLine(q) \/ (\E n \in 0 .. MaxPieces : Ends(q, n)) \/ Fails(q) \/ Deliver(q) \/ LeaveTurn(q)
    BY <2>2, AnswerKeeps
  <2>3. CASE MakeRows(q)
    BY <2>3, MakeRowsKeeps
  <2>4. CASE \E well \in BOOLEAN : CommitRows(q, well)
    BY <2>4, CommitRowsKeeps
  <2> QED BY <2>1, <2>2, <2>3, <2>4
<1>2. CASE UNCHANGED answersVars
  <2>1. turn' = turn /\ messages' = messages /\ visible' = visible /\ spoken' = spoken
    BY <1>2 DEF answersVars
  <2>2. AnswersTypeOK' /\ Couples(messages')
    BY <2>1 DEF AnswersInv, AnswersTypeOK
  <2> QED BY <2>1, <2>2 DEF AnswersInv, Stored, FitToShow
<1> QED BY <1>1, <1>2

\* The invariant holds what is promised of the answers.
LEMMA InvIsWhole == AnswersInv => AnswersAreWhole
<1> SUFFICES ASSUME AnswersInv PROVE AnswersAreWhole
  OBVIOUS
<1>1. ASSUME NEW i \in DOMAIN messages
      PROVE  LET m == messages[i]
             IN  m.role = "assistant" =>
                    /\ m.pieces = spoken[m.turn][m.by]
                    /\ m.pieces > 0 => turn[m.turn].shown = [by |-> m.by, pieces |-> m.pieces, error |-> FALSE]
                    /\ turn[m.turn].pc = "made" \/ turn[m.turn].end = "done"
  BY DEF AnswersInv, Stored
<1>2. ASSUME NEW q \in Turns, NEW i \in DOMAIN turn[q].prompt
      PROVE  LET s == turn[q].prompt
             IN  /\ s[i].turn # q
                 /\ s[i].role = "assistant" => i > 1 /\ Paired(s, i - 1, i)
                 /\ s[i].role = "user" =>
                       \/ i < Len(s) /\ Paired(s, i, i + 1)
                       \/ spoken[s[i].turn][s[i].by] = 0
  <2>1. FitToShow(turn[q].prompt, spoken) /\ turn[q].prompt[i].turn # q
    BY TurnIs
  <2> QED BY <2>1 DEF FitToShow, Couple, Paired
<1> QED BY <1>1, <1>2 DEF AnswersAreWhole

\* chat_stream and retrieval.py: an answer that is stored is whole, a turn that failed leaves
\* nothing, and a prompt shows questions with their answers, for every number of turns and
\* providers, all lengths and all orders of overlapping turns.
THEOREM AnswersStayWhole == AnswersSpec => []AnswersAreWhole
<1>1. AnswersInit => AnswersInv
  BY AnswersInitially, AnswersAssumption
<1>2. AnswersInv /\ [AnswersNext]_answersVars => AnswersInv'
  BY AnswersStep, AnswersAssumption
<1>3. AnswersInv => AnswersAreWhole
  BY InvIsWhole
<1> QED BY <1>1, <1>2, <1>3, PTL DEF AnswersSpec

-----------------------------------------------------------------------------
(* What the chat remembers of a report.                                    *)

\* All before this place is in the windows that are cut.
Covered(t, cut, sec, from) ==
    \A s \in 1 .. sec : \A x \in 0 .. (IF s = sec THEN from ELSE t[s].len) - 1 :
       InSome(Before(cut, Len(cut) + 1), s, x)

\* The windows are passages, and those that will be kept leave no hole.
CutSound(t, cut) ==
    \A i \in DOMAIN cut : Passage(t, cut[i]) /\ (i <= MaxChunks => NoHole(t, cut, i))

WorkSound(w) ==
    /\ w.at = "cutting" =>
          /\ w.sec \in 1 .. Len(w.text) + 1 /\ w.from \in Nat
          /\ w.from = 0 \/ (w.sec <= Len(w.text) /\ w.text[w.sec].len > Size)
          /\ CutSound(w.text, w.cut)
          /\ Len(w.cut) < MaxChunks => Covered(w.text, w.cut, w.sec, w.from)
    /\ w.at = "writing" => WellCut(w.text, w.cut)

SectionRec == [len : Nat, gaps : SUBSET Nat]

LEMMA TextsAre ==
    ASSUME MemoryAssumption, NEW t \in Said
    PROVE  t \in Seq(SectionRec)
<1>1. Texts \subseteq Seq(SectionRec)
  BY DEF MemoryAssumption, SectionRec
<1>2. <<>> \in Seq(SectionRec)
  OBVIOUS
<1> QED BY <1>1, <1>2 DEF Said

LEMMA BeforeAppended ==
    ASSUME NEW T, NEW c \in Seq(T), NEW w \in T
    PROVE  /\ \A i \in 1 .. Len(c) + 1 : Before(Append(c, w), i) = Before(c, i)
           /\ Before(Append(c, w), Len(Append(c, w)) + 1) = Before(c, Len(c) + 1) \union {w}
<1> DEFINE d == Append(c, w)
           n == Len(c)
<1>1. n \in Nat /\ Len(d) = n + 1 /\ d[n + 1] = w /\ \A j \in 1 .. n : d[j] = c[j]
  OBVIOUS
<1> HIDE DEF d, n
<1>2. \A i \in 1 .. n + 1 : Before(d, i) = Before(c, i)
  <2> SUFFICES ASSUME NEW i \in 1 .. n + 1 PROVE Before(d, i) = Before(c, i)
    OBVIOUS
  <2>1. \A j \in 1 .. i - 1 : d[j] = c[j]
    BY <1>1
  <2> QED BY <2>1 DEF Before
<1>3. Before(d, n + 2) = Before(c, n + 1) \union {w}
  <2>1. Before(d, n + 2) = {d[j] : j \in 1 .. n + 1} /\ Before(c, n + 1) = {c[j] : j \in 1 .. n}
    <3>1. (n + 2) - 1 = n + 1 /\ (n + 1) - 1 = n
      BY <1>1
    <3> QED BY <3>1 DEF Before
  <2>2. \A j \in 1 .. n + 1 : j \in 1 .. n \/ j = n + 1
    BY <1>1
  <2>3. n + 1 \in 1 .. n + 1 /\ \A j \in 1 .. n : j \in 1 .. n + 1
    BY <1>1
  <2> QED BY <1>1, <2>1, <2>2, <2>3
<1>4. Len(d) + 1 = n + 2
  BY <1>1
<1> QED BY <1>2, <1>3, <1>4 DEF d, n

\* A window that begins where all is covered keeps the windows sound.
LEMMA SoundAppended ==
    ASSUME MemoryAssumption, NEW t, NEW c \in Seq(Window), NEW w \in Window, CutSound(t, c), Passage(t, w),
           Len(c) < MaxChunks => Covered(t, c, w.sec, w.from)
    PROVE  CutSound(t, Append(c, w))
<1> DEFINE d == Append(c, w)
           n == Len(c)
<1>1. /\ n \in Nat /\ DOMAIN d = 1 .. n + 1 /\ DOMAIN c = 1 .. n /\ d[n + 1] = w
      /\ \A j \in 1 .. n : d[j] = c[j]
      /\ MaxChunks \in Nat
  BY DEF MemoryAssumption
<1>2. \A i \in 1 .. n + 1 : Before(d, i) = Before(c, i)
  BY BeforeAppended
<1>3. CutSound(t, c) /\ (n < MaxChunks => Covered(t, c, w.sec, w.from))
  OBVIOUS
<1>4. Before(c, n + 1) = Before(c, Len(c) + 1)
  OBVIOUS
<1> HIDE DEF d
<1> SUFFICES ASSUME NEW i \in 1 .. n + 1
             PROVE  Passage(t, d[i]) /\ (i <= MaxChunks => NoHole(t, d, i))
  BY <1>1 DEF CutSound, d
<1>5. CASE i \in 1 .. n
  <2>1. Passage(t, c[i]) /\ (i <= MaxChunks => NoHole(t, c, i)) /\ d[i] = c[i] /\ Before(d, i) = Before(c, i)
    BY <1>1, <1>2, <1>3, <1>5 DEF CutSound
  <2> QED BY <2>1 DEF NoHole
<1>6. CASE i = n + 1
  <2>1. d[i] = w /\ Before(d, i) = Before(c, Len(c) + 1)
    BY <1>1, <1>2, <1>4, <1>6
  <2>2. i <= MaxChunks => Covered(t, c, w.sec, w.from)
    BY <1>1, <1>3, <1>6
  <2> HIDE DEF n
  <2> QED BY <2>1, <2>2 DEF NoHole, Covered
<1> QED BY <1>1, <1>5, <1>6

\* From the beginning of the next section on, when this one is in the windows.
LEMMA NextCovered ==
    ASSUME NEW t, NEW c, NEW d, NEW sec \in Nat, NEW from \in Nat, t[sec].len \in Nat,
           Before(c, Len(c) + 1) \subseteq Before(d, Len(d) + 1),
           Covered(t, c, sec, from),
           \A x \in 0 .. t[sec].len - 1 : x >= from => InSome(Before(d, Len(d) + 1), sec, x)
    PROVE  Covered(t, d, sec + 1, 0)
<1> SUFFICES ASSUME NEW s \in 1 .. sec + 1, NEW x \in 0 .. (IF s = sec + 1 THEN 0 ELSE t[s].len) - 1
             PROVE  InSome(Before(d, Len(d) + 1), s, x)
  BY DEF Covered
<1>1. s # sec + 1 /\ s \in 1 .. sec /\ x \in 0 .. t[s].len - 1
  OBVIOUS
<1>2. CASE s # sec
  <2>1. InSome(Before(c, Len(c) + 1), s, x)
    BY <1>1, <1>2 DEF Covered
  <2> QED BY <2>1 DEF InSome
<1>3. CASE s = sec
  <2>1. CASE x < from
    <3>1. InSome(Before(c, Len(c) + 1), s, x)
      <4>1. x \in 0 .. from - 1
        BY <1>1, <1>3, <2>1
      <4> QED BY <1>1, <1>3, <4>1 DEF Covered
    <3> QED BY <3>1 DEF InSome
  <2>2. CASE x >= from
    BY <1>1, <1>3, <2>2
  <2> QED BY <1>1, <1>3, <2>1, <2>2
<1> QED BY <1>2, <1>3

\* Where a window ends.
LEMMA EndsInside ==
    ASSUME MemoryAssumption, NEW s \in SectionRec, NEW from \in Nat, s.len > Size, from < s.len
    PROVE  LET e == End(s, from)
           IN  /\ e \in Int /\ from < e /\ e <= s.len /\ e - from <= Size
               /\ Resume(e) \in Nat /\ Resume(e) <= e
<1> DEFINE end == Lesser(from + Size, s.len)
           late == {g \in s.gaps : g < end /\ g > from + Size \div 2}
           e == End(s, from)
<1>1. /\ Size \in Nat /\ Overlap \in Nat /\ 2 * Overlap <= Size /\ Size > 0
      /\ s.len \in Nat /\ s.gaps \subseteq Nat
  BY DEF MemoryAssumption, SectionRec
<1>2. /\ end \in Nat /\ from < end /\ end <= s.len /\ end - from <= Size
      /\ end = from + Size \/ end = s.len
  BY <1>1 DEF Lesser
<1>3. Size \div 2 \in Int /\ Size \div 2 >= Overlap /\ Size \div 2 >= 0
  BY <1>1
<1>4. e = end \/ e \in late
  <2>1. CASE late # {} /\ end < s.len
    <3>1. IsFiniteSet(late) /\ late \subseteq Int
      <4>1. late \subseteq 0 .. end
        BY <1>1, <1>2
      <4>2. IsFiniteSet(0 .. end)
        BY <1>2, FS_Interval
      <4>3. late \subseteq Int
        BY <1>1
      <4> HIDE DEF late, end
      <4>4. IsFiniteSet(late)
        BY <4>1, <4>2, FS_Subset
      <4> QED BY <4>3, <4>4
    <3> DEFINE f == [g \in late |-> g]
    <3>2. f \in [late -> Int]
      <4> HIDE DEF late
      <4> QED BY <3>1
    <3>3. \E g \in late : \A h \in late : f[h] <= f[g]
      <4> HIDE DEF late, f
      <4> QED BY <2>1, <3>1, <3>2, GreatestValue
    <3>4. \E g \in late : \A h \in late : h <= g
      <4> HIDE DEF late
      <4> QED BY <3>3
    <3>5. e = CHOOSE g \in late : \A h \in late : h <= g
      BY <2>1 DEF End
    <3> HIDE DEF late, e
    <3> QED BY <3>4, <3>5
  <2>2. CASE ~ (late # {} /\ end < s.len)
    <3>1. e = end
      BY <2>2 DEF End
    <3> QED BY <3>1
  <2> QED BY <2>1, <2>2
<1> HIDE DEF e, end
<1>5. CASE e = end
  <2>1. e \in Int /\ from < e /\ e <= s.len /\ e - from <= Size
    BY <1>2, <1>5
  <2>2. Overlap <= e
    BY <1>1, <1>2, <1>5
  <2> QED BY <1>1, <2>1, <2>2 DEF Resume, e
<1>6. CASE e \in late
  <2>1. e \in Nat /\ e < end /\ e > from + Size \div 2
    BY <1>1, <1>6
  <2> HIDE DEF late
  <2> DEFINE v == Size \div 2
  <2>2. v \in Int /\ v >= Overlap /\ v >= 0 /\ e > from + v
    BY <1>3, <2>1
  <2> HIDE DEF v
  <2>3. from < e /\ e <= s.len /\ e - from <= Size /\ Overlap <= e
    BY <1>1, <1>2, <2>1, <2>2
  <2> QED BY <1>1, <2>1, <2>3 DEF Resume, e
<1> QED BY <1>4, <1>5, <1>6

\* The cutting of a text, step by step.
LEMMA CutKeepsSound ==
    ASSUME MemoryAssumption, work \in [Indexers -> Work], NEW k \in Indexers, WorkSound(work[k]), Cut(k)
    PROVE  \E w \in Work : /\ work' = [work EXCEPT ![k] = w] /\ WorkSound(w) /\ w.at = "cutting"
                           /\ w.book = work[k].book /\ w.text = work[k].text /\ work[k].at = "cutting"
<1> DEFINE v == work[k]
           t == v.text
           s == Section(k)
           n == v.sec
<1>1. /\ v \in Work /\ v.at = "cutting" /\ n \in Nat /\ n \in 1 .. Len(t) /\ t \in Seq(SectionRec)
      /\ s = t[n] /\ s \in SectionRec /\ s.len \in Nat
      /\ v.cut \in Seq(Window) /\ Len(v.cut) \in Nat /\ v.book \in Books /\ v.from \in Nat
      /\ v.from = 0 \/ s.len > Size
      /\ CutSound(t, v.cut)
      /\ Len(v.cut) < MaxChunks => Covered(t, v.cut, n, v.from)
      /\ t \in Said
  <2>1. v \in Work /\ v.at = "cutting" /\ v.sec <= Len(t)
    BY DEF Cut
  <2>2. v.text \in Said /\ v.cut \in Seq(Window) /\ v.book \in Books /\ v.sec \in Nat
    BY <2>1 DEF Work
  <2>3. t \in Seq(SectionRec)
    BY <2>2, TextsAre
  <2>4. s = t[n] /\ v.sec \in 1 .. Len(t) + 1
    BY <2>1 DEF Section, WorkSound
  <2>5. n \in 1 .. Len(t)
    BY <2>1, <2>2, <2>3, <2>4
  <2>6. s \in SectionRec
    <3> HIDE DEF t, n, s
    <3> QED BY <2>3, <2>4, <2>5
  <2>7. s.len \in Nat
    BY <2>6 DEF SectionRec
  <2>8. /\ v.from \in Nat
        /\ v.from = 0 \/ s.len > Size
        /\ CutSound(t, v.cut)
        /\ Len(v.cut) < MaxChunks => Covered(t, v.cut, n, v.from)
    BY <2>1, <2>4 DEF WorkSound
  <2>9. n \in Nat /\ t \in Said /\ Len(v.cut) \in Nat /\ s = t[n]
    BY <2>2, <2>4
  <2> HIDE DEF v, t, n, s
  <2> QED BY <2>1, <2>2, <2>3, <2>5, <2>6, <2>7, <2>8, <2>9
<1>2. /\ Size \in Nat /\ MaxChunks \in Nat /\ Size > 0
  BY DEF MemoryAssumption
<1>3. CutWhole(k) \/ CutWindow(k) \/ CutEnough(k)
  BY DEF Cut
\* What the next section begins with.
<1>4. ASSUME NEW c \in Seq(Window), CutSound(t, c), Len(c) < MaxChunks => Covered(t, c, n + 1, 0)
      PROVE  LET w == [v EXCEPT !.sec = n + 1, !.from = 0, !.cut = c]
             IN  /\ w \in Work /\ WorkSound(w) /\ w.at = "cutting" /\ w.book = v.book /\ w.text = t
  <2> DEFINE w == [v EXCEPT !.sec = n + 1, !.from = 0, !.cut = c]
  <2>1. /\ w \in Work /\ w.at = "cutting" /\ w.book = v.book /\ w.text = t /\ w.sec = n + 1
        /\ w.from = 0 /\ w.cut = c
    <3> DEFINE m == n + 1
    <3>1. m \in Nat /\ 0 \in Int
      BY <1>1
    <3> HIDE DEF m
    <3> SUFFICES LET u == [v EXCEPT !.sec = m, !.from = 0, !.cut = c]
                 IN  /\ u \in Work /\ u.at = "cutting" /\ u.book = v.book /\ u.text = t /\ u.sec = m
                     /\ u.from = 0 /\ u.cut = c
      BY DEF m
    <3>2. v \in Work /\ v.at = "cutting"
      BY <1>1
    <3> HIDE DEF v
    <3> QED BY <1>4, <3>1, <3>2 DEF Work
  <2>2. WorkSound(w)
    <3> HIDE DEF w, t, n
    <3>1. w.sec \in 1 .. Len(t) + 1
      BY <1>1, <2>1
    <3> QED BY <1>4, <2>1, <3>1 DEF WorkSound
  <2> QED BY <2>1, <2>2
<1>5. CASE CutWhole(k) /\ s.len = 0
  <2> DEFINE w == [v EXCEPT !.sec = n + 1, !.from = 0, !.cut = v.cut]
  <2>1. Len(v.cut) < MaxChunks => Covered(t, v.cut, n + 1, 0)
    <3>1. t[n].len = 0
      BY <1>1, <1>5
    <3> HIDE DEF v, t, n, s
    <3>2. \A x \in 0 .. t[n].len - 1 : x >= v.from => InSome(Before(v.cut, Len(v.cut) + 1), n, x)
      BY <3>1
    <3> QED BY <1>1, <3>1, <3>2, NextCovered
  <2>2. work' = [work EXCEPT ![k] = w]
    BY <1>1, <1>5 DEF CutWhole, NextSection, Work
  <2> QED BY <1>1, <1>4, <2>1, <2>2
<1>6. CASE CutWhole(k) /\ s.len # 0
  <2> DEFINE x == [sec |-> n, from |-> v.from, to |-> s.len]
             c == Append(v.cut, x)
             w == [v EXCEPT !.sec = n + 1, !.from = 0, !.cut = c]
  <2>1. work' = [work EXCEPT ![k] = w]
    BY <1>1, <1>6 DEF CutWhole, NextSection, WithWindow, Work
  <2>2. s.len <= Size /\ v.from = 0 /\ s.len > 0
    BY <1>1, <1>2, <1>6 DEF CutWhole
  <2>3. x \in Window /\ x.sec = n /\ x.from = v.from /\ x.to = s.len
    <3> HIDE DEF v, t, n, s
    <3>1. n \in Nat /\ v.from \in Int /\ s.len \in Nat
      BY <1>1
    <3> QED BY <3>1 DEF Window
  <2>4. Passage(t, x)
    <3> HIDE DEF v, t, n, s, x
    <3>1. n \in DOMAIN t
      BY <1>1
    <3> QED BY <1>1, <1>2, <2>2, <2>3, <3>1 DEF Passage
  <2>5. c \in Seq(Window) /\ Len(c) = Len(v.cut) + 1
    BY <1>1, <2>3
  <2>6. CutSound(t, c)
    <3>1. Len(v.cut) < MaxChunks => Covered(t, v.cut, x.sec, x.from)
      BY <1>1, <2>3
    <3> HIDE DEF v, t, n, s, x
    <3> QED BY <1>1, <2>3, <2>4, <3>1, SoundAppended
  <2>7. Before(c, Len(c) + 1) = Before(v.cut, Len(v.cut) + 1) \union {x}
    <3> DEFINE b == v.cut
    <3>1. b \in Seq(Window) /\ x \in Window
      BY <1>1, <2>3
    <3> HIDE DEF b, x
    <3>2. Before(Append(b, x), Len(Append(b, x)) + 1) = Before(b, Len(b) + 1) \union {x}
      BY <3>1, BeforeAppended
    <3> QED BY <3>2 DEF b
  <2>8. Len(c) < MaxChunks => Covered(t, c, n + 1, 0)
    <3> SUFFICES ASSUME Len(c) < MaxChunks PROVE Covered(t, c, n + 1, 0)
      OBVIOUS
    <3> HIDE DEF v, t, n, s, x, c
    <3>1. Covered(t, v.cut, n, v.from)
      BY <1>1, <1>2, <2>5
    <3>2. \A y \in 0 .. t[n].len - 1 : y >= v.from => InSome(Before(c, Len(c) + 1), n, y)
      <4> SUFFICES ASSUME NEW y \in 0 .. t[n].len - 1, y >= v.from
                   PROVE  InSome(Before(c, Len(c) + 1), n, y)
        OBVIOUS
      <4>1. x \in Before(c, Len(c) + 1) /\ x.sec = n /\ x.from <= y /\ y < x.to
        BY <1>1, <2>3, <2>7
      <4> QED BY <4>1 DEF InSome
    <3> QED BY <1>1, <2>7, <3>1, <3>2, NextCovered
  <2> HIDE DEF c
  <2> QED BY <1>1, <1>4, <2>1, <2>5, <2>6, <2>8
<1>7. CASE CutEnough(k)
  <2> DEFINE w == [v EXCEPT !.sec = n + 1, !.from = 0, !.cut = v.cut]
  <2>1. Len(v.cut) < MaxChunks => Covered(t, v.cut, n + 1, 0)
    <3> SUFFICES ASSUME Len(v.cut) < MaxChunks PROVE Covered(t, v.cut, n + 1, 0)
      OBVIOUS
    <3>1. v.from >= t[n].len
      BY <1>1, <1>2, <1>7 DEF CutEnough
    <3> HIDE DEF v, t, n, s
    <3>2. \A x \in 0 .. t[n].len - 1 : x >= v.from => InSome(Before(v.cut, Len(v.cut) + 1), n, x)
      BY <1>1, <3>1
    <3> QED BY <1>1, <3>2, NextCovered
  <2>2. work' = [work EXCEPT ![k] = w]
    BY <1>1, <1>7 DEF CutEnough, NextSection, Work
  <2> QED BY <1>1, <1>4, <2>1, <2>2
<1>8. CASE CutWindow(k)
  <2> DEFINE e == End(s, v.from)
             x == [sec |-> n, from |-> v.from, to |-> e]
             c == Append(v.cut, x)
             w == [v EXCEPT !.cut = c, !.from = Resume(e)]
  <2>1. work' = [work EXCEPT ![k] = w]
    BY <1>1, <1>8 DEF CutWindow, WithWindow, Work
  <2>2. s.len > Size /\ v.from < s.len /\ Len(v.cut) < MaxChunks
    BY <1>8 DEF CutWindow
  <2>3. e \in Int /\ v.from < e /\ e <= s.len /\ e - v.from <= Size /\ Resume(e) \in Nat /\ Resume(e) <= e
    <3> HIDE DEF v, t, n, s
    <3> QED BY <1>1, <2>2, EndsInside
  <2> HIDE DEF e
  <2>4. x \in Window /\ x.sec = n /\ x.from = v.from /\ x.to = e
    BY <1>1, <2>3 DEF Window
  <2>5. Passage(t, x)
    <3> HIDE DEF v, t, n, s, x
    <3>1. n \in DOMAIN t
      BY <1>1
    <3> QED BY <1>1, <1>2, <2>3, <2>4, <3>1 DEF Passage
  <2>6. c \in Seq(Window)
    BY <1>1, <2>4
  <2>7. CutSound(t, c)
    <3>1. Len(v.cut) < MaxChunks => Covered(t, v.cut, x.sec, x.from)
      BY <1>1, <2>4
    <3> HIDE DEF v, t, n, s, x
    <3> QED BY <1>1, <2>4, <2>5, <3>1, SoundAppended
  <2>8. Before(c, Len(c) + 1) = Before(v.cut, Len(v.cut) + 1) \union {x}
    <3> DEFINE b == v.cut
    <3>1. b \in Seq(Window) /\ x \in Window
      BY <1>1, <2>4
    <3> HIDE DEF b, x
    <3>2. Before(Append(b, x), Len(Append(b, x)) + 1) = Before(b, Len(b) + 1) \union {x}
      BY <3>1, BeforeAppended
    <3> QED BY <3>2 DEF b
  <2>9. Covered(t, c, n, Resume(e))
    <3> HIDE DEF v, t, n, s, x, c
    <3>1. Covered(t, v.cut, n, v.from)
      BY <1>1, <2>2
    <3> SUFFICES ASSUME NEW z \in 1 .. n, NEW y \in 0 .. (IF z = n THEN Resume(e) ELSE t[z].len) - 1
                 PROVE  InSome(Before(c, Len(c) + 1), z, y)
      BY DEF Covered
    <3>2. CASE z # n
      <4>1. InSome(Before(v.cut, Len(v.cut) + 1), z, y)
        BY <3>1, <3>2 DEF Covered
      <4> QED BY <2>8, <4>1 DEF InSome
    <3>3. CASE z = n /\ y < v.from
      <4>1. y \in 0 .. v.from - 1
        BY <1>1, <2>3, <3>3
      <4>2. InSome(Before(v.cut, Len(v.cut) + 1), z, y)
        BY <3>1, <3>3, <4>1 DEF Covered
      <4> QED BY <2>8, <4>2 DEF InSome
    <3>4. CASE z = n /\ y >= v.from
      <4>1. x \in Before(c, Len(c) + 1) /\ x.sec = z /\ x.from <= y /\ y < x.to
        BY <1>1, <2>3, <2>4, <2>8, <3>4
      <4> QED BY <4>1 DEF InSome
    <3>5. v.from \in Int /\ (z = n => y \in Int)
      BY <1>1, <2>3
    <3> QED BY <3>2, <3>3, <3>4, <3>5
  <2>10. /\ w \in Work /\ w.at = "cutting" /\ w.book = v.book /\ w.text = t /\ w.sec = n
         /\ w.from = Resume(e) /\ w.cut = c
    <3> DEFINE r == Resume(e)
    <3>1. r \in Int /\ v \in Work /\ v.at = "cutting" /\ n = v.sec /\ t = v.text
      BY <1>1, <2>3
    <3> HIDE DEF c, v, r
    <3>2. LET u == [v EXCEPT !.cut = c, !.from = r]
          IN  /\ u \in Work /\ u.at = "cutting" /\ u.book = v.book /\ u.text = v.text /\ u.sec = v.sec
              /\ u.from = r /\ u.cut = c
      BY <2>6, <3>1 DEF Work
    <3> QED BY <3>2 DEF r
  <2>11. WorkSound(w)
    <3> HIDE DEF v, t, n, s, x, c, w
    <3>1. w.sec \in 1 .. Len(t) + 1 /\ w.text[w.sec].len > Size /\ w.sec <= Len(w.text)
      BY <1>1, <2>2, <2>10
    <3> QED BY <1>1, <2>3, <2>7, <2>9, <2>10, <3>1 DEF WorkSound
  <2> QED BY <1>1, <2>1, <2>10, <2>11
<1> QED BY <1>3, <1>5, <1>6, <1>7, <1>8

-----------------------------------------------------------------------------

BusyOn(b) == {k \in Indexers : work[k].at # "idle" /\ work[k].book = b}

MemoryInv ==
    /\ MemoryTypeOK
    /\ \A k \in Indexers : WorkSound(work[k])
    /\ \A k \in Indexers : work[k].at # "idle" =>
          /\ book[work[k].book] = "open" => work[k].book \in rewritten
          /\ work[k].book \notin rewritten => work[k].text = says[work[k].book]
    /\ \A b \in Books :
          /\ batches[b] # <<>> => book[b] = "done" \/ (book[b] = "open" /\ b \in rewritten)
          /\ batches[b] = <<>> \/ Len(batches[b]) + Cardinality(BusyOn(b)) <= Cardinality(Indexers)
          /\ \A n \in DOMAIN batches[b] :
                /\ WellCut(batches[b][n].text, batches[b][n].chunks)
                /\ b \notin rewritten => batches[b][n].text = says[b]
    /\ told.found # {} => (book[told.book] = "open" => told.book \in rewritten)
    /\ \A f \in told.found : /\ Passage(f.text, f.piece)
                             /\ told.book \notin rewritten => f.text = says[told.book]

LEMMA IdleIsWork == MemoryAssumption => Idle \in Work /\ WorkSound(Idle) /\ Idle.at = "idle" /\ Idle.book \in Books
<1> SUFFICES ASSUME MemoryAssumption PROVE Idle \in Work /\ WorkSound(Idle) /\ Idle.at = "idle" /\ Idle.book \in Books
  OBVIOUS
<1> DEFINE b == CHOOSE b \in Books : TRUE
<1>1. b \in Books
  BY DEF MemoryAssumption
<1> HIDE DEF b
<1>2. Idle = [at |-> "idle", book |-> b, text |-> <<>>, sec |-> 1, from |-> 0, cut |-> <<>>]
  BY DEF Idle, b
<1>3. <<>> \in Said /\ <<>> \in Seq(Window)
  BY DEF Said
<1> QED BY <1>1, <1>2, <1>3 DEF Work, WorkSound

LEMMA MemoryInitially == MemoryAssumption /\ MemoryInit => MemoryInv
<1> SUFFICES ASSUME MemoryAssumption, MemoryInit PROVE MemoryInv
  OBVIOUS
<1>1. Idle \in Work /\ WorkSound(Idle) /\ Idle.at = "idle" /\ Idle.book \in Books
  BY IdleIsWork
<1>2. <<>> \in Said /\ <<>> \in Seq(Batch)
  BY DEF Said
<1> HIDE DEF Idle
<1>3. told.found = {} /\ told \in [book : Books, found : SUBSET [text : Said, piece : Window]]
  BY <1>1 DEF MemoryInit
<1>4. MemoryTypeOK
  BY <1>1, <1>2, <1>3 DEF MemoryInit, MemoryTypeOK
<1>5. \A k \in Indexers : WorkSound(work[k]) /\ work[k].at = "idle"
  BY <1>1 DEF MemoryInit
<1>6. \A b \in Books : batches[b] = <<>> /\ DOMAIN batches[b] = {}
  BY DEF MemoryInit
<1> QED BY <1>3, <1>4, <1>5, <1>6 DEF MemoryInv

LEMMA BusyIsFinite ==
    ASSUME MemoryAssumption, NEW b
    PROVE  /\ IsFiniteSet(BusyOn(b)) /\ BusyOn(b) \subseteq Indexers
           /\ Cardinality(BusyOn(b)) \in Nat /\ Cardinality(Indexers) \in Nat
           /\ Cardinality(BusyOn(b)) <= Cardinality(Indexers)
<1>1. BusyOn(b) \subseteq Indexers /\ IsFiniteSet(Indexers)
  BY DEF BusyOn, MemoryAssumption
<1> HIDE DEF BusyOn
<1> QED BY <1>1, FS_Subset, FS_CardinalityType

\* What a run does for itself disturbs nobody.
LEMMA WorkAlone ==
    ASSUME MemoryAssumption, MemoryInv, NEW k \in Indexers, NEW w \in Work, WorkSound(w),
           work' = [work EXCEPT ![k] = w],
           w.at # "idle" => work[k].at # "idle" /\ w.book = work[k].book /\ w.text = work[k].text,
           UNCHANGED <<book, old, says, batches, told, rewritten>>
    PROVE  MemoryInv'
<1>1. /\ work \in [Indexers -> Work] /\ work' \in [Indexers -> Work]
      /\ work'[k] = w /\ \A j \in Indexers \ {k} : work'[j] = work[j]
  BY DEF MemoryInv, MemoryTypeOK
<1>2. MemoryTypeOK'
  BY <1>1 DEF MemoryInv, MemoryTypeOK
<1>3. ASSUME NEW j \in Indexers
      PROVE  /\ WorkSound(work'[j])
             /\ work'[j].at # "idle" =>
                   /\ book'[work'[j].book] = "open" => work'[j].book \in rewritten'
                   /\ work'[j].book \notin rewritten' => work'[j].text = says'[work'[j].book]
  <2>1. CASE j = k
    BY <1>1, <2>1 DEF MemoryInv
  <2>2. CASE j # k
    BY <1>1, <2>2 DEF MemoryInv
  <2> QED BY <2>1, <2>2
<1>4. ASSUME NEW b \in Books
      PROVE  batches[b] = <<>> \/ Len(batches[b]) + Cardinality(BusyOn(b)') <= Cardinality(Indexers)
  <2>1. BusyOn(b)' \subseteq BusyOn(b)
    BY <1>1 DEF BusyOn
  <2>2. Cardinality(BusyOn(b)') <= Cardinality(BusyOn(b)) /\ Cardinality(BusyOn(b)') \in Nat
    BY <2>1, BusyIsFinite, FS_Subset, FS_CardinalityType
  <2>3. batches[b] = <<>> \/ Len(batches[b]) + Cardinality(BusyOn(b)) <= Cardinality(Indexers)
    BY DEF MemoryInv
  <2>4. Len(batches[b]) \in Nat
    BY DEF MemoryInv, MemoryTypeOK
  <2> QED BY <2>2, <2>3, <2>4, BusyIsFinite
<1> QED BY <1>2, <1>3, <1>4 DEF MemoryInv

LEMMA EmbedKeeps == ASSUME MemoryAssumption, MemoryInv, NEW k \in Indexers, Embed(k) PROVE MemoryInv'
<1> DEFINE v == work[k]
           m == Lesser(Len(v.cut), MaxChunks)
           c == SubSeq(v.cut, 1, m)
           w == [v EXCEPT !.at = "writing", !.cut = c]
<1>1. /\ v \in Work /\ v.at = "cutting" /\ v.cut \in Seq(Window) /\ v.text \in Seq(SectionRec)
      /\ Len(v.cut) \in Nat /\ MaxChunks \in Nat /\ MaxChunks > 0
  <2>1. v \in Work /\ v.at = "cutting" /\ MaxChunks \in Nat /\ MaxChunks > 0
    BY DEF Embed, MemoryInv, MemoryTypeOK, MemoryAssumption
  <2>2. v.cut \in Seq(Window) /\ v.text \in Said
    BY <2>1 DEF Work
  <2> HIDE DEF v
  <2> QED BY <2>1, <2>2, TextsAre
<1>2. /\ CutSound(v.text, v.cut) /\ v.sec = Len(v.text) + 1
      /\ v.from \in Nat /\ (Len(v.cut) < MaxChunks => Covered(v.text, v.cut, v.sec, v.from))
  <2>1. WorkSound(v) /\ v.sec > Len(v.text)
    BY DEF Embed, MemoryInv
  <2>2. v.sec \in 1 .. Len(v.text) + 1 /\ Len(v.text) \in Nat
    BY <1>1, <2>1 DEF WorkSound
  <2> HIDE DEF v
  <2> QED BY <1>1, <2>1, <2>2 DEF WorkSound
<1>3. CASE v.cut = <<>>
  <2>1. work' = [work EXCEPT ![k] = Idle] /\ UNCHANGED <<book, old, says, batches, told, rewritten>>
    BY <1>3 DEF Embed
  <2>2. Idle \in Work /\ WorkSound(Idle) /\ Idle.at = "idle"
    BY IdleIsWork
  <2> HIDE DEF v, m, c, w
  <2> QED BY <2>1, <2>2, WorkAlone
<1>4. CASE v.cut # <<>>
  <2>1. work' = [work EXCEPT ![k] = w] /\ UNCHANGED <<book, old, says, batches, told, rewritten>>
    BY <1>4 DEF Embed
  <2>2. /\ m \in Nat /\ m <= Len(v.cut) /\ m <= MaxChunks
        /\ m = Len(v.cut) \/ m = MaxChunks
    BY <1>1 DEF Lesser
  <2> HIDE DEF m
  <2>3. c \in Seq(Window) /\ Len(c) = m /\ \A i \in 1 .. m : c[i] = v.cut[i]
    <3> HIDE DEF v
    <3> QED BY <1>1, <2>2
  <2> HIDE DEF c
  <2>4. \A i \in 1 .. m + 1 : Before(c, i) = Before(v.cut, i)
    <3> SUFFICES ASSUME NEW i \in 1 .. m + 1 PROVE Before(c, i) = Before(v.cut, i)
      OBVIOUS
    <3>1. \A j \in 1 .. i - 1 : c[j] = v.cut[j]
      BY <2>2, <2>3
    <3> QED BY <3>1 DEF Before
  <2>5. ASSUME NEW i \in DOMAIN c PROVE Passage(v.text, c[i]) /\ NoHole(v.text, c, i)
    <3>1. i \in 1 .. m /\ i <= MaxChunks /\ i \in DOMAIN v.cut
      BY <1>1, <2>2, <2>3
    <3>2. Passage(v.text, v.cut[i]) /\ NoHole(v.text, v.cut, i)
      BY <1>2, <3>1 DEF CutSound
    <3>3. c[i] = v.cut[i] /\ Before(c, i) = Before(v.cut, i)
      BY <2>2, <2>3, <2>4, <3>1
    <3> HIDE DEF v
    <3> QED BY <3>2, <3>3 DEF NoHole
  <2>6. Len(c) < MaxChunks => \A s \in DOMAIN v.text : \A x \in 0 .. v.text[s].len - 1 :
                                 InSome(Before(c, Len(c) + 1), s, x)
    <3> SUFFICES ASSUME Len(c) < MaxChunks, NEW s \in DOMAIN v.text, NEW x \in 0 .. v.text[s].len - 1
                 PROVE  InSome(Before(c, Len(c) + 1), s, x)
      OBVIOUS
    <3>1. m = Len(v.cut) /\ Covered(v.text, v.cut, v.sec, v.from)
      BY <1>1, <1>2, <2>2, <2>3
    <3>2. Before(c, Len(c) + 1) = Before(v.cut, Len(v.cut) + 1)
      <4>1. m + 1 \in 1 .. m + 1
        BY <2>2
      <4> HIDE DEF v
      <4> QED BY <2>3, <2>4, <3>1, <4>1
    <3>3. s \in 1 .. v.sec /\ s # v.sec
      <4>1. s \in 1 .. Len(v.text)
        BY <1>1
      <4> HIDE DEF v
      <4> QED BY <1>1, <1>2, <4>1
    <3> HIDE DEF v
    <3> QED BY <3>1, <3>2, <3>3 DEF Covered
  <2>7. WellCut(v.text, c)
    <3> HIDE DEF v
    <3> QED BY <2>2, <2>3, <2>5, <2>6 DEF WellCut
  <2>8. w \in Work /\ w.at = "writing" /\ w.text = v.text /\ w.book = v.book /\ w.cut = c
    <3> HIDE DEF v
    <3> QED BY <1>1, <2>3 DEF Work
  <2>9. WorkSound(w)
    <3> HIDE DEF v, w
    <3> QED BY <2>7, <2>8 DEF WorkSound
  <2> HIDE DEF w
  <2> QED BY <1>1, <2>1, <2>8, <2>9, WorkAlone
<1> QED BY <1>3, <1>4

LEMMA StartIndexKeeps ==
    ASSUME MemoryAssumption, MemoryInv, NEW k \in Indexers, NEW b \in Books, StartIndex(k, b) PROVE MemoryInv'
<1> DEFINE w == [Idle EXCEPT !.at = "cutting", !.book = b, !.text = says[b]]
<1>1. /\ says[b] \in Said /\ work \in [Indexers -> Work] /\ book[b] = "done" /\ batches[b] = <<>>
      /\ work' = [work EXCEPT ![k] = w] /\ UNCHANGED <<book, old, says, batches, told, rewritten>>
      /\ work[k].at = "idle"
  BY DEF StartIndex, MemoryInv, MemoryTypeOK
<1>2. /\ w \in Work /\ w.at = "cutting" /\ w.book = b /\ w.text = says[b] /\ w.sec = 1 /\ w.from = 0
      /\ w.cut = <<>>
  BY <1>1, IdleIsWork DEF Idle, Work
<1>3. WorkSound(w)
  <2>1. says[b] \in Seq(SectionRec)
    BY <1>1, TextsAre
  <2>2. CutSound(says[b], <<>>)
    BY DEF CutSound
  <2>3. Covered(says[b], <<>>, 1, 0)
    BY DEF Covered
  <2>4. 1 \in 1 .. Len(says[b]) + 1
    BY <2>1
  <2> HIDE DEF w
  <2> QED BY <1>2, <2>2, <2>3, <2>4 DEF WorkSound
<1> HIDE DEF w
<1>4. /\ work' \in [Indexers -> Work]
      /\ work'[k] = w /\ \A j \in Indexers \ {k} : work'[j] = work[j]
  BY <1>1, <1>2
<1>5. MemoryTypeOK'
  BY <1>1, <1>4 DEF MemoryInv, MemoryTypeOK
<1>6. ASSUME NEW j \in Indexers
      PROVE  /\ WorkSound(work'[j])
             /\ work'[j].at # "idle" =>
                   /\ book'[work'[j].book] = "open" => work'[j].book \in rewritten'
                   /\ work'[j].book \notin rewritten' => work'[j].text = says'[work'[j].book]
  <2>1. CASE j = k
    BY <1>1, <1>2, <1>3, <1>4, <2>1
  <2>2. CASE j # k
    BY <1>1, <1>4, <2>2 DEF MemoryInv
  <2> QED BY <2>1, <2>2
<1>7. ASSUME NEW a \in Books
      PROVE  batches[a] = <<>> \/ Len(batches[a]) + Cardinality(BusyOn(a)') <= Cardinality(Indexers)
  <2>1. CASE a = b
    BY <1>1, <2>1
  <2>2. CASE a # b
    <3>1. BusyOn(a)' = BusyOn(a)
      BY <1>1, <1>2, <1>4, <2>2 DEF BusyOn
    <3> QED BY <3>1 DEF MemoryInv
  <2> QED BY <2>1, <2>2
<1> QED BY <1>1, <1>5, <1>6, <1>7 DEF MemoryInv

LEMMA WriteKeeps == ASSUME MemoryAssumption, MemoryInv, NEW k \in Indexers, Write(k) PROVE MemoryInv'
<1> DEFINE v == work[k]
           c == [text |-> v.text, chunks |-> v.cut]
<1>0. work[k].book \in Books
  BY DEF MemoryInv, MemoryTypeOK, Work
<1> PICK b \in Books : b = v.book
  BY <1>0
<1>1. /\ v \in Work /\ v.at = "writing" /\ b \in Books /\ v.text \in Said /\ v.cut \in Seq(Window)
      /\ work \in [Indexers -> Work] /\ batches \in [Books -> Seq(Batch)]
      /\ WellCut(v.text, v.cut)
      /\ book[b] = "open" => b \in rewritten
      /\ b \notin rewritten => v.text = says[b]
  <2>1. /\ v \in Work /\ v.at = "writing"
        /\ work \in [Indexers -> Work] /\ batches \in [Books -> Seq(Batch)]
    BY DEF Write, MemoryInv, MemoryTypeOK
  <2>2. WorkSound(v)
    BY DEF MemoryInv
  <2>3. /\ book[b] = "open" => b \in rewritten
        /\ b \notin rewritten => v.text = says[b]
    BY <2>1 DEF MemoryInv
  <2> QED BY <2>1, <2>2, <2>3 DEF WorkSound, Work
<1>2. /\ work' = [work EXCEPT ![k] = Idle] /\ UNCHANGED <<book, old, says, told, rewritten>>
      /\ batches' = IF book[b] = "gone" THEN batches ELSE [batches EXCEPT ![b] = Append(@, c)]
  BY DEF Write
<1>3. c \in Batch /\ c.text = v.text /\ c.chunks = v.cut
  BY <1>1 DEF Batch
<1>4. Idle \in Work /\ WorkSound(Idle) /\ Idle.at = "idle"
  BY IdleIsWork
<1>5. /\ work' \in [Indexers -> Work] /\ work'[k] = Idle /\ \A j \in Indexers \ {k} : work'[j] = work[j]
  BY <1>1, <1>2, <1>4
<1>6. CASE book[b] = "gone"
  <2>1. UNCHANGED <<book, old, says, batches, told, rewritten>>
    BY <1>2, <1>6
  <2> QED BY <1>2, <1>4, <2>1, WorkAlone
<1>7. CASE book[b] # "gone"
  <2>1. /\ batches' \in [Books -> Seq(Batch)] /\ batches'[b] = Append(batches[b], c)
        /\ \A a \in Books \ {b} : batches'[a] = batches[a]
    <3> HIDE DEF c
    <3>1. batches[b] \in Seq(Batch) /\ Append(batches[b], c) \in Seq(Batch)
      BY <1>1, <1>3
    <3> QED BY <1>1, <1>2, <1>7, <3>1
  <2>2. MemoryTypeOK'
    BY <1>2, <1>5, <2>1 DEF MemoryInv, MemoryTypeOK
  <2>3. ASSUME NEW j \in Indexers
        PROVE  /\ WorkSound(work'[j])
               /\ work'[j].at # "idle" =>
                     /\ book'[work'[j].book] = "open" => work'[j].book \in rewritten'
                     /\ work'[j].book \notin rewritten' => work'[j].text = says'[work'[j].book]
    <3>1. CASE j = k
      BY <1>4, <1>5, <3>1
    <3>2. CASE j # k
      BY <1>2, <1>5, <3>2 DEF MemoryInv
    <3> QED BY <3>1, <3>2
  <2>4. book[b] = "done" \/ (book[b] = "open" /\ b \in rewritten)
    BY <1>1, <1>7 DEF MemoryInv, MemoryTypeOK
  <2>5. ASSUME NEW a \in Books
        PROVE  batches'[a] # <<>> => book[a] = "done" \/ (book[a] = "open" /\ a \in rewritten)
    <3>1. CASE a = b
      BY <2>4, <3>1
    <3>2. CASE a # b
      BY <2>1, <3>2 DEF MemoryInv
    <3> QED BY <3>1, <3>2
  <2>6. ASSUME NEW a \in Books
        PROVE  batches'[a] = <<>> \/ Len(batches'[a]) + Cardinality(BusyOn(a)') <= Cardinality(Indexers)
    <3>1. CASE a = b
      <4>1. BusyOn(b)' = BusyOn(b) \ {k} /\ k \in BusyOn(b)
        BY <1>1, <1>4, <1>5 DEF BusyOn
      <4>2. Cardinality(BusyOn(b)') = Cardinality(BusyOn(b)) - 1
        <5>1. IsFiniteSet(BusyOn(b)) /\ k \in BusyOn(b)
          BY <4>1, BusyIsFinite
        <5>2. Cardinality(BusyOn(b) \ {k}) = Cardinality(BusyOn(b)) - 1
          BY <5>1, FS_RemoveElement
        <5> QED BY <4>1, <5>2
      <4>3. batches[b] = <<>> \/ Len(batches[b]) + Cardinality(BusyOn(b)) <= Cardinality(Indexers)
        BY <1>1 DEF MemoryInv
      <4>4. Len(batches'[b]) = Len(batches[b]) + 1 /\ Len(batches[b]) \in Nat
        <5>1. batches[b] \in Seq(Batch)
          BY <1>1
        <5> HIDE DEF c
        <5> QED BY <1>3, <2>1, <5>1
      <4>5. batches[b] = <<>> => Len(batches[b]) = 0
        OBVIOUS
      <4>6. /\ Cardinality(BusyOn(b)) \in Nat /\ Cardinality(Indexers) \in Nat
            /\ Cardinality(BusyOn(b)) <= Cardinality(Indexers)
        BY BusyIsFinite
      <4>7. Len(batches'[b]) + Cardinality(BusyOn(b)') <= Cardinality(Indexers)
        <5> QED BY <4>2, <4>3, <4>4, <4>5, <4>6
      <4> QED BY <3>1, <4>7
    <3>2. CASE a # b
      <4>1. BusyOn(a)' = BusyOn(a)
        BY <1>4, <1>5, <3>2 DEF BusyOn
      <4> QED BY <2>1, <3>2, <4>1 DEF MemoryInv
    <3> QED BY <3>1, <3>2
  <2>7. ASSUME NEW a \in Books, NEW n \in DOMAIN batches'[a]
        PROVE  /\ WellCut(batches'[a][n].text, batches'[a][n].chunks)
               /\ a \notin rewritten => batches'[a][n].text = says[a]
    <3>1. CASE n \in DOMAIN batches[a] /\ batches'[a][n] = batches[a][n]
      BY <3>1 DEF MemoryInv
    <3>2. CASE a = b /\ batches'[a][n] = c
      BY <1>1, <1>3, <3>2
    <3>3. (n \in DOMAIN batches[a] /\ batches'[a][n] = batches[a][n]) \/ (a = b /\ batches'[a][n] = c)
      <4>1. batches[a] \in Seq(Batch)
        BY <1>1
      <4>2. CASE a = b
        <5>1. batches'[a] = Append(batches[a], c)
          BY <2>1, <4>2
        <5> HIDE DEF c
        <5>2. \A i \in DOMAIN Append(batches[a], c) :
                 \/ i \in DOMAIN batches[a] /\ Append(batches[a], c)[i] = batches[a][i]
                 \/ Append(batches[a], c)[i] = c
          BY <1>3, <4>1
        <5> QED BY <4>2, <5>1, <5>2
      <4>3. CASE a # b
        BY <2>1, <4>3
      <4> QED BY <4>2, <4>3
    <3> QED BY <3>1, <3>2, <3>3
  <2> HIDE DEF c, v
  <2> QED BY <1>2, <2>2, <2>3, <2>5, <2>6, <2>7 DEF MemoryInv
<1> QED BY <1>6, <1>7

\* Reports are done again, say something else, or go.
LEMMA BooksKeep ==
    ASSUME MemoryAssumption, MemoryInv, NEW b \in Books,
           RunBook(b) \/ (\E t \in Texts, well \in BOOLEAN : FinishBook(b, t, well)) \/ EraseBook(b)
    PROVE  MemoryInv'
<1>1. /\ book \in [Books -> {"open", "done", "gone"}] /\ batches \in [Books -> Seq(Batch)]
      /\ says \in [Books -> Said] /\ rewritten \subseteq Books /\ work \in [Indexers -> Work]
      /\ told.book \in Books
  BY DEF MemoryInv, MemoryTypeOK
<1>2. /\ work' = work /\ told' = told /\ old' = old
      /\ rewritten \subseteq rewritten' /\ rewritten' \subseteq rewritten \union {b}
      /\ \A a \in Books \ {b} : book'[a] = book[a] /\ says'[a] = says[a] /\ batches'[a] = batches[a]
      /\ MemoryTypeOK'
  <2>1. CASE RunBook(b)
    BY <1>1, <2>1 DEF RunBook, MemoryInv, MemoryTypeOK
  <2>2. CASE \E t \in Texts, well \in BOOLEAN : FinishBook(b, t, well)
    BY <1>1, <2>2 DEF FinishBook, MemoryInv, MemoryTypeOK, Said
  <2>3. CASE EraseBook(b)
    BY <1>1, <2>3 DEF EraseBook, MemoryInv, MemoryTypeOK
  <2> QED BY <2>1, <2>2, <2>3
<1>3. /\ book'[b] = "open" => b \in rewritten' \/ book[b] = "open"
      /\ b \notin rewritten' => says'[b] = says[b] \/ book[b] = "open"
      /\ batches'[b] = batches[b] \/ batches'[b] = <<>>
      /\ batches'[b] # <<>> => book'[b] # "gone"
  <2>1. CASE RunBook(b)
    BY <1>1, <2>1 DEF RunBook
  <2>2. CASE \E t \in Texts, well \in BOOLEAN : FinishBook(b, t, well)
    BY <1>1, <2>2 DEF FinishBook
  <2>3. CASE EraseBook(b)
    BY <1>1, <2>3 DEF EraseBook
  <2> QED BY <2>1, <2>2, <2>3
<1>4. ASSUME NEW a \in Books, book[a] = "open" => a \in rewritten
      PROVE  /\ book'[a] = "open" => a \in rewritten'
             /\ a \notin rewritten' => a \notin rewritten /\ says'[a] = says[a]
  BY <1>2, <1>3, <1>4
<1>5. ASSUME NEW j \in Indexers, work[j].at # "idle"
      PROVE  /\ book'[work[j].book] = "open" => work[j].book \in rewritten'
             /\ work[j].book \notin rewritten' => work[j].text = says'[work[j].book]
  <2> DEFINE a == work[j].book
  <2>1. a \in Books /\ (book[a] = "open" => a \in rewritten) /\ (a \notin rewritten => work[j].text = says[a])
    BY <1>1, <1>5 DEF MemoryInv, Work
  <2> HIDE DEF a
  <2>2. (book'[a] = "open" => a \in rewritten') /\ (a \notin rewritten' => work[j].text = says'[a])
    BY <1>4, <2>1
  <2> QED BY <2>2 DEF a
<1>6. ASSUME NEW a \in Books, batches'[a] # <<>>
      PROVE  /\ book'[a] = "done" \/ (book'[a] = "open" /\ a \in rewritten')
             /\ Len(batches'[a]) + Cardinality(BusyOn(a)) <= Cardinality(Indexers)
             /\ \A n \in DOMAIN batches'[a] :
                   /\ WellCut(batches'[a][n].text, batches'[a][n].chunks)
                   /\ a \notin rewritten' => batches'[a][n].text = says'[a]
  <2>1. batches'[a] = batches[a] /\ book'[a] # "gone" /\ book'[a] \in {"open", "done", "gone"}
    <3>1. CASE a = b
      BY <1>2, <1>3, <1>6, <3>1 DEF MemoryTypeOK
    <3>2. CASE a # b
      BY <1>1, <1>2, <1>6, <3>2 DEF MemoryInv
    <3> QED BY <3>1, <3>2
  <2>2. /\ book[a] = "open" => a \in rewritten
        /\ Len(batches[a]) + Cardinality(BusyOn(a)) <= Cardinality(Indexers)
        /\ \A n \in DOMAIN batches[a] : /\ WellCut(batches[a][n].text, batches[a][n].chunks)
                                        /\ a \notin rewritten => batches[a][n].text = says[a]
    BY <1>6, <2>1 DEF MemoryInv
  <2>3. (book'[a] = "open" => a \in rewritten') /\ (a \notin rewritten' => a \notin rewritten /\ says'[a] = says[a])
    BY <1>4, <2>2
  <2> QED BY <2>1, <2>2, <2>3
<1>7. \A a \in Books : BusyOn(a)' = BusyOn(a)
  BY <1>2 DEF BusyOn
<1>8. told.found # {} =>
         /\ book'[told.book] = "open" => told.book \in rewritten'
         /\ told.book \notin rewritten' => told.book \notin rewritten /\ says'[told.book] = says[told.book]
  <2>1. told.found # {} => (book[told.book] = "open" => told.book \in rewritten)
    BY DEF MemoryInv
  <2> QED BY <1>1, <1>4, <2>1
<1>9. \A f \in told.found : /\ Passage(f.text, f.piece)
                            /\ told.book \notin rewritten' => f.text = says'[told.book]
  <2>1. \A f \in told.found : /\ Passage(f.text, f.piece)
                              /\ told.book \notin rewritten => f.text = says[told.book]
    BY DEF MemoryInv
  <2> QED BY <1>8, <2>1
<1>10. \A j \in Indexers : WorkSound(work'[j])
  BY <1>2 DEF MemoryInv
<1>11. ASSUME NEW a \in Books
       PROVE  /\ batches'[a] # <<>> => book'[a] = "done" \/ (book'[a] = "open" /\ a \in rewritten')
              /\ batches'[a] = <<>> \/ Len(batches'[a]) + Cardinality(BusyOn(a)') <= Cardinality(Indexers)
              /\ \A n \in DOMAIN batches'[a] :
                   /\ WellCut(batches'[a][n].text, batches'[a][n].chunks)
                   /\ a \notin rewritten' => batches'[a][n].text = says'[a]
  <2>1. CASE batches'[a] = <<>>
    <3>1. DOMAIN batches'[a] = {}
      BY <2>1
    <3> QED BY <2>1, <3>1
  <2>2. CASE batches'[a] # <<>>
    BY <1>6, <1>7, <2>2
  <2> QED BY <2>1, <2>2
<1> QED BY <1>2, <1>5, <1>8, <1>9, <1>10, <1>11 DEF MemoryInv

LEMMA SearchKeeps == ASSUME MemoryAssumption, MemoryInv, NEW b \in Books, Search(b) PROVE MemoryInv'
<1>1. PICK found \in SUBSET Found(b) : told' = [book |-> b, found |-> found]
  BY DEF Search
<1>2. book[b] # "gone" /\ UNCHANGED <<book, old, says, batches, work, rewritten>>
  BY DEF Search
<1>3. batches[b] \in Seq(Batch) /\ book[b] \in {"open", "done", "gone"}
  BY DEF MemoryInv, MemoryTypeOK
<1>4. ASSUME NEW f \in found
      PROVE  /\ f \in [text : Said, piece : Window] /\ Passage(f.text, f.piece) /\ batches[b] # <<>>
             /\ b \notin rewritten => f.text = says[b]
  <2>0. PICK i \in DOMAIN batches[b] : \E j \in DOMAIN batches[b][i].chunks :
           f = [text |-> batches[b][i].text, piece |-> batches[b][i].chunks[j]]
    BY DEF Found
  <2>1. PICK j \in DOMAIN batches[b][i].chunks :
           f = [text |-> batches[b][i].text, piece |-> batches[b][i].chunks[j]]
    BY <2>0
  <2> DEFINE x == batches[b][i]
  <2>2. x \in Batch /\ WellCut(x.text, x.chunks) /\ (b \notin rewritten => x.text = says[b])
    BY <1>3 DEF MemoryInv
  <2>3. batches[b] # <<>>
    BY <2>1
  <2>4. j \in DOMAIN x.chunks /\ f = [text |-> x.text, piece |-> x.chunks[j]]
    BY <2>1
  <2> HIDE DEF x
  <2>5. x.chunks[j] \in Window /\ x.text \in Said
    BY <2>2, <2>4 DEF Batch
  <2>6. Passage(x.text, x.chunks[j])
    BY <2>2, <2>4 DEF WellCut
  <2> QED BY <2>2, <2>3, <2>4, <2>5, <2>6
<1>5. told'.book = b /\ told'.found = found /\ told' \in [book : Books, found : SUBSET [text : Said, piece : Window]]
  BY <1>1, <1>4
<1>6. found # {} => (book[b] = "open" => b \in rewritten)
  <2>1. found # {} => batches[b] # <<>>
    BY <1>4
  <2> QED BY <2>1 DEF MemoryInv
<1>7. MemoryTypeOK'
  BY <1>2, <1>5 DEF MemoryInv, MemoryTypeOK
<1>8. \A a \in Books : BusyOn(a)' = BusyOn(a)
  BY <1>2 DEF BusyOn
<1> QED BY <1>2, <1>4, <1>5, <1>6, <1>7, <1>8 DEF MemoryInv

LEMMA PruneKeeps == ASSUME MemoryAssumption, MemoryInv, Prune PROVE MemoryInv'
<1>1. batches \in [Books -> Seq(Batch)] /\ UNCHANGED <<book, old, says, work, told, rewritten>>
  BY DEF Prune, MemoryInv, MemoryTypeOK
<1>2. \A b \in Books : batches'[b] = batches[b] \/ batches'[b] = <<>>
  BY DEF Prune
<1>3. batches' \in [Books -> Seq(Batch)]
  <2>1. <<>> \in Seq(Batch)
    OBVIOUS
  <2> QED BY <1>1, <2>1 DEF Prune
<1>4. MemoryTypeOK'
  BY <1>1, <1>3 DEF MemoryInv, MemoryTypeOK
<1>5. \A a \in Books : BusyOn(a)' = BusyOn(a)
  BY <1>1 DEF BusyOn
<1>6. ASSUME NEW a \in Books
      PROVE  /\ batches'[a] # <<>> => book[a] = "done" \/ (book[a] = "open" /\ a \in rewritten)
             /\ batches'[a] = <<>> \/ Len(batches'[a]) + Cardinality(BusyOn(a)') <= Cardinality(Indexers)
             /\ \A n \in DOMAIN batches'[a] :
                  /\ WellCut(batches'[a][n].text, batches'[a][n].chunks)
                  /\ a \notin rewritten => batches'[a][n].text = says[a]
  <2>1. CASE batches'[a] = <<>>
    <3>1. DOMAIN batches'[a] = {}
      BY <2>1
    <3> QED BY <2>1, <3>1
  <2>2. CASE batches'[a] = batches[a]
    BY <1>5, <2>2 DEF MemoryInv
  <2> QED BY <1>2, <2>1, <2>2
<1> QED BY <1>1, <1>4, <1>6 DEF MemoryInv

LEMMA MemoryStep ==
    ASSUME MemoryAssumption, MemoryInv, [MemoryNext]_memoryVars PROVE MemoryInv'
<1>1. ASSUME NEW k \in Indexers, Cut(k) PROVE MemoryInv'
  <2>1. WorkSound(work[k]) /\ work \in [Indexers -> Work]
    BY DEF MemoryInv, MemoryTypeOK
  <2>2. PICK w \in Work : /\ work' = [work EXCEPT ![k] = w] /\ WorkSound(w) /\ w.at = "cutting"
                          /\ w.book = work[k].book /\ w.text = work[k].text /\ work[k].at = "cutting"
    BY <1>1, <2>1, CutKeepsSound
  <2>3. UNCHANGED <<book, old, says, batches, told, rewritten>>
    BY <1>1 DEF Cut
  <2>4. work[k].at # "idle"
    BY <2>2
  <2> QED BY <2>2, <2>3, <2>4, WorkAlone
<1>2. ASSUME NEW k \in Indexers, SkipIndex(k) PROVE MemoryInv'
  <2>1. work' = [work EXCEPT ![k] = Idle] /\ UNCHANGED <<book, old, says, batches, told, rewritten>>
    BY <1>2 DEF SkipIndex
  <2>2. Idle \in Work /\ WorkSound(Idle) /\ Idle.at = "idle"
    BY IdleIsWork
  <2> QED BY <2>1, <2>2, WorkAlone
<1>3. ASSUME NEW b \in Books, Age(b) PROVE MemoryInv'
  <2>1. UNCHANGED <<book, says, batches, work, told, rewritten>> /\ old' = old \union {b}
    BY <1>3 DEF Age
  <2>2. MemoryTypeOK' /\ \A a \in Books : BusyOn(a)' = BusyOn(a)
    BY <2>1 DEF MemoryInv, MemoryTypeOK, BusyOn
  <2> QED BY <2>1, <2>2 DEF MemoryInv
<1>4. CASE UNCHANGED memoryVars
  <2>1. UNCHANGED <<book, old, says, batches, work, told, rewritten>>
    BY <1>4 DEF memoryVars
  <2>2. MemoryTypeOK' /\ \A a \in Books : BusyOn(a)' = BusyOn(a)
    BY <2>1 DEF MemoryInv, MemoryTypeOK, BusyOn
  <2> QED BY <2>1, <2>2 DEF MemoryInv
<1>5. CASE MemoryNext
  BY <1>1, <1>2, <1>3, <1>5, EmbedKeeps, WriteKeeps, StartIndexKeeps, BooksKeep, SearchKeeps, PruneKeeps
     DEF MemoryNext
<1> QED BY <1>4, <1>5

LEMMA InvIsRemembered == MemoryAssumption /\ MemoryInv => MemoryKept
<1> SUFFICES ASSUME MemoryAssumption, MemoryInv PROVE MemoryKept
  OBVIOUS
<1>1. ASSUME NEW b \in Books PROVE Len(batches[b]) <= Cardinality(Indexers)
  <2>1. batches[b] = <<>> \/ Len(batches[b]) + Cardinality(BusyOn(b)) <= Cardinality(Indexers)
    BY DEF MemoryInv
  <2>2. Len(batches[b]) \in Nat /\ (batches[b] = <<>> => Len(batches[b]) = 0)
    BY DEF MemoryInv, MemoryTypeOK
  <2>3. Cardinality(BusyOn(b)) \in Nat /\ Cardinality(Indexers) \in Nat
    BY BusyIsFinite
  <2>4. CASE batches[b] = <<>>
    BY <2>2, <2>3, <2>4
  <2>5. CASE Len(batches[b]) + Cardinality(BusyOn(b)) <= Cardinality(Indexers)
    BY <2>2, <2>3, <2>5
  <2> QED BY <2>1, <2>4, <2>5
<1> QED BY <1>1 DEF MemoryInv, MemoryKept

\* rag.py: chunks belong to a report that was done, are passages of its text without a hole,
\* and a search tells what the report says, for every text, every number of overlapping runs,
\* and whenever retention, deletion or a repeated job come in between.
THEOREM ReportsAreRemembered == MemorySpec => []MemoryKept
<1>1. MemoryInit => MemoryInv
  BY MemoryInitially, MemoryAssumption
<1>2. MemoryInv /\ [MemoryNext]_memoryVars => MemoryInv'
  BY MemoryStep, MemoryAssumption
<1>3. MemoryInv => MemoryKept
  BY InvIsRemembered, MemoryAssumption
<1> QED BY <1>1, <1>2, <1>3, PTL DEF MemorySpec

-----------------------------------------------------------------------------
(* The revisions of the database: the schema.  At every revision there is  *)
(* what the database has for sure, and what it may have besides.  One      *)
(* revision after the other leads from there to what the next one needs    *)
(* and back again, and the last one leaves nothing loose.                  *)

\* What is there from revision n on, or from revision m to n.
From(n, facts, r) == IF n <= r THEN facts ELSE {}
During(m, n, facts, r) == IF m <= r /\ r <= n THEN facts ELSE {}

\* The tables the schema has at revision r.
TablesAt(r) ==
    From(1, BaselineTables, r)
    \union From(2, Tables({"chat_messages"}), r)
    \union From(8, Tables({"push_subscriptions"}), r)
    \union From(9, Tables({"report_chunks"}), r)
    \union From(10, Tables({"withdrawal_requests"}), r)
    \union From(17, Tables({"credit_transactions", "explorations"}), r)
    \union From(19, Tables({"daily_reflections"}), r)
    \union From(25, Tables({"notification_prefs"}), r)
    \union From(26, Tables({"consent_logs"}), r)
    \union From(28, Tables({"cms_articles", "cms_media", "cms_pages", "cms_versions"}), r)
    \union From(29, Tables({"credit_prices", "entitlements"}), r)
    \union From(30, Tables({"funnel_events"}), r)
    \union From(32, TransitTables, r)
    \union From(35, Tables({"subscribers"}), r)

\* What else it has of the tables of the first revision, and of later ones.
FirstParts(r) ==
    During(1, 4, Of("subscriptions", {"chat_id_not_null"}), r)
    \union From(4, Of("birth_profiles", {"zodiac"}), r)
    \union From(5, Of("subscriptions", {"uq_sub_chart_account"}), r)
    \union From(6, Of("orders", {"error"}) \union Of("subscriptions", {"order_id"}), r)
    \union From(7, Aligned, r)
    \union From(10, Of("users", {"balance_rial"}), r)
    \union From(11, Of("orders", {"note"}), r)
    \union From(12, Of("reports", {"updated_at", "ix_reports_status_updated"}), r)
    \union From(13, Of("llm_runs", {"user_id", "kind", "ix_llm_runs_user_id", "ix_llm_runs_kind",
                                    "ix_llm_runs_created_kind"}), r)
    \union From(14, Of("reports", {"audio_status", "audio_r2_key", "ix_reports_audio_status"}), r)
    \union From(17, Of("users", {"credits"}), r)
    \union From(20, Of("users", {"free_exploration_used"}), r)
    \union From(21, Of("plans", {"credits_grant"}), r)
    \union From(22, Of("orders", {"user_id", "ix_orders_user_id", "orders_user_id_fkey"}), r)
    \union From(23, Of("subscriptions", {"last_credit_grant_at"}), r)
    \union From(24, Of("coupons", {"report_only"}), r)
    \union From(27, Of("llm_runs", {"key_slot", "section", "attempt", "error_code", "fallback_used",
                                    "prompt_version", "ix_llm_runs_key_slot"}), r)

LaterParts(r) ==
    From(3, Of("chat_messages", {"chart_id_not_null"}), r)
    \union From(9, Of("report_chunks", {"ix_report_chunks_embedding_hnsw"}), r)
    \union From(15, Of("withdrawal_requests", {"uq_withdrawal_one_pending"}), r)
    \union From(29, Of("credit_transactions", {"idempotency_key", "uq_credit_tx_idem_key"}), r)
    \union During(30, 33, OldFunnel, r)
    \union From(32, Of("notification_prefs", {"transit_alerts"}), r)
    \union During(32, 33, UserKeyOnce \union AlertsSet \union ForecastKey, r)
    \union From(33, Of("transit_forecasts", {"uq_transit_chart_months"}), r)
    \union From(34, NewFunnel \union UserKey, r)
    \union From(35, ForecastKey, r)
    \union From(36, AlertsSet, r)

Sure(r) == TablesAt(r) \union FirstParts(r) \union LaterParts(r)

\* What it may have besides: a drift, what a rollback restores, and what create_all adds.
Loose(r, h) ==
    During(1, 6, Aligned \union Stray, r)
    \union During(1, 36, Of("orders", {"plan_key_references_plans"}), r)
    \union During(17, 17, Of("explorations", {"chart_id_not_null"}), r)
    \union (IF h THEN During(32, 34, Tables({"subscribers"}), r) ELSE {})

\* Schema s has all that is sure at revision r, and nothing but that and what is loose.
Bounds(s, r, h) == Sure(r) \subseteq s /\ s \subseteq Sure(r) \union Loose(r, h)

\* create_all came too early: a later revision will find what it wants to create.
Stuck ==
    /\ handmade
    /\ \/ rev < 30 /\ <<"funnel_events", "table">> \in schema
       \/ rev \in 30 .. 32 /\ <<"transit_forecasts", "uq_transit_chart_months">> \in schema

\* Unless it is stuck, the revision says what the database has, but for what is loose.
SchemaInv == (Bounds(schema, rev, handmade) /\ (handmade => rev >= 32)) \/ Stuck

\* The revisions that only add, and the others.
LEMMA AddsInChain ==
    /\ Chain[2] = ChatMessagesRev /\ Chain[4] = ZodiacRev
    /\ Chain[6] = OrderErrorRev /\ Chain[8] = PushRev
    /\ Chain[10] = WithdrawalsRev /\ Chain[11] = OrderNoteRev
    /\ Chain[12] = HeartbeatRev /\ Chain[13] = RunCostsRev
    /\ Chain[14] = AudioRev /\ Chain[15] = OnePendingRev
    /\ Chain[17] = CreditsRev /\ Chain[19] = ReflectionsRev
    /\ Chain[20] = FreeExplorationRev /\ Chain[21] = PlanCreditsRev
    /\ Chain[22] = OrderUserRev /\ Chain[23] = CreditGrantRev
    /\ Chain[24] = ReportOnlyRev /\ Chain[25] = PrefsRev
    /\ Chain[26] = ConsentRev /\ Chain[27] = TelemetryRev
    /\ Chain[28] = CmsRev /\ Chain[29] = EntitlementsRev
    /\ Chain[30] = FunnelRev /\ Chain[33] = OneForecastRev
  BY DEF Chain

LEMMA OthersInChain ==
    /\ Chain[1] = Baseline /\ Chain[3] = ChatChartRev
    /\ Chain[5] = OneSubscriptionRev /\ Chain[7] = AlignRev
    /\ Chain[9] = ChunksRev /\ Chain[16] = LinkReportsRev
    /\ Chain[18] = ExplorationChartRev /\ Chain[31] = GrantRev
    /\ Chain[32] = TransitRev /\ Chain[34] = ModelNamesRev
    /\ Chain[35] = SubscribersRev /\ Chain[36] = AlertsRev
    /\ Chain[37] = PlanKeyRev
  BY DEF Chain

LEMMA ChainEnds == Len(Chain) = 37
  BY DEF Chain

\* What the schema has of a table, it has with the table.
LEMMA Rooted ==
    ASSUME NEW r \in 0 .. 37, NEW h \in BOOLEAN, NEW f \in Sure(r) \union Loose(r, h)
    PROVE  <<f[1], "table">> \in Sure(r) \union Loose(r, h)
<1> DEFINE First == {"audit_logs", "bot_chat_states", "coupons", "llm_runs", "plans", "prompt_versions",
                     "referral_events", "secrets", "subscriptions", "users", "weekly_reflections",
                     "birth_profiles", "referral_codes", "charts", "orders", "reports"}
           Drifted == During(1, 6, Aligned \union Stray, r)
                      \union During(1, 36, Of("orders", {"plan_key_references_plans"}), r)
           Later == LaterParts(r) \union During(17, 17, Of("explorations", {"chart_id_not_null"}), r)
<1>1. f \in FirstParts(r) \union Drifted => 1 <= r /\ f[1] \in First
  BY DEF FirstParts, From, During, Of, Aligned, Stray
<1>2. 1 <= r => \A t \in First : <<t, "table">> \in TablesAt(r)
  <2>1. \A t \in First : <<t, "table">> \in BaselineTables
    BY DEF BaselineTables, Tables
  <2> QED BY <2>1 DEF TablesAt, From
<1>3. f \in Later =>
        \/ 2 <= r /\ f[1] = "chat_messages"
        \/ 9 <= r /\ f[1] = "report_chunks"
        \/ 10 <= r /\ f[1] = "withdrawal_requests"
        \/ 17 <= r /\ f[1] \in {"credit_transactions", "explorations"}
        \/ 25 <= r /\ f[1] = "notification_prefs"
        \/ 30 <= r /\ f[1] = "funnel_events"
        \/ 32 <= r /\ f[1] \in {"transit_forecasts", "transit_alert_log"}
  BY DEF LaterParts, From, During, Of, OldFunnel, NewFunnel, UserKey, UserKeyOnce, AlertsSet,
         ForecastKey
<1>4. /\ 2 <= r => <<"chat_messages", "table">> \in TablesAt(r)
      /\ 9 <= r => <<"report_chunks", "table">> \in TablesAt(r)
      /\ 10 <= r => <<"withdrawal_requests", "table">> \in TablesAt(r)
      /\ 17 <= r => \A t \in {"credit_transactions", "explorations"} : <<t, "table">> \in TablesAt(r)
  BY DEF TablesAt, From, Tables
<1>5. /\ 25 <= r => <<"notification_prefs", "table">> \in TablesAt(r)
      /\ 30 <= r => <<"funnel_events", "table">> \in TablesAt(r)
      /\ 32 <= r => \A t \in {"transit_forecasts", "transit_alert_log"} : <<t, "table">> \in TablesAt(r)
  BY DEF TablesAt, From, Tables, TransitTables
<1>6. f \in TablesAt(r) \union Tables({"subscribers"}) => f = <<f[1], "table">>
  BY DEF TablesAt, From, Tables, TransitTables, BaselineTables
<1>7. \/ f \in FirstParts(r) \union Drifted
      \/ f \in Later
      \/ f \in TablesAt(r) \union Tables({"subscribers"})
  BY DEF Sure, Loose, During
<1> HIDE DEF First, Drifted, Later
<1>8. TablesAt(r) \subseteq Sure(r)
  BY DEF Sure
<1> QED BY <1>1, <1>2, <1>3, <1>4, <1>5, <1>6, <1>7, <1>8

\* At the last revision it is what the program declares.
LEMMA AtTheEnd == Sure(37) = Declared /\ \A h \in BOOLEAN : Loose(37, h) = {}
<1>1. Sure(37) = Declared
  BY SMTT(60)
     DEF Sure, Loose, TablesAt, FirstParts, LaterParts, From, During, BaselineTables, Aligned,
         Stray, OldFunnel, NewFunnel, UserKey, UserKeyOnce, AlertsSet, ForecastKey,
         TransitTables, Of, Tables, Declared, DeclaredCore, DeclaredShop,
         DeclaredAccounts, DeclaredTransit, DeclaredCms
<1>2. \A h \in BOOLEAN : Loose(37, h) = {}
  BY DEF Loose, During
<1> QED BY <1>1, <1>2

\* Change c applies at revision a.
Fits(c, a, h) ==
    c.create \intersect (Sure(a) \union Loose(a, h)) = {} /\ c.drop \subseteq Sure(a)

\* Change c makes what is sure, or loose, at revision a what is at revision b.
Leads(c, a, b, h) ==
    LET gone == c.drop \union c.clear
    IN  /\ \A f \in Sure(b) :
              \/ f \in c.create \union c.ensure
              \/ f \in Sure(a) /\ f \notin gone /\ <<f[1], "table">> \notin gone
              \/ f \in c.provide /\ f = <<f[1], "table">> /\ f \notin gone
              \/ f \in c.provide /\ <<f[1], "table">> \notin Sure(a) \union Loose(a, h)
        /\ \A f \in Sure(a) \union Loose(a, h) :
              f \in gone \/ <<f[1], "table">> \in gone \/ f \in Sure(b) \union Loose(b, h)
        /\ c.create \union c.ensure \union c.provide \subseteq Sure(b) \union Loose(b, h)

LEMMA FitsApplies ==
    ASSUME NEW c, NEW a, NEW h, Bounds(schema, a, h), Fits(c, a, h)
    PROVE  Applies(c)
  BY DEF Bounds, Fits, Applies

LEMMA LeadsThere ==
    ASSUME NEW c, NEW a, NEW b, NEW h, Bounds(schema, a, h), Leads(c, a, b, h)
    PROVE  Bounds(Applied(c), b, h)
<1> DEFINE gone == c.drop \union c.clear
<1>1. ASSUME NEW f \in Sure(b) PROVE f \in Applied(c)
  <2>1. CASE f \in c.create \union c.ensure
    BY <2>1 DEF Applied
  <2>2. CASE f \in Sure(a) /\ f \notin gone /\ <<f[1], "table">> \notin gone
    BY <2>2 DEF Applied, Bounds, Within
  <2>3. CASE f \in c.provide /\ f = <<f[1], "table">> /\ f \notin gone
    BY <2>3 DEF Applied, Bounds, Within, Missing
  <2>4. CASE f \in c.provide /\ <<f[1], "table">> \notin Sure(a) \union Loose(a, h)
    BY <2>4 DEF Applied, Bounds, Missing
  <2> QED BY <1>1, <2>1, <2>2, <2>3, <2>4 DEF Leads
<1>2. ASSUME NEW f \in Applied(c) PROVE f \in Sure(b) \union Loose(b, h)
  <2>1. CASE f \in c.create \union c.ensure \union c.provide
    BY <2>1 DEF Leads
  <2>2. CASE f \in schema /\ f \notin gone /\ <<f[1], "table">> \notin gone
    BY <2>2 DEF Leads, Bounds
  <2> QED BY <1>2, <2>1, <2>2 DEF Applied, Within, Missing
<1> QED BY <1>1, <1>2 DEF Bounds

\* A change without tables.
Swaps(c, a, b, h) ==
    /\ c.drop = {} /\ c.provide = {} /\ \A f \in c.clear : f[2] # "table"
    /\ c.create \intersect (Sure(a) \union Loose(a, h)) = {}
    /\ Sure(b) \subseteq (Sure(a) \ c.clear) \union c.create \union c.ensure
    /\ (Sure(a) \union Loose(a, h)) \ c.clear \subseteq Sure(b) \union Loose(b, h)
    /\ c.create \union c.ensure \subseteq Sure(b) \union Loose(b, h)

LEMMA SwapsLead ==
    ASSUME NEW c, NEW a, NEW b, NEW h, Swaps(c, a, b, h)
    PROVE  Fits(c, a, h) /\ Leads(c, a, b, h)
<1>1. \A f : <<f[1], "table">> \notin c.clear
  BY DEF Swaps
<1> QED BY <1>1 DEF Swaps, Fits, Leads

\* Revision k has these facts besides those of the one before, which had none of them.
Adding(k, facts) ==
    /\ Sure(k) = Sure(k - 1) \union facts
    /\ \A h \in BOOLEAN :
          /\ facts \intersect (Sure(k - 1) \union Loose(k - 1, h)) = {}
          /\ Loose(k - 1, h) \subseteq Loose(k, h)
          /\ \A f \in Loose(k, h) : f \in Loose(k - 1, h) \/ <<f[1], "table">> \in facts

LEMMA AddingLeads ==
    ASSUME NEW k \in 1 .. 37, NEW id, NEW N, Chain[k] = Adds(id, N), Adding(k, N),
           NEW h \in BOOLEAN
    PROVE  /\ Fits(Chain[k].up, k - 1, h) /\ Leads(Chain[k].up, k - 1, k, h)
           /\ Fits(Chain[k].down, k, h) /\ Leads(Chain[k].down, k, k - 1, h)
<1>1. /\ Sure(k) = Sure(k - 1) \union N
      /\ N \intersect (Sure(k - 1) \union Loose(k - 1, h)) = {}
      /\ Loose(k - 1, h) \subseteq Loose(k, h)
      /\ \A f \in Loose(k, h) : f \in Loose(k - 1, h) \/ <<f[1], "table">> \in N
  BY DEF Adding
<1>2. /\ Chain[k].up = [create |-> N, drop |-> {}, ensure |-> {}, clear |-> {}, provide |-> {}]
      /\ Chain[k].down = [create |-> {}, drop |-> N, ensure |-> {}, clear |-> {}, provide |-> {}]
  BY DEF Adds, NoChange
<1>3. \A f \in Sure(k - 1) : <<f[1], "table">> \in Sure(k - 1) \union Loose(k - 1, h)
  <2>1. k - 1 \in 0 .. 37
    OBVIOUS
  <2> QED BY <2>1, Rooted
<1>4. Fits(Chain[k].up, k - 1, h) /\ Fits(Chain[k].down, k, h)
  BY <1>1, <1>2 DEF Fits
<1>5. Leads(Chain[k].up, k - 1, k, h)
  BY <1>1, <1>2 DEF Leads
<1>6. Leads(Chain[k].down, k, k - 1, h)
  BY <1>1, <1>2, <1>3 DEF Leads
<1> QED BY <1>4, <1>5, <1>6

LEMMA AddsIsAdds ==
    \A id, facts : /\ Adds(id, facts).id = id /\ Adds(id, facts).up.create = facts
                   /\ Adds(id, facts).up.drop = {} /\ Adds(id, facts).up.clear = {}
  BY DEF Adds, NoChange

\* The revisions that only add.
LEMMA Additions ==
    /\ Adding(2, ChatMessagesRev.up.create) /\ Adding(4, ZodiacRev.up.create)
    /\ Adding(6, OrderErrorRev.up.create) /\ Adding(8, PushRev.up.create)
    /\ Adding(10, WithdrawalsRev.up.create) /\ Adding(11, OrderNoteRev.up.create)
    /\ Adding(12, HeartbeatRev.up.create) /\ Adding(13, RunCostsRev.up.create)
    /\ Adding(14, AudioRev.up.create) /\ Adding(15, OnePendingRev.up.create)
    /\ Adding(17, CreditsRev.up.create) /\ Adding(19, ReflectionsRev.up.create)
    /\ Adding(20, FreeExplorationRev.up.create) /\ Adding(21, PlanCreditsRev.up.create)
    /\ Adding(22, OrderUserRev.up.create) /\ Adding(23, CreditGrantRev.up.create)
    /\ Adding(24, ReportOnlyRev.up.create) /\ Adding(25, PrefsRev.up.create)
    /\ Adding(26, ConsentRev.up.create) /\ Adding(27, TelemetryRev.up.create)
    /\ Adding(28, CmsRev.up.create) /\ Adding(29, EntitlementsRev.up.create)
    /\ Adding(30, FunnelRev.up.create) /\ Adding(33, OneForecastRev.up.create)
<1> USE DEF Adding, Adds, NoChange, Sure, Loose, TablesAt, FirstParts, LaterParts, From, During,
            BaselineTables, Aligned, Stray, OldFunnel, NewFunnel, UserKey, UserKeyOnce, AlertsSet,
            ForecastKey, TransitTables, Of, Tables
<1>2. Adding(2, ChatMessagesRev.up.create)
  BY SMTT(30) DEF ChatMessagesRev
<1>4. Adding(4, ZodiacRev.up.create)
  BY SMTT(30) DEF ZodiacRev
<1>6. Adding(6, OrderErrorRev.up.create)
  BY SMTT(30) DEF OrderErrorRev
<1>8. Adding(8, PushRev.up.create)
  <2>1. Sure(8) = Sure(8 - 1) \union PushRev.up.create
    BY SMTT(30) DEF PushRev
  <2>2. \A h \in BOOLEAN : PushRev.up.create \intersect (Sure(8 - 1) \union Loose(8 - 1, h)) = {}
    BY SMTT(30) DEF PushRev
  <2>3. \A h \in BOOLEAN : Loose(8 - 1, h) = Loose(8, h)
    OBVIOUS
  <2> QED BY ONLY <2>1, <2>2, <2>3 DEF Adding
<1>10. Adding(10, WithdrawalsRev.up.create)
  BY SMTT(30) DEF WithdrawalsRev
<1>11. Adding(11, OrderNoteRev.up.create)
  <2>1. Sure(11) = Sure(11 - 1) \union OrderNoteRev.up.create
    BY SMTT(30) DEF OrderNoteRev
  <2>2. \A h \in BOOLEAN : OrderNoteRev.up.create \intersect (Sure(11 - 1) \union Loose(11 - 1, h)) = {}
    BY SMTT(30) DEF OrderNoteRev
  <2>3. \A h \in BOOLEAN : Loose(11 - 1, h) = Loose(11, h)
    OBVIOUS
  <2> QED BY ONLY <2>1, <2>2, <2>3 DEF Adding
<1>12. Adding(12, HeartbeatRev.up.create)
  BY SMTT(30) DEF HeartbeatRev
<1>13. Adding(13, RunCostsRev.up.create)
  BY SMTT(30) DEF RunCostsRev
<1>14. Adding(14, AudioRev.up.create)
  <2>1. Sure(14) = Sure(14 - 1) \union AudioRev.up.create
    BY SMTT(30) DEF AudioRev
  <2>2. \A h \in BOOLEAN : AudioRev.up.create \intersect (Sure(14 - 1) \union Loose(14 - 1, h)) = {}
    BY SMTT(30) DEF AudioRev
  <2>3. \A h \in BOOLEAN : Loose(14 - 1, h) = Loose(14, h)
    OBVIOUS
  <2> QED BY ONLY <2>1, <2>2, <2>3 DEF Adding
<1>15. Adding(15, OnePendingRev.up.create)
  BY SMTT(30) DEF OnePendingRev
<1>17. Adding(17, CreditsRev.up.create)
  BY SMTT(30) DEF CreditsRev
<1>19. Adding(19, ReflectionsRev.up.create)
  BY SMTT(30) DEF ReflectionsRev
<1>20. Adding(20, FreeExplorationRev.up.create)
  BY SMTT(30) DEF FreeExplorationRev
<1>21. Adding(21, PlanCreditsRev.up.create)
  BY SMTT(30) DEF PlanCreditsRev
<1>22. Adding(22, OrderUserRev.up.create)
  <2>1. Sure(22) = Sure(22 - 1) \union OrderUserRev.up.create
    BY SMTT(30) DEF OrderUserRev
  <2>2. \A h \in BOOLEAN : OrderUserRev.up.create \intersect (Sure(22 - 1) \union Loose(22 - 1, h)) = {}
    BY SMTT(30) DEF OrderUserRev
  <2>3. \A h \in BOOLEAN : Loose(22 - 1, h) = Loose(22, h)
    OBVIOUS
  <2> QED BY ONLY <2>1, <2>2, <2>3 DEF Adding
<1>23. Adding(23, CreditGrantRev.up.create)
  BY SMTT(30) DEF CreditGrantRev
<1>24. Adding(24, ReportOnlyRev.up.create)
  BY SMTT(30) DEF ReportOnlyRev
<1>25. Adding(25, PrefsRev.up.create)
  BY SMTT(30) DEF PrefsRev
<1>26. Adding(26, ConsentRev.up.create)
  BY SMTT(30) DEF ConsentRev
<1>27. Adding(27, TelemetryRev.up.create)
  <2>1. Sure(27) = Sure(27 - 1) \union TelemetryRev.up.create
    BY SMTT(30) DEF TelemetryRev
  <2>2. \A h \in BOOLEAN : TelemetryRev.up.create \intersect (Sure(27 - 1) \union Loose(27 - 1, h)) = {}
    BY SMTT(30) DEF TelemetryRev
  <2>3. \A h \in BOOLEAN : Loose(27 - 1, h) = Loose(27, h)
    OBVIOUS
  <2> QED BY ONLY <2>1, <2>2, <2>3 DEF Adding
<1>28. Adding(28, CmsRev.up.create)
  BY SMTT(30) DEF CmsRev
<1>29. Adding(29, EntitlementsRev.up.create)
  BY SMTT(30) DEF EntitlementsRev
<1>30. Adding(30, FunnelRev.up.create)
  BY SMTT(30) DEF FunnelRev
<1>33. Adding(33, OneForecastRev.up.create)
  BY SMTT(30) DEF OneForecastRev
<1> HIDE DEF Adding
<1> QED
  BY ONLY <1>2, <1>4, <1>6, <1>8, <1>10, <1>11, <1>12, <1>13, <1>14, <1>15, <1>17, <1>19, <1>20,
          <1>21, <1>22, <1>23, <1>24, <1>25, <1>26, <1>27, <1>28, <1>29, <1>30, <1>33

Adders == {2, 4, 6, 8} \union 10 .. 15 \union {17} \union 19 .. 30 \union {33}

LEMMA AddsAlong ==
    ASSUME NEW k \in Adders
    PROVE  \E id, facts : Chain[k] = Adds(id, facts) /\ Adding(k, facts)
<1>1. \A rv : (\E id, facts : rv = Adds(id, facts)) => rv = Adds(rv.id, rv.up.create)
  BY AddsIsAdds
<1>2. CASE k = 2
  BY <1>1, <1>2, AddsInChain, Additions DEF ChatMessagesRev
<1>3. CASE k = 4
  BY <1>1, <1>3, AddsInChain, Additions DEF ZodiacRev
<1>4. CASE k = 6
  BY <1>1, <1>4, AddsInChain, Additions DEF OrderErrorRev
<1>5. CASE k = 8
  BY <1>1, <1>5, AddsInChain, Additions DEF PushRev
<1>6. CASE k = 10
  BY <1>1, <1>6, AddsInChain, Additions DEF WithdrawalsRev
<1>7. CASE k = 11
  BY <1>1, <1>7, AddsInChain, Additions DEF OrderNoteRev
<1>8. CASE k = 12
  BY <1>1, <1>8, AddsInChain, Additions DEF HeartbeatRev
<1>9. CASE k = 13
  BY <1>1, <1>9, AddsInChain, Additions DEF RunCostsRev
<1>10. CASE k = 14
  BY <1>1, <1>10, AddsInChain, Additions DEF AudioRev
<1>11. CASE k = 15
  BY <1>1, <1>11, AddsInChain, Additions DEF OnePendingRev
<1>12. CASE k = 17
  BY <1>1, <1>12, AddsInChain, Additions DEF CreditsRev
<1>13. CASE k = 19
  BY <1>1, <1>13, AddsInChain, Additions DEF ReflectionsRev
<1>14. CASE k = 20
  BY <1>1, <1>14, AddsInChain, Additions DEF FreeExplorationRev
<1>15. CASE k = 21
  BY <1>1, <1>15, AddsInChain, Additions DEF PlanCreditsRev
<1>16. CASE k = 22
  BY <1>1, <1>16, AddsInChain, Additions DEF OrderUserRev
<1>17. CASE k = 23
  BY <1>1, <1>17, AddsInChain, Additions DEF CreditGrantRev
<1>18. CASE k = 24
  BY <1>1, <1>18, AddsInChain, Additions DEF ReportOnlyRev
<1>19. CASE k = 25
  BY <1>1, <1>19, AddsInChain, Additions DEF PrefsRev
<1>20. CASE k = 26
  BY <1>1, <1>20, AddsInChain, Additions DEF ConsentRev
<1>21. CASE k = 27
  BY <1>1, <1>21, AddsInChain, Additions DEF TelemetryRev
<1>22. CASE k = 28
  BY <1>1, <1>22, AddsInChain, Additions DEF CmsRev
<1>23. CASE k = 29
  BY <1>1, <1>23, AddsInChain, Additions DEF EntitlementsRev
<1>24. CASE k = 30
  BY <1>1, <1>24, AddsInChain, Additions DEF FunnelRev
<1>25. CASE k = 33
  BY <1>1, <1>25, AddsInChain, Additions DEF OneForecastRev
<1> QED
  BY <1>2, <1>3, <1>4, <1>5, <1>6, <1>7, <1>8, <1>9, <1>10, <1>11, <1>12, <1>13, <1>14, <1>15,
     <1>16, <1>17, <1>18, <1>19, <1>20, <1>21, <1>22, <1>23, <1>24, <1>25 DEF Adders

\* The revisions that change tables, and leave them there.
LEMMA Swappings ==
    ASSUME NEW h \in BOOLEAN
    PROVE  /\ Swaps(ChatChartRev.up, 2, 3, h) /\ Swaps(ChatChartRev.down, 3, 2, h)
           /\ Swaps(OneSubscriptionRev.up, 4, 5, h) /\ Swaps(OneSubscriptionRev.down, 5, 4, h)
           /\ Swaps(AlignRev.up, 6, 7, h) /\ Swaps(AlignRev.down, 7, 6, h)
           /\ Swaps(ChunksRev.up, 8, 9, h)
           /\ Swaps(LinkReportsRev.up, 15, 16, h) /\ Swaps(LinkReportsRev.down, 16, 15, h)
           /\ Swaps(ExplorationChartRev.up, 17, 18, h) /\ Swaps(ExplorationChartRev.down, 18, 17, h)
           /\ Swaps(GrantRev.up, 30, 31, h) /\ Swaps(GrantRev.down, 31, 30, h)
           /\ Swaps(ModelNamesRev.up, 33, 34, h) /\ Swaps(ModelNamesRev.down, 34, 33, h)
           /\ Swaps(AlertsRev.up, 35, 36, h) /\ Swaps(AlertsRev.down, 36, 35, h)
           /\ Swaps(PlanKeyRev.up, 36, 37, h) /\ Swaps(PlanKeyRev.down, 37, 36, h)
<1> USE DEF Swaps, NoChange, Sure, Loose, TablesAt, FirstParts, LaterParts, From, During,
            BaselineTables, Aligned, Stray, OldFunnel, NewFunnel, UserKey, UserKeyOnce, AlertsSet,
            ForecastKey, TransitTables, Of, Tables
<1>1. Swaps(ChatChartRev.up, 2, 3, h)
  BY SMTT(30) DEF ChatChartRev
<1>2. Swaps(ChatChartRev.down, 3, 2, h)
  BY SMTT(30) DEF ChatChartRev
<1>3. Swaps(OneSubscriptionRev.up, 4, 5, h)
  <2>1. OneSubscriptionRev.up = [create |-> {}, drop |-> {},
                                 ensure |-> {<<"subscriptions", "uq_sub_chart_account">>},
                                 clear |-> {<<"subscriptions", "chat_id_not_null">>}, provide |-> {}]
    BY DEF OneSubscriptionRev
  <2> QED BY <2>1
<1>4. Swaps(OneSubscriptionRev.down, 5, 4, h)
  <2>1. OneSubscriptionRev.down = [create |-> {}, drop |-> {},
                                   ensure |-> {<<"subscriptions", "chat_id_not_null">>},
                                   clear |-> {<<"subscriptions", "uq_sub_chart_account">>}, provide |-> {}]
    BY DEF OneSubscriptionRev
  <2> QED BY <2>1
<1>5. Swaps(AlignRev.up, 6, 7, h)
  <2>1. AlignRev.up = [create |-> {}, drop |-> {}, ensure |-> Aligned,
                       clear |-> Stray, provide |-> {}]
    BY DEF AlignRev
  <2> QED BY <2>1
<1>6. Swaps(AlignRev.down, 7, 6, h)
  <2>1. AlignRev.down = [create |-> {<<"referral_codes", "referral_codes_code_key">>}, drop |-> {},
                         ensure |-> {<<"orders", "idx_orders_chart_status">>,
                                     <<"reports", "idx_reports_chart">>},
                         clear |-> Aligned, provide |-> {}]
    BY DEF AlignRev
  <2> QED BY <2>1
<1>7. Swaps(ChunksRev.up, 8, 9, h)
  <2>1. ChunksRev.up = [create |-> Tables({"report_chunks"}), drop |-> {},
                        ensure |-> {<<"report_chunks", "ix_report_chunks_embedding_hnsw">>},
                        clear |-> {}, provide |-> {}]
    BY DEF ChunksRev
  <2> QED BY <2>1
<1>8. Swaps(LinkReportsRev.up, 15, 16, h)
  BY SMTT(30) DEF LinkReportsRev
<1>9. Swaps(LinkReportsRev.down, 16, 15, h)
  BY SMTT(30) DEF LinkReportsRev
<1>10. Swaps(ExplorationChartRev.up, 17, 18, h)
  BY SMTT(30) DEF ExplorationChartRev
<1>11. Swaps(ExplorationChartRev.down, 18, 17, h)
  BY SMTT(30) DEF ExplorationChartRev
<1>12. Swaps(GrantRev.up, 30, 31, h)
  BY SMTT(30) DEF GrantRev
<1>13. Swaps(GrantRev.down, 31, 30, h)
  BY SMTT(30) DEF GrantRev
<1>14. Swaps(ModelNamesRev.up, 33, 34, h)
  <2>1. ModelNamesRev.up = [create |-> NewFunnel, drop |-> {}, ensure |-> UserKey,
                            clear |-> OldFunnel \union AlertsSet \union UserKeyOnce \union ForecastKey,
                            provide |-> {}]
    BY DEF ModelNamesRev
  <2> QED BY <2>1
<1>15. Swaps(ModelNamesRev.down, 34, 33, h)
  <2>1. ModelNamesRev.down = [create |-> ForecastKey \union OldFunnel, drop |-> {},
                              ensure |-> UserKeyOnce \union AlertsSet,
                              clear |-> UserKey \union NewFunnel, provide |-> {}]
    BY DEF ModelNamesRev
  <2> QED BY <2>1
<1>16. Swaps(AlertsRev.up, 35, 36, h)
  BY SMTT(30) DEF AlertsRev
<1>17. Swaps(AlertsRev.down, 36, 35, h)
  BY SMTT(30) DEF AlertsRev
<1>18. Swaps(PlanKeyRev.up, 36, 37, h)
  BY SMTT(30) DEF PlanKeyRev
<1>19. Swaps(PlanKeyRev.down, 37, 36, h)
  BY SMTT(30) DEF PlanKeyRev
<1> HIDE DEF Swaps
<1> QED
  BY ONLY <1>1, <1>2, <1>3, <1>4, <1>5, <1>6, <1>7, <1>8, <1>9, <1>10, <1>11, <1>12, <1>13, <1>14,
          <1>15, <1>16, <1>17, <1>18, <1>19

\* Those that drop tables, or create the ones that are missing.
LEMMA TableMoves ==
    ASSUME NEW h \in BOOLEAN
    PROVE  /\ Fits(Baseline.up, 0, h) /\ Leads(Baseline.up, 0, 1, h) /\ Leads(Baseline.down, 1, 0, h)
           /\ Fits(ChunksRev.down, 9, h) /\ Leads(ChunksRev.down, 9, 8, h)
           /\ ~h => /\ Fits(TransitRev.up, 31, h) /\ Leads(TransitRev.up, 31, 32, h)
                    /\ Fits(TransitRev.down, 32, h) /\ Leads(TransitRev.down, 32, 31, h)
           /\ Fits(SubscribersRev.up, 34, h) /\ Leads(SubscribersRev.up, 34, 35, h)
           /\ Fits(SubscribersRev.down, 35, h) /\ Leads(SubscribersRev.down, 35, 34, h)
<1>1. /\ Fits(Baseline.up, 0, h) /\ Leads(Baseline.up, 0, 1, h) /\ Leads(Baseline.down, 1, 0, h)
  <2> USE DEF Baseline, BaselineUp, BaselineDown, NoChange, Sure, Loose, TablesAt, FirstParts,
              LaterParts, From, During, BaselineTables, Aligned, Stray, OldFunnel, NewFunnel,
              UserKey, UserKeyOnce, AlertsSet, ForecastKey, TransitTables, Of, Tables
  <2>1. Fits(Baseline.up, 0, h)
    BY SMTT(30) DEF Fits
  <2>2. Leads(Baseline.up, 0, 1, h)
    BY SMTT(30) DEF Leads
  <2>3. Leads(Baseline.down, 1, 0, h)
    BY SMTT(30) DEF Leads
  <2> QED BY ONLY <2>1, <2>2, <2>3
<1>2. Fits(ChunksRev.down, 9, h) /\ Leads(ChunksRev.down, 9, 8, h)
  <2> USE DEF ChunksRev, NoChange, Sure, Loose, TablesAt, FirstParts, LaterParts, From, During,
              BaselineTables, Aligned, Stray, OldFunnel, NewFunnel, UserKey, UserKeyOnce, AlertsSet,
              ForecastKey, TransitTables, Of, Tables
  <2>1. Fits(ChunksRev.down, 9, h)
    BY SMTT(30) DEF Fits
  <2>2. Leads(ChunksRev.down, 9, 8, h)
    BY SMTT(30) DEF Leads
  <2> QED BY ONLY <2>1, <2>2
<1>3. ASSUME ~h PROVE Fits(TransitRev.up, 31, h) /\ Leads(TransitRev.up, 31, 32, h)
  <2> DEFINE E == AlertsSet \union {<<"notification_prefs", "transit_alerts">>}
             P == TransitTables \union ForecastKey \union UserKeyOnce
  <2>1. /\ TransitRev.up.drop = {} /\ TransitRev.up.create = {} /\ TransitRev.up.clear = {}
        /\ TransitRev.up.ensure = E /\ TransitRev.up.provide = P
    BY DEF TransitRev, NoChange
  <2> USE <1>3 DEF Sure, Loose, TablesAt, FirstParts, LaterParts, From, During, BaselineTables,
                   Aligned, Stray, OldFunnel, NewFunnel, UserKey, UserKeyOnce, AlertsSet,
                   ForecastKey, TransitTables, Of, Tables
  <2>2. Sure(32) = Sure(31) \union E \union P
    OBVIOUS
  <2>3. \A f \in P : <<f[1], "table">> \notin Sure(31) \union Loose(31, h)
    OBVIOUS
  <2>4. Loose(31, h) \subseteq Loose(32, h)
    OBVIOUS
  <2> HIDE DEF E, P
  <2> QED BY ONLY <2>1, <2>2, <2>3, <2>4 DEF Fits, Leads
<1>4. ASSUME ~h PROVE Fits(TransitRev.down, 32, h) /\ Leads(TransitRev.down, 32, 31, h)
  <2> USE <1>4 DEF TransitRev, NoChange, Sure, Loose, TablesAt, FirstParts, LaterParts, From,
                   During, BaselineTables, Aligned, Stray, OldFunnel, NewFunnel, UserKey,
                   UserKeyOnce, AlertsSet, ForecastKey, TransitTables, Of, Tables
  <2>1. Fits(TransitRev.down, 32, h)
    BY SMTT(30) DEF Fits
  <2>2. Leads(TransitRev.down, 32, 31, h)
    BY SMTT(30) DEF Leads
  <2> QED BY ONLY <2>1, <2>2
<1>5. Fits(SubscribersRev.up, 34, h) /\ Leads(SubscribersRev.up, 34, 35, h)
  <2> DEFINE P == Tables({"subscribers"})
  <2>1. /\ SubscribersRev.up.drop = {} /\ SubscribersRev.up.create = {}
        /\ SubscribersRev.up.clear = {} /\ SubscribersRev.up.ensure = ForecastKey
        /\ SubscribersRev.up.provide = P
    BY DEF SubscribersRev, NoChange
  <2> USE DEF Sure, Loose, TablesAt, FirstParts, LaterParts, From, During, BaselineTables, Aligned,
              Stray, OldFunnel, NewFunnel, UserKey, UserKeyOnce, AlertsSet, ForecastKey,
              TransitTables, Of, Tables
  <2>2. Sure(35) = Sure(34) \union ForecastKey \union P
    OBVIOUS
  <2>3. \A f \in P : f = <<f[1], "table">>
    OBVIOUS
  <2>4. Sure(34) \union Loose(34, h) \subseteq Sure(35) \union Loose(35, h)
    OBVIOUS
  <2> HIDE DEF P
  <2> QED BY ONLY <2>1, <2>2, <2>3, <2>4 DEF Fits, Leads
<1>6. Fits(SubscribersRev.down, 35, h) /\ Leads(SubscribersRev.down, 35, 34, h)
  <2> USE DEF SubscribersRev, NoChange, Sure, Loose, TablesAt, FirstParts, LaterParts, From, During,
              BaselineTables, Aligned, Stray, OldFunnel, NewFunnel, UserKey, UserKeyOnce, AlertsSet,
              ForecastKey, TransitTables, Of, Tables
  <2>1. Fits(SubscribersRev.down, 35, h)
    BY SMTT(30) DEF Fits
  <2>2. Leads(SubscribersRev.down, 35, 34, h)
    BY SMTT(30) DEF Leads
  <2> QED BY ONLY <2>1, <2>2
<1> QED BY <1>1, <1>2, <1>3, <1>4, <1>5, <1>6

\* Every revision applies, and leads to the next.
LEMMA UpLeads ==
    ASSUME NEW r \in 0 .. 36, NEW h \in BOOLEAN, h => r >= 32
    PROVE  Fits(Chain[r + 1].up, r, h) /\ Leads(Chain[r + 1].up, r, r + 1, h)
<1> DEFINE Goal == Fits(Chain[r + 1].up, r, h) /\ Leads(Chain[r + 1].up, r, r + 1, h)
<1> SUFFICES Goal
  OBVIOUS
<1>1. CASE r + 1 \in Adders
  <2>1. PICK id, facts : Chain[r + 1] = Adds(id, facts) /\ Adding(r + 1, facts)
    BY <1>1, AddsAlong
  <2>2. r + 1 \in 1 .. 37 /\ (r + 1) - 1 = r
    OBVIOUS
  <2> QED BY <2>1, <2>2, AddingLeads
<1>2. CASE r \in {0, 31, 34}
  BY <1>2, OthersInChain, TableMoves
<1>3. CASE r \in {2, 4, 6, 8}
  BY <1>3, OthersInChain, Swappings, SwapsLead
<1>4. CASE r \in {15, 17, 30, 33}
  BY <1>4, OthersInChain, Swappings, SwapsLead
<1>5. CASE r \in {35, 36}
  BY <1>5, OthersInChain, Swappings, SwapsLead
<1> HIDE DEF Goal
<1> QED BY <1>1, <1>2, <1>3, <1>4, <1>5 DEF Adders

\* Every revision but the first rolls back, and leads to the one before.
LEMMA DownLeads ==
    ASSUME NEW r \in 1 .. 37, NEW h \in BOOLEAN, ~h
    PROVE  (r > 1 => Fits(Chain[r].down, r, h)) /\ Leads(Chain[r].down, r, r - 1, h)
<1> DEFINE Goal == (r > 1 => Fits(Chain[r].down, r, h)) /\ Leads(Chain[r].down, r, r - 1, h)
<1> SUFFICES Goal
  OBVIOUS
<1>1. CASE r \in Adders
  <2>1. PICK id, facts : Chain[r] = Adds(id, facts) /\ Adding(r, facts)
    BY <1>1, AddsAlong
  <2>2. Fits(Chain[r].down, r, h) /\ Leads(Chain[r].down, r, r - 1, h)
    BY <2>1, AddingLeads
  <2> QED BY <2>2
<1>2. CASE r \in {1, 9, 32, 35}
  BY <1>2, OthersInChain, TableMoves
<1>3. CASE r \in {3, 5, 7, 16}
  BY <1>3, OthersInChain, Swappings, SwapsLead
<1>4. CASE r \in {18, 31, 34, 36, 37}
  BY <1>4, OthersInChain, Swappings, SwapsLead
<1> HIDE DEF Goal
<1> QED BY <1>1, <1>2, <1>3, <1>4 DEF Adders

\* No revision up to 32 takes away what the database is stuck with.
LEMMA UpsSpare ==
    ASSUME NEW r \in 0 .. 31, NEW f \in schema,
           f \in {<<"funnel_events", "table">>, <<"transit_forecasts", "uq_transit_chart_months">>}
    PROVE  f \in Applied(Chain[r + 1].up)
<1> DEFINE TooEarly == {"funnel_events", "transit_forecasts"}
           Spares(c) == c.drop = {} /\ \A g \in c.clear : g[1] \notin TooEarly
<1>1. Spares(Chain[r + 1].up)
  <2>1. CASE r + 1 \in Adders
    <3>1. PICK id, facts : Chain[r + 1] = Adds(id, facts)
      BY <2>1, AddsAlong
    <3> QED BY <3>1, AddsIsAdds
  <2>2. CASE r \in {0, 2, 15, 17, 30}
    BY <2>2, OthersInChain
       DEF Baseline, BaselineUp, ChatChartRev, LinkReportsRev, ExplorationChartRev, GrantRev, NoChange
  <2>3. CASE r = 4
    <3>1. /\ OneSubscriptionRev.up.drop = {}
          /\ OneSubscriptionRev.up.clear = {<<"subscriptions", "chat_id_not_null">>}
      BY DEF OneSubscriptionRev, NoChange
    <3>2. \A g \in {<<"subscriptions", "chat_id_not_null">>} : g[1] \notin TooEarly
      OBVIOUS
    <3> QED BY <2>3, <3>1, <3>2, OthersInChain
  <2>4. CASE r = 6
    <3>1. AlignRev.up.drop = {} /\ AlignRev.up.clear = Stray
      BY DEF AlignRev, NoChange
    <3>2. \A g \in Stray : g[1] \notin TooEarly
      BY DEF Stray
    <3> QED BY <2>4, <3>1, <3>2, OthersInChain
  <2>5. CASE r \in {8, 31}
    <3>1. /\ ChunksRev.up.drop = {} /\ ChunksRev.up.clear = {}
          /\ TransitRev.up.drop = {} /\ TransitRev.up.clear = {}
      BY DEF ChunksRev, TransitRev, NoChange
    <3> QED BY <2>5, <3>1, OthersInChain
  <2> HIDE DEF Spares
  <2> QED BY <2>1, <2>2, <2>3, <2>4, <2>5 DEF Adders
<1>2. f[1] \in TooEarly
  OBVIOUS
<1>3. f \notin Chain[r + 1].up.clear /\ <<f[1], "table">> \notin Chain[r + 1].up.clear
  BY <1>1, <1>2
<1> QED BY <1>1, <1>3 DEF Applied, Within

\* What create_all was too early with, a revision cannot create.
LEMMA Refused ==
    /\ <<"funnel_events", "table">> \in schema => ~Applies(Chain[30].up)
    /\ <<"transit_forecasts", "uq_transit_chart_months">> \in schema => ~Applies(Chain[33].up)
<1>1. <<"funnel_events", "table">> \in FunnelRev.up.create
  BY DEF FunnelRev, Adds, NoChange, Tables
<1>2. <<"transit_forecasts", "uq_transit_chart_months">> \in OneForecastRev.up.create
  BY DEF OneForecastRev, Adds, NoChange
<1>3. Chain[30].up = FunnelRev.up /\ Chain[33].up = OneForecastRev.up
  BY AddsInChain
<1> QED BY <1>1, <1>2, <1>3 DEF Applies

\* From revision 32 on there is nothing left for create_all but one table.
LEMMA ByHand ==
    ASSUME NEW r \in 32 .. 37, NEW f \in Declared
    PROVE  <<f[1], "table">> \in Sure(r) \/ (r < 35 /\ f = <<"subscribers", "table">>)
<1>1. f \in Sure(37) /\ <<f[1], "table">> \in Sure(37)
  <2>1. FALSE \in BOOLEAN /\ 37 \in 0 .. 37 /\ f \in Sure(37)
    BY AtTheEnd
  <2>2. Loose(37, FALSE) = {}
    BY <2>1, AtTheEnd
  <2>3. f \in Sure(37) \union Loose(37, FALSE)
    BY <2>1
  <2>4. <<f[1], "table">> \in Sure(37) \union Loose(37, FALSE)
    BY <2>1, <2>3, Rooted
  <2> QED BY <2>1, <2>2, <2>4
<1>2. <<f[1], "table">> \in TablesAt(37)
  <2>1. \A g \in FirstParts(37) \union LaterParts(37) : g[2] # "table"
    BY DEF FirstParts, LaterParts, From, During, Of, Aligned, OldFunnel, NewFunnel, UserKey,
           UserKeyOnce, AlertsSet, ForecastKey
  <2>2. <<f[1], "table">>[2] = "table"
    OBVIOUS
  <2> QED BY <1>1, <2>1, <2>2 DEF Sure
<1>3. <<f[1], "table">> \in TablesAt(r) \/ (r < 35 /\ <<f[1], "table">> = <<"subscribers", "table">>)
  <2>1. \A g \in TablesAt(37) : g \in TablesAt(r) \/ (r < 35 /\ g = <<"subscribers", "table">>)
    <3>1. TablesAt(37) \subseteq TablesAt(r) \union From(35, Tables({"subscribers"}), 37)
      BY DEF TablesAt, From
    <3>2. r >= 35 => From(35, Tables({"subscribers"}), 37) \subseteq TablesAt(r)
      BY DEF TablesAt, From
    <3>3. From(35, Tables({"subscribers"}), 37) = {<<"subscribers", "table">>}
      BY DEF From, Tables
    <3>4. CASE r >= 35
      BY <3>1, <3>2, <3>4
    <3>5. CASE r < 35
      <4>1. TablesAt(37) \subseteq TablesAt(r) \union {<<"subscribers", "table">>}
        BY <3>1, <3>3
      <4> QED BY <3>5, <4>1
    <3> QED BY <3>4, <3>5
  <2> QED BY <1>2, <2>1
<1>4. f[1] = "subscribers" => f = <<"subscribers", "table">>
  BY <1>1
     DEF Sure, TablesAt, FirstParts, LaterParts, From, During, Of, Tables, BaselineTables,
         TransitTables, Aligned, OldFunnel, NewFunnel, UserKey, UserKeyOnce, AlertsSet, ForecastKey
<1> QED BY <1>3, <1>4 DEF Sure

\* Before, there is something that a revision will refuse.
LEMMA NotBefore ==
    /\ <<"funnel_events", "table">> \in Declared
    /\ <<"transit_forecasts", "uq_transit_chart_months">> \in Declared
    /\ \A r \in 0 .. 31 : <<"transit_forecasts", "table">> \notin Sure(r) \union Loose(r, FALSE)
<1>1. /\ <<"funnel_events", "table">> \in Declared
      /\ <<"transit_forecasts", "uq_transit_chart_months">> \in Declared
  BY DEF Declared, DeclaredTransit, Tables
<1>2. ASSUME NEW r \in 0 .. 31 PROVE <<"transit_forecasts", "table">> \notin Sure(r) \union Loose(r, FALSE)
  BY DEF Sure, Loose, TablesAt, FirstParts, LaterParts, From, During, BaselineTables, Aligned,
         Stray, OldFunnel, NewFunnel, UserKey, UserKeyOnce, AlertsSet, ForecastKey,
         TransitTables, Of, Tables
<1> QED BY <1>1, <1>2

LEMMA LooseGrows ==
    \A r : /\ Loose(r, FALSE) \subseteq Loose(r, TRUE)
           /\ r \in 32 .. 34 => <<"subscribers", "table">> \in Loose(r, TRUE)
  BY DEF Loose, During, Tables

LEMMA SchemaInitially == MigrationsInit => SchemaInv
<1> SUFFICES ASSUME MigrationsInit PROVE SchemaInv
  OBVIOUS
<1>1. CASE rev = 0 /\ schema = {}
  <2>1. Sure(0) = {} /\ Loose(0, FALSE) = {}
    BY DEF Sure, Loose, TablesAt, FirstParts, LaterParts, From, During
  <2> QED BY <1>1, <2>1 DEF MigrationsInit, SchemaInv, Bounds
<1>2. CASE rev = 1 /\ \E d \in Drifts : schema = (BaselineUp.create \ Aligned) \union d
  <2>1. Sure(1) \subseteq BaselineUp.create \ Aligned
    BY DEF Sure, Loose, TablesAt, FirstParts, LaterParts, From, During, BaselineTables, Aligned,
           Stray, OldFunnel, NewFunnel, UserKey, UserKeyOnce, AlertsSet, ForecastKey,
           TransitTables, Of, Tables, BaselineUp, NoChange
  <2>2. (BaselineUp.create \ Aligned) \union Aligned \union Stray \subseteq Sure(1) \union Loose(1, FALSE)
    BY DEF Sure, Loose, TablesAt, FirstParts, LaterParts, From, During, BaselineTables, Aligned,
           Stray, OldFunnel, NewFunnel, UserKey, UserKeyOnce, AlertsSet, ForecastKey,
           TransitTables, Of, Tables, BaselineUp, NoChange
  <2>3. \A d \in Drifts : d \subseteq Aligned \union Stray
    BY MigrationAssumption DEF MigrationAssumption
  <2> QED BY <1>2, <2>1, <2>2, <2>3 DEF MigrationsInit, SchemaInv, Bounds
<1> QED BY <1>1, <1>2 DEF MigrationsInit

LEMMA SchemaStep ==
    ASSUME SchemaInv, rev \in 0 .. 37, handmade \in BOOLEAN, [MigrationsNext]_migrationVars
    PROVE  SchemaInv'
<1>1. CASE Upgrade
  <2>1. /\ rev \in 0 .. 36 /\ Applies(Chain[rev + 1].up) /\ schema' = Applied(Chain[rev + 1].up)
        /\ rev' = rev + 1 /\ handmade' = handmade
    BY <1>1, ChainEnds DEF Upgrade
  <2>2. CASE Bounds(schema, rev, handmade) /\ (handmade => rev >= 32)
    <3>1. Leads(Chain[rev + 1].up, rev, rev + 1, handmade)
      BY <2>1, <2>2, UpLeads
    <3>2. Bounds(schema', rev', handmade')
      BY <2>1, <2>2, <3>1, LeadsThere
    <3> QED BY <2>1, <2>2, <3>2 DEF SchemaInv, Bounds
  <2>3. CASE Stuck
    <3>1. handmade /\ rev # 29 /\ rev # 32
      BY <2>1, <2>3, Refused DEF Stuck
    <3>2. CASE rev < 30 /\ <<"funnel_events", "table">> \in schema
      <4>1. rev \in 0 .. 31 /\ rev + 1 < 30
        BY <2>1, <3>1, <3>2
      <4>2. <<"funnel_events", "table">> \in schema'
        BY <2>1, <3>2, <4>1, UpsSpare
      <4> QED BY <2>1, <3>1, <4>1, <4>2 DEF SchemaInv, Stuck
    <3>3. CASE rev \in 30 .. 32 /\ <<"transit_forecasts", "uq_transit_chart_months">> \in schema
      <4>1. rev \in 0 .. 31 /\ rev + 1 \in 30 .. 32
        BY <2>1, <3>1, <3>3
      <4>2. <<"transit_forecasts", "uq_transit_chart_months">> \in schema'
        BY <2>1, <3>3, <4>1, UpsSpare
      <4> QED BY <2>1, <3>1, <4>1, <4>2 DEF SchemaInv, Stuck
    <3> QED BY <2>3, <3>2, <3>3 DEF Stuck
  <2> QED BY <2>2, <2>3 DEF SchemaInv
<1>2. CASE Downgrade
  <2>1. /\ rev \in 1 .. 37 /\ schema' = Applied(Chain[rev].down) /\ rev' = rev - 1
        /\ handmade = FALSE /\ handmade' = FALSE
    BY <1>2 DEF Downgrade
  <2>2. Bounds(schema, rev, FALSE)
    BY <2>1 DEF SchemaInv, Stuck
  <2>3. Bounds(schema', rev', handmade')
    BY <2>1, <2>2, DownLeads, LeadsThere
  <2> QED BY <2>1, <2>3 DEF SchemaInv, Bounds
<1>3. CASE CreateAll
  <2>1. schema' = schema \union Missing(Declared) /\ handmade' = TRUE /\ rev' = rev
    BY <1>3 DEF CreateAll
  <2>2. CASE Stuck
    BY <2>1, <2>2 DEF SchemaInv, Stuck
  <2>3. CASE Bounds(schema, rev, handmade) /\ rev < 30
    <3>1. <<"funnel_events", "table">> \in schema'
      BY <2>1, NotBefore DEF Missing
    <3> QED BY <2>1, <2>3, <3>1 DEF SchemaInv, Stuck
  <2>4. CASE Bounds(schema, rev, handmade) /\ (handmade => rev >= 32) /\ rev \in 30 .. 31
    <3>1. <<"transit_forecasts", "uq_transit_chart_months">> \in schema'
      <4>1. handmade = FALSE /\ rev \in 0 .. 31
        BY <2>4
      <4>2. Bounds(schema, rev, FALSE)
        BY <2>4, <4>1
      <4>3. <<"transit_forecasts", "table">> \notin schema
        BY <4>1, <4>2, NotBefore DEF Bounds
      <4> QED BY <2>1, <4>3, NotBefore DEF Missing
    <3>2. handmade' /\ rev' \in 30 .. 32
      BY <2>1, <2>4
    <3> QED BY <3>1, <3>2 DEF SchemaInv, Stuck
  <2>5. CASE Bounds(schema, rev, handmade) /\ rev \in 32 .. 37
    <3>1. ASSUME NEW f \in Missing(Declared) PROVE f \in Loose(rev, TRUE)
      <4>1. <<f[1], "table">> \notin Sure(rev)
        BY <2>5 DEF Missing, Bounds
      <4>2. rev < 35 /\ f = <<"subscribers", "table">>
        BY <2>5, <4>1, ByHand DEF Missing
      <4>3. rev \in 32 .. 34
        BY <2>5, <4>2
      <4> QED BY <4>2, <4>3, LooseGrows
    <3>2. Loose(rev, handmade) \subseteq Loose(rev, TRUE)
      BY LooseGrows
    <3>3. Bounds(schema', rev', handmade')
      BY <2>1, <2>5, <3>1, <3>2 DEF Bounds
    <3>4. handmade' => rev' >= 32
      BY <2>1, <2>5
    <3> QED BY <3>3, <3>4 DEF SchemaInv
  <2> QED BY <2>2, <2>3, <2>4, <2>5 DEF SchemaInv
<1>4. CASE UNCHANGED <<rev, schema, handmade>>
  BY <1>4 DEF SchemaInv, Stuck, Bounds
<1> QED BY <1>1, <1>2, <1>3, <1>4 DEF MigrationsNext, BackfillByHand, Buy, migrationVars

\* At the last revision nothing is loose, and before it every revision applies and rolls back.
LEMMA InvConverges ==
    ASSUME SchemaInv, rev \in 0 .. 37, handmade \in BOOLEAN PROVE SchemaConverges
<1>1. rev = 37 => schema = Declared
  BY AtTheEnd DEF SchemaInv, Stuck, Bounds
<1>2. ASSUME ~handmade, rev < 37 PROVE Applies(Chain[rev + 1].up)
  <2>1. Bounds(schema, rev, handmade) /\ rev \in 0 .. 36
    BY <1>2 DEF SchemaInv, Stuck
  <2> QED BY <1>2, <2>1, UpLeads, FitsApplies
<1>3. ASSUME ~handmade, rev > 1 PROVE Applies(Chain[rev].down)
  <2>1. rev \in 1 .. 37 /\ handmade = FALSE
    BY <1>3
  <2>2. Bounds(schema, rev, handmade)
    BY <1>3 DEF SchemaInv, Stuck
  <2>3. Bounds(schema, rev, FALSE)
    BY <2>1, <2>2
  <2>4. Fits(Chain[rev].down, rev, FALSE)
    BY <1>3, <2>1, DownLeads
  <2> QED BY <2>3, <2>4, FitsApplies
<1> QED BY <1>1, <1>2, <1>3, ChainEnds DEF SchemaConverges

-----------------------------------------------------------------------------
(* The revisions of the database: the rows that they move.                 *)

LEMMA ChainIs == DOMAIN Chain = 1 .. Len(Chain) /\ Len(Chain) \in Nat \ {0} /\ Chain[1] = Baseline
  BY DEF Chain

\* A revision knows no facts but those of the chain.
LEMMA FactsOfChain ==
    ASSUME NEW i \in DOMAIN Chain, NEW c \in {Chain[i].up, Chain[i].down}
    PROVE  c.create \subseteq Facts /\ c.ensure \subseteq Facts /\ c.provide \subseteq Facts
<1>1. c \in Changes
  BY DEF Changes
<1> QED BY <1>1 DEF Facts

LEMMA AppliedToFacts ==
    ASSUME NEW i \in DOMAIN Chain, NEW c \in {Chain[i].up, Chain[i].down}, schema \subseteq Facts
    PROVE  Applied(c) \subseteq Facts
<1>1. c.create \subseteq Facts /\ c.ensure \subseteq Facts /\ c.provide \subseteq Facts
  BY FactsOfChain
<1> QED BY <1>1 DEF Applied, Missing

\* 3c92dac1a241 keeps one row wherever it does not fail, and where every expiry is set the
\* latest one.
LEMMA LatestStays ==
    ASSUME NEW table \in SubTables, DOMAIN table # {}, \A a, b \in Deduped(table) : a = b
    PROVE  \E k \in DOMAIN table :
              /\ Deduped(table) = {k}
              /\ (\A a \in DOMAIN table : table[a] # 0) => \A a \in DOMAIN table : table[a] <= table[k]
<1> DEFINE S == DOMAIN table
<1>1. S \in SUBSET SubRows /\ table \in [S -> Expiries]
  BY DEF SubTables
<1>2. IsFiniteSet(S) /\ S \subseteq Int /\ \A a \in S : table[a] \in Nat
  BY <1>1, MigrationAssumption, FS_Subset DEF MigrationAssumption
<1> HIDE DEF S
<1>3. PICK last \in S : \A a \in S : a <= last
  <2> DEFINE f == [a \in S |-> a]
  <2>1. f \in [S -> Int] /\ S # {}
    BY <1>2 DEF S
  <2>2. \E m \in S : \A x \in S : f[x] <= f[m]
    <3> HIDE DEF f
    <3> QED BY <1>2, <2>1, GreatestValue
  <2> QED BY <2>2
<1>4. last \in Deduped(table)
  BY <1>2, <1>3 DEF Deduped, Doomed, S
<1>5. Deduped(table) = {last}
  BY <1>4
<1>6. ASSUME \A a \in S : table[a] # 0, NEW x \in S PROVE table[x] <= table[last]
  <2>1. PICK top \in S : \A a \in S : table[a] <= table[top]
    <3>1. table \in [S -> Int] /\ S # {}
      BY <1>1, <1>2, <1>3
    <3> QED BY <1>2, <3>1, GreatestValue
  <2> DEFINE Tops == {a \in S : table[a] = table[top]}
             g == [a \in Tops |-> a]
  <2>2. IsFiniteSet(Tops) /\ Tops # {} /\ g \in [Tops -> Int]
    <3>1. Tops \subseteq S
      OBVIOUS
    <3>2. IsFiniteSet(Tops)
      BY <1>2, <3>1, FS_Subset
    <3> QED BY <1>2, <2>1, <3>2
  <2>3. PICK m \in Tops : \A a \in Tops : g[a] <= g[m]
    <3> HIDE DEF Tops, g
    <3> QED BY <2>2, GreatestValue
  <2>4. \A a \in Tops : a <= m
    BY <2>3
  <2>5. m \in Deduped(table)
    <3> SUFFICES ASSUME NEW b \in S, Doomed(table, m, b) PROVE FALSE
      BY DEF Deduped, S
    <3>1. m < b /\ table[m] <= table[b]
      BY <1>6 DEF Doomed
    <3>2. table[b] <= table[top] /\ table[m] = table[top]
      BY <2>1
    <3>3. table[b] = table[top]
      BY <1>2, <2>1, <3>1, <3>2
    <3>4. b <= m /\ b \in Int /\ m \in Int
      BY <1>2, <2>4, <3>3
    <3> QED BY <3>1, <3>4
  <2>6. m = last
    BY <1>4, <2>5
  <2> QED BY <2>1, <2>6
<1> QED BY <1>3, <1>5, <1>6 DEF S

\* F-17 gives a report to an order that has none, and to no two.
LEMMA LinksStay ==
    ASSUME NEW before \in LinkTables, NEW paid \in SUBSET Sales, NEW there \in SUBSET Copies,
           NEW l, l = [before |-> before, after |-> before, paid |-> paid, there |-> there],
           NEW after, after = [o \in Sales |-> Linked(l, o)]
    PROVE  /\ after \in LinkTables
           /\ \A o \in Sales : before[o] # "none" => after[o] = before[o]
           /\ \A o, p \in Sales : after[o] = after[p] /\ after[o] # "none" => o = p \/ before[o] = before[p]
<1> DEFINE Gets(o) == \E r \in l.there : Linkable(l, o, r)
<1>1. ASSUME NEW o \in Sales
      PROVE  \/ after[o] = before[o]
             \/ /\ before[o] = "none" /\ paid = {o} /\ after[o] \in Copies
                /\ \A p \in Sales : before[p] # after[o]
  <2>1. CASE Gets(o)
    <3>1. PICK r \in there : after[o] = r /\ Linkable(l, o, r)
      BY <2>1 DEF Linked
    <3> QED BY <3>1 DEF Linkable, Unlinked
  <2>2. CASE ~Gets(o)
    BY <2>2 DEF Linked
  <2> QED BY <2>1, <2>2
<1>2. after \in LinkTables
  <2>1. \A o \in Sales : before[o] \in Copies \union {"none"}
    BY DEF LinkTables
  <2>2. \A o \in Sales : after[o] \in Copies \union {"none"}
    BY <1>1, <2>1
  <2> QED BY <2>2 DEF LinkTables
<1>3. ASSUME NEW o \in Sales, NEW p \in Sales, after[o] = after[p], after[o] # "none"
      PROVE  o = p \/ before[o] = before[p]
  <2>1. \/ after[o] = before[o]
        \/ /\ before[o] = "none" /\ paid = {o} /\ \A q \in Sales : before[q] # after[o]
    BY <1>1
  <2>2. \/ after[p] = before[p]
        \/ /\ before[p] = "none" /\ paid = {p} /\ \A q \in Sales : before[q] # after[p]
    BY <1>1
  <2> QED BY <1>3, <2>1, <2>2
<1> QED BY <1>1, <1>2, <1>3

RowsMoved == LatestKept /\ LinksKept /\ GrantedOnce
MigrationsInv == MigrationsTypeOK /\ RowsMoved

LEMMA NothingMoved == subs = NoSubs /\ links = NoLinks => LatestKept /\ LinksKept
<1>1. DOMAIN NoSubs.rows = {}
  BY DEF NoSubs
<1>2. /\ \A o \in Sales : NoLinks.before[o] = "none" /\ NoLinks.after[o] = "none"
  BY DEF NoLinks
<1> QED BY <1>1, <1>2 DEF LatestKept, LinksKept

LEMMA NoLinksTyped == NoLinks \in [before : LinkTables, after : LinkTables, paid : SUBSET Sales, there : SUBSET Copies]
  BY DEF NoLinks, LinkTables

LEMMA MigrationsInitially == MigrationsInit => MigrationsInv
<1> SUFFICES ASSUME MigrationsInit PROVE MigrationsInv
  OBVIOUS
<1>1. schema \subseteq Facts /\ rev \in 0 .. Len(Chain)
  <2>1. CASE rev = 0 /\ schema = {}
    BY <2>1, ChainIs
  <2>2. CASE rev = 1 /\ \E d \in Drifts : schema = (BaselineUp.create \ Aligned) \union d
    <3>1. Baseline.up = BaselineUp /\ 1 \in DOMAIN Chain
      BY ChainIs DEF Baseline
    <3>2. BaselineUp.create \subseteq Facts
      BY <3>1, ChainIs, FactsOfChain
    <3>3. Aligned \union Stray \subseteq Facts
      BY DEF Facts
    <3>4. \A d \in Drifts : d \subseteq Aligned \union Stray
      BY MigrationAssumption DEF MigrationAssumption
    <3> QED BY <2>2, <3>2, <3>3, <3>4, ChainIs
  <2> QED BY <2>1, <2>2 DEF MigrationsInit
<1>2. MigrationsTypeOK
  BY <1>1, NoLinksTyped DEF MigrationsInit, MigrationsTypeOK
<1>3. GrantedOnce
  BY DEF MigrationsInit, GrantedOnce
<1> QED BY <1>2, <1>3, NothingMoved DEF MigrationsInit, MigrationsInv, RowsMoved

\* An entitlement is written for an order that has none.
LEMMA BackfillRight ==
    ASSUME MigrationsInv, Backfill
    PROVE  granted' \in [Sales -> Nat] /\ due' \subseteq Sales /\ GrantedOnce'
<1>1. granted \in [Sales -> Nat] /\ due \subseteq Sales /\ \A o \in Sales : granted[o] <= 1 /\ (o \in due => granted[o] = 1)
  BY DEF MigrationsInv, MigrationsTypeOK, RowsMoved, GrantedOnce
<1>2. \A o \in Sales : granted'[o] = IF sold[o] = "owned" /\ granted[o] = 0 THEN 1 ELSE granted[o]
  BY DEF Backfill
<1>3. granted' \in [Sales -> Nat] /\ due' = due \union {o \in Sales : sold[o] = "owned"}
  BY <1>1 DEF Backfill
<1>4. \A o \in Sales : granted[o] \in Nat
  BY <1>1
<1> QED BY <1>1, <1>2, <1>3, <1>4 DEF GrantedOnce

LEMMA MigrationsStep == MigrationsInv /\ [MigrationsNext]_migrationVars => MigrationsInv'
<1> SUFFICES ASSUME MigrationsInv, [MigrationsNext]_migrationVars PROVE MigrationsInv'
  OBVIOUS
<1>1. /\ rev \in 0 .. Len(Chain) /\ schema \subseteq Facts /\ handmade \in BOOLEAN
      /\ sold \in [Sales -> {"none", "ownerless", "owned"}]
      /\ granted \in [Sales -> Nat] /\ due \subseteq Sales /\ GrantedOnce
  BY DEF MigrationsInv, MigrationsTypeOK, RowsMoved
<1>2. ASSUME subs' = NoSubs, links' = NoLinks PROVE LatestKept' /\ LinksKept'
  <2>1. (subs = NoSubs /\ links = NoLinks => LatestKept /\ LinksKept)'
    BY NothingMoved, PTL
  <2> QED BY <1>2, <2>1 DEF NoSubs, NoLinks
<1>3. CASE Upgrade
  <2> DEFINE r == Chain[rev + 1]
  <2>1. /\ rev < Len(Chain) /\ schema' = Applied(r.up) /\ rev' = rev + 1 /\ UNCHANGED <<handmade, sold>>
        /\ MoveSubs(r.id) /\ MoveLinks(r.id) /\ MoveGrants(r.id)
    BY <1>3 DEF Upgrade
  <2>2. rev + 1 \in DOMAIN Chain /\ rev' \in 0 .. Len(Chain)
    BY <1>1, <2>1, ChainIs
  <2>3. schema' \subseteq Facts
    BY <1>1, <2>1, <2>2, AppliedToFacts
  <2> HIDE DEF r
  <2>4. /\ subs' = NoSubs \/ subs' \in [rows : SubTables, kept : SUBSET SubRows]
        /\ LatestKept'
    <3>1. CASE subs' = NoSubs
      <4>1. DOMAIN subs'.rows = {}
        BY <3>1 DEF NoSubs
      <4> QED BY <3>1, <4>1 DEF LatestKept
    <3>2. CASE subs' # NoSubs
      <4>1. PICK table \in SubTables :
              /\ \A a, b \in Deduped(table) : a = b
              /\ subs' = [rows |-> table, kept |-> Deduped(table)]
        BY <2>1, <3>2 DEF MoveSubs
      <4>2. Deduped(table) \in SUBSET SubRows
        BY DEF SubTables, Deduped
      <4>3. LatestKept'
        BY <4>1, LatestStays DEF LatestKept
      <4> QED BY <4>1, <4>2, <4>3
    <3> QED BY <3>1, <3>2
  <2>5. /\ links' \in [before : LinkTables, after : LinkTables, paid : SUBSET Sales, there : SUBSET Copies]
        /\ LinksKept'
    <3>1. CASE links' = NoLinks
      <4>1. \A o \in Sales : NoLinks.before[o] = "none" /\ NoLinks.after[o] = "none"
        BY DEF NoLinks
      <4> QED BY <3>1, <4>1, NoLinksTyped DEF LinksKept
    <3>2. CASE links' # NoLinks
      <4>1. PICK before \in LinkTables, paid \in SUBSET Sales, there \in SUBSET Copies :
              LET l == [before |-> before, after |-> before, paid |-> paid, there |-> there]
              IN  links' = [l EXCEPT !.after = [o \in Sales |-> Linked(l, o)]]
        BY <2>1, <3>2 DEF MoveLinks
      <4> DEFINE l == [before |-> before, after |-> before, paid |-> paid, there |-> there]
                 after == [o \in Sales |-> Linked(l, o)]
      <4>2. links' = [before |-> before, after |-> after, paid |-> paid, there |-> there]
        BY <4>1
      <4>3. /\ after \in LinkTables
            /\ \A o \in Sales : before[o] # "none" => after[o] = before[o]
            /\ \A o, p \in Sales : after[o] = after[p] /\ after[o] # "none" => o = p \/ before[o] = before[p]
        BY LinksStay
      <4> HIDE DEF after, l
      <4> QED BY <4>2, <4>3 DEF LinksKept
    <3> QED BY <3>1, <3>2
  <2>6. granted' \in [Sales -> Nat] /\ due' \subseteq Sales /\ GrantedOnce'
    <3>1. CASE Backfill
      BY <3>1, BackfillRight
    <3>2. CASE UNCHANGED <<granted, due>>
      BY <1>1, <3>2 DEF GrantedOnce
    <3> QED BY <2>1, <3>1, <3>2 DEF MoveGrants
  <2>7. MigrationsTypeOK'
    BY <1>1, <2>1, <2>2, <2>3, <2>4, <2>5, <2>6 DEF MigrationsTypeOK
  <2> QED BY <2>4, <2>5, <2>6, <2>7 DEF MigrationsInv, RowsMoved
<1>4. CASE Downgrade
  <2> DEFINE r == Chain[rev]
  <2>1. /\ rev > 0 /\ schema' = Applied(r.down) /\ rev' = rev - 1 /\ UNCHANGED handmade
        /\ sold' = [o \in Sales |-> AfterRollback(r.id, o)]
        /\ \/ granted' = [o \in Sales |-> 0] /\ due' = {}
           \/ granted' = granted /\ due' = due
        /\ subs' = NoSubs /\ links' = NoLinks
    BY <1>4 DEF Downgrade
  <2>2. rev \in DOMAIN Chain /\ rev' \in 0 .. Len(Chain)
    BY <1>1, <2>1, ChainIs
  <2>3. schema' \subseteq Facts
    BY <1>1, <2>1, <2>2, AppliedToFacts
  <2> HIDE DEF r
  <2>4. sold' \in [Sales -> {"none", "ownerless", "owned"}]
    BY <1>1, <2>1 DEF AfterRollback
  <2>5. granted' \in [Sales -> Nat] /\ due' \subseteq Sales /\ GrantedOnce'
    BY <1>1, <2>1 DEF GrantedOnce
  <2>6. MigrationsTypeOK'
    BY <1>1, <2>1, <2>2, <2>3, <2>4, <2>5, NoLinksTyped DEF MigrationsTypeOK, NoSubs, NoLinks
  <2> QED BY <1>2, <2>1, <2>5, <2>6 DEF MigrationsInv, RowsMoved
<1>5. CASE CreateAll
  <2>1. /\ schema' = schema \union Missing(Declared) /\ handmade' = TRUE
        /\ subs' = NoSubs /\ links' = NoLinks /\ UNCHANGED <<rev, sold, granted, due>>
    BY <1>5 DEF CreateAll
  <2>2. schema' \subseteq Facts
    BY <1>1, <2>1 DEF Missing, Facts
  <2>3. MigrationsTypeOK'
    BY <1>1, <2>1, <2>2, NoLinksTyped DEF MigrationsTypeOK, NoSubs, NoLinks
  <2> QED BY <1>1, <1>2, <2>1, <2>3 DEF MigrationsInv, RowsMoved, GrantedOnce
<1>6. CASE BackfillByHand
  <2>1. /\ Backfill /\ subs' = NoSubs /\ links' = NoLinks /\ UNCHANGED <<rev, schema, handmade, sold>>
    BY <1>6 DEF BackfillByHand
  <2>2. granted' \in [Sales -> Nat] /\ due' \subseteq Sales /\ GrantedOnce'
    BY <2>1, BackfillRight
  <2>3. MigrationsTypeOK'
    BY <1>1, <2>1, <2>2, NoLinksTyped DEF MigrationsTypeOK, NoSubs, NoLinks
  <2> QED BY <1>2, <2>1, <2>2, <2>3 DEF MigrationsInv, RowsMoved
<1>7. ASSUME NEW o \in Sales, NEW known \in BOOLEAN, Buy(o, known) PROVE MigrationsInv'
  <2>1. /\ sold' = [sold EXCEPT ![o] = IF known THEN "owned" ELSE "ownerless"]
        /\ subs' = NoSubs /\ links' = NoLinks /\ UNCHANGED <<rev, schema, handmade, granted, due>>
    BY <1>7 DEF Buy
  <2>2. MigrationsTypeOK'
    BY <1>1, <2>1, NoLinksTyped DEF MigrationsTypeOK, NoSubs, NoLinks
  <2> QED BY <1>1, <1>2, <2>1, <2>2 DEF MigrationsInv, RowsMoved, GrantedOnce
<1>8. CASE UNCHANGED migrationVars
  BY <1>8 DEF migrationVars, MigrationsInv, MigrationsTypeOK, RowsMoved, LatestKept, LinksKept,
              GrantedOnce
<1> QED BY <1>3, <1>4, <1>5, <1>6, <1>7, <1>8 DEF MigrationsNext

\* What the chain of revisions promises of schema and rows, for every drift of the old
\* database, any numbers of rows, orders and reports, and any history of revisions, rollbacks and
\* scripts: at the last revision the database is what the models declare, and unless create_all
\* has been there every revision applies, and every one but the first rolls back; one
\* subscription of an account stays, and the latest where every expiry is set; no report
\* changes its order or gets two; and an order has one entitlement at most, and one if it was
\* to get one.
THEOREM MigrationsAreKept == MigrationsSpec => []MigrationsKept
<1>1. MigrationsInv => rev \in 0 .. 37 /\ handmade \in BOOLEAN
  BY ChainEnds DEF MigrationsInv, MigrationsTypeOK
<1>2. MigrationsInv /\ SchemaInv /\ [MigrationsNext]_migrationVars => SchemaInv'
  BY <1>1, SchemaStep
<1>3. MigrationsInv /\ SchemaInv => MigrationsKept
  BY <1>1, InvConverges DEF MigrationsInv, RowsMoved, MigrationsKept
<1> QED
  BY <1>2, <1>3, MigrationsInitially, MigrationsStep, SchemaInitially, PTL DEF MigrationsSpec

-----------------------------------------------------------------------------
(* All services of MCRecords side by side.  Every step of a run is a step  *)
(* of one of them and leaves the variables of the others alone.            *)

LEMMA OneRecordRuns ==
    ASSUME [RecordsNext]_recordsVars
    PROVE  /\ [Next]_vars /\ [OwnersNext]_ownersVars /\ [TodayNext]_todayVars
           /\ [ZodiacNext]_zodiacVars /\ [TextNext]_textVars /\ [BackupsNext]_backupVars
           /\ [AnswersNext]_answersVars /\ [MemoryNext]_memoryVars
           /\ [MigrationsNext]_migrationVars
<1>1. CASE UNCHANGED recordsVars
  BY <1>1 DEF recordsVars
<1>2. CASE RecordsNext
  BY <1>2 DEF RecordsNext, OnlyIn
<1> QED BY <1>1, <1>2

\* A run of MCRecords is a behaviour of every service in it: what is proved of one holds in
\* the run.
THEOREM RecordsAreParts ==
    RecordsSpec => /\ Spec /\ OwnersSpec /\ TodaySpec /\ ZodiacSpec /\ TextSpec /\ BackupsSpec
                   /\ AnswersSpec /\ MemorySpec /\ MigrationsSpec
<1>1. RecordsInit => /\ Init /\ OwnersInit /\ TodayInit /\ ZodiacInit /\ TextInit /\ BackupsInit
                     /\ AnswersInit /\ MemoryInit /\ MigrationsInit
  BY DEF RecordsInit
<1> QED
  BY <1>1, OneRecordRuns, PTL
     DEF RecordsSpec, Spec, OwnersSpec, TodaySpec, ZodiacSpec, TextSpec, BackupsSpec,
         AnswersSpec, MemorySpec, MigrationsSpec

\* Whichever service runs, its variables have their types: no quota, counter or degree leaves
\* its range, no status, row or fact of the schema is unknown.
THEOREM RecordTypesCorrect == RecordsSpec => []RecordTypesOK
<1>1. OwnersInv => OwnersTypeOK
  BY DEF OwnersInv
<1>2. OwnersSpec => []OwnersInv
  BY OwnersInitially, OwnersStep, PTL DEF OwnersSpec
<1>3. AnswersSpec => []AnswersTypeOK
  <2>1. AnswersInit => AnswersInv
    BY AnswersInitially, AnswersAssumption
  <2>2. AnswersInv /\ [AnswersNext]_answersVars => AnswersInv'
    BY AnswersStep, AnswersAssumption
  <2>3. AnswersInv => AnswersTypeOK
    BY DEF AnswersInv
  <2> QED BY <2>1, <2>2, <2>3, PTL DEF AnswersSpec
<1>4. MemorySpec => []MemoryTypeOK
  <2>1. MemoryInit => MemoryInv
    BY MemoryInitially, MemoryAssumption
  <2>2. MemoryInv /\ [MemoryNext]_memoryVars => MemoryInv'
    BY MemoryStep, MemoryAssumption
  <2>3. MemoryInv => MemoryTypeOK
    BY DEF MemoryInv
  <2> QED BY <2>1, <2>2, <2>3, PTL DEF MemorySpec
<1>5. MigrationsSpec => []MigrationsTypeOK
  <2>1. MigrationsInv => MigrationsTypeOK
    BY DEF MigrationsInv
  <2> QED BY <2>1, MigrationsInitially, MigrationsStep, PTL DEF MigrationsSpec
<1>6. /\ TypeOK /\ OwnersTypeOK /\ TodayTypeOK /\ ZodiacTypeOK /\ TextTypeOK /\ BackupsTypeOK
      /\ AnswersTypeOK /\ MemoryTypeOK /\ MigrationsTypeOK
      => RecordTypesOK
  BY DEF RecordTypesOK
<1> QED
  BY <1>1, <1>2, <1>3, <1>4, <1>5, <1>6, RecordsAreParts, TypeCorrect, TodayTypeCorrect,
     SkyTypeCorrect, TextTypeCorrect, BackupsTypeCorrect, PTL

\* Where the sky runs, what is read of a body, a house, an aspect and a day is what the
\* circle says, whatever its size, orbs and cusps.
THEOREM SkyOfRecords == RecordsSpec => []SkyIsReadRight
<1>1. SkyReadRight => SkyIsReadRight
  BY DEF SkyIsReadRight
<1> QED BY <1>1, RecordsAreParts, SkyIsRead, PTL

\* Where the text runs, the gate lets a draft pass that keeps to the evidence and stops one
\* that does not.
THEOREM GatesOfRecords == RecordsSpec => []GatesAreFair
<1>1. GateIsFair => GatesAreFair
  BY DEF GatesAreFair
<1> QED BY <1>1, RecordsAreParts, GatesAreFairAlways, PTL

\* What a run of the records checks, for every instance of them.
THEOREM RecordsAreSound ==
    RecordsSpec => /\ []RecordTypesOK /\ []ChatIsPaid /\ []SkyIsReadRight /\ []GatesAreFair
                   /\ []GoodBackupKept /\ []AnswersAreWhole /\ []MemoryKept /\ []MigrationsKept
                   /\ ChartsFollowReader /\ FreeLayerKept
<1> QED
  BY RecordsAreParts, RecordTypesCorrect, ChatIsCovered, SkyOfRecords, GatesOfRecords,
     BackupsAreKept, AnswersStayWhole, ReportsAreRemembered, MigrationsAreKept,
     ReadersKeepCharts, FreeLayerIsKept, PTL
=============================================================================
