-------------------------------- MODULE LLM --------------------------------
(***************************************************************************)
(* The router of language models that a worker keeps for one section of    *)
(* the reports (app/core/llm.py: LLMRouter, GoPoolProvider, KeySlot,       *)
(* ZenFreeProvider, OmniProvider, build_section_router).                   *)
(*                                                                         *)
(* build_section_router is cached, so the calls of all reports that the    *)
(* worker writes share the keys, their error streaks and cool-downs, and   *)
(* the health of the providers.  Calls are coroutines of one process: from *)
(* one await to the next a call runs alone, and each action below is such  *)
(* a stretch, from the answer a call was waiting for to the next request   *)
(* it sends.                                                               *)
(***************************************************************************)
EXTENDS Integers, FiniteSets

CONSTANTS
    Calls,         \* calls that can run at a time
    ApiKeys,       \* API keys of the pool
    Providers,     \* the router's providers, among "gateway", "pool" and "zen"
    Threshold,     \* _CIRCUIT_THRESHOLD
    MaxInFlight,   \* GO_MAX_IN_FLIGHT_PER_KEY
    MaxCalls       \* bound: calls made

ASSUME LLMAssumption ==
    /\ IsFiniteSet(Calls) /\ IsFiniteSet(ApiKeys) /\ ApiKeys # {}
    /\ Providers \subseteq {"gateway", "pool", "zen"} /\ Providers # {}
    /\ Threshold \in Nat \ {0} /\ MaxInFlight \in Nat /\ MaxCalls \in Nat

VARIABLES
    slots,    \* slots[k]: KeySlot.in_flight, error_streak and tripped()
    health,   \* health[p]: ProviderHealth of a provider
    call,     \* call[c]: what a call waits for, and what it has tried
    begun     \* calls made so far

routerVars == <<slots, health, call, begun>>

Results == {"text", "empty", "quota", "error"}
Ends == {"text", "empty", "failed", "deadline"}

KeySlot == [inFlight : Nat, streak : Nat, tripped : BOOLEAN]

\* cost is whether cost_usd is above zero; the circuit of the pool is its keys'.
ProviderHealth == [healthy : BOOLEAN, streak : Nat, cost : BOOLEAN, open : BOOLEAN]

\* left: providers still to be asked, the first of them the one being asked;
\* skipped: those whose circuit was open when the call began.
Call == [pc : {"idle", "gateway", "pool", "zen", "ended"}, left : SUBSET Providers,
         rank : [Providers -> Nat], tried : SUBSET ApiKeys, key : ApiKeys \union {"none"},
         asked : SUBSET Providers, skipped : SUBSET Providers, end : Ends]

RouterTypeOK ==
    /\ slots \in [ApiKeys -> KeySlot]
    /\ health \in [Providers -> ProviderHealth]
    /\ call \in [Calls -> Call]
    /\ begun \in 0 .. MaxCalls

NoCall == [pc |-> "idle", left |-> {}, rank |-> [p \in Providers |-> 0], tried |-> {},
           key |-> "none", asked |-> {}, skipped |-> {}, end |-> "failed"]

RouterInit ==
    /\ slots = [k \in ApiKeys |-> [inFlight |-> 0, streak |-> 0, tripped |-> FALSE]]
    /\ health = [p \in Providers |->
                    [healthy |-> TRUE, streak |-> 0, cost |-> FALSE, open |-> FALSE]]
    /\ call = [c \in Calls |-> NoCall]
    /\ begun = 0

-----------------------------------------------------------------------------
(* LLMRouter._rank.                                                        *)

\* The place of a provider in the router's list.
Listed(p) == CASE p = "gateway" -> 1 [] p = "pool" -> 2 [] p = "zen" -> 3

\* GoPoolProvider.tripped: down when every key is.
CircuitOpen(p) ==
    IF p = "pool" THEN \A k \in ApiKeys : slots[k].tripped ELSE health[p].open

Closed == {p \in Providers : ~CircuitOpen(p)}
Candidates == IF Closed = {} THEN Providers ELSE Closed

\* The sort key: not healthy, error_streak, cost_usd; the sort is stable.
Before(p, q) ==
    LET a == health[p] b == health[q]
    IN  \/ a.healthy /\ ~b.healthy
        \/ /\ a.healthy = b.healthy
           /\ \/ a.streak < b.streak
              \/ /\ a.streak = b.streak
                 /\ \/ ~a.cost /\ b.cost
                    \/ a.cost = b.cost /\ Listed(p) < Listed(q)

Rank == [p \in Providers |-> Cardinality({q \in Candidates : Before(q, p)})]

-----------------------------------------------------------------------------
(* The pool.                                                               *)

\* complete(): keys not tried yet, those in service first, those below their cap
\* before them; the least busy, and among these the one with the shortest streak.
\* last_latency_ms, which decides between equals, is left open.
KeyChoices(s, tried) ==
    LET untried == ApiKeys \ tried
        fresh == {k \in untried : ~s[k].tripped}
        low == {k \in fresh : s[k].inFlight < MaxInFlight}
        pool == IF low # {} THEN low ELSE IF fresh # {} THEN fresh ELSE untried
    IN  {k \in pool : \A j \in pool : \/ s[k].inFlight < s[j].inFlight
                                      \/ /\ s[k].inFlight = s[j].inFlight
                                         /\ s[k].streak <= s[j].streak}

\* A fault: a success closes the key's circuit again, as report_success does for
\* a provider.
TrackReopens(slot, res) ==
    CASE res = "text" -> [slot EXCEPT !.streak = 0, !.tripped = FALSE]
      [] res \in {"empty", "quota"} \/ slot.streak + 1 >= Threshold ->
            [slot EXCEPT !.streak = 0, !.tripped = TRUE]
      [] OTHER -> [slot EXCEPT !.streak = @ + 1]

\* _track and KeySlot.trip: an empty answer and a used-up quota cool the key down
\* at once, other errors at the threshold.
Track(slot, res) ==
    CASE res = "text" -> [slot EXCEPT !.streak = 0]
      [] res \in {"empty", "quota"} \/ slot.streak + 1 >= Threshold ->
            [slot EXCEPT !.streak = 0, !.tripped = TRUE]
      [] OTHER -> [slot EXCEPT !.streak = @ + 1]

Returned(slot) == [slot EXCEPT !.inFlight = @ - 1]

\* report_success; the costs of the gateway and of the free tier are zero.
Success(p) ==
    [health EXCEPT ![p] = [healthy |-> @.healthy, streak |-> 0, cost |-> @.cost \/ p = "pool",
                           open |-> FALSE]]

\* report_error.
Failure(p) ==
    [health EXCEPT ![p] = [healthy |-> @.streak + 1 < 5, streak |-> @.streak + 1, cost |-> @.cost,
                           open |-> @.open \/ @.streak + 1 >= Threshold]]

\* ZenFreeProvider: a used-up free quota cools it down and is not held against it.
FreeQuota ==
    [health EXCEPT !["zen"] = [healthy |-> @.streak + 1 < 5, streak |-> 0, cost |-> @.cost,
                               open |-> TRUE]]

-----------------------------------------------------------------------------
(* LLMRouter._complete.                                                    *)

Waiting == {"gateway", "pool", "zen"}

\* What a call has tried is looked at only when it failed.
End(c, cl, how) ==
    call' = [call EXCEPT ![c] = [(IF how = "failed" THEN cl ELSE NoCall)
                                    EXCEPT !.pc = "ended", !.end = how]]

\* A request with key k is sent.
AskKey(c, cl, s, k) ==
    /\ slots' = [s EXCEPT ![k].inFlight = @ + 1]
    /\ call' = [call EXCEPT ![c] = [cl EXCEPT !.pc = "pool", !.key = k,
                                              !.tried = @ \union {k},
                                              !.asked = @ \union {"pool"}]]

\* The next provider in the order of the ranking, or the end.
AskNext(c, cl, s) ==
    IF cl.left = {} THEN End(c, cl, "failed") /\ slots' = s
    ELSE \E p \in cl.left :
            /\ \A q \in cl.left : cl.rank[p] <= cl.rank[q]
            /\ IF p = "pool"
               THEN \E k \in KeyChoices(s, {}) : AskKey(c, cl, s, k)
               ELSE /\ call' = [call EXCEPT ![c] = [cl EXCEPT !.pc = p,
                                                             !.asked = @ \union {p}]]
                    /\ slots' = s

BeginCall(c) ==
    /\ call[c].pc \in {"idle", "ended"}
    /\ begun < MaxCalls
    /\ begun' = begun + 1
    /\ AskNext(c, [NoCall EXCEPT !.left = Candidates, !.rank = Rank,
                                 !.skipped = Providers \ Candidates], slots)
    /\ UNCHANGED health

\* OmniProvider keeps no health: the gateway is never cooled down.
GatewayAnswers(c, res) ==
    /\ call[c].pc = "gateway"
    /\ IF res \in {"text", "empty"}
       THEN End(c, call[c], res) /\ UNCHANGED slots
       ELSE AskNext(c, [call[c] EXCEPT !.left = @ \ {"gateway"}], slots)
    /\ UNCHANGED <<health, begun>>

\* An empty answer is no error to the provider, nor to the router.
ZenAnswers(c, res) ==
    /\ call[c].pc = "zen"
    /\ health' = CASE res \in {"text", "empty"} -> Success("zen")
                   [] res = "quota" -> FreeQuota
                   [] res = "error" -> Failure("zen")
    /\ IF res \in {"text", "empty"}
       THEN End(c, call[c], res) /\ UNCHANGED slots
       ELSE AskNext(c, [call[c] EXCEPT !.left = @ \ {"zen"}], slots)
    /\ UNCHANGED begun

\* A fault: keys that are cooled down are not tried at all.
PoolGivesUp(c, res) ==
    LET k == call[c].key
        s == [slots EXCEPT ![k] = Track(Returned(@), res)]
        usable == {j \in ApiKeys \ call[c].tried : ~s[j].tripped}
    IN  /\ call[c].pc = "pool"
        /\ health' = IF res = "text" THEN Success("pool") ELSE Failure("pool")
        /\ IF res = "text" THEN End(c, call[c], "text") /\ slots' = s
           ELSE IF usable # {}
           THEN \E j \in KeyChoices(s, call[c].tried) : AskKey(c, call[c], s, j)
           ELSE IF res = "empty" THEN End(c, call[c], "empty") /\ slots' = s
           ELSE AskNext(c, [call[c] EXCEPT !.left = @ \ {"pool"}], s)
        /\ UNCHANGED begun

\* GoPoolProvider.complete: an answer with text ends the call, any other moves it
\* on to the next key.  What the last key says is what the router sees: an empty
\* answer is a success to it.
PoolAnswers(c, res) ==
    LET k == call[c].key
        s == [slots EXCEPT ![k] = Track(Returned(@), res)]
    IN  /\ call[c].pc = "pool"
        /\ health' = IF res = "text" THEN Success("pool") ELSE Failure("pool")
        /\ IF res = "text" THEN End(c, call[c], "text") /\ slots' = s
           ELSE IF call[c].tried # ApiKeys
           THEN \E j \in KeyChoices(s, call[c].tried) : AskKey(c, call[c], s, j)
           ELSE IF res = "empty" THEN End(c, call[c], "empty") /\ slots' = s
           ELSE AskNext(c, [call[c] EXCEPT !.left = @ \ {"pool"}], s)
        /\ UNCHANGED begun

\* A fault: the cancelled request is not taken off its key.
DeadlineLeaksSlot(c) ==
    /\ call[c].pc \in Waiting
    /\ End(c, call[c], "deadline")
    /\ UNCHANGED <<slots, health, begun>>

\* LLMRouter.complete: _DEADLINE is over and the call is cancelled where it
\* waits; the finally of the pool runs, _track does not.
Deadline(c) ==
    /\ call[c].pc \in Waiting
    /\ slots' = IF call[c].pc = "pool" THEN [slots EXCEPT ![call[c].key] = Returned(@)]
                ELSE slots
    /\ End(c, call[c], "deadline")
    /\ UNCHANGED <<health, begun>>

KeyCooledDown(k) ==
    /\ slots[k].tripped
    /\ slots' = [slots EXCEPT ![k].tripped = FALSE]
    /\ UNCHANGED <<health, call, begun>>

ProviderCooledDown(p) ==
    /\ health[p].open
    /\ health' = [health EXCEPT ![p].open = FALSE]
    /\ UNCHANGED <<slots, call, begun>>

RouterNext ==
    \/ \E c \in Calls :
          \/ BeginCall(c) \/ Deadline(c)
          \/ \E res \in Results : GatewayAnswers(c, res) \/ PoolAnswers(c, res) \/ ZenAnswers(c, res)
    \/ \E k \in ApiKeys : KeyCooledDown(k)
    \/ \E p \in Providers : ProviderCooledDown(p)

RouterSpec == RouterInit /\ [][RouterNext]_routerVars

-----------------------------------------------------------------------------
(* Correctness.                                                            *)

\* The cap and the choice of the least busy key rest on in_flight: it is the
\* number of calls that wait for an answer to the key, whichever way calls end.
InFlightHonest ==
    \A k \in ApiKeys :
        slots[k].inFlight = Cardinality({c \in Calls : call[c].pc = "pool" /\ call[c].key = k})

\* "One exhausted key must not stall the pool": a call that fails, and was not cut
\* off by the deadline, has asked every provider but those whose circuit was open
\* when it began, and if it came to the pool it has tried each key, whatever other
\* calls did to the streaks meanwhile.
FailureIsLast ==
    \A c \in Calls :
        call[c].pc = "ended" /\ call[c].end = "failed" =>
            /\ call[c].asked \union call[c].skipped = Providers
            /\ call[c].asked # {}
            /\ "pool" \in call[c].asked => call[c].tried = ApiKeys

\* The books of the key pool: after every step in_flight of a key is the number of calls
\* that wait for it; and "don't hammer for 5 min": the late answer of another call on it
\* does not bring a cooled-down key back to service, only time does.
KeyPoolKept ==
    [][/\ InFlightHonest'
       /\ \A k \in ApiKeys : slots[k].tripped /\ ~slots'[k].tripped => KeyCooledDown(k)]_routerVars

\* docs/ROUTING.md: the free tier comes after the pool.
FreeTierIsLast ==
    \A c \in Calls :
        call[c].pc = "zen" /\ "pool" \in Providers => "pool" \in call[c].asked \union call[c].skipped
=============================================================================
