-------------------------------- MODULE Bots --------------------------------
(***************************************************************************)
(* The chat bots of Telegram and Bale: app/main.py, _dedupe_update and the *)
(* webhooks; app/bots/handler.py, the dialogue that asks for date, time,   *)
(* city and zodiac system; app/bots/state.py, where it is kept.            *)
(*                                                                         *)
(* One chat.  A platform delivers an update again until it gets an answer, *)
(* to any of the web processes.  Inside a process a handler runs without   *)
(* an await from its look at the state to the write of the next one, so    *)
(* what meets are handlers of different processes.                         *)
(***************************************************************************)
EXTENDS Integers, FiniteSets

CONSTANTS
    Processes,      \* web processes
    Updates,        \* updates of the chat
    Missing, Earlier,  \* no answer to a question, and one given before the model starts
    StartStages,    \* bound: where the dialogue may be when the model starts
    MaxDeliveries,  \* bound: deliveries
    MaxLapses       \* bound: claims that expire, ids that are dropped, processes that die

ASSUME BotsAssumption ==
    /\ StartStages \subseteq {"none", "date", "time", "city", "zodiac"}
    /\ Missing \notin Updates \union {Earlier}
    /\ IsFiniteSet(Processes) /\ MaxDeliveries \in Nat /\ MaxLapses \in Nat

VARIABLES
    row,        \* the row of bot_chat_states
    msg,        \* msg[u]: what kind of update u is
    claims,     \* updates with a key botup:{id} in Redis
    local,      \* local[p]: _seen_update_ids of a process
    delivered,  \* deliveries so far, repeated ones included
    handled,    \* handled[u]: times a handler has run for it
    lapses,     \* claims that expired, ids that were dropped, processes that died
    step,       \* step[p]: the handler a process runs, with what it has read
    torn        \* history: a write of a stale row met another one

botsVars == <<row, msg, claims, local, delivered, handled, lapses, step, torn>>

Fields == {"date", "time", "city"}
Stages == {"date", "time", "city", "zodiac"}
UpdateKinds == Fields \union {"chart_start", "cancel", "zodiac", "else"}

\* The state "waiting_..." without its prefix ("none": no row), and the payload:
\* for each field, the update that gave it; two of them do not say the same.
Payload == [Fields -> Updates \union {Missing, Earlier}]
Row == [at : Stages \union {"none"}, has : Payload]
NoFields == [f \in Fields |-> Missing]
NoRow == [at |-> "none", has |-> NoFields]

\* The fields that a stage takes for granted, and the stage that asks for a field.
Presupposed(at) == CASE at = "time" -> {"date"}
                     [] at = "city" -> {"date", "time"}
                     [] at = "zodiac" -> Fields
                     [] OTHER -> {}
Fits(r) == \A f \in Presupposed(r.at) : r.has[f] # Missing
After(f) == CASE f = "date" -> "time" [] f = "time" -> "city" [] f = "city" -> "zodiac"

NoUpdate == [pc |-> "idle", read |-> NoRow, next |-> NoRow]

BotsTypeOK ==
    /\ row \in Row
    /\ msg \in [Updates -> UpdateKinds]
    /\ claims \subseteq Updates
    /\ local \in [Processes -> SUBSET Updates]
    /\ delivered \in 0 .. MaxDeliveries
    /\ handled \in [Updates -> 0 .. MaxDeliveries]
    /\ lapses \in 0 .. MaxLapses
    /\ step \in [Processes -> [pc : {"idle", "set", "write", "clear", "compute"},
                               read : Row, next : Row]]
    /\ torn \in BOOLEAN

\* The dialogue may have been going on for a while.
BotsInit ==
    /\ row \in {[at |-> at, has |-> [f \in Fields |-> IF f \in Presupposed(at) THEN Earlier ELSE Missing]] :
                   at \in StartStages}
    /\ msg \in [Updates -> UpdateKinds]
    /\ claims = {}
    /\ local = [p \in Processes |-> {}]
    /\ delivered = 0
    /\ handled = [u \in Updates |-> 0]
    /\ lapses = 0
    /\ step = [p \in Processes |-> NoUpdate]
    /\ torn = FALSE

-----------------------------------------------------------------------------
(* _dedupe_update                                                          *)

\* The local set; when it is full, set.pop() drops some id.
SeenLocally(p, u) ==
    /\ u \in local[p]
    /\ UNCHANGED <<local, lapses>>

\* A fault: the ids are not added to the local set.
RememberNothing(p, u) == u \notin local[p] /\ UNCHANGED <<local, lapses>>

Remember(p, u) ==
    /\ u \notin local[p]
    /\ \/ local' = [local EXCEPT ![p] = @ \union {u}] /\ lapses' = lapses
       \/ \E w \in local[p] :
             /\ lapses < MaxLapses
             /\ lapses' = lapses + 1
             /\ local' = [local EXCEPT ![p] = (@ \ {w}) \union {u}]

\* SET NX EX answers True, or None for a key that exists, and then, as without
\* Redis, the local set decides.
New(p, u, redisUp) ==
    IF redisUp /\ u \notin claims
    THEN claims' = claims \union {u} /\ UNCHANGED <<local, lapses>>
    ELSE Remember(p, u) /\ UNCHANGED claims

Known(p, u, redisUp) ==
    /\ ~(redisUp /\ u \notin claims)
    /\ SeenLocally(p, u)
    /\ UNCHANGED claims

-----------------------------------------------------------------------------
(* handle_update, to the point where it waits for the platform.            *)

\* A fault: the payload is not carried over.
FilledAfresh(r, f, u) == [at |-> After(f), has |-> [NoFields EXCEPT ![f] = u]]

\* {**payload, field: ...}
Filled(r, f, u) == [at |-> After(f), has |-> [r.has EXCEPT ![f] = u]]

\* _route_by_state and _handle_callback: what the update makes of the row it reads.
\* An answer to another question is not understood, as is free text at "zodiac".
Read(p, u) ==
    LET k == msg[u]
        to(pc, next) == step' = [step EXCEPT ![p] = [pc |-> pc, read |-> row, next |-> next]]
    IN  CASE k = "chart_start" -> to("set", [at |-> "date", has |-> NoFields])
          [] k = "cancel" -> to("clear", NoRow)
          [] k = "zodiac" /\ row.at = "zodiac" -> to("clear", row)
          [] k \in Fields /\ row.at = k -> to("set", Filled(row, k, u))
          [] OTHER -> step' = step

\* The platform delivers the update; a handler that is not a repetition reads the state.
DeliverUpdate(p, u, redisUp) ==
    /\ step[p].pc = "idle"
    /\ delivered < MaxDeliveries
    /\ delivered' = delivered + 1
    /\ \/ Known(p, u, redisUp) /\ UNCHANGED <<handled, step>>
       \/ /\ New(p, u, redisUp)
          /\ handled' = [handled EXCEPT ![u] = @ + 1]
          /\ Read(p, u)
    /\ UNCHANGED <<row, msg, torn>>

\* set_chat_state, its SELECT.
LoadRow(p) ==
    /\ step[p].pc = "set"
    /\ step' = [step EXCEPT ![p].pc = "write", ![p].read = row]
    /\ UNCHANGED <<row, msg, claims, local, delivered, handled, lapses, torn>>

\* Its flush: an INSERT, which the unique index refuses if there is a row by now, or
\* an UPDATE of the columns that differ from what was loaded.
WriteRow(p) ==
    LET old == step[p].read  new == step[p].next
    IN  /\ step[p].pc = "write"
        /\ row' = IF old.at = "none" /\ row.at # "none" THEN row
                  ELSE [at |-> IF new.at = old.at THEN row.at ELSE new.at,
                        has |-> IF new.has = old.has THEN row.has ELSE new.has]
        /\ torn' = (torn \/ (row # old /\ row' # row /\ row' # new))
        /\ step' = [step EXCEPT ![p] = NoUpdate]
        /\ UNCHANGED <<msg, claims, local, delivered, handled, lapses>>

\* clear_chat_state, of "cancel" and of the choice of a zodiac system.  The UPDATE of
\* a handler that has loaded the row will find none, and its error is swallowed.
ClearRow(p) ==
    /\ step[p].pc = "clear"
    /\ row' = NoRow
    /\ step' = [q \in Processes |->
                  IF q = p /\ step[p].next # NoRow THEN [step[p] EXCEPT !.pc = "compute"]
                  ELSE IF q = p \/ (step[q].pc = "write" /\ step[q].read # NoRow) THEN NoUpdate
                  ELSE step[q]]
    /\ UNCHANGED <<msg, claims, local, delivered, handled, lapses, torn>>

\* _compute_and_send_chart, for the row that is gone; a field that is missing makes it
\* give up.
Compute(p) ==
    /\ step[p].pc = "compute"
    /\ step' = [step EXCEPT ![p] = NoUpdate]
    /\ UNCHANGED <<row, msg, claims, local, delivered, handled, lapses, torn>>

-----------------------------------------------------------------------------

ClaimExpires(u) ==
    /\ u \in claims /\ lapses < MaxLapses
    /\ claims' = claims \ {u}
    /\ lapses' = lapses + 1
    /\ UNCHANGED <<row, msg, local, delivered, handled, step, torn>>

ProcessRestarts(p) ==
    /\ lapses < MaxLapses
    /\ lapses' = lapses + 1
    /\ local' = [local EXCEPT ![p] = {}]
    /\ step' = [step EXCEPT ![p] = NoUpdate]
    /\ UNCHANGED <<row, msg, claims, delivered, handled, torn>>

BotsNext ==
    \/ \E p \in Processes :
          \/ \E u \in Updates, redisUp \in BOOLEAN : DeliverUpdate(p, u, redisUp)
          \/ LoadRow(p) \/ WriteRow(p) \/ ClearRow(p) \/ Compute(p)
          \/ ProcessRestarts(p)
    \/ \E u \in Updates : ClaimExpires(u)

BotsSpec == BotsInit /\ [][BotsNext]_botsVars

-----------------------------------------------------------------------------
(* Correctness.                                                            *)

\* The dialogue never asks for the next thing without having the ones before, unless
\* a handler that loaded the row early wrote one of its two columns over a newer row.
PayloadFitsState == ~torn => Fits(row)

\* However often an update comes, whether Redis is there or not: the claim lets it
\* pass once and each process once more, and every lapse once again.
RepeatsAreBounded ==
    \A u \in Updates : handled[u] <= 1 + Cardinality(Processes) + lapses

\* What the webhook and the row of bot_states keep for a conversation between updates.
ConversationKept == PayloadFitsState /\ RepeatsAreBounded

\* "return True if this update_id was already processed (retry)": while nothing lapses,
\* an update is handled once.
HandledOnce == \A u \in Updates : lapses = 0 => handled[u] <= 1
=============================================================================
