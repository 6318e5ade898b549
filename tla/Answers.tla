------------------------------ MODULE Answers -------------------------------
(***************************************************************************)
(* The turns of one conversation on POST /api/chat/stream: app/main.py     *)
(* (api_chat_stream, _chat_history_for_prompt), app/chat/service.py        *)
(* (chat_stream), app/chat/retrieval.py, and the streams of                *)
(* app/core/llm.py.  Who may ask, and what a turn costs, is in Chat.       *)
(*                                                                         *)
(* A turn reads the conversation, asks the providers of its own router one *)
(* after the other, passes on what they send, and stores question and      *)
(* answer after the reader has got the last frame.  Turns overlap: tabs of *)
(* one account, or two of its readers.                                     *)
(***************************************************************************)
EXTENDS Integers, Sequences, FiniteSets

CONSTANTS
    Turns,
    Route,           \* the providers of a router, in their order
    AtOnce,          \* those that cannot stream
    MaxPieces,       \* bound: pieces of an answer
    HistoryRows,     \* messages that are loaded
    HistoryWindow    \* HISTORY_TURNS

ASSUME AnswersAssumption ==
    /\ Route \in Seq({"gateway", "pool", "zen", "deepseek"}) /\ Len(Route) > 0
    /\ MaxPieces \in Nat /\ HistoryRows \in Nat /\ HistoryWindow \in Nat
    /\ HistoryWindow <= HistoryRows /\ (HistoryWindow % 2) = 0

VARIABLES
    turn,      \* turn[q]: where turn q is, and what its generators hold
    messages,  \* chat_messages, by created_at
    visible,   \* turns whose messages are committed
    \* History, read by the properties only:
    spoken     \* spoken[q][i]: what provider i has said to turn q in all, or Unsaid

answersVars == <<turn, messages, visible, spoken>>

Links == 1 .. Len(Route)
Unsaid == -1

\* What a provider yields: the text so far, as a number of pieces.
Chunk == [by : Links, pieces : Nat, error : BOOLEAN]
NoChunk == [by |-> 1, pieces |-> 0, error |-> TRUE]

\* A question, or the answer of a provider.
Message == [turn : Turns, role : {"user", "assistant"}, by : Links, pieces : Nat]

\* at: the provider that is asked; sent: what it has sent; last: the last chunk; shown: the last
\* token the reader has got; prompt: the conversation as the prompt replays it
TurnState == [pc : {"new", "asking", "closing", "answered", "made", "over"}, at : Links, sent : Nat,
         last : Chunk, shown : Chunk, prompt : Seq(Message),
         end : {"none", "done", "error", "left"}]

NewTurn == [pc |-> "new", at |-> 1, sent |-> 0, last |-> NoChunk, shown |-> NoChunk,
            prompt |-> <<>>, end |-> "none"]

AnswersTypeOK ==
    /\ turn \in [Turns -> TurnState]
    /\ messages \in Seq(Message)
    /\ visible \subseteq Turns
    /\ spoken \in [Turns -> [Links -> Nat \union {Unsaid}]]

AnswersInit ==
    /\ turn = [q \in Turns |-> NewTurn]
    /\ messages = <<>> /\ visible = {}
    /\ spoken = [q \in Turns |-> [i \in Links |-> Unsaid]]

-----------------------------------------------------------------------------
(* The prompt.                                                             *)

\* The last n of them.
Last(s, n) == SubSeq(s, (IF Len(s) > n THEN Len(s) - n ELSE 0) + 1, Len(s))

\* The rows at some of the positions, in their order.
Picked(s, at) ==
    LET f[i \in 0 .. Len(s)] == IF i = 0 THEN <<>>
                                ELSE IF i \in at THEN Append(f[i - 1], s[i]) ELSE f[i - 1]
    IN  f[Len(s)]

Committed(s) == {i \in DOMAIN s : s[i].turn \in visible}
WithContent(s) == {i \in DOMAIN s : s[i].role = "user" \/ s[i].pieces > 0}

\* _render_history: the window first, then what is empty is left out.
Rendered(window) == Picked(window, WithContent(window))

\* A fault: one row less.
ReplayedShort(rows) == Rendered(Last(rows, HistoryWindow - 1))

Replayed(rows) == Rendered(Last(rows, HistoryWindow))

\* _chat_history_for_prompt, "read before the generator runs"
Begin(q) ==
    /\ turn[q].pc = "new"
    /\ turn' = [turn EXCEPT ![q].pc = "asking",
                            ![q].prompt = Replayed(Last(Picked(messages, Committed(messages)), HistoryRows))]
    /\ UNCHANGED <<messages, visible, spoken>>

-----------------------------------------------------------------------------
(* The answer: provider.stream, LLMRouter.stream_complete, chat_stream.    *)

Sends(q, n) == [by |-> turn[q].at, pieces |-> n, error |-> FALSE]

\* Only a chunk with text is a token.
Token(q, c) == IF c.pieces > 0 THEN c ELSE turn[q].shown

\* A line of the stream
StreamLine(q) ==
    LET c == Sends(q, turn[q].sent + 1)
    IN  /\ turn[q].pc = "asking" /\ Route[turn[q].at] \notin AtOnce
        /\ turn[q].sent < MaxPieces
        /\ turn' = [turn EXCEPT ![q].sent = c.pieces, ![q].last = c, ![q].shown = Token(q, c)]
        /\ UNCHANGED <<messages, visible, spoken>>

\* The last chunk of a stream is the whole text once more; a provider that cannot stream sends it
\* twice.  It may be empty.
Ends(q, n) ==
    LET c == Sends(q, n)
    IN  /\ turn[q].pc = "asking"
        /\ n = turn[q].sent \/ (Route[turn[q].at] \in AtOnce /\ n <= MaxPieces)
        /\ turn' = [turn EXCEPT ![q].pc = "closing", ![q].sent = n, ![q].last = c,
                                ![q].shown = Token(q, c)]
        /\ spoken' = [spoken EXCEPT ![q][turn[q].at] = n]
        /\ UNCHANGED <<messages, visible>>

\* A fault: a text that breaks off is an answer.
BrokenOff(c) == c.error /\ c.pieces = 0

Broken(c) == c.error

\* The connection is refused, or breaks with part of the text sent: the next provider begins anew.
\* After the last one the reader is told of an error.
Fails(q) ==
    LET c == [by |-> turn[q].at, pieces |-> turn[q].sent, error |-> TRUE]
        goesOn == IF ~Broken(c) THEN [turn[q] EXCEPT !.pc = "closing", !.last = c]
                  ELSE IF turn[q].at < Len(Route)
                       THEN [turn[q] EXCEPT !.at = @ + 1, !.sent = 0, !.last = c]
                  ELSE [turn[q] EXCEPT !.pc = "over", !.last = c, !.end = "error"]
    IN  /\ turn[q].pc = "asking"
        /\ turn' = [turn EXCEPT ![q] = goesOn]
        /\ UNCHANGED <<messages, visible, spoken>>

\* The frame `done`
Deliver(q) ==
    /\ turn[q].pc = "closing"
    /\ turn' = [turn EXCEPT ![q].pc = "answered"]
    /\ UNCHANGED <<messages, visible, spoken>>

\* Both messages get their time now, and are committed together.
MakeRows(q) ==
    LET c == turn[q].last
    IN  /\ turn[q].pc = "answered"
        /\ messages' = messages \o <<[turn |-> q, role |-> "user", by |-> c.by, pieces |-> 0],
                                     [turn |-> q, role |-> "assistant", by |-> c.by, pieces |-> c.pieces]>>
        /\ turn' = [turn EXCEPT ![q].pc = "made"]
        /\ UNCHANGED <<visible, spoken>>

\* "history must never break the stream"
CommitRows(q, well) ==
    /\ turn[q].pc = "made"
    /\ visible' = IF well THEN visible \union {q} ELSE visible
    /\ turn' = [turn EXCEPT ![q].pc = "over", ![q].end = "done"]
    /\ UNCHANGED <<messages, spoken>>

\* The reader closes the page: the generator ends where it yields.
LeaveTurn(q) ==
    /\ turn[q].pc \in {"asking", "closing", "answered"}
    /\ turn' = [turn EXCEPT ![q].pc = "over", ![q].end = "left"]
    /\ UNCHANGED <<messages, visible, spoken>>

AnswersNext ==
    \E q \in Turns :
       \/ Begin(q) \/ StreamLine(q) \/ Fails(q) \/ Deliver(q) \/ MakeRows(q) \/ LeaveTurn(q)
       \/ \E n \in 0 .. MaxPieces : Ends(q, n)
       \/ \E well \in BOOLEAN : CommitRows(q, well)

AnswersSpec == AnswersInit /\ [][AnswersNext]_answersVars

-----------------------------------------------------------------------------
(* Correctness.                                                            *)

\* The question and the answer of one turn, next to each other.
Paired(s, i, j) ==
    /\ s[i].turn = s[j].turn /\ s[i].role = "user" /\ s[j].role = "assistant"

\* However the turns of a conversation overlap, and wherever a stream breaks:
\* 1. an answer that is stored is all that one provider has said, and what the reader has
\*    seen last unless it is empty;
\* 2. a turn that failed, or was left before it was answered, leaves nothing behind;
\* 3. the model is shown answers together with their questions, questions without an answer
\*    only where the answer was empty, and never the turn it is answering.
AnswersAreWhole ==
    /\ \A i \in DOMAIN messages :
          LET m == messages[i]
          IN  m.role = "assistant" =>
                 /\ m.pieces = spoken[m.turn][m.by]
                 /\ m.pieces > 0 => turn[m.turn].shown = [by |-> m.by, pieces |-> m.pieces, error |-> FALSE]
                 /\ turn[m.turn].pc = "made" \/ turn[m.turn].end = "done"
    /\ \A q \in Turns :
          LET s == turn[q].prompt
          IN  \A i \in DOMAIN s :
                 /\ s[i].turn # q
                 /\ s[i].role = "assistant" => i > 1 /\ Paired(s, i - 1, i)
                 /\ s[i].role = "user" =>
                       \/ i < Len(s) /\ Paired(s, i, i + 1)
                       \/ spoken[s[i].turn][s[i].by] = 0
=============================================================================
