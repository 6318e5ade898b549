------------------------------ MODULE TextGate ------------------------------
(***************************************************************************)
(* What the language model is asked to write about a chart, and which of   *)
(* its drafts reach a reader.  app/report: rules.py, prompt_builder.py,    *)
(* qa.py, claim_validation.py, transit_narrative.py, with the attempts of  *)
(* worker.py; app/explore/service.py.                                      *)
(*                                                                         *)
(* A draft is abstracted to what the gates tell apart: its shape, the      *)
(* words of each insight and the evidence it names, where a forbidden      *)
(* phrase stands, and what it claims about signs.                          *)
(***************************************************************************)
EXTENDS Integers, Sequences, FiniteSets, Functions

CONSTANTS
    Jobs,          \* pairs of a kind of text and the domain it is about
    Bodies,        \* points of a chart, but for the angles
    Aspects,       \* the pairs of points that may form an aspect, in the order of the engine
    Rules,         \* RULES: records of a domain, a factor and what of it a rule looks at
    Items,         \* evidence a draft may name
    Companions,    \* and what of it a second insight names
    Attempts       \* MAX_RETRIES + 1

\* A chart without houses has factors, too; only a sign can be a wrong one.
ASSUME TextAssumption ==
    /\ \A j \in Jobs : j.kind \in {"section", "personal", "exploration", "transit"}
    /\ \E r \in Rules : r.needs = "sign" /\ r.factor \in Bodies
    /\ \A i \in Items \union Companions :
          /\ i.form \in {"name", "sign", "phrase", "aspect"}
          /\ i.form # "sign" => i.right
    /\ Attempts \in Nat \ {0}

Angular == {"ASC", "Vx"}
Soft == {"Vesta", "Chiron"}          \* known bodies that a chart may lack

VARIABLES
    job, chart,    \* what is written, and the chart it is about
    calls,         \* calls made for it
    text           \* the draft that is shown, or what there is instead

textVars == <<job, chart, calls, text>>

Pending == [shape |-> "pending"]
Fallback == [shape |-> "fallback"]
Raised == [shape |-> "raised"]

\* compute_chart: without a time of birth there are neither angles nor houses.
Points(c) == Bodies \union (IF c.known THEN Angular ELSE {})
Charts == {c \in [known : BOOLEAN, placed : SUBSET Bodies, aspects : SUBSET Aspects] :
              /\ c.known \/ c.placed = {}
              /\ \A a \in c.aspects : {a[1], a[2]} \subseteq Points(c)}

TextTypeOK ==
    /\ job \in Jobs /\ chart \in Charts /\ calls \in 0 .. Attempts
    /\ text.shape \in {"object", "embedded", "pending", "fallback", "raised"}

-----------------------------------------------------------------------------
(* rules.py and prompt_builder.py                                          *)

\* evaluate: rules on signs match what the chart has, rules on houses need one.
Matched(r, c) ==
    /\ r.factor \in Points(c)
    /\ r.needs = "house" => r.factor \in c.placed

Active(d, c) == {r.factor : r \in {q \in Rules : q.domain = d /\ Matched(q, c)}}
ActiveAnywhere(c) == UNION {Active(r.domain, c) : r \in Rules}

\* build_personal_question_prompt shows the factors of the identity.
Domain(j) == IF j.kind = "personal" THEN "identity" ELSE j.domain

\* factors_block: the factors with their signs, and the aspects they take part in
InPrompt(i, j, c) ==
    LET fs == Active(Domain(j), c)
    IN  IF i.form \in {"name", "sign"} THEN i.head \in fs /\ i.right
        ELSE /\ <<i.head, i.tail>> \in c.aspects
             /\ {i.head, i.tail} \intersect fs # {}

\* How many insights a prompt asks for, and how they name their evidence.
Asked(j) == IF j.kind = "personal" THEN {1, 2} ELSE {2}
Forms(j) == IF j.kind = "exploration" THEN {"name", "phrase"} ELSE {"sign", "aspect"}

\* A draft that does what its prompt says.
Obedient(d, j, c) ==
    /\ d.shape = "object" /\ d.banned = "nowhere" /\ d.about = "target"
    /\ \A s \in d.claims : s.right
    /\ j.kind # "transit" =>
          /\ Len(d.insights) \in Asked(j)
          /\ \A k \in DOMAIN d.insights :
                /\ d.insights[k].words >= 100
                /\ \E i \in Items : /\ d.insights[k].evidence = {i}
                                    /\ i.form \in Forms(j) /\ InPrompt(i, j, c)

-----------------------------------------------------------------------------
(* The gates.                                                              *)

Words(d) ==
    LET sum[k \in 0 .. Len(d.insights)] ==
            IF k = 0 THEN 0 ELSE sum[k - 1] + d.insights[k].words
    IN  sum[Len(d.insights)]
Evidence(d) == UNION {s.evidence : s \in Range(d.insights)}

\* qa_section: one item of the evidence of a report
Grounded(i, j, c) ==
    CASE i.form = "aspect" ->
            /\ {i.head, i.tail} \subseteq Points(c) \union Soft \union Angular
            /\ i.tail \in Points(c) \union (Soft \ {"Chiron"})
      [] i.form \in {"name", "phrase"} -> i.head \in Points(c) \union Soft
      [] i.form = "sign" ->
            \/ i.head \in Soft \ Points(c)
            \/ /\ i.head \in Points(c)
               \* "a wrong sign for a NON-ACTIVE factor is a soft flaw"
               /\ i.right \/ (Active(j.domain, c) # {} /\ i.head \notin Active(j.domain, c))

\* What validate_advanced can hold a claim against: it looks planets up by lower-case names,
\* which the charts of the engine do not have, and finds the ascendant.
Known(c) == IF c.known THEN {"ASC"} ELSE {}

\* A fault: the claims are not looked at.
NoHallucination(d, c) == FALSE

Hallucinates(d, c) == \E s \in d.claims : s.body \in Known(c) /\ ~s.right

QaSection(d, j, c) ==
    /\ d.banned = "nowhere"
    /\ Len(d.insights) >= 2 /\ Words(d) >= 150
    /\ \A s \in Range(d.insights) : s.words >= 40
    /\ \A i \in Evidence(d) : Grounded(i, j, c)
    /\ ~Hallucinates(d, c)

\* qa_explore: the first word of each item must be a factor of some rule; only strings have one
QaExplore(d, c) ==
    /\ d.banned = "nowhere"
    /\ Len(d.insights) >= 2 /\ Words(d) >= 150
    /\ \A s \in Range(d.insights) : s.words >= 60 /\ s.evidence # {}
    /\ \A i \in Evidence(d) :
          ActiveAnywhere(c) # {} => i.form \in {"name", "phrase"} /\ i.head \in ActiveAnywhere(c)

\* _validate of the transits: the four fields, their ban, the claims, and the target named
QaTransit(d, c) == d.banned = "nowhere" /\ ~Hallucinates(d, c) /\ d.about = "target"

\* parse_section and _parse: an object, or the first one in what surrounds it.
Parsed(d) == d.shape \in {"object", "embedded"}

Passes(d, j, c) ==
    /\ Parsed(d)
    /\ CASE j.kind \in {"section", "personal"} -> QaSection(d, j, c)
         [] j.kind = "exploration" -> QaExplore(d, c)
         [] j.kind = "transit" -> QaTransit(d, c)

\* JSON that is no object, or holds something else than the prompt's: the code that judges
\* reads it as an object, outside of any try.
Breaks(d) == d.shape = "misshapen"

-----------------------------------------------------------------------------
(* The attempts of _gen_one, generate_exploration and narrate_transit.     *)

TextInit ==
    /\ job \in Jobs /\ chart \in Charts
    /\ calls = 0
    /\ text = Pending

\* The answer is judged; what is refused is asked for again, as long as there are attempts.
Judge(d) ==
    /\ text = Pending
    /\ calls' = calls + 1
    /\ text' = IF Breaks(d) THEN Raised
               ELSE IF Passes(d, job, chart) THEN d
               ELSE IF calls + 1 < Attempts THEN Pending ELSE Fallback
    /\ UNCHANGED <<job, chart>>

Insights ==
    LET of(ws, is) == {[words |-> w, evidence |-> e] : w \in ws, e \in {{}} \union {{i} : i \in is}}
        some == of({30, 50, 100}, Items)
    IN  {<<s>> : s \in some} \union {<<s, t>> : s \in some, t \in of({50, 100}, Companions)}

\* Drafts, in which one thing may be wrong besides the length and the evidence.
Draft(shape, is, banned, claims, about) ==
    [shape |-> shape, insights |-> is, banned |-> banned, claims |-> claims, about |-> about]

OneClaim == {{c} : c \in [body : Bodies \union {"ASC"}, right : BOOLEAN]}

Long == {is \in Insights : \A s \in Range(is) : s.words = 100}

Drafts ==
    {Draft("object", is, "nowhere", {}, "target") : is \in Insights}
    \union {Draft("embedded", is, "nowhere", {}, "target") : is \in Long}
    \union {Draft("object", is, p, {}, "target") : is \in Long, p \in {"insight", "advice"}}
    \union {Draft("object", is, "nowhere", {}, "other") : is \in Long}
    \union {Draft("object", is, "nowhere", cs, "target") : is \in Long, cs \in OneClaim}
    \union {Draft(p, <<>>, "nowhere", {}, "target") : p \in {"prose", "misshapen"}}

TextNext == \E d \in Drafts : Judge(d)

TextSpec == TextInit /\ [][TextNext]_textVars

-----------------------------------------------------------------------------
(* Correctness.                                                            *)

Shown == text.shape \in {"object", "embedded"}

\* What a reader sees says nothing forbidden and nothing false that can be held against the
\* chart: evidence names points of the chart, but for asteroids and the first word of an
\* aspect; a sign is wrong only for a factor the prompt did not give; and so is no claim
\* about the ascendant.
ShownIsSound ==
    Shown =>
       /\ text.banned = "nowhere"
       /\ \A s \in text.claims :
             s.body = "ASC" /\ chart.known /\ job.kind # "exploration" => s.right
       /\ job.kind # "transit" => \A i \in Evidence(text) :
             /\ i.form = "aspect" \/ i.head \in Points(chart) \union Soft
             /\ i.right \/ job.kind = "exploration" \/ i.head \notin Active(job.domain, chart)

\* "The model legitimately cites ...": a draft that does what it was asked for passes, so
\* that a reader does not get the fallback for it.  Two prompts ask for more than their gate
\* lets through: a personal answer of one insight, and for an exploration an aspect whose
\* first body no rule names.
ObedientPasses ==
    \A d \in Drafts : Obedient(d, job, chart) =>
       \/ Passes(d, job, chart)
       \/ job.kind = "personal" /\ Len(d.insights) = 1
       \/ job.kind = "exploration" /\ \E i \in Evidence(d) : i.head \notin ActiveAnywhere(chart)

GateIsFair == ShownIsSound /\ (calls = 0 => ObedientPasses)
=============================================================================
