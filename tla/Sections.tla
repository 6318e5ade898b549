------------------------------ MODULE Sections ------------------------------
(***************************************************************************)
(* How a worker writes reports, app/report/worker.py: generate_report with *)
(* its budget, and generate_sections_async, which writes the sections of   *)
(* a report concurrently, each in several attempts.                        *)
(*                                                                         *)
(* A run is one delivery of a job; a report may have several, and several  *)
(* at a time.  A step of a section is what its coroutine does from one     *)
(* answer of the model to the next call.  One day and one budget; a call   *)
(* costs at most one unit of it.                                           *)
(***************************************************************************)
EXTENDS Integers, FiniteSets, FiniteSetsExt

CONSTANTS
    Runs,         \* runs
    Papers,       \* reports
    Parts,        \* sections of a report
    Slots,        \* max_jobs
    Conc,         \* SECTION_CONC
    Attempts,     \* MAX_RETRIES + 1
    Budget,       \* LLM_DAILY_BUDGET_USD
    Cap           \* LLM_REPORT_MAX_USD

ASSUME SectionsAssumption ==
    /\ IsFiniteSet(Runs) /\ IsFiniteSet(Papers) /\ IsFiniteSet(Parts) /\ Parts # {}
    /\ Slots \in Nat \ {0} /\ Conc \in Nat \ {0} /\ Attempts \in Nat \ {0}
    /\ Budget \in Nat /\ Cap \in Nat

VARIABLES
    run,      \* run[j]: where a run is, and the report it is for
    part,     \* part[j][d]: the section d in it, and the calls made for it
    cost,     \* cost[p]: rows of llm_runs for a report
    paper     \* paper[p]: the row of a report, as far as the verdict goes

secVars == <<run, part, cost, paper>>

NoParts == [d \in Parts |-> [at |-> "waiting", calls |-> 0]]

SecTypeOK ==
    /\ run \in [Runs -> [pc : {"new", "writing", "over", "orphaned", "lost"}, of : Papers \union {"none"}]]
    /\ part \in [Runs -> [Parts -> [at : {"waiting", "calling", "ok", "fallback", "raised"},
                                    calls : 0 .. Attempts]]]
    /\ cost \in [Papers -> Nat]
    /\ paper \in [Papers -> [status : {"queued", "running", "done", "degraded", "failed"},
                             real : SUBSET Parts, capped : BOOLEAN]]

SecInit ==
    /\ run = [j \in Runs |-> [pc |-> "new", of |-> "none"]]
    /\ part = [j \in Runs |-> NoParts]
    /\ cost = [p \in Papers |-> 0]
    /\ paper = [p \in Papers |-> [status |-> "queued", real |-> {}, capped |-> FALSE]]

Writing == {j \in Runs : run[j].pc = "writing"}
Orphaned == {j \in Runs : run[j].pc = "orphaned"}
SectionsAt(j, where) == {d \in Parts : part[j][d].at \in where}

Spent == MapThenSumSet(LAMBDA p : cost[p], Papers)

-----------------------------------------------------------------------------
(* generate_report                                                         *)

\* A fault: the ceilings are not looked at.
WithinBudgetAlways == TRUE

\* today_llm_cost and _budget_reasons
WithinBudget == Spent < Budget

\* The job is picked up, whatever the status is; without a budget the report is made of
\* fallbacks, without a call.
StartRun(j, p) ==
    /\ run[j].pc = "new"
    /\ Cardinality(Writing) < Slots
    /\ IF WithinBudget
       THEN /\ run' = [run EXCEPT ![j] = [pc |-> "writing", of |-> p]]
            /\ paper' = [paper EXCEPT ![p].status = "running"]
       ELSE /\ run' = [run EXCEPT ![j] = [pc |-> "over", of |-> p]]
            /\ paper' = [paper EXCEPT ![p] = [status |-> "degraded", real |-> {},
                                              capped |-> FALSE]]
    /\ UNCHANGED <<part, cost>>

\* A fault: the verdict does not look at the fallbacks.
VerdictByReal(real, capped) == IF real # {} THEN "done" ELSE "degraded"

\* Nothing real: degraded.  At the cap the list of fallbacks is made anew, of the sections
\* that are not settled, and is empty.
Verdict(real, capped) ==
    IF real = {} \/ (real # Parts /\ ~capped) THEN "degraded" ELSE "done"

\* gather() returns, and the report is stored.
FinishRun(j) ==
    LET p == run[j].of
    IN  /\ run[j].pc = "writing"
        /\ SectionsAt(j, {"ok", "fallback"}) = Parts
        /\ run' = [run EXCEPT ![j].pc = "over"]
        /\ paper' = [paper EXCEPT ![p] = [status |-> Verdict(SectionsAt(j, {"ok"}), cost[p] >= Cap),
                                          real |-> SectionsAt(j, {"ok"}), capped |-> cost[p] >= Cap]]
        /\ part' = [part EXCEPT ![j] = NoParts]
        /\ UNCHANGED cost

\* gather() passes the first error on; the coroutines of the other sections live on.
FailRun(j) ==
    /\ run[j].pc = "writing"
    /\ SectionsAt(j, {"raised"}) # {}
    /\ run' = [run EXCEPT ![j].pc = "orphaned"]
    /\ paper' = [paper EXCEPT ![run[j].of].status = "failed"]
    /\ UNCHANGED <<part, cost>>

-----------------------------------------------------------------------------
(* generate_sections_async, _gen_one                                       *)

\* A section gets a place at the semaphore, and its first call goes out.
BeginSection(j, d) ==
    /\ run[j].pc \in {"writing", "orphaned"}
    /\ part[j][d].at = "waiting"
    /\ Cardinality(SectionsAt(j, {"calling"})) < Conc
    /\ part' = [part EXCEPT ![j][d] = [at |-> "calling", calls |-> 1]]
    /\ UNCHANGED <<run, cost, paper>>

\* The model has answered: the row of llm_runs is written, unless that fails, and the
\* answer is parsed and judged, which may raise.  Attempts are bounded.
Answer(j, d, metered, how) ==
    LET n == part[j][d].calls
    IN  /\ part[j][d].at = "calling"
        /\ run[j].pc \in {"writing", "orphaned"}
        /\ cost' = IF metered THEN [cost EXCEPT ![run[j].of] = @ + 1] ELSE cost
        /\ part' = [part EXCEPT ![j][d] =
                      CASE how = "good" -> [at |-> "ok", calls |-> n]
                        [] how = "raises" -> [at |-> "raised", calls |-> n]
                        [] how = "bad" /\ n < Attempts -> [at |-> "calling", calls |-> n + 1]
                        [] OTHER -> [at |-> "fallback", calls |-> n]]
        /\ UNCHANGED <<run, paper>>

\* The process dies with all its coroutines; ARQ delivers its jobs again.
WorkerDies ==
    /\ Writing # {}
    /\ run' = [j \in Runs |-> CASE j \in Writing -> [run[j] EXCEPT !.pc = "over"]
                                [] j \in Orphaned -> [run[j] EXCEPT !.pc = "lost"]
                                [] OTHER -> run[j]]
    /\ paper' = [p \in Papers |-> IF \E j \in Writing : run[j].of = p
                                  THEN [paper[p] EXCEPT !.status = "queued"] ELSE paper[p]]
    /\ part' = [j \in Runs |-> NoParts]
    /\ UNCHANGED cost

SecNext ==
    \/ \E j \in Runs :
          \/ \E p \in Papers : StartRun(j, p)
          \/ FinishRun(j) \/ FailRun(j)
          \/ \E d \in Parts :
                \/ BeginSection(j, d)
                \/ \E metered \in BOOLEAN, how \in {"good", "bad", "raises"} :
                      Answer(j, d, metered, how)
    \/ WorkerDies

SecSpec == SecInit /\ [][SecNext]_secVars

-----------------------------------------------------------------------------
(* Correctness.                                                            *)

\* "Hard daily cost ceiling": it is a sum read before a run whose own cost comes later,
\* so it is passed by what the runs cost that are under way at a time, one for each slot
\* and those whose sections went on after a failure; and by no more.
OvershootBounded ==
    Spent < Budget + (Slots + Cardinality({j \in Runs : run[j].pc \in {"orphaned", "lost"}}))
                     * Cardinality(Parts) * Attempts

\* "Never silently deliver a low-quality report": a report that is done consists of real
\* sections, unless it has reached the cap of its own cost.
DoneIsReal ==
    \A p \in Papers : paper[p].status = "done" => paper[p].real = Parts \/ paper[p].capped

\* What generate_report promises of the ceiling of a day and of its verdicts.
VerdictAndBudget == OvershootBounded /\ DoneIsReal
=============================================================================
