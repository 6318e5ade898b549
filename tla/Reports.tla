------------------------------- MODULE Reports -------------------------------
(***************************************************************************)
(* The reports of one chart, from the request to the finished document:    *)
(* POST /api/charts/{id}/report, the purchase that orders a report, the    *)
(* admin's regenerate button (app/main.py, app/routes/admin.py), the ARQ   *)
(* worker (app/report/worker.py) and the two recovery scripts.             *)
(*                                                                         *)
(* A web request commits the row as "queued" and then puts a job on the    *)
(* queue; the two are separate, and so are a script's enqueue and its      *)
(* commit.  A job names a report, carries no identity of its own, and the  *)
(* worker asks for no status before it runs one.                           *)
(***************************************************************************)
EXTENDS Integers, FiniteSets

CONSTANTS
    MaxReports,   \* bound: versions of the chart's report
    Clickers,     \* sessions of POST /api/charts/{id}/report
    Regenerate,   \* whether they may pass ?regenerate=1
    Buyers,       \* sessions of POST /api/purchase for a deep report
    Admins,       \* sessions of the admin's regenerate
    Recoverers,   \* runs of scripts/recover_stale_reports.py
    Retriers,     \* runs of scripts/retry_failed_reports.py
    Workers,      \* job slots of the ARQ worker (max_jobs)
    ProcessMayDie,\* whether processes of requests and scripts may die, too
    LostAnswers,  \* whether enqueueing may fail after the job was accepted
    MaxRetries,   \* MAX_RETRIES of the scripts
    MaxJobs,      \* bound: jobs of one report waiting when another is requested
    MaxDeaths,    \* bound: workers and processes that die or are restarted
    MaxTimeouts   \* bound: jobs cut off by job_timeout

Sessions == Clickers \union Buyers \union Admins \union Recoverers \union Retriers
Versions == 1 .. MaxReports

ASSUME ReportsAssumption ==
    /\ MaxReports \in Nat /\ MaxRetries \in Nat /\ MaxJobs \in Nat
    /\ MaxDeaths \in Nat /\ MaxTimeouts \in Nat
    /\ {Regenerate, ProcessMayDie, LostAnswers} \subseteq BOOLEAN

VARIABLES
    latest,   \* the newest version of the chart's report, 0 when there is none
    status,   \* reports.status; "none" before the row exists
    made,     \* made[r]: how much of the stored sections is fallback text
    retries,  \* reports.retry_count
    jobs,     \* jobs[r]: generate_report jobs for r waiting in the queue
    task,     \* task[s]: the step session s is at, and its report
    slot,     \* slot[w]: the step of the job in worker slot w
    deaths,   \* deaths so far
    timeouts  \* timeouts so far

losses == <<deaths, timeouts>>
vars == <<latest, status, made, retries, jobs, task, slot, losses>>

Statuses == {"none", "queued", "running", "done", "degraded", "failed"}
Final == {"done", "degraded", "failed"}

\* How much of a report is fallback text, and not generated.
Outcomes == {"none", "some", "all"}

Idle == [pc |-> "idle", report |-> 0]
Free == [pc |-> "free", report |-> 0, fresh |-> FALSE]

TypeOK ==
    /\ latest \in 0 .. MaxReports
    /\ status \in [Versions -> Statuses]
    /\ made \in [Versions -> Outcomes]
    /\ retries \in [Versions -> Nat]
    /\ jobs \in [Versions -> Nat]
    /\ task \in [Sessions -> [pc : {"idle", "buy", "enqueue", "enqueueCopy", "unqueued",
                                    "recovered", "retried"},
                              report : 0 .. MaxReports]]
    /\ slot \in [Workers -> [pc : {"free", "picked", "running", "indexing"},
                             report : 0 .. MaxReports, fresh : BOOLEAN]]
    /\ deaths \in 0 .. MaxDeaths /\ timeouts \in 0 .. MaxTimeouts

Init ==
    /\ latest = 0
    /\ status = [r \in Versions |-> "none"]
    /\ made = [r \in Versions |-> "all"]
    /\ retries = [r \in Versions |-> 0]
    /\ jobs = [r \in Versions |-> 0]
    /\ task = [s \in Sessions |-> Idle]
    /\ slot = [w \in Workers |-> Free]
    /\ deaths = 0 /\ timeouts = 0

-----------------------------------------------------------------------------
(* Pieces of the handlers.                                                 *)

IsIdle(s) == task[s].pc = "idle"
Goto(s, pc, r) == task' = [task EXCEPT ![s] = [pc |-> pc, report |-> r]]
Done(s) == task' = [task EXCEPT ![s] = Idle]
SetStatus(r, new) == status' = [status EXCEPT ![r] = new]
Push(r) == jobs' = [jobs EXCEPT ![r] = @ + 1]

\* A new row, committed as queued; the request goes on at pc.
AddReport(s, pc) ==
    /\ latest < MaxReports
    /\ latest' = latest + 1
    /\ SetStatus(latest + 1, "queued")
    /\ Goto(s, pc, latest + 1)
    /\ UNCHANGED <<made, retries, jobs, slot, losses>>

\* The row is queued again; the request goes on to enqueue it.
QueueAgain(s, r) ==
    /\ jobs[r] < MaxJobs
    /\ SetStatus(r, "queued")
    /\ Goto(s, "enqueue", r)
    /\ UNCHANGED <<latest, made, retries, jobs, slot, losses>>

-----------------------------------------------------------------------------
(* POST /api/charts/{id}/report.  The look at the newest report and the    *)
(* commit happen under an advisory lock of the chart.                      *)

ClickNew(s) ==
    /\ IsIdle(s)
    /\ latest = 0 \/ Regenerate
    /\ AddReport(s, "enqueue")

\* A fault: "running" is not among the states that only return the report.
ClickAgainWhileRunning(s) ==
    /\ IsIdle(s)
    /\ latest > 0 /\ status[latest] \in {"failed", "running"}
    /\ QueueAgain(s, latest)

\* A failed report is queued again; queued, running, done and degraded ones are
\* returned as they are.
ClickFailed(s) ==
    /\ IsIdle(s)
    /\ latest > 0 /\ status[latest] = "failed"
    /\ QueueAgain(s, latest)

Enqueue(s) ==
    /\ task[s].pc \in {"enqueue", "enqueueCopy"}
    /\ Push(task[s].report)
    /\ Done(s)
    /\ UNCHANGED <<latest, status, made, retries, slot, losses>>

\* A fault: nothing is done about a report that could not be enqueued.
IgnoreEnqueueFailure(s) ==
    /\ task[s].pc = "enqueue"
    /\ Done(s)
    /\ UNCHANGED <<latest, status, made, retries, jobs, slot, losses>>

\* _enqueue_report returns False: Redis did not answer.
EnqueueFails(s) ==
    /\ task[s].pc = "enqueue"
    /\ \/ UNCHANGED jobs
       \/ LostAnswers /\ Push(task[s].report)
    /\ Goto(s, "unqueued", task[s].report)
    /\ UNCHANGED <<latest, status, made, retries, slot, losses>>

MarkFailed(s) ==
    /\ task[s].pc = "unqueued"
    /\ SetStatus(task[s].report, "failed")
    /\ Done(s)
    /\ UNCHANGED <<latest, made, retries, jobs, slot, losses>>

-----------------------------------------------------------------------------
(* POST /api/purchase and the admin's regenerate: no lock.                 *)

\* The purchase finds no report to return, in a transaction of its own.
Buy(s) ==
    /\ IsIdle(s)
    /\ latest > 0 => status[latest] = "failed"
    /\ Goto(s, "buy", 0)
    /\ UNCHANGED <<latest, status, made, retries, jobs, slot, losses>>

BuyNew(s) == task[s].pc = "buy" /\ AddReport(s, "enqueue")

AdminRedo(s) ==
    /\ IsIdle(s)
    /\ latest > 0 /\ status[latest] # "done"
    /\ QueueAgain(s, latest)

\* A finished report is kept, and a new version is made.
AdminCopy(s) ==
    /\ IsIdle(s)
    /\ latest > 0 /\ status[latest] = "done"
    /\ AddReport(s, "enqueueCopy")

\* 503; only a row that existed before is marked failed.
CopyNotEnqueued(s) ==
    /\ task[s].pc = "enqueueCopy"
    /\ \/ UNCHANGED jobs
       \/ LostAnswers /\ Push(task[s].report)
    /\ Done(s)
    /\ UNCHANGED <<latest, status, made, retries, slot, losses>>

-----------------------------------------------------------------------------
(* The scripts: enqueue first, then commit the new status.                 *)

\* updated_at is more than an hour old.  A job that set the row to "running"
\* itself ends, at the latest, 30 minutes after that.
Stale(r) ==
    /\ status[r] = "running"
    /\ ~ \E w \in Workers : slot[w].report = r /\ slot[w].fresh

RecoverEnqueue(s, r) ==
    /\ IsIdle(s)
    /\ Stale(r)
    /\ retries[r] < MaxRetries
    /\ Push(r)
    /\ Goto(s, "recovered", r)
    /\ UNCHANGED <<latest, status, made, retries, slot, losses>>

RetryEnqueue(s, r) ==
    /\ IsIdle(s)
    /\ status[r] = "failed"
    /\ retries[r] < MaxRetries
    /\ Push(r)
    /\ Goto(s, "retried", r)
    /\ UNCHANGED <<latest, status, made, retries, slot, losses>>

\* Redis did not answer: only the attempt is counted.
RetryNotEnqueued(s, r) ==
    /\ IsIdle(s)
    /\ status[r] = "failed"
    /\ retries[r] < MaxRetries
    /\ retries' = [retries EXCEPT ![r] = @ + 1]
    /\ UNCHANGED <<latest, status, made, jobs, task, slot, losses>>

ScriptWrite(s) ==
    LET r == task[s].report
    IN  /\ task[s].pc \in {"recovered", "retried"}
        /\ SetStatus(r, "queued")
        /\ retries' = [retries EXCEPT ![r] = @ + 1]
        /\ Done(s)
        /\ UNCHANGED <<latest, made, jobs, slot, losses>>

-----------------------------------------------------------------------------
(* The worker.                                                             *)

PickUp(w, r) ==
    /\ slot[w].pc = "free"
    /\ jobs[r] > 0
    /\ jobs' = [jobs EXCEPT ![r] = @ - 1]
    /\ slot' = [slot EXCEPT ![w] = [pc |-> "picked", report |-> r, fresh |-> FALSE]]
    /\ UNCHANGED <<latest, status, made, retries, task, losses>>

\* A fault: the row gets a status no reader knows.
StartProcessing(w) ==
    /\ slot[w].pc = "picked"
    /\ SetStatus(slot[w].report, "processing")
    /\ slot' = [slot EXCEPT ![w].pc = "running", ![w].fresh = TRUE]
    /\ UNCHANGED <<latest, made, retries, jobs, task, losses>>

\* status = running, whatever it was.  The row, and its updated_at, changes
\* only if it was something else.
Start(w) ==
    /\ slot[w].pc = "picked"
    /\ SetStatus(slot[w].report, "running")
    /\ slot' = [slot EXCEPT ![w].pc = "running",
                            ![w].fresh = status[slot[w].report] # "running"]
    /\ UNCHANGED <<latest, made, retries, jobs, task, losses>>

\* A cost ceiling is reached: fallback sections, degraded, no LLM call.
BudgetStop(w) ==
    /\ slot[w].pc = "running"
    /\ made' = [made EXCEPT ![slot[w].report] = "all"]
    /\ SetStatus(slot[w].report, "degraded")
    /\ slot' = [slot EXCEPT ![w] = Free]
    /\ UNCHANGED <<latest, retries, jobs, task, losses>>

\* A fault: fallback sections are looked for first, and a report that has none
\* to name is done.
VerdictByNames(out, capped) ==
    IF out # "none" /\ ~capped THEN "degraded" ELSE "done"

\* The status generate_report ends with.  A failed upload sets "degraded", and
\* the tests that follow set the status again; when the report's cost cap was
\* hit, generate_sections_async returns an empty list of fallback sections.
Verdict(out, capped) ==
    IF out = "all" THEN "degraded"
    ELSE IF out = "some" /\ ~capped THEN "degraded"
    ELSE "done"

\* Only a done report goes on to be indexed for the chat.
Finish(w, out, capped) ==
    /\ slot[w].pc = "running"
    /\ made' = [made EXCEPT ![slot[w].report] = out]
    /\ SetStatus(slot[w].report, Verdict(out, capped))
    /\ slot' = [slot EXCEPT ![w] = IF Verdict(out, capped) = "done"
                                   THEN [@ EXCEPT !.pc = "indexing"] ELSE Free]
    /\ UNCHANGED <<latest, retries, jobs, task, losses>>

\* An exception, before or after the sections were put into the row.
FinishFailed(w) ==
    /\ slot[w].pc = "running"
    /\ SetStatus(slot[w].report, "failed")
    /\ \/ UNCHANGED made
       \/ \E out \in Outcomes : made' = [made EXCEPT ![slot[w].report] = out]
    /\ slot' = [slot EXCEPT ![w] = Free]
    /\ UNCHANGED <<latest, retries, jobs, task, losses>>

Indexed(w) ==
    /\ slot[w].pc = "indexing"
    /\ slot' = [slot EXCEPT ![w] = Free]
    /\ UNCHANGED <<latest, status, made, retries, jobs, task, losses>>

\* A fault: jobs of a worker that died are lost.
DiesWithItsJob(w) ==
    /\ slot[w].pc # "free"
    /\ deaths < MaxDeaths
    /\ deaths' = deaths + 1
    /\ slot' = [slot EXCEPT ![w] = Free]
    /\ UNCHANGED <<latest, status, made, retries, jobs, task, timeouts>>

\* The worker dies or is restarted: ARQ delivers its jobs again.
WorkerDies(w) ==
    /\ slot[w].pc # "free"
    /\ deaths < MaxDeaths
    /\ deaths' = deaths + 1
    /\ Push(slot[w].report)
    /\ slot' = [slot EXCEPT ![w] = Free]
    /\ UNCHANGED <<latest, status, made, retries, task, timeouts>>

\* job_timeout: the job is cancelled and not delivered again.
JobTimeout(w) ==
    /\ slot[w].pc = "running"
    /\ timeouts < MaxTimeouts
    /\ timeouts' = timeouts + 1
    /\ slot' = [slot EXCEPT ![w] = Free]
    /\ UNCHANGED <<latest, status, made, retries, jobs, task, deaths>>

-----------------------------------------------------------------------------

\* The process of a request or of a script dies between two of its steps.
ProcessDies(s) ==
    /\ ProcessMayDie
    /\ ~IsIdle(s)
    /\ deaths < MaxDeaths
    /\ deaths' = deaths + 1
    /\ Done(s)
    /\ UNCHANGED <<latest, status, made, retries, jobs, slot, timeouts>>

Proceed(s) ==
    \/ Enqueue(s) \/ EnqueueFails(s) \/ MarkFailed(s) \/ CopyNotEnqueued(s)
    \/ BuyNew(s) \/ ScriptWrite(s)

Run(w) ==
    \/ Start(w) \/ BudgetStop(w) \/ FinishFailed(w) \/ Indexed(w)
    \/ \E out \in Outcomes, capped \in BOOLEAN : Finish(w, out, capped)

Ask ==
    \/ \E s \in Clickers : ClickNew(s) \/ ClickFailed(s)
    \/ \E s \in Buyers : Buy(s)
    \/ \E s \in Admins : AdminRedo(s) \/ AdminCopy(s)
    \/ \E s \in Retriers, r \in Versions : RetryEnqueue(s, r) \/ RetryNotEnqueued(s, r)

Recover == \E s \in Recoverers, r \in Versions : RecoverEnqueue(s, r)

Next ==
    \/ Ask \/ Recover
    \/ \E s \in Sessions : Proceed(s) \/ ProcessDies(s)
    \/ \E w \in Workers, r \in Versions : PickUp(w, r)
    \/ \E w \in Workers : Run(w) \/ WorkerDies(w) \/ JobTimeout(w)

Spec == Init /\ [][Next]_vars

\* Requests and jobs that run are not starved.  The queue is ordered by the
\* time of the enqueue, so a job that a free slot could take again and again is
\* taken.  Nothing is assumed of users, of admins, of the scripts or of how a job
\* ends.
FairSpec ==
    /\ Spec
    /\ \A s \in Sessions : WF_vars(Proceed(s))
    /\ \A w \in Workers : WF_vars(Run(w))
    /\ \A r \in Versions : SF_vars(\E w \in Workers : PickUp(w, r))

-----------------------------------------------------------------------------
(* Correctness.                                                            *)

\* worker.py: when all sections failed the report is degraded, "NEVER done",
\* however jobs for it overlap, die or are repeated.
DoneHasContent ==
    \A r \in Versions : status[r] = "done" => made[r] # "all"

\* Jobs for the chart's reports: waiting, being run, or about to be enqueued.
JobsOf(r) ==
    jobs[r] + Cardinality({w \in Workers : slot[w].report = r /\ slot[w].pc # "indexing"})
            + Cardinality({s \in Sessions : task[s].report = r
                                            /\ task[s].pc \in {"enqueue", "enqueueCopy"}})

\* api_create_report: "repeated clicks must not enqueue multiple LLM jobs":
\* there is one report, and never more than one job for it.
ClicksAreIdempotent ==
    /\ latest <= 1
    /\ \A r \in Versions : JobsOf(r) <= 1

\* A queued report has a job, or a request that is going to see to it.
Attended(r) ==
    \/ jobs[r] > 0
    \/ \E s \in Sessions : task[s].report = r /\ task[s].pc \in {"enqueue", "unqueued"}
    \/ \E w \in Workers : slot[w].report = r /\ slot[w].pc = "picked"
QueuedIsAttended == \A r \in Versions : status[r] = "queued" => Attended(r)

\* What clicks queue is made once, and is going to be made.
ClicksAreAttended == ClicksAreIdempotent /\ QueuedIsAttended

\* A finished report is not taken away from its buyer again: whatever users ask
\* for, no job runs a second time on it, unless a worker died over it.
DoneStaysDone ==
    [][deaths = 0 => \A r \in Versions : status[r] = "done" => status'[r] = "done"]_vars

\* Every report that was ordered comes to an end, be it a failure that is shown.
ReportsEnd ==
    \A r \in Versions : status[r] \in {"queued", "running"} ~> status[r] \in Final
=============================================================================
