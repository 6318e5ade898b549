---------------------------- MODULE ReportsProofs ----------------------------
(***************************************************************************)
(* Proofs about the reports of a chart: the types, that a finished report  *)
(* has content whatever jobs overlap (DoneHasContent), that a queued one   *)
(* has a job where only users ask for reports (QueuedIsAttended), and that *)
(* where readers only click, they get one report, made by one job at a     *)
(* time (ClicksAreIdempotent), which stays as it is (DoneStaysDone).       *)
(***************************************************************************)
EXTENDS Reports, FiniteSetTheorems, TLAPS

LEMMA VerdictStatus ==
    ASSUME NEW out \in Outcomes, NEW capped \in BOOLEAN
    PROVE  /\ Verdict(out, capped) \in {"done", "degraded"}
           /\ Verdict(out, capped) = "done" => out # "all"
BY DEF Verdict, Outcomes

-----------------------------------------------------------------------------
(* Types.                                                                  *)

LEMMA TypeInit == Init => TypeOK
BY ReportsAssumption DEF Init, TypeOK, Idle, Free, Statuses, Outcomes

TaskSteps == {"idle", "buy", "enqueue", "enqueueCopy", "unqueued", "recovered", "retried"}

LEMMA StatusTyped ==
    ASSUME TypeOK, NEW r, NEW new \in {"queued", "running", "done", "degraded", "failed"},
           SetStatus(r, new)
    PROVE  status' \in [Versions -> Statuses]
BY DEF SetStatus, TypeOK, Statuses

LEMMA TaskTyped ==
    ASSUME TypeOK, NEW s \in Sessions, NEW pc \in TaskSteps, NEW r \in 0 .. MaxReports,
           Goto(s, pc, r)
    PROVE  task' \in [Sessions -> [pc : TaskSteps, report : 0 .. MaxReports]]
BY DEF TypeOK, TaskSteps, Goto

LEMMA DoneTyped ==
    ASSUME TypeOK, NEW s \in Sessions, Done(s)
    PROVE  task' \in [Sessions -> [pc : TaskSteps, report : 0 .. MaxReports]]
<1>1. 0 \in 0 .. MaxReports
  BY ReportsAssumption
<1> QED
  BY <1>1 DEF TypeOK, TaskSteps, Done, Idle

\* Counting one up, wherever it is.
LEMMA CountTyped ==
    ASSUME NEW f \in [Versions -> Nat], NEW r
    PROVE  [f EXCEPT ![r] = @ + 1] \in [Versions -> Nat]
<1>1. CASE r \in Versions
  <2>1. f[r] + 1 \in Nat
    BY <1>1
  <2> QED BY <2>1
<1>2. CASE r \notin Versions
  <2>1. [f EXCEPT ![r] = @ + 1] = f
    BY <1>2
  <2> QED BY <2>1
<1> QED
  BY <1>1, <1>2

LEMMA PushTyped ==
    ASSUME TypeOK, NEW r, Push(r)
    PROVE  jobs' \in [Versions -> Nat]
BY CountTyped DEF TypeOK, Push

SlotSteps == {"free", "picked", "running", "indexing"}

LEMMA FreeTyped ==
    ASSUME TypeOK, NEW w \in Workers, slot' = [slot EXCEPT ![w] = Free]
    PROVE  slot' \in [Workers -> [pc : SlotSteps, report : 0 .. MaxReports, fresh : BOOLEAN]]
<1>1. 0 \in 0 .. MaxReports
  BY ReportsAssumption
<1> QED
  BY <1>1 DEF TypeOK, SlotSteps, Free

LEMMA TypeStep == TypeOK /\ [Next]_vars => TypeOK'
<1> SUFFICES ASSUME TypeOK, [Next]_vars PROVE TypeOK'
  OBVIOUS
<1> USE ReportsAssumption DEF TypeOK, losses
<1>1. ASSUME NEW s \in Sessions, NEW pc \in {"buy", "enqueue", "enqueueCopy"}, AddReport(s, pc)
      PROVE TypeOK'
  <2>1. latest + 1 \in Versions /\ latest' \in 0 .. MaxReports
    BY <1>1 DEF AddReport, Versions
  <2>2. status' \in [Versions -> Statuses]
    BY <1>1 DEF AddReport, SetStatus, Statuses
  <2>3. task' \in [Sessions -> [pc : {"idle", "buy", "enqueue", "enqueueCopy", "unqueued",
                                      "recovered", "retried"},
                                report : 0 .. MaxReports]]
    BY <1>1, <2>1 DEF AddReport, Goto, Versions
  <2> QED BY <1>1, <2>1, <2>2, <2>3 DEF AddReport
<1>2. ASSUME NEW s \in Sessions, NEW r \in 0 .. MaxReports, QueueAgain(s, r) PROVE TypeOK'
  <2>1. status' \in [Versions -> Statuses]
    BY <1>2, StatusTyped DEF QueueAgain
  <2>2. task' \in [Sessions -> [pc : TaskSteps, report : 0 .. MaxReports]]
    BY <1>2, TaskTyped DEF QueueAgain, TaskSteps
  <2> QED BY <1>2, <2>1, <2>2 DEF QueueAgain, TaskSteps
<1>3. ASSUME NEW s \in Sessions, Enqueue(s) PROVE TypeOK'
  <2>1. task' \in [Sessions -> [pc : TaskSteps, report : 0 .. MaxReports]]
    BY <1>3, DoneTyped DEF Enqueue
  <2> QED BY <1>3, <2>1, PushTyped DEF Enqueue, TaskSteps
<1>4. ASSUME NEW s \in Sessions, EnqueueFails(s) PROVE TypeOK'
  BY <1>4 DEF EnqueueFails, Push, Goto
<1>5. ASSUME NEW s \in Sessions, MarkFailed(s) PROVE TypeOK'
  <2>1. status' \in [Versions -> Statuses]
    BY <1>5, StatusTyped DEF MarkFailed
  <2>2. task' \in [Sessions -> [pc : TaskSteps, report : 0 .. MaxReports]]
    BY <1>5, DoneTyped DEF MarkFailed
  <2> QED BY <1>5, <2>1, <2>2 DEF MarkFailed, TaskSteps
<1>6. ASSUME NEW s \in Sessions, CopyNotEnqueued(s) PROVE TypeOK'
  BY <1>6 DEF CopyNotEnqueued, Push, Done, Idle
<1>7. ASSUME NEW s \in Sessions, Buy(s) PROVE TypeOK'
  BY <1>7 DEF Buy, Goto
<1>8. ASSUME NEW s \in Sessions, NEW r \in Versions,
             RecoverEnqueue(s, r) \/ RetryEnqueue(s, r)
      PROVE TypeOK'
  <2>1. r \in 0 .. MaxReports
    BY DEF Versions
  <2>2. task' \in [Sessions -> [pc : TaskSteps, report : 0 .. MaxReports]]
    BY <1>8, <2>1, TaskTyped DEF RecoverEnqueue, RetryEnqueue, TaskSteps
  <2>3. jobs' \in [Versions -> Nat]
    BY <1>8 DEF RecoverEnqueue, RetryEnqueue, Push
  <2> QED BY <1>8, <2>2, <2>3 DEF RecoverEnqueue, RetryEnqueue, TaskSteps
<1>9. ASSUME NEW s \in Sessions, NEW r \in Versions, RetryNotEnqueued(s, r) PROVE TypeOK'
  BY <1>9 DEF RetryNotEnqueued
<1>10. ASSUME NEW s \in Sessions, ScriptWrite(s) PROVE TypeOK'
  <2>1. status' \in [Versions -> Statuses]
    BY <1>10, StatusTyped DEF ScriptWrite
  <2>2. task' \in [Sessions -> [pc : TaskSteps, report : 0 .. MaxReports]]
    BY <1>10, DoneTyped DEF ScriptWrite
  <2>3. retries' \in [Versions -> Nat]
    BY <1>10, CountTyped DEF ScriptWrite
  <2> QED BY <1>10, <2>1, <2>2, <2>3 DEF ScriptWrite, TaskSteps
<1>11. ASSUME NEW s \in Sessions, ProcessDies(s) PROVE TypeOK'
  BY <1>11 DEF ProcessDies, Done, Idle
<1>12. ASSUME NEW w \in Workers, NEW r \in Versions, PickUp(w, r) PROVE TypeOK'
  BY SMTT(30), <1>12 DEF PickUp, Versions
<1>13. ASSUME NEW w \in Workers, Start(w) PROVE TypeOK'
  <2>1. status' \in [Versions -> Statuses]
    BY <1>13, StatusTyped DEF Start
  <2>2. slot' \in [Workers -> [pc : {"free", "picked", "running", "indexing"},
                               report : 0 .. MaxReports, fresh : BOOLEAN]]
    <3> DEFINE yes == status[slot[w].report] # "running"
    <3>1. yes \in BOOLEAN
      OBVIOUS
    <3>2. slot' = [slot EXCEPT ![w].pc = "running", ![w].fresh = yes]
      BY <1>13 DEF Start
    <3> HIDE DEF yes
    <3> QED BY <3>1, <3>2
  <2> QED BY <1>13, <2>1, <2>2 DEF Start
<1>14. ASSUME NEW w \in Workers, BudgetStop(w) PROVE TypeOK'
  <2>1. status' \in [Versions -> Statuses]
    BY <1>14, StatusTyped DEF BudgetStop
  <2>2. slot' \in [Workers -> [pc : SlotSteps, report : 0 .. MaxReports, fresh : BOOLEAN]]
    BY <1>14, FreeTyped DEF BudgetStop
  <2>3. made' \in [Versions -> Outcomes]
    BY <1>14 DEF BudgetStop, Outcomes
  <2> QED BY <1>14, <2>1, <2>2, <2>3 DEF BudgetStop, SlotSteps
<1>15. ASSUME NEW w \in Workers, NEW out \in Outcomes, NEW capped \in BOOLEAN,
              Finish(w, out, capped)
       PROVE TypeOK'
  <2>1. status' \in [Versions -> Statuses]
    BY <1>15, VerdictStatus, StatusTyped DEF Finish
  <2>2. slot' \in [Workers -> [pc : {"free", "picked", "running", "indexing"},
                               report : 0 .. MaxReports, fresh : BOOLEAN]]
    BY <1>15 DEF Finish, Free
  <2>3. made' \in [Versions -> Outcomes]
    BY <1>15 DEF Finish
  <2> QED BY <1>15, <2>1, <2>2, <2>3 DEF Finish
<1>16. ASSUME NEW w \in Workers, FinishFailed(w) PROVE TypeOK'
  <2>1. status' \in [Versions -> Statuses]
    BY <1>16, StatusTyped DEF FinishFailed
  <2>2. slot' \in [Workers -> [pc : SlotSteps, report : 0 .. MaxReports, fresh : BOOLEAN]]
    BY <1>16, FreeTyped DEF FinishFailed
  <2>3. made' \in [Versions -> Outcomes]
    BY <1>16 DEF FinishFailed
  <2> QED BY <1>16, <2>1, <2>2, <2>3 DEF FinishFailed, SlotSteps
<1>17. ASSUME NEW w \in Workers, Indexed(w) \/ WorkerDies(w) \/ JobTimeout(w) PROVE TypeOK'
  <2>1. slot' \in [Workers -> [pc : SlotSteps, report : 0 .. MaxReports, fresh : BOOLEAN]]
    BY <1>17, FreeTyped DEF Indexed, WorkerDies, JobTimeout
  <2>2. jobs' \in [Versions -> Nat]
    BY <1>17, PushTyped DEF Indexed, WorkerDies, JobTimeout
  <2> QED BY <1>17, <2>1, <2>2 DEF Indexed, WorkerDies, JobTimeout, SlotSteps
<1>18. CASE UNCHANGED vars
  BY <1>18 DEF vars
<1> QED
  <2>1. CASE Ask
    BY <2>1, <1>1, <1>2, <1>7, <1>8, <1>9
       DEF Ask, ClickNew, ClickFailed, AdminRedo, AdminCopy, Sessions
  <2>2. CASE Recover
    BY <2>2, <1>8 DEF Recover, Sessions
  <2>3. ASSUME NEW s \in Sessions, Proceed(s) PROVE TypeOK'
    BY <2>3, <1>1, <1>3, <1>4, <1>5, <1>6, <1>10 DEF Proceed, BuyNew
  <2>4. ASSUME NEW w \in Workers, Run(w) PROVE TypeOK'
    BY <2>4, <1>13, <1>14, <1>15, <1>16, <1>17 DEF Run
  <2> QED
    BY <2>1, <2>2, <2>3, <2>4, <1>11, <1>12, <1>17, <1>18 DEF Next

-----------------------------------------------------------------------------
(* A finished report has content.                                          *)

\* Sessions leave every report as it is, or not done; none touches its sections.
LEMMA SessionsFinishNothing ==
    ASSUME TypeOK,
           \/ Ask \/ Recover
           \/ \E s \in Sessions : Proceed(s) \/ ProcessDies(s)
    PROVE  /\ made' = made
           /\ \A r \in Versions : status'[r] = "done" => status[r] = "done"
<1> USE DEF TypeOK, SetStatus
<1>1. CASE Ask
  BY <1>1 DEF Ask, ClickNew, ClickFailed, Buy, AdminRedo, AdminCopy, RetryEnqueue,
              RetryNotEnqueued, AddReport, QueueAgain
<1>2. CASE Recover
  BY <1>2 DEF Recover, RecoverEnqueue
<1>3. ASSUME NEW s \in Sessions, Proceed(s) \/ ProcessDies(s)
      PROVE  /\ made' = made
             /\ \A r \in Versions : status'[r] = "done" => status[r] = "done"
  BY <1>3 DEF Proceed, ProcessDies, Enqueue, EnqueueFails, MarkFailed, CopyNotEnqueued,
              BuyNew, AddReport, ScriptWrite
<1> QED
  BY <1>1, <1>2, <1>3

LEMMA ContentStep == TypeOK /\ DoneHasContent /\ [Next]_vars => DoneHasContent'
<1> SUFFICES ASSUME TypeOK, DoneHasContent, [Next]_vars PROVE DoneHasContent'
  OBVIOUS
<1> USE DEF DoneHasContent
<1>1. CASE \/ Ask \/ Recover
           \/ \E s \in Sessions : Proceed(s) \/ ProcessDies(s)
  BY <1>1, SessionsFinishNothing
<1>2. ASSUME NEW w \in Workers, NEW out \in Outcomes, NEW capped \in BOOLEAN,
             Finish(w, out, capped)
      PROVE DoneHasContent'
  <2>1. \A r \in Versions \ {slot[w].report} : status'[r] = status[r] /\ made'[r] = made[r]
    BY <1>2 DEF Finish, SetStatus, TypeOK
  <2>2. ASSUME slot[w].report \in Versions
        PROVE  /\ status'[slot[w].report] = Verdict(out, capped)
               /\ made'[slot[w].report] = out
    BY <1>2, <2>2 DEF Finish, SetStatus, TypeOK
  <2> QED BY <2>1, <2>2, VerdictStatus
<1>3. ASSUME NEW w \in Workers,
             \/ Start(w) \/ BudgetStop(w) \/ FinishFailed(w) \/ Indexed(w)
             \/ WorkerDies(w) \/ JobTimeout(w)
             \/ \E r \in Versions : PickUp(w, r)
      PROVE DoneHasContent'
  <2>1. \A r \in Versions \ {slot[w].report} : status'[r] = status[r] /\ made'[r] = made[r]
    BY <1>3 DEF Start, BudgetStop, FinishFailed, Indexed, WorkerDies, JobTimeout, PickUp,
                SetStatus, TypeOK
  <2>2. ASSUME slot[w].report \in Versions
        PROVE  \/ status'[slot[w].report] # "done"
               \/ UNCHANGED <<status, made>>
    BY <1>3, <2>2 DEF Start, BudgetStop, FinishFailed, Indexed, WorkerDies, JobTimeout,
                      PickUp, SetStatus, TypeOK
  <2> QED BY <2>1, <2>2
<1>4. CASE UNCHANGED vars
  BY <1>4 DEF vars
<1> QED
  BY <1>1, <1>2, <1>3, <1>4 DEF Next, Run

\* Every variable of the reports has its type.
THEOREM ReportsTypeCorrect == Spec => []TypeOK
<1> QED
  BY TypeInit, TypeStep, PTL DEF Spec

\* worker.py, "NEVER done": with any number of jobs of one report, of clicks, purchases,
\* scripts, deaths and timeouts, a report that is done is not all fallback text.
THEOREM DoneReportHasContent == Spec => []DoneHasContent
<1>1. Init => DoneHasContent
  BY DEF Init, DoneHasContent
<1> QED
  BY <1>1, TypeInit, TypeStep, ContentStep, PTL DEF Spec

-----------------------------------------------------------------------------
(* A queued report has a job.                                              *)

\* Nobody but users asks for reports, and no request dies on the way.  An admin's copy
\* that is not enqueued, a script's late write and a dead request each leave a queued
\* report without a job.
UsersOnly ==
    Admins = {} /\ Recoverers = {} /\ Retriers = {} /\ ~ProcessMayDie

\* Beyond its types: a request's report, and a slot's, exist; only users are at work.
NoScripts ==
    \A s \in Sessions : task[s].pc \in {"idle", "buy", "enqueue", "unqueued"}

LEMMA NoScriptsStep ==
    ASSUME UsersOnly, TypeOK, NoScripts, [Next]_vars PROVE NoScripts'
<1> USE DEF TypeOK, NoScripts
<1>1. CASE Ask
  BY <1>1 DEF Ask, UsersOnly, ClickNew, ClickFailed, Buy, AddReport, QueueAgain, Goto
<1>2. CASE Recover
  BY <1>2 DEF Recover, UsersOnly
<1>3. ASSUME NEW s \in Sessions, Proceed(s) \/ ProcessDies(s) PROVE NoScripts'
  BY <1>3 DEF Proceed, ProcessDies, Enqueue, EnqueueFails, MarkFailed, CopyNotEnqueued,
              BuyNew, AddReport, ScriptWrite, Goto, Done, Idle
<1>4. ASSUME NEW w \in Workers,
             \/ Run(w) \/ WorkerDies(w) \/ JobTimeout(w)
             \/ \E r \in Versions : PickUp(w, r)
      PROVE NoScripts'
  BY <1>4 DEF Run, Start, BudgetStop, FinishFailed, Finish, Indexed, WorkerDies, JobTimeout,
              PickUp
<1>5. CASE UNCHANGED vars
  BY <1>5 DEF vars
<1> QED
  BY <1>1, <1>2, <1>3, <1>4, <1>5 DEF Next

\* A session adds a job when it stops attending, or takes the report out of the queue.
LEMMA SessionAttends ==
    ASSUME TypeOK, NoScripts, NoScripts', QueuedIsAttended,
           NEW s \in Sessions,
           /\ UNCHANGED slot
           /\ \A u \in Sessions \ {s} : task'[u] = task[u],
           \A r \in Versions :
              /\ jobs[r] <= jobs'[r]
              /\ status'[r] = "queued" =>
                    \/ status[r] = "queued" /\ task'[s] = task[s]
                    \/ status[r] = "queued" /\ task[s].report # r
                    \/ status[r] = "queued" /\ task[s].pc \notin {"enqueue", "unqueued"}
                    \/ task'[s].report = r /\ task'[s].pc \in {"enqueue", "unqueued"}
                    \/ jobs'[r] > 0,
           \A r \in Versions : jobs'[r] \in Nat
    PROVE  QueuedIsAttended'
<1> SUFFICES ASSUME NEW r \in Versions, status'[r] = "queued" PROVE Attended(r)'
  BY DEF QueuedIsAttended
<1>1. CASE jobs'[r] > 0
  BY <1>1 DEF Attended
<1>2. CASE task'[s].report = r /\ task'[s].pc \in {"enqueue", "unqueued"}
  BY <1>2 DEF Attended
<1>3. CASE /\ status[r] = "queued"
           /\ \/ task'[s] = task[s]
              \/ task[s].report # r
              \/ task[s].pc \notin {"enqueue", "unqueued"}
  <2>1. Attended(r)
    BY <1>3 DEF QueuedIsAttended
  <2>2. CASE jobs[r] > 0
    <3>1. jobs[r] \in Nat /\ jobs'[r] \in Nat /\ jobs[r] <= jobs'[r]
      BY DEF TypeOK
    <3> QED BY <2>2, <3>1 DEF Attended
  <2>3. CASE \E u \in Sessions : task[u].report = r /\ task[u].pc \in {"enqueue", "unqueued"}
    BY <1>3, <2>3 DEF Attended
  <2>4. CASE \E w \in Workers : slot[w].report = r /\ slot[w].pc = "picked"
    BY <2>4 DEF Attended
  <2> QED BY <2>1, <2>2, <2>3, <2>4 DEF Attended
<1> QED
  BY <1>1, <1>2, <1>3

\* Workers take a job over and start it; a worker that dies puts it back.
LEMMA WorkerAttends ==
    ASSUME TypeOK, QueuedIsAttended, NEW w \in Workers, UNCHANGED task,
           \A v \in Workers \ {w} : slot'[v] = slot[v],
           \A r \in Versions :
              status'[r] = "queued" =>
                 /\ status[r] = "queued"
                 /\ jobs[r] > 0 =>
                       jobs'[r] > 0 \/ (slot'[w].report = r /\ slot'[w].pc = "picked")
                 /\ slot[w].report = r /\ slot[w].pc = "picked" =>
                       jobs'[r] > 0 \/ slot'[w] = slot[w]
    PROVE  QueuedIsAttended'
<1> SUFFICES ASSUME NEW r \in Versions, status'[r] = "queued" PROVE Attended(r)'
  BY DEF QueuedIsAttended
<1>1. Attended(r)
  BY DEF QueuedIsAttended
<1>2. CASE jobs[r] > 0
  BY <1>2 DEF Attended
<1>3. CASE \E s \in Sessions : task[s].report = r /\ task[s].pc \in {"enqueue", "unqueued"}
  BY <1>3 DEF Attended
<1>4. ASSUME NEW v \in Workers, slot[v].report = r, slot[v].pc = "picked"
      PROVE Attended(r)'
  BY <1>4 DEF Attended
<1> QED
  BY <1>1, <1>2, <1>3, <1>4 DEF Attended

LEMMA AttendedStep ==
    ASSUME UsersOnly, TypeOK, TypeOK', NoScripts, QueuedIsAttended, [Next]_vars
    PROVE  QueuedIsAttended'
<1>0. /\ \A r \in Versions : jobs[r] \in Nat /\ jobs'[r] \in Nat
      /\ NoScripts'
      /\ Admins = {} /\ Recoverers = {} /\ Retriers = {} /\ ~ProcessMayDie
  BY NoScriptsStep DEF TypeOK, UsersOnly
<1>1. ASSUME NEW s \in Sessions, task[s].pc \in {"idle", "buy"}, AddReport(s, "enqueue")
      PROVE QueuedIsAttended'
  <2>1. UNCHANGED <<slot, jobs>> /\ \A u \in Sessions \ {s} : task'[u] = task[u]
    BY <1>1 DEF AddReport, Goto, TypeOK
  <2>2. task'[s] = [pc |-> "enqueue", report |-> latest + 1]
    BY <1>1 DEF AddReport, Goto, TypeOK
  <2>3. \A r \in Versions : r # latest + 1 => status'[r] = status[r]
    BY <1>1 DEF AddReport, SetStatus, TypeOK
  <2> QED BY <1>0, <1>1, <2>1, <2>2, <2>3, SessionAttends
<1>2. ASSUME NEW s \in Sessions, IsIdle(s), QueueAgain(s, latest) PROVE QueuedIsAttended'
  <2>1. UNCHANGED <<slot, jobs>> /\ \A u \in Sessions \ {s} : task'[u] = task[u]
    BY <1>2 DEF QueueAgain, Goto, TypeOK
  <2>2. task'[s] = [pc |-> "enqueue", report |-> latest]
    BY <1>2 DEF QueueAgain, Goto, TypeOK
  <2>3. \A r \in Versions : r # latest => status'[r] = status[r]
    BY <1>2 DEF QueueAgain, SetStatus, TypeOK
  <2>4. task[s].pc = "idle"
    BY <1>2 DEF IsIdle
  <2> QED BY <1>0, <2>1, <2>2, <2>3, <2>4, SessionAttends
<1>3. ASSUME NEW s \in Sessions, Buy(s) PROVE QueuedIsAttended'
  <2>1. UNCHANGED <<slot, jobs, status>> /\ \A u \in Sessions \ {s} : task'[u] = task[u]
    BY <1>3 DEF Buy, Goto, TypeOK
  <2>2. task[s].pc = "idle"
    BY <1>3 DEF Buy, IsIdle
  <2> QED BY <1>0, <2>1, <2>2, SessionAttends
<1>4. ASSUME NEW s \in Sessions, Enqueue(s) PROVE QueuedIsAttended'
  <2>1. UNCHANGED <<slot, status>> /\ \A u \in Sessions \ {s} : task'[u] = task[u]
    BY <1>4 DEF Enqueue, Done, TypeOK
  <2>2. \A r \in Versions : jobs'[r] = IF r = task[s].report THEN jobs[r] + 1 ELSE jobs[r]
    BY <1>4 DEF Enqueue, Push, TypeOK
  <2>3. \A r \in Versions : jobs[r] <= jobs'[r] /\ (r = task[s].report => jobs'[r] > 0)
    BY <1>0, <2>2
  <2> QED BY <1>0, <2>1, <2>3, SessionAttends
<1>5. ASSUME NEW s \in Sessions, EnqueueFails(s) PROVE QueuedIsAttended'
  <2>1. UNCHANGED <<slot, status>> /\ \A u \in Sessions \ {s} : task'[u] = task[u]
    BY <1>5 DEF EnqueueFails, Goto, TypeOK
  <2>2. task'[s] = [pc |-> "unqueued", report |-> task[s].report]
    BY <1>5 DEF EnqueueFails, Goto, TypeOK
  <2>3. \A r \in Versions : jobs'[r] = jobs[r] \/ jobs'[r] = jobs[r] + 1
    BY <1>5 DEF EnqueueFails, Push, TypeOK
  <2>4. \A r \in Versions : jobs[r] <= jobs'[r]
    BY <1>0, <2>3
  <2> QED BY <1>0, <2>1, <2>2, <2>4, SessionAttends
<1>6. ASSUME NEW s \in Sessions, MarkFailed(s) PROVE QueuedIsAttended'
  <2>1. UNCHANGED <<slot, jobs>> /\ \A u \in Sessions \ {s} : task'[u] = task[u]
    BY <1>6 DEF MarkFailed, Done, TypeOK
  <2>2. \A r \in Versions : status'[r] = IF r = task[s].report THEN "failed" ELSE status[r]
    BY <1>6 DEF MarkFailed, SetStatus, TypeOK
  <2> QED BY <1>0, <2>1, <2>2, SessionAttends
<1>7. ASSUME NEW w \in Workers, NEW q \in Versions, PickUp(w, q) PROVE QueuedIsAttended'
  <2>1. /\ UNCHANGED <<status, task>> /\ \A v \in Workers \ {w} : slot'[v] = slot[v]
        /\ slot'[w] = [pc |-> "picked", report |-> q, fresh |-> FALSE]
        /\ slot[w].pc = "free"
    BY <1>7 DEF PickUp, TypeOK
  <2>2. \A r \in Versions : r # q => jobs'[r] = jobs[r]
    BY <1>7 DEF PickUp, TypeOK
  <2> QED BY <2>1, <2>2, WorkerAttends
<1>8. ASSUME NEW w \in Workers, Start(w) PROVE QueuedIsAttended'
  <2>1. UNCHANGED <<jobs, task>> /\ \A v \in Workers \ {w} : slot'[v] = slot[v]
    BY <1>8 DEF Start, TypeOK
  <2>2. \A r \in Versions :
           status'[r] = IF r = slot[w].report THEN "running" ELSE status[r]
    BY <1>8 DEF Start, SetStatus, TypeOK
  <2> QED BY <2>1, <2>2, WorkerAttends
<1>9. ASSUME NEW w \in Workers,
             \/ BudgetStop(w) \/ FinishFailed(w) \/ Indexed(w) \/ JobTimeout(w)
             \/ \E out \in Outcomes, capped \in BOOLEAN : Finish(w, out, capped)
      PROVE QueuedIsAttended'
  <2>1. UNCHANGED <<jobs, task>> /\ \A v \in Workers \ {w} : slot'[v] = slot[v]
    BY <1>9 DEF BudgetStop, FinishFailed, Indexed, JobTimeout, Finish, TypeOK
  <2>2. slot[w].pc \in {"running", "indexing"}
    BY <1>9 DEF BudgetStop, FinishFailed, Indexed, JobTimeout, Finish
  <2>3. \A r \in Versions : status'[r] = "queued" => status[r] = "queued"
    <3>1. ASSUME NEW out \in Outcomes, NEW capped \in BOOLEAN, Finish(w, out, capped)
          PROVE \A r \in Versions : status'[r] = "queued" => status[r] = "queued"
      BY <3>1, VerdictStatus DEF Finish, SetStatus, TypeOK
    <3> QED BY <1>9, <3>1 DEF BudgetStop, FinishFailed, Indexed, JobTimeout, SetStatus, TypeOK
  <2> QED BY <2>1, <2>2, <2>3, WorkerAttends
<1>10. ASSUME NEW w \in Workers, WorkerDies(w) PROVE QueuedIsAttended'
  <2>1. UNCHANGED <<status, task>> /\ \A v \in Workers \ {w} : slot'[v] = slot[v]
    BY <1>10 DEF WorkerDies, TypeOK
  <2>2. \A r \in Versions : jobs'[r] = IF r = slot[w].report THEN jobs[r] + 1 ELSE jobs[r]
    BY <1>10 DEF WorkerDies, Push, TypeOK
  <2>3. \A r \in Versions :
           (jobs[r] > 0 => jobs'[r] > 0) /\ (r = slot[w].report => jobs'[r] > 0)
    BY <1>0, <2>2
  <2> QED BY <2>1, <2>3, WorkerAttends
<1>11. CASE UNCHANGED vars
  BY <1>11 DEF vars, QueuedIsAttended, Attended
<1>12. ASSUME NEW s \in Sessions, Proceed(s) PROVE QueuedIsAttended'
  <2>1. task[s].pc \in {"idle", "buy", "enqueue", "unqueued"}
    BY DEF NoScripts
  <2>2. ~CopyNotEnqueued(s) /\ ~ScriptWrite(s)
    BY <2>1 DEF CopyNotEnqueued, ScriptWrite
  <2> QED BY <1>1, <1>4, <1>5, <1>6, <1>12, <2>2 DEF Proceed, BuyNew
<1>13. CASE Ask
  <2>1. ASSUME NEW s \in Clickers, ClickNew(s) \/ ClickFailed(s) PROVE QueuedIsAttended'
    BY <1>1, <1>2, <2>1 DEF ClickNew, ClickFailed, IsIdle, Sessions
  <2>2. ASSUME NEW s \in Buyers, Buy(s) PROVE QueuedIsAttended'
    BY <1>3, <2>2 DEF Sessions
  <2> QED BY <1>0, <1>13, <2>1, <2>2 DEF Ask
<1>14. ~Recover /\ \A s \in Sessions : ~ProcessDies(s)
  BY <1>0 DEF Recover, ProcessDies
<1> QED
  BY <1>7, <1>8, <1>9, <1>10, <1>11, <1>12, <1>13, <1>14 DEF Next, Run

\* "A queued report has a job": with any number of clicks, purchases and workers, lost
\* answers, deaths of workers and timeouts, a report is queued only while a job waits or
\* has been taken over, or the request that is to put it there goes on.
THEOREM QueuedReportIsAttended ==
    ASSUME UsersOnly PROVE Spec => []QueuedIsAttended
<1>1. Init => NoScripts /\ QueuedIsAttended
  BY DEF Init, NoScripts, QueuedIsAttended, Idle
<1>2. TypeOK /\ TypeOK' /\ NoScripts /\ QueuedIsAttended /\ [Next]_vars
      => NoScripts' /\ QueuedIsAttended'
  BY NoScriptsStep, AttendedStep
<1> QED
  BY <1>1, <1>2, TypeInit, TypeStep, PTL DEF Spec

-----------------------------------------------------------------------------
(* Repeated clicks.  For each report there is one thing at most that will  *)
(* get it made: a job, a slot at work or a request; and nothing at all for *)
(* a report that a click may queue again.                                  *)

\* Readers click on the button of the report's page, and enqueueing says what it did.
ClicksOnly ==
    /\ Buyers = {} /\ Admins = {} /\ Recoverers = {} /\ Retriers = {}
    /\ ~Regenerate /\ ~LostAnswers

NoSlot(r) == \A w \in Workers : slot[w].report # r
NoTask(r) == \A s \in Sessions : task[s].report # r

Untouched(r) == jobs[r] = 0 /\ NoSlot(r) /\ NoTask(r)
Waiting(r) == jobs[r] = 1 /\ NoSlot(r) /\ NoTask(r)
Working(r, w) == /\ jobs[r] = 0 /\ NoTask(r)
                 /\ \A v \in Workers : slot[v].report = r <=> v = w
Asking(r, s) == /\ jobs[r] = 0 /\ NoSlot(r)
                /\ \A u \in Sessions : task[u].report = r <=> u = s

Alone(r) ==
    \/ Untouched(r) \/ Waiting(r)
    \/ \E w \in Workers : Working(r, w)
    \/ \E s \in Sessions : Asking(r, s)

\* A finished report is only being indexed, if anything.
DoneIsLeft ==
    deaths = 0 =>
        \A r \in Versions : status[r] = "done" =>
            /\ jobs[r] = 0 /\ NoTask(r)
            /\ \A w \in Workers : slot[w].report = r => slot[w].pc = "indexing"

ClicksInv ==
    /\ TypeOK
    /\ latest <= 1
    /\ \A s \in Sessions : /\ task[s].pc \in {"idle", "enqueue", "unqueued"}
                           /\ task[s].pc = "idle" => task[s].report = 0
    /\ \A w \in Workers : slot[w].pc = "free" => slot[w].report = 0
    /\ \A r \in Versions : /\ Alone(r)
                           /\ status[r] \in {"none", "failed"} => Untouched(r)
                           /\ r > latest => status[r] = "none"
    /\ DoneIsLeft

\* A request takes a step over report r, to n.
Moves(s, r, n) ==
    /\ n.pc \in {"idle", "enqueue", "unqueued"} /\ n.report = IF n.pc = "idle" THEN 0 ELSE r
    /\ task' = [task EXCEPT ![s] = n] /\ UNCHANGED <<slot, deaths>>
    /\ latest' <= 1 /\ latest <= latest' /\ r <= latest'
    /\ \A q \in Versions \ {r} : jobs'[q] = jobs[q] /\ status'[q] = status[q]
    /\ \/ /\ Untouched(r) /\ task[s].pc = "idle"
          /\ n.pc = "enqueue" /\ jobs'[r] = 0 /\ status'[r] = "queued"
       \/ task[s].report = r /\ n.pc = "idle" /\ jobs'[r] = 1 /\ status'[r] = status[r]
       \/ /\ task[s].report = r /\ jobs'[r] = 0 /\ n.pc \in {"idle", "unqueued"}
          /\ status'[r] = status[r] \/ (status'[r] = "failed" /\ n.pc = "idle")

LEMMA ClickStep ==
    ASSUME ClicksInv, NEW s \in Sessions, NEW r \in Versions, NEW n, Moves(s, r, n), TypeOK'
    PROVE  ClicksInv'
<1> USE DEF Moves
<1>0. /\ TypeOK /\ latest <= 1
      /\ \A u \in Sessions : /\ task[u].pc \in {"idle", "enqueue", "unqueued"}
                             /\ task[u].pc = "idle" => task[u].report = 0
      /\ \A w \in Workers : slot[w].pc = "free" => slot[w].report = 0
      /\ \A q \in Versions : /\ Alone(q)
                             /\ status[q] \in {"none", "failed"} => Untouched(q)
                             /\ q > latest => status[q] = "none"
      /\ DoneIsLeft
  BY DEF ClicksInv
<1>1. task'[s] = n /\ \A u \in Sessions \ {s} : task'[u] = task[u]
  BY <1>0 DEF TypeOK
<1>2. r # 0 /\ r \in Nat /\ latest \in Nat /\ latest' \in Nat
  BY <1>0, ReportsAssumption DEF Versions, TypeOK
<1>3. task[s].report \in {0, r} \/ Untouched(r)
  OBVIOUS
<1>4. ASSUME NEW q \in Versions, q # r PROVE task[s].report # q /\ n.report # q
  <2>1. q # 0
    BY <1>4 DEF Versions
  <2> QED BY <1>0, <1>4, <2>1
<1>5. ASSUME NEW q \in Versions, q # r
      PROVE  /\ NoTask(q)' = NoTask(q) /\ NoSlot(q)' = NoSlot(q)
             /\ Untouched(q)' = Untouched(q) /\ Waiting(q)' = Waiting(q)
             /\ \A w \in Workers : Working(q, w)' = Working(q, w)
             /\ \A u \in Sessions : Asking(q, u)' = Asking(q, u)
  BY <1>1, <1>4, <1>5 DEF NoTask, NoSlot, Untouched, Waiting, Working, Asking
<1>6. task[s].report = r => Asking(r, s)
  <2> SUFFICES ASSUME task[s].report = r PROVE Asking(r, s)
    OBVIOUS
  <2>1. ~ NoTask(r)
    BY DEF NoTask
  <2>2. PICK u \in Sessions : Asking(r, u)
    BY <1>0, <2>1 DEF Alone, Untouched, Waiting, Working
  <2> QED BY <2>2 DEF Asking
<1>7. Alone(r)' /\ (status'[r] \in {"none", "failed"} => Untouched(r)')
  <2>1. CASE Untouched(r) /\ n.pc = "enqueue" /\ jobs'[r] = 0 /\ status'[r] = "queued"
    <3>1. Asking(r, s)'
      BY <1>1, <2>1 DEF Untouched, Asking, NoTask, NoSlot
    <3> QED BY <2>1, <3>1 DEF Alone
  <2>2. CASE task[s].report = r /\ n.pc = "idle" /\ jobs'[r] = 1 /\ status'[r] = status[r]
    <3>1. Waiting(r)'
      BY <1>1, <1>2, <1>6, <2>2 DEF Waiting, Asking, NoTask, NoSlot
    <3>2. status[r] \notin {"none", "failed"}
      BY <1>0, <2>2 DEF Untouched, NoTask
    <3> QED BY <2>2, <3>1, <3>2 DEF Alone
  <2>3. CASE task[s].report = r /\ jobs'[r] = 0 /\ n.pc \in {"idle", "unqueued"}
             /\ (status'[r] = status[r] \/ (status'[r] = "failed" /\ n.pc = "idle"))
    <3>1. status[r] \notin {"none", "failed"}
      BY <1>0, <2>3 DEF Untouched, NoTask
    <3>2. CASE n.pc = "idle"
      <4>1. Untouched(r)'
        BY <1>1, <1>2, <1>6, <2>3, <3>2 DEF Untouched, Asking, NoTask, NoSlot
      <4> QED BY <4>1 DEF Alone
    <3>3. CASE n.pc = "unqueued"
      <4>1. Asking(r, s)'
        BY <1>1, <1>6, <2>3, <3>3 DEF Asking, NoSlot
      <4> QED BY <2>3, <3>1, <3>3, <4>1 DEF Alone
    <3> QED BY <2>3, <3>2, <3>3
  <2> QED BY <2>1, <2>2, <2>3
<1>8. ASSUME NEW q \in Versions
      PROVE  /\ Alone(q)' /\ (status'[q] \in {"none", "failed"} => Untouched(q)')
             /\ q > latest' => status'[q] = "none"
  <2>1. CASE q = r
    BY <1>2, <1>7, <2>1
  <2>2. CASE q # r
    <3>1. q > latest' => q > latest
      BY <1>2, <2>2 DEF Versions
    <3>2. Alone(q)'
      BY <1>0, <1>5, <2>2 DEF Alone
    <3> QED BY <1>0, <1>5, <2>2, <3>1, <3>2
  <2> QED BY <2>1, <2>2
<1>9. DoneIsLeft'
  <2> SUFFICES ASSUME deaths = 0, NEW q \in Versions, status'[q] = "done"
               PROVE  /\ jobs'[q] = 0 /\ NoTask(q)'
                      /\ \A w \in Workers : slot[w].report = q => slot[w].pc = "indexing"
    BY DEF DoneIsLeft
  <2>1. status[q] = "done" /\ q # r
    <3>1. task[s].report = r => status[r] # "done"
      BY <1>0 DEF DoneIsLeft, NoTask
    <3> QED BY <3>1
  <2> QED BY <1>0, <1>5, <2>1 DEF DoneIsLeft
<1> QED BY <1>0, <1>1, <1>8, <1>9 DEF ClicksInv

\* A slot takes a step over report r.
LEMMA SlotStep ==
    ASSUME ClicksInv, NEW w \in Workers, NEW r \in Versions, NEW n,
           n.report = IF n.pc = "free" THEN 0 ELSE r,
           slot' = [slot EXCEPT ![w] = n], TypeOK', UNCHANGED <<task, latest>>,
           \A q \in Versions \ {r} : jobs'[q] = jobs[q] /\ status'[q] = status[q],
           status'[r] # "none",
           \/ slot[w].pc = "free" /\ jobs[r] > 0 /\ jobs'[r] = jobs[r] - 1 /\ n.pc # "free"
              /\ status'[r] = status[r] /\ deaths' = deaths
           \/ slot[w].pc # "free" /\ slot[w].report = r /\ jobs'[r] = jobs[r] /\ deaths' = deaths
              /\ (status'[r] = "failed" => n.pc = "free")
              /\ (status'[r] = "done" => n.pc \in {"indexing", "free"})
           \/ slot[w].pc # "free" /\ slot[w].report = r /\ jobs'[r] = jobs[r] + 1 /\ n.pc = "free"
              /\ status'[r] = status[r] /\ deaths' # 0
    PROVE  ClicksInv'
<1>0. /\ TypeOK /\ latest <= 1
      /\ \A u \in Sessions : /\ task[u].pc \in {"idle", "enqueue", "unqueued"}
                             /\ task[u].pc = "idle" => task[u].report = 0
      /\ \A v \in Workers : slot[v].pc = "free" => slot[v].report = 0
      /\ \A q \in Versions : /\ Alone(q)
                             /\ status[q] \in {"none", "failed"} => Untouched(q)
                             /\ q > latest => status[q] = "none"
      /\ DoneIsLeft
  BY DEF ClicksInv
<1>1. slot'[w] = n /\ \A v \in Workers \ {w} : slot'[v] = slot[v]
  BY <1>0 DEF TypeOK
<1>2. r # 0 /\ r \in Nat /\ \A q \in Versions : jobs[q] \in Nat /\ q # 0
  BY <1>0, ReportsAssumption DEF Versions, TypeOK
<1>3. slot[w].report \in {0, r}
  BY <1>0
<1>4. ASSUME NEW q \in Versions, q # r PROVE slot[w].report # q /\ n.report # q
  BY <1>2, <1>3, <1>4
<1>5. ASSUME NEW q \in Versions, q # r
      PROVE  /\ NoTask(q)' = NoTask(q) /\ NoSlot(q)' = NoSlot(q)
             /\ Untouched(q)' = Untouched(q) /\ Waiting(q)' = Waiting(q)
             /\ \A v \in Workers : Working(q, v)' = Working(q, v)
             /\ \A u \in Sessions : Asking(q, u)' = Asking(q, u)
  BY <1>1, <1>4, <1>5 DEF NoTask, NoSlot, Untouched, Waiting, Working, Asking
<1>6. slot[w].report = r => Working(r, w)
  <2> SUFFICES ASSUME slot[w].report = r PROVE Working(r, w)
    OBVIOUS
  <2>1. ~ NoSlot(r)
    BY DEF NoSlot
  <2>2. PICK v \in Workers : Working(r, v)
    BY <1>0, <2>1 DEF Alone, Untouched, Waiting, Asking
  <2> QED BY <2>2 DEF Working
<1>7. jobs[r] > 0 => Waiting(r)
  BY <1>0, <1>2 DEF Alone, Untouched, Working, Asking
<1>8. jobs[r] > 0 \/ slot[w].report = r
  OBVIOUS
<1>9. ~ Untouched(r) /\ status[r] \notin {"none", "failed"}
  BY <1>0, <1>2, <1>8 DEF Untouched, NoSlot
<1>10. Alone(r)' /\ (status'[r] = "failed" => Untouched(r)')
  <2>1. CASE slot[w].pc = "free" /\ jobs[r] > 0 /\ jobs'[r] = jobs[r] - 1 /\ n.pc # "free"
             /\ status'[r] = status[r]
    <3>1. Working(r, w)'
      BY <1>1, <1>2, <1>7, <2>1 DEF Waiting, Working, NoTask, NoSlot
    <3> QED BY <1>9, <2>1, <3>1 DEF Alone
  <2>2. CASE slot[w].report = r /\ jobs'[r] = jobs[r]
             /\ (status'[r] = "failed" => n.pc = "free")
    <3>1. CASE n.pc = "free"
      <4>1. Untouched(r)'
        BY <1>1, <1>2, <1>6, <2>2, <3>1 DEF Untouched, Working, NoTask, NoSlot
      <4> QED BY <4>1 DEF Alone
    <3>2. CASE n.pc # "free"
      <4>1. Working(r, w)'
        BY <1>1, <1>6, <2>2, <3>2 DEF Working, NoTask
      <4> QED BY <2>2, <3>2, <4>1 DEF Alone
    <3> QED BY <3>1, <3>2
  <2>3. CASE slot[w].report = r /\ jobs'[r] = jobs[r] + 1 /\ n.pc = "free"
             /\ status'[r] = status[r]
    <3>1. Waiting(r)'
      BY <1>1, <1>2, <1>6, <2>3 DEF Waiting, Working, NoTask, NoSlot
    <3> QED BY <1>9, <2>3, <3>1 DEF Alone
  <2> QED BY <2>1, <2>2, <2>3
<1>11. r <= latest
  <2>1. latest \in Nat
    BY <1>0, ReportsAssumption DEF TypeOK
  <2> QED BY <1>0, <1>2, <1>9, <2>1
<1>12. ASSUME NEW q \in Versions
       PROVE  /\ Alone(q)' /\ (status'[q] \in {"none", "failed"} => Untouched(q)')
              /\ q > latest' => status'[q] = "none"
  <2>1. CASE q = r
    <3>1. latest \in Nat
      BY <1>0, ReportsAssumption DEF TypeOK
    <3> QED BY <1>2, <1>10, <1>11, <2>1, <3>1
  <2>2. CASE q # r
    <3>1. Alone(q)'
      BY <1>0, <1>5, <2>2 DEF Alone
    <3> QED BY <1>0, <1>5, <2>2, <3>1
  <2> QED BY <2>1, <2>2
<1>13. DoneIsLeft'
  <2> SUFFICES ASSUME deaths' = 0, NEW q \in Versions, status'[q] = "done"
               PROVE  /\ jobs'[q] = 0 /\ NoTask(q)'
                      /\ \A v \in Workers : slot'[v].report = q => slot'[v].pc = "indexing"
    BY DEF DoneIsLeft
  <2>1. CASE q # r
    <3>1. deaths = 0 /\ status[q] = "done"
      BY <2>1
    <3> QED BY <1>0, <1>1, <1>4, <1>5, <2>1, <3>1 DEF DoneIsLeft
  <2>2. CASE q = r
    <3>1. slot[w].report = r /\ jobs'[r] = jobs[r] /\ n.pc \in {"indexing", "free"}
      BY <1>0, <1>2, <2>2 DEF DoneIsLeft
    <3> QED BY <1>1, <1>2, <1>6, <2>2, <3>1 DEF Working, NoTask
  <2> QED BY <2>1, <2>2
<1> QED BY <1>0, <1>1, <1>2, <1>12, <1>13 DEF ClicksInv

LEMMA ClicksStep == ASSUME ClicksOnly, ClicksInv, [Next]_vars PROVE ClicksInv'
<1>0. /\ TypeOK /\ latest <= 1
      /\ \A u \in Sessions : /\ task[u].pc \in {"idle", "enqueue", "unqueued"}
                             /\ task[u].pc = "idle" => task[u].report = 0
      /\ \A w \in Workers : slot[w].pc = "free" => slot[w].report = 0
      /\ \A q \in Versions : /\ Alone(q)
                             /\ status[q] \in {"none", "failed"} => Untouched(q)
                             /\ q > latest => status[q] = "none"
      /\ DoneIsLeft
  BY DEF ClicksInv
<1>1. TypeOK' /\ latest \in 0 .. MaxReports /\ MaxReports \in Nat /\ Idle.pc = "idle" /\ Idle.report = 0
  BY <1>0, TypeStep, ReportsAssumption DEF TypeOK, Idle
<1>2. /\ jobs \in [Versions -> Nat] /\ status \in [Versions -> Statuses]
      /\ \A s \in Sessions : task[s].report \in 0 .. MaxReports
      /\ \A w \in Workers : slot[w].report \in 0 .. MaxReports
  BY <1>0 DEF TypeOK
<1>3. ASSUME NEW s \in Clickers, ClickNew(s) PROVE ClicksInv'
  <2> DEFINE n == [pc |-> "enqueue", report |-> 1]
  <2>1. s \in Sessions /\ task[s].pc = "idle" /\ latest = 0 /\ MaxReports > 0
    BY <1>1, <1>3 DEF Sessions, ClickNew, ClicksOnly, AddReport, IsIdle
  <2>2. 1 \in Versions /\ 1 > latest
    BY <1>1, <2>1 DEF Versions
  <2>3. status[1] = "none" /\ Untouched(1)
    BY <1>0, <2>2
  <2>4. latest' = 1 /\ task' = [task EXCEPT ![s] = n] /\ UNCHANGED <<slot, deaths, jobs>>
    BY <1>3, <2>1 DEF ClickNew, AddReport, Goto, losses
  <2>5. status' = [status EXCEPT ![1] = "queued"]
    BY <1>3, <2>1 DEF ClickNew, AddReport, SetStatus
  <2>6. n.pc = "enqueue" /\ n.report = 1
    OBVIOUS
  <2> HIDE DEF n
  <2>7. jobs'[1] = 0 /\ status'[1] = "queued" /\ \A q \in Versions \ {1} : status'[q] = status[q]
    BY <1>2, <2>2, <2>3, <2>4, <2>5 DEF Untouched
  <2>8. n.pc \in {"idle", "enqueue", "unqueued"} /\ n.report = IF n.pc = "idle" THEN 0 ELSE 1
    BY <2>6
  <2>9. latest' <= 1 /\ latest <= latest' /\ 1 <= latest'
    BY <2>1, <2>4
  <2>10. \A q \in Versions \ {1} : jobs'[q] = jobs[q] /\ status'[q] = status[q]
    BY <2>4, <2>7
  <2>11. Moves(s, 1, n)
    BY <2>1, <2>3, <2>4, <2>6, <2>7, <2>8, <2>9, <2>10 DEF Moves
  <2> QED BY <1>1, <2>1, <2>2, <2>11, ClickStep
<1>4. ASSUME NEW s \in Clickers, ClickFailed(s) PROVE ClicksInv'
  <2> DEFINE n == [pc |-> "enqueue", report |-> latest]
  <2>1. s \in Sessions /\ task[s].pc = "idle" /\ status[latest] = "failed" /\ latest \in Versions
    BY <1>1, <1>4 DEF Sessions, ClickFailed, IsIdle, Versions
  <2>2. Untouched(latest)
    BY <1>0, <2>1
  <2>3. latest' = latest /\ task' = [task EXCEPT ![s] = n] /\ UNCHANGED <<slot, deaths, jobs>>
    BY <1>4 DEF ClickFailed, QueueAgain, Goto, losses
  <2>4. status' = [status EXCEPT ![latest] = "queued"]
    BY <1>4 DEF ClickFailed, QueueAgain, SetStatus
  <2>5. n.pc = "enqueue" /\ n.report = latest
    OBVIOUS
  <2> HIDE DEF n
  <2>6. jobs'[latest] = 0 /\ status'[latest] = "queued"
        /\ \A q \in Versions \ {latest} : status'[q] = status[q]
    BY <1>2, <2>1, <2>2, <2>3, <2>4 DEF Untouched
  <2>7. n.pc \in {"idle", "enqueue", "unqueued"} /\ n.report = IF n.pc = "idle" THEN 0 ELSE latest
    BY <2>5
  <2>8. latest' <= 1 /\ latest <= latest'
    BY <1>0, <1>1, <2>3
  <2>9. \A q \in Versions \ {latest} : jobs'[q] = jobs[q] /\ status'[q] = status[q]
    BY <2>3, <2>6
  <2>10. Moves(s, latest, n)
    BY <2>1, <2>2, <2>3, <2>5, <2>6, <2>7, <2>8, <2>9 DEF Moves
  <2> QED BY <1>1, <2>1, <2>10, ClickStep
<1>5. ASSUME NEW s \in Sessions, task[s].pc \in {"enqueue", "unqueued"}
      PROVE  task[s].report \in Versions => /\ task[s].report <= latest
                                            /\ jobs[task[s].report] = 0
  <2> SUFFICES ASSUME task[s].report \in Versions
               PROVE  task[s].report <= latest /\ jobs[task[s].report] = 0
    OBVIOUS
  <2> DEFINE r == task[s].report
  <2>1. ~ Untouched(r) /\ jobs[r] = 0
    BY <1>0 DEF Alone, Untouched, Waiting, Working, Asking, NoTask
  <2>2. ~ (r > latest)
    BY <1>0, <2>1
  <2> QED BY <1>1, <2>1, <2>2 DEF Versions
<1> DEFINE Goes(s, n) ==
        LET r == task[s].report
        IN  /\ task[s].pc \in {"enqueue", "unqueued"} /\ n.pc \in {"idle", "unqueued"}
            /\ n.report = IF n.pc = "idle" THEN 0 ELSE r
            /\ task' = [task EXCEPT ![s] = n] /\ UNCHANGED <<slot, deaths, latest>>
            /\ \A q \in Versions \ {r} : jobs'[q] = jobs[q] /\ status'[q] = status[q]
            /\ r \in Versions =>
                  \/ jobs'[r] = jobs[r] + 1 /\ n.pc = "idle" /\ status'[r] = status[r]
                  \/ /\ jobs'[r] = jobs[r]
                     /\ status'[r] = status[r] \/ (status'[r] = "failed" /\ n.pc = "idle")
<1>6. ASSUME NEW s \in Sessions, NEW n, Goes(s, n) PROVE ClicksInv'
  <2> DEFINE r == task[s].report
  <2>1. CASE r \in Versions
    <3>1. r <= latest /\ jobs[r] = 0
      BY <1>5, <1>6, <2>1
    <3>2. latest <= latest' /\ latest' <= 1 /\ r <= latest'
      BY <1>0, <1>1, <1>6, <3>1 DEF Versions
    <3>3. n.pc \in {"idle", "enqueue", "unqueued"}
      BY <1>6
    <3>4. \/ n.pc = "idle" /\ jobs'[r] = 1 /\ status'[r] = status[r]
          \/ jobs'[r] = 0 /\ n.pc \in {"idle", "unqueued"}
             /\ (status'[r] = status[r] \/ (status'[r] = "failed" /\ n.pc = "idle"))
      BY <1>6, <2>1, <3>1
    <3>5. n.report = IF n.pc = "idle" THEN 0 ELSE r
      BY <1>6
    <3>6. \A q \in Versions \ {r} : jobs'[q] = jobs[q] /\ status'[q] = status[q]
      BY <1>6
    <3>7. task' = [task EXCEPT ![s] = n] /\ UNCHANGED <<slot, deaths>>
      BY <1>6
    <3>8. Moves(s, r, n)
      BY <3>2, <3>3, <3>4, <3>5, <3>6, <3>7 DEF Moves
    <3> QED BY <1>1, <2>1, <3>8, ClickStep
  <2>2. CASE r \notin Versions
    <3>1. r = 0 /\ \A q \in Versions : q # 0
      BY <1>1, <1>2, <2>2 DEF Versions
    <3>2. n.report = 0
      BY <1>6, <3>1
    <3>3. \A u \in Sessions : task'[u].report = task[u].report
      BY <1>0, <1>6, <3>1, <3>2 DEF TypeOK
    <3>4. \A q \in Versions : jobs'[q] = jobs[q] /\ status'[q] = status[q]
      BY <1>6, <2>2
    <3>5. \A u \in Sessions : /\ task'[u].pc \in {"idle", "enqueue", "unqueued"}
                              /\ task'[u].pc = "idle" => task'[u].report = 0
      BY <1>0, <1>6, <3>2 DEF TypeOK
    <3>6. \A q \in Versions : NoTask(q)' = NoTask(q) /\ NoSlot(q)' = NoSlot(q)
      BY <1>6, <3>3 DEF NoTask, NoSlot
    <3>7. \A q \in Versions : Untouched(q)' = Untouched(q) /\ Alone(q)' = Alone(q)
      BY <1>6, <3>3, <3>4, <3>6 DEF Untouched, Alone, Waiting, Working, Asking
    <3>8. DoneIsLeft'
      BY <1>0, <1>6, <3>4, <3>6 DEF DoneIsLeft
    <3> QED BY <1>0, <1>1, <1>6, <3>4, <3>5, <3>7, <3>8 DEF ClicksInv
  <2> QED BY <2>1, <2>2
<1> HIDE DEF Goes
<1>7. ASSUME NEW s \in Sessions, Enqueue(s) PROVE ClicksInv'
  <2>1. task[s].pc \in {"enqueue", "unqueued"} /\ task' = [task EXCEPT ![s] = Idle]
        /\ UNCHANGED <<slot, deaths, latest, status>>
    BY <1>0, <1>7 DEF Enqueue, Done, losses
  <2>2. jobs' = [jobs EXCEPT ![task[s].report] = @ + 1]
    BY <1>7 DEF Enqueue, Push
  <2>3. \A q \in Versions \ {task[s].report} : jobs'[q] = jobs[q] /\ status'[q] = status[q]
    BY <1>2, <2>1, <2>2
  <2>4. task[s].report \in Versions => /\ jobs'[task[s].report] = jobs[task[s].report] + 1
                                       /\ status'[task[s].report] = status[task[s].report]
    BY <1>2, <2>1, <2>2
  <2>5. Idle.report = IF Idle.pc = "idle" THEN 0 ELSE task[s].report
    BY <1>1
  <2>6. Goes(s, Idle)
    BY <1>1, <2>1, <2>3, <2>4, <2>5 DEF Goes
  <2> QED BY <1>6, <2>6
<1>8. ASSUME NEW s \in Sessions, EnqueueFails(s) PROVE ClicksInv'
  <2> DEFINE n == [pc |-> "unqueued", report |-> task[s].report]
  <2>1. task[s].pc = "enqueue" /\ task' = [task EXCEPT ![s] = n]
        /\ UNCHANGED <<slot, deaths, latest, status, jobs>>
    BY <1>8 DEF EnqueueFails, Goto, losses, ClicksOnly
  <2>2. n.pc = "unqueued" /\ n.report = task[s].report
    OBVIOUS
  <2> HIDE DEF n
  <2>3. n.report = IF n.pc = "idle" THEN 0 ELSE task[s].report
    BY <2>2
  <2>4. \A q \in Versions \ {task[s].report} : jobs'[q] = jobs[q] /\ status'[q] = status[q]
    BY <2>1
  <2>5. Goes(s, n)
    BY <2>1, <2>2, <2>3, <2>4 DEF Goes
  <2> QED BY <1>6, <2>5
<1>9. ASSUME NEW s \in Sessions, MarkFailed(s) PROVE ClicksInv'
  <2>1. task[s].pc = "unqueued" /\ task' = [task EXCEPT ![s] = Idle]
        /\ UNCHANGED <<slot, deaths, latest, jobs>>
    BY <1>9 DEF MarkFailed, Done, losses
  <2>2. status' = [status EXCEPT ![task[s].report] = "failed"]
    BY <1>9 DEF MarkFailed, SetStatus
  <2>3. \A q \in Versions \ {task[s].report} : jobs'[q] = jobs[q] /\ status'[q] = status[q]
    BY <1>2, <2>1, <2>2
  <2>4. task[s].report \in Versions => /\ jobs'[task[s].report] = jobs[task[s].report]
                                       /\ status'[task[s].report] = "failed"
    BY <1>2, <2>1, <2>2
  <2>5. Idle.report = IF Idle.pc = "idle" THEN 0 ELSE task[s].report
    BY <1>1
  <2>6. Goes(s, Idle)
    BY <1>1, <2>1, <2>3, <2>4, <2>5 DEF Goes
  <2> QED BY <1>6, <2>6
<1>10. ASSUME NEW s \in Sessions, ProcessDies(s) PROVE ClicksInv'
  <2>1. task[s].pc \in {"enqueue", "unqueued"} /\ task' = [task EXCEPT ![s] = Idle]
        /\ UNCHANGED <<slot, latest, jobs, status>>
    BY <1>0, <1>10 DEF ProcessDies, Done, IsIdle
  <2>2. ClicksInv'
    <3>1. deaths' # 0
      BY <1>0, <1>10 DEF ProcessDies, TypeOK
    <3>2. DoneIsLeft'
      BY <3>1 DEF DoneIsLeft
    <3>3. task'[s] = Idle /\ \A u \in Sessions \ {s} : task'[u] = task[u]
      BY <1>0, <2>1 DEF TypeOK
    <3>4. \A q \in Versions : q # 0
      BY DEF Versions
    <3>5. \A q \in Versions : /\ NoSlot(q)' = NoSlot(q)
                              /\ NoTask(q) => NoTask(q)'
      BY <1>1, <2>1, <3>3, <3>4 DEF NoSlot, NoTask
    <3>6. \A q \in Versions : Untouched(q) => Untouched(q)'
      BY <2>1, <3>5 DEF Untouched
    <3>7. ASSUME NEW q \in Versions PROVE Alone(q)'
      <4>1. CASE Untouched(q) \/ Waiting(q)
        BY <2>1, <3>5, <4>1 DEF Untouched, Waiting, Alone
      <4>2. ASSUME NEW w \in Workers, Working(q, w) PROVE Alone(q)'
        BY <2>1, <3>5, <4>2 DEF Working, Alone
      <4>3. ASSUME NEW u \in Sessions, Asking(q, u) PROVE Alone(q)'
        <5>1. CASE u = s
          <6>1. NoTask(q)'
            BY <1>1, <3>3, <3>4, <4>3, <5>1 DEF Asking, NoTask
          <6>2. Untouched(q)'
            BY <2>1, <3>5, <4>3, <6>1 DEF Asking, Untouched
          <6> QED BY <6>2 DEF Alone
        <5>2. CASE u # s
          <6>1. task[s].report # q
            BY <4>3, <5>2 DEF Asking
          <6>2. Asking(q, u)'
            BY <1>1, <2>1, <3>3, <3>4, <3>5, <4>3, <5>2, <6>1 DEF Asking
          <6> QED BY <6>2 DEF Alone
        <5> QED BY <5>1, <5>2
      <4> QED BY <1>0, <4>1, <4>2, <4>3 DEF Alone
    <3> QED BY <1>0, <1>1, <2>1, <3>2, <3>3, <3>6, <3>7 DEF ClicksInv
  <2> QED BY <2>2
<1>11. ASSUME NEW w \in Workers, NEW r \in Versions, PickUp(w, r) PROVE ClicksInv'
  <2> DEFINE n == [pc |-> "picked", report |-> r, fresh |-> FALSE]
  <2>1. slot[w].pc = "free" /\ jobs[r] > 0 /\ jobs' = [jobs EXCEPT ![r] = @ - 1]
        /\ slot' = [slot EXCEPT ![w] = n] /\ UNCHANGED <<task, latest, status, deaths>>
    BY <1>11 DEF PickUp, losses
  <2>2. n.pc = "picked" /\ n.report = r
    OBVIOUS
  <2> HIDE DEF n
  <2>3. status[r] # "none"
    BY <1>0, <2>1 DEF Untouched
  <2>4. jobs'[r] = jobs[r] - 1 /\ \A q \in Versions \ {r} : jobs'[q] = jobs[q]
    BY <1>2, <2>1
  <2> QED BY <1>1, <2>1, <2>2, <2>3, <2>4, SlotStep
\* What a slot may do over its report.
<1>12. ASSUME NEW w \in Workers, slot[w].pc # "free" PROVE slot[w].report \in Versions => status[slot[w].report] # "none"
  BY <1>0 DEF Untouched, NoSlot
<1>13. ASSUME NEW w \in Workers, NEW n, slot[w].pc # "free", slot' = [slot EXCEPT ![w] = n],
              UNCHANGED <<task, latest, deaths, jobs>>,
              n.pc \in {"free", "running", "indexing"},
              n.report = IF n.pc = "free" THEN 0 ELSE slot[w].report,
              \A q \in Versions \ {slot[w].report} : status'[q] = status[q],
              slot[w].report \in Versions =>
                 \/ status'[slot[w].report] = status[slot[w].report] /\ n.pc = "free"
                 \/ status'[slot[w].report] = "failed" /\ n.pc = "free"
                 \/ status'[slot[w].report] = "degraded" /\ n.pc = "free"
                 \/ status'[slot[w].report] = "done" /\ n.pc = "indexing"
                 \/ status'[slot[w].report] = "running" /\ n.pc = "running"
       PROVE  ClicksInv'
  <2> DEFINE r == slot[w].report
  <2>1. CASE r \in Versions
    <3>1. status'[r] # "none" /\ status[r] # "none"
      BY <1>12, <1>13, <2>1
    <3>2. /\ status'[r] = "failed" => n.pc = "free"
          /\ status'[r] = "done" => n.pc \in {"indexing", "free"}
      BY <1>13, <2>1
    <3>3. \A q \in Versions \ {r} : jobs'[q] = jobs[q] /\ status'[q] = status[q]
      BY <1>13
    <3> QED BY <1>1, <1>13, <2>1, <3>1, <3>2, <3>3, SlotStep
  <2>2. CASE r \notin Versions
    <3>1. r = 0 /\ \A q \in Versions : q # 0
      BY <1>1, <1>2, <2>2 DEF Versions
    <3>2. n.report = 0
      BY <1>13, <3>1
    <3>3. \A v \in Workers : slot'[v].report = slot[v].report
      BY <1>0, <1>13, <3>1, <3>2 DEF TypeOK
    <3>4. \A q \in Versions : jobs'[q] = jobs[q] /\ status'[q] = status[q]
      BY <1>13, <2>2
    <3>5. \A v \in Workers : slot'[v].pc = "free" => slot'[v].report = 0
      BY <1>0, <1>13, <3>2 DEF TypeOK
    <3>6. \A q \in Versions : NoTask(q)' = NoTask(q) /\ NoSlot(q)' = NoSlot(q)
      BY <1>13, <3>3 DEF NoTask, NoSlot
    <3>7. \A q \in Versions : Untouched(q)' = Untouched(q) /\ Alone(q)' = Alone(q)
      BY <1>13, <3>3, <3>4, <3>6 DEF Untouched, Alone, Waiting, Working, Asking
    <3>8. \A v \in Workers, q \in Versions : slot'[v].report = q => slot'[v] = slot[v]
      BY <1>0, <1>13, <3>1, <3>2 DEF TypeOK
    <3>9. DoneIsLeft'
      BY <1>0, <1>13, <3>4, <3>6, <3>8 DEF DoneIsLeft
    <3> QED BY <1>0, <1>1, <1>13, <3>4, <3>5, <3>7, <3>9 DEF ClicksInv
  <2> QED BY <2>1, <2>2
<1>14. Free.pc = "free" /\ Free.report = 0
  BY DEF Free
<1>15. ASSUME NEW w \in Workers, Start(w) PROVE ClicksInv'
  <2> DEFINE n == [slot[w] EXCEPT !.pc = "running", !.fresh = status[slot[w].report] # "running"]
  <2>1. slot[w].pc = "picked" /\ UNCHANGED <<task, latest, deaths, jobs>>
        /\ status' = [status EXCEPT ![slot[w].report] = "running"]
    BY <1>15 DEF Start, SetStatus, losses
  <2>2. slot' = [slot EXCEPT ![w] = n]
    BY <1>0, <1>15 DEF Start, TypeOK
  <2>3. n.pc = "running" /\ n.report = slot[w].report
    BY <1>0 DEF TypeOK
  <2> HIDE DEF n
  <2> QED BY <1>2, <1>13, <2>1, <2>2, <2>3
<1>16. ASSUME NEW w \in Workers, BudgetStop(w) \/ FinishFailed(w) PROVE ClicksInv'
  <2>1. slot[w].pc = "running" /\ UNCHANGED <<task, latest, deaths, jobs>>
        /\ slot' = [slot EXCEPT ![w] = Free]
    BY <1>16 DEF BudgetStop, FinishFailed, losses
  <2>2. \/ status' = [status EXCEPT ![slot[w].report] = "degraded"]
        \/ status' = [status EXCEPT ![slot[w].report] = "failed"]
    BY <1>16 DEF BudgetStop, FinishFailed, SetStatus
  <2> QED BY <1>2, <1>13, <1>14, <2>1, <2>2
<1>17. ASSUME NEW w \in Workers, Indexed(w) \/ JobTimeout(w) PROVE ClicksInv'
  BY <1>13, <1>14, <1>17 DEF Indexed, JobTimeout, losses
<1>18. ASSUME NEW w \in Workers, NEW out \in Outcomes, NEW capped \in BOOLEAN,
              Finish(w, out, capped)
       PROVE  ClicksInv'
  <2> DEFINE n == IF Verdict(out, capped) = "done" THEN [slot[w] EXCEPT !.pc = "indexing"] ELSE Free
             x == Verdict(out, capped)
  <2>1. slot[w].pc = "running" /\ UNCHANGED <<task, latest, deaths, jobs>>
        /\ status' = [status EXCEPT ![slot[w].report] = x]
    BY <1>18 DEF Finish, SetStatus, losses
  <2>2. slot' = [slot EXCEPT ![w] = n]
    BY <1>18 DEF Finish
  <2>3. x \in {"done", "degraded"} /\ n.pc = (IF x = "done" THEN "indexing" ELSE "free")
        /\ n.report = IF n.pc = "free" THEN 0 ELSE slot[w].report
    BY <1>0, <1>14, VerdictStatus DEF TypeOK
  <2> HIDE DEF n, x
  <2>4. slot[w].report \in Versions => status'[slot[w].report] = x
    BY <1>2, <2>1
  <2>5. \A q \in Versions \ {slot[w].report} : status'[q] = status[q]
    BY <1>2, <2>1
  <2> QED BY <1>13, <2>1, <2>2, <2>3, <2>4, <2>5
<1>19. ASSUME NEW w \in Workers, WorkerDies(w) PROVE ClicksInv'
  <2> DEFINE r == slot[w].report
  <2>1. slot[w].pc # "free" /\ UNCHANGED <<task, latest, status>> /\ slot' = [slot EXCEPT ![w] = Free]
        /\ jobs' = [jobs EXCEPT ![r] = @ + 1]
    BY <1>19 DEF WorkerDies, Push
  <2>2. deaths' # 0
    BY <1>0, <1>19 DEF WorkerDies, TypeOK
  <2>3. CASE r \in Versions
    <3>1. status[r] # "none"
      BY <1>12, <2>1, <2>3
    <3>2. jobs'[r] = jobs[r] + 1 /\ \A q \in Versions \ {r} : jobs'[q] = jobs[q]
      BY <1>2, <2>1, <2>3
    <3> QED BY <1>1, <1>14, <2>1, <2>2, <2>3, <3>1, <3>2, SlotStep
  <2>4. CASE r \notin Versions
    <3>1. r = 0 /\ \A q \in Versions : q # 0
      BY <1>1, <1>2, <2>4 DEF Versions
    <3>2. jobs' = jobs
      BY <1>2, <2>1, <2>4
    <3>3. \A v \in Workers : slot'[v].report = slot[v].report
      BY <1>0, <1>14, <2>1, <3>1 DEF TypeOK
    <3>4. \A v \in Workers : slot'[v].pc = "free" => slot'[v].report = 0
      BY <1>0, <1>14, <2>1 DEF TypeOK
    <3>5. \A q \in Versions : NoTask(q)' = NoTask(q) /\ NoSlot(q)' = NoSlot(q)
      BY <2>1, <3>3 DEF NoTask, NoSlot
    <3>6. \A q \in Versions : Untouched(q)' = Untouched(q) /\ Alone(q)' = Alone(q)
      BY <2>1, <3>2, <3>3, <3>5 DEF Untouched, Alone, Waiting, Working, Asking
    <3>7. DoneIsLeft'
      BY <2>2 DEF DoneIsLeft
    <3> QED BY <1>0, <1>1, <2>1, <3>4, <3>6, <3>7 DEF ClicksInv
  <2> QED BY <2>3, <2>4
<1>20. CASE UNCHANGED vars
  BY <1>0, <1>20 DEF vars, losses, ClicksInv, TypeOK, DoneIsLeft, Alone, Untouched, Waiting, Working,
                     Asking, NoSlot, NoTask
<1>21. ASSUME NEW s \in Sessions, Proceed(s) PROVE ClicksInv'
  <2>1. ~ CopyNotEnqueued(s) /\ ~ BuyNew(s) /\ ~ ScriptWrite(s)
    BY <1>0 DEF CopyNotEnqueued, BuyNew, ScriptWrite
  <2> QED BY <1>7, <1>8, <1>9, <1>21, <2>1 DEF Proceed
<1>22. Ask => \E s \in Clickers : ClickNew(s) \/ ClickFailed(s)
  BY DEF Ask, ClicksOnly
<1>23. ~ Recover
  BY DEF Recover, ClicksOnly
<1>24. ASSUME NEW w \in Workers, Run(w) PROVE ClicksInv'
  BY <1>15, <1>16, <1>17, <1>18, <1>24 DEF Run
<1> QED
  BY <1>3, <1>4, <1>10, <1>11, <1>17, <1>19, <1>20, <1>21, <1>22, <1>23, <1>24 DEF Next

LEMMA ClicksInitially == Init => ClicksInv
<1> SUFFICES ASSUME Init PROVE ClicksInv
  OBVIOUS
<1>1. \A r \in Versions : Untouched(r)
  BY DEF Init, Untouched, NoSlot, NoTask, Idle, Free, Versions
<1>2. TypeOK /\ DoneIsLeft
  BY TypeInit DEF Init, DoneIsLeft
<1> QED BY <1>1, <1>2 DEF Init, Idle, Free, Alone, ClicksInv

LEMMA OneForEach == ClicksInv => ClicksAreIdempotent
<1> SUFFICES ASSUME ClicksInv, NEW r \in Versions PROVE JobsOf(r) <= 1
  BY DEF ClicksInv, ClicksAreIdempotent
<1> DEFINE W == {w \in Workers : slot[w].report = r /\ slot[w].pc # "indexing"}
           S == {s \in Sessions : task[s].report = r /\ task[s].pc \in {"enqueue", "enqueueCopy"}}
<1>0. JobsOf(r) = jobs[r] + Cardinality(W) + Cardinality(S)
  BY DEF JobsOf
<1>1. Cardinality({}) = 0 /\ \A x : Cardinality({x}) = 1
  BY FS_EmptySet, FS_Singleton
<1>2. NoSlot(r) => W = {}
  BY DEF NoSlot
<1>3. NoTask(r) => S = {}
  BY DEF NoTask
<1>4. CASE Untouched(r) \/ Waiting(r)
  <2> HIDE DEF W, S
  <2> QED BY <1>0, <1>1, <1>2, <1>3, <1>4 DEF Untouched, Waiting
<1>5. ASSUME NEW w \in Workers, Working(r, w) PROVE JobsOf(r) <= 1
  <2>1. W = {} \/ W = {w}
    BY <1>5 DEF Working
  <2>2. Cardinality(W) \in {0, 1}
    BY <1>1, <2>1
  <2>3. Cardinality(S) = 0 /\ jobs[r] = 0
    BY <1>1, <1>3, <1>5 DEF Working
  <2> HIDE DEF W, S
  <2> QED BY <1>0, <2>2, <2>3
<1>6. ASSUME NEW s \in Sessions, Asking(r, s) PROVE JobsOf(r) <= 1
  <2>1. S = {} \/ S = {s}
    BY <1>6 DEF Asking
  <2>2. Cardinality(S) \in {0, 1}
    BY <1>1, <2>1
  <2>3. Cardinality(W) = 0 /\ jobs[r] = 0
    BY <1>1, <1>2, <1>6 DEF Asking
  <2> HIDE DEF W, S
  <2> QED BY <1>0, <2>2, <2>3
<1> QED BY <1>4, <1>5, <1>6 DEF ClicksInv, Alone

\* However often and in whatever order readers click, while requests, enqueues and jobs
\* overlap, fail, time out and die: there is one report, and one job for it at most
\* (api_create_report: "repeated clicks must not enqueue multiple LLM jobs").
THEOREM RepeatedClicksAreIdempotent ==
    ASSUME ClicksOnly PROVE Spec => []ClicksAreIdempotent
  BY ClicksInitially, ClicksStep, OneForEach, PTL DEF Spec

\* The same where no web process dies: what was clicked is queued for one job, which there is
\* until it is done.
THEOREM ClicksAreSeenTo ==
    ASSUME ClicksOnly, ~ProcessMayDie PROVE Spec => []ClicksAreAttended
<1>1. Spec => []ClicksAreIdempotent
  BY RepeatedClicksAreIdempotent
<1>2. Spec => []QueuedIsAttended
  BY QueuedReportIsAttended DEF ClicksOnly, UsersOnly
<1>3. ClicksAreIdempotent /\ QueuedIsAttended => ClicksAreAttended
  BY DEF ClicksAreAttended
<1> QED BY <1>1, <1>2, <1>3, PTL

LEMMA DoneStep ==
    ASSUME ClicksOnly, ClicksInv, [Next]_vars, deaths = 0, NEW r \in Versions, status[r] = "done"
    PROVE  status'[r] = "done"
<1>1. /\ status \in [Versions -> Statuses] /\ jobs[r] = 0 /\ NoTask(r)
      /\ \A w \in Workers : slot[w].report = r => slot[w].pc = "indexing"
      /\ \A s \in Sessions : task[s].pc \in {"idle", "enqueue", "unqueued"}
      /\ r > latest => status[r] = "none"
  BY DEF ClicksInv, DoneIsLeft, TypeOK
<1>2. latest \in Nat /\ r \in Nat
  BY ReportsAssumption DEF ClicksInv, TypeOK, Versions
<1>3. CASE Ask
  <2>1. PICK s \in Clickers : ClickNew(s) \/ ClickFailed(s)
    BY <1>3 DEF Ask, ClicksOnly
  <2>2. r # latest + 1
    BY <1>1, <1>2
  <2> QED BY <1>1, <2>1, <2>2 DEF ClickNew, ClickFailed, AddReport, QueueAgain, SetStatus
<1>4. ASSUME NEW s \in Sessions, Proceed(s) PROVE status'[r] = "done"
  BY <1>1, <1>4 DEF Proceed, Enqueue, EnqueueFails, MarkFailed, CopyNotEnqueued, BuyNew,
                    ScriptWrite, SetStatus, NoTask
<1>5. ASSUME NEW w \in Workers, Run(w) PROVE status'[r] = "done"
  BY <1>1, <1>5 DEF Run, Start, BudgetStop, FinishFailed, Indexed, Finish, SetStatus
<1>6. ASSUME NEW w \in Workers, NEW q \in Versions, PickUp(w, q) PROVE status'[r] = "done"
  BY <1>6 DEF PickUp
<1>7. ASSUME NEW w \in Workers, WorkerDies(w) \/ JobTimeout(w) PROVE status'[r] = "done"
  BY <1>7 DEF WorkerDies, JobTimeout
<1>8. ASSUME NEW s \in Sessions, ProcessDies(s) PROVE status'[r] = "done"
  BY <1>8 DEF ProcessDies
<1>9. CASE UNCHANGED vars
  BY <1>9 DEF vars
<1>10. ~ Recover
  BY DEF Recover, ClicksOnly
<1> QED BY <1>3, <1>4, <1>5, <1>6, <1>7, <1>8, <1>9, <1>10 DEF Next

\* No click takes a finished report away from its reader again, and no second job runs
\* over it, unless a worker or a process died.
THEOREM FinishedReportsStay ==
    ASSUME ClicksOnly PROVE Spec => DoneStaysDone
<1>1. ClicksInv /\ [Next]_vars =>
         [deaths = 0 => \A r \in Versions : status[r] = "done" => status'[r] = "done"]_vars
  BY DoneStep
<1> QED
  BY <1>1, ClicksInitially, ClicksStep, PTL DEF Spec, DoneStaysDone

=============================================================================
