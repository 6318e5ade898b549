------------------------------- MODULE Audio -------------------------------
(***************************************************************************)
(* The audio version of one report: app/main.py, api_report_audio_request; *)
(* app/report/worker.py, generate_report_audio.                            *)
(*                                                                         *)
(* The request queues the job, and then always takes the branch of a queue *)
(* that is not available: _enqueue_audio runs its coroutine itself, and    *)
(* asyncio.run of what it returns raises.  The job runs all the same.      *)
(***************************************************************************)
EXTENDS Integers, FiniteSets

CONSTANTS
    Listeners,     \* requests that can run at a time
    Speakers,      \* slots of the worker
    MaxAudioJobs   \* bound: jobs queued at a time

ASSUME AudioAssumption == IsFiniteSet(Speakers) /\ MaxAudioJobs \in Nat

VARIABLES
    audio,      \* audio_status and audio_r2_key of the row
    audioPaid,  \* the credit for report_audio was spent (its key is the report's and the user's)
    asking,     \* asking[r]: where a request is, and the status it has loaded
    speaking,   \* slots that run the job
    queued,     \* jobs in the queue
    cutOff      \* history: a job was cut off at job_timeout

audioVars == <<audio, audioPaid, asking, speaking, queued, cutOff>>

Status == {"none", "generating", "ready", "failed"}

AudioTypeOK ==
    /\ audio \in [status : Status, key : BOOLEAN]
    /\ audioPaid \in BOOLEAN
    /\ asking \in [Listeners -> [pc : {"idle", "pay", "enqueue", "answer"}, read : Status]]
    /\ speaking \subseteq Speakers
    /\ queued \in 0 .. MaxAudioJobs
    /\ cutOff \in BOOLEAN

AudioInit ==
    /\ audio = [status |-> "none", key |-> FALSE]
    /\ audioPaid = FALSE
    /\ asking = [r \in Listeners |-> [pc |-> "idle", read |-> "none"]]
    /\ speaking = {}
    /\ queued = 0
    /\ cutOff = FALSE

Hear(r, pc) == asking' = [asking EXCEPT ![r].pc = pc]

-----------------------------------------------------------------------------
(* api_report_audio_request                                                *)

\* A file that is ready is served if its URL can be made; a job under way is waited for;
\* a failure is put back to "none".
AskForAudio(r, signed) ==
    /\ asking[r].pc = "idle"
    /\ IF (audio.status = "ready" /\ audio.key /\ signed) \/ audio.status = "generating"
       THEN UNCHANGED <<audio, asking>>
       ELSE /\ audio' = [audio EXCEPT !.status = IF @ = "failed" THEN "none" ELSE @]
            /\ asking' = [asking EXCEPT ![r] = [pc |-> "pay", read |-> audio'.status]]
    /\ UNCHANGED <<audioPaid, speaking, queued, cutOff>>

\* spend(), which charges once; without a credit the request ends.
PayAudio(r, affordable) ==
    /\ asking[r].pc = "pay"
    /\ audioPaid' = (audioPaid \/ affordable)
    /\ Hear(r, IF audioPaid' THEN "enqueue" ELSE "idle")
    /\ UNCHANGED <<audio, speaking, queued, cutOff>>

QueueAudio(r, ok) ==
    /\ asking[r].pc = "enqueue"
    /\ IF ok THEN queued < MaxAudioJobs /\ queued' = queued + 1 ELSE queued' = queued
    /\ Hear(r, "answer")
    /\ UNCHANGED <<audio, audioPaid, speaking, cutOff>>

\* A fault: what the lines after the call of the queue would write if they were reached,
\* after the job may have run.
AnswerGenerating(r) ==
    /\ asking[r].pc = "answer"
    /\ audio' = [audio EXCEPT !.status = "generating"]
    /\ Hear(r, "idle")
    /\ UNCHANGED <<audioPaid, speaking, queued, cutOff>>

\* 503, and "failed" over whatever the job has written by now.
AnswerUnavailable(r) ==
    /\ asking[r].pc = "answer"
    /\ audio' = [audio EXCEPT !.status = "failed"]
    /\ Hear(r, "idle")
    /\ UNCHANGED <<audioPaid, speaking, queued, cutOff>>

-----------------------------------------------------------------------------
(* generate_report_audio                                                   *)

StartAudio(w) ==
    /\ w \notin speaking
    /\ queued > 0
    /\ queued' = queued - 1
    /\ IF audio.status = "ready" THEN UNCHANGED <<audio, speaking>>
       ELSE /\ audio' = [audio EXCEPT !.status = "generating"]
            /\ speaking' = speaking \union {w}
    /\ UNCHANGED <<audioPaid, asking, cutOff>>

\* upload_audio answers None when the storage does not take the file.
FinishAudio(w, how) ==
    /\ w \in speaking
    /\ speaking' = speaking \ {w}
    /\ audio' = CASE how = "stored" -> [status |-> "ready", key |-> TRUE]
                  [] how = "unstored" -> [status |-> "ready", key |-> FALSE]
                  [] how = "error" -> [audio EXCEPT !.status = "failed"]
    /\ UNCHANGED <<audioPaid, asking, queued, cutOff>>

\* A fault: the job is lost with its worker.
SpeakerDiesForGood(w) ==
    /\ w \in speaking
    /\ speaking' = speaking \ {w}
    /\ UNCHANGED <<audio, audioPaid, asking, queued, cutOff>>

\* ARQ delivers the job of a dead worker again.
SpeakerDies(w) ==
    /\ w \in speaking
    /\ queued < MaxAudioJobs
    /\ speaking' = speaking \ {w}
    /\ queued' = queued + 1
    /\ UNCHANGED <<audio, audioPaid, asking, cutOff>>

\* CancelledError is not caught, and the job is not tried again.
AudioTimeout(w) ==
    /\ w \in speaking
    /\ speaking' = speaking \ {w}
    /\ cutOff' = TRUE
    /\ UNCHANGED <<audio, audioPaid, asking, queued>>

ListenerDies(r) ==
    /\ asking[r].pc # "idle"
    /\ Hear(r, "idle")
    /\ UNCHANGED <<audio, audioPaid, speaking, queued, cutOff>>

AudioNext ==
    \/ \E r \in Listeners :
          \/ \E yes \in BOOLEAN : AskForAudio(r, yes) \/ PayAudio(r, yes) \/ QueueAudio(r, yes)
          \/ AnswerUnavailable(r) \/ ListenerDies(r)
    \/ \E w \in Speakers :
          \/ StartAudio(w) \/ SpeakerDies(w) \/ AudioTimeout(w)
          \/ \E how \in {"stored", "unstored", "error"} : FinishAudio(w, how)

AudioSpec == AudioInit /\ [][AudioNext]_audioVars

-----------------------------------------------------------------------------
(* Correctness.                                                            *)

\* A request that meets "generating" waits and starts nothing: so whenever the row says
\* so there is a job that will change it, unless one was cut off.
GeneratingHasJob ==
    audio.status = "generating" => speaking # {} \/ queued > 0 \/ cutOff
=============================================================================
