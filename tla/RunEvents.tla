----------------------------- MODULE RunEvents -----------------------------
(***************************************************************************)
(* GET /runs/{id}/events (runs/api.py): the stream of one client polls the *)
(* row of a run and its steps while workers go on with the run, which      *)
(* moves as RunLifecycle allows.  The row is read before the steps, each   *)
(* in a transaction of its own; between two events the client may leave.   *)
(***************************************************************************)
EXTENDS Integers

CONSTANTS
    WatchedTries,    \* the values of max_tries of the run
    MaxAttemptsMade, \* the largest of them
    MaxStepsDone     \* bound: the steps that are recorded for the run

ASSUME WatchedAssumption ==
    /\ MaxAttemptsMade \in Nat /\ MaxStepsDone \in Nat
    /\ WatchedTries \subseteq 1 .. MaxAttemptsMade

VARIABLES
    job,         \* the row of the run, as in RunLifecycle
    stepsDone,   \* how many rows of run_steps have succeeded
    stream,      \* the generator: its step and its local variables
    told         \* what the client has been told

eventVars == <<job, stepsDone, stream, told>>

Life == INSTANCE RunLifecycle WITH Runs <- {"run"}, Tries <- WatchedTries

RunRow == job["run"]

RUN_STATUSES == {"queued", "running", "cancelling", "succeeded", "failed", "cancelled", "dead"}

(* A bug: the status of runs that are out of attempts is not among those that end a stream. *)
TerminalButDead == {"succeeded", "failed", "cancelled"}

TERMINAL_STATUSES == {"succeeded", "failed", "cancelled", "dead"}

(* A bug: without an entry of its own the event of a dead run is the default. *)
EventByStatusNoDead(status) ==
    CASE status = "queued" -> "run.queued"
      [] status \in {"running", "cancelling"} -> "run.running"
      [] status = "succeeded" -> "run.done"
      [] status = "failed" -> "run.failed"
      [] status = "cancelled" -> "run.cancelled"
      [] OTHER -> "run.progress"

EventByStatus(status) ==
    CASE status = "queued" -> "run.queued"
      [] status \in {"running", "cancelling"} -> "run.running"
      [] status = "succeeded" -> "run.done"
      [] status \in {"failed", "dead"} -> "run.failed"
      [] status = "cancelled" -> "run.cancelled"

RunRows ==
    [status : RUN_STATUSES, tries : WatchedTries,
     attempt : 0 .. MaxAttemptsMade, result : 0 .. MaxAttemptsMade]

EventsInit ==
    /\ Life!Init
    /\ stepsDone = 0
    /\ stream = [pc |-> "closed", row |-> Life!NoJob, status |-> "none", done |-> -1]
    /\ told = [event |-> "none", attempt |-> 0, done |-> 0, most |-> 0, misread |-> FALSE]

(* The workers: the run moves on, and steps are recorded, also by a worker whose lease is *)
(* lost (StepLedger.record).                                                             *)
RunMoves ==
    /\ \E row \in RunRows : Life!Moved(RunRow, row) /\ job' = [job EXCEPT !["run"] = row]
    /\ UNCHANGED <<stepsDone, stream, told>>

StepIsRecorded ==
    /\ RunRow.attempt > 0
    /\ stepsDone < MaxStepsDone
    /\ stepsDone' = stepsDone + 1
    /\ UNCHANGED <<job, stream, told>>

-----------------------------------------------------------------------------
(* stream_run_events: an error before the stream starts is one of HTTP. *)
OpenStream ==
    /\ stream.pc = "closed"
    /\ RunRow # Life!NoJob
    /\ stream' = [stream EXCEPT !.pc = "steps", !.row = RunRow]
    /\ UNCHANGED <<job, stepsDone, told>>

Larger(a, b) == IF a < b THEN b ELSE a

(* The status, if it is another than the last one told; then the progress of a running *)
(* run, if it is another than the last one seen.                                       *)
Telling(done) ==
    LET row == stream.row
        news == row.status # stream.status
        progress == row.status = "running" /\ done # stream.done
    IN  [told EXCEPT
           !.event = IF news THEN EventByStatus(row.status) ELSE @,
           !.attempt = IF news THEN row.attempt ELSE @,
           !.done = IF progress THEN done ELSE @,
           !.most = IF progress THEN Larger(@, done) ELSE @]

(* One pass of the loop, up to the sleep or the end. *)
Pass(done, misread) ==
    /\ stream.pc = "steps"
    /\ told' = [Telling(done) EXCEPT !.misread = @ \/ misread]
    /\ stream' = [stream EXCEPT !.status = stream.row.status, !.done = done,
                    !.pc = IF stream.row.status \in TERMINAL_STATUSES THEN "ended" ELSE "sleeps"]
    /\ UNCHANGED <<job, stepsDone>>

ReadSteps == Pass(stepsDone, FALSE)

(* RunsError: no steps, as if none had been done. *)
StepsFail == Pass(0, TRUE)

(* QueueWorkerOnApiConnection: the connection may see other tenants. *)
StepsPolluted ==
    /\ stream.pc = "steps"
    /\ told' = [told EXCEPT !.event = "run.failed"]
    /\ stream' = [stream EXCEPT !.pc = "polluted"]
    /\ UNCHANGED <<job, stepsDone>>

Poll ==
    /\ stream.pc = "sleeps"
    /\ stream' = [stream EXCEPT !.pc = "steps", !.row = RunRow]
    /\ UNCHANGED <<job, stepsDone, told>>

(* RunNotFound and RunsError end the stream without a word, another error breaks it; the *)
(* client may be gone.                                                                  *)
StreamBreaks ==
    /\ stream.pc = "sleeps"
    /\ stream' = [stream EXCEPT !.pc = "broken"]
    /\ UNCHANGED <<job, stepsDone, told>>

StreamStep == ReadSteps \/ StepsFail \/ StepsPolluted \/ Poll \/ StreamBreaks

EventsNext ==
    \/ RunMoves
    \/ StepIsRecorded
    \/ OpenStream
    \/ StreamStep

(* The event loop goes on with the generator. *)
EventsFairness == WF_eventVars(StreamStep)

-----------------------------------------------------------------------------
EventsType ==
    /\ RunRow.status \in {"absent"} \cup RUN_STATUSES
    /\ stepsDone \in 0 .. MaxStepsDone
    /\ stream.pc \in {"closed", "steps", "sleeps", "ended", "polluted", "broken"}
    /\ told.attempt \in Nat /\ told.done \in Nat

LastEvents == {"run.done", "run.failed", "run.cancelled"}

(* An event that says how the run ended is the last one, it is true, and it is still *)
(* true: only a stream whose connection is polluted says run.failed of another run.  *)
LastEventIsTrue ==
    /\ told.event \in LastEvents <=> stream.pc \in {"ended", "polluted"}
    /\ stream.pc = "ended" => told.event = EventByStatus(RunRow.status)
    /\ told.event = "run.done" => RunRow.result = told.attempt

(* A stream that breaks leaves its client without such an event, whatever the run did. *)
BreaksWithoutVerdict == stream.pc = "broken" => told.event \notin LastEvents

(* The attempt told is one that was made, and the progress is of steps that are done; it *)
(* falls only after a read of the steps that failed.                                     *)
ProgressIsReal ==
    /\ told.attempt <= RunRow.attempt
    /\ told.done <= stepsDone
    /\ told.done < told.most => told.misread

(* EventsInv: what the client of an event stream can rely on. *)
EventsInv == EventsType /\ LastEventIsTrue /\ BreaksWithoutVerdict /\ ProgressIsReal

StreamOpen == stream.pc \in {"steps", "sleeps"}

RunIsOver == RunRow # Life!NoJob /\ \A row \in RunRows : ~Life!Moved(RunRow, row)

(* The stream of a run that is over ends, whatever the run has become. *)
EventStreamEnds == StreamOpen /\ RunIsOver ~> ~StreamOpen
=============================================================================
