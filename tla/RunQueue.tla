------------------------------ MODULE RunQueue ------------------------------
(***************************************************************************)
(* The PostgreSQL long-task queue of src/hero_quant/runs: the tables       *)
(* `runs` and `run_steps` (store.py, steps.py), the worker processes that  *)
(* claim and execute runs, each with its heartbeat thread (worker.py), the *)
(* reaper (cli.py --reap) and the callers that enqueue and cancel.         *)
(*                                                                         *)
(* Every SQL statement that the code runs in a transaction of its own is   *)
(* one step; between two of them any other process may act.  Time is not   *)
(* counted: a lease is live until it expires, and it may expire at any     *)
(* moment, as it does when the database or the worker is slow.             *)
(***************************************************************************)
EXTENDS Naturals

CONSTANTS
    Runs,           \* run ids
    NoRun,          \* what an idle worker works on
    Workers,        \* worker processes, one run at a time each
    NumSteps,       \* steps of the handler, executed in order
    Tries,          \* the values of max_tries callers ask for
    Cancellable,    \* the runs some caller may cancel
    HandlerRaises,  \* may the body of a step raise?
    DbFails,        \* may a database call of a worker raise?
    Crashes         \* may a worker process be killed?

ASSUME RunAssumption == NoRun \notin Runs /\ Cancellable \subseteq Runs
ASSUME StepAssumption == NumSteps \in Nat
ASSUME TriesAssumption == Tries \subseteq Nat \ {0}
ASSUME FaultAssumption ==
    /\ HandlerRaises \in BOOLEAN
    /\ DbFails \in BOOLEAN
    /\ Crashes \in BOOLEAN

VARIABLES
    row,        \* table runs: run id -> its row
    ledger,     \* table run_steps: run id -> step -> the attempt that
                \* recorded it, 0 when there is no row
    arrived,    \* how many runs were enqueued: the clock behind created_at
    worker      \* worker -> the state of its process

vars == <<row, ledger, arrived, worker>>

tables == <<row, ledger, arrived>>

Steps == 1 .. NumSteps

-----------------------------------------------------------------------------
(* The rows of the table runs. *)

TerminalStatuses == {"succeeded", "failed", "cancelled", "dead"}

RunStatuses == TerminalStatuses \cup {"queued", "running", "cancelling"}

Leases == {"none", "live", "expired"}

Errors == {"none", "handler", "lease_expired"}

(* result is the attempt whose handler produced it, 0 for NULL; created is *)
(* the rank of created_at; ended says that ended_at is set.                *)
Row == [status : RunStatuses \cup {"absent"}, attempt : Nat, tries : Nat,
        lease : Leases, result : Nat, error : Errors,
        created : Nat, ended : BOOLEAN]

NoRow == [status |-> "absent", attempt |-> 0, tries |-> 0, lease |-> "none",
          result |-> 0, error |-> "none", created |-> 0, ended |-> FALSE]

WithStatus(s) == {r \in Runs : row[r].status = s}

-----------------------------------------------------------------------------
(* The worker processes.                                                   *)
(*   pc        where the thread of _execute stands; "idle" when polling    *)
(*   step      steps the handler has behind it                             *)
(*   loaded    RunContext._done has been read from run_steps               *)
(*   done      what was read: step -> attempt that recorded it             *)
(*   lost      RunContext._lease_lost                                      *)
(*   seen      RunContext._last_status, as far as is_cancelled looks       *)
(*   held      RunQueue._claims has an entry for the run                   *)
(*   beating   the heartbeat thread is running                             *)

Labels == {"idle", "step", "lookup", "body", "record", "fail", "stopped",
           "return", "confirm", "finish", "settle"}

Seen == {"unset", "cancelling", "other"}

Worker == [pc : Labels, run : Runs \cup {NoRun}, attempt : Nat,
           step : 0 .. NumSteps, loaded : BOOLEAN, done : [Steps -> Nat],
           lost : BOOLEAN, seen : Seen, held : BOOLEAN, beating : BOOLEAN]

Idle == [pc |-> "idle", run |-> NoRun, attempt |-> 0, step |-> 0,
         loaded |-> FALSE, done |-> [s \in Steps |-> 0], lost |-> FALSE,
         seen |-> "unset", held |-> FALSE, beating |-> FALSE]

(* Where the handler goes after its k-th step. *)
AfterStep(k) == IF k < NumSteps THEN "step" ELSE "return"

Busy(w) == worker[w].pc # "idle"

Goto(w, label) == worker' = [worker EXCEPT ![w].pc = label]

(* The finally clause of _execute: stop the heartbeat and forget the claim. *)
Leave(w) == worker' = [worker EXCEPT ![w] = Idle]

(* A bug: the UPDATE compares the token only. *)
OwnsWithoutStatus(w) == row[worker[w].run].attempt = worker[w].attempt

(* A bug: the UPDATE compares the status only. *)
OwnsWithoutAttempt(w) == row[worker[w].run].status = "running"

(* The WHERE clause of finish, fail and heartbeat: the row is running and  *)
(* its attempt is the fencing token the worker got when it claimed.        *)
Owns(w) ==
    /\ row[worker[w].run].status = "running"
    /\ row[worker[w].run].attempt = worker[w].attempt

Init ==
    /\ row = [r \in Runs |-> NoRow]
    /\ ledger = [r \in Runs |-> [s \in Steps |-> 0]]
    /\ arrived = 0
    /\ worker = [w \in Workers |-> Idle]

-----------------------------------------------------------------------------
(* Callers of the API. *)

(* POST /v1/runs.  A run id that exists already is refused, which changes  *)
(* nothing.                                                                *)
Enqueue(r) ==
    /\ row[r].status = "absent"
    /\ arrived' = arrived + 1
    /\ \E t \in Tries :
        row' = [row EXCEPT ![r] = [NoRow EXCEPT !.status = "queued", !.tries = t,
                                                !.created = arrived']]
    /\ UNCHANGED <<ledger, worker>>

(* POST /v1/runs/{id}/cancel.  Nothing happens to a run in another status. *)
RequestCancel(r) ==
    /\ r \in Cancellable
    /\ \/ /\ row[r].status = "queued"
          /\ row' = [row EXCEPT ![r].status = "cancelled", ![r].ended = TRUE]
       \/ /\ row[r].status = "running"
          /\ row' = [row EXCEPT ![r].status = "cancelling"]
    /\ UNCHANGED <<ledger, arrived, worker>>

-----------------------------------------------------------------------------
(* Time and the reaper. *)

LeaseExpires(r) ==
    /\ row[r].status = "running"
    /\ row[r].lease = "live"
    /\ row' = [row EXCEPT ![r].lease = "expired"]
    /\ UNCHANGED <<ledger, arrived, worker>>

(* A bug: the budget is compared with > for >=. *)
ExhaustedTooLate(r) == row[r].attempt > row[r].tries

(* attempt >= max_tries *)
Exhausted(r) == row[r].attempt >= row[r].tries

(* A bug: the reaper does not compare lease_until. *)
OverdueAnyLease(r) == row[r].status = "running"

(* A bug: the statement that buries exhausted runs is left out. *)
OverdueWithTriesLeft(r) ==
    row[r].status = "running" /\ row[r].lease = "expired" /\ ~Exhausted(r)

(* lease_until < now() *)
Overdue(r) == row[r].status = "running" /\ row[r].lease = "expired"

(* A bug: the reaper requeues exhausted runs, too. *)
ReapedAlwaysQueued(r) == [row[r] EXCEPT !.status = "queued", !.lease = "none"]

(* A bug: a reaped run gets its attempt back. *)
ReapedWithRefund(r) ==
    [row[r] EXCEPT !.status = "queued", !.lease = "none", !.attempt = @ - 1]

(* What the two statements of reap_expired make of a row. *)
Reaped(r) ==
    IF Exhausted(r)
    THEN [row[r] EXCEPT !.status = "dead", !.lease = "none", !.ended = TRUE,
                        !.error = IF @ = "none" THEN "lease_expired" ELSE @]
    ELSE [row[r] EXCEPT !.status = "queued", !.lease = "none"]

Reap ==
    /\ \E r \in Runs : Overdue(r)
    /\ row' = [r \in Runs |-> IF Overdue(r) THEN Reaped(r) ELSE row[r]]
    /\ UNCHANGED <<ledger, arrived, worker>>

-----------------------------------------------------------------------------
(* A worker process claims a run. *)

(* ORDER BY created_at LIMIT 1 among the queued rows.  SKIP LOCKED passes  *)
(* over the rows of transactions under way; those commit, so the claim is  *)
(* the one that would have run just after them.                            *)
Oldest(r) ==
    /\ r \in WithStatus("queued")
    /\ \A q \in WithStatus("queued") : row[r].created <= row[q].created

(* run_once and _execute: the claim is remembered, the heartbeat starts. *)
Assigned(r, a) ==
    [pc |-> AfterStep(0), run |-> r, attempt |-> a, step |-> 0,
     loaded |-> FALSE, done |-> [s \in Steps |-> 0], lost |-> FALSE,
     seen |-> "unset", held |-> TRUE, beating |-> TRUE]

(* A bug: the claim does not set lease_until. *)
ClaimedWithoutLease(r) ==
    [row[r] EXCEPT !.status = "running", !.attempt = @ + 1, !.error = "none"]

(* What the claim makes of the row: a new attempt, hence a new token. *)
Claimed(r) ==
    [row[r] EXCEPT !.status = "running", !.attempt = @ + 1, !.lease = "live",
                   !.error = "none"]

Claim(w) ==
    /\ worker[w].pc = "idle"
    /\ \E r \in Runs :
        /\ Oldest(r)
        /\ row' = [row EXCEPT ![r] = Claimed(r)]
        /\ worker' = [worker EXCEPT ![w] = Assigned(r, row[r].attempt + 1)]
    /\ UNCHANGED <<ledger, arrived>>

-----------------------------------------------------------------------------
(* The handler, step by step. *)

Probe(status) == IF status = "cancelling" THEN "cancelling" ELSE "other"

(* RunContext.is_cancelled: TRUE at once when the lease is lost, else what *)
(* was seen less than cancel_poll_seconds ago, else what the table says.   *)
(* answer is the value returned and seen the new _last_status.             *)
IsCancelled(w, answer, seen) ==
    LET old == worker[w].seen IN
    \/ worker[w].lost /\ answer = TRUE /\ seen = old
    \/ ~worker[w].lost /\ old # "unset" /\ seen = old
       /\ answer = (old = "cancelling")
    \/ ~worker[w].lost /\ seen = Probe(row[worker[w].run].status)
       /\ answer = (seen = "cancelling")

(* ctx.step(): a cancelled run or a lost lease raises RunCancelled. *)
EnterStep(w) ==
    /\ worker[w].pc = "step"
    /\ \E answer \in BOOLEAN, seen \in Seen :
        /\ IsCancelled(w, answer, seen)
        /\ worker' = [worker EXCEPT ![w].seen = seen,
                                    ![w].pc = IF answer THEN "stopped" ELSE "lookup"]
    /\ UNCHANGED tables

(* The steps already recorded are read once per attempt; a recorded step   *)
(* is skipped, any other is executed.                                      *)
Lookup(w) ==
    /\ worker[w].pc = "lookup"
    /\ LET me == worker[w]
           done == IF me.loaded THEN me.done ELSE ledger[me.run]
           read == [me EXCEPT !.loaded = TRUE, !.done = done]
       IN  worker' = [worker EXCEPT ![w] =
             IF done[me.step + 1] # 0
             THEN [read EXCEPT !.step = @ + 1, !.pc = AfterStep(me.step + 1)]
             ELSE [read EXCEPT !.pc = "body"]]
    /\ UNCHANGED tables

(* The body of the step returns, or it raises and nothing is recorded. *)
Body(w) ==
    /\ worker[w].pc = "body"
    /\ \/ Goto(w, "record")
       \/ HandlerRaises /\ Goto(w, "fail")
    /\ UNCHANGED tables

(* A bug: ON CONFLICT DO UPDATE for DO NOTHING. *)
RecordedLastWriter(r, s, a) == a

(* StepLedger.record: INSERT ... ON CONFLICT DO NOTHING.  The attempt is   *)
(* stored but not compared, and that nothing was inserted goes unnoticed.  *)
Recorded(r, s, a) == IF ledger[r][s] = 0 THEN a ELSE ledger[r][s]

WriteStep(w) ==
    LET r == worker[w].run
        s == worker[w].step + 1
    IN  ledger' = [ledger EXCEPT ![r][s] = Recorded(r, s, worker[w].attempt)]

Record(w) ==
    /\ worker[w].pc = "record"
    /\ WriteStep(w)
    /\ worker' = [worker EXCEPT ![w].step = @ + 1,
                                ![w].pc = AfterStep(worker[w].step + 1)]
    /\ UNCHANGED <<row, arrived>>

-----------------------------------------------------------------------------
(* How an execution ends. *)

(* The handler returned: a worker that lost its lease drops the result. *)
Return(w) ==
    /\ worker[w].pc = "return"
    /\ IF worker[w].lost THEN Leave(w) ELSE Goto(w, "confirm")
    /\ UNCHANGED tables

(* The last look at the cancel flag before the result is stored. *)
Confirm(w) ==
    /\ worker[w].pc = "confirm"
    /\ \E answer \in BOOLEAN, seen \in Seen :
        /\ IsCancelled(w, answer, seen)
        /\ worker' = [worker EXCEPT ![w].seen = seen,
                                    ![w].pc = IF answer THEN "settle" ELSE "finish"]
    /\ UNCHANGED tables

(* What finish() makes of the row. *)
Finished(r, attempt) ==
    [row[r] EXCEPT !.status = "succeeded", !.result = attempt, !.error = "none",
                   !.lease = "none", !.ended = TRUE]

(* finish(): the result is stored, or refused when the claim is not the    *)
(* worker's any more; then a cancel that came in between is settled.       *)
Finish(w) ==
    /\ worker[w].pc = "finish"
    /\ \/ /\ Owns(w)
          /\ row' = [row EXCEPT ![worker[w].run] =
                              Finished(worker[w].run, worker[w].attempt)]
          /\ Leave(w)
       \/ /\ ~Owns(w)
          /\ worker' = [worker EXCEPT ![w].pc = "settle", ![w].held = FALSE]
          /\ UNCHANGED row
    /\ UNCHANGED <<ledger, arrived>>

(* except RunCancelled: a worker whose lease is lost settles nothing. *)
Stopped(w) ==
    /\ worker[w].pc = "stopped"
    /\ IF worker[w].lost THEN Leave(w) ELSE Goto(w, "settle")
    /\ UNCHANGED tables

(* The WHERE clause of settle_cancel. *)
MaySettle(w) ==
    /\ row[worker[w].run].status = "cancelling"
    /\ row[worker[w].run].attempt = worker[w].attempt

SettleCancel(w) ==
    /\ worker[w].pc = "settle"
    /\ row' = IF MaySettle(w)
              THEN [row EXCEPT ![worker[w].run] =
                     [@ EXCEPT !.status = "cancelled", !.lease = "none", !.ended = TRUE]]
              ELSE row
    /\ Leave(w)
    /\ UNCHANGED <<ledger, arrived>>

(* What the CASE expressions of fail() make of a row. *)
Failed(r) ==
    IF Exhausted(r)
    THEN [row[r] EXCEPT !.status = "dead", !.error = "handler", !.lease = "none",
                        !.ended = TRUE]
    ELSE [row[r] EXCEPT !.status = "queued", !.error = "handler", !.lease = "none",
                        !.ended = FALSE]

Fail(w) ==
    /\ worker[w].pc = "fail"
    /\ row' = IF Owns(w)
              THEN [row EXCEPT ![worker[w].run] = Failed(worker[w].run)]
              ELSE row
    /\ Leave(w)
    /\ UNCHANGED <<ledger, arrived>>

-----------------------------------------------------------------------------
(* The heartbeat thread, and what may go wrong. *)

(* One beat: the lease is renewed, even one that expired but was not yet   *)
(* reaped; a refused beat marks the lease lost and ends the thread.        *)
Heartbeat(w) ==
    /\ worker[w].beating
    /\ \/ /\ worker[w].held /\ Owns(w)
          /\ row' = [row EXCEPT ![worker[w].run].lease = "live"]
          /\ UNCHANGED worker
       \/ /\ ~(worker[w].held /\ Owns(w))
          /\ worker' = [worker EXCEPT ![w].lost = TRUE, ![w].beating = FALSE]
          /\ UNCHANGED row
    /\ UNCHANGED <<ledger, arrived>>

(* _heartbeat_loop catches RunsError only: any other error of the driver   *)
(* ends the thread and tells nobody.                                       *)
HeartbeatDies(w) ==
    /\ DbFails
    /\ worker[w].beating
    /\ worker' = [worker EXCEPT ![w].beating = FALSE]
    /\ UNCHANGED tables

(* A database call of the handler raises: the run is failed.  The step may *)
(* have been recorded when only the answer was lost.                       *)
HandlerCallFails(w) ==
    /\ DbFails
    /\ \/ worker[w].pc = "step" /\ ~worker[w].lost /\ UNCHANGED ledger
       \/ worker[w].pc = "lookup" /\ ~worker[w].loaded /\ UNCHANGED ledger
       \/ worker[w].pc = "record" /\ UNCHANGED ledger
       \/ worker[w].pc = "record" /\ WriteStep(w)
    /\ Goto(w, "fail")
    /\ UNCHANGED <<row, arrived>>

(* A database call after the handler raises: it goes through _execute up   *)
(* to run_forever, which logs it.  The row keeps its lease.                *)
SettlingCallFails(w) ==
    /\ DbFails
    /\ \/ worker[w].pc = "confirm" /\ ~worker[w].lost
       \/ worker[w].pc \in {"finish", "settle", "fail"}
    /\ Leave(w)
    /\ UNCHANGED tables

(* SIGKILL; the process is restarted and polls again. *)
Crash(w) ==
    /\ Crashes
    /\ Busy(w)
    /\ Leave(w)
    /\ UNCHANGED tables

-----------------------------------------------------------------------------
(* What the thread of a worker does by itself, and all there is. *)

Work(w) ==
    \/ Claim(w) \/ EnterStep(w) \/ Lookup(w) \/ Body(w) \/ Record(w)
    \/ Return(w) \/ Confirm(w) \/ Finish(w) \/ Stopped(w) \/ SettleCancel(w)
    \/ Fail(w)

Fault(w) ==
    \/ HeartbeatDies(w) \/ HandlerCallFails(w) \/ SettlingCallFails(w) \/ Crash(w)

Next ==
    \/ \E r \in Runs : Enqueue(r) \/ RequestCancel(r) \/ LeaseExpires(r)
    \/ Reap
    \/ \E w \in Workers : Work(w) \/ Heartbeat(w) \/ Fault(w)

Spec == Init /\ [][Next]_vars

(* Nobody renews the lease of the run: time alone is left to act on it. *)
Unattended(r) ==
    ~ \E w \in Workers : worker[w].beating /\ worker[w].run = r /\ Owns(w)

(* Workers are threads that the operating system runs and that poll for    *)
(* work; the heartbeat thread wakes up every heartbeat_interval; the reaper *)
(* is run again and again by a scheduler; and an unrenewed lease runs out.  *)
(* Nothing is assumed of callers, faults, or leases that are renewed.      *)
Fairness ==
    /\ \A w \in Workers : WF_vars(Work(w)) /\ WF_vars(Heartbeat(w))
    /\ WF_vars(Reap)
    /\ \A r \in Runs : WF_vars(Unattended(r) /\ LeaseExpires(r))

FairSpec == Spec /\ Fairness

-----------------------------------------------------------------------------
(* Safety. *)

(* Every variable has its type; in particular a row never gets a status    *)
(* that the CHECK constraint of migration 0005 refuses.                    *)
TypeOK ==
    /\ row \in [Runs -> Row]
    /\ ledger \in [Runs -> [Steps -> Nat]]
    /\ arrived \in Nat
    /\ worker \in [Workers -> Worker]

(* Two workers never execute a run under the same fencing token, however   *)
(* often leases expire, workers crash and runs are claimed again.          *)
OneHolder ==
    \A v, w \in Workers :
        v # w /\ Busy(v) /\ Busy(w) /\ worker[v].run = worker[w].run
            => worker[v].attempt # worker[w].attempt

(* A run is claimed at most max_tries times, it is in the queue only while *)
(* a try is left, and it is dead only when none is.                        *)
RetryBudget ==
    \A r \in Runs :
        /\ row[r].attempt <= row[r].tries
        /\ row[r].status = "queued" => row[r].attempt < row[r].tries
        /\ row[r].status = "dead" => row[r].attempt = row[r].tries

(* A stored result belongs to a succeeded run and was produced by its last *)
(* attempt: no zombie gets a result in.                                    *)
ResultIsFenced ==
    \A r \in Runs :
        /\ row[r].status = "succeeded" => row[r].result = row[r].attempt
        /\ row[r].status # "succeeded" => row[r].result = 0

(* A succeeded run has a checkpoint of every step, whichever attempts made *)
(* them and whatever failed in between.                                    *)
CheckpointsComplete ==
    \A r \in Runs : row[r].status = "succeeded" => \A s \in Steps : ledger[r][s] # 0

(* What an attempt read from run_steps and hands to its handler in place   *)
(* of executing a step stays what the table holds.                         *)
CheckpointsAgree ==
    \A w \in Workers : Busy(w) =>
        \A s \in Steps : worker[w].done[s] # 0
                            => ledger[worker[w].run][s] = worker[w].done[s]

(* A running row always carries a lease, so that the reaper can find it    *)
(* when its worker is gone; a row out of workers' hands carries none.      *)
RunningHasLease ==
    \A r \in Runs :
        /\ row[r].status = "running" => row[r].lease # "none"
        /\ row[r].status \in TerminalStatuses \cup {"queued"} => row[r].lease = "none"

(* A busy worker, and any heartbeat thread, holds a token that its run     *)
(* really issued; the token is at most the current one.                    *)
TokensIssued ==
    \A w \in Workers :
        /\ worker[w].beating => Busy(w)
        /\ Busy(w) => /\ worker[w].run \in Runs
                      /\ worker[w].attempt \in 1 .. row[worker[w].run].attempt

(* How far a handler is: between steps and inside one there is a step left, *)
(* after its return there is none, and every step behind it is recorded.   *)
HandlerProgress ==
    \A w \in Workers :
        /\ worker[w].pc \in {"step", "lookup", "body", "record"}
                => worker[w].step < NumSteps
        /\ worker[w].pc \in {"return", "confirm", "finish"}
                => worker[w].step = NumSteps
        /\ Busy(w) => \A s \in Steps :
                s <= worker[w].step => ledger[worker[w].run][s] # 0

(* A run that was not enqueued has no row at all. *)
AbsentRows == \A r \in Runs : row[r].status = "absent" => row[r] = NoRow

(* The inductive invariant behind the safety properties. *)
IInv ==
    /\ TypeOK
    /\ AbsentRows
    /\ TokensIssued
    /\ OneHolder
    /\ RetryBudget
    /\ ResultIsFenced
    /\ RunningHasLease
    /\ HandlerProgress
    /\ CheckpointsAgree
    /\ CheckpointsComplete

Terminal(r) == row[r].status \in TerminalStatuses

(* Once a run is over its row never changes again, whatever zombies, late  *)
(* cancels and the reaper still do.                                        *)
TerminalIsFinal == [][\A r \in Runs : Terminal(r) => row'[r] = row[r]]_vars

(* A cancel that was accepted cannot turn into a success, a retry or a     *)
(* death: from cancelling the only way is to cancelled.                    *)
CancelWins ==
    [][\A r \in Runs : row[r].status = "cancelling"
            => row'[r].status \in {"cancelling", "cancelled"}]_vars

(* While the lease of a run is live, only the worker that holds the        *)
(* current attempt can take the run back to the queue or end it.           *)
LiveLeaseIsRespected ==
    [][\A r \in Runs :
            /\ row[r].status = "running"
            /\ row[r].lease = "live"
            /\ row'[r].status \in {"queued", "dead", "succeeded"}
            => \E w \in Workers : /\ Busy(w) /\ worker'[w] = Idle
                                  /\ worker[w].run = r
                                  /\ worker[w].attempt = row[r].attempt]_vars

(* The queue implements the lifecycle it promises. *)
Lifecycle == INSTANCE RunLifecycle WITH
    job <- [r \in Runs |-> [status  |-> row[r].status, attempt |-> row[r].attempt,
                            tries   |-> row[r].tries,  result  |-> row[r].result]]

(* RunLifecycle!Spec under the mapping: status, attempt, budget and result *)
(* of every row move only as the documented state machine allows.          *)
ImplementsLifecycle == Lifecycle!Spec

(* batch-14.md, section 5: the writes of a zombie worker are refused.      *)
(* A checkpoint would then only ever be made by the current attempt.       *)
ZombieRecordsNothing ==
    [][\A r \in Runs, s \in Steps :
            ledger'[r][s] # ledger[r][s] => ledger'[r][s] = row[r].attempt]_vars

-----------------------------------------------------------------------------
(* Liveness. *)

(* A queued run does not stay with the workers forever: it ends, or a user *)
(* cancels it while it runs; crashes and database errors only use up tries. *)
EveryRunSettles ==
    \A r \in Runs : row[r].status = "queued" ~> (Terminal(r) \/ row[r].status = "cancelling")

(* The documented last step of a cancel: cancelling -> cancelled. *)
CancelCompletes ==
    \A r \in Runs : row[r].status = "cancelling" ~> row[r].status = "cancelled"
=============================================================================
