------------------------- MODULE RunQueueRefinement -------------------------
(***************************************************************************)
(* What a step of RunQueue may do to one row, and what follows from it:    *)
(* a finished run is never touched, a cancel is never lost to a success,   *)
(* and the queue implements RunLifecycle.                                  *)
(***************************************************************************)
EXTENDS RunQueueProofs

USE DEF Leases, TerminalStatuses

(* All that any step makes of the row of one run. *)
RowStep(r) ==
  \/ row'[r] = row[r]
  \/ /\ row[r] = NoRow
     /\ \E t \in Tries, c \in Nat :
          row'[r] = [NoRow EXCEPT !.status = "queued", !.tries = t, !.created = c]
  \/ row[r].status = "queued" /\ row'[r] = Claimed(r)
  \/ /\ row[r].status = "queued"
     /\ row'[r] = [row[r] EXCEPT !.status = "cancelled", !.ended = TRUE]
  \/ row[r].status = "running" /\ row'[r] = [row[r] EXCEPT !.status = "cancelling"]
  \/ /\ row[r].status = "running"
     /\ \E l \in Leases : row'[r] = [row[r] EXCEPT !.lease = l]
  \/ row[r].status = "running" /\ row'[r] = Reaped(r)
  \/ row[r].status = "running" /\ row'[r] = Failed(r)
  \/ row[r].status = "running" /\ row'[r] = Finished(r, row[r].attempt)
  \/ /\ row[r].status = "cancelling"
     /\ row'[r] = [row[r] EXCEPT !.status = "cancelled", !.lease = "none", !.ended = TRUE]

LEMMA CallersStep ==
  ASSUME IInv, NEW r \in Runs, NEW q \in Runs, Enqueue(q) \/ RequestCancel(q) \/ LeaseExpires(q)
  PROVE  RowStep(r)
<1>1. row = [p \in Runs |-> row[p]] /\ row[q] \in Row /\ arrived + 1 \in Nat
      /\ (row[q].status = "absent" => row[q] = NoRow)
  BY DEF IInv, TypeOK, AbsentRows
<1>2. CASE r # q
  <2>1. row'[r] = row[r]
    BY <1>1, <1>2 DEF Enqueue, RequestCancel, LeaseExpires
  <2> QED
    BY <2>1 DEF RowStep
<1>3. CASE r = q /\ Enqueue(q)
  <2>1. row[r] = NoRow
    BY <1>1, <1>3 DEF Enqueue
  <2>2. \E t \in Tries, c \in Nat :
          row'[r] = [NoRow EXCEPT !.status = "queued", !.tries = t, !.created = c]
    BY <1>1, <1>3 DEF Enqueue
  <2> QED
    BY <2>1, <2>2 DEF RowStep
<1>4. CASE r = q /\ RequestCancel(q)
  BY <1>1, <1>4 DEF RequestCancel, RowStep, Row
<1>5. CASE r = q /\ LeaseExpires(q)
  <2>1. row[r].status = "running" /\ row'[r] = [row[r] EXCEPT !.lease = "expired"]
    BY <1>1, <1>5 DEF LeaseExpires
  <2> QED
    BY <2>1 DEF RowStep
<1> QED
  BY <1>2, <1>3, <1>4, <1>5

LEMMA ReapStep == ASSUME IInv, Reap, NEW r \in Runs PROVE RowStep(r)
  BY DEF Reap, Overdue, RowStep

LEMMA ClaimStep == ASSUME IInv, NEW w \in Workers, Claim(w), NEW r \in Runs PROVE RowStep(r)
<1>1. row = [p \in Runs |-> row[p]]
  BY DEF IInv, TypeOK
<1>2. PICK q \in Runs : Oldest(q) /\ row' = [row EXCEPT ![q] = Claimed(q)]
  BY DEF Claim
<1>3. row[q].status = "queued"
  BY <1>2 DEF Oldest, WithStatus
<1> QED
  BY <1>1, <1>2, <1>3 DEF RowStep

LEMMA SettlingStep ==
  ASSUME IInv, NEW w \in Workers, Finish(w) \/ SettleCancel(w) \/ Fail(w), NEW r \in Runs
  PROVE  RowStep(r)
<1>1. Busy(w)
  BY DEF Finish, SettleCancel, Fail, Busy
<1> PICK q \in Runs : q = worker[w].run
  BY <1>1, BusyWorker
<1>2. row = [p \in Runs |-> row[p]]
  BY DEF IInv, TypeOK
<1>3. CASE row'[r] = row[r]
  BY <1>3 DEF RowStep
<1>4. CASE row'[r] # row[r] /\ Finish(w)
  <2>1. r = q /\ row[q].status = "running" /\ row'[q] = Finished(q, row[q].attempt)
    BY <1>2, <1>4 DEF Finish, Owns
  <2> QED
    BY <2>1 DEF RowStep
<1>5. CASE row'[r] # row[r] /\ Fail(w)
  <2>1. r = q /\ row[q].status = "running" /\ row'[q] = Failed(q)
    BY <1>2, <1>5 DEF Fail, Owns
  <2> QED
    BY <2>1 DEF RowStep
<1>6. CASE row'[r] # row[r] /\ SettleCancel(w)
  <2>1. r = q /\ row[q].status = "cancelling"
        /\ row'[q] = [row[q] EXCEPT !.status = "cancelled", !.lease = "none", !.ended = TRUE]
    BY <1>2, <1>6 DEF SettleCancel, MaySettle
  <2> QED
    BY <2>1 DEF RowStep
<1> QED
  BY <1>3, <1>4, <1>5, <1>6

LEMMA HeartbeatStep ==
  ASSUME IInv, NEW w \in Workers, Heartbeat(w), NEW r \in Runs PROVE RowStep(r)
<1>1. Busy(w)
  BY IInvParts DEF Heartbeat, IWorker
<1> PICK q \in Runs : q = worker[w].run
  BY <1>1, BusyWorker
<1>2. row = [p \in Runs |-> row[p]]
  BY DEF IInv, TypeOK
<1>3. CASE row'[r] = row[r]
  BY <1>3 DEF RowStep
<1>4. CASE row'[r] # row[r]
  <2>1. r = q /\ row[q].status = "running" /\ row'[q] = [row[q] EXCEPT !.lease = "live"]
    BY <1>2, <1>4 DEF Heartbeat, Owns
  <2> QED
    BY <2>1 DEF RowStep
<1> QED
  BY <1>3, <1>4

LEMMA EveryRowStep == ASSUME IInv, [Next]_vars, NEW r \in Runs PROVE RowStep(r)
<1>1. CASE row' = row
  BY <1>1 DEF RowStep
<1>2. CASE row' # row
  <2>1. ASSUME NEW q \in Runs, Enqueue(q) \/ RequestCancel(q) \/ LeaseExpires(q)
        PROVE  RowStep(r)
    BY <2>1, CallersStep
  <2>2. ASSUME Reap PROVE RowStep(r)
    BY <2>2, ReapStep
  <2>3. ASSUME NEW w \in Workers, Work(w) PROVE RowStep(r)
    <3>1. Claim(w) \/ Finish(w) \/ SettleCancel(w) \/ Fail(w)
      BY <1>2, <2>3 DEF Work, EnterStep, Lookup, Body, Record, Return, Confirm, Stopped, tables
    <3> QED
      BY <3>1, ClaimStep, SettlingStep
  <2>4. ASSUME NEW w \in Workers, Heartbeat(w) PROVE RowStep(r)
    BY <2>4, HeartbeatStep
  <2>5. ASSUME NEW w \in Workers, Fault(w) PROVE FALSE
    BY <1>2, <2>5
       DEF Fault, HeartbeatDies, HandlerCallFails, SettlingCallFails, Crash, tables
  <2> QED
    BY <1>2, <2>1, <2>2, <2>3, <2>4, <2>5 DEF Next, vars
<1> QED
  BY <1>1, <1>2

(* Which rows move at all. *)
LEMMA LiveRowsMove ==
  ASSUME NEW r \in Runs, RowStep(r)
  PROVE  \/ row'[r] = row[r]
         \/ row[r].status \in {"absent", "queued", "running"}
         \/ row[r].status = "cancelling" /\ row'[r].status = "cancelled"
<1>1. NoRow.status = "absent"
  BY DEF NoRow
<1>2. CASE row[r].status = "cancelling" /\ row'[r] = [row[r] EXCEPT !.status = "cancelled",
                                                      !.lease = "none", !.ended = TRUE]
  BY <1>2
<1> QED
  BY <1>1, <1>2, Zenon DEF RowStep

-----------------------------------------------------------------------------
(* Once a run is over its row never changes again. *)
THEOREM FinalityProved == Spec => TerminalIsFinal
<1>1. IInv /\ [Next]_vars => \A r \in Runs : Terminal(r) => row'[r] = row[r]
  <2> SUFFICES ASSUME IInv, [Next]_vars, NEW r \in Runs, Terminal(r) PROVE row'[r] = row[r]
    OBVIOUS
  <2>1. RowStep(r)
    BY EveryRowStep
  <2> QED
    BY <2>1, LiveRowsMove DEF Terminal
<1> QED
  BY Invariance, <1>1, PTL DEF Spec, TerminalIsFinal

(* An accepted cancel can only turn into cancelled. *)
THEOREM CancelWinsProved == Spec => CancelWins
<1>1. IInv /\ [Next]_vars => \A r \in Runs : row[r].status = "cancelling"
            => row'[r].status \in {"cancelling", "cancelled"}
  <2> SUFFICES ASSUME IInv, [Next]_vars, NEW r \in Runs, row[r].status = "cancelling"
               PROVE  row'[r].status \in {"cancelling", "cancelled"}
    OBVIOUS
  <2>1. RowStep(r)
    BY EveryRowStep
  <2> QED
    BY <2>1, LiveRowsMove
<1> QED
  BY Invariance, <1>1, PTL DEF Spec, CancelWins

-----------------------------------------------------------------------------
(* The row seen through the refinement mapping moves as RunLifecycle says. *)

Job(r) == [status  |-> row[r].status, attempt |-> row[r].attempt,
           tries   |-> row[r].tries,  result  |-> row[r].result]

LEMMA RowStepMoves ==
  ASSUME IInv, NEW r \in Runs, RowStep(r)
  PROVE  Job(r)' = Job(r) \/ Lifecycle!Moved(Job(r), Job(r)')
<1>1. /\ row[r] \in Row
      /\ row[r].attempt <= row[r].tries
      /\ row[r].attempt \in Nat /\ row[r].tries \in Nat
      /\ row[r].status = "queued" => row[r].attempt < row[r].tries
  BY DEF IInv, TypeOK, RetryBudget, Row
<1>2. CASE row'[r] = row[r]
  BY <1>2 DEF Job
<1>3. ASSUME row[r] = NoRow, NEW t \in Tries, NEW c \in Nat,
             row'[r] = [NoRow EXCEPT !.status = "queued", !.tries = t, !.created = c]
      PROVE  Lifecycle!Submitted(Job(r), Job(r)')
  <2>1. Job(r) = Lifecycle!NoJob
    BY <1>3 DEF Job, NoRow, Lifecycle!NoJob, Lifecycle!Job
  <2>2. Job(r)' = [status |-> "queued", attempt |-> 0, tries |-> t, result |-> 0]
    BY <1>3 DEF Job, NoRow
  <2> QED
    BY <2>1, <2>2 DEF Lifecycle!Submitted, Lifecycle!Job
<1>4. CASE row[r].status = "queued" /\ row'[r] = Claimed(r)
  <2>1. Lifecycle!Started(Job(r), Job(r)')
    <3>1. /\ row'[r].status = "running" /\ row'[r].attempt = row[r].attempt + 1
          /\ row'[r].tries = row[r].tries /\ row'[r].result = row[r].result
      BY <1>1, <1>4 DEF Row, Claimed
    <3> QED
      BY <1>1, <1>4, <3>1 DEF Job, Lifecycle!Started, Lifecycle!Job
  <2> QED
    BY <2>1 DEF Lifecycle!Moved
<1>5. CASE /\ row[r].status = "queued"
           /\ row'[r] = [row[r] EXCEPT !.status = "cancelled", !.ended = TRUE]
  <2>1. Lifecycle!Withdrawn(Job(r), Job(r)')
    BY <1>1, <1>5 DEF Job, Row, Lifecycle!Withdrawn
  <2> QED
    BY <2>1 DEF Lifecycle!Moved
<1>6. CASE row[r].status = "running" /\ row'[r] = [row[r] EXCEPT !.status = "cancelling"]
  <2>1. Lifecycle!Withdrawn(Job(r), Job(r)')
    BY <1>1, <1>6 DEF Job, Row, Lifecycle!Withdrawn
  <2> QED
    BY <2>1 DEF Lifecycle!Moved
<1>7. ASSUME NEW l \in Leases, row'[r] = [row[r] EXCEPT !.lease = l]
      PROVE  Job(r)' = Job(r)
  BY <1>1, <1>7 DEF Job, Row
<1>8. CASE row[r].status = "running" /\ (row'[r] = Reaped(r) \/ row'[r] = Failed(r))
  <2>1. Lifecycle!GivenUp(Job(r), Job(r)')
    <3>1. /\ row'[r].status = IF Exhausted(r) THEN "dead" ELSE "queued"
          /\ row'[r].attempt = row[r].attempt /\ row'[r].tries = row[r].tries
          /\ row'[r].result = row[r].result
      BY <1>1, <1>8 DEF Row, Reaped, Failed
    <3> QED
      BY <1>1, <1>8, <3>1 DEF Job, Exhausted, Lifecycle!GivenUp
  <2> QED
    BY <2>1 DEF Lifecycle!Moved
<1>9. CASE row[r].status = "running" /\ row'[r] = Finished(r, row[r].attempt)
  <2>1. Lifecycle!Succeeded(Job(r), Job(r)')
    <3>1. /\ row'[r].status = "succeeded" /\ row'[r].attempt = row[r].attempt
          /\ row'[r].tries = row[r].tries /\ row'[r].result = row[r].attempt
      BY <1>1, <1>9 DEF Row, Finished
    <3> QED
      BY <1>9, <3>1 DEF Job, Lifecycle!Succeeded, Lifecycle!Job
  <2> QED
    BY <2>1 DEF Lifecycle!Moved
<1>10. CASE /\ row[r].status = "cancelling"
            /\ row'[r] = [row[r] EXCEPT !.status = "cancelled", !.lease = "none",
                                        !.ended = TRUE]
  <2>1. Lifecycle!Withdrawn(Job(r), Job(r)')
    BY <1>1, <1>10 DEF Job, Row, Lifecycle!Withdrawn
  <2> QED
    BY <2>1 DEF Lifecycle!Moved
<1> QED
  BY <1>2, <1>3, <1>4, <1>5, <1>6, <1>7, <1>8, <1>9, <1>10, Zenon DEF RowStep, Lifecycle!Moved

(* The queue, with its workers, leases, heartbeats, reaper and faults,     *)
(* implements the lifecycle of a run.                                      *)
THEOREM LifecycleImplemented == Spec => ImplementsLifecycle
<1>1. Init => Lifecycle!Init
  BY DEF Init, NoRow, Lifecycle!Init, Lifecycle!NoJob, Lifecycle!Job
<1>2. IInv /\ [Next]_vars => Lifecycle!Next
  <2> SUFFICES ASSUME IInv, [Next]_vars PROVE Lifecycle!Next
    OBVIOUS
  <2>1. ASSUME NEW r \in Runs
        PROVE  Job(r)' = Job(r) \/ Lifecycle!Moved(Job(r), Job(r)')
    BY <2>1, EveryRowStep, RowStepMoves
  <2> QED
    BY <2>1 DEF Lifecycle!Next, Job
<1> QED
  BY Invariance, <1>1, <1>2, PTL DEF Spec, ImplementsLifecycle, Lifecycle!Spec
=============================================================================
