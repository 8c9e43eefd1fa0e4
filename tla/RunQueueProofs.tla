--------------------------- MODULE RunQueueProofs ---------------------------
(***************************************************************************)
(* Machine-checked proofs about RunQueue, for any sets of runs, workers,   *)
(* steps and retry budgets.  IInv is the inductive invariant; it is shown  *)
(* for one action at a time, after a lemma for the actions that touch the  *)
(* worker only.                                                            *)
(***************************************************************************)
EXTENDS RunQueue, TLAPS

USE DEF Steps, RunStatuses, TerminalStatuses, Leases, Errors, Labels, Seen

LEMMA IdleType == Idle \in Worker
  BY RunAssumption, StepAssumption DEF Idle, Worker

LEMMA AfterStepLabel ==
  ASSUME NEW k \in 0 .. NumSteps
  PROVE  /\ AfterStep(k) \in {"step", "return"}
         /\ AfterStep(k) = "step" => k < NumSteps
         /\ AfterStep(k) = "return" => k = NumSteps
  BY StepAssumption DEF AfterStep

LEMMA AssignedType ==
  ASSUME NEW r \in Runs, NEW a \in Nat
  PROVE  Assigned(r, a) \in Worker
<1>1. 0 \in 0 .. NumSteps /\ AfterStep(0) \in Labels
  BY StepAssumption, AfterStepLabel
<1> QED
  BY <1>1 DEF Assigned, Worker

LEMMA InitIInv == Init => IInv
<1> SUFFICES ASSUME Init PROVE IInv
  OBVIOUS
<1>1. NoRow \in Row
  BY DEF NoRow, Row
<1>2. TypeOK
  BY <1>1, IdleType DEF Init, TypeOK
<1>3. \A w \in Workers : worker[w] = Idle /\ ~Busy(w)
  BY DEF Init, Busy, Idle
<1>4. TokensIssued /\ OneHolder /\ HandlerProgress /\ CheckpointsAgree
  BY <1>3 DEF Idle, TokensIssued, OneHolder, HandlerProgress, CheckpointsAgree
<1>5. AbsentRows /\ RetryBudget /\ ResultIsFenced /\ RunningHasLease /\ CheckpointsComplete
  BY DEF Init, NoRow, AbsentRows, RetryBudget, ResultIsFenced, RunningHasLease, CheckpointsComplete
<1> QED
  BY <1>2, <1>4, <1>5 DEF IInv

-----------------------------------------------------------------------------
(* IInv, row by row and worker by worker. *)

IRow(r) ==
  /\ row[r] \in Row
  /\ row[r].status = "absent" => row[r] = NoRow
  /\ row[r].attempt <= row[r].tries
  /\ row[r].status = "queued" => row[r].attempt < row[r].tries
  /\ row[r].status = "dead" => row[r].attempt = row[r].tries
  /\ row[r].status = "succeeded" => row[r].result = row[r].attempt
  /\ row[r].status # "succeeded" => row[r].result = 0
  /\ row[r].status = "running" => row[r].lease # "none"
  /\ row[r].status \in TerminalStatuses \cup {"queued"} => row[r].lease = "none"
  /\ row[r].status = "succeeded" => \A s \in Steps : ledger[r][s] # 0

IWorker(w) ==
  /\ worker[w] \in Worker
  /\ worker[w].beating => Busy(w)
  /\ Busy(w) => /\ worker[w].run \in Runs
                /\ worker[w].attempt \in 1 .. row[worker[w].run].attempt
  /\ worker[w].pc \in {"step", "lookup", "body", "record"}
       => worker[w].step < NumSteps
  /\ worker[w].pc \in {"return", "confirm", "finish"} => worker[w].step = NumSteps
  /\ Busy(w) => \A s \in Steps :
                  /\ s <= worker[w].step => ledger[worker[w].run][s] # 0
                  /\ worker[w].done[s] # 0
                       => ledger[worker[w].run][s] = worker[w].done[s]

LEMMA IInvParts ==
  IInv <=> /\ row = [r \in Runs |-> row[r]]
           /\ worker = [w \in Workers |-> worker[w]]
           /\ ledger \in [Runs -> [Steps -> Nat]]
           /\ arrived \in Nat
           /\ \A r \in Runs : IRow(r)
           /\ \A w \in Workers : IWorker(w)
           /\ OneHolder
<1>1. TypeOK <=> /\ row = [r \in Runs |-> row[r]]
                 /\ worker = [w \in Workers |-> worker[w]]
                 /\ ledger \in [Runs -> [Steps -> Nat]]
                 /\ arrived \in Nat
                 /\ \A r \in Runs : row[r] \in Row
                 /\ \A w \in Workers : worker[w] \in Worker
  BY DEF TypeOK
<1> QED
  BY <1>1 DEF IInv, IRow, IWorker, TokensIssued, AbsentRows, RetryBudget, ResultIsFenced,
     RunningHasLease, HandlerProgress, CheckpointsAgree, CheckpointsComplete

(* A worker that does not move keeps its part of IInv when attempts only   *)
(* grow and no checkpoint is lost.                                         *)
LEMMA Kept ==
  ASSUME IInv, NEW v \in Workers, worker'[v] = worker[v],
         \A r \in Runs : IRow(r)' /\ row'[r].attempt >= row[r].attempt,
         \A r \in Runs, s \in Steps : ledger[r][s] # 0 => ledger'[r][s] = ledger[r][s]
  PROVE  IWorker(v)'
<1>0. /\ \A r \in Runs : IRow(r)
      /\ IWorker(v)
  BY IInvParts
<1>1. /\ worker'[v] \in Worker
      /\ worker'[v].beating => Busy(v)'
      /\ worker'[v].pc \in {"step", "lookup", "body", "record"}
            => worker'[v].step < NumSteps
      /\ worker'[v].pc \in {"return", "confirm", "finish"}
            => worker'[v].step = NumSteps
  BY <1>0 DEF IWorker, Busy
<1> SUFFICES ASSUME Busy(v)
             PROVE  /\ worker[v].run \in Runs
                    /\ worker[v].attempt \in 1 .. row'[worker[v].run].attempt
                    /\ \A s \in Steps :
                         /\ s <= worker[v].step => ledger'[worker[v].run][s] # 0
                         /\ worker[v].done[s] # 0
                              => ledger'[worker[v].run][s] = worker[v].done[s]
  BY <1>1 DEF IWorker, Busy
<1>2. /\ worker[v].run \in Runs
      /\ worker[v].attempt \in 1 .. row[worker[v].run].attempt
      /\ \A s \in Steps :
            /\ s <= worker[v].step => ledger[worker[v].run][s] # 0
            /\ worker[v].done[s] # 0
                 => ledger[worker[v].run][s] = worker[v].done[s]
  BY <1>0 DEF IWorker
<1>3. /\ row[worker[v].run].attempt \in Nat
      /\ row'[worker[v].run].attempt \in Nat
      /\ row'[worker[v].run].attempt >= row[worker[v].run].attempt
  BY <1>2, <1>0 DEF IRow, Row
<1>4. worker[v].attempt \in 1 .. row'[worker[v].run].attempt
  BY <1>2, <1>3
<1>5. \A s \in Steps : ledger[worker[v].run][s] # 0
           => ledger'[worker[v].run][s] = ledger[worker[v].run][s]
  BY <1>2
<1> QED
  BY <1>2, <1>4, <1>5

(* A step in which at most one worker moves, attempts only grow and no     *)
(* checkpoint is lost keeps IInv when the rows, and that worker, keep      *)
(* their parts of it.                                                      *)
LEMMA Preserved ==
  ASSUME IInv, NEW w \in Workers,
         row' = [r \in Runs |-> row'[r]],
         worker' = [v \in Workers |-> worker'[v]],
         ledger' \in [Runs -> [Steps -> Nat]],
         arrived' \in Nat,
         \A r \in Runs : IRow(r)' /\ row'[r].attempt >= row[r].attempt,
         \A r \in Runs, s \in Steps : ledger[r][s] # 0 => ledger'[r][s] = ledger[r][s],
         \A v \in Workers \ {w} : worker'[v] = worker[v],
         worker'[w] = worker[w] \/ IWorker(w)',
         \/ worker'[w].pc = "idle"
         \/ Busy(w) /\ worker'[w].run = worker[w].run
                    /\ worker'[w].attempt = worker[w].attempt
         \/ worker'[w].run \in Runs /\ worker'[w].attempt > row[worker'[w].run].attempt
  PROVE  IInv'
<1>0. /\ \A r \in Runs : IRow(r)
      /\ \A v \in Workers : IWorker(v)
      /\ OneHolder
      /\ ledger \in [Runs -> [Steps -> Nat]]
  BY IInvParts
<1>1. \A v \in Workers : worker'[v] = worker[v] => IWorker(v)'
  BY Kept
<1>2. \A v \in Workers : IWorker(v)'
  BY <1>1
<1>3. OneHolder'
  <2> SUFFICES ASSUME NEW u \in Workers, NEW v \in Workers, u # v, Busy(u)', Busy(v)',
                      worker'[u].run = worker'[v].run
               PROVE  worker'[u].attempt # worker'[v].attempt
    BY DEF OneHolder
  <2>1. ASSUME NEW x \in Workers, x # w, Busy(x)', Busy(w)',
               worker'[x].run = worker'[w].run
        PROVE  worker'[x].attempt # worker'[w].attempt
    <3>1. worker'[x] = worker[x] /\ Busy(x)
      BY <2>1 DEF Busy
    <3>2. CASE Busy(w) /\ worker'[w].run = worker[w].run
                       /\ worker'[w].attempt = worker[w].attempt
      BY <3>1, <3>2, <2>1, <1>0 DEF OneHolder
    <3>3. CASE worker'[w].run \in Runs /\ worker'[w].attempt > row[worker'[w].run].attempt
      <4>1. /\ worker[x].attempt \in 1 .. row[worker[x].run].attempt
            /\ worker[x].run = worker'[w].run
        BY <3>1, <2>1, <1>0 DEF IWorker
      <4>2. row[worker'[w].run].attempt \in Nat /\ worker'[w].attempt \in Nat
        BY <3>3, <1>0, <1>2 DEF IRow, Row, IWorker, Worker
      <4> QED
        BY <4>1, <4>2, <3>1, <3>3
    <3> QED
      BY <3>2, <3>3, <2>1 DEF Busy
  <2>2. CASE u = w
    BY <2>2, <2>1
  <2>3. CASE v = w
    BY <2>3, <2>1
  <2>4. CASE u # w /\ v # w
    BY <2>4, <1>0 DEF OneHolder, Busy
  <2> QED
    BY <2>2, <2>3, <2>4
<1>4. TypeOK'
  BY <1>2 DEF TypeOK, IRow, IWorker
<1> QED
  BY <1>2, <1>3, <1>4 DEF IInv, IRow, IWorker, TokensIssued, AbsentRows, RetryBudget, ResultIsFenced,
     RunningHasLease, HandlerProgress, CheckpointsAgree, CheckpointsComplete

-----------------------------------------------------------------------------
(* Three shapes of action: a worker moves on, a worker leaves, a row moves. *)

(* The worker alone moves, to a place that fits what it has done. *)
LEMMA WorkerMoves ==
  ASSUME IInv, UNCHANGED tables, NEW w \in Workers, NEW new \in Worker,
         worker' = [worker EXCEPT ![w] = new],
         IWorker(w)',
         \/ new.pc = "idle"
         \/ Busy(w) /\ new.run = worker[w].run /\ new.attempt = worker[w].attempt
  PROVE  IInv'
<1>1. /\ row = [r \in Runs |-> row[r]]
      /\ worker = [v \in Workers |-> worker[v]]
      /\ ledger \in [Runs -> [Steps -> Nat]]
      /\ arrived \in Nat
      /\ \A r \in Runs : IRow(r)
  BY IInvParts
<1>2. \A r \in Runs : IRow(r)' /\ row'[r].attempt >= row[r].attempt
  BY <1>1 DEF IRow, Row, tables
<1>3. worker'[w] = new /\ \A v \in Workers \ {w} : worker'[v] = worker[v]
  BY <1>1
<1> QED
  BY <1>1, <1>2, <1>3, Preserved DEF tables

(* Leaving needs no more than that the tables are as they should be. *)
LEMMA IdleFits ==
  ASSUME NEW w \in Workers, worker'[w] = Idle
  PROVE  IWorker(w)' /\ worker'[w].pc = "idle"
  BY IdleType, StepAssumption DEF IWorker, Idle, Busy

LEMMA WorkerLeaves ==
  ASSUME IInv, UNCHANGED tables, NEW w \in Workers, Leave(w)
  PROVE  IInv'
<1>1. worker'[w] = Idle
  BY IInvParts DEF Leave
<1> QED
  BY <1>1, IdleFits, IdleType, WorkerMoves DEF Leave, Idle

(* The tables move and no worker does. *)
LEMMA TablesMove ==
  ASSUME IInv, UNCHANGED <<ledger, worker>>, arrived' \in Nat,
         row' = [r \in Runs |-> row'[r]],
         \A r \in Runs : IRow(r)' /\ row'[r].attempt >= row[r].attempt
  PROVE  IInv'
<1>1. /\ worker = [v \in Workers |-> worker[v]]
      /\ ledger \in [Runs -> [Steps -> Nat]]
      /\ OneHolder
  BY IInvParts
<1>2. \A v \in Workers : IWorker(v)'
  BY Kept
<1>3. OneHolder'
  BY <1>1 DEF OneHolder, Busy
<1>4. TypeOK'
  BY <1>1, <1>2 DEF TypeOK, IRow, IWorker
<1> QED
  BY <1>2, <1>3, <1>4 DEF IInv, IRow, IWorker, TokensIssued, AbsentRows, RetryBudget, ResultIsFenced,
     RunningHasLease, HandlerProgress, CheckpointsAgree, CheckpointsComplete

(* One row moves, without a new attempt. *)
LEMMA RowMoves ==
  ASSUME IInv, NEW r \in Runs, NEW new \in Row,
         row' = [row EXCEPT ![r] = new], new.attempt = row[r].attempt, IRow(r)',
         UNCHANGED <<ledger, worker>>, arrived' \in Nat
  PROVE  IInv'
<1>1. row = [q \in Runs |-> row[q]] /\ \A q \in Runs : IRow(q)
  BY IInvParts
<1>2. \A q \in Runs : IRow(q)' /\ row'[q].attempt >= row[q].attempt
  BY <1>1 DEF IRow, Row
<1> QED
  BY <1>1, <1>2, TablesMove

(* A worker ends its execution with a last write to the row of its run. *)
LEMMA WritesAndLeaves ==
  ASSUME IInv, NEW w \in Workers, NEW r \in Runs, NEW new \in Row,
         row' = [row EXCEPT ![r] = new], new.attempt = row[r].attempt, IRow(r)',
         Leave(w), UNCHANGED <<ledger, arrived>>
  PROVE  IInv'
<1>1. /\ row = [q \in Runs |-> row[q]]
      /\ worker = [v \in Workers |-> worker[v]]
      /\ ledger \in [Runs -> [Steps -> Nat]]
      /\ arrived \in Nat
      /\ \A q \in Runs : IRow(q)
  BY IInvParts
<1>2. \A q \in Runs : IRow(q)' /\ row'[q].attempt >= row[q].attempt
  BY <1>1 DEF IRow, Row
<1>3. worker'[w] = Idle /\ \A v \in Workers \ {w} : worker'[v] = worker[v]
  BY <1>1 DEF Leave
<1>4. worker' = [v \in Workers |-> worker'[v]]
  BY <1>1 DEF Leave
<1> QED
  BY <1>1, <1>2, <1>3, <1>4, IdleFits, Preserved

-----------------------------------------------------------------------------
(* The actions of callers, time and the reaper. *)

LEMMA EnqueueIInv == ASSUME IInv, NEW r \in Runs, Enqueue(r) PROVE IInv'
<1>1. PICK t \in Tries :
        row' = [row EXCEPT ![r] = [NoRow EXCEPT !.status = "queued", !.tries = t,
                                                !.created = arrived']]
  BY DEF Enqueue
<1> DEFINE new == [NoRow EXCEPT !.status = "queued", !.tries = t, !.created = arrived']
<1>2. /\ IRow(r) /\ row = [q \in Runs |-> row[q]] /\ arrived \in Nat
      /\ \A q \in Runs : IRow(q)
  BY IInvParts
<1>3. new \in Row /\ arrived' \in Nat
  <2>1. t \in Nat
    BY TriesAssumption
  <2>2. arrived' \in Nat
    BY <1>2 DEF Enqueue
  <2> QED
    BY <2>1, <2>2 DEF NoRow, Row
<1>4. row[r].status = "absent" /\ row'[r] = new
  BY <1>1, <1>2 DEF Enqueue
<1>5. t \in Nat /\ t > 0
  BY TriesAssumption
<1>6. new.attempt = row[r].attempt
  BY <1>2, <1>4 DEF IRow, NoRow
<1>7. IRow(r)'
  BY <1>3, <1>4, <1>5 DEF IRow, NoRow
<1> QED
  BY <1>1, <1>3, <1>6, <1>7, RowMoves DEF Enqueue

LEMMA RequestCancelIInv == ASSUME IInv, NEW r \in Runs, RequestCancel(r) PROVE IInv'
<1>1. /\ IRow(r) /\ row = [q \in Runs |-> row[q]] /\ arrived \in Nat
      /\ ledger \in [Runs -> [Steps -> Nat]]
  BY IInvParts
<1>2. CASE row[r].status = "queued"
  <2> DEFINE new == [row[r] EXCEPT !.status = "cancelled", !.ended = TRUE]
  <2>1. row' = [row EXCEPT ![r] = new]
    BY <1>1, <1>2 DEF RequestCancel, IRow, Row
  <2>2. new \in Row /\ new.attempt = row[r].attempt
    BY <1>1 DEF IRow, Row
  <2>3. IRow(r)'
    BY <1>1, <1>2, <2>1, <2>2 DEF IRow, Row
  <2> QED
    BY <1>1, <2>1, <2>2, <2>3, RowMoves DEF RequestCancel
<1>3. CASE row[r].status = "running"
  <2> DEFINE new == [row[r] EXCEPT !.status = "cancelling"]
  <2>1. row' = [row EXCEPT ![r] = new]
    BY <1>1, <1>3 DEF RequestCancel
  <2>2. new \in Row /\ new.attempt = row[r].attempt
    BY <1>1 DEF IRow, Row
  <2>3. IRow(r)'
    BY <1>1, <1>3, <2>1, <2>2 DEF IRow, Row
  <2> QED
    BY <1>1, <2>1, <2>2, <2>3, RowMoves DEF RequestCancel
<1> QED
  BY <1>2, <1>3 DEF RequestCancel

LEMMA LeaseExpiresIInv == ASSUME IInv, NEW r \in Runs, LeaseExpires(r) PROVE IInv'
<1> DEFINE new == [row[r] EXCEPT !.lease = "expired"]
<1>1. /\ IRow(r) /\ row = [q \in Runs |-> row[q]] /\ arrived \in Nat
  BY IInvParts
<1>2. new \in Row /\ new.attempt = row[r].attempt
  BY <1>1 DEF IRow, Row
<1>3. row' = [row EXCEPT ![r] = new] /\ row'[r] = new
  BY <1>1 DEF LeaseExpires
<1>4. IRow(r)'
  BY <1>1, <1>2, <1>3 DEF IRow, Row, LeaseExpires
<1> QED
  BY <1>1, <1>2, <1>3, <1>4, RowMoves DEF LeaseExpires

LEMMA ReapIInv == ASSUME IInv, Reap PROVE IInv'
<1>1. arrived \in Nat /\ ledger \in [Runs -> [Steps -> Nat]]
  BY IInvParts
<1>2. row' = [r \in Runs |-> row'[r]]
  BY DEF Reap
<1>3. ASSUME NEW r \in Runs
      PROVE  IRow(r)' /\ row'[r].attempt >= row[r].attempt
  <2>1. IRow(r)
    BY IInvParts
  <2>2. CASE Overdue(r) /\ Exhausted(r)
    <3>1. row'[r] = [row[r] EXCEPT !.status = "dead", !.lease = "none", !.ended = TRUE,
                        !.error = IF @ = "none" THEN "lease_expired" ELSE @]
      BY <2>2 DEF Reap, Reaped
    <3>2. row'[r] \in Row
      BY <2>1, <3>1 DEF IRow, Row
    <3>3. row[r].attempt = row[r].tries
      BY <2>1, <2>2 DEF IRow, Row, Exhausted
    <3>4. /\ row'[r].status = "dead" /\ row'[r].attempt = row[r].attempt
          /\ row'[r].tries = row[r].tries /\ row'[r].result = row[r].result
          /\ row'[r].lease = "none"
      BY <2>1, <3>1 DEF IRow, Row
    <3> QED
      BY <2>1, <2>2, <3>2, <3>3, <3>4 DEF IRow, Row, Overdue
  <2>3. CASE Overdue(r) /\ ~Exhausted(r)
    <3>1. row'[r] = [row[r] EXCEPT !.status = "queued", !.lease = "none"]
      BY <2>3 DEF Reap, Reaped
    <3>2. row'[r] \in Row
      BY <2>1, <3>1 DEF IRow, Row
    <3>3. row[r].attempt < row[r].tries
      BY <2>1, <2>3 DEF IRow, Row, Exhausted
    <3>4. /\ row'[r].status = "queued" /\ row'[r].attempt = row[r].attempt
          /\ row'[r].tries = row[r].tries /\ row'[r].result = row[r].result
          /\ row'[r].lease = "none"
      BY <2>1, <3>1 DEF IRow, Row
    <3> QED
      BY <2>1, <2>3, <3>2, <3>3, <3>4 DEF IRow, Row, Overdue
  <2>4. CASE ~Overdue(r)
    <3>1. row'[r] = row[r]
      BY <2>4 DEF Reap
    <3> QED
      BY <2>1, <3>1 DEF IRow, Row, Reap
  <2> QED
    BY <2>2, <2>3, <2>4
<1> QED
  BY <1>1, <1>2, <1>3, TablesMove DEF Reap

-----------------------------------------------------------------------------
(* The actions of the worker's thread. *)

LEMMA ClaimIInv == ASSUME IInv, NEW w \in Workers, Claim(w) PROVE IInv'
<1>1. PICK r \in Runs :
        /\ Oldest(r)
        /\ row' = [row EXCEPT ![r] = Claimed(r)]
        /\ worker' = [worker EXCEPT ![w] = Assigned(r, row[r].attempt + 1)]
  BY DEF Claim
<1> DEFINE new == Assigned(r, row[r].attempt + 1)
<1>2. /\ row = [q \in Runs |-> row[q]]
      /\ worker = [v \in Workers |-> worker[v]]
      /\ ledger \in [Runs -> [Steps -> Nat]]
      /\ arrived \in Nat
      /\ \A q \in Runs : IRow(q)
  BY IInvParts
<1>3. /\ row'[r] = Claimed(r) /\ \A q \in Runs \ {r} : row'[q] = row[q]
      /\ row' = [q \in Runs |-> row'[q]]
      /\ UNCHANGED <<ledger, arrived>>
  BY <1>1, <1>2 DEF Claim
<1>4. row[r].status = "queued" /\ row[r].attempt \in Nat
  BY <1>1, <1>2 DEF Oldest, WithStatus, IRow, Row
<1>5. /\ IRow(r)' /\ row'[r].attempt = row[r].attempt + 1
      /\ row'[r].attempt \in Nat
  <2>1. row[r] \in Row /\ IRow(r)
    BY <1>2 DEF IRow
  <2>2. row[r].attempt < row[r].tries /\ row[r].result = 0
    BY <2>1, <1>4 DEF IRow
  <2>3. row'[r] \in Row
    <3>1. row[r].attempt + 1 \in Nat
      BY <1>4
    <3>2. row'[r] = [row[r] EXCEPT !.status = "running", !.attempt = row[r].attempt + 1,
                                   !.lease = "live", !.error = "none"]
      BY <2>1, <1>3 DEF Claimed
    <3> QED
      BY <2>1, <3>1, <3>2 DEF Row
  <2>4. /\ row'[r].status = "running" /\ row'[r].attempt = row[r].attempt + 1
        /\ row'[r].lease = "live" /\ row'[r].result = row[r].result
        /\ row'[r].tries = row[r].tries
    BY <2>1, <1>3 DEF Row, Claimed
  <2>5. row[r].tries \in Nat
    BY <2>1 DEF Row
  <2> QED
    BY <2>2, <2>3, <2>4, <2>5, <1>4 DEF IRow
<1>6. \A q \in Runs : IRow(q)' /\ row'[q].attempt >= row[q].attempt
  <2> SUFFICES ASSUME NEW q \in Runs PROVE IRow(q)' /\ row'[q].attempt >= row[q].attempt
    OBVIOUS
  <2>1. CASE q = r
    BY <2>1, <1>4, <1>5
  <2>2. CASE q # r
    <3>1. row'[q] = row[q] /\ IRow(q) /\ row[q].attempt \in Nat
      BY <2>2, <1>2, <1>3 DEF IRow, Row
    <3> QED
      BY <3>1, <1>3 DEF IRow
  <2> QED
    BY <2>1, <2>2
<1>7. /\ worker'[w] = new /\ \A v \in Workers \ {w} : worker'[v] = worker[v]
      /\ worker' = [v \in Workers |-> worker'[v]]
  BY <1>1, <1>2
<1>8. AfterStep(0) \in {"step", "return"} /\ (AfterStep(0) = "step" => 0 < NumSteps)
      /\ (AfterStep(0) = "return" => 0 = NumSteps)
  BY AfterStepLabel, StepAssumption
<1>9. new \in Worker /\ new.run = r /\ new.attempt = row[r].attempt + 1 /\ new.step = 0
      /\ new.pc = AfterStep(0) /\ new.done = [s \in Steps |-> 0]
  BY <1>4, AssignedType DEF Assigned
<1>10. IWorker(w)'
  <2>1. /\ Busy(w)' /\ worker'[w].attempt \in 1 .. row'[worker'[w].run].attempt
        /\ worker'[w].run \in Runs
    BY <1>4, <1>5, <1>7, <1>8, <1>9 DEF Busy
  <2>2. \A s \in Steps : ~(s <= 0)
    BY StepAssumption
  <2> QED
    BY <1>7, <1>8, <1>9, <2>1, <2>2 DEF IWorker
<1>11. /\ \A q \in Runs, s \in Steps : ledger[q][s] # 0 => ledger'[q][s] = ledger[q][s]
       /\ ledger' \in [Runs -> [Steps -> Nat]] /\ arrived' \in Nat
  BY <1>2, <1>3
<1>12. worker'[w].run \in Runs /\ worker'[w].attempt > row[worker'[w].run].attempt
  BY <1>4, <1>7, <1>9
<1> HIDE DEF new
<1> QED
  BY <1>3, <1>6, <1>7, <1>10, <1>11, <1>12, Preserved

(* What the parts of IInv say about a worker that executes a run. *)
LEMMA BusyWorker ==
  ASSUME IInv, NEW w \in Workers, Busy(w)
  PROVE  /\ worker = [v \in Workers |-> worker[v]]
         /\ worker[w] \in Worker
         /\ worker[w].run \in Runs
         /\ worker[w].attempt \in 1 .. row[worker[w].run].attempt
         /\ worker[w].step \in 0 .. NumSteps
         /\ IWorker(w)
         /\ IRow(worker[w].run)
         /\ row = [q \in Runs |-> row[q]]
         /\ ledger \in [Runs -> [Steps -> Nat]]
         /\ arrived \in Nat
<1>1. IWorker(w)
  BY IInvParts
<1>2. worker[w] \in Worker /\ worker[w].run \in Runs
      /\ worker[w].attempt \in 1 .. row[worker[w].run].attempt
  BY <1>1 DEF IWorker
<1>3. worker[w].step \in 0 .. NumSteps
  BY <1>2 DEF Worker
<1> QED
  BY <1>1, <1>2, <1>3, IInvParts

(* The worker only changes the label and what it saw of the cancel flag. *)
LEMMA Relabelled ==
  ASSUME IInv, UNCHANGED tables, NEW w \in Workers, Busy(w),
         NEW label \in Labels, NEW seen \in Seen, label # "idle",
         worker' = [worker EXCEPT ![w] = [worker[w] EXCEPT !.pc = label, !.seen = seen]],
         label \in {"step", "lookup", "body", "record"} => worker[w].step < NumSteps,
         label \in {"return", "confirm", "finish"} => worker[w].step = NumSteps
  PROVE  IInv'
<1> DEFINE new == [worker[w] EXCEPT !.pc = label, !.seen = seen]
<1>1. /\ worker = [v \in Workers |-> worker[v]]
      /\ worker[w] \in Worker /\ IWorker(w)
  BY BusyWorker
<1>2. /\ new \in Worker /\ new.pc = label /\ new.run = worker[w].run
      /\ new.attempt = worker[w].attempt /\ new.step = worker[w].step
      /\ new.done = worker[w].done /\ new.beating = worker[w].beating
  BY <1>1 DEF Worker
<1>3. worker'[w] = new
  BY <1>1
<1> HIDE DEF new
<1>4. IWorker(w)'
  BY <1>1, <1>2, <1>3 DEF IWorker, Busy, tables
<1> QED
  BY <1>2, <1>3, <1>4, WorkerMoves DEF new

LEMMA GotoIInv ==
  ASSUME IInv, UNCHANGED tables, NEW w \in Workers, Busy(w),
         NEW label \in Labels, label # "idle", Goto(w, label),
         label \in {"step", "lookup", "body", "record"} => worker[w].step < NumSteps,
         label \in {"return", "confirm", "finish"} => worker[w].step = NumSteps
  PROVE  IInv'
<1>1. worker[w] \in Worker /\ worker = [v \in Workers |-> worker[v]]
  BY BusyWorker
<1>2. [worker[w] EXCEPT !.pc = label]
        = [worker[w] EXCEPT !.pc = label, !.seen = worker[w].seen]
  BY <1>1 DEF Worker
<1>3. worker[w].seen \in Seen
  BY <1>1 DEF Worker
<1>4. worker' = [worker EXCEPT ![w] = [worker[w] EXCEPT !.pc = label, !.seen = worker[w].seen]]
  BY <1>1, <1>2 DEF Goto
<1> QED
  BY <1>3, <1>4, Relabelled

LEMMA EnterStepIInv == ASSUME IInv, NEW w \in Workers, EnterStep(w) PROVE IInv'
<1>1. PICK answer \in BOOLEAN, seen \in Seen :
        worker' = [worker EXCEPT ![w].seen = seen,
                                 ![w].pc = IF answer THEN "stopped" ELSE "lookup"]
  BY DEF EnterStep
<1>2. Busy(w) /\ UNCHANGED tables
  BY DEF EnterStep, Busy
<1>3. worker[w].step < NumSteps
  BY <1>2, BusyWorker DEF EnterStep, IWorker
<1> DEFINE label == IF answer THEN "stopped" ELSE "lookup"
<1>4. worker' = [worker EXCEPT ![w] = [worker[w] EXCEPT !.pc = label, !.seen = seen]]
  BY <1>1, <1>2, BusyWorker DEF Worker
<1> QED
  BY <1>2, <1>3, <1>4, Relabelled

LEMMA ConfirmIInv == ASSUME IInv, NEW w \in Workers, Confirm(w) PROVE IInv'
<1>1. PICK answer \in BOOLEAN, seen \in Seen :
        worker' = [worker EXCEPT ![w].seen = seen,
                                 ![w].pc = IF answer THEN "settle" ELSE "finish"]
  BY DEF Confirm
<1>2. Busy(w) /\ UNCHANGED tables
  BY DEF Confirm, Busy
<1>3. worker[w].step = NumSteps
  BY <1>2, BusyWorker DEF Confirm, IWorker
<1> DEFINE label == IF answer THEN "settle" ELSE "finish"
<1>4. worker' = [worker EXCEPT ![w] = [worker[w] EXCEPT !.pc = label, !.seen = seen]]
  BY <1>1, <1>2, BusyWorker DEF Worker
<1> QED
  BY <1>2, <1>3, <1>4, Relabelled

LEMMA BodyIInv == ASSUME IInv, NEW w \in Workers, Body(w) PROVE IInv'
<1>1. Busy(w) /\ UNCHANGED tables
  BY DEF Body, Busy
<1>2. worker[w].step < NumSteps
  BY <1>1, BusyWorker DEF Body, IWorker
<1>3. CASE Goto(w, "record")
  BY <1>1, <1>2, <1>3, GotoIInv
<1>4. CASE Goto(w, "fail")
  BY <1>1, <1>4, GotoIInv
<1> QED
  BY <1>3, <1>4 DEF Body

LEMMA ReturnIInv == ASSUME IInv, NEW w \in Workers, Return(w) PROVE IInv'
<1>1. Busy(w) /\ UNCHANGED tables
  BY DEF Return, Busy
<1>2. worker[w].step = NumSteps
  BY <1>1, BusyWorker DEF Return, IWorker
<1>3. CASE Leave(w)
  BY <1>1, <1>3, WorkerLeaves
<1>4. CASE Goto(w, "confirm")
  BY <1>1, <1>2, <1>4, GotoIInv
<1> QED
  BY <1>3, <1>4 DEF Return

LEMMA StoppedIInv == ASSUME IInv, NEW w \in Workers, Stopped(w) PROVE IInv'
<1>1. Busy(w) /\ UNCHANGED tables
  BY DEF Stopped, Busy
<1>2. CASE Leave(w)
  BY <1>1, <1>2, WorkerLeaves
<1>3. CASE Goto(w, "settle")
  BY <1>1, <1>3, GotoIInv
<1> QED
  BY <1>2, <1>3 DEF Stopped

LEMMA LookupIInv == ASSUME IInv, NEW w \in Workers, Lookup(w) PROVE IInv'
<1> DEFINE me == worker[w]
           done == IF me.loaded THEN me.done ELSE ledger[me.run]
           read == [me EXCEPT !.loaded = TRUE, !.done = done]
           k == me.step
<1>1. Busy(w) /\ UNCHANGED tables
  BY DEF Lookup, Busy
<1>2. /\ worker = [v \in Workers |-> worker[v]]
      /\ me \in Worker /\ me.run \in Runs /\ k \in 0 .. NumSteps
      /\ IWorker(w) /\ ledger \in [Runs -> [Steps -> Nat]]
  BY <1>1, BusyWorker
<1>3. k < NumSteps
  BY <1>2 DEF Lookup, IWorker
<1>4. /\ done \in [Steps -> Nat]
      /\ \A s \in Steps : done[s] # 0 => ledger[me.run][s] = done[s]
  BY <1>1, <1>2 DEF Worker, IWorker
<1>5. \A s \in Steps : s <= k => ledger[me.run][s] # 0
  BY <1>1, <1>2 DEF IWorker
<1>6. k + 1 \in Steps
  BY <1>2, <1>3, StepAssumption
<1>7. CASE done[k + 1] # 0
  <2> DEFINE new == [read EXCEPT !.step = @ + 1, !.pc = AfterStep(k + 1)]
  <2>1. worker' = [worker EXCEPT ![w] = new]
    BY <1>7 DEF Lookup
  <2>2. k + 1 \in 0 .. NumSteps
    BY <1>2, <1>3, StepAssumption
  <2>3. /\ AfterStep(k + 1) \in {"step", "return"}
        /\ AfterStep(k + 1) = "step" => k + 1 < NumSteps
        /\ AfterStep(k + 1) = "return" => k + 1 = NumSteps
    BY <2>2, AfterStepLabel
  <2> HIDE DEF done
  <2>4. /\ new \in Worker /\ new.pc = AfterStep(k + 1) /\ new.run = me.run
        /\ new.attempt = me.attempt /\ new.step = k + 1 /\ new.done = done
        /\ new.beating = me.beating
    BY <1>2, <1>4, <2>2, <2>3 DEF Worker
  <2> HIDE DEF new
  <2>5. worker'[w] = new
    BY <1>2, <2>1
  <2>6. \A s \in Steps : s <= k + 1 => ledger[me.run][s] # 0
    <3> SUFFICES ASSUME NEW s \in Steps, s <= k + 1 PROVE ledger[me.run][s] # 0
      OBVIOUS
    <3>1. s <= k \/ s = k + 1
      BY <1>2, StepAssumption
    <3> QED
      BY <3>1, <1>4, <1>5, <1>6, <1>7
  <2>7. IWorker(w)'
    BY <1>1, <1>2, <1>4, <2>3, <2>4, <2>5, <2>6 DEF IWorker, Busy, tables
  <2> QED
    BY <1>1, <2>1, <2>4, <2>7, WorkerMoves
<1>8. CASE done[k + 1] = 0
  <2> DEFINE new == [read EXCEPT !.pc = "body"]
  <2>1. worker' = [worker EXCEPT ![w] = new]
    BY <1>8 DEF Lookup
  <2> HIDE DEF done
  <2>2. /\ new \in Worker /\ new.pc = "body" /\ new.run = me.run
        /\ new.attempt = me.attempt /\ new.step = k /\ new.done = done
        /\ new.beating = me.beating
    BY <1>2, <1>4 DEF Worker
  <2> HIDE DEF new
  <2>3. worker'[w] = new
    BY <1>2, <2>1
  <2>4. IWorker(w)'
    BY <1>1, <1>2, <1>3, <1>4, <1>5, <2>2, <2>3 DEF IWorker, Busy, tables
  <2> QED
    BY <1>1, <2>1, <2>2, <2>4, WorkerMoves
<1> QED
  BY <1>7, <1>8

(* The INSERT keeps what is there and adds the step of the worker. *)
LEMMA WriteStepKeeps ==
  ASSUME IInv, NEW w \in Workers, Busy(w), WriteStep(w), worker[w].step < NumSteps
  PROVE  /\ ledger' \in [Runs -> [Steps -> Nat]]
         /\ \A r \in Runs, s \in Steps :
               ledger[r][s] # 0 => ledger'[r][s] = ledger[r][s]
         /\ worker[w].step + 1 \in Steps
         /\ ledger'[worker[w].run][worker[w].step + 1] # 0
<1> DEFINE q == worker[w].run
           t == worker[w].step + 1
<1>1. /\ q \in Runs /\ worker[w].attempt \in Nat \ {0}
      /\ ledger \in [Runs -> [Steps -> Nat]]
      /\ worker[w].step \in 0 .. NumSteps
  <2>1. /\ q \in Runs /\ worker[w].attempt \in 1 .. row[q].attempt
        /\ ledger \in [Runs -> [Steps -> Nat]]
        /\ worker[w].step \in 0 .. NumSteps /\ worker[w] \in Worker
    BY BusyWorker
  <2> QED
    BY <2>1 DEF Worker
<1>2. t \in Steps
  BY <1>1, StepAssumption
<1>3. ledger' = [ledger EXCEPT ![q][t] = Recorded(q, t, worker[w].attempt)]
  BY DEF WriteStep
<1>4. Recorded(q, t, worker[w].attempt) \in Nat \ {0}
  BY <1>1, <1>2 DEF Recorded
<1> HIDE DEF q, t
<1>5. ledger' \in [Runs -> [Steps -> Nat]] /\ ledger'[q][t] # 0
  BY <1>1, <1>2, <1>3, <1>4
<1>6. ASSUME NEW r \in Runs, NEW s \in Steps, ledger[r][s] # 0
      PROVE  ledger'[r][s] = ledger[r][s]
  <2>1. CASE r = q /\ s = t
    BY <2>1, <1>1, <1>2, <1>3, <1>6 DEF Recorded
  <2>2. CASE ~(r = q /\ s = t)
    BY <2>2, <1>1, <1>2, <1>3
  <2> QED
    BY <2>1, <2>2
<1> QED
  BY <1>2, <1>5, <1>6 DEF q, t

(* The tables of checkpoints grow, and the worker that wrote moves on. *)
LEMMA StepWritten ==
  ASSUME IInv, NEW w \in Workers, Busy(w), UNCHANGED <<row, arrived>>,
         WriteStep(w), worker[w].step < NumSteps,
         NEW new \in Worker, worker' = [worker EXCEPT ![w] = new],
         new.run = worker[w].run, new.attempt = worker[w].attempt, IWorker(w)'
  PROVE  IInv'
<1>1. /\ worker = [v \in Workers |-> worker[v]]
      /\ row = [r \in Runs |-> row[r]] /\ arrived \in Nat
      /\ ledger \in [Runs -> [Steps -> Nat]]
      /\ \A r \in Runs : IRow(r)
  BY IInvParts
<1>2. /\ ledger' \in [Runs -> [Steps -> Nat]]
      /\ \A r \in Runs, s \in Steps : ledger[r][s] # 0 => ledger'[r][s] = ledger[r][s]
  BY WriteStepKeeps
<1>3. \A r \in Runs : IRow(r)' /\ row'[r].attempt >= row[r].attempt
  BY <1>1, <1>2 DEF IRow, Row
<1>4. /\ worker'[w] = new /\ \A v \in Workers \ {w} : worker'[v] = worker[v]
      /\ worker' = [v \in Workers |-> worker'[v]]
  BY <1>1
<1> QED
  BY <1>1, <1>2, <1>3, <1>4, Preserved

LEMMA RecordIInv == ASSUME IInv, NEW w \in Workers, Record(w) PROVE IInv'
<1> DEFINE k == worker[w].step
           new == [worker[w] EXCEPT !.step = k + 1, !.pc = AfterStep(k + 1)]
<1>1. Busy(w) /\ UNCHANGED <<row, arrived>> /\ WriteStep(w)
  BY DEF Record, Busy
<1>2. /\ worker = [v \in Workers |-> worker[v]]
      /\ worker[w] \in Worker /\ worker[w].run \in Runs /\ k \in 0 .. NumSteps
      /\ IWorker(w)
  BY <1>1, BusyWorker
<1>3. k < NumSteps
  BY <1>2 DEF Record, IWorker
<1>4. /\ \A r \in Runs, s \in Steps : ledger[r][s] # 0 => ledger'[r][s] = ledger[r][s]
      /\ k + 1 \in Steps /\ ledger'[worker[w].run][k + 1] # 0
  BY <1>1, <1>3, WriteStepKeeps
<1>5. k + 1 \in 0 .. NumSteps
  BY <1>2, <1>3, StepAssumption
<1>6. /\ AfterStep(k + 1) \in {"step", "return"}
      /\ AfterStep(k + 1) = "step" => k + 1 < NumSteps
      /\ AfterStep(k + 1) = "return" => k + 1 = NumSteps
  BY <1>5, AfterStepLabel
<1>7. worker' = [worker EXCEPT ![w] = new] /\ worker'[w] = new
  BY <1>2 DEF Record, Worker
<1>8. /\ new \in Worker /\ new.pc = AfterStep(k + 1) /\ new.run = worker[w].run
      /\ new.attempt = worker[w].attempt /\ new.step = k + 1
      /\ new.done = worker[w].done /\ new.beating = worker[w].beating
  BY <1>2, <1>5, <1>6 DEF Worker
<1> HIDE DEF new
<1>9. \A s \in Steps : s <= k + 1 => ledger'[worker[w].run][s] # 0
  <2> SUFFICES ASSUME NEW s \in Steps, s <= k + 1 PROVE ledger'[worker[w].run][s] # 0
    OBVIOUS
  <2>1. s <= k \/ s = k + 1
    BY <1>2, StepAssumption
  <2> QED
    BY <2>1, <1>1, <1>2, <1>4 DEF IWorker
<1>10. \A s \in Steps : worker[w].done[s] # 0
          => ledger'[worker[w].run][s] = worker[w].done[s]
  BY <1>1, <1>2, <1>4 DEF IWorker
<1>11. IWorker(w)'
  BY <1>1, <1>2, <1>6, <1>7, <1>8, <1>9, <1>10 DEF IWorker, Busy
<1> QED
  BY <1>1, <1>3, <1>7, <1>8, <1>11, StepWritten

LEMMA FinishIInv == ASSUME IInv, NEW w \in Workers, Finish(w) PROVE IInv'
<1>1. Busy(w) /\ UNCHANGED <<ledger, arrived>>
  BY DEF Finish, Busy
<1> PICK r \in Runs, a \in Nat : r = worker[w].run /\ a = worker[w].attempt
  BY <1>1, BusyWorker DEF Worker
<1>2. /\ worker = [v \in Workers |-> worker[v]]
      /\ worker[w] \in Worker /\ r \in Runs /\ IWorker(w) /\ IRow(r)
      /\ row = [q \in Runs |-> row[q]]
  BY <1>1, BusyWorker
<1>3. CASE Owns(w)
  <2> DEFINE new == Finished(r, a)
  <2>1. row' = [row EXCEPT ![r] = new] /\ Leave(w) /\ row'[r] = new
    BY <1>2, <1>3 DEF Finish
  <2>2. row[r].status = "running" /\ row[r].attempt = a /\ row[r].attempt \in Nat
    BY <1>2, <1>3 DEF Owns, IRow, Row
  <2>3. new \in Row
    BY <1>2, <2>2 DEF IRow, Row, Finished
  <2>4. /\ new.attempt = row[r].attempt /\ new.status = "succeeded"
        /\ new.result = a /\ new.lease = "none" /\ new.tries = row[r].tries
    BY <1>2 DEF IRow, Row, Finished
  <2>5. \A s \in Steps : ledger[r][s] # 0
    BY <1>1, <1>2, StepAssumption DEF Finish, IWorker
  <2> HIDE DEF new
  <2>6. IRow(r)'
    BY <1>1, <1>2, <2>1, <2>2, <2>3, <2>4, <2>5 DEF IRow
  <2> QED
    BY <1>1, <1>2, <2>1, <2>3, <2>4, <2>6, WritesAndLeaves
<1>4. CASE ~Owns(w)
  <2> DEFINE new == [worker[w] EXCEPT !.pc = "settle", !.held = FALSE]
  <2>1. worker' = [worker EXCEPT ![w] = new] /\ worker'[w] = new /\ UNCHANGED tables
    BY <1>1, <1>2, <1>4 DEF Finish, Worker, tables
  <2>2. /\ new \in Worker /\ new.pc = "settle" /\ new.run = r /\ new.attempt = a
        /\ new.step = worker[w].step /\ new.done = worker[w].done
        /\ new.beating = worker[w].beating
    BY <1>2 DEF Worker
  <2> HIDE DEF new
  <2>3. IWorker(w)'
    BY <1>1, <1>2, <2>1, <2>2 DEF IWorker, Busy, tables
  <2> QED
    BY <1>1, <2>1, <2>2, <2>3, WorkerMoves
<1> QED
  BY <1>3, <1>4

LEMMA SettleCancelIInv == ASSUME IInv, NEW w \in Workers, SettleCancel(w) PROVE IInv'
<1>1. Busy(w) /\ UNCHANGED <<ledger, arrived>> /\ Leave(w)
  BY DEF SettleCancel, Busy
<1> PICK r \in Runs : r = worker[w].run
  BY <1>1, BusyWorker
<1> DEFINE new == [row[r] EXCEPT !.status = "cancelled", !.lease = "none", !.ended = TRUE]
<1>2. r \in Runs /\ IRow(r) /\ row = [q \in Runs |-> row[q]]
  BY <1>1, BusyWorker
<1>3. CASE MaySettle(w)
  <2>1. row' = [row EXCEPT ![r] = new] /\ row'[r] = new
    BY <1>2, <1>3 DEF SettleCancel
  <2>2. new \in Row /\ new.attempt = row[r].attempt
    BY <1>2 DEF IRow, Row
  <2>3. IRow(r)'
    BY <1>1, <1>2, <1>3, <2>1, <2>2 DEF IRow, Row, MaySettle
  <2> QED
    BY <1>1, <1>2, <2>1, <2>2, <2>3, WritesAndLeaves
<1>4. CASE ~MaySettle(w)
  <2>1. UNCHANGED tables
    BY <1>1, <1>4 DEF SettleCancel, tables
  <2> QED
    BY <1>1, <2>1, WorkerLeaves
<1> QED
  BY <1>3, <1>4

LEMMA FailIInv == ASSUME IInv, NEW w \in Workers, Fail(w) PROVE IInv'
<1>1. Busy(w) /\ UNCHANGED <<ledger, arrived>> /\ Leave(w)
  BY DEF Fail, Busy
<1> PICK r \in Runs : r = worker[w].run
  BY <1>1, BusyWorker
<1>2. r \in Runs /\ IRow(r) /\ row = [q \in Runs |-> row[q]]
  BY <1>1, BusyWorker
<1>3. ASSUME Owns(w) PROVE IInv'
  <2> DEFINE new == Failed(r)
  <2>1. row' = [row EXCEPT ![r] = new] /\ row'[r] = new
    BY <1>2, <1>3 DEF Fail
  <2>2. row[r].status = "running" /\ row[r] \in Row /\ row[r].result = 0
        /\ row[r].attempt <= row[r].tries
        /\ row[r].attempt \in Nat /\ row[r].tries \in Nat
    BY <1>2, <1>3 DEF Owns, IRow, Row
  <2>3. CASE Exhausted(r)
    <3>1. new = [row[r] EXCEPT !.status = "dead", !.error = "handler", !.lease = "none",
                               !.ended = TRUE]
      BY <2>3 DEF Failed
    <3>2. /\ new \in Row /\ new.attempt = row[r].attempt /\ new.status = "dead"
          /\ new.lease = "none" /\ new.result = 0 /\ new.tries = row[r].tries
      BY <2>2, <3>1 DEF Row
    <3> HIDE DEF new
    <3>3. IRow(r)'
      BY <1>1, <2>1, <2>2, <2>3, <3>2 DEF IRow, Exhausted
    <3> QED
      BY <1>1, <1>2, <2>1, <3>2, <3>3, WritesAndLeaves
  <2>4. CASE ~Exhausted(r)
    <3>1. new = [row[r] EXCEPT !.status = "queued", !.error = "handler", !.lease = "none",
                               !.ended = FALSE]
      BY <2>4 DEF Failed
    <3>2. /\ new \in Row /\ new.attempt = row[r].attempt /\ new.status = "queued"
          /\ new.lease = "none" /\ new.result = 0 /\ new.tries = row[r].tries
      BY <2>2, <3>1 DEF Row
    <3> HIDE DEF new
    <3>3. IRow(r)'
      BY <1>1, <2>1, <2>2, <2>4, <3>2 DEF IRow, Exhausted
    <3> QED
      BY <1>1, <1>2, <2>1, <3>2, <3>3, WritesAndLeaves
  <2> QED
    BY <2>3, <2>4
<1>4. ASSUME ~Owns(w) PROVE IInv'
  <2>1. UNCHANGED tables
    BY <1>1, <1>4 DEF Fail, tables
  <2> QED
    BY <1>1, <2>1, WorkerLeaves
<1> QED
  BY <1>3, <1>4

-----------------------------------------------------------------------------
(* The heartbeat thread and the faults. *)

LEMMA HeartbeatIInv == ASSUME IInv, NEW w \in Workers, Heartbeat(w) PROVE IInv'
<1>1. Busy(w) /\ UNCHANGED <<ledger, arrived>>
  BY IInvParts DEF Heartbeat, IWorker
<1>2. /\ worker = [v \in Workers |-> worker[v]]
      /\ worker[w] \in Worker /\ worker[w].run \in Runs /\ IWorker(w)
      /\ IRow(worker[w].run) /\ row = [q \in Runs |-> row[q]] /\ arrived \in Nat
  BY <1>1, BusyWorker
<1>3. CASE worker[w].held /\ Owns(w)
  <2> DEFINE r == worker[w].run
             new == [row[r] EXCEPT !.lease = "live"]
  <2>1. row' = [row EXCEPT ![r] = new] /\ row'[r] = new /\ UNCHANGED worker
    BY <1>2, <1>3 DEF Heartbeat
  <2>2. /\ new \in Row /\ new.attempt = row[r].attempt /\ new.status = "running"
        /\ new.tries = row[r].tries /\ new.result = row[r].result /\ new.lease = "live"
        /\ row[r].status = "running"
    BY <1>2, <1>3 DEF IRow, Row, Owns
  <2> HIDE DEF new
  <2>3. IRow(r)'
    BY <1>1, <1>2, <2>1, <2>2 DEF IRow
  <2> QED
    BY <1>1, <1>2, <2>1, <2>2, <2>3, RowMoves
<1>4. CASE ~(worker[w].held /\ Owns(w))
  <2> DEFINE new == [worker[w] EXCEPT !.lost = TRUE, !.beating = FALSE]
  <2>1. worker' = [worker EXCEPT ![w] = new] /\ worker'[w] = new /\ UNCHANGED tables
    BY <1>1, <1>2, <1>4 DEF Heartbeat, Worker, tables
  <2>2. /\ new \in Worker /\ new.pc = worker[w].pc /\ new.run = worker[w].run
        /\ new.attempt = worker[w].attempt /\ new.step = worker[w].step
        /\ new.done = worker[w].done /\ new.beating = FALSE
    BY <1>2 DEF Worker
  <2> HIDE DEF new
  <2>3. IWorker(w)'
    BY <1>1, <1>2, <2>1, <2>2 DEF IWorker, Busy, tables
  <2> QED
    BY <1>1, <2>1, <2>2, <2>3, WorkerMoves
<1> QED
  BY <1>3, <1>4

LEMMA HeartbeatDiesIInv == ASSUME IInv, NEW w \in Workers, HeartbeatDies(w) PROVE IInv'
<1> DEFINE new == [worker[w] EXCEPT !.beating = FALSE]
<1>1. Busy(w) /\ UNCHANGED tables
  BY IInvParts DEF HeartbeatDies, IWorker
<1>2. /\ worker = [v \in Workers |-> worker[v]] /\ worker[w] \in Worker /\ IWorker(w)
  BY <1>1, BusyWorker
<1>3. worker' = [worker EXCEPT ![w] = new] /\ worker'[w] = new
  BY <1>2 DEF HeartbeatDies
<1>4. /\ new \in Worker /\ new.pc = worker[w].pc /\ new.run = worker[w].run
      /\ new.attempt = worker[w].attempt /\ new.step = worker[w].step
      /\ new.done = worker[w].done /\ new.beating = FALSE
  BY <1>2 DEF Worker
<1> HIDE DEF new
<1>5. IWorker(w)'
  BY <1>1, <1>2, <1>3, <1>4 DEF IWorker, Busy, tables
<1> QED
  BY <1>1, <1>3, <1>4, <1>5, WorkerMoves

LEMMA HandlerCallFailsIInv == ASSUME IInv, NEW w \in Workers, HandlerCallFails(w) PROVE IInv'
<1>1. Busy(w) /\ UNCHANGED <<row, arrived>> /\ Goto(w, "fail")
  BY DEF HandlerCallFails, Busy
<1>2. CASE UNCHANGED ledger
  BY <1>1, <1>2, GotoIInv DEF tables
<1>3. CASE worker[w].pc = "record" /\ WriteStep(w)
  <2> DEFINE new == [worker[w] EXCEPT !.pc = "fail"]
  <2>1. /\ worker = [v \in Workers |-> worker[v]] /\ worker[w] \in Worker
        /\ worker[w].run \in Runs /\ IWorker(w)
    BY <1>1, BusyWorker
  <2>2. worker[w].step < NumSteps
    BY <1>3, <2>1 DEF IWorker
  <2>3. \A r \in Runs, s \in Steps : ledger[r][s] # 0 => ledger'[r][s] = ledger[r][s]
    BY <1>1, <1>3, <2>2, WriteStepKeeps
  <2>4. worker' = [worker EXCEPT ![w] = new] /\ worker'[w] = new
    BY <1>1, <2>1 DEF Goto
  <2>5. /\ new \in Worker /\ new.pc = "fail" /\ new.run = worker[w].run
        /\ new.attempt = worker[w].attempt /\ new.step = worker[w].step
        /\ new.done = worker[w].done /\ new.beating = worker[w].beating
    BY <2>1 DEF Worker
  <2> HIDE DEF new
  <2>6. IWorker(w)'
    BY <1>1, <2>1, <2>3, <2>4, <2>5 DEF IWorker, Busy
  <2> QED
    BY <1>1, <1>3, <2>2, <2>4, <2>5, <2>6, StepWritten
<1> QED
  BY <1>2, <1>3 DEF HandlerCallFails

-----------------------------------------------------------------------------
(* Every step, and the theorems. *)

LEMMA NextIInv == ASSUME IInv, Next PROVE IInv'
<1>1. ASSUME NEW r \in Runs, Enqueue(r) \/ RequestCancel(r) \/ LeaseExpires(r)
      PROVE  IInv'
  BY <1>1, EnqueueIInv, RequestCancelIInv, LeaseExpiresIInv
<1>2. ASSUME Reap PROVE IInv'
  BY <1>2, ReapIInv
<1>3. ASSUME NEW w \in Workers, Work(w) PROVE IInv'
  BY <1>3, ClaimIInv, EnterStepIInv, LookupIInv, BodyIInv, RecordIInv, ReturnIInv,
     ConfirmIInv, FinishIInv, StoppedIInv, SettleCancelIInv, FailIInv DEF Work
<1>4. ASSUME NEW w \in Workers, Heartbeat(w) PROVE IInv'
  BY <1>4, HeartbeatIInv
<1>5. ASSUME NEW w \in Workers, Fault(w) PROVE IInv'
  <2>1. SettlingCallFails(w) \/ Crash(w) => Leave(w) /\ UNCHANGED tables
    BY DEF SettlingCallFails, Crash
  <2> QED
    BY <1>5, <2>1, WorkerLeaves, HeartbeatDiesIInv, HandlerCallFailsIInv DEF Fault
<1> QED
  BY <1>1, <1>2, <1>3, <1>4, <1>5 DEF Next

LEMMA StutterIInv == IInv /\ UNCHANGED vars => IInv'
  BY DEF vars, IInv, TypeOK, AbsentRows, TokensIssued, OneHolder, RetryBudget,
     ResultIsFenced, RunningHasLease, HandlerProgress, CheckpointsAgree,
     CheckpointsComplete, Busy

(* The inductive invariant holds of every reachable state. *)
THEOREM Invariance == Spec => []IInv
<1>1. IInv /\ [Next]_vars => IInv'
  BY NextIInv, StutterIInv
<1> QED
  BY InitIInv, <1>1, PTL DEF Spec

(* Every variable keeps its type; no row gets a status that the CHECK      *)
(* constraint of the table refuses.                                        *)
THEOREM TypeCorrect == Spec => []TypeOK
<1>1. IInv => TypeOK
  BY DEF IInv
<1> QED
  BY Invariance, <1>1, PTL

(* Two workers never hold the same run under the same fencing token. *)
THEOREM TokensAreUnique == Spec => []OneHolder
<1>1. IInv => OneHolder
  BY DEF IInv
<1> QED
  BY Invariance, <1>1, PTL

(* The result of a succeeded run is that of its last attempt, and a run    *)
(* that did not succeed has none: fencing keeps zombies' results out.      *)
THEOREM Fencing == Spec => []ResultIsFenced
<1>1. IInv => ResultIsFenced
  BY DEF IInv
<1> QED
  BY Invariance, <1>1, PTL

(* max_tries bounds the claims of a run, and only an exhausted run dies. *)
THEOREM BudgetRespected == Spec => []RetryBudget
<1>1. IInv => RetryBudget
  BY DEF IInv
<1> QED
  BY Invariance, <1>1, PTL

(* A succeeded run has every step in run_steps. *)
THEOREM NoStepIsMissing == Spec => []CheckpointsComplete
<1>1. IInv => CheckpointsComplete
  BY DEF IInv
<1> QED
  BY Invariance, <1>1, PTL

(* What an attempt skipped as done is what run_steps holds. *)
THEOREM SkipsAreReal == Spec => []CheckpointsAgree
<1>1. IInv => CheckpointsAgree
  BY DEF IInv
<1> QED
  BY Invariance, <1>1, PTL

(* A running row carries a lease, so that the reaper finds it. *)
THEOREM LeaseIsThere == Spec => []RunningHasLease
<1>1. IInv => RunningHasLease
  BY DEF IInv
<1> QED
  BY Invariance, <1>1, PTL

(* What a step can do to a running row that has a live lease. *)
LEMMA LiveRowMoves ==
  ASSUME IInv, [Next]_vars, NEW r \in Runs,
         row[r].status = "running", row[r].lease = "live",
         row'[r].status \in {"queued", "dead", "succeeded"}
  PROVE  \E w \in Workers : /\ Busy(w) /\ worker'[w] = Idle
                            /\ worker[w].run = r
                            /\ worker[w].attempt = row[r].attempt
<1>1. /\ row = [q \in Runs |-> row[q]] /\ worker = [w \in Workers |-> worker[w]]
      /\ \A q \in Runs : row[q] \in Row
  BY IInvParts DEF IRow
<1>2. row'[r].status # row[r].status /\ row' # row
  OBVIOUS
<1>3. ASSUME NEW q \in Runs, Enqueue(q) PROVE FALSE
  <2>1. q # r /\ row'[r] = row[r]
    BY <1>1, <1>3 DEF Enqueue
  <2> QED BY <1>2, <2>1
<1>4. ASSUME NEW q \in Runs, RequestCancel(q) \/ LeaseExpires(q) PROVE FALSE
  <2>1. row'[r].status \in {row[r].status, "cancelled", "cancelling"}
    BY <1>1, <1>4 DEF RequestCancel, LeaseExpires, Row
  <2> QED BY <1>2, <2>1
<1>5. ASSUME Reap PROVE FALSE
  <2>1. ~Overdue(r)
    BY DEF Overdue
  <2>2. row'[r] = row[r]
    BY <1>5, <2>1 DEF Reap
  <2> QED BY <1>2, <2>2
<1>6. ASSUME NEW w \in Workers, Claim(w) PROVE FALSE
  <2>1. PICK q \in Runs : Oldest(q) /\ row' = [row EXCEPT ![q] = Claimed(q)]
    BY <1>6 DEF Claim
  <2>2. q # r
    BY <2>1 DEF Oldest, WithStatus
  <2> QED BY <1>1, <1>2, <2>1, <2>2
<1>7. ASSUME NEW w \in Workers, SettleCancel(w) PROVE FALSE
  <2>1. MaySettle(w) => worker[w].run # r
    BY DEF MaySettle
  <2> QED BY <1>1, <1>2, <1>7, <2>1 DEF SettleCancel
<1>8. ASSUME NEW w \in Workers, Heartbeat(w) PROVE FALSE
  <2>1. row'[r].status = row[r].status
    BY <1>1, <1>8 DEF Heartbeat, Row
  <2> QED BY <1>2, <2>1
<1>9. ASSUME NEW w \in Workers, Finish(w) \/ Fail(w)
      PROVE  /\ Busy(w) /\ worker'[w] = Idle
             /\ worker[w].run = r /\ worker[w].attempt = row[r].attempt
  <2>1. Owns(w) /\ Busy(w) /\ Leave(w)
    BY <1>2, <1>9 DEF Finish, Fail, Busy
  <2>2. row' = [row EXCEPT ![worker[w].run] = Finished(worker[w].run, worker[w].attempt)]
        \/ row' = [row EXCEPT ![worker[w].run] = Failed(worker[w].run)]
    BY <1>9, <2>1 DEF Finish, Fail
  <2>3. worker[w].run = r
    BY <1>1, <1>2, <2>2
  <2> QED BY <1>1, <2>1, <2>3 DEF Leave, Owns
<1>10. ASSUME NEW w \in Workers,
              \/ EnterStep(w) \/ Lookup(w) \/ Body(w) \/ Record(w) \/ Return(w)
              \/ Confirm(w) \/ Stopped(w) \/ Fault(w)
       PROVE FALSE
  BY <1>2, <1>10 DEF EnterStep, Lookup, Body, Record, Return, Confirm, Stopped, Fault,
     HeartbeatDies, HandlerCallFails, SettlingCallFails, Crash, tables
<1>11. ASSUME UNCHANGED vars PROVE FALSE
  BY <1>2, <1>11 DEF vars
<1>12. PICK w \in Workers : Finish(w) \/ Fail(w)
  BY <1>3, <1>4, <1>5, <1>6, <1>7, <1>8, <1>10, <1>11 DEF Next, Work
<1> QED BY <1>9, <1>12

(* While a lease is live nobody but the holder of the current token takes  *)
(* the run back or ends it: neither the reaper nor a zombie.               *)
THEOREM LeaseIsRespected == Spec => LiveLeaseIsRespected
<1>1. IInv /\ [Next]_vars =>
        [\A r \in Runs :
            /\ row[r].status = "running"
            /\ row[r].lease = "live"
            /\ row'[r].status \in {"queued", "dead", "succeeded"}
            => \E w \in Workers : /\ Busy(w) /\ worker'[w] = Idle
                                  /\ worker[w].run = r
                                  /\ worker[w].attempt = row[r].attempt]_vars
  BY LiveRowMoves
<1> QED
  BY <1>1, Invariance, PTL DEF Spec, LiveLeaseIsRespected
==============================================================================
