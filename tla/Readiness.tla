----------------------------- MODULE Readiness -----------------------------
(***************************************************************************)
(* GET /ready (api/server.py).  One pool of threads serves every request   *)
(* and every level of a check: a thread that looks after a database waits  *)
(* for another thread of the pool that probes it, which waits for a third  *)
(* that runs SELECT 1.  Every wait has a deadline, and what the probe said *)
(* is kept for some time.  Time is counted in ticks; what threads compute  *)
(* by themselves takes none.                                               *)
(***************************************************************************)
EXTENDS Integers, Sequences, FiniteSets

CONSTANTS
    Probers,      \* those who ask for /ready
    Order,        \* the services, in the order in which a request waits for them
    Databases,    \* those that are probed by SELECT 1
    Warnings,     \* those that are only warned of
    PoolSize,     \* max_workers of _READY_POOL
    SelectWait,   \* the wait of a probe for its SELECT
    ProbeWait,    \* the waits for the probes, by service
    Grace,        \* what the request waits longer than that for a database
    CacheFor,     \* _READY_CACHE_TTL_SECONDS
    HardBudget,   \* the time in which /ready is to answer
    MayFail       \* the services that fail in an instance

Services == {Order[i] : i \in DOMAIN Order}

ASSUME ReadinessAssumption ==
    /\ IsFiniteSet(Databases) /\ Databases # {}
    /\ Order \in Seq(STRING) /\ Order # <<>> /\ Warnings \subseteq Services \ Databases
    /\ \A i, j \in DOMAIN Order : Order[i] = Order[j] => i = j
    /\ Databases = {Order[i] : i \in 1 .. Cardinality(Databases)}
    /\ Cardinality(Databases) <= Len(Order)
    /\ PoolSize \in Nat \ {0}
    /\ SelectWait \in Nat \ {0} /\ Grace \in Nat /\ CacheFor \in Nat /\ HardBudget \in Nat
    /\ ProbeWait \in [Services -> Nat \ {0}]
    /\ MayFail \subseteq Services

VARIABLES
    healthy,      \* the services that answer
    readyCache,   \* _READY_CACHE: what a probe said, and how long ago it was begun
    task,         \* the work submitted for a request, by service and level
    line,         \* what waits for a thread of the pool
    prober,       \* each request: the service it waits for, how long it may, what it heard;
                  \* who has answered and what has gone wrong since the time of the cache before it
    sinceGood,    \* ticks since each service answered
    sinceTrouble  \* ticks since a service was down or work waited for a thread
                  \* (both are counted up to the time of the cache)

readyVars == <<healthy, readyCache, task, line, prober, sinceGood, sinceTrouble>>

Levels == {"full", "probe", "select"}

Count == Len(Order)

(* The wait of a request: its grace is for the two threads that a check takes before it asks. *)
WaitFor(s) == IF s \in Databases THEN ProbeWait[s] + Grace ELSE ProbeWait[s]

(* The waits for the services that come after the i-th. *)
WaitsAfter[i \in 0 .. Count] == IF i = Count THEN 0 ELSE WaitFor(Order[i + 1]) + WaitsAfter[i + 1]

Longest == WaitsAfter[0]

LongAgo == CacheFor + 1

NoRequest == [step |-> 0, left |-> 0, took |-> 0, ok |-> {}, recent |-> {}, trouble |-> FALSE]

NoEntry == [ok |-> FALSE, age |-> CacheFor]

NoTask == [pc |-> "none", left |-> 0, ok |-> FALSE]

ReadyInit ==
    /\ healthy = Services
    /\ readyCache = [s \in Databases |-> NoEntry]
    /\ task = [p \in Probers |-> [s \in Services |-> [l \in Levels |-> NoTask]]]
    /\ line = <<>>
    /\ prober = [p \in Probers |-> NoRequest]
    /\ sinceGood = [s \in Databases |-> LongAgo]
    /\ sinceTrouble = LongAgo

TaskAt(p, s, l, pc) == task[p][s][l].pc = pc

HoldsThread(p, s, l) == task[p][s][l].pc \in {"runs", "waits"}

BusyThreads == {t \in Probers \X Services \X Levels : HoldsThread(t[1], t[2], t[3])}

IsQueued(t) == \E i \in DOMAIN line : line[i] = t

(* Is somebody still waiting for the result? *)
Wanted(p, s, l) ==
    CASE l = "full" -> \E i \in DOMAIN Order : prober[p].step \in 1 .. i /\ Order[i] = s
      [] l = "probe" /\ s \in Databases -> TaskAt(p, s, "full", "waits")
      [] l = "probe" /\ s \notin Databases -> prober[p].step \in 1 .. Count /\ Order[prober[p].step] = s
      [] l = "select" -> TaskAt(p, s, "probe", "waits")

Queued == [NoTask EXCEPT !.pc = "queued"]

Waits(time) == [NoTask EXCEPT !.pc = "waits", !.left = time]

(* Work waits only once. *)
Without(t) ==
    LET i == CHOOSE i \in DOMAIN line : line[i] = t
    IN  IF IsQueued(t) THEN SubSeq(line, 1, i - 1) \o SubSeq(line, i + 1, Len(line)) ELSE line

(* What cancel does to work that nobody waits for any longer: a thread that has begun *)
(* goes on with it.                                                                   *)
Cancelled(p, s, l) == IF TaskAt(p, s, l, "queued") \/ TaskAt(p, s, l, "returned") THEN NoTask ELSE task[p][s][l]

(* A task ends with a result, if somebody takes it. *)
Ended(p, s, l, ok) ==
    IF Wanted(p, s, l) THEN [NoTask EXCEPT !.pc = "returned", !.ok = ok] ELSE NoTask

-----------------------------------------------------------------------------
Troubled == healthy # Services \/ (line # <<>> /\ Cardinality(BusyThreads) = PoolSize)

(* What the requests under way note. *)
SeesAnswer(s) ==
    [p \in Probers |->
        IF prober[p].step \in 1 .. Count THEN [prober[p] EXCEPT !.recent = @ \cup {s}] ELSE prober[p]]

(* ready: both databases are checked at once. *)
AskReady(p) ==
    /\ prober[p].step = 0
    /\ \A s \in Services, l \in Levels : task[p][s][l] = NoTask
    /\ task' = [task EXCEPT ![p] = [s \in Services |->
                    IF s \in Databases THEN [@[s] EXCEPT !["full"] = Queued] ELSE @[s]]]
    /\ line' = line \o [i \in 1 .. Cardinality(Databases) |-> <<p, Order[i], "full">>]
    /\ prober' = [prober EXCEPT ![p] =
                    [step |-> 1, left |-> WaitFor(Order[1]), took |-> 0, ok |-> {},
                     recent |-> {s \in Databases : sinceGood[s] < LongAgo},
                     trouble |-> Troubled \/ sinceTrouble < LongAgo]]
    /\ UNCHANGED <<healthy, readyCache, sinceGood, sinceTrouble>>

Assigned ==
    /\ line # <<>>
    /\ Cardinality(BusyThreads) < PoolSize
    /\ LET t == Head(line) IN task' = [task EXCEPT ![t[1]][t[2]][t[3]].pc = "runs"]
    /\ line' = Tail(line)
    /\ UNCHANGED <<healthy, readyCache, prober, sinceGood, sinceTrouble>>

(* _ready_cached_probe *)
Fresh(s) == readyCache[s].age < CacheFor

LookInCache(p, s) ==
    /\ TaskAt(p, s, "full", "runs")
    /\ IF Fresh(s)
       THEN /\ task' = [task EXCEPT ![p][s]["full"] = Ended(p, s, "full", readyCache[s].ok)]
            /\ UNCHANGED line
       ELSE /\ task' = [task EXCEPT ![p][s]["full"] = Waits(ProbeWait[s]), ![p][s]["probe"] = Queued]
            /\ line' = Append(line, <<p, s, "probe">>)
    /\ UNCHANGED <<healthy, readyCache, prober, sinceGood, sinceTrouble>>

(* A probe that does not end in time has failed.  The time stored is that before the probe. *)
KeepVerdict(p, s) ==
    LET full == task[p][s]["full"]
        probe == task[p][s]["probe"]
        late == probe.pc # "returned"
        ok == ~late /\ probe.ok
    IN  /\ full.pc = "waits"
        /\ late => full.left = 0
        /\ readyCache' = [readyCache EXCEPT ![s] = [ok |-> ok, age |-> ProbeWait[s] - full.left]]
        /\ task' = [task EXCEPT ![p][s]["full"] = Ended(p, s, "full", ok),
                                ![p][s]["probe"] = Cancelled(p, s, "probe")]
        /\ line' = Without(<<p, s, "probe">>)
        /\ UNCHANGED <<healthy, prober, sinceGood, sinceTrouble>>

(* _check_checkpoint_pg, _check_billing_pg: no service or no pool, or SELECT 1. *)
RunSelect(p, s) ==
    /\ s \in Databases /\ TaskAt(p, s, "probe", "runs")
    /\ \/ /\ s \notin healthy
          /\ task' = [task EXCEPT ![p][s]["probe"] = Ended(p, s, "probe", FALSE)]
          /\ UNCHANGED line
       \/ /\ task' = [task EXCEPT ![p][s]["probe"] = Waits(SelectWait), ![p][s]["select"] = Queued]
          /\ line' = Append(line, <<p, s, "select">>)
    /\ UNCHANGED <<healthy, readyCache, prober, sinceGood, sinceTrouble>>

SelectIsLate(p, s) == task[p][s]["probe"].left = 0

SelectReturns(p, s) ==
    LET select == task[p][s]["select"]
        late == select.pc # "returned"
    IN  /\ s \in Databases /\ TaskAt(p, s, "probe", "waits")
        /\ late => SelectIsLate(p, s)
        /\ task' = [task EXCEPT ![p][s]["probe"] = Ended(p, s, "probe", ~late /\ select.ok),
                                ![p][s]["select"] = Cancelled(p, s, "select")]
        /\ line' = Without(<<p, s, "select">>)
        /\ UNCHANGED <<healthy, readyCache, prober, sinceGood, sinceTrouble>>

(* _checkpoint_pg_select, _do_billing_select, _check_redis, _check_cohere: a service that *)
(* is down fails sooner or later.                                                         *)
Asks(s) == IF s \in Databases THEN "select" ELSE "probe"

Answers(p, s) ==
    /\ TaskAt(p, s, Asks(s), "runs")
    /\ s \in healthy
    /\ task' = [task EXCEPT ![p][s][Asks(s)] = Ended(p, s, Asks(s), TRUE)]
    /\ IF s \in Databases
       THEN sinceGood' = [sinceGood EXCEPT ![s] = 0] /\ prober' = SeesAnswer(s)
       ELSE UNCHANGED <<sinceGood, prober>>
    /\ UNCHANGED <<healthy, readyCache, line, sinceTrouble>>

Fails(p, s) ==
    /\ TaskAt(p, s, Asks(s), "runs")
    /\ s \notin healthy
    /\ task' = [task EXCEPT ![p][s][Asks(s)] = Ended(p, s, Asks(s), FALSE)]
    /\ UNCHANGED <<healthy, readyCache, line, prober, sinceGood, sinceTrouble>>

(* The request goes on to the next service: the check of a database is under way already. *)
Level(s) == IF s \in Databases THEN "full" ELSE "probe"

GoOn(p) ==
    LET i == prober[p].step
        s == Order[i]
        told == task[p][s][Level(s)]
        late == told.pc # "returned"
        next == IF i < Count THEN {Order[i + 1]} ELSE {}
        pinged == next \ Databases
    IN  /\ i \in 1 .. Count
        /\ late => prober[p].left = 0
        /\ prober' = [prober EXCEPT ![p].step = i + 1,
                                    ![p].left = IF next = {} THEN 0 ELSE WaitFor(Order[i + 1]),
                                    ![p].ok = IF ~late /\ told.ok THEN @ \cup {s} ELSE @]
        /\ task' = [task EXCEPT ![p] = [u \in Services |-> [l \in Levels |->
                        IF u = s /\ l = Level(s) THEN Cancelled(p, s, l)
                        ELSE IF u \in pinged /\ l = "probe" THEN Queued
                        ELSE task[p][u][l]]]]
        /\ line' = Without(<<p, s, Level(s)>>) \o
                    (IF pinged = {} THEN <<>> ELSE <<<<p, Order[i + 1], "probe">>>>)
        /\ UNCHANGED <<healthy, readyCache, sinceGood, sinceTrouble>>

Answered(p) == prober[p].step = Count + 1

(* Redis is only a warning. *)
SaysOk(p) == Services \ Warnings \subseteq prober[p].ok

-----------------------------------------------------------------------------
(* What happens before time goes on. *)
TaskStep(p) ==
    \E s \in Services :
        \/ s \in Databases /\ (LookInCache(p, s) \/ KeepVerdict(p, s))
        \/ RunSelect(p, s) \/ SelectReturns(p, s)
        \/ Answers(p, s)

ReadyStep == Assigned \/ \E p \in Probers : TaskStep(p) \/ GoOn(p)

Due(p) ==
    \/ prober[p].step \in 1 .. Count /\
         LET s == Order[prober[p].step] IN prober[p].left = 0 \/ TaskAt(p, s, Level(s), "returned")
    \/ \E s \in Databases :
         \/ TaskAt(p, s, "full", "runs") \/ TaskAt(p, s, "probe", "runs")
         \/ TaskAt(p, s, "full", "waits") /\ (task[p][s]["full"].left = 0 \/ TaskAt(p, s, "probe", "returned"))
         \/ TaskAt(p, s, "probe", "waits") /\ (SelectIsLate(p, s) \/ TaskAt(p, s, "select", "returned"))
    \/ \E s \in healthy : TaskAt(p, s, Asks(s), "runs")

NothingIsDue ==
    /\ line # <<>> => Cardinality(BusyThreads) = PoolSize
    /\ \A p \in Probers : ~Due(p)

Grown(n, most) == IF n < most THEN n + 1 ELSE most

Less(n) == IF n > 0 THEN n - 1 ELSE 0

(* Services go down and come back from tick to tick. *)
Elapse ==
    /\ NothingIsDue
    /\ \E down \in SUBSET MayFail : healthy' = Services \ down
    /\ readyCache' = [s \in Databases |-> [readyCache[s] EXCEPT !.age = Grown(@, CacheFor)]]
    /\ task' = [p \in Probers |-> [s \in Services |-> [l \in Levels |-> [task[p][s][l] EXCEPT !.left = Less(@)]]]]
    /\ prober' = [p \in Probers |->
                    IF prober[p].step \notin 1 .. Count THEN NoRequest
                    ELSE [prober[p] EXCEPT !.left = Less(@), !.took = Grown(@, Longest + 1),
                                           !.trouble = @ \/ Troubled \/ healthy' # Services]]
    /\ sinceGood' = [s \in Databases |-> Grown(sinceGood[s], LongAgo)]
    /\ sinceTrouble' = IF Troubled \/ healthy' # Services THEN 0 ELSE Grown(sinceTrouble, LongAgo)
    /\ UNCHANGED line

ReadyNext ==
    \/ \E p \in Probers : AskReady(p)
    \/ ReadyStep
    \/ \E p \in Probers, s \in Services : Fails(p, s)
    \/ Elapse

(* The pool and the server run their threads; time passes. *)
ReadyFairness ==
    /\ WF_readyVars(Assigned) /\ WF_readyVars(Elapse)
    /\ \A p \in Probers : WF_readyVars(TaskStep(p)) /\ WF_readyVars(GoOn(p))

-----------------------------------------------------------------------------
ReadyType ==
    /\ healthy \subseteq Services
    /\ \A s \in Databases : readyCache[s].ok \in BOOLEAN /\ readyCache[s].age \in Nat
    /\ \A p \in Probers : prober[p].step \in 0 .. Count + 1 /\ prober[p].left \in Nat /\ prober[p].ok \subseteq Services
    /\ \A t \in Probers \X Services \X Levels : IsQueued(t) <=> TaskAt(t[1], t[2], t[3], "queued")
    /\ Cardinality(BusyThreads) <= PoolSize

(* No false green: what says ok has been answered by each database, at the earliest the *)
(* time of the cache before the request.                                                *)
OkIsFresh == \A p \in Probers : Answered(p) /\ SaysOk(p) => Databases \subseteq prober[p].recent

(* A refusal has a cause: since the time of the cache before the request a service was *)
(* down, or the pool had more to do than threads.                                      *)
RefusalHasCause == \A p \in Probers : Answered(p) /\ ~SaysOk(p) => prober[p].trouble

(* The hard budget, while work need not wait for a thread; it is always answered in the *)
(* sum of the waits.                                                                    *)
AnswersInTime ==
    \A p \in Probers :
        /\ Answered(p) /\ prober[p].took > HardBudget => prober[p].trouble
        /\ prober[p].took <= Longest

(* ReadyInv: what the caller of /ready can rely on. *)
ReadyInv == ReadyType /\ OkIsFresh /\ RefusalHasCause /\ AnswersInTime

(* Whoever asks is answered, although every level waits for another thread of one pool. *)
EveryoneIsAnswered == \A p \in Probers : prober[p].step = 1 ~> Answered(p)
=============================================================================
