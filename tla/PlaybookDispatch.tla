-------------------------- MODULE PlaybookDispatch --------------------------
(***************************************************************************)
(* dispatch of scheduled/service.py: several schedulers, in one process or *)
(* in several, dispatch one playbook for one day, under one idempotency    *)
(* key.  A memo and a lock of each process, and a lock in Redis that       *)
(* expires after 60 seconds, are to let one of them execute it.            *)
(***************************************************************************)
EXTENDS Integers, Sequences, FiniteSets

CONSTANTS
    Schedulers,    \* calls of dispatch
    Sites,         \* processes
    SiteOf,        \* the process of a call
    MaxReleases,   \* bound: expiries of the Redis lock
    MaxRestarts    \* bound: crashes

ASSUME SiteOfAssumption == SiteOf \in [Schedulers -> Sites]
ASSUME SchedulersAssumption == Schedulers # {}
ASSUME BoundsAssumption == MaxReleases \in Nat /\ MaxRestarts \in Nat

VARIABLES
    redis,         \* "none": not configured; "sound": answers; "flaky": may fail or lose an answer
    redisLock,     \* the key sched:lock:... is set
    localLock,     \* _DISPATCH_LOCAL_LOCKS of each process
    memo,          \* _DISPATCH_SEEN_KEYS of each process: the executions it knows (at most one)
    dispatch,      \* the calls of dispatch
    executed,      \* history: the executions, with the life of the process
    life,          \* history: the lives of each process
    lapses         \* history: expiries of the Redis lock

dispatchVars == <<redis, redisLock, localLock, memo, dispatch, executed, life, lapses>>

Backends == {"redis", "local"}

NotCalled == [pc |-> "new", backend |-> "local", acquired |-> FALSE, told |-> {}]

DispatchInit ==
    /\ redis \in {"none", "sound", "flaky"}
    /\ redisLock = FALSE
    /\ localLock = [h \in Sites |-> FALSE]
    /\ memo = [h \in Sites |-> {}]
    /\ dispatch = [c \in Schedulers |-> NotCalled]
    /\ executed = <<>>
    /\ life = [h \in Sites |-> 1]
    /\ lapses = 0

CallAt(c, pc) == dispatch[c].pc = pc

Executions == DOMAIN executed

-----------------------------------------------------------------------------
(* The first look at the memo. *)
Dispatch(c) ==
    /\ CallAt(c, "new")
    /\ dispatch' = [dispatch EXCEPT ![c] = IF memo[SiteOf[c]] = {}
                                   THEN [@ EXCEPT !.pc = "acquire"]
                                   ELSE [@ EXCEPT !.pc = "duplicate", !.told = memo[SiteOf[c]]]]
    /\ UNCHANGED <<redis, redisLock, localLock, memo, executed, life, lapses>>

Got(c, backend, acquired) ==
    dispatch' = [dispatch EXCEPT ![c].pc = "recheck", ![c].backend = backend, ![c].acquired = acquired]

(* SET NX PX. *)
SetInRedis(c) ==
    /\ CallAt(c, "acquire") /\ redis # "none"
    /\ Got(c, "redis", ~redisLock)
    /\ redisLock' = TRUE
    /\ UNCHANGED <<redis, localLock, memo, executed, life, lapses>>

(* Any error makes the call fall back to its process; the key may have been set. *)
RedisFails(c) ==
    /\ CallAt(c, "acquire") /\ redis = "flaky"
    /\ redisLock' \in {redisLock, TRUE}
    /\ dispatch' = [dispatch EXCEPT ![c].pc = "local"]
    /\ UNCHANGED <<redis, localLock, memo, executed, life, lapses>>

(* threading.Lock, without blocking.  Both outcomes end the attempts: no retry is ever made. *)
TakeLocal(c) ==
    /\ dispatch[c].pc \in IF redis = "none" THEN {"local", "acquire"} ELSE {"local"}
    /\ Got(c, "local", ~localLock[SiteOf[c]])
    /\ localLock' = [localLock EXCEPT ![SiteOf[c]] = TRUE]
    /\ UNCHANGED <<redis, redisLock, memo, executed, life, lapses>>

(* _release_singleflight does not ask whether the call holds the lock, and leaves that of Redis. *)
Releases(c) ==
    localLock' = IF dispatch[c].backend = "local"
                 THEN [localLock EXCEPT ![SiteOf[c]] = FALSE]
                 ELSE localLock

(* The second look: who waited for the lock may have been overtaken. *)
Recheck(c) ==
    LET known == memo[SiteOf[c]]
    IN  /\ CallAt(c, "recheck")
        /\ \/ /\ known # {}
              /\ Releases(c)
              /\ dispatch' = [dispatch EXCEPT ![c].pc = "duplicate", ![c].told = known]
           \/ /\ known = {}
              /\ dispatch' = [dispatch EXCEPT ![c].pc = IF dispatch[c].acquired THEN "run" ELSE "duplicate"]
              /\ UNCHANGED localLock
        /\ UNCHANGED <<redis, redisLock, memo, executed, life, lapses>>

(* The playbook is handed over. *)
Enqueue(c) ==
    /\ CallAt(c, "run")
    /\ executed' = Append(executed, [site |-> SiteOf[c], life |-> life[SiteOf[c]]])
    /\ dispatch' = [dispatch EXCEPT ![c].pc = "memo", ![c].told = {Len(executed) + 1}]
    /\ UNCHANGED <<redis, redisLock, localLock, memo, life, lapses>>

Memorize(c) ==
    /\ CallAt(c, "memo")
    /\ memo' = [memo EXCEPT ![SiteOf[c]] = dispatch[c].told]
    /\ dispatch' = [dispatch EXCEPT ![c].pc = "release"]
    /\ UNCHANGED <<redis, redisLock, localLock, executed, life, lapses>>

Finally(c) ==
    /\ CallAt(c, "release")
    /\ Releases(c)
    /\ dispatch' = [dispatch EXCEPT ![c].pc = "executed"]
    /\ UNCHANGED <<redis, redisLock, memo, executed, life, lapses>>

-----------------------------------------------------------------------------
LockExpires ==
    /\ redisLock /\ lapses < MaxReleases
    /\ redisLock' = FALSE
    /\ lapses' = lapses + 1
    /\ UNCHANGED <<redis, localLock, memo, dispatch, executed, life>>

(* The memo and the locks of a process are its memory. *)
Restart(h) ==
    /\ life[h] <= MaxRestarts
    /\ life' = [life EXCEPT ![h] = @ + 1]
    /\ memo' = [memo EXCEPT ![h] = {}]
    /\ localLock' = [localLock EXCEPT ![h] = FALSE]
    /\ dispatch' = [c \in Schedulers |->
                  IF SiteOf[c] = h /\ dispatch[c].pc \notin {"new", "duplicate", "executed"}
                  THEN [dispatch[c] EXCEPT !.pc = "lost"] ELSE dispatch[c]]
    /\ UNCHANGED <<redis, redisLock, executed, lapses>>

DispatchNext ==
    \/ \E c \in Schedulers :
          \/ Dispatch(c) \/ SetInRedis(c) \/ RedisFails(c) \/ TakeLocal(c)
          \/ Recheck(c) \/ Enqueue(c) \/ Memorize(c) \/ Finally(c)
    \/ LockExpires
    \/ \E h \in Sites : Restart(h)

DispatchSpec == DispatchInit /\ [][DispatchNext]_dispatchVars

-----------------------------------------------------------------------------
InLife(h, l) == {e \in Executions : executed[e].site = h /\ executed[e].life = l}

(* Without Redis a process executes the playbook once in each of its lives, *)
(* although a call that finds the memo filled also releases a lock it does  *)
(* not hold.                                                                *)
OncePerLife ==
    redis = "none" => \A h \in Sites : \A l \in 1 .. life[h] : Cardinality(InLife(h, l)) <= 1

(* While Redis answers it is executed once, and once more for every expiry of the lock. *)
OncePerExpiry == redis = "sound" => Len(executed) <= 1 + lapses

(* When nobody crashed and every call has its answer, somebody has executed it. *)
SomebodyExecutes ==
    (\A c \in Schedulers : dispatch[c].pc \in {"duplicate", "executed"}) => executed # <<>>

(* An answer that names an execution names one of the same process. *)
ToldOfReal ==
    \A c \in Schedulers : \A e \in dispatch[c].told :
        e \in Executions /\ executed[e].site = SiteOf[c]

DispatchType ==
    /\ redis \in {"none", "sound", "flaky"} /\ redisLock \in BOOLEAN
    /\ localLock \in [Sites -> BOOLEAN] /\ memo \in [Sites -> SUBSET Executions]
    /\ dispatch \in [Schedulers -> [pc : {"new", "acquire", "local", "recheck", "run", "memo", "release",
                                       "duplicate", "executed", "lost"},
                                backend : Backends, acquired : BOOLEAN, told : SUBSET Executions]]
    /\ life \in [Sites -> 1 .. MaxRestarts + 1] /\ lapses \in 0 .. MaxReleases

(* dispatch (scheduled/service.py:463) executes a playbook of a day as often *)
(* as its locks promise, not more, and at least once; a duplicate is told of *)
(* an execution that was.                                                    *)
DispatchInv ==
    DispatchType /\ OncePerLife /\ OncePerExpiry /\ SomebodyExecutes /\ ToldOfReal
=============================================================================
