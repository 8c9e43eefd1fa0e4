---------------------------- MODULE RedisLimiter ----------------------------
(***************************************************************************)
(* The sliding-window limiter of infra/redis.py, RateLimiter.try_acquire,  *)
(* and the RedisLock it falls back to.  With scripts the decision is one   *)
(* command.  Without them (eval fails) it is four, under a lock that       *)
(* expires and is released by GET and DELETE.  Either way the caller reads *)
(* the clock first, so that a slow caller decides with an old time.        *)
(***************************************************************************)
EXTENDS Integers, FiniteSets

CONSTANTS
    RateCallers,
    Limit,       \* max_requests
    SlidingWindow,      \* window_seconds
    LockTime,    \* timeout of the lock
    MaxNow       \* bound: the clock

ASSUME LimitsAssumption == Limit \in Nat \ {0} /\ SlidingWindow \in Nat \ {0} /\ LockTime \in Nat \ {0}

ASSUME MaxNowAssumption == MaxNow \in Nat

VARIABLES
    scripts,     \* does Redis run scripts?
    now,         \* the clock the callers share
    hits,        \* the sorted set: members with the time they carry
    lock,        \* whose token the key of the lock holds; "free": nobody's
    lockUntil,   \* when the lock expires
    caller,
    newest,      \* history: the latest time anybody decided with
    admitted,    \* history: what was let through, with its time, and whether it was late
    lockLost     \* history: has a lock expired under its holder?

limiterVars == <<scripts, now, hits, lock, lockUntil, caller, newest, admitted, lockLost>>

Free == "free"

(* The token of a lock is a uuid. *)
ASSUME TokenAssumption == Free \notin RateCallers

Away == [pc |-> "idle", stamp |-> 0]

LimiterInit ==
    /\ scripts \in BOOLEAN
    /\ now = 0
    /\ hits = {} /\ admitted = {}
    /\ lock = Free /\ lockUntil = 0
    /\ caller = [c \in RateCallers |-> Away]
    /\ newest = 0
    /\ lockLost = FALSE

CallerAt(c, pc) == caller[c].pc = pc

Goes(c, pc) == caller' = [caller EXCEPT ![c].pc = pc]

(* ZREMRANGEBYSCORE key 0 now - window *)
Recent(t) == {h \in hits : h.at > t - SlidingWindow}

(* Members are unique: a uuid. *)
Hit(t) == [no |-> Cardinality(admitted), at |-> t]

Admit(h) == admitted' = admitted \cup {[no |-> h.no, at |-> h.at, late |-> h.at < newest]}

Decides(t) == newest' = IF t > newest THEN t ELSE newest

(* time.time(), before the script is sent or the lock is waited for. *)
Begin(c) ==
    /\ CallerAt(c, "idle")
    /\ caller' = [caller EXCEPT ![c] = [pc |-> IF scripts THEN "script" ELSE "lock", stamp |-> now]]
    /\ UNCHANGED <<scripts, now, hits, lock, lockUntil, newest, admitted, lockLost>>

(* Is there room beside these? *)
Room(kept) == Cardinality(kept) < Limit

(* _RATELIMIT_LUA *)
AcquireByScript(c) ==
    LET t == caller[c].stamp
        kept == Recent(t)
    IN  /\ CallerAt(c, "script")
        /\ IF Room(kept)
           THEN hits' = kept \cup {Hit(t)} /\ Admit(Hit(t))
           ELSE hits' = kept /\ UNCHANGED admitted
        /\ Decides(t)
        /\ caller' = [caller EXCEPT ![c] = Away]
        /\ UNCHANGED <<scripts, now, lock, lockUntil, lockLost>>

(* A bug: SET without nx. *)
TakeLockOver(c) ==
    /\ CallerAt(c, "lock")
    /\ lock' = c
    /\ lockUntil' = now + LockTime
    /\ Goes(c, "count")
    /\ UNCHANGED <<scripts, now, hits, newest, admitted, lockLost>>

(* SET nx ex *)
TakeLock(c) ==
    /\ CallerAt(c, "lock")
    /\ lock = Free
    /\ lock' = c
    /\ lockUntil' = now + LockTime
    /\ Goes(c, "count")
    /\ UNCHANGED <<scripts, now, hits, newest, admitted, lockLost>>

(* Not free after all retries: TimeoutError, the request is rejected. *)
GiveUp(c) ==
    /\ CallerAt(c, "lock")
    /\ lock # Free
    /\ caller' = [caller EXCEPT ![c] = Away]
    /\ UNCHANGED <<scripts, now, hits, lock, lockUntil, newest, admitted, lockLost>>

Count(c) ==
    LET kept == Recent(caller[c].stamp)
    IN  /\ CallerAt(c, "count")
        /\ hits' = kept
        /\ Goes(c, IF Room(kept) THEN "add" ELSE "release")
        /\ Decides(caller[c].stamp)
        /\ UNCHANGED <<scripts, now, lock, lockUntil, admitted, lockLost>>

Add(c) ==
    LET h == Hit(caller[c].stamp)
    IN  /\ CallerAt(c, "add")
        /\ hits' = hits \cup {h}
        /\ Admit(h)
        /\ Goes(c, "release")
        /\ UNCHANGED <<scripts, now, lock, lockUntil, newest, lockLost>>

(* GET: is the token the own one? *)
LookAtLock(c) ==
    /\ CallerAt(c, "release")
    /\ IF lock = c
       THEN Goes(c, "delete")
       ELSE caller' = [caller EXCEPT ![c] = Away]
    /\ UNCHANGED <<scripts, now, hits, lock, lockUntil, newest, admitted, lockLost>>

DeleteLock(c) ==
    /\ CallerAt(c, "delete")
    /\ lock' = Free
    /\ caller' = [caller EXCEPT ![c] = Away]
    /\ UNCHANGED <<scripts, now, hits, lockUntil, newest, admitted, lockLost>>

Second ==
    /\ now < MaxNow
    /\ now' = now + 1
    /\ IF lock # Free /\ lockUntil <= now'
       THEN lock' = Free /\ lockLost' = TRUE
       ELSE UNCHANGED <<lock, lockLost>>
    /\ UNCHANGED <<scripts, hits, lockUntil, caller, newest, admitted>>

LimiterNext ==
    \/ Second
    \/ \E c \in RateCallers :
          \/ AcquireByScript(c) \/ Begin(c) \/ TakeLock(c) \/ GiveUp(c)
          \/ Count(c) \/ Add(c) \/ LookAtLock(c) \/ DeleteLock(c)

LimiterSpec == LimiterInit /\ [][LimiterNext]_limiterVars

-----------------------------------------------------------------------------
(* Properties. *)

(* No window holds more admissions than the limit, those of late callers left   *)
(* aside: with scripts at all times, without them as long as no lock expired     *)
(* under its holder.  A late caller, one that decides after somebody with a      *)
(* later time, no longer sees what that one has removed, and comes on top.       *)
WindowLimit ==
    scripts \/ ~lockLost =>
        \A t \in 0 .. MaxNow :
            Cardinality({h \in admitted : ~h.late /\ t - SlidingWindow < h.at /\ h.at <= t}) <= Limit

(* Without scripts, two callers decide at the same time only after a lock expired, *)
(* and so does a caller that releases the lock of another one.                     *)
OneDecides ==
    ~lockLost => Cardinality({c \in RateCallers : caller[c].pc \in {"count", "add", "delete"}}) <= 1

(* What the window limiter keeps: no window above the limit, and one caller at  *)
(* a time that decides without scripts.                                         *)
LimiterInv ==
    /\ WindowLimit
    /\ OneDecides
=============================================================================
