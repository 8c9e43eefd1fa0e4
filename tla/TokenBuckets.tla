---------------------------- MODULE TokenBuckets ----------------------------
(***************************************************************************)
(* DualBucketRateLimiter of telemetry/circuit.py: two token buckets, each  *)
(* with a mutex.  try_acquire holds both mutexes, the burst's first, and   *)
(* takes from both or from none; available_tokens and reset visit one      *)
(* bucket after the other.  Threads read a clock that only goes on.        *)
(***************************************************************************)
EXTENDS Integers

CONSTANTS
    Drawers,     \* the threads
    Capacity,    \* [Buckets -> tokens]
    PerTick,     \* [Buckets -> tokens refilled in a tick]
    Wanted,      \* how many tokens a call asks for
    MaxClock     \* bound

Buckets == {"burst", "sustained"}

ASSUME CapacityAssumption == Capacity \in [Buckets -> Nat \ {0}]
ASSUME PerTickAssumption == PerTick \in [Buckets -> Nat]
ASSUME WantedAssumption == Wanted \subseteq Nat

VARIABLES
    clock,       \* time.monotonic()
    tokens, last,   \* the fields of each bucket
    drawer,      \* where each thread is
    mark, drawn  \* history: an instant somebody chose, and what was drawn since

bucketVars == <<clock, tokens, last, drawer, mark, drawn>>

DrawerStates == {"idle", "acquire", "available", "reset"}

BucketsInit ==
    /\ clock = 0
    /\ tokens = Capacity
    /\ last = [b \in Buckets |-> 0]
    /\ drawer = [d \in Drawers |-> "idle"]
    /\ mark = 0
    /\ drawn = 0

(* self.burst._lock, the only mutex that is held while another is waited for. *)
BurstIsFree == \A d \in Drawers : drawer[d] # "acquire"

Least(m, n) == IF m <= n THEN m ELSE n

(* _refill *)
Refilled(b) ==
    IF clock > last[b]
    THEN Least(Capacity[b], tokens[b] + (clock - last[b]) * PerTick[b])
    ELSE tokens[b]

(* _last after a refill *)
SeenAt(b) == clock

(* with self.burst._lock *)
TakeBurstLock(d) ==
    /\ drawer[d] = "idle"
    /\ BurstIsFree
    /\ drawer' = [drawer EXCEPT ![d] = "acquire"]
    /\ UNCHANGED <<clock, tokens, last, mark, drawn>>

Enough(n) == \A b \in Buckets : Refilled(b) >= n

(* With both mutexes: refill both, then take from both or from none. *)
Acquire(d, n) ==
    /\ drawer[d] = "acquire"
    /\ last' = [b \in Buckets |-> SeenAt(b)]
    /\ \/ /\ Enough(n)
          /\ tokens' = [b \in Buckets |-> Refilled(b) - n]
          /\ drawn' = drawn + n
       \/ /\ ~Enough(n)
          /\ tokens' = [b \in Buckets |-> Refilled(b)]
          /\ UNCHANGED drawn
    /\ drawer' = [drawer EXCEPT ![d] = "idle"]
    /\ UNCHANGED <<clock, mark>>

(* available_tokens: the sustained bucket, *)
LookSustained(d) ==
    /\ drawer[d] = "idle"
    /\ tokens' = [tokens EXCEPT !["sustained"] = Refilled("sustained")]
    /\ last' = [last EXCEPT !["sustained"] = SeenAt("sustained")]
    /\ drawer' = [drawer EXCEPT ![d] = "available"]
    /\ UNCHANGED <<clock, mark, drawn>>

(* then the burst bucket. *)
LookBurst(d) ==
    /\ drawer[d] = "available"
    /\ BurstIsFree
    /\ tokens' = [tokens EXCEPT !["burst"] = Refilled("burst")]
    /\ last' = [last EXCEPT !["burst"] = SeenAt("burst")]
    /\ drawer' = [drawer EXCEPT ![d] = "idle"]
    /\ UNCHANGED <<clock, mark, drawn>>

(* reset: the sustained bucket is full again, *)
ResetSustained(d) ==
    /\ drawer[d] = "idle"
    /\ tokens' = [tokens EXCEPT !["sustained"] = Capacity["sustained"]]
    /\ last' = [last EXCEPT !["sustained"] = clock]
    /\ drawer' = [drawer EXCEPT ![d] = "reset"]
    /\ mark' = clock
    /\ drawn' = 0
    /\ UNCHANGED clock

(* then the burst bucket.  What was drawn before does not count any more. *)
ResetBurst(d) ==
    /\ drawer[d] = "reset"
    /\ BurstIsFree
    /\ tokens' = [tokens EXCEPT !["burst"] = Capacity["burst"]]
    /\ last' = [last EXCEPT !["burst"] = clock]
    /\ drawer' = [drawer EXCEPT ![d] = "idle"]
    /\ mark' = clock
    /\ drawn' = 0
    /\ UNCHANGED clock

ClockTicks ==
    /\ clock < MaxClock
    /\ clock' = clock + 1
    /\ UNCHANGED <<tokens, last, drawer, mark, drawn>>

(* The instant from which on admissions are counted; it stands for any. *)
Observe ==
    /\ mark' = clock
    /\ drawn' = 0
    /\ UNCHANGED <<clock, tokens, last, drawer>>

BucketsNext ==
    \/ \E d \in Drawers :
          \/ TakeBurstLock(d)
          \/ \E n \in Wanted : Acquire(d, n)
          \/ LookSustained(d) \/ LookBurst(d)
          \/ ResetSustained(d) \/ ResetBurst(d)
    \/ ClockTicks
    \/ Observe

BucketsSpec == BucketsInit /\ [][BucketsNext]_bucketVars

-----------------------------------------------------------------------------
(* Properties. *)

(* Types: no bucket holds less than nothing or more than its capacity, and no *)
(* refill is dated in the future.                                             *)
BucketsTypeOK ==
    /\ clock \in Nat
    /\ \A b \in Buckets : tokens[b] \in 0 .. Capacity[b] /\ last[b] \in 0 .. clock
    /\ tokens \in [Buckets -> Int] /\ last \in [Buckets -> Int]
    /\ drawer \in [Drawers -> DrawerStates]
    /\ mark \in 0 .. clock
    /\ drawn \in Nat

(* From any instant on, and from any reset on, what is let through is at most what *)
(* either bucket held plus what flowed into it since: the smaller of two bounds,  *)
(* for any interleaving with readings that refill one bucket alone.               *)
RateIsBounded ==
    \A b \in Buckets : drawn <= Capacity[b] + PerTick[b] * (clock - mark)

(* What the buckets keep: their types and the rate.                             *)
BucketsInv ==
    /\ BucketsTypeOK
    /\ RateIsBounded
=============================================================================
