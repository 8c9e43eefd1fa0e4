---------------------------- MODULE BundleCache ----------------------------
(***************************************************************************)
(* _get_backtest_bundle (api/server.py): the bundle of the research page,  *)
(* which four routes read one part of each.  A process keeps it in memory, *)
(* under a lock of its threads; all share one copy in Redis; whoever finds *)
(* neither computes, beside others who do, with or without the lock in     *)
(* Redis.                                                                  *)
(***************************************************************************)
EXTENDS Naturals

CONSTANTS
    WebServers,     \* processes
    Visitors,       \* threads that answer requests
    Nothing,
    MaxVisits,      \* bound: requests
    MaxTroubles     \* bound: keys of Redis that expire, calls that fail, restarts of processes

ASSUME NothingAssumption == Nothing \notin Nat /\ Nothing \notin Visitors

VARIABLES
    held,       \* _backtest_cache of each process
    shared,     \* the bundle in Redis
    herdLock,   \* who has the lock in Redis
    visitor,    \* where a thread is
    served,     \* all that have been in a memory
    mishaps     \* how often what went wrong, and counters of requests and of bundles

bundleVars == <<held, shared, herdLock, visitor, served, mishaps>>

-----------------------------------------------------------------------------
(* Bundles are numbered as they are computed.  One of an earlier version, without the *)
(* fingerprints of this one, is never read.                                            *)
Old == 0

NotThere == [pc |-> "away", at |-> Nothing, bundle |-> Nothing, locked |-> FALSE, afresh |-> TRUE]

BundleInit ==
    /\ held = [s \in WebServers |-> Nothing]
    /\ shared \in {Nothing, Old}
    /\ herdLock = Nothing
    /\ visitor = [v \in Visitors |-> NotThere]
    /\ served = {}
    /\ mishaps = [lost |-> 0, outages |-> 0, reboots |-> 0, visits |-> 0, made |-> 0,
                  unscripted |-> FALSE, stolen |-> FALSE]

VisitorAt(v, label) == visitor[v].pc = label

To(v, label) == visitor' = [visitor EXCEPT ![v].pc = label]

TroubleLeft == mishaps.lost + mishaps.outages + mishaps.reboots < MaxTroubles

(* A call of Redis fails, or there is no client. *)
Outage ==
    /\ TroubleLeft
    /\ mishaps' = [mishaps EXCEPT !.outages = @ + 1]

-----------------------------------------------------------------------------
(* The first look, under the lock of the threads. *)
LookInMemory(v) ==
    /\ VisitorAt(v, "away")
    /\ mishaps.visits < MaxVisits
    /\ mishaps' = [mishaps EXCEPT !.visits = @ + 1]
    /\ \E s \in WebServers :
          visitor' = [visitor EXCEPT ![v] = [NotThere EXCEPT !.at = s, !.bundle = held[s],
                                              !.pc = IF held[s] = Nothing THEN "look" ELSE "answered"]]
    /\ UNCHANGED <<held, shared, herdLock, served>>

(* _read_backtest_bundle_cache *)
LookInRedis(v) ==
    /\ VisitorAt(v, "look")
    /\ visitor' = [visitor EXCEPT ![v] =
                     IF shared \in {Nothing, Old} THEN [@ EXCEPT !.pc = "lock", !.afresh = served = {}]
                     ELSE [@ EXCEPT !.pc = "adopt", !.bundle = shared]]
    /\ UNCHANGED <<held, shared, herdLock, served, mishaps>>

LookFails(v) ==
    /\ VisitorAt(v, "look")
    /\ Outage
    /\ visitor' = [visitor EXCEPT ![v].pc = "lock", ![v].afresh = served = {}]
    /\ UNCHANGED <<held, shared, herdLock, served>>

(* A bug: a thread publishes without a second look what it has computed. *)
PublishedBlindly(s, bundle) == bundle

Published(s, bundle) == IF held[s] = Nothing THEN bundle ELSE held[s]

(* What is in memory is answered, also if it is not the own. *)
Keep(v, label) ==
    LET s == visitor[v].at
        bundle == Published(s, visitor[v].bundle)
    IN  /\ held' = [held EXCEPT ![s] = bundle]
        /\ served' = served \cup {bundle}
        /\ visitor' = [visitor EXCEPT ![v].pc = label, ![v].bundle = bundle]

Adopt(v) ==
    /\ VisitorAt(v, "adopt")
    /\ Keep(v, "answered")
    /\ UNCHANGED <<shared, herdLock, mishaps>>

-----------------------------------------------------------------------------
(* The lock is asked for once; without it the computation goes on all the same. *)
TakeHerdLock(v) ==
    /\ VisitorAt(v, "lock")
    /\ visitor' = [visitor EXCEPT ![v].pc = "compute", ![v].locked = herdLock = Nothing]
    /\ herdLock' = IF herdLock = Nothing THEN v ELSE herdLock
    /\ UNCHANGED <<held, shared, served, mishaps>>

(* SET may have had its effect: then nobody knows the token until it expires. *)
TakeHerdLockFails(v) ==
    /\ VisitorAt(v, "lock")
    /\ Outage
    /\ herdLock' \in {herdLock, IF herdLock = Nothing THEN v ELSE herdLock}
    /\ To(v, "compute")
    /\ UNCHANGED <<held, shared, served>>

(* _compute_backtest_bundle, or else the static bundle. *)
ComputeBundle(v) ==
    /\ VisitorAt(v, "compute")
    /\ mishaps' = [mishaps EXCEPT !.made = @ + 1]
    /\ visitor' = [visitor EXCEPT ![v].pc = "publish", ![v].bundle = mishaps.made + 1]
    /\ UNCHANGED <<held, shared, herdLock, served>>

AfterPublish(v) == IF visitor[v].locked THEN "release" ELSE "answered"

(* Under the lock of the threads: what is in memory then is written to Redis. *)
Publish(v) ==
    /\ VisitorAt(v, "publish")
    /\ Keep(v, AfterPublish(v))
    /\ shared' = held'[visitor[v].at]
    /\ UNCHANGED <<herdLock, mishaps>>

PublishFails(v) ==
    /\ VisitorAt(v, "publish")
    /\ Keep(v, AfterPublish(v))
    /\ Outage
    /\ UNCHANGED <<shared, herdLock>>

-----------------------------------------------------------------------------
(* The script deletes the lock of its token. *)
Release(v) ==
    /\ VisitorAt(v, "release")
    /\ herdLock' = IF herdLock = v THEN Nothing ELSE herdLock
    /\ To(v, "answered")
    /\ UNCHANGED <<held, shared, served, mishaps>>

(* Without scripts by GET, which may fail as well, and DEL; between them the lock may *)
(* change hands.                                                                       *)
ReleaseFails(v) ==
    /\ VisitorAt(v, "release")
    /\ TroubleLeft
    /\ mishaps' = [mishaps EXCEPT !.outages = @ + 1, !.unscripted = TRUE]
    /\ \/ herdLock = v /\ To(v, "delete")
       \/ To(v, "answered")
    /\ UNCHANGED <<held, shared, herdLock, served>>

DropHerdLock(v) ==
    /\ VisitorAt(v, "delete")
    /\ mishaps' = [mishaps EXCEPT !.stolen = @ \/ herdLock \notin {v, Nothing}]
    /\ herdLock' = Nothing
    /\ To(v, "answered")
    /\ UNCHANGED <<held, shared, served>>

Depart(v) ==
    /\ VisitorAt(v, "answered")
    /\ visitor' = [visitor EXCEPT ![v] = NotThere]
    /\ UNCHANGED <<held, shared, herdLock, served, mishaps>>

-----------------------------------------------------------------------------
Lose ==
    /\ TroubleLeft
    /\ mishaps' = [mishaps EXCEPT !.lost = @ + 1]

BundleExpires ==
    /\ shared # Nothing
    /\ Lose
    /\ shared' = Nothing
    /\ UNCHANGED <<held, herdLock, visitor, served>>

LockExpires ==
    /\ herdLock # Nothing
    /\ Lose
    /\ herdLock' = Nothing
    /\ UNCHANGED <<held, shared, visitor, served>>

(* A process is started again: its memory is empty, its requests are gone. *)
Reboot(s) ==
    /\ TroubleLeft
    /\ mishaps' = [mishaps EXCEPT !.reboots = @ + 1]
    /\ held' = [held EXCEPT ![s] = Nothing]
    /\ visitor' = [v \in Visitors |-> IF visitor[v].at = s THEN NotThere ELSE visitor[v]]
    /\ UNCHANGED <<shared, herdLock, served>>

(* What a request under way does next. *)
VisitorStep(v) ==
    \/ LookInRedis(v) \/ LookFails(v) \/ Adopt(v)
    \/ TakeHerdLock(v) \/ TakeHerdLockFails(v) \/ ComputeBundle(v) \/ Publish(v) \/ PublishFails(v)
    \/ Release(v) \/ ReleaseFails(v) \/ DropHerdLock(v)

BundleNext ==
    \/ \E v \in Visitors : LookInMemory(v) \/ VisitorStep(v) \/ Depart(v)
    \/ BundleExpires \/ LockExpires
    \/ \E s \in WebServers : Reboot(s)

BundleSpec == BundleInit /\ [][BundleNext]_bundleVars

-----------------------------------------------------------------------------
BundleType ==
    /\ \A v \in Visitors : VisitorAt(v, "away") <=> visitor[v] = NotThere
    /\ \A s \in WebServers : held[s] # Nothing => held[s] \in served
    /\ mishaps.made <= mishaps.visits

(* In the life of a process all that is answered is of one bundle, so that the parts which *)
(* a page reads one by one belong together if one process serves them.                     *)
OneBundlePerProcess ==
    \A v \in Visitors :
        visitor[v].pc \in {"release", "delete", "answered"} => visitor[v].bundle = held[visitor[v].at]

(* What is in Redis has been served by somebody, and nothing of an earlier version is. *)
SharedIsServed == shared \in served \cup {Nothing, Old} /\ Old \notin served

(* Computations differ only if they run beside each other: none starts after a bundle is *)
(* served, unless a key was lost or Redis failed.                                        *)
NewBundleIsNeeded ==
    mishaps.lost = 0 /\ mishaps.outages = 0 =>
        \A v \in Visitors : visitor[v].pc \in {"lock", "compute", "publish"} => visitor[v].afresh

(* Nobody takes the lock of another, unless scripts fail and it has expired. *)
LockIsOwn == mishaps.stolen => mishaps.unscripted /\ mishaps.lost > 0

(* BundleInv: what a reader of the research page relies on. *)
BundleInv == BundleType /\ OneBundlePerProcess /\ SharedIsServed /\ NewBundleIsNeeded /\ LockIsOwn
=============================================================================
