---------------------------- MODULE RunLifecycle ----------------------------
(***************************************************************************)
(* What the long-task queue promises about one run, whoever the workers    *)
(* are and however they fail: the state machine of the `status` column     *)
(* (db/migrations/0005_runs_queue.sql and docs/contracts/batch-14.md,      *)
(* section 2.1), the retry budget, and that a result is the result of the  *)
(* attempt that is current when it is stored.                              *)
(*                                                                         *)
(* There are no workers, leases, heartbeats or steps here; RunQueue has    *)
(* them and implements this module.                                        *)
(***************************************************************************)
EXTENDS Naturals

CONSTANTS
    Runs,       \* the run ids that may ever be enqueued
    Tries       \* the values of max_tries a caller may ask for

VARIABLE job    \* run -> what an outside observer of the row can rely on

Job(status, attempt, tries, result) ==
    [status |-> status, attempt |-> attempt, tries |-> tries, result |-> result]

NoJob == Job("absent", 0, 0, 0)

(* The row is inserted once, with its retry budget. *)
Submitted(old, new) ==
    /\ old = NoJob
    /\ \E t \in Tries : new = Job("queued", 0, t, 0)

(* A worker takes the run: one more attempt, never beyond the budget. *)
Started(old, new) ==
    /\ old.status = "queued"
    /\ old.attempt < old.tries
    /\ new = Job("running", old.attempt + 1, old.tries, old.result)

(* The attempt that is current stores its result. *)
Succeeded(old, new) ==
    /\ old.status = "running"
    /\ new = Job("succeeded", old.attempt, old.tries, old.attempt)

(* The attempt failed, or its worker was given up: retry while the budget  *)
(* lasts, otherwise the run is dead.                                       *)
GivenUp(old, new) ==
    /\ old.status = "running"
    /\ \/ old.attempt < old.tries /\ new = [old EXCEPT !.status = "queued"]
       \/ old.attempt = old.tries /\ new = [old EXCEPT !.status = "dead"]

(* A cancel ends a queued run at once and a running one in two steps. *)
Withdrawn(old, new) ==
    \/ old.status = "queued" /\ new = [old EXCEPT !.status = "cancelled"]
    \/ old.status = "running" /\ new = [old EXCEPT !.status = "cancelling"]
    \/ old.status = "cancelling" /\ new = [old EXCEPT !.status = "cancelled"]

Moved(old, new) ==
    \/ Submitted(old, new)
    \/ Started(old, new)
    \/ Succeeded(old, new)
    \/ GivenUp(old, new)
    \/ Withdrawn(old, new)

Init == job = [r \in Runs |-> NoJob]

(* One pass of the reaper may move several runs at once. *)
Next == \A r \in Runs : job'[r] = job[r] \/ Moved(job[r], job'[r])

Spec == Init /\ [][Next]_job
=============================================================================
