--------------------------- MODULE CircuitBreaker ---------------------------
(***************************************************************************)
(* CircuitBreaker of telemetry/circuit.py: what each of its methods makes  *)
(* of the breaker.  A method holds the mutex from its first to its last    *)
(* statement, so it is a function of the breaker and no more.  Who calls   *)
(* what is said by the modules that use a breaker, as BreakerCalls.        *)
(*                                                                         *)
(* Time is discrete and relative: an event has an age, an open breaker the *)
(* age of its trip, and Aged makes both grow.                              *)
(***************************************************************************)
EXTENDS Integers, Sequences, FiniteSets

CONSTANTS
    Window,         \* how long an event counts
    OpenFor,        \* open_duration
    HalfOpenMax,    \* half_open_max_calls
    Percent         \* failure_threshold and slow_threshold, in percent

ASSUME DurationAssumption == Window \in Nat \ {0} /\ OpenFor \in Nat \ {0}
ASSUME ProbeAssumption == HalfOpenMax \in Nat \ {0}
ASSUME ThresholdAssumption == Percent \in 1 .. 100

States == {"CLOSED", "OPEN", "HALF_OPEN"}

(* A recorded call; ages beyond the window are all alike. *)
Event == [age : 0 .. Window + 1, failed : BOOLEAN, slow : BOOLEAN]

(* probes is _half_open_calls; opened is the age of _opened_at. *)
Breaker ==
    [state : States, opened : 0 .. OpenFor, probes : 0 .. HalfOpenMax, events : Seq(Event)]

NewBreaker == [state |-> "CLOSED", opened |-> 0, probes |-> 0, events |-> <<>>]

-----------------------------------------------------------------------------
Older(age, limit) == IF age < limit THEN age + 1 ELSE limit

(* One unit of time passes. *)
Aged(b) ==
    [b EXCEPT !.opened = IF b.state = "OPEN" THEN Older(@, OpenFor) ELSE @,
              !.events = [i \in DOMAIN b.events |->
                            [b.events[i] EXCEPT !.age = Older(b.events[i].age, Window + 1)]]]

(* A bug: what was recorded before the trip is kept. *)
CurrentWithEvents(b) ==
    IF b.state = "OPEN" /\ b.opened >= OpenFor
    THEN [b EXCEPT !.state = "HALF_OPEN", !.probes = 0] ELSE b

(* The state property: an open breaker whose time is up is half open, and  *)
(* what was recorded before the trip is forgotten.                         *)
Current(b) ==
    IF b.state = "OPEN" /\ b.opened >= OpenFor
    THEN [b EXCEPT !.state = "HALF_OPEN", !.probes = 0, !.events = <<>>]
    ELSE b

(* The place of the first event that still counts, or that after the last. *)
FirstRecent(events) ==
    CHOOSE k \in 1 .. Len(events) + 1 :
        /\ \A i \in 1 .. k - 1 : events[i].age > Window
        /\ k <= Len(events) => events[k].age <= Window

(* _prune: events leave from the left while they are too old. *)
Pruned(b) == [b EXCEPT !.events = SubSeq(@, FirstRecent(@), Len(@))]

(* _trip_open *)
Tripped(b) == [b EXCEPT !.state = "OPEN", !.opened = 0, !.probes = 0]

(* record_success: enough probes, and none of them too bad *)
Closed(b) == [b EXCEPT !.state = "CLOSED", !.opened = 0, !.probes = 0]

(* The share of the bad events among the events of the window. *)
Rate(b, bad) == 100 * Cardinality(bad) >= Percent * Len(b.events)

(* The failures or the slow calls of the window reach the threshold. *)
TooBad(b) ==
    /\ b.events # <<>>
    /\ \/ Rate(b, {i \in DOMAIN b.events : b.events[i].failed})
       \/ Rate(b, {i \in DOMAIN b.events : b.events[i].slow})

(* _evaluate, of a breaker that is closed *)
Evaluated(b) == IF TooBad(Pruned(b)) THEN Tripped(Pruned(b)) ELSE Pruned(b)

With(b, failed, slow) ==
    [b EXCEPT !.events = Append(@, [age |-> 0, failed |-> failed, slow |-> slow])]

(* A bug: a late failure trips a breaker that is open. *)
FailedWhileOpen(b, slow) ==
    LET c == Current(b) IN
    IF c.state = "CLOSED" THEN Evaluated(With(c, TRUE, slow)) ELSE Tripped(c)

(* record_failure *)
Failed(b, slow) ==
    LET c == Current(b) IN
    IF c.state = "OPEN" THEN c
    ELSE IF c.state = "HALF_OPEN" THEN Tripped(c)
    ELSE Evaluated(With(c, TRUE, slow))

(* A bug: one probe more is waited for than is ever let through. *)
ProbedOneMore(b, slow) ==
    LET c == [With(b, FALSE, slow) EXCEPT !.probes = @ + 1] IN
    IF c.probes <= HalfOpenMax THEN c
    ELSE IF TooBad(Pruned(c)) THEN Tripped(Pruned(c))
    ELSE Closed(Pruned(c))

(* A success while half open: the last one that is needed decides. *)
Probed(b, slow) ==
    LET c == [With(b, FALSE, slow) EXCEPT !.probes = @ + 1] IN
    IF c.probes < HalfOpenMax THEN c
    ELSE IF TooBad(Pruned(c)) THEN Tripped(Pruned(c))
    ELSE Closed(Pruned(c))

(* record_success, and record_slow with slow = TRUE *)
Succeeded(b, slow) ==
    LET c == Current(b) IN
    IF c.state = "OPEN" THEN c
    ELSE IF c.state = "HALF_OPEN" THEN Probed(c, slow)
    ELSE Evaluated(With(c, FALSE, slow))

(* allow, of a breaker whose state is current *)
Allows(b) ==
    \/ b.state = "CLOSED"
    \/ b.state = "HALF_OPEN" /\ b.probes < HalfOpenMax

-----------------------------------------------------------------------------
(* What every method leaves behind: probes are counted while half open     *)
(* only, and the one that decides never leaves the breaker half open.      *)
Sound(b) ==
    /\ b = [state |-> b.state, opened |-> b.opened, probes |-> b.probes, events |-> b.events]
    /\ b.state \in States
    /\ b.opened \in 0 .. OpenFor
    /\ b.probes \in 0 .. HalfOpenMax - 1
    /\ b.state # "HALF_OPEN" => b.probes = 0
=============================================================================
