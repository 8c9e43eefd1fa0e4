---------------------------- MODULE BreakerCalls ----------------------------
(***************************************************************************)
(* Threads that guard their calls by one CircuitBreaker, as shadow/service *)
(* does for orders and llm/gateway for providers: allow(), then the call,  *)
(* then record_success() or record_failure().  The breaker is told the     *)
(* outcome of a call, not which call it was nor when it was let through.   *)
(* The gateway keeps some failures to itself, those that do not follow     *)
(* another one: such a call is one that never reports.                     *)
(***************************************************************************)
EXTENDS CircuitBreaker, FiniteSets

CONSTANTS
    Threads,
    MaxEvents,      \* bound: calls under way, and recorded in the window
    MaxFaults       \* bound: calls that fail, are slow or never report

ASSUME BoundAssumption == MaxEvents \in Nat /\ MaxFaults \in Nat

VARIABLES
    breaker,
    call,       \* thread -> how its call was let through
    passed,     \* history: probes that succeeded since the breaker was last
                \* not half open
    faults      \* calls that failed, were slow or never reported

vars == <<breaker, call, passed, faults>>

(* A probe was let through while the breaker was half open, as it is now;  *)
(* a late call was let through before the state last changed.              *)
Calls == {"none", "ordinary", "probe", "late"}

Init ==
    /\ breaker = NewBreaker
    /\ call = [t \in Threads |-> "none"]
    /\ passed = 0
    /\ faults = 0

UnderWay == {t \in Threads : call[t] # "none"}

(* The breaker becomes b, while the call of t becomes mine. *)
Becomes(b, t, mine) ==
    /\ breaker' = b
    /\ call' = [u \in Threads |->
                  IF u = t THEN mine
                  ELSE IF call[u] # "none" /\ b.state # breaker.state THEN "late"
                  ELSE call[u]]

(* allow() *)
Ask(t) ==
    /\ call[t] = "none"
    /\ Cardinality(UnderWay) + Len(Pruned(breaker).events) < MaxEvents
    /\ LET b == Current(breaker) IN
       Becomes(b, t, CASE ~Allows(b) -> "none"
                       [] Allows(b) /\ b.state = "HALF_OPEN" -> "probe"
                       [] OTHER -> "ordinary")
    /\ passed' = IF Current(breaker).state = "HALF_OPEN" THEN passed ELSE 0
    /\ UNCHANGED faults

Succeed(t) ==
    /\ call[t] # "none"
    /\ \E slow \in BOOLEAN :
         /\ slow => faults < MaxFaults
         /\ faults' = IF slow THEN faults + 1 ELSE faults
         /\ LET b == Succeeded(breaker, slow) IN
            /\ Becomes(b, t, "none")
            /\ passed' = IF b.state # "HALF_OPEN" THEN 0
                         ELSE IF call[t] = "probe" THEN passed + 1 ELSE passed

Fail(t) ==
    /\ call[t] # "none"
    /\ faults < MaxFaults
    /\ faults' = faults + 1
    /\ \E slow \in BOOLEAN :
         LET b == Failed(breaker, slow) IN
         /\ Becomes(b, t, "none")
         /\ passed' = IF b.state # "HALF_OPEN" THEN 0 ELSE passed

(* The caller records nothing: the consumer of a stream has closed it, or  *)
(* the gateway keeps a single failure to itself.                           *)
Abandon(t) ==
    /\ call[t] # "none"
    /\ faults < MaxFaults
    /\ faults' = faults + 1
    /\ Becomes(breaker, t, "none")
    /\ UNCHANGED passed

Tick ==
    /\ breaker' = Aged(breaker)
    /\ UNCHANGED <<call, passed, faults>>

Next ==
    \/ \E t \in Threads : Ask(t) \/ Succeed(t) \/ Fail(t) \/ Abandon(t)
    \/ Tick

Spec == Init /\ [][Next]_vars

(* Time passes, a call that is under way ends, and somebody goes on        *)
(* calling: the last is a premise about the traffic, not about the code.   *)
Fairness ==
    /\ WF_vars(Tick)
    /\ \A t \in Threads : SF_vars(Ask(t)) /\ WF_vars(Succeed(t))

FairSpec == Spec /\ Fairness

-----------------------------------------------------------------------------
(* The types, and that probes are counted while half open only. *)
TypeOK ==
    /\ breaker \in Breaker
    /\ breaker.state # "HALF_OPEN" => breaker.probes = 0
    /\ call \in [Threads -> Calls]
    /\ passed \in Nat
    /\ faults \in 0 .. MaxFaults

(* A half-open breaker never refuses: whatever happened to earlier probes, *)
(* lost ones included, the next call is let through, so that it cannot get *)
(* stuck half open.  It also says that the comparison in allow() never     *)
(* limits anything.                                                        *)
HalfOpenAllows == breaker.state = "HALF_OPEN" => Allows(breaker)

(* What a half-open breaker will be judged by are its probes: no failure,  *)
(* nothing from before the trip.                                           *)
ProbesAreIsolated ==
    breaker.state = "HALF_OPEN" =>
        /\ Len(breaker.events) = breaker.probes
        /\ \A i \in DOMAIN breaker.events : ~breaker.events[i].failed

(* Results that arrive while the breaker is open, of calls let through     *)
(* before, do not prolong the outage: until its time is up an open breaker *)
(* only ages.                                                              *)
OutageNotProlonged ==
    [][breaker.state = "OPEN" /\ breaker.opened < OpenFor
         => breaker'.state = "OPEN" /\ breaker'.opened >= breaker.opened]_vars

(* Once no call fails any more and calls go on, the breaker closes for     *)
(* good.                                                                   *)
Recovers == <>[](breaker.state = "CLOSED")

(* circuit.py: half open, five probes are let through. *)
ProbesAreLimited == Cardinality({t \in Threads : call[t] = "probe"}) + passed <= HalfOpenMax
=============================================================================
