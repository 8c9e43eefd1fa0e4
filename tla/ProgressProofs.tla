--------------------------- MODULE ProgressProofs ----------------------------
(***************************************************************************)
(* Who waits for whom, proved for all values of the constants: the         *)
(* breaker and the calls that it guards, the providers of a gateway        *)
(* behind their breakers, a run of the agent loop, and the channels of     *)
(* the WebSocket server. Each part states what its component keeps, shows  *)
(* that every action keeps it, and that it implies what the runs check.    *)
(***************************************************************************)
EXTENDS MCProgress, SequenceTheorems, FiniteSetTheorems, WellFoundedInduction, TLAPS

-----------------------------------------------------------------------------
(***************************************************************************)
(* BreakerCalls: a half-open breaker lets the next call through, is judged *)
(* by its probes alone, and an outage is not prolonged.  Every method      *)
(* leaves a sound breaker sound, where sound says that a half-open breaker *)
(* still waits for at least one probe.  What the events say (TooBad)       *)
(* decides between two sound breakers and no more.                         *)
(***************************************************************************)

(* The methods one by one. *)

LEMMA ZeroIsInRange == 0 \in 0 .. OpenFor /\ 0 \in 0 .. HalfOpenMax - 1
BY ProbeAssumption, DurationAssumption

LEMMA CurrentSound ==
  ASSUME NEW b, Sound(b)
  PROVE  Sound(Current(b)) /\ (Current(b).state = "OPEN" => Current(b) = b)
BY ProbeAssumption, DurationAssumption DEF Current, Sound, States

(* Whatever its counts were: trip and close start from nothing. *)
LEMMA TrippedSound ==
  ASSUME NEW b,
         b = [state |-> b.state, opened |-> b.opened, probes |-> b.probes, events |-> b.events]
  PROVE  Sound(Tripped(b))
<1>1. PICK c : c = [b EXCEPT !.state = "OPEN"]
  OBVIOUS
<1>2. c = [state |-> "OPEN", opened |-> b.opened, probes |-> b.probes, events |-> b.events]
  BY <1>1
<1>3. PICK d : d = [c EXCEPT !.opened = 0]
  OBVIOUS
<1>4. d = [state |-> "OPEN", opened |-> 0, probes |-> b.probes, events |-> b.events]
  BY <1>2, <1>3
<1>5. [d EXCEPT !.probes = 0] =
        [state |-> "OPEN", opened |-> 0, probes |-> 0, events |-> b.events]
  BY <1>4
<1>6. Tripped(b) = [state |-> "OPEN", opened |-> 0, probes |-> 0, events |-> b.events]
  BY <1>1, <1>3, <1>5 DEF Tripped
<1> QED
  BY <1>6, ZeroIsInRange DEF Sound, States

LEMMA ClosedSound ==
  ASSUME NEW b,
         b = [state |-> b.state, opened |-> b.opened, probes |-> b.probes, events |-> b.events]
  PROVE  Sound(Closed(b))
<1>1. PICK c : c = [b EXCEPT !.state = "CLOSED"]
  OBVIOUS
<1>2. c = [state |-> "CLOSED", opened |-> b.opened, probes |-> b.probes, events |-> b.events]
  BY <1>1
<1>3. PICK d : d = [c EXCEPT !.opened = 0]
  OBVIOUS
<1>4. d = [state |-> "CLOSED", opened |-> 0, probes |-> b.probes, events |-> b.events]
  BY <1>2, <1>3
<1>5. [d EXCEPT !.probes = 0] =
        [state |-> "CLOSED", opened |-> 0, probes |-> 0, events |-> b.events]
  BY <1>4
<1>6. Closed(b) = [state |-> "CLOSED", opened |-> 0, probes |-> 0, events |-> b.events]
  BY <1>1, <1>3, <1>5 DEF Closed
<1> QED
  BY <1>6, ZeroIsInRange DEF Sound, States

LEMMA PrunedSound ==
  ASSUME NEW b, Sound(b)
  PROVE  Sound(Pruned(b))
<1>1. PICK es : es = SubSeq(b.events, FirstRecent(b.events), Len(b.events))
  OBVIOUS
<1>2. Pruned(b) = [state |-> b.state, opened |-> b.opened, probes |-> b.probes, events |-> es]
  <2>1. Pruned(b) = [b EXCEPT !.events = es]
    BY <1>1 DEF Pruned
  <2> QED
    BY <2>1 DEF Sound
<1> QED
  BY <1>2 DEF Sound

LEMMA WithSound ==
  ASSUME NEW b, Sound(b), NEW failed, NEW slow
  PROVE  Sound(With(b, failed, slow)) /\ With(b, failed, slow).state = b.state
<1>1. PICK es : es = Append(b.events, [age |-> 0, failed |-> failed, slow |-> slow])
  OBVIOUS
<1>2. With(b, failed, slow) = [b EXCEPT !.events = es]
  BY <1>1 DEF With
<1>3. [b EXCEPT !.events = es] =
        [state |-> b.state, opened |-> b.opened, probes |-> b.probes, events |-> es]
  BY DEF Sound
<1> QED
  BY <1>2, <1>3 DEF Sound

LEMMA EvaluatedSound ==
  ASSUME NEW b, Sound(b)
  PROVE  Sound(Evaluated(b))
<1>1. Sound(Pruned(b))
  BY PrunedSound
<1>2. Sound(Tripped(Pruned(b)))
  BY <1>1, TrippedSound DEF Sound
<1> QED
  BY <1>1, <1>2 DEF Evaluated

LEMMA FailedSound ==
  ASSUME NEW b, Sound(b), NEW slow
  PROVE  Sound(Failed(b, slow))
<1>1. Sound(Current(b))
  BY CurrentSound
<1>2. Sound(Tripped(Current(b)))
  BY <1>1, TrippedSound DEF Sound
<1>3. Sound(Evaluated(With(Current(b), TRUE, slow)))
  BY <1>1, WithSound, EvaluatedSound
<1> QED
  BY <1>1, <1>2, <1>3 DEF Failed

(* The probe that reaches the limit trips or closes the breaker, so that   *)
(* the count it leaves is below the limit.                                 *)
LEMMA ProbedSound ==
  ASSUME NEW b, Sound(b), b.state = "HALF_OPEN", NEW slow
  PROVE  Sound(Probed(b, slow))
<1> DEFINE w == With(b, FALSE, slow)
           c == [w EXCEPT !.probes = @ + 1]
<1>1. Sound(w) /\ w.state = "HALF_OPEN"
  BY WithSound
<1> HIDE DEF w
<1>2. c = [state |-> "HALF_OPEN", opened |-> w.opened, probes |-> w.probes + 1,
           events |-> w.events]
  BY <1>1 DEF Sound
<1>3. PICK p : p = Pruned(c)
  OBVIOUS
<1>4. p = [state |-> "HALF_OPEN", opened |-> w.opened, probes |-> w.probes + 1,
           events |-> p.events]
  BY <1>2, <1>3 DEF Pruned
<1>5. p = [state |-> p.state, opened |-> p.opened, probes |-> p.probes, events |-> p.events]
  BY <1>4
<1>6. Sound(Tripped(p)) /\ Sound(Closed(p))
  BY <1>5, TrippedSound, ClosedSound
<1>7. c.probes < HalfOpenMax => Sound(c)
  <2>1. c.probes < HalfOpenMax => w.probes + 1 \in 0 .. HalfOpenMax - 1
    BY <1>1, <1>2, ProbeAssumption DEF Sound
  <2> QED
    BY <1>1, <1>2, <2>1 DEF Sound, States
<1>8. Probed(b, slow) = IF c.probes < HalfOpenMax THEN c
                        ELSE IF TooBad(p) THEN Tripped(p) ELSE Closed(p)
  BY <1>3 DEF Probed, w
<1> HIDE DEF c
<1> QED
  BY <1>6, <1>7, <1>8

LEMMA SucceededSound ==
  ASSUME NEW b, Sound(b), NEW slow
  PROVE  Sound(Succeeded(b, slow))
<1>1. Sound(Current(b))
  BY CurrentSound
<1>2. Current(b).state = "HALF_OPEN" => Sound(Probed(Current(b), slow))
  BY <1>1, ProbedSound
<1>3. Sound(Evaluated(With(Current(b), FALSE, slow)))
  BY <1>1, WithSound, EvaluatedSound
<1> QED
  BY <1>1, <1>2, <1>3 DEF Succeeded

LEMMA AgedSound ==
  ASSUME NEW b, Sound(b)
  PROVE  Sound(Aged(b)) /\ Aged(b).state = b.state /\ Aged(b).opened >= b.opened
<1> DEFINE o == IF b.state = "OPEN" THEN Older(b.opened, OpenFor) ELSE b.opened
<1>1. o \in 0 .. OpenFor /\ o >= b.opened
  BY DurationAssumption DEF Older, Sound
<1> HIDE DEF o
<1>2. PICK es : Aged(b) = [b EXCEPT !.opened = o, !.events = es]
  BY DEF Aged, o
<1>3. PICK c : c = [b EXCEPT !.opened = o]
  OBVIOUS
<1>4. c = [state |-> b.state, opened |-> o, probes |-> b.probes, events |-> b.events]
  BY <1>3 DEF Sound
<1>5. [c EXCEPT !.events = es] =
        [state |-> b.state, opened |-> o, probes |-> b.probes, events |-> es]
  BY <1>4
<1>6. Aged(b) = [state |-> b.state, opened |-> o, probes |-> b.probes, events |-> es]
  BY <1>2, <1>3, <1>5
<1> QED
  BY <1>1, <1>6 DEF Sound

-----------------------------------------------------------------------------
(* The calls of the threads: each makes of the breaker what one method     *)
(* makes of it.                                                            *)

LEMMA StepIsMethod ==
  ASSUME [Next]_vars
  PROVE  \/ breaker' = breaker
         \/ breaker' = Current(breaker)
         \/ breaker' = Aged(breaker)
         \/ \E slow \in BOOLEAN : breaker' \in {Succeeded(breaker, slow), Failed(breaker, slow)}
<1>1. CASE Next
  <2>1. ASSUME NEW t \in Threads, Ask(t) PROVE breaker' = Current(breaker)
    BY <2>1 DEF Ask, Becomes
  <2>2. ASSUME NEW t \in Threads, Succeed(t)
        PROVE  \E slow \in BOOLEAN : breaker' = Succeeded(breaker, slow)
    BY <2>2 DEF Succeed, Becomes
  <2>3. ASSUME NEW t \in Threads, Fail(t)
        PROVE  \E slow \in BOOLEAN : breaker' = Failed(breaker, slow)
    BY <2>3 DEF Fail, Becomes
  <2>4. ASSUME NEW t \in Threads, Abandon(t) PROVE breaker' = breaker
    BY <2>4 DEF Abandon, Becomes
  <2>5. CASE Tick
    BY <2>5 DEF Tick
  <2> QED
    BY <1>1, <2>1, <2>2, <2>3, <2>4, <2>5 DEF Next
<1>2. CASE UNCHANGED vars
  BY <1>2 DEF vars
<1> QED
  BY <1>1, <1>2

LEMMA Initially == Init => Sound(breaker)
BY ProbeAssumption, DurationAssumption DEF Init, NewBreaker, Sound, States

LEMMA StepKeepsSound ==
  ASSUME Sound(breaker), [Next]_vars
  PROVE  Sound(breaker)'
<1>1. Sound(Current(breaker)) /\ Sound(Aged(breaker))
  BY CurrentSound, AgedSound
<1>2. \A slow \in BOOLEAN : Sound(Succeeded(breaker, slow)) /\ Sound(Failed(breaker, slow))
  BY SucceededSound, FailedSound
<1>3. Sound(breaker')
  BY <1>1, <1>2, StepIsMethod
<1> QED
  BY <1>3 DEF Sound

(* circuit.py: the breaker stays sound whatever the threads do. *)
THEOREM BreakerStaysSound == Spec => []Sound(breaker)
<1>1. Init => Sound(breaker)
  BY Initially
<1>2. Sound(breaker) /\ [Next]_vars => Sound(breaker)'
  BY StepKeepsSound
<1> QED
  BY <1>1, <1>2, PTL DEF Spec

(* circuit.py, allow(): a half-open breaker cannot get stuck, it always    *)
(* lets the next call through.                                             *)
THEOREM HalfOpenIsNeverStuck == Spec => []HalfOpenAllows
<1>1. Sound(breaker) => HalfOpenAllows
  BY ProbeAssumption DEF Sound, HalfOpenAllows, Allows
<1> QED
  BY <1>1, BreakerStaysSound, PTL

(* circuit.py, record_failure() and record_success(): results that arrive  *)
(* while the breaker is open do not prolong the outage.                    *)
THEOREM LateResultsAreIgnored == Spec => OutageNotProlonged
<1> DEFINE A == breaker.state = "OPEN" /\ breaker.opened < OpenFor
                  => breaker'.state = "OPEN" /\ breaker'.opened >= breaker.opened
<1>1. Sound(breaker) /\ [Next]_vars => [A]_vars
  <2> SUFFICES ASSUME Sound(breaker), [Next]_vars, breaker.state = "OPEN",
                      breaker.opened < OpenFor
               PROVE  breaker'.state = "OPEN" /\ breaker'.opened >= breaker.opened
    OBVIOUS
  <2>1. Current(breaker) = breaker
    BY DurationAssumption DEF Current, Sound
  <2>2. \A slow \in BOOLEAN : Succeeded(breaker, slow) = breaker /\ Failed(breaker, slow) = breaker
    BY <2>1 DEF Succeeded, Failed
  <2>3. Aged(breaker).state = breaker.state /\ Aged(breaker).opened >= breaker.opened
    BY AgedSound
  <2>4. breaker' = breaker \/ breaker' = Aged(breaker)
    BY <2>1, <2>2, StepIsMethod
  <2>5. breaker.opened >= breaker.opened
    BY DurationAssumption DEF Sound
  <2> QED
    BY <2>3, <2>4, <2>5
<1> QED
  BY <1>1, BreakerStaysSound, PTL DEF Spec, OutageNotProlonged

-----------------------------------------------------------------------------
(* What a half-open breaker has recorded: the probes that were answered,   *)
(* none of which failed.                                                   *)
Isolated(b) ==
    b.state = "HALF_OPEN" =>
        /\ b.events \in Seq(Event)
        /\ Len(b.events) = b.probes
        /\ \A i \in DOMAIN b.events : ~b.events[i].failed

(* A breaker that is just half open has forgotten what tripped it. *)
LEMMA CurrentIsolated ==
  ASSUME NEW b, Sound(b), Isolated(b)
  PROVE  Isolated(Current(b))
<1>1. CASE b.state = "OPEN" /\ b.opened >= OpenFor
  <2>1. PICK c : c = [b EXCEPT !.state = "HALF_OPEN"]
    OBVIOUS
  <2>2. c = [state |-> "HALF_OPEN", opened |-> b.opened, probes |-> b.probes,
             events |-> b.events]
    BY <2>1 DEF Sound
  <2>3. PICK d : d = [c EXCEPT !.probes = 0]
    OBVIOUS
  <2>4. d = [state |-> "HALF_OPEN", opened |-> b.opened, probes |-> 0, events |-> b.events]
    BY <2>2, <2>3
  <2>5. [d EXCEPT !.events = <<>>] =
          [state |-> "HALF_OPEN", opened |-> b.opened, probes |-> 0, events |-> <<>>]
    BY <2>4
  <2>6. Current(b) = [state |-> "HALF_OPEN", opened |-> b.opened, probes |-> 0,
                      events |-> <<>>]
    BY <1>1, <2>1, <2>3, <2>5 DEF Current
  <2> QED
    BY <2>6 DEF Isolated
<1>2. CASE ~(b.state = "OPEN" /\ b.opened >= OpenFor)
  BY <1>2 DEF Current
<1> QED
  BY <1>1, <1>2

(* Tripped or closed, it is not half open. *)
LEMMA TrippedState ==
  ASSUME NEW b, Sound(b)
  PROVE  Tripped(b).state = "OPEN" /\ Pruned(b).state = b.state
BY DEF Tripped, Pruned, Sound

(* Nor does looking at a breaker that is not half open make it so. *)
LEMMA EvaluatedState ==
  ASSUME NEW b, Sound(b), b.state # "HALF_OPEN"
  PROVE  Evaluated(b).state # "HALF_OPEN"
<1>1. Sound(Pruned(b))
  BY PrunedSound
<1>2. Tripped(Pruned(b)).state = "OPEN" /\ Pruned(b).state = b.state
  BY <1>1, TrippedState
<1> QED
  BY <1>2 DEF Evaluated

(* A failure leaves no breaker half open. *)
LEMMA FailedIsolated ==
  ASSUME NEW b, Sound(b), NEW slow
  PROVE  Isolated(Failed(b, slow))
<1>1. Sound(Current(b))
  BY CurrentSound
<1>2. CASE Current(b).state = "CLOSED"
  BY <1>1, <1>2, WithSound, EvaluatedState DEF Failed, Isolated
<1>3. CASE Current(b).state # "CLOSED"
  BY <1>1, <1>3, TrippedState DEF Failed, Isolated, Sound, States
<1> QED
  BY <1>2, <1>3

(* A probe that succeeds is one event more, or it decides. *)
LEMMA ProbedIsolated ==
  ASSUME NEW b, Sound(b), Isolated(b), b.state = "HALF_OPEN", NEW slow \in BOOLEAN
  PROVE  Isolated(Probed(b, slow))
<1>1. PICK e : e = [age |-> 0, failed |-> FALSE, slow |-> slow]
  OBVIOUS
<1>2. e \in Event /\ ~e.failed
  BY <1>1, DurationAssumption DEF Event
<1>3. PICK es : es = Append(b.events, e)
  OBVIOUS
<1>4. /\ es \in Seq(Event)
      /\ Len(es) = b.probes + 1
      /\ \A i \in DOMAIN es : ~es[i].failed
  <2>1. b.events \in Seq(Event) /\ Len(b.events) = b.probes
    BY DEF Isolated
  <2>2. es \in Seq(Event) /\ Len(es) = Len(b.events) + 1
    BY <1>2, <1>3, <2>1
  <2>3. ASSUME NEW i \in DOMAIN es PROVE ~es[i].failed
    <3>1. CASE i = Len(b.events) + 1
      BY <1>2, <1>3, <2>1, <3>1
    <3>2. CASE i # Len(b.events) + 1
      <4>1. i \in DOMAIN b.events /\ es[i] = b.events[i]
        BY <1>2, <1>3, <2>1, <2>2, <2>3, <3>2
      <4> QED
        BY <4>1 DEF Isolated
    <3> QED
      BY <3>1, <3>2
  <2> QED
    BY <2>1, <2>2, <2>3
<1>5. PICK w : w = With(b, FALSE, slow)
  OBVIOUS
<1>6. w = [state |-> "HALF_OPEN", opened |-> b.opened, probes |-> b.probes, events |-> es]
  <2>1. w = [b EXCEPT !.events = es]
    BY <1>1, <1>3, <1>5 DEF With
  <2> QED
    BY <2>1 DEF Sound
<1>7. PICK c : c = [w EXCEPT !.probes = @ + 1]
  OBVIOUS
<1>8. c = [state |-> "HALF_OPEN", opened |-> b.opened, probes |-> b.probes + 1,
           events |-> es]
  BY <1>6, <1>7
<1>9. Isolated(c)
  BY <1>4, <1>8 DEF Isolated
<1>10. PICK p : p = Pruned(c)
  OBVIOUS
<1>11. p = [state |-> "HALF_OPEN", opened |-> b.opened, probes |-> b.probes + 1,
            events |-> p.events]
  BY <1>8, <1>10 DEF Pruned
<1>12. Tripped(p).state = "OPEN" /\ Closed(p).state = "CLOSED"
  BY <1>11 DEF Tripped, Closed
<1>13. Probed(b, slow) = IF c.probes < HalfOpenMax THEN c
                         ELSE IF TooBad(p) THEN Tripped(p) ELSE Closed(p)
  BY <1>5, <1>7, <1>10 DEF Probed
<1> QED
  BY <1>9, <1>12, <1>13 DEF Isolated

(* So does a success of any breaker. *)
LEMMA SucceededIsolated ==
  ASSUME NEW b, Sound(b), Isolated(b), NEW slow \in BOOLEAN
  PROVE  Isolated(Succeeded(b, slow))
<1>1. Sound(Current(b)) /\ Isolated(Current(b))
  BY CurrentSound, CurrentIsolated
<1>2. CASE Current(b).state = "OPEN"
  BY <1>1, <1>2 DEF Succeeded
<1>3. CASE Current(b).state = "HALF_OPEN"
  BY <1>1, <1>3, ProbedIsolated DEF Succeeded
<1>4. CASE Current(b).state = "CLOSED"
  <2>1. /\ Sound(With(Current(b), FALSE, slow))
        /\ With(Current(b), FALSE, slow).state = "CLOSED"
    BY <1>1, <1>4, WithSound
  <2>2. Evaluated(With(Current(b), FALSE, slow)).state # "HALF_OPEN"
    BY <2>1, EvaluatedState
  <2>3. Succeeded(b, slow) = Evaluated(With(Current(b), FALSE, slow))
    BY <1>4 DEF Succeeded
  <2> QED
    BY <2>2, <2>3 DEF Isolated
<1> QED
  BY <1>1, <1>2, <1>3, <1>4 DEF Sound, States

(* Time changes ages only. *)
LEMMA AgedIsolated ==
  ASSUME NEW b, Sound(b), Isolated(b)
  PROVE  Isolated(Aged(b))
<1>1. CASE b.state # "HALF_OPEN"
  BY <1>1, AgedSound DEF Isolated
<1>2. CASE b.state = "HALF_OPEN"
  <2>1. PICK es : es = [i \in DOMAIN b.events |->
                          [b.events[i] EXCEPT !.age = Older(b.events[i].age, Window + 1)]]
    OBVIOUS
  <2>2. b.events \in Seq(Event) /\ Len(b.events) = b.probes
    BY <1>2 DEF Isolated
  <2>3. PICK n \in Nat : n = Len(b.events) /\ DOMAIN b.events = 1 .. n
    BY <2>2
  <2>4. ASSUME NEW i \in DOMAIN b.events
        PROVE  es[i] \in Event /\ ~es[i].failed
    <3>1. PICK e : e = b.events[i]
      OBVIOUS
    <3>2. e \in Event /\ ~e.failed
      BY <1>2, <2>2, <3>1 DEF Isolated
    <3>3. PICK a : a = Older(e.age, Window + 1)
      OBVIOUS
    <3>4. a \in 0 .. Window + 1
      BY <3>2, <3>3, DurationAssumption DEF Older, Event
    <3>5. es[i] = [e EXCEPT !.age = a]
      BY <2>1, <3>1, <3>3
    <3>6. es[i] = [age |-> a, failed |-> e.failed, slow |-> e.slow]
      BY <3>2, <3>5 DEF Event
    <3> QED
      BY <3>2, <3>4, <3>6 DEF Event
  <2>5. es \in Seq(Event) /\ Len(es) = Len(b.events) /\ DOMAIN es = DOMAIN b.events
    <3>1. DOMAIN es = 1 .. n
      BY <2>1, <2>3
    <3>2. \A i \in 1 .. n : es[i] \in Event
      BY <2>3, <2>4
    <3>3. es = [i \in 1 .. n |-> es[i]]
      BY <2>1, <2>3
    <3>4. es \in [1 .. n -> Event]
      BY <3>2, <3>3
    <3>5. es \in Seq(Event) /\ Len(es) = n
      BY <3>1, <3>4
    <3> QED
      BY <2>3, <3>1, <3>5
  <2>6. PICK c : c = [b EXCEPT !.opened = IF b.state = "OPEN" THEN Older(@, OpenFor) ELSE @]
    OBVIOUS
  <2>7. c = b
    BY <1>2, <2>6 DEF Sound
  <2>8. Aged(b) = [c EXCEPT !.events = es]
    BY <2>1, <2>6 DEF Aged
  <2>9. Aged(b) = [state |-> b.state, opened |-> b.opened, probes |-> b.probes,
                   events |-> es]
    BY <2>7, <2>8 DEF Sound
  <2> QED
    BY <2>2, <2>4, <2>5, <2>9 DEF Isolated
<1> QED
  BY <1>1, <1>2

(* circuit.py, record_success() and the state property: a half-open        *)
(* breaker is judged by its probes alone, however late the results of      *)
(* earlier calls arrive.                                                   *)
THEOREM ProbesStayApart == Spec => []ProbesAreIsolated
<1>1. Init => Sound(breaker) /\ Isolated(breaker)
  BY Initially DEF Init, NewBreaker, Isolated
<1>2. Sound(breaker) /\ Isolated(breaker) /\ [Next]_vars => (Sound(breaker) /\ Isolated(breaker))'
  <2> SUFFICES ASSUME Sound(breaker), Isolated(breaker), [Next]_vars
               PROVE  Sound(breaker)' /\ Isolated(breaker)'
    OBVIOUS
  <2>1. Isolated(Current(breaker)) /\ Isolated(Aged(breaker))
    BY CurrentIsolated, AgedIsolated
  <2>2. \A slow \in BOOLEAN : Isolated(Succeeded(breaker, slow)) /\ Isolated(Failed(breaker, slow))
    BY SucceededIsolated, FailedIsolated
  <2>3. Isolated(breaker')
    BY <2>1, <2>2, StepIsMethod
  <2> QED
    BY <2>3, StepKeepsSound DEF Isolated
<1>3. Isolated(breaker) => ProbesAreIsolated
  BY DEF Isolated, ProbesAreIsolated
<1> QED
  BY <1>1, <1>2, <1>3, PTL DEF Spec

-----------------------------------------------------------------------------
(* The types.                                                              *)

(* A set of numbers with a member has a least one. *)
LEMMA LeastNumber ==
  ASSUME NEW S \in SUBSET Nat, S # {}
  PROVE  \E i \in S : \A j \in S : i <= j
<1> DEFINE R == {ss \in Nat \X Nat : ss[1] < ss[2]}
<1>1. IsWellFoundedOn(R, Nat)
  BY NatLessThanWellFounded DEF OpToRel
<1>2. \A i, j \in Nat : j < i => <<j, i>> \in R
  OBVIOUS
<1> HIDE DEF R
<1>3. PICK i \in S : \A j \in S : ~(<<j, i>> \in R)
  BY <1>1, WFMin
<1>4. \A j \in S : i \in Nat /\ j \in Nat /\ ~(j < i)
  BY <1>2, <1>3
<1> QED
  BY <1>4

(* A breaker that holds events, whatever its counts are. *)
Recording(b) ==
  /\ b = [state |-> b.state, opened |-> b.opened, probes |-> b.probes, events |-> b.events]
  /\ b.events \in Seq(Event)

(* There is a first event that still counts, or none does. *)
LEMMA FirstRecentExists ==
  ASSUME NEW es \in Seq(Event), NEW n \in Nat, n = Len(es)
  PROVE  /\ FirstRecent(es) \in 1 .. n + 1
         /\ FirstRecent(es) <= n => es[FirstRecent(es)].age <= Window
<1> DEFINE S == {k \in 1 .. n + 1 : k <= n => es[k].age <= Window}
<1>1. S \in SUBSET Nat /\ n + 1 \in S
  OBVIOUS
<1>2. PICK k \in S : \A j \in S : k <= j
  BY <1>1, LeastNumber
<1>3. ASSUME NEW i \in 1 .. k - 1 PROVE es[i].age > Window
  <2>1. i \in 1 .. n /\ i \notin S
    BY <1>2
  <2>2. es[i] \in Event /\ ~(es[i].age <= Window)
    BY <2>1
  <2> QED BY <2>2, DurationAssumption DEF Event
<1>4. k \in 1 .. Len(es) + 1 /\ (k <= Len(es) => es[k].age <= Window)
  OBVIOUS
<1>5. \E m \in 1 .. Len(es) + 1 :
        /\ \A i \in 1 .. m - 1 : es[i].age > Window
        /\ m <= Len(es) => es[m].age <= Window
  BY <1>3, <1>4
<1> QED BY <1>5 DEF FirstRecent

LEMMA FourFields ==
  ASSUME NEW b, Recording(b)
  PROVE  \E s, o, p, e : /\ b = [state |-> s, opened |-> o, probes |-> p, events |-> e]
                        /\ s = b.state /\ o = b.opened /\ p = b.probes /\ e = b.events
BY DEF Recording

(* The methods change the counts, and the events one at a time. *)
LEMMA CountsChange ==
  ASSUME NEW b, Recording(b)
  PROVE  Recording(Tripped(b)) /\ Recording(Closed(b)) /\ Recording(Current(b))
<1>1. b.events \in Seq(Event)
  BY DEF Recording
<1>2. ASSUME NEW x, NEW y, NEW z, NEW es \in Seq(Event)
      PROVE  Recording([state |-> x, opened |-> y, probes |-> z, events |-> es])
  BY DEF Recording
<1> PICK s, o, p, e : /\ b = [state |-> s, opened |-> o, probes |-> p, events |-> e]
                     /\ s = b.state /\ o = b.opened /\ p = b.probes /\ e = b.events
  BY FourFields
<1>3. Tripped(b) = [state |-> "OPEN", opened |-> 0, probes |-> 0, events |-> e]
  <2>1. PICK c : c = [b EXCEPT !.state = "OPEN"]
    OBVIOUS
  <2>2. c = [state |-> "OPEN", opened |-> o, probes |-> p, events |-> e]
    BY <2>1
  <2>3. PICK d : d = [c EXCEPT !.opened = 0]
    OBVIOUS
  <2>4. d = [state |-> "OPEN", opened |-> 0, probes |-> p, events |-> e]
    BY <2>2, <2>3
  <2>5. [d EXCEPT !.probes = 0] = [state |-> "OPEN", opened |-> 0, probes |-> 0, events |-> e]
    BY <2>4
  <2> QED
    BY <2>1, <2>3, <2>5 DEF Tripped
<1>4. Closed(b) = [state |-> "CLOSED", opened |-> 0, probes |-> 0, events |-> e]
  <2>1. PICK c : c = [b EXCEPT !.state = "CLOSED"]
    OBVIOUS
  <2>2. c = [state |-> "CLOSED", opened |-> o, probes |-> p, events |-> e]
    BY <2>1
  <2>3. PICK d : d = [c EXCEPT !.opened = 0]
    OBVIOUS
  <2>4. d = [state |-> "CLOSED", opened |-> 0, probes |-> p, events |-> e]
    BY <2>2, <2>3
  <2>5. [d EXCEPT !.probes = 0] = [state |-> "CLOSED", opened |-> 0, probes |-> 0, events |-> e]
    BY <2>4
  <2> QED
    BY <2>1, <2>3, <2>5 DEF Closed
<1>5. Recording(Current(b))
  <2>1. CASE b.state = "OPEN" /\ b.opened >= OpenFor
    <3>1. Current(b) = [state |-> "HALF_OPEN", opened |-> o, probes |-> 0, events |-> <<>>]
      BY <2>1 DEF Current
    <3>2. <<>> \in Seq(Event)
      BY EmptySeq
    <3> QED
      BY <1>2, <3>1, <3>2
  <2>2. CASE ~(b.state = "OPEN" /\ b.opened >= OpenFor)
    BY <2>2 DEF Current
  <2> QED
    BY <2>1, <2>2
<1> QED
  BY <1>1, <1>2, <1>3, <1>4, <1>5

LEMMA EventsChange ==
  ASSUME NEW b, Recording(b)
  PROVE  /\ Recording(Pruned(b)) /\ Recording(Aged(b))
         /\ \A failed, slow \in BOOLEAN : Recording(With(b, failed, slow))
<1>1. ASSUME NEW x, NEW y, NEW z, NEW e \in Seq(Event)
      PROVE  Recording([state |-> x, opened |-> y, probes |-> z, events |-> e])
  BY DEF Recording
<1> PICK s, o, p, es : /\ b = [state |-> s, opened |-> o, probes |-> p, events |-> es]
                      /\ s = b.state /\ o = b.opened /\ p = b.probes /\ es = b.events
  BY FourFields
<1> DEFINE n == Len(b.events)
           k == FirstRecent(b.events)
<1>2. n \in Nat /\ k \in 1 .. n + 1 /\ DOMAIN b.events = 1 .. n /\ \A i \in 1 .. n : b.events[i] \in Event
  <2>1. b.events \in Seq(Event)
    BY DEF Recording
  <2>2. n \in Nat /\ DOMAIN b.events = 1 .. n /\ \A i \in 1 .. n : b.events[i] \in Event
    BY <2>1, LenProperties, ElementOfSeq
  <2> QED BY <2>1, <2>2, FirstRecentExists
<1>3. Recording(Pruned(b))
  <2>1. PICK e : e = SubSeq(b.events, k, n)
    OBVIOUS
  <2>2. e \in Seq(Event)
    <3>1. k \in Int /\ n \in Int /\ \A i \in k .. n : b.events[i] \in Event
      BY <1>2
    <3> HIDE DEF k, n
    <3> QED
      BY <2>1, <3>1, SubSeqProperties
  <2>3. Pruned(b) = [state |-> s, opened |-> o, probes |-> p, events |-> e]
    <3>1. Pruned(b) = [b EXCEPT !.events = e]
      BY <2>1 DEF Pruned
    <3> QED
      BY <3>1
  <2> QED
    BY <1>1, <2>2, <2>3
<1>4. Recording(Aged(b))
  <2>1. PICK e : e = [i \in DOMAIN b.events |-> [b.events[i] EXCEPT !.age = Older(b.events[i].age, Window + 1)]]
    OBVIOUS
  <2>2. PICK y : y = IF b.state = "OPEN" THEN Older(b.opened, OpenFor) ELSE b.opened
    OBVIOUS
  <2>3. \A i \in 1 .. n : e[i] \in Event
    <3>1. SUFFICES ASSUME NEW i \in 1 .. n PROVE e[i] \in Event
      OBVIOUS
    <3>2. b.events[i] \in Event /\ e[i] = [b.events[i] EXCEPT !.age = Older(b.events[i].age, Window + 1)]
      BY <1>2, <2>1
    <3>3. Older(b.events[i].age, Window + 1) \in 0 .. Window + 1
      BY <3>2, DurationAssumption DEF Older, Event
    <3> QED
      BY <3>2, <3>3 DEF Event
  <2>4. e \in Seq(Event)
    <3>1. e \in [1 .. n -> Event]
      BY <1>2, <2>1, <2>3
    <3> HIDE DEF n
    <3> QED
      BY <1>2, <3>1, SeqDef
  <2>5. Aged(b) = [state |-> s, opened |-> y, probes |-> p, events |-> e]
    <3>1. Aged(b) = [b EXCEPT !.opened = y, !.events = e]
      BY <2>1, <2>2 DEF Aged
    <3> QED
      BY <3>1
  <2> QED
    BY <1>1, <2>4, <2>5
<1>5. ASSUME NEW failed \in BOOLEAN, NEW slow \in BOOLEAN PROVE Recording(With(b, failed, slow))
  <2>1. PICK x : x = [age |-> 0, failed |-> failed, slow |-> slow]
    OBVIOUS
  <2>2. x \in Event
    BY <2>1, DurationAssumption DEF Event
  <2>3. Append(b.events, x) \in Seq(Event)
    BY <2>2, AppendProperties DEF Recording
  <2>4. With(b, failed, slow) = [state |-> s, opened |-> o, probes |-> p, events |-> Append(es, x)]
    <3>1. With(b, failed, slow) = [b EXCEPT !.events = Append(es, x)]
      BY <2>1 DEF With
    <3> QED
      BY <3>1
  <2> QED
    BY <1>1, <2>3, <2>4
<1> QED
  BY <1>3, <1>4, <1>5

(* What is recorded of a call that ends. *)
LEMMA ResultsChange ==
  ASSUME NEW b, Recording(b), NEW slow \in BOOLEAN
  PROVE  Recording(Succeeded(b, slow)) /\ Recording(Failed(b, slow))
<1>1. \A c : Recording(c) => Recording(Evaluated(c))
  BY CountsChange, EventsChange DEF Evaluated
<1>2. PICK c : c = Current(b)
  OBVIOUS
<1>3. Recording(c)
  BY <1>2, CountsChange
<1>4. Recording(With(c, TRUE, slow)) /\ Recording(With(c, FALSE, slow))
  BY <1>3, EventsChange
<1>5. Recording(Probed(c, slow))
  <2>1. PICK d : d = [With(c, FALSE, slow) EXCEPT !.probes = @ + 1]
    OBVIOUS
  <2>2. Recording(d)
    BY <1>4, <2>1 DEF Recording
  <2>3. Recording(Tripped(Pruned(d))) /\ Recording(Closed(Pruned(d)))
    BY <2>2, CountsChange, EventsChange
  <2> QED
    BY <2>1, <2>2, <2>3 DEF Probed
<1>6. Recording(Tripped(c)) /\ Recording(Evaluated(With(c, TRUE, slow))) /\ Recording(Evaluated(With(c, FALSE, slow)))
  BY <1>1, <1>3, <1>4, CountsChange
<1> QED
  BY <1>2, <1>3, <1>5, <1>6 DEF Succeeded, Failed

(* circuit.py and its threads: the types, and that probes are counted while *)
(* half open only.                                                          *)
THEOREM BreakerTypes == Spec => []TypeOK
<1> DEFINE Inv == /\ Sound(breaker) /\ Recording(breaker)
                  /\ call \in [Threads -> Calls] /\ passed \in Nat /\ faults \in 0 .. MaxFaults
<1>1. Init => Inv
  <2> SUFFICES ASSUME Init PROVE Inv
    OBVIOUS
  <2>1. Recording(NewBreaker)
    BY EmptySeq DEF NewBreaker, Recording
  <2> QED
    BY <2>1, Initially, BoundAssumption DEF Init, Calls
<1>2. Inv /\ [Next]_vars => Inv'
  <2> SUFFICES ASSUME Inv, [Next]_vars PROVE Inv'
    OBVIOUS
  <2>1. Sound(breaker)'
    BY StepKeepsSound
  <2>2. Recording(breaker)'
    <3>1. Recording(breaker')
      BY StepIsMethod, CountsChange, EventsChange, ResultsChange
    <3> QED
      BY <3>1 DEF Recording
  <2>3. ASSUME NEW b, NEW t \in Threads, NEW mine \in Calls, Becomes(b, t, mine)
        PROVE  call' \in [Threads -> Calls]
    BY <2>3 DEF Becomes, Calls
  <2>4. CASE Next
    <3>1. ASSUME NEW t \in Threads, Ask(t) PROVE call' \in [Threads -> Calls] /\ passed' \in Nat /\ faults' = faults
      <4>1. PICK mine \in Calls : Becomes(Current(breaker), t, mine)
        BY <3>1 DEF Ask, Calls
      <4> QED
        BY <2>3, <3>1, <4>1 DEF Ask
    <3>2. ASSUME NEW t \in Threads, Succeed(t)
          PROVE  call' \in [Threads -> Calls] /\ passed' \in Nat /\ faults' \in 0 .. MaxFaults
      <4>1. PICK b : Becomes(b, t, "none")
        BY <3>2 DEF Succeed
      <4>2. passed' \in {0, passed, passed + 1} /\ (faults' = faults \/ (faults < MaxFaults /\ faults' = faults + 1))
        BY <3>2 DEF Succeed
      <4>3. "none" \in Calls
        BY DEF Calls
      <4> QED
        BY <2>3, <4>1, <4>2, <4>3, BoundAssumption
    <3>3. ASSUME NEW t \in Threads, Fail(t) \/ Abandon(t)
          PROVE  call' \in [Threads -> Calls] /\ passed' \in Nat /\ faults' \in 0 .. MaxFaults
      <4>1. PICK b : Becomes(b, t, "none")
        BY <3>3 DEF Fail, Abandon
      <4>2. passed' \in {0, passed} /\ faults < MaxFaults /\ faults' = faults + 1
        BY <3>3 DEF Fail, Abandon
      <4>3. "none" \in Calls
        BY DEF Calls
      <4> QED
        BY <2>3, <4>1, <4>2, <4>3, BoundAssumption
    <3>4. CASE Tick
      BY <2>1, <2>2, <3>4 DEF Tick
    <3> QED
      BY <2>1, <2>2, <2>4, <3>1, <3>2, <3>3, <3>4 DEF Next
  <2>5. CASE UNCHANGED vars
    BY <2>1, <2>2, <2>5 DEF vars
  <2> QED
    BY <2>4, <2>5
<1>3. Inv => TypeOK
  <2> SUFFICES ASSUME Inv PROVE TypeOK
    OBVIOUS
  <2>1. breaker.probes \in 0 .. HalfOpenMax
    BY ProbeAssumption DEF Sound
  <2>2. breaker \in Breaker
    BY <2>1 DEF Sound, Recording, Breaker
  <2> QED
    BY <2>2 DEF Sound, TypeOK
<1> QED
  BY <1>1, <1>2, <1>3, PTL DEF Spec

-----------------------------------------------------------------------------
(***************************************************************************)
(* ProviderFallback: the providers of a gateway.  The inductive invariant  *)
(* says of each provider's gate that its breaker is sound, that its count  *)
(* is that of the failures in a row, and that the failures that its        *)
(* breaker remembers are none that came later than the last such row; and  *)
(* of the prompt under way who has spoken and whose turn it is.            *)
(***************************************************************************)

(* The events of a breaker: the older, the earlier, and slow only if they     *)
(* failed; t is the time since the last row of failures, and none that counts *)
(* is a failure after it.                                                     *)
Timely(es, t) ==
    /\ es \in Seq(Event)
    /\ \A i, j \in 1 .. Len(es) : i <= j => es[j].age <= es[i].age
    /\ \A i \in 1 .. Len(es) : es[i].slow => es[i].failed
    /\ \A i \in 1 .. Len(es) : es[i].failed => t <= es[i].age \/ es[i].age > Window

LEMMA NothingIsTimely == ASSUME NEW t PROVE Timely(<<>>, t)
BY DEF Timely

(* What is left counts, and is as timely as the whole. *)
LEMMA RecentIsTimely ==
  ASSUME NEW es, NEW t, Timely(es, t), NEW r, r = SubSeq(es, FirstRecent(es), Len(es))
  PROVE  Timely(r, t) /\ \A i \in 1 .. Len(r) : r[i].age <= Window
<1>1. es \in Seq(Event)
  BY DEF Timely
<1>2. PICK n \in Nat : n = Len(es)
  BY <1>1
<1>3. PICK k \in 1 .. n + 1 : k = FirstRecent(es)
  BY <1>1, <1>2, FirstRecentExists
<1>4. k <= n => es[k].age <= Window
  BY <1>1, <1>2, <1>3, FirstRecentExists
<1>5. \A i \in k .. n : es[i] \in Event
  BY <1>1, <1>2, <1>3
<1>6. /\ r \in Seq(Event)
      /\ Len(r) = IF k <= n THEN n - k + 1 ELSE 0
      /\ \A i \in 1 .. n - k + 1 : r[i] = es[k + i - 1]
  BY <1>2, <1>3, <1>5, SubSeqProperties
<1>7. PICK m \in Nat : m = Len(r) /\ m = n - k + 1
  BY <1>3, <1>6
<1>8. ASSUME NEW i \in 1 .. m PROVE r[i] = es[k + i - 1] /\ k + i - 1 \in 1 .. n
  <2>1. i \in 1 .. n - k + 1 /\ k + i - 1 \in 1 .. n
    BY <1>7
  <2> QED BY <1>6, <2>1
<1>9. ASSUME NEW i \in 1 .. m, NEW j \in 1 .. m, i <= j PROVE r[j].age <= r[i].age
  <2>1. PICK a \in 1 .. n : a = k + i - 1
    BY <1>8
  <2>2. PICK b \in 1 .. n : b = k + j - 1
    BY <1>8
  <2>3. a <= b
    BY <1>9, <2>1, <2>2
  <2>4. es[b].age <= es[a].age
    BY <1>2, <2>3 DEF Timely
  <2>5. r[i] = es[a] /\ r[j] = es[b]
    BY <1>8, <2>1, <2>2
  <2> QED BY <2>4, <2>5
<1>10. ASSUME NEW i \in 1 .. m PROVE r[i].age <= Window
  <2>1. PICK a \in 1 .. n : a = k + i - 1 /\ k <= a
    BY <1>8
  <2>2. k \in 1 .. n /\ es[a].age <= es[k].age /\ es[k].age <= Window
    BY <1>2, <1>4, <2>1 DEF Timely
  <2>3. es[a].age \in Nat /\ es[k].age \in Nat
    BY <1>5, <2>1, <2>2, DurationAssumption DEF Event
  <2>4. es[a].age <= Window
    BY <2>2, <2>3, DurationAssumption
  <2>5. r[i] = es[a]
    BY <1>8, <2>1
  <2> QED BY <2>4, <2>5
<1>11. \A i \in 1 .. m : /\ r[i].slow => r[i].failed
                         /\ r[i].failed => t <= r[i].age \/ r[i].age > Window
  BY <1>2, <1>8 DEF Timely
<1> QED BY <1>6, <1>7, <1>9, <1>10, <1>11 DEF Timely

(* A call that is recorded is the youngest event; if it failed, the row ends *)
(* with it.                                                                  *)
LEMMA AppendIsTimely ==
  ASSUME NEW es, NEW t, Timely(es, t), NEW e \in Event, e.age = 0,
         e.failed => t <= e.age, e.slow => e.failed,
         NEW r, r = Append(es, e)
  PROVE  Timely(r, t)
<1>3. es \in Seq(Event)
  BY DEF Timely
<1>4. PICK n \in Nat : n = Len(es)
  BY <1>3
<1>5. /\ r \in Seq(Event) /\ Len(r) = n + 1 /\ r[n + 1] = e
      /\ \A i \in 1 .. n : r[i] = es[i] /\ es[i] \in Event
  BY <1>3, <1>4
<1>6. \A i \in 1 .. n : es[i].age \in Nat
  BY <1>5, DurationAssumption DEF Event
<1>7. ASSUME NEW i \in 1 .. n + 1, NEW j \in 1 .. n + 1, i <= j PROVE r[j].age <= r[i].age
  <2>1. CASE j = n + 1
    <3>1. r[j].age = 0
      BY <1>5, <2>1
    <3>2. CASE i = n + 1
      BY <1>5, <2>1, <3>1, <3>2
    <3>3. CASE i # n + 1
      BY <1>5, <1>6, <3>1, <3>3
    <3> QED BY <3>2, <3>3
  <2>2. CASE j # n + 1
    BY <1>4, <1>5, <1>7, <2>2 DEF Timely
  <2> QED BY <2>1, <2>2
<1>8. ASSUME NEW i \in 1 .. n + 1
      PROVE  /\ r[i].slow => r[i].failed
             /\ r[i].failed => t <= r[i].age \/ r[i].age > Window
  <2>1. CASE i = n + 1
    BY <1>5, <2>1
  <2>2. CASE i # n + 1
    BY <1>4, <1>5, <2>2 DEF Timely
  <2> QED BY <2>1, <2>2
<1> QED BY <1>5, <1>7, <1>8 DEF Timely

LEMMA ProductIsPositive == \A x, y \in Nat \ {0} : x * y \in Nat \ {0}
OBVIOUS

(* Too bad is only what has an event that failed or was slow. *)
LEMMA TooBadHasOne ==
  ASSUME NEW b, b.events \in Seq(Event), TooBad(b)
  PROVE  \E i \in 1 .. Len(b.events) : b.events[i].failed \/ b.events[i].slow
<1>1. PICK n \in Nat \ {0} : n = Len(b.events) /\ DOMAIN b.events = 1 .. n
  BY DEF TooBad
<1>2. Percent \in Nat \ {0}
  BY ThresholdAssumption
<1>3. PICK m \in Nat \ {0} : m = Percent * n
  BY <1>1, <1>2, ProductIsPositive
<1>4. ~Rate(b, {})
  BY <1>1, <1>3, FS_EmptySet DEF Rate
<1>5. {i \in DOMAIN b.events : b.events[i].failed} # {} \/ {i \in DOMAIN b.events : b.events[i].slow} # {}
  BY <1>4 DEF TooBad
<1> QED BY <1>1, <1>5

-----------------------------------------------------------------------------
(* What the methods of a breaker make of its events. *)

(* A breaker has the fields of one, whatever its probes. *)
Shaped(b) == b = [state |-> b.state, opened |-> b.opened, probes |-> b.probes, events |-> b.events]

LEMMA PrunedTimely ==
  ASSUME NEW b, Shaped(b), NEW t, Timely(b.events, t)
  PROVE  /\ Shaped(Pruned(b)) /\ Pruned(b).state = b.state
         /\ Timely(Pruned(b).events, t)
         /\ \A i \in 1 .. Len(Pruned(b).events) : Pruned(b).events[i].age <= Window
<1>1. PICK es : es = SubSeq(b.events, FirstRecent(b.events), Len(b.events))
  OBVIOUS
<1>2. Timely(es, t) /\ \A i \in 1 .. Len(es) : es[i].age <= Window
  BY <1>1, RecentIsTimely
<1>3. Pruned(b) = [state |-> b.state, opened |-> b.opened, probes |-> b.probes, events |-> es]
  <2>1. Pruned(b) = [b EXCEPT !.events = es]
    BY <1>1 DEF Pruned
  <2> QED BY <2>1 DEF Shaped
<1> QED BY <1>2, <1>3 DEF Shaped

LEMMA TrippedKeepsEvents ==
  ASSUME NEW b, Shaped(b)
  PROVE  /\ Tripped(b).events = b.events /\ Closed(b).events = b.events
         /\ Closed(b).state = "CLOSED"
<1>1. PICK c : c = [b EXCEPT !.state = "OPEN", !.opened = 0, !.probes = 0]
  OBVIOUS
<1>2. c.events = b.events
  BY <1>1 DEF Shaped
<1>3. PICK d : d = [b EXCEPT !.state = "CLOSED", !.opened = 0, !.probes = 0]
  OBVIOUS
<1>4. d.events = b.events /\ d.state = "CLOSED"
  BY <1>3 DEF Shaped
<1> QED BY <1>1, <1>2, <1>3, <1>4 DEF Tripped, Closed

(* What is left of a breaker that is too bad holds a failure of the last row. *)
LEMMA TooBadIsARow ==
  ASSUME NEW b, Shaped(b), NEW t \in Nat, Timely(b.events, t), TooBad(Pruned(b))
  PROVE  t <= Window
<1>1. PICK p : p = Pruned(b)
  OBVIOUS
<1>2. Timely(p.events, t) /\ \A i \in 1 .. Len(p.events) : p.events[i].age <= Window
  BY <1>1, PrunedTimely
<1>3. p.events \in Seq(Event)
  BY <1>2 DEF Timely
<1>4. PICK i \in 1 .. Len(p.events) : p.events[i].failed \/ p.events[i].slow
  BY <1>1, <1>3, TooBadHasOne
<1>5. p.events[i].failed
  BY <1>2, <1>4 DEF Timely
<1>6. p.events[i].age \in Nat /\ p.events[i].age <= Window
  <2>1. p.events[i] \in Event
    BY <1>3, <1>4
  <2>2. p.events[i].age \in Nat
    BY <2>1, DurationAssumption DEF Event
  <2> QED BY <1>2, <1>4, <2>2
<1>7. t <= p.events[i].age
  BY <1>2, <1>5, <1>6, DurationAssumption DEF Timely
<1> QED BY <1>6, <1>7, DurationAssumption

LEMMA EvaluatedTimely ==
  ASSUME NEW b, Shaped(b), b.state = "CLOSED", NEW t \in Nat, Timely(b.events, t)
  PROVE  /\ Timely(Evaluated(b).events, t)
         /\ Evaluated(b).state = "OPEN" => t <= Window
<1>1. PICK p : p = Pruned(b)
  OBVIOUS
<1>2. Shaped(p) /\ Timely(p.events, t) /\ p.state = "CLOSED"
  BY <1>1, PrunedTimely
<1>3. Tripped(p).events = p.events
  BY <1>2, TrippedKeepsEvents
<1>4. Evaluated(b) = IF TooBad(p) THEN Tripped(p) ELSE p
  BY <1>1 DEF Evaluated
<1>5. TooBad(p) => t <= Window
  BY <1>1, TooBadIsARow
<1> QED BY <1>2, <1>3, <1>4, <1>5

(* A call that is recorded. *)
LEMMA WithTimely ==
  ASSUME NEW b, Shaped(b), NEW t, Timely(b.events, t),
         NEW failed \in BOOLEAN, NEW slow \in BOOLEAN,
         slow = FALSE \/ failed = TRUE, failed = FALSE \/ t = 0
  PROVE  /\ Shaped(With(b, failed, slow)) /\ With(b, failed, slow).state = b.state
         /\ Timely(With(b, failed, slow).events, t)
<1>1. PICK e : e = [age |-> 0, failed |-> failed, slow |-> slow]
  OBVIOUS
<1>2. e \in Event /\ e.age = 0 /\ e.failed = failed /\ e.slow = slow
  BY <1>1, DurationAssumption DEF Event
<1>3. e.slow => e.failed
  BY <1>2
<1>4. e.failed => t <= e.age
  <2>1. CASE failed = FALSE
    BY <1>2, <2>1
  <2>2. CASE t = 0
    BY <1>2, <2>2
  <2> QED BY <2>1, <2>2
<1>5. PICK es : es = Append(b.events, e)
  OBVIOUS
<1>6. Timely(es, t)
  BY <1>2, <1>3, <1>4, <1>5, AppendIsTimely
<1>7. With(b, failed, slow) = [b EXCEPT !.events = es]
  BY <1>1, <1>5 DEF With
<1>8. With(b, failed, slow) =
        [state |-> b.state, opened |-> b.opened, probes |-> b.probes, events |-> es]
  BY <1>7 DEF Shaped
<1> QED BY <1>6, <1>8 DEF Shaped

LEMMA CurrentTimely ==
  ASSUME NEW b, Sound(b), NEW t, Timely(b.events, t)
  PROVE  Timely(Current(b).events, t) /\ Shaped(Current(b))
<1>1. Shaped(Current(b)) /\ (Current(b).events = b.events \/ Current(b).events = <<>>)
  <2>1. CASE b.state = "OPEN" /\ b.opened >= OpenFor
    <3>1. PICK c : c = [b EXCEPT !.state = "HALF_OPEN", !.probes = 0, !.events = <<>>]
      OBVIOUS
    <3>2. c.events = <<>>
      BY <3>1 DEF Sound
    <3>3. Current(b) = c
      BY <2>1, <3>1 DEF Current
    <3>4. Sound(Current(b))
      BY CurrentSound
    <3> QED BY <3>2, <3>3, <3>4 DEF Shaped, Sound
  <2>2. CASE ~(b.state = "OPEN" /\ b.opened >= OpenFor)
    BY <2>2 DEF Current, Shaped, Sound
  <2> QED BY <2>1, <2>2
<1> QED BY <1>1, NothingIsTimely

(* A failure ends a row, so that everything is timely. *)
LEMMA FailedTimely ==
  ASSUME NEW b, Sound(b), NEW t, Timely(b.events, t), NEW slow \in BOOLEAN
  PROVE  Timely(Failed(b, slow).events, 0)
<1>1. Sound(Current(b)) /\ Shaped(Current(b)) /\ Timely(Current(b).events, t)
  BY CurrentSound, CurrentTimely
<1>2. PICK c : c = Current(b)
  OBVIOUS
<1>3. Timely(c.events, 0)
  <2>1. c.events \in Seq(Event)
    BY <1>1, <1>2 DEF Timely
  <2>2. ASSUME NEW i \in 1 .. Len(c.events) PROVE 0 <= c.events[i].age
    <3>1. c.events[i] \in Event
      BY <2>1
    <3> QED BY <3>1, DurationAssumption DEF Event
  <2> QED BY <1>1, <1>2, <2>1, <2>2 DEF Timely
<1>4. CASE c.state = "OPEN"
  BY <1>2, <1>3, <1>4 DEF Failed
<1>5. CASE c.state = "HALF_OPEN"
  <2>1. Failed(b, slow) = Tripped(c)
    BY <1>2, <1>5 DEF Failed
  <2> QED BY <1>1, <1>2, <1>3, <2>1, TrippedKeepsEvents
<1>6. CASE c.state = "CLOSED"
  <2>1. PICK w : w = With(c, TRUE, slow)
    OBVIOUS
  <2>2. Shaped(w) /\ w.state = "CLOSED" /\ Timely(w.events, 0)
    BY <1>1, <1>2, <1>3, <1>6, <2>1, WithTimely
  <2>3. Failed(b, slow) = Evaluated(w)
    BY <1>2, <1>6, <2>1 DEF Failed
  <2> QED BY <2>2, <2>3, EvaluatedTimely
<1> QED BY <1>1, <1>2, <1>4, <1>5, <1>6 DEF Sound, States

(* A success leaves the row as it is, and opens a breaker only for the row. *)
LEMMA SucceededTimely ==
  ASSUME NEW b, Sound(b), NEW t \in Nat, Timely(b.events, t)
  PROVE  /\ Timely(Succeeded(b, FALSE).events, t)
         /\ Succeeded(b, FALSE).state = "OPEN" => Succeeded(b, FALSE) = b \/ t <= Window
<1>1. Sound(Current(b)) /\ Shaped(Current(b)) /\ Timely(Current(b).events, t)
  BY CurrentSound, CurrentTimely
<1>2. PICK c : c = Current(b)
  OBVIOUS
<1>3. CASE c.state = "OPEN"
  BY <1>1, <1>2, <1>3, CurrentSound DEF Succeeded
<1>4. PICK w : w = With(c, FALSE, FALSE)
  OBVIOUS
<1>5. Shaped(w) /\ w.state = c.state /\ Timely(w.events, t)
  BY <1>1, <1>2, <1>4, WithTimely
<1>6. CASE c.state = "HALF_OPEN"
  <2>1. PICK d : d = [w EXCEPT !.probes = @ + 1]
    OBVIOUS
  <2>2. d = [state |-> w.state, opened |-> w.opened, probes |-> w.probes + 1,
             events |-> w.events]
    BY <1>5, <2>1 DEF Shaped
  <2>3. Shaped(d) /\ Timely(d.events, t) /\ d.state = "HALF_OPEN"
    BY <1>5, <1>6, <2>2 DEF Shaped
  <2>4. PICK p : p = Pruned(d)
    OBVIOUS
  <2>5. Shaped(p) /\ Timely(p.events, t)
    BY <2>3, <2>4, PrunedTimely
  <2>6. Succeeded(b, FALSE) = IF d.probes < HalfOpenMax THEN d
                              ELSE IF TooBad(p) THEN Tripped(p) ELSE Closed(p)
    BY <1>2, <1>4, <1>6, <2>1, <2>4 DEF Succeeded, Probed
  <2>7. TooBad(p) => t <= Window
    BY <2>3, <2>4, TooBadIsARow
  <2>8. Tripped(p).events = p.events /\ Closed(p).events = p.events /\ Closed(p).state = "CLOSED"
    BY <2>5, TrippedKeepsEvents
  <2> QED BY <2>3, <2>5, <2>6, <2>7, <2>8
<1>7. CASE c.state = "CLOSED"
  <2>1. Succeeded(b, FALSE) = Evaluated(w)
    BY <1>2, <1>4, <1>7 DEF Succeeded
  <2> QED BY <1>5, <1>7, <2>1, EvaluatedTimely
<1> QED BY <1>1, <1>2, <1>3, <1>6, <1>7 DEF Sound, States

(* One unit of time later events are as timely, since both ages grow. *)
LEMMA AgedTimely ==
  ASSUME NEW b, Sound(b), NEW t \in 0 .. Forgotten, Timely(b.events, t)
  PROVE  Timely(Aged(b).events, Older(t, Forgotten))
<1>1. PICK es : es = [i \in DOMAIN b.events |->
                        [b.events[i] EXCEPT !.age = Older(b.events[i].age, Window + 1)]]
  OBVIOUS
<1>2. b.events \in Seq(Event)
  BY DEF Timely
<1>3. PICK n \in Nat : n = Len(b.events) /\ DOMAIN b.events = 1 .. n
  BY <1>2
<1>4. PICK u : u = Older(t, Forgotten)
  OBVIOUS
<1>5. t \in Nat /\ u \in Nat /\ u <= t + 1
  BY <1>4, DurationAssumption DEF Older, Forgotten
<1>6. ASSUME NEW i \in 1 .. n
      PROVE  /\ b.events[i].age \in 0 .. Window + 1
             /\ es[i] \in Event
             /\ es[i].age = Older(b.events[i].age, Window + 1)
             /\ es[i].failed = b.events[i].failed /\ es[i].slow = b.events[i].slow
  <2>1. PICK e : e = b.events[i] /\ e \in Event
    BY <1>2, <1>3
  <2>2. e.age \in 0 .. Window + 1
    BY <2>1 DEF Event
  <2>3. PICK a : a = Older(e.age, Window + 1)
    OBVIOUS
  <2>4. a \in 0 .. Window + 1
    BY <2>2, <2>3, DurationAssumption DEF Older
  <2>5. es[i] = [e EXCEPT !.age = a]
    BY <1>1, <1>3, <2>1, <2>3
  <2>6. es[i] = [age |-> a, failed |-> e.failed, slow |-> e.slow]
    BY <2>1, <2>5 DEF Event
  <2>7. es[i] \in Event
    BY <2>1, <2>4, <2>6 DEF Event
  <2> QED BY <2>1, <2>2, <2>3, <2>6, <2>7
<1>7. es \in Seq(Event) /\ Len(es) = n
  <2>1. DOMAIN es = 1 .. n
    BY <1>1, <1>3
  <2>2. es = [i \in 1 .. n |-> es[i]]
    BY <1>1, <1>3
  <2>3. es \in [1 .. n -> Event]
    BY <1>6, <2>2
  <2> QED BY <2>1, <2>3
<1>8. ASSUME NEW i \in 1 .. n, NEW j \in 1 .. n, i <= j PROVE es[j].age <= es[i].age
  <2>1. b.events[j].age <= b.events[i].age
    BY <1>3, <1>8 DEF Timely
  <2>2. PICK x \in 0 .. Window + 1 : x = b.events[i].age /\ es[i].age = Older(x, Window + 1)
    BY <1>6
  <2>3. PICK y \in 0 .. Window + 1 : y = b.events[j].age /\ es[j].age = Older(y, Window + 1)
    BY <1>6
  <2>4. y <= x
    BY <2>1, <2>2, <2>3
  <2>5. Older(y, Window + 1) <= Older(x, Window + 1)
    BY <2>4, DurationAssumption DEF Older
  <2> QED BY <2>2, <2>3, <2>5
<1>9. ASSUME NEW i \in 1 .. n, es[i].failed PROVE u <= es[i].age \/ es[i].age > Window
  <2>1. PICK x \in 0 .. Window + 1 : x = b.events[i].age /\ es[i].age = Older(x, Window + 1)
    BY <1>6
  <2>2. t <= x \/ x > Window
    BY <1>3, <1>6, <1>9, <2>1 DEF Timely
  <2>3. PICK y : y = Older(x, Window + 1)
    OBVIOUS
  <2>4. u <= y \/ y > Window
    BY <1>5, <2>2, <2>3, DurationAssumption DEF Older
  <2> QED BY <2>1, <2>3, <2>4
<1>10. \A i \in 1 .. n : es[i].slow => es[i].failed
  BY <1>3, <1>6 DEF Timely
<1>11. Timely(es, u)
  BY <1>7, <1>8, <1>9, <1>10 DEF Timely
<1>12. PICK c : c = [b EXCEPT !.opened = IF b.state = "OPEN" THEN Older(@, OpenFor) ELSE @]
  OBVIOUS
<1>13. c = [state |-> b.state, opened |-> c.opened, probes |-> b.probes, events |-> b.events]
  BY <1>12 DEF Sound
<1>14. Aged(b) = [c EXCEPT !.events = es]
  BY <1>1, <1>12 DEF Aged
<1>15. Aged(b).events = es
  BY <1>13, <1>14
<1> QED BY <1>4, <1>11, <1>15

-----------------------------------------------------------------------------
(* The gates: a breaker that refuses has opened for a row within the window, *)
(* and the count is that of the failures in a row.                           *)
OpenForARow(b, t) == b.state = "OPEN" /\ b.opened < OpenFor => t <= Window + b.opened

GateIsSound(g, s, t) ==
    /\ g = [breaker |-> g.breaker, consecutive |-> g.consecutive, tripped |-> g.tripped]
    /\ g.tripped \in BOOLEAN
    /\ g.consecutive = s /\ s \in 0 .. TripAfter
    /\ t \in 0 .. Forgotten
    /\ Sound(g.breaker)
    /\ Timely(g.breaker.events, t)
    /\ OpenForARow(g.breaker, t)

LEMMA TimesAreNumbers == Forgotten \in Nat /\ Window \in Nat /\ OpenFor \in Nat /\ TripAfter \in Nat
BY DurationAssumption, ChainAssumption DEF Forgotten

LEMMA SyncedKept ==
  ASSUME NEW g, NEW s, NEW t, GateIsSound(g, s, t)
  PROVE  GateIsSound(Synced(g), s, t)
<1>1. PICK b : b = Current(g.breaker)
  OBVIOUS
<1>2. Sound(b) /\ Timely(b.events, t) /\ (b.state = "OPEN" => b = g.breaker)
  BY <1>1, CurrentSound, CurrentTimely DEF GateIsSound
<1>3. PICK x : x = (g.tripped /\ b.state = "OPEN")
  OBVIOUS
<1>4. x \in BOOLEAN
  BY <1>3
<1>5. Synced(g) = [breaker |-> b, consecutive |-> g.consecutive, tripped |-> x]
  <2>1. Synced(g) = [g EXCEPT !.breaker = b, !.tripped = x]
    BY <1>1, <1>3 DEF Synced
  <2> QED BY <2>1 DEF GateIsSound
<1>6. OpenForARow(b, t)
  BY <1>2 DEF GateIsSound, OpenForARow
<1> QED BY <1>2, <1>4, <1>5, <1>6 DEF GateIsSound

LEMMA GateSucceededKept ==
  ASSUME NEW g, NEW s, NEW t, GateIsSound(g, s, t)
  PROVE  GateIsSound(GateSucceeded(g), 0, t)
<1>1. PICK b : b = Succeeded(g.breaker, FALSE)
  OBVIOUS
<1>2. t \in Nat
  BY TimesAreNumbers DEF GateIsSound
<1>3. /\ Sound(b) /\ Timely(b.events, t)
      /\ b.state = "OPEN" => b = g.breaker \/ t <= Window
  BY <1>1, <1>2, SucceededSound, SucceededTimely DEF GateIsSound
<1>4. OpenForARow(b, t)
  <2>1. CASE b = g.breaker
    BY <2>1 DEF GateIsSound
  <2>2. CASE t <= Window
    <3>1. b.opened \in Nat
      BY <1>3, TimesAreNumbers DEF Sound
    <3> QED BY <1>2, <2>2, <3>1, TimesAreNumbers DEF OpenForARow
  <2>3. CASE b.state # "OPEN"
    BY <2>3 DEF OpenForARow
  <2> QED BY <1>3, <2>1, <2>2, <2>3
<1>5. GateSucceeded(g) = [breaker |-> b, consecutive |-> 0, tripped |-> FALSE]
  BY <1>1 DEF GateSucceeded
<1>6. 0 \in 0 .. TripAfter
  BY TimesAreNumbers
<1> QED BY <1>3, <1>4, <1>5, <1>6 DEF GateIsSound

LEMMA GateFailedKept ==
  ASSUME NEW g, NEW s, NEW t, GateIsSound(g, s, t), NEW slow \in BOOLEAN,
         NEW u, u = Older(s, TripAfter)
  PROVE  GateIsSound(GateFailed(g, slow), u, IF u = TripAfter THEN 0 ELSE t)
<1>1. s \in 0 .. TripAfter /\ g.consecutive = s /\ t \in 0 .. Forgotten
  BY DEF GateIsSound
<1>2. CASE InARow(g)
  <2>1. u = TripAfter
    BY <1>1, <1>2, TimesAreNumbers DEF InARow, Older
  <2>2. PICK b : b = Failed(g.breaker, slow)
    OBVIOUS
  <2>3. Sound(b) /\ Timely(b.events, 0)
    BY <2>2, FailedSound, FailedTimely DEF GateIsSound
  <2>4. b.opened \in Nat
    BY <2>3, TimesAreNumbers DEF Sound
  <2>5. OpenForARow(b, 0)
    BY <2>4, TimesAreNumbers DEF OpenForARow
  <2>6. GateFailed(g, slow) = [breaker |-> b, consecutive |-> TripAfter, tripped |-> b.state = "OPEN"]
    BY <1>2, <2>2 DEF GateFailed
  <2>7. TripAfter \in 0 .. TripAfter /\ 0 \in 0 .. Forgotten
    BY TimesAreNumbers
  <2>8. (b.state = "OPEN") \in BOOLEAN
    OBVIOUS
  <2>9. GateIsSound(GateFailed(g, slow), TripAfter, 0)
    BY <2>3, <2>5, <2>6, <2>7, <2>8 DEF GateIsSound
  <2> QED BY <2>1, <2>9
<1>3. CASE ~InARow(g)
  <2>1. s + 1 < TripAfter /\ u = s + 1 /\ u # TripAfter
    BY <1>1, <1>3, TimesAreNumbers DEF InARow, Older
  <2>2. GateFailed(g, slow) = [breaker |-> g.breaker, consecutive |-> s + 1, tripped |-> g.tripped]
    <3>1. GateFailed(g, slow) = [g EXCEPT !.consecutive = @ + 1]
      BY <1>3 DEF GateFailed
    <3> QED BY <1>1, <3>1 DEF GateIsSound
  <2>3. u \in 0 .. TripAfter
    BY <1>1, <2>1, TimesAreNumbers
  <2>4. GateIsSound(GateFailed(g, slow), u, t)
    BY <2>1, <2>2, <2>3 DEF GateIsSound
  <2> QED BY <2>1, <2>4
<1> QED BY <1>2, <1>3

LEMMA GateAgedKept ==
  ASSUME NEW g, NEW s, NEW t, GateIsSound(g, s, t)
  PROVE  GateIsSound([g EXCEPT !.breaker = Aged(@)], s, Older(t, Forgotten))
<1>1. PICK b : b = Aged(g.breaker)
  OBVIOUS
<1>2. PICK u : u = Older(t, Forgotten)
  OBVIOUS
<1>3. t \in 0 .. Forgotten /\ Sound(g.breaker) /\ Timely(g.breaker.events, t)
  BY DEF GateIsSound
<1>4. u \in 0 .. Forgotten /\ u <= t + 1
  BY <1>2, <1>3, TimesAreNumbers DEF Older
<1>5. Sound(b) /\ Timely(b.events, u) /\ b.state = g.breaker.state
  BY <1>1, <1>2, <1>3, AgedSound, AgedTimely
<1>6. OpenForARow(b, u)
  <2>1. CASE b.state # "OPEN"
    BY <2>1 DEF OpenForARow
  <2>2. CASE b.state = "OPEN"
    <3>1. PICK es : b = [g.breaker EXCEPT !.opened = Older(@, OpenFor), !.events = es]
      BY <1>1, <1>5, <2>2 DEF Aged
    <3>2. PICK c : c = [g.breaker EXCEPT !.opened = Older(@, OpenFor)]
      OBVIOUS
    <3>3. c = [state |-> g.breaker.state, opened |-> Older(g.breaker.opened, OpenFor),
               probes |-> g.breaker.probes, events |-> g.breaker.events]
      BY <1>3, <3>2 DEF Sound
    <3>4. b = [c EXCEPT !.events = es]
      BY <3>1, <3>2
    <3>5. b.opened = Older(g.breaker.opened, OpenFor)
      BY <3>3, <3>4
    <3>6. PICK o \in 0 .. OpenFor : o = g.breaker.opened
      BY <1>3 DEF Sound
    <3>7. PICK v : v = b.opened
      OBVIOUS
    <3>8. v < OpenFor => v = o + 1 /\ o < OpenFor
      BY <3>5, <3>6, <3>7, TimesAreNumbers DEF Older
    <3>9. o < OpenFor => t <= Window + o
      BY <1>5, <2>2, <3>6 DEF GateIsSound, OpenForARow
    <3>10. v < OpenFor => u <= Window + v
      BY <1>3, <1>4, <3>6, <3>8, <3>9, TimesAreNumbers
    <3> QED BY <3>7, <3>10 DEF OpenForARow
  <2> QED BY <2>1, <2>2
<1>7. [g EXCEPT !.breaker = Aged(@)] =
        [breaker |-> b, consecutive |-> g.consecutive, tripped |-> g.tripped]
  BY <1>1 DEF GateIsSound
<1>8. GateIsSound([g EXCEPT !.breaker = Aged(@)], s, u)
  BY <1>4, <1>5, <1>6, <1>7 DEF GateIsSound
<1> QED BY <1>2, <1>8

-----------------------------------------------------------------------------
(* The gates of all providers, with the history of each. *)
GatesAreSound ==
    /\ gate = [p \in Providers |-> gate[p]]
    /\ streak = [p \in Providers |-> streak[p]]
    /\ sinceRow = [p \in Providers |-> sinceRow[p]]
    /\ \A p \in Providers : GateIsSound(gate[p], streak[p], sinceRow[p])

(* The prompt under way: the consumer has heard nobody before a provider is *)
(* asked, and then it alone.                                                *)
PromptIsSound ==
    /\ prompt = [at |-> prompt.at, p |-> prompt.p, stream |-> prompt.stream]
    /\ prompt.at \in {"start", "none", "choose", "asked", "spoken"}
    /\ prompt.p \in 0 .. ChainLength + 1 /\ prompt.stream \in BOOLEAN
    /\ prompt.at = "choose" => prompt.p \in 1 .. ChainLength + 1
    /\ prompt.at \in {"asked", "spoken"} => prompt.p \in Providers
    /\ prompt.at \in {"choose", "asked"} => voices = {}
    /\ prompt.at = "spoken" => voices = {prompt.p}
    /\ voices \subseteq Providers /\ OneVoice
    /\ active \in 0 .. ChainLength /\ degraded \in BOOLEAN
    /\ letDowns \in 0 .. MaxLetDowns

GatewayIInv == GatesAreSound /\ PromptIsSound

(* What a call makes of one gate is right for that gate alone. *)
LEMMA OneGateChanges ==
  ASSUME GatesAreSound, NEW p \in Providers, NEW g, GateIsSound(g, streak[p], sinceRow[p]),
         gate' = [gate EXCEPT ![p] = g], UNCHANGED <<streak, sinceRow>>
  PROVE  GatesAreSound'
<1>1. gate' = [q \in Providers |-> IF q = p THEN g ELSE gate[q]]
  BY DEF GatesAreSound
<1>2. ASSUME NEW q \in Providers PROVE GateIsSound(gate'[q], streak'[q], sinceRow'[q])
  <2>1. CASE q = p
    <3>1. gate'[q] = g
      BY <1>1, <2>1
    <3> QED BY <2>1, <3>1
  <2>2. CASE q # p
    <3>1. gate'[q] = gate[q]
      BY <1>1, <2>2
    <3> QED BY <3>1 DEF GatesAreSound
  <2> QED BY <2>1, <2>2
<1>3. gate' = [q \in Providers |-> gate'[q]]
  BY <1>1
<1> QED BY <1>2, <1>3 DEF GatesAreSound, GateIsSound

(* Calls that fail or answer are noted with their gates. *)
LEMMA NotedGates ==
  ASSUME GatesAreSound, NEW F \in SUBSET Providers, NEW A \in SUBSET Providers,
         F \cap A = {}, NEW slow \in BOOLEAN, Noted(F, A),
         gate' = [p \in Providers |-> IF p \in F THEN GateFailed(gate[p], slow)
                                      ELSE IF p \in A THEN GateSucceeded(gate[p]) ELSE gate[p]]
  PROVE  GatesAreSound'
<1>1. /\ streak' = [p \in Providers |->
                      IF p \in F THEN Older(streak[p], TripAfter)
                      ELSE IF p \in A THEN 0 ELSE streak[p]]
      /\ sinceRow' = [p \in Providers |->
                        IF p \in F /\ streak'[p] = TripAfter THEN 0 ELSE sinceRow[p]]
  BY DEF Noted
<1>2. ASSUME NEW p \in Providers PROVE GateIsSound(gate'[p], streak'[p], sinceRow'[p])
  <2>1. GateIsSound(gate[p], streak[p], sinceRow[p])
    BY DEF GatesAreSound
  <2>2. CASE p \in F
    <3>1. PICK u : u = Older(streak[p], TripAfter)
      OBVIOUS
    <3>2. gate'[p] = GateFailed(gate[p], slow) /\ streak'[p] = u
      BY <1>1, <2>2, <3>1
    <3>3. sinceRow'[p] = IF u = TripAfter THEN 0 ELSE sinceRow[p]
      BY <1>1, <2>2, <3>2
    <3> QED BY <2>1, <3>1, <3>2, <3>3, GateFailedKept
  <2>3. CASE p \in A
    <3>1. gate'[p] = GateSucceeded(gate[p]) /\ streak'[p] = 0 /\ sinceRow'[p] = sinceRow[p]
      BY <1>1, <2>3
    <3> QED BY <2>1, <3>1, GateSucceededKept
  <2>4. CASE p \notin F /\ p \notin A
    <3>1. gate'[p] = gate[p] /\ streak'[p] = streak[p] /\ sinceRow'[p] = sinceRow[p]
      BY <1>1, <2>4
    <3> QED BY <2>1, <3>1
  <2> QED BY <2>2, <2>3, <2>4
<1>3. /\ gate' = [p \in Providers |-> gate'[p]]
      /\ streak' = [p \in Providers |-> streak'[p]]
      /\ sinceRow' = [p \in Providers |-> sinceRow'[p]]
  BY <1>1
<1> QED BY <1>2, <1>3 DEF GatesAreSound, GateIsSound

LEMMA GatewayInitially == GatewayInit => GatewayIInv
<1> SUFFICES ASSUME GatewayInit PROVE GatewayIInv
  OBVIOUS
<1>1. GateIsSound(NewGate, 0, Forgotten)
  <2>1. Sound(NewBreaker)
    BY ZeroIsInRange DEF NewBreaker, Sound, States
  <2>2. Timely(NewBreaker.events, Forgotten) /\ OpenForARow(NewBreaker, Forgotten)
    BY NothingIsTimely DEF NewBreaker, OpenForARow
  <2>3. Forgotten \in 0 .. Forgotten /\ 0 \in 0 .. TripAfter
    BY TimesAreNumbers
  <2> QED BY <2>1, <2>2, <2>3 DEF GateIsSound, NewGate
<1>2. GatesAreSound
  BY <1>1 DEF GatesAreSound, GatewayInit
<1>3. PromptIsSound
  <2>1. prompt = [at |-> "start", p |-> 0, stream |-> FALSE]
    BY DEF GatewayInit, NoPrompt
  <2>2. 0 \in 0 .. ChainLength + 1 /\ 0 \in 0 .. ChainLength /\ 0 \in 0 .. MaxLetDowns
    BY ChainAssumption
  <2>3. voices \subseteq Providers /\ OneVoice
    BY DEF GatewayInit, OneVoice
  <2>4. active = 0 /\ degraded \in BOOLEAN /\ letDowns = 0
    BY DEF GatewayInit
  <2>5. /\ prompt.at = "start" /\ prompt.p = 0 /\ prompt.stream \in BOOLEAN
        /\ prompt = [at |-> prompt.at, p |-> prompt.p, stream |-> prompt.stream]
    BY <2>1
  <2> QED BY <2>2, <2>3, <2>4, <2>5 DEF PromptIsSound
<1> QED BY <1>2, <1>3 DEF GatewayIInv

LEMMA HealthCheckKept ==
  ASSUME GatewayIInv, HealthCheck
  PROVE  GatewayIInv'
<1>1. PICK silent \in SUBSET Providers, slow \in BOOLEAN :
         LET awake == Providers \ silent IN
         /\ letDowns + (IF silent = {} THEN 0 ELSE 1) <= MaxLetDowns
         /\ letDowns' = letDowns + (IF silent = {} THEN 0 ELSE 1)
         /\ gate' = [p \in Providers |->
                       IF p \in silent THEN GateFailed(gate[p], slow) ELSE GateSucceeded(gate[p])]
         /\ Noted(silent, awake)
         /\ active' = IF awake = {} THEN 0 ELSE CHOOSE p \in awake : \A q \in awake : p <= q
         /\ degraded' = (awake # {} /\ 1 \in silent)
  BY DEF HealthCheck
<1>2. PICK awake \in SUBSET Providers : awake = Providers \ silent
  OBVIOUS
<1>3. GatesAreSound'
  <2>1. gate' = [p \in Providers |-> IF p \in silent THEN GateFailed(gate[p], slow)
                                     ELSE IF p \in awake THEN GateSucceeded(gate[p]) ELSE gate[p]]
    BY <1>1, <1>2
  <2>2. Noted(silent, awake) /\ silent \cap awake = {}
    BY <1>1, <1>2
  <2> QED BY <2>1, <2>2, NotedGates DEF GatewayIInv
<1>4. active' \in 0 .. ChainLength
  <2>1. CASE awake = {}
    BY <1>1, <1>2, <2>1, ChainAssumption
  <2>2. CASE awake # {}
    <3>1. awake \in SUBSET Nat
      BY ChainAssumption DEF Providers
    <3>2. \E p \in awake : \A q \in awake : p <= q
      BY <2>2, <3>1, LeastNumber
    <3>3. active' \in awake
      BY <1>1, <1>2, <2>2, <3>2
    <3> QED BY <3>3, ChainAssumption DEF Providers
  <2> QED BY <2>1, <2>2
<1>5. degraded' \in BOOLEAN
  BY <1>1
<1>6. letDowns' \in 0 .. MaxLetDowns
  BY <1>1, ChainAssumption DEF GatewayIInv, PromptIsSound
<1>7. prompt' = [at |-> "none", p |-> 0, stream |-> FALSE] /\ voices' = voices
  BY DEF HealthCheck, NoPrompt
<1>8. PromptIsSound'
  BY <1>4, <1>5, <1>6, <1>7, ChainAssumption DEF GatewayIInv, PromptIsSound, OneVoice
<1> QED BY <1>3, <1>8 DEF GatewayIInv

LEMMA AskChainKept ==
  ASSUME GatewayIInv, NEW stream \in BOOLEAN, AskChain(stream)
  PROVE  GatewayIInv'
<1>1. GatesAreSound'
  BY DEF GatewayIInv, GatesAreSound, AskChain, GateIsSound
<1>2. PromptIsSound'
  BY ChainAssumption DEF GatewayIInv, PromptIsSound, AskChain, OneVoice
<1> QED BY <1>1, <1>2 DEF GatewayIInv

LEMMA ChooseKept ==
  ASSUME GatewayIInv, Choose
  PROVE  GatewayIInv'
<1>1. PICK p \in Providers : p = prompt.p /\ prompt.at = "choose"
  BY DEF Choose, Chosen
<1>2. PICK g : g = Synced(gate[p])
  OBVIOUS
<1>3. GatesAreSound'
  <2>1. GateIsSound(g, streak[p], sinceRow[p])
    BY <1>2, SyncedKept DEF GatewayIInv, GatesAreSound
  <2>2. gate' = [gate EXCEPT ![p] = g] /\ UNCHANGED <<streak, sinceRow>>
    BY <1>1, <1>2 DEF Choose
  <2> QED BY <2>1, <2>2, OneGateChanges DEF GatewayIInv
<1>4. \/ prompt' = [at |-> "asked", p |-> p, stream |-> prompt.stream]
      \/ prompt' = [at |-> "choose", p |-> p + 1, stream |-> prompt.stream]
  <2>1. prompt = [at |-> "choose", p |-> p, stream |-> prompt.stream]
    BY <1>1 DEF GatewayIInv, PromptIsSound
  <2>2. prompt' = [prompt EXCEPT !.at = "asked"] \/ prompt' = [prompt EXCEPT !.p = @ + 1]
    BY DEF Choose
  <2> QED BY <2>1, <2>2
<1>5. voices = {} /\ UNCHANGED <<active, degraded, voices, letDowns>>
  BY <1>1 DEF GatewayIInv, PromptIsSound, Choose
<1>6. p \in 0 .. ChainLength + 1 /\ p + 1 \in 1 .. ChainLength + 1 /\ p + 1 \in 0 .. ChainLength + 1
  BY ChainAssumption DEF Providers
<1>7. PromptIsSound'
  <2>1. CASE prompt' = [at |-> "asked", p |-> p, stream |-> prompt.stream]
    BY <1>5, <1>6, <2>1 DEF GatewayIInv, PromptIsSound, OneVoice
  <2>2. CASE prompt' = [at |-> "choose", p |-> p + 1, stream |-> prompt.stream]
    BY <1>5, <1>6, <2>2 DEF GatewayIInv, PromptIsSound, OneVoice
  <2> QED BY <1>4, <2>1, <2>2
<1> QED BY <1>3, <1>7 DEF GatewayIInv

(* A prompt that is over leaves what was heard. *)
LEMMA OverKept ==
  ASSUME GatewayIInv, prompt' = NoPrompt, voices' \subseteq Providers, OneVoice',
         active' \in 0 .. ChainLength, degraded' \in BOOLEAN, letDowns' \in 0 .. MaxLetDowns
  PROVE  PromptIsSound'
<1>1. prompt' = [at |-> "none", p |-> 0, stream |-> FALSE]
  BY DEF NoPrompt
<1> QED BY <1>1, ChainAssumption DEF PromptIsSound

LEMMA NobodyAnswersKept ==
  ASSUME GatewayIInv, NobodyAnswers
  PROVE  GatewayIInv'
<1>1. GatesAreSound'
  BY DEF GatewayIInv, GatesAreSound, NobodyAnswers, GateIsSound
<1>2. /\ prompt' = NoPrompt /\ voices' \subseteq Providers /\ OneVoice'
      /\ active' \in 0 .. ChainLength /\ degraded' \in BOOLEAN /\ letDowns' \in 0 .. MaxLetDowns
  BY DEF GatewayIInv, PromptIsSound, NobodyAnswers, OneVoice
<1> QED BY <1>1, <1>2, OverKept DEF GatewayIInv

LEMMA SpeakKept ==
  ASSUME GatewayIInv, Speak
  PROVE  GatewayIInv'
<1>1. GatesAreSound'
  BY DEF GatewayIInv, GatesAreSound, Speak, GateIsSound
<1>2. prompt.p \in Providers /\ (voices = {} \/ voices = {prompt.p})
  BY DEF GatewayIInv, PromptIsSound, Speak, Speaking
<1>3. prompt' = [at |-> "spoken", p |-> prompt.p, stream |-> prompt.stream]
  BY DEF GatewayIInv, PromptIsSound, Speak
<1>4. voices' = {prompt.p}
  BY <1>2 DEF Speak
<1>5. PromptIsSound'
  BY <1>2, <1>3, <1>4 DEF GatewayIInv, PromptIsSound, Speak, OneVoice
<1> QED BY <1>1, <1>5 DEF GatewayIInv

LEMMA AnsweredKept ==
  ASSUME GatewayIInv, Answered
  PROVE  GatewayIInv'
<1>1. prompt.at = IF prompt.stream THEN "spoken" ELSE "asked"
  BY DEF Answered
<1>2. PICK p \in Providers : p = prompt.p
  BY <1>1 DEF GatewayIInv, PromptIsSound
<1>3. GatesAreSound'
  <2>1. gate' = [gate EXCEPT ![p] = GateSucceeded(gate[p])]
    BY <1>2 DEF Answered
  <2>2. gate = [q \in Providers |-> gate[q]]
    BY DEF GatewayIInv, GatesAreSound
  <2>3. gate' = [q \in Providers |-> IF q \in {} THEN GateFailed(gate[q], FALSE)
                                     ELSE IF q \in {p} THEN GateSucceeded(gate[q]) ELSE gate[q]]
    BY <2>1, <2>2
  <2>4. Noted({}, {p}) /\ {} \in SUBSET Providers /\ {p} \in SUBSET Providers /\ {} \cap {p} = {}
    BY <1>2 DEF Answered
  <2> QED BY <2>3, <2>4, NotedGates DEF GatewayIInv
<1>4. /\ prompt' = NoPrompt /\ active' \in 0 .. ChainLength /\ degraded' \in BOOLEAN
      /\ letDowns' \in 0 .. MaxLetDowns
  BY <1>2, ChainAssumption DEF Answered, GatewayIInv, PromptIsSound, Providers
<1>5. voices' = {p}
  <2>1. CASE prompt.stream = TRUE
    BY <1>1, <1>2, <2>1 DEF Answered, GatewayIInv, PromptIsSound
  <2>2. CASE prompt.stream = FALSE
    BY <1>1, <1>2, <2>2 DEF Answered
  <2> QED BY <2>1, <2>2 DEF GatewayIInv, PromptIsSound
<1>6. voices' \subseteq Providers /\ OneVoice'
  BY <1>5 DEF OneVoice
<1> QED BY <1>3, <1>4, <1>6, OverKept DEF GatewayIInv

LEMMA FailsKept ==
  ASSUME GatewayIInv, Fails
  PROVE  GatewayIInv'
<1>1. PICK slow \in BOOLEAN : gate' = [gate EXCEPT ![prompt.p] = GateFailed(@, slow)]
  BY DEF Fails
<1>2. PICK p \in Providers : p = prompt.p
  BY DEF Fails, Speaking, GatewayIInv, PromptIsSound
<1>3. GatesAreSound'
  <2>1. gate' = [gate EXCEPT ![p] = GateFailed(gate[p], slow)]
    BY <1>1, <1>2
  <2>2. gate = [q \in Providers |-> gate[q]]
    BY DEF GatewayIInv, GatesAreSound
  <2>3. gate' = [q \in Providers |-> IF q \in {p} THEN GateFailed(gate[q], slow)
                                     ELSE IF q \in {} THEN GateSucceeded(gate[q]) ELSE gate[q]]
    BY <2>1, <2>2
  <2>4. Noted({p}, {}) /\ {} \in SUBSET Providers /\ {p} \in SUBSET Providers /\ {p} \cap {} = {}
    BY <1>2 DEF Fails
  <2> QED BY <2>3, <2>4, NotedGates DEF GatewayIInv
<1>4. letDowns' \in 0 .. MaxLetDowns /\ UNCHANGED <<active, degraded, voices>>
  BY ChainAssumption DEF Fails, GatewayIInv, PromptIsSound
<1>5. CASE prompt.at = "spoken"
  <2>1. prompt' = NoPrompt
    BY <1>5 DEF Fails, AfterFailure
  <2>2. /\ voices' \subseteq Providers /\ OneVoice'
        /\ active' \in 0 .. ChainLength /\ degraded' \in BOOLEAN
    BY <1>4 DEF GatewayIInv, PromptIsSound, OneVoice
  <2> QED BY <1>3, <1>4, <2>1, <2>2, OverKept DEF GatewayIInv
<1>6. CASE prompt.at = "asked"
  <2>1. prompt' = [at |-> "choose", p |-> p + 1, stream |-> prompt.stream]
    BY <1>2, <1>6 DEF Fails, AfterFailure, GatewayIInv, PromptIsSound
  <2>2. p + 1 \in 1 .. ChainLength + 1 /\ p + 1 \in 0 .. ChainLength + 1
    BY ChainAssumption DEF Providers
  <2>3. voices' = {}
    BY <1>4, <1>6 DEF GatewayIInv, PromptIsSound
  <2>4. PromptIsSound'
    BY <1>4, <2>1, <2>2, <2>3 DEF GatewayIInv, PromptIsSound, OneVoice
  <2> QED BY <1>3, <2>4 DEF GatewayIInv
<1> QED BY <1>5, <1>6 DEF Fails, Speaking

LEMMA LeavesKept ==
  ASSUME GatewayIInv, Leaves
  PROVE  GatewayIInv'
<1>1. GatesAreSound'
  BY DEF GatewayIInv, GatesAreSound, Leaves, GateIsSound
<1>2. /\ prompt' = NoPrompt /\ voices' \subseteq Providers /\ OneVoice'
      /\ active' \in 0 .. ChainLength /\ degraded' \in BOOLEAN /\ letDowns' \in 0 .. MaxLetDowns
  BY ChainAssumption DEF GatewayIInv, PromptIsSound, Leaves, OneVoice
<1> QED BY <1>1, <1>2, OverKept DEF GatewayIInv

LEMMA GatewayTickKept ==
  ASSUME GatewayIInv, GatewayTick
  PROVE  GatewayIInv'
<1>1. ASSUME NEW p \in Providers PROVE GateIsSound(gate'[p], streak'[p], sinceRow'[p])
  <2>1. GateIsSound(gate[p], streak[p], sinceRow[p])
    BY DEF GatewayIInv, GatesAreSound
  <2>2. GateIsSound([gate[p] EXCEPT !.breaker = Aged(@)], streak[p], Older(sinceRow[p], Forgotten))
    BY <2>1, GateAgedKept
  <2>3. /\ gate'[p] = [gate[p] EXCEPT !.breaker = Aged(@)]
        /\ streak'[p] = streak[p] /\ sinceRow'[p] = Older(sinceRow[p], Forgotten)
    BY DEF GatewayTick
  <2> QED BY <2>2, <2>3
<1>2. /\ gate' = [p \in Providers |-> gate'[p]]
      /\ streak' = [p \in Providers |-> streak'[p]]
      /\ sinceRow' = [p \in Providers |-> sinceRow'[p]]
  BY DEF GatewayTick, GatewayIInv, GatesAreSound
<1>3. GatesAreSound'
  BY <1>1, <1>2 DEF GatesAreSound, GateIsSound
<1>4. PromptIsSound'
  BY DEF GatewayTick, GatewayIInv, PromptIsSound, OneVoice
<1> QED BY <1>3, <1>4 DEF GatewayIInv

LEMMA GatewayStep == GatewayIInv /\ [GatewayNext]_gatewayVars => GatewayIInv'
<1> SUFFICES ASSUME GatewayIInv, [GatewayNext]_gatewayVars PROVE GatewayIInv'
  OBVIOUS
<1>1. CASE UNCHANGED gatewayVars
  BY <1>1 DEF gatewayVars, GatewayIInv, GatesAreSound, PromptIsSound, OneVoice, GateIsSound
<1>2. CASE GatewayNext
  BY <1>2, HealthCheckKept, AskChainKept, ChooseKept, NobodyAnswersKept, SpeakKept, AnsweredKept,
     FailsKept, LeavesKept, GatewayTickKept DEF GatewayNext, PromptStep
<1> QED BY <1>1, <1>2

LEMMA GatewayImplied == GatewayIInv => GatewayInv
<1> SUFFICES ASSUME GatewayIInv PROVE GatewayInv
  OBVIOUS
<1>1. GatewayType
  <2>1. ASSUME NEW p \in Providers
        PROVE  gate[p] \in [breaker : Breaker, consecutive : 0 .. TripAfter, tripped : BOOLEAN]
    <3>1. PICK g : g = gate[p]
      OBVIOUS
    <3>2. GateIsSound(g, streak[p], sinceRow[p])
      BY <3>1 DEF GatewayIInv, GatesAreSound
    <3>3. g.breaker.probes \in 0 .. HalfOpenMax
      BY <3>2, ProbeAssumption DEF GateIsSound, Sound
    <3>4. g.breaker \in Breaker
      BY <3>2, <3>3 DEF GateIsSound, Sound, Timely, Breaker
    <3> QED BY <3>1, <3>2, <3>4 DEF GateIsSound
  <2>2. gate \in [Providers -> [breaker : Breaker, consecutive : 0 .. TripAfter, tripped : BOOLEAN]]
    BY <2>1 DEF GatewayIInv, GatesAreSound
  <2> QED BY <2>2 DEF GatewayIInv, PromptIsSound, GatewayType
<1>2. RefusedForARow
  <2>1. ASSUME NEW p \in Providers, Synced(gate[p]).breaker.state = "OPEN"
        PROVE  sinceRow[p] <= Window + gate[p].breaker.opened
    <3>1. PICK g : g = gate[p]
      OBVIOUS
    <3>2. GateIsSound(g, streak[p], sinceRow[p])
      BY <3>1 DEF GatewayIInv, GatesAreSound
    <3>3. PICK b : b = Current(g.breaker)
      OBVIOUS
    <3>4. Synced(g).breaker = b
      <4>1. PICK x : x = (g.tripped /\ b.state = "OPEN")
        OBVIOUS
      <4>2. Synced(g) = [g EXCEPT !.breaker = b, !.tripped = x]
        BY <3>3, <4>1 DEF Synced
      <4> QED BY <3>2, <4>2 DEF GateIsSound
    <3>5. b = g.breaker
      BY <2>1, <3>1, <3>2, <3>3, <3>4, CurrentSound DEF GateIsSound
    <3>6. b.opened < OpenFor
      <4>1. ~(b.state = "OPEN" /\ b.opened >= OpenFor)
        <5>1. CASE g.breaker.state = "OPEN" /\ g.breaker.opened >= OpenFor
          <6>1. PICK c : c = [g.breaker EXCEPT !.state = "HALF_OPEN", !.probes = 0, !.events = <<>>]
            OBVIOUS
          <6>2. b = c /\ c.state = "HALF_OPEN"
            BY <3>2, <3>3, <5>1, <6>1 DEF Current, GateIsSound, Sound
          <6> QED BY <6>2
        <5>2. CASE ~(g.breaker.state = "OPEN" /\ g.breaker.opened >= OpenFor)
          BY <3>5, <5>2
        <5> QED BY <5>1, <5>2
      <4>2. b.opened \in Nat
        BY <3>2, <3>5, TimesAreNumbers DEF GateIsSound, Sound
      <4> QED BY <2>1, <3>1, <3>4, <4>1, <4>2, TimesAreNumbers
    <3> QED BY <2>1, <3>1, <3>2, <3>4, <3>5, <3>6 DEF GateIsSound, OpenForARow
  <2> QED BY <2>1 DEF RefusedForARow
<1> QED BY <1>1, <1>2 DEF GatewayInv, GatewayIInv, PromptIsSound

(* llm/gateway.py: nobody reads an answer that two providers have written, and *)
(* a provider is refused only for as many failures in a row as it takes,       *)
(* within the window before its breaker opened.                                *)
THEOREM RefusalsAreEarned == GatewaySpec => []GatewayInv
BY GatewayInitially, GatewayStep, GatewayImplied, PTL DEF GatewaySpec

-----------------------------------------------------------------------------
(***************************************************************************)
(* AgentLoop: a run of the agent loop.  The inductive invariant says, for  *)
(* each place of the loop, how long the text may be, from which iterations *)
(* its fragments are, whether the spending was looked at, and what the     *)
(* last check and the last tools have left for the end of the run.         *)
(***************************************************************************)

(* The fragments of a text. *)
Fragments == [what : {"words", "figure", "error", "echo"}, it : 0 .. MaxIterations]

(* A text none of whose fragments is of an iteration in U, or after n. *)
Clean(s, U, n) ==
    /\ s \in Seq(Fragments)
    /\ \A k \in 1 .. Len(s) : s[k].it \notin U /\ s[k].it <= n

Early(s, m, n) == m \in 0 .. Len(s) /\ \A k \in 1 .. m : s[k].it <= n

(* Within an iteration, after the checks at the head of the loop. *)
InIteration == at \in {"call", "stream", "tools", "judge", "decide"}

LoopTypes ==
    /\ at \in Places /\ reason \in Reasons
    /\ iteration \in 0 .. MaxIterations
    /\ attempt \in 0 .. MaxAttempts
    /\ calls \subseteq Tools
    /\ success \in BOOLEAN /\ evidence \in BOOLEAN /\ verified \in BOOLEAN /\ late \in BOOLEAN
    /\ began.text \in Nat /\ began.usage \in Nat
    /\ usage \in Nat /\ charged \in Nat /\ refunds \in Int
    /\ saved \in Seq(Reasons)
    /\ undone \subseteq 1 .. iteration
    /\ InIteration => iteration >= 1

TextIsShort ==
    /\ at \in {"head", "call", "stream", "tools", "decide"} => Len(text) < TokenLimit
    /\ at = "judge" => Len(text) < TokenLimit + Cardinality(Tools)
    /\ Len(text) <= TokenLimit + Cardinality(Tools) + 1

TextIsClean ==
    /\ Clean(text, undone, iteration)
    /\ InIteration => iteration \notin undone
    /\ at = "call" => Clean(text, undone, iteration - 1)
    /\ at = "stream" => Early(text, began.text, iteration - 1)

BooksAreKept ==
    /\ charged = usage + refunds
    /\ \A x \in ran : x.it \in whole
    /\ at = "tools" => iteration \in whole
    /\ at = "head" /\ charged > SpendLimit => iteration \in undone
    /\ at = "call" /\ charged > SpendLimit => iteration - 1 \in undone
    /\ at = "decide" => ~(charged > SpendLimit)

(* A tool that the model asked for in the end was not given up. *)
OneInTime == \E t \in calls : [tool |-> t, it |-> iteration] \notin zombies

ResultIsKept ==
    /\ zombies \subseteq ran
    /\ \A z \in zombies : z.it \in 0 .. iteration
    /\ at \in {"call", "stream", "tools"} => \A z \in zombies : z.it < iteration
    /\ at \in {"judge", "decide"} => /\ success => OneInTime
                                     /\ calls # {} => text # <<>>
    /\ at \notin {"ending", "over"} => reason = "completed"
    /\ at = "decide" /\ verified => vouched = text
    /\ at \in {"ending", "over"} /\ reason = "completed" =>
          /\ vouched = text /\ text # <<>>
          /\ calls # {} => OneInTime
    /\ at = "over" => saved # <<>> /\ (saved[Len(saved)] = reason \/ (late /\ reason = "wall_time"))

LoopIInv == LoopTypes /\ TextIsShort /\ TextIsClean /\ BooksAreKept /\ ResultIsKept

-----------------------------------------------------------------------------
(* What becomes of a text. *)

LEMMA LimitsAreNumbers ==
    /\ MaxIterations \in Nat \ {0} /\ MaxAttempts \in Nat \ {0} /\ TokenLimit \in Nat \ {0}
    /\ SpendLimit \in Nat /\ Cardinality(Tools) \in Nat
BY LoopNumbers, ToolsAssumption, FS_CardinalityType

LEMMA CleanPrefix ==
  ASSUME NEW s, NEW U, NEW n, Clean(s, U, n), NEW m \in 0 .. Len(s)
  PROVE  /\ Clean(SubSeq(s, 1, m), U, n) /\ Len(SubSeq(s, 1, m)) = m
         /\ \A k \in 1 .. m : SubSeq(s, 1, m)[k] = s[k]
<1>1. s \in Seq(Fragments)
  BY DEF Clean
<1>2. PICK l \in Nat : l = Len(s) /\ m \in 0 .. l
  BY <1>1
<1>3. \A k \in 1 .. m : s[k] \in Fragments
  BY <1>1, <1>2
<1>4. PICK r : r = SubSeq(s, 1, m)
  OBVIOUS
<1>5. r \in Seq(Fragments) /\ Len(r) = m /\ \A k \in 1 .. m : r[k] = s[k]
  BY <1>2, <1>3, <1>4, SubSeqProperties
<1>6. \A k \in 1 .. m : r[k].it \notin U /\ r[k].it <= n
  BY <1>2, <1>5 DEF Clean
<1> QED BY <1>4, <1>5, <1>6 DEF Clean

LEMMA CleanAppend ==
  ASSUME NEW s, NEW U, NEW n \in 0 .. MaxIterations, Clean(s, U, n), n \notin U,
         NEW e \in Fragments, e.it = n, NEW r, r = Append(s, e)
  PROVE  /\ Clean(r, U, n) /\ Len(r) = Len(s) + 1
         /\ \A k \in 1 .. Len(s) : r[k] = s[k]
<1>1. s \in Seq(Fragments)
  BY DEF Clean
<1>2. PICK l \in Nat : l = Len(s)
  BY <1>1
<1>5. /\ r \in Seq(Fragments) /\ Len(r) = l + 1 /\ r[l + 1] = e
      /\ \A k \in 1 .. l : r[k] = s[k]
  BY <1>1, <1>2
<1>6. ASSUME NEW k \in 1 .. l + 1 PROVE r[k].it \notin U /\ r[k].it <= n
  <2>1. CASE k = l + 1
    BY <1>5, <2>1, LimitsAreNumbers
  <2>2. CASE k # l + 1
    BY <1>2, <1>5, <2>2 DEF Clean
  <2> QED BY <2>1, <2>2
<1> QED BY <1>2, <1>5, <1>6 DEF Clean

LEMMA CleanEchoes ==
  ASSUME NEW s, NEW U, NEW n \in 0 .. MaxIterations, Clean(s, U, n), n \notin U,
         NEW e \in Fragments, e.it = n, NEW m \in Nat, NEW es, es = [k \in 1 .. m |-> e],
         NEW r, r = s \o es
  PROVE  Clean(r, U, n) /\ Len(r) = Len(s) + m
<1>1. s \in Seq(Fragments)
  BY DEF Clean
<1>2. PICK l \in Nat : l = Len(s)
  BY <1>1
<1>6. es \in Seq(Fragments) /\ Len(es) = m /\ \A k \in 1 .. m : es[k] = e
  <2>1. es \in [1 .. m -> Fragments] /\ DOMAIN es = 1 .. m
    OBVIOUS
  <2>2. es \in Seq(Fragments) /\ Len(es) = m
    BY <2>1
  <2> QED BY <2>2
<1>8. /\ r \in Seq(Fragments) /\ Len(r) = l + m
      /\ \A i \in 1 .. l + m : r[i] = IF i <= l THEN s[i] ELSE es[i - l]
  BY <1>1, <1>2, <1>6, ConcatProperties
<1>9. ASSUME NEW k \in 1 .. l + m PROVE r[k].it \notin U /\ r[k].it <= n
  <2>1. CASE k <= l
    <3>1. k \in 1 .. l /\ r[k] = s[k]
      BY <1>8, <2>1
    <3> QED BY <1>2, <3>1 DEF Clean
  <2>2. CASE ~(k <= l)
    <3>1. r[k] = es[k - l] /\ k - l \in 1 .. m
      BY <1>8, <2>2
    <3>2. r[k] = e
      BY <1>6, <3>1
    <3>3. n <= n
      BY LimitsAreNumbers
    <3> QED BY <3>2, <3>3
  <2> QED BY <2>1, <2>2
<1> QED BY <1>2, <1>8, <1>9 DEF Clean

(* A text that is cut is no longer than the limit, and as clean. *)
LEMMA CleanCut ==
  ASSUME NEW s, NEW U, NEW n, Clean(s, U, n)
  PROVE  /\ Clean(Cut(s), U, n) /\ Len(Cut(s)) <= TokenLimit
         /\ Len(s) < TokenLimit => Cut(s) = s
<1>1. s \in Seq(Fragments)
  BY DEF Clean
<1>2. PICK l \in Nat : l = Len(s)
  BY <1>1
<1>3. CASE l < TokenLimit
  <2>1. Cut(s) = s
    BY <1>1, <1>2, <1>3, SubSeqFull DEF Cut
  <2> QED BY <1>2, <1>3, <2>1, LimitsAreNumbers
<1>4. CASE ~(l < TokenLimit)
  <2>1. Cut(s) = SubSeq(s, 1, TokenLimit) /\ TokenLimit \in 0 .. l
    BY <1>2, <1>4, LimitsAreNumbers DEF Cut
  <2> QED BY <1>2, <1>4, <2>1, CleanPrefix, LimitsAreNumbers
<1> QED BY <1>3, <1>4

(* A later iteration is no trouble, nor is one undone from which nothing is. *)
LEMMA CleanLater ==
  ASSUME NEW s, NEW U, NEW n \in Int, Clean(s, U, n)
  PROVE  Clean(s, U, n + 1) /\ Clean(s, U \cup {n + 1}, n + 1)
<1>1. s \in Seq(Fragments)
  BY DEF Clean
<1>2. ASSUME NEW k \in 1 .. Len(s)
      PROVE  s[k].it \notin U /\ s[k].it <= n + 1 /\ s[k].it # n + 1
  <2>1. s[k] \in Fragments
    BY <1>1
  <2>2. s[k].it \in Int /\ s[k].it <= n /\ s[k].it \notin U
    BY <2>1, LimitsAreNumbers DEF Fragments, Clean
  <2> QED BY <2>2
<1> QED BY <1>1, <1>2 DEF Clean

LEMMA CleanLength ==
  ASSUME NEW s, NEW U, NEW n, Clean(s, U, n)
  PROVE  Len(s) \in Nat /\ (Len(s) = 0 <=> s = <<>>)
BY DEF Clean

-----------------------------------------------------------------------------
(* The steps of the loop. *)

LEMMA LoopInitially == LoopInit => LoopIInv
<1> SUFFICES ASSUME LoopInit PROVE LoopIInv
  OBVIOUS
<1>1. LoopTypes
  <2>1. 0 \in 0 .. MaxIterations /\ 0 \in 0 .. MaxAttempts /\ <<>> \in Seq(Reasons)
    BY LimitsAreNumbers
  <2>2. began.text = 0 /\ began.usage = 0
    BY DEF LoopInit
  <2>3. undone = {} /\ calls = {} /\ usage = 0 /\ charged = 0 /\ refunds = 0
    BY DEF LoopInit
  <2>4. /\ success \in BOOLEAN /\ evidence \in BOOLEAN /\ verified \in BOOLEAN
        /\ late \in BOOLEAN /\ saved = <<>> /\ iteration = 0 /\ attempt = 0
    BY DEF LoopInit
  <2>5. at \in Places /\ reason \in Reasons /\ ~InIteration
    BY DEF LoopInit, Places, Reasons, InIteration
  <2> QED BY <2>1, <2>2, <2>3, <2>4, <2>5 DEF LoopTypes
<1>2. Len(text) = 0 /\ text \in Seq(Fragments)
  BY DEF LoopInit
<1>3. TextIsShort /\ TextIsClean
  BY <1>2, LimitsAreNumbers DEF LoopInit, TextIsShort, TextIsClean, Clean, InIteration
<1>4. BooksAreKept /\ ResultIsKept
  BY LimitsAreNumbers DEF LoopInit, BooksAreKept, ResultIsKept
<1> QED BY <1>1, <1>3, <1>4 DEF LoopIInv

LEMMA BeginIterationKept ==
  ASSUME LoopIInv, BeginIteration
  PROVE  LoopIInv'
<1>1. /\ UNCHANGED <<began, chunks, calls, success, evidence, verified, usage, charged, late, zombies, saved>>
      /\ UNCHANGED <<ran, whole, undone, refunds, vouched>> /\ at = "head"
  BY DEF BeginIteration, historyVars
<1>2. \/ /\ at' = "ending" /\ reason' \in {"wall_time", "max_iterations"}
         /\ UNCHANGED <<iteration, attempt, text>>
      \/ /\ at' = "ending" /\ reason' = "token_limit" /\ text' = Cut(text)
         /\ UNCHANGED <<iteration, attempt>>
      \/ /\ at' = "call" /\ iteration' = iteration + 1 /\ attempt' = 1
         /\ iteration < MaxIterations
         /\ UNCHANGED <<text, reason>>
  BY LimitsAreNumbers DEF BeginIteration, EndWith, Exhausted, LoopIInv, LoopTypes
<1>3. CASE /\ at' = "ending" /\ reason' \in {"wall_time", "max_iterations"}
           /\ UNCHANGED <<iteration, attempt, text>>
  <2>1. LoopTypes'
    BY <1>1, <1>3 DEF LoopIInv, LoopTypes, Places, Reasons, InIteration
  <2>2. TextIsShort' /\ TextIsClean'
    BY <1>1, <1>3 DEF LoopIInv, TextIsShort, TextIsClean, InIteration, Clean
  <2>3. BooksAreKept' /\ ResultIsKept'
    BY <1>1, <1>3 DEF LoopIInv, BooksAreKept, ResultIsKept
  <2> QED BY <2>1, <2>2, <2>3 DEF LoopIInv
<1>4. CASE /\ at' = "ending" /\ reason' = "token_limit" /\ text' = Cut(text)
           /\ UNCHANGED <<iteration, attempt>>
  <2>1. LoopTypes'
    BY <1>1, <1>4 DEF LoopIInv, LoopTypes, Places, Reasons, InIteration
  <2>2. Clean(text', undone, iteration) /\ Len(text') <= TokenLimit /\ Len(text') \in Nat
    BY <1>4, CleanCut, CleanLength DEF LoopIInv, TextIsClean
  <2>3. TextIsShort'
    BY <1>4, <2>2, LimitsAreNumbers DEF TextIsShort
  <2>4. TextIsClean'
    BY <1>1, <1>4, <2>2 DEF TextIsClean, InIteration, Clean
  <2>5. BooksAreKept' /\ ResultIsKept'
    BY <1>1, <1>4 DEF LoopIInv, BooksAreKept, ResultIsKept
  <2> QED BY <2>1, <2>3, <2>4, <2>5 DEF LoopIInv
<1>5. CASE /\ at' = "call" /\ iteration' = iteration + 1 /\ attempt' = 1
           /\ iteration < MaxIterations
           /\ UNCHANGED <<text, reason>>
  <2>0. iteration \in Nat
    BY LimitsAreNumbers DEF LoopIInv, LoopTypes
  <2>1. LoopTypes'
    BY <1>1, <1>5, <2>0, LimitsAreNumbers DEF LoopIInv, LoopTypes, Places, Reasons, InIteration
  <2>2. TextIsShort'
    BY <1>1, <1>5 DEF LoopIInv, TextIsShort
  <2>3. TextIsClean'
    <3>1. Clean(text, undone, iteration)
      BY DEF LoopIInv, TextIsClean
    <3>2. Clean(text, undone, iteration + 1)
      <4>1. PICK n \in Int : n = iteration
        BY <2>0
      <4>2. Clean(text, undone, n + 1)
        BY <3>1, <4>1, CleanLater
      <4> QED BY <4>1, <4>2
    <3>3. iteration' - 1 = iteration /\ iteration' \notin undone
      BY <1>5, <2>0 DEF LoopIInv, LoopTypes
    <3> QED BY <1>1, <1>5, <3>1, <3>2, <3>3 DEF TextIsClean, InIteration
  <2>4. BooksAreKept'
    <3>1. iteration' - 1 = iteration
      BY <1>5, <2>0
    <3> QED BY <1>1, <1>5, <3>1 DEF LoopIInv, BooksAreKept
  <2>5. ResultIsKept'
    <3>1. \A z \in zombies : z.it \in 0 .. iteration + 1 /\ z.it < iteration + 1
      BY <2>0 DEF LoopIInv, ResultIsKept
    <3> QED BY <1>1, <1>5, <3>1 DEF LoopIInv, ResultIsKept
  <2> QED BY <2>1, <2>2, <2>3, <2>4, <2>5 DEF LoopIInv
<1> QED BY <1>2, <1>3, <1>4, <1>5

(* What is said in an iteration is of that iteration. *)
LEMMA TextGrows ==
  ASSUME LoopTypes, TextIsClean, InIteration, NEW what \in {"words", "figure", "error", "echo"}
  PROVE  /\ Clean(Append(text, Fragment(what)), undone, iteration)
         /\ Len(text) \in Nat /\ Len(Append(text, Fragment(what))) = Len(text) + 1
         /\ \A k \in 1 .. Len(text) : Append(text, Fragment(what))[k] = text[k]
<1>1. PICK n \in 0 .. MaxIterations : n = iteration
  BY DEF LoopTypes
<1>2. PICK e : e = Fragment(what)
  OBVIOUS
<1>3. e \in Fragments /\ e.it = n
  BY <1>1, <1>2 DEF Fragment, Fragments
<1>4. PICK s, U : s = text /\ U = undone
  OBVIOUS
<1>5. Clean(s, U, n) /\ n \notin U
  BY <1>1, <1>4 DEF TextIsClean
<1>6. PICK r : r = Append(s, e)
  OBVIOUS
<1>7. Clean(r, U, n) /\ Len(r) = Len(s) + 1 /\ \A k \in 1 .. Len(s) : r[k] = s[k]
  <2>1. Clean(r, U, n) /\ Len(r) = Len(s) + 1
    BY <1>3, <1>5, <1>6, CleanAppend
  <2>2. \A k \in 1 .. Len(s) : r[k] = s[k]
    BY <1>3, <1>5, <1>6, CleanAppend
  <2> QED BY <2>1, <2>2
<1>8. Len(s) \in Nat
  BY <1>5, CleanLength
<1> QED BY <1>1, <1>2, <1>4, <1>6, <1>7, <1>8

(* An iteration that fails for good ends the run with a fragment that says so. *)
LEMMA ErrorEndsTheRun ==
  ASSUME LoopIInv, at \in {"call", "stream"}, at' = "ending",
         reason' \in {"llm_error", "llm_timeout"}, text' = Append(text, Fragment("error")),
         attempt' \in 0 .. MaxAttempts, UNCHANGED <<iteration, began, calls, success, evidence, verified>>,
         UNCHANGED <<usage, charged, late, zombies, saved, ran, whole, undone, refunds, vouched>>
  PROVE  LoopIInv'
<1>1. LoopTypes'
  BY DEF LoopIInv, LoopTypes, Places, Reasons, InIteration
<1>2. Clean(text', undone, iteration) /\ Len(text') = Len(text) + 1 /\ Len(text) \in Nat
  <2>1. "error" \in {"words", "figure", "error", "echo"} /\ InIteration
    BY DEF InIteration
  <2> QED BY <2>1, TextGrows DEF LoopIInv
<1>3. TextIsShort'
  BY <1>2, LimitsAreNumbers DEF LoopIInv, TextIsShort
<1>4. TextIsClean'
  BY <1>2 DEF TextIsClean, InIteration, Clean
<1>5. BooksAreKept' /\ ResultIsKept'
  BY DEF LoopIInv, BooksAreKept, ResultIsKept
<1> QED BY <1>1, <1>3, <1>4, <1>5 DEF LoopIInv

LEMMA CallModelKept ==
  ASSUME LoopIInv, CallModel
  PROVE  LoopIInv'
<1>1. /\ UNCHANGED <<iteration, evidence, verified, usage, charged, late, zombies, saved>>
      /\ UNCHANGED <<ran, whole, undone, refunds, vouched>> /\ at = "call"
  BY DEF CallModel, historyVars
<1>2. CASE /\ at' = "stream"
           /\ began' = [text |-> Len(text), usage |-> usage]
           /\ chunks' = 0 /\ attempt' = 0 /\ calls' = {} /\ success' = FALSE
           /\ UNCHANGED <<text, reason>>
  <2>0. Len(text) \in Nat /\ began'.text = Len(text) /\ began'.usage = usage
    BY <1>2, CleanLength DEF LoopIInv, TextIsClean
  <2>1. LoopTypes'
    <3>1. attempt' = 0 /\ success' = FALSE /\ calls' = {}
      BY <1>2
    <3>2. 0 \in 0 .. MaxAttempts
      BY LimitsAreNumbers
    <3>3. attempt' \in 0 .. MaxAttempts /\ success' \in BOOLEAN /\ calls' \subseteq Tools
      BY <3>1, <3>2
    <3>4. began'.text \in Nat /\ began'.usage \in Nat
      BY <2>0 DEF LoopIInv, LoopTypes
    <3> QED BY <1>1, <1>2, <3>3, <3>4 DEF LoopIInv, LoopTypes, Places, Reasons, InIteration
  <2>2. TextIsShort'
    BY <1>1, <1>2 DEF LoopIInv, TextIsShort
  <2>3. TextIsClean'
    <3>1. Early(text, Len(text), iteration - 1)
      BY <1>1, <2>0 DEF LoopIInv, TextIsClean, Clean, Early
    <3> QED BY <1>1, <1>2, <2>0, <3>1 DEF LoopIInv, TextIsClean, InIteration, Clean, Early
  <2>4. BooksAreKept' /\ ResultIsKept'
    BY <1>1, <1>2 DEF LoopIInv, BooksAreKept, ResultIsKept
  <2> QED BY <2>1, <2>2, <2>3, <2>4 DEF LoopIInv
<1>3. CASE /\ attempt < MaxAttempts /\ attempt' = attempt + 1
           /\ UNCHANGED <<at, began, chunks, calls, success, text, reason>>
  <2>1. LoopTypes'
    BY <1>1, <1>3, LimitsAreNumbers DEF LoopIInv, LoopTypes, InIteration
  <2>2. TextIsShort' /\ TextIsClean'
    BY <1>1, <1>3 DEF LoopIInv, TextIsShort, TextIsClean, InIteration, Clean, Early
  <2>3. BooksAreKept' /\ ResultIsKept'
    BY <1>1, <1>3 DEF LoopIInv, BooksAreKept, ResultIsKept, OneInTime
  <2> QED BY <2>1, <2>2, <2>3 DEF LoopIInv
<1>4. CASE /\ \E why \in {"llm_error", "llm_timeout"} : EndWith(why)
           /\ text' = Append(text, Fragment("error"))
           /\ attempt' = 0
           /\ UNCHANGED <<began, chunks, calls, success>>
  <2>1. at' = "ending" /\ reason' \in {"llm_error", "llm_timeout"} /\ attempt' \in 0 .. MaxAttempts
    BY <1>4, LimitsAreNumbers DEF EndWith
  <2> QED BY <1>1, <1>4, <2>1, ErrorEndsTheRun
<1> QED BY <1>2, <1>3, <1>4 DEF CallModel

LEMMA ChunkKept ==
  ASSUME LoopIInv, Chunk
  PROVE  LoopIInv'
<1>1. /\ UNCHANGED <<iteration, attempt, began, success, evidence, verified, late, zombies, saved>>
      /\ UNCHANGED <<ran, whole, undone, refunds, vouched>> /\ at = "stream" /\ InIteration
  BY DEF Chunk, historyVars, InIteration
<1>2. CASE /\ \E what \in {"words", "figure"} :
                LET longer == Append(text, Fragment(what))
                IN  /\ text' = Cut(longer)
                    /\ IF Len(longer) >= TokenLimit THEN EndWith("token_limit")
                       ELSE UNCHANGED <<at, reason>>
           /\ UNCHANGED <<calls, usage, charged>>
  <2>1. PICK what \in {"words", "figure"} :
           LET longer == Append(text, Fragment(what))
           IN  /\ text' = Cut(longer)
               /\ IF Len(longer) >= TokenLimit THEN EndWith("token_limit")
                  ELSE UNCHANGED <<at, reason>>
    BY <1>2
  <2>2. PICK r : r = Append(text, Fragment(what))
    OBVIOUS
  <2>3. what \in {"words", "figure", "error", "echo"}
    OBVIOUS
  <2>4. /\ Clean(r, undone, iteration) /\ Len(r) = Len(text) + 1 /\ Len(text) \in Nat
        /\ \A k \in 1 .. Len(text) : r[k] = text[k]
    BY <1>1, <2>2, <2>3, TextGrows DEF LoopIInv
  <2>5. Clean(Cut(r), undone, iteration) /\ Len(Cut(r)) <= TokenLimit /\ (Len(r) < TokenLimit => Cut(r) = r)
    BY <2>4, CleanCut
  <2>6. CASE Len(r) >= TokenLimit
    <3>1. at' = "ending" /\ reason' = "token_limit" /\ text' = Cut(r)
      BY <2>1, <2>2, <2>6 DEF EndWith
    <3>2. LoopTypes'
      BY <1>1, <1>2, <3>1 DEF LoopIInv, LoopTypes, Places, Reasons, InIteration
    <3>3. TextIsShort'
      <4>1. Len(text') \in Nat /\ Len(text') <= TokenLimit
        BY <2>5, <3>1, CleanLength
      <4> QED BY <3>1, <4>1, LimitsAreNumbers DEF TextIsShort
    <3>4. TextIsClean'
      BY <1>1, <2>5, <3>1 DEF TextIsClean, InIteration
    <3>5. BooksAreKept' /\ ResultIsKept'
      BY <1>1, <1>2, <3>1 DEF LoopIInv, BooksAreKept, ResultIsKept
    <3> QED BY <3>2, <3>3, <3>4, <3>5 DEF LoopIInv
  <2>7. CASE ~(Len(r) >= TokenLimit)
    <3>1. UNCHANGED <<at, reason>> /\ text' = r /\ Len(text') < TokenLimit
      BY <2>1, <2>2, <2>4, <2>5, <2>7, LimitsAreNumbers
    <3>2. LoopTypes'
      BY <1>1, <1>2, <3>1 DEF LoopIInv, LoopTypes, InIteration
    <3>3. TextIsShort'
      <4>1. Len(text') \in Nat
        BY <2>4, <3>1, CleanLength
      <4> QED BY <1>1, <3>1, <4>1, LimitsAreNumbers DEF TextIsShort
    <3>4. TextIsClean'
      <4>1. Early(text, began.text, iteration - 1) /\ iteration \notin undone
        BY <1>1 DEF LoopIInv, TextIsClean
      <4>2. Early(r, began.text, iteration - 1)
        BY <2>4, <4>1 DEF Early
      <4> QED BY <1>1, <2>4, <3>1, <4>1, <4>2 DEF TextIsClean, InIteration
    <3>5. BooksAreKept' /\ ResultIsKept'
      BY <1>1, <1>2, <3>1 DEF LoopIInv, BooksAreKept, ResultIsKept
    <3> QED BY <3>2, <3>3, <3>4, <3>5 DEF LoopIInv
  <2> QED BY <2>6, <2>7
<1>3. CASE /\ \E t \in Tools : calls' = calls \cup {t}
           /\ UNCHANGED <<at, text, usage, charged, reason>>
  <2>1. calls' \subseteq Tools
    BY <1>3 DEF LoopIInv, LoopTypes
  <2>2. LoopTypes'
    BY <1>1, <1>3, <2>1 DEF LoopIInv, LoopTypes, InIteration
  <2>3. TextIsShort' /\ TextIsClean'
    BY <1>1, <1>3 DEF LoopIInv, TextIsShort, TextIsClean, InIteration
  <2>4. BooksAreKept' /\ ResultIsKept'
    BY <1>1, <1>3 DEF LoopIInv, BooksAreKept, ResultIsKept
  <2> QED BY <2>2, <2>3, <2>4 DEF LoopIInv
<1>4. CASE /\ usage' = usage + 1 /\ charged' = charged + 1
           /\ UNCHANGED <<at, text, calls, reason>>
  <2>1. LoopTypes'
    BY <1>1, <1>4 DEF LoopIInv, LoopTypes, InIteration
  <2>2. TextIsShort' /\ TextIsClean'
    BY <1>1, <1>4 DEF LoopIInv, TextIsShort, TextIsClean, InIteration
  <2>3. charged' = usage' + refunds'
    BY <1>1, <1>4 DEF LoopIInv, LoopTypes, BooksAreKept
  <2>4. BooksAreKept'
    BY <1>1, <1>4, <2>3 DEF LoopIInv, BooksAreKept
  <2>5. ResultIsKept'
    BY <1>1, <1>4 DEF LoopIInv, ResultIsKept
  <2> QED BY <2>1, <2>2, <2>4, <2>5 DEF LoopIInv
<1> QED BY <1>2, <1>3, <1>4 DEF Chunk

LEMMA StreamFailsKept ==
  ASSUME LoopIInv, StreamFails
  PROVE  LoopIInv'
<1>1. /\ UNCHANGED <<attempt, began, chunks, calls, success, evidence, verified, charged, late, zombies, saved>>
      /\ UNCHANGED <<ran, whole, vouched>> /\ at = "stream"
  BY DEF StreamFails
<1>2. CASE Retry
  <2>1. PICK m \in Nat : m = began.text /\ m \in 0 .. Len(text) /\ \A k \in 1 .. m : text[k].it <= iteration - 1
    BY <1>1 DEF LoopIInv, LoopTypes, TextIsClean, Early
  <2>2. PICK n \in Nat : n = iteration /\ n >= 1
    BY <1>1, LimitsAreNumbers DEF LoopIInv, LoopTypes, InIteration
  <2>3. PICK r : r = SubSeq(text, 1, m)
    OBVIOUS
  <2>4. Clean(text, undone, n)
    BY <2>2 DEF LoopIInv, TextIsClean
  <2>5. Clean(r, undone, n) /\ Len(r) = m /\ \A k \in 1 .. m : r[k] = text[k]
    BY <2>1, <2>3, <2>4, CleanPrefix
  <2>6. Clean(r, undone, n - 1)
    BY <2>1, <2>2, <2>5 DEF Clean
  <2>7. PICK l \in Int : l = n - 1 /\ l + 1 = n
    OBVIOUS
  <2>8. Clean(r, undone \cup {n}, n)
    <3>1. Clean(r, undone, l)
      BY <2>6, <2>7
    <3>2. Clean(r, undone \cup {l + 1}, l + 1)
      BY <3>1, CleanLater
    <3> QED BY <2>7, <3>2
  <2>9. /\ at' = "head" /\ UNCHANGED iteration /\ text' = r /\ usage' = began.usage
        /\ undone' = undone \cup {n} /\ refunds' = refunds + usage - began.usage /\ UNCHANGED reason
    BY <1>2, <2>1, <2>2, <2>3 DEF Retry
  <2>10. LoopTypes'
    BY <1>1, <2>2, <2>9 DEF LoopIInv, LoopTypes, Places, InIteration
  <2>11. TextIsShort'
    <3>1. Len(text) \in Nat /\ Len(text) < TokenLimit
      BY <1>1, <2>4, CleanLength DEF LoopIInv, TextIsShort
    <3>2. Len(text') = m /\ m < TokenLimit
      BY <2>1, <2>5, <2>9, <3>1, LimitsAreNumbers
    <3> QED BY <2>9, <3>2, LimitsAreNumbers DEF TextIsShort
  <2>12. TextIsClean'
    BY <2>2, <2>8, <2>9 DEF TextIsClean, InIteration
  <2>13. BooksAreKept'
    <3>1. charged' = usage' + refunds'
      BY <1>1, <2>9 DEF LoopIInv, LoopTypes, BooksAreKept
    <3> QED BY <1>1, <2>2, <2>9, <3>1 DEF LoopIInv, BooksAreKept
  <2>14. ResultIsKept'
    BY <1>1, <2>9 DEF LoopIInv, ResultIsKept
  <2> QED BY <2>10, <2>11, <2>12, <2>13, <2>14 DEF LoopIInv
<1>3. CASE /\ \E why \in {"llm_error", "llm_timeout"} : EndWith(why)
           /\ text' = Append(text, Fragment("error"))
           /\ UNCHANGED <<iteration, usage, undone, refunds>>
  <2>1. at' = "ending" /\ reason' \in {"llm_error", "llm_timeout"}
    BY <1>3 DEF EndWith
  <2>2. attempt' \in 0 .. MaxAttempts
    BY <1>1 DEF LoopIInv, LoopTypes
  <2> QED BY <1>1, <1>3, <2>1, <2>2, ErrorEndsTheRun
<1> QED BY <1>2, <1>3 DEF StreamFails

LEMMA StreamEndsKept ==
  ASSUME LoopIInv, StreamEnds
  PROVE  LoopIInv'
<1>1. /\ UNCHANGED <<iteration, attempt, text, began, chunks, calls, success, usage, charged>>
      /\ UNCHANGED <<evidence, verified, late, zombies, saved, reason, ran, undone, refunds, vouched>>
      /\ at = "stream" /\ at' = "tools" /\ whole' = whole \cup {iteration}
  BY DEF StreamEnds, answerVars
<1>2. LoopTypes'
  BY <1>1 DEF LoopIInv, LoopTypes, Places, InIteration
<1>3. TextIsShort' /\ TextIsClean'
  BY <1>1 DEF LoopIInv, TextIsShort, TextIsClean, InIteration
<1>4. BooksAreKept' /\ ResultIsKept'
  BY <1>1 DEF LoopIInv, BooksAreKept, ResultIsKept
<1> QED BY <1>2, <1>3, <1>4 DEF LoopIInv

LEMMA RunToolsKept ==
  ASSUME LoopIInv, RunTools
  PROVE  LoopIInv'
<1>1. /\ UNCHANGED <<iteration, attempt, began, chunks, calls, verified, usage, charged, late, saved>>
      /\ UNCHANGED <<reason, whole, undone, refunds, vouched>>
      /\ at = "tools" /\ at' = "judge"
      /\ text' = text \o [k \in 1 .. Cardinality(calls) |-> Fragment("echo")]
      /\ ran' = ran \cup {[tool |-> t, it |-> iteration] : t \in calls}
  BY DEF RunTools
<1>2. PICK outcome \in [calls -> {"bars", "other", "error", "late"}] :
         /\ \A t \in calls : outcome[t] \in Outcomes(t)
         /\ success' = Succeeds(outcome)
         /\ evidence' = (evidence \/ (Grounding /\ \E t \in calls : outcome[t] = "bars"))
         /\ zombies' = zombies \cup {[tool |-> t, it |-> iteration] : t \in {u \in calls : outcome[u] = "late"}}
  BY DEF RunTools
<1>3. PICK n \in 0 .. MaxIterations : n = iteration
  BY DEF LoopIInv, LoopTypes
<1>4. PICK m \in Nat : m = Cardinality(calls) /\ m <= Cardinality(Tools) /\ (calls # {} => m # 0)
  <2>1. calls \in SUBSET Tools
    BY DEF LoopIInv, LoopTypes
  <2>2. IsFiniteSet(calls) /\ Cardinality(calls) <= Cardinality(Tools)
    BY <2>1, ToolsAssumption, FS_Subset
  <2> QED BY <2>2, FS_CardinalityType, FS_EmptySet
<1>5. Clean(text', undone, n) /\ Len(text') = Len(text) + m /\ Len(text) \in Nat
  <2>1. PICK s, U : s = text /\ U = undone
    OBVIOUS
  <2>2. Clean(s, U, n) /\ n \notin U
    BY <1>1, <1>3, <2>1 DEF LoopIInv, TextIsClean, InIteration
  <2>3. PICK e : e = Fragment("echo")
    OBVIOUS
  <2>4. e \in Fragments /\ e.it = n
    BY <1>3, <2>3 DEF Fragment, Fragments
  <2>5. PICK es : es = [k \in 1 .. m |-> e]
    OBVIOUS
  <2>6. PICK r : r = s \o es
    OBVIOUS
  <2>7. text' = r
    BY <1>1, <1>4, <2>1, <2>3, <2>5, <2>6
  <2>8. Clean(r, U, n)
    BY <2>2, <2>4, <2>5, <2>6, CleanEchoes
  <2>9. Len(r) = Len(s) + m
    BY <2>2, <2>4, <2>5, <2>6, CleanEchoes
  <2> QED BY <2>1, <2>2, <2>7, <2>8, <2>9, CleanLength
<1>6. success' \in BOOLEAN /\ evidence' \in BOOLEAN
  BY <1>2 DEF Succeeds, LoopIInv, LoopTypes
<1>7. LoopTypes'
  BY <1>1, <1>6 DEF LoopIInv, LoopTypes, Places, InIteration
<1>8. TextIsShort'
  <2>1. Len(text) < TokenLimit
    BY <1>1 DEF LoopIInv, TextIsShort
  <2>2. Len(text') < TokenLimit + Cardinality(Tools) /\ Len(text') \in Nat
    BY <1>4, <1>5, <2>1, LimitsAreNumbers
  <2>3. Len(text') <= TokenLimit + Cardinality(Tools) + 1
    BY <2>2, LimitsAreNumbers
  <2> QED BY <1>1, <2>2, <2>3 DEF TextIsShort
<1>9. TextIsClean'
  BY <1>1, <1>3, <1>5 DEF LoopIInv, TextIsClean, InIteration
<1>10. BooksAreKept'
  <2>1. iteration \in whole
    BY <1>1 DEF LoopIInv, BooksAreKept
  <2>2. \A x \in ran' : x.it \in whole
    BY <1>1, <2>1 DEF LoopIInv, BooksAreKept
  <2> QED BY <1>1, <2>2 DEF LoopIInv, BooksAreKept
<1>11. ResultIsKept'
  <2>1. zombies' \subseteq ran'
    BY <1>1, <1>2 DEF LoopIInv, ResultIsKept
  <2>2. \A z \in zombies' : z.it \in 0 .. iteration
    <3>1. iteration \in 0 .. iteration
      BY <1>3, LimitsAreNumbers
    <3> QED BY <1>2, <3>1 DEF LoopIInv, ResultIsKept
  <2>3. success' => OneInTime'
    <3>1. SUFFICES ASSUME success' PROVE OneInTime'
      OBVIOUS
    <3>2. PICK t \in calls : outcome[t] \in {"bars", "other"}
      BY <1>2, <3>1 DEF Succeeds
    <3>3. PICK x : x = [tool |-> t, it |-> n]
      OBVIOUS
    <3>4. x \notin zombies
      <4>1. \A z \in zombies : z.it < n
        BY <1>1, <1>3 DEF LoopIInv, ResultIsKept
      <4>2. x.it = n /\ ~(n < n)
        BY <3>3, LimitsAreNumbers
      <4> QED BY <4>1, <4>2
    <3>5. ASSUME NEW u \in calls, outcome[u] = "late", x = [tool |-> u, it |-> n] PROVE FALSE
      <4>1. u = t
        BY <3>3, <3>5
      <4> QED BY <3>2, <3>5, <4>1
    <3>6. x \notin zombies'
      BY <1>2, <1>3, <3>4, <3>5
    <3> QED BY <1>1, <1>3, <3>3, <3>6 DEF OneInTime
  <2>4. calls' # {} => text' # <<>>
    <3>1. ASSUME calls # {} PROVE text' # <<>>
      <4>1. Len(text') # 0
        BY <1>4, <1>5, <3>1
      <4> QED BY <1>5, <4>1, CleanLength
    <3> QED BY <1>1, <3>1
  <2> QED BY <1>1, <2>1, <2>2, <2>3, <2>4 DEF LoopIInv, ResultIsKept
<1> QED BY <1>7, <1>8, <1>9, <1>10, <1>11 DEF LoopIInv

LEMMA JudgeKept ==
  ASSUME LoopIInv, Judge
  PROVE  LoopIInv'
<1>1. /\ UNCHANGED <<iteration, attempt, began, chunks, calls, success, evidence, usage, charged, late, zombies>>
      /\ UNCHANGED <<ran, whole, undone, refunds>> /\ at = "judge"
      /\ saved' = IF at' = "decide" THEN Append(saved, reason) ELSE saved
  BY DEF Judge
<1>2. PICK v \in Verdicts, over \in Overspent :
         /\ verified' = v
         /\ vouched' = IF v THEN text ELSE vouched
         /\ IF over THEN EndWith("budget_fallback") /\ UNCHANGED text
            ELSE IF Len(text) >= TokenLimit THEN EndWith("token_limit") /\ text' = Cut(text)
            ELSE at' = "decide" /\ UNCHANGED <<text, reason>>
  BY DEF Judge
<1>3. v \in BOOLEAN /\ over \in BOOLEAN /\ (charged > SpendLimit => over = TRUE)
  BY DEF Verdicts, Overspent
<1>4. Clean(text, undone, iteration) /\ Len(text) \in Nat
  BY CleanLength DEF LoopIInv, TextIsClean
<1>5. Clean(Cut(text), undone, iteration) /\ Len(Cut(text)) <= TokenLimit /\ Len(Cut(text)) \in Nat
  BY <1>4, CleanCut, CleanLength
<1>6. saved' \in Seq(Reasons)
  BY <1>1 DEF LoopIInv, LoopTypes
<1>7. CASE at' = "ending"
  <2>1. reason' \in {"budget_fallback", "token_limit"} /\ (text' = text \/ text' = Cut(text))
    BY <1>2, <1>7 DEF EndWith
  <2>2. LoopTypes'
    BY <1>1, <1>2, <1>3, <1>6, <1>7, <2>1 DEF LoopIInv, LoopTypes, Places, Reasons, InIteration
  <2>3. TextIsShort'
    <3>1. Len(text') \in Nat /\ Len(text') <= TokenLimit + Cardinality(Tools) + 1
      BY <1>4, <1>5, <2>1, LimitsAreNumbers DEF LoopIInv, TextIsShort
    <3> QED BY <1>7, <3>1 DEF TextIsShort
  <2>4. TextIsClean'
    BY <1>1, <1>4, <1>5, <1>7, <2>1 DEF TextIsClean, InIteration
  <2>5. BooksAreKept' /\ ResultIsKept'
    BY <1>1, <1>7, <2>1 DEF LoopIInv, BooksAreKept, ResultIsKept
  <2> QED BY <2>2, <2>3, <2>4, <2>5 DEF LoopIInv
<1>8. CASE at' = "decide"
  <2>1. ~over /\ Len(text) < TokenLimit /\ UNCHANGED <<text, reason>>
    BY <1>2, <1>4, <1>8, LimitsAreNumbers DEF EndWith
  <2>2. LoopTypes'
    BY <1>1, <1>2, <1>3, <1>6, <1>8, <2>1 DEF LoopIInv, LoopTypes, Places, InIteration
  <2>3. TextIsShort'
    BY <1>4, <1>8, <2>1, LimitsAreNumbers DEF TextIsShort
  <2>4. TextIsClean'
    BY <1>1, <1>8, <2>1 DEF LoopIInv, TextIsClean, InIteration
  <2>5. BooksAreKept'
    BY <1>1, <1>3, <1>8, <2>1 DEF LoopIInv, BooksAreKept
  <2>6. verified' => vouched' = text'
    BY <1>2, <2>1
  <2>7. ResultIsKept'
    BY <1>1, <1>8, <2>1, <2>6 DEF LoopIInv, ResultIsKept, OneInTime
  <2> QED BY <2>2, <2>3, <2>4, <2>5, <2>7 DEF LoopIInv
<1> QED BY <1>2, <1>7, <1>8 DEF EndWith

LEMMA DecideKept ==
  ASSUME LoopIInv, Decide
  PROVE  LoopIInv'
<1>1. /\ UNCHANGED <<iteration, attempt, text, began, chunks, calls, success, usage, charged>>
      /\ UNCHANGED <<evidence, verified, late, zombies, saved, ran, whole, undone, refunds, vouched>>
      /\ at = "decide"
  BY DEF Decide, answerVars, historyVars
<1>2. \/ at' = "ending" /\ reason' = "completed" /\ GoodEnough
      \/ at' = "ending" /\ reason' = "grounding_failed"
      \/ at' = "head" /\ reason' = reason
  BY DEF Decide, EndWith
<1>3. LoopTypes'
  BY <1>1, <1>2 DEF LoopIInv, LoopTypes, Places, Reasons, InIteration
<1>4. TextIsShort' /\ TextIsClean'
  BY <1>1, <1>2 DEF LoopIInv, TextIsShort, TextIsClean, InIteration
<1>5. BooksAreKept'
  BY <1>1, <1>2 DEF LoopIInv, BooksAreKept
<1>6. ResultIsKept'
  <2>1. CASE at' = "ending" /\ reason' = "completed" /\ GoodEnough
    <3>1. vouched = text /\ text # <<>> /\ (calls # {} => OneInTime)
      BY <1>1, <2>1 DEF GoodEnough, LoopIInv, ResultIsKept
    <3> QED BY <1>1, <2>1, <3>1 DEF LoopIInv, ResultIsKept, OneInTime
  <2>2. CASE at' = "ending" /\ reason' = "grounding_failed"
    BY <1>1, <2>2 DEF LoopIInv, ResultIsKept
  <2>3. CASE at' = "head" /\ reason' = reason
    BY <1>1, <2>3 DEF LoopIInv, ResultIsKept
  <2> QED BY <1>2, <2>1, <2>2, <2>3
<1> QED BY <1>3, <1>4, <1>5, <1>6 DEF LoopIInv

LEMMA FinishKept ==
  ASSUME LoopIInv, Finish
  PROVE  LoopIInv'
<1>1. /\ UNCHANGED <<iteration, attempt, text, began, chunks, calls, success, usage, charged>>
      /\ UNCHANGED <<evidence, verified, late, zombies, ran, whole, undone, refunds, vouched>>
      /\ at = "ending" /\ at' = "over" /\ saved' = Append(saved, reason)
      /\ reason' = IF late THEN "wall_time" ELSE reason
  BY DEF Finish, answerVars, historyVars
<1>2. PICK s : s = saved /\ s \in Seq(Reasons) /\ reason \in Reasons
  BY DEF LoopIInv, LoopTypes
<1>3. PICK s1 : s1 = Append(s, reason)
  OBVIOUS
<1>4. s1 \in Seq(Reasons) /\ s1 # <<>> /\ s1[Len(s1)] = reason
  BY <1>2, <1>3
<1>5. saved' = s1
  BY <1>1, <1>2, <1>3
<1>6. LoopTypes'
  BY <1>1, <1>4, <1>5 DEF LoopIInv, LoopTypes, Places, Reasons, InIteration
<1>7. TextIsShort' /\ TextIsClean'
  BY <1>1 DEF LoopIInv, TextIsShort, TextIsClean, InIteration
<1>8. BooksAreKept'
  BY <1>1 DEF LoopIInv, BooksAreKept
<1>9. ResultIsKept'
  BY <1>1, <1>4, <1>5 DEF LoopIInv, ResultIsKept, OneInTime
<1> QED BY <1>6, <1>7, <1>8, <1>9 DEF LoopIInv

LEMMA ZombieEndsKept ==
  ASSUME LoopIInv, ZombieEnds
  PROVE  LoopIInv'
<1>1. /\ UNCHANGED <<at, iteration, attempt, text, began, chunks, calls, success, usage, charged>>
      /\ UNCHANGED <<evidence, verified, late, saved, reason, ran, whole, undone, refunds, vouched>>
      /\ zombies' \subseteq zombies
  BY DEF ZombieEnds, answerVars, historyVars
<1>2. LoopTypes' /\ TextIsShort' /\ TextIsClean' /\ BooksAreKept'
  BY <1>1 DEF LoopIInv, LoopTypes, TextIsShort, TextIsClean, BooksAreKept, InIteration
<1>3. OneInTime => OneInTime'
  BY <1>1 DEF OneInTime
<1>4. ResultIsKept'
  BY <1>1, <1>3 DEF LoopIInv, ResultIsKept
<1> QED BY <1>2, <1>4 DEF LoopIInv

LEMMA TimeIsUpKept ==
  ASSUME LoopIInv, TimeIsUp
  PROVE  LoopIInv'
<1>1. /\ UNCHANGED <<at, iteration, attempt, text, began, chunks, calls, success, usage, charged>>
      /\ UNCHANGED <<evidence, verified, zombies, saved, reason, ran, whole, undone, refunds, vouched>>
      /\ at # "over" /\ late' = TRUE
  BY DEF TimeIsUp, answerVars, historyVars
<1>2. LoopTypes' /\ TextIsShort' /\ TextIsClean' /\ BooksAreKept'
  BY <1>1 DEF LoopIInv, LoopTypes, TextIsShort, TextIsClean, BooksAreKept, InIteration
<1>3. ResultIsKept'
  BY <1>1 DEF LoopIInv, ResultIsKept, OneInTime
<1> QED BY <1>2, <1>3 DEF LoopIInv

LEMMA LoopStepKept == LoopIInv /\ [LoopNext]_loopVars => LoopIInv'
<1> SUFFICES ASSUME LoopIInv, [LoopNext]_loopVars PROVE LoopIInv'
  OBVIOUS
<1>1. CASE UNCHANGED loopVars
  <2>1. LoopTypes' /\ TextIsShort' /\ TextIsClean' /\ BooksAreKept'
    BY <1>1 DEF loopVars, LoopIInv, LoopTypes, TextIsShort, TextIsClean, BooksAreKept, InIteration
  <2>2. ResultIsKept'
    BY <1>1 DEF loopVars, LoopIInv, ResultIsKept, OneInTime
  <2> QED BY <2>1, <2>2 DEF LoopIInv
<1>2. CASE LoopNext
  BY <1>2, BeginIterationKept, CallModelKept, ChunkKept, StreamFailsKept, StreamEndsKept,
     RunToolsKept, JudgeKept, DecideKept, FinishKept, ZombieEndsKept, TimeIsUpKept
     DEF LoopNext, LoopStep
<1> QED BY <1>1, <1>2

LEMMA LoopImplied == LoopIInv => LoopInv
<1> SUFFICES ASSUME LoopIInv PROVE LoopInv
  OBVIOUS
<1>1. LoopTypeOK
  BY DEF LoopIInv, LoopTypes, TextIsShort, ResultIsKept, LoopTypeOK
<1>2. FailedStreamsAreUndone
  <2>1. \A k \in DOMAIN text : text[k].it \notin undone
    BY DEF LoopIInv, TextIsClean, Clean
  <2> QED BY <2>1 DEF LoopIInv, BooksAreKept, FailedStreamsAreUndone
<1>3. CompletedIsChecked /\ CallsWithinBudget /\ CompletedHasResult
  BY DEF LoopIInv, BooksAreKept, ResultIsKept, OneInTime, CompletedIsChecked, CallsWithinBudget,
         CompletedHasResult
<1> QED BY <1>1, <1>2, <1>3 DEF LoopInv

(* agent/loop.py: a run that reports "completed" gives the text that was checked, *)
(* with a result in time; a stream that failed leaves nothing but its charge; no  *)
(* stream is asked for over the budget but to retry one; and the last checkpoint  *)
(* says how the run ended.                                                        *)
THEOREM RunsAreSound == LoopSpec => []LoopInv
BY LoopInitially, LoopStepKept, LoopImplied, PTL DEF LoopSpec

-----------------------------------------------------------------------------
(***************************************************************************)
(* WsChannels: what the monitor suspects has been silent for as long as    *)
(* its record says, and whoever is connected or leaving answers for the    *)
(* presence of the channel.                                                *)
(***************************************************************************)

Attached == {s \in Sockets : socket[s].pc \in {"online", "open", "finally"}}

Leaving == {s \in Sockets : socket[s].pc \in {"closing", "offline"}}

(* The key is there for somebody, who will delete it. *)
PresenceIsOwed == presence => Attached \cup Leaving # {}

PresenceComesBack == Online /\ ~presence /\ touched => Pending

(* What the monitor goes by is not older than the silence of the clients. *)
SilenceIsSeen ==
    /\ age <= silence
    /\ monitor = "suspects" => silence = Timeout + 1

(* The inductive invariant of a channel. *)
WsIInv ==
    /\ WsType
    /\ conns \subseteq Attached
    /\ SilenceIsSeen
    /\ Monitored
    /\ "redis" \notin mishaps => PresenceIsOwed /\ PresenceComesBack
    /\ HeardIsNotEvicted

(* Where counting starts from. *)
LEMMA StartsInRange == -1 \in -1 .. Timeout + 1 /\ 0 \in -1 .. Timeout + 1 /\ 0 \in 0 .. Timeout + 1 /\ 0 \in 0 .. MaxKeepalives
BY TimeoutAssumption, MaxKeepalivesAssumption

(* The invariant holds at the start. *)
LEMMA WsInitially == WsInit => WsIInv
<1> SUFFICES ASSUME WsInit PROVE WsIInv
  OBVIOUS
<1>1. WsType
  BY StartsInRange DEF WsInit, WsType
<1>2. SilenceIsSeen /\ conns \subseteq Attached /\ Monitored
  BY TimeoutAssumption DEF WsInit, SilenceIsSeen, Monitored, Online
<1>3. PresenceIsOwed /\ PresenceComesBack /\ HeardIsNotEvicted
  BY DEF WsInit, PresenceIsOwed, PresenceComesBack, HeardIsNotEvicted
<1> QED BY <1>1, <1>2, <1>3 DEF WsIInv

(* A handler that moves on: what changes is where it is. *)
LEMMA TurnMoves ==
    ASSUME WsType, NEW s \in Sockets, NEW pc, Turns(s, pc),
           pc \in {"new", "online", "open", "finally", "closing", "offline", "untouch", "done"}
    PROVE  /\ socket' \in [Sockets -> [pc : {"new", "online", "open", "finally", "closing", "offline", "untouch", "done"},
                                       ghost : BOOLEAN]]
           /\ \A c \in Sockets : socket'[c].pc = IF c = s THEN pc ELSE socket[c].pc
BY DEF WsType, Turns

(* The types. *)
LEMMA WsTypeStep == WsType /\ WsNext => WsType'
<1> SUFFICES ASSUME WsType, WsNext PROVE WsType'
  OBVIOUS
<1>1. ASSUME NEW s \in Sockets, Connect(s) PROVE WsType'
  BY <1>1, StartsInRange, TurnMoves DEF Connect, Record, WsType
<1>2. ASSUME NEW s \in Sockets, Receive(s) PROVE WsType'
  BY <1>2, StartsInRange, TurnMoves DEF Receive, Record, Refresh, WsType
<1>3. ASSUME NEW s \in Sockets, Vanish(s) PROVE WsType'
  BY <1>3 DEF Vanish, WsType
<1>4. ASSUME NEW s \in Sockets, Quit(s) PROVE WsType'
  BY <1>4, TurnMoves DEF Quit, WsType
<1>5. ASSUME NEW s \in Sockets, SendFails(s) PROVE WsType'
  BY <1>5 DEF SendFails, WsType
<1>6. ASSUME NEW s \in Sockets, MarkOnline(s) PROVE WsType'
  BY <1>6, TurnMoves DEF MarkOnline, Redis, WsType
<1>7. ASSUME NEW s \in Sockets, ServerPong(s) PROVE WsType'
  <2>1. CASE keepalives + 1 <= MaxKeepalives
    <3>1. keepalives' \in 0 .. MaxKeepalives
      BY MaxKeepalivesAssumption, <1>7, <2>1 DEF ServerPong, Keepalive, WsType
    <3>2. Refresh(s) /\ Record /\ UNCHANGED <<conns, presence, silence, mishaps>>
      BY MaxKeepalivesAssumption, <1>7, <2>1 DEF ServerPong, WsType
    <3> QED BY <3>1, <3>2, StartsInRange, TurnMoves DEF Record, Refresh, WsType
  <2>2. CASE ~(keepalives + 1 <= MaxKeepalives)
    BY <1>7, <2>2 DEF ServerPong, WsType
  <2> QED BY <2>1, <2>2
<1>8. ASSUME NEW s \in Sockets, DisconnectSocket(s) PROVE WsType'
  BY <1>8, TurnMoves DEF DisconnectSocket, WsType
<1>9. ASSUME NEW s \in Sockets, Cleanup(s) PROVE WsType'
  BY <1>9, StartsInRange, TurnMoves DEF Cleanup, Forget, WsType
<1>10. ASSUME NEW s \in Sockets, MarkOffline(s) PROVE WsType'
  BY <1>10, TurnMoves DEF MarkOffline, Redis, WsType
<1>11. ASSUME NEW s \in Sockets, Untouch(s) PROVE WsType'
  BY <1>11, TurnMoves DEF Untouch, WsType
<1>12. CASE Check
  BY <1>12, StartsInRange DEF Check, Snapshot, Evict, Spare, Evicted, Forget, WsType
<1>13. CASE TickTock
  <2>1. age' \in -1 .. Timeout + 1
    BY TimeoutAssumption, <1>13 DEF TickTock, Capped, WsType
  <2>2. silence' \in 0 .. Timeout + 1
    BY TimeoutAssumption, <1>13 DEF TickTock, Capped, WsType
  <2> QED BY <1>13, <2>1, <2>2 DEF TickTock, WsType
<1>14. CASE PresenceExpires
  BY <1>14 DEF PresenceExpires, WsType
<1> QED
  BY <1>1, <1>2, <1>3, <1>4, <1>5, <1>6, <1>7, <1>8, <1>9, <1>10, <1>11, <1>12, <1>13, <1>14
     DEF WsNext, Handle

(* The steps of the handlers. *)
LEMMA HandlersKeep ==
    ASSUME WsIInv, NEW s \in Sockets,
           Connect(s) \/ Receive(s) \/ Vanish(s) \/ Quit(s) \/ SendFails(s) \/ Handle(s)
    PROVE  WsIInv'
<1> USE TimeoutAssumption, MaxKeepalivesAssumption
<1>1. WsType /\ WsType'
  BY WsTypeStep DEF WsIInv, WsNext
<1>2. \A pc \in {"new", "online", "open", "finally", "closing", "offline", "untouch", "done"} :
        Turns(s, pc) => \A c \in Sockets : socket'[c].pc = IF c = s THEN pc ELSE socket[c].pc
  BY <1>1, TurnMoves
<1>3. CASE Connect(s)
  <2>1. \A c \in Sockets : socket'[c].pc = IF c = s THEN "online" ELSE socket[c].pc
    BY <1>2, <1>3 DEF Connect
  <2>2. (conns \subseteq Attached)'
    BY <1>3, <2>1 DEF WsIInv, Connect, Attached
  <2>3. SilenceIsSeen' /\ Monitored' /\ HeardIsNotEvicted'
    BY <1>3 DEF WsIInv, Connect, Record, SilenceIsSeen, Monitored, HeardIsNotEvicted
  <2>4. PresenceIsOwed' /\ PresenceComesBack'
    BY <2>1 DEF PresenceIsOwed, PresenceComesBack, Attached, Pending
  <2> QED BY <1>1, <2>2, <2>3, <2>4 DEF WsIInv
<1>4. ASSUME Refresh(s), SocketAt(s, "open"), Record, silence' \in {0, silence},
             UNCHANGED <<conns, presence, mishaps>>
      PROVE  WsIInv'
  <2>1. \A c \in Sockets : socket'[c].pc = IF c = s THEN (IF touched THEN "open" ELSE "online") ELSE socket[c].pc
    BY <1>2, <1>4 DEF Refresh
  <2>2. (conns \subseteq Attached)'
    BY <1>4, <2>1 DEF WsIInv, Attached
  <2>3. silence' \in Nat
    BY <1>1, <1>4 DEF WsType
  <2>4. SilenceIsSeen'
    BY <1>4, <2>3 DEF WsIInv, Record, SilenceIsSeen
  <2>5. Monitored' /\ HeardIsNotEvicted'
    BY <1>4 DEF WsIInv, Record, Monitored, HeardIsNotEvicted
  <2>6. PresenceIsOwed'
    BY <2>1 DEF PresenceIsOwed, Attached
  <2>7. "redis" \notin mishaps' => PresenceComesBack'
    BY <1>4, <2>1 DEF WsIInv, SocketAt, PresenceComesBack, Online, Pending
  <2> QED BY <1>1, <2>2, <2>4, <2>5, <2>6, <2>7 DEF WsIInv
<1>5. CASE Receive(s)
  BY <1>4, <1>5 DEF Receive
<1>6. CASE ServerPong(s)
  <2>1. CASE Refresh(s) /\ Record
    BY <1>4, <1>6, <2>1 DEF ServerPong
  <2>2. CASE UNCHANGED <<age, touched, monitor, socket>>
    BY <1>1, <1>6, <2>2 DEF ServerPong, WsIInv, Attached, Leaving, SilenceIsSeen, Monitored, PresenceIsOwed,
       PresenceComesBack, Pending, Online, HeardIsNotEvicted
  <2> QED BY <1>6, <2>1, <2>2 DEF ServerPong
<1>7. CASE Vanish(s)
  <2>1. \A c \in Sockets : socket'[c].pc = socket[c].pc
    BY <1>1, <1>7 DEF Vanish, WsType
  <2>2. UNCHANGED <<conns, age, keepalives, touched, presence, monitor, silence, mishaps>>
    BY <1>7 DEF Vanish
  <2> QED BY <1>1, <2>1, <2>2 DEF WsIInv, Attached, Leaving, SilenceIsSeen, Monitored, PresenceIsOwed,
           PresenceComesBack, Pending, Online, HeardIsNotEvicted
<1>8. CASE Quit(s)
  <2>1. \A c \in Sockets : socket'[c].pc = IF c = s THEN "finally" ELSE socket[c].pc
    BY <1>2, <1>8 DEF Quit
  <2>2. /\ UNCHANGED <<conns, age, keepalives, touched, presence, monitor, silence, mishaps>>
        /\ socket[s].pc = "open"
    BY <1>8 DEF Quit, SocketAt
  <2> QED BY <1>1, <2>1, <2>2 DEF WsIInv, Attached, Leaving, SilenceIsSeen, Monitored, PresenceIsOwed,
           PresenceComesBack, Pending, Online, HeardIsNotEvicted
<1>9. CASE SendFails(s)
  BY <1>1, <1>9 DEF SendFails, WsIInv, Attached, Leaving, SilenceIsSeen, Monitored, PresenceIsOwed,
     PresenceComesBack, Pending, Online, HeardIsNotEvicted
<1>10. CASE MarkOnline(s)
  <2>1. \A c \in Sockets : socket'[c].pc = IF c = s THEN "open" ELSE socket[c].pc
    BY <1>2, <1>10 DEF MarkOnline
  <2>2. /\ UNCHANGED <<conns, age, keepalives, touched, monitor, silence>> /\ socket[s].pc = "online"
        /\ mishaps' \in {mishaps, mishaps \cup {"redis"}}
        /\ "redis" \notin mishaps' => presence' = TRUE
    BY <1>10 DEF MarkOnline, SocketAt, Redis
  <2> QED BY <1>1, <2>1, <2>2 DEF WsIInv, Attached, Leaving, SilenceIsSeen, Monitored, PresenceIsOwed,
           PresenceComesBack, Pending, Online, HeardIsNotEvicted
<1>11. CASE DisconnectSocket(s)
  <2>1. \A c \in Sockets : socket'[c].pc = IF c = s THEN "closing" ELSE socket[c].pc
    BY <1>2, <1>11 DEF DisconnectSocket
  <2>2. /\ UNCHANGED <<age, keepalives, touched, presence, monitor, silence, mishaps>>
        /\ socket[s].pc = "finally" /\ conns' = conns \ {s}
    BY <1>11 DEF DisconnectSocket, SocketAt
  <2> QED BY <1>1, <2>1, <2>2 DEF WsIInv, Attached, Leaving, SilenceIsSeen, Monitored, PresenceIsOwed,
           PresenceComesBack, Pending, Online, HeardIsNotEvicted
<1>12. CASE Cleanup(s)
  <2>1. socket[s].pc = "closing" /\ UNCHANGED <<conns, presence, silence, mishaps>>
    BY <1>12 DEF Cleanup, SocketAt
  <2>2. CASE Online /\ Turns(s, "done") /\ UNCHANGED <<age, keepalives, touched, monitor>>
    <3>1. \A c \in Sockets : socket'[c].pc = IF c = s THEN "done" ELSE socket[c].pc
      BY <1>2, <2>2
    <3>2. (conns \subseteq Attached)'
      BY <2>1, <3>1 DEF WsIInv, Attached
    <3>3. PresenceIsOwed'
      BY <2>1, <2>2, <3>2 DEF PresenceIsOwed, Online
    <3> QED BY <1>1, <2>1, <2>2, <3>1, <3>2, <3>3 DEF WsIInv, SilenceIsSeen, Monitored,
             PresenceComesBack, Pending, Online, HeardIsNotEvicted
  <2>3. CASE /\ ~Online /\ Forget /\ touched' = FALSE /\ Turns(s, "offline")
             /\ monitor' = IF monitor = "suspects" THEN "reassured" ELSE monitor
    <3>1. \A c \in Sockets : socket'[c].pc = IF c = s THEN "offline" ELSE socket[c].pc
      BY <1>2, <2>3
    <3>2. (conns \subseteq Attached)' /\ ~Online'
      BY <2>1, <2>3 DEF Online
    <3>3. PresenceIsOwed'
      BY <3>1 DEF PresenceIsOwed, Leaving
    <3>4. SilenceIsSeen'
      BY <1>1, <2>1, <2>3 DEF SilenceIsSeen, Forget, WsType
    <3> QED BY <1>1, <2>1, <2>3, <3>2, <3>3, <3>4 DEF WsIInv, Monitored, PresenceComesBack, HeardIsNotEvicted
  <2> QED BY <1>12, <2>2, <2>3 DEF Cleanup
<1>13. CASE MarkOffline(s)
  <2>1. \A c \in Sockets : socket'[c].pc = IF c = s THEN "untouch" ELSE socket[c].pc
    BY <1>2, <1>13 DEF MarkOffline
  <2>2. /\ UNCHANGED <<conns, age, keepalives, touched, monitor, silence>> /\ socket[s].pc = "offline"
        /\ mishaps' \in {mishaps, mishaps \cup {"redis"}}
        /\ "redis" \notin mishaps' => presence' = FALSE
    BY <1>13 DEF MarkOffline, SocketAt, Redis
  <2> QED BY <1>1, <2>1, <2>2 DEF WsIInv, Attached, Leaving, SilenceIsSeen, Monitored, PresenceIsOwed,
           PresenceComesBack, Pending, Online, HeardIsNotEvicted
<1>14. CASE Untouch(s)
  <2>1. \A c \in Sockets : socket'[c].pc = IF c = s THEN "done" ELSE socket[c].pc
    BY <1>2, <1>14 DEF Untouch
  <2>2. /\ UNCHANGED <<conns, age, keepalives, presence, monitor, silence, mishaps>>
        /\ socket[s].pc = "untouch" /\ touched' = FALSE
    BY <1>14 DEF Untouch, SocketAt
  <2> QED BY <1>1, <2>1, <2>2 DEF WsIInv, Attached, Leaving, SilenceIsSeen, Monitored, PresenceIsOwed,
           PresenceComesBack, Pending, Online, HeardIsNotEvicted
<1> QED BY <1>3, <1>5, <1>6, <1>7, <1>8, <1>9, <1>10, <1>11, <1>12, <1>13, <1>14 DEF Handle

(* The monitor, and time. *)
LEMMA MonitorKeeps ==
    ASSUME WsIInv, Check \/ TickTock \/ PresenceExpires
    PROVE  WsIInv'
<1> USE TimeoutAssumption, MaxKeepalivesAssumption
<1>1. WsType /\ WsType'
  BY WsTypeStep DEF WsIInv, WsNext
<1>2. /\ socket' = socket /\ UNCHANGED <<Attached, Leaving, Pending>>
      /\ age \in Int /\ silence \in Int
  BY <1>1 DEF Check, Snapshot, Evict, Spare, Evicted, TickTock, PresenceExpires, Attached, Leaving, Pending, WsType
<1>3. CASE Snapshot
  BY <1>1, <1>2, <1>3 DEF Snapshot, Stale, WsIInv, WsType, SilenceIsSeen, Monitored, PresenceIsOwed, PresenceComesBack,
     Online, HeardIsNotEvicted
<1>4. CASE Evict
  <2>1. silence = Timeout + 1
    BY <1>4 DEF WsIInv, Evict, StillSuspect, SilenceIsSeen
  <2>2. mishaps' = mishaps
    BY <1>4, <2>1 DEF Evict
  <2> QED BY <1>1, <1>2, <1>4, <2>2 DEF Evict, WsIInv, SilenceIsSeen, Monitored, PresenceIsOwed, PresenceComesBack,
           Online, HeardIsNotEvicted
<1>5. CASE Spare
  BY <1>1, <1>2, <1>5 DEF Spare, WsIInv, SilenceIsSeen, Monitored, PresenceIsOwed, PresenceComesBack,
     Online, HeardIsNotEvicted
<1>6. CASE Evicted
  <2>1. CASE age = -1 \/ Stale
    BY <1>1, <1>2, <1>6, <2>1 DEF Evicted, Forget, WsIInv, WsType, SilenceIsSeen, Monitored, PresenceIsOwed,
       PresenceComesBack, Online, HeardIsNotEvicted
  <2>2. CASE ~(age = -1 \/ Stale)
    BY <1>1, <1>2, <1>6, <2>2 DEF Evicted, WsIInv, SilenceIsSeen, Monitored, PresenceIsOwed,
       PresenceComesBack, Online, HeardIsNotEvicted
  <2> QED BY <2>1, <2>2
<1>7. CASE TickTock
  <2>1. SilenceIsSeen'
    BY <1>1, <1>7 DEF TickTock, Capped, WsIInv, WsType, SilenceIsSeen
  <2>2. age' = -1 => age = -1
    BY <1>1, <1>7 DEF TickTock, Capped, WsType
  <2> QED BY <1>1, <1>2, <1>7, <2>1, <2>2 DEF TickTock, WsIInv, Monitored, PresenceIsOwed, PresenceComesBack,
           Online, HeardIsNotEvicted
<1>8. CASE PresenceExpires
  BY <1>1, <1>2, <1>8 DEF PresenceExpires, WsIInv, SilenceIsSeen, Monitored, PresenceIsOwed,
     PresenceComesBack, Online, HeardIsNotEvicted
<1> QED BY <1>3, <1>4, <1>5, <1>6, <1>7, <1>8 DEF Check

(* Every step keeps the invariant. *)
LEMMA WsStep == WsIInv /\ [WsNext]_wsVars => WsIInv'
<1> SUFFICES ASSUME WsIInv, [WsNext]_wsVars PROVE WsIInv'
  OBVIOUS
<1>1. CASE WsNext
  BY <1>1, HandlersKeep, MonitorKeeps DEF WsNext
<1>2. CASE UNCHANGED wsVars
  BY <1>2 DEF wsVars, WsIInv, WsType, Attached, Leaving, SilenceIsSeen, Monitored, PresenceIsOwed, PresenceComesBack,
     Pending, Online, HeardIsNotEvicted
<1> QED BY <1>1, <1>2

(* The invariant is stronger than what the run checks. *)
LEMMA WsImplied == WsIInv => WsInv
<1>1. WsIInv => PresenceFollows
  BY DEF WsIInv, PresenceFollows, PresenceIsOwed, PresenceComesBack, Attached, Leaving
<1> QED BY <1>1 DEF WsIInv, WsInv

(* No channel is lost from the monitor's sight, none of which a client was     *)
(* heard is evicted, and the presence in Redis follows the sockets, for any    *)
(* number of sockets and any timeouts.                                         *)
THEOREM ChannelsAreKept == WsSpec => []WsInv
BY WsInitially, WsStep, WsImplied, PTL DEF WsSpec

-----------------------------------------------------------------------------
(* A run of the agent and the gateway that it asks: a completed run gives what *)
(* was checked, and no provider is refused but for its failures in a row.      *)
THEOREM AgentIsKept == LoopSpec /\ GatewaySpec => []AgentInv
BY RunsAreSound, RefusalsAreEarned, PTL DEF AgentInv
==============================================================================
