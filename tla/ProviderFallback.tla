-------------------------- MODULE ProviderFallback --------------------------
(***************************************************************************)
(* LLMGateway (llm/gateway.py): the providers of a chain are asked one     *)
(* after the other until one answers.  Each has a breaker behind a count   *)
(* of consecutive failures: the breaker is told of a failure only when     *)
(* there have been TripAfter of them without a success, and of every       *)
(* success.  One caller at a time, as the evaluations do, completes or     *)
(* streams; a stream may fall back only before its first chunk.            *)
(***************************************************************************)
EXTENDS CircuitBreaker

CONSTANTS
    ChainLength,    \* providers, in the order in which they are asked
    TripAfter,      \* trip_after_failures
    MaxTold,        \* bound: events that count in a breaker when a call begins
    MaxLetDowns     \* bound: calls of a provider that fail, or that the consumer leaves

ASSUME ChainAssumption ==
    /\ ChainLength \in Nat \ {0} /\ TripAfter \in Nat \ {0}
    /\ MaxTold \in Nat /\ MaxLetDowns \in Nat

Providers == 1 .. ChainLength

VARIABLES
    gate,       \* of a provider: its breaker, and the count before it
    prompt,     \* the call under way
    active, degraded,
    voices,     \* history: whose chunks the consumer of this call has seen
    streak,     \* history: failures in a row, TripAfter of them at most
    sinceRow,   \* history: time since there were TripAfter of them
    letDowns

gatewayVars == <<gate, prompt, active, degraded, voices, streak, sinceRow, letDowns>>

(* The ages of a row that matter: while it counts, and then keeps the breaker open. *)
Forgotten == Window + OpenFor + 2

NewGate == [breaker |-> NewBreaker, consecutive |-> 0, tripped |-> FALSE]

NoPrompt == [at |-> "none", p |-> 0, stream |-> FALSE]

GatewayInit ==
    /\ gate = [p \in Providers |-> NewGate]
    /\ prompt = [NoPrompt EXCEPT !.at = "start"]
    /\ active = 0 /\ degraded = FALSE
    /\ voices = {}
    /\ streak = [p \in Providers |-> 0]
    /\ sinceRow = [p \in Providers |-> Forgotten]
    /\ letDowns = 0

-----------------------------------------------------------------------------
(* _sync, and the breaker's own view of the time *)
Synced(g) ==
    LET b == Current(g.breaker) IN
    [g EXCEPT !.breaker = b, !.tripped = @ /\ b.state = "OPEN"]

(* allow, of a gate that is synced *)
Admits(g) == ~g.tripped /\ Allows(g.breaker)

(* record_success, which is not told how long it took *)
GateSucceeded(g) ==
    [breaker |-> Succeeded(g.breaker, FALSE), consecutive |-> 0, tripped |-> FALSE]

InARow(g) == g.consecutive + 1 >= TripAfter

(* record_failure; more than TripAfter failures in a row are all alike *)
GateFailed(g, slow) ==
    IF InARow(g)
    THEN LET b == Failed(g.breaker, slow) IN
         [breaker |-> b, consecutive |-> TripAfter, tripped |-> b.state = "OPEN"]
    ELSE [g EXCEPT !.consecutive = @ + 1]

(* The history of the calls of which the first have failed, and the second have not. *)
Noted(failed, answered) ==
    /\ streak' = [p \in Providers |->
                    IF p \in failed THEN Older(streak[p], TripAfter)
                    ELSE IF p \in answered THEN 0 ELSE streak[p]]
    /\ sinceRow' = [p \in Providers |->
                      IF p \in failed /\ streak'[p] = TripAfter THEN 0 ELSE sinceRow[p]]

-----------------------------------------------------------------------------
(* health_check, once before anything else: who fails is counted, and the *)
(* gateway is degraded when another provider than the first must do.      *)
HealthCheck ==
    /\ prompt.at = "start"
    /\ \E silent \in SUBSET Providers, slow \in BOOLEAN :
         LET awake == Providers \ silent IN
         /\ letDowns + (IF silent = {} THEN 0 ELSE 1) <= MaxLetDowns
         /\ letDowns' = letDowns + (IF silent = {} THEN 0 ELSE 1)
         /\ gate' = [p \in Providers |->
                       IF p \in silent THEN GateFailed(gate[p], slow) ELSE GateSucceeded(gate[p])]
         /\ Noted(silent, awake)
         /\ active' = IF awake = {} THEN 0 ELSE CHOOSE p \in awake : \A q \in awake : p <= q
         /\ degraded' = (awake # {} /\ 1 \in silent)
    /\ prompt' = NoPrompt
    /\ UNCHANGED voices

(* complete or stream_chat *)
AskChain(stream) ==
    /\ prompt.at \in {"start", "none"}
    /\ \A p \in Providers : Len(Pruned(gate[p].breaker).events) < MaxTold
    /\ prompt' = [at |-> "choose", p |-> 1, stream |-> stream]
    /\ voices' = {}
    /\ UNCHANGED <<gate, active, degraded, streak, sinceRow, letDowns>>

Chosen == prompt.at = "choose" /\ prompt.p \in Providers

(* The provider whose turn it is, is asked, or skipped as its circuit is open. *)
Choose ==
    /\ Chosen
    /\ LET g == Synced(gate[prompt.p]) IN
       /\ gate' = [gate EXCEPT ![prompt.p] = g]
       /\ prompt' = IF Admits(g) THEN [prompt EXCEPT !.at = "asked"]
                    ELSE [prompt EXCEPT !.p = @ + 1]
    /\ UNCHANGED <<active, degraded, voices, streak, sinceRow, letDowns>>

(* AllProvidersFailed *)
NobodyAnswers ==
    /\ prompt.at = "choose" /\ ~Chosen
    /\ degraded' = TRUE
    /\ prompt' = NoPrompt
    /\ UNCHANGED <<gate, active, voices, streak, sinceRow, letDowns>>

Speaking == prompt.at \in {"asked", "spoken"}

(* A chunk reaches the consumer; the next one may follow. *)
Speak ==
    /\ Speaking /\ prompt.stream
    /\ prompt' = [prompt EXCEPT !.at = "spoken"]
    /\ voices' = voices \cup {prompt.p}
    /\ UNCHANGED <<gate, active, degraded, streak, sinceRow, letDowns>>

(* _mark_success: a text that is not empty, or the end of a stream after a chunk *)
Answered ==
    /\ prompt.at = IF prompt.stream THEN "spoken" ELSE "asked"
    /\ gate' = [gate EXCEPT ![prompt.p] = GateSucceeded(@)]
    /\ active' = prompt.p
    /\ degraded' = (prompt.p > 1)
    /\ prompt' = NoPrompt
    /\ voices' = IF prompt.stream THEN voices ELSE {prompt.p}
    /\ Noted({}, {prompt.p})
    /\ UNCHANGED letDowns

(* What follows a failure: the next provider, or, after a chunk, the caller's exception. *)
AfterFailure ==
    IF prompt.at = "spoken" THEN NoPrompt ELSE [prompt EXCEPT !.at = "choose", !.p = @ + 1]

(* _mark_failure: the client cannot be built, raises, or says nothing *)
Fails ==
    /\ Speaking
    /\ letDowns < MaxLetDowns
    /\ letDowns' = letDowns + 1
    /\ \E slow \in BOOLEAN : gate' = [gate EXCEPT ![prompt.p] = GateFailed(@, slow)]
    /\ Noted({prompt.p}, {})
    /\ prompt' = AfterFailure
    /\ UNCHANGED <<active, degraded, voices>>

(* The consumer closes the stream: nothing is recorded. *)
Leaves ==
    /\ prompt.at = "spoken"
    /\ letDowns < MaxLetDowns
    /\ letDowns' = letDowns + 1
    /\ prompt' = NoPrompt
    /\ UNCHANGED <<gate, active, degraded, voices, streak, sinceRow>>

GatewayTick ==
    /\ gate' = [p \in Providers |-> [gate[p] EXCEPT !.breaker = Aged(@)]]
    /\ sinceRow' = [p \in Providers |-> Older(sinceRow[p], Forgotten)]
    /\ UNCHANGED <<prompt, active, degraded, voices, streak, letDowns>>

PromptStep == Choose \/ NobodyAnswers \/ Answered

GatewayNext ==
    \/ HealthCheck
    \/ \E stream \in BOOLEAN : AskChain(stream)
    \/ PromptStep \/ Speak \/ Fails \/ Leaves
    \/ GatewayTick

GatewaySpec == GatewayInit /\ [][GatewayNext]_gatewayVars

(* Time passes, what is asked for goes on, and somebody goes on asking. *)
GatewayFairness ==
    /\ WF_gatewayVars(GatewayTick)
    /\ SF_gatewayVars(AskChain(FALSE))
    /\ WF_gatewayVars(PromptStep)
    /\ WF_gatewayVars(prompt.at = "asked" /\ Speak)

-----------------------------------------------------------------------------
(* The types. *)
GatewayType ==
    /\ gate \in [Providers -> [breaker : Breaker, consecutive : 0 .. TripAfter, tripped : BOOLEAN]]
    /\ prompt.p \in 0 .. ChainLength + 1
    /\ active \in 0 .. ChainLength /\ degraded \in BOOLEAN
    /\ voices \subseteq Providers
    /\ letDowns \in 0 .. MaxLetDowns

(* Nobody reads an answer that two providers have written: whatever failed, *)
(* timed out or was refused before it, it is of the one that is active when *)
(* it ends.                                                                 *)
OneVoice == \A p, q \in voices : p = q

(* A provider is refused only when, within the window before its breaker opened, *)
(* it has failed TripAfter times in a row: single failures do not add up,        *)
(* however many there are.  It need not be its last call that failed: a success  *)
(* that finds nothing but such a row in the window opens the breaker, too.       *)
RefusedForARow ==
    \A p \in Providers :
        Synced(gate[p]).breaker.state = "OPEN" => sinceRow[p] <= Window + gate[p].breaker.opened

GatewayInv == GatewayType /\ OneVoice /\ RefusedForARow

(* Once nobody fails any more and calls go on, the first provider answers again, *)
(* and the gateway says so, however often it was tripped before.                 *)
PrimaryComesBack == <>[](~degraded)
=============================================================================
