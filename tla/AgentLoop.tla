----------------------------- MODULE AgentLoop ------------------------------
(***************************************************************************)
(* One run of the agent loop, AgentLoop.run of agent/loop.py: iterations   *)
(* that stream an answer from the model, run the tools it asks for, check  *)
(* the figures it states against the evidence the tools gave, look at the  *)
(* budgets, leave a checkpoint and decide whether to go on.                *)
(*                                                                         *)
(* The loop is one thread.  Beside it time passes and tools that took too  *)
(* long go on in the threads they were given up in.  A fragment is a chunk *)
(* of text or the echo of a tool's result; it counts as one token.         *)
(***************************************************************************)
EXTENDS Integers, Sequences, FiniteSets

CONSTANTS
    MaxIterations,
    MaxAttempts,   \* RetryPolicy.max_attempts
    TokenLimit,
    SpendLimit,        \* daily_limit, in charges
    MaxChunks,     \* bound: chunks of a stream
    Tools,
    SafeTools,     \* those marked concurrency safe
    Grounding      \* whether there is an evidence ledger

ASSUME LoopNumbers == {MaxIterations, MaxAttempts, TokenLimit} \subseteq Nat \ {0} /\ SpendLimit \in Nat
ASSUME ToolsAssumption == IsFiniteSet(Tools) /\ SafeTools \subseteq Tools

VARIABLES
    at,         \* where the run is
    iteration,
    attempt,    \* attempts at the stream of this iteration
    text,       \* buffer, a sequence of fragments
    began,       \* how long text was, and usage, when the stream began
    chunks,     \* chunks of this stream so far
    calls,      \* tool_calls_this_iter
    success,    \* tool_success_this_iter
    evidence,   \* whether the ledger has evidence
    verified,   \* grounding_verified
    usage,      \* usage the run reports
    charged,    \* what the budget breaker was charged
    late,       \* whether the wall time is over the budget
    zombies,    \* tools given up that still run: [tool, it]
    saved,      \* checkpoints put: the reason each gave
    reason,
    ran,        \* history: tools started, [tool, it]
    whole,      \* history: iterations whose stream ended well
    undone,     \* history: iterations whose stream failed and was retried
    refunds,    \* history: usage taken back with them
    vouched     \* history: the text that the last check passed

loopVars == <<at, iteration, attempt, text, began, chunks, calls, success, evidence, verified, usage,
              charged, late, zombies, saved, reason, ran, whole, undone, refunds, vouched>>

Fragment(what) == [what |-> what, it |-> iteration]

(* buffer[:limit], unless it was cut before; the banner is not kept. *)
Cut(s) == SubSeq(s, 1, IF Len(s) < TokenLimit THEN Len(s) ELSE TokenLimit)

HasFigures(s) == \E k \in DOMAIN s : s[k].what = "figure"

-----------------------------------------------------------------------------
LoopInit ==
    /\ at = "head"
    /\ iteration = 0 /\ attempt = 0 /\ chunks = 0
    /\ text = <<>> /\ began = [text |-> 0, usage |-> 0]
    /\ calls = {} /\ success = FALSE
    /\ evidence = FALSE /\ verified = FALSE
    /\ usage = 0 /\ charged = 0 /\ refunds = 0
    /\ late = FALSE
    /\ zombies = {} /\ ran = {} /\ whole = {} /\ undone = {}
    /\ saved = <<>>
    /\ reason = "completed"
    /\ vouched = <<>>

(* What an iteration is about, and what only the end of the run changes. *)
answerVars == <<text, began, chunks, calls, success, usage, charged>>
historyVars == <<ran, whole, undone, refunds, vouched>>

EndWith(why) == at' = "ending" /\ reason' = why

Exhausted == iteration >= MaxIterations

(* The checks at the head of the loop, in their order; the context of the   *)
(* conversation may be too long where the text is not.                     *)
BeginIteration ==
    /\ at = "head"
    /\ \E contextFull \in BOOLEAN :
         IF late THEN EndWith("wall_time") /\ UNCHANGED <<iteration, attempt, text>>
         ELSE IF Exhausted
           THEN EndWith("max_iterations") /\ UNCHANGED <<iteration, attempt, text>>
         ELSE IF Len(text) >= TokenLimit \/ contextFull
           THEN /\ EndWith("token_limit") /\ text' = Cut(text)
                /\ UNCHANGED <<iteration, attempt>>
         ELSE /\ at' = "call" /\ iteration' = iteration + 1 /\ attempt' = 1
              /\ UNCHANGED <<text, reason>>
    /\ UNCHANGED <<began, chunks, calls, success, evidence, verified, usage, charged, late, zombies,
                   saved, historyVars>>

(* _call_llm, again while the policy says so. *)
CallModel ==
    /\ at = "call"
    /\ \/ /\ at' = "stream"
          /\ began' = [text |-> Len(text), usage |-> usage]
          /\ chunks' = 0 /\ attempt' = 0 /\ calls' = {} /\ success' = FALSE
          /\ UNCHANGED <<text, reason>>
       \/ /\ attempt < MaxAttempts /\ attempt' = attempt + 1
          /\ UNCHANGED <<at, began, chunks, calls, success, text, reason>>
       \/ /\ \E why \in {"llm_error", "llm_timeout"} : EndWith(why)
          /\ text' = Append(text, Fragment("error"))
          /\ attempt' = 0
          /\ UNCHANGED <<began, chunks, calls, success>>
    /\ UNCHANGED <<iteration, evidence, verified, usage, charged, late, zombies, saved, historyVars>>

(* A chunk: text, a tool call, or usage, which the breaker is charged at    *)
(* once.  A text at the limit ends the run, and its tools never start.     *)
Chunk ==
    /\ at = "stream" /\ chunks < MaxChunks
    /\ chunks' = chunks + 1
    /\ \/ \E what \in {"words", "figure"} :
            LET longer == Append(text, Fragment(what))
            IN  /\ text' = Cut(longer)
                /\ IF Len(longer) >= TokenLimit THEN EndWith("token_limit")
                   ELSE UNCHANGED <<at, reason>>
          /\ UNCHANGED <<calls, usage, charged>>
       \/ /\ \E t \in Tools : calls' = calls \cup {t}
          /\ UNCHANGED <<at, text, usage, charged, reason>>
       \/ /\ usage' = usage + 1 /\ charged' = charged + 1
          /\ UNCHANGED <<at, text, calls, reason>>
    /\ UNCHANGED <<iteration, attempt, began, success, evidence, verified, late, zombies, saved, historyVars>>

(* A bug: a retry does not count as an iteration. *)
RetryForFree ==
    /\ iteration < MaxAttempts
    /\ at' = "head" /\ iteration' = iteration - 1
    /\ text' = SubSeq(text, 1, began.text) /\ usage' = began.usage
    /\ UNCHANGED <<reason, undone, refunds>>

(* A stream that fails is undone and the next iteration tries again: its    *)
(* text and usage go, its tools never start, the charge stays.  The policy *)
(* is asked with the iteration for the attempt.                            *)
Retry ==
    /\ iteration < MaxAttempts
    /\ at' = "head" /\ UNCHANGED iteration
    /\ text' = SubSeq(text, 1, began.text) /\ usage' = began.usage
    /\ undone' = undone \cup {iteration} /\ refunds' = refunds + usage - began.usage
    /\ UNCHANGED reason

StreamFails ==
    /\ at = "stream"
    /\ \/ Retry
       \/ /\ \E why \in {"llm_error", "llm_timeout"} : EndWith(why)
          /\ text' = Append(text, Fragment("error"))
          /\ UNCHANGED <<iteration, usage, undone, refunds>>
    /\ UNCHANGED <<attempt, began, chunks, calls, success, evidence, verified, charged, late,
                   zombies, saved, ran, whole, vouched>>

StreamEnds ==
    /\ at = "stream"
    /\ at' = "tools"
    /\ whole' = whole \cup {iteration}
    /\ UNCHANGED <<iteration, attempt, answerVars, evidence, verified, late, zombies, saved, reason,
                   ran, undone, refunds, vouched>>

(* Tools of a stream.  Safe ones run side by side, each with a deadline     *)
(* after which it is given up, not stopped; the others run one after the   *)
(* other, as long as they take.  Each outcome is echoed in the text, and   *)
(* only one in time counts as a success or gives evidence.                 *)
Outcomes(t) == {"bars", "other", "error"} \cup (IF t \in SafeTools THEN {"late"} ELSE {})

(* A bug: a tool that was given up counts as one that answered. *)
LateCounts(outcome) == \E t \in calls : outcome[t] # "error"

Succeeds(outcome) == \E t \in calls : outcome[t] \in {"bars", "other"}

RunTools ==
    /\ at = "tools"
    /\ at' = "judge"
    /\ \E outcome \in [calls -> {"bars", "other", "error", "late"}] :
         /\ \A t \in calls : outcome[t] \in Outcomes(t)
         /\ success' = Succeeds(outcome)
         /\ evidence' = (evidence \/ (Grounding /\ \E t \in calls : outcome[t] = "bars"))
         /\ zombies' = zombies \cup {[tool |-> t, it |-> iteration] : t \in {u \in calls : outcome[u] = "late"}}
    /\ text' = text \o [k \in 1 .. Cardinality(calls) |-> Fragment("echo")]
    /\ ran' = ran \cup {[tool |-> t, it |-> iteration] : t \in calls}
    /\ UNCHANGED <<iteration, attempt, began, chunks, calls, verified, usage, charged, late, saved, reason,
                   whole, undone, refunds, vouched>>

(* A tool that was given up comes to its end; nobody takes the result. *)
ZombieEnds ==
    /\ \E z \in zombies : zombies' = zombies \ {z}
    /\ UNCHANGED <<at, iteration, attempt, answerVars, evidence, verified, late, saved, reason, historyVars>>

(* The figures the model states, without the echoes: one that the evidence  *)
(* supports vouches for the text, and none need not be supported.          *)
Verdicts ==
    IF Grounding /\ HasFigures(text) THEN (IF evidence THEN BOOLEAN ELSE {FALSE}) ELSE {TRUE}

(* Once usage was reported the breaker goes by what was spent, otherwise by *)
(* that and an estimate.  A breaker that fails counts as over.             *)
Overspent == IF charged > SpendLimit THEN {TRUE} ELSE BOOLEAN

Judge ==
    /\ at = "judge"
    /\ \E v \in Verdicts, over \in Overspent :
         /\ verified' = v
         /\ vouched' = IF v THEN text ELSE vouched
         /\ IF over THEN EndWith("budget_fallback") /\ UNCHANGED text
            ELSE IF Len(text) >= TokenLimit THEN EndWith("token_limit") /\ text' = Cut(text)
            ELSE at' = "decide" /\ UNCHANGED <<text, reason>>
    /\ saved' = IF at' = "decide" THEN Append(saved, reason) ELSE saved
    /\ UNCHANGED <<iteration, attempt, began, chunks, calls, success, evidence, usage, charged, late, zombies,
                   ran, whole, undone, refunds>>

(* The answer is given: a tool succeeded, or there are no tool calls and    *)
(* some text; and either is verified.                                      *)
GoodEnough == verified /\ (IF calls # {} THEN success ELSE text # <<>>)

(* An answer that has everything but the evidence. *)
Ungrounded == ~verified /\ (IF calls # {} THEN success ELSE text # <<>>)

Decide ==
    /\ at = "decide"
    /\ IF GoodEnough THEN EndWith("completed")
       ELSE IF Ungrounded /\ Exhausted THEN EndWith("grounding_failed")
       ELSE at' = "head" /\ UNCHANGED reason
    /\ UNCHANGED <<iteration, attempt, answerVars, evidence, verified, late, zombies, saved, historyVars>>

(* The last checkpoint, then the time is looked at once more: a run that    *)
(* took too long is reported so whatever its checkpoint says.              *)
Finish ==
    /\ at = "ending"
    /\ at' = "over"
    /\ saved' = Append(saved, reason)
    /\ reason' = IF late THEN "wall_time" ELSE reason
    /\ UNCHANGED <<iteration, attempt, answerVars, evidence, verified, late, zombies, historyVars>>

TimeIsUp ==
    /\ ~late /\ at # "over"
    /\ late' = TRUE
    /\ UNCHANGED <<at, iteration, attempt, answerVars, evidence, verified, zombies, saved, reason, historyVars>>

LoopStep ==
    \/ BeginIteration \/ CallModel \/ Chunk \/ StreamFails \/ StreamEnds
    \/ RunTools \/ Judge \/ Decide \/ Finish

LoopNext == LoopStep \/ ZombieEnds \/ TimeIsUp

(* The model answers or raises and a tool returns: the loop goes on.  That  *)
(* a stream of the model ends is the bound MaxChunks.                      *)
LoopFairness == WF_loopVars(LoopStep)

LoopSpec == LoopInit /\ [][LoopNext]_loopVars

-----------------------------------------------------------------------------
Places == {"head", "call", "stream", "tools", "judge", "decide", "ending", "over"}
Reasons == {"completed", "wall_time", "max_iterations", "token_limit", "llm_error", "llm_timeout",
            "budget_fallback", "grounding_failed"}

(* The types of the variables. *)
LoopTypeOK ==
    /\ at \in Places /\ reason \in Reasons
    /\ iteration \in 0 .. MaxIterations
    /\ attempt \in 0 .. MaxAttempts
    /\ calls \subseteq Tools
    /\ {success, evidence, verified, late} \subseteq BOOLEAN
    /\ zombies \subseteq ran
    /\ Len(text) <= TokenLimit + Cardinality(Tools) + 1

(* A run that reports "completed" gives the text that the last check        *)
(* passed, with nothing added, dropped or cut since.                       *)
CompletedIsChecked ==
    at = "over" /\ reason = "completed" => vouched = text

(* A stream that failed leaves nothing but its charge: no text, no usage,   *)
(* and no tool of an iteration starts unless its stream ended well.        *)
FailedStreamsAreUndone ==
    /\ \A k \in DOMAIN text : text[k].it \notin undone
    /\ \A x \in ran : x.it \in whole
    /\ charged = usage + refunds

(* No stream is asked for over the budget, except to retry a failed one,    *)
(* which goes on without a look at the budget.                             *)
CallsWithinBudget ==
    at = "call" /\ charged > SpendLimit => iteration - 1 \in undone

(* A run that reports "completed" has an answer: a text, and when the model *)
(* asked for tools in the end, one that answered in time.  Its checkpoint  *)
(* says the same; only a run that took too long is reported otherwise.     *)
CompletedHasResult ==
    /\ at = "over" /\ reason = "completed" =>
          text # <<>> /\ (calls # {} => \E t \in calls : [tool |-> t, it |-> iteration] \notin zombies)
    /\ at = "over" => saved[Len(saved)] = reason \/ (late /\ reason = "wall_time")

(* Every run that has begun ends. *)
RunEnds == iteration > 0 ~> at = "over"

(* What a run of the loop keeps: a text that was checked as it is, failed       *)
(* streams that leave nothing, the budget, and a reason that fits the result    *)
(* and the last checkpoint.                                                     *)
LoopInv ==
    /\ LoopTypeOK
    /\ CompletedIsChecked
    /\ FailedStreamsAreUndone
    /\ CallsWithinBudget
    /\ CompletedHasResult
=============================================================================
