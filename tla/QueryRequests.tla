--------------------------- MODULE QueryRequests ---------------------------
(***************************************************************************)
(* GET /v1/query and GET /v1/query/stream of api/server.py: requests of    *)
(* one tenant on their way through the checks, the agent loop and the      *)
(* accounts.  They share the token budget of the tenant, whose consumption *)
(* is that of TenantQuota: a request is its consumer.  The ticket of a     *)
(* request is taken as given (SseTickets); the loop is its outcome.        *)
(***************************************************************************)
EXTENDS TenantQuota

CONSTANTS
    Clients,      \* the requests, each a consumer of the quota
    MaxReruns     \* bound: runs of the loop that end in RuntimeError

ASSUME ClientsAssumption == Clients \subseteq Consumers

VARIABLES
    llm,         \* "real", or "synthetic" without a key (_FakeLLM)
    killed,      \* is a kill switch of the tenant on, or unreadable?
    request,     \* the requests
    spent,       \* history: tokens that the loops of real requests have used
    log          \* history: the audit entries, by request and action

requestVars == <<llm, killed, request, spent, log>>
queryVars == <<quotaVars, requestVars>>

NewRequest ==
    [pc |-> "new", door |-> "query", tokens |-> 0, unseen |-> 0, reasons |-> {}, paid |-> FALSE,
     late |-> FALSE, runs |-> 0, unbilled |-> FALSE]

QueryInit ==
    /\ QuotaInit
    /\ llm \in {"real", "synthetic"}
    /\ killed = FALSE
    /\ request = [r \in Clients |-> NewRequest]
    /\ spent = 0
    /\ log = {}

RequestAt(r, pc) == request[r].pc = pc

NowIs(r, new) == request' = [request EXCEPT ![r] = new]

GoesTo(r, pc) == NowIs(r, [request[r] EXCEPT !.pc = pc])

-----------------------------------------------------------------------------
(* Before the loop. *)

(* The rate limit (429) and a wall time out of range (422) come before the ticket,  *)
(* and of a stream the paths (400) too: none of them uses it up.                    *)
TurnAway(r, door) ==
    /\ RequestAt(r, "new")
    /\ NowIs(r, [NewRequest EXCEPT !.pc = "refused", !.door = door])
    /\ UNCHANGED <<quotaVars, llm, killed, spent, log>>

(* The ticket is consumed; a bad one is refused (401, 403). *)
ConsumeTicket(r, door) ==
    /\ RequestAt(r, "new")
    /\ \E pc \in {"gate", "refused"} :
          NowIs(r, [NewRequest EXCEPT !.pc = pc, !.door = door])
    /\ UNCHANGED <<quotaVars, llm, killed, spent, log>>

(* _enforce_token_budget_gate: a counter that cannot be read counts as 0. *)
Readings == {used, 0}

GateOpen(seen) == seen < Budget

PassGate(r) ==
    /\ RequestAt(r, "gate")
    /\ \E seen \in Readings :
          NowIs(r, [request[r] EXCEPT !.pc = IF GateOpen(seen) THEN "checks" ELSE "refused",
                                        !.late = seen = used /\ grants = Budget])
    /\ UNCHANGED <<quotaVars, llm, killed, spent, log>>

(* What a request may still fail on: the paths of a query, its own or the server's   *)
(* faults; for a query these are in the audit, for a stream nothing has started yet. *)
FailBefore(r) ==
    /\ RequestAt(r, "checks")
    /\ GoesTo(r, "refused")
    /\ log' \in {log} \cup IF request[r].door = "query" THEN {log \cup {<<r, "failed">>}} ELSE {}
    /\ UNCHANGED <<quotaVars, llm, killed, spent>>

(* _enforce_kill_switch: 503 when it is on or cannot be read. *)
CheckSwitch(r) ==
    /\ RequestAt(r, "checks")
    /\ GoesTo(r, IF killed THEN "refused" ELSE "run")
    /\ UNCHANGED <<quotaVars, llm, killed, spent, log>>

SwitchTurns ==
    /\ killed' = ~killed
    /\ UNCHANGED <<quotaVars, llm, request, spent, log>>

-----------------------------------------------------------------------------
(* The loop, in a thread. *)

Uses(n) == spent' = spent + (IF llm = "real" THEN n ELSE 0)

(* The thread ends with a result: with the usage its backend told, or without (0). *)
RunLoop(r, n) ==
    /\ RequestAt(r, "run")
    /\ asked + n <= MaxAsked
    /\ \E told \in {n, 0} :
          NowIs(r, [request[r] EXCEPT !.pc = "account", !.tokens = told, !.unseen = @ + n - told, !.runs = @ + 1])
    /\ Uses(n)
    /\ UNCHANGED <<quotaVars, llm, killed, log>>

(* RuntimeError is taken for a broken thread pool: the whole loop runs again, *)
(* and only the usage of the last run is accounted.                           *)
Rerun(r, n) ==
    /\ RequestAt(r, "run") /\ request[r].runs < MaxReruns
    /\ NowIs(r, [request[r] EXCEPT !.runs = @ + 1, !.unseen = @ + n])
    /\ Uses(n)
    /\ UNCHANGED <<quotaVars, llm, killed, log>>

(* Any other exception: 500, or an error event in the stream. *)
RunRaises(r) ==
    /\ RequestAt(r, "run")
    /\ GoesTo(r, "failed")
    /\ log' = log \cup {<<r, "failed">>}
    /\ UNCHANGED <<quotaVars, llm, killed, spent>>

(* The client of a stream goes away while the loop runs: its thread ends alone, *)
(* and nothing accounts for it.                                                 *)
Disconnect(r, n) ==
    /\ RequestAt(r, "run") /\ request[r].door = "stream"
    /\ NowIs(r, [request[r] EXCEPT !.pc = "gone", !.unseen = @ + n])
    /\ Uses(n)
    /\ UNCHANGED <<quotaVars, llm, killed, log>>

-----------------------------------------------------------------------------
(* _account_llm_cost_and_budget *)

(* A bug: the refusal of the quota is logged and not told. *)
DegradedSilently(r, reason) == GoesTo(r, "answer")

Degraded(r, reason) ==
    NowIs(r, [request[r] EXCEPT !.pc = "answer", !.reasons = @ \cup {reason}])

(* A synthetic answer costs nothing. *)
AccountNothing(r) ==
    /\ RequestAt(r, "account") /\ llm = "synthetic"
    /\ GoesTo(r, "answer")
    /\ UNCHANGED <<quotaVars, llm, killed, spent, log>>

UsageMissing(r) ==
    /\ RequestAt(r, "account") /\ llm = "real" /\ request[r].tokens = 0
    /\ Degraded(r, "llm_usage_missing")
    /\ UNCHANGED <<quotaVars, llm, killed, spent, log>>

(* build_usage raises: a warning in the log, and the answer goes out as if all were well. *)
BuildFails(r) ==
    /\ RequestAt(r, "account") /\ llm = "real" /\ request[r].tokens > 0
    /\ NowIs(r, [request[r] EXCEPT !.pc = "answer", !.unbilled = TRUE])
    /\ UNCHANGED <<quotaVars, llm, killed, spent, log>>

Charge(r) ==
    /\ RequestAt(r, "account") /\ llm = "real" /\ request[r].tokens > 0
    /\ \/ /\ Consume(r, request[r].tokens)
          /\ GoesTo(r, "charging")
       \/ /\ ConsumeLost(r, request[r].tokens)
          /\ Degraded(r, "quota_backend_unavailable")
    /\ UNCHANGED <<llm, killed, spent, log>>

(* No Redis at all: nothing is counted. *)
NoBackend(r) ==
    /\ RequestAt(r, "account") /\ llm = "real" /\ request[r].tokens > 0
    /\ Degraded(r, "quota_backend_unavailable")
    /\ UNCHANGED <<quotaVars, llm, killed, spent, log>>

Charged(r) ==
    /\ RequestAt(r, "charging")
    /\ \/ /\ Grant(r)
          /\ NowIs(r, [request[r] EXCEPT !.pc = "answer", !.paid = TRUE])
       \/ /\ TakeBack(r)
          /\ Degraded(r, "tenant_daily_token_budget_exceeded")
    /\ UNCHANGED <<llm, killed, spent, log>>

(* The answer goes out after its audit entry, which may time out.  Of a stream the *)
(* client may be gone before that.                                                 *)
Answer(r) ==
    /\ RequestAt(r, "answer")
    /\ GoesTo(r, "done")
    /\ log' \in {log, log \cup {<<r, "completed">>}}
    /\ UNCHANGED <<quotaVars, llm, killed, spent>>

(* What comes after the accounts may raise too: 500 for an answer that was paid. *)
AnswerRaises(r) ==
    /\ RequestAt(r, "answer")
    /\ GoesTo(r, "failed")
    /\ log' \in {log, log \cup {<<r, "failed">>}}
    /\ UNCHANGED <<quotaVars, llm, killed, spent>>

QueryNext ==
    \/ SwitchTurns
    \/ \E r \in Clients :
          \/ \E door \in {"query", "stream"} : TurnAway(r, door) \/ ConsumeTicket(r, door)
          \/ PassGate(r) \/ FailBefore(r) \/ CheckSwitch(r)
          \/ \E n \in Amounts : RunLoop(r, n) \/ Rerun(r, n) \/ Disconnect(r, n)
          \/ RunRaises(r)
          \/ AccountNothing(r) \/ UsageMissing(r) \/ BuildFails(r) \/ NoBackend(r)
          \/ Charge(r) \/ Charged(r)
          \/ Answer(r) \/ AnswerRaises(r)

QuerySpec == QueryInit /\ [][QueryNext]_queryVars

-----------------------------------------------------------------------------
(* Tokens of the last run of a request that were neither granted nor are accounted yet. *)
Unpaid(r) == IF request[r].paid \/ llm # "real" THEN 0 ELSE request[r].tokens + request[r].unseen

Unseen(r) == IF request[r].paid /\ llm = "real" THEN request[r].unseen ELSE 0

(* Every token that a loop used was granted, or belongs to a request that is not paid. *)
TokensAddUp ==
    spent = grants + SumOf([r \in Clients |-> Unpaid(r)]) + SumOf([r \in Clients |-> Unseen(r)])

(* An answer whose last run was not charged says so, unless the usage could not be built. *)
UnpaidIsTold ==
    \A r \in Clients :
        request[r].pc = "done" /\ llm = "real" /\ ~request[r].paid =>
            request[r].reasons # {} \/ request[r].unbilled

(* A paid answer does not call itself degraded for the budget. *)
PaidIsNotBlamed ==
    \A r \in Clients : request[r].paid => request[r].reasons = {}

(* Once the last token of the budget is granted, whoever comes and can read the *)
(* counter does not run: no compensation of another request opens the gate again. *)
FullStaysFull == \A r \in Clients : request[r].late => request[r].runs = 0

(* A request that was turned away before the loop costs nothing. *)
RefusalIsFree ==
    \A r \in Clients :
        request[r].pc = "refused" => request[r].runs = 0 /\ ~request[r].paid /\ consumer[r].pc = "idle"

(* The requests of api/server.py:2164 and 2628 account for the tokens they use: *)
(* what is charged fits the budget, and what is not charged is told.            *)
QueryInv ==
    /\ QuotaInv
    /\ TokensAddUp
    /\ UnpaidIsTold
    /\ PaidIsNotBlamed
    /\ FullStaysFull
    /\ RefusalIsFree
=============================================================================
