------------------------------ MODULE MCStores ------------------------------
(***************************************************************************)
(* What an agent and the requests for it leave in stores, for TLC: the     *)
(* records of tool calls, checkpoints and sessions, the kill switch, the   *)
(* quota and the requests charged to it, the windows and buckets of the    *)
(* limiters, the bundle of the research page, the tickets, the ledger that *)
(* is reconciled, the bars that are known at a time, and the trace of a    *)
(* run. A behaviour explores one of them.                                  *)
(***************************************************************************)
EXTENDS ToolDedup, AgentCheckpoints, Sessions, KillSwitch, QueryRequests,
        RedisLimiter, TokenBuckets, BundleCache, SseTickets,
        Reconciliation, PitStore, TraceFile, TLC

CONSTANTS c1, c2, c3, c4, h1, h2, q1, q2, a1, a2, a3, m1, m2, o1, o2, r1,
          u1, u2, u3, k1, k2, d1, d2, v1, v2, s1, s2, y1, y2, z1,
          z2, l1, l2, i1, i2, pw1, pw2, pr1, tw1, tw2

TwoProcesses == (c1 :> h1) @@ (c2 :> h1) @@ (c3 :> h2) @@ (c4 :> h2)

Sqlite(answers) == [postgres |-> FALSE, answers |-> answers]

PostgreSQL(answers) == [postgres |-> TRUE, answers |-> answers]

(* An SQLite file whose statements may fail; PostgreSQL in each of its ways. *)
AllDeployments ==
    {Sqlite({TRUE, FALSE})} \cup {PostgreSQL(answers) : answers \in (SUBSET BOOLEAN) \ {{}}}

Pair(a, b, exchanged) == IF exchanged THEN (a :> b) @@ (b :> a) ELSE (a :> a) @@ (b :> b)

TwoWeeks == ("x" :> {1, 2}) @@ ("y" :> {2, 3})

(* Calls of one process are interchangeable; so are tickets, the servers they are *)
(* shown to and those who show them, clients, callers of one tool call, writers.   *)
(* As a behaviour explores one component, one permutation may exchange pairs of   *)
(* several.                                                                       *)
Exchanges ==
    {Pair(c1, c2, x) @@ Pair(l1, l2, x) @@ Pair(u1, u2, x) @@ Pair(m1, m2, x) @@ Pair(pw1, pw2, x) @@
     Pair(c3, c4, y) @@ Pair(z1, z2, y) @@ Pair(y1, y2, y) @@ Pair(a1, a2, y) @@ Pair(tw1, tw2, y) :
        x \in BOOLEAN, y \in BOOLEAN}

Buckets2 == [burst |-> 3, sustained |-> 2]

Rates2 == [burst |-> 2, sustained |-> 1]

VARIABLE focus   \* the component that a behaviour explores

Components == {"dedup", "checkpoints", "session", "switch", "quota",
               "query", "limiter", "buckets", "bundle",
               "tickets", "reconciliation", "pit", "trace"}

mcVars == <<focus, vars, ckptVars, sessionVars, switchVars, queryVars,
            limiterVars, bucketVars, bundleVars,
            ticketVars, reconVars, pitVars, traceVars>>

MCInit ==
    /\ focus \in Components
    /\ Init
    /\ focus # "dedup" => deployment = CHOOSE d \in Deployments : TRUE
    /\ CkptInit
    /\ SessionInit
    /\ SwitchInit
    /\ QueryInit
    /\ focus # "query" => llm = "real"
    /\ LimiterInit
    /\ focus # "limiter" => scripts
    /\ BucketsInit
    /\ BundleInit
    /\ focus # "bundle" => shared = Nothing
    /\ TicketsInit
    /\ ReconInit
    /\ PitInit
    /\ TraceInit

MCNext ==
    /\ UNCHANGED focus
    /\ \/ /\ focus = "dedup" /\ Next
          /\ UNCHANGED <<ckptVars, sessionVars, switchVars, queryVars,
                         limiterVars, bucketVars,
                         bundleVars, ticketVars,
                         reconVars, pitVars,
                         traceVars>>
       \/ /\ focus = "checkpoints" /\ CkptNext
          /\ UNCHANGED <<vars, sessionVars, switchVars, queryVars,
                         limiterVars, bucketVars,
                         bundleVars, ticketVars,
                         reconVars, pitVars,
                         traceVars>>
       \/ /\ focus = "session" /\ SessionNext
          /\ UNCHANGED <<vars, ckptVars, switchVars, queryVars, limiterVars,
                         bucketVars, bundleVars,
                         ticketVars, reconVars,
                         pitVars, traceVars>>
       \/ /\ focus = "switch" /\ SwitchNext
          /\ UNCHANGED <<vars, ckptVars, sessionVars, queryVars, limiterVars,
                         bucketVars, bundleVars,
                         ticketVars, reconVars,
                         pitVars, traceVars>>
       \/ /\ focus = "quota" /\ QuotaNext /\ UNCHANGED requestVars
          /\ UNCHANGED <<vars, ckptVars, sessionVars, switchVars,
                         limiterVars, bucketVars,
                         bundleVars, ticketVars,
                         reconVars, pitVars,
                         traceVars>>
       \/ /\ focus = "query" /\ QueryNext
          /\ UNCHANGED <<vars, ckptVars, sessionVars, switchVars,
                         limiterVars, bucketVars,
                         bundleVars, ticketVars,
                         reconVars, pitVars,
                         traceVars>>
       \/ /\ focus = "limiter" /\ LimiterNext
          /\ UNCHANGED <<vars, ckptVars, sessionVars, switchVars, queryVars,
                         bucketVars, bundleVars,
                         ticketVars, reconVars,
                         pitVars, traceVars>>
       \/ /\ focus = "buckets" /\ BucketsNext
          /\ UNCHANGED <<vars, ckptVars, sessionVars, switchVars, queryVars,
                         limiterVars, bundleVars,
                         ticketVars, reconVars,
                         pitVars, traceVars>>
       \/ /\ focus = "bundle" /\ BundleNext
          /\ UNCHANGED <<vars, ckptVars, sessionVars, switchVars, queryVars,
                         limiterVars, bucketVars,
                         ticketVars, reconVars,
                         pitVars, traceVars>>
       \/ /\ focus = "tickets" /\ TicketsNext
          /\ UNCHANGED <<vars, ckptVars, sessionVars, switchVars, queryVars,
                         limiterVars, bucketVars,
                         bundleVars, reconVars,
                         pitVars, traceVars>>
       \/ /\ focus = "reconciliation" /\ ReconNext
          /\ UNCHANGED <<vars, ckptVars, sessionVars, switchVars, queryVars,
                         limiterVars, bucketVars,
                         bundleVars, ticketVars,
                         pitVars, traceVars>>
       \/ /\ focus = "pit" /\ PitNext
          /\ UNCHANGED <<vars, ckptVars, sessionVars, switchVars, queryVars,
                         limiterVars, bucketVars,
                         bundleVars, ticketVars,
                         reconVars, traceVars>>
       \/ /\ focus = "trace" /\ TraceNext
          /\ UNCHANGED <<vars, ckptVars, sessionVars, switchVars, queryVars,
                         limiterVars, bucketVars,
                         bundleVars, ticketVars,
                         reconVars, pitVars>>

MCSpec == MCInit /\ [][MCNext]_mcVars

(* What is left of a conversation: checkpoints, messages, tool calls, the trace. *)
ConversationInv == CkptInv /\ SessionInv /\ TraceInv

(* The counter of the quota, and what requests are told of what they are charged. *)
BudgetInv == QuotaInv /\ (focus = "query" => QueryInv)

(* Who is let in: past the kill switch, and by a ticket. *)
GateInv == SwitchInv /\ TicketsInv

(* The limiters: windows by Redis, rates by buckets. *)
LimitsInv == LimiterInv /\ BucketsInv

(* What is shown of what others change: the research page and the bars of a day. *)
ShownInv == BundleInv /\ PitInv
=============================================================================
