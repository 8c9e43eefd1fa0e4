----------------------------- MODULE SseTickets -----------------------------
(***************************************************************************)
(* The single-use tickets of api/security.py that admit a request or a     *)
(* WebSocket.  A ticket lives in Redis or, when Redis did not answer at    *)
(* its issue, in the memory of the server that issued it.  It is consumed  *)
(* by GETDEL, by a script where that fails, and else from the memory of    *)
(* the server asked.                                                       *)
(***************************************************************************)
EXTENDS Integers, Sequences

CONSTANTS
    Tickets,
    Servers,
    Bearers,       \* requests and sockets that present a ticket
    MaxTickets     \* _MAX_TICKETS: tickets in the memory of a server

ASSUME MaxTicketsAssumption == MaxTickets \in Nat \ {0}

VARIABLES
    scope,         \* what a ticket was issued for; "none": not issued; "legacy": without a scope
    inRedis,       \* tickets in Redis
    inMemory,      \* tickets in the memory of each server, the oldest first
    bearer,        \* who presents what where, and how far the consumption is
    accepted,      \* history: acceptances, by ticket and bearer
    outdated       \* history: tickets whose time is over

ticketVars == <<scope, inRedis, inMemory, bearer, accepted, outdated>>

Scopes == {"query", "metrics", "stream"}

Doors == {"query", "stream", "metrics", "socket"}

(* require_scope of each consumer; a socket requires none. *)
Required(door) ==
    CASE door = "query"   -> {"query"}
      [] door = "stream"  -> {"query", "stream"}
      [] door = "metrics" -> {"metrics"}
      [] door = "socket"  -> Scopes

(* _scope_allowed *)
ScopeAllowed(t, door) == scope[t] = "legacy" \/ scope[t] \in Required(door)

(* The tickets in a memory, and what is left of it without t: dict.pop. *)
TicketsIn(memory) == {memory[i] : i \in DOMAIN memory}

Popped(memory, t) ==
    IF t \in TicketsIn(memory)
    THEN LET k == CHOOSE i \in DOMAIN memory : memory[i] = t
         IN  SubSeq(memory, 1, k - 1) \o SubSeq(memory, k + 1, Len(memory))
    ELSE memory

Issued == {t \in Tickets : scope[t] # "none"}

NotHere == [pc |-> "away"]

TicketsInit ==
    /\ scope = [t \in Tickets |-> "none"]
    /\ inRedis = {}
    /\ inMemory = [h \in Servers |-> <<>>]
    /\ bearer = [b \in Bearers |-> NotHere]
    /\ accepted = {}
    /\ outdated = {}

-----------------------------------------------------------------------------
(* issue_ticket: SET NX EX. *)
IssueInRedis(t, s) ==
    /\ scope[t] = "none"
    /\ scope' = [scope EXCEPT ![t] = s]
    /\ inRedis' = inRedis \cup {t}
    /\ UNCHANGED <<inMemory, bearer, accepted, outdated>>

(* _issue_ticket_memory: no Redis or no answer; a full memory drops its oldest. *)
IssueInMemory(t, s, h) ==
    LET kept == IF Len(inMemory[h]) >= MaxTickets THEN Tail(inMemory[h]) ELSE inMemory[h]
    IN  /\ scope[t] = "none"
        /\ scope' = [scope EXCEPT ![t] = s]
        /\ inMemory' = [inMemory EXCEPT ![h] = Append(kept, t)]
        /\ UNCHANGED <<inRedis, bearer, accepted, outdated>>

(* EX in Redis; expired entries of a memory are purged at every access. *)
TicketExpires(t) ==
    /\ t \in Issued \ outdated
    /\ outdated' = outdated \cup {t}
    /\ inRedis' = inRedis \ {t}
    /\ inMemory' = [h \in Servers |-> Popped(inMemory[h], t)]
    /\ UNCHANGED <<scope, bearer, accepted>>

-----------------------------------------------------------------------------
BearerAt(b, pc) == bearer[b].pc = pc

Present(b, t, h, door) ==
    /\ BearerAt(b, "away") /\ t \in Issued
    /\ bearer' = [bearer EXCEPT ![b] = [pc |-> "getdel", ticket |-> t, server |-> h,
                                       door |-> door, tries |-> 1]]
    /\ UNCHANGED <<scope, inRedis, inMemory, accepted, outdated>>

(* A socket whose consumption failed tries once more (_consume_ticket_identity). *)
Turned(b) ==
    bearer' = IF bearer[b].door = "socket" /\ bearer[b].tries = 1
              THEN [bearer EXCEPT ![b].pc = "getdel", ![b].tries = 2]
              ELSE [bearer EXCEPT ![b].pc = "refused"]

(* The ticket was taken out: it counts if its scope is allowed, and is used up anyway. *)
JudgeTicket(b) ==
    IF ScopeAllowed(bearer[b].ticket, bearer[b].door)
    THEN /\ accepted' = accepted \cup {[ticket |-> bearer[b].ticket, bearer |-> b, try |-> bearer[b].tries]}
         /\ bearer' = [bearer EXCEPT ![b].pc = "accepted"]
    ELSE Turned(b) /\ UNCHANGED accepted

BearerTo(b, pc) == bearer' = [bearer EXCEPT ![b].pc = pc]

(* A bug: the script reads the value and does not delete it. *)
TakenReadOnly(t) == inRedis' = inRedis

(* Both GETDEL and the script read and delete in one step. *)
Taken(t) == inRedis' = inRedis \ {t}

(* A command that takes the ticket out, or tells that there is none: memory next. *)
RedisAnswers(b) ==
    LET t == bearer[b].ticket
    IN  /\ IF t \in inRedis THEN Taken(t) /\ JudgeTicket(b)
                            ELSE BearerTo(b, "memory") /\ UNCHANGED <<inRedis, accepted>>
        /\ UNCHANGED <<scope, inMemory, outdated>>

(* A command that fails, perhaps after it had its effect. *)
RedisRaises(b, next) ==
    /\ \/ Taken(bearer[b].ticket)
       \/ UNCHANGED inRedis
    /\ BearerTo(b, next)
    /\ UNCHANGED <<scope, inMemory, accepted, outdated>>

GetDel(b) == BearerAt(b, "getdel") /\ (RedisAnswers(b) \/ RedisRaises(b, "eval"))

Eval(b) == BearerAt(b, "eval") /\ (RedisAnswers(b) \/ RedisRaises(b, "memory"))

(* There is no client: Redis is not asked. *)
NoClient(b) ==
    /\ BearerAt(b, "getdel")
    /\ BearerTo(b, "memory")
    /\ UNCHANGED <<scope, inRedis, inMemory, accepted, outdated>>

(* _consume_ticket_memory_with_user *)
PopMemory(b) ==
    LET t == bearer[b].ticket
        h == bearer[b].server
    IN  /\ BearerAt(b, "memory")
        /\ IF t \in TicketsIn(inMemory[h])
           THEN inMemory' = [inMemory EXCEPT ![h] = Popped(@, t)] /\ JudgeTicket(b)
           ELSE Turned(b) /\ UNCHANGED <<inMemory, accepted>>
        /\ UNCHANGED <<scope, inRedis, outdated>>

TicketsNext ==
    \/ \E t \in Tickets, s \in {"query", "metrics", "legacy"} :
          IssueInRedis(t, s) \/ \E h \in Servers : IssueInMemory(t, s, h)
    \/ \E t \in Tickets : TicketExpires(t)
    \/ \E b \in Bearers :
          \/ \E t \in Tickets, h \in Servers, door \in Doors : Present(b, t, h, door)
          \/ GetDel(b) \/ Eval(b) \/ NoClient(b) \/ PopMemory(b)

TicketsSpec == TicketsInit /\ [][TicketsNext]_ticketVars

-----------------------------------------------------------------------------
StillThere(t) == t \in inRedis \/ \E h \in Servers : t \in TicketsIn(inMemory[h])

(* A ticket admits once, whatever servers it is shown to, however often, and   *)
(* whatever Redis does; once it has, it is nowhere.                            *)
AcceptedOnce ==
    \A a, b \in accepted : a.ticket = b.ticket => a = b /\ ~StillThere(a.ticket)

(* It admits where it was issued for. *)
RightDoor == \A a \in accepted : ScopeAllowed(a.ticket, bearer[a.bearer].door)

(* It is kept in one place. *)
OnePlace ==
    \A t \in Tickets : \A h \in Servers :
        t \in TicketsIn(inMemory[h]) =>
            t \notin inRedis /\ \A k \in Servers \ {h} : t \notin TicketsIn(inMemory[k])

(* consume_ticket_with_user (api/security.py:283): tickets are single-use and *)
(* bound to their scope.                                                      *)
TicketsInv ==
    /\ AcceptedOnce
    /\ RightDoor
    /\ OnePlace
    /\ \A h \in Servers : Len(inMemory[h]) <= MaxTickets
=============================================================================
