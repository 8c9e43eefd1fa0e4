----------------------------- MODULE ToolDedup -----------------------------
(***************************************************************************)
(* Tool calls that carry the same idempotency key: execute_tool_call of    *)
(* tools/registry.py and the DedupStore of governance/dedup.py with its    *)
(* two backends, an SQLite file and PostgreSQL.                            *)
(*                                                                         *)
(* Keys do not interact, so one is enough: row is its record in the        *)
(* store, mem[h] the copy that process h keeps in DedupStore._mem.  Time   *)
(* is not counted: a record is fresh until its TTL passes.  An execution   *)
(* of the tool is named by the call that makes it.                         *)
(***************************************************************************)
EXTENDS Naturals

CONSTANTS
    Callers,        \* the calls of execute_tool_call with this key
    Nobody,
    Hosts,          \* processes, each with a DedupStore
    HostOf,         \* the process a call runs in
    Deployments,    \* the ways to deploy it: a backend, PostgreSQL or else an
                    \* SQLite file, and whether it answers: always ({TRUE}),
                    \* sometimes, or never ({FALSE}), as PostgreSQL behind an
                    \* asynchronous pool
    ToolRaises,     \* may the tool raise?
    Crashes,        \* may a process be killed?
    MaxExpiries     \* bound: how often a TTL runs out

ASSUME CallerAssumption == Nobody \notin Callers /\ HostOf \in [Callers -> Hosts]
ASSUME DeploymentAssumption ==
    Deployments \subseteq [postgres : BOOLEAN, answers : (SUBSET BOOLEAN) \ {{}}]
ASSUME BoundAssumption == MaxExpiries \in Nat

VARIABLES
    deployment, \* never changes
    row,        \* the record in the store
    mem,        \* process -> its copy
    call,       \* caller -> where it is, and the execution whose result
                \* it returned (Nobody: none, it raised)
    granted,    \* how many claims the calls were given, each of which
                \* lets the tool run once
    expired     \* how many times the TTL of a record ran out

vars == <<deployment, row, mem, call, granted, expired>>

Postgres == deployment.postgres

StoreAnswers == deployment.answers

Statuses == {"PENDING", "SUCCESS", "FAILED"}

Labels == {"claim", "tool", "succeed", "failing", "wait", "purge", "done"}

(* by is the call that wrote the record. *)
Record == [status : Statuses \cup {"absent"}, by : Callers \cup {Nobody}, fresh : BOOLEAN]

NoRecord == [status |-> "absent", by |-> Nobody, fresh |-> FALSE]

Written(status, c) == [status |-> status, by |-> c, fresh |-> TRUE]

(* A bug: only finished calls occupy the key. *)
LiveIgnoringPending(rec) == rec.status \in {"SUCCESS", "FAILED"} /\ rec.fresh

(* There is a record, and its TTL has not passed. *)
Live(rec) == rec.status # "absent" /\ rec.fresh

Settled(rec) == rec.status \in {"SUCCESS", "FAILED"} /\ rec.fresh

Init ==
    /\ deployment \in Deployments
    /\ row = NoRecord
    /\ mem = [h \in Hosts |-> NoRecord]
    /\ call = [c \in Callers |-> [pc |-> "claim", answer |-> Nobody]]
    /\ granted = 0
    /\ expired = 0

Goto(c, label) == call' = [call EXCEPT ![c].pc = label]

Return(c, answer) == call' = [call EXCEPT ![c] = [pc |-> "done", answer |-> answer]]

Remember(c, rec) == mem' = [mem EXCEPT ![HostOf[c]] = rec]

-----------------------------------------------------------------------------
(* insert_pending *)

Granted(c) ==
    /\ Remember(c, Written("PENDING", c))
    /\ granted' = granted + 1
    /\ Goto(c, "tool")

(* A bug: ON CONFLICT DO UPDATE. *)
ClaimInStoreUpserts(c) ==
    /\ TRUE \in StoreAnswers
    /\ row' = Written("PENDING", c)
    /\ Granted(c)

(* One transaction: an expired record is deleted, then a record is         *)
(* inserted unless there is one.                                           *)
ClaimInStore(c) ==
    /\ TRUE \in StoreAnswers
    /\ \/ ~Live(row) /\ row' = Written("PENDING", c) /\ Granted(c)
       \/ /\ Live(row)
          /\ Remember(c, IF Postgres /\ mem[HostOf[c]].status # "absent"
                         THEN mem[HostOf[c]] ELSE row)
          /\ Goto(c, "wait")
          /\ UNCHANGED <<row, granted>>

(* What is in the store after a statement that raised: a commit whose      *)
(* answer was lost may have been done.                                     *)
LostAnswer(rec) == row' \in {row} \cup IF TRUE \in StoreAnswers THEN {rec} ELSE {}

(* PostgreSQL raised or has no usable pool: the process decides by its own *)
(* copy.  An error of SQLite reaches the caller.                           *)
ClaimWithoutStore(c) ==
    /\ FALSE \in StoreAnswers
    /\ \/ /\ Postgres
          /\ LostAnswer(IF Live(row) THEN row ELSE Written("PENDING", c))
          /\ \/ ~Live(mem[HostOf[c]]) /\ Granted(c)
             \/ Live(mem[HostOf[c]]) /\ Goto(c, "wait") /\ UNCHANGED <<mem, granted>>
       \/ ~Postgres /\ Return(c, Nobody) /\ UNCHANGED <<row, mem, granted>>

Claim(c) ==
    /\ call[c].pc = "claim"
    /\ ClaimInStore(c) \/ ClaimWithoutStore(c)
    /\ UNCHANGED <<deployment, expired>>

-----------------------------------------------------------------------------
(* The tool, and mark_success / mark_failed. *)

RunTool(c) ==
    /\ call[c].pc = "tool"
    /\ Goto(c, "succeed") \/ (ToolRaises /\ Goto(c, "failing"))
    /\ UNCHANGED <<deployment, row, mem, granted, expired>>

(* The record is overwritten whatever it says, or inserted when missing.   *)
(* An error is logged and does not reach the caller of the tool.           *)
Mark(c, status) ==
    \/ /\ TRUE \in StoreAnswers
       /\ row' = Written(status, c)
       /\ Remember(c, Written(status, c))
    \/ /\ FALSE \in StoreAnswers
       /\ \/ Postgres /\ LostAnswer(Written(status, c)) /\ Remember(c, Written(status, c))
          \/ ~Postgres /\ UNCHANGED <<row, mem>>

MarkSuccess(c) ==
    /\ call[c].pc = "succeed"
    /\ Mark(c, "SUCCESS")
    /\ Return(c, c)
    /\ UNCHANGED <<deployment, granted, expired>>

MarkFailed(c) ==
    /\ call[c].pc = "failing"
    /\ Mark(c, "FAILED")
    /\ Return(c, Nobody)
    /\ UNCHANGED <<deployment, granted, expired>>

-----------------------------------------------------------------------------
(* wait_for: get() again and again until the record is settled, or until   *)
(* the timeout, after which the call is refused.                           *)

(* A bug: any record there is gets replayed. *)
ReplayUnfinished(c, rec) ==
    \/ rec.fresh /\ Return(c, rec.by)
    \/ ~rec.fresh /\ Goto(c, "wait")

(* What the waiting call does with the record it got. *)
Replay(c, rec) ==
    \/ Settled(rec) /\ Return(c, IF rec.status = "SUCCESS" THEN rec.by ELSE Nobody)
    \/ ~Settled(rec) /\ (Goto(c, "wait") \/ Return(c, Nobody))

(* get() without a record in the store: the copy of the process counts. *)
FromMemory(c) ==
    LET rec == IF Live(mem[HostOf[c]]) THEN mem[HostOf[c]] ELSE NoRecord IN
    Remember(c, rec) /\ Replay(c, rec)

Get(c) ==
    /\ call[c].pc = "wait"
    /\ \/ /\ TRUE \in StoreAnswers
          /\ \/ Live(row) /\ Remember(c, row) /\ Replay(c, row)
             \/ (row.status = "absent" \/ (Postgres /\ ~row.fresh)) /\ FromMemory(c)
             \/ /\ ~Postgres /\ row.status # "absent" /\ ~row.fresh
                /\ Goto(c, "purge") /\ UNCHANGED mem
       \/ /\ FALSE \in StoreAnswers
          /\ \/ Postgres /\ FromMemory(c)
             \/ ~Postgres /\ Return(c, Nobody) /\ UNCHANGED mem
    /\ UNCHANGED <<deployment, row, granted, expired>>

(* SQLite: the DELETE of get() follows its SELECT in a transaction of its  *)
(* own and names the key only.  An error of it is swallowed.               *)
Purge(c) ==
    /\ call[c].pc = "purge"
    /\ \/ TRUE \in StoreAnswers /\ row' = NoRecord
       \/ FALSE \in StoreAnswers /\ UNCHANGED row
    /\ Remember(c, NoRecord)
    /\ Replay(c, NoRecord)
    /\ UNCHANGED <<deployment, granted, expired>>

-----------------------------------------------------------------------------
(* Time and crashes. *)

RowExpires ==
    /\ Live(row)
    /\ row' = [row EXCEPT !.fresh = FALSE]
    /\ UNCHANGED mem

MemExpires(h) ==
    /\ Live(mem[h])
    /\ mem' = [mem EXCEPT ![h].fresh = FALSE]
    /\ UNCHANGED row

Expire ==
    /\ expired < MaxExpiries
    /\ RowExpires \/ \E h \in Hosts : MemExpires(h)
    /\ expired' = expired + 1
    /\ UNCHANGED <<deployment, call, granted>>

Crash(h) ==
    /\ Crashes
    /\ \E c \in Callers : HostOf[c] = h /\ call[c].pc # "done"
    /\ call' = [c \in Callers |->
                  IF HostOf[c] = h /\ call[c].pc # "done"
                  THEN [pc |-> "done", answer |-> Nobody] ELSE call[c]]
    /\ mem' = [mem EXCEPT ![h] = NoRecord]
    /\ UNCHANGED <<deployment, row, granted, expired>>

Next ==
    \/ \E c \in Callers :
         Claim(c) \/ RunTool(c) \/ MarkSuccess(c) \/ MarkFailed(c) \/ Get(c) \/ Purge(c)
    \/ Expire
    \/ \E h \in Hosts : Crash(h)

Spec == Init /\ [][Next]_vars

-----------------------------------------------------------------------------
TypeOK ==
    /\ deployment \in Deployments
    /\ row \in Record
    /\ mem \in [Hosts -> Record]
    /\ call \in [Callers -> [pc : Labels, answer : Callers \cup {Nobody}]]
    /\ granted \in Nat
    /\ expired \in 0 .. MaxExpiries

(* The record in the store decides who runs the tool, unless PostgreSQL    *)
(* may fail to answer: then the processes decide by themselves.            *)
StoreDecides == Postgres => StoreAnswers = {TRUE}

(* execute_tool_call: no concurrent or replayed path runs the tool a       *)
(* second time, as long as no TTL has passed; calls that wait, crashes of  *)
(* the claimer and errors of the store notwithstanding.                    *)
NoSecondEffect == expired = 0 => granted <= 1

(* The same, of the deployments in which the record in the store decides.  *)
OnceIfStoreDecides == StoreDecides => NoSecondEffect

(* The TTL rebuilds a key: every run of the tool but the first one is paid *)
(* for by a TTL that passed.                                               *)
OneEffectPerExpiry == granted <= 1 + expired

(* The same, with PostgreSQL, whose DELETE of an expired record compares   *)
(* its age by itself.                                                      *)
PaidIfPostgresDecides == Postgres /\ StoreDecides => OneEffectPerExpiry

(* A call that returns a value returns that of an execution that succeeded *)
(* and whose own caller got it too: no replay of a failed, unfinished or   *)
(* forgotten execution, across expiries, takeovers, crashes and outages.   *)
ReplaysAreReal ==
    \A c \in Callers : LET d == call[c].answer IN d # Nobody => call[d].answer = d

(* All calls that return within the TTL return the same execution's value. *)
AnswersAgree ==
    StoreDecides /\ expired = 0 => \A c, d \in Callers :
        call[c].answer # Nobody /\ call[d].answer # Nobody => call[c].answer = call[d].answer

(* A key goes from PENDING to a final status once, while no TTL passes.    *)
SettledWithinTTL ==
    [][StoreDecides /\ expired = 0 /\ Settled(row)
         => row' = [row EXCEPT !.fresh = row'.fresh]]_vars

(* What a call that did not run the tool is told: only a success that there     *)
(* was, and the same by everyone where the record decides.                      *)
RepliesAreRight ==
    /\ ReplaysAreReal
    /\ AnswersAgree
=============================================================================
