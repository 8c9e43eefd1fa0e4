----------------------------- MODULE AuditChain -----------------------------
(***************************************************************************)
(* The hash chain over the audit log of one tenant: AuditChain.append and  *)
(* AuditChain.verify of audit/chain.py over the tables audit_log and       *)
(* audit_chain_head (db/migrations/0003 and 0006).                         *)
(*                                                                         *)
(* Each SQL statement of a transaction is a step: the transactions run at  *)
(* READ COMMITTED, so every statement sees what was committed before it.   *)
(* An append holds its locks until it commits.  A digest stands for all    *)
(* that went into it, the digest before it included: SHA-256 is taken to   *)
(* have no collisions.                                                     *)
(***************************************************************************)
EXTENDS Integers, Sequences, FiniteSets

CONSTANTS
    Writers,    \* connections that append
    Nobody,
    Verifiers,  \* connections that verify
    Contents,   \* what a row may say, in the fields that are hashed
    Limits,     \* the limits a caller of verify asks for; 0: none
    MaxId,      \* bound: how many ids audit_log gives out
    Failures,   \* may a connection fail?
    Repairs     \* may somebody disable the trigger and change the tables?

ASSUME WriterAssumption == Nobody \notin Writers
ASSUME LimitAssumption == Limits \subseteq Nat
ASSUME BoundAssumption == MaxId \in Nat

VARIABLES
    log,        \* id -> committed row of audit_log that is in the chain
    head,       \* the row of audit_chain_head
    nextId,     \* the identity column of audit_log
    rowLock,    \* who has the row of audit_chain_head FOR UPDATE
    xactLock,   \* who has the advisory lock of the tenant
    writer,     \* the appends under way
    verifier,   \* the verifications, each with the report of the last one
    changed     \* history: were the tables changed behind the code's back?

chainVars == <<log, head, nextId, rowLock, xactLock, writer, verifier, changed>>

tables == <<log, head, nextId, changed>>

-----------------------------------------------------------------------------
(* Rows, digests and the head. *)

Hashes == Seq(Contents)

Genesis == <<>>

(* entry_hash *)
Hash(prev, content) == Append(prev, content)

Row == [content : Contents, prev : Hashes, hash : Hashes]

ChainHead == [id : Nat, hash : Hashes, entries : Nat]

NoHead == [id |-> 0, hash |-> Genesis, entries |-> 0]

(* j is the row before i, in a table that is read ORDER BY id. *)
Precedes(rows, j, i) ==
    j \in DOMAIN rows /\ j < i /\ ~\E k \in DOMAIN rows : j < k /\ k < i

First(rows, i) == ~\E j \in DOMAIN rows : j < i

Last(rows, i) == i \in DOMAIN rows /\ ~\E j \in DOMAIN rows : i < j

-----------------------------------------------------------------------------
(* append: one transaction.  What a writer read of the head is its state;  *)
(* id is that of the row it has inserted and not committed.                *)

WriterLabels == {"idle", "lock", "bootstrap", "relock", "insert", "commit"}

Idle == [pc |-> "idle", content |-> Nobody, head |-> NoHead, id |-> 0]

Begin(w) ==
    /\ writer[w].pc = "idle"
    /\ nextId <= MaxId
    /\ \E c \in Contents :
         writer' = [writer EXCEPT ![w] = [Idle EXCEPT !.pc = "lock", !.content = c]]
    /\ UNCHANGED <<tables, rowLock, xactLock, verifier>>

(* A bug: two first appends each take the chain for empty. *)
NoRowToLockUnguarded(w) ==
    /\ writer' = [writer EXCEPT ![w].pc = "insert"]
    /\ UNCHANGED rowLock

(* There is no row to lock: the first append of the tenant takes the       *)
(* advisory lock and looks again.                                          *)
NoRowToLock(w) ==
    /\ writer' = [writer EXCEPT ![w].pc = IF @ = "lock" THEN "bootstrap" ELSE "insert"]
    /\ UNCHANGED rowLock

(* SELECT ... FOR UPDATE waits for the row's holder, then reads its row as *)
(* it was left.                                                            *)
LockHead(w) ==
    /\ writer[w].pc \in {"lock", "relock"}
    /\ \/ head = NoHead /\ NoRowToLock(w)
       \/ /\ head # NoHead /\ rowLock = Nobody
          /\ rowLock' = w
          /\ writer' = [writer EXCEPT ![w].pc = "insert", ![w].head = head]
    /\ UNCHANGED <<tables, xactLock, verifier>>

Bootstrap(w) ==
    /\ writer[w].pc = "bootstrap"
    /\ xactLock = Nobody
    /\ xactLock' = w
    /\ writer' = [writer EXCEPT ![w].pc = "relock"]
    /\ UNCHANGED <<tables, rowLock, verifier>>

Insert(w) ==
    /\ writer[w].pc = "insert"
    /\ writer' = [writer EXCEPT ![w].pc = "commit", ![w].id = nextId]
    /\ nextId' = nextId + 1
    /\ UNCHANGED <<log, head, changed, rowLock, xactLock, verifier>>

(* A bug: the advisory lock belongs to the session, not the transaction. *)
ReleaseRowLock(w) ==
    /\ rowLock' = IF rowLock = w THEN Nobody ELSE rowLock
    /\ UNCHANGED xactLock

Release(w) ==
    /\ rowLock' = IF rowLock = w THEN Nobody ELSE rowLock
    /\ xactLock' = IF xactLock = w THEN Nobody ELSE xactLock

(* The row an append inserts. *)
NewRow(w) ==
    [content |-> writer[w].content,
     prev    |-> writer[w].head.hash,
     hash    |-> Hash(writer[w].head.hash, writer[w].content)]

(* A bug: entries stays what the first append made it. *)
NewHeadUncounted(w) ==
    [id |-> writer[w].id, hash |-> NewRow(w).hash, entries |-> 1]

NewHead(w) ==
    [id |-> writer[w].id, hash |-> NewRow(w).hash, entries |-> writer[w].head.entries + 1]

Disturbed == [v \in Verifiers |-> [verifier[v] EXCEPT !.disturbed = TRUE]]

(* The head is inserted or updated, whatever it says, and both rows are    *)
(* committed.                                                              *)
Commit(w) ==
    /\ writer[w].pc = "commit"
    /\ rowLock \in {w, Nobody}
    /\ log' = [i \in DOMAIN log \cup {writer[w].id} |->
                 IF i = writer[w].id THEN NewRow(w) ELSE log[i]]
    /\ head' = NewHead(w)
    /\ Release(w)
    /\ writer' = [writer EXCEPT ![w] = Idle]
    /\ verifier' = Disturbed
    /\ UNCHANGED <<nextId, changed>>

(* The statement under way raises, and the transaction is rolled back; the *)
(* id is not given out again.                                              *)
Rollback(w) ==
    /\ Failures
    /\ writer[w].pc # "idle"
    /\ Release(w)
    /\ writer' = [writer EXCEPT ![w] = Idle]
    /\ UNCHANGED <<tables, verifier>>

-----------------------------------------------------------------------------
(* verify: reads only, one SELECT after the other. *)

VerifierLabels == {"idle", "start", "rows", "head"}

ChainReasons == {"none", "prev_mismatch", "hash_mismatch", "head_mismatch"}

Codes == {"none", "scan_truncated", "head_missing"}

(* counted and start are what the first SELECTs answered, repeated here as *)
(* the report is judged by them; start 0 is None.                          *)
Report == [ok : BOOLEAN, entries : Nat, reason : ChainReasons, code : Codes, start : Nat, counted : Nat]

NoReport == [ok |-> FALSE, entries |-> 0, reason |-> "none", code |-> "none",
             start |-> 0, counted |-> 0]

NoRows == [i \in {} |-> 0]

Least(ids) == CHOOSE i \in ids : \A j \in ids : i <= j

(* disturbed is history: an append has committed since the first SELECT;   *)
(* after: the tables had been changed before it.                           *)
NoVerifier == [pc |-> "idle", limit |-> 0, counted |-> 0, start |-> 0, rows |-> NoRows,
               report |-> NoReport, disturbed |-> FALSE, after |-> FALSE]

ReadCount(v) ==
    /\ verifier[v].pc = "idle"
    /\ \E limit \in Limits :
         verifier' = [verifier EXCEPT ![v] =
           [NoVerifier EXCEPT !.pc = "start", !.limit = limit,
                              !.counted = Cardinality(DOMAIN log), !.after = changed]]
    /\ UNCHANGED <<tables, rowLock, xactLock, writer>>

ReadStart(v) ==
    /\ verifier[v].pc = "start"
    /\ verifier' = [verifier EXCEPT ![v].pc = "rows",
                      ![v].start = IF log = NoRows THEN 0 ELSE Least(DOMAIN log)]
    /\ UNCHANGED <<tables, rowLock, xactLock, writer>>

(* ORDER BY id ASC LIMIT limit *)
Within(limit) ==
    {i \in DOMAIN log : limit = 0 \/ Cardinality({j \in DOMAIN log : j <= i}) <= limit}

ReadRows(v) ==
    /\ verifier[v].pc = "rows"
    /\ verifier' = [verifier EXCEPT ![v].pc = "head",
                      ![v].rows = [i \in Within(verifier[v].limit) |-> log[i]]]
    /\ UNCHANGED <<tables, rowLock, xactLock, writer>>

(* What the chain says should be the prev_hash of row i. *)
Expected(rows, i) ==
    IF First(rows, i) THEN Genesis ELSE rows[CHOOSE j \in DOMAIN rows : Precedes(rows, j, i)].hash

BadPrev(rows, i) == rows[i].prev # Expected(rows, i)

BadHash(rows, i) == rows[i].hash # Hash(Expected(rows, i), rows[i].content)

Broken(rows) == {i \in DOMAIN rows : BadPrev(rows, i) \/ BadHash(rows, i)}

(* The scan stops at the first row that does not fit. *)
ScanReason(rows) ==
    CASE Broken(rows) = {} -> "none"
      [] Broken(rows) # {} /\ BadPrev(rows, Least(Broken(rows))) -> "prev_mismatch"
      [] OTHER -> "hash_mismatch"

Scanned(rows) ==
    IF Broken(rows) = {} THEN Cardinality(DOMAIN rows)
    ELSE Cardinality({i \in DOMAIN rows : i <= Least(Broken(rows))})

HeadFits(rows, h) ==
    /\ h.entries = Cardinality(DOMAIN rows)
    /\ \E i \in DOMAIN rows : Last(rows, i) /\ h.id = i /\ h.hash = rows[i].hash

(* Fewer rows were read than counted because of the limit. *)
Truncated(v) ==
    verifier[v].limit # 0 /\ verifier[v].counted > Cardinality(DOMAIN verifier[v].rows)

(* A bug: rows that fit are taken for the whole chain. *)
JudgementOfRows(v) ==
    LET reason == ScanReason(verifier[v].rows)
    IN  [ok |-> reason = "none", reason |-> reason, code |-> "none"]

(* What is said of the rows and of the head read last. *)
Judgement(v) ==
    LET rows   == verifier[v].rows
        reason == ScanReason(rows)
        says(ok, why, code) == [ok |-> ok, reason |-> why, code |-> code]
    IN  CASE reason # "none"            -> says(FALSE, reason, "none")
          [] reason = "none" /\ Truncated(v) -> says(FALSE, "none", "scan_truncated")
          [] reason = "none" /\ ~Truncated(v) /\ verifier[v].counted > 0 /\ head = NoHead
               -> says(FALSE, "none", "head_missing")
          [] reason = "none" /\ ~Truncated(v) /\ verifier[v].counted > 0 /\ head # NoHead
               /\ ~HeadFits(rows, head) -> says(FALSE, "head_mismatch", "none")
          [] OTHER -> says(TRUE, "none", "none")

ReadHead(v) ==
    /\ verifier[v].pc = "head"
    /\ LET said == Judgement(v)
           it   == verifier[v]
       IN verifier' = [verifier EXCEPT ![v].pc = "idle", ![v].rows = NoRows,
            ![v].report = [ok |-> said.ok, reason |-> said.reason, code |-> said.code,
                           entries |-> Scanned(it.rows), start |-> it.start,
                           counted |-> it.counted]]
    /\ UNCHANGED <<tables, rowLock, xactLock, writer>>

-----------------------------------------------------------------------------
(* With the trigger disabled: a row is rewritten, or deleted (and archived *)
(* elsewhere), or the head is dropped.  Once is enough.                    *)
Repair ==
    /\ Repairs /\ ~changed
    /\ \/ \E i \in DOMAIN log, c \in Contents :
            c # log[i].content /\ log' = [log EXCEPT ![i].content = c] /\ UNCHANGED head
       \/ \E i \in DOMAIN log :
            log' = [j \in DOMAIN log \ {i} |-> log[j]] /\ UNCHANGED head
       \/ head # NoHead /\ rowLock = Nobody /\ head' = NoHead /\ UNCHANGED log
    /\ changed' = TRUE
    /\ UNCHANGED <<nextId, rowLock, xactLock, writer, verifier>>

ChainInit ==
    /\ log = NoRows
    /\ head = NoHead
    /\ nextId = 1
    /\ rowLock = Nobody
    /\ xactLock = Nobody
    /\ writer = [w \in Writers |-> Idle]
    /\ verifier = [v \in Verifiers |-> NoVerifier]
    /\ changed = FALSE

ChainNext ==
    \/ \E w \in Writers :
         Begin(w) \/ LockHead(w) \/ Bootstrap(w) \/ Insert(w) \/ Commit(w) \/ Rollback(w)
    \/ \E v \in Verifiers : ReadCount(v) \/ ReadStart(v) \/ ReadRows(v) \/ ReadHead(v)
    \/ Repair

ChainSpec == ChainInit /\ [][ChainNext]_chainVars

(* PostgreSQL grants a lock to those who wait for it in turn, and a        *)
(* statement that waits for nothing ends.                                  *)
ChainFairness ==
    \A w \in Writers :
        SF_chainVars(LockHead(w)) /\ SF_chainVars(Bootstrap(w)) /\ WF_chainVars(Insert(w)) /\ WF_chainVars(Commit(w))

ChainFairSpec == ChainSpec /\ ChainFairness

-----------------------------------------------------------------------------
TablesOK ==
    /\ DOMAIN log \subseteq 1 .. nextId - 1 /\ \A i \in DOMAIN log : log[i] \in Row
    /\ head \in ChainHead
    /\ nextId \in Nat \ {0}
    /\ changed \in BOOLEAN

WritersOK ==
    /\ writer \in [Writers -> [pc : WriterLabels, content : Contents \cup {Nobody},
                               head : ChainHead, id : Nat]]
    /\ \A w \in Writers : writer[w].pc # "idle" => writer[w].content \in Contents
    /\ rowLock \in Writers \cup {Nobody} /\ xactLock \in Writers \cup {Nobody}

VerifiersOK ==
    \A v \in Verifiers : verifier[v].pc \in VerifierLabels /\ verifier[v].report \in Report

ChainType == TablesOK /\ WritersOK /\ VerifiersOK

(* From reading the head until the commit. *)
InSection(w) == writer[w].pc \in {"insert", "commit"}

(* append is serialised per tenant: from reading the head until the commit *)
(* a writer is alone, whether the row of the head or, for the first        *)
(* append, the advisory lock keeps the others out.                         *)
OneAppender ==
    \A w, x \in Writers : InSection(w) /\ InSection(x) => w = x

(* The chain never forks: read in the order of the ids, each row carries   *)
(* the digest of the row before it, and the head is the last row.          *)
Linked ==
    /\ \A i \in DOMAIN log : log[i].hash = Hash(log[i].prev, log[i].content)
    /\ \A i \in DOMAIN log : First(log, i) => log[i].prev = Genesis
    /\ \A i, j \in DOMAIN log : Precedes(log, j, i) => log[i].prev = log[j].hash

HeadIsLast ==
    /\ head.entries = Cardinality(DOMAIN log)
    /\ head = NoHead => DOMAIN log = {}
    /\ head # NoHead => Last(log, head.id) /\ head.hash = log[head.id].hash

Integrity == ~changed => Linked /\ HeadIsLast

(* Who is about to append knows the head as it is, and holds the lock that *)
(* keeps it so.                                                            *)
SectionIsLocked ==
    \A w \in Writers :
        /\ writer[w].head = IF InSection(w) THEN head ELSE NoHead
        /\ InSection(w) => IF head = NoHead THEN xactLock = w ELSE rowLock = w
        /\ writer[w].pc = "relock" => xactLock = w

(* The id of a row to be committed is above all others. *)
IdIsNew ==
    \A w \in Writers : writer[w].pc = "commit" =>
        /\ writer[w].id \in 1 .. nextId - 1
        /\ \A i \in DOMAIN log : i < writer[w].id

(* The inductive invariant behind OneAppender and Integrity. *)
IInv ==
    /\ TablesOK /\ WritersOK
    /\ IsFiniteSet(DOMAIN log)
    /\ SectionIsLocked /\ IdIsNew /\ Integrity

(* verify never blames a row that nobody touched, however many appends run *)
(* beside it.                                                              *)
NoRowIsBlamed ==
    \A v \in Verifiers :
        verifier[v].report.reason \in {"prev_mismatch", "hash_mismatch"} => changed

(* With no append beside it, verify of an untouched log finds nothing      *)
(* wrong, starts at the first row and has read all that it counted, unless *)
(* it was told to stop earlier.                                            *)
QuietReportIsRight ==
    \A v \in Verifiers :
        LET it == verifier[v] IN
        it.pc = "idle" /\ ~it.disturbed /\ ~changed =>
            /\ it.report.reason = "none"
            /\ it.report.code \in {"none", "scan_truncated"}
            /\ (it.report.start = 0) <=> (it.report.counted = 0)
            /\ it.report.code = "none" => it.report.entries = it.report.counted

(* A row rewritten or missing, or a missing head, is never reported as a   *)
(* whole chain by a verification that starts later, even when appends have *)
(* gone on in between; only a log with no row left says ok.                *)
ChangeIsReported ==
    \A v \in Verifiers :
        verifier[v].after /\ verifier[v].report.ok => verifier[v].report.entries = 0

(* ok is said of the whole chain: no row that was there when verify began  *)
(* is left out, whatever the limit and the appends beside it.              *)
OkMeansAll ==
    \A v \in Verifiers :
        verifier[v].report.ok => verifier[v].report.entries >= verifier[v].report.counted

(* Rows are only added, each with an id above all others: the order of the *)
(* ids is the order of the chain.                                          *)
AppendOnly ==
    [][~changed' => \A i \in DOMAIN log : i \in DOMAIN log' /\ log'[i] = log[i]
                    /\ \A j \in DOMAIN log' \ DOMAIN log : i < j]_chainVars

(* Waiting for the two locks ends: no append waits for ever. *)
AppendsEnd == \A w \in Writers : writer[w].pc = "lock" ~> writer[w].pc = "idle"

(* verify: head_mismatch means that the end of the chain was cut off. *)
NoFalseAlarm ==
    \A v \in Verifiers : verifier[v].report.reason = "head_mismatch" => changed

(* What a verification says: no untouched row is blamed, alone it is right, a   *)
(* change made before is reported, and ok is about every row that it counted.   *)
VerdictIsRight ==
    /\ NoRowIsBlamed
    /\ QuietReportIsRight
    /\ ChangeIsReported
    /\ OkMeansAll
=============================================================================
