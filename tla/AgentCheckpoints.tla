-------------------------- MODULE AgentCheckpoints --------------------------
(***************************************************************************)
(* The checkpoints that runs of the agent loop (agent/loop.py) leave in    *)
(* Postgres through checkpoint/postgres.py, for one thread of one tenant.  *)
(*                                                                         *)
(* A run puts checkpoint after checkpoint, each under the next number, and *)
(* after each moves the pointer, the record of number 0.  It starts where  *)
(* the pointer says.  A record is kept in two tables, of which a put       *)
(* writes both in one transaction.  The thread is the X-Request-ID of a    *)
(* request or, without one, "adhoc", so runs may follow each other, stop   *)
(* half-way, and run side by side.                                         *)
(***************************************************************************)
EXTENDS Integers, FiniteSets

CONSTANTS
    Runs,     \* the runs of the thread
    MaxSeq,   \* bound: the highest number of a checkpoint
    Ttl,      \* HERO_CHECKPOINT_TTL, in ticks
    MaxTime   \* bound: ticks

ASSUME TtlAssumption == Ttl \in Nat \ {0}

ASSUME CkptBounds == MaxSeq \in Nat /\ MaxTime \in Nat

VARIABLES
    table,    \* checkpoints: the record of each number
    legacy,   \* checkpoints_legacy
    time,     \* now() of the database
    run,      \* the runs
    best,     \* history: the highest number a pointer was stored with
    lost      \* history: numbers of checkpoints a failing database dropped

ckptVars == <<table, legacy, time, run, best, lost>>

Numbers == 0 .. MaxSeq

NoCheckpoint == [by |-> "none", ver |-> 0, until |-> 0]

-----------------------------------------------------------------------------
(* The two tables. *)

(* expires_at > now() *)
Alive(rec) == rec # NoCheckpoint /\ time < rec.until

(* _pg_get_sync: the new table, then the legacy one. *)
Read(n) ==
    IF Alive(table[n]) THEN table[n]
    ELSE IF Alive(legacy[n]) THEN legacy[n] ELSE NoCheckpoint

(* ON CONFLICT DO UPDATE ... WHERE checkpoints.version <= EXCLUDED.version;  *)
(* an expired record still has its version.                                *)
Upserted(old, new) == IF old = NoCheckpoint \/ old.ver <= new.ver THEN new ELSE old

(* _pg_put_sync.  The legacy table takes whatever comes last. *)
Put(n, r, v) ==
    LET new == [by |-> r, ver |-> v, until |-> time + Ttl]
    IN  /\ table' = [table EXCEPT ![n] = Upserted(@, new)]
        /\ legacy' = [legacy EXCEPT ![n] = new]

(* A failing statement leaves the transaction aborted, the ones it falls    *)
(* back to fail too and the commit rolls back; a connection that cannot be *)
(* had gives False.  put only logs it, so the run goes on as if it stored. *)
PutFails == UNCHANGED <<table, legacy>>

-----------------------------------------------------------------------------
CkptInit ==
    /\ table = [n \in Numbers |-> NoCheckpoint]
    /\ legacy = [n \in Numbers |-> NoCheckpoint]
    /\ time = 0
    /\ run = [r \in Runs |-> [at |-> "new", seq |-> 0, blind |-> FALSE, beside |-> FALSE]]
    /\ best = 0
    /\ lost = {}

Running == {r \in Runs : run[r].at \in {"ready", "put"}}

(* From here on whoever runs already has company. *)
Started(r, from, missed) ==
    run' = [q \in Runs |->
              IF q = r THEN [at |-> "ready", seq |-> from, blind |-> missed,
                             beside |-> Running # {}]
              ELSE [run[q] EXCEPT !.beside = @ \/ q \in Running]]

(* A bug: the number starts anew with every run. *)
StartAtZero(r) ==
    /\ run[r].at = "new"
    /\ Started(r, 0, FALSE)
    /\ UNCHANGED <<table, legacy, time, best, lost>>

(* _checkpoint_resume_seq.  A read that fails looks like no pointer: the    *)
(* saver answers None for both.                                            *)
Resume(r) ==
    /\ run[r].at = "new"
    /\ \/ Started(r, Read(0).ver, FALSE)
       \/ Started(r, 0, TRUE)
    /\ UNCHANGED <<table, legacy, time, best, lost>>

(* A bug: the pointer goes first. *)
PointerFirst(r) ==
    /\ run[r].at = "ready" /\ run[r].seq < MaxSeq
    /\ LET n == run[r].seq + 1
       IN  /\ run' = [run EXCEPT ![r].at = "put", ![r].seq = n]
           /\ Put(0, r, n) /\ best' = IF n > best THEN n ELSE best
    /\ UNCHANGED <<time, lost>>

(* _checkpoint_put: the checkpoint of an iteration, or the last one. *)
PutCheckpoint(r) ==
    /\ run[r].at = "ready" /\ run[r].seq < MaxSeq
    /\ LET n == run[r].seq + 1
       IN  /\ run' = [run EXCEPT ![r].at = "put", ![r].seq = n]
           /\ \/ Put(n, r, n) /\ lost' = lost \ {n}
              \/ PutFails /\ lost' = lost \cup {n}
    /\ UNCHANGED <<time, best>>

(* _checkpoint_put: the pointer. *)
PutPointer(r) ==
    /\ run[r].at = "put"
    /\ run' = [run EXCEPT ![r].at = "ready"]
    /\ LET n == run[r].seq
       IN  \/ Put(0, r, n) /\ best' = IF n > best THEN n ELSE best
           \/ PutFails /\ UNCHANGED best
    /\ UNCHANGED <<time, lost>>

(* The run is over, or its process is. *)
Stop(r) ==
    /\ r \in Running
    /\ run' = [run EXCEPT ![r].at = "over"]
    /\ UNCHANGED <<table, legacy, time, best, lost>>

TimePasses ==
    /\ time < MaxTime
    /\ time' = time + 1
    /\ UNCHANGED <<table, legacy, run, best, lost>>

CkptNext ==
    \/ TimePasses
    \/ \E r \in Runs : Resume(r) \/ PutCheckpoint(r) \/ PutPointer(r) \/ Stop(r)

CkptSpec == CkptInit /\ [][CkptNext]_ckptVars

-----------------------------------------------------------------------------
(* The types of the variables. *)
Records == [by : Runs, ver : Numbers, until : 1 .. MaxTime + Ttl] \cup {NoCheckpoint}

CkptTypeOK ==
    /\ table \in [Numbers -> Records]
    /\ legacy \in [Numbers -> Records]
    /\ time \in 0 .. MaxTime
    /\ run \in [Runs -> [at : {"new", "ready", "put", "over"}, seq : Numbers,
                         blind : BOOLEAN, beside : BOOLEAN]]
    /\ best \in Numbers
    /\ lost \subseteq 1 .. MaxSeq

(* The pointer of the table is the highest one ever stored, whatever runs   *)
(* that are behind put after it, and so is what a run reads until it       *)
(* expires: versions keep progress where two runs use one thread.          *)
PointerIsNewest ==
    /\ table[0].ver = best
    /\ Alive(table[0]) => Read(0).ver = best

(* A pointer, in whichever table, names a checkpoint that was stored before *)
(* it, unless the database dropped that one: a run that dies in between    *)
(* leaves a checkpoint without a pointer and never the reverse.            *)
PointerIsBacked ==
    \A p \in {table[0], legacy[0]} :
        p = NoCheckpoint \/ p.ver \in lost \/ legacy[p.ver] # NoCheckpoint

(* History is kept: a checkpoint the pointer covers, still to be had, is    *)
(* replaced only by a run that could not read the pointer or that has run  *)
(* beside another one.  Runs that follow each other, dying anywhere, write *)
(* behind what is there.                                                   *)
CoveredIsKept ==
    [][\A n \in 1 .. MaxSeq :
         (Alive(table[n]) /\ n <= Read(0).ver /\ table'[n] # table[n])
         => run[table'[n].by].blind \/ run[table'[n].by].beside]_ckptVars

(* What the checkpoints keep: their types, a pointer that never goes back and   *)
(* always names a checkpoint.                                                   *)
CkptInv ==
    /\ CkptTypeOK
    /\ PointerIsNewest
    /\ PointerIsBacked
=============================================================================
