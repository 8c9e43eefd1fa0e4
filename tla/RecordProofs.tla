---------------------------- MODULE RecordProofs -----------------------------
(***************************************************************************)
(* What is left in stores and shown of them, proved for all values of the  *)
(* constants: checkpoints, the messages of a session and its tool calls,   *)
(* the trace of a run, the bundle of the research page, the bars that      *)
(* were known at a time, and the lines of the order ledger with the        *)
(* reconciliation that reads them. Each part states an inductive           *)
(* invariant of its component, shows that every action keeps it, and that  *)
(* it implies what the runs check.                                         *)
(***************************************************************************)
EXTENDS MCStores, FiniteSetTheorems, SequenceTheorems, WellFoundedInduction, TLAPS

-----------------------------------------------------------------------------
(***************************************************************************)
(* AgentCheckpoints: the pointers and the checkpoints they name, and a run *)
(* that is alone, which writes behind every pointer that can be read.      *)
(***************************************************************************)

(* A checkpoint was stored under the number, or the database dropped it. *)
Backed(n) == n \in lost \/ legacy[n] # NoCheckpoint

(* A run that is about to move the pointer has put its checkpoint before. *)
PutsAreBacked == \A r \in Runs : run[r].at = "put" => Backed(run[r].seq)

LegacyIsNoNewer == legacy[0].ver <= best

(* A run that could read the pointer and has no company has got as far as any *)
(* pointer that is still to be had.                                           *)
LoneRunIsAhead ==
    \A r \in Running : ~run[r].blind /\ ~run[r].beside =>
        /\ Running = {r}
        /\ Alive(table[0]) => table[0].ver <= run[r].seq
        /\ Alive(legacy[0]) => legacy[0].ver <= run[r].seq

(* The inductive invariant of the checkpoints. *)
CkptIInv ==
    /\ CkptInv
    /\ PutsAreBacked
    /\ LegacyIsNoNewer
    /\ LoneRunIsAhead

(* The numbers of checkpoints and the times are natural numbers. *)
LEMMA CheckpointNumbers ==
    /\ Numbers \subseteq Nat /\ 0 \in Numbers /\ 1 .. MaxSeq \subseteq Numbers
    /\ \A n \in Numbers : n < MaxSeq => n + 1 \in 1 .. MaxSeq
    /\ NoCheckpoint.ver = 0 /\ NoCheckpoint.until = 0
    /\ \A r \in Records : r.ver \in Numbers /\ r.until \in Nat
    /\ \A r \in Records : r # NoCheckpoint => r.by \in Runs /\ r.until >= 1
BY CkptBounds, TtlAssumption DEF Numbers, NoCheckpoint, Records

(* The invariant holds at the start. *)
LEMMA CkptInitially == CkptInit => CkptIInv
<1> SUFFICES ASSUME CkptInit PROVE CkptIInv
  OBVIOUS
<1>1. CkptTypeOK
  BY CheckpointNumbers, CkptBounds DEF CkptInit, CkptTypeOK, Records
<1>2. table[0] = NoCheckpoint /\ legacy[0] = NoCheckpoint /\ \A r \in Runs : run[r].at = "new"
  BY CheckpointNumbers DEF CkptInit
<1>3. PointerIsNewest /\ PointerIsBacked /\ LegacyIsNoNewer
  BY <1>2, CheckpointNumbers DEF CkptInit, PointerIsNewest, PointerIsBacked, LegacyIsNoNewer, Alive
<1>4. PutsAreBacked /\ LoneRunIsAhead
  BY <1>2 DEF PutsAreBacked, LoneRunIsAhead, Running
<1> QED BY <1>1, <1>3, <1>4 DEF CkptIInv, CkptInv

(* What a put leaves in the two tables. *)
LEMMA PutStores ==
    ASSUME CkptTypeOK, NEW n \in Numbers, NEW r \in Runs, NEW v \in Numbers, Put(n, r, v)
    PROVE  /\ table' \in [Numbers -> Records] /\ legacy' \in [Numbers -> Records]
           /\ legacy'[n] # NoCheckpoint /\ legacy'[n].ver = v
           /\ \A m \in Numbers \ {n} : table'[m] = table[m] /\ legacy'[m] = legacy[m]
           /\ \/ (table[n] = NoCheckpoint \/ table[n].ver <= v) /\ table'[n] # NoCheckpoint
                  /\ table'[n].ver = v /\ table'[n].by = r
              \/ table[n] # NoCheckpoint /\ ~(table[n].ver <= v) /\ table'[n] = table[n]
<1> DEFINE new == [by |-> r, ver |-> v, until |-> time + Ttl]
<1>1. new \in Records /\ new # NoCheckpoint /\ new.ver = v /\ new.by = r
  BY CkptBounds, TtlAssumption DEF CkptTypeOK, Records, NoCheckpoint
<1>2. /\ table' = [table EXCEPT ![n] = Upserted(table[n], new)]
      /\ legacy' = [legacy EXCEPT ![n] = new]
  BY DEF Put
<1> HIDE DEF new
<1> QED BY <1>1, <1>2 DEF Upserted, CkptTypeOK

(* A run that starts has company, or starts from the newest pointer. *)
LEMMA ResumeStep ==
    ASSUME CkptIInv, NEW r \in Runs, Resume(r)
    PROVE  CkptIInv'
<1> USE DEF CkptIInv, CkptInv
<1>1. PICK from \in Numbers, missed \in BOOLEAN :
         /\ Started(r, from, missed)
         /\ ~missed => from = Read(0).ver
  <2>1. Read(0).ver \in Numbers
    BY CheckpointNumbers DEF Read, CkptTypeOK, Records
  <2> QED BY <2>1, CheckpointNumbers DEF Resume
<1>2. run[r].at = "new" /\ UNCHANGED <<table, legacy, time, best, lost>>
  BY DEF Resume
<1>3. /\ run' \in [Runs -> [at : {"new", "ready", "put", "over"}, seq : Numbers, blind : BOOLEAN, beside : BOOLEAN]]
      /\ run'[r].at = "ready" /\ run'[r].seq = from /\ (run'[r].blind <=> missed)
      /\ run'[r].beside <=> Running # {}
      /\ \A q \in Runs \ {r} :
            /\ run'[q].at = run[q].at /\ run'[q].seq = run[q].seq /\ run'[q].blind = run[q].blind
            /\ run'[q].beside <=> run[q].beside \/ q \in Running
  BY <1>1 DEF Started, CkptTypeOK
<1>4. CkptTypeOK'
  BY <1>2, <1>3 DEF CkptTypeOK
<1>5. PointerIsNewest' /\ PointerIsBacked' /\ LegacyIsNoNewer'
  BY <1>2 DEF PointerIsNewest, PointerIsBacked, LegacyIsNoNewer, Alive, Read
<1>6. PutsAreBacked'
  BY <1>2, <1>3 DEF PutsAreBacked, Backed
<1>7. LoneRunIsAhead'
  <2> SUFFICES ASSUME NEW q \in Runs, q \in Running', ~run'[q].blind, ~run'[q].beside
               PROVE  /\ Running' = {q}
                      /\ Alive(table[0])' => table'[0].ver <= run'[q].seq
                      /\ Alive(legacy[0])' => legacy'[0].ver <= run'[q].seq
    BY DEF LoneRunIsAhead, Running
  <2>1. q = r
    BY <1>3 DEF Running
  <2>2. Running = {} /\ from = Read(0).ver
    BY <1>1, <1>3, <2>1
  <2>3. Running' = {q}
    BY <1>3, <2>1, <2>2 DEF Running
  <2>4. /\ Alive(table[0]) => table[0].ver = from
        /\ Alive(legacy[0]) => legacy[0].ver <= from
    <3>1. table[0].ver = best /\ legacy[0].ver <= best /\ legacy[0].ver \in Nat /\ best \in Nat
      BY CheckpointNumbers DEF PointerIsNewest, LegacyIsNoNewer, CkptTypeOK
    <3> QED BY <2>2, <3>1 DEF Read
  <2>5. table[0].ver \in Nat /\ legacy[0].ver \in Nat
    BY CheckpointNumbers DEF CkptTypeOK
  <2> QED BY <1>2, <1>3, <2>1, <2>3, <2>4, <2>5 DEF Alive
<1> QED BY <1>4, <1>5, <1>6, <1>7

(* A run takes a step of its own: the others stay as they are, and it has company *)
(* and sight as before.                                                           *)
LEMMA OwnStep ==
    ASSUME CkptIInv, NEW r \in Runs, NEW at \in {"ready", "put", "over"}, NEW n \in Numbers,
           run[r].at \in {"ready", "put"},
           run' = [run EXCEPT ![r].at = at, ![r].seq = n]
    PROVE  /\ run' \in [Runs -> [at : {"new", "ready", "put", "over"}, seq : Numbers, blind : BOOLEAN, beside : BOOLEAN]]
           /\ run'[r].at = at /\ run'[r].seq = n
           /\ (run'[r].blind <=> run[r].blind) /\ (run'[r].beside <=> run[r].beside)
           /\ \A q \in Runs \ {r} : run'[q] = run[q]
           /\ at # "over" => Running' = Running
           /\ at = "over" => Running' = Running \ {r}
<1>1. run \in [Runs -> [at : {"new", "ready", "put", "over"}, seq : Numbers, blind : BOOLEAN, beside : BOOLEAN]]
  BY DEF CkptIInv, CkptInv, CkptTypeOK
<1>2. /\ run' \in [Runs -> [at : {"new", "ready", "put", "over"}, seq : Numbers, blind : BOOLEAN, beside : BOOLEAN]]
      /\ run'[r].at = at /\ run'[r].seq = n
      /\ (run'[r].blind <=> run[r].blind) /\ (run'[r].beside <=> run[r].beside)
      /\ \A q \in Runs \ {r} : run'[q] = run[q]
  BY <1>1
<1> QED BY <1>2 DEF Running

(* put, the row of the checkpoint. *)
LEMMA PutCheckpointStep ==
    ASSUME CkptIInv, NEW r \in Runs, PutCheckpoint(r)
    PROVE  CkptIInv'
<1> USE DEF CkptIInv, CkptInv
<1>0. run[r].seq \in Nat /\ run[r].seq + 1 \in 1 .. MaxSeq
  BY CheckpointNumbers DEF PutCheckpoint, CkptTypeOK
<1> PICK n \in 1 .. MaxSeq : n = run[r].seq + 1
  BY <1>0
<1>1. /\ run[r].at = "ready" /\ run' = [run EXCEPT ![r].at = "put", ![r].seq = n]
      /\ UNCHANGED <<time, best>>
      /\ \/ Put(n, r, n) /\ lost' = lost \ {n}
         \/ UNCHANGED <<table, legacy>> /\ lost' = lost \cup {n}
  BY DEF PutCheckpoint, PutFails
<1>2. n \in Numbers /\ n # 0
  BY CheckpointNumbers
<1>3. /\ table' \in [Numbers -> Records] /\ legacy' \in [Numbers -> Records]
      /\ \A m \in Numbers \ {n} : table'[m] = table[m] /\ legacy'[m] = legacy[m]
      /\ legacy'[n] = legacy[n] \/ legacy'[n] # NoCheckpoint
      /\ lost' \subseteq 1 .. MaxSeq /\ \A m \in lost : m = n \/ m \in lost'
      /\ n \in lost' \/ legacy'[n] # NoCheckpoint
  BY <1>1, <1>2, PutStores DEF CkptTypeOK
<1>4. table'[0] = table[0] /\ legacy'[0] = legacy[0]
  BY <1>2, <1>3, CheckpointNumbers
<1>5. ASSUME NEW m \in Numbers, Backed(m)
      PROVE  Backed(m)'
  BY <1>3, <1>5 DEF Backed
<1>6. /\ run' \in [Runs -> [at : {"new", "ready", "put", "over"}, seq : Numbers, blind : BOOLEAN, beside : BOOLEAN]]
      /\ run'[r].at = "put" /\ run'[r].seq = n
      /\ (run'[r].blind <=> run[r].blind) /\ (run'[r].beside <=> run[r].beside)
      /\ \A q \in Runs \ {r} : run'[q] = run[q]
      /\ Running' = Running
  BY <1>1, <1>2, OwnStep
<1>7. CkptTypeOK'
  BY <1>1, <1>3, <1>6 DEF CkptTypeOK
<1>8. PointerIsNewest' /\ LegacyIsNoNewer'
  BY <1>1, <1>4 DEF PointerIsNewest, LegacyIsNoNewer, Alive, Read
<1>9. PointerIsBacked'
  <2>1. \A p \in {table[0], legacy[0]} : p = NoCheckpoint \/ Backed(p.ver)'
    <3>1. table[0].ver \in Numbers /\ legacy[0].ver \in Numbers
      BY CheckpointNumbers DEF CkptTypeOK
    <3> QED BY <1>5, <3>1 DEF PointerIsBacked, Backed
  <2> QED BY <1>4, <2>1 DEF PointerIsBacked, Backed
<1>10. PutsAreBacked'
  <2>1. \A q \in Runs : run[q].seq \in Numbers
    BY DEF CkptTypeOK
  <2>2. Backed(n)'
    BY <1>3 DEF Backed
  <2> QED BY <1>5, <1>6, <2>1, <2>2 DEF PutsAreBacked
<1>11. LoneRunIsAhead'
  <2> SUFFICES ASSUME NEW q \in Running, ~run'[q].blind, ~run'[q].beside
               PROVE  /\ Running = {q}
                      /\ Alive(table[0])' => table[0].ver <= run'[q].seq
                      /\ Alive(legacy[0])' => legacy[0].ver <= run'[q].seq
    BY <1>4, <1>6 DEF LoneRunIsAhead
  <2>1. /\ Running = {q}
        /\ Alive(table[0]) => table[0].ver <= run[q].seq
        /\ Alive(legacy[0]) => legacy[0].ver <= run[q].seq
    BY <1>6 DEF LoneRunIsAhead, Running
  <2>2. (Alive(table[0])' <=> Alive(table[0])) /\ (Alive(legacy[0])' <=> Alive(legacy[0]))
    BY <1>1, <1>4 DEF Alive
  <2>3. run[q].seq \in Nat /\ run'[q].seq \in Nat /\ run[q].seq <= run'[q].seq
    <3>1. q \in Runs /\ run[q].seq \in Nat
      BY CheckpointNumbers DEF Running, CkptTypeOK
    <3>2. CASE q = r
      BY <1>0, <1>6, <3>1, <3>2
    <3>3. CASE q # r
      BY <1>6, <3>1, <3>3
    <3> QED BY <3>2, <3>3
  <2>4. table[0].ver \in Nat /\ legacy[0].ver \in Nat
    BY CheckpointNumbers DEF CkptTypeOK
  <2> QED BY <2>1, <2>2, <2>3, <2>4
<1> QED BY <1>7, <1>8, <1>9, <1>10, <1>11

(* put, the pointer to the latest checkpoint. *)
LEMMA PutPointerStep ==
    ASSUME CkptIInv, NEW r \in Runs, PutPointer(r)
    PROVE  CkptIInv'
<1> USE DEF CkptIInv, CkptInv
<1> PICK n \in Numbers : n = run[r].seq
  BY DEF CkptTypeOK
<1>1. /\ run[r].at = "put" /\ run' = [run EXCEPT ![r].at = "ready"]
      /\ UNCHANGED <<time, lost>>
      /\ \/ Put(0, r, n) /\ best' = IF n > best THEN n ELSE best
         \/ UNCHANGED <<table, legacy, best>>
  BY DEF PutPointer, PutFails
<1>2. n \in Numbers /\ 0 \in Numbers /\ best \in Numbers /\ Numbers \subseteq Nat
  BY CheckpointNumbers DEF CkptTypeOK
<1>3. Backed(n)
  BY <1>1 DEF PutsAreBacked
<1>4. run \in [Runs -> [at : {"new", "ready", "put", "over"}, seq : Numbers, blind : BOOLEAN, beside : BOOLEAN]]
  BY DEF CkptTypeOK
<1>5. /\ run' \in [Runs -> [at : {"new", "ready", "put", "over"}, seq : Numbers, blind : BOOLEAN, beside : BOOLEAN]]
      /\ run'[r].at = "ready" /\ run'[r].seq = n
      /\ (run'[r].blind <=> run[r].blind) /\ (run'[r].beside <=> run[r].beside)
      /\ \A q \in Runs \ {r} : run'[q] = run[q]
      /\ Running' = Running
  <2>1. /\ run' \in [Runs -> [at : {"new", "ready", "put", "over"}, seq : Numbers, blind : BOOLEAN, beside : BOOLEAN]]
        /\ run'[r].at = "ready" /\ run'[r].seq = n
        /\ (run'[r].blind <=> run[r].blind) /\ (run'[r].beside <=> run[r].beside)
        /\ \A q \in Runs \ {r} : run'[q] = run[q]
    BY <1>1, <1>4
  <2> QED BY <1>1, <2>1 DEF Running
<1>6. /\ table' \in [Numbers -> Records] /\ legacy' \in [Numbers -> Records]
      /\ \A m \in Numbers \ {0} : table'[m] = table[m] /\ legacy'[m] = legacy[m]
      /\ \/ table'[0] = table[0] /\ legacy'[0] = legacy[0] /\ best' = best
         \/ /\ best' = (IF n > best THEN n ELSE best)
            /\ legacy'[0] # NoCheckpoint /\ legacy'[0].ver = n
            /\ \/ (table[0] = NoCheckpoint \/ table[0].ver <= n) /\ table'[0].ver = n
               \/ ~(table[0].ver <= n) /\ table'[0] = table[0]
  <2>1. CASE Put(0, r, n) /\ best' = IF n > best THEN n ELSE best
    BY <1>2, <2>1, PutStores
  <2>2. CASE UNCHANGED <<table, legacy, best>>
    BY <2>2 DEF CkptTypeOK
  <2> QED BY <1>1, <2>1, <2>2
<1>7. best' \in Numbers /\ best <= best'
  BY <1>2, <1>6
<1>8. CkptTypeOK'
  BY <1>1, <1>5, <1>6, <1>7 DEF CkptTypeOK
<1>9. /\ table[0].ver = best /\ legacy[0].ver <= best
      /\ table[0].ver \in Nat /\ legacy[0].ver \in Nat
      /\ table[0] = NoCheckpoint => table[0].ver = 0
  BY CheckpointNumbers DEF PointerIsNewest, LegacyIsNoNewer, CkptTypeOK
<1>10. table'[0].ver = best' /\ legacy'[0].ver <= best'
  BY <1>2, <1>6, <1>9
<1>11. PointerIsNewest' /\ LegacyIsNoNewer'
  BY <1>10 DEF PointerIsNewest, LegacyIsNoNewer, Read
<1>12. ASSUME NEW m \in Numbers, Backed(m)
       PROVE  Backed(m)'
  BY <1>1, <1>6, <1>12 DEF Backed
<1>13. PointerIsBacked'
  <2>1. \A p \in {table[0], legacy[0]} : p = NoCheckpoint \/ Backed(p.ver)'
    BY <1>12, CheckpointNumbers DEF PointerIsBacked, Backed, CkptTypeOK
  <2>2. Backed(n)'
    BY <1>2, <1>3, <1>12
  <2>3. table'[0].ver = n \/ table'[0] = table[0]
    BY <1>6
  <2>4. legacy'[0].ver = n \/ legacy'[0] = legacy[0]
    BY <1>6
  <2> QED BY <2>1, <2>2, <2>3, <2>4 DEF PointerIsBacked, Backed
<1>14. PutsAreBacked'
  BY <1>5, <1>12 DEF PutsAreBacked, CkptTypeOK
<1>15. LoneRunIsAhead'
  <2> SUFFICES ASSUME NEW q \in Running, ~run'[q].blind, ~run'[q].beside
               PROVE  /\ Running = {q}
                      /\ Alive(table[0])' => table'[0].ver <= run'[q].seq
                      /\ Alive(legacy[0])' => legacy'[0].ver <= run'[q].seq
    BY <1>5 DEF LoneRunIsAhead
  <2>1. /\ Running = {q}
        /\ Alive(table[0]) => table[0].ver <= run[q].seq
        /\ Alive(legacy[0]) => legacy[0].ver <= run[q].seq
    BY <1>5 DEF LoneRunIsAhead, Running
  <2>2. q = r /\ run'[q].seq = n /\ run[q].seq = n
    BY <1>1, <1>5, <2>1 DEF Running
  <2>3. /\ table'[0] = table[0] \/ table'[0].ver = n
        /\ legacy'[0] = legacy[0] \/ legacy'[0].ver = n
    BY <1>6
  <2>4. /\ table'[0] = table[0] => (Alive(table[0])' <=> Alive(table[0]))
        /\ legacy'[0] = legacy[0] => (Alive(legacy[0])' <=> Alive(legacy[0]))
    BY <1>1 DEF Alive
  <2> QED BY <1>2, <2>1, <2>2, <2>3, <2>4
<1> QED BY <1>8, <1>11, <1>13, <1>14, <1>15

(* A run ends, or its process does. *)
LEMMA StopStep ==
    ASSUME CkptIInv, NEW r \in Runs, Stop(r)
    PROVE  CkptIInv'
<1> USE DEF CkptIInv, CkptInv
<1>1. /\ run[r].at \in {"ready", "put"} /\ run' = [run EXCEPT ![r].at = "over"]
      /\ UNCHANGED <<table, legacy, time, best, lost>>
  BY DEF Stop, Running
<1>2. run[r].seq \in Numbers /\ run' = [run EXCEPT ![r].at = "over", ![r].seq = run[r].seq]
  BY <1>1 DEF CkptTypeOK
<1>3. /\ run' \in [Runs -> [at : {"new", "ready", "put", "over"}, seq : Numbers, blind : BOOLEAN, beside : BOOLEAN]]
      /\ run'[r].at = "over"
      /\ \A q \in Runs \ {r} : run'[q] = run[q]
      /\ Running' = Running \ {r}
  BY <1>1, <1>2, OwnStep
<1>4. CkptTypeOK' /\ PointerIsNewest' /\ PointerIsBacked' /\ LegacyIsNoNewer'
  BY <1>1, <1>3 DEF CkptTypeOK, PointerIsNewest, PointerIsBacked, LegacyIsNoNewer, Alive, Read
<1>5. PutsAreBacked'
  BY <1>1, <1>3 DEF PutsAreBacked, Backed
<1>6. LoneRunIsAhead'
  BY <1>1, <1>3 DEF LoneRunIsAhead, Alive, Running
<1> QED BY <1>4, <1>5, <1>6

(* Leases expire while time passes. *)
LEMMA TimePassesStep ==
    ASSUME CkptIInv, TimePasses
    PROVE  CkptIInv'
<1> USE DEF CkptIInv, CkptInv
<1>1. time' = time + 1 /\ time' \in 0 .. MaxTime /\ UNCHANGED <<table, legacy, run, best, lost>>
  BY CkptBounds DEF TimePasses, CkptTypeOK
<1>2. CkptTypeOK' /\ PointerIsNewest' /\ PointerIsBacked' /\ LegacyIsNoNewer' /\ PutsAreBacked'
  BY <1>1 DEF CkptTypeOK, PointerIsNewest, PointerIsBacked, LegacyIsNoNewer, PutsAreBacked, Backed, Read
<1>3. ASSUME NEW rec \in Records, Alive(rec)'
      PROVE  Alive(rec)
  BY <1>1, <1>3, CkptBounds, CheckpointNumbers DEF Alive, CkptTypeOK
<1>4. table[0] \in Records /\ legacy[0] \in Records
  BY CheckpointNumbers DEF CkptTypeOK
<1>5. (Alive(table[0])' => Alive(table[0])) /\ (Alive(legacy[0])' => Alive(legacy[0]))
  BY <1>1, <1>3, <1>4 DEF Alive
<1>6. LoneRunIsAhead'
  BY <1>1, <1>5 DEF LoneRunIsAhead, Running
<1> QED BY <1>2, <1>6

(* A step of something else changes nothing of it. *)
LEMMA CkptStutters ==
    ASSUME CkptIInv, UNCHANGED ckptVars
    PROVE  CkptIInv'
BY DEF ckptVars, CkptIInv, CkptInv, CkptTypeOK, PointerIsNewest, PointerIsBacked, LegacyIsNoNewer,
       PutsAreBacked, Backed, LoneRunIsAhead, Running, Alive, Read

(* Every step keeps the invariant. *)
LEMMA CkptStep == CkptIInv /\ [CkptNext]_ckptVars => CkptIInv'
BY ResumeStep, PutCheckpointStep, PutPointerStep, StopStep, TimePassesStep, CkptStutters DEF CkptNext

(* For any runs, however they follow each other or overlap, wherever they die and    *)
(* whatever the database drops: the pointer is the highest ever stored, and it names *)
(* a checkpoint (agent/loop.py, checkpoint/postgres.py).                             *)
THEOREM CheckpointsAreKept == CkptSpec => []CkptInv
BY CkptInitially, CkptStep, PTL DEF CkptSpec, CkptIInv

(* What a put replaces and the pointer covers is put by a run that could not read the *)
(* pointer, or has run beside another one.                                            *)
LEMMA CoveredStep ==
    ASSUME CkptIInv, [CkptNext]_ckptVars, NEW n \in 1 .. MaxSeq,
           Alive(table[n]), n <= Read(0).ver, table'[n] # table[n]
    PROVE  run[table'[n].by].blind \/ run[table'[n].by].beside
<1> USE DEF CkptIInv, CkptInv
<1>1. n \in Numbers /\ n # 0
  BY CheckpointNumbers, CkptBounds
<1>2. PICK r \in Runs : PutCheckpoint(r)
  <2>1. ASSUME NEW r \in Runs, PutPointer(r)
        PROVE  FALSE
    <3>1. run[r].seq \in Numbers /\ 0 \in Numbers
      BY CheckpointNumbers DEF CkptTypeOK
    <3>2. Put(0, r, run[r].seq)
      BY <2>1 DEF PutPointer, PutFails
    <3> QED BY <1>1, <3>1, <3>2, PutStores
  <2> QED BY <2>1 DEF CkptNext, ckptVars, TimePasses, Resume, Stop
<1>3. Put(run[r].seq + 1, r, run[r].seq + 1) /\ run[r].at = "ready"
  BY <1>2 DEF PutCheckpoint, PutFails
<1>4. run[r].seq \in Nat /\ run[r].seq + 1 \in Numbers
  BY <1>2, CheckpointNumbers DEF PutCheckpoint, CkptTypeOK
<1>5. n = run[r].seq + 1 /\ table'[n].by = r
  BY <1>1, <1>3, <1>4, PutStores
<1>6. SUFFICES ASSUME ~run[r].blind, ~run[r].beside
               PROVE  FALSE
  BY <1>5
<1>7. /\ Alive(table[0]) => table[0].ver <= run[r].seq
      /\ Alive(legacy[0]) => legacy[0].ver <= run[r].seq
  BY <1>3, <1>6 DEF LoneRunIsAhead, Running
<1>8. Read(0).ver <= run[r].seq
  BY <1>4, <1>7, CheckpointNumbers DEF Read
<1>9. Read(0).ver \in Nat
  BY CheckpointNumbers DEF Read, CkptTypeOK
<1> QED BY <1>4, <1>5, <1>8, <1>9

(* For any runs: a checkpoint that the pointer covers is replaced only by a run that *)
(* could not read the pointer or has run beside another one.                         *)
THEOREM HistoryIsKept == CkptSpec => CoveredIsKept
<1>1. CkptIInv /\ [CkptNext]_ckptVars =>
        [\A n \in 1 .. MaxSeq :
            (Alive(table[n]) /\ n <= Read(0).ver /\ table'[n] # table[n])
            => run[table'[n].by].blind \/ run[table'[n].by].beside]_ckptVars
  BY CoveredStep
<1> QED BY CkptInitially, CkptStep, <1>1, PTL DEF CkptSpec, CoveredIsKept

-----------------------------------------------------------------------------
(***************************************************************************)
(* Sessions: what a page is, what a client that resumes may miss, and who  *)
(* runs a tool call.                                                       *)
(***************************************************************************)

(* The rank of an id among others, and those of the lowest ranks. *)
Rank(later, i) == Cardinality({j \in later : j <= i})

Lowest(later) == {i \in later : Rank(later, i) <= PageLimit}

(* Ranks grow with the ids. *)
LEMMA RanksGrow ==
    ASSUME NEW S \in SUBSET Nat, IsFiniteSet(S), NEW i \in S, NEW k \in S, i < k
    PROVE  /\ Rank(S, i) \in Nat \ {0} /\ Rank(S, k) \in Nat
           /\ Rank(S, i) < Rank(S, k)
<1> DEFINE A == {j \in S : j <= i}
           B == {j \in S : j <= k}
<1>0. /\ i \in Nat /\ k \in Nat
      /\ \A j \in S : j \in Nat
  OBVIOUS
<1>1. A \in SUBSET B /\ i \in A /\ k \in B /\ k \notin A /\ B \in SUBSET S
  <2>1. \A j \in S : j <= i => j <= k
    BY <1>0
  <2>2. i <= i /\ k <= k /\ ~(k <= i)
    BY <1>0
  <2> QED BY <2>1, <2>2
<1> HIDE DEF A, B
<1>2. IsFiniteSet(B)
  BY <1>1, FS_Subset
<1>3. IsFiniteSet(A) /\ Cardinality(A) <= Cardinality(B) /\ Cardinality(A) # Cardinality(B)
  BY <1>1, <1>2, FS_Subset
<1>4. Cardinality(A) \in Nat /\ Cardinality(B) \in Nat /\ Cardinality(A) # 0
  BY <1>1, <1>2, <1>3, FS_CardinalityType, FS_EmptySet
<1>5. Cardinality(A) < Cardinality(B)
  BY <1>3, <1>4
<1> QED BY <1>4, <1>5 DEF A, B, Rank

(* Ranks are natural numbers. *)
LEMMA RanksAreNumbers ==
    ASSUME NEW S \in SUBSET Nat, IsFiniteSet(S), NEW i \in S
    PROVE  Rank(S, i) \in Nat \ {0}
<1> DEFINE A == {j \in S : j <= i}
<1>1. A \in SUBSET S /\ i \in A
  OBVIOUS
<1> HIDE DEF A
<1>2. IsFiniteSet(A)
  BY <1>1, FS_Subset
<1>3. Cardinality(A) \in Nat /\ Cardinality(A) # 0
  BY <1>1, <1>2, FS_CardinalityType, FS_EmptySet
<1> QED BY <1>3 DEF A, Rank

(* The lowest ranks are the numbers from 1 up, each that of one id. *)
LEMMA RanksAreTaken ==
    ASSUME NEW S \in SUBSET Nat, IsFiniteSet(S)
    PROVE  /\ IsFiniteSet(Lowest(S)) /\ Cardinality(Lowest(S)) \in Nat
           /\ \A i \in Lowest(S) : Rank(S, i) \in 1 .. Cardinality(Lowest(S))
           /\ \A n \in 1 .. Cardinality(Lowest(S)) : \E i \in Lowest(S) : Rank(S, i) = n
           /\ \A i, k \in Lowest(S) : Rank(S, i) = Rank(S, k) => i = k
<1> DEFINE F == Lowest(S)
           m == Cardinality(F)
           r == [i \in F |-> Rank(S, i)]
<1>1. F \in SUBSET S
  BY DEF Lowest
<1>2. IsFiniteSet(F) /\ m \in Nat
  BY <1>1, FS_Subset, FS_CardinalityType
<1>3. ASSUME NEW i \in F
      PROVE  Rank(S, i) \in 1 .. m
  <2> DEFINE A == {j \in S : j <= i}
  <2>1. ASSUME NEW j \in A
        PROVE  j \in F
    <3>1. j \in S /\ i \in S /\ j \in Nat /\ i \in Nat /\ j <= i /\ Rank(S, i) <= PageLimit
      BY <1>1 DEF Lowest
    <3>2. CASE j = i
      BY <3>2
    <3>3. CASE j < i
      <4>1. Rank(S, j) \in Nat /\ Rank(S, i) \in Nat /\ Rank(S, j) < Rank(S, i)
        BY <3>1, <3>3, RanksGrow
      <4> QED BY <3>1, <4>1, PageLimitAssumption DEF Lowest
    <3> QED BY <3>1, <3>2, <3>3
  <2>2. A \in SUBSET F
    BY <2>1
  <2> HIDE DEF A, F
  <2>3. Cardinality(A) <= Cardinality(F)
    BY <1>2, <2>2, FS_Subset
  <2>4. Rank(S, i) = Cardinality(A)
    BY DEF A, Rank
  <2>5. Rank(S, i) \in Nat \ {0}
    BY <1>1, RanksAreNumbers
  <2> QED BY <1>2, <2>3, <2>4, <2>5
<1>4. ASSUME NEW i \in F, NEW k \in F, Rank(S, i) = Rank(S, k)
      PROVE  i = k
  <2>1. i \in S /\ k \in S /\ i \in Nat /\ k \in Nat
    BY <1>1
  <2>2. ~(i < k) /\ ~(k < i)
    BY <1>4, <2>1, RanksGrow
  <2> QED BY <2>1, <2>2
<1> HIDE DEF F
<1>5. r \in Injection(F, 1 .. m)
  <2>1. r \in [F -> 1 .. m]
    BY <1>3
  <2>2. \A i, k \in F : r[i] = r[k] => i = k
    BY <1>4
  <2> QED BY <2>1, <2>2 DEF Injection, IsInjective
<1>6. IsFiniteSet(1 .. m) /\ Cardinality(1 .. m) = m
  BY <1>2, FS_Interval
<1> HIDE DEF r
<1>7. r \in Surjection(F, 1 .. m)
  BY <1>2, <1>5, <1>6, FS_Injection
<1>8. \A n \in 1 .. m : \E i \in F : r[i] = n
  BY <1>7 DEF Surjection
<1> QED BY <1>2, <1>3, <1>4, <1>8 DEF F, r

(* A set of numbers that is not empty has a least one. *)
LEMMA LeastNumber ==
    ASSUME NEW S \in SUBSET Nat, S # {}
    PROVE  \E i \in S : \A j \in S : i <= j
<1> DEFINE R == {ss \in Nat \X Nat : ss[1] < ss[2]}
<1>1. IsWellFoundedOn(R, Nat)
  BY NatLessThanWellFounded DEF OpToRel
<1>2. \A i, j \in Nat : j < i => <<j, i>> \in R
  OBVIOUS
<1> HIDE DEF R
<1>3. PICK i \in S : \A j \in S : ~(<<j, i>> \in R)
  BY <1>1, WFMin
<1>4. \A j \in S : i \in Nat /\ j \in Nat /\ ~(j < i)
  BY <1>2, <1>3
<1> QED BY <1>4

(* The committed messages behind a cursor. *)
Later(after) == {i \in Ids(messages) : i > after}

(* A page is what has the lowest ranks, in order. *)
LEMMA PageIsLowest ==
    ASSUME NEW after \in Nat, messages \in Seq(Nat)
    PROVE  /\ Later(after) \in SUBSET Nat /\ IsFiniteSet(Later(after))
           /\ Page(after) \in Seq(Nat)
           /\ Ids(Page(after)) = Lowest(Later(after))
           /\ \A j, k \in DOMAIN Page(after) : j < k => Page(after)[j] < Page(after)[k]
<1> DEFINE S == Later(after)
           F == Lowest(S)
           m == Cardinality(F)
           P == [k \in 1 .. m |-> CHOOSE i \in F : Rank(S, i) = k]
<1>1. Ids(messages) \in SUBSET Nat /\ IsFiniteSet(Ids(messages))
  <2>1. DOMAIN messages = 1 .. Len(messages) /\ Len(messages) \in Nat
        /\ \A k \in 1 .. Len(messages) : messages[k] \in Nat
    BY LenProperties, ElementOfSeq
  <2>2. messages \in [1 .. Len(messages) -> Ids(messages)]
    BY <2>1, IsASeq DEF Ids
  <2>3. messages \in Surjection(1 .. Len(messages), Ids(messages))
    BY <2>1, <2>2 DEF Surjection, Ids
  <2>4. IsFiniteSet(1 .. Len(messages))
    BY <2>1, FS_Interval
  <2>5. IsFiniteSet(Ids(messages))
    BY <2>3, <2>4, FS_Surjection
  <2> QED BY <2>1, <2>5 DEF Ids
<1>2. S \in SUBSET Nat /\ IsFiniteSet(S)
  BY <1>1, FS_Subset DEF Later
<1>3. Page(after) = P
  BY DEF Page, Later, Lowest, Rank
<1> HIDE DEF S
<1>4. /\ m \in Nat
      /\ \A i \in F : Rank(S, i) \in 1 .. m
      /\ \A n \in 1 .. m : \E i \in F : Rank(S, i) = n
      /\ \A i, k \in F : Rank(S, i) = Rank(S, k) => i = k
  BY <1>2, RanksAreTaken
<1>5. F \in SUBSET S
  BY DEF Lowest
<1> HIDE DEF F, m
<1>6. \A k \in 1 .. m : P[k] \in F /\ Rank(S, P[k]) = k
  BY <1>4
<1>7. DOMAIN P = 1 .. m /\ P = [k \in 1 .. m |-> P[k]]
  OBVIOUS
<1> HIDE DEF P
<1>8. P \in Seq(Nat) /\ Ids(P) = F
  <2>1. P \in [1 .. m -> F]
    <3>1. [k \in 1 .. m |-> P[k]] \in [1 .. m -> F]
      BY <1>6
    <3> QED BY <1>7, <3>1, Zenon
  <2>2. P \in Seq(Nat)
    <3>1. F \in SUBSET Nat
      BY <1>2, <1>5
    <3>2. P \in Seq(F)
      BY <1>4, <2>1, IsASeq
    <3> QED BY <3>1, <3>2, SeqMonotonic
  <2>3. \A i \in F : \E k \in 1 .. m : P[k] = i
    BY <1>4, <1>6
  <2>4. Ids(P) = {P[k] : k \in 1 .. m}
    BY <1>7 DEF Ids
  <2> QED BY <1>6, <2>2, <2>3, <2>4
<1>9. ASSUME NEW j \in DOMAIN P, NEW k \in DOMAIN P, j < k
      PROVE  P[j] < P[k]
  <2>1. /\ P[j] \in S /\ P[k] \in S /\ P[j] \in Nat /\ P[k] \in Nat /\ j \in Nat /\ k \in Nat
        /\ Rank(S, P[j]) = j /\ Rank(S, P[k]) = k
    BY <1>2, <1>4, <1>5, <1>6, <1>7
  <2>2. P[j] # P[k] /\ ~(P[k] < P[j])
    BY <1>2, <1>9, <2>1, RanksGrow
  <2> QED BY <2>1, <2>2
<1> QED BY <1>2, <1>3, <1>8, <1>9 DEF F, S

(* What a client is sent, and what is left for its next page. *)
LEMMA PageFacts ==
    ASSUME NEW after \in Nat, messages \in Seq(Nat)
    PROVE  /\ Page(after) \in Seq(Nat)
           /\ Ids(Page(after)) \in SUBSET Later(after)
           /\ Later(after) \in SUBSET Nat
           /\ \A i \in Later(after), k \in Ids(Page(after)) : i \in Ids(Page(after)) \/ k < i
           /\ Page(after) = <<>> => Later(after) = {}
           /\ Page(after) # <<>> =>
                /\ Page(after)[Len(Page(after))] \in Ids(Page(after))
                /\ \A i \in Ids(Page(after)) : i <= Page(after)[Len(Page(after))]
<1> DEFINE P == Page(after)
           S == Later(after)
<1>1. /\ S \in SUBSET Nat /\ IsFiniteSet(S)
      /\ P \in Seq(Nat) /\ Ids(P) = Lowest(S)
      /\ \A j, k \in DOMAIN P : j < k => P[j] < P[k]
  BY PageIsLowest
<1> HIDE DEF P, S
<1>2. Ids(P) \in SUBSET S
  BY <1>1 DEF Lowest
<1>3. ASSUME NEW i \in S, NEW k \in Ids(P), i \notin Ids(P)
      PROVE  k < i
  <2>1. k \in S /\ i \in Nat /\ k \in Nat /\ k # i
    BY <1>1, <1>2, <1>3
  <2>2. ~(Rank(S, i) <= PageLimit) /\ Rank(S, k) <= PageLimit
    BY <1>1, <1>3 DEF Lowest
  <2>3. CASE i < k
    <3>1. Rank(S, i) \in Nat /\ Rank(S, k) \in Nat /\ Rank(S, i) < Rank(S, k)
      BY <1>1, <2>1, <2>3, RanksGrow
    <3> QED BY <2>2, <3>1, PageLimitAssumption
  <2> QED BY <2>1, <2>3
<1>4. ASSUME P = <<>>, S # {}
      PROVE  FALSE
  <2>1. PICK i \in S : \A j \in S : i <= j
    BY <1>1, <1>4, LeastNumber
  <2>2. i \in Nat /\ \A j \in S : j \in Nat
    BY <1>1
  <2>3. {j \in S : j <= i} = {i}
    <3>1. \A j \in S : j <= i <=> j = i
      BY <2>1, <2>2
    <3> QED BY <3>1, Zenon
  <2>4. Rank(S, i) = 1
    BY <2>3, FS_Singleton DEF Rank
  <2>5. i \in Lowest(S)
    BY <2>4, PageLimitAssumption DEF Lowest
  <2>6. i \in Ids(P)
    BY <1>1, <2>5
  <2>7. DOMAIN P = {}
    BY <1>4
  <2> QED BY <2>6, <2>7 DEF Ids
<1>5. ASSUME P # <<>>
      PROVE  P[Len(P)] \in Ids(P) /\ \A i \in Ids(P) : i <= P[Len(P)]
  <2>1. Len(P) \in Nat \ {0} /\ DOMAIN P = 1 .. Len(P)
    BY <1>1, <1>5, EmptySeq, LenProperties
  <2>2. Len(P) \in DOMAIN P /\ \A k \in DOMAIN P : k \in Nat /\ k <= Len(P) /\ P[k] \in Nat
    BY <1>1, <2>1, ElementOfSeq
  <2>3. \A k \in DOMAIN P : P[k] <= P[Len(P)]
    <3> TAKE k \in DOMAIN P
    <3>1. CASE k = Len(P)
      BY <2>2, <3>1
    <3>2. CASE k < Len(P)
      BY <1>1, <2>2, <3>2
    <3> QED BY <2>1, <2>2, <3>1, <3>2
  <2> QED BY <2>2, <2>3 DEF Ids
<1> QED BY <1>1, <1>2, <1>3, <1>4, <1>5 DEF P, S

-----------------------------------------------------------------------------
(* What has been sent in a sequence of pages. *)
Sent(ps) == UNION {Ids(ps[k]) : k \in DOMAIN ps}

(* The ids of a page behind others. *)
LEMMA IdsOfAppend ==
    ASSUME NEW s \in Seq(Nat), NEW x \in Nat
    PROVE  Append(s, x) \in Seq(Nat) /\ Ids(Append(s, x)) = Ids(s) \cup {x}
<1>1. /\ Append(s, x) \in Seq(Nat) /\ Len(s) \in Nat
      /\ DOMAIN s = 1 .. Len(s) /\ DOMAIN Append(s, x) = 1 .. Len(s) + 1
      /\ \A k \in 1 .. Len(s) : Append(s, x)[k] = s[k]
      /\ Append(s, x)[Len(s) + 1] = x
  BY AppendProperties, LenProperties
<1> DEFINE t == Append(s, x)
<1>2. DOMAIN t = DOMAIN s \cup {Len(s) + 1} /\ (Len(s) + 1) \notin DOMAIN s
  BY <1>1
<1> HIDE DEF t
<1> QED BY <1>1, <1>2 DEF Ids, t

(* What was sent with another page. *)
LEMMA SentInAppend ==
    ASSUME NEW ps \in Seq(Seq(Nat)), NEW page \in Seq(Nat)
    PROVE  /\ Append(ps, page) \in Seq(Seq(Nat))
           /\ Sent(Append(ps, page)) = Sent(ps) \cup Ids(page)
           /\ Len(ps) \in Nat /\ DOMAIN ps = 1 .. Len(ps)
           /\ DOMAIN Append(ps, page) = 1 .. Len(ps) + 1
           /\ \A k \in DOMAIN ps : Append(ps, page)[k] = ps[k]
           /\ Append(ps, page)[Len(ps) + 1] = page
<1>1. /\ Append(ps, page) \in Seq(Seq(Nat)) /\ Len(ps) \in Nat
      /\ DOMAIN ps = 1 .. Len(ps) /\ DOMAIN Append(ps, page) = 1 .. Len(ps) + 1
      /\ \A k \in 1 .. Len(ps) : Append(ps, page)[k] = ps[k]
      /\ Append(ps, page)[Len(ps) + 1] = page
  BY AppendProperties, LenProperties
<1> DEFINE t == Append(ps, page)
<1>2. DOMAIN t = DOMAIN ps \cup {Len(ps) + 1}
  BY <1>1
<1>3. \A x : x \in Sent(t) <=> x \in Sent(ps) \/ x \in Ids(page)
  <2>1. \A x : x \in Sent(t) <=> \E k \in DOMAIN t : x \in Ids(t[k])
    BY Zenon DEF Sent
  <2>2. \A x : x \in Sent(ps) <=> \E k \in DOMAIN ps : x \in Ids(ps[k])
    BY Zenon DEF Sent
  <2> HIDE DEF t
  <2> QED BY <1>1, <1>2, <2>1, <2>2 DEF t
<1> QED BY <1>1, <1>3

(* Every id is positive, the client's cursor is the last message it was *)
(* sent, and everything it was sent is behind the cursor.               *)
MessageTypes ==
    /\ appender \in [Appenders -> [at : {"new", "open", "done"}, id : Nat]]
    /\ \A a \in Appenders : appender[a].at = "open" => appender[a].id # 0
    /\ nextId \in Nat \ {0}
    /\ messages \in Seq(Nat)
    /\ lastEvent \in Nat
    /\ pages \in Seq(Seq(Nat))

CursorIsLast ==
    /\ \A i \in Ids(messages) : i # 0
    /\ \A x \in Sent(pages) : x <= lastEvent
    /\ lastEvent = 0 \/ lastEvent \in Sent(pages)
    /\ \A x \in Sent(pages) : x \in Nat

MessagesIInv == MessageTypes /\ CursorIsLast /\ PagesGoOn /\ OnlyLateIsSkipped

(* A client resumes behind its cursor. *)
LEMMA ResumeKeeps ==
    ASSUME MessagesIInv, ResumeSession
    PROVE  MessagesIInv'
<1> DEFINE P == Page(lastEvent)
<1>1. /\ P \in Seq(Nat)
      /\ Ids(P) \in SUBSET Later(lastEvent) /\ Later(lastEvent) \in SUBSET Nat
      /\ \A i \in Later(lastEvent), k \in Ids(P) : i \in Ids(P) \/ k < i
      /\ P = <<>> => Later(lastEvent) = {}
      /\ P # <<>> => P[Len(P)] \in Ids(P) /\ \A i \in Ids(P) : i <= P[Len(P)]
  BY PageFacts DEF MessagesIInv, MessageTypes
<1>2. /\ pages' = Append(pages, P)
      /\ lastEvent' = IF P = <<>> THEN lastEvent ELSE P[Len(P)]
      /\ UNCHANGED <<appender, nextId, messages, overtaken>>
  BY DEF ResumeSession, LastEvent, toolVars
<1> HIDE DEF P
<1>3. PICK page \in Seq(Nat) : page = P
  BY <1>1
<1>4. /\ pages' \in Seq(Seq(Nat)) /\ Sent(pages') = Sent(pages) \cup Ids(page)
      /\ Len(pages) \in Nat /\ DOMAIN pages = 1 .. Len(pages) /\ DOMAIN pages' = 1 .. Len(pages) + 1
      /\ \A k \in DOMAIN pages : pages'[k] = pages[k]
      /\ pages'[Len(pages) + 1] = page
  BY <1>2, <1>3, SentInAppend DEF MessagesIInv, MessageTypes
<1>5. /\ \A x \in Ids(page) : x \in Ids(messages) /\ x \in Nat /\ x > lastEvent
      /\ lastEvent \in Nat /\ lastEvent' \in Nat /\ lastEvent <= lastEvent'
      /\ page = <<>> => Ids(page) = {} /\ lastEvent' = lastEvent
      /\ page # <<>> => lastEvent' \in Ids(page) /\ \A i \in Ids(page) : i <= lastEvent'
  <2>1. lastEvent \in Nat
    BY DEF MessagesIInv, MessageTypes
  <2>2. \A x \in Ids(page) : x \in Ids(messages) /\ x \in Nat /\ x > lastEvent
    BY <1>1, <1>3 DEF Later
  <2>3. page = <<>> => Ids(page) = {} /\ lastEvent' = lastEvent
    BY <1>1, <1>2, <1>3
  <2>4. page # <<>> => lastEvent' \in Ids(page) /\ \A i \in Ids(page) : i <= lastEvent'
    BY <1>1, <1>2, <1>3
  <2> QED BY <2>1, <2>2, <2>3, <2>4
<1>6. MessageTypes'
  BY <1>2, <1>4, <1>5 DEF MessagesIInv, MessageTypes
<1>7. CursorIsLast'
  <2>1. \A x \in Sent(pages) : x \in Nat /\ x <= lastEvent
    BY DEF MessagesIInv, CursorIsLast
  <2>2. \A x \in Sent(pages') : x \in Nat /\ x <= lastEvent'
    BY <1>4, <1>5, <2>1
  <2>3. lastEvent' = 0 \/ lastEvent' \in Sent(pages')
    BY <1>4, <1>5 DEF MessagesIInv, CursorIsLast
  <2>4. \A i \in Ids(messages') : i # 0
    BY <1>2 DEF MessagesIInv, CursorIsLast
  <2> QED BY <2>2, <2>3, <2>4 DEF CursorIsLast
<1>8. PagesGoOn'
  <2> SUFFICES ASSUME NEW j \in DOMAIN pages', NEW k \in DOMAIN pages', j < k,
                      NEW x \in Ids(pages'[j]), NEW y \in Ids(pages'[k])
               PROVE  x < y
    BY DEF PagesGoOn
  <2>1. j \in DOMAIN pages /\ pages'[j] = pages[j] /\ x \in Ids(pages[j])
    BY <1>4
  <2>2. CASE k \in DOMAIN pages
    BY <1>4, <2>1, <2>2 DEF MessagesIInv, PagesGoOn
  <2>3. CASE k = Len(pages) + 1
    <3>1. x \in Sent(pages)
      BY <2>1 DEF Sent
    <3>2. x <= lastEvent /\ x \in Nat /\ lastEvent \in Nat
      BY <3>1, <1>5 DEF MessagesIInv, CursorIsLast
    <3> QED BY <1>4, <1>5, <2>3, <3>2
  <2> QED BY <1>4, <2>2, <2>3
<1>9. OnlyLateIsSkipped'
  <2> SUFFICES ASSUME NEW i \in Ids(messages), i \notin Sent(pages'), ~(i > lastEvent')
               PROVE  i \in overtaken
    BY <1>2 DEF OnlyLateIsSkipped, Received, Sent
  <2>1. i \in Sent(pages) \/ i > lastEvent \/ i \in overtaken
    BY DEF MessagesIInv, OnlyLateIsSkipped, Received, Sent
  <2>2. ASSUME i > lastEvent PROVE FALSE
    <3>1. i \in Later(lastEvent) /\ i \in Nat
      BY <1>1, <2>2 DEF Later
    <3>2. page # <<>>
      BY <1>1, <1>3, <3>1
    <3>3. i \notin Ids(page)
      BY <1>4
    <3>4. lastEvent' < i
      BY <1>1, <1>3, <1>5, <3>1, <3>2, <3>3
    <3> QED BY <1>5, <3>1, <3>4
  <2> QED BY <1>4, <2>1, <2>2
<1> QED BY <1>6, <1>7, <1>8, <1>9 DEF MessagesIInv

(* A message is committed. *)
LEMMA CommitKeeps ==
    ASSUME MessagesIInv, NEW a \in Appenders, CommitMessage(a)
    PROVE  MessagesIInv'
<1> DEFINE id == appender[a].id
<1>1. id \in Nat /\ id # 0 /\ lastEvent \in Nat
  BY DEF MessagesIInv, MessageTypes, CommitMessage
<1>2. /\ UNCHANGED <<nextId, lastEvent, pages>>
      /\ appender' = [appender EXCEPT ![a].at = "done"]
      /\ \/ messages' = Append(messages, id) /\ overtaken' = IF id < lastEvent THEN overtaken \cup {id} ELSE overtaken
         \/ UNCHANGED <<messages, overtaken>>
  BY DEF CommitMessage
<1>3. appender' \in [Appenders -> [at : {"new", "open", "done"}, id : Nat]]
      /\ \A b \in Appenders : appender'[b].at = "open" => appender'[b].id # 0
  BY <1>2 DEF MessagesIInv, MessageTypes
<1> HIDE DEF id
<1>4. messages' \in Seq(Nat) /\ \A i \in Ids(messages') : i \in Ids(messages) \/ (i = id /\ messages' = Append(messages, id))
  <2>1. messages \in Seq(Nat)
    BY DEF MessagesIInv, MessageTypes
  <2>2. CASE messages' = messages
    BY <2>1, <2>2
  <2>3. CASE messages' = Append(messages, id)
    <3>1. messages' \in Seq(Nat) /\ Ids(messages') = Ids(messages) \cup {id}
      BY <1>1, <2>1, <2>3, IdsOfAppend
    <3> QED BY <2>3, <3>1
  <2> QED BY <1>2, <2>2, <2>3
<1>5. MessageTypes'
  BY <1>2, <1>3, <1>4 DEF MessagesIInv, MessageTypes
<1>6. CursorIsLast'
  BY <1>1, <1>2, <1>4 DEF MessagesIInv, CursorIsLast
<1>7. PagesGoOn'
  BY <1>2 DEF MessagesIInv, PagesGoOn
<1>8. OnlyLateIsSkipped'
  <2> SUFFICES ASSUME NEW i \in Ids(messages')
               PROVE  i \in Sent(pages) \/ i > lastEvent \/ i \in overtaken'
    BY <1>2 DEF OnlyLateIsSkipped, Received, Sent
  <2>1. overtaken \in SUBSET overtaken'
    BY <1>2
  <2>2. CASE i \in Ids(messages)
    BY <2>1, <2>2 DEF MessagesIInv, OnlyLateIsSkipped, Received, Sent
  <2>3. CASE i \notin Ids(messages)
    <3>1. i = id /\ i \in Nat /\ i # 0 /\ (i < lastEvent => i \in overtaken')
      BY <1>1, <1>2, <1>4, <2>3
    <3>2. i = lastEvent => i \in Sent(pages)
      BY <3>1 DEF MessagesIInv, CursorIsLast
    <3> QED BY <1>1, <3>1, <3>2
  <2> QED BY <2>2, <2>3
<1> QED BY <1>5, <1>6, <1>7, <1>8 DEF MessagesIInv

(* Every step keeps what is known of the messages. *)
LEMMA MessagesStep ==
    ASSUME MessagesIInv, [SessionNext]_sessionVars
    PROVE  MessagesIInv'
<1>1. CASE UNCHANGED messageVars
  BY <1>1 DEF messageVars, MessagesIInv, MessageTypes, CursorIsLast, PagesGoOn, OnlyLateIsSkipped, Received
<1>2. ASSUME NEW a \in Appenders, InsertMessage(a)
      PROVE  MessagesIInv'
  <2>1. UNCHANGED <<messages, lastEvent, pages, overtaken>>
    BY <1>2 DEF InsertMessage
  <2>2. MessageTypes'
    <3>1. appender' = [appender EXCEPT ![a] = [at |-> "open", id |-> nextId]] /\ nextId' = nextId + 1
      BY <1>2 DEF InsertMessage
    <3> QED BY <2>1, <3>1 DEF MessagesIInv, MessageTypes
  <2> QED BY <2>1, <2>2 DEF MessagesIInv, CursorIsLast, PagesGoOn, OnlyLateIsSkipped, Received
<1>3. ASSUME NEW c \in Repeats, RecordToolCall(c) \/ RunIt(c) \/ CompleteToolCall(c)
      PROVE  UNCHANGED messageVars
  BY <1>3 DEF RecordToolCall, RunIt, CompleteToolCall, messageVars
<1>4. CASE UNCHANGED sessionVars
  BY <1>1, <1>4 DEF sessionVars, messageVars
<1> QED BY <1>1, <1>2, <1>3, <1>4, CommitKeeps, ResumeKeeps DEF SessionNext

-----------------------------------------------------------------------------
(* Nothing ran before the row was there, and who is about to run the tool *)
(* is the one whose row it is, before anybody ran it.                     *)
CallRows == [by : Repeats \cup {NoOne}, status : {"none", "PENDING", "SUCCESS", "FAILED"},
             result : Repeats \cup {NoOne}]

ToolTypes ==
    /\ toolCall \in CallRows
    /\ repeat \in [Repeats -> [at : {"new", "first", "ran", "gone", "done"}, got : CallRows]]
    /\ effects \in Seq(Repeats)

FirstRuns ==
    /\ toolCall.status = "none" =>
         effects = <<>> /\ \A c \in Repeats : repeat[c].at \notin {"first", "ran"}
    /\ \A c \in Repeats : repeat[c].at = "first" => toolCall.by = c /\ effects = <<>>

ToolIInv == ToolTypes /\ FirstRuns /\ OneEffectPerKey /\ OutcomeStands

(* A tool call is recorded before it runs. *)
LEMMA RecordKeeps ==
    ASSUME ToolIInv, NEW c \in Repeats, RecordToolCall(c)
    PROVE  ToolIInv'
<1> DEFINE mine == [by |-> c, status |-> "PENDING", result |-> NoOne]
<1>0. ToolTypes /\ FirstRuns /\ OneEffectPerKey /\ OutcomeStands /\ effects' = effects /\ repeat[c].at = "new"
  BY DEF ToolIInv, RecordToolCall
<1>1. mine \in CallRows /\ NoCall \in CallRows /\ mine.by = c /\ mine.status = "PENDING" /\ NoCall.status = "none"
  BY DEF CallRows, NoCall
<1>2. CASE /\ Inserts /\ toolCall' = mine
           /\ \E answered \in BOOLEAN :
                repeat' = [repeat EXCEPT ![c] = IF answered THEN [at |-> "first", got |-> mine]
                                                ELSE [at |-> "gone", got |-> NoCall]]
  <2> HIDE DEF mine
  <2>1. PICK r \in {[at |-> "first", got |-> mine], [at |-> "gone", got |-> NoCall]} :
          repeat' = [repeat EXCEPT ![c] = r]
    BY <1>2
  <2>2. repeat' \in [Repeats -> [at : {"new", "first", "ran", "gone", "done"}, got : CallRows]]
    BY <1>0, <1>1, <2>1 DEF ToolTypes
  <2>3. /\ r.at \in {"first", "gone"} /\ r.got.status \notin {"SUCCESS", "FAILED"}
        /\ repeat'[c] = r /\ \A d \in Repeats : d # c => repeat'[d] = repeat[d]
    BY <1>0, <1>1, <2>1 DEF ToolTypes
  <2>4. toolCall.status = "none"
    BY <1>2 DEF Inserts
  <2>5. ToolTypes'
    BY <1>0, <1>1, <1>2, <2>2 DEF ToolTypes
  <2>6. FirstRuns'
    BY <1>0, <1>1, <1>2, <2>3, <2>4 DEF FirstRuns
  <2>7. OutcomeStands'
    <3> SUFFICES ASSUME NEW d \in Repeats, repeat'[d].got.status \in {"SUCCESS", "FAILED"}
                 PROVE  FALSE
      BY DEF OutcomeStands
    <3> QED BY <1>0, <2>3, <2>4 DEF OutcomeStands
  <2> QED BY <1>0, <2>5, <2>6, <2>7 DEF ToolIInv, OneEffectPerKey
<1>3. CASE ~Inserts /\ repeat' = [repeat EXCEPT ![c] = [at |-> "done", got |-> toolCall]] /\ UNCHANGED toolCall
  <2>1. ToolTypes'
    BY <1>0, <1>3 DEF ToolTypes
  <2>2. /\ repeat'[c] = [at |-> "done", got |-> toolCall]
        /\ \A d \in Repeats : d # c => repeat'[d] = repeat[d]
    BY <1>0, <1>3 DEF ToolTypes
  <2>3. FirstRuns'
    BY <1>0, <1>3, <2>2 DEF FirstRuns, Inserts
  <2>4. OutcomeStands'
    BY <1>0, <1>3, <2>2 DEF OutcomeStands
  <2> QED BY <1>0, <2>1, <2>3, <2>4 DEF ToolIInv, OneEffectPerKey
<1>4. CASE repeat' = [repeat EXCEPT ![c].at = "gone"] /\ UNCHANGED toolCall
  <2>1. ToolTypes'
    BY <1>0, <1>4 DEF ToolTypes
  <2>2. /\ repeat'[c].at = "gone" /\ repeat'[c].got = repeat[c].got
        /\ \A d \in Repeats : d # c => repeat'[d] = repeat[d]
    BY <1>0, <1>4 DEF ToolTypes
  <2>3. FirstRuns'
    BY <1>0, <1>4, <2>2 DEF FirstRuns
  <2>4. OutcomeStands'
    BY <1>0, <1>4, <2>2 DEF OutcomeStands
  <2> QED BY <1>0, <2>1, <2>3, <2>4 DEF ToolIInv, OneEffectPerKey
<1> QED BY <1>2, <1>3, <1>4 DEF RecordToolCall

(* A tool runs. *)
LEMMA RunKeeps ==
    ASSUME ToolIInv, NEW c \in Repeats, RunIt(c)
    PROVE  ToolIInv'
<1>0. /\ ToolTypes /\ FirstRuns /\ OneEffectPerKey /\ OutcomeStands
      /\ repeat[c].at = "first" /\ toolCall' = toolCall
      /\ toolCall.by = c /\ effects = <<>> /\ toolCall.status # "none"
  BY DEF ToolIInv, RunIt, FirstRuns
<1>1. PICK at \in {"ran", "gone"} :
        repeat' = [repeat EXCEPT ![c].at = at] /\ effects' \in {<<>>, <<c>>}
  BY <1>0 DEF RunIt
<1>2. ToolTypes' /\ Len(effects') <= 1
  <2>1. repeat' \in [Repeats -> [at : {"new", "first", "ran", "gone", "done"}, got : CallRows]]
    BY <1>0, <1>1 DEF ToolTypes
  <2>2. <<>> \in Seq(Repeats) /\ <<c>> \in Seq(Repeats) /\ Len(<<>>) = 0 /\ Len(<<c>>) = 1
    OBVIOUS
  <2>3. effects' \in Seq(Repeats) /\ Len(effects') <= 1
    <3>1. CASE effects' = <<>>
      BY <2>2, <3>1
    <3>2. CASE effects' = <<c>>
      BY <2>2, <3>2
    <3> QED BY <1>1, <3>1, <3>2
  <2> QED BY <1>0, <2>1, <2>3 DEF ToolTypes
<1>3. /\ repeat'[c].at = at /\ repeat'[c].got = repeat[c].got
      /\ \A d \in Repeats : d # c => repeat'[d] = repeat[d]
  BY <1>0, <1>1 DEF ToolTypes
<1>4. FirstRuns'
  BY <1>0, <1>3 DEF FirstRuns
<1>5. OutcomeStands'
  BY <1>0, <1>3 DEF OutcomeStands
<1> QED BY <1>2, <1>4, <1>5 DEF ToolIInv, OneEffectPerKey

(* A tool call is completed by its result. *)
LEMMA CompleteKeeps ==
    ASSUME ToolIInv, NEW c \in Repeats, CompleteToolCall(c)
    PROVE  ToolIInv'
<1>0. /\ ToolTypes /\ FirstRuns /\ OneEffectPerKey /\ OutcomeStands
      /\ repeat[c].at = "ran" /\ effects' = effects
  BY DEF ToolIInv, CompleteToolCall
<1>1. PICK status \in {"SUCCESS", "FAILED"}, answered \in BOOLEAN :
        /\ toolCall' = IF Completes THEN [toolCall EXCEPT !.status = status, !.result = c] ELSE toolCall
        /\ repeat' = IF answered THEN [repeat EXCEPT ![c] = [at |-> "done", got |-> toolCall']] ELSE repeat
  BY DEF CompleteToolCall
<1>2. /\ toolCall' \in CallRows /\ toolCall'.status # "none" /\ toolCall'.by = toolCall.by
      /\ toolCall.status # "PENDING" => toolCall' = toolCall
  BY <1>0, <1>1 DEF ToolTypes, CallRows, Completes, FirstRuns
<1>3. ToolTypes'
  BY <1>0, <1>1, <1>2 DEF ToolTypes
<1>4. \A d \in Repeats : repeat'[d] = repeat[d] \/ repeat'[d] = [at |-> "done", got |-> toolCall']
  BY <1>0, <1>1 DEF ToolTypes
<1>5. FirstRuns'
  <2>1. \A d \in Repeats : repeat'[d].at = "first" => repeat[d].at = "first"
    BY <1>4
  <2> QED BY <1>0, <1>2, <2>1 DEF FirstRuns
<1>6. OutcomeStands'
  <2> SUFFICES ASSUME NEW d \in Repeats, repeat'[d].got.status \in {"SUCCESS", "FAILED"},
                      repeat'[d] = repeat[d]
               PROVE  repeat'[d].got = toolCall'
    BY <1>4 DEF OutcomeStands
  <2>1. repeat[d].got = toolCall /\ toolCall.status # "PENDING"
    BY <1>0 DEF OutcomeStands
  <2> QED BY <1>2, <2>1
<1> QED BY <1>0, <1>3, <1>5, <1>6 DEF ToolIInv, OneEffectPerKey

(* Every step keeps what is known of the tool calls. *)
LEMMA ToolStep ==
    ASSUME ToolIInv, [SessionNext]_sessionVars
    PROVE  ToolIInv'
<1>1. CASE UNCHANGED toolVars
  BY <1>1 DEF toolVars, ToolIInv, ToolTypes, FirstRuns, OneEffectPerKey, OutcomeStands
<1>2. ASSUME NEW a \in Appenders, InsertMessage(a) \/ CommitMessage(a)
      PROVE  UNCHANGED toolVars
  BY <1>2 DEF InsertMessage, CommitMessage
<1>3. ResumeSession => UNCHANGED toolVars
  BY DEF ResumeSession
<1>4. CASE UNCHANGED sessionVars
  BY <1>1, <1>4 DEF sessionVars, toolVars
<1> QED BY <1>1, <1>2, <1>3, <1>4, RecordKeeps, RunKeeps, CompleteKeeps DEF SessionNext

(* A client that resumes is sent nothing twice and misses only messages  *)
(* that committed behind its cursor; a tool runs at most once for a key, *)
(* and every caller is told the outcome in the row.                      *)
THEOREM SessionsAreKept == SessionSpec => []SessionInv
<1>1. SessionInit => MessagesIInv /\ ToolIInv
  <2> SUFFICES ASSUME SessionInit PROVE MessagesIInv /\ ToolIInv
    OBVIOUS
  <2>1. MessagesIInv
    <3>1. Ids(<<>>) = {} /\ Sent(<<>>) = {}
      BY DEF Ids, Sent
    <3>2. messages = <<>> /\ pages = <<>> /\ lastEvent = 0 /\ nextId = 1
          /\ appender = [a \in Appenders |-> [at |-> "new", id |-> 0]]
      BY DEF SessionInit
    <3>3. MessageTypes
      BY <3>2 DEF MessageTypes
    <3>4. CursorIsLast /\ PagesGoOn /\ OnlyLateIsSkipped
      BY <3>1, <3>2 DEF CursorIsLast, PagesGoOn, OnlyLateIsSkipped
    <3> QED BY <3>3, <3>4 DEF MessagesIInv
  <2>2. ToolIInv
    <3>1. /\ toolCall = NoCall /\ effects = <<>>
          /\ repeat = [c \in Repeats |-> [at |-> "new", got |-> NoCall]]
          /\ NoCall \in CallRows /\ NoCall.status = "none"
      BY DEF SessionInit, NoCall, CallRows
    <3> QED BY <3>1 DEF ToolIInv, ToolTypes, FirstRuns, OneEffectPerKey, OutcomeStands
  <2> QED BY <2>1, <2>2
<1>2. MessagesIInv /\ ToolIInv /\ [SessionNext]_sessionVars => MessagesIInv' /\ ToolIInv'
  BY MessagesStep, ToolStep
<1>3. MessagesIInv /\ ToolIInv => SessionInv
  BY DEF MessagesIInv, ToolIInv, SessionInv
<1> QED BY <1>1, <1>2, <1>3, PTL DEF SessionSpec

-----------------------------------------------------------------------------
(***************************************************************************)
(* TraceFile: a record that was appended with nothing failing is a whole   *)
(* line among the synced pieces, and its sidecar is on the disk under its  *)
(* name, unless it stands behind the start of another line.                *)
(***************************************************************************)

SidecarNames == Bodies \cup {NoBody}

Pieces == [piece : {"whole", "start", "rest"}, rec : Nat, body : SidecarNames]

(* What is left in a buffer never begins in the middle of a new line. *)
NoStart(buffer) == \A k \in DOMAIN buffer : buffer[k].piece # "start"

TracerStates == {"closed", "open", "look", "publish", "name", "write", "sync", "names"}

TracerRecords == [at : TracerStates, rec : Nat, body : SidecarNames, held : Seq(Pieces), good : BOOLEAN]

(* The whole line of the record r stands at i. *)
WholeAt(ps, i, r, b) == i \in DOMAIN ps /\ ps[i] = Whole(r, b) /\ BeginsLine(ps, i)

(* A whole line is a piece. *)
LEMMA WholeIsPiece ==
    ASSUME NEW r \in Nat, NEW b \in SidecarNames
    PROVE  /\ Whole(r, b) \in Pieces /\ Whole(r, b).piece = "whole"
           /\ Whole(r, b).rec = r /\ Whole(r, b).body = b
BY DEF Whole, Pieces

(* What is written behind the pieces leaves the lines among them alone. *)
LEMMA LongerKeeps ==
    ASSUME NEW ps \in Seq(Pieces), NEW new \in Seq(Pieces)
    PROVE  /\ ps \o new \in Seq(Pieces) /\ Len(ps) \in Nat /\ Len(new) \in Nat
           /\ Len(ps \o new) = Len(ps) + Len(new)
           /\ DOMAIN ps = 1 .. Len(ps) /\ DOMAIN (ps \o new) = 1 .. Len(ps) + Len(new)
           /\ \A i \in DOMAIN ps : (ps \o new)[i] = ps[i]
           /\ \A k \in DOMAIN (ps \o new) :
                (\E i \in DOMAIN ps : (ps \o new)[k] = ps[i]) \/ (\E j \in DOMAIN new : (ps \o new)[k] = new[j])
           /\ \A i \in DOMAIN ps : \A r, b : WholeAt(ps, i, r, b) => WholeAt(ps \o new, i, r, b)
<1> DEFINE s == ps \o new
<1>1. /\ s \in Seq(Pieces) /\ Len(ps) \in Nat /\ Len(new) \in Nat
      /\ Len(s) = Len(ps) + Len(new)
      /\ \A i \in 1 .. Len(ps) + Len(new) : s[i] = IF i <= Len(ps) THEN ps[i] ELSE new[i - Len(ps)]
  BY ConcatProperties, LenProperties
<1>2. DOMAIN ps = 1 .. Len(ps) /\ DOMAIN new = 1 .. Len(new) /\ DOMAIN s = 1 .. Len(ps) + Len(new)
  BY <1>1, LenProperties
<1> HIDE DEF s
<1>3. \A i \in DOMAIN ps : i \in Nat /\ i \in DOMAIN s /\ s[i] = ps[i]
  BY <1>1, <1>2
<1>4. \A k \in DOMAIN s : (\E i \in DOMAIN ps : s[k] = ps[i]) \/ (\E j \in DOMAIN new : s[k] = new[j])
  <2> TAKE k \in DOMAIN s
  <2>1. CASE k <= Len(ps)
    BY <1>1, <1>2, <2>1
  <2>2. CASE ~(k <= Len(ps))
    <3>1. k - Len(ps) \in DOMAIN new /\ s[k] = new[k - Len(ps)]
      BY <1>1, <1>2, <2>2
    <3> QED BY <3>1
  <2> QED BY <2>1, <2>2
<1>5. ASSUME NEW i \in DOMAIN ps, NEW r, NEW b, WholeAt(ps, i, r, b)
      PROVE  WholeAt(s, i, r, b)
  <2>1. i \in DOMAIN s /\ s[i] = Whole(r, b)
    BY <1>3, <1>5 DEF WholeAt
  <2>2. i = 1 \/ (i - 1 \in DOMAIN ps /\ ps[i - 1].piece # "start")
    BY <1>1, <1>2, <1>5 DEF WholeAt, BeginsLine
  <2>3. BeginsLine(s, i)
    BY <1>3, <2>2 DEF BeginsLine
  <2> QED BY <2>1, <2>3 DEF WholeAt
<1> QED BY <1>1, <1>2, <1>3, <1>4, <1>5 DEF s

(* What is cut behind a length leaves the lines before it alone. *)
LEMMA ShorterKeeps ==
    ASSUME NEW ps \in Seq(Pieces), NEW n \in 0 .. Len(ps)
    PROVE  /\ SubSeq(ps, 1, n) \in Seq(Pieces) /\ Len(SubSeq(ps, 1, n)) = n
           /\ DOMAIN SubSeq(ps, 1, n) = 1 .. n /\ DOMAIN ps = 1 .. Len(ps) /\ Len(ps) \in Nat
           /\ \A i \in 1 .. n : SubSeq(ps, 1, n)[i] = ps[i]
           /\ \A i \in 1 .. n : \A r, b : WholeAt(ps, i, r, b) => WholeAt(SubSeq(ps, 1, n), i, r, b)
<1> DEFINE s == SubSeq(ps, 1, n)
<1>0. Len(ps) \in Nat /\ DOMAIN ps = 1 .. Len(ps) /\ n \in Nat /\ n <= Len(ps)
  BY LenProperties
<1>1. \A i \in 1 .. n : i \in 1 .. Len(ps) /\ ps[i] \in Pieces
  BY <1>0, ElementOfSeq
<1>2. s \in Seq(Pieces) /\ Len(s) = (IF 1 <= n THEN n - 1 + 1 ELSE 0) /\ \A i \in 1 .. n - 1 + 1 : s[i] = ps[1 + i - 1]
  BY <1>0, <1>1, SubSeqProperties
<1> HIDE DEF s
<1>3. Len(s) = n /\ \A i \in 1 .. n : s[i] = ps[i]
  BY <1>0, <1>2
<1>4. DOMAIN s = 1 .. n
  BY <1>2, <1>3, LenProperties
<1>5. ASSUME NEW i \in 1 .. n, NEW r, NEW b, WholeAt(ps, i, r, b)
      PROVE  WholeAt(s, i, r, b)
  <2>1. i = 1 \/ (i - 1 \in 1 .. n /\ ps[i - 1].piece # "start")
    BY <1>0, <1>5 DEF WholeAt, BeginsLine
  <2>2. i \in DOMAIN s /\ s[i] = Whole(r, b)
    BY <1>3, <1>4, <1>5 DEF WholeAt
  <2>3. BeginsLine(s, i)
    BY <1>3, <2>1 DEF BeginsLine
  <2> QED BY <2>2, <2>3 DEF WholeAt
<1> QED BY <1>0, <1>2, <1>3, <1>4, <1>5 DEF s

(* The line of a record that is written after what was left in the buffer *)
(* begins a line, or the record is counted as glued.                      *)
LEMMA WrittenIsKept ==
    ASSUME NEW ps \in Seq(Pieces), NEW buffer \in Seq(Pieces), NoStart(buffer),
           NEW r \in Nat, NEW b \in SidecarNames
    PROVE  LET new == Append(buffer, Whole(r, b)) IN
           /\ new \in Seq(Pieces) /\ NoStart(new)
           /\ \A k \in DOMAIN new : (\E j \in DOMAIN buffer : new[k] = buffer[j]) \/ new[k] = Whole(r, b)
           /\ WholeAt(ps \o new, Len(ps \o new), r, b) \/ r \in GluedBy(ps, new)
<1> DEFINE w == Whole(r, b)
           new == Append(buffer, w)
           all == ps \o new
           m == Len(buffer)
<1>1. w \in Pieces /\ w.piece = "whole" /\ w.rec = r
  BY WholeIsPiece
<1> HIDE DEF w
<1>2. /\ new \in Seq(Pieces) /\ m \in Nat /\ Len(new) = m + 1 /\ new[m + 1] = w
      /\ \A i \in 1 .. m : new[i] = buffer[i]
      /\ DOMAIN buffer = 1 .. m /\ DOMAIN new = 1 .. m + 1
  BY <1>1, AppendProperties, LenProperties
<1> HIDE DEF new
<1>3. \A k \in DOMAIN new : (\E j \in DOMAIN buffer : new[k] = buffer[j]) \/ new[k] = w
  <2> TAKE k \in DOMAIN new
  <2>1. k = m + 1 \/ k \in 1 .. m
    BY <1>2
  <2> QED BY <1>2, <2>1
<1>4. NoStart(new)
  BY <1>1, <1>3 DEF NoStart
<1>5. Len(ps) \in Nat /\ DOMAIN ps = 1 .. Len(ps)
  BY LenProperties
<1>51. /\ all \in Seq(Pieces) /\ Len(all) = Len(ps) + Len(new)
       /\ \A i \in 1 .. Len(ps) + Len(new) : all[i] = IF i <= Len(ps) THEN ps[i] ELSE new[i - Len(ps)]
  BY <1>2, ConcatProperties
<1>52. DOMAIN all = 1 .. Len(all)
  BY <1>51, LenProperties
<1> HIDE DEF all, m
<1>53. /\ Len(all) = Len(ps) + m + 1 /\ DOMAIN all = 1 .. Len(ps) + m + 1
       /\ \A i \in 1 .. Len(ps) + m + 1 : all[i] = IF i <= Len(ps) THEN ps[i] ELSE new[i - Len(ps)]
  BY <1>2, <1>5, <1>51, <1>52
<1>6. all[Len(all)] = w /\ Len(all) \in DOMAIN all
  BY <1>2, <1>5, <1>53
<1>7. CASE m # 0
  <2>1. all[Len(all) - 1] = buffer[m] /\ m \in DOMAIN buffer
    BY <1>2, <1>5, <1>53, <1>7
  <2>2. BeginsLine(all, Len(all))
    BY <2>1 DEF BeginsLine, NoStart
  <2> QED BY <1>2, <1>3, <1>4, <1>6, <2>2 DEF WholeAt, w, new, all
<1>8. CASE m = 0 /\ Len(ps) = 0
  <2>1. BeginsLine(all, Len(all))
    BY <1>5, <1>53, <1>8 DEF BeginsLine
  <2> QED BY <1>2, <1>3, <1>4, <1>6, <2>1 DEF WholeAt, w, new, all
<1>9. CASE m = 0 /\ Len(ps) # 0
  <2>0. Len(ps) \in 1 .. Len(ps) /\ ps # <<>>
    BY <1>5, <1>9, EmptySeq
  <2>1. all[Len(all) - 1] = ps[Len(ps)] /\ ps[Len(ps)] \in Pieces /\ ps # <<>>
    BY <1>5, <1>53, <1>9, <2>0, ElementOfSeq
  <2>2. CASE ps[Len(ps)].piece # "start"
    <3>1. BeginsLine(all, Len(all))
      BY <2>1, <2>2 DEF BeginsLine
    <3> QED BY <1>2, <1>3, <1>4, <1>6, <3>1 DEF WholeAt, w, new, all
  <2>3. CASE ps[Len(ps)].piece = "start"
    <3>1. new[1] = w /\ new # <<>>
      <4>1. Len(new) = 1 /\ new[1] = w
        BY <1>2, <1>9
      <4> QED BY <4>1, <1>2, EmptySeq
    <3>2. [ps[Len(ps)] EXCEPT !.piece = "rest"].piece = "rest"
      BY <2>1 DEF Pieces
    <3>3. r \in GluedBy(ps, new)
      BY <1>1, <2>1, <2>3, <3>1, <3>2 DEF GluedBy, Unfinished, EndOf
    <3> QED BY <1>2, <1>3, <1>4, <3>3 DEF w, new
  <2> QED BY <2>2, <2>3
<1> QED BY <1>7, <1>8, <1>9

(* The pieces of a part of a buffer are pieces of the buffer. *)
LEMMA PartOfBuffer ==
    ASSUME NEW s \in Seq(Pieces), NEW m \in 1 .. Len(s) + 1, NEW n \in 0 .. Len(s)
    PROVE  /\ SubSeq(s, m, n) \in Seq(Pieces)
           /\ \A k \in DOMAIN SubSeq(s, m, n) : \E j \in DOMAIN s : SubSeq(s, m, n)[k] = s[j]
<1> DEFINE x == SubSeq(s, m, n)
<1>1. Len(s) \in Nat /\ DOMAIN s = 1 .. Len(s)
  BY LenProperties
<1>2. \A i \in m .. n : i \in DOMAIN s /\ s[i] \in Pieces
  BY <1>1, ElementOfSeq
<1>3. /\ x \in Seq(Pieces) /\ Len(x) = (IF m <= n THEN n - m + 1 ELSE 0)
      /\ \A i \in 1 .. n - m + 1 : x[i] = s[m + i - 1]
  BY <1>1, <1>2, SubSeqProperties
<1> HIDE DEF x
<1>4. DOMAIN x = 1 .. Len(x)
  BY <1>3, LenProperties
<1>5. ASSUME NEW k \in DOMAIN x PROVE \E j \in DOMAIN s : x[k] = s[j]
  <2>1. m + k - 1 \in DOMAIN s /\ x[k] = s[m + k - 1]
    BY <1>1, <1>3, <1>4
  <2> QED BY <2>1
<1> QED BY <1>3, <1>5 DEF x

(* A piece is of the line that the other one is of. *)
SameLine(p, q) == p.rec = q.rec /\ p.body = q.body

(* What a write that fails has written, and what it leaves, is of the lines *)
(* in the buffer; what it leaves does not begin in the middle of a new one. *)
LEMMA PartialParts ==
    ASSUME NEW buffer \in Seq(Pieces), NoStart(buffer), NEW w \in Partial(buffer)
    PROVE  /\ w.done \in Seq(Pieces) /\ w.rest \in Seq(Pieces) /\ NoStart(w.rest)
           /\ \A k \in DOMAIN w.done : \E j \in DOMAIN buffer : SameLine(w.done[k], buffer[j])
           /\ \A k \in DOMAIN w.rest : \E j \in DOMAIN buffer : SameLine(w.rest[k], buffer[j])
<1>1. Len(buffer) \in Nat /\ DOMAIN buffer = 1 .. Len(buffer)
  BY LenProperties
<1>2. CASE \E n \in 0 .. Len(buffer) - 1 :
             w = [done |-> SubSeq(buffer, 1, n), rest |-> SubSeq(buffer, n + 1, Len(buffer))]
  <2>1. PICK n \in 0 .. Len(buffer) - 1 :
               w = [done |-> SubSeq(buffer, 1, n), rest |-> SubSeq(buffer, n + 1, Len(buffer))]
    BY <1>2
  <2>2. w.done = SubSeq(buffer, 1, n) /\ w.rest = SubSeq(buffer, n + 1, Len(buffer))
    BY <2>1
  <2>3. w.done \in Seq(Pieces) /\ \A k \in DOMAIN w.done : \E j \in DOMAIN buffer : w.done[k] = buffer[j]
    BY <1>1, <2>2, PartOfBuffer
  <2>4. w.rest \in Seq(Pieces) /\ \A k \in DOMAIN w.rest : \E j \in DOMAIN buffer : w.rest[k] = buffer[j]
    BY <1>1, <2>2, PartOfBuffer
  <2> QED BY <2>3, <2>4 DEF NoStart, SameLine
<1>3. CASE \E n \in {k \in DOMAIN buffer : buffer[k].piece = "whole"} :
             w = [done |-> Append(SubSeq(buffer, 1, n - 1), StartOf(buffer[n])),
                  rest |-> <<[buffer[n] EXCEPT !.piece = "rest"]>> \o SubSeq(buffer, n + 1, Len(buffer))]
  <2>1. PICK n \in DOMAIN buffer :
             w = [done |-> Append(SubSeq(buffer, 1, n - 1), StartOf(buffer[n])),
                  rest |-> <<[buffer[n] EXCEPT !.piece = "rest"]>> \o SubSeq(buffer, n + 1, Len(buffer))]
    BY <1>3
  <2> DEFINE start == StartOf(buffer[n])
             rest == [buffer[n] EXCEPT !.piece = "rest"]
             before == SubSeq(buffer, 1, n - 1)
             after == SubSeq(buffer, n + 1, Len(buffer))
  <2>2. buffer[n] \in Pieces
    BY <1>1, ElementOfSeq
  <2>3. start \in Pieces /\ SameLine(start, buffer[n])
    BY <2>2 DEF StartOf, Pieces, SameLine
  <2>4. rest \in Pieces /\ SameLine(rest, buffer[n]) /\ rest.piece = "rest"
    BY <2>2 DEF Pieces, SameLine
  <2>0. /\ 1 \in 1 .. Len(buffer) + 1 /\ n - 1 \in 0 .. Len(buffer)
        /\ n + 1 \in 1 .. Len(buffer) + 1 /\ Len(buffer) \in 0 .. Len(buffer)
    BY <1>1
  <2>5. before \in Seq(Pieces) /\ \A k \in DOMAIN before : \E j \in DOMAIN buffer : before[k] = buffer[j]
    BY <2>0, PartOfBuffer
  <2>6. after \in Seq(Pieces) /\ \A k \in DOMAIN after : \E j \in DOMAIN buffer : after[k] = buffer[j]
    BY <2>0, PartOfBuffer
  <2>7. w.done = Append(before, start) /\ w.rest = <<rest>> \o after
    BY <2>1
  <2> HIDE DEF start, rest, before, after
  <2>8. <<start>> \in Seq(Pieces) /\ <<rest>> \in Seq(Pieces)
    BY <2>3, <2>4
  <2>8a. w.done = before \o <<start>>
    BY <2>3, <2>5, <2>7, AppendIsConcat
  <2>9. /\ w.done = before \o <<start>> /\ DOMAIN <<start>> = {1} /\ <<start>>[1] = start
        /\ DOMAIN <<rest>> = {1} /\ <<rest>>[1] = rest
    BY <2>8a
  <2>10. /\ w.done \in Seq(Pieces)
         /\ \A k \in DOMAIN w.done : (\E j \in DOMAIN buffer : w.done[k] = buffer[j]) \/ w.done[k] = start
    <3>1. /\ before \o <<start>> \in Seq(Pieces)
          /\ \A k \in DOMAIN (before \o <<start>>) :
               \/ \E i \in DOMAIN before : (before \o <<start>>)[k] = before[i]
               \/ \E j \in DOMAIN <<start>> : (before \o <<start>>)[k] = <<start>>[j]
      BY <2>5, <2>8, LongerKeeps
    <3>2. ASSUME NEW k \in DOMAIN w.done
          PROVE  (\E j \in DOMAIN buffer : w.done[k] = buffer[j]) \/ w.done[k] = start
      <4>1. (\E i \in DOMAIN before : w.done[k] = before[i]) \/ w.done[k] = start
        BY <2>9, <3>1
      <4> QED BY <2>5, <4>1
    <3> QED BY <2>9, <3>1, <3>2
  <2>11. /\ w.rest \in Seq(Pieces)
         /\ \A k \in DOMAIN w.rest : (\E j \in DOMAIN buffer : w.rest[k] = buffer[j]) \/ w.rest[k] = rest
    <3>1. /\ <<rest>> \o after \in Seq(Pieces)
          /\ \A k \in DOMAIN (<<rest>> \o after) :
               \/ \E i \in DOMAIN <<rest>> : (<<rest>> \o after)[k] = <<rest>>[i]
               \/ \E j \in DOMAIN after : (<<rest>> \o after)[k] = after[j]
      BY <2>6, <2>8, LongerKeeps
    <3>2. ASSUME NEW k \in DOMAIN w.rest
          PROVE  (\E j \in DOMAIN buffer : w.rest[k] = buffer[j]) \/ w.rest[k] = rest
      <4>1. (\E i \in DOMAIN after : w.rest[k] = after[i]) \/ w.rest[k] = rest
        BY <2>7, <2>9, <3>1
      <4> QED BY <2>6, <4>1
    <3> QED BY <2>7, <3>1, <3>2
  <2>12. NoStart(w.rest)
    BY <2>4, <2>11 DEF NoStart
  <2>13. ASSUME NEW k \in DOMAIN w.done PROVE \E j \in DOMAIN buffer : SameLine(w.done[k], buffer[j])
    BY <2>3, <2>10 DEF SameLine
  <2>14. ASSUME NEW k \in DOMAIN w.rest PROVE \E j \in DOMAIN buffer : SameLine(w.rest[k], buffer[j])
    BY <2>4, <2>11 DEF SameLine
  <2> QED BY <2>10, <2>11, <2>12, <2>13, <2>14
<1> QED BY <1>2, <1>3 DEF Partial

(* The records that are counted as glued are records. *)
LEMMA GluedAreRecords ==
    ASSUME NEW ps \in Seq(Pieces), NEW new \in Seq(Pieces)
    PROVE  GluedBy(ps, new) \subseteq Nat
<1>1. ASSUME new # <<>>, ps # <<>> PROVE EndOf(ps) \in Pieces /\ new[1] \in Pieces
  <2>1. Len(ps) \in Nat /\ Len(new) \in Nat /\ Len(ps) # 0 /\ Len(new) # 0
    BY <1>1, LenProperties, EmptySeq
  <2> QED BY <2>1, ElementOfSeq DEF EndOf
<1> QED BY <1>1 DEF GluedBy, Unfinished, Pieces

(* What a sidecar is referred to by can be resolved. *)
Refers(r, b) == r \in unpublished \/ b = NoBody \/ body[b] = "whole"

TraceTypes ==
    /\ pieces \in Seq(Pieces) /\ syncedTo \in 0 .. Len(pieces)
    /\ body \in [Bodies -> {"none", "whole", "spoiled"}]
    /\ onDisk \subseteq Bodies /\ named \subseteq Bodies /\ traceNamed \in BOOLEAN
    /\ tracer \in [Tracers -> TracerRecords]
    /\ sure \subseteq Nat /\ glued \subseteq Nat /\ unpublished \subseteq Nat
    /\ records \in 0 .. MaxRecords /\ failures \in 0 .. MaxFailures /\ losses \in Nat

(* The line of the record was written, and perhaps synced. *)
IsWritten(r, b) == r \in glued \/ \E i \in DOMAIN pieces : WholeAt(pieces, i, r, b)

IsSynced(r, b) == r \in glued \/ \E i \in 1 .. syncedTo : WholeAt(pieces, i, r, b)

(* What a writer knows of the record it is about. *)
TracerHolds(q) ==
    /\ NoStart(q.held)
    /\ q.at \in {"publish", "name"} => q.body \in Bodies
    /\ q.good = TRUE /\ q.at \in {"name", "write", "sync", "names"} => q.body = NoBody \/ q.body \in onDisk
    /\ q.at = "sync" => IsWritten(q.rec, q.body)
    /\ q.at = "names" => IsSynced(q.rec, q.body)
    /\ losses = 0 => /\ \A k \in DOMAIN q.held : Refers(q.held[k].rec, q.held[k].body)
                     /\ q.at \in {"name", "write"} => Refers(q.rec, q.body)

(* The record is on the disk with its sidecar, under their names. *)
Lasts(r) ==
    /\ traceNamed = TRUE
    /\ \E i \in 1 .. syncedTo, b \in SidecarNames :
         WholeAt(pieces, i, r, b) /\ (b = NoBody \/ (b \in onDisk /\ b \in named))

DiskIsTrue ==
    /\ \A b \in onDisk : body[b] = "whole"
    /\ \A b \in named : body[b] # "none"

NothingSpoiled ==
    losses = 0 => /\ \A b \in Bodies : body[b] # "spoiled"
                  /\ \A i \in DOMAIN pieces : Refers(pieces[i].rec, pieces[i].body)

(* The inductive invariant of the trace. *)
TraceIInv ==
    /\ TraceTypes
    /\ \A t \in Tracers : TracerHolds(tracer[t])
    /\ DiskIsTrue
    /\ \A r \in sure \ glued : Lasts(r)
    /\ NothingSpoiled

(* While the power is on, files and names are only added. *)
FileGrows(new) ==
    /\ pieces' = pieces \o new
    /\ syncedTo' \in Nat /\ syncedTo <= syncedTo' /\ syncedTo' <= Len(pieces')
    /\ body' \in [Bodies -> {"none", "whole", "spoiled"}]
    /\ \A b \in Bodies : /\ body[b] = "whole" => body'[b] = "whole"
                         /\ body[b] # "none" => body'[b] # "none"
                         /\ losses = 0 => body'[b] # "spoiled"
    /\ onDisk \subseteq onDisk' /\ onDisk' \subseteq Bodies /\ \A b \in onDisk' : body'[b] = "whole"
    /\ named \subseteq named' /\ named' \subseteq Bodies /\ \A b \in named' : body'[b] # "none"
    /\ traceNamed' \in BOOLEAN /\ (traceNamed = TRUE => traceNamed' = TRUE)
    /\ glued \subseteq glued' /\ glued' \subseteq Nat
    /\ unpublished \subseteq unpublished' /\ unpublished' \subseteq Nat
    /\ records' \in 0 .. MaxRecords /\ failures' \in 0 .. MaxFailures /\ losses' = losses
    /\ losses = 0 => \A k \in DOMAIN new :
         new[k].rec \in unpublished' \/ new[k].body = NoBody \/ body'[new[k].body] = "whole"

(* What grows keeps what writers know, what lasts and what can be resolved. *)
LEMMA GrowthKeeps ==
    ASSUME TraceIInv, NEW new \in Seq(Pieces), FileGrows(new)
    PROVE  /\ \A q \in TracerRecords : TracerHolds(q) => TracerHolds(q)'
           /\ \A r \in Nat : Lasts(r) => Lasts(r)'
           /\ NothingSpoiled' /\ DiskIsTrue'
           /\ pieces' \in Seq(Pieces) /\ syncedTo' \in 0 .. Len(pieces')
<1>1. pieces \in Seq(Pieces) /\ syncedTo \in 0 .. Len(pieces) /\ Len(pieces) \in Nat
  BY LenProperties DEF TraceIInv, TraceTypes
<1>2a. pieces' = pieces \o new
  BY DEF FileGrows
<1>2b. /\ pieces \o new \in Seq(Pieces) /\ DOMAIN pieces = 1 .. Len(pieces)
       /\ Len(new) \in Nat /\ Len(pieces \o new) = Len(pieces) + Len(new)
       /\ DOMAIN (pieces \o new) = 1 .. Len(pieces) + Len(new)
       /\ \A i \in DOMAIN pieces : \A r, b : WholeAt(pieces, i, r, b) => WholeAt(pieces \o new, i, r, b)
       /\ \A k \in DOMAIN (pieces \o new) :
            \/ \E i \in DOMAIN pieces : (pieces \o new)[k] = pieces[i]
            \/ \E j \in DOMAIN new : (pieces \o new)[k] = new[j]
  BY <1>1, LongerKeeps
<1>2. /\ pieces' \in Seq(Pieces) /\ DOMAIN pieces = 1 .. Len(pieces)
      /\ Len(new) \in Nat /\ Len(pieces') = Len(pieces) + Len(new)
      /\ DOMAIN pieces' = 1 .. Len(pieces) + Len(new)
      /\ \A i \in DOMAIN pieces : \A r, b : WholeAt(pieces, i, r, b) => WholeAt(pieces', i, r, b)
      /\ \A k \in DOMAIN pieces' :
           (\E i \in DOMAIN pieces : pieces'[k] = pieces[i]) \/ (\E j \in DOMAIN new : pieces'[k] = new[j])
  BY <1>2a, <1>2b
<1>3. \A i \in 1 .. syncedTo : i \in 1 .. syncedTo' /\ i \in DOMAIN pieces
  BY <1>1, <1>2 DEF FileGrows
<1>4. \A i \in DOMAIN pieces : i \in DOMAIN pieces'
  BY <1>2
<1>5. \A r \in Nat, b \in SidecarNames : losses = 0 /\ Refers(r, b) =>
         r \in unpublished' \/ b = NoBody \/ body'[b] = "whole"
  BY DEF FileGrows, Refers, SidecarNames
<1>6. ASSUME NEW q \in TracerRecords, TracerHolds(q)
      PROVE  TracerHolds(q)'
  <2>1. q.rec \in Nat /\ q.body \in SidecarNames /\ q.held \in Seq(Pieces)
    BY DEF TracerRecords
  <2>2. IsWritten(q.rec, q.body) => IsWritten(q.rec, q.body)'
    BY <1>2, <1>4 DEF IsWritten, FileGrows
  <2>3. IsSynced(q.rec, q.body) => IsSynced(q.rec, q.body)'
    BY <1>2, <1>3 DEF IsSynced, FileGrows
  <2>4. \A k \in DOMAIN q.held : q.held[k].rec \in Nat /\ q.held[k].body \in SidecarNames
    <3>1. \A k \in DOMAIN q.held : q.held[k] \in Pieces
      BY <2>1, ElementOfSeq, LenProperties
    <3> QED BY <3>1 DEF Pieces
  <2>5. losses' = 0 => /\ \A k \in DOMAIN q.held : Refers(q.held[k].rec, q.held[k].body)'
                       /\ q.at \in {"name", "write"} => Refers(q.rec, q.body)'
    BY <1>5, <1>6, <2>1, <2>4 DEF TracerHolds, Refers, FileGrows
  <2>6. /\ NoStart(q.held) /\ (q.at \in {"publish", "name"} => q.body \in Bodies)
        /\ q.good = TRUE /\ q.at \in {"name", "write", "sync", "names"} =>
             q.body = NoBody \/ q.body \in onDisk'
    BY <1>6 DEF TracerHolds, FileGrows
  <2> QED BY <1>6, <2>2, <2>3, <2>5, <2>6 DEF TracerHolds
<1>7. ASSUME NEW r \in Nat, Lasts(r)
      PROVE  Lasts(r)'
  <2>1. PICK i \in 1 .. syncedTo, b \in SidecarNames :
             WholeAt(pieces, i, r, b) /\ (b = NoBody \/ (b \in onDisk /\ b \in named))
    BY <1>7 DEF Lasts
  <2>2. i \in 1 .. syncedTo' /\ WholeAt(pieces', i, r, b)
    BY <1>2, <1>3, <2>1
  <2>3. b = NoBody \/ (b \in onDisk' /\ b \in named')
    BY <2>1 DEF FileGrows
  <2>4. traceNamed' = TRUE
    BY <1>7 DEF Lasts, FileGrows
  <2> QED BY <2>2, <2>3, <2>4 DEF Lasts
<1>8. ASSUME losses' = 0 PROVE (\A k \in DOMAIN pieces : Refers(pieces[k].rec, pieces[k].body))'
  <2> SUFFICES ASSUME NEW k \in DOMAIN pieces'
               PROVE  pieces'[k].rec \in unpublished' \/ pieces'[k].body = NoBody \/ body'[pieces'[k].body] = "whole"
    BY DEF Refers
  <2>1. losses = 0
    BY <1>8 DEF FileGrows
  <2>2. CASE \E j \in DOMAIN new : pieces'[k] = new[j]
    BY <2>1, <2>2 DEF FileGrows
  <2>3. CASE \E i \in DOMAIN pieces : pieces'[k] = pieces[i]
    <3>1. PICK i \in DOMAIN pieces : pieces'[k] = pieces[i]
      BY <2>3
    <3>2. pieces[i].rec \in Nat /\ pieces[i].body \in SidecarNames
      <4>1. pieces[i] \in Pieces
        BY <1>1, <1>2, ElementOfSeq
      <4> QED BY <4>1 DEF Pieces
    <3>3. Refers(pieces[i].rec, pieces[i].body)
      BY <2>1 DEF TraceIInv, NothingSpoiled
    <3> QED BY <1>5, <2>1, <3>1, <3>2, <3>3
  <2> QED BY <1>2, <2>2, <2>3
<1>9. losses' = 0 => \A b \in Bodies : body'[b] # "spoiled"
  BY DEF FileGrows
<1>10. DiskIsTrue' /\ syncedTo' \in 0 .. Len(pieces')
  BY DEF FileGrows, DiskIsTrue
<1> QED BY <1>2, <1>6, <1>7, <1>8, <1>9, <1>10 DEF NothingSpoiled

(* A step of one writer, to a record that tells what it knows. *)
LEMMA TracerMoves ==
    ASSUME TraceIInv, NEW new \in Seq(Pieces), FileGrows(new),
           NEW t \in Tracers, NEW q \in TracerRecords, Moves(t, q), TracerHolds(q)',
           sure' \subseteq Nat, \A r \in sure' : r \in sure \/ r \in glued' \/ Lasts(r)'
    PROVE  TraceIInv'
<1>1. tracer' = [tracer EXCEPT ![t] = q] /\ tracer \in [Tracers -> TracerRecords]
  BY DEF Moves, TraceIInv, TraceTypes
<1>2. tracer' \in [Tracers -> TracerRecords] /\ tracer'[t] = q /\ \A s \in Tracers \ {t} : tracer'[s] = tracer[s]
  BY <1>1
<1>3. TraceTypes'
  BY <1>2, GrowthKeeps DEF FileGrows, TraceTypes, TraceIInv
<1>4. \A s \in Tracers : TracerHolds(tracer[s])'
  <2> SUFFICES ASSUME NEW s \in Tracers PROVE TracerHolds(tracer[s])'
    OBVIOUS
  <2>1. PICK p \in TracerRecords : p = tracer[s]
    BY <1>1
  <2>2. TracerHolds(p)
    BY <2>1 DEF TraceIInv
  <2>3. TracerHolds(p)'
    BY <2>2, GrowthKeeps
  <2>4. CASE s = t
    BY <1>2, <2>4 DEF TracerHolds, IsWritten, IsSynced, Refers
  <2>5. CASE s # t
    <3>1. tracer'[s] = p
      BY <1>2, <2>1, <2>5
    <3> QED BY <2>3, <3>1 DEF TracerHolds, IsWritten, IsSynced, Refers
  <2> QED BY <2>4, <2>5
<1>5. \A r \in sure' \ glued' : Lasts(r)'
  <2> SUFFICES ASSUME NEW r \in Nat, r \in sure, r \notin glued' PROVE Lasts(r)'
    OBVIOUS
  <2>1. r \in sure \ glued
    BY DEF FileGrows
  <2> QED BY <2>1, GrowthKeeps DEF TraceIInv
<1> QED BY <1>3, <1>4, <1>5, GrowthKeeps DEF TraceIInv

(* A step in which nothing is written. *)
LEMMA NothingWritten ==
    ASSUME TraceIInv, UNCHANGED <<pieces, syncedTo, body, onDisk, glued, losses>>,
           unpublished \subseteq unpublished', unpublished' \subseteq Nat,
           named \subseteq named', named' \subseteq Bodies, \A b \in named' : body[b] # "none",
           traceNamed' \in BOOLEAN, traceNamed = TRUE => traceNamed' = TRUE,
           records' \in 0 .. MaxRecords, failures' \in 0 .. MaxFailures
    PROVE  FileGrows(<<>>) /\ <<>> \in Seq(Pieces)
<1>1. pieces \in Seq(Pieces) /\ syncedTo \in 0 .. Len(pieces) /\ Len(pieces) \in Nat
  BY LenProperties DEF TraceIInv, TraceTypes
<1>2. pieces' = pieces \o <<>> /\ <<>> \in Seq(Pieces) /\ DOMAIN <<>> = {}
  BY <1>1, ConcatEmptySeq
<1>3. syncedTo' \in Nat /\ syncedTo <= syncedTo' /\ syncedTo' <= Len(pieces')
  BY <1>1
<1>4. /\ body' \in [Bodies -> {"none", "whole", "spoiled"}] /\ onDisk' \subseteq Bodies /\ glued' \subseteq Nat
      /\ \A b \in Bodies : losses = 0 => body'[b] # "spoiled"
      /\ \A b \in onDisk' : body'[b] = "whole"
  BY DEF TraceIInv, TraceTypes, DiskIsTrue, NothingSpoiled
<1> QED BY <1>2, <1>3, <1>4 DEF FileGrows

(* fsync of the directory. *)
LEMMA NamesAreSynced ==
    ASSUME TraceIInv, NEW ok \in BOOLEAN, NamesSynced(ok)
    PROVE  /\ named \subseteq named' /\ named' \subseteq Bodies /\ \A b \in named' : body[b] # "none"
           /\ traceNamed' \in BOOLEAN /\ (traceNamed = TRUE => traceNamed' = TRUE)
           /\ ok = TRUE => traceNamed' = TRUE /\ onDisk \subseteq named'
<1>1. /\ named \subseteq Bodies /\ onDisk \subseteq Bodies /\ traceNamed \in BOOLEAN
      /\ \A b \in named : body[b] # "none"
      /\ \A b \in onDisk : body[b] = "whole"
  BY DEF TraceIInv, TraceTypes, DiskIsTrue
<1>2. traceNamed' \in BOOLEAN /\ (traceNamed = TRUE => traceNamed' = TRUE) /\ (ok = TRUE => traceNamed' = TRUE)
  BY <1>1, Zenon DEF NamesSynced
<1>3. CASE ok = TRUE
  BY <1>1, <1>2, <1>3 DEF NamesSynced
<1>4. CASE ok = FALSE
  BY <1>1, <1>2, <1>4 DEF NamesSynced
<1> QED BY <1>3, <1>4

(* Failures stay within their bound. *)
LEMMA FailuresCount == TraceIInv /\ Fails => failures' \in 0 .. MaxFailures
BY TraceAssumption DEF Fails, TraceIInv, TraceTypes

(* A step that is tried, and what it leaves: the writer is at the next step,   *)
(* and its record is good only if nothing failed.                              *)
Tries(t, step, ok) == Tried(t, [tracer[t] EXCEPT !.at = step], ok)

LeavesAt(q, t, step, ok) ==
    /\ q \in TracerRecords /\ Moves(t, q) /\ q.at = step
    /\ q.rec = tracer[t].rec /\ q.body = tracer[t].body /\ q.held = tracer[t].held
    /\ q.good = TRUE => tracer[t].good = TRUE /\ ok = TRUE
    /\ failures' \in 0 .. MaxFailures

LEMMA TriedRecord ==
    ASSUME TraceIInv, NEW t \in Tracers, NEW step \in TracerStates, NEW ok \in BOOLEAN, Tries(t, step, ok)
    PROVE  \E q \in TracerRecords : LeavesAt(q, t, step, ok)
<1> PICK q : q = tracer'[t]
  OBVIOUS
<1> PICK x : x = [tracer[t] EXCEPT !.at = step]
  OBVIOUS
<1>0. tracer \in [Tracers -> TracerRecords]
  BY DEF TraceIInv, TraceTypes
<1>1. PICK p \in TracerRecords : p = tracer[t]
  BY <1>0
<1>2. x \in TracerRecords /\ x.at = step /\ x.rec = p.rec /\ x.body = p.body /\ x.held = p.held /\ x.good = p.good
  BY <1>1 DEF TracerRecords
<1>3. p.good \in BOOLEAN
  BY DEF TracerRecords
<1>4. PICK g \in BOOLEAN : g = (x.good /\ ok)
  BY Zenon
<1>5. tracer' = [tracer EXCEPT ![t] = [x EXCEPT !.good = g]]
  BY <1>4 DEF Tries, Tried, Moves
<1>6. q = [x EXCEPT !.good = g]
  BY <1>0, <1>5
<1>7. q \in TracerRecords /\ q.at = x.at /\ q.rec = x.rec /\ q.body = x.body /\ q.held = x.held /\ q.good = g
  BY <1>2, <1>6 DEF TracerRecords
<1>8. Moves(t, q)
  BY <1>5, <1>6 DEF Moves
<1>9. g = TRUE => p.good = TRUE /\ ok = TRUE
  BY <1>2, <1>3, <1>4, Zenon
<1>10. failures' \in 0 .. MaxFailures
  BY FailuresCount DEF Tries, Tried, TraceIInv, TraceTypes
<1> QED BY <1>1, <1>2, <1>7, <1>8, <1>9, <1>10 DEF LeavesAt

(* A handle is opened. *)
LEMMA OpenStep == ASSUME TraceIInv, NEW t \in Tracers, Open(t) PROVE TraceIInv'
<1>1. tracer[t] \in TracerRecords /\ TracerHolds(tracer[t])
  BY DEF TraceIInv, TraceTypes
<1>2. PICK q \in TracerRecords : Moves(t, q) /\ q.at = "open" /\ q.held = tracer[t].held
  BY <1>1 DEF Open, TurnsTo, TracerRecords, TracerStates
<1>3. PICK ok \in BOOLEAN : NamesSynced(ok)
  BY DEF Open
<1>4. UNCHANGED <<pieces, syncedTo, body, onDisk, sure, glued, unpublished, records, failures, losses>>
  BY DEF Open, bounds
<1>5. FileGrows(<<>>) /\ <<>> \in Seq(Pieces)
  BY <1>3, <1>4, NamesAreSynced, NothingWritten DEF TraceIInv, TraceTypes
<1>6. TracerHolds(q)
  BY <1>1, <1>2 DEF TracerHolds
<1>7. TracerHolds(q)'
  BY <1>5, <1>6, GrowthKeeps
<1> QED BY <1>2, <1>4, <1>5, <1>7, TracerMoves DEF TraceIInv, TraceTypes

(* append: a small record or a large one. *)
LEMMA AppendStep ==
    ASSUME TraceIInv, NEW t \in Tracers, NEW large \in BOOLEAN, AppendRecord(t, large) PROVE TraceIInv'
<1>0. records \in 0 .. MaxRecords /\ records < MaxRecords /\ records' = records + 1
  BY DEF AppendRecord, TraceIInv, TraceTypes
<1>1. PICK r \in Nat : r = records' /\ r \in 0 .. MaxRecords
  BY <1>0, TraceAssumption
<1>2. PICK step \in {"look", "write"} : step = IF large THEN "look" ELSE "write"
  OBVIOUS
<1>3. tracer[t] \in TracerRecords /\ TracerHolds(tracer[t])
  BY DEF TraceIInv, TraceTypes
<1>4. PICK q : q = [tracer[t] EXCEPT !.at = step, !.rec = r, !.body = NoBody, !.good = TRUE]
  OBVIOUS
<1>5. Moves(t, q)
  BY <1>1, <1>2, <1>4 DEF AppendRecord
<1>6. q \in TracerRecords /\ q.at = step /\ q.held = tracer[t].held /\ q.body = NoBody
  BY <1>3, <1>4 DEF TracerRecords, TracerStates, SidecarNames
<1>7. UNCHANGED <<pieces, syncedTo, body, onDisk, named, traceNamed, sure, glued, unpublished, failures, losses>>
  BY DEF AppendRecord, disk
<1>8. FileGrows(<<>>) /\ <<>> \in Seq(Pieces)
  BY <1>1, <1>7, NothingWritten DEF TraceIInv, TraceTypes, DiskIsTrue
<1>9. TracerHolds(q)
  BY <1>3, <1>6 DEF TracerHolds, Refers
<1>10. TracerHolds(q)'
  BY <1>6, <1>8, <1>9, GrowthKeeps
<1> QED BY <1>5, <1>6, <1>7, <1>8, <1>10, TracerMoves DEF TraceIInv, TraceTypes

(* A large record looks for its sidecar. *)
LEMMA LookStep == ASSUME TraceIInv, NEW t \in Tracers, LookForSidecar(t) PROVE TraceIInv'
<1>1. tracer[t] \in TracerRecords /\ TracerHolds(tracer[t]) /\ 0 \in Bodies
  BY TraceAssumption DEF TraceIInv, TraceTypes, Bodies
<1>2. RandomName \in Bodies
  BY DEF LookForSidecar, RandomName
<1>3. UNCHANGED <<pieces, syncedTo, body, onDisk, named, traceNamed, sure, glued, unpublished, records, losses>>
  BY DEF LookForSidecar, disk
<1>4. failures' \in 0 .. MaxFailures
  BY FailuresCount DEF LookForSidecar, TraceIInv, TraceTypes
<1>5. FileGrows(<<>>) /\ <<>> \in Seq(Pieces)
  BY <1>3, <1>4, NothingWritten DEF TraceIInv, TraceTypes, DiskIsTrue
<1>6. \/ body[0] = "whole" /\ Moves(t, [tracer[t] EXCEPT !.at = "write", !.body = 0, !.good = 0 \in onDisk])
      \/ \E b \in Bodies : Moves(t, [tracer[t] EXCEPT !.at = "publish", !.body = b])
  BY <1>1, <1>2 DEF LookForSidecar, LookForBytes
<1>7. CASE body[0] = "whole" /\ Moves(t, [tracer[t] EXCEPT !.at = "write", !.body = 0, !.good = 0 \in onDisk])
  <2>0. PICK g \in BOOLEAN : g = (0 \in onDisk)
    <3>1. (0 \in onDisk) = TRUE \/ (0 \in onDisk) = FALSE
      OBVIOUS
    <3> QED BY <3>1
  <2>1. PICK q : q = [tracer[t] EXCEPT !.at = "write", !.body = 0, !.good = g]
    OBVIOUS
  <2>2. /\ q \in TracerRecords /\ q.at = "write" /\ q.held = tracer[t].held /\ q.body = 0
        /\ q.good = g
    BY <1>1, <2>1 DEF TracerRecords, TracerStates, SidecarNames
  <2>3. TracerHolds(q)
    BY <1>1, <1>7, <2>0, <2>2 DEF TracerHolds, Refers
  <2>4. TracerHolds(q)' /\ Moves(t, q)
    BY <1>5, <1>7, <2>0, <2>1, <2>2, <2>3, GrowthKeeps
  <2> QED BY <1>3, <1>5, <2>2, <2>4, TracerMoves DEF TraceIInv, TraceTypes
<1>8. CASE \E b \in Bodies : Moves(t, [tracer[t] EXCEPT !.at = "publish", !.body = b])
  <2>1. PICK b \in Bodies : Moves(t, [tracer[t] EXCEPT !.at = "publish", !.body = b])
    BY <1>8
  <2>2. PICK q : q = [tracer[t] EXCEPT !.at = "publish", !.body = b]
    OBVIOUS
  <2>3. q \in TracerRecords /\ q.at = "publish" /\ q.held = tracer[t].held /\ q.body = b
    BY <1>1, <2>2 DEF TracerRecords, TracerStates, SidecarNames
  <2>4. TracerHolds(q)
    BY <1>1, <2>3 DEF TracerHolds
  <2>5. TracerHolds(q)' /\ Moves(t, q)
    BY <1>5, <2>1, <2>2, <2>3, <2>4, GrowthKeeps
  <2> QED BY <1>3, <1>5, <2>3, <2>5, TracerMoves DEF TraceIInv, TraceTypes
<1> QED BY <1>6, <1>7, <1>8

(* The sidecar is linked to its name, unless it is there. *)
LEMMA PublishStep ==
    ASSUME TraceIInv, NEW t \in Tracers, NEW synced \in BOOLEAN, PublishSidecar(t, synced) PROVE TraceIInv'
<1>1. tracer[t] \in TracerRecords /\ TracerHolds(tracer[t]) /\ tracer[t].at = "publish"
  BY DEF TraceIInv, TraceTypes, PublishSidecar
<1>2. PICK b \in Bodies : b = tracer[t].body
  BY <1>1 DEF TracerHolds
<1>3. UNCHANGED <<pieces, syncedTo, named, traceNamed, sure, glued, unpublished, records, losses>>
  BY DEF PublishSidecar
<1>4. CASE body[b] # "none"
  <2>1. UNCHANGED <<body, onDisk, failures>> /\ Moves(t, [tracer[t] EXCEPT !.at = "write", !.good = b \in onDisk])
    BY <1>2, <1>4 DEF PublishSidecar
  <2>2. FileGrows(<<>>) /\ <<>> \in Seq(Pieces)
    BY <1>3, <2>1, NothingWritten DEF TraceIInv, TraceTypes, DiskIsTrue
  <2>3. PICK g \in BOOLEAN : g = (b \in onDisk)
    <3>1. (b \in onDisk) = TRUE \/ (b \in onDisk) = FALSE
      OBVIOUS
    <3> QED BY <3>1
  <2>4. PICK q : q = [tracer[t] EXCEPT !.at = "write", !.good = g]
    OBVIOUS
  <2>5. /\ q \in TracerRecords /\ q.at = "write" /\ q.held = tracer[t].held /\ q.body = b
        /\ q.good = g
    BY <1>1, <1>2, <2>4 DEF TracerRecords, TracerStates, SidecarNames
  <2>6. losses = 0 => body[b] = "whole"
    BY <1>4 DEF TraceIInv, TraceTypes, NothingSpoiled
  <2>7. TracerHolds(q)
    BY <1>1, <2>3, <2>5, <2>6 DEF TracerHolds, Refers
  <2>8. TracerHolds(q)' /\ Moves(t, q)
    BY <2>1, <2>2, <2>3, <2>4, <2>5, <2>7, GrowthKeeps
  <2> QED BY <1>3, <2>1, <2>2, <2>5, <2>8, TracerMoves DEF TraceIInv, TraceTypes
<1>5. CASE body[b] = "none"
  <2>1. /\ body' = [body EXCEPT ![b] = "whole"]
        /\ onDisk' = IF synced THEN onDisk \cup {b} ELSE onDisk
        /\ Tries(t, "name", synced)
    BY <1>2, <1>5 DEF PublishSidecar, Tries
  <2>2. "name" \in TracerStates
    BY DEF TracerStates
  <2>3. PICK q \in TracerRecords : LeavesAt(q, t, "name", synced)
    BY <2>1, <2>2, TriedRecord
  <2>4. /\ q \in TracerRecords /\ Moves(t, q) /\ q.at = "name"
        /\ q.rec = tracer[t].rec /\ q.body = tracer[t].body /\ q.held = tracer[t].held
        /\ (q.good = TRUE => tracer[t].good = TRUE /\ synced = TRUE) /\ failures' \in 0 .. MaxFailures
    BY <2>3 DEF LeavesAt
  <2>5. failures' \in 0 .. MaxFailures /\ q.body = b
    BY <1>2, <2>4
  <2>6. body \in [Bodies -> {"none", "whole", "spoiled"}] /\ onDisk \subseteq Bodies
    BY DEF TraceIInv, TraceTypes
  <2>7. /\ body' \in [Bodies -> {"none", "whole", "spoiled"}] /\ body'[b] = "whole"
        /\ \A c \in Bodies \ {b} : body'[c] = body[c]
    BY <2>1, <2>6
  <2>8. onDisk \subseteq onDisk' /\ onDisk' \subseteq onDisk \cup {b} /\ (synced = TRUE => b \in onDisk')
    BY <2>1
  <2>9. /\ \A c \in onDisk' : body'[c] = "whole"
        /\ \A c \in named' : body'[c] # "none"
        /\ \A c \in Bodies : /\ body[c] = "whole" => body'[c] = "whole"
                             /\ body[c] # "none" => body'[c] # "none"
                             /\ losses = 0 => body'[c] # "spoiled"
    BY <1>3, <1>5, <2>6, <2>7, <2>8 DEF TraceIInv, TraceTypes, DiskIsTrue, NothingSpoiled
  <2>10. pieces' = pieces \o <<>> /\ <<>> \in Seq(Pieces) /\ DOMAIN <<>> = {} /\ syncedTo' <= Len(pieces')
    BY <1>3, ConcatEmptySeq, LenProperties DEF TraceIInv, TraceTypes
  <2>11. FileGrows(<<>>)
    BY <1>3, <2>5, <2>6, <2>7, <2>8, <2>9, <2>10, LenProperties DEF FileGrows, TraceIInv, TraceTypes
  <2>12. PICK p \in TracerRecords : p = tracer[t]
    BY <1>1
  <2>13. TracerHolds(p)'
    BY <1>1, <2>10, <2>11, <2>12, GrowthKeeps
  <2>14. TracerHolds(q)'
    BY <2>4, <2>5, <2>7, <2>8, <2>12, <2>13 DEF TracerHolds, Refers
  <2> QED BY <1>3, <2>4, <2>5, <2>10, <2>11, <2>14, TracerMoves DEF TraceIInv, TraceTypes
<1> QED BY <1>4, <1>5

(* Neither link nor replace works. *)
LEMMA CannotPublishStep == ASSUME TraceIInv, NEW t \in Tracers, CannotPublish(t) PROVE TraceIInv'
<1>1. tracer[t] \in TracerRecords /\ TracerHolds(tracer[t]) /\ tracer[t].at = "publish"
  BY DEF TraceIInv, TraceTypes, CannotPublish
<1>2. "write" \in TracerStates /\ Tries(t, "write", FALSE)
  BY DEF TracerStates, CannotPublish, Tries
<1>0. PICK q \in TracerRecords : LeavesAt(q, t, "write", FALSE)
  BY <1>2, TriedRecord
<1>3. /\ q \in TracerRecords /\ Moves(t, q) /\ q.at = "write"
      /\ q.rec = tracer[t].rec /\ q.body = tracer[t].body /\ q.held = tracer[t].held
      /\ q.good # TRUE /\ failures' \in 0 .. MaxFailures
  BY <1>0 DEF LeavesAt
<1>4. failures' \in 0 .. MaxFailures
  BY <1>3
<1>5. /\ UNCHANGED <<pieces, syncedTo, body, onDisk, named, traceNamed, sure, glued, records, losses>>
      /\ unpublished' = unpublished \cup {tracer[t].rec}
  BY DEF CannotPublish, disk
<1>6. unpublished' \subseteq Nat /\ q.rec \in unpublished'
  BY <1>1, <1>3, <1>5 DEF TraceIInv, TraceTypes, TracerRecords
<1>7. FileGrows(<<>>) /\ <<>> \in Seq(Pieces)
  BY <1>4, <1>5, <1>6, NothingWritten DEF TraceIInv, TraceTypes, DiskIsTrue
<1>8. PICK p \in TracerRecords : p = tracer[t]
  BY <1>1
<1>9. TracerHolds(p)'
  BY <1>1, <1>7, <1>8, GrowthKeeps
<1>10. TracerHolds(q)'
  BY <1>3, <1>6, <1>8, <1>9 DEF TracerHolds, Refers
<1> QED BY <1>3, <1>5, <1>7, <1>10, TracerMoves DEF TraceIInv, TraceTypes

(* The temporary file of a sidecar cannot be written. *)
LEMMA SidecarFailsStep == ASSUME TraceIInv, NEW t \in Tracers, SidecarFails(t) PROVE TraceIInv'
<1>1. tracer[t] \in TracerRecords /\ TracerHolds(tracer[t])
  BY DEF TraceIInv, TraceTypes
<1>2. PICK q \in TracerRecords : Moves(t, q) /\ q.at = "open" /\ q.held = tracer[t].held
  BY <1>1 DEF SidecarFails, TurnsTo, TracerRecords, TracerStates
<1>3. UNCHANGED <<pieces, syncedTo, body, onDisk, named, traceNamed, sure, glued, unpublished, records, losses>>
  BY DEF SidecarFails, disk
<1>4. failures' \in 0 .. MaxFailures
  BY FailuresCount DEF SidecarFails
<1>5. FileGrows(<<>>) /\ <<>> \in Seq(Pieces)
  BY <1>3, <1>4, NothingWritten DEF TraceIInv, TraceTypes, DiskIsTrue
<1>6. TracerHolds(q)
  BY <1>1, <1>2 DEF TracerHolds
<1>7. TracerHolds(q)'
  BY <1>5, <1>6, GrowthKeeps
<1> QED BY <1>2, <1>3, <1>5, <1>7, TracerMoves DEF TraceIInv, TraceTypes

(* The directory is synced for the name of a sidecar. *)
LEMMA SyncSidecarNameStep ==
    ASSUME TraceIInv, NEW t \in Tracers, NEW ok \in BOOLEAN, SyncSidecarName(t, ok) PROVE TraceIInv'
<1>1. tracer[t] \in TracerRecords /\ TracerHolds(tracer[t]) /\ tracer[t].at = "name"
  BY DEF TraceIInv, TraceTypes, SyncSidecarName
<1>2. "write" \in TracerStates /\ Tries(t, "write", ok)
  BY DEF TracerStates, SyncSidecarName, Tries
<1>0. PICK q \in TracerRecords : LeavesAt(q, t, "write", ok)
  BY <1>2, TriedRecord
<1>3. /\ q \in TracerRecords /\ Moves(t, q) /\ q.at = "write"
      /\ q.rec = tracer[t].rec /\ q.body = tracer[t].body /\ q.held = tracer[t].held
      /\ (q.good = TRUE => tracer[t].good = TRUE /\ ok = TRUE) /\ failures' \in 0 .. MaxFailures
  BY <1>0 DEF LeavesAt
<1>4. failures' \in 0 .. MaxFailures
  BY <1>3
<1>5. /\ UNCHANGED <<pieces, syncedTo, body, onDisk, sure, glued, unpublished, records, losses>>
      /\ NamesSynced(ok)
  BY DEF SyncSidecarName
<1>6. FileGrows(<<>>) /\ <<>> \in Seq(Pieces)
  BY <1>4, <1>5, NothingWritten, NamesAreSynced DEF TraceIInv, TraceTypes
<1>7. TracerHolds(q)
  BY <1>1, <1>3 DEF TracerHolds
<1>8. TracerHolds(q)'
  BY <1>6, <1>7, GrowthKeeps
<1> QED BY <1>3, <1>5, <1>6, <1>8, TracerMoves DEF TraceIInv, TraceTypes

(* The directory is synced for the line: the record is sure if nothing failed. *)
LEMMA SyncNamesStep ==
    ASSUME TraceIInv, NEW t \in Tracers, NEW ok \in BOOLEAN, SyncNames(t, ok) PROVE TraceIInv'
<1>1. tracer[t] \in TracerRecords /\ TracerHolds(tracer[t]) /\ tracer[t].at = "names"
  BY DEF TraceIInv, TraceTypes, SyncNames
<1>2. "open" \in TracerStates /\ Tries(t, "open", ok)
  BY DEF TracerStates, SyncNames, Tries
<1>0. PICK q \in TracerRecords : LeavesAt(q, t, "open", ok)
  BY <1>2, TriedRecord
<1>3. /\ q \in TracerRecords /\ Moves(t, q) /\ q.at = "open"
      /\ q.rec = tracer[t].rec /\ q.body = tracer[t].body /\ q.held = tracer[t].held
      /\ (q.good = TRUE => tracer[t].good = TRUE /\ ok = TRUE) /\ failures' \in 0 .. MaxFailures
  BY <1>0 DEF LeavesAt
<1>4. failures' \in 0 .. MaxFailures
  BY <1>3
<1>5. /\ UNCHANGED <<pieces, syncedTo, body, onDisk, glued, unpublished, records, losses>>
      /\ NamesSynced(ok)
      /\ sure' = IF tracer[t].good /\ ok THEN sure \cup {tracer[t].rec} ELSE sure
  BY DEF SyncNames
<1>6. FileGrows(<<>>) /\ <<>> \in Seq(Pieces)
  BY <1>4, <1>5, NothingWritten, NamesAreSynced DEF TraceIInv, TraceTypes
<1>7. TracerHolds(q)
  BY <1>1, <1>3 DEF TracerHolds
<1>8. TracerHolds(q)'
  BY <1>6, <1>7, GrowthKeeps
<1>9. tracer[t].good = TRUE \/ tracer[t].good = FALSE
  BY <1>1 DEF TracerRecords
<1>10. CASE tracer[t].good = TRUE /\ ok = TRUE
  <2>1. PICK r \in Nat : r = tracer[t].rec
    BY <1>1 DEF TracerRecords
  <2>2. sure' = sure \cup {r}
    BY <1>5, <1>10, <2>1
  <2>3. tracer[t].body \in SidecarNames /\ (tracer[t].body = NoBody \/ tracer[t].body \in onDisk)
    BY <1>1, <1>10 DEF TracerHolds, TracerRecords
  <2>4. r \in glued' \/ Lasts(r)'
    <3>1. r \in glued \/ \E i \in 1 .. syncedTo : WholeAt(pieces, i, r, tracer[t].body)
      BY <1>1, <2>1 DEF TracerHolds, IsSynced
    <3>2. traceNamed' = TRUE /\ onDisk \subseteq named'
      BY <1>5, <1>10, NamesAreSynced
    <3>3. ASSUME NEW i \in 1 .. syncedTo, WholeAt(pieces, i, r, tracer[t].body) PROVE Lasts(r)'
      BY <1>5, <2>3, <3>2, <3>3 DEF Lasts
    <3> QED BY <1>5, <3>1, <3>3
  <2>5. sure' \subseteq Nat /\ \A s \in sure' : s \in sure \/ s \in glued' \/ Lasts(s)'
    <3>1. \A s \in sure' : s \in sure \/ s = r
      BY <2>2
    <3>2. sure' \subseteq Nat
      BY <2>2 DEF TraceIInv, TraceTypes
    <3>3. ASSUME NEW s, s = r PROVE s \in glued' \/ Lasts(s)'
      BY <2>4, <3>3
    <3> QED BY <3>1, <3>2, <3>3
  <2> QED BY <1>3, <1>6, <1>8, <2>5, TracerMoves
<1>11. CASE ~(tracer[t].good = TRUE /\ ok = TRUE)
  <2>1. sure' = sure
    BY <1>5, <1>9, <1>11
  <2> QED BY <1>3, <1>6, <1>8, <2>1, TracerMoves DEF TraceIInv, TraceTypes
<1> QED BY <1>10, <1>11

(* The trace is synced. *)
LEMMA SyncLineStep ==
    ASSUME TraceIInv, NEW t \in Tracers, NEW ok \in BOOLEAN, SyncLine(t, ok) PROVE TraceIInv'
<1>1. tracer[t] \in TracerRecords /\ TracerHolds(tracer[t]) /\ tracer[t].at = "sync"
  BY DEF TraceIInv, TraceTypes, SyncLine
<1>2. PICK step \in TracerStates : step = IF ok THEN "names" ELSE "open"
  BY DEF TracerStates
<1>3. Tries(t, step, ok)
  BY <1>2 DEF SyncLine, Tries
<1>0. PICK q \in TracerRecords : LeavesAt(q, t, step, ok)
  BY <1>3, TriedRecord
<1>4. /\ q \in TracerRecords /\ Moves(t, q) /\ q.at = step
      /\ q.rec = tracer[t].rec /\ q.body = tracer[t].body /\ q.held = tracer[t].held
      /\ (q.good = TRUE => tracer[t].good = TRUE /\ ok = TRUE) /\ failures' \in 0 .. MaxFailures
  BY <1>0 DEF LeavesAt
<1>5. failures' \in 0 .. MaxFailures
  BY <1>4
<1>6. /\ UNCHANGED <<pieces, body, onDisk, named, traceNamed, sure, glued, unpublished, records, losses>>
      /\ syncedTo' = IF ok THEN Len(pieces) ELSE syncedTo
  BY DEF SyncLine
<1>7. /\ pieces' = pieces \o <<>> /\ <<>> \in Seq(Pieces) /\ DOMAIN <<>> = {}
      /\ Len(pieces) \in Nat /\ syncedTo \in 0 .. Len(pieces) /\ DOMAIN pieces = 1 .. Len(pieces)
  BY <1>6, ConcatEmptySeq, LenProperties DEF TraceIInv, TraceTypes
<1>8. syncedTo' \in Nat /\ syncedTo <= syncedTo' /\ syncedTo' <= Len(pieces') /\ (ok = TRUE => syncedTo' = Len(pieces))
  <2>1. (ok = TRUE /\ syncedTo' = Len(pieces)) \/ (ok = FALSE /\ syncedTo' = syncedTo)
    BY <1>6
  <2>2. pieces' = pieces
    BY <1>6
  <2> QED BY <1>7, <2>1, <2>2
<1>9. FileGrows(<<>>)
  BY <1>5, <1>6, <1>7, <1>8 DEF FileGrows, TraceIInv, TraceTypes, DiskIsTrue, NothingSpoiled
<1>10. PICK p \in TracerRecords : p = tracer[t]
  BY <1>1
<1>11. TracerHolds(p)'
  BY <1>1, <1>7, <1>9, <1>10, GrowthKeeps
<1>12. step = "names" => IsSynced(q.rec, q.body)'
  <2>1. SUFFICES ASSUME ok = TRUE PROVE IsSynced(q.rec, q.body)'
    BY <1>2
  <2>2. IsWritten(tracer[t].rec, tracer[t].body)
    BY <1>1 DEF TracerHolds
  <2>3. pieces' = pieces /\ glued' = glued /\ syncedTo' = Len(pieces)
    BY <1>6, <1>8, <2>1
  <2> QED BY <1>4, <1>7, <2>2, <2>3 DEF IsWritten, IsSynced
<1>13. TracerHolds(q)'
  BY <1>1, <1>2, <1>4, <1>10, <1>11, <1>12 DEF TracerHolds
<1> QED BY <1>4, <1>6, <1>7, <1>9, <1>13, TracerMoves DEF TraceIInv, TraceTypes

(* What a handle writes next: the line that is about to be written is the last. *)
LEMMA BufferFacts ==
    ASSUME TraceIInv, NEW t \in Tracers, tracer[t].at = "write"
    PROVE  /\ Buffer(t) \in Seq(Pieces) /\ NoStart(Buffer(t))
           /\ WholeAt(pieces \o Buffer(t), Len(pieces \o Buffer(t)), tracer[t].rec, tracer[t].body)
                \/ tracer[t].rec \in GluedBy(pieces, Buffer(t))
           /\ losses = 0 => \A k \in DOMAIN Buffer(t) : Refers(Buffer(t)[k].rec, Buffer(t)[k].body)
<1>1. PICK q \in TracerRecords : q = tracer[t]
  BY DEF TraceIInv, TraceTypes
<1>2. TracerHolds(q) /\ q.at = "write" /\ pieces \in Seq(Pieces)
  BY <1>1 DEF TraceIInv, TraceTypes
<1>3. q.held \in Seq(Pieces) /\ NoStart(q.held) /\ q.rec \in Nat /\ q.body \in SidecarNames
  BY <1>2 DEF TracerHolds, TracerRecords
<1> DEFINE new == Append(q.held, Whole(q.rec, q.body))
<1>4. /\ new \in Seq(Pieces) /\ NoStart(new)
      /\ \A k \in DOMAIN new : (\E j \in DOMAIN q.held : new[k] = q.held[j]) \/ new[k] = Whole(q.rec, q.body)
      /\ WholeAt(pieces \o new, Len(pieces \o new), q.rec, q.body) \/ q.rec \in GluedBy(pieces, new)
  BY <1>2, <1>3, WrittenIsKept
<1>5. Buffer(t) = new
  BY <1>1 DEF Buffer
<1> HIDE DEF new
<1>6. ASSUME losses = 0, NEW k \in DOMAIN new PROVE Refers(new[k].rec, new[k].body)
  <2>1. CASE new[k] = Whole(q.rec, q.body)
    <3>1. new[k].rec = q.rec /\ new[k].body = q.body
      BY <1>3, <2>1, WholeIsPiece
    <3> QED BY <1>2, <1>6, <3>1 DEF TracerHolds
  <2>2. CASE \E j \in DOMAIN q.held : new[k] = q.held[j]
    BY <1>2, <1>6, <2>2 DEF TracerHolds
  <2> QED BY <1>4, <2>1, <2>2
<1> QED BY <1>1, <1>4, <1>5, <1>6

(* What is written of lines that can be resolved. *)
LEMMA LinesGrow ==
    ASSUME TraceIInv, NEW new \in Seq(Pieces), pieces' = pieces \o new, glued' = glued \cup GluedBy(pieces, new),
           losses = 0 => \A k \in DOMAIN new : Refers(new[k].rec, new[k].body),
           syncedTo' \in {syncedTo, Len(pieces)},
           UNCHANGED <<body, onDisk, named, traceNamed, unpublished, records, losses>>,
           failures' \in 0 .. MaxFailures
    PROVE  FileGrows(new)
<1>1. pieces \in Seq(Pieces) /\ syncedTo \in 0 .. Len(pieces) /\ Len(pieces) \in Nat
  BY LenProperties DEF TraceIInv, TraceTypes
<1>2. Len(pieces') = Len(pieces) + Len(new) /\ Len(new) \in Nat
  BY <1>1, LongerKeeps
<1>3. syncedTo' \in Nat /\ syncedTo <= syncedTo' /\ syncedTo' <= Len(pieces')
  BY <1>1, <1>2
<1>4. glued \subseteq glued' /\ glued' \subseteq Nat
  BY <1>1, GluedAreRecords DEF TraceIInv, TraceTypes
<1>5. losses = 0 => \A k \in DOMAIN new :
         new[k].rec \in unpublished' \/ new[k].body = NoBody \/ body'[new[k].body] = "whole"
  BY DEF Refers
<1> QED BY <1>3, <1>4, <1>5 DEF FileGrows, TraceIInv, TraceTypes, DiskIsTrue, NothingSpoiled

(* The line is written. *)
LEMMA WriteStep == ASSUME TraceIInv, NEW t \in Tracers, WriteLine(t) PROVE TraceIInv'
<1>1. tracer[t] \in TracerRecords /\ TracerHolds(tracer[t]) /\ tracer[t].at = "write"
  BY DEF TraceIInv, TraceTypes, WriteLine
<1>2. PICK new : new = Buffer(t)
  OBVIOUS
<1>3. /\ new \in Seq(Pieces)
      /\ WholeAt(pieces \o new, Len(pieces \o new), tracer[t].rec, tracer[t].body)
           \/ tracer[t].rec \in GluedBy(pieces, new)
      /\ losses = 0 => \A k \in DOMAIN new : Refers(new[k].rec, new[k].body)
  BY <1>1, <1>2, BufferFacts
<1>4. /\ pieces' = pieces \o new /\ glued' = glued \cup GluedBy(pieces, new)
      /\ Moves(t, [tracer[t] EXCEPT !.at = "sync", !.held = <<>>])
      /\ UNCHANGED <<syncedTo, onDisk, named, traceNamed, body, sure, unpublished, records, failures, losses>>
  BY <1>2 DEF WriteLine, disk, bounds
<1>5. FileGrows(new)
  BY <1>3, <1>4, LinesGrow DEF TraceIInv, TraceTypes
<1>6. PICK q : q = [tracer[t] EXCEPT !.at = "sync", !.held = <<>>]
  OBVIOUS
<1>6a. <<>> \in Seq(Pieces)
  BY EmptySeq
<1>7. /\ q \in TracerRecords /\ q.at = "sync" /\ q.held = <<>> /\ q.rec = tracer[t].rec /\ q.body = tracer[t].body
      /\ q.good = tracer[t].good
  BY <1>1, <1>6, <1>6a DEF TracerRecords, TracerStates
<1>8. IsWritten(q.rec, q.body)'
  <2>1. /\ pieces' \in Seq(Pieces) /\ DOMAIN pieces' = 1 .. Len(pieces')
    BY <1>3, <1>5, GrowthKeeps, LenProperties
  <2>2. WholeAt(pieces', Len(pieces'), q.rec, q.body) \/ q.rec \in glued'
    BY <1>3, <1>4, <1>7
  <2> QED BY <2>1, <2>2 DEF IsWritten, WholeAt
<1>9. TracerHolds(q)'
  BY <1>1, <1>4, <1>7, <1>8 DEF TracerHolds, NoStart
<1> QED BY <1>3, <1>4, <1>5, <1>6, <1>7, <1>9, TracerMoves DEF TraceIInv, TraceTypes

(* The write of the line fails. *)
LEMMA WriteFailsStep == ASSUME TraceIInv, NEW t \in Tracers, WriteFails(t) PROVE TraceIInv'
<1>1. tracer[t] \in TracerRecords /\ tracer[t].at = "write" /\ failures' \in 0 .. MaxFailures
  BY FailuresCount DEF TraceIInv, TraceTypes, WriteFails
<1>2. PICK buffer : buffer = Buffer(t)
  OBVIOUS
<1>3. PICK w \in Partial(buffer), keeps \in BOOLEAN :
         /\ pieces' = pieces \o w.done
         /\ glued' = glued \cup GluedBy(pieces, w.done)
         /\ Moves(t, [tracer[t] EXCEPT !.at = "open", !.held = IF keeps THEN w.rest ELSE <<>>])
  BY <1>2 DEF WriteFails
<1>4. UNCHANGED <<syncedTo, onDisk, named, traceNamed, body, sure, unpublished, records, losses>>
  BY DEF WriteFails, disk
<1>5. /\ buffer \in Seq(Pieces) /\ NoStart(buffer)
      /\ losses = 0 => \A k \in DOMAIN buffer : Refers(buffer[k].rec, buffer[k].body)
  BY <1>1, <1>2, BufferFacts
<1>6. /\ w.done \in Seq(Pieces) /\ w.rest \in Seq(Pieces) /\ NoStart(w.rest)
      /\ \A k \in DOMAIN w.done : \E j \in DOMAIN buffer : SameLine(w.done[k], buffer[j])
      /\ \A k \in DOMAIN w.rest : \E j \in DOMAIN buffer : SameLine(w.rest[k], buffer[j])
  BY <1>5, PartialParts
<1>7. losses = 0 => /\ \A k \in DOMAIN w.done : Refers(w.done[k].rec, w.done[k].body)
                    /\ \A k \in DOMAIN w.rest : Refers(w.rest[k].rec, w.rest[k].body)
  BY <1>5, <1>6 DEF SameLine
<1>8. FileGrows(w.done)
  BY <1>1, <1>3, <1>4, <1>6, <1>7, LinesGrow
<1>9. PICK left : left = IF keeps THEN w.rest ELSE <<>>
  OBVIOUS
<1>10. left = w.rest \/ left = <<>>
  BY <1>9
<1>11. /\ left \in Seq(Pieces) /\ NoStart(left)
       /\ losses = 0 => \A k \in DOMAIN left : Refers(left[k].rec, left[k].body)
  <2>1. CASE left = w.rest
    BY <1>6, <1>7, <2>1
  <2>2. CASE left = <<>>
    <3>1. left \in Seq(Pieces) /\ DOMAIN left = {}
      BY <2>2, EmptySeq
    <3> QED BY <3>1 DEF NoStart
  <2> QED BY <1>10, <2>1, <2>2
<1>12. PICK q : q = [tracer[t] EXCEPT !.at = "open", !.held = left]
  OBVIOUS
<1>13. q \in TracerRecords /\ q.at = "open" /\ q.held = left
  BY <1>1, <1>11, <1>12 DEF TracerRecords, TracerStates
<1>14. TracerHolds(q)
  BY <1>11, <1>13 DEF TracerHolds
<1>15. TracerHolds(q)'
  BY <1>6, <1>8, <1>13, <1>14, GrowthKeeps
<1> QED BY <1>3, <1>4, <1>6, <1>8, <1>9, <1>12, <1>13, <1>15, TracerMoves DEF TraceIInv, TraceTypes

(* A handle that is closed knows nothing. *)
LEMMA ClosedHolds == Closed \in TracerRecords /\ TracerHolds(Closed) /\ TracerHolds(Closed)'
<1>1. Closed \in TracerRecords
  BY DEF Closed, TracerRecords, TracerStates, SidecarNames
<1>2. /\ Closed.at = "closed" /\ Closed.held = <<>>
  BY DEF Closed
<1> HIDE DEF Closed
<1>3. NoStart(Closed.held) /\ DOMAIN Closed.held = {}
  BY <1>2 DEF NoStart
<1> QED BY <1>1, <1>2, <1>3 DEF TracerHolds

(* A handle is closed. *)
LEMMA CloseStep == ASSUME TraceIInv, NEW t \in Tracers, Close(t) PROVE TraceIInv'
<1>1. PICK left \in Seq(Pieces) : left = tracer[t].held
  BY DEF TraceIInv, TraceTypes, TracerRecords
<1>2. losses = 0 => \A k \in DOMAIN left : Refers(left[k].rec, left[k].body)
  BY <1>1 DEF TraceIInv, TracerHolds
<1>3. /\ Moves(t, Closed) /\ syncedTo' \in {syncedTo, Len(pieces)}
      /\ UNCHANGED <<onDisk, named, traceNamed, body, sure, unpublished, records, losses>>
      /\ failures' \in 0 .. MaxFailures
  BY FailuresCount DEF Close, TraceIInv, TraceTypes
<1>4. CASE pieces' = pieces \o left /\ glued' = glued \cup GluedBy(pieces, left)
  <2>1. FileGrows(left)
    BY <1>2, <1>3, <1>4, LinesGrow
  <2> QED BY <1>3, <2>1, ClosedHolds, TracerMoves DEF TraceIInv, TraceTypes
<1>5. CASE UNCHANGED <<pieces, glued>>
  <2>1. <<>> \in Seq(Pieces) /\ pieces' = pieces \o <<>> /\ DOMAIN <<>> = {}
    BY <1>5, ConcatEmptySeq DEF TraceIInv, TraceTypes
  <2>2. glued' = glued \cup GluedBy(pieces, <<>>)
    BY <1>5 DEF GluedBy
  <2>3. FileGrows(<<>>)
    BY <1>3, <2>1, <2>2, LinesGrow
  <2> QED BY <1>3, <2>1, <2>3, ClosedHolds, TracerMoves DEF TraceIInv, TraceTypes
<1> QED BY <1>1, <1>4, <1>5 DEF Close

(* The process of a writer ends. *)
LEMMA DeathStep == ASSUME TraceIInv, NEW t \in Tracers, TracerDies(t) PROVE TraceIInv'
<1>1. /\ Moves(t, Closed) /\ failures' \in 0 .. MaxFailures
      /\ UNCHANGED <<syncedTo, onDisk, named, traceNamed, body, sure, unpublished, records, losses>>
  BY FailuresCount DEF TracerDies, disk
<1>2. CASE UNCHANGED <<pieces, glued>>
  <2>1. <<>> \in Seq(Pieces) /\ pieces' = pieces \o <<>> /\ DOMAIN <<>> = {}
    BY <1>2, ConcatEmptySeq DEF TraceIInv, TraceTypes
  <2>2. glued' = glued \cup GluedBy(pieces, <<>>)
    BY <1>2 DEF GluedBy
  <2>3. FileGrows(<<>>)
    BY <1>1, <2>1, <2>2, LinesGrow
  <2> QED BY <1>1, <2>1, <2>3, ClosedHolds, TracerMoves DEF TraceIInv, TraceTypes
<1>3. CASE /\ tracer[t].at = "write"
           /\ \E w \in Partial(Buffer(t)) :
                pieces' = pieces \o w.done /\ glued' = glued \cup GluedBy(pieces, w.done)
  <2>1. PICK buffer : buffer = Buffer(t)
    OBVIOUS
  <2>2. PICK w \in Partial(buffer) : pieces' = pieces \o w.done /\ glued' = glued \cup GluedBy(pieces, w.done)
    BY <1>3, <2>1
  <2>3. /\ buffer \in Seq(Pieces) /\ NoStart(buffer)
        /\ losses = 0 => \A k \in DOMAIN buffer : Refers(buffer[k].rec, buffer[k].body)
    BY <1>3, <2>1, BufferFacts
  <2>4. /\ w.done \in Seq(Pieces)
        /\ \A k \in DOMAIN w.done : \E j \in DOMAIN buffer : SameLine(w.done[k], buffer[j])
    BY <2>3, PartialParts
  <2>5. losses = 0 => \A k \in DOMAIN w.done : Refers(w.done[k].rec, w.done[k].body)
    BY <2>3, <2>4 DEF SameLine
  <2>6. FileGrows(w.done)
    BY <1>1, <2>2, <2>4, <2>5, LinesGrow
  <2> QED BY <1>1, <2>4, <2>6, ClosedHolds, TracerMoves DEF TraceIInv, TraceTypes
<1> QED BY <1>2, <1>3 DEF TracerDies

(* What the power leaves of the trace keeps what was synced. *)
LEMMA SyncedRemains ==
    ASSUME TraceIInv, NEW ps \in Remaining
    PROVE  /\ ps \in Seq(Pieces) /\ Len(ps) \in Nat /\ syncedTo <= Len(ps)
           /\ \A i \in 1 .. syncedTo : \A r, b : WholeAt(pieces, i, r, b) => WholeAt(ps, i, r, b)
<1>1. /\ pieces \in Seq(Pieces) /\ Len(pieces) \in Nat /\ DOMAIN pieces = 1 .. Len(pieces)
      /\ syncedTo \in 0 .. Len(pieces)
  BY LenProperties DEF TraceIInv, TraceTypes
<1>2. ASSUME NEW n \in syncedTo .. Len(pieces)
      PROVE  /\ SubSeq(pieces, 1, n) \in Seq(Pieces) /\ Len(SubSeq(pieces, 1, n)) = n /\ n \in Nat
             /\ DOMAIN SubSeq(pieces, 1, n) = 1 .. n
             /\ \A i \in 1 .. syncedTo : \A r, b : WholeAt(pieces, i, r, b) => WholeAt(SubSeq(pieces, 1, n), i, r, b)
  <2>1. n \in 0 .. Len(pieces) /\ \A i \in 1 .. syncedTo : i \in 1 .. n
    BY <1>1
  <2> QED BY <1>1, <2>1, ShorterKeeps
<1>3. CASE \E n \in syncedTo .. Len(pieces) : ps = SubSeq(pieces, 1, n)
  BY <1>1, <1>2, <1>3
<1>4. CASE \E n \in {k \in syncedTo + 1 .. Len(pieces) : pieces[k].piece = "whole"} :
             ps = Append(SubSeq(pieces, 1, n - 1), StartOf(pieces[n]))
  <2>1. PICK n \in syncedTo + 1 .. Len(pieces) : ps = Append(SubSeq(pieces, 1, n - 1), StartOf(pieces[n]))
    BY <1>4
  <2>2. n - 1 \in syncedTo .. Len(pieces) /\ n \in DOMAIN pieces
    BY <1>1
  <2>3. pieces[n] \in Pieces
    BY <1>1, <2>2, ElementOfSeq
  <2>4. StartOf(pieces[n]) \in Pieces
    BY <2>3 DEF StartOf, Pieces
  <2> DEFINE before == SubSeq(pieces, 1, n - 1)
             start == StartOf(pieces[n])
  <2>5. /\ before \in Seq(Pieces) /\ Len(before) = n - 1 /\ DOMAIN before = 1 .. n - 1
        /\ \A i \in 1 .. syncedTo : \A r, b : WholeAt(pieces, i, r, b) => WholeAt(before, i, r, b)
    BY <1>2, <2>2
  <2>6. ps = Append(before, start) /\ start \in Pieces
    BY <2>1, <2>4
  <2> HIDE DEF before, start
  <2>7. ps = before \o <<start>> /\ <<start>> \in Seq(Pieces) /\ Len(<<start>>) = 1
    BY <2>5, <2>6, AppendIsConcat
  <2>8. /\ before \o <<start>> \in Seq(Pieces) /\ Len(before \o <<start>>) = Len(before) + Len(<<start>>)
        /\ \A i \in DOMAIN before : \A r, b : WholeAt(before, i, r, b) => WholeAt(before \o <<start>>, i, r, b)
    BY <2>5, <2>7, LongerKeeps
  <2>9. ps \in Seq(Pieces) /\ Len(ps) = n - 1 + 1
    BY <2>5, <2>7, <2>8
  <2>10. \A i \in 1 .. syncedTo : i \in DOMAIN before
    BY <1>1, <2>2, <2>5
  <2>11. Len(ps) = n /\ syncedTo <= n
    BY <1>1, <2>9
  <2>12. ASSUME NEW i \in 1 .. syncedTo, NEW r, NEW b, WholeAt(pieces, i, r, b) PROVE WholeAt(ps, i, r, b)
    <3>1. WholeAt(before, i, r, b) /\ i \in DOMAIN before
      BY <2>5, <2>10, <2>12
    <3> QED BY <2>7, <2>8, <3>1
  <2> QED BY <1>1, <2>9, <2>11, <2>12
<1> QED BY <1>3, <1>4 DEF Remaining

(* The power fails. *)
LEMMA PowerStep == ASSUME TraceIInv, PowerFails PROVE TraceIInv'
<1>1. PICK ps \in Remaining, spoils \in BOOLEAN, forgets \in BOOLEAN :
         /\ body' = [b \in Bodies |-> IF forgets /\ b \notin named THEN "none"
                                      ELSE IF spoils /\ b \notin onDisk /\ body[b] = "whole"
                                      THEN "spoiled" ELSE body[b]]
         /\ pieces' = IF forgets /\ ~traceNamed THEN <<>> ELSE ps
  BY DEF PowerFails
<1>2. /\ syncedTo' = Len(pieces') /\ traceNamed' = (pieces' # <<>>)
      /\ named' = {b \in Bodies : body'[b] # "none"}
      /\ onDisk' = {b \in Bodies : body'[b] = "whole"}
      /\ tracer' = [t \in Tracers |-> Closed]
      /\ UNCHANGED <<sure, glued, unpublished, records>>
      /\ losses' = losses + 1 /\ failures' \in 0 .. MaxFailures
  BY FailuresCount DEF PowerFails
<1>3. body \in [Bodies -> {"none", "whole", "spoiled"}] /\ traceNamed \in BOOLEAN /\ losses \in Nat
  BY DEF TraceIInv, TraceTypes
<1>4. /\ body' \in [Bodies -> {"none", "whole", "spoiled"}]
      /\ \A b \in Bodies : b \in onDisk /\ b \in named => body'[b] = "whole"
  BY <1>1, <1>3 DEF TraceIInv, DiskIsTrue
<1>5. pieces' = ps \/ (pieces' = <<>> /\ traceNamed # TRUE)
  BY <1>1, <1>3, Zenon
<1>6. /\ ps \in Seq(Pieces) /\ Len(ps) \in Nat /\ syncedTo <= Len(ps)
      /\ \A i \in 1 .. syncedTo : \A r, b : WholeAt(pieces, i, r, b) => WholeAt(ps, i, r, b)
  BY SyncedRemains
<1>7. pieces' \in Seq(Pieces) /\ Len(pieces') \in Nat /\ syncedTo' \in 0 .. Len(pieces')
  <2>1. pieces' \in Seq(Pieces)
    BY <1>5, <1>6, EmptySeq
  <2> QED BY <1>2, <2>1, LenProperties
<1>8. TraceTypes'
  <2>1. /\ onDisk' \subseteq Bodies /\ named' \subseteq Bodies
        /\ tracer' \in [Tracers -> TracerRecords]
        /\ losses' \in Nat
    BY <1>2, <1>3, ClosedHolds
  <2>2. traceNamed' \in BOOLEAN
    BY <1>2, Zenon
  <2> QED BY <1>2, <1>4, <1>7, <2>1, <2>2 DEF TraceTypes, TraceIInv
<1>9. \A t \in Tracers : TracerHolds(tracer[t])'
  <2> SUFFICES ASSUME NEW t \in Tracers PROVE TracerHolds(tracer[t])'
    OBVIOUS
  <2>1. PICK q : q = Closed
    OBVIOUS
  <2>2. TracerHolds(q)' /\ tracer'[t] = q
    BY <1>2, <2>1, ClosedHolds DEF TracerHolds, IsWritten, IsSynced, Refers, Closed
  <2> QED BY <2>2 DEF TracerHolds, IsWritten, IsSynced, Refers
<1>10. DiskIsTrue'
  BY <1>2 DEF DiskIsTrue
<1>11. \A r \in sure' \ glued' : Lasts(r)'
  <2> SUFFICES ASSUME NEW r \in sure \ glued PROVE Lasts(r)'
    BY <1>2
  <2>1. Lasts(r)
    BY DEF TraceIInv
  <2>2. pieces' = ps
    BY <1>5, <2>1 DEF Lasts
  <2>3. PICK i \in 1 .. syncedTo, b \in SidecarNames :
             WholeAt(pieces, i, r, b) /\ (b = NoBody \/ (b \in onDisk /\ b \in named))
    BY <2>1 DEF Lasts
  <2>4. WholeAt(pieces', i, r, b)
    BY <1>6, <2>2, <2>3
  <2>5. i \in 1 .. syncedTo'
    BY <1>2, <1>3, <1>6, <2>2 DEF TraceIInv, TraceTypes
  <2>6. b = NoBody \/ (b \in onDisk' /\ b \in named')
    BY <1>2, <1>4, <2>3 DEF TraceIInv, TraceTypes
  <2>7. traceNamed' = TRUE
    <3>1. pieces' # <<>>
      BY <1>2, <2>5, EmptySeq
    <3> QED BY <1>2, <3>1
  <2> QED BY <2>4, <2>5, <2>6, <2>7 DEF Lasts
<1>12. NothingSpoiled'
  BY <1>2, <1>3 DEF NothingSpoiled
<1> QED BY <1>8, <1>9, <1>10, <1>11, <1>12 DEF TraceIInv

(* The invariant holds at the start. *)
LEMMA TraceInitHolds == TraceInit => TraceIInv
<1> SUFFICES ASSUME TraceInit PROVE TraceIInv
  OBVIOUS
<1>1. <<>> \in Seq(Pieces) /\ DOMAIN <<>> = {} /\ Len(<<>>) = 0
  BY EmptySeq
<1>2. TraceTypes
  <2>1. pieces \in Seq(Pieces) /\ syncedTo \in 0 .. Len(pieces)
    BY <1>1 DEF TraceInit
  <2>2. records \in 0 .. MaxRecords /\ failures \in 0 .. MaxFailures /\ losses \in Nat
    BY TraceAssumption DEF TraceInit
  <2>3. /\ body \in [Bodies -> {"none", "whole", "spoiled"}]
        /\ tracer \in [Tracers -> TracerRecords]
    BY ClosedHolds DEF TraceInit
  <2>4. /\ onDisk \subseteq Bodies /\ named \subseteq Bodies /\ traceNamed \in BOOLEAN
        /\ sure \subseteq Nat /\ glued \subseteq Nat /\ unpublished \subseteq Nat
    BY DEF TraceInit
  <2> QED BY <2>1, <2>2, <2>3, <2>4 DEF TraceTypes
<1>3. \A t \in Tracers : TracerHolds(tracer[t])
  BY ClosedHolds DEF TraceInit
<1>4. DiskIsTrue /\ NothingSpoiled /\ sure = {}
  BY <1>1 DEF TraceInit, DiskIsTrue, NothingSpoiled
<1> QED BY <1>2, <1>3, <1>4 DEF TraceIInv

(* Every step keeps the invariant. *)
LEMMA TraceStepHolds == TraceIInv /\ [TraceNext]_traceVars => TraceIInv'
<1> SUFFICES ASSUME TraceIInv, [TraceNext]_traceVars PROVE TraceIInv'
  OBVIOUS
<1>1. CASE UNCHANGED traceVars
  BY <1>1 DEF traceVars, TraceIInv, TraceTypes, TracerHolds, IsWritten, IsSynced, Refers, Lasts, DiskIsTrue,
              NothingSpoiled
<1>2. CASE PowerFails
  BY <1>2, PowerStep
<1>3. ASSUME NEW t \in Tracers,
             \/ Open(t) \/ LookForSidecar(t) \/ CannotPublish(t) \/ SidecarFails(t)
             \/ WriteLine(t) \/ WriteFails(t) \/ Close(t) \/ TracerDies(t)
      PROVE  TraceIInv'
  BY <1>3, OpenStep, LookStep, CannotPublishStep, SidecarFailsStep, WriteStep, WriteFailsStep, CloseStep, DeathStep
<1>4. ASSUME NEW t \in Tracers, NEW b \in BOOLEAN,
             \/ AppendRecord(t, b) \/ PublishSidecar(t, b) \/ SyncSidecarName(t, b)
             \/ SyncLine(t, b) \/ SyncNames(t, b)
      PROVE  TraceIInv'
  BY <1>4, AppendStep, PublishStep, SyncSidecarNameStep, SyncLineStep, SyncNamesStep
<1> QED BY <1>1, <1>2, <1>3, <1>4 DEF TraceNext

(* The invariant implies what the run checks. *)
LEMMA TraceIsGood == TraceIInv => TraceInv
<1> SUFFICES ASSUME TraceIInv PROVE TraceInv
  OBVIOUS
<1>1. pieces \in Seq(Pieces) /\ DOMAIN pieces = 1 .. Len(pieces) /\ Len(pieces) \in Nat /\ syncedTo \in 0 .. Len(pieces)
  BY LenProperties DEF TraceIInv, TraceTypes
<1>2. TraceType
  BY DEF TraceIInv, TraceTypes, TraceType
<1>3. ASSUME NEW r \in sure \ glued PROVE r \in Resolved
  <2>1. PICK i \in 1 .. syncedTo, b \in SidecarNames :
             WholeAt(pieces, i, r, b) /\ (b = NoBody \/ (b \in onDisk /\ b \in named))
    BY DEF TraceIInv, Lasts
  <2>2. i \in DOMAIN pieces /\ LineAt(pieces, i) /\ pieces[i].rec = r /\ pieces[i].body = b
    BY <2>1 DEF WholeAt, LineAt, Whole
  <2>3. b = NoBody \/ body[b] = "whole"
    BY <2>1 DEF TraceIInv, DiskIsTrue
  <2> QED BY <2>2, <2>3 DEF Resolved, Lines
<1>4. ReferencesHold
  <2> SUFFICES ASSUME losses = 0, NEW l \in Lines(pieces), l.rec \notin unpublished PROVE l.rec \in Resolved
    BY DEF ReferencesHold
  <2>1. PICK i \in DOMAIN pieces : l = pieces[i]
    BY DEF Lines
  <2>2. l.body = NoBody \/ body[l.body] = "whole"
    BY <2>1 DEF TraceIInv, NothingSpoiled, Refers
  <2> QED BY <2>2 DEF Resolved
<1> QED BY <1>2, <1>3, <1>4 DEF TraceInv, SureIsRead

(* A record that was appended without a failure is read back ever after, with *)
(* its content, unless it stands behind what a crash or a failed write has    *)
(* left; and until the power fails every reference can be resolved.           *)
THEOREM RecordsAreKept == TraceSpec => []TraceInv
<1>1. TraceIInv /\ [TraceNext]_traceVars => TraceIInv'
  BY TraceStepHolds
<1> QED BY <1>1, TraceInitHolds, TraceIsGood, PTL DEF TraceSpec

-----------------------------------------------------------------------------
(***************************************************************************)
(* BundleCache: what a reader of the research page relies on.  What a      *)
(* visitor has in hand is related to the memories, to Redis and to the     *)
(* lock by a condition on each visitor, which the steps of others keep     *)
(* because memories are only filled, except by a restart, which ends the   *)
(* visits of its process.                                                  *)
(***************************************************************************)

BundleNumbers == Nat \ {0}

VisitStates == {"away", "look", "adopt", "lock", "compute", "publish", "release", "delete", "answered"}

Visits == [pc : VisitStates, at : WebServers \cup {Nothing}, bundle : Nat \cup {Nothing},
           locked : BOOLEAN, afresh : BOOLEAN]

Mishaps == [lost : Nat, outages : Nat, reboots : Nat, visits : Nat, made : Nat,
            unscripted : BOOLEAN, stolen : BOOLEAN]

BundleTypes ==
    /\ held \in [WebServers -> BundleNumbers \cup {Nothing}]
    /\ shared \in Nat \cup {Nothing}
    /\ herdLock \in Visitors \cup {Nothing}
    /\ visitor \in [Visitors -> Visits]
    /\ served \in SUBSET BundleNumbers
    /\ mishaps \in Mishaps

(* What holds of the visitor v, wherever it is. *)
VisitIsSound(v) ==
    /\ visitor[v].pc = "away" <=> visitor[v] = NotThere
    /\ visitor[v].pc # "away" => visitor[v].at \in WebServers
    /\ visitor[v].pc = "adopt" => visitor[v].bundle \in served
    /\ visitor[v].pc = "publish" => visitor[v].bundle \in BundleNumbers
    /\ visitor[v].pc \in {"release", "delete", "answered"} =>
         visitor[v].bundle = held[visitor[v].at] /\ visitor[v].bundle # Nothing
    /\ visitor[v].pc = "delete" => mishaps.unscripted = TRUE /\ (herdLock = v \/ mishaps.lost > 0)
    /\ mishaps.lost = 0 /\ mishaps.outages = 0 /\ visitor[v].pc \in {"lock", "compute", "publish"} =>
         visitor[v].afresh = TRUE

HeldIsServed == \A s \in WebServers : held[s] # Nothing => held[s] \in served

SharedIsThere ==
    /\ shared \in served \cup {Nothing, Old}
    /\ mishaps.lost = 0 /\ mishaps.outages = 0 /\ served # {} => shared \notin {Nothing, Old}

StolenByExpiry == mishaps.stolen = TRUE => mishaps.unscripted = TRUE /\ mishaps.lost > 0

(* Who may still compute a bundle in this visit. *)
Undecided == {v \in Visitors : visitor[v].pc \in {"look", "lock", "compute"}}

OneBundlePerVisit ==
    IsFiniteSet(Undecided) /\ mishaps.made + Cardinality(Undecided) <= mishaps.visits

BundleIInv ==
    /\ BundleTypes
    /\ \A v \in Visitors : VisitIsSound(v)
    /\ HeldIsServed
    /\ SharedIsThere
    /\ StolenByExpiry
    /\ OneBundlePerVisit

(* What a step may do behind the back of a visitor. *)
MemoriesOnlyFill ==
    /\ \A s \in WebServers : held[s] # Nothing => held'[s] = held[s]
    /\ served \in SUBSET served'

MishapsGrow ==
    /\ mishaps.unscripted = TRUE => mishaps'.unscripted = TRUE
    /\ mishaps'.lost \in Nat /\ mishaps'.outages \in Nat
    /\ mishaps.lost <= mishaps'.lost /\ mishaps.outages <= mishaps'.outages

(* A visit is as sound as before when nothing it knows of was taken away. *)
LEMMA OthersStaySound ==
    ASSUME BundleTypes, NEW w \in Visitors, VisitIsSound(w), visitor'[w] = visitor[w],
           MemoriesOnlyFill, MishapsGrow,
           herdLock = w => herdLock' = w \/ mishaps'.lost > 0
    PROVE  VisitIsSound(w)'
<1>1. mishaps.lost \in Nat /\ mishaps.outages \in Nat /\ mishaps'.lost \in Nat /\ mishaps'.outages \in Nat
  BY DEF BundleTypes, Mishaps, MishapsGrow
<1>2. /\ mishaps.lost > 0 => mishaps'.lost > 0
      /\ mishaps'.lost = 0 /\ mishaps'.outages = 0 => mishaps.lost = 0 /\ mishaps.outages = 0
  BY <1>1 DEF MishapsGrow
<1>3. visitor[w].pc \in {"release", "delete", "answered"} =>
        visitor[w].at \in WebServers /\ held'[visitor[w].at] = held[visitor[w].at]
  BY DEF VisitIsSound, MemoriesOnlyFill
<1>4. mishaps.unscripted = TRUE => mishaps'.unscripted = TRUE
  BY DEF MishapsGrow
<1>5. served \in SUBSET served'
  BY DEF MemoriesOnlyFill
<1> QED BY <1>2, <1>3, <1>4, <1>5, Zenon DEF VisitIsSound

(* A step that lets nobody begin to be undecided. *)
LEMMA FewerUndecided ==
    ASSUME BundleTypes, OneBundlePerVisit, Undecided' \in SUBSET Undecided,
           mishaps' \in Mishaps, mishaps'.made = mishaps.made, mishaps'.visits = mishaps.visits
    PROVE  OneBundlePerVisit'
<1>1. PICK U : U = Undecided
  OBVIOUS
<1>2. PICK V : V = Undecided'
  OBVIOUS
<1>3. /\ IsFiniteSet(U) /\ mishaps.made + Cardinality(U) <= mishaps.visits
      /\ mishaps.made \in Nat /\ mishaps.visits \in Nat
  BY <1>1 DEF BundleTypes, OneBundlePerVisit, Mishaps
<1>4. IsFiniteSet(V) /\ Cardinality(V) <= Cardinality(U) /\ Cardinality(V) \in Nat /\ Cardinality(U) \in Nat
  BY <1>1, <1>2, <1>3, FS_Subset, FS_CardinalityType
<1>5. mishaps'.made + Cardinality(V) <= mishaps'.visits
  BY <1>3, <1>4
<1> QED BY <1>2, <1>4, <1>5 DEF OneBundlePerVisit

(* ... and one in which the visitor v moves on from the pc it had. *)
LEMMA UndecidedAfter ==
    ASSUME BundleTypes, NEW v \in Visitors,
           \A w \in Visitors : w # v => visitor'[w] = visitor[w],
           visitor'[v].pc \in {"look", "lock", "compute"} => visitor[v].pc \in {"look", "lock", "compute"}
    PROVE  Undecided' \in SUBSET Undecided
BY DEF Undecided

-----------------------------------------------------------------------------
(* Steps that do not touch memories, by a visitor that goes from one pc to *)
(* another.                                                                *)
LEMMA LookInMemoryKeeps ==
    ASSUME BundleIInv, NEW v \in Visitors, LookInMemory(v)
    PROVE  BundleIInv'
<1>0. /\ BundleTypes /\ \A w \in Visitors : VisitIsSound(w)
      /\ HeldIsServed /\ SharedIsThere /\ StolenByExpiry /\ OneBundlePerVisit
  BY DEF BundleIInv
<1>1. PICK s \in WebServers :
        visitor' = [visitor EXCEPT ![v] = [NotThere EXCEPT !.at = s, !.bundle = held[s],
                                            !.pc = IF held[s] = Nothing THEN "look" ELSE "answered"]]
  BY DEF LookInMemory
<1> DEFINE q == [NotThere EXCEPT !.at = s, !.bundle = held[s],
                                 !.pc = IF held[s] = Nothing THEN "look" ELSE "answered"]
<1>2. /\ q \in Visits /\ q.at = s /\ q.bundle = held[s]
      /\ q.pc = (IF held[s] = Nothing THEN "look" ELSE "answered")
  BY <1>0 DEF NotThere, Visits, VisitStates, BundleTypes, BundleNumbers
<1> HIDE DEF q
<1>3. /\ visitor' \in [Visitors -> Visits] /\ visitor'[v] = q
      /\ \A w \in Visitors : w # v => visitor'[w] = visitor[w]
  BY <1>0, <1>1, <1>2 DEF BundleTypes, q
<1>4. /\ mishaps' = [mishaps EXCEPT !.visits = @ + 1] /\ UNCHANGED <<held, shared, herdLock, served>>
      /\ visitor[v].pc = "away"
  BY DEF LookInMemory, VisitorAt
<1>5. /\ mishaps' \in Mishaps /\ mishaps'.visits = mishaps.visits + 1 /\ mishaps'.made = mishaps.made
      /\ mishaps'.lost = mishaps.lost /\ mishaps'.outages = mishaps.outages
      /\ mishaps'.unscripted = mishaps.unscripted /\ mishaps'.stolen = mishaps.stolen
      /\ mishaps.visits \in Nat /\ mishaps.made \in Nat /\ mishaps.lost \in Nat /\ mishaps.outages \in Nat
  BY <1>0, <1>4 DEF BundleTypes, Mishaps
<1>6. BundleTypes'
  BY <1>0, <1>3, <1>4, <1>5 DEF BundleTypes
<1>7. VisitIsSound(v)'
  <2>1. held' = held /\ q.pc \in {"look", "answered"} /\ s \in WebServers
    BY <1>2, <1>4
  <2>2. q # NotThere
    BY <2>1 DEF NotThere
  <2> QED BY <1>2, <1>3, <2>1, <2>2 DEF VisitIsSound
<1>8. ASSUME NEW w \in Visitors, w # v
      PROVE  VisitIsSound(w)'
  <2>1. MemoriesOnlyFill /\ MishapsGrow
    BY <1>4, <1>5 DEF MemoriesOnlyFill, MishapsGrow
  <2> QED BY <1>0, <1>3, <1>4, <1>8, <2>1, OthersStaySound
<1>9. HeldIsServed' /\ SharedIsThere' /\ StolenByExpiry'
  BY <1>0, <1>4, <1>5 DEF HeldIsServed, SharedIsThere, StolenByExpiry
<1>10. OneBundlePerVisit'
  <2>1. PICK U : U = Undecided
    OBVIOUS
  <2>2. PICK V : V = Undecided'
    OBVIOUS
  <2>3. V \in SUBSET (U \cup {v})
    <3>1. \A w \in V : w \in Visitors /\ visitor'[w].pc \in {"look", "lock", "compute"}
      BY <2>2 DEF Undecided
    <3>2. \A w \in Visitors : visitor[w].pc \in {"look", "lock", "compute"} => w \in U
      BY <2>1 DEF Undecided
    <3>3. \A w \in V : w = v \/ w \in U
      BY <1>3, <3>1, <3>2
    <3> QED BY <3>3
  <2>4. IsFiniteSet(U) /\ mishaps.made + Cardinality(U) <= mishaps.visits
    BY <1>0, <2>1 DEF OneBundlePerVisit
  <2>5. IsFiniteSet(U \cup {v}) /\ Cardinality(U \cup {v}) <= Cardinality(U) + 1 /\ Cardinality(U) \in Nat
    <3>1. Cardinality(U) \in Nat
      BY <2>4, FS_CardinalityType
    <3>2. IsFiniteSet(U \cup {v}) /\ Cardinality(U \cup {v}) = IF v \in U THEN Cardinality(U) ELSE Cardinality(U) + 1
      BY <2>4, FS_AddElement
    <3> QED BY <3>1, <3>2
  <2>6. IsFiniteSet(V) /\ Cardinality(V) <= Cardinality(U \cup {v})
        /\ Cardinality(V) \in Nat /\ Cardinality(U \cup {v}) \in Nat
    BY <2>3, <2>5, FS_Subset, FS_CardinalityType
  <2>7. mishaps'.made + Cardinality(V) <= mishaps'.visits
    BY <1>5, <2>4, <2>5, <2>6
  <2> QED BY <2>2, <2>6, <2>7 DEF OneBundlePerVisit
<1> QED BY <1>6, <1>7, <1>8, <1>9, <1>10 DEF BundleIInv

(* A visitor moves on, and counters of visits and bundles stay. *)
LEMMA VisitorMoves ==
    ASSUME BundleIInv, NEW v \in Visitors, BundleTypes',
           \A w \in Visitors : w # v => visitor'[w] = visitor[w],
           \A w \in Visitors : w # v /\ herdLock = w => herdLock' = w \/ mishaps'.lost > 0,
           MemoriesOnlyFill, MishapsGrow,
           visitor'[v].pc \in {"look", "lock", "compute"} => visitor[v].pc \in {"look", "lock", "compute"},
           mishaps'.made = mishaps.made, mishaps'.visits = mishaps.visits,
           VisitIsSound(v)', HeldIsServed', SharedIsThere', StolenByExpiry'
    PROVE  BundleIInv'
<1>0. BundleTypes /\ OneBundlePerVisit /\ \A w \in Visitors : VisitIsSound(w)
  BY DEF BundleIInv
<1>1. ASSUME NEW w \in Visitors
      PROVE  VisitIsSound(w)'
  BY <1>0, OthersStaySound
<1>2. OneBundlePerVisit'
  <2>1. Undecided' \in SUBSET Undecided
    BY <1>0, UndecidedAfter
  <2>2. mishaps' \in Mishaps
    BY DEF BundleTypes
  <2> QED BY <1>0, <2>1, <2>2, FewerUndecided
<1> QED BY <1>1, <1>2 DEF BundleIInv

(* Counters of what goes wrong. *)
LEMMA MishapCounters ==
    ASSUME BundleTypes
    PROVE  /\ mishaps \in Mishaps /\ mishaps.lost \in Nat /\ mishaps.outages \in Nat
           /\ mishaps' = mishaps => MishapsGrow
           /\ mishaps' = [mishaps EXCEPT !.outages = @ + 1] =>
                /\ mishaps' \in Mishaps /\ MishapsGrow
                /\ mishaps'.made = mishaps.made /\ mishaps'.visits = mishaps.visits
                /\ mishaps'.lost = mishaps.lost /\ mishaps'.outages = mishaps.outages + 1
                /\ mishaps'.unscripted = mishaps.unscripted /\ mishaps'.stolen = mishaps.stolen
           /\ mishaps' = [mishaps EXCEPT !.lost = @ + 1] =>
                /\ mishaps' \in Mishaps /\ MishapsGrow
                /\ mishaps'.made = mishaps.made /\ mishaps'.visits = mishaps.visits
                /\ mishaps'.lost = mishaps.lost + 1 /\ mishaps'.outages = mishaps.outages
                /\ mishaps'.unscripted = mishaps.unscripted /\ mishaps'.stolen = mishaps.stolen
BY DEF BundleTypes, Mishaps, MishapsGrow

(* A visitor whose visit is replaced by q, and what else a step may change *)
(* about the shared state when the memories stay as they are.              *)
LEMMA VisitorGoes ==
    ASSUME BundleTypes, NEW v \in Visitors, NEW q \in Visits,
           visitor' = [visitor EXCEPT ![v] = q]
    PROVE  /\ visitor' \in [Visitors -> Visits] /\ visitor'[v] = q
           /\ \A w \in Visitors : w # v => visitor'[w] = visitor[w]
BY DEF BundleTypes

(* get: what Redis answers. *)
LEMMA LookInRedisKeeps ==
    ASSUME BundleIInv, NEW v \in Visitors, LookInRedis(v)
    PROVE  BundleIInv'
<1>0. /\ BundleTypes /\ \A w \in Visitors : VisitIsSound(w)
      /\ HeldIsServed /\ SharedIsThere /\ StolenByExpiry /\ OneBundlePerVisit
  BY DEF BundleIInv
<1> DEFINE q == IF shared \in {Nothing, Old} THEN [visitor[v] EXCEPT !.pc = "lock", !.afresh = served = {}]
                ELSE [visitor[v] EXCEPT !.pc = "adopt", !.bundle = shared]
<1>1. visitor' = [visitor EXCEPT ![v] = q]
  BY Zenon DEF LookInRedis
<1>2. /\ UNCHANGED <<held, shared, herdLock, served, mishaps>> /\ visitor[v].pc = "look"
      /\ visitor[v] \in Visits
  BY <1>0 DEF LookInRedis, VisitorAt, BundleTypes
<1>3. /\ q \in Visits /\ q.at = visitor[v].at /\ q.pc \in {"lock", "adopt"}
      /\ q.pc = "lock" => shared \in {Nothing, Old}
      /\ q.pc = "adopt" => shared \notin {Nothing, Old} /\ q.bundle = shared
  <2>1. CASE shared \in {Nothing, Old}
    BY <1>2, <2>1 DEF Visits, VisitStates
  <2>2. CASE shared \notin {Nothing, Old}
    BY <1>0, <1>2, <2>2 DEF Visits, VisitStates, BundleTypes
  <2> QED BY <2>1, <2>2
<1>4. q.pc = "lock" => (q.afresh = TRUE <=> served = {})
  BY <1>2 DEF Visits
<1> HIDE DEF q
<1>5. /\ visitor' \in [Visitors -> Visits] /\ visitor'[v] = q
      /\ \A w \in Visitors : w # v => visitor'[w] = visitor[w]
  BY <1>0, <1>1, <1>3, VisitorGoes
<1>6. BundleTypes' /\ MemoriesOnlyFill /\ MishapsGrow
  BY <1>0, <1>2, <1>5, MishapCounters DEF BundleTypes, MemoriesOnlyFill
<1>7. VisitIsSound(v)'
  <2>1. q # NotThere /\ q.at \in WebServers
    BY <1>0, <1>2, <1>3 DEF NotThere, VisitIsSound
  <2>2. q.pc = "adopt" => q.bundle \in served
    BY <1>0, <1>3 DEF SharedIsThere
  <2>3. q.pc = "lock" /\ mishaps.lost = 0 /\ mishaps.outages = 0 => q.afresh = TRUE
    BY <1>0, <1>3, <1>4 DEF SharedIsThere
  <2> QED BY <1>2, <1>3, <1>5, <2>1, <2>2, <2>3 DEF VisitIsSound
<1>8. HeldIsServed' /\ SharedIsThere' /\ StolenByExpiry'
  BY <1>0, <1>2 DEF HeldIsServed, SharedIsThere, StolenByExpiry
<1> QED BY <1>2, <1>5, <1>6, <1>7, <1>8, VisitorMoves

(* get: Redis does not answer. *)
LEMMA LookFailsKeeps ==
    ASSUME BundleIInv, NEW v \in Visitors, LookFails(v)
    PROVE  BundleIInv'
<1>0. /\ BundleTypes /\ \A w \in Visitors : VisitIsSound(w)
      /\ HeldIsServed /\ SharedIsThere /\ StolenByExpiry /\ OneBundlePerVisit
  BY DEF BundleIInv
<1> DEFINE q == [visitor[v] EXCEPT !.pc = "lock", !.afresh = served = {}]
<1>1. visitor' = [visitor EXCEPT ![v] = q]
  BY <1>0 DEF LookFails, BundleTypes
<1>2. /\ UNCHANGED <<held, shared, herdLock, served>> /\ visitor[v].pc = "look"
      /\ visitor[v] \in Visits /\ mishaps' = [mishaps EXCEPT !.outages = @ + 1]
  BY <1>0 DEF LookFails, VisitorAt, BundleTypes, Outage
<1>3. q \in Visits /\ q.at = visitor[v].at /\ q.pc = "lock"
  BY <1>2 DEF Visits, VisitStates
<1> HIDE DEF q
<1>4. /\ mishaps' \in Mishaps /\ MishapsGrow /\ mishaps'.lost = mishaps.lost
      /\ mishaps'.made = mishaps.made /\ mishaps'.visits = mishaps.visits
      /\ mishaps'.outages # 0
      /\ mishaps'.unscripted = mishaps.unscripted /\ mishaps'.stolen = mishaps.stolen
  BY <1>0, <1>2, MishapCounters
<1>5. /\ visitor' \in [Visitors -> Visits] /\ visitor'[v] = q
      /\ \A w \in Visitors : w # v => visitor'[w] = visitor[w]
  BY <1>0, <1>1, <1>3, VisitorGoes
<1>6. BundleTypes' /\ MemoriesOnlyFill
  BY <1>0, <1>2, <1>4, <1>5 DEF BundleTypes, MemoriesOnlyFill
<1>7. VisitIsSound(v)'
  <2>1. q # NotThere /\ q.at \in WebServers
    BY <1>0, <1>2, <1>3 DEF NotThere, VisitIsSound
  <2> QED BY <1>2, <1>3, <1>4, <1>5, <2>1 DEF VisitIsSound
<1>8. HeldIsServed' /\ SharedIsThere' /\ StolenByExpiry'
  BY <1>0, <1>2, <1>4 DEF HeldIsServed, SharedIsThere, StolenByExpiry
<1> QED BY <1>2, <1>3, <1>4, <1>5, <1>6, <1>7, <1>8, VisitorMoves

(* What is in memory is answered, and a memory that has a bundle keeps it. *)
LEMMA KeepFills ==
    ASSUME BundleIInv, NEW v \in Visitors, NEW label \in {"release", "answered"}, Keep(v, label),
           visitor[v].pc \in {"adopt", "publish"}, UNCHANGED herdLock
    PROVE  /\ held' \in [WebServers -> BundleNumbers \cup {Nothing}]
           /\ visitor' \in [Visitors -> Visits]
           /\ served' \in SUBSET BundleNumbers
           /\ \A w \in Visitors : w # v => visitor'[w] = visitor[w]
           /\ visitor'[v].pc = label
           /\ held'[visitor[v].at] \in served'
           /\ MemoriesOnlyFill /\ HeldIsServed'
           /\ MishapsGrow => VisitIsSound(v)'
<1>0. /\ BundleTypes /\ VisitIsSound(v) /\ HeldIsServed
      /\ visitor[v] \in Visits
  BY DEF BundleIInv, BundleTypes
<1> DEFINE s == visitor[v].at
           bundle == Published(s, visitor[v].bundle)
           q == [visitor[v] EXCEPT !.pc = label, !.bundle = bundle]
<1>1. /\ held' = [held EXCEPT ![s] = bundle]
      /\ served' = served \cup {bundle}
      /\ visitor' = [visitor EXCEPT ![v] = q]
  BY <1>0 DEF Keep, BundleTypes
<1>2. s \in WebServers /\ visitor[v].bundle \in BundleNumbers
  BY <1>0 DEF VisitIsSound, BundleTypes
<1>3. bundle \in BundleNumbers /\ (held[s] # Nothing => bundle = held[s])
  BY <1>0, <1>2 DEF Published, BundleTypes
<1> HIDE DEF bundle
<1>4. q \in Visits /\ q.pc = label /\ q.bundle = bundle /\ q.at = s
  BY <1>0, <1>3 DEF Visits, VisitStates, BundleNumbers
<1> HIDE DEF q, s
<1>5. /\ visitor' \in [Visitors -> Visits] /\ visitor'[v] = q
      /\ \A w \in Visitors : w # v => visitor'[w] = visitor[w]
  BY <1>0, <1>1, <1>4, VisitorGoes
<1>6. /\ held' \in [WebServers -> BundleNumbers \cup {Nothing}] /\ held'[s] = bundle
      /\ \A z \in WebServers : z # s => held'[z] = held[z]
  BY <1>0, <1>1, <1>2, <1>3 DEF BundleTypes
<1>7. MemoriesOnlyFill
  BY <1>1, <1>3, <1>6 DEF MemoriesOnlyFill
<1>8. HeldIsServed'
  BY <1>0, <1>1, <1>6 DEF HeldIsServed
<1>9. MishapsGrow => VisitIsSound(v)'
  <2>1. q # NotThere /\ bundle # Nothing
    BY <1>3, <1>4, NothingAssumption DEF NotThere, BundleNumbers
  <2> QED BY <1>2, <1>4, <1>5, <1>6, <2>1 DEF VisitIsSound
<1>10. served' \in SUBSET BundleNumbers
  BY <1>0, <1>1, <1>3 DEF BundleTypes
<1> QED BY <1>1, <1>4, <1>5, <1>6, <1>7, <1>8, <1>9, <1>10 DEF s

(* A bundle that another server has published is taken over. *)
LEMMA AdoptKeeps ==
    ASSUME BundleIInv, NEW v \in Visitors, Adopt(v)
    PROVE  BundleIInv'
<1>0. /\ BundleTypes /\ VisitIsSound(v) /\ SharedIsThere /\ StolenByExpiry
      /\ visitor[v].pc = "adopt" /\ UNCHANGED <<shared, herdLock, mishaps>> /\ Keep(v, "answered")
  BY DEF BundleIInv, Adopt, VisitorAt
<1>1. MishapsGrow
  BY <1>0, MishapCounters
<1>2. /\ held' \in [WebServers -> BundleNumbers \cup {Nothing}]
      /\ visitor' \in [Visitors -> Visits]
      /\ served' \in SUBSET BundleNumbers
      /\ \A w \in Visitors : w # v => visitor'[w] = visitor[w]
      /\ visitor'[v].pc = "answered"
      /\ MemoriesOnlyFill /\ HeldIsServed' /\ VisitIsSound(v)'
  BY <1>0, <1>1, KeepFills
<1>3. BundleTypes'
  BY <1>0, <1>2 DEF BundleTypes
<1>4. SharedIsThere'
  <2>1. served # {} /\ served \in SUBSET served'
    BY <1>0, <1>2 DEF VisitIsSound, MemoriesOnlyFill
  <2> QED BY <1>0, <2>1 DEF SharedIsThere
<1>5. StolenByExpiry'
  BY <1>0 DEF StolenByExpiry
<1> QED BY <1>0, <1>1, <1>2, <1>3, <1>4, <1>5, VisitorMoves

(* set: the bundle that was computed is published. *)
LEMMA PublishKeeps ==
    ASSUME BundleIInv, NEW v \in Visitors, Publish(v) \/ PublishFails(v)
    PROVE  BundleIInv'
<1>0. /\ BundleTypes /\ VisitIsSound(v) /\ SharedIsThere /\ StolenByExpiry
      /\ visitor[v].pc = "publish" /\ UNCHANGED herdLock /\ Keep(v, AfterPublish(v))
      /\ AfterPublish(v) \in {"release", "answered"}
  BY DEF BundleIInv, Publish, PublishFails, VisitorAt, AfterPublish
<1>1. \/ mishaps' = mishaps /\ shared' = held'[visitor[v].at]
      \/ mishaps' = [mishaps EXCEPT !.outages = @ + 1] /\ shared' = shared
  BY DEF Publish, PublishFails, Outage
<1>2. /\ mishaps' \in Mishaps /\ MishapsGrow /\ mishaps'.lost = mishaps.lost
      /\ mishaps'.made = mishaps.made /\ mishaps'.visits = mishaps.visits
      /\ mishaps'.unscripted = mishaps.unscripted /\ mishaps'.stolen = mishaps.stolen
      /\ mishaps' = mishaps \/ mishaps'.outages # 0
  BY <1>0, <1>1, MishapCounters
<1>3. /\ held' \in [WebServers -> BundleNumbers \cup {Nothing}]
      /\ visitor' \in [Visitors -> Visits]
      /\ served' \in SUBSET BundleNumbers
      /\ \A w \in Visitors : w # v => visitor'[w] = visitor[w]
      /\ visitor'[v].pc \in {"release", "answered"}
      /\ held'[visitor[v].at] \in served'
      /\ MemoriesOnlyFill /\ HeldIsServed' /\ VisitIsSound(v)'
  BY <1>0, <1>2, KeepFills
<1>4. shared' \in Nat \cup {Nothing} /\ (shared' = shared \/ shared' \in served')
  BY <1>0, <1>1, <1>3 DEF BundleTypes, BundleNumbers
<1>5. BundleTypes'
  BY <1>0, <1>2, <1>3, <1>4 DEF BundleTypes
<1>6. SharedIsThere'
  <2>1. shared' \in served' \cup {Nothing, Old}
    BY <1>0, <1>3, <1>4 DEF SharedIsThere, MemoriesOnlyFill
  <2>2. ASSUME mishaps'.lost = 0, mishaps'.outages = 0
        PROVE  shared' \notin {Nothing, Old}
    <3>1. mishaps' = mishaps /\ shared' = held'[visitor[v].at]
      BY <1>0, <1>1, <1>2, <2>2, MishapCounters
    <3>2. shared' \in BundleNumbers
      BY <1>3, <3>1
    <3> QED BY <3>2, NothingAssumption DEF BundleNumbers, Old
  <2> QED BY <2>1, <2>2 DEF SharedIsThere
<1>7. StolenByExpiry'
  BY <1>0, <1>2 DEF StolenByExpiry
<1> QED BY <1>0, <1>2, <1>3, <1>5, <1>6, <1>7, VisitorMoves

-----------------------------------------------------------------------------
(* Steps that change the lock in Redis but no memory. *)
LEMMA TakeLockKeeps ==
    ASSUME BundleIInv, NEW v \in Visitors, TakeHerdLock(v) \/ TakeHerdLockFails(v)
    PROVE  BundleIInv'
<1>0. /\ BundleTypes /\ VisitIsSound(v) /\ HeldIsServed /\ SharedIsThere /\ StolenByExpiry
      /\ visitor[v].pc = "lock" /\ UNCHANGED <<held, shared, served>>
      /\ visitor[v] \in Visits
      /\ herdLock' = herdLock \/ (herdLock = Nothing /\ herdLock' = v)
      /\ mishaps' = mishaps \/ mishaps' = [mishaps EXCEPT !.outages = @ + 1]
  BY DEF BundleIInv, BundleTypes, TakeHerdLock, TakeHerdLockFails, VisitorAt, Outage
<1>1. \E locked \in BOOLEAN :
        visitor' = [visitor EXCEPT ![v] = [visitor[v] EXCEPT !.pc = "compute", !.locked = locked]]
  <2>1. CASE TakeHerdLock(v)
    <3>1. visitor' = [visitor EXCEPT ![v] = [visitor[v] EXCEPT !.pc = "compute", !.locked = (herdLock = Nothing)]]
      BY <1>0, <2>1 DEF TakeHerdLock, BundleTypes
    <3>2. (herdLock = Nothing) \in BOOLEAN
      OBVIOUS
    <3> QED BY <3>1, <3>2
  <2>2. CASE TakeHerdLockFails(v)
    <3>1. visitor' = [visitor EXCEPT ![v] = [visitor[v] EXCEPT !.pc = "compute"]]
      BY <1>0, <2>2 DEF TakeHerdLockFails, To, BundleTypes
    <3>2. [visitor[v] EXCEPT !.pc = "compute"] = [visitor[v] EXCEPT !.pc = "compute", !.locked = visitor[v].locked]
      BY <1>0 DEF Visits
    <3>3. visitor[v].locked \in BOOLEAN
      BY <1>0 DEF Visits
    <3> QED BY <3>1, <3>2, <3>3
  <2> QED BY <2>1, <2>2
<1>2. PICK locked \in BOOLEAN :
        visitor' = [visitor EXCEPT ![v] = [visitor[v] EXCEPT !.pc = "compute", !.locked = locked]]
  BY <1>1
<1> DEFINE q == [visitor[v] EXCEPT !.pc = "compute", !.locked = locked]
<1>3. q \in Visits /\ q.at = visitor[v].at /\ q.pc = "compute" /\ q.afresh = visitor[v].afresh
  BY <1>0 DEF Visits, VisitStates
<1>4. visitor' = [visitor EXCEPT ![v] = q]
  BY <1>2
<1> HIDE DEF q
<1>5. /\ visitor' \in [Visitors -> Visits] /\ visitor'[v] = q
      /\ \A w \in Visitors : w # v => visitor'[w] = visitor[w]
  BY <1>0, <1>3, <1>4, VisitorGoes
<1>6. /\ mishaps' \in Mishaps /\ MishapsGrow /\ mishaps'.lost = mishaps.lost
      /\ mishaps'.made = mishaps.made /\ mishaps'.visits = mishaps.visits
      /\ mishaps'.outages = 0 => mishaps.outages = 0
      /\ mishaps'.unscripted = mishaps.unscripted /\ mishaps'.stolen = mishaps.stolen
  BY <1>0, MishapCounters
<1>7. BundleTypes' /\ MemoriesOnlyFill
  BY <1>0, <1>5, <1>6 DEF BundleTypes, MemoriesOnlyFill
<1>8. \A w \in Visitors : w # v /\ herdLock = w => herdLock' = w
  BY <1>0, NothingAssumption
<1>9. VisitIsSound(v)'
  <2>1. q # NotThere /\ q.at \in WebServers
    BY <1>0, <1>3 DEF NotThere, VisitIsSound
  <2>2. mishaps'.lost = 0 /\ mishaps'.outages = 0 => q.afresh = TRUE
    BY <1>0, <1>3, <1>6 DEF VisitIsSound
  <2> QED BY <1>0, <1>3, <1>5, <2>1, <2>2 DEF VisitIsSound
<1>10. HeldIsServed' /\ SharedIsThere' /\ StolenByExpiry'
  BY <1>0, <1>6 DEF HeldIsServed, SharedIsThere, StolenByExpiry
<1> QED BY <1>0, <1>3, <1>5, <1>6, <1>7, <1>8, <1>9, <1>10, VisitorMoves

(* The lock is released, asked about without scripts, or deleted. *)
LEMMA ReleaseKeeps ==
    ASSUME BundleIInv, NEW v \in Visitors, Release(v) \/ ReleaseFails(v) \/ DropHerdLock(v)
    PROVE  BundleIInv'
<1>0. /\ BundleTypes /\ \A w \in Visitors : VisitIsSound(w)
      /\ HeldIsServed /\ SharedIsThere /\ StolenByExpiry
      /\ visitor[v].pc \in {"release", "delete"} /\ UNCHANGED <<held, shared, served>>
      /\ visitor[v] \in Visits
  BY DEF BundleIInv, BundleTypes, Release, ReleaseFails, DropHerdLock, VisitorAt
<1>1. /\ mishaps \in Mishaps /\ mishaps.lost \in Nat /\ mishaps.outages \in Nat
      /\ mishaps.stolen \in BOOLEAN /\ mishaps.unscripted \in BOOLEAN
  BY <1>0 DEF BundleTypes, Mishaps
<1>2. PICK label \in {"answered", "delete"} :
        /\ visitor' = [visitor EXCEPT ![v] = [visitor[v] EXCEPT !.pc = label]]
        /\ label = "delete" => ReleaseFails(v) /\ herdLock = v
  <2>1. Release(v) \/ DropHerdLock(v) => To(v, "answered")
    BY DEF Release, DropHerdLock
  <2>2. ReleaseFails(v) => (herdLock = v /\ To(v, "delete")) \/ To(v, "answered")
    BY DEF ReleaseFails
  <2>3. \A label : To(v, label) => visitor' = [visitor EXCEPT ![v] = [visitor[v] EXCEPT !.pc = label]]
    BY <1>0 DEF To, BundleTypes
  <2> QED BY <2>1, <2>2, <2>3
<1> DEFINE q == [visitor[v] EXCEPT !.pc = label]
<1>3. q \in Visits /\ q.at = visitor[v].at /\ q.pc = label /\ q.bundle = visitor[v].bundle
  BY <1>0 DEF Visits, VisitStates
<1>4. visitor' = [visitor EXCEPT ![v] = q]
  BY <1>2
<1> HIDE DEF q
<1>5. /\ visitor' \in [Visitors -> Visits] /\ visitor'[v] = q
      /\ \A w \in Visitors : w # v => visitor'[w] = visitor[w]
  BY <1>0, <1>3, <1>4, VisitorGoes
<1>6. \A w \in Visitors : w # v /\ herdLock = w => herdLock' = w \/ mishaps'.lost > 0
  <2>1. CASE DropHerdLock(v)
    <3>1. mishaps' = [mishaps EXCEPT !.stolen = @ \/ herdLock \notin {v, Nothing}] /\ visitor[v].pc = "delete"
      BY <2>1 DEF DropHerdLock, VisitorAt
    <3>2. mishaps'.lost = mishaps.lost
      BY <1>1, <3>1 DEF Mishaps
    <3>3. herdLock = v \/ mishaps.lost > 0
      BY <1>0, <3>1 DEF VisitIsSound
    <3> QED BY <3>2, <3>3
  <2>2. CASE Release(v) \/ ReleaseFails(v)
    BY <2>2 DEF Release, ReleaseFails
  <2> QED BY <2>1, <2>2
<1>7. /\ mishaps' \in Mishaps /\ MishapsGrow /\ mishaps'.lost = mishaps.lost
      /\ mishaps'.made = mishaps.made /\ mishaps'.visits = mishaps.visits
      /\ mishaps'.outages = 0 => mishaps.outages = 0
      /\ ReleaseFails(v) => mishaps'.unscripted = TRUE
      /\ mishaps'.stolen = TRUE => mishaps.stolen = TRUE \/ (DropHerdLock(v) /\ herdLock \notin {v, Nothing})
      /\ mishaps.unscripted = TRUE => mishaps'.unscripted = TRUE
  <2>1. CASE Release(v) /\ ~ReleaseFails(v)
    <3>1. mishaps' = mishaps
      BY <2>1 DEF Release
    <3> QED BY <1>1, <2>1, <3>1 DEF MishapsGrow
  <2>2. CASE ReleaseFails(v)
    <3>0. PICK n \in Nat : n = mishaps.outages + 1
      BY <1>1
    <3>1. mishaps' = [mishaps EXCEPT !.outages = n, !.unscripted = TRUE]
      BY <2>2, <3>0 DEF ReleaseFails
    <3>2. /\ mishaps' \in Mishaps /\ mishaps'.lost = mishaps.lost
          /\ mishaps'.outages = n /\ mishaps'.unscripted = TRUE
          /\ mishaps'.made = mishaps.made /\ mishaps'.visits = mishaps.visits
          /\ mishaps'.stolen = mishaps.stolen
      BY <1>1, <3>1 DEF Mishaps
    <3>3. MishapsGrow /\ mishaps'.outages # 0
      BY <1>1, <3>0, <3>2 DEF MishapsGrow
    <3> QED BY <3>2, <3>3
  <2>3. CASE DropHerdLock(v) /\ ~ReleaseFails(v)
    <3> DEFINE b == mishaps.stolen \/ herdLock \notin {v, Nothing}
    <3>1. mishaps' = [mishaps EXCEPT !.stolen = b]
      BY <2>3 DEF DropHerdLock
    <3>2. b \in BOOLEAN /\ (b = TRUE => mishaps.stolen = TRUE \/ herdLock \notin {v, Nothing})
      BY <1>1
    <3> HIDE DEF b
    <3>3. /\ mishaps' \in Mishaps /\ mishaps'.lost = mishaps.lost /\ mishaps'.outages = mishaps.outages
          /\ mishaps'.made = mishaps.made /\ mishaps'.visits = mishaps.visits
          /\ mishaps'.unscripted = mishaps.unscripted /\ mishaps'.stolen = b
      BY <1>1, <3>1, <3>2 DEF Mishaps
    <3>4. MishapsGrow
      BY <1>1, <3>3 DEF MishapsGrow
    <3> QED BY <2>3, <3>2, <3>3, <3>4
  <2> QED BY <2>1, <2>2, <2>3
<1>8. herdLock' \in Visitors \cup {Nothing}
  BY <1>0 DEF Release, ReleaseFails, DropHerdLock, BundleTypes
<1>9. BundleTypes' /\ MemoriesOnlyFill
  BY <1>0, <1>5, <1>7, <1>8 DEF BundleTypes, MemoriesOnlyFill
<1>10. VisitIsSound(v)'
  <2>1. q # NotThere /\ q.at \in WebServers
    BY <1>0, <1>3 DEF NotThere, VisitIsSound
  <2>2. q.bundle = held[q.at] /\ q.bundle # Nothing
    BY <1>0, <1>3 DEF VisitIsSound
  <2>3. q.pc = "delete" => mishaps'.unscripted = TRUE /\ herdLock' = v
    BY <1>2, <1>3, <1>7 DEF ReleaseFails
  <2> QED BY <1>0, <1>3, <1>5, <2>1, <2>2, <2>3 DEF VisitIsSound
<1>11. HeldIsServed' /\ SharedIsThere'
  BY <1>0, <1>7 DEF HeldIsServed, SharedIsThere
<1>12. StolenByExpiry'
  <2>1. CASE mishaps.stolen = TRUE
    BY <1>0, <1>7, <2>1 DEF StolenByExpiry
  <2>2. CASE DropHerdLock(v) /\ herdLock \notin {v, Nothing}
    <3>1. mishaps.unscripted = TRUE /\ mishaps.lost > 0
      BY <1>0, <2>2 DEF DropHerdLock, VisitorAt, VisitIsSound
    <3> QED BY <1>7, <3>1 DEF StolenByExpiry
  <2> QED BY <1>7, <2>1, <2>2 DEF StolenByExpiry
<1>13. visitor'[v].pc \notin {"look", "lock", "compute"}
  BY <1>3, <1>5
<1> QED BY <1>5, <1>6, <1>7, <1>9, <1>10, <1>11, <1>12, <1>13, VisitorMoves

(* A visit is over. *)
LEMMA DepartKeeps ==
    ASSUME BundleIInv, NEW v \in Visitors, Depart(v)
    PROVE  BundleIInv'
<1>0. /\ BundleTypes /\ HeldIsServed /\ SharedIsThere /\ StolenByExpiry
      /\ UNCHANGED <<held, shared, served, herdLock, mishaps>>
      /\ visitor' = [visitor EXCEPT ![v] = NotThere]
  BY DEF BundleIInv, Depart
<1>1. NotThere \in Visits /\ NotThere.pc = "away"
  BY DEF NotThere, Visits, VisitStates
<1>2. /\ visitor' \in [Visitors -> Visits] /\ visitor'[v] = NotThere
      /\ \A w \in Visitors : w # v => visitor'[w] = visitor[w]
  BY <1>0, <1>1, VisitorGoes
<1>3. BundleTypes' /\ MemoriesOnlyFill /\ MishapsGrow
  BY <1>0, <1>2, MishapCounters DEF BundleTypes, MemoriesOnlyFill
<1>4. VisitIsSound(v)'
  BY <1>1, <1>2 DEF VisitIsSound
<1>5. HeldIsServed' /\ SharedIsThere' /\ StolenByExpiry'
  BY <1>0 DEF HeldIsServed, SharedIsThere, StolenByExpiry
<1> QED BY <1>0, <1>1, <1>2, <1>3, <1>4, <1>5, VisitorMoves

(* The bundle is computed, with the lock or without it. *)
LEMMA ComputeKeeps ==
    ASSUME BundleIInv, NEW v \in Visitors, ComputeBundle(v)
    PROVE  BundleIInv'
<1>0. /\ BundleTypes /\ \A w \in Visitors : VisitIsSound(w)
      /\ HeldIsServed /\ SharedIsThere /\ StolenByExpiry /\ OneBundlePerVisit
      /\ visitor[v].pc = "compute" /\ UNCHANGED <<held, shared, herdLock, served>>
      /\ mishaps' = [mishaps EXCEPT !.made = @ + 1] /\ visitor[v] \in Visits
  BY DEF BundleIInv, ComputeBundle, VisitorAt, BundleTypes
<1>1. /\ mishaps' \in Mishaps /\ mishaps'.visits = mishaps.visits /\ mishaps'.made = mishaps.made + 1
      /\ mishaps'.lost = mishaps.lost /\ mishaps'.outages = mishaps.outages
      /\ mishaps'.unscripted = mishaps.unscripted /\ mishaps'.stolen = mishaps.stolen
      /\ mishaps.visits \in Nat /\ mishaps.made \in Nat /\ mishaps.lost \in Nat /\ mishaps.outages \in Nat
  BY <1>0 DEF BundleTypes, Mishaps
<1>10. PICK n \in BundleNumbers : n = mishaps.made + 1
  BY <1>1 DEF BundleNumbers
<1> DEFINE q == [visitor[v] EXCEPT !.pc = "publish", !.bundle = n]
<1>2. visitor' = [visitor EXCEPT ![v] = q]
  BY <1>0, <1>10 DEF ComputeBundle, BundleTypes
<1>3. /\ q \in Visits /\ q.at = visitor[v].at /\ q.pc = "publish" /\ q.bundle \in BundleNumbers
      /\ q.afresh = visitor[v].afresh
  BY <1>0, <1>1 DEF Visits, VisitStates, BundleNumbers
<1> HIDE DEF q
<1>4. /\ visitor' \in [Visitors -> Visits] /\ visitor'[v] = q
      /\ \A w \in Visitors : w # v => visitor'[w] = visitor[w]
  BY <1>0, <1>2, <1>3, VisitorGoes
<1>5. BundleTypes' /\ MemoriesOnlyFill /\ MishapsGrow
  BY <1>0, <1>1, <1>4 DEF BundleTypes, MemoriesOnlyFill, MishapsGrow
<1>6. VisitIsSound(v)'
  <2>1. q # NotThere /\ q.at \in WebServers
    BY <1>0, <1>3 DEF NotThere, VisitIsSound
  <2>2. mishaps'.lost = 0 /\ mishaps'.outages = 0 => q.afresh = TRUE
    BY <1>0, <1>1, <1>3 DEF VisitIsSound
  <2> QED BY <1>3, <1>4, <2>1, <2>2 DEF VisitIsSound
<1>7. ASSUME NEW w \in Visitors, w # v
      PROVE  VisitIsSound(w)'
  BY <1>0, <1>4, <1>5, <1>7, OthersStaySound
<1>8. HeldIsServed' /\ SharedIsThere' /\ StolenByExpiry'
  BY <1>0, <1>1 DEF HeldIsServed, SharedIsThere, StolenByExpiry
<1>9. OneBundlePerVisit'
  <2>1. PICK U : U = Undecided
    OBVIOUS
  <2>2. PICK V : V = Undecided'
    OBVIOUS
  <2>3. V = U \ {v} /\ v \in U
    <3>1. v \in U /\ v \notin V
      BY <1>0, <1>3, <1>4, <2>1, <2>2 DEF Undecided
    <3>2. \A w \in Visitors : w # v => (w \in V <=> w \in U)
      BY <1>4, <2>1, <2>2 DEF Undecided
    <3>3. V \in SUBSET Visitors /\ U \in SUBSET Visitors
      BY <2>1, <2>2 DEF Undecided
    <3> QED BY <3>1, <3>2, <3>3
  <2>4. IsFiniteSet(U) /\ mishaps.made + Cardinality(U) <= mishaps.visits
    BY <1>0, <2>1 DEF OneBundlePerVisit
  <2>5. IsFiniteSet(V) /\ Cardinality(V) = Cardinality(U) - 1 /\ Cardinality(U) \in Nat
    BY <2>3, <2>4, FS_RemoveElement, FS_CardinalityType
  <2>6. mishaps'.made + Cardinality(V) <= mishaps'.visits
    BY <1>1, <2>4, <2>5
  <2> QED BY <2>2, <2>5, <2>6 DEF OneBundlePerVisit
<1> QED BY <1>5, <1>6, <1>7, <1>8, <1>9 DEF BundleIInv

(* A key of Redis expires. *)
LEMMA ExpiryKeeps ==
    ASSUME BundleIInv, BundleExpires \/ LockExpires
    PROVE  BundleIInv'
<1>0. /\ BundleTypes /\ \A w \in Visitors : VisitIsSound(w)
      /\ HeldIsServed /\ SharedIsThere /\ StolenByExpiry /\ OneBundlePerVisit
      /\ UNCHANGED <<held, visitor, served>> /\ mishaps' = [mishaps EXCEPT !.lost = @ + 1]
      /\ shared' \in {shared, Nothing} /\ herdLock' \in {herdLock, Nothing}
  BY DEF BundleIInv, BundleExpires, LockExpires, Lose
<1>1. /\ mishaps' \in Mishaps /\ MishapsGrow
      /\ mishaps'.made = mishaps.made /\ mishaps'.visits = mishaps.visits
      /\ mishaps'.lost = mishaps.lost + 1 /\ mishaps.lost \in Nat
      /\ mishaps'.unscripted = mishaps.unscripted /\ mishaps'.stolen = mishaps.stolen
  BY <1>0, MishapCounters
<1>2. mishaps'.lost > 0 /\ mishaps'.lost # 0
  BY <1>1
<1>3. BundleTypes' /\ MemoriesOnlyFill
  BY <1>0, <1>1 DEF BundleTypes, MemoriesOnlyFill
<1>4. ASSUME NEW w \in Visitors
      PROVE  VisitIsSound(w)'
  BY <1>0, <1>1, <1>2, <1>3, OthersStaySound
<1>5. HeldIsServed' /\ SharedIsThere' /\ StolenByExpiry'
  BY <1>0, <1>1, <1>2 DEF HeldIsServed, SharedIsThere, StolenByExpiry
<1>6. OneBundlePerVisit'
  <2>1. Undecided' \in SUBSET Undecided
    BY <1>0 DEF Undecided
  <2> QED BY <1>0, <1>1, <2>1, FewerUndecided
<1> QED BY <1>3, <1>4, <1>5, <1>6 DEF BundleIInv

(* A restart empties one memory and ends the visits of its process. *)
LEMMA RebootKeeps ==
    ASSUME BundleIInv, NEW s \in WebServers, Reboot(s)
    PROVE  BundleIInv'
<1>0. /\ BundleTypes /\ \A w \in Visitors : VisitIsSound(w)
      /\ HeldIsServed /\ SharedIsThere /\ StolenByExpiry /\ OneBundlePerVisit
      /\ UNCHANGED <<shared, herdLock, served>> /\ mishaps' = [mishaps EXCEPT !.reboots = @ + 1]
      /\ held' = [held EXCEPT ![s] = Nothing]
      /\ visitor' = [v \in Visitors |-> IF visitor[v].at = s THEN NotThere ELSE visitor[v]]
  BY DEF BundleIInv, Reboot
<1>1. /\ mishaps' \in Mishaps
      /\ mishaps'.made = mishaps.made /\ mishaps'.visits = mishaps.visits
      /\ mishaps'.lost = mishaps.lost /\ mishaps'.outages = mishaps.outages
      /\ mishaps'.unscripted = mishaps.unscripted /\ mishaps'.stolen = mishaps.stolen
  BY <1>0 DEF BundleTypes, Mishaps
<1>2. NotThere \in Visits /\ NotThere.pc = "away"
  BY DEF NotThere, Visits, VisitStates
<1>3. \A v \in Visitors : visitor'[v] = NotThere \/ (visitor'[v] = visitor[v] /\ visitor[v].at # s)
  BY <1>0
<1>4. /\ held' \in [WebServers -> BundleNumbers \cup {Nothing}] /\ held'[s] = Nothing
      /\ \A z \in WebServers : z # s => held'[z] = held[z]
  BY <1>0 DEF BundleTypes
<1>5. BundleTypes'
  <2>1. visitor' \in [Visitors -> Visits]
    BY <1>0, <1>2 DEF BundleTypes
  <2> QED BY <1>0, <1>1, <1>4, <2>1 DEF BundleTypes
<1>6. ASSUME NEW v \in Visitors
      PROVE  VisitIsSound(v)'
  <2>1. CASE visitor'[v] = NotThere
    BY <1>2, <2>1 DEF VisitIsSound
  <2>2. CASE visitor'[v] = visitor[v] /\ visitor[v].at # s
    <3>1. visitor[v].pc # "away" => held'[visitor[v].at] = held[visitor[v].at]
      BY <1>0, <1>4, <2>2 DEF VisitIsSound
    <3>2. VisitIsSound(v)
      BY <1>0
    <3> QED BY <1>0, <1>1, <2>2, <3>1, <3>2 DEF VisitIsSound
  <2> QED BY <1>3, <2>1, <2>2
<1>7. HeldIsServed' /\ SharedIsThere' /\ StolenByExpiry'
  BY <1>0, <1>1, <1>4 DEF HeldIsServed, SharedIsThere, StolenByExpiry
<1>8. OneBundlePerVisit'
  <2>1. Undecided' \in SUBSET Undecided
    BY <1>2, <1>3 DEF Undecided
  <2> QED BY <1>0, <1>1, <2>1, FewerUndecided
<1> QED BY <1>5, <1>6, <1>7, <1>8 DEF BundleIInv

-----------------------------------------------------------------------------
(* In the life of a process all that is answered is of one bundle; what is *)
(* in Redis has been served; without lost keys and failed calls no bundle  *)
(* is begun after one was served; nobody takes the lock of another unless  *)
(* scripts fail and it has expired.                                        *)
THEOREM BundleIsOne == BundleSpec => []BundleInv
<1>1. BundleInit => BundleIInv
  <2> SUFFICES ASSUME BundleInit PROVE BundleIInv
    OBVIOUS
  <2>0. /\ held = [s \in WebServers |-> Nothing] /\ shared \in {Nothing, Old} /\ herdLock = Nothing
        /\ visitor = [v \in Visitors |-> NotThere] /\ served = {}
        /\ mishaps \in Mishaps /\ mishaps.made = 0 /\ mishaps.visits = 0 /\ mishaps.stolen = FALSE
        /\ NotThere \in Visits /\ NotThere.pc = "away"
    BY DEF BundleInit, Mishaps, NotThere, Visits, VisitStates
  <2>1. BundleTypes
    BY <2>0 DEF BundleTypes, Old
  <2>2. \A v \in Visitors : VisitIsSound(v)
    BY <2>0 DEF VisitIsSound
  <2>3. HeldIsServed /\ SharedIsThere /\ StolenByExpiry
    BY <2>0 DEF HeldIsServed, SharedIsThere, StolenByExpiry
  <2>4. OneBundlePerVisit
    <3>1. Undecided = {}
      BY <2>0 DEF Undecided
    <3>2. IsFiniteSet({}) /\ Cardinality({}) = 0
      BY FS_EmptySet
    <3> QED BY <2>0, <3>1, <3>2 DEF OneBundlePerVisit
  <2> QED BY <2>1, <2>2, <2>3, <2>4 DEF BundleIInv
<1>2. BundleIInv /\ [BundleNext]_bundleVars => BundleIInv'
  <2> SUFFICES ASSUME BundleIInv, [BundleNext]_bundleVars PROVE BundleIInv'
    OBVIOUS
  <2>1. CASE UNCHANGED bundleVars
    BY <2>1 DEF bundleVars, BundleIInv, BundleTypes, VisitIsSound, HeldIsServed, SharedIsThere,
                StolenByExpiry, OneBundlePerVisit, Undecided
  <2>2. CASE BundleNext
    BY <2>2, LookInMemoryKeeps, LookInRedisKeeps, LookFailsKeeps, AdoptKeeps, TakeLockKeeps,
       ComputeKeeps, PublishKeeps, ReleaseKeeps, DepartKeeps, ExpiryKeeps, RebootKeeps
       DEF BundleNext, VisitorStep
  <2> QED BY <2>1, <2>2
<1>3. BundleIInv => BundleInv
  <2> SUFFICES ASSUME BundleIInv PROVE BundleInv
    OBVIOUS
  <2>1. BundleType
    <3>1. mishaps.made <= mishaps.visits
      <4>1. Cardinality(Undecided) \in Nat /\ mishaps.made + Cardinality(Undecided) <= mishaps.visits
            /\ mishaps.made \in Nat /\ mishaps.visits \in Nat
        BY FS_CardinalityType DEF BundleIInv, OneBundlePerVisit, BundleTypes, Mishaps
      <4> QED BY <4>1
    <3> QED BY <3>1 DEF BundleIInv, VisitIsSound, HeldIsServed, BundleType, VisitorAt
  <2>2. OneBundlePerProcess /\ NewBundleIsNeeded
    BY DEF BundleIInv, VisitIsSound, OneBundlePerProcess, NewBundleIsNeeded
  <2>3. SharedIsServed
    BY DEF BundleIInv, SharedIsThere, SharedIsServed, BundleTypes, BundleNumbers, Old
  <2>4. LockIsOwn
    <3>1. mishaps.stolen \in BOOLEAN
      BY DEF BundleIInv, BundleTypes, Mishaps
    <3> QED BY <3>1 DEF BundleIInv, StolenByExpiry, LockIsOwn
  <2> QED BY <2>1, <2>2, <2>3, <2>4 DEF BundleInv
<1> QED BY <1>1, <1>2, <1>3, PTL DEF BundleSpec

-----------------------------------------------------------------------------
(***************************************************************************)
(* PitStore: a snapshot is what its manifest says.  Two writers that have  *)
(* a day in common dispute it, so that an undisputed row is lost by      *)
(* nobody's replacement: what a writer has found in a file still is what   *)
(* is there, as far as it is undisputed.                                   *)
(***************************************************************************)

Rows == [snapshot : Snapshots, known : Nat]

RowsOf(rows, s) == {entry \in rows : entry.snapshot = s}

First(days) == CHOOSE d \in days : \A e \in days : d <= e

Dailies == [at : {"read", "replace", "index"}, snapshot : Snapshots, stated : KnowableAt,
            todo : SUBSET Dates, found : SUBSET Rows]

PitTypes ==
    /\ part \in [Dates -> SUBSET Rows]
    /\ manifest \in [Snapshots -> KnowableAt \cup {Absent}]
    /\ firstStated \in [Snapshots -> KnowableAt \cup {Absent}]
    /\ pitWriter \in [PitWriters -> Dailies \cup {NoDaily}]
    /\ rivals \in SUBSET (Snapshots \X Dates)
    /\ dailies \in 0 .. MaxDailies /\ reads \in 0 .. MaxReads

(* The row of s in the file of d is the one that is stated, and no other. *)
IsStored(s, stated, d) == RowsOf(part[d], s) = {DailyBar(s, stated, d)}

(* A writer has stored the days it is through with, knows the rest of the  *)
(* file it is about to replace, and has the snapshot to itself or disputes *)
(* it.                                                                     *)
WriterIsSound(w) ==
    LET q == pitWriter[w] IN
    q # NoDaily =>
        /\ q.todo \in SUBSET DatesOf[q.snapshot]
        /\ q.at = "index" <=> q.todo = {}
        /\ \A d \in DatesOf[q.snapshot] \ q.todo :
              part[d] # {} /\ (Undisputed(q.snapshot, d) => IsStored(q.snapshot, q.stated, d))
        /\ q.at = "replace" =>
              /\ \A x \in Snapshots : x # q.snapshot /\ Undisputed(x, First(q.todo)) =>
                    RowsOf(q.found, x) = RowsOf(part[First(q.todo)], x)
              /\ \A entry \in q.found : First(q.todo) \in DatesOf[entry.snapshot]
        /\ manifest[q.snapshot] # Absent =>
              \A d \in DatesOf[q.snapshot] : ~Undisputed(q.snapshot, d)

RivalsDispute ==
    \A v, w \in PitWriters :
        v # w /\ pitWriter[v] # NoDaily /\ pitWriter[w] # NoDaily =>
            \A d \in DatesOf[pitWriter[v].snapshot] \cap DatesOf[pitWriter[w].snapshot] :
                ~Undisputed(pitWriter[v].snapshot, d) /\ ~Undisputed(pitWriter[w].snapshot, d)

(* What a manifest says is stored, and was said first. *)
SnapshotIsSound(s) ==
    /\ manifest[s] = Absent <=> firstStated[s] = Absent
    /\ manifest[s] # Absent =>
         \A d \in DatesOf[s] :
            part[d] # {} /\ (Undisputed(s, d) => manifest[s] = firstStated[s] /\ IsStored(s, manifest[s], d))

RowsBelong == \A d \in Dates : \A entry \in part[d] : d \in DatesOf[entry.snapshot]

(* A reader has what it should of the files it has read, and nothing of the others. *)
Bars == [date : Dates, known : Nat]

Questions == [at : {"scan", "answered"}, snapshot : Snapshots, day : 0 .. LastDay,
              files : SUBSET Dates, bars : SUBSET Bars]

OfDay(bars, d) == {b \in bars : b.date = d}

ReaderIsSound(r) ==
    LET q == pitReader[r] IN
    q # NoQuestion =>
        /\ q \in Questions
        /\ manifest[q.snapshot] # Absent
        /\ q.at = "answered" <=> q.files = {}
        /\ \A b \in q.bars : b.date \in DatesOf[q.snapshot] /\ b.date <= q.day /\ b.known <= q.day
                             /\ b.date \notin q.files
        /\ \A d \in DatesOf[q.snapshot] : Undisputed(q.snapshot, d) /\ d \notin q.files =>
              OfDay(q.bars, d) = OfDay(SnapshotAsOf(q.snapshot, q.day), d)

WritersIInv ==
    /\ PitTypes
    /\ \A w \in PitWriters : WriterIsSound(w)
    /\ RivalsDispute
    /\ \A s \in Snapshots : SnapshotIsSound(s)
    /\ RowsBelong

ReadersIInv ==
    pitReader \in [PitReaders -> Questions \cup {NoQuestion}] /\ \A r \in PitReaders : ReaderIsSound(r)

-----------------------------------------------------------------------------
(* The dates of a snapshot are days. *)
LEMMA DatesAreNumbers ==
    /\ Dates \in SUBSET Nat
    /\ \A s \in Snapshots : DatesOf[s] \in SUBSET Dates /\ DatesOf[s] # {}
BY PitAssumption DEF Dates

(* The first of some days is one of them. *)
LEMMA FirstIsOne ==
    ASSUME NEW days \in SUBSET Dates, days # {}
    PROVE  First(days) \in days
<1>1. days \in SUBSET Nat
  BY DatesAreNumbers
<1>2. \E d \in days : \A e \in days : d <= e
  BY <1>1, LeastNumber
<1> QED BY <1>2 DEF First

(* A daily task is under way. *)
LEMMA DailyIsNot == \A q \in Dailies : q # NoDaily /\ q.at # "idle"
BY DEF Dailies, NoDaily

(* The bars in a file are rows of it. *)
LEMMA BarsAreRows ==
    ASSUME NEW s \in Snapshots, NEW stated \in KnowableAt, NEW d \in Dates
    PROVE  DailyBar(s, stated, d) \in Rows /\ DailyBar(s, stated, d).snapshot = s
           /\ DailyBar(s, stated, d).known = Known(stated, d) /\ Known(stated, d) \in Nat
<1>1. Known(stated, d) \in Nat
  BY PitAssumption, DatesAreNumbers DEF Known
<1> QED BY <1>1 DEF DailyBar, Rows

(* A writer whose files, whose snapshot's manifest and whose disputes stay. *)
LEMMA WriterStays ==
    ASSUME PitTypes, NEW w \in PitWriters, WriterIsSound(w), pitWriter'[w] = pitWriter[w],
           UNCHANGED <<part, manifest>>, rivals \in SUBSET rivals'
    PROVE  WriterIsSound(w)'
BY DEF WriterIsSound, Undisputed, IsStored

(* ... when writers only join in, or leave. *)
LEMMA WriteDailyKeeps ==
    ASSUME WritersIInv, NEW w \in PitWriters, NEW s \in Snapshots, NEW stated \in KnowableAt,
           WriteDaily(w, s, stated)
    PROVE  WritersIInv'
<1> DEFINE q == [at |-> "read", snapshot |-> s, stated |-> stated, todo |-> DatesOf[s], found |-> {}]
<1>0. /\ PitTypes /\ RivalsDispute /\ RowsBelong /\ \A v \in PitWriters : WriterIsSound(v)
      /\ \A x \in Snapshots : SnapshotIsSound(x)
      /\ pitWriter' = [pitWriter EXCEPT ![w] = q] /\ rivals' = rivals \cup Contested(w, s)
      /\ dailies' = dailies + 1 /\ dailies < MaxDailies /\ manifest[s] = Absent
      /\ UNCHANGED <<part, manifest, firstStated, reads>>
  BY DEF WritersIInv, WriteDaily
<1>1. q \in Dailies /\ q.snapshot = s /\ q.todo = DatesOf[s] /\ q.at = "read"
  BY DatesAreNumbers DEF Dailies
<1> HIDE DEF q
<1>2. /\ pitWriter' \in [PitWriters -> Dailies \cup {NoDaily}] /\ pitWriter'[w] = q
      /\ \A v \in PitWriters : v # w => pitWriter'[v] = pitWriter[v]
  BY <1>0, <1>1 DEF PitTypes
<1>3. \A v \in PitWriters : v # w /\ pitWriter[v] # NoDaily =>
        \A d \in DatesOf[s] \cap DatesOf[pitWriter[v].snapshot] :
            <<s, d>> \in Contested(w, s) /\ <<pitWriter[v].snapshot, d>> \in Contested(w, s)
  <2> SUFFICES ASSUME NEW v \in PitWriters, v # w, pitWriter[v] # NoDaily,
                      NEW d \in DatesOf[s] \cap DatesOf[pitWriter[v].snapshot]
               PROVE  <<s, d>> \in Contested(w, s) /\ <<pitWriter[v].snapshot, d>> \in Contested(w, s)
    OBVIOUS
  <2>1. pitWriter[v] \in Dailies
    BY <1>0 DEF PitTypes
  <2>2. v \in Busy \ {w}
    BY <2>1, DailyIsNot DEF Busy
  <2> QED BY <2>2 DEF Contested
<1>4. Contested(w, s) \in SUBSET (Snapshots \X Dates)
  <2>1. \A v \in Busy : pitWriter[v] \in Dailies
    BY <1>0 DEF Busy, PitTypes, NoDaily
  <2>2. \A v \in Busy : pitWriter[v].snapshot \in Snapshots
    BY <2>1 DEF Dailies
  <2>3. DatesOf[s] \in SUBSET Dates
    BY DatesAreNumbers
  <2> QED BY <2>2, <2>3 DEF Contested
<1>5. rivals \in SUBSET rivals' /\ Contested(w, s) \in SUBSET rivals'
  BY <1>0
<1>6. PitTypes'
  <2>1. dailies' \in 0 .. MaxDailies
    BY <1>0, PitAssumption DEF PitTypes
  <2>2. rivals' \in SUBSET (Snapshots \X Dates)
    BY <1>0, <1>4 DEF PitTypes
  <2> QED BY <1>0, <1>2, <2>1, <2>2 DEF PitTypes
<1>7. ASSUME NEW v \in PitWriters
      PROVE  WriterIsSound(v)'
  <2>1. CASE v = w
    <3>1. DatesOf[s] # {}
      BY DatesAreNumbers
    <3> QED BY <1>0, <1>1, <1>2, <2>1, <3>1 DEF WriterIsSound
  <2>2. CASE v # w
    BY <1>0, <1>2, <1>5, <2>2, WriterStays
  <2> QED BY <2>1, <2>2
<1>8. RivalsDispute'
  <2> SUFFICES ASSUME NEW v \in PitWriters, NEW u \in PitWriters, v # u,
                      pitWriter'[v] # NoDaily, pitWriter'[u] # NoDaily,
                      NEW d \in DatesOf[pitWriter'[v].snapshot] \cap DatesOf[pitWriter'[u].snapshot]
               PROVE  <<pitWriter'[v].snapshot, d>> \in rivals' /\ <<pitWriter'[u].snapshot, d>> \in rivals'
    BY DEF RivalsDispute, Undisputed
  <2>1. CASE v = w
    BY <1>1, <1>2, <1>3, <1>5, <2>1
  <2>2. CASE u = w
    BY <1>1, <1>2, <1>3, <1>5, <2>2
  <2>3. CASE v # w /\ u # w
    BY <1>0, <1>2, <1>5, <2>3 DEF RivalsDispute, Undisputed
  <2> QED BY <2>1, <2>2, <2>3
<1>9. ASSUME NEW x \in Snapshots
      PROVE  SnapshotIsSound(x)'
  BY <1>0, <1>5 DEF SnapshotIsSound, Undisputed, IsStored
<1>10. RowsBelong'
  BY <1>0 DEF RowsBelong
<1> QED BY <1>6, <1>7, <1>8, <1>9, <1>10 DEF WritersIInv

(* Nobody begins a snapshot. *)
LEMMA RivalsStay ==
    ASSUME RivalsDispute, UNCHANGED rivals,
           \A v \in PitWriters : pitWriter'[v] # NoDaily =>
               pitWriter[v] # NoDaily /\ pitWriter'[v].snapshot = pitWriter[v].snapshot
    PROVE  RivalsDispute'
BY DEF RivalsDispute, Undisputed

(* A writer reads the part that it is to replace. *)
LEMMA ReadPartKeeps ==
    ASSUME WritersIInv, NEW w \in PitWriters, ReadPart(w)
    PROVE  WritersIInv'
<1>0. /\ PitTypes /\ RivalsDispute /\ RowsBelong /\ \A v \in PitWriters : WriterIsSound(v)
      /\ \A x \in Snapshots : SnapshotIsSound(x)
      /\ pitWriter[w].at = "read"
      /\ UNCHANGED <<part, manifest, firstStated, rivals, dailies, reads>>
  BY DEF WritersIInv, ReadPart
<1>1. pitWriter[w] \in Dailies /\ pitWriter[w] # NoDaily
  BY <1>0, DailyIsNot DEF PitTypes, NoDaily
<1> DEFINE old == pitWriter[w]
           d == First(old.todo)
           q == [old EXCEPT !.at = "replace", !.found = part[d]]
<1>12. NextDay(w) = d
  BY DEF NextDay, First
<1> HIDE DEF d
<1>2. pitWriter' = [pitWriter EXCEPT ![w] = q]
  BY <1>0, <1>1, <1>12 DEF ReadPart, PitTypes
<1>3. old.todo \in SUBSET DatesOf[old.snapshot] /\ old.todo # {} /\ old.todo \in SUBSET Dates
      /\ old.snapshot \in Snapshots
  BY <1>0, <1>1 DEF WriterIsSound, Dailies
<1>4. d \in old.todo /\ d \in Dates
  BY <1>3, FirstIsOne DEF d
<1>5. part[d] \in SUBSET Rows
  BY <1>0, <1>4 DEF PitTypes
<1>6. /\ q \in Dailies /\ q.at = "replace" /\ q.todo = old.todo /\ q.snapshot = old.snapshot
      /\ q.stated = old.stated /\ q.found = part[d]
  BY <1>1, <1>5 DEF Dailies
<1> HIDE DEF q
<1>7. /\ pitWriter' \in [PitWriters -> Dailies \cup {NoDaily}] /\ pitWriter'[w] = q
      /\ \A v \in PitWriters : v # w => pitWriter'[v] = pitWriter[v]
  BY <1>0, <1>2, <1>6 DEF PitTypes
<1>8. PitTypes' /\ RowsBelong'
  BY <1>0, <1>7 DEF PitTypes, RowsBelong
<1>9. ASSUME NEW v \in PitWriters
      PROVE  WriterIsSound(v)'
  <2>1. CASE v = w
    <3>1. First(q.todo) = d /\ \A entry \in q.found : d \in DatesOf[entry.snapshot]
      BY <1>0, <1>4, <1>6 DEF d, RowsBelong
    <3>2. /\ \A e \in DatesOf[q.snapshot] \ q.todo :
                part[e] # {} /\ (Undisputed(q.snapshot, e) => IsStored(q.snapshot, q.stated, e))
          /\ manifest[q.snapshot] # Absent => \A e \in DatesOf[q.snapshot] : ~Undisputed(q.snapshot, e)
      BY <1>0, <1>1, <1>6 DEF WriterIsSound
    <3>3. part' = part /\ manifest' = manifest /\ rivals' = rivals
      BY <1>0
    <3> QED BY <1>3, <1>6, <1>7, <2>1, <3>1, <3>2, <3>3 DEF WriterIsSound, Undisputed, IsStored
  <2>2. CASE v # w
    BY <1>0, <1>7, <2>2, WriterStays
  <2> QED BY <2>1, <2>2
<1>10. RivalsDispute'
  BY <1>0, <1>1, <1>6, <1>7, RivalsStay
<1>11. ASSUME NEW x \in Snapshots
       PROVE  SnapshotIsSound(x)'
  BY <1>0 DEF SnapshotIsSound, Undisputed, IsStored
<1> QED BY <1>8, <1>9, <1>10, <1>11 DEF WritersIInv

(* What a writer puts in the place of a file: its own row, and of the others *)
(* whatever is undisputed as it was.                                         *)
LEMMA Replacement ==
    ASSUME WritersIInv, NEW w \in PitWriters, ReplacePart(w)
    PROVE  LET q == pitWriter[w]
               d == First(q.todo) IN
           /\ q \in Dailies /\ q.at = "replace" /\ q.todo \in SUBSET DatesOf[q.snapshot]
           /\ d \in q.todo /\ d \in Dates
           /\ part' \in [Dates -> SUBSET Rows]
           /\ \A e \in Dates : e # d => part'[e] = part[e]
           /\ part'[d] # {} /\ RowsOf(part'[d], q.snapshot) = {DailyBar(q.snapshot, q.stated, d)}
           /\ \A x \in Snapshots : x # q.snapshot /\ Undisputed(x, d) => RowsOf(part'[d], x) = RowsOf(part[d], x)
           /\ \A entry \in part'[d] : d \in DatesOf[entry.snapshot]
<1> DEFINE q == pitWriter[w]
           d == First(q.todo)
           own == DailyBar(q.snapshot, q.stated, d)
           new == Kept(q.found, q.snapshot) \cup {own}
<1>0. PitTypes /\ WriterIsSound(w) /\ q.at = "replace"
  BY DEF WritersIInv, ReplacePart
<1>1. q \in Dailies /\ q # NoDaily
  BY <1>0, DailyIsNot DEF PitTypes, NoDaily
<1>2. /\ q.todo \in SUBSET DatesOf[q.snapshot] /\ q.todo # {} /\ q.todo \in SUBSET Dates
      /\ q.snapshot \in Snapshots /\ q.stated \in KnowableAt /\ q.found \in SUBSET Rows
      /\ \A x \in Snapshots : x # q.snapshot /\ Undisputed(x, d) => RowsOf(q.found, x) = RowsOf(part[d], x)
      /\ \A entry \in q.found : d \in DatesOf[entry.snapshot]
  BY <1>0, <1>1 DEF WriterIsSound, Dailies
<1>3. d \in q.todo /\ d \in Dates
  BY <1>2, FirstIsOne
<1>4. part' = [part EXCEPT ![d] = new]
  BY DEF ReplacePart, NextDay, First
<1> HIDE DEF d, q
<1>5. own \in Rows /\ own.snapshot = q.snapshot
  BY <1>2, <1>3, BarsAreRows
<1> HIDE DEF own
<1>6. new \in SUBSET Rows /\ own \in new
  BY <1>2, <1>5 DEF Kept
<1>7. RowsOf(new, q.snapshot) = {own}
  BY <1>5 DEF RowsOf, Kept
<1>8. ASSUME NEW x \in Snapshots, x # q.snapshot
      PROVE  RowsOf(new, x) = RowsOf(q.found, x)
  BY <1>5, <1>8 DEF RowsOf, Kept
<1>9. ASSUME NEW entry \in new
      PROVE  d \in DatesOf[entry.snapshot]
  BY <1>2, <1>3, <1>5 DEF Kept
<1> HIDE DEF new
<1>10. /\ part' \in [Dates -> SUBSET Rows] /\ part'[d] = new
       /\ \A e \in Dates : e # d => part'[e] = part[e]
  BY <1>0, <1>3, <1>4, <1>6 DEF PitTypes
<1>11. RowsOf(part'[d], q.snapshot) = {DailyBar(q.snapshot, q.stated, d)}
  BY <1>7, <1>10 DEF own
<1> QED BY <1>0, <1>1, <1>2, <1>3, <1>6, <1>8, <1>9, <1>10, <1>11 DEF d, q

(* A writer replaces a part of the bars. *)
LEMMA ReplacePartKeeps ==
    ASSUME WritersIInv, NEW w \in PitWriters, ReplacePart(w)
    PROVE  WritersIInv'
<1>0. /\ PitTypes /\ RivalsDispute /\ RowsBelong /\ \A v \in PitWriters : WriterIsSound(v)
      /\ \A x \in Snapshots : SnapshotIsSound(x)
      /\ UNCHANGED <<manifest, firstStated, rivals, dailies, reads>>
  BY DEF WritersIInv, ReplacePart
<1>1. pitWriter[w] \in Dailies
  BY Replacement
<1>2. PICK q \in Dailies : q = pitWriter[w]
  BY <1>1
<1>3. PICK d : d = First(q.todo)
  OBVIOUS
<1>4. /\ q.at = "replace" /\ q.todo \in SUBSET DatesOf[q.snapshot] /\ d \in q.todo /\ d \in Dates
      /\ part' \in [Dates -> SUBSET Rows]
      /\ \A e \in Dates : e # d => part'[e] = part[e]
      /\ part'[d] # {} /\ RowsOf(part'[d], q.snapshot) = {DailyBar(q.snapshot, q.stated, d)}
      /\ \A x \in Snapshots : x # q.snapshot /\ Undisputed(x, d) => RowsOf(part'[d], x) = RowsOf(part[d], x)
      /\ \A entry \in part'[d] : d \in DatesOf[entry.snapshot]
  BY <1>2, <1>3, Replacement
<1>5. q.snapshot \in Snapshots /\ DatesOf[q.snapshot] \in SUBSET Dates /\ q # NoDaily
  BY DatesAreNumbers, DailyIsNot DEF Dailies
<1> DEFINE rest == q.todo \ {d}
           writer == [q EXCEPT !.at = IF rest = {} THEN "index" ELSE "read", !.todo = rest, !.found = {}]
<1>6. pitWriter' = [pitWriter EXCEPT ![w] = writer]
  <2>1. NextDay(w) = d
    BY <1>2, <1>3 DEF NextDay, First
  <2> QED BY <1>0, <1>2, <2>1 DEF ReplacePart, PitTypes
<1>7. /\ writer \in Dailies /\ writer.todo = rest /\ writer.snapshot = q.snapshot /\ writer.stated = q.stated
      /\ writer.at = "index" <=> rest = {}
      /\ writer.at # "replace"
  BY <1>4, <1>5 DEF Dailies
<1> HIDE DEF writer
<1>8. writer # NoDaily
  BY <1>7, DailyIsNot
<1>9. /\ pitWriter' \in [PitWriters -> Dailies \cup {NoDaily}] /\ pitWriter'[w] = writer
      /\ \A v \in PitWriters : v # w => pitWriter'[v] = pitWriter[v]
  BY <1>0, <1>6, <1>7 DEF PitTypes
<1>10. PitTypes'
  BY <1>0, <1>4, <1>9 DEF PitTypes
<1>11. \A e \in Dates : part[e] # {} => part'[e] # {}
  BY <1>4
<1>12. ASSUME NEW v \in PitWriters
       PROVE  WriterIsSound(v)'
  <2>1. CASE v = w
    <3>1. WriterIsSound(w)
      BY <1>0
    <3>2. ASSUME NEW e \in DatesOf[q.snapshot] \ rest
          PROVE  part'[e] # {} /\ (Undisputed(q.snapshot, e) => RowsOf(part'[e], q.snapshot) = {DailyBar(q.snapshot, q.stated, e)})
      <4>1. CASE e = d
        BY <1>4, <4>1
      <4>2. CASE e # d
        <5>1. part'[e] = part[e] /\ e \in DatesOf[q.snapshot] \ q.todo
          BY <1>4, <1>5, <4>2
        <5> QED BY <1>2, <1>5, <3>1, <5>1 DEF WriterIsSound, IsStored
      <4> QED BY <4>1, <4>2
    <3>3. manifest[q.snapshot] # Absent => \A e \in DatesOf[q.snapshot] : ~Undisputed(q.snapshot, e)
      BY <1>2, <1>5, <3>1 DEF WriterIsSound
    <3>4. rest \in SUBSET DatesOf[q.snapshot]
      BY <1>4
    <3> QED BY <1>0, <1>7, <1>9, <2>1, <3>2, <3>3, <3>4 DEF WriterIsSound, IsStored, Undisputed
  <2>2. CASE v # w /\ pitWriter[v] = NoDaily
    BY <1>9, <2>2 DEF WriterIsSound
  <2>3. CASE v # w /\ pitWriter[v] # NoDaily
    <3>0. PICK u \in Dailies : u = pitWriter[v] /\ pitWriter'[v] = u
      BY <1>0, <1>9, <2>3 DEF PitTypes
    <3>1. WriterIsSound(v) /\ u # NoDaily
      BY <1>0, <2>3, <3>0
    <3>2. \A e \in DatesOf[u.snapshot] \cap DatesOf[q.snapshot] :
            ~Undisputed(u.snapshot, e) /\ ~Undisputed(q.snapshot, e)
      BY <1>0, <1>2, <1>5, <2>3, <3>0 DEF RivalsDispute
    <3>3. u.snapshot \in Snapshots /\ DatesOf[u.snapshot] \in SUBSET Dates /\ u.todo \in SUBSET DatesOf[u.snapshot]
      BY <3>0, <3>1, DatesAreNumbers DEF WriterIsSound, Dailies
    <3>4. ASSUME NEW e \in DatesOf[u.snapshot] \ u.todo
          PROVE  part'[e] # {} /\ (Undisputed(u.snapshot, e) => RowsOf(part'[e], u.snapshot) = {DailyBar(u.snapshot, u.stated, e)})
      <4>1. part[e] # {} /\ (Undisputed(u.snapshot, e) => RowsOf(part[e], u.snapshot) = {DailyBar(u.snapshot, u.stated, e)})
        BY <3>0, <3>1 DEF WriterIsSound, IsStored
      <4>2. e = d => ~Undisputed(u.snapshot, e)
        BY <1>4, <3>2
      <4> QED BY <1>4, <1>11, <3>3, <4>1, <4>2
    <3>5. ASSUME u.at = "replace"
          PROVE  /\ \A x \in Snapshots : x # u.snapshot /\ Undisputed(x, First(u.todo)) =>
                      RowsOf(u.found, x) = RowsOf(part'[First(u.todo)], x)
                 /\ \A entry \in u.found : First(u.todo) \in DatesOf[entry.snapshot]
      <4>0. PICK f : f = First(u.todo)
        OBVIOUS
      <4>1. /\ \A x \in Snapshots : x # u.snapshot /\ Undisputed(x, f) => RowsOf(u.found, x) = RowsOf(part[f], x)
            /\ \A entry \in u.found : f \in DatesOf[entry.snapshot]
            /\ u.todo # {}
        BY <3>0, <3>1, <3>5, <4>0 DEF WriterIsSound
      <4>2. f \in u.todo /\ f \in DatesOf[u.snapshot] /\ f \in Dates
        BY <3>3, <4>0, <4>1, FirstIsOne
      <4>3. ASSUME NEW x \in Snapshots, x # u.snapshot, Undisputed(x, f)
            PROVE  RowsOf(u.found, x) = RowsOf(part'[f], x)
        <5>1. CASE f # d
          BY <1>4, <4>1, <4>2, <4>3, <5>1
        <5>2. CASE f = d
          <6>1. x # q.snapshot
            BY <1>4, <3>2, <4>2, <4>3, <5>2
          <6> QED BY <1>4, <4>1, <4>3, <5>2, <6>1
        <5> QED BY <5>1, <5>2
      <4> QED BY <4>0, <4>1, <4>3
    <3>6. manifest[u.snapshot] # Absent => \A e \in DatesOf[u.snapshot] : ~Undisputed(u.snapshot, e)
      BY <3>0, <3>1 DEF WriterIsSound
    <3>7. u.at = "index" <=> u.todo = {}
      BY <3>0, <3>1 DEF WriterIsSound
    <3> QED BY <1>0, <3>0, <3>3, <3>4, <3>5, <3>6, <3>7 DEF WriterIsSound, IsStored, Undisputed
  <2> QED BY <2>1, <2>2, <2>3
<1>13. RivalsDispute'
  BY <1>0, <1>2, <1>5, <1>7, <1>9, RivalsStay
<1>14. ASSUME NEW x \in Snapshots
       PROVE  SnapshotIsSound(x)'
  <2>1. SnapshotIsSound(x) /\ DatesOf[x] \in SUBSET Dates
    BY <1>0, DatesAreNumbers
  <2>2. ASSUME manifest[x] # Absent, NEW e \in DatesOf[x]
        PROVE  part'[e] # {} /\ (Undisputed(x, e) => manifest[x] = firstStated[x] /\ RowsOf(part'[e], x) = {DailyBar(x, manifest[x], e)})
    <3>1. /\ part[e] # {}
          /\ Undisputed(x, e) => manifest[x] = firstStated[x] /\ RowsOf(part[e], x) = {DailyBar(x, manifest[x], e)}
      BY <2>1, <2>2 DEF SnapshotIsSound, IsStored
    <3>2. x = q.snapshot => ~Undisputed(x, e)
      BY <1>0, <1>2, <1>5, <2>2 DEF WriterIsSound
    <3>3. CASE e = d
      BY <1>4, <3>1, <3>2, <3>3
    <3>4. CASE e # d
      BY <1>4, <2>1, <3>1, <3>4
    <3> QED BY <3>3, <3>4
  <2> QED BY <1>0, <2>1, <2>2 DEF SnapshotIsSound, IsStored, Undisputed
<1>15. RowsBelong'
  BY <1>0, <1>4 DEF RowsBelong
<1> QED BY <1>10, <1>12, <1>13, <1>14, <1>15 DEF WritersIInv

(* A writer states when its snapshot is known. *)
LEMMA WriteManifestKeeps ==
    ASSUME WritersIInv, NEW w \in PitWriters, WriteManifest(w)
    PROVE  WritersIInv'
<1>0. /\ PitTypes /\ RivalsDispute /\ RowsBelong /\ \A v \in PitWriters : WriterIsSound(v)
      /\ \A x \in Snapshots : SnapshotIsSound(x)
      /\ pitWriter[w].at = "index" /\ pitWriter' = [pitWriter EXCEPT ![w] = NoDaily]
      /\ UNCHANGED <<part, rivals, dailies, reads>>
  BY DEF WritersIInv, WriteManifest
<1>1. pitWriter[w] \in Dailies
  BY <1>0 DEF PitTypes, NoDaily
<1>2. PICK q \in Dailies : q = pitWriter[w]
  BY <1>1
<1>3. /\ q.snapshot \in Snapshots /\ q.stated \in KnowableAt /\ q # NoDaily /\ q.todo = {}
      /\ q.stated # Absent
      /\ \A d \in DatesOf[q.snapshot] :
            part[d] # {} /\ (Undisputed(q.snapshot, d) => IsStored(q.snapshot, q.stated, d))
      /\ manifest[q.snapshot] # Absent => \A d \in DatesOf[q.snapshot] : ~Undisputed(q.snapshot, d)
  BY <1>0, <1>2, DailyIsNot, PitAssumption DEF WriterIsSound, Dailies
<1> DEFINE s == q.snapshot
<1>4. /\ manifest' \in [Snapshots -> KnowableAt \cup {Absent}] /\ manifest'[s] = q.stated
      /\ \A x \in Snapshots : x # s => manifest'[x] = manifest[x]
      /\ firstStated' \in [Snapshots -> KnowableAt \cup {Absent}]
      /\ firstStated'[s] = IF firstStated[s] = Absent THEN q.stated ELSE firstStated[s]
      /\ \A x \in Snapshots : x # s => firstStated'[x] = firstStated[x]
  BY <1>0, <1>2, <1>3 DEF WriteManifest, PitTypes
<1>5. /\ pitWriter' \in [PitWriters -> Dailies \cup {NoDaily}] /\ pitWriter'[w] = NoDaily
      /\ \A v \in PitWriters : v # w => pitWriter'[v] = pitWriter[v]
  BY <1>0 DEF PitTypes
<1>6. PitTypes'
  BY <1>0, <1>4, <1>5 DEF PitTypes
<1>7. ASSUME NEW v \in PitWriters
      PROVE  WriterIsSound(v)'
  <2>1. CASE pitWriter'[v] = NoDaily
    BY <2>1 DEF WriterIsSound
  <2>2. CASE pitWriter'[v] # NoDaily
    <3>0. PICK u \in Dailies : u = pitWriter[v] /\ pitWriter'[v] = u /\ v # w
      BY <1>0, <1>5, <2>2 DEF PitTypes
    <3>1. WriterIsSound(v) /\ u # NoDaily /\ u.snapshot \in Snapshots
      BY <1>0, <3>0, DailyIsNot DEF Dailies
    <3>2. u.snapshot = s => \A d \in DatesOf[u.snapshot] : ~Undisputed(u.snapshot, d)
      BY <1>0, <1>2, <1>3, <3>0, <3>1 DEF RivalsDispute
    <3>3. manifest'[u.snapshot] # Absent => \A d \in DatesOf[u.snapshot] : ~Undisputed(u.snapshot, d)
      BY <1>4, <3>0, <3>1, <3>2 DEF WriterIsSound
    <3> QED BY <1>0, <3>0, <3>1, <3>3 DEF WriterIsSound, IsStored, Undisputed
  <2> QED BY <2>1, <2>2
<1>8. RivalsDispute'
  BY <1>0, <1>5, RivalsStay
<1>9. ASSUME NEW x \in Snapshots
      PROVE  SnapshotIsSound(x)'
  <2>0. SnapshotIsSound(x) /\ SnapshotIsSound(s)
    BY <1>0, <1>3
  <2>1. CASE x # s
    BY <1>0, <1>4, <2>0, <2>1 DEF SnapshotIsSound, IsStored, Undisputed
  <2>2. CASE x = s
    <3>1. manifest'[s] # Absent /\ firstStated'[s] # Absent
      BY <1>3, <1>4
    <3>2. ASSUME NEW d \in DatesOf[s], Undisputed(s, d)
          PROVE  manifest'[s] = firstStated'[s]
      <4>1. manifest[s] = Absent
        BY <1>3, <3>2
      <4> QED BY <1>4, <2>0, <4>1 DEF SnapshotIsSound
    <3> QED BY <1>0, <1>3, <1>4, <2>2, <3>1, <3>2 DEF SnapshotIsSound, IsStored, Undisputed
  <2> QED BY <2>1, <2>2
<1>10. RowsBelong'
  BY <1>0 DEF RowsBelong
<1> QED BY <1>6, <1>7, <1>8, <1>9, <1>10 DEF WritersIInv

(* A writer ends, or its process does. *)
LEMMA WriterStopsKeeps ==
    ASSUME WritersIInv, NEW w \in PitWriters, WriterStops(w)
    PROVE  WritersIInv'
<1>0. /\ PitTypes /\ RivalsDispute /\ RowsBelong /\ \A v \in PitWriters : WriterIsSound(v)
      /\ \A x \in Snapshots : SnapshotIsSound(x)
      /\ pitWriter' = [pitWriter EXCEPT ![w] = NoDaily]
      /\ UNCHANGED <<part, manifest, firstStated, rivals, dailies, reads>>
  BY DEF WritersIInv, WriterStops
<1>1. /\ pitWriter' \in [PitWriters -> Dailies \cup {NoDaily}] /\ pitWriter'[w] = NoDaily
      /\ \A v \in PitWriters : v # w => pitWriter'[v] = pitWriter[v]
  BY <1>0 DEF PitTypes
<1>2. PitTypes' /\ RowsBelong' /\ RivalsDispute'
  <2>1. RivalsDispute'
    BY <1>0, <1>1, RivalsStay
  <2> QED BY <1>0, <1>1, <2>1 DEF PitTypes, RowsBelong
<1>3. ASSUME NEW v \in PitWriters
      PROVE  WriterIsSound(v)'
  <2>1. CASE v = w
    BY <1>1, <2>1 DEF WriterIsSound
  <2>2. CASE v # w
    BY <1>0, <1>1, <2>2, WriterStays
  <2> QED BY <2>1, <2>2
<1>4. ASSUME NEW x \in Snapshots
      PROVE  SnapshotIsSound(x)'
  BY <1>0 DEF SnapshotIsSound, Undisputed, IsStored
<1> QED BY <1>2, <1>3, <1>4 DEF WritersIInv

-----------------------------------------------------------------------------
(* What a manifest says, and what it said first, stays. *)
StatementsStay ==
    /\ \A s \in Snapshots : manifest[s] # Absent => manifest'[s] # Absent
    /\ \A s \in Snapshots : firstStated[s] # Absent => firstStated'[s] = firstStated[s]
    /\ rivals \in SUBSET rivals'

(* A writer leaves the statements of other snapshots as they are. *)
LEMMA WritersLeaveStatements ==
    ASSUME WritersIInv, NEW w \in PitWriters,
           \/ \E s \in Snapshots, stated \in KnowableAt : WriteDaily(w, s, stated)
           \/ ReadPart(w) \/ ReplacePart(w) \/ WriteManifest(w) \/ WriterStops(w)
    PROVE  StatementsStay /\ UNCHANGED pitReader
<1>1. CASE WriteManifest(w)
  <2>1. /\ pitWriter[w].at = "index" /\ UNCHANGED <<part, rivals, pitReader>>
        /\ manifest' = [manifest EXCEPT ![pitWriter[w].snapshot] = pitWriter[w].stated]
        /\ firstStated' = [firstStated EXCEPT ![pitWriter[w].snapshot] = IF @ = Absent THEN pitWriter[w].stated ELSE @]
    BY <1>1 DEF WriteManifest
  <2>2. pitWriter[w] \in Dailies
    BY <2>1 DEF WritersIInv, PitTypes, NoDaily
  <2>3. pitWriter[w].stated \in KnowableAt /\ pitWriter[w].stated # Absent
    BY <2>2, PitAssumption DEF Dailies
  <2> QED BY <2>1, <2>3 DEF StatementsStay, WritersIInv, PitTypes
<1>2. CASE ~WriteManifest(w)
  <2>1. UNCHANGED <<manifest, firstStated, pitReader>> /\ rivals \in SUBSET rivals'
    BY <1>2 DEF WriteDaily, ReadPart, ReplacePart, WriterStops
  <2> QED BY <2>1 DEF StatementsStay
<1> QED BY <1>1, <1>2

(* A reader goes on with the same rows while writers add files. *)
LEMMA ReaderStays ==
    ASSUME WritersIInv, NEW r \in PitReaders, ReaderIsSound(r), pitReader'[r] = pitReader[r],
           StatementsStay
    PROVE  ReaderIsSound(r)'
<1>1. CASE pitReader[r] = NoQuestion
  BY <1>1 DEF ReaderIsSound
<1>2. CASE pitReader[r] # NoQuestion
  <2>1. PICK q \in Questions : q = pitReader[r] /\ pitReader'[r] = q
    BY <1>2 DEF ReaderIsSound
  <2>2. q.snapshot \in Snapshots /\ manifest[q.snapshot] # Absent /\ firstStated[q.snapshot] # Absent
    <3>1. q.snapshot \in Snapshots
      BY DEF Questions
    <3>2. SnapshotIsSound(q.snapshot)
      BY <3>1 DEF WritersIInv
    <3> QED BY <1>2, <2>1, <3>1, <3>2 DEF ReaderIsSound, SnapshotIsSound
  <2>3. manifest'[q.snapshot] # Absent /\ firstStated'[q.snapshot] = firstStated[q.snapshot]
    BY <2>2 DEF StatementsStay
  <2>4. PICK asOf : asOf = SnapshotAsOf(q.snapshot, q.day)
    OBVIOUS
  <2>5. SnapshotAsOf(q.snapshot, q.day)' = asOf
    BY <2>2, <2>3, <2>4 DEF SnapshotAsOf
  <2>6. \A d : Undisputed(q.snapshot, d)' => Undisputed(q.snapshot, d)
    BY DEF Undisputed, StatementsStay
  <2>7. /\ q.at = "answered" <=> q.files = {}
        /\ \A b \in q.bars : b.date \in DatesOf[q.snapshot] /\ b.date <= q.day /\ b.known <= q.day
                             /\ b.date \notin q.files
        /\ \A d \in DatesOf[q.snapshot] : Undisputed(q.snapshot, d) /\ d \notin q.files =>
              OfDay(q.bars, d) = OfDay(asOf, d)
    BY <1>2, <2>1, <2>4 DEF ReaderIsSound
  <2>8. \A d \in DatesOf[q.snapshot] : Undisputed(q.snapshot, d)' /\ d \notin q.files =>
              OfDay(q.bars, d) = OfDay(SnapshotAsOf(q.snapshot, q.day)', d)
    BY <2>5, <2>6, <2>7
  <2> QED BY <2>1, <2>3, <2>7, <2>8 DEF ReaderIsSound
<1> QED BY <1>1, <1>2

(* A reader's steps leave all else alone. *)
LEMMA ReadersLeaveFiles ==
    ASSUME WritersIInv, NEW r \in PitReaders,
           \/ \E s \in Snapshots, day \in 0 .. LastDay : AskAsOf(r, s, day)
           \/ \E d \in Dates : ScanPart(r, d)
    PROVE  WritersIInv' /\ StatementsStay
<1>1. UNCHANGED <<part, manifest, pitWriter, firstStated, rivals, dailies>> /\ reads' \in 0 .. MaxReads
  <2>1. reads \in 0 .. MaxReads /\ MaxReads \in Nat
    BY PitAssumption DEF WritersIInv, PitTypes
  <2>2. \/ reads < MaxReads /\ reads' = reads + 1
        \/ reads' = reads
    BY DEF AskAsOf, ScanPart
  <2>3. UNCHANGED <<part, manifest, pitWriter, firstStated, rivals, dailies>>
    BY DEF AskAsOf, ScanPart
  <2> QED BY <2>1, <2>2, <2>3
<1>2. PitTypes'
  BY <1>1 DEF WritersIInv, PitTypes
<1>3. \A w \in PitWriters : WriterIsSound(w)'
  BY <1>1 DEF WritersIInv, WriterIsSound, Undisputed, IsStored
<1>4. RivalsDispute' /\ RowsBelong'
  BY <1>1 DEF WritersIInv, RivalsDispute, RowsBelong, Undisputed
<1>5. \A s \in Snapshots : SnapshotIsSound(s)'
  BY <1>1 DEF WritersIInv, SnapshotIsSound, Undisputed, IsStored
<1> QED BY <1>1, <1>2, <1>3, <1>4, <1>5 DEF WritersIInv, StatementsStay

(* A reader asks for the bars of a day. *)
LEMMA AskKeeps ==
    ASSUME WritersIInv, ReadersIInv, NEW r \in PitReaders, NEW s \in Snapshots, NEW day \in 0 .. LastDay,
           AskAsOf(r, s, day)
    PROVE  ReadersIInv'
<1> DEFINE files == {d \in Dates : part[d] # {}}
           q == [at |-> IF files = {} THEN "missing" ELSE "scan", snapshot |-> s, day |-> day,
                 files |-> files, bars |-> {}]
<1>1. pitReader' = [pitReader EXCEPT ![r] = q] /\ manifest[s] # Absent
      /\ UNCHANGED <<part, manifest, pitWriter, firstStated, rivals, dailies>>
  BY DEF AskAsOf
<1>2. DatesOf[s] \in SUBSET Dates /\ DatesOf[s] # {} /\ SnapshotIsSound(s)
  BY DatesAreNumbers DEF WritersIInv
<1>3. \A d \in DatesOf[s] : d \in files
  BY <1>1, <1>2 DEF SnapshotIsSound
<1>4. files \in SUBSET Dates /\ files # {}
  BY <1>2, <1>3
<1> HIDE DEF files
<1>5. q \in Questions /\ q.at = "scan" /\ q.snapshot = s /\ q.files = files /\ q.bars = {} /\ q.day = day
  BY <1>4 DEF Questions
<1> HIDE DEF q
<1>6. /\ pitReader' \in [PitReaders -> Questions \cup {NoQuestion}] /\ pitReader'[r] = q
      /\ \A o \in PitReaders : o # r => pitReader'[o] = pitReader[o]
  BY <1>1, <1>5 DEF ReadersIInv
<1>7. ASSUME NEW o \in PitReaders
      PROVE  ReaderIsSound(o)'
  <2>1. CASE o = r
    <3>1. \A d \in DatesOf[s] : d \in q.files
      BY <1>3, <1>5
    <3> QED BY <1>1, <1>4, <1>5, <1>6, <2>1, <3>1 DEF ReaderIsSound
  <2>2. CASE o # r
    <3>1. StatementsStay
      BY ReadersLeaveFiles
    <3> QED BY <1>6, <2>2, <3>1, ReaderStays DEF ReadersIInv
  <2> QED BY <2>1, <2>2
<1> QED BY <1>6, <1>7 DEF ReadersIInv

(* The query on the file of a day that is undisputed gives what the tables *)
(* would, and on any file only bars of that day, known by then.            *)
LEMMA VisibleIsAsOf ==
    ASSUME WritersIInv, NEW s \in Snapshots, manifest[s] # Absent, NEW day \in 0 .. LastDay, NEW d \in Dates
    PROVE  /\ VisibleIn(s, day, d) \in SUBSET Bars
           /\ \A b \in VisibleIn(s, day, d) :
                b.date = d /\ d \in DatesOf[s] /\ d <= day /\ b.known <= day
           /\ d \in DatesOf[s] /\ Undisputed(s, d) =>
                VisibleIn(s, day, d) = OfDay(SnapshotAsOf(s, day), d)
<1> DEFINE rows == {entry \in part[d] : entry.snapshot = s /\ d <= day /\ entry.known <= day}
           seen == {x \in rows : \A y \in rows : x.known <= y.known}
<1>0. PitTypes /\ SnapshotIsSound(s) /\ RowsBelong /\ part[d] \in SUBSET Rows /\ d \in Nat
  BY DatesAreNumbers DEF WritersIInv, PitTypes
<1>1. VisibleIn(s, day, d) = {[date |-> d, known |-> entry.known] : entry \in seen}
  BY DEF VisibleIn
<1>2. \A entry \in rows : entry \in Rows /\ entry.known \in Nat /\ d \in DatesOf[s] /\ d <= day /\ entry.known <= day
  BY <1>0 DEF RowsBelong, Rows
<1>3. ASSUME d \in DatesOf[s], Undisputed(s, d)
      PROVE  VisibleIn(s, day, d) = OfDay(SnapshotAsOf(s, day), d)
  <2> DEFINE stated == manifest[s]
             own == DailyBar(s, stated, d)
             k == Known(stated, d)
  <2>1. stated \in KnowableAt /\ stated = firstStated[s] /\ RowsOf(part[d], s) = {own}
    BY <1>0, <1>3 DEF SnapshotIsSound, IsStored, PitTypes
  <2>2. own.snapshot = s /\ own.known = k /\ k \in Nat
    BY <2>1, BarsAreRows
  <2>3. SnapshotAsOf(s, day) = {[date |-> e, known |-> Known(stated, e)] :
                                  e \in {f \in DatesOf[s] : f <= day /\ Known(stated, f) <= day}}
    BY <2>1 DEF SnapshotAsOf
  <2> HIDE DEF stated, own
  <2>4. OfDay(SnapshotAsOf(s, day), d) = IF d <= day /\ k <= day THEN {[date |-> d, known |-> k]} ELSE {}
    BY <1>3, <2>3 DEF OfDay
  <2> HIDE DEF k
  <2>5. rows = IF d <= day /\ k <= day THEN {own} ELSE {}
    BY <2>1, <2>2 DEF RowsOf
  <2> HIDE DEF rows
  <2>6. CASE d <= day /\ k <= day
    <3>1. seen = {own}
      BY <2>2, <2>5, <2>6
    <3> HIDE DEF seen
    <3>2. VisibleIn(s, day, d) = {[date |-> d, known |-> k]}
      BY <1>1, <2>2, <3>1
    <3> QED BY <2>4, <2>6, <3>2
  <2>7. CASE ~(d <= day /\ k <= day)
    <3>1. seen = {}
      BY <2>5, <2>7
    <3> HIDE DEF seen
    <3>2. VisibleIn(s, day, d) = {}
      BY <1>1, <3>1
    <3> QED BY <2>4, <2>7, <3>2
  <2> QED BY <2>6, <2>7
<1>4. ASSUME NEW b \in VisibleIn(s, day, d)
      PROVE  b \in Bars /\ b.date = d /\ d \in DatesOf[s] /\ d <= day /\ b.known <= day
  <2>1. PICK entry \in seen : b = [date |-> d, known |-> entry.known]
    BY <1>1
  <2>2. entry \in rows
    OBVIOUS
  <2> HIDE DEF seen, rows
  <2> QED BY <1>2, <2>1, <2>2 DEF Bars
<1> QED BY <1>3, <1>4

(* A reader is given the rows of what was known at the time. *)
LEMMA ScanKeeps ==
    ASSUME WritersIInv, ReadersIInv, NEW r \in PitReaders, NEW d \in Dates, ScanPart(r, d)
    PROVE  ReadersIInv'
<1>0. /\ pitReader[r].at = "scan" /\ d \in pitReader[r].files
      /\ UNCHANGED <<part, manifest, pitWriter, firstStated, rivals, dailies, reads>>
      /\ pitReader \in [PitReaders -> Questions \cup {NoQuestion}]
  BY DEF ScanPart, ReadersIInv
<1>1. PICK q \in Questions : q = pitReader[r]
  BY <1>0 DEF NoQuestion
<1>2. /\ q # NoQuestion /\ q.snapshot \in Snapshots /\ q.day \in 0 .. LastDay /\ d \in q.files /\ q.at = "scan"
      /\ q.files \in SUBSET Dates /\ q.bars \in SUBSET Bars
  BY <1>0, <1>1 DEF Questions, NoQuestion
<1>3. /\ manifest[q.snapshot] # Absent
      /\ \A b \in q.bars : b.date \in DatesOf[q.snapshot] /\ b.date <= q.day /\ b.known <= q.day
                           /\ b.date \notin q.files
      /\ \A e \in DatesOf[q.snapshot] : Undisputed(q.snapshot, e) /\ e \notin q.files =>
            OfDay(q.bars, e) = OfDay(SnapshotAsOf(q.snapshot, q.day), e)
  BY <1>1, <1>2 DEF ReadersIInv, ReaderIsSound
<1>4. PICK seen : seen = VisibleIn(q.snapshot, q.day, d)
  OBVIOUS
<1>5. /\ seen \in SUBSET Bars
      /\ \A b \in seen : b.date = d /\ d \in DatesOf[q.snapshot] /\ d <= q.day /\ b.known <= q.day
      /\ d \in DatesOf[q.snapshot] /\ Undisputed(q.snapshot, d) =>
           seen = OfDay(SnapshotAsOf(q.snapshot, q.day), d)
  BY <1>2, <1>3, <1>4, VisibleIsAsOf
<1> DEFINE rest == q.files \ {d}
           bars == q.bars \cup seen
           writer == [q EXCEPT !.bars = bars, !.files = rest, !.at = IF rest = {} THEN "answered" ELSE "scan"]
<1>6. pitReader' = [pitReader EXCEPT ![r] = writer]
  BY <1>0, <1>1, <1>4 DEF ScanPart
<1>7. bars \in SUBSET Bars /\ rest \in SUBSET Dates
  BY <1>2, <1>5
<1>8. /\ writer \in Questions /\ writer.snapshot = q.snapshot /\ writer.day = q.day /\ writer.bars = bars /\ writer.files = rest
      /\ writer.at = "answered" <=> rest = {}
  BY <1>7 DEF Questions
<1> HIDE DEF writer
<1>9. /\ pitReader' \in [PitReaders -> Questions \cup {NoQuestion}] /\ pitReader'[r] = writer
      /\ \A o \in PitReaders : o # r => pitReader'[o] = pitReader[o]
  BY <1>0, <1>6, <1>8
<1>10. \A b \in bars : b.date \in DatesOf[q.snapshot] /\ b.date <= q.day /\ b.known <= q.day /\ b.date \notin rest
  BY <1>3, <1>5
<1>11. ASSUME NEW e \in DatesOf[q.snapshot], Undisputed(q.snapshot, e), e \notin rest
       PROVE  OfDay(bars, e) = OfDay(SnapshotAsOf(q.snapshot, q.day), e)
  <2>1. CASE e = d
    <3>1. OfDay(q.bars, d) = {}
      BY <1>2, <1>3 DEF OfDay
    <3>2. OfDay(seen, d) = seen
      BY <1>5 DEF OfDay
    <3>3. OfDay(bars, d) = OfDay(q.bars, d) \cup OfDay(seen, d)
      BY DEF OfDay
    <3> QED BY <1>5, <1>11, <2>1, <3>1, <3>2, <3>3
  <2>2. CASE e # d
    <3>1. OfDay(seen, e) = {}
      BY <1>5, <2>2 DEF OfDay
    <3>2. OfDay(bars, e) = OfDay(q.bars, e) \cup OfDay(seen, e)
      BY DEF OfDay
    <3> QED BY <1>3, <1>11, <2>2, <3>1, <3>2
  <2> QED BY <2>1, <2>2
<1>12. ASSUME NEW o \in PitReaders
       PROVE  ReaderIsSound(o)'
  <2>0. StatementsStay
    BY ReadersLeaveFiles
  <2>1. CASE o = r
    <3>1. SnapshotAsOf(q.snapshot, q.day)' = SnapshotAsOf(q.snapshot, q.day)
      BY <1>0 DEF SnapshotAsOf
    <3>2. \A e \in DatesOf[q.snapshot] : Undisputed(q.snapshot, e)' /\ e \notin rest =>
            OfDay(bars, e) = OfDay(SnapshotAsOf(q.snapshot, q.day)', e)
      BY <1>0, <1>11, <3>1 DEF Undisputed
    <3>3. PICK b2 : b2 = bars
      OBVIOUS
    <3>4. PICK r2 : r2 = rest
      OBVIOUS
    <3>5. /\ writer.bars = b2 /\ writer.files = r2 /\ (writer.at = "answered" <=> r2 = {})
          /\ \A b \in b2 : b.date \in DatesOf[q.snapshot] /\ b.date <= q.day /\ b.known <= q.day /\ b.date \notin r2
          /\ \A e \in DatesOf[q.snapshot] : Undisputed(q.snapshot, e)' /\ e \notin r2 =>
                OfDay(b2, e) = OfDay(SnapshotAsOf(q.snapshot, q.day)', e)
      BY <1>8, <1>10, <3>2, <3>3, <3>4
    <3>6. PICK u \in Questions : u = writer /\ u.snapshot = q.snapshot /\ u.day = q.day /\ pitReader'[r] = u
      BY <1>8, <1>9
    <3>7. manifest'[u.snapshot] # Absent
      BY <1>0, <1>3, <3>6
    <3>8. PICK asOf : asOf = SnapshotAsOf(q.snapshot, q.day)'
      OBVIOUS
    <3>9. SnapshotAsOf(u.snapshot, u.day)' = asOf
      BY <3>6, <3>8
    <3>10. \A e : Undisputed(u.snapshot, e)' <=> Undisputed(q.snapshot, e)'
      BY <3>6
    <3> HIDE DEF bars, rest
    <3>12. u.files = r2 /\ u.bars = b2 /\ (u.at = "answered" <=> r2 = {})
      BY <3>5, <3>6
    <3>13. \A e \in DatesOf[u.snapshot] : Undisputed(u.snapshot, e)' /\ e \notin r2 => OfDay(b2, e) = OfDay(asOf, e)
      BY <3>5, <3>6, <3>8, <3>10
    <3>14. \A b \in b2 : b.date \in DatesOf[u.snapshot] /\ b.date <= u.day /\ b.known <= u.day /\ b.date \notin r2
      BY <3>5, <3>6
    <3>11. /\ u.at = "answered" <=> u.files = {}
           /\ \A b \in u.bars : b.date \in DatesOf[u.snapshot] /\ b.date <= u.day /\ b.known <= u.day /\ b.date \notin u.files
           /\ \A e \in DatesOf[u.snapshot] : Undisputed(u.snapshot, e)' /\ e \notin u.files =>
                 OfDay(u.bars, e) = OfDay(SnapshotAsOf(u.snapshot, u.day)', e)
      BY <3>9, <3>12, <3>13, <3>14
    <3> QED BY <2>1, <3>6, <3>7, <3>11 DEF ReaderIsSound
  <2>2. CASE o # r
    BY <1>9, <2>0, <2>2, ReaderStays DEF ReadersIInv
  <2> QED BY <2>1, <2>2
<1> QED BY <1>9, <1>12 DEF ReadersIInv

(* A snapshot is what its manifest says, in its files and in every answer, *)
(* on every day that no two writers had at once.                           *)
THEOREM SnapshotsAreKept == PitSpec => []PitInv
<1>1. PitInit => WritersIInv /\ ReadersIInv
  <2> SUFFICES ASSUME PitInit PROVE WritersIInv /\ ReadersIInv
    OBVIOUS
  <2>0. /\ part = [d \in Dates |-> {}] /\ manifest = [s \in Snapshots |-> Absent]
        /\ firstStated = [s \in Snapshots |-> Absent] /\ rivals = {} /\ dailies = 0 /\ reads = 0
        /\ pitWriter = [w \in PitWriters |-> NoDaily] /\ pitReader = [r \in PitReaders |-> NoQuestion]
    BY DEF PitInit
  <2>1. PitTypes
    BY <2>0, PitAssumption DEF PitTypes
  <2>2. (\A w \in PitWriters : WriterIsSound(w)) /\ RivalsDispute
    BY <2>0 DEF WriterIsSound, RivalsDispute
  <2>3. (\A s \in Snapshots : SnapshotIsSound(s)) /\ RowsBelong
    BY <2>0 DEF SnapshotIsSound, RowsBelong
  <2>4. ReadersIInv
    BY <2>0 DEF ReadersIInv, ReaderIsSound
  <2> QED BY <2>1, <2>2, <2>3, <2>4 DEF WritersIInv
<1>2. WritersIInv /\ ReadersIInv /\ [PitNext]_pitVars => WritersIInv' /\ ReadersIInv'
  <2> SUFFICES ASSUME WritersIInv, ReadersIInv, [PitNext]_pitVars
               PROVE  WritersIInv' /\ ReadersIInv'
    OBVIOUS
  <2>1. CASE UNCHANGED pitVars
    <3>1. UNCHANGED <<part, manifest, firstStated, pitWriter, pitReader, rivals, dailies, reads>>
      BY <2>1 DEF pitVars
    <3>2. PitTypes' /\ RowsBelong'
      BY <3>1 DEF WritersIInv, PitTypes, RowsBelong
    <3>3. \A w \in PitWriters : WriterIsSound(w)'
      BY <3>1 DEF WritersIInv, WriterIsSound, Undisputed, IsStored
    <3>4. RivalsDispute'
      BY <3>1 DEF WritersIInv, RivalsDispute, Undisputed
    <3>5. \A s \in Snapshots : SnapshotIsSound(s)'
      BY <3>1 DEF WritersIInv, SnapshotIsSound, Undisputed, IsStored
    <3>6. WritersIInv'
      BY <3>2, <3>3, <3>4, <3>5 DEF WritersIInv
    <3>7. StatementsStay /\ pitReader' = pitReader
      BY <3>1 DEF StatementsStay
    <3> QED BY <3>6, <3>7, ReaderStays DEF ReadersIInv
  <2>2. ASSUME NEW w \in PitWriters,
               \/ \E s \in Snapshots, stated \in KnowableAt : WriteDaily(w, s, stated)
               \/ ReadPart(w) \/ ReplacePart(w) \/ WriteManifest(w) \/ WriterStops(w)
        PROVE  WritersIInv' /\ ReadersIInv'
    <3>1. WritersIInv'
      BY <2>2, WriteDailyKeeps, ReadPartKeeps, ReplacePartKeeps, WriteManifestKeeps, WriterStopsKeeps
    <3>2. StatementsStay /\ pitReader' = pitReader
      BY <2>2, WritersLeaveStatements
    <3> QED BY <3>1, <3>2, ReaderStays DEF ReadersIInv
  <2>3. ASSUME NEW r \in PitReaders,
               \/ \E s \in Snapshots, day \in 0 .. LastDay : AskAsOf(r, s, day)
               \/ \E d \in Dates : ScanPart(r, d)
        PROVE  WritersIInv' /\ ReadersIInv'
    BY <2>3, ReadersLeaveFiles, AskKeeps, ScanKeeps
  <2> QED BY <2>1, <2>2, <2>3 DEF PitNext
<1>3. WritersIInv /\ ReadersIInv => PitInv
  <2> SUFFICES ASSUME WritersIInv, ReadersIInv PROVE PitInv
    OBVIOUS
  <2>1. PitType
    BY DEF WritersIInv, PitTypes, PitType, Rows
  <2>2. RecordedIsThere
    <3> SUFFICES ASSUME NEW s \in Snapshots, manifest[s] # Absent, NEW d \in DatesOf[s], Undisputed(s, d)
                 PROVE  DailyBar(s, manifest[s], d) \in part[d]
      BY DEF RecordedIsThere
    <3>1. RowsOf(part[d], s) = {DailyBar(s, manifest[s], d)}
      BY DEF WritersIInv, SnapshotIsSound, IsStored
    <3> QED BY <3>1 DEF RowsOf
  <2>3. FirstStands
    <3> SUFFICES ASSUME NEW s \in Snapshots, \A d \in DatesOf[s] : Undisputed(s, d)
                 PROVE  manifest[s] = firstStated[s]
      BY DEF FirstStands
    <3>1. PICK d \in DatesOf[s] : TRUE
      BY DatesAreNumbers
    <3> QED BY <3>1 DEF WritersIInv, SnapshotIsSound
  <2>4. AnswersAreAsOf
    <3> SUFFICES ASSUME NEW r \in PitReaders, pitReader[r].at = "answered"
                 PROVE  LET q == pitReader[r] IN
                        /\ \A b \in q.bars : b.date \in DatesOf[q.snapshot] /\ b.date <= q.day /\ b.known <= q.day
                        /\ \A d \in DatesOf[q.snapshot] : Undisputed(q.snapshot, d) =>
                              {b \in q.bars : b.date = d} = {b \in SnapshotAsOf(q.snapshot, q.day) : b.date = d}
      BY Zenon DEF AnswersAreAsOf
    <3>1. pitReader[r] # NoQuestion /\ ReaderIsSound(r)
      BY DEF NoQuestion, ReadersIInv
    <3> QED BY <3>1 DEF ReaderIsSound, OfDay
  <2>5. NothingMissing
    <3>1. \A r \in PitReaders : pitReader[r] \in Questions \cup {NoQuestion}
      BY DEF ReadersIInv
    <3> QED BY <3>1 DEF NothingMissing, Questions, NoQuestion
  <2> QED BY <2>1, <2>2, <2>3, <2>4, <2>5 DEF PitInv
<1> QED BY <1>1, <1>2, <1>3, PTL DEF PitSpec

-----------------------------------------------------------------------------
(***************************************************************************)
(* LedgerFile.                                                             *)
(***************************************************************************)

(* The numbers of the files grow with every rotation, by one process: with two *)
(* of them a segment may take the name of another.                             *)
OneRotator == \A p, q \in Rotators : p = q

(* A sequence, of whatever it holds. *)
IsSeq(s) == s \in Seq({s[k] : k \in DOMAIN s})

(* A line: one that does not parse, or a record. *)
IsLine(l) ==
    \/ l = Torn
    \/ l \in [parses : {TRUE}, ended : BOOLEAN, seq : {l.seq}, tenant : Tenants, tseq : {l.tseq},
              before : {l.before}, rec : {l.rec}, hash : {l.hash}]

AreLines(s) == IsSeq(s) /\ \A k \in DOMAIN s : IsLine(s[k])

LedgerTypes ==
    /\ IsSeq(file) /\ \A f \in DOMAIN file : AreLines(file[f])
    /\ path \in 0 .. Len(file)
    /\ IsSeq(archive) /\ \A k \in DOMAIN archive : archive[k] \in DOMAIN file
    /\ process \in [Processes -> [pc : {"idle", "append", "appended", "rotate", "rename"},
                                  file : 0 .. Len(file), name : Nat]]
    /\ cache = [p \in Processes |-> cache[p]] /\ \A p \in Processes : IsSeq(cache[p])
    /\ acked \subseteq Entries

(* No file has two names. *)
NamesAreSingle ==
    /\ \A i, j \in DOMAIN archive : archive[i] = archive[j] => i = j
    /\ \A k \in DOMAIN archive : archive[k] # path

(* Who is about to append has opened a file that has a name, and who rotates has *)
(* found the next name of a segment.                                             *)
HandlesAreNamed ==
    \A p \in Processes :
        /\ process[p].pc = "append" => process[p].file \in Named
        /\ process[p].pc \in {"rotate", "rename"} => p \in Rotators
        /\ process[p].pc = "rename" => process[p].name = NextName

(* What a process remembers of a file it has verified. *)
CachesAreVerified == \A p \in Processes : Parsed(cache[p]) => Verified(cache[p])

(* The inductive invariant of the ledger file. *)
LedgerIInv ==
    /\ LedgerTypes
    /\ NamesAreSingle
    /\ HandlesAreNamed
    /\ AckedIsKept
    /\ ChainsHold
    /\ CachesAreVerified

-----------------------------------------------------------------------------
(* What is known of a sequence. *)
LEMMA SeqIs ==
    ASSUME NEW S, NEW s \in Seq(S)
    PROVE  IsSeq(s) /\ Len(s) \in Nat /\ DOMAIN s = 1 .. Len(s) /\ \A k \in DOMAIN s : s[k] \in S
<1>1. Len(s) \in Nat /\ DOMAIN s = 1 .. Len(s) /\ \A k \in DOMAIN s : s[k] \in S
  OBVIOUS
<1>2. s \in [1 .. Len(s) -> {s[k] : k \in DOMAIN s}]
  BY <1>1
<1> QED BY <1>1, <1>2 DEF IsSeq

LEMMA SeqFacts ==
    ASSUME NEW s, IsSeq(s)
    PROVE  Len(s) \in Nat /\ DOMAIN s = 1 .. Len(s) /\ (s = <<>> <=> Len(s) = 0)
BY DEF IsSeq

(* Two sequences of one length with the same members are one. *)
LEMMA SeqsAgree ==
    ASSUME NEW s, NEW t, IsSeq(s), IsSeq(t), Len(s) = Len(t), \A k \in 1 .. Len(s) : s[k] = t[k]
    PROVE  s = t
<1> DEFINE S == {s[k] : k \in DOMAIN s} \cup {t[k] : k \in DOMAIN t}
<1>1. s \in Seq(S) /\ t \in Seq(S)
  BY DEF IsSeq
<1> HIDE DEF S
<1> QED BY <1>1

(* A function on the first numbers is a sequence. *)
LEMMA FunctionIsSeq ==
    ASSUME NEW n \in Nat, NEW s, s = [k \in 1 .. n |-> s[k]]
    PROVE  IsSeq(s) /\ Len(s) = n
<1>1. s \in [1 .. n -> {s[k] : k \in DOMAIN s}]
  OBVIOUS
<1> QED BY <1>1 DEF IsSeq

LEMMA Appended ==
    ASSUME NEW s, IsSeq(s), NEW x
    PROVE  /\ IsSeq(Append(s, x)) /\ Len(Append(s, x)) = Len(s) + 1
           /\ \A k \in 1 .. Len(s) : Append(s, x)[k] = s[k]
           /\ Append(s, x)[Len(s) + 1] = x
<1> DEFINE S == {s[k] : k \in DOMAIN s} \cup {x}
<1>1. s \in Seq(S) /\ x \in S
  BY DEF IsSeq
<1> HIDE DEF S
<1>2. Append(s, x) \in Seq(S)
  BY <1>1
<1>3. IsSeq(Append(s, x))
  BY <1>2, SeqIs
<1> QED BY <1>1, <1>3, AppendProperties

LEMMA Replaced ==
    ASSUME NEW s, IsSeq(s), NEW k \in DOMAIN s, NEW x, NEW t, t = [s EXCEPT ![k] = x]
    PROVE  /\ IsSeq(t) /\ Len(t) = Len(s) /\ t[k] = x
           /\ \A j \in 1 .. Len(s) : j # k => t[j] = s[j]
<1> DEFINE S == {s[j] : j \in DOMAIN s} \cup {x}
<1>1. s \in Seq(S) /\ x \in S /\ Len(s) \in Nat /\ DOMAIN s = 1 .. Len(s)
  BY DEF IsSeq
<1> HIDE DEF S
<1>2. t \in Seq(S) /\ Len(t) = Len(s)
  BY <1>1
<1>3. IsSeq(t)
  BY <1>2, SeqIs
<1> QED BY <1>1, <1>2, <1>3

(* The first members of a sequence. *)
LEMMA FirstOnes ==
    ASSUME NEW s, IsSeq(s), NEW n \in 0 .. Len(s)
    PROVE  /\ IsSeq(SubSeq(s, 1, n)) /\ Len(SubSeq(s, 1, n)) = n
           /\ \A k \in 1 .. n : SubSeq(s, 1, n)[k] = s[k]
<1> DEFINE S == {s[k] : k \in DOMAIN s}
<1>1. s \in Seq(S) /\ Len(s) \in Nat /\ 1 \in 1 .. Len(s) + 1
  BY DEF IsSeq
<1> HIDE DEF S
<1>2. SubSeq(s, 1, n) = [k \in 1 .. n |-> s[k]]
  BY <1>1
<1>3. PICK t : t = SubSeq(s, 1, n)
  OBVIOUS
<1>4. t = [k \in 1 .. n |-> t[k]] /\ n \in Nat /\ \A k \in 1 .. n : t[k] = s[k]
  BY <1>1, <1>2, <1>3
<1>5. IsSeq(t) /\ Len(t) = n
  BY <1>4, FunctionIsSeq
<1> QED BY <1>3, <1>4, <1>5

LEMMA SamePrefix ==
    ASSUME NEW s, NEW t, IsSeq(s), IsSeq(t), NEW n \in 0 .. Len(s), n <= Len(t),
           \A k \in 1 .. n : s[k] = t[k]
    PROVE  SubSeq(s, 1, n) = SubSeq(t, 1, n)
<1>1. n \in 0 .. Len(t)
  BY SeqFacts
<1> QED BY <1>1, FirstOnes, SeqsAgree

(* Two sequences end to end. *)
LEMMA EndToEnd ==
    ASSUME NEW s, NEW t, IsSeq(s), IsSeq(t)
    PROVE  /\ IsSeq(s \o t) /\ Len(s \o t) = Len(s) + Len(t)
           /\ \A k \in 1 .. Len(s) : (s \o t)[k] = s[k]
           /\ \A k \in 1 .. Len(t) : (s \o t)[Len(s) + k] = t[k]
           /\ (s = <<>> => s \o t = t) /\ (t = <<>> => s \o t = s)
<1> DEFINE S == {s[k] : k \in DOMAIN s} \cup {t[k] : k \in DOMAIN t}
<1>1. s \in Seq(S) /\ t \in Seq(S)
  BY DEF IsSeq
<1> HIDE DEF S
<1>2. s \o t \in Seq(S)
  BY <1>1
<1>3. IsSeq(s \o t)
  BY <1>2, SeqIs
<1> QED BY <1>1, <1>3, ConcatProperties

-----------------------------------------------------------------------------
(* A line by itself. *)
LEMMA LineFacts ==
    ASSUME NEW l, IsLine(l)
    PROVE  l.parses \in BOOLEAN /\ l.ended \in BOOLEAN /\ (l.parses <=> l # Torn) /\ (l.parses => l.tenant \in Tenants)
           /\ (l.parses = TRUE <=> l # Torn)
<1>1. CASE l = Torn
  BY <1>1 DEF Torn
<1>2. CASE l # Torn
  BY <1>2 DEF IsLine, Torn
<1> QED BY <1>1, <1>2

(* A line that fits what is before it. *)
LineFits(lines, k) ==
    lines[k].seq = k /\ Follows(lines[k], TenantTail(SubSeq(lines, 1, k - 1), lines[k].tenant))

(* A file is verified when every line fits. *)
LEMMA LineByLine ==
    ASSUME NEW lines, AreLines(lines)
    PROVE  Verified(lines) <=> Parsed(lines) /\ \A k \in 1 .. Len(lines) : LineFits(lines, k)
<1>1. DOMAIN lines = 1 .. Len(lines)
  BY SeqFacts DEF AreLines
<1>2. Parsed(lines) => \A k \in DOMAIN lines : lines[k].tenant \in Tenants
  BY LineFacts DEF AreLines, Parsed
<1> QED BY <1>1, <1>2 DEF Verified, LineFits

(* Whether a line fits depends on it and what is before it. *)
LEMMA FitsAlike ==
    ASSUME NEW s, NEW t, IsSeq(s), IsSeq(t), NEW k \in 1 .. Len(s), k <= Len(t),
           \A j \in 1 .. k : s[j] = t[j]
    PROVE  LineFits(s, k) <=> LineFits(t, k)
<1>1. k - 1 \in 0 .. Len(s) /\ k - 1 <= Len(t) /\ k \in 1 .. k /\ \A j \in 1 .. k - 1 : j \in 1 .. k
  BY SeqFacts
<1>2. SubSeq(s, 1, k - 1) = SubSeq(t, 1, k - 1)
  BY <1>1, SamePrefix
<1> QED BY <1>1, <1>2 DEF LineFits

(* What a verified file begins with is verified. *)
LEMMA BeginningIsVerified ==
    ASSUME NEW s, NEW t, AreLines(s), IsSeq(t), Len(s) <= Len(t),
           \A j \in 1 .. Len(s) : s[j] = t[j], AreLines(t), Verified(t)
    PROVE  Verified(s)
<1>1. Len(s) \in Nat /\ Len(t) \in Nat /\ DOMAIN s = 1 .. Len(s) /\ DOMAIN t = 1 .. Len(t) /\ IsSeq(s)
  BY SeqFacts DEF AreLines
<1>2. Parsed(t) /\ \A k \in 1 .. Len(t) : LineFits(t, k)
  BY LineByLine
<1>3. Parsed(s)
  BY <1>1, <1>2 DEF Parsed
<1>4. ASSUME NEW k \in 1 .. Len(s) PROVE LineFits(s, k)
  <2>1. k \in 1 .. Len(t) /\ k <= Len(t) /\ \A j \in 1 .. k : j \in 1 .. Len(s)
    BY <1>1
  <2>2. LineFits(t, k)
    BY <1>2, <2>1
  <2> QED BY <1>1, <2>1, <2>2, FitsAlike
<1> QED BY <1>3, <1>4, LineByLine

(* What a process concludes with what it remembers of a verified file is what a *)
(* check of all lines concludes.                                                *)
LEMMA AcceptedIsVerified ==
    ASSUME NEW lines, NEW seen, AreLines(lines), IsSeq(seen), Parsed(seen) => Verified(seen)
    PROVE  Accepted(lines, seen) = Verified(lines)
<1>1. Len(lines) \in Nat /\ Len(seen) \in Nat /\ DOMAIN lines = 1 .. Len(lines)
      /\ DOMAIN seen = 1 .. Len(seen) /\ IsSeq(lines)
  BY SeqFacts DEF AreLines
<1>2. CASE ~(seen # NotCached /\ Parsed(lines) /\ Extends(lines, seen))
  BY <1>2 DEF Accepted, Verified
<1>3. CASE seen # NotCached /\ Parsed(lines) /\ Extends(lines, seen)
  <2>1. Len(seen) <= Len(lines) /\ \A k \in 1 .. Len(seen) : seen[k] = lines[k]
    <3>1. Len(seen) <= Len(lines) /\ SubSeq(lines, 1, Len(seen)) = seen /\ Len(seen) \in 0 .. Len(lines)
      BY <1>1, <1>3 DEF Extends
    <3>2. \A k \in 1 .. Len(seen) : SubSeq(lines, 1, Len(seen))[k] = lines[k]
      BY <1>1, <3>1, FirstOnes
    <3> QED BY <3>1, <3>2
  <2>2. AreLines(seen)
    BY <1>1, <2>1 DEF AreLines
  <2>3. Parsed(seen)
    BY <1>1, <1>3, <2>1 DEF Parsed
  <2>4. \A k \in 1 .. Len(seen) : LineFits(seen, k)
    BY <2>2, <2>3, LineByLine
  <2>5. ASSUME NEW k \in 1 .. Len(seen) PROVE LineFits(lines, k)
    <3>1. k <= Len(lines) /\ \A j \in 1 .. k : j \in 1 .. Len(seen)
      BY <1>1, <2>1
    <3> QED BY <1>1, <2>1, <2>4, <3>1, FitsAlike
  <2>6. SuffixVerified(lines, Len(seen)) <=> \A k \in Len(seen) + 1 .. Len(lines) : LineFits(lines, k)
    BY DEF SuffixVerified, LineFits
  <2>7. Verified(lines) <=> SuffixVerified(lines, Len(seen))
    <3>1. \A k \in 1 .. Len(lines) : k \in 1 .. Len(seen) \/ k \in Len(seen) + 1 .. Len(lines)
      BY <1>1
    <3>2. \A k \in Len(seen) + 1 .. Len(lines) : k \in 1 .. Len(lines)
      BY <1>1
    <3> QED BY <1>3, <2>5, <2>6, <3>1, <3>2, LineByLine
  <2>8. seen # <<>> => SelfChecked(lines[Len(seen)])
    <3>1. seen # <<>> => Len(seen) \in 1 .. Len(seen)
      BY <1>1
    <3> QED BY <2>5, <3>1 DEF LineFits, Follows
  <2>9. Accepted(lines, seen) <=> SuffixVerified(lines, Len(seen))
    BY <1>3, <2>8 DEF Accepted
  <2> QED BY <2>7, <2>9 DEF Accepted, Verified
<1> QED BY <1>2, <1>3

(* The line that an append writes. *)
LEMMA NextIsLine ==
    ASSUME NEW lines, NEW t \in Tenants, NEW n, NEW l, l = NextLine(lines, t, n)
    PROVE  /\ IsLine(l) /\ l.parses = TRUE /\ l.rec = n /\ l.ended = TRUE
           /\ l.seq = Len(lines) + 1 /\ l.tenant = t /\ Follows(l, TenantTail(lines, t))
<1>1. PICK count, tail, h, at :
         /\ count = TenantTail(lines, t).count + 1 /\ tail = TenantTail(lines, t).tail
         /\ h = LineHash(t, count, tail, n) /\ at = Len(lines) + 1
  OBVIOUS
<1>2. l = [parses |-> TRUE, ended |-> TRUE, seq |-> at, tenant |-> t, tseq |-> count,
           before |-> tail, rec |-> n, hash |-> h]
  BY <1>1 DEF NextLine, Slot
<1>3. /\ l.parses = TRUE /\ l.ended = TRUE /\ l.seq = at /\ l.tenant = t /\ l.tseq = count
      /\ l.before = tail /\ l.rec = n /\ l.hash = h
      /\ l \in [parses : {TRUE}, ended : BOOLEAN, seq : {at}, tenant : Tenants, tseq : {count},
                before : {tail}, rec : {n}, hash : {h}]
  BY <1>2
<1>4. IsLine(l)
  BY <1>3 DEF IsLine
<1>5. Follows(l, TenantTail(lines, t))
  BY <1>1, <1>3 DEF Follows, SelfChecked
<1> QED BY <1>1, <1>3, <1>4, <1>5

(* A record that is changed in what it says, or loses its end, is a line still. *)
LEMMA ChangedIsLine ==
    ASSUME NEW l, IsLine(l), l.parses = TRUE, NEW m, NEW x,
           m = [l EXCEPT !.ended = FALSE] \/ m = [l EXCEPT !.rec = x]
    PROVE  IsLine(m) /\ m.parses = TRUE /\ (m = [l EXCEPT !.ended = FALSE] => m.rec = l.rec)
<1>1. PICK at, count, tail, h, n : at = l.seq /\ count = l.tseq /\ tail = l.before /\ h = l.hash /\ n = l.rec
  OBVIOUS
<1>2. l \in [parses : {TRUE}, ended : BOOLEAN, seq : {at}, tenant : Tenants, tseq : {count},
             before : {tail}, rec : {n}, hash : {h}]
  <2>1. l # Torn
    BY DEF Torn
  <2>2. l \in [parses : {TRUE}, ended : BOOLEAN, seq : {l.seq}, tenant : Tenants, tseq : {l.tseq},
               before : {l.before}, rec : {l.rec}, hash : {l.hash}]
    BY <2>1 DEF IsLine
  <2> QED BY <1>1, <2>2
<1>3. m \in [parses : {TRUE}, ended : BOOLEAN, seq : {at}, tenant : Tenants, tseq : {count},
             before : {tail}, rec : {n, x}, hash : {h}]
  BY <1>2
<1>4. m.seq = at /\ m.tseq = count /\ m.before = tail /\ m.hash = h /\ m.parses = TRUE
  BY <1>3
<1>5. IsLine(m)
  BY <1>3, <1>4 DEF IsLine
<1>6. m = [l EXCEPT !.ended = FALSE] => m.rec = n
  BY <1>2
<1> QED BY <1>1, <1>4, <1>5, <1>6

(* A verified file stays one with a line that fits. *)
LEMMA OneMoreFits ==
    ASSUME NEW lines, AreLines(lines), Verified(lines), NEW t \in Tenants,
           NEW l, IsLine(l), l.parses = TRUE, l.seq = Len(lines) + 1, l.tenant = t,
           Follows(l, TenantTail(lines, t)), NEW more, more = Append(lines, l)
    PROVE  Verified(more)
<1>1. IsSeq(lines) /\ Len(lines) \in Nat /\ DOMAIN lines = 1 .. Len(lines)
  BY SeqFacts DEF AreLines
<1>2. /\ IsSeq(more) /\ Len(more) = Len(lines) + 1 /\ \A k \in 1 .. Len(lines) : more[k] = lines[k]
      /\ more[Len(lines) + 1] = l
  BY <1>1, Appended
<1>3. DOMAIN more = 1 .. Len(lines) + 1
  BY <1>2, SeqFacts
<1>4. \A k \in 1 .. Len(lines) + 1 : k \in 1 .. Len(lines) \/ k = Len(lines) + 1
  BY <1>1
<1>5. AreLines(more)
  BY <1>1, <1>2, <1>3, <1>4 DEF AreLines
<1>6. Parsed(lines) /\ \A k \in 1 .. Len(lines) : LineFits(lines, k)
  BY LineByLine
<1>7. Parsed(more)
  BY <1>1, <1>2, <1>3, <1>4, <1>6 DEF Parsed
<1>8. ASSUME NEW k \in 1 .. Len(lines) PROVE LineFits(more, k)
  <2>1. k <= Len(more) /\ \A j \in 1 .. k : j \in 1 .. Len(lines)
    BY <1>1, <1>2
  <2>2. IsSeq(lines) /\ IsSeq(more) /\ k <= Len(more) /\ \A j \in 1 .. k : lines[j] = more[j]
    BY <1>1, <1>2, <2>1
  <2>3. LineFits(lines, k) <=> LineFits(more, k)
    BY <2>2, FitsAlike
  <2> QED BY <1>6, <2>3
<1>9. LineFits(more, Len(lines) + 1)
  <2>1. Len(lines) \in 0 .. Len(lines) /\ Len(lines) <= Len(more) /\ Len(lines) + 1 - 1 = Len(lines)
    BY <1>1, <1>2
  <2>2. SubSeq(lines, 1, Len(lines)) = SubSeq(more, 1, Len(lines))
    BY <1>1, <1>2, <2>1, SamePrefix
  <2>3. SubSeq(lines, 1, Len(lines)) = lines
    <3>1. PICK w : w = SubSeq(lines, 1, Len(lines))
      OBVIOUS
    <3>2. IsSeq(w) /\ Len(w) = Len(lines) /\ \A k \in 1 .. Len(lines) : w[k] = lines[k]
      BY <1>1, <2>1, <3>1, FirstOnes
    <3>3. w = lines
      BY <1>1, <3>2, SeqsAgree
    <3> QED BY <3>1, <3>3
  <2>4. TenantTail(SubSeq(more, 1, Len(lines) + 1 - 1), more[Len(lines) + 1].tenant) = TenantTail(lines, t)
    BY <1>2, <2>1, <2>2, <2>3
  <2> QED BY <1>2, <2>4 DEF LineFits
<1>10. \A k \in 1 .. Len(more) : LineFits(more, k)
  BY <1>2, <1>4, <1>8, <1>9
<1> QED BY <1>5, <1>7, <1>10, LineByLine

(* The next line fits, and it does without its end. *)
LEMMA NextFits ==
    ASSUME NEW lines, AreLines(lines), Verified(lines), NEW t \in Tenants, NEW n, NEW l, NEW m,
           l = NextLine(lines, t, n), m = l \/ m = [l EXCEPT !.ended = FALSE]
    PROVE  Verified(Append(lines, m))
<1>1. IsLine(l) /\ Follows(l, TenantTail(lines, t)) /\ l.parses = TRUE
  <2>1. IsLine(l) /\ Follows(l, TenantTail(lines, t))
    BY NextIsLine
  <2>2. l.parses = TRUE
    BY DEF NextLine
  <2> QED BY <2>1, <2>2
<1>2. IsLine(m)
  BY <1>1, ChangedIsLine
<1>3. m.parses = TRUE /\ m.seq = Len(lines) + 1 /\ m.tenant = t
  BY DEF NextLine
<1>4. m.tseq = l.tseq /\ m.before = l.before /\ m.hash = l.hash /\ m.rec = l.rec /\ m.tenant = l.tenant
  BY DEF NextLine
<1>5. Follows(m, TenantTail(lines, t))
  BY <1>1, <1>4 DEF Follows, SelfChecked
<1> QED BY <1>2, <1>3, <1>5, OneMoreFits

-----------------------------------------------------------------------------
(* A file without lines. *)
LEMMA NothingIsVerified == AreLines(<<>>) /\ Verified(<<>>) /\ IsSeq(<<>>) /\ Recs(<<>>) = {}
<1>1. PICK e : e = <<>>
  OBVIOUS
<1>2. e \in Seq({}) /\ DOMAIN e = {}
  BY <1>1
<1>3. IsSeq(e)
  BY <1>2, SeqIs
<1>4. AreLines(e) /\ Verified(e) /\ Recs(e) = {}
  BY <1>2, <1>3 DEF AreLines, Verified, Parsed, Recs
<1> QED BY <1>1, <1>3, <1>4

(* The invariant holds at the start. *)
LEMMA LedgerInitially == LedgerInit => LedgerIInv
<1> SUFFICES ASSUME LedgerInit PROVE LedgerIInv
  OBVIOUS
<1>1. file \in Seq({<<>>}) /\ Len(file) = 1 /\ file[1] = <<>> /\ DOMAIN file = {1}
  BY DEF LedgerInit
<1>2. AreLines(<<>>) /\ Verified(<<>>) /\ IsSeq(<<>>)
  BY NothingIsVerified
<1>3. IsSeq(NotCached) /\ ~Parsed(NotCached)
  <2>1. NotCached \in Seq({Torn}) /\ NotCached[1] = Torn /\ DOMAIN NotCached = {1}
    BY DEF NotCached
  <2> QED BY <2>1, SeqIs DEF Parsed, Torn
<1>4. IsSeq(file) /\ \A f \in DOMAIN file : AreLines(file[f]) /\ Verified(file[f])
  BY <1>1, <1>2, SeqIs
<1>5. IsSeq(archive) /\ DOMAIN archive = {}
  BY <1>2, SeqIs DEF LedgerInit
<1>6. process \in [Processes -> [pc : {"idle", "append", "appended", "rotate", "rename"},
                                 file : 0 .. Len(file), name : Nat]]
  BY <1>1 DEF LedgerInit, AtRest
<1>7. cache = [p \in Processes |-> NotCached] /\ path = 1 /\ acked = {}
      /\ \A p \in Processes : process[p].pc = "idle"
  BY DEF LedgerInit, AtRest
<1>8. LedgerTypes
  BY <1>1, <1>3, <1>4, <1>5, <1>6, <1>7 DEF LedgerTypes
<1>9. NamesAreSingle /\ HandlesAreNamed /\ AckedIsKept
  BY <1>5, <1>7 DEF NamesAreSingle, HandlesAreNamed, AckedIsKept
<1>10. ChainsHold /\ CachesAreVerified
  BY <1>3, <1>4, <1>7 DEF ChainsHold, CachesAreVerified
<1> QED BY <1>8, <1>9, <1>10 DEF LedgerIInv

(* Numbers and types that follow from the invariant. *)
LEMMA LedgerFacts ==
    ASSUME LedgerTypes
    PROVE  /\ Len(file) \in Nat /\ DOMAIN file = 1 .. Len(file) /\ IsSeq(file)
           /\ Len(archive) \in Nat /\ DOMAIN archive = 1 .. Len(archive) /\ IsSeq(archive)
           /\ \A k \in DOMAIN archive : archive[k] \in 1 .. Len(file)
           /\ path \in 0 .. Len(file)
           /\ Named \subseteq 1 .. Len(file)
           /\ path # 0 => path \in Named
BY SeqFacts DEF LedgerTypes, Named

(* A process that does another step. *)
LEMMA ProcessMoves ==
    ASSUME LedgerTypes, Len(file') \in Nat, Len(file') >= Len(file), NEW p \in Processes, NEW at,
           at \in [pc : {"idle", "append", "appended", "rotate", "rename"}, file : 0 .. Len(file'), name : Nat],
           Do(p, at)
    PROVE  /\ process' \in [Processes -> [pc : {"idle", "append", "appended", "rotate", "rename"},
                                          file : 0 .. Len(file'), name : Nat]]
           /\ \A q \in Processes : process'[q] = IF q = p THEN at ELSE process[q]
<1>1. process \in [Processes -> [pc : {"idle", "append", "appended", "rotate", "rename"},
                                 file : 0 .. Len(file'), name : Nat]]
  <2>1. Len(file) \in Nat /\ 0 .. Len(file) \subseteq 0 .. Len(file')
    BY LedgerFacts
  <2>2. ASSUME NEW q \in Processes
        PROVE  process[q] \in [pc : {"idle", "append", "appended", "rotate", "rename"},
                               file : 0 .. Len(file'), name : Nat]
    BY <2>1 DEF LedgerTypes
  <2>3. process = [q \in Processes |-> process[q]]
    BY DEF LedgerTypes
  <2> QED BY <2>2, <2>3
<1> QED BY <1>1 DEF Do

(* Acknowledged lines stay when files that have names keep theirs, and their lines, *)
(* but for what is spoiled.                                                         *)
LEMMA AckedStays ==
    ASSUME AckedIsKept, Named \subseteq Named', spoiled \subseteq spoiled',
           \A f \in Named : Recs(file[f]) \subseteq Recs(file'[f]) \cup spoiled',
           NEW new, acked' = acked \cup new,
           new \subseteq spoiled' \cup UNION {Recs(file'[f]) : f \in Named'}
    PROVE  AckedIsKept'
<1>1. ASSUME NEW n \in acked PROVE n \in spoiled' \cup UNION {Recs(file'[f]) : f \in Named'}
  <2>1. n \in spoiled \/ \E f \in Named : n \in Recs(file[f])
    BY DEF AckedIsKept
  <2> QED BY <2>1
<1> QED BY <1>1 DEF AckedIsKept

(* A step of a process that leaves the files and their names alone. *)
LEMMA OnlyProcessMoves ==
    ASSUME LedgerIInv, UNCHANGED <<file, path, archive, cache, acked, spoiled>>,
           NEW p \in Processes, NEW at,
           at \in [pc : {"idle", "append", "appended", "rotate", "rename"}, file : 0 .. Len(file), name : Nat],
           Do(p, at),
           at.pc = "append" => at.file \in Named,
           at.pc \in {"rotate", "rename"} => p \in Rotators,
           at.pc = "rename" => at.name = NextName
    PROVE  LedgerIInv'
<1>1. /\ process' \in [Processes -> [pc : {"idle", "append", "appended", "rotate", "rename"},
                                     file : 0 .. Len(file'), name : Nat]]
      /\ \A q \in Processes : process'[q] = IF q = p THEN at ELSE process[q]
  <2>1. LedgerTypes /\ Len(file') = Len(file) /\ Len(file) \in Nat /\ Len(file) >= Len(file)
    BY LedgerFacts DEF LedgerIInv
  <2> QED BY <2>1, ProcessMoves
<1>2. LedgerTypes'
  BY <1>1 DEF LedgerIInv, LedgerTypes
<1>3. Named' = Named /\ NextName' = NextName
  BY DEF Named, NextName
<1>4. HandlesAreNamed'
  BY <1>1, <1>3 DEF LedgerIInv, HandlesAreNamed
<1>5. NamesAreSingle' /\ ChainsHold' /\ CachesAreVerified' /\ AckedIsKept'
  BY <1>3 DEF LedgerIInv, NamesAreSingle, ChainsHold, CachesAreVerified, AckedIsKept
<1> QED BY <1>2, <1>4, <1>5 DEF LedgerIInv

(* Looking at the size, and at the file that would be rotated. *)
LEMMA LooksKeep ==
    ASSUME LedgerIInv, NEW p \in Processes, NoRotation(p) \/ OpenForRotation(p) \/ CheckRotation(p)
    PROVE  LedgerIInv'
<1>1. UNCHANGED <<file, path, archive, cache, acked, spoiled>>
  BY DEF NoRotation, OpenForRotation, CheckRotation
<1>2. Len(file) \in Nat /\ Len(archive) \in Nat /\ path \in 0 .. Len(file) /\ NextName \in Nat
  BY LedgerFacts DEF LedgerIInv, NextName
<1>3. CASE NoRotation(p)
  BY <1>1, <1>2, <1>3, OnlyProcessMoves DEF NoRotation, AtRest
<1>4. CASE OpenForRotation(p)
  BY <1>1, <1>2, <1>4, OnlyProcessMoves DEF OpenForRotation
<1>5. CASE CheckRotation(p)
  <2>1. process[p].file \in 0 .. Len(file) /\ p \in Rotators
    BY <1>5 DEF LedgerIInv, LedgerTypes, HandlesAreNamed, CheckRotation
  <2>2. \/ Do(p, [pc |-> "rename", file |-> process[p].file, name |-> NextName])
        \/ Do(p, AtRest)
    BY <1>5 DEF CheckRotation
  <2>3. CASE Do(p, AtRest)
    BY <1>1, <1>2, <2>3, OnlyProcessMoves DEF AtRest
  <2>4. CASE Do(p, [pc |-> "rename", file |-> process[p].file, name |-> NextName])
    BY <1>1, <1>2, <2>1, <2>4, OnlyProcessMoves
  <2> QED BY <2>2, <2>3, <2>4
<1> QED BY <1>3, <1>4, <1>5

(* A file that is there, or a new one when the name is gone. *)
LEMMA NewFile ==
    ASSUME LedgerIInv, path = 0, file' = Append(file, <<>>), path' = Len(file) + 1,
           UNCHANGED <<archive, cache, acked, spoiled>>
    PROVE  /\ IsSeq(file') /\ Len(file') = Len(file) + 1 /\ DOMAIN file' = 1 .. Len(file) + 1
           /\ \A f \in 1 .. Len(file) : file'[f] = file[f]
           /\ file'[Len(file) + 1] = <<>>
           /\ \A f \in DOMAIN file' : AreLines(file'[f])
           /\ Named' = Named \cup {path'} /\ NextName' = NextName
           /\ NamesAreSingle' /\ AckedIsKept' /\ ChainsHold' /\ CachesAreVerified'
<1>1. /\ LedgerTypes /\ Len(file) \in Nat /\ DOMAIN file = 1 .. Len(file) /\ IsSeq(file)
      /\ \A k \in DOMAIN archive : archive[k] \in 1 .. Len(file)
      /\ Named \subseteq 1 .. Len(file)
  BY LedgerFacts DEF LedgerIInv
<1>2. /\ IsSeq(file') /\ Len(file') = Len(file) + 1
      /\ \A f \in 1 .. Len(file) : file'[f] = file[f]
      /\ file'[Len(file) + 1] = <<>>
  BY <1>1, Appended
<1>3. DOMAIN file' = 1 .. Len(file) + 1
  BY <1>2, SeqFacts
<1>4. \A f \in 1 .. Len(file) + 1 : f \in 1 .. Len(file) \/ f = Len(file) + 1
  BY <1>1
<1>5. \A f \in DOMAIN file' : AreLines(file'[f])
  BY <1>1, <1>2, <1>3, <1>4, NothingIsVerified DEF LedgerTypes
<1>6. Named' = Named \cup {path'} /\ NextName' = NextName
  BY <1>1 DEF Named, NextName
<1>7. NamesAreSingle'
  <2>1. \A k \in DOMAIN archive : archive[k] # Len(file) + 1
    BY <1>1
  <2> QED BY <2>1 DEF LedgerIInv, NamesAreSingle
<1>8. AckedIsKept'
  <2>1. \A f \in Named : Recs(file[f]) \subseteq Recs(file'[f]) \cup spoiled'
    BY <1>1, <1>2
  <2>2. acked' = acked \cup {} /\ AckedIsKept
    BY DEF LedgerIInv
  <2> QED BY <1>6, <2>1, <2>2, AckedStays
<1>9. ChainsHold'
  BY <1>1, <1>2, <1>3, <1>4, NothingIsVerified DEF LedgerIInv, ChainsHold
<1>10. CachesAreVerified'
  BY DEF LedgerIInv, CachesAreVerified
<1> QED BY <1>2, <1>3, <1>5, <1>6, <1>7, <1>8, <1>9, <1>10

(* open(path, "a+b"). *)
LEMMA OpenForAppendKeeps ==
    ASSUME LedgerIInv, NEW p \in Processes, OpenForAppend(p)
    PROVE  LedgerIInv'
<1>1. /\ LedgerTypes /\ Len(file) \in Nat /\ path \in 0 .. Len(file) /\ (path # 0 => path \in Named)
  BY LedgerFacts DEF LedgerIInv
<1>2. CASE path # 0
  <2>1. UNCHANGED <<file, path, archive, cache, acked, spoiled>> /\ Do(p, [pc |-> "append", file |-> path, name |-> 0])
    BY <1>2 DEF OpenForAppend
  <2> QED BY <1>1, <1>2, <2>1, OnlyProcessMoves
<1>3. CASE path = 0
  <2>1. /\ file' = Append(file, <<>>) /\ path' = Len(file) + 1 /\ UNCHANGED <<archive, cache, acked, spoiled>>
        /\ Do(p, [pc |-> "append", file |-> path', name |-> 0])
    BY <1>3 DEF OpenForAppend
  <2>2. /\ IsSeq(file') /\ Len(file') = Len(file) + 1 /\ DOMAIN file' = 1 .. Len(file) + 1
        /\ \A f \in DOMAIN file' : AreLines(file'[f])
        /\ Named' = Named \cup {path'} /\ NextName' = NextName
        /\ NamesAreSingle' /\ AckedIsKept' /\ ChainsHold' /\ CachesAreVerified'
    BY <1>3, <2>1, NewFile
  <2>3. PICK at : at = [pc |-> "append", file |-> path', name |-> 0]
    OBVIOUS
  <2>4. /\ at \in [pc : {"idle", "append", "appended", "rotate", "rename"}, file : 0 .. Len(file'), name : Nat]
        /\ at.pc = "append" /\ at.file = path'
    BY <1>1, <2>1, <2>2, <2>3
  <2>5. /\ process' \in [Processes -> [pc : {"idle", "append", "appended", "rotate", "rename"},
                                       file : 0 .. Len(file'), name : Nat]]
        /\ \A q \in Processes : process'[q] = IF q = p THEN at ELSE process[q]
    <3>1. Len(file') \in Nat /\ Len(file') >= Len(file) /\ Do(p, at)
      BY <1>1, <2>1, <2>2, <2>3
    <3> QED BY <1>1, <2>4, <3>1, ProcessMoves
  <2>6. LedgerTypes'
    BY <1>1, <2>1, <2>2, <2>5 DEF LedgerIInv, LedgerTypes
  <2>7. HandlesAreNamed'
    BY <2>2, <2>4, <2>5 DEF LedgerIInv, HandlesAreNamed
  <2> QED BY <2>2, <2>6, <2>7 DEF LedgerIInv
<1> QED BY <1>2, <1>3

(* The file gets the name of a segment.  With one rotator it is the next one, so *)
(* that no segment loses its name.                                               *)
LEMMA RenameKeeps ==
    ASSUME LedgerIInv, OneRotator, NEW p \in Processes, Rename(p)
    PROVE  LedgerIInv'
<1>1. /\ LedgerTypes /\ Len(file) \in Nat /\ path \in 0 .. Len(file) /\ DOMAIN file = 1 .. Len(file)
      /\ Len(archive) \in Nat /\ DOMAIN archive = 1 .. Len(archive) /\ IsSeq(archive)
  BY LedgerFacts DEF LedgerIInv
<1>2. process[p].pc = "rename" /\ p \in Rotators /\ process[p].name = Len(archive) + 1
  BY DEF Rename, LedgerIInv, HandlesAreNamed, NextName
<1>3. CASE path = 0
  <2>1. UNCHANGED <<file, path, archive, cache, acked, spoiled>> /\ Do(p, AtRest)
    BY <1>3 DEF Rename
  <2> QED BY <1>1, <2>1, OnlyProcessMoves DEF AtRest
<1>4. CASE path # 0
  <2>1. /\ archive' = Append(archive, path) /\ path' = 0 /\ Do(p, AtRest)
        /\ UNCHANGED <<file, cache, acked, spoiled>>
    BY <1>1, <1>2, <1>4 DEF Rename
  <2>2. /\ IsSeq(archive') /\ Len(archive') = Len(archive) + 1 /\ archive'[Len(archive) + 1] = path
        /\ \A k \in 1 .. Len(archive) : archive'[k] = archive[k]
    BY <1>1, <2>1, Appended
  <2>3. DOMAIN archive' = 1 .. Len(archive) + 1
    BY <2>2, SeqFacts
  <2>4. \A k \in 1 .. Len(archive) + 1 : k \in 1 .. Len(archive) \/ k = Len(archive) + 1
    BY <1>1
  <2>5. \A k \in DOMAIN archive' : archive'[k] \in DOMAIN file
    BY <1>1, <1>4, <2>2, <2>3, <2>4 DEF LedgerTypes
  <2>6. Named' = Named
    <3>1. \A k \in 1 .. Len(archive) : k \in 1 .. Len(archive) + 1
      BY <1>1
    <3>2. Len(archive) + 1 \in 1 .. Len(archive) + 1
      BY <1>1
    <3> QED BY <1>1, <1>4, <2>1, <2>2, <2>3, <2>4, <3>1, <3>2 DEF Named
  <2>7. /\ process' \in [Processes -> [pc : {"idle", "append", "appended", "rotate", "rename"},
                                       file : 0 .. Len(file'), name : Nat]]
        /\ \A q \in Processes : process'[q] = IF q = p THEN AtRest ELSE process[q]
    <3>1. AtRest \in [pc : {"idle", "append", "appended", "rotate", "rename"}, file : 0 .. Len(file'), name : Nat]
      BY <1>1, <2>1 DEF AtRest
    <3>2. Len(file') \in Nat /\ Len(file') >= Len(file)
      BY <1>1, <2>1
    <3> QED BY <1>1, <2>1, <3>1, <3>2, ProcessMoves
  <2>8. LedgerTypes'
    BY <1>1, <2>1, <2>2, <2>5, <2>7 DEF LedgerTypes
  <2>9. NamesAreSingle'
    <3>1. \A k \in 1 .. Len(archive) : archive[k] # path /\ archive[k] # 0
      BY <1>1 DEF LedgerIInv, NamesAreSingle, LedgerTypes
    <3>2. \A i, j \in 1 .. Len(archive) : archive[i] = archive[j] => i = j
      BY <1>1 DEF LedgerIInv, NamesAreSingle
    <3> QED BY <1>4, <2>1, <2>2, <2>3, <2>4, <3>1, <3>2 DEF NamesAreSingle
  <2>10. HandlesAreNamed'
    <3>1. ASSUME NEW q \in Processes, process'[q].pc = "rename" PROVE FALSE
      <4>1. q # p /\ process[q].pc = "rename"
        BY <2>7, <3>1 DEF AtRest
      <4>2. q \in Rotators
        BY <4>1 DEF LedgerIInv, HandlesAreNamed
      <4> QED BY <1>2, <4>1, <4>2 DEF OneRotator
    <3> QED BY <2>6, <2>7, <3>1 DEF LedgerIInv, HandlesAreNamed, AtRest
  <2>11. AckedIsKept' /\ ChainsHold' /\ CachesAreVerified'
    BY <2>1, <2>6 DEF LedgerIInv, AckedIsKept, ChainsHold, CachesAreVerified
  <2> QED BY <2>8, <2>9, <2>10, <2>11 DEF LedgerIInv
<1> QED BY <1>3, <1>4

(* What writing a line does to the lines that are there: of the line x that was  *)
(* to be written l is what got there.                                           *)
Adds(lines, l, more, x) ==
    /\ AreLines(more)
    /\ Recs(lines) \subseteq Recs(more) \cup Glued(lines, x)
    /\ l.parses = TRUE /\ ~Glues(lines) => l.rec \in Recs(more)
    /\ Glues(lines) => ~Parsed(more) /\ x.rec \in Glued(lines, x)
    /\ ~Glues(lines) => more = Append(lines, l) /\ Glued(lines, x) = {}

LEMMA WriteAdds ==
    ASSUME NEW lines, AreLines(lines), NEW l, IsLine(l), NEW more, more = AfterWrite(lines, l), NEW x
    PROVE  Adds(lines, l, more, x)
<1>1. IsSeq(lines) /\ Len(lines) \in Nat /\ DOMAIN lines = 1 .. Len(lines)
  BY SeqFacts DEF AreLines
<1>2. CASE ~Glues(lines)
  <2>1. more = Append(lines, l) /\ Glued(lines, x) = {}
    BY <1>2 DEF AfterWrite, Glued
  <2>2. /\ IsSeq(more) /\ Len(more) = Len(lines) + 1 /\ more[Len(lines) + 1] = l
        /\ \A k \in 1 .. Len(lines) : more[k] = lines[k]
    BY <1>1, <2>1, Appended
  <2>3. DOMAIN more = 1 .. Len(lines) + 1
    BY <2>2, SeqFacts
  <2>4. /\ \A k \in 1 .. Len(lines) + 1 : k \in 1 .. Len(lines) \/ k = Len(lines) + 1
        /\ \A k \in 1 .. Len(lines) : k \in 1 .. Len(lines) + 1
        /\ Len(lines) + 1 \in 1 .. Len(lines) + 1
    BY <1>1
  <2>5. AreLines(more)
    BY <1>1, <2>2, <2>3, <2>4 DEF AreLines
  <2>6. Recs(lines) \subseteq Recs(more)
    BY <1>1, <2>2, <2>3, <2>4 DEF Recs
  <2>7. l.parses = TRUE => l.rec \in Recs(more)
    BY <2>2, <2>3, <2>4 DEF Recs
  <2> QED BY <1>2, <2>1, <2>5, <2>6, <2>7 DEF Adds
<1>3. CASE Glues(lines)
  <2>1. /\ more = [lines EXCEPT ![Len(lines)] = Torn] /\ Len(lines) \in 1 .. Len(lines)
        /\ Glued(lines, x) = {lines[Len(lines)].rec, x.rec}
    BY <1>1, <1>3, SeqFacts DEF AfterWrite, Glued, Glues
  <2>2. /\ IsSeq(more) /\ Len(more) = Len(lines) /\ more[Len(lines)] = Torn
        /\ \A k \in 1 .. Len(lines) : k # Len(lines) => more[k] = lines[k]
    <3>1. PICK end : end = Len(lines)
      OBVIOUS
    <3>2. end \in DOMAIN lines /\ more = [lines EXCEPT ![end] = Torn]
      BY <1>1, <2>1, <3>1
    <3>3. /\ IsSeq(more) /\ Len(more) = Len(lines) /\ more[end] = Torn
          /\ \A k \in 1 .. Len(lines) : k # end => more[k] = lines[k]
      BY <1>1, <3>2, Replaced
    <3> QED BY <3>1, <3>3
  <2>3. DOMAIN more = 1 .. Len(lines)
    BY <2>2, SeqFacts
  <2>4. IsLine(Torn) /\ Torn.parses = FALSE
    BY DEF IsLine, Torn
  <2>5. AreLines(more)
    BY <1>1, <2>2, <2>3, <2>4 DEF AreLines
  <2>6. ~Parsed(more)
    BY <2>1, <2>2, <2>3, <2>4 DEF Parsed
  <2>7. ASSUME NEW n \in Recs(lines) PROVE n \in Recs(more) \cup Glued(lines, x)
    <3>1. PICK k \in 1 .. Len(lines) : lines[k].parses /\ n = lines[k].rec
      BY <1>1, <2>7 DEF Recs
    <3>2. CASE k = Len(lines)
      BY <2>1, <3>1, <3>2
    <3>3. CASE k # Len(lines)
      BY <2>2, <2>3, <3>1, <3>3 DEF Recs
    <3> QED BY <3>2, <3>3
  <2> QED BY <1>3, <2>1, <2>5, <2>6, <2>7 DEF Adds
<1> QED BY <1>2, <1>3

(* A file with other lines. *)
LEMMA FileChanges ==
    ASSUME LedgerIInv, NEW f \in 1 .. Len(file), NEW more, AreLines(more), file' = [file EXCEPT ![f] = more],
           UNCHANGED <<path, archive>>, spoiled \subseteq spoiled',
           Recs(file[f]) \subseteq Recs(more) \cup spoiled',
           NEW new, acked' = acked \cup new, new # {} => f \in Named, new \subseteq spoiled' \cup Recs(more)
    PROVE  /\ IsSeq(file') /\ Len(file') = Len(file) /\ DOMAIN file' = 1 .. Len(file)
           /\ file'[f] = more /\ \A g \in 1 .. Len(file) : g # f => file'[g] = file[g]
           /\ \A g \in DOMAIN file' : AreLines(file'[g])
           /\ Named' = Named /\ NextName' = NextName /\ NamesAreSingle' /\ AckedIsKept'
<1>1. /\ LedgerTypes /\ Len(file) \in Nat /\ DOMAIN file = 1 .. Len(file) /\ IsSeq(file)
      /\ Named \subseteq 1 .. Len(file)
  BY LedgerFacts DEF LedgerIInv
<1>2. /\ IsSeq(file') /\ Len(file') = Len(file) /\ file'[f] = more
      /\ \A g \in 1 .. Len(file) : g # f => file'[g] = file[g]
  <2>1. f \in DOMAIN file /\ IsSeq(file) /\ file' = [file EXCEPT ![f] = more]
    BY <1>1
  <2>2. IsSeq(file')
    BY ONLY <2>1, Replaced
  <2>3. Len(file') = Len(file)
    BY ONLY <2>1, Replaced
  <2>4. file'[f] = more /\ \A g \in 1 .. Len(file) : g # f => file'[g] = file[g]
    BY ONLY <2>1, Replaced
  <2> QED BY <2>2, <2>3, <2>4
<1>3. DOMAIN file' = 1 .. Len(file)
  BY <1>2, SeqFacts
<1>4. \A g \in DOMAIN file' : AreLines(file'[g])
  BY <1>1, <1>2, <1>3 DEF LedgerTypes
<1>5. Named' = Named /\ NextName' = NextName /\ NamesAreSingle'
  BY DEF Named, NextName, LedgerIInv, NamesAreSingle
<1>6. AckedIsKept'
  <2>1. \A g \in Named : Recs(file[g]) \subseteq Recs(file'[g]) \cup spoiled'
    BY <1>1, <1>2
  <2>2. new \subseteq spoiled' \cup UNION {Recs(file'[g]) : g \in Named'}
    BY <1>2, <1>5
  <2>3. AckedIsKept /\ Named \subseteq Named'
    BY <1>5 DEF LedgerIInv
  <2> QED BY <2>1, <2>2, <2>3, AckedStays
<1> QED BY <1>2, <1>3, <1>4, <1>5, <1>6

(* An append that returns, with the lines it found verified. *)
LEMMA WrittenKeeps ==
    ASSUME LedgerIInv, NEW p \in Processes, process[p].pc = "append",
           NEW f, f = process[p].file, NEW lines, lines = file[f], Verified(lines),
           NEW t \in Tenants, NEW n \in Entries, NEW l, l = NextLine(lines, t, n),
           NEW more, more = AfterWrite(lines, l),
           file' = [file EXCEPT ![f] = more], acked' = acked \cup {n},
           spoiled' = spoiled \cup Glued(lines, l), cache' = [cache EXCEPT ![p] = more],
           Do(p, [AtRest EXCEPT !.pc = "appended"]), UNCHANGED <<path, archive>>
    PROVE  LedgerIInv'
<1>1. /\ LedgerTypes /\ Len(file) \in Nat /\ DOMAIN file = 1 .. Len(file)
      /\ Named \subseteq 1 .. Len(file) /\ f \in Named
  <2>1. LedgerTypes /\ f \in Named
    BY DEF LedgerIInv, HandlesAreNamed
  <2> QED BY <2>1, LedgerFacts
<1>2. f \in 1 .. Len(file) /\ AreLines(lines)
  BY <1>1 DEF LedgerTypes
<1>3. IsLine(l) /\ l.parses = TRUE /\ l.rec = n
  <2>1. IsLine(l)
    BY NextIsLine
  <2>2. l.parses = TRUE /\ l.rec = n
    BY DEF NextLine
  <2> QED BY <2>1, <2>2
<1>4. /\ AreLines(more) /\ Recs(lines) \subseteq Recs(more) \cup Glued(lines, l)
      /\ (~Glues(lines) => n \in Recs(more))
      /\ (Glues(lines) => ~Parsed(more) /\ n \in Glued(lines, l))
      /\ (~Glues(lines) => more = Append(lines, l) /\ Glued(lines, l) = {})
  <2>1. Adds(lines, l, more, l)
    BY <1>2, <1>3, WriteAdds
  <2> QED BY <1>3, <2>1 DEF Adds
<1>5. ~Glues(lines) => Verified(more)
  <2>1. Verified(Append(lines, l))
    BY <1>2, NextFits
  <2> QED BY <1>4, <2>1
<1>6. /\ IsSeq(file') /\ Len(file') = Len(file) /\ DOMAIN file' = 1 .. Len(file)
      /\ file'[f] = more /\ \A g \in 1 .. Len(file) : g # f => file'[g] = file[g]
      /\ \A g \in DOMAIN file' : AreLines(file'[g])
      /\ Named' = Named /\ NextName' = NextName /\ NamesAreSingle' /\ AckedIsKept'
  <2>1. spoiled \subseteq spoiled' /\ Recs(file[f]) \subseteq Recs(more) \cup spoiled'
    BY <1>4
  <2>2. {n} \subseteq spoiled' \cup Recs(more)
    BY <1>4
  <2>3. {n} # {} => f \in Named
    BY <1>1
  <2>4. UNCHANGED <<path, archive>> /\ acked' = acked \cup {n} /\ file' = [file EXCEPT ![f] = more]
    OBVIOUS
  <2> QED BY ONLY LedgerIInv, <1>2, <1>4, <2>1, <2>2, <2>3, <2>4, FileChanges
<1>7. /\ process' \in [Processes -> [pc : {"idle", "append", "appended", "rotate", "rename"},
                                     file : 0 .. Len(file'), name : Nat]]
      /\ \A q \in Processes : process'[q] = IF q = p THEN [AtRest EXCEPT !.pc = "appended"] ELSE process[q]
  <2>1. [AtRest EXCEPT !.pc = "appended"]
           \in [pc : {"idle", "append", "appended", "rotate", "rename"}, file : 0 .. Len(file'), name : Nat]
    BY <1>1, <1>6 DEF AtRest
  <2>2. Len(file') \in Nat /\ Len(file') >= Len(file)
    BY <1>1, <1>6
  <2> QED BY <1>1, <2>1, <2>2, ProcessMoves
<1>8. /\ cache' = [q \in Processes |-> cache'[q]]
      /\ \A q \in Processes : cache'[q] = IF q = p THEN more ELSE cache[q]
  BY <1>1 DEF LedgerTypes
<1>9. LedgerTypes'
  <2>1. \A q \in Processes : IsSeq(cache'[q])
    BY <1>1, <1>4, <1>8 DEF LedgerTypes, AreLines
  <2>2. path' \in 0 .. Len(file') /\ IsSeq(archive') /\ \A k \in DOMAIN archive' : archive'[k] \in DOMAIN file'
    BY <1>1, <1>6 DEF LedgerTypes
  <2>3. acked' \subseteq Entries
    BY <1>1 DEF LedgerTypes
  <2> QED BY <1>6, <1>7, <1>8, <2>1, <2>2, <2>3 DEF LedgerTypes
<1>10. HandlesAreNamed'
  BY <1>6, <1>7 DEF LedgerIInv, HandlesAreNamed, AtRest
<1>11. ChainsHold'
  <2>1. ASSUME spoiled' = {}, NEW g \in 1 .. Len(file) PROVE Verified(file'[g])
    <3>1. ~Glues(lines) /\ spoiled = {}
      BY <1>4, <2>1
    <3>2. \A h \in DOMAIN file : Verified(file[h])
      BY <3>1 DEF LedgerIInv, ChainsHold
    <3> QED BY <1>1, <1>5, <1>6, <3>1, <3>2
  <2> QED BY <1>6, <2>1 DEF ChainsHold
<1>12. CachesAreVerified'
  BY <1>4, <1>5, <1>8 DEF LedgerIInv, CachesAreVerified
<1> QED BY <1>6, <1>9, <1>10, <1>11, <1>12 DEF LedgerIInv

(* An append whose write fails: it leaves a part of a line, and does not return. *)
LEMMA BrokenKeeps ==
    ASSUME LedgerIInv, NEW p \in Processes, process[p].pc = "append",
           NEW f, f = process[p].file, NEW lines, lines = file[f], Verified(lines),
           NEW t \in Tenants, NEW n \in Entries, NEW l, l = NextLine(lines, t, n),
           NEW piece, piece = Torn \/ piece = [l EXCEPT !.ended = FALSE],
           NEW more, more = AfterWrite(lines, piece),
           file' = [file EXCEPT ![f] = more], spoiled' = spoiled \cup {n} \cup Glued(lines, l),
           cache' = [cache EXCEPT ![p] = lines], Do(p, AtRest), UNCHANGED <<path, archive, acked>>
    PROVE  LedgerIInv'
<1>1. /\ LedgerTypes /\ Len(file) \in Nat /\ DOMAIN file = 1 .. Len(file)
      /\ Named \subseteq 1 .. Len(file) /\ f \in Named
  <2>1. LedgerTypes /\ f \in Named
    BY DEF LedgerIInv, HandlesAreNamed
  <2> QED BY <2>1, LedgerFacts
<1>2. f \in 1 .. Len(file) /\ AreLines(lines)
  BY <1>1 DEF LedgerTypes
<1>3. IsLine(piece)
  <2>1. CASE piece = Torn
    BY <2>1 DEF IsLine
  <2>2. CASE piece = [l EXCEPT !.ended = FALSE]
    <3>1. IsLine(l)
      BY NextIsLine
    <3>2. l.parses = TRUE
      BY DEF NextLine
    <3> QED BY <2>2, <3>1, <3>2, ChangedIsLine
  <2> QED BY <2>1, <2>2
<1>4. AreLines(more) /\ Recs(lines) \subseteq Recs(more) \cup Glued(lines, l)
  <2>1. Adds(lines, piece, more, l)
    BY <1>2, <1>3, WriteAdds
  <2> QED BY <2>1 DEF Adds
<1>5. /\ IsSeq(file') /\ Len(file') = Len(file) /\ DOMAIN file' = 1 .. Len(file)
      /\ file'[f] = more /\ \A g \in 1 .. Len(file) : g # f => file'[g] = file[g]
      /\ \A g \in DOMAIN file' : AreLines(file'[g])
      /\ Named' = Named /\ NextName' = NextName /\ NamesAreSingle' /\ AckedIsKept'
  <2>1. spoiled \subseteq spoiled' /\ Recs(file[f]) \subseteq Recs(more) \cup spoiled'
    BY <1>4
  <2>2. acked' = acked \cup {} /\ {} \subseteq spoiled' \cup Recs(more)
    OBVIOUS
  <2>3. UNCHANGED <<path, archive>> /\ file' = [file EXCEPT ![f] = more]
    OBVIOUS
  <2> QED BY ONLY LedgerIInv, <1>2, <1>4, <2>1, <2>2, <2>3, FileChanges
<1>6. /\ process' \in [Processes -> [pc : {"idle", "append", "appended", "rotate", "rename"},
                                     file : 0 .. Len(file'), name : Nat]]
      /\ \A q \in Processes : process'[q] = IF q = p THEN AtRest ELSE process[q]
  <2>1. AtRest \in [pc : {"idle", "append", "appended", "rotate", "rename"}, file : 0 .. Len(file'), name : Nat]
    BY <1>1, <1>5 DEF AtRest
  <2>2. Len(file') \in Nat /\ Len(file') >= Len(file)
    BY <1>1, <1>5
  <2> QED BY <1>1, <2>1, <2>2, ProcessMoves
<1>7. /\ cache' = [q \in Processes |-> cache'[q]]
      /\ \A q \in Processes : cache'[q] = IF q = p THEN lines ELSE cache[q]
  BY <1>1 DEF LedgerTypes
<1>8. LedgerTypes'
  <2>1. \A q \in Processes : IsSeq(cache'[q])
    BY <1>1, <1>2, <1>7 DEF LedgerTypes, AreLines
  <2>2. path' \in 0 .. Len(file') /\ IsSeq(archive') /\ \A k \in DOMAIN archive' : archive'[k] \in DOMAIN file'
    BY <1>1, <1>5 DEF LedgerTypes
  <2>3. acked' \subseteq Entries
    BY <1>1 DEF LedgerTypes
  <2> QED BY <1>5, <1>6, <1>7, <2>1, <2>2, <2>3 DEF LedgerTypes
<1>9. HandlesAreNamed'
  BY <1>5, <1>6 DEF LedgerIInv, HandlesAreNamed, AtRest
<1>10. ChainsHold'
  BY DEF ChainsHold
<1>11. CachesAreVerified'
  BY <1>7 DEF LedgerIInv, CachesAreVerified
<1> QED BY <1>5, <1>8, <1>9, <1>10, <1>11 DEF LedgerIInv

LEMMA AppendLineKeeps ==
    ASSUME LedgerIInv, NEW p \in Processes, NEW t \in Tenants, AppendLine(p, t)
    PROVE  LedgerIInv'
<1>1. PICK f, lines, n, l :
         /\ f = process[p].file /\ lines = file[f]
         /\ n = Cardinality(acked \cup Stored \cup spoiled) + 1 /\ l = NextLine(lines, t, n)
  OBVIOUS
<1>2. /\ process[p].pc = "append" /\ n \in Entries
      /\ \/ UNCHANGED <<file, cache, acked, spoiled>> /\ Do(p, AtRest)
         \/ /\ Accepted(lines, cache[p])
            /\ file' = [file EXCEPT ![f] = AfterWrite(lines, l)]
            /\ acked' = acked \cup {n}
            /\ spoiled' = spoiled \cup Glued(lines, l)
            /\ cache' = [cache EXCEPT ![p] = AfterWrite(lines, l)]
            /\ Do(p, [AtRest EXCEPT !.pc = "appended"])
         \/ /\ Accepted(lines, cache[p])
            /\ \E piece \in {Torn, [l EXCEPT !.ended = FALSE]} :
                  /\ file' = [file EXCEPT ![f] = AfterWrite(lines, piece)]
                  /\ spoiled' = spoiled \cup {n} \cup Glued(lines, l)
            /\ cache' = [cache EXCEPT ![p] = lines]
            /\ Do(p, AtRest)
            /\ UNCHANGED acked
      /\ UNCHANGED <<path, archive>>
  BY <1>1 DEF AppendLine
<1>3. CASE UNCHANGED <<file, cache, acked, spoiled>> /\ Do(p, AtRest)
  <2>1. Len(file) \in Nat
    BY LedgerFacts DEF LedgerIInv
  <2>2. AtRest \in [pc : {"idle", "append", "appended", "rotate", "rename"}, file : 0 .. Len(file), name : Nat]
        /\ AtRest.pc = "idle"
    BY <2>1 DEF AtRest
  <2> QED BY <1>2, <1>3, <2>2, OnlyProcessMoves
<1>4. Accepted(lines, cache[p]) => Verified(lines)
  <2>1. AreLines(lines)
    BY <1>1, <1>2, LedgerFacts DEF LedgerIInv, HandlesAreNamed, LedgerTypes
  <2>2. IsSeq(cache[p]) /\ (Parsed(cache[p]) => Verified(cache[p]))
    BY DEF LedgerIInv, LedgerTypes, CachesAreVerified
  <2> QED BY <2>1, <2>2, AcceptedIsVerified
<1>5. CASE /\ Accepted(lines, cache[p])
           /\ file' = [file EXCEPT ![f] = AfterWrite(lines, l)]
           /\ acked' = acked \cup {n}
           /\ spoiled' = spoiled \cup Glued(lines, l)
           /\ cache' = [cache EXCEPT ![p] = AfterWrite(lines, l)]
           /\ Do(p, [AtRest EXCEPT !.pc = "appended"])
  BY <1>1, <1>2, <1>4, <1>5, WrittenKeeps
<1>6. CASE /\ Accepted(lines, cache[p])
           /\ \E piece \in {Torn, [l EXCEPT !.ended = FALSE]} :
                 /\ file' = [file EXCEPT ![f] = AfterWrite(lines, piece)]
                 /\ spoiled' = spoiled \cup {n} \cup Glued(lines, l)
           /\ cache' = [cache EXCEPT ![p] = lines]
           /\ Do(p, AtRest)
           /\ UNCHANGED acked
  <2>1. PICK piece : /\ piece = Torn \/ piece = [l EXCEPT !.ended = FALSE]
                    /\ file' = [file EXCEPT ![f] = AfterWrite(lines, piece)]
                    /\ spoiled' = spoiled \cup {n} \cup Glued(lines, l)
    BY <1>6
  <2> QED BY <1>1, <1>2, <1>4, <1>6, <2>1, BrokenKeeps
<1> QED BY <1>2, <1>3, <1>5, <1>6

(* Somebody edits a record: what was in it is lost, and what is in it is a line. *)
LEMMA AlterKeeps ==
    ASSUME LedgerIInv, NEW f \in DOMAIN file, NEW k \in DOMAIN file[f], Alter(f, k)
    PROVE  LedgerIInv'
<1>1. /\ LedgerTypes /\ Len(file) \in Nat /\ DOMAIN file = 1 .. Len(file) /\ AreLines(file[f])
  BY LedgerFacts DEF LedgerIInv, LedgerTypes
<1>2. PICK lines, l, m, more :
         lines = file[f] /\ l = lines[k] /\ m = [l EXCEPT !.rec = 0] /\ more = [lines EXCEPT ![k] = m]
  OBVIOUS
<1>3. /\ spoiled = {} /\ l.parses /\ spoiled' = {l.rec} /\ file' = [file EXCEPT ![f] = more]
      /\ UNCHANGED <<path, archive, process, cache, acked>>
  <2>1. [file EXCEPT ![f][k].rec = 0] = [file EXCEPT ![f] = more]
    BY <1>1, <1>2 DEF AreLines, IsSeq
  <2> QED BY <1>2, <2>1 DEF Alter
<1>4. IsSeq(lines) /\ DOMAIN lines = 1 .. Len(lines) /\ IsLine(l) /\ l.parses = TRUE
  BY <1>1, <1>2, <1>3, SeqFacts, LineFacts DEF AreLines
<1>5. IsLine(m) /\ m.parses = TRUE
  BY <1>2, <1>4, ChangedIsLine
<1>6. /\ IsSeq(more) /\ Len(more) = Len(lines) /\ more[k] = m
      /\ \A j \in 1 .. Len(lines) : j # k => more[j] = lines[j]
  <2>1. k \in DOMAIN lines /\ IsSeq(lines) /\ more = [lines EXCEPT ![k] = m]
    BY <1>2, <1>4
  <2>2. IsSeq(more)
    BY ONLY <2>1, Replaced
  <2>3. Len(more) = Len(lines)
    BY ONLY <2>1, Replaced
  <2>4. more[k] = m /\ \A j \in 1 .. Len(lines) : j # k => more[j] = lines[j]
    BY ONLY <2>1, Replaced
  <2> QED BY <2>2, <2>3, <2>4
<1>7. DOMAIN more = 1 .. Len(lines)
  BY <1>6, SeqFacts
<1>8. AreLines(more)
  BY <1>1, <1>2, <1>4, <1>5, <1>6, <1>7 DEF AreLines
<1>9. ASSUME NEW n \in Recs(lines) PROVE n \in Recs(more) \cup spoiled'
  <2>1. PICK j \in 1 .. Len(lines) : lines[j].parses /\ n = lines[j].rec
    BY <1>4, <1>9 DEF Recs
  <2>2. CASE j = k
    BY <1>2, <1>3, <2>1, <2>2
  <2>3. CASE j # k
    BY <1>6, <1>7, <2>1, <2>3 DEF Recs
  <2> QED BY <2>2, <2>3
<1>10. /\ IsSeq(file') /\ Len(file') = Len(file) /\ DOMAIN file' = 1 .. Len(file)
       /\ \A g \in DOMAIN file' : AreLines(file'[g])
       /\ Named' = Named /\ NextName' = NextName /\ NamesAreSingle' /\ AckedIsKept'
  <2>1. f \in 1 .. Len(file) /\ spoiled \subseteq spoiled'
    BY <1>1, <1>3
  <2>2. Recs(file[f]) \subseteq Recs(more) \cup spoiled'
    BY <1>2, <1>9
  <2>3. acked' = acked \cup {} /\ {} \subseteq spoiled' \cup Recs(more)
    BY <1>3
  <2> QED BY <1>3, <1>8, <2>1, <2>2, <2>3, FileChanges
<1>11. LedgerTypes'
  BY <1>1, <1>3, <1>10 DEF LedgerTypes
<1>12. HandlesAreNamed' /\ ChainsHold' /\ CachesAreVerified'
  BY <1>3, <1>10 DEF LedgerIInv, HandlesAreNamed, ChainsHold, CachesAreVerified
<1> QED BY <1>10, <1>11, <1>12 DEF LedgerIInv

(* Every step keeps the invariant. *)
LEMMA LedgerStep == LedgerIInv /\ OneRotator /\ [LedgerNext]_ledgerVars => LedgerIInv'
<1> SUFFICES ASSUME LedgerIInv, OneRotator, [LedgerNext]_ledgerVars PROVE LedgerIInv'
  OBVIOUS
<1>1. ASSUME NEW p \in Processes, OpenForAppend(p) PROVE LedgerIInv'
  BY <1>1, OpenForAppendKeeps
<1>2. ASSUME NEW p \in Processes, NEW t \in Tenants, AppendLine(p, t) PROVE LedgerIInv'
  BY <1>2, AppendLineKeeps
<1>3. ASSUME NEW p \in Processes, NoRotation(p) \/ OpenForRotation(p) \/ CheckRotation(p) PROVE LedgerIInv'
  BY <1>3, LooksKeep
<1>4. ASSUME NEW p \in Processes, Rename(p) PROVE LedgerIInv'
  BY <1>4, RenameKeeps
<1>5. ASSUME NEW f \in DOMAIN file, NEW k \in DOMAIN file[f], Alter(f, k) PROVE LedgerIInv'
  BY <1>5, AlterKeeps
<1>6. CASE UNCHANGED ledgerVars
  <2>1. LedgerTypes' /\ NamesAreSingle' /\ HandlesAreNamed'
    BY <1>6 DEF LedgerIInv, LedgerTypes, NamesAreSingle, HandlesAreNamed, ledgerVars, Named, NextName
  <2>2. AckedIsKept' /\ ChainsHold' /\ CachesAreVerified'
    BY <1>6 DEF LedgerIInv, AckedIsKept, ChainsHold, CachesAreVerified, ledgerVars, Named
  <2> QED BY <2>1, <2>2 DEF LedgerIInv
<1> QED BY <1>1, <1>2, <1>3, <1>4, <1>5, <1>6 DEF LedgerNext

-----------------------------------------------------------------------------
(* Two files end to end: numbering begins again, so that the lines are those of *)
(* one file or are no chain.                                                    *)
LEMMA Joined ==
    ASSUME NEW s, AreLines(s), NEW t, AreLines(t), NEW j, j = s \o t
    PROVE  /\ AreLines(j)
           /\ j = <<>> <=> s = <<>> /\ t = <<>>
           /\ Verified(t) => (Verified(j) <=> s = <<>> \/ (t = <<>> /\ Verified(s)))
<1>1. /\ IsSeq(s) /\ Len(s) \in Nat /\ DOMAIN s = 1 .. Len(s) /\ (s = <<>> <=> Len(s) = 0)
      /\ IsSeq(t) /\ Len(t) \in Nat /\ DOMAIN t = 1 .. Len(t) /\ (t = <<>> <=> Len(t) = 0)
  BY SeqFacts DEF AreLines
<1>2. /\ IsSeq(j) /\ Len(j) = Len(s) + Len(t) /\ \A k \in 1 .. Len(s) : j[k] = s[k]
      /\ \A k \in 1 .. Len(t) : j[Len(s) + k] = t[k]
      /\ (s = <<>> => j = t) /\ (t = <<>> => j = s)
  <2>1. IsSeq(j) /\ Len(j) = Len(s) + Len(t)
    BY <1>1, EndToEnd
  <2>2. (\A k \in 1 .. Len(s) : j[k] = s[k]) /\ \A k \in 1 .. Len(t) : j[Len(s) + k] = t[k]
    BY <1>1, EndToEnd
  <2>3. (s = <<>> => j = t) /\ (t = <<>> => j = s)
    BY <1>1, EndToEnd
  <2> QED BY <2>1, <2>2, <2>3
<1>3. DOMAIN j = 1 .. Len(s) + Len(t) /\ (j = <<>> <=> Len(j) = 0)
  BY <1>2, SeqFacts
<1>4. \A k \in 1 .. Len(s) + Len(t) : k \in 1 .. Len(s) \/ (k - Len(s) \in 1 .. Len(t) /\ k = Len(s) + (k - Len(s)))
  BY <1>1
<1>5. AreLines(j)
  <2>1. ASSUME NEW k \in 1 .. Len(s) + Len(t) PROVE IsLine(j[k])
    <3>1. CASE k \in 1 .. Len(s)
      BY <1>1, <1>2, <3>1 DEF AreLines
    <3>2. CASE k \notin 1 .. Len(s)
      <4>1. k - Len(s) \in 1 .. Len(t) /\ j[k] = t[k - Len(s)]
        BY <1>2, <1>4, <3>2
      <4> QED BY <1>1, <4>1 DEF AreLines
    <3> QED BY <3>1, <3>2
  <2> QED BY <1>2, <1>3, <2>1 DEF AreLines
<1>6. ASSUME Verified(t), s # <<>>, t # <<>> PROVE ~Verified(j)
  <2>1. 1 \in 1 .. Len(t) /\ Len(s) + 1 \in DOMAIN j /\ Len(s) + 1 # 1
    BY <1>1, <1>3, <1>6
  <2>2. j[Len(s) + 1].seq = 1
    BY <1>1, <1>2, <1>6, <2>1 DEF Verified
  <2> QED BY <2>1, <2>2 DEF Verified
<1>7. j = <<>> <=> s = <<>> /\ t = <<>>
  <2>1. PICK a, b, c : a = Len(s) /\ b = Len(t) /\ c = Len(j)
    OBVIOUS
  <2>2. a \in Nat /\ b \in Nat /\ c = a + b
    BY <1>1, <1>2, <2>1
  <2>3. (s = <<>> <=> a = 0) /\ (t = <<>> <=> b = 0) /\ (j = <<>> <=> c = 0)
    BY <1>1, <1>3, <2>1
  <2>4. c = 0 <=> a = 0 /\ b = 0
    BY <2>2
  <2> QED BY <2>3, <2>4
<1>8. Verified(t) => (Verified(j) <=> s = <<>> \/ (t = <<>> /\ Verified(s)))
  BY <1>2, <1>6
<1> QED BY <1>5, <1>7, <1>8

(* A line that is damaged, by itself and wherever it is read. *)
HasBad(s) == \E k \in DOMAIN s : ~s[k].parses \/ ~SelfChecked(s[k])

LEMMA VerifiedHasNoBad ==
    ASSUME NEW s, AreLines(s), Verified(s)
    PROVE  ~HasBad(s)
<1>1. DOMAIN s = 1 .. Len(s) /\ Parsed(s) /\ \A k \in 1 .. Len(s) : LineFits(s, k)
  BY LineByLine, SeqFacts DEF AreLines
<1> QED BY <1>1 DEF HasBad, LineFits, Follows, Parsed

LEMMA BadWhereItIs ==
    ASSUME NEW s, NEW t, IsSeq(s), IsSeq(t), NEW j, j = s \o t
    PROVE  HasBad(j) <=> HasBad(s) \/ HasBad(t)
<1>1. /\ Len(s) \in Nat /\ DOMAIN s = 1 .. Len(s) /\ Len(t) \in Nat /\ DOMAIN t = 1 .. Len(t)
  BY SeqFacts
<1>2. (\A k \in 1 .. Len(s) : j[k] = s[k]) /\ \A k \in 1 .. Len(t) : j[Len(s) + k] = t[k]
  BY EndToEnd
<1>3. DOMAIN j = 1 .. Len(s) + Len(t)
  <2>1. IsSeq(j) /\ Len(j) = Len(s) + Len(t)
    BY EndToEnd
  <2> QED BY <2>1, SeqFacts
<1>4. ASSUME HasBad(j) PROVE HasBad(s) \/ HasBad(t)
  <2>1. PICK k \in 1 .. Len(s) + Len(t) : ~j[k].parses \/ ~SelfChecked(j[k])
    BY <1>3, <1>4 DEF HasBad
  <2>2. CASE k \in 1 .. Len(s)
    BY <1>1, <1>2, <2>1, <2>2 DEF HasBad
  <2>3. CASE k \notin 1 .. Len(s)
    <3>1. k - Len(s) \in 1 .. Len(t) /\ k = Len(s) + (k - Len(s))
      BY <1>1, <2>3
    <3>2. j[k] = t[k - Len(s)]
      BY <1>2, <3>1
    <3> QED BY <1>1, <2>1, <3>1, <3>2 DEF HasBad
  <2> QED BY <2>2, <2>3
<1>5. ASSUME HasBad(s) PROVE HasBad(j)
  <2>1. PICK k \in 1 .. Len(s) : ~s[k].parses \/ ~SelfChecked(s[k])
    BY <1>1, <1>5 DEF HasBad
  <2>2. k \in 1 .. Len(s) + Len(t)
    BY <1>1
  <2> QED BY <1>2, <1>3, <2>1, <2>2 DEF HasBad
<1>6. ASSUME HasBad(t) PROVE HasBad(j)
  <2>1. PICK k \in 1 .. Len(t) : ~t[k].parses \/ ~SelfChecked(t[k])
    BY <1>1, <1>6 DEF HasBad
  <2>2. Len(s) + k \in 1 .. Len(s) + Len(t)
    BY <1>1
  <2> QED BY <1>2, <1>3, <2>1, <2>2 DEF HasBad
<1> QED BY <1>4, <1>5, <1>6

(* The segments end to end. *)
LEMMA ArchivedExists ==
    ASSUME LedgerTypes
    PROVE  \E upTo : /\ upTo = [k \in 0 .. Len(archive) |-> IF k = 0 THEN <<>> ELSE upTo[k - 1] \o file[archive[k]]]
                     /\ Archived = upTo[Len(archive)]
<1> DEFINE Solves(u, n) == u = [k \in 0 .. n |-> IF k = 0 THEN <<>> ELSE u[k - 1] \o file[archive[k]]]
<1>1. \A n \in Nat : \E u : Solves(u, n)
  <2> DEFINE S == {n \in Nat : ~ \E u : Solves(u, n)}
  <2>1. SUFFICES ASSUME S # {} PROVE FALSE
    OBVIOUS
  <2>2. PICK n \in S : \A m \in S : n <= m
    <3>1. S \in SUBSET Nat
      OBVIOUS
    <3> HIDE DEF S
    <3> QED BY <2>1, <3>1, LeastNumber
  <2>3. n # 0
    <3>1. PICK u : u = [k \in 0 .. 0 |-> <<>>]
      OBVIOUS
    <3>2. Solves(u, 0)
      BY <3>1
    <3>3. 0 \notin S
      BY <3>2
    <3> QED BY <2>2, <3>3
  <2>4. n \in Nat
    OBVIOUS
  <2>5. n - 1 \in Nat /\ ~(n <= n - 1)
    BY <2>3, <2>4
  <2>6. n - 1 \notin S
    <3> HIDE DEF S
    <3> QED BY <2>2, <2>5
  <2>7. PICK u : Solves(u, n - 1)
    BY <2>5, <2>6
  <2>8. PICK v : v = [k \in 0 .. n |-> IF k = 0 THEN <<>> ELSE u[k - 1] \o file[archive[k]]]
    OBVIOUS
  <2>9. ASSUME NEW k \in 0 .. n - 1 PROVE v[k] = u[k]
    <3>1. k \in 0 .. n
      BY <2>4
    <3>2. v[k] = IF k = 0 THEN <<>> ELSE u[k - 1] \o file[archive[k]]
      BY <2>8, <3>1
    <3>3. u[k] = IF k = 0 THEN <<>> ELSE u[k - 1] \o file[archive[k]]
      BY <2>7
    <3> QED BY <3>2, <3>3
  <2>10. \A k \in 0 .. n : k # 0 => k - 1 \in 0 .. n - 1
    BY <2>4
  <2>11. Solves(v, n)
    BY <2>8, <2>9, <2>10
  <2> QED BY <2>2, <2>11
<1>2. Len(archive) \in Nat
  BY LedgerFacts
<1>3. Archived = (CHOOSE u : Solves(u, Len(archive)))[Len(archive)]
  BY DEF Archived
<1>4. \E u : Solves(u, Len(archive))
  BY <1>1, <1>2
<1>5. Solves(CHOOSE u : Solves(u, Len(archive)), Len(archive))
  BY <1>4
<1> QED BY <1>3, <1>5

(* What is read of the segments: nothing when there is nothing in any of them, and *)
(* what is bad in one of them; what the check says when every one of them is sound.  *)
LEMMA SegmentsRead ==
    ASSUME LedgerTypes
    PROVE  /\ AreLines(Archived)
           /\ Archived = <<>> <=> \A k \in DOMAIN archive : file[archive[k]] = <<>>
           /\ HasBad(Archived) <=> \E k \in DOMAIN archive : HasBad(file[archive[k]])
           /\ (\A f \in DOMAIN file : Verified(file[f])) =>
                 (Verified(Archived) <=> \A i, k \in DOMAIN archive :
                                           file[archive[i]] # <<>> /\ file[archive[k]] # <<>> => i = k)
<1>1. /\ Len(archive) \in Nat /\ DOMAIN archive = 1 .. Len(archive)
      /\ \A k \in 1 .. Len(archive) : AreLines(file[archive[k]]) /\ archive[k] \in DOMAIN file
  BY LedgerFacts DEF LedgerTypes
<1>2. PICK upTo : /\ upTo = [k \in 0 .. Len(archive) |-> IF k = 0 THEN <<>> ELSE upTo[k - 1] \o file[archive[k]]]
                  /\ Archived = upTo[Len(archive)]
  BY ArchivedExists
<1>3. PICK sound \in BOOLEAN : sound <=> \A f \in DOMAIN file : Verified(file[f])
  OBVIOUS
<1> DEFINE J(n) == /\ AreLines(upTo[n])
                   /\ upTo[n] = <<>> <=> \A k \in 1 .. n : file[archive[k]] = <<>>
                   /\ HasBad(upTo[n]) <=> \E k \in 1 .. n : HasBad(file[archive[k]])
                   /\ sound => (Verified(upTo[n]) <=> \A i, k \in 1 .. n :
                                                        file[archive[i]] # <<>> /\ file[archive[k]] # <<>> => i = k)
<1>4. J(0)
  <2>1. upTo[0] = <<>>
    BY <1>1, <1>2
  <2>2. AreLines(<<>>) /\ Verified(<<>>) /\ ~HasBad(<<>>)
    BY NothingIsVerified, VerifiedHasNoBad
  <2>3. 1 .. 0 = {}
    OBVIOUS
  <2> QED BY <2>1, <2>2, <2>3
<1>5. ASSUME NEW n \in 1 .. Len(archive), J(n - 1) PROVE J(n)
  <2>1. n \in Nat /\ 1 <= n
    BY <1>1
  <2>2. PICK s, t, j : s = upTo[n - 1] /\ t = file[archive[n]] /\ j = upTo[n]
    OBVIOUS
  <2>3. j = s \o t
    <3>1. n \in 0 .. Len(archive) /\ n # 0
      BY <1>1, <2>1
    <3>2. upTo[n] = IF n = 0 THEN <<>> ELSE upTo[n - 1] \o file[archive[n]]
      BY <1>2, <3>1
    <3> QED BY <2>2, <3>1, <3>2
  <2>4. AreLines(s) /\ AreLines(t) /\ (sound => Verified(t))
    BY <1>1, <1>3, <1>5, <2>2
  <2>5. /\ AreLines(j) /\ (j = <<>> <=> s = <<>> /\ t = <<>>)
        /\ (sound => (Verified(j) <=> s = <<>> \/ (t = <<>> /\ Verified(s))))
    BY <2>3, <2>4, Joined
  <2>6. \A k \in 1 .. n : k \in 1 .. n - 1 \/ k = n
    BY <2>1
  <2>7. /\ \A k \in 1 .. n - 1 : k \in 1 .. n /\ k # n
        /\ n \in 1 .. n
    BY <2>1
  <2>8. j = <<>> <=> \A k \in 1 .. n : file[archive[k]] = <<>>
    BY <1>5, <2>2, <2>5, <2>6, <2>7
  <2>9. HasBad(j) <=> \E k \in 1 .. n : HasBad(file[archive[k]])
    <3>1. HasBad(j) <=> HasBad(s) \/ HasBad(t)
      BY <2>3, <2>4, BadWhereItIs DEF AreLines
    <3> QED BY <1>5, <2>2, <2>6, <2>7, <3>1
  <2>10. ASSUME sound
         PROVE  Verified(j) <=> \A i, k \in 1 .. n : file[archive[i]] # <<>> /\ file[archive[k]] # <<>> => i = k
    <3>1. CASE t = <<>>
      BY <1>5, <2>2, <2>5, <2>6, <2>7, <2>10, <3>1
    <3>2. CASE s = <<>>
      BY <1>5, <2>2, <2>5, <2>6, <2>7, <2>10, <3>2
    <3>3. CASE s # <<>> /\ t # <<>>
      <4>1. PICK k \in 1 .. n - 1 : file[archive[k]] # <<>>
        BY <1>5, <2>2, <3>3
      <4>2. k \in 1 .. n /\ n \in 1 .. n /\ k # n /\ file[archive[n]] # <<>>
        BY <2>2, <2>7, <3>3, <4>1
      <4> QED BY <2>5, <2>10, <3>3, <4>1, <4>2
    <3> QED BY <3>1, <3>2, <3>3
  <2> QED BY <2>2, <2>5, <2>8, <2>9, <2>10
<1>6. J(Len(archive))
  <2> DEFINE S == {n \in Nat : n \in 0 .. Len(archive) /\ ~J(n)}
  <2>1. SUFFICES ASSUME S # {} PROVE FALSE
    BY <1>1
  <2>2. PICK n \in S : \A m \in S : n <= m
    <3>1. S \in SUBSET Nat
      OBVIOUS
    <3> HIDE DEF S
    <3> QED BY <2>1, <3>1, LeastNumber
  <2>3. n \in Nat /\ n \in 0 .. Len(archive) /\ ~J(n)
    OBVIOUS
  <2> HIDE DEF J
  <2>4. n # 0
    BY <1>4, <2>3
  <2>5. n - 1 \in Nat /\ n - 1 \in 0 .. Len(archive) /\ n \in 1 .. Len(archive) /\ ~(n <= n - 1)
    BY <1>1, <2>3, <2>4
  <2>6. J(n - 1)
    BY <2>2, <2>5
  <2> QED BY <1>5, <2>3, <2>5, <2>6
<1> QED BY <1>1, <1>2, <1>3, <1>6

(* A set of files has at most one of them when any two are the same. *)
LEMMA AtMostOne ==
    ASSUME NEW S, IsFiniteSet(S)
    PROVE  Cardinality(S) <= 1 <=> \A f, g \in S : f = g
<1>1. CASE S = {}
  BY <1>1, FS_EmptySet
<1>2. CASE S # {}
  <2>1. Cardinality(S) \in Nat /\ Cardinality(S) # 0
    BY <1>2, FS_CardinalityType, FS_EmptySet
  <2>2. Cardinality(S) = 1 <=> \E f : S = {f}
    BY FS_Singleton
  <2>3. (\E f : S = {f}) <=> \A f, g \in S : f = g
    BY <1>2
  <2>4. Cardinality(S) <= 1 <=> Cardinality(S) = 1
    BY <2>1
  <2> QED BY <2>2, <2>3, <2>4
<1> QED BY <1>1, <1>2

LEMMA VerdictImplied == LedgerIInv => HistoryVerdict
<1> SUFFICES ASSUME LedgerIInv, spoiled = {}
             PROVE  Verified(WholeHistory) <=> Cardinality({f \in Named : file[f] # <<>>}) <= 1
  BY DEF HistoryVerdict
<1>1. /\ LedgerTypes /\ \A f \in DOMAIN file : Verified(file[f])
  BY DEF LedgerIInv, ChainsHold
<1>2. /\ Len(file) \in Nat /\ DOMAIN file = 1 .. Len(file) /\ path \in 0 .. Len(file)
      /\ Named \subseteq 1 .. Len(file) /\ \A k \in DOMAIN archive : archive[k] \in 1 .. Len(file)
  BY <1>1, LedgerFacts
<1>3. PICK s, t : s = Archived /\ t = IF path = 0 THEN <<>> ELSE file[path]
  OBVIOUS
<1>4. AreLines(t) /\ Verified(t)
  BY <1>1, <1>2, <1>3, NothingIsVerified DEF LedgerTypes
<1>5. /\ AreLines(s) /\ (s = <<>> <=> \A k \in DOMAIN archive : file[archive[k]] = <<>>)
      /\ (Verified(s) <=> \A i, k \in DOMAIN archive : file[archive[i]] # <<>> /\ file[archive[k]] # <<>> => i = k)
  BY <1>1, <1>3, SegmentsRead
<1>6. Verified(WholeHistory) <=> s = <<>> \/ (t = <<>> /\ Verified(s))
  <2>1. WholeHistory = s \o t
    BY <1>3 DEF WholeHistory
  <2> QED BY <1>4, <1>5, <2>1, Joined
<1> DEFINE S == {f \in Named : file[f] # <<>>}
<1>7. Cardinality(S) <= 1 <=> \A f, g \in S : f = g
  <2>1. IsFiniteSet(S)
    <3>1. S \subseteq 1 .. Len(file)
      BY <1>2
    <3>2. IsFiniteSet(1 .. Len(file))
      BY <1>2, FS_Interval
    <3> HIDE DEF S
    <3> QED BY <3>1, <3>2, FS_Subset
  <2> HIDE DEF S
  <2> QED BY <2>1, AtMostOne
<1>8. \A f : f \in S <=> file[f] # <<>> /\ ((\E k \in DOMAIN archive : f = archive[k]) \/ (f = path /\ path # 0))
  BY <1>2 DEF Named
<1>9. /\ \A i, k \in DOMAIN archive : archive[i] = archive[k] => i = k
      /\ \A k \in DOMAIN archive : archive[k] # path
  BY DEF LedgerIInv, NamesAreSingle
<1> HIDE DEF S
<1>10. CASE t = <<>>
  <2>1. \A f : f \in S <=> (\E k \in DOMAIN archive : f = archive[k]) /\ file[f] # <<>>
    BY <1>3, <1>8, <1>10
  <2>2. (\A f, g \in S : f = g) <=> \A i, k \in DOMAIN archive : file[archive[i]] # <<>> /\ file[archive[k]] # <<>> => i = k
    BY <1>9, <2>1
  <2>3. Verified(s) <=> \A f, g \in S : f = g
    BY <1>5, <2>2
  <2>4. s = <<>> => Verified(s)
    BY NothingIsVerified
  <2> QED BY <1>6, <1>7, <1>10, <2>3, <2>4 DEF S
<1>11. CASE t # <<>>
  <2>1. path \in S
    BY <1>3, <1>8, <1>11
  <2>2. (\A f, g \in S : f = g) <=> \A k \in DOMAIN archive : file[archive[k]] = <<>>
    BY <1>8, <1>9, <2>1
  <2> QED BY <1>5, <1>6, <1>7, <1>11, <2>2 DEF S
<1> QED BY <1>10, <1>11

(* The invariant implies what the runs check. *)
LEMMA LedgerImplied == LedgerIInv => LedgerInv
<1> SUFFICES ASSUME LedgerIInv PROVE LedgerInv
  OBVIOUS
<1>1. LedgerTypeOK
  <2>1. /\ path \in 0 .. Len(file) /\ acked \subseteq Entries
        /\ \A k \in DOMAIN archive : archive[k] \in DOMAIN file /\ archive[k] # path
    BY DEF LedgerIInv, LedgerTypes, NamesAreSingle
  <2>2. \A p \in Processes : process[p].file \in 0 .. Len(file)
    BY DEF LedgerIInv, LedgerTypes
  <2> QED BY <2>1, <2>2 DEF LedgerTypeOK
<1>2. CacheIsSound
  BY AcceptedIsVerified DEF LedgerIInv, LedgerTypes, CachesAreVerified, CacheIsSound
<1> QED BY <1>1, <1>2, VerdictImplied DEF LedgerInv, LedgerIInv

(* An append that returned is in the ledger or in one of its segments, every file *)
(* of an undamaged ledger verifies as a whole, no process extends a damaged one   *)
(* for what it remembers of it, and the check over the segments accepts exactly a *)
(* ledger that is in one file: for any number of processes that append, and one   *)
(* of them that rotates.                                                          *)
THEOREM LedgerIsKept ==
    ASSUME OneRotator
    PROVE  LedgerSpec => []LedgerInv
<1>1. LedgerIInv /\ [LedgerNext]_ledgerVars => LedgerIInv'
  BY LedgerStep
<1> QED BY LedgerInitially, LedgerImplied, <1>1, PTL DEF LedgerSpec

-----------------------------------------------------------------------------
(***************************************************************************)
(* Reconciliation.                                                         *)
(***************************************************************************)

(* Damage shows in a line, also when other lines are read before it. *)
DamageIsLocal == \A f \in DOMAIN file : Verified(file[f]) \/ HasBad(file[f])

RecordNumbers == acked \cup Stored \cup spoiled

(* Records are numbered one after the other; 0 is one that was edited. *)
NumbersAreNew ==
    /\ RecordNumbers \subseteq 0 .. MaxAppends
    /\ spoiled = {} => 0 \notin RecordNumbers
    /\ \A n \in RecordNumbers : n <= Cardinality(RecordNumbers)

(* What a reconciliation has to know of the ledger. *)
SoundIInv == LedgerIInv /\ DamageIsLocal /\ NumbersAreNew

(* What no step of the others takes back: names, segments in their order, what *)
(* was acknowledged or spoiled, damage; and what they write is new.            *)
LedgerMoves ==
    /\ Len(file) <= Len(file')
    /\ \A f \in 1 .. Len(file) : /\ HasBad(file[f]) => HasBad(file'[f])
                                 /\ acked \cap Recs(file'[f]) \subseteq Recs(file[f])
    /\ \A f \in 1 .. Len(file') : f \notin 1 .. Len(file) => file'[f] = <<>>
    /\ Named \subseteq Named' /\ acked \subseteq acked' /\ spoiled \subseteq spoiled'
    /\ Len(archive) <= Len(archive') /\ \A k \in 1 .. Len(archive) : archive'[k] = archive[k]
    /\ Len(archive') = Len(archive) => path' = path \/ (path = 0 /\ path' \notin 1 .. Len(file))

ReconShape ==
    /\ recon \in [pc : {"never", "refused", "failed", "reported", "segments", "open", "verify", "look",
                        "trades", "read"},
                  round : 0 .. 3, seen : {recon.seen}, file : 0 .. Len(file),
                  trades : SUBSET (0 .. MaxAppends)]
    /\ AreLines(recon.seen)
    /\ recon.pc \in {"segments", "open", "verify"} => recon.round # 0
    /\ recon.pc # "reported" => recon.trades = {}
    /\ recon.pc = "look" => recon.round = 3
    /\ reconciled \in 0 .. MaxReconciliations
    /\ began.acked \subseteq acked
    /\ began.segments \in 0 .. Len(archive)

BadSegment == \E k \in DOMAIN archive : HasBad(file[archive[k]])

BadNamed == \E f \in Named : HasBad(file[f])

(* Where the damage is that was there at the beginning. *)
DamageIsAhead ==
    began.damaged =>
        \/ recon.pc \in {"never", "refused", "failed"}
        \/ recon.pc \in {"segments", "open"} /\ recon.round = 1 /\ BadNamed
        \/ recon.pc = "verify" /\ recon.round = 1 /\ (BadSegment \/ HasBad(FileRead))
        \/ recon.pc = "segments" /\ recon.round = 2 /\ BadSegment
        \/ recon.pc \in {"open", "verify"} /\ recon.round = 2 /\ HasBad(recon.seen)

(* No record of the beginning is there. *)
IsNew(f) == began.acked \cap Recs(file[f]) = {}

SegmentsAreNew == \A k \in DOMAIN archive : IsNew(archive[k])

PathIsNew == path = 0 \/ IsNew(path)

(* As long as nobody rotates: what was read says where the records are. *)
RecordsAreTogether ==
    Len(archive) = began.segments =>
        /\ recon.pc \in {"open", "verify"} /\ recon.seen = <<>> => SegmentsAreNew
        /\ recon.pc = "verify" => IF recon.file = 0 THEN PathIsNew ELSE path = recon.file
        /\ recon.pc \in {"trades", "read"} => SegmentsAreNew \/ PathIsNew
        /\ recon.pc = "read" => recon.file # 0 /\ path = recon.file

(* The inductive invariant of the reconciliation. *)
ReconIInv ==
    /\ SoundIInv
    /\ ReconShape
    /\ DamageIsAhead
    /\ RecordsAreTogether
    /\ AllOrNone

-----------------------------------------------------------------------------
LEMMA SoundInitially == LedgerInit => SoundIInv
<1> SUFFICES ASSUME LedgerInit PROVE SoundIInv
  OBVIOUS
<1>1. file \in Seq({<<>>}) /\ file[1] = <<>> /\ DOMAIN file = {1} /\ acked = {} /\ spoiled = {}
  BY DEF LedgerInit
<1>2. \A f \in DOMAIN file : Verified(file[f]) /\ Recs(file[f]) = {}
  BY <1>1, NothingIsVerified
<1>3. RecordNumbers = {}
  BY <1>1, <1>2 DEF RecordNumbers, Stored
<1> QED BY <1>2, <1>3, LedgerInitially DEF SoundIInv, DamageIsLocal, NumbersAreNew

(* Records stay numbered one after the other. *)
LEMMA OneMoreNumber ==
    ASSUME NumbersAreNew, NEW x \in 0 .. MaxAppends, x = 0 \/ x = Cardinality(RecordNumbers) + 1,
           RecordNumbers' = RecordNumbers \cup {x}, spoiled \subseteq spoiled', spoiled' = {} => x # 0
    PROVE  NumbersAreNew'
<1>1. IsFiniteSet(RecordNumbers) /\ Cardinality(RecordNumbers) \in Nat
  <2>1. IsFiniteSet(0 .. MaxAppends)
    BY MaxAppendsAssumption, FS_Interval
  <2> QED BY <2>1, FS_Subset, FS_CardinalityType DEF NumbersAreNew
<1>2. CASE x \in RecordNumbers
  <2>1. RecordNumbers' = RecordNumbers
    BY <1>2
  <2> QED BY <2>1 DEF NumbersAreNew
<1>3. CASE x \notin RecordNumbers
  <2>1. Cardinality(RecordNumbers') = Cardinality(RecordNumbers) + 1
    BY <1>1, <1>3, FS_AddElement
  <2>2. \A n \in RecordNumbers : n \in 0 .. MaxAppends /\ n <= Cardinality(RecordNumbers)
    BY DEF NumbersAreNew
  <2>3. \A n \in RecordNumbers' : n <= Cardinality(RecordNumbers')
    BY <1>1, <2>1, <2>2
  <2>4. spoiled' = {} => 0 \notin RecordNumbers'
    BY DEF NumbersAreNew
  <2>5. RecordNumbers' \subseteq 0 .. MaxAppends
    BY DEF NumbersAreNew
  <2> QED BY <2>3, <2>4, <2>5 DEF NumbersAreNew
<1> QED BY <1>2, <1>3

(* A number that is new, or that of a record that was edited, was not acknowledged. *)
LEMMA NewNumber ==
    ASSUME LedgerTypes, NumbersAreNew, NEW x, x = 0 \/ x = Cardinality(RecordNumbers) + 1
    PROVE  x \notin acked
<1>1. Cardinality(RecordNumbers) \in Nat
  <2>1. IsFiniteSet(0 .. MaxAppends)
    BY MaxAppendsAssumption, FS_Interval
  <2> QED BY <2>1, FS_Subset, FS_CardinalityType DEF NumbersAreNew
<1>2. 0 \notin acked
  BY MaxAppendsAssumption DEF LedgerTypes, Entries
<1>3. Cardinality(RecordNumbers) + 1 \notin acked
  BY <1>1 DEF NumbersAreNew, RecordNumbers
<1> QED BY <1>2, <1>3

(* Steps that leave the files, their names and records alone. *)
LEMMA QuietSound ==
    ASSUME SoundIInv, UNCHANGED <<file, path, archive, acked, spoiled>>
    PROVE  DamageIsLocal' /\ NumbersAreNew' /\ LedgerMoves
<1>1. RecordNumbers' = RecordNumbers /\ Named' = Named
  BY DEF RecordNumbers, Stored, Named
<1>2. DamageIsLocal' /\ NumbersAreNew'
  BY <1>1 DEF SoundIInv, DamageIsLocal, NumbersAreNew
<1>3. Len(file) \in Nat /\ Len(archive) \in Nat
  BY LedgerFacts DEF SoundIInv, LedgerIInv
<1>4. LedgerMoves
  BY <1>1, <1>3 DEF LedgerMoves
<1> QED BY <1>2, <1>4

(* A new file. *)
LEMMA NewFileSound ==
    ASSUME SoundIInv, path = 0, file' = Append(file, <<>>), path' = Len(file) + 1,
           UNCHANGED <<archive, cache, acked, spoiled>>
    PROVE  DamageIsLocal' /\ NumbersAreNew' /\ LedgerMoves
<1>1. /\ Len(file) \in Nat /\ DOMAIN file = 1 .. Len(file) /\ Len(archive) \in Nat
  BY LedgerFacts DEF SoundIInv, LedgerIInv
<1>2. /\ Len(file') = Len(file) + 1 /\ DOMAIN file' = 1 .. Len(file) + 1
      /\ \A f \in 1 .. Len(file) : file'[f] = file[f]
      /\ file'[Len(file) + 1] = <<>> /\ Named' = Named \cup {path'}
  BY NewFile DEF SoundIInv
<1>3. /\ \A f \in 1 .. Len(file) + 1 : f \in 1 .. Len(file) \/ f = Len(file) + 1
      /\ \A f \in 1 .. Len(file) : f \in 1 .. Len(file) + 1
  BY <1>1
<1>4. Verified(<<>>) /\ Recs(<<>>) = {}
  BY NothingIsVerified
<1>5. DamageIsLocal'
  BY <1>1, <1>2, <1>3, <1>4 DEF SoundIInv, DamageIsLocal
<1>6. Stored' = Stored
  <2>1. ASSUME NEW n \in Stored PROVE n \in Stored'
    <3>1. PICK f \in 1 .. Len(file) : n \in Recs(file[f])
      BY <1>1 DEF Stored
    <3> QED BY <1>2, <1>3, <3>1 DEF Stored
  <2>2. ASSUME NEW n \in Stored' PROVE n \in Stored
    <3>1. PICK f \in 1 .. Len(file) + 1 : n \in Recs(file'[f])
      BY <1>2, <2>2 DEF Stored
    <3> QED BY <1>1, <1>2, <1>3, <1>4, <3>1 DEF Stored
  <2> QED BY <2>1, <2>2
<1>7. NumbersAreNew'
  <2>1. RecordNumbers' = RecordNumbers
    BY <1>6 DEF RecordNumbers
  <2> QED BY <2>1 DEF SoundIInv, NumbersAreNew
<1>8. LedgerMoves
  <2>1. Len(file) <= Len(file') /\ Len(archive) <= Len(archive') /\ path' \notin 1 .. Len(file)
    BY <1>1, <1>2
  <2>2. \A f \in 1 .. Len(file') : f \notin 1 .. Len(file) => file'[f] = <<>>
    BY <1>2, <1>3
  <2> QED BY <1>1, <1>2, <2>1, <2>2 DEF LedgerMoves
<1> QED BY <1>5, <1>7, <1>8

(* Lines that change in a file that verifies: one record more, or one edited. *)
LEMMA LinesChange ==
    ASSUME SoundIInv, NEW f \in 1 .. Len(file), Verified(file[f]),
           NEW more, AreLines(more), Verified(more) \/ HasBad(more),
           file' = [file EXCEPT ![f] = more], UNCHANGED <<path, archive>>,
           NEW x \in 0 .. MaxAppends, x = 0 \/ x = Cardinality(RecordNumbers) + 1,
           Recs(more) \subseteq Recs(file[f]) \cup {x}, Recs(file[f]) \subseteq Recs(more) \cup spoiled',
           x \in Recs(more) \cup spoiled', spoiled' = {} => x # 0,
           acked \subseteq acked', acked' \subseteq acked \cup {x},
           spoiled \subseteq spoiled', spoiled' \subseteq spoiled \cup Recs(file[f]) \cup {x}
    PROVE  DamageIsLocal' /\ NumbersAreNew' /\ LedgerMoves
<1>1. /\ Len(file) \in Nat /\ DOMAIN file = 1 .. Len(file) /\ Len(archive) \in Nat /\ IsSeq(file)
      /\ AreLines(file[f])
  BY LedgerFacts DEF SoundIInv, LedgerIInv, LedgerTypes
<1>2. /\ Len(file') = Len(file) /\ DOMAIN file' = 1 .. Len(file)
      /\ file'[f] = more /\ \A g \in 1 .. Len(file) : g # f => file'[g] = file[g]
  <2>1. f \in DOMAIN file /\ IsSeq(file) /\ file' = [file EXCEPT ![f] = more]
    BY <1>1
  <2>2. IsSeq(file')
    BY ONLY <2>1, Replaced
  <2>3. Len(file') = Len(file)
    BY ONLY <2>1, Replaced
  <2>4. file'[f] = more /\ \A g \in 1 .. Len(file) : g # f => file'[g] = file[g]
    BY ONLY <2>1, Replaced
  <2> QED BY <2>2, <2>3, <2>4, SeqFacts
<1>3. DamageIsLocal'
  BY <1>1, <1>2 DEF SoundIInv, DamageIsLocal
<1>4. RecordNumbers' = RecordNumbers \cup {x}
  <2>1. ASSUME NEW n \in RecordNumbers PROVE n \in RecordNumbers'
    <3>1. CASE n \in acked \/ n \in spoiled
      BY <3>1 DEF RecordNumbers
    <3>2. CASE n \in Stored
      <4>1. PICK g \in 1 .. Len(file) : n \in Recs(file[g])
        BY <1>1, <3>2 DEF Stored
      <4>2. n \in Recs(file'[g]) \/ n \in spoiled'
        BY <1>2, <4>1
      <4> QED BY <1>2, <4>2 DEF RecordNumbers, Stored
    <3> QED BY <3>1, <3>2 DEF RecordNumbers
  <2>2. x \in RecordNumbers'
    BY <1>2 DEF RecordNumbers, Stored
  <2>3. ASSUME NEW n \in RecordNumbers' PROVE n \in RecordNumbers \cup {x}
    <3>1. CASE n \in acked' \/ n \in spoiled'
      BY <1>1, <3>1 DEF RecordNumbers, Stored
    <3>2. CASE n \in Stored'
      <4>1. PICK g \in 1 .. Len(file) : n \in Recs(file'[g])
        BY <1>2, <3>2 DEF Stored
      <4>2. n \in Recs(file[g]) \/ n = x
        BY <1>2, <4>1
      <4> QED BY <1>1, <4>2 DEF RecordNumbers, Stored
    <3> QED BY <2>3, <3>1, <3>2 DEF RecordNumbers
  <2> QED BY <2>1, <2>2, <2>3
<1>5. NumbersAreNew'
  BY <1>4, OneMoreNumber DEF SoundIInv
<1>6. ~HasBad(file[f])
  BY <1>1, VerifiedHasNoBad
<1>7. x \notin acked
  BY NewNumber DEF SoundIInv, LedgerIInv
<1>8. LedgerMoves
  <2>1. Len(file) <= Len(file') /\ Len(archive) <= Len(archive') /\ Named' = Named
    BY <1>1, <1>2 DEF Named
  <2>2. ASSUME NEW g \in 1 .. Len(file)
        PROVE  (HasBad(file[g]) => HasBad(file'[g])) /\ acked \cap Recs(file'[g]) \subseteq Recs(file[g])
    BY <1>2, <1>6, <1>7
  <2> QED BY <1>2, <2>1, <2>2 DEF LedgerMoves
<1> QED BY <1>3, <1>5, <1>8

(* What writing a line may do, of damage and of records. *)
AddsNoMore(lines, l, more, x) ==
    /\ Glued(lines, x) \subseteq Recs(lines) \cup {x.rec}
    /\ Recs(more) \subseteq Recs(lines) \cup {l.rec}
    /\ l.parses = FALSE => Recs(more) \subseteq Recs(lines) /\ HasBad(more)
    /\ Glues(lines) => HasBad(more)

LEMMA WriteBounds ==
    ASSUME NEW lines, AreLines(lines), NEW l, IsLine(l), NEW more, more = AfterWrite(lines, l), NEW x
    PROVE  AddsNoMore(lines, l, more, x)
<1>1. IsSeq(lines) /\ Len(lines) \in Nat /\ DOMAIN lines = 1 .. Len(lines)
  BY SeqFacts DEF AreLines
<1>2. CASE ~Glues(lines)
  <2>1. more = Append(lines, l) /\ Glued(lines, x) = {}
    BY <1>2 DEF AfterWrite, Glued
  <2>2. /\ IsSeq(more) /\ Len(more) = Len(lines) + 1 /\ more[Len(lines) + 1] = l
        /\ \A k \in 1 .. Len(lines) : more[k] = lines[k]
    BY <1>1, <2>1, Appended
  <2>3. DOMAIN more = 1 .. Len(lines) + 1
    BY <2>2, SeqFacts
  <2>4. /\ \A k \in 1 .. Len(lines) + 1 : k \in 1 .. Len(lines) \/ k = Len(lines) + 1
        /\ Len(lines) + 1 \in 1 .. Len(lines) + 1
    BY <1>1
  <2>5. ASSUME NEW n \in Recs(more) PROVE n \in Recs(lines) \/ (l.parses /\ n = l.rec)
    <3>1. PICK k \in 1 .. Len(lines) + 1 : more[k].parses /\ n = more[k].rec
      BY <2>3, <2>5 DEF Recs
    <3>2. CASE k \in 1 .. Len(lines)
      BY <1>1, <2>2, <3>1, <3>2 DEF Recs
    <3>3. CASE k = Len(lines) + 1
      BY <2>2, <3>1, <3>3
    <3> QED BY <2>4, <3>2, <3>3
  <2>6. l.parses = FALSE => HasBad(more)
    BY <2>2, <2>3, <2>4 DEF HasBad
  <2> QED BY <1>2, <2>1, <2>5, <2>6 DEF AddsNoMore
<1>3. CASE Glues(lines)
  <2>1. PICK end : end = Len(lines)
    OBVIOUS
  <2>2. /\ more = [lines EXCEPT ![end] = Torn] /\ end \in DOMAIN lines
        /\ Glued(lines, x) = {lines[end].rec, x.rec} /\ ~lines[end].ended
    BY <1>1, <1>3, <2>1, SeqFacts DEF AfterWrite, Glued, Glues
  <2>3. IsSeq(lines) /\ end \in DOMAIN lines /\ more = [lines EXCEPT ![end] = Torn]
    BY <1>1, <2>2
  <2>4. IsSeq(more)
    BY ONLY <2>3, Replaced
  <2>5. Len(more) = Len(lines)
    BY ONLY <2>3, Replaced
  <2>6. more[end] = Torn /\ \A k \in 1 .. Len(lines) : k # end => more[k] = lines[k]
    BY ONLY <2>3, Replaced
  <2>7. DOMAIN more = 1 .. Len(lines)
    BY <2>4, <2>5, SeqFacts
  <2>8. Torn.parses = FALSE /\ Torn.ended = TRUE
    BY DEF Torn
  <2>9. lines[end].rec \in Recs(lines)
    <3>1. IsLine(lines[end]) /\ lines[end] # Torn
      BY <2>2, <2>8 DEF AreLines
    <3>2. lines[end].parses
      BY <3>1, LineFacts
    <3> QED BY <2>2, <3>2 DEF Recs
  <2>10. HasBad(more)
    BY <1>1, <2>2, <2>6, <2>7, <2>8 DEF HasBad
  <2>11. ASSUME NEW n \in Recs(more) PROVE n \in Recs(lines)
    <3>1. PICK k \in 1 .. Len(lines) : more[k].parses /\ n = more[k].rec
      BY <2>7, <2>11 DEF Recs
    <3>2. k # end
      BY <2>6, <2>8, <3>1
    <3> QED BY <1>1, <2>6, <3>1, <3>2 DEF Recs
  <2> QED BY <1>3, <2>2, <2>9, <2>10, <2>11 DEF AddsNoMore
<1> QED BY <1>2, <1>3

LEMMA WrittenSound ==
    ASSUME SoundIInv, NEW p \in Processes, process[p].pc = "append",
           NEW f, f = process[p].file, NEW lines, lines = file[f], Verified(lines), NEW t \in Tenants,
           NEW n \in Entries, n = Cardinality(RecordNumbers) + 1, NEW l, l = NextLine(lines, t, n),
           NEW more, more = AfterWrite(lines, l),
           file' = [file EXCEPT ![f] = more], acked' = acked \cup {n},
           spoiled' = spoiled \cup Glued(lines, l), UNCHANGED <<path, archive>>
    PROVE  DamageIsLocal' /\ NumbersAreNew' /\ LedgerMoves
<1>1. f \in 1 .. Len(file) /\ AreLines(lines)
  <2>1. f \in Named
    BY DEF SoundIInv, LedgerIInv, HandlesAreNamed
  <2> QED BY <2>1, LedgerFacts DEF SoundIInv, LedgerIInv, LedgerTypes
<1>2. IsLine(l) /\ l.parses = TRUE /\ l.rec = n
  <2>1. IsLine(l)
    BY NextIsLine
  <2>2. l.parses = TRUE /\ l.rec = n
    BY DEF NextLine
  <2> QED BY <2>1, <2>2
<1>3. /\ AreLines(more) /\ Recs(lines) \subseteq Recs(more) \cup Glued(lines, l)
      /\ (~Glues(lines) => n \in Recs(more)) /\ (Glues(lines) => n \in Glued(lines, l))
      /\ (~Glues(lines) => more = Append(lines, l))
  <2>1. Adds(lines, l, more, l)
    BY <1>1, <1>2, WriteAdds
  <2> QED BY <1>2, <2>1 DEF Adds
<1>4. /\ Glued(lines, l) \subseteq Recs(lines) \cup {n} /\ Recs(more) \subseteq Recs(lines) \cup {n}
      /\ (Glues(lines) => HasBad(more))
  <2>1. AddsNoMore(lines, l, more, l)
    BY <1>1, <1>2, WriteBounds
  <2> QED BY <1>2, <2>1 DEF AddsNoMore
<1>5. Verified(more) \/ HasBad(more)
  <2>1. Verified(Append(lines, l))
    BY <1>1, NextFits
  <2> QED BY <1>3, <1>4, <2>1
<1>6. n \in 0 .. MaxAppends /\ n # 0
  BY MaxAppendsAssumption DEF Entries
<1>7. /\ Recs(more) \subseteq Recs(file[f]) \cup {n} /\ Recs(file[f]) \subseteq Recs(more) \cup spoiled'
      /\ n \in Recs(more) \cup spoiled'
      /\ spoiled \subseteq spoiled' /\ spoiled' \subseteq spoiled \cup Recs(file[f]) \cup {n}
      /\ acked \subseteq acked' /\ acked' \subseteq acked \cup {n}
  BY <1>3, <1>4
<1>8. /\ Verified(file[f]) /\ n = Cardinality(RecordNumbers) + 1 /\ UNCHANGED <<path, archive>>
      /\ file' = [file EXCEPT ![f] = more]
  OBVIOUS
<1> QED BY ONLY SoundIInv, <1>1, <1>3, <1>5, <1>6, <1>7, <1>8, LinesChange

LEMMA BrokenSound ==
    ASSUME SoundIInv, NEW p \in Processes, process[p].pc = "append",
           NEW f, f = process[p].file, NEW lines, lines = file[f], Verified(lines), NEW t \in Tenants,
           NEW n \in Entries, n = Cardinality(RecordNumbers) + 1, NEW l, l = NextLine(lines, t, n),
           NEW piece, piece = Torn \/ piece = [l EXCEPT !.ended = FALSE],
           NEW more, more = AfterWrite(lines, piece),
           file' = [file EXCEPT ![f] = more], spoiled' = spoiled \cup {n} \cup Glued(lines, l),
           UNCHANGED <<path, archive, acked>>
    PROVE  DamageIsLocal' /\ NumbersAreNew' /\ LedgerMoves
<1>1. f \in 1 .. Len(file) /\ AreLines(lines)
  <2>1. f \in Named
    BY DEF SoundIInv, LedgerIInv, HandlesAreNamed
  <2> QED BY <2>1, LedgerFacts DEF SoundIInv, LedgerIInv, LedgerTypes
<1>2. l.parses = TRUE /\ l.rec = n
  BY DEF NextLine
<1>3. /\ IsLine(piece)
      /\ piece.parses = FALSE \/ (piece.rec = n /\ piece = [l EXCEPT !.ended = FALSE])
  <2>1. CASE piece = Torn
    BY <2>1 DEF IsLine, Torn
  <2>2. CASE piece = [l EXCEPT !.ended = FALSE]
    <3>1. IsLine(l)
      BY NextIsLine
    <3>2. IsLine(piece)
      BY <1>2, <2>2, <3>1, ChangedIsLine
    <3>3. piece = [l EXCEPT !.ended = FALSE] => piece.rec = l.rec
      BY <1>2, <2>2, <3>1, ChangedIsLine
    <3> QED BY <1>2, <2>2, <3>2, <3>3
  <2> QED BY <2>1, <2>2
<1>4. /\ AreLines(more) /\ Recs(lines) \subseteq Recs(more) \cup Glued(lines, l)
      /\ (~Glues(lines) => more = Append(lines, piece))
  <2>1. Adds(lines, piece, more, l)
    BY <1>1, <1>3, WriteAdds
  <2> QED BY <2>1 DEF Adds
<1>5. /\ Glued(lines, l) \subseteq Recs(lines) \cup {n} /\ Recs(more) \subseteq Recs(lines) \cup {n}
      /\ (Glues(lines) => HasBad(more)) /\ (piece.parses = FALSE => HasBad(more))
  <2>1. AddsNoMore(lines, piece, more, l)
    BY <1>1, <1>3, WriteBounds
  <2> QED BY <1>2, <1>3, <2>1 DEF AddsNoMore
<1>6. Verified(more) \/ HasBad(more)
  <2>1. piece = [l EXCEPT !.ended = FALSE] => Verified(Append(lines, piece))
    BY <1>1, NextFits
  <2> QED BY <1>3, <1>4, <1>5, <2>1
<1>7. n \in 0 .. MaxAppends /\ n # 0
  BY MaxAppendsAssumption DEF Entries
<1>8. /\ Recs(more) \subseteq Recs(file[f]) \cup {n} /\ Recs(file[f]) \subseteq Recs(more) \cup spoiled'
      /\ n \in Recs(more) \cup spoiled'
      /\ spoiled \subseteq spoiled' /\ spoiled' \subseteq spoiled \cup Recs(file[f]) \cup {n}
      /\ acked \subseteq acked' /\ acked' \subseteq acked \cup {n}
  BY <1>4, <1>5
<1>9. /\ Verified(file[f]) /\ n = Cardinality(RecordNumbers) + 1 /\ UNCHANGED <<path, archive>>
      /\ file' = [file EXCEPT ![f] = more]
  OBVIOUS
<1> QED BY ONLY SoundIInv, <1>1, <1>4, <1>6, <1>7, <1>8, <1>9, LinesChange

LEMMA AppendLineSound ==
    ASSUME SoundIInv, NEW p \in Processes, NEW t \in Tenants, AppendLine(p, t)
    PROVE  DamageIsLocal' /\ NumbersAreNew' /\ LedgerMoves
<1>1. PICK f, lines, n, l :
         /\ f = process[p].file /\ lines = file[f]
         /\ n = Cardinality(RecordNumbers) + 1 /\ l = NextLine(lines, t, n)
  OBVIOUS
<1>2. /\ process[p].pc = "append" /\ n \in Entries
      /\ \/ UNCHANGED <<file, acked, spoiled>>
         \/ /\ Accepted(lines, cache[p])
            /\ file' = [file EXCEPT ![f] = AfterWrite(lines, l)]
            /\ acked' = acked \cup {n}
            /\ spoiled' = spoiled \cup Glued(lines, l)
         \/ /\ Accepted(lines, cache[p])
            /\ \E piece \in {Torn, [l EXCEPT !.ended = FALSE]} :
                  /\ file' = [file EXCEPT ![f] = AfterWrite(lines, piece)]
                  /\ spoiled' = spoiled \cup {n} \cup Glued(lines, l)
            /\ UNCHANGED acked
      /\ UNCHANGED <<path, archive>>
  BY <1>1 DEF AppendLine, RecordNumbers
<1>3. CASE UNCHANGED <<file, acked, spoiled>>
  BY <1>2, <1>3, QuietSound
<1>4. Accepted(lines, cache[p]) => Verified(lines)
  <2>1. AreLines(lines)
    BY <1>1, <1>2, LedgerFacts DEF SoundIInv, LedgerIInv, HandlesAreNamed, LedgerTypes
  <2>2. IsSeq(cache[p]) /\ (Parsed(cache[p]) => Verified(cache[p]))
    BY DEF SoundIInv, LedgerIInv, LedgerTypes, CachesAreVerified
  <2> QED BY <2>1, <2>2, AcceptedIsVerified
<1>5. CASE /\ Accepted(lines, cache[p])
           /\ file' = [file EXCEPT ![f] = AfterWrite(lines, l)]
           /\ acked' = acked \cup {n}
           /\ spoiled' = spoiled \cup Glued(lines, l)
  BY <1>1, <1>2, <1>4, <1>5, WrittenSound
<1>6. CASE /\ Accepted(lines, cache[p])
           /\ \E piece \in {Torn, [l EXCEPT !.ended = FALSE]} :
                 /\ file' = [file EXCEPT ![f] = AfterWrite(lines, piece)]
                 /\ spoiled' = spoiled \cup {n} \cup Glued(lines, l)
           /\ UNCHANGED acked
  <2>1. PICK piece : /\ piece = Torn \/ piece = [l EXCEPT !.ended = FALSE]
                     /\ file' = [file EXCEPT ![f] = AfterWrite(lines, piece)]
                     /\ spoiled' = spoiled \cup {n} \cup Glued(lines, l)
    BY <1>6
  <2> QED BY <1>1, <1>2, <1>4, <1>6, <2>1, BrokenSound
<1> QED BY <1>2, <1>3, <1>5, <1>6

(* A record that is edited does not match its hash. *)
LEMMA AlterSound ==
    ASSUME SoundIInv, NEW f \in DOMAIN file, NEW k \in DOMAIN file[f], Alter(f, k)
    PROVE  DamageIsLocal' /\ NumbersAreNew' /\ LedgerMoves
<1>1. /\ f \in 1 .. Len(file) /\ AreLines(file[f]) /\ Verified(file[f])
  <2>1. spoiled = {} /\ LedgerTypes
    BY DEF Alter, SoundIInv, LedgerIInv
  <2> QED BY <2>1, LedgerFacts DEF SoundIInv, LedgerIInv, ChainsHold, LedgerTypes
<1>2. PICK lines, l, m, more :
         lines = file[f] /\ l = lines[k] /\ m = [l EXCEPT !.rec = 0] /\ more = [lines EXCEPT ![k] = m]
  OBVIOUS
<1>3. /\ spoiled = {} /\ l.parses /\ spoiled' = {l.rec} /\ file' = [file EXCEPT ![f] = more]
      /\ UNCHANGED <<path, archive, acked>>
  <2>1. [file EXCEPT ![f][k].rec = 0] = [file EXCEPT ![f] = more]
    BY <1>2 DEF SoundIInv, LedgerIInv, LedgerTypes, AreLines, IsSeq
  <2> QED BY <1>2, <2>1 DEF Alter
<1>4. /\ IsSeq(lines) /\ DOMAIN lines = 1 .. Len(lines) /\ IsLine(l) /\ l.parses = TRUE
      /\ l.rec \in Recs(lines)
  BY <1>1, <1>2, <1>3, SeqFacts, LineFacts DEF AreLines, Recs
<1>5. IsLine(m) /\ m.parses = TRUE
  BY <1>2, <1>4, ChangedIsLine
<1>6. k \in DOMAIN lines /\ IsSeq(lines) /\ more = [lines EXCEPT ![k] = m]
  BY <1>2, <1>4
<1>7. IsSeq(more)
  BY ONLY <1>6, Replaced
<1>8. Len(more) = Len(lines)
  BY ONLY <1>6, Replaced
<1>9. more[k] = m /\ \A j \in 1 .. Len(lines) : j # k => more[j] = lines[j]
  BY ONLY <1>6, Replaced
<1>10. DOMAIN more = 1 .. Len(lines)
  BY <1>7, <1>8, SeqFacts
<1>11. AreLines(more)
  BY <1>1, <1>2, <1>4, <1>5, <1>7, <1>9, <1>10 DEF AreLines
<1>12. l.rec # 0 /\ l.rec \in 0 .. MaxAppends
  <2>1. l.rec \in RecordNumbers
    BY <1>1, <1>2, <1>4 DEF RecordNumbers, Stored
  <2> QED BY <1>3, <2>1 DEF SoundIInv, NumbersAreNew
<1>13. m.tenant = l.tenant /\ m.tseq = l.tseq /\ m.before = l.before /\ m.hash = l.hash /\ m.rec = 0
  <2>1. l # Torn
    BY <1>4 DEF Torn
  <2>2. PICK at, count, tail, h, n :
           at = l.seq /\ count = l.tseq /\ tail = l.before /\ h = l.hash /\ n = l.rec
    OBVIOUS
  <2>3. l \in [parses : {TRUE}, ended : BOOLEAN, seq : {at}, tenant : Tenants, tseq : {count},
               before : {tail}, rec : {n}, hash : {h}]
    BY <1>4, <2>1, <2>2 DEF IsLine
  <2> QED BY <1>2, <2>2, <2>3
<1>14. HasBad(more)
  <2>1. SelfChecked(l)
    <3>1. \A j \in 1 .. Len(lines) : LineFits(lines, j)
      BY <1>1, <1>2, LineByLine
    <3> QED BY <1>2, <1>4, <1>6, <3>1 DEF LineFits, Follows
  <2>2. ~SelfChecked(m)
    BY <1>12, <1>13, <2>1 DEF SelfChecked, LineHash
  <2> QED BY <1>6, <1>4, <1>9, <1>10, <2>2 DEF HasBad
<1>15. Recs(lines) \subseteq Recs(more) \cup spoiled'
  <2>1. SUFFICES ASSUME NEW n \in Recs(lines) PROVE n \in Recs(more) \cup spoiled'
    OBVIOUS
  <2>2. PICK j \in 1 .. Len(lines) : lines[j].parses /\ n = lines[j].rec
    BY <1>4 DEF Recs
  <2>3. CASE j = k
    BY <1>2, <1>3, <2>2, <2>3
  <2>4. CASE j # k
    BY <1>9, <1>10, <2>2, <2>4 DEF Recs
  <2> QED BY <2>3, <2>4
<1>16. Recs(more) \subseteq Recs(lines) \cup {0} /\ 0 \in Recs(more)
  <2>1. m.rec = 0
    BY <1>13
  <2>2. 0 \in Recs(more)
    BY <1>4, <1>5, <1>6, <1>9, <1>10, <2>1 DEF Recs
  <2>3. ASSUME NEW n \in Recs(more) PROVE n \in Recs(lines) \cup {0}
    <3>1. PICK j \in 1 .. Len(lines) : more[j].parses /\ n = more[j].rec
      BY <1>10, <2>3 DEF Recs
    <3>2. CASE j = k
      BY <1>9, <2>1, <3>1, <3>2
    <3>3. CASE j # k
      BY <1>4, <1>9, <3>1, <3>3 DEF Recs
    <3> QED BY <3>2, <3>3
  <2> QED BY <2>2, <2>3
<1>17. PICK x : x = 0
  OBVIOUS
<1>18. /\ Recs(more) \subseteq Recs(file[f]) \cup {x} /\ Recs(file[f]) \subseteq Recs(more) \cup spoiled'
       /\ x \in Recs(more) \cup spoiled'
  BY <1>2, <1>15, <1>16, <1>17
<1>19. /\ spoiled' = {} => x # 0
       /\ spoiled \subseteq spoiled' /\ spoiled' \subseteq spoiled \cup Recs(file[f]) \cup {x}
       /\ acked \subseteq acked' /\ acked' \subseteq acked \cup {x}
  BY <1>2, <1>3, <1>4
<1>20. x \in 0 .. MaxAppends /\ (x = 0 \/ x = Cardinality(RecordNumbers) + 1)
  BY <1>17, MaxAppendsAssumption
<1>21. UNCHANGED <<path, archive>> /\ file' = [file EXCEPT ![f] = more]
  BY <1>3
<1> QED BY ONLY SoundIInv, <1>1, <1>11, <1>14, <1>18, <1>19, <1>20, <1>21, LinesChange

(* The file gets the name of the next segment. *)
LEMMA RenameSound ==
    ASSUME SoundIInv, OneRotator, NEW p \in Processes, Rename(p)
    PROVE  DamageIsLocal' /\ NumbersAreNew' /\ LedgerMoves
<1>1. /\ LedgerTypes /\ Len(file) \in Nat /\ path \in 0 .. Len(file) /\ DOMAIN file = 1 .. Len(file)
      /\ Len(archive) \in Nat /\ DOMAIN archive = 1 .. Len(archive) /\ IsSeq(archive)
  BY LedgerFacts DEF SoundIInv, LedgerIInv
<1>2. process[p].name = Len(archive) + 1
  BY DEF Rename, SoundIInv, LedgerIInv, HandlesAreNamed, NextName
<1>3. CASE path = 0
  BY <1>3, QuietSound DEF Rename
<1>4. CASE path # 0
  <2>1. archive' = Append(archive, path) /\ path' = 0 /\ UNCHANGED <<file, acked, spoiled>>
    BY <1>1, <1>2, <1>4 DEF Rename
  <2>2. /\ IsSeq(archive') /\ Len(archive') = Len(archive) + 1 /\ archive'[Len(archive) + 1] = path
        /\ \A k \in 1 .. Len(archive) : archive'[k] = archive[k]
    BY <1>1, <2>1, Appended
  <2>3. DOMAIN archive' = 1 .. Len(archive) + 1
    BY <2>2, SeqFacts
  <2>4. Named \subseteq Named'
    <3>1. /\ \A k \in 1 .. Len(archive) : k \in 1 .. Len(archive) + 1
          /\ Len(archive) + 1 \in 1 .. Len(archive) + 1
      BY <1>1
    <3> QED BY <1>1, <2>2, <2>3, <3>1 DEF Named
  <2>5. DamageIsLocal' /\ NumbersAreNew'
    <3>1. RecordNumbers' = RecordNumbers
      BY <2>1 DEF RecordNumbers, Stored
    <3> QED BY <2>1, <3>1 DEF SoundIInv, DamageIsLocal, NumbersAreNew
  <2>6. Len(archive) <= Len(archive') /\ Len(archive') # Len(archive)
    <3>1. Len(archive) \in Nat /\ Len(archive') = Len(archive) + 1
      BY <1>1, <2>2
    <3> QED BY <3>1
  <2>7. LedgerMoves
    <3>1. Len(file) <= Len(file') /\ \A f \in 1 .. Len(file') : f \in 1 .. Len(file)
      BY <1>1, <2>1
    <3> QED BY <2>1, <2>2, <2>4, <2>6, <3>1 DEF LedgerMoves
  <2> QED BY <2>5, <2>7
<1> QED BY <1>3, <1>4

(* Every step of the ledger keeps it sound, and is a move. *)
LEMMA LedgerSound ==
    ASSUME SoundIInv, OneRotator, LedgerNext
    PROVE  SoundIInv' /\ LedgerMoves
<1>1. LedgerIInv'
  BY LedgerStep DEF SoundIInv
<1> SUFFICES DamageIsLocal' /\ NumbersAreNew' /\ LedgerMoves
  BY <1>1 DEF SoundIInv
<1>2. ASSUME NEW p \in Processes, OpenForAppend(p) PROVE DamageIsLocal' /\ NumbersAreNew' /\ LedgerMoves
  <2>1. CASE path # 0
    BY <1>2, <2>1, QuietSound DEF OpenForAppend
  <2>2. CASE path = 0
    BY <1>2, <2>2, NewFileSound DEF OpenForAppend
  <2> QED BY <2>1, <2>2
<1>3. ASSUME NEW p \in Processes, NoRotation(p) \/ OpenForRotation(p) \/ CheckRotation(p)
      PROVE  DamageIsLocal' /\ NumbersAreNew' /\ LedgerMoves
  BY <1>3, QuietSound DEF NoRotation, OpenForRotation, CheckRotation
<1> QED BY <1>2, <1>3, AppendLineSound, RenameSound, AlterSound DEF LedgerNext

-----------------------------------------------------------------------------
(* What a reconciliation knows of the ledger outlasts the steps of others. *)
LEMMA MovesKeep ==
    ASSUME LedgerTypes, LedgerTypes', LedgerMoves, began.acked \subseteq acked, UNCHANGED began
    PROVE  /\ BadSegment => BadSegment'
           /\ BadNamed => BadNamed'
           /\ Len(archive') = Len(archive) => /\ SegmentsAreNew => SegmentsAreNew'
                                              /\ PathIsNew => PathIsNew'
                                              /\ path # 0 => path' = path
<1>1. /\ Len(file) \in Nat /\ DOMAIN file = 1 .. Len(file) /\ Len(archive) \in Nat
      /\ DOMAIN archive = 1 .. Len(archive) /\ Named \subseteq 1 .. Len(file) /\ path \in 0 .. Len(file)
      /\ \A k \in DOMAIN archive : archive[k] \in 1 .. Len(file)
  BY LedgerFacts
<1>2. /\ Len(file') \in Nat /\ DOMAIN archive' = 1 .. Len(archive') /\ path' \in 0 .. Len(file')
      /\ Len(archive') \in Nat
  <2>1. /\ Len(file') \in Nat /\ DOMAIN archive' = 1 .. Len(archive') /\ path' \in 0 .. Len(file')
        /\ Len(archive') \in Nat
    BY SeqFacts DEF LedgerTypes
  <2> QED BY <2>1
<1>3. /\ \A f \in 1 .. Len(file) : /\ HasBad(file[f]) => HasBad(file'[f])
                                   /\ acked \cap Recs(file'[f]) \subseteq Recs(file[f])
      /\ Named \subseteq Named'
      /\ Len(archive) <= Len(archive') /\ \A k \in 1 .. Len(archive) : archive'[k] = archive[k]
  BY DEF LedgerMoves
<1>4. \A k \in 1 .. Len(archive) : k \in 1 .. Len(archive')
  BY <1>1, <1>2, <1>3
<1>5. BadSegment => BadSegment'
  BY <1>1, <1>2, <1>3, <1>4 DEF BadSegment
<1>6. BadNamed => BadNamed'
  BY <1>1, <1>3 DEF BadNamed
<1>7. \A f \in 1 .. Len(file) : IsNew(f) => IsNew(f)'
  BY <1>3 DEF IsNew
<1>8. ASSUME Len(archive') = Len(archive), SegmentsAreNew PROVE SegmentsAreNew'
  BY <1>1, <1>2, <1>3, <1>7, <1>8 DEF SegmentsAreNew, IsNew
<1>9. ASSUME Len(archive') = Len(archive)
      PROVE  (PathIsNew => PathIsNew') /\ (path # 0 => path' = path)
  <2>1. path' = path \/ (path = 0 /\ path' \notin 1 .. Len(file))
    BY <1>9 DEF LedgerMoves
  <2>2. CASE path' = path
    BY <1>1, <1>7, <2>2 DEF PathIsNew, IsNew
  <2>3. CASE path = 0 /\ path' \notin 1 .. Len(file)
    <3>1. path' = 0 \/ (path' \in 1 .. Len(file') /\ file'[path'] = <<>>)
      BY <1>2, <2>3 DEF LedgerMoves
    <3>2. Recs(<<>>) = {}
      BY NothingIsVerified
    <3> QED BY <2>3, <3>1, <3>2 DEF PathIsNew, IsNew
  <2> QED BY <2>1, <2>2, <2>3
<1> QED BY <1>5, <1>6, <1>8, <1>9

LEMMA ReconInitially == ReconInit => ReconIInv
<1> SUFFICES ASSUME ReconInit PROVE ReconIInv
  OBVIOUS
<1>1. SoundIInv
  BY SoundInitially DEF ReconInit
<1>2. Len(file) \in Nat /\ Len(archive) \in Nat
  BY <1>1, LedgerFacts DEF SoundIInv, LedgerIInv
<1>3. /\ recon = [pc |-> "never", round |-> 0, seen |-> <<>>, file |-> 0, trades |-> {}]
      /\ began = [acked |-> {}, damaged |-> FALSE, segments |-> 0] /\ reconciled = 0
  BY DEF ReconInit
<1>4. ReconShape
  BY <1>2, <1>3, NothingIsVerified, ReconciliationAssumption DEF ReconShape
<1>5. DamageIsAhead /\ RecordsAreTogether /\ AllOrNone
  BY <1>3 DEF DamageIsAhead, RecordsAreTogether, AllOrNone, Reported
<1> QED BY <1>1, <1>4, <1>5 DEF ReconIInv

(* What the shape says, in a form that is easy to use. *)
LEMMA ShapeFacts ==
    ASSUME ReconShape
    PROVE  /\ recon.pc \in {"never", "refused", "failed", "reported", "segments", "open", "verify", "look",
                            "trades", "read"}
           /\ recon.round \in 0 .. 3 /\ recon.file \in 0 .. Len(file) /\ recon.trades \subseteq 0 .. MaxAppends
           /\ recon = [pc |-> recon.pc, round |-> recon.round, seen |-> recon.seen, file |-> recon.file,
                       trades |-> recon.trades]
           /\ AreLines(recon.seen)
BY DEF ReconShape

(* The shape of what comes next. *)
LEMMA ShapeNext ==
    ASSUME ReconShape, Len(file) \in Nat, Len(file') \in Nat, Len(file) <= Len(file'),
           NEW pc \in {"refused", "failed", "reported", "segments", "open", "verify", "look", "trades", "read"},
           NEW round \in 0 .. 3, NEW seen, AreLines(seen), NEW f \in 0 .. Len(file'),
           NEW trades, trades \subseteq 0 .. MaxAppends,
           recon' = [pc |-> pc, round |-> round, seen |-> seen, file |-> f, trades |-> trades],
           pc \in {"segments", "open", "verify"} => round # 0, pc # "reported" => trades = {},
           pc = "look" => round = 3, reconciled' \in 0 .. MaxReconciliations,
           began'.acked \subseteq acked', began'.segments \in 0 .. Len(archive')
    PROVE  ReconShape'
<1>1. recon'.seen = seen /\ recon'.pc = pc /\ recon'.round = round /\ recon'.trades = trades
  OBVIOUS
<1>2. recon' \in [pc : {"never", "refused", "failed", "reported", "segments", "open", "verify", "look",
                        "trades", "read"},
                  round : 0 .. 3, seen : {recon'.seen}, file : 0 .. Len(file'),
                  trades : SUBSET (0 .. MaxAppends)]
  BY <1>1
<1> QED BY <1>1, <1>2 DEF ReconShape

(* Steps of those who append and rotate. *)
LEMMA OthersKeep ==
    ASSUME ReconIInv, SoundIInv', LedgerMoves, UNCHANGED <<recon, began, reconciled>>
    PROVE  ReconIInv'
<1>1. /\ LedgerTypes /\ LedgerTypes' /\ ReconShape /\ SoundIInv /\ began.acked \subseteq acked
  BY DEF ReconIInv, SoundIInv, LedgerIInv, ReconShape
<1>2. /\ Len(file) \in Nat /\ DOMAIN file = 1 .. Len(file) /\ Len(archive) \in Nat
  BY <1>1, LedgerFacts
<1>3. /\ Len(file') \in Nat /\ Len(archive') \in Nat
  <2>1. /\ Len(file') \in Nat /\ Len(archive') \in Nat
    BY <1>1, SeqFacts DEF LedgerTypes
  <2> QED BY <2>1
<1>4. /\ Len(file) <= Len(file') /\ Len(archive) <= Len(archive')
      /\ acked \subseteq acked' /\ spoiled \subseteq spoiled'
      /\ \A f \in 1 .. Len(file) : HasBad(file[f]) => HasBad(file'[f])
  BY DEF LedgerMoves
<1>5. /\ BadSegment => BadSegment'
      /\ BadNamed => BadNamed'
      /\ Len(archive') = Len(archive) => /\ SegmentsAreNew => SegmentsAreNew'
                                         /\ PathIsNew => PathIsNew'
                                         /\ path # 0 => path' = path
  BY <1>1, MovesKeep
<1>6. ReconShape'
  <2>1. recon.file \in 0 .. Len(file') /\ began.segments \in 0 .. Len(archive')
    BY <1>1, <1>2, <1>3, <1>4 DEF ReconShape
  <2>2. recon' \in [pc : {"never", "refused", "failed", "reported", "segments", "open", "verify", "look",
                          "trades", "read"},
                    round : 0 .. 3, seen : {recon'.seen}, file : 0 .. Len(file'),
                    trades : SUBSET (0 .. MaxAppends)]
    BY <1>1, <2>1 DEF ReconShape
  <2>3. began'.acked \subseteq acked'
    BY <1>1, <1>4
  <2> QED BY <1>1, <2>1, <2>2, <2>3 DEF ReconShape
<1>7. HasBad(FileRead) => HasBad(FileRead)'
  <2>1. CASE recon.file = 0
    BY <2>1, NothingIsVerified, VerifiedHasNoBad DEF FileRead
  <2>2. CASE recon.file # 0
    <3>1. recon.file \in 1 .. Len(file)
      BY <1>1, <1>2, <2>2, ShapeFacts
    <3> QED BY <1>4, <2>2, <3>1 DEF FileRead
  <2> QED BY <2>1, <2>2
<1>8. DamageIsAhead'
  BY <1>5, <1>7 DEF ReconIInv, DamageIsAhead
<1>9. Len(archive') = began'.segments => Len(archive) = began.segments /\ Len(archive') = Len(archive)
  BY <1>1, <1>2, <1>3, <1>4 DEF ReconShape
<1>10. RecordsAreTogether'
  BY <1>5, <1>9 DEF ReconIInv, RecordsAreTogether
<1>11. AllOrNone'
  BY <1>4, <1>9 DEF ReconIInv, AllOrNone, Reported
<1> QED BY <1>6, <1>8, <1>10, <1>11 DEF ReconIInv

(* A step of the reconciliation that leaves the ledger alone. *)
LEMMA SoundStays ==
    ASSUME SoundIInv, UNCHANGED ledgerVars
    PROVE  SoundIInv'
<1>1. LedgerIInv'
  <2>1. [LedgerNext]_ledgerVars /\ LedgerIInv
    BY DEF SoundIInv
  <2>2. LedgerTypes' /\ NamesAreSingle' /\ HandlesAreNamed'
    BY <2>1 DEF LedgerIInv, LedgerTypes, NamesAreSingle, HandlesAreNamed, ledgerVars, Named, NextName
  <2>3. AckedIsKept' /\ ChainsHold' /\ CachesAreVerified'
    BY <2>1 DEF LedgerIInv, AckedIsKept, ChainsHold, CachesAreVerified, ledgerVars, Named
  <2> QED BY <2>2, <2>3 DEF LedgerIInv
<1>2. RecordNumbers' = RecordNumbers
  BY DEF RecordNumbers, Stored, ledgerVars
<1> QED BY <1>1, <1>2 DEF SoundIInv, DamageIsLocal, NumbersAreNew, ledgerVars

LEMMA StartKeeps ==
    ASSUME ReconIInv, StartReconciliation
    PROVE  ReconIInv'
<1>1. /\ SoundIInv' /\ ReconShape /\ SoundIInv /\ UNCHANGED ledgerVars
  BY SoundStays DEF ReconIInv, StartReconciliation
<1>2. /\ recon' = [pc |-> "segments", round |-> 1, seen |-> <<>>, file |-> 0, trades |-> {}]
      /\ began' = [acked |-> acked, damaged |-> Damaged, segments |-> Len(archive)]
      /\ reconciled' = reconciled + 1 /\ reconciled < MaxReconciliations
      /\ UNCHANGED <<file, path, archive, acked, spoiled>>
  BY DEF StartReconciliation, ledgerVars
<1>3. Len(file) \in Nat /\ Len(archive) \in Nat /\ Named \subseteq DOMAIN file
  BY <1>1, LedgerFacts DEF SoundIInv, LedgerIInv
<1>4. ReconShape'
  <2>1. reconciled' \in 0 .. MaxReconciliations
    BY <1>1, <1>2, ReconciliationAssumption DEF ReconShape
  <2>2. began'.acked \subseteq acked' /\ began'.segments \in 0 .. Len(archive')
    BY <1>2, <1>3
  <2>3. AreLines(<<>>) /\ Len(file') = Len(file)
    BY <1>2, NothingIsVerified
  <2>4. 0 \in 0 .. Len(file') /\ Len(file') \in Nat /\ Len(file) <= Len(file') /\ 1 \in 0 .. 3
    BY <1>2, <1>3
  <2> QED BY <1>1, <1>2, <1>3, <2>1, <2>2, <2>3, <2>4, ShapeNext
<1>5. DamageIsAhead'
  <2>1. Damaged => BadNamed
    BY <1>1, <1>3 DEF Damaged, BadNamed, SoundIInv, DamageIsLocal
  <2>2. BadNamed' = BadNamed
    BY <1>2 DEF BadNamed, Named
  <2> QED BY <1>2, <2>1, <2>2 DEF DamageIsAhead
<1>6. RecordsAreTogether' /\ AllOrNone'
  BY <1>2 DEF RecordsAreTogether, AllOrNone, Reported
<1> QED BY <1>1, <1>4, <1>5, <1>6 DEF ReconIInv

LEMMA ReadSegmentsKeeps ==
    ASSUME ReconIInv, ReadSegments
    PROVE  ReconIInv'
<1>1. /\ SoundIInv' /\ ReconShape /\ SoundIInv /\ LedgerTypes /\ UNCHANGED ledgerVars
  BY SoundStays DEF ReconIInv, SoundIInv, LedgerIInv, ReadSegments
<1>2. Len(file) \in Nat /\ Len(archive) \in Nat /\ Named \subseteq DOMAIN file
  BY <1>1, LedgerFacts
<1>3. /\ recon' = [pc |-> "open", round |-> recon.round, seen |-> Archived, file |-> recon.file,
                   trades |-> recon.trades]
      /\ recon.pc = "segments" /\ UNCHANGED <<file, path, archive, acked, spoiled, began, reconciled>>
  BY <1>1, ShapeFacts DEF ReadSegments, ledgerVars
<1>4. /\ AreLines(Archived) /\ (Archived = <<>> <=> \A k \in DOMAIN archive : file[archive[k]] = <<>>)
      /\ (HasBad(Archived) <=> \E k \in DOMAIN archive : HasBad(file[archive[k]]))
  BY <1>1, SegmentsRead
<1>5. ReconShape'
  <2>1. recon.round \in 0 .. 3 /\ recon.file \in 0 .. Len(file) /\ recon.trades \subseteq 0 .. MaxAppends
    BY <1>1, ShapeFacts
  <2>2. /\ reconciled' \in 0 .. MaxReconciliations /\ began'.acked \subseteq acked'
        /\ began'.segments \in 0 .. Len(archive') /\ recon.round # 0 /\ recon.trades = {}
    BY <1>1, <1>3 DEF ReconShape
  <2>3. Len(file') = Len(file) /\ Len(file') \in Nat /\ Len(file) <= Len(file')
    BY <1>2, <1>3
  <2> QED BY <1>1, <1>2, <1>3, <1>4, <2>1, <2>2, <2>3, ShapeNext
<1>6. DamageIsAhead'
  <2>1. BadNamed' = BadNamed /\ (BadSegment => HasBad(Archived))
    BY <1>3, <1>4 DEF BadNamed, Named, BadSegment
  <2> QED BY <1>3, <2>1 DEF ReconIInv, DamageIsAhead
<1>7. RecordsAreTogether'
  <2>1. Archived = <<>> => SegmentsAreNew'
    BY <1>3, <1>4, NothingIsVerified DEF SegmentsAreNew, IsNew
  <2> QED BY <1>3, <2>1 DEF RecordsAreTogether
<1>8. AllOrNone'
  BY <1>3 DEF AllOrNone, Reported
<1> QED BY <1>1, <1>5, <1>6, <1>7, <1>8 DEF ReconIInv

LEMMA OpenLedgerKeeps ==
    ASSUME ReconIInv, OpenLedger
    PROVE  ReconIInv'
<1>1. /\ SoundIInv' /\ ReconShape /\ SoundIInv /\ LedgerTypes /\ UNCHANGED ledgerVars
  BY SoundStays DEF ReconIInv, SoundIInv, LedgerIInv, OpenLedger
<1>2. /\ Len(file) \in Nat /\ Len(archive) \in Nat /\ path \in 0 .. Len(file)
      /\ UNCHANGED <<file, path, archive, acked, spoiled, began, reconciled>>
      /\ recon.pc = "open"
  BY <1>1, LedgerFacts DEF OpenLedger, ledgerVars
<1>3. /\ recon.round \in 0 .. 3 /\ recon.file \in 0 .. Len(file) /\ recon.trades \subseteq 0 .. MaxAppends
      /\ recon.round # 0 /\ recon.trades = {} /\ AreLines(recon.seen)
      /\ reconciled' \in 0 .. MaxReconciliations /\ began'.acked \subseteq acked'
      /\ began'.segments \in 0 .. Len(archive')
      /\ Len(file') = Len(file) /\ Len(file') \in Nat /\ Len(file) <= Len(file')
  BY <1>1, <1>2, ShapeFacts DEF ReconShape
<1>4. CASE recon' = [recon EXCEPT !.pc = "failed"]
  <2>1. recon' = [pc |-> "failed", round |-> recon.round, seen |-> recon.seen, file |-> recon.file,
                  trades |-> recon.trades]
    BY <1>1, <1>4, ShapeFacts
  <2>2. ReconShape'
    BY <1>1, <1>2, <1>3, <2>1, ShapeNext
  <2>3. DamageIsAhead' /\ RecordsAreTogether' /\ AllOrNone'
    BY <2>1 DEF DamageIsAhead, RecordsAreTogether, AllOrNone, Reported
  <2> QED BY <1>1, <2>2, <2>3 DEF ReconIInv
<1>5. CASE recon' = [recon EXCEPT !.pc = "verify", !.file = path]
  <2>1. recon' = [pc |-> "verify", round |-> recon.round, seen |-> recon.seen, file |-> path,
                  trades |-> recon.trades]
    BY <1>1, <1>5, ShapeFacts
  <2>2. ReconShape'
    BY <1>1, <1>2, <1>3, <2>1, ShapeNext
  <2>3. DamageIsAhead'
    <3>1. BadNamed => BadSegment' \/ HasBad(FileRead)'
      <4>1. SUFFICES ASSUME NEW f \in Named, HasBad(file[f]) PROVE BadSegment' \/ HasBad(FileRead)'
        BY DEF BadNamed
      <4>2. CASE f = path /\ path # 0
        BY <1>2, <2>1, <4>1, <4>2 DEF FileRead
      <4>3. CASE \E k \in DOMAIN archive : f = archive[k]
        BY <1>2, <4>1, <4>3 DEF BadSegment
      <4> QED BY <4>2, <4>3 DEF Named
    <3> QED BY <1>2, <2>1, <3>1 DEF ReconIInv, DamageIsAhead
  <2>4. RecordsAreTogether'
    <3>1. SegmentsAreNew' = SegmentsAreNew
      BY <1>2 DEF SegmentsAreNew, IsNew
    <3> QED BY <1>2, <2>1, <3>1 DEF ReconIInv, RecordsAreTogether, PathIsNew
  <2>5. AllOrNone'
    BY <2>1 DEF AllOrNone, Reported
  <2> QED BY <1>1, <2>2, <2>3, <2>4, <2>5 DEF ReconIInv
<1> QED BY <1>4, <1>5 DEF OpenLedger

(* The check of lines that others have made sure to be there. *)
LEMMA ThereKeeps ==
    ASSUME SoundIInv, FileThere, UNCHANGED <<archive, process, cache, acked, spoiled>>
    PROVE  SoundIInv' /\ LedgerMoves
<1>1. CASE UNCHANGED <<file, path>>
  <2>1. UNCHANGED ledgerVars
    BY <1>1 DEF ledgerVars
  <2> QED BY <1>1, <2>1, SoundStays, QuietSound
<1>2. CASE path = 0 /\ file' = Append(file, <<>>) /\ path' = Len(file) + 1
  <2>1. /\ IsSeq(file') /\ Len(file') = Len(file) + 1 /\ DOMAIN file' = 1 .. Len(file) + 1
        /\ \A f \in DOMAIN file' : AreLines(file'[f])
        /\ Named' = Named \cup {path'} /\ NextName' = NextName
        /\ NamesAreSingle' /\ AckedIsKept' /\ ChainsHold' /\ CachesAreVerified'
    BY <1>2, NewFile DEF SoundIInv
  <2>2. DamageIsLocal' /\ NumbersAreNew' /\ LedgerMoves
    BY <1>2, NewFileSound
  <2>3. /\ LedgerTypes /\ Len(file) \in Nat /\ \A k \in DOMAIN archive : archive[k] \in 1 .. Len(file)
    BY LedgerFacts DEF SoundIInv, LedgerIInv
  <2>4. process' \in [Processes -> [pc : {"idle", "append", "appended", "rotate", "rename"},
                                    file : 0 .. Len(file'), name : Nat]]
    <3>1. 0 .. Len(file) \subseteq 0 .. Len(file')
      BY <2>1, <2>3
    <3>2. ASSUME NEW q \in Processes
          PROVE  process[q] \in [pc : {"idle", "append", "appended", "rotate", "rename"},
                                 file : 0 .. Len(file'), name : Nat]
      BY <2>3, <3>1 DEF LedgerTypes
    <3>3. process = [q \in Processes |-> process[q]]
      BY <2>3 DEF LedgerTypes
    <3> QED BY <3>2, <3>3
  <2>5. LedgerTypes'
    BY <1>2, <2>1, <2>3, <2>4 DEF LedgerTypes
  <2>6. HandlesAreNamed'
    BY <2>1 DEF SoundIInv, LedgerIInv, HandlesAreNamed
  <2> QED BY <2>1, <2>2, <2>5, <2>6 DEF SoundIInv, LedgerIInv
<1> QED BY <1>1, <1>2 DEF FileThere

(* A history that verifies has no damage, and is in one file. *)
LEMMA SoundHistory ==
    ASSUME SoundIInv, ReconShape, HistoryIsSound
    PROVE  ~HasBad(recon.seen) /\ ~HasBad(FileRead) /\ (recon.seen = <<>> \/ FileRead = <<>>)
<1>1. AreLines(recon.seen) /\ AreLines(FileRead) /\ (Verified(FileRead) \/ HasBad(FileRead))
  <2>1. CASE recon.file = 0
    BY <2>1, ShapeFacts, NothingIsVerified DEF FileRead
  <2>2. CASE recon.file # 0
    <3>1. recon.file \in DOMAIN file
      BY <2>2, ShapeFacts, LedgerFacts DEF SoundIInv, LedgerIInv
    <3> QED BY <2>2, <3>1, ShapeFacts DEF FileRead, SoundIInv, LedgerIInv, LedgerTypes, DamageIsLocal
  <2> QED BY <2>1, <2>2
<1>2. PICK j, s, t : j = s \o t /\ s = recon.seen /\ t = FileRead
  OBVIOUS
<1>3. AreLines(s) /\ AreLines(t) /\ Verified(j) /\ (Verified(t) \/ HasBad(t))
  BY <1>1, <1>2 DEF HistoryIsSound
<1>4. AreLines(j) /\ (Verified(t) => (Verified(j) <=> s = <<>> \/ (t = <<>> /\ Verified(s))))
  <2>1. AreLines(s) /\ AreLines(t) /\ j = s \o t
    BY <1>2, <1>3
  <2>2. AreLines(j)
    BY ONLY <2>1, Joined
  <2>3. Verified(t) => (Verified(j) <=> s = <<>> \/ (t = <<>> /\ Verified(s)))
    BY ONLY <2>1, Joined
  <2> QED BY <2>2, <2>3
<1>5. ~HasBad(j)
  BY <1>3, <1>4, VerifiedHasNoBad
<1>6. ~HasBad(s) /\ ~HasBad(t)
  BY <1>2, <1>3, <1>5, BadWhereItIs DEF AreLines
<1> QED BY <1>2, <1>3, <1>4, <1>6

LEMMA VerifyKeeps ==
    ASSUME ReconIInv, Verify
    PROVE  ReconIInv'
<1>1. /\ SoundIInv' /\ LedgerMoves /\ ReconShape /\ SoundIInv /\ LedgerTypes /\ LedgerTypes'
  <2>1. FileThere /\ UNCHANGED <<archive, process, cache, acked, spoiled>> /\ SoundIInv /\ ReconShape
    BY DEF ReconIInv, Verify
  <2> QED BY <2>1, ThereKeeps DEF SoundIInv, LedgerIInv
<1>2. /\ Len(file) \in Nat /\ Len(file') \in Nat /\ Len(archive) \in Nat /\ Len(file) <= Len(file')
      /\ UNCHANGED <<archive, acked, spoiled, began, reconciled>> /\ recon.pc = "verify"
      /\ DOMAIN file = 1 .. Len(file)
  <2>1. Len(file') \in Nat
    BY <1>1, SeqFacts DEF LedgerTypes
  <2> QED BY <1>1, <2>1, LedgerFacts DEF Verify, LedgerMoves
<1>3. /\ recon.round \in 1 .. 3 /\ recon.file \in 0 .. Len(file) /\ recon.file \in 0 .. Len(file')
      /\ recon.trades \subseteq 0 .. MaxAppends
      /\ recon.round # 0 /\ recon.trades = {} /\ AreLines(recon.seen)
      /\ reconciled' \in 0 .. MaxReconciliations /\ began'.acked \subseteq acked' /\ began.acked \subseteq acked
      /\ began'.segments \in 0 .. Len(archive')
  BY <1>1, <1>2, ShapeFacts DEF ReconShape
<1>4. /\ BadSegment => BadSegment'
      /\ SegmentsAreNew => SegmentsAreNew'
      /\ PathIsNew => PathIsNew'
      /\ path # 0 => path' = path
  BY <1>1, <1>2, <1>3, MovesKeep
<1>5. PICK pc, round : recon' = [pc |-> pc, round |-> round, seen |-> recon.seen, file |-> recon.file,
                                 trades |-> recon.trades]
                       /\ \/ ~HistoryIsSound /\ pc = "refused" /\ round = recon.round
                          \/ HistoryIsSound /\ recon.round = 3 /\ pc = "trades" /\ round = recon.round
                          \/ HistoryIsSound /\ recon.round = 2 /\ pc = "look" /\ round = 3
                          \/ HistoryIsSound /\ recon.round = 1 /\ pc = "segments" /\ round = 2
  <2>1. recon' = IF ~HistoryIsSound THEN [recon EXCEPT !.pc = "refused"]
                 ELSE IF recon.round = 3 THEN [recon EXCEPT !.pc = "trades"]
                 ELSE IF recon.round = 2 THEN [recon EXCEPT !.pc = "look", !.round = 3]
                 ELSE [recon EXCEPT !.pc = "segments", !.round = @ + 1]
    BY DEF Verify, Verifications
  <2>2. recon = [pc |-> recon.pc, round |-> recon.round, seen |-> recon.seen, file |-> recon.file,
                 trades |-> recon.trades]
    BY <1>1, ShapeFacts
  <2>3. CASE ~HistoryIsSound
    <3>1. recon' = [pc |-> "refused", round |-> recon.round, seen |-> recon.seen, file |-> recon.file,
                    trades |-> recon.trades]
      BY <2>1, <2>2, <2>3
    <3> QED BY <2>3, <3>1
  <2>4. CASE HistoryIsSound /\ recon.round = 3
    <3>1. recon' = [pc |-> "trades", round |-> recon.round, seen |-> recon.seen, file |-> recon.file,
                    trades |-> recon.trades]
      BY <2>1, <2>2, <2>4
    <3> QED BY <2>4, <3>1
  <2>5. CASE HistoryIsSound /\ recon.round = 2
    <3>1. recon' = [pc |-> "look", round |-> 3, seen |-> recon.seen, file |-> recon.file,
                    trades |-> recon.trades]
      <4>1. recon' = [recon EXCEPT !.pc = "look", !.round = 3]
        BY <2>1, <2>5
      <4> QED BY <2>2, <4>1
    <3> QED BY <2>5, <3>1
  <2>6. CASE HistoryIsSound /\ recon.round = 1
    <3>1. recon' = [pc |-> "segments", round |-> 2, seen |-> recon.seen, file |-> recon.file,
                    trades |-> recon.trades]
      <4>1. recon' = [recon EXCEPT !.pc = "segments", !.round = recon.round + 1] /\ recon.round + 1 = 2
        BY <2>1, <2>6
      <4> QED BY <2>2, <4>1
    <3> QED BY <2>6, <3>1
  <2> QED BY <1>3, <2>3, <2>4, <2>5, <2>6
<1>6. ReconShape'
  BY <1>1, <1>2, <1>3, <1>5, ShapeNext
<1>7. HistoryIsSound => ~HasBad(recon.seen) /\ ~HasBad(FileRead) /\ (recon.seen = <<>> \/ FileRead = <<>>)
  BY <1>1, SoundHistory
<1>8. DamageIsAhead'
  BY <1>2, <1>4, <1>5, <1>7 DEF ReconIInv, DamageIsAhead
<1>9. RecordsAreTogether'
  <2>1. SUFFICES ASSUME pc = "trades", Len(archive) = began.segments PROVE SegmentsAreNew \/ PathIsNew
    BY <1>2, <1>4, <1>5 DEF RecordsAreTogether
  <2>2. /\ recon.seen = <<>> => SegmentsAreNew
        /\ IF recon.file = 0 THEN PathIsNew ELSE path = recon.file
    BY <1>2, <2>1 DEF ReconIInv, RecordsAreTogether
  <2>3. recon.seen = <<>> \/ FileRead = <<>>
    BY <1>5, <1>7, <2>1
  <2>4. recon.file # 0 /\ FileRead = <<>> => PathIsNew
    BY <2>2, NothingIsVerified DEF FileRead, PathIsNew, IsNew
  <2> QED BY <2>2, <2>3, <2>4
<1>10. AllOrNone'
  BY <1>5 DEF AllOrNone, Reported
<1> QED BY <1>1, <1>6, <1>8, <1>9, <1>10 DEF ReconIInv

LEMMA LookForLedgerKeeps ==
    ASSUME ReconIInv, LookForLedger
    PROVE  ReconIInv'
<1>1. /\ SoundIInv' /\ ReconShape /\ SoundIInv /\ LedgerTypes /\ UNCHANGED ledgerVars
  BY SoundStays DEF ReconIInv, SoundIInv, LedgerIInv, LookForLedger
<1>2. /\ Len(file) \in Nat /\ UNCHANGED <<file, path, archive, acked, spoiled, began, reconciled>>
      /\ recon.pc = "look"
  BY <1>1, LedgerFacts DEF LookForLedger, ledgerVars
<1>3. /\ recon.round = 3 /\ recon.file \in 0 .. Len(file) /\ recon.trades \subseteq 0 .. MaxAppends
      /\ recon.trades = {} /\ AreLines(recon.seen)
      /\ reconciled' \in 0 .. MaxReconciliations /\ began'.acked \subseteq acked'
      /\ began'.segments \in 0 .. Len(archive')
      /\ Len(file') = Len(file) /\ Len(file') \in Nat /\ Len(file) <= Len(file')
  BY <1>1, <1>2, ShapeFacts DEF ReconShape
<1>4. PICK pc \in {"reported", "segments"} :
         recon' = [pc |-> pc, round |-> recon.round, seen |-> recon.seen, file |-> recon.file,
                   trades |-> recon.trades]
  BY <1>1, ShapeFacts DEF LookForLedger
<1>5. ReconShape'
  BY <1>1, <1>2, <1>3, <1>4, ShapeNext
<1>6. DamageIsAhead' /\ RecordsAreTogether' /\ AllOrNone'
  BY <1>2, <1>3, <1>4 DEF ReconIInv, DamageIsAhead, RecordsAreTogether, AllOrNone, Reported
<1> QED BY <1>1, <1>5, <1>6 DEF ReconIInv

LEMMA OpenForTradesKeeps ==
    ASSUME ReconIInv, OpenForTrades
    PROVE  ReconIInv'
<1>1. /\ SoundIInv' /\ ReconShape /\ SoundIInv /\ LedgerTypes /\ UNCHANGED ledgerVars
  BY SoundStays DEF ReconIInv, SoundIInv, LedgerIInv, OpenForTrades
<1>2. /\ Len(file) \in Nat /\ UNCHANGED <<file, path, archive, acked, spoiled, began, reconciled>>
      /\ recon.pc = "trades" /\ path \in 0 .. Len(file)
  BY <1>1, LedgerFacts DEF OpenForTrades, ledgerVars
<1>3. /\ recon.round \in 0 .. 3 /\ recon.file \in 0 .. Len(file) /\ recon.trades \subseteq 0 .. MaxAppends
      /\ recon.trades = {} /\ AreLines(recon.seen)
      /\ reconciled' \in 0 .. MaxReconciliations /\ began'.acked \subseteq acked'
      /\ began'.segments \in 0 .. Len(archive')
      /\ Len(file') = Len(file) /\ Len(file') \in Nat /\ Len(file) <= Len(file')
  BY <1>1, <1>2, ShapeFacts DEF ReconShape
<1>4. PICK pc \in {"failed", "read"} :
         /\ recon' = [pc |-> pc, round |-> recon.round, seen |-> recon.seen, file |-> path,
                      trades |-> recon.trades]
         /\ pc = "read" => path # 0
  BY <1>1, ShapeFacts DEF OpenForTrades
<1>5. ReconShape'
  BY <1>1, <1>2, <1>3, <1>4, ShapeNext
<1>6. DamageIsAhead' /\ AllOrNone'
  BY <1>2, <1>4 DEF ReconIInv, DamageIsAhead, AllOrNone, Reported
<1>7. RecordsAreTogether'
  <2>1. SegmentsAreNew' = SegmentsAreNew /\ PathIsNew' = PathIsNew
    BY <1>2 DEF SegmentsAreNew, PathIsNew, IsNew
  <2> QED BY <1>2, <1>4, <2>1 DEF ReconIInv, RecordsAreTogether
<1> QED BY <1>1, <1>5, <1>6, <1>7 DEF ReconIInv

LEMMA ReadTradesKeeps ==
    ASSUME ReconIInv, ReadTrades
    PROVE  ReconIInv'
<1>1. /\ SoundIInv' /\ ReconShape /\ SoundIInv /\ LedgerTypes /\ UNCHANGED ledgerVars
  BY SoundStays DEF ReconIInv, SoundIInv, LedgerIInv, ReadTrades
<1>2. /\ Len(file) \in Nat /\ UNCHANGED <<file, path, archive, acked, spoiled, began, reconciled>>
      /\ recon.pc = "read" /\ path \in 0 .. Len(file) /\ DOMAIN file = 1 .. Len(file)
  BY <1>1, LedgerFacts DEF ReadTrades, ledgerVars
<1>3. /\ recon.round \in 0 .. 3 /\ recon.file \in 0 .. Len(file) /\ AreLines(recon.seen)
      /\ recon.trades \subseteq 0 .. MaxAppends /\ recon.trades = {}
      /\ reconciled' \in 0 .. MaxReconciliations /\ began'.acked \subseteq acked'
      /\ began'.segments \in 0 .. Len(archive')
      /\ Len(file') = Len(file) /\ Len(file') \in Nat /\ Len(file) <= Len(file')
  BY <1>1, <1>2, ShapeFacts DEF ReconShape
<1>4. Recs(FileRead) \subseteq 0 .. MaxAppends
  <2>1. CASE recon.file = 0
    BY <2>1, NothingIsVerified DEF FileRead
  <2>2. CASE recon.file # 0
    <3>1. Recs(file[recon.file]) \subseteq RecordNumbers
      BY <1>2, <1>3, <2>2 DEF RecordNumbers, Stored
    <3> QED BY <1>1, <2>2, <3>1 DEF FileRead, SoundIInv, NumbersAreNew
  <2> QED BY <2>1, <2>2
<1>5. PICK pc, trades :
         /\ recon' = [pc |-> pc, round |-> recon.round, seen |-> recon.seen, file |-> recon.file,
                      trades |-> trades]
         /\ (pc = "failed" /\ trades = {}) \/ (pc = "reported" /\ trades = Recs(FileRead))
  BY <1>1, <1>3, ShapeFacts DEF ReadTrades
<1>6. ReconShape'
  BY <1>1, <1>2, <1>3, <1>4, <1>5, ShapeNext
<1>7. DamageIsAhead' /\ RecordsAreTogether'
  BY <1>2, <1>5 DEF ReconIInv, DamageIsAhead, RecordsAreTogether
<1>8. AllOrNone'
  <2>1. SUFFICES ASSUME pc = "reported", trades \cap began.acked # {}, Len(archive) = began.segments
                 PROVE  began.acked \ spoiled \subseteq trades
    BY <1>2, <1>5 DEF AllOrNone, Reported
  <2>2. /\ SegmentsAreNew \/ PathIsNew
        /\ recon.file # 0 /\ path = recon.file
    BY <1>2, <2>1 DEF ReconIInv, RecordsAreTogether
  <2>3. trades = Recs(file[path])
    BY <1>5, <2>1, <2>2 DEF FileRead
  <2>4. SegmentsAreNew
    BY <2>1, <2>2, <2>3 DEF PathIsNew, IsNew
  <2>5. ASSUME NEW n \in began.acked \ spoiled PROVE n \in trades
    <3>1. n \in acked
      BY <1>1 DEF ReconShape
    <3>2. PICK f \in Named : n \in Recs(file[f])
      BY <1>1, <3>1 DEF SoundIInv, LedgerIInv, AckedIsKept
    <3>3. ~ \E k \in DOMAIN archive : f = archive[k]
      BY <2>4, <3>2 DEF SegmentsAreNew, IsNew
    <3> QED BY <2>3, <3>2, <3>3 DEF Named
  <2> QED BY <2>5
<1> QED BY <1>1, <1>6, <1>7, <1>8 DEF ReconIInv

(* Every step keeps the invariant. *)
LEMMA ReconStep == ReconIInv /\ OneRotator /\ [ReconNext]_reconVars => ReconIInv'
<1> SUFFICES ASSUME ReconIInv, OneRotator, [ReconNext]_reconVars PROVE ReconIInv'
  OBVIOUS
<1>1. CASE LedgerNext /\ UNCHANGED <<recon, began, reconciled>>
  BY <1>1, LedgerSound, OthersKeep DEF ReconIInv
<1>2. CASE UNCHANGED reconVars
  <2>1. UNCHANGED ledgerVars /\ UNCHANGED <<recon, began, reconciled>> /\ SoundIInv
    BY <1>2 DEF reconVars, ledgerVars, ReconIInv
  <2>2. SoundIInv' /\ LedgerMoves
    BY <2>1, SoundStays, QuietSound DEF ledgerVars
  <2> QED BY <2>1, <2>2, OthersKeep
<1> QED BY <1>1, <1>2, StartKeeps, ReadSegmentsKeeps, OpenLedgerKeeps, VerifyKeeps, LookForLedgerKeeps,
           OpenForTradesKeeps, ReadTradesKeeps DEF ReconNext

(* The invariant implies what the runs check. *)
LEMMA ReconImplied == ReconIInv => ReportIsSound
<1> SUFFICES ASSUME ReconIInv PROVE ReportIsSound
  OBVIOUS
<1>1. ReconType
  BY ShapeFacts DEF ReconIInv, ReconShape, ReconType, Verifications
<1>2. DamageIsRefused
  BY DEF ReconIInv, DamageIsAhead, DamageIsRefused, Reported
<1> QED BY <1>1, <1>2 DEF ReportIsSound, ReconIInv

(* A report is of a ledger that had no damage when the reconciliation began, and *)
(* tells of all that had been acknowledged by then or of none of it when nobody  *)
(* rotates meanwhile: for any number of processes that append, and one of them   *)
(* that rotates, between any two reads of the reconciliation.                    *)
THEOREM ReportsAreSound ==
    ASSUME OneRotator
    PROVE  ReconSpec => []ReportIsSound
<1>1. ReconIInv /\ [ReconNext]_reconVars => ReconIInv'
  BY ReconStep
<1> QED BY ReconInitially, ReconImplied, <1>1, PTL DEF ReconSpec

-----------------------------------------------------------------------------
(* What is left of a conversation: checkpoints that are never older than what  *)
(* was answered, messages and tool calls that are there once, and records that *)
(* are read back.                                                              *)
THEOREM ConversationIsKept == CkptSpec /\ SessionSpec /\ TraceSpec => []ConversationInv
BY CheckpointsAreKept, SessionsAreKept, RecordsAreKept, PTL DEF ConversationInv

(* What is shown: one bundle per version of its parts, and bars as they were   *)
(* known at the time that is asked about.                                      *)
THEOREM WhatIsShown == BundleSpec /\ PitSpec => []ShownInv
BY BundleIsOne, SnapshotsAreKept, PTL DEF ShownInv
==============================================================================
