---------------------------- MODULE ServiceProofs ----------------------------
(***************************************************************************)
(* What is served, proved for all values of the constants: the chain of    *)
(* the audit log and what verify says of it, the event stream of a run,    *)
(* and the checks of readiness. Each part states what its component        *)
(* keeps, shows that every action keeps it, and that it implies what the   *)
(* runs check.                                                             *)
(***************************************************************************)
EXTENDS MCServices, SequenceTheorems, FiniteSetTheorems, WellFoundedInduction, TLAPS

-----------------------------------------------------------------------------
(* The chain of the audit log does not fork, proved for any number of        *)
(* writers, contents, ids and failures.  The argument: a writer that is      *)
(* about to append holds the row lock of the head, or the advisory lock      *)
(* while there is no head, and knows the head as it is; so it is alone, its  *)
(* id is above all others, and its row continues the chain.  What verify     *)
(* says is proved from what it knows at each statement: rows that were read  *)
(* are the first of those that are there, and a change by hand leaves a row  *)
(* or a head that does not fit.                                              *)

(* Two locks, yet one section: both writers know the same head, and it     *)
(* says which of the locks they hold.                                      *)
LEMMA SectionIsExclusive == SectionIsLocked => OneAppender
  BY DEF SectionIsLocked, OneAppender

(* The tables of a tenant that has logged nothing.                           *)
LEMMA Initially == ChainInit => IInv
<1> SUFFICES ASSUME ChainInit PROVE IInv
  OBVIOUS
<1>1. DOMAIN log = {}
  BY DEF ChainInit, NoRows
<1>2. NoHead \in ChainHead
  BY DEF NoHead, ChainHead, Hashes, Genesis
<1>3. TablesOK
  <2>1. DOMAIN log \subseteq 1 .. nextId - 1 /\ \A i \in DOMAIN log : log[i] \in Row
    BY <1>1
  <2>2. head \in ChainHead /\ nextId \in Nat \ {0}
    BY <1>2 DEF ChainInit
  <2>3. changed \in BOOLEAN
    BY DEF ChainInit
  <2> QED
    BY <2>1, <2>2, <2>3 DEF TablesOK
<1>4. WritersOK
  BY <1>2 DEF ChainInit, WritersOK, Idle, WriterLabels
<1>5. IsFiniteSet(DOMAIN log)
  BY <1>1, FS_EmptySet
<1>6. SectionIsLocked /\ IdIsNew
  BY DEF ChainInit, SectionIsLocked, IdIsNew, Idle, InSection
<1>7. Integrity
  <2>1. Cardinality(DOMAIN log) = 0
    BY <1>1, FS_EmptySet
  <2> QED
    BY <1>1, <2>1 DEF ChainInit, Integrity, Linked, HeadIsLast, NoHead
<1> QED
  BY <1>3, <1>4, <1>5, <1>6, <1>7 DEF IInv

-----------------------------------------------------------------------------
(* The steps that leave the tables alone. *)

LEMMA TablesUnchanged ==
  ASSUME IInv, UNCHANGED <<log, head, changed>>, nextId' \in {nextId, nextId + 1}
  PROVE  TablesOK' /\ IsFiniteSet(DOMAIN log)' /\ Integrity'
<1>1. TablesOK'
  BY DEF IInv, TablesOK
<1>2. Integrity'
  BY DEF IInv, Integrity, Linked, HeadIsLast, First, Last, Precedes
<1> QED
  BY <1>1, <1>2 DEF IInv

LEMMA BeginKeeps == ASSUME IInv, NEW w \in Writers, Begin(w) PROVE IInv'
<1> USE DEF Begin, tables
<1>1. TablesOK' /\ IsFiniteSet(DOMAIN log)' /\ Integrity'
  BY TablesUnchanged
<1>2. PICK c \in Contents :
        writer' = [writer EXCEPT ![w] = [Idle EXCEPT !.pc = "lock", !.content = c]]
  OBVIOUS
<1>3. NoHead \in ChainHead
  BY DEF NoHead, ChainHead, Hashes, Genesis
<1>4. WritersOK'
  BY <1>2, <1>3 DEF IInv, WritersOK, Idle, WriterLabels
<1>5. SectionIsLocked' /\ IdIsNew'
  BY <1>2 DEF IInv, WritersOK, SectionIsLocked, IdIsNew, Idle, InSection
<1> QED
  BY <1>1, <1>4, <1>5 DEF IInv

(* The SELECT FOR UPDATE of the head: who gets the row reads it as it is.    *)
LEMMA LockHeadKeeps == ASSUME IInv, NEW w \in Writers, LockHead(w) PROVE IInv'
<1> USE DEF LockHead, tables
<1>1. TablesOK' /\ IsFiniteSet(DOMAIN log)' /\ Integrity'
  BY TablesUnchanged
<1>2. CASE head = NoHead /\ NoRowToLock(w)
  <2>1. WritersOK'
    BY <1>2 DEF IInv, WritersOK, WriterLabels, NoRowToLock
  <2>2. SectionIsLocked' /\ IdIsNew'
    BY <1>2 DEF IInv, WritersOK, WriterLabels, NoRowToLock, SectionIsLocked, IdIsNew, InSection
  <2> QED
    BY <1>1, <2>1, <2>2 DEF IInv
<1>3. CASE head # NoHead /\ rowLock = Nobody /\ rowLock' = w
           /\ writer' = [writer EXCEPT ![w].pc = "insert", ![w].head = head]
  <2>1. WritersOK'
    <3>1. /\ writer \in [Writers -> [pc : WriterLabels, content : Contents \cup {Nobody},
                                     head : ChainHead, id : Nat]]
          /\ head \in ChainHead /\ "insert" \in WriterLabels /\ writer[w].pc # "idle"
      BY DEF IInv, TablesOK, WritersOK, WriterLabels
    <3>2. /\ writer' \in [Writers -> [pc : WriterLabels, content : Contents \cup {Nobody},
                                      head : ChainHead, id : Nat]]
          /\ \A v \in Writers : writer'[v].content = writer[v].content /\ (v # w => writer'[v] = writer[v])
      BY <1>3, <3>1
    <3> QED BY <1>3, <3>1, <3>2 DEF IInv, WritersOK
  <2>2. SectionIsLocked'
    BY <1>3, WriterAssumption DEF IInv, WritersOK, SectionIsLocked, InSection
  <2>3. IdIsNew'
    BY <1>3 DEF IInv, WritersOK, IdIsNew
  <2> QED
    BY <1>1, <2>1, <2>2, <2>3 DEF IInv
<1> QED
  BY <1>2, <1>3

(* The start of a chain under the advisory lock, with the second look.       *)
LEMMA BootstrapKeeps == ASSUME IInv, NEW w \in Writers, Bootstrap(w) PROVE IInv'
<1> USE DEF Bootstrap, tables
<1>1. TablesOK' /\ IsFiniteSet(DOMAIN log)' /\ Integrity'
  BY TablesUnchanged
<1>2. WritersOK'
  BY DEF IInv, WritersOK, WriterLabels
<1>3. SectionIsLocked' /\ IdIsNew'
  BY WriterAssumption DEF IInv, WritersOK, SectionIsLocked, IdIsNew, InSection
<1> QED
  BY <1>1, <1>2, <1>3 DEF IInv

(* The INSERT into audit_log takes an id that is new.                        *)
LEMMA InsertKeeps == ASSUME IInv, NEW w \in Writers, Insert(w) PROVE IInv'
<1> USE DEF Insert
<1>1. TablesOK' /\ IsFiniteSet(DOMAIN log)' /\ Integrity'
  BY TablesUnchanged
<1>2. WritersOK'
  BY DEF IInv, TablesOK, WritersOK, WriterLabels
<1>3. SectionIsLocked'
  BY DEF IInv, WritersOK, SectionIsLocked, InSection
<1>4. IdIsNew'
  BY DEF IInv, TablesOK, WritersOK, IdIsNew
<1> QED
  BY <1>1, <1>2, <1>3, <1>4 DEF IInv

(* A connection that fails gives its locks back and leaves nothing.          *)
LEMMA RollbackKeeps == ASSUME IInv, NEW w \in Writers, Rollback(w) PROVE IInv'
<1> USE DEF Rollback, tables
<1>1. TablesOK' /\ IsFiniteSet(DOMAIN log)' /\ Integrity'
  BY TablesUnchanged
<1>2. NoHead \in ChainHead
  BY DEF NoHead, ChainHead, Hashes, Genesis
<1>3. WritersOK'
  BY <1>2 DEF IInv, WritersOK, Idle, WriterLabels, Release
<1>4. SectionIsLocked' /\ IdIsNew'
  BY DEF IInv, WritersOK, SectionIsLocked, IdIsNew, Idle, InSection, Release
<1> QED
  BY <1>1, <1>3, <1>4 DEF IInv

-----------------------------------------------------------------------------
(* The step that adds a row. *)

(* The new row comes after all others, and after the last one directly. *)
LEMMA RowsAfterCommit ==
  ASSUME IInv, NEW w \in Writers, Commit(w)
  PROVE  /\ DOMAIN log' = DOMAIN log \cup {writer[w].id}
         /\ writer[w].id \notin DOMAIN log
         /\ log'[writer[w].id] = NewRow(w)
         /\ \A i \in DOMAIN log : log'[i] = log[i] /\ i < writer[w].id /\ i \in Int
         /\ writer[w].id \in 1 .. nextId - 1
         /\ writer[w].head = head
<1>1. writer[w].id \in 1 .. nextId - 1 /\ \A i \in DOMAIN log : i < writer[w].id /\ i \in Int
  BY DEF Commit, IInv, IdIsNew, TablesOK
<1>2. writer[w].id \notin DOMAIN log
  BY <1>1
<1> QED
  BY <1>1, <1>2 DEF Commit, IInv, SectionIsLocked, InSection

(* The row that is committed continues the chain, and the head is that row.  *)
LEMMA CommitKeepsIntegrity == ASSUME IInv, NEW w \in Writers, Commit(w) PROVE Integrity'
<1> DEFINE new == writer[w].id
<1>0. /\ DOMAIN log' = DOMAIN log \cup {new}
      /\ new \notin DOMAIN log
      /\ log'[new] = NewRow(w)
      /\ \A i \in DOMAIN log : log'[i] = log[i] /\ i < new /\ i \in Int
      /\ new \in Int /\ new > 0
      /\ writer[w].head = head
  <2>1. new \in 1 .. nextId - 1 /\ nextId \in Nat
    BY RowsAfterCommit DEF IInv, TablesOK
  <2>2. new \in Int /\ new > 0
    BY <2>1
  <2> QED
    BY <2>2, RowsAfterCommit
<1> SUFFICES ASSUME ~changed PROVE (Linked /\ HeadIsLast)'
  BY DEF Integrity, Commit
<1> HIDE DEF new
<1>1. Linked /\ HeadIsLast
  BY DEF IInv, Integrity
<1>2. log'[new].prev = head.hash /\ log'[new].hash = Hash(head.hash, writer[w].content)
      /\ log'[new].content = writer[w].content
  BY <1>0 DEF NewRow
<1>3. ASSUME NEW i \in DOMAIN log' PROVE log'[i].hash = Hash(log'[i].prev, log'[i].content)
  BY <1>0, <1>1, <1>2 DEF Linked
<1>4. ASSUME NEW i \in DOMAIN log', First(log', i) PROVE log'[i].prev = Genesis
  <2>1. CASE i = new
    <3>1. DOMAIN log = {}
      BY <1>0, <1>4, <2>1 DEF First
    <3>2. head = NoHead
      BY <1>1, <3>1 DEF HeadIsLast, Last
    <3> QED
      BY <1>2, <2>1, <3>2 DEF NoHead
  <2>2. CASE i # new
    BY <1>0, <1>1, <1>4, <2>2 DEF First, Linked
  <2> QED
    BY <2>1, <2>2
<1>5. ASSUME NEW i \in DOMAIN log', NEW j \in DOMAIN log', Precedes(log', j, i)
      PROVE  log'[i].prev = log'[j].hash
  <2>1. j \in DOMAIN log
    BY <1>0, <1>5 DEF Precedes
  <2>2. CASE i = new
    <3>1. head # NoHead
      BY <1>1, <2>1 DEF HeadIsLast
    <3>2. Last(log, head.id) /\ head.hash = log[head.id].hash
      BY <1>1, <3>1 DEF HeadIsLast
    <3>3. j = head.id
      BY <1>0, <1>5, <2>1, <2>2, <3>2 DEF Precedes, Last
    <3> QED
      BY <1>0, <1>2, <2>1, <2>2, <3>2, <3>3
  <2>3. CASE i # new
    BY <1>0, <1>1, <1>5, <2>1, <2>3 DEF Precedes, Linked
  <2> QED
    BY <2>2, <2>3
<1>6. head'.entries = Cardinality(DOMAIN log')
  <2>1. Cardinality(DOMAIN log') = Cardinality(DOMAIN log) + 1
    BY <1>0, FS_AddElement DEF IInv
  <2>2. head'.entries = head.entries + 1
    BY <1>0 DEF Commit, NewHead
  <2> QED
    BY <1>1, <2>1, <2>2 DEF HeadIsLast
<1>7. head' # NoHead /\ Last(log', head'.id) /\ head'.hash = log'[head'.id].hash
  <2>1. head'.id = new /\ head'.hash = log'[new].hash
    BY <1>0 DEF Commit, NewHead, new
  <2> QED
    BY <1>0, <2>1 DEF Last, NoHead
<1> QED
  BY <1>3, <1>4, <1>5, <1>6, <1>7 DEF Linked, HeadIsLast

LEMMA CommitKeeps == ASSUME IInv, NEW w \in Writers, Commit(w) PROVE IInv'
<1>0. /\ DOMAIN log' = DOMAIN log \cup {writer[w].id}
      /\ log'[writer[w].id] = NewRow(w)
      /\ \A i \in DOMAIN log : log'[i] = log[i]
      /\ writer[w].id \in 1 .. nextId - 1
  BY RowsAfterCommit
<1>1. writer[w].content \in Contents /\ writer[w].head \in ChainHead /\ writer[w].id \in Nat
  BY DEF Commit, IInv, WritersOK
<1>2. NewRow(w) \in Row
  BY <1>1 DEF NewRow, Row, ChainHead, Hash, Hashes
<1>3. NewHead(w) \in ChainHead
  BY <1>1 DEF NewHead, NewRow, ChainHead, Hash, Hashes
<1>4. TablesOK'
  <2>1. \A i \in DOMAIN log' : log'[i] \in Row
    BY <1>0, <1>2 DEF IInv, TablesOK
  <2> QED
    BY <1>0, <1>3, <2>1 DEF Commit, IInv, TablesOK
<1>5. IsFiniteSet(DOMAIN log)'
  BY <1>0, FS_AddElement DEF IInv
<1>6. NoHead \in ChainHead
  BY DEF NoHead, ChainHead, Hashes, Genesis
<1>7. WritersOK'
  BY <1>6 DEF Commit, Release, IInv, WritersOK, Idle, WriterLabels
<1>8. \A x \in Writers : ~InSection(x)'
  <2>1. OneAppender
    BY SectionIsExclusive DEF IInv
  <2> QED
    BY <2>1 DEF OneAppender, Commit, IInv, WritersOK, InSection, Idle
<1>9. SectionIsLocked' /\ IdIsNew'
  BY <1>8 DEF Commit, Release, IInv, WritersOK, SectionIsLocked, IdIsNew, InSection, Idle
<1> QED
  BY <1>4, <1>5, <1>7, <1>9, CommitKeepsIntegrity DEF IInv

-----------------------------------------------------------------------------
(* A repair is remembered, and does not get between a writer and the head. *)

(* A change by hand is noted, and nothing is claimed of the tables after it. *)
LEMMA RepairKeeps == ASSUME IInv, Repair PROVE IInv'
<1> USE DEF Repair
<1>1. /\ DOMAIN log' \subseteq DOMAIN log
      /\ \A i \in DOMAIN log' : log'[i] \in Row
  <2>1. CASE \E i \in DOMAIN log, c \in Contents : log' = [log EXCEPT ![i].content = c]
    BY <2>1 DEF IInv, TablesOK, Row
  <2>2. CASE \E i \in DOMAIN log : log' = [j \in DOMAIN log \ {i} |-> log[j]]
    BY <2>2 DEF IInv, TablesOK
  <2>3. CASE UNCHANGED log
    BY <2>3 DEF IInv, TablesOK
  <2> QED
    BY <2>1, <2>2, <2>3
<1>2. NoHead \in ChainHead
  BY DEF NoHead, ChainHead, Hashes, Genesis
<1>3. TablesOK'
  BY <1>1, <1>2 DEF IInv, TablesOK
<1>4. WritersOK'
  BY DEF IInv, WritersOK
<1>5. IsFiniteSet(DOMAIN log)'
  BY <1>1, FS_Subset DEF IInv
<1>6. SectionIsLocked' /\ IdIsNew'
  BY <1>1, WriterAssumption DEF IInv, SectionIsLocked, IdIsNew, InSection
<1>7. Integrity'
  BY DEF Integrity
<1> QED
  BY <1>3, <1>4, <1>5, <1>6, <1>7 DEF IInv

(* verify changes no table.                                                  *)
LEMMA VerifierKeeps ==
  ASSUME IInv, UNCHANGED <<tables, rowLock, xactLock, writer>> PROVE IInv'
<1> USE DEF tables
<1>1. TablesOK' /\ IsFiniteSet(DOMAIN log)' /\ Integrity'
  BY TablesUnchanged
<1> QED
  BY <1>1 DEF IInv, WritersOK, SectionIsLocked, IdIsNew, InSection

(* Every step keeps the invariant.                                           *)
LEMMA Inductive == IInv /\ [ChainNext]_chainVars => IInv'
<1> SUFFICES ASSUME IInv, [ChainNext]_chainVars PROVE IInv'
  OBVIOUS
<1>1. CASE \E w \in Writers :
         Begin(w) \/ LockHead(w) \/ Bootstrap(w) \/ Insert(w) \/ Commit(w) \/ Rollback(w)
  BY <1>1, BeginKeeps, LockHeadKeeps, BootstrapKeeps, InsertKeeps, CommitKeeps, RollbackKeeps
<1>2. CASE \E v \in Verifiers : ReadCount(v) \/ ReadStart(v) \/ ReadRows(v) \/ ReadHead(v)
  BY <1>2, VerifierKeeps DEF ReadCount, ReadStart, ReadRows, ReadHead
<1>3. CASE Repair
  BY <1>3, RepairKeeps
<1>4. CASE UNCHANGED chainVars
  BY <1>4, VerifierKeeps DEF chainVars, tables
<1> QED
  BY <1>1, <1>2, <1>3, <1>4 DEF ChainNext

(* The inductive invariant of the append protocol. *)
THEOREM ChainInvariance == ChainSpec => []IInv
  BY Initially, Inductive, PTL DEF ChainSpec

(* append: the transactions of one tenant are serialised from reading the  *)
(* head to the commit, the first one included.                             *)
THEOREM AppendsAreSerial == ChainSpec => []OneAppender
<1>1. IInv => OneAppender
  BY SectionIsExclusive DEF IInv
<1> QED
  BY <1>1, ChainInvariance, PTL

(* The chain does not fork: in an untouched log each row carries the       *)
(* digest of the one before, and the head is the last row.                 *)
THEOREM ChainIsWhole == ChainSpec => []Integrity
<1>1. IInv => Integrity
  BY DEF IInv
<1> QED
  BY <1>1, ChainInvariance, PTL

(* Rows are only added, at the end. *)
THEOREM RowsAreOnlyAdded == ChainSpec => AppendOnly
<1>1. ASSUME IInv, [ChainNext]_chainVars
      PROVE  [~changed' => \A i \in DOMAIN log : i \in DOMAIN log' /\ log'[i] = log[i]
                           /\ \A j \in DOMAIN log' \ DOMAIN log : i < j]_chainVars
  <2>1. CASE \E w \in Writers : Commit(w)
    BY <1>1, <2>1, RowsAfterCommit
  <2>2. CASE UNCHANGED log
    BY <2>2
  <2>3. CASE Repair
    BY <2>3 DEF Repair
  <2> QED
    BY <1>1, <2>1, <2>2, <2>3 DEF ChainNext, chainVars, tables, Begin, LockHead, Bootstrap, Insert, Rollback,
       ReadCount, ReadStart, ReadRows, ReadHead
<1> QED
  BY <1>1, ChainInvariance, PTL DEF ChainSpec, AppendOnly

-----------------------------------------------------------------------------
(* What verify says of the tables.                                         *)

Tables == UNION {[ids -> Row] : ids \in SUBSET Nat}

Verification ==
  [pc : VerifierLabels, limit : Nat, counted : Nat, start : Nat, rows : Tables,
   report : Report, disturbed : BOOLEAN, after : BOOLEAN]

(* rows are the first ones of a table. *)
Prefix(rows, all) ==
  /\ DOMAIN rows \subseteq DOMAIN all
  /\ \A i \in DOMAIN rows : rows[i] = all[i]
  /\ \A i \in DOMAIN rows, j \in DOMAIN all : j <= i => j \in DOMAIN rows

(* The head is not above the end of the rows: the next row will not follow *)
(* the last one.                                                           *)
HeadIsOff ==
  /\ DOMAIN log = {} => head.hash # Genesis
  /\ \A i \in DOMAIN log : Last(log, i) => head.hash # log[i].hash

(* A change leaves a row that does not fit, or a head that makes the next  *)
(* one not fit: appends do not hide it.                                    *)
Wounded == changed => Broken(log) # {} \/ HeadIsOff

TablesAreSound ==
  /\ log \in Tables
  /\ \A i \in DOMAIN log : log[i].hash # Genesis
  /\ head # NoHead => \A i \in DOMAIN log : i <= head.id
  /\ Wounded

(* What a verification under way has read, and what it said before.        *)
KnowsRows(it) ==
  /\ it.after => changed
  /\ it.pc = "head" /\ (~changed \/ it.after) => Prefix(it.rows, log)
  /\ it.pc # "idle" /\ it.after /\ it.counted = 0 =>
        \A i \in DOMAIN log : First(log, i) => i \in Broken(log)

KnowsCount(it) ==
  /\ IsFiniteSet(DOMAIN it.rows)
  /\ it.pc \in {"start", "rows"} => it.counted <= Cardinality(DOMAIN log) \/ changed
  /\ it.pc = "head" /\ it.limit = 0 =>
        \/ it.counted <= Cardinality(DOMAIN it.rows)
        \/ changed /\ Prefix(it.rows, log)

KnowsAll(it) ==
  it.pc # "idle" /\ ~it.disturbed /\ ~changed =>
    /\ it.counted = Cardinality(DOMAIN log)
    /\ it.pc \in {"rows", "head"} => (it.start = 0 <=> DOMAIN log = {})
    /\ it.pc = "head" /\ it.limit = 0 => DOMAIN it.rows = DOMAIN log

SaidRight(it) ==
  /\ it.report.reason \in {"prev_mismatch", "hash_mismatch"} => changed
  /\ it.pc = "idle" /\ ~it.disturbed /\ ~changed =>
       /\ it.report.reason = "none"
       /\ it.report.code \in {"none", "scan_truncated"}
       /\ (it.report.start = 0) <=> (it.report.counted = 0)
       /\ it.report.code = "none" => it.report.entries = it.report.counted
  /\ it.after /\ it.report.ok => it.report.entries = 0
  /\ it.report.ok => it.report.entries >= it.report.counted

Knows(it) == KnowsRows(it) /\ KnowsCount(it) /\ KnowsAll(it) /\ SaidRight(it)

(* The inductive invariant behind VerdictIsRight, beside that of the appends. *)
VerifyIInv ==
  /\ TablesAreSound
  /\ verifier \in [Verifiers -> Verification]
  /\ \A v \in Verifiers : Knows(verifier[v])

(* A set of numbers with a member has a least one. *)
LEMMA LeastNumber ==
  ASSUME NEW S \in SUBSET Nat, S # {}
  PROVE  \E i \in S : \A j \in S : i <= j
<1> DEFINE R == {ss \in Nat \X Nat : ss[1] < ss[2]}
<1>1. IsWellFoundedOn(R, Nat)
  BY NatLessThanWellFounded DEF OpToRel
<1>2. \A i, j \in Nat : j < i => <<j, i>> \in R
  OBVIOUS
<1> HIDE DEF R
<1>3. PICK i \in S : \A j \in S : ~(<<j, i>> \in R)
  BY <1>1, WFMin
<1>4. \A j \in S : i \in Nat /\ j \in Nat /\ ~(j < i)
  BY <1>2, <1>3
<1> QED
  BY <1>4

(* A row that is not the first one has one before it, and one that is not  *)
(* the last one has one after it.                                          *)
LEMMA NeighboursExist ==
  ASSUME NEW rows \in Tables, NEW i \in DOMAIN rows
  PROVE  /\ ~First(rows, i) => \E j \in DOMAIN rows : Precedes(rows, j, i)
         /\ ~Last(rows, i) => \E k \in DOMAIN rows : Precedes(rows, i, k)
<1>1. DOMAIN rows \subseteq Nat
  BY DEF Tables
<1>2. ASSUME NEW j \in DOMAIN rows, j < i PROVE \E l \in DOMAIN rows : Precedes(rows, l, i)
  <2> DEFINE Distance == {d \in Nat : d # 0 /\ i - d \in DOMAIN rows}
  <2>1. i - j \in Distance
    <3>1. i - j \in Nat /\ i - j # 0 /\ i - (i - j) = j
      BY <1>1, <1>2
    <3> QED
      BY <3>1
  <2>2. PICK d \in Distance : \A e \in Distance : d <= e
    <3>1. Distance \in SUBSET Nat
      OBVIOUS
    <3> HIDE DEF Distance
    <3> QED
      BY <2>1, <3>1, LeastNumber
  <2>3. d \in Nat /\ d # 0 /\ i - d \in DOMAIN rows /\ i - d < i
    BY <1>1
  <2>4. ASSUME NEW k \in DOMAIN rows, i - d < k, k < i PROVE FALSE
    <3>1. i - k \in Nat /\ i - k < d /\ i - k # 0 /\ i - (i - k) = k
      BY <1>1, <2>3, <2>4
    <3>2. d <= i - k
      BY <2>2, <3>1
    <3> QED
      BY <2>3, <3>1, <3>2
  <2> QED
    BY <2>3, <2>4 DEF Precedes
<1>3. ASSUME NEW j \in DOMAIN rows, i < j PROVE \E k \in DOMAIN rows : Precedes(rows, i, k)
  <2> DEFINE Above == {k \in Nat : k \in DOMAIN rows /\ i < k}
  <2>1. j \in Above
    BY <1>1, <1>3
  <2>2. PICK k \in Above : \A l \in Above : k <= l
    <3>1. Above \in SUBSET Nat
      OBVIOUS
    <3> HIDE DEF Above
    <3> QED
      BY <2>1, <3>1, LeastNumber
  <2>3. \A l \in DOMAIN rows : ~(i < l /\ l < k)
    <3>1. SUFFICES ASSUME NEW l \in DOMAIN rows, i < l, l < k PROVE FALSE
      OBVIOUS
    <3>2. l \in Above /\ l \in Nat /\ k \in Nat
      BY <1>1, <3>1
    <3>3. k <= l
      BY <2>2, <3>2
    <3> QED
      BY <3>1, <3>2, <3>3
  <2> QED
    BY <2>3 DEF Precedes
<1> QED
  BY <1>2, <1>3 DEF First, Last

(* There is one row before another at most, and it is the one that the      *)
(* scan compares with.                                                      *)
LEMMA PrecederIsExpected ==
  ASSUME NEW rows, DOMAIN rows \subseteq Nat, NEW i \in Nat, NEW j, Precedes(rows, j, i)
  PROVE  Expected(rows, i) = rows[j].hash /\ ~First(rows, i) /\ j \in DOMAIN rows
<1>1. \A k \in DOMAIN rows : Precedes(rows, k, i) => k = j
  BY DEF Precedes
<1>2. j \in DOMAIN rows /\ ~First(rows, i)
  BY DEF Precedes, First
<1>3. (CHOOSE k \in DOMAIN rows : Precedes(rows, k, i)) = j
  BY <1>1, <1>2
<1> QED
  BY <1>2, <1>3 DEF Expected

(* What a row is compared with is the same in the first rows of a table.   *)
LEMMA PrefixExpects ==
  ASSUME NEW rows \in Tables, NEW all \in Tables, Prefix(rows, all), NEW i \in DOMAIN rows
  PROVE  Expected(rows, i) = Expected(all, i) /\ (i \in Broken(rows) <=> i \in Broken(all))
<1>1. DOMAIN rows \subseteq Nat /\ DOMAIN all \subseteq Nat /\ i \in DOMAIN all /\ rows[i] = all[i]
  BY DEF Tables, Prefix
<1>2. Expected(rows, i) = Expected(all, i)
  <2>1. CASE First(rows, i)
    <3>1. First(all, i)
      BY <1>1, <2>1 DEF First, Prefix
    <3> QED
      BY <2>1, <3>1 DEF Expected
  <2>2. CASE ~First(rows, i)
    <3>1. PICK j \in DOMAIN rows : Precedes(rows, j, i)
      BY <2>2, NeighboursExist
    <3>2. Precedes(all, j, i)
      BY <1>1, <3>1 DEF Precedes, Prefix
    <3>3. Expected(rows, i) = rows[j].hash /\ Expected(all, i) = all[j].hash
      BY <1>1, <3>1, <3>2, PrecederIsExpected
    <3> QED
      BY <3>3 DEF Prefix
  <2> QED
    BY <2>1, <2>2
<1> QED
  BY <1>1, <1>2 DEF Broken, BadPrev, BadHash

(* First rows of first rows are first rows. *)
LEMMA PrefixIsTransitive ==
  ASSUME NEW a, NEW b, NEW c, Prefix(a, b), Prefix(b, c)
  PROVE  Prefix(a, c)
BY DEF Prefix

-----------------------------------------------------------------------------
(* The tables.                                                             *)

(* A digest is not that of the empty chain, nor the one it was made of, and *)
(* says what the row says.                                                 *)
LEMMA HashSays ==
  ASSUME NEW p \in Hashes, NEW q \in Hashes, NEW c \in Contents, NEW d \in Contents
  PROVE  /\ Hash(p, c) # Genesis /\ Hash(p, c) # p
         /\ Hash(p, c) = Hash(q, d) => c = d
<1>1. Len(Hash(p, c)) = Len(p) + 1 /\ Len(p) \in Nat /\ Len(q) \in Nat
  BY DEF Hash, Hashes
<1>2. Hash(p, c)[Len(p) + 1] = c /\ Hash(q, d)[Len(q) + 1] = d /\ Len(Hash(q, d)) = Len(q) + 1
  BY DEF Hash, Hashes
<1>3. Len(Genesis) = 0
  BY DEF Genesis
<1>4. Hash(p, c) # Genesis /\ Hash(p, c) # p
  BY <1>1, <1>3
<1>5. Hash(p, c) = Hash(q, d) => c = d
  BY <1>1, <1>2
<1> QED
  BY <1>4, <1>5

(* What is compared with is a digest. *)
LEMMA ExpectedIsHash ==
  ASSUME NEW rows \in Tables, NEW i \in DOMAIN rows
  PROVE  Expected(rows, i) \in Hashes /\ rows[i] \in Row
<1>1. DOMAIN rows \subseteq Nat /\ \A j \in DOMAIN rows : rows[j] \in Row
  BY DEF Tables
<1>2. Genesis \in Hashes
  BY DEF Genesis, Hashes
<1>3. CASE First(rows, i)
  BY <1>1, <1>2, <1>3 DEF Expected
<1>4. CASE ~First(rows, i)
  <2>1. PICK j \in DOMAIN rows : Precedes(rows, j, i)
    BY <1>4, NeighboursExist
  <2>2. Expected(rows, i) = rows[j].hash
    BY <1>1, <2>1, PrecederIsExpected
  <2> QED
    BY <1>1, <2>2 DEF Row
<1> QED
  BY <1>3, <1>4

(* No row of a chain that is linked is broken, and every other row has one *)
(* digest of its own.                                                      *)
LEMMA LinkedIsUnbroken ==
  ASSUME log \in Tables, Linked
  PROVE  Broken(log) = {} /\ \A i \in DOMAIN log : log[i].prev = Expected(log, i)
<1>1. ASSUME NEW i \in DOMAIN log PROVE log[i].prev = Expected(log, i)
  <2>1. CASE First(log, i)
    BY <2>1 DEF Linked, Expected
  <2>2. CASE ~First(log, i)
    <3>1. PICK j \in DOMAIN log : Precedes(log, j, i)
      BY <2>2, NeighboursExist
    <3>2. Expected(log, i) = log[j].hash
      BY <3>1, PrecederIsExpected DEF Tables
    <3> QED
      BY <3>1, <3>2 DEF Linked
  <2> QED
    BY <2>1, <2>2
<1>2. \A i \in DOMAIN log : i \notin Broken(log)
  BY <1>1 DEF Linked, Broken, BadPrev, BadHash
<1> QED
  BY <1>1, <1>2 DEF Broken

(* An append leaves the rows there are the first ones. *)
LEMMA CommitExtends ==
  ASSUME IInv, log \in Tables, NEW w \in Writers, Commit(w)
  PROVE  Prefix(log, log') /\ log' \in Tables
<1>1. /\ DOMAIN log' = DOMAIN log \cup {writer[w].id}
      /\ log'[writer[w].id] = NewRow(w)
      /\ \A i \in DOMAIN log : log'[i] = log[i] /\ i < writer[w].id /\ i \in Int
      /\ writer[w].id \in 1 .. nextId - 1
  BY RowsAfterCommit
<1>2. Prefix(log, log')
  BY <1>1 DEF Prefix
<1>3. TablesOK'
  BY CommitKeeps DEF IInv
<1>4. \A i \in DOMAIN log' : log'[i] \in Row
  BY <1>3 DEF TablesOK
<1>5. log' = [i \in DOMAIN log' |-> log'[i]]
  BY DEF Commit
<1>6. DOMAIN log' \in SUBSET Nat
  <2>1. nextId \in Nat
    BY DEF IInv, TablesOK
  <2> QED
    BY <1>1, <2>1 DEF Tables
<1>7. log' \in [DOMAIN log' -> Row]
  BY <1>4, <1>5
<1> QED
  BY <1>2, <1>6, <1>7 DEF Tables

(* The row of an append is compared with the last row, and carries the     *)
(* digest of the head.                                                     *)
LEMMA NewRowFollows ==
  ASSUME IInv, TablesAreSound, NEW w \in Writers, Commit(w)
  PROVE  /\ log'[writer[w].id].prev = head.hash
         /\ HeadIsOff => writer[w].id \in Broken(log)'
         /\ DOMAIN log = {} /\ HeadIsOff => First(log', writer[w].id)
<1> PICK new \in Nat : new = writer[w].id
  BY DEF Commit, IInv, WritersOK
<1>1. /\ DOMAIN log' = DOMAIN log \cup {new} /\ new \notin DOMAIN log
      /\ log'[new] = NewRow(w)
      /\ \A i \in DOMAIN log : log'[i] = log[i] /\ i < new
      /\ writer[w].head = head
  BY RowsAfterCommit
<1>2. log' \in Tables /\ log \in Tables /\ DOMAIN log \subseteq Nat
  BY CommitExtends DEF TablesAreSound, Tables
<1>3. log'[new].prev = head.hash
  BY <1>1 DEF NewRow
<1>4. ASSUME HeadIsOff PROVE Expected(log', new) # head.hash
  <2>1. CASE DOMAIN log = {}
    <3>1. First(log', new)
      BY <1>1, <2>1 DEF First
    <3> QED
      BY <1>4, <2>1, <3>1 DEF Expected, HeadIsOff
  <2>2. CASE DOMAIN log # {}
    <3>1. ~First(log', new) /\ new \in DOMAIN log'
      BY <1>1, <2>2 DEF First
    <3>2. PICK j \in DOMAIN log' : Precedes(log', j, new)
      BY <1>2, <3>1, NeighboursExist
    <3>3. Expected(log', new) = log'[j].hash
      BY <1>2, <3>2, PrecederIsExpected DEF Tables
    <3>4. j \in DOMAIN log /\ Last(log, j)
      BY <1>1, <1>2, <3>2 DEF Precedes, Last
    <3> QED
      BY <1>1, <1>4, <3>3, <3>4 DEF HeadIsOff
  <2> QED
    BY <2>1, <2>2
<1>5. HeadIsOff => new \in Broken(log')
  BY <1>1, <1>3, <1>4 DEF Broken, BadPrev
<1>6. DOMAIN log = {} => First(log', new)
  BY <1>1 DEF First
<1> QED
  BY <1>3, <1>5, <1>6

(* An append keeps what is wrong with changed tables. *)
LEMMA CommitKeepsTables ==
  ASSUME IInv, TablesAreSound, NEW w \in Writers, Commit(w)
  PROVE  TablesAreSound'
<1> PICK new \in Nat : new = writer[w].id
  BY DEF Commit, IInv, WritersOK
<1>1. /\ DOMAIN log' = DOMAIN log \cup {new}
      /\ log'[new] = NewRow(w)
      /\ \A i \in DOMAIN log : log'[i] = log[i] /\ i < new
  BY RowsAfterCommit
<1>2. Prefix(log, log') /\ log' \in Tables /\ log \in Tables
  BY CommitExtends DEF TablesAreSound
<1>3. \A i \in DOMAIN log' : log'[i].hash # Genesis
  <2>1. writer[w].head.hash \in Hashes /\ writer[w].content \in Contents
    BY DEF IInv, WritersOK, Commit, ChainHead
  <2>2. NewRow(w).hash # Genesis
    BY <2>1, HashSays DEF NewRow
  <2> QED
    BY <1>1, <2>2 DEF TablesAreSound
<1>4. \A i \in DOMAIN log' : i <= head'.id
  <2>1. head'.id = new
    BY DEF Commit, NewHead
  <2>2. DOMAIN log \subseteq Nat
    BY <1>2 DEF Tables
  <2> QED
    BY <1>1, <2>1, <2>2
<1>5. changed => Broken(log)' # {}
  <2>1. SUFFICES ASSUME changed PROVE Broken(log)' # {}
    OBVIOUS
  <2>2. CASE Broken(log) # {}
    <3>1. PICK i \in DOMAIN log : i \in Broken(log)
      BY <2>2 DEF Broken
    <3>2. i \in Broken(log')
      BY <1>2, <3>1, PrefixExpects
    <3> QED
      BY <3>2
  <2>3. CASE HeadIsOff
    BY <2>3, NewRowFollows
  <2> QED
    BY <2>1, <2>2, <2>3 DEF TablesAreSound, Wounded
<1>6. Wounded'
  BY <1>5 DEF Commit, Wounded
<1> QED
  BY <1>2, <1>3, <1>4, <1>6 DEF TablesAreSound

(* A row of an untouched chain carries one digest, and is based on another. *)
LEMMA RowsDiffer ==
  ASSUME log \in Tables, Linked, NEW i \in DOMAIN log
  PROVE  /\ log[i].hash = Hash(log[i].prev, log[i].content)
         /\ log[i].prev \in Hashes /\ log[i].content \in Contents /\ log[i].prev # log[i].hash
<1>1. log[i] \in Row
  BY DEF Tables
<1>2. log[i].hash = Hash(log[i].prev, log[i].content)
  BY DEF Linked
<1> QED
  BY <1>1, <1>2, HashSays DEF Row

(* A row rewritten does not fit in any more. *)
LEMMA RewritingWounds ==
  ASSUME log \in Tables, Linked, NEW i \in DOMAIN log, NEW c \in Contents, c # log[i].content,
         log' = [log EXCEPT ![i].content = c]
  PROVE  i \in Broken(log)' /\ log' \in Tables
<1>1. log[i].hash = Hash(log[i].prev, log[i].content) /\ log[i].prev \in Hashes
      /\ log[i].content \in Contents /\ log[i] \in Row
  BY RowsDiffer DEF Tables
<1>2. log' \in Tables
  <2>1. PICK ids \in SUBSET Nat : log \in [ids -> Row]
    BY DEF Tables
  <2>2. [log[i] EXCEPT !.content = c] \in Row
    BY <1>1 DEF Row
  <2>3. log' \in [ids -> Row]
    BY <2>1, <2>2
  <2> QED
    BY <2>3 DEF Tables
<1>3. i \in DOMAIN log' /\ log'[i].content = c /\ log'[i].hash = log[i].hash
  BY <1>1 DEF Row
<1>4. Expected(log', i) \in Hashes
  BY <1>2, <1>3, ExpectedIsHash
<1>5. log'[i].hash # Hash(Expected(log', i), c)
  BY <1>1, <1>3, <1>4, HashSays
<1> QED
  BY <1>2, <1>3, <1>5 DEF Broken, BadHash

(* A row taken out leaves the next one without what it carries the digest   *)
(* of, or the head.                                                         *)
LEMMA DeletingWounds ==
  ASSUME log \in Tables, Linked, HeadIsLast, NEW i \in DOMAIN log, UNCHANGED head,
         log' = [j \in DOMAIN log \ {i} |-> log[j]]
  PROVE  (Broken(log)' # {} \/ HeadIsOff') /\ log' \in Tables
<1>1. DOMAIN log \subseteq Nat /\ \A j \in DOMAIN log : log[j] \in Row
  BY DEF Tables
<1>2. DOMAIN log' = DOMAIN log \ {i} /\ \A j \in DOMAIN log' : log'[j] = log[j]
  OBVIOUS
<1>3. log' \in Tables
  <2>1. log' \in [DOMAIN log \ {i} -> Row] /\ DOMAIN log \ {i} \in SUBSET Nat
    BY <1>1
  <2> QED
    BY <2>1 DEF Tables
<1>4. log[i].prev # log[i].hash /\ log[i].prev = Expected(log, i) /\ log[i].hash # Genesis
  BY RowsDiffer, LinkedIsUnbroken, HashSays
<1>5. head # NoHead /\ Last(log, head.id) /\ head.hash = log[head.id].hash
  BY DEF HeadIsLast
<1>6. CASE Last(log, i)
  <2>1. head.hash = log[i].hash
    BY <1>1, <1>5, <1>6 DEF Last
  <2>2. ASSUME NEW j \in DOMAIN log', Last(log', j) PROVE log'[j].hash = log[i].prev
    <3>1. Precedes(log, j, i)
      BY <1>1, <1>2, <1>6, <2>2 DEF Precedes, Last
    <3>2. Expected(log, i) = log[j].hash
      BY <1>1, <3>1, PrecederIsExpected
    <3> QED
      BY <1>2, <1>4, <2>2, <3>2
  <2> QED
    BY <1>2, <1>3, <1>4, <2>1, <2>2 DEF HeadIsOff
<1>7. CASE ~Last(log, i)
  <2>1. PICK k \in DOMAIN log : Precedes(log, i, k)
    BY <1>7, NeighboursExist
  <2>2. log[k].prev = log[i].hash /\ k # i /\ k \in DOMAIN log'
    BY <1>1, <1>2, <2>1 DEF Linked, Precedes
  <2>3. Expected(log', k) # log[i].hash
    <3>1. CASE First(log', k)
      BY <1>4, <3>1 DEF Expected
    <3>2. CASE ~First(log', k)
      <4>1. PICK j \in DOMAIN log' : Precedes(log', j, k)
        BY <1>3, <2>2, <3>2, NeighboursExist
      <4>2. Precedes(log, j, i)
        BY <1>1, <1>2, <2>1, <4>1 DEF Precedes
      <4>3. Expected(log', k) = log[j].hash /\ Expected(log, i) = log[j].hash
        BY <1>1, <1>2, <1>3, <2>2, <4>1, <4>2, PrecederIsExpected
      <4> QED
        BY <1>4, <4>3
    <3> QED
      BY <3>1, <3>2
  <2>4. k \in Broken(log')
    BY <1>2, <2>2, <2>3 DEF Broken, BadPrev
  <2> QED
    BY <1>3, <2>4
<1> QED
  BY <1>6, <1>7

(* A head dropped: the next append would begin anew. *)
LEMMA DroppingWounds ==
  ASSUME log \in Tables, Linked, HeadIsLast, head # NoHead, head' = NoHead, UNCHANGED log
  PROVE  HeadIsOff'
<1>1. \A i \in DOMAIN log : log[i].hash # Genesis
  BY RowsDiffer, HashSays
<1>2. DOMAIN log # {}
  BY DEF HeadIsLast, Last
<1> QED
  BY <1>1, <1>2 DEF HeadIsOff, NoHead

(* A change of the tables leaves something wrong. *)
LEMMA RepairKeepsTables ==
  ASSUME IInv, TablesAreSound, Repair
  PROVE  TablesAreSound'
<1>1. Linked /\ HeadIsLast /\ changed' /\ log \in Tables
  BY DEF IInv, Integrity, Repair, TablesAreSound
<1>2. \A i \in DOMAIN log : log[i].hash # Genesis
  BY DEF TablesAreSound
<1>3. head # NoHead => \A i \in DOMAIN log : i <= head.id
  BY DEF TablesAreSound
<1>4. CASE \E i \in DOMAIN log, c \in Contents :
              c # log[i].content /\ log' = [log EXCEPT ![i].content = c] /\ UNCHANGED head
  <2>1. PICK i \in DOMAIN log, c \in Contents :
               c # log[i].content /\ log' = [log EXCEPT ![i].content = c] /\ UNCHANGED head
    BY <1>4
  <2>2. i \in Broken(log)' /\ log' \in Tables
    BY <1>1, <2>1, RewritingWounds
  <2>3. DOMAIN log' = DOMAIN log /\ \A j \in DOMAIN log : log'[j].hash = log[j].hash
    <3>1. log[i] \in Row
      BY <1>1 DEF Tables
    <3> QED
      BY <2>1, <3>1 DEF Row
  <2>4. Wounded'
    BY <2>2 DEF Wounded
  <2> QED
    BY <1>2, <1>3, <2>1, <2>2, <2>3, <2>4 DEF TablesAreSound
<1>5. CASE \E i \in DOMAIN log : log' = [j \in DOMAIN log \ {i} |-> log[j]] /\ UNCHANGED head
  <2>1. PICK i \in DOMAIN log : log' = [j \in DOMAIN log \ {i} |-> log[j]] /\ UNCHANGED head
    BY <1>5
  <2>2. (Broken(log)' # {} \/ HeadIsOff') /\ log' \in Tables
    BY <1>1, <2>1, DeletingWounds
  <2>3. DOMAIN log' \subseteq DOMAIN log /\ \A j \in DOMAIN log' : log'[j] = log[j]
    BY <2>1
  <2>4. Wounded'
    BY <2>2 DEF Wounded
  <2> QED
    BY <1>2, <1>3, <2>1, <2>2, <2>3, <2>4 DEF TablesAreSound
<1>6. CASE head # NoHead /\ rowLock = Nobody /\ head' = NoHead /\ UNCHANGED log
  <2>1. HeadIsOff'
    BY <1>1, <1>6, DroppingWounds
  <2>2. Wounded'
    BY <2>1 DEF Wounded
  <2> QED
    BY <1>1, <1>2, <1>6, <2>2 DEF TablesAreSound
<1> QED
  BY <1>4, <1>5, <1>6 DEF Repair

(* Steps that leave the tables alone keep them sound. *)
LEMMA TablesStay ==
  ASSUME TablesAreSound, UNCHANGED <<log, head, changed>>
  PROVE  TablesAreSound'
<1>1. HeadIsOff' = HeadIsOff
  BY DEF HeadIsOff
<1>2. Broken(log)' = Broken(log)
  OBVIOUS
<1> QED
  BY <1>1, <1>2 DEF TablesAreSound, Wounded

-----------------------------------------------------------------------------
(* The verifications.                                                      *)

(* Rows that fit, under a head that fits, are not those of changed tables. *)
LEMMA ChangedIsNotOk ==
  ASSUME TablesAreSound, changed, NEW rows \in Tables, Prefix(rows, log), Broken(rows) = {},
         head # NoHead, HeadFits(rows, head)
  PROVE  FALSE
<1>1. log \in Tables /\ DOMAIN log \subseteq Nat /\ DOMAIN rows \subseteq DOMAIN log
  BY DEF TablesAreSound, Tables, Prefix
<1>2. PICK i \in DOMAIN rows : Last(rows, i) /\ head.id = i /\ head.hash = rows[i].hash
  BY DEF HeadFits
<1>3. \A j \in DOMAIN log : j <= i
  BY <1>2 DEF TablesAreSound
<1>4. \A j \in DOMAIN log : j \in DOMAIN rows
  BY <1>3 DEF Prefix
<1>5. Broken(log) = {}
  <2>1. \A j \in DOMAIN log : j \notin Broken(log)
    BY <1>1, <1>4, PrefixExpects
  <2> QED
    BY <2>1 DEF Broken
<1>6. Last(log, i) /\ i \in DOMAIN log /\ log[i].hash = head.hash
  BY <1>1, <1>2, <1>3 DEF Last, Prefix
<1>7. ~HeadIsOff
  BY <1>6 DEF HeadIsOff
<1> QED
  BY <1>5, <1>7 DEF TablesAreSound, Wounded

(* The rows that a limit lets through are the first ones. *)
LEMMA WithinIsPrefix ==
  ASSUME IInv, log \in Tables, NEW limit \in Nat, NEW rows, rows = [i \in Within(limit) |-> log[i]]
  PROVE  /\ rows \in Tables /\ Prefix(rows, log) /\ IsFiniteSet(DOMAIN rows)
         /\ limit = 0 => DOMAIN rows = DOMAIN log
<1>1. DOMAIN log \subseteq Nat /\ IsFiniteSet(DOMAIN log) /\ \A i \in DOMAIN log : log[i] \in Row
  BY DEF Tables, IInv
<1>2. Within(limit) \subseteq DOMAIN log /\ DOMAIN rows = Within(limit)
  BY DEF Within
<1>3. IsFiniteSet(DOMAIN rows)
  BY <1>1, <1>2, FS_Subset
<1>4. rows \in Tables
  <2>1. rows \in [Within(limit) -> Row] /\ Within(limit) \in SUBSET Nat
    BY <1>1, <1>2
  <2> QED
    BY <2>1 DEF Tables
<1>5. ASSUME NEW i \in Within(limit), NEW j \in DOMAIN log, j <= i PROVE j \in Within(limit)
  <2>1. CASE limit = 0
    BY <2>1 DEF Within
  <2>2. CASE limit # 0
    <3> PICK S : S = {k \in DOMAIN log : k <= i}
      OBVIOUS
    <3> PICK T : T = {k \in DOMAIN log : k <= j}
      OBVIOUS
    <3>1. i \in DOMAIN log /\ Cardinality(S) <= limit
      BY <2>2 DEF Within
    <3>2. T \subseteq S /\ S \subseteq DOMAIN log
      BY <1>1, <1>5, <3>1
    <3>3. IsFiniteSet(S) /\ IsFiniteSet(T)
      BY <1>1, <3>2, FS_Subset
    <3>4. Cardinality(T) <= Cardinality(S) /\ Cardinality(T) \in Nat /\ Cardinality(S) \in Nat
      BY <3>2, <3>3, FS_Subset, FS_CardinalityType
    <3>5. Cardinality(T) <= limit
      BY <3>1, <3>4
    <3> QED
      BY <3>5 DEF Within
  <2> QED
    BY <2>1, <2>2
<1>6. Prefix(rows, log)
  BY <1>2, <1>5 DEF Prefix
<1>7. limit = 0 => Within(limit) = DOMAIN log
  BY DEF Within
<1> QED
  BY <1>2, <1>3, <1>4, <1>6, <1>7

(* What the judgement says of what was read. *)
LEMMA JudgementSays ==
  ASSUME NEW v, NEW said, said = Judgement(v), NEW rows, rows = verifier[v].rows,
         NEW fits \in BOOLEAN,
         fits <=> (verifier[v].counted > 0 => head # NoHead /\ HeadFits(rows, head))
  PROVE  /\ said.ok \in BOOLEAN /\ said.reason \in ChainReasons /\ said.code \in Codes
         /\ said.reason \in {"prev_mismatch", "hash_mismatch"} => Broken(rows) # {}
         /\ said.ok => Broken(rows) = {} /\ ~Truncated(v) /\ fits
         /\ Broken(rows) = {} /\ Truncated(v) => said.reason = "none" /\ said.code = "scan_truncated"
         /\ Broken(rows) = {} /\ ~Truncated(v) /\ fits => said.reason = "none" /\ said.code = "none"
<1>1. /\ ScanReason(rows) = "none" <=> Broken(rows) = {}
      /\ ScanReason(rows) \in {"none", "prev_mismatch", "hash_mismatch"}
  BY DEF ScanReason
<1> DEFINE says(ok, why, code) == [ok |-> ok, reason |-> why, code |-> code]
<1>2. CASE Broken(rows) # {}
  <2>1. said = says(FALSE, ScanReason(rows), "none")
    BY <1>1, <1>2 DEF Judgement
  <2> QED
    BY <1>1, <1>2, <2>1 DEF ChainReasons, Codes
<1>3. CASE Broken(rows) = {} /\ Truncated(v)
  <2>1. said = says(FALSE, "none", "scan_truncated")
    BY <1>1, <1>3 DEF Judgement
  <2> QED
    BY <1>3, <2>1 DEF ChainReasons, Codes
<1>4. CASE Broken(rows) = {} /\ ~Truncated(v) /\ fits
  <2>1. said = says(TRUE, "none", "none")
    BY <1>1, <1>4 DEF Judgement
  <2> QED
    BY <1>4, <2>1 DEF ChainReasons, Codes
<1>5. CASE Broken(rows) = {} /\ ~Truncated(v) /\ ~fits
  <2>1. said = says(FALSE, "none", "head_missing") \/ said = says(FALSE, "head_mismatch", "none")
    BY <1>1, <1>5 DEF Judgement
  <2>2. CASE said = says(FALSE, "none", "head_missing")
    BY <1>5, <2>2 DEF ChainReasons, Codes
  <2>3. CASE said = says(FALSE, "head_mismatch", "none")
    BY <1>5, <2>3 DEF ChainReasons, Codes
  <2> QED
    BY <2>1, <2>2, <2>3
<1> QED
  BY <1>2, <1>3, <1>4, <1>5

(* How far the scan came. *)
LEMMA ScannedIsCount ==
  ASSUME NEW rows, IsFiniteSet(DOMAIN rows)
  PROVE  Scanned(rows) \in Nat /\ (Broken(rows) = {} => Scanned(rows) = Cardinality(DOMAIN rows))
<1>1. {i \in DOMAIN rows : i <= Least(Broken(rows))} \subseteq DOMAIN rows
  OBVIOUS
<1>2. IsFiniteSet({i \in DOMAIN rows : i <= Least(Broken(rows))})
  BY <1>1, FS_Subset
<1> QED
  BY <1>2, FS_CardinalityType DEF Scanned

(* One verification goes on, and the tables stay. *)
LEMMA OneVerifierReads ==
  ASSUME VerifyIInv, UNCHANGED <<log, head, changed>>, NEW v \in Verifiers, NEW it \in Verification,
         verifier' = [verifier EXCEPT ![v] = it], Knows(it)
  PROVE  VerifyIInv'
<1>1. TablesAreSound'
  BY TablesStay DEF VerifyIInv
<1>2. verifier' \in [Verifiers -> Verification]
  BY DEF VerifyIInv
<1>3. \A u \in Verifiers : Knows(verifier'[u])
  BY DEF VerifyIInv
<1>4. \A u \in Verifiers : Knows(verifier[u])'
  BY <1>3 DEF Knows, KnowsRows, KnowsCount, KnowsAll, SaidRight
<1> QED
  BY <1>1, <1>2, <1>4 DEF VerifyIInv

(* The report with which a verification begins, and its rows. *)
LEMMA NothingIsSaid ==
  /\ NoVerifier \in Verification /\ NoRows \in Tables /\ IsFiniteSet(DOMAIN NoRows) /\ DOMAIN NoRows = {}
  /\ NoReport \in Report
<1>1. DOMAIN NoRows = {} /\ NoRows \in [{} -> Row]
  BY DEF NoRows
<1>2. NoRows \in Tables
  BY <1>1 DEF Tables
<1>3. NoReport \in Report
  BY DEF NoReport, Report, ChainReasons, Codes
<1>4. NoVerifier \in Verification
  BY <1>2, <1>3 DEF NoVerifier, Verification, VerifierLabels
<1> QED
  BY <1>1, <1>2, <1>3, <1>4, FS_EmptySet

(* The first SELECT counts the rows. *)
LEMMA CountKeeps == ASSUME IInv, VerifyIInv, NEW v \in Verifiers, ReadCount(v) PROVE VerifyIInv'
<1>1. PICK limit \in Limits :
        verifier' = [verifier EXCEPT ![v] =
          [NoVerifier EXCEPT !.pc = "start", !.limit = limit,
                             !.counted = Cardinality(DOMAIN log), !.after = changed]]
  BY DEF ReadCount
<1>2. PICK it : it = [NoVerifier EXCEPT !.pc = "start", !.limit = limit,
                             !.counted = Cardinality(DOMAIN log), !.after = changed]
  OBVIOUS
<1>3. Cardinality(DOMAIN log) \in Nat /\ changed \in BOOLEAN /\ limit \in Nat
  BY FS_CardinalityType, LimitAssumption DEF IInv, TablesOK
<1>4. it \in Verification
  BY <1>2, <1>3, NothingIsSaid DEF Verification, VerifierLabels
<1>5. /\ it.pc = "start" /\ it.counted = Cardinality(DOMAIN log) /\ it.after = changed
      /\ it.report = NoReport /\ it.rows = NoRows
  BY <1>2 DEF NoVerifier
<1>6. it.counted = 0 => DOMAIN log = {}
  BY <1>5, FS_EmptySet DEF IInv
<1>7. Knows(it)
  <2>1. KnowsRows(it)
    BY <1>5, <1>6 DEF KnowsRows
  <2>2. KnowsCount(it)
    BY <1>3, <1>5, NothingIsSaid DEF KnowsCount
  <2>3. KnowsAll(it)
    BY <1>5 DEF KnowsAll
  <2>4. SaidRight(it)
    BY <1>5 DEF SaidRight, NoReport
  <2> QED
    BY <2>1, <2>2, <2>3, <2>4 DEF Knows
<1>8. UNCHANGED <<log, head, changed>> /\ verifier' = [verifier EXCEPT ![v] = it]
  BY <1>1, <1>2 DEF ReadCount, tables
<1> QED
  BY <1>4, <1>7, <1>8, OneVerifierReads

(* The second reads the first id. *)
LEMMA StartKeeps == ASSUME IInv, VerifyIInv, NEW v \in Verifiers, ReadStart(v) PROVE VerifyIInv'
<1>1. PICK old : old = verifier[v]
  OBVIOUS
<1>2. old \in Verification /\ Knows(old) /\ old.pc = "start"
  BY <1>1 DEF VerifyIInv, ReadStart
<1>3. log \in Tables /\ DOMAIN log \subseteq Nat \ {0}
  BY DEF VerifyIInv, TablesAreSound, IInv, TablesOK
<1>4. PICK start : start = IF log = NoRows THEN 0 ELSE Least(DOMAIN log)
  OBVIOUS
<1>5. log = NoRows <=> DOMAIN log = {}
  <2>1. ASSUME DOMAIN log = {} PROVE log = NoRows
    <3>1. PICK ids \in SUBSET Nat : log \in [ids -> Row]
      BY <1>3 DEF Tables
    <3> QED
      BY <2>1, <3>1 DEF NoRows
  <2> QED
    BY <2>1, NothingIsSaid
<1>6. DOMAIN log # {} => Least(DOMAIN log) \in DOMAIN log
  BY <1>3, LeastNumber DEF Least
<1>7. start \in Nat /\ (start = 0 <=> DOMAIN log = {})
  BY <1>3, <1>4, <1>5, <1>6
<1>8. PICK it : it = [old EXCEPT !.pc = "rows", !.start = start]
  OBVIOUS
<1>9. it \in Verification
  BY <1>2, <1>7, <1>8 DEF Verification, VerifierLabels
<1>10. /\ it.pc = "rows" /\ it.start = start /\ it.counted = old.counted /\ it.after = old.after
       /\ it.report = old.report /\ it.rows = old.rows /\ it.disturbed = old.disturbed
  BY <1>2, <1>8 DEF Verification
<1>11. Knows(it)
  <2>1. KnowsRows(it)
    BY <1>2, <1>10 DEF Knows, KnowsRows
  <2>2. KnowsCount(it)
    BY <1>2, <1>10 DEF Knows, KnowsCount
  <2>3. KnowsAll(it)
    BY <1>2, <1>7, <1>10 DEF Knows, KnowsAll
  <2>4. SaidRight(it)
    BY <1>2, <1>10 DEF Knows, SaidRight
  <2> QED
    BY <2>1, <2>2, <2>3, <2>4 DEF Knows
<1>12. UNCHANGED <<log, head, changed>> /\ verifier' = [verifier EXCEPT ![v] = it]
  BY <1>1, <1>4, <1>8 DEF ReadStart, tables, VerifyIInv
<1> QED
  BY <1>9, <1>11, <1>12, OneVerifierReads

(* The third reads the rows. *)
LEMMA RowsKeep == ASSUME IInv, VerifyIInv, NEW v \in Verifiers, ReadRows(v) PROVE VerifyIInv'
<1>1. PICK old : old = verifier[v]
  OBVIOUS
<1>2. old \in Verification /\ Knows(old) /\ old.pc = "rows"
  BY <1>1 DEF VerifyIInv, ReadRows
<1>3. old.limit \in Nat /\ log \in Tables
  BY <1>2 DEF Verification, VerifyIInv, TablesAreSound
<1>4. PICK rows : rows = [i \in Within(old.limit) |-> log[i]]
  OBVIOUS
<1>5. /\ rows \in Tables /\ Prefix(rows, log) /\ IsFiniteSet(DOMAIN rows)
      /\ old.limit = 0 => DOMAIN rows = DOMAIN log
  BY <1>3, <1>4, WithinIsPrefix
<1>6. PICK it : it = [old EXCEPT !.pc = "head", !.rows = rows]
  OBVIOUS
<1>7. it \in Verification
  BY <1>2, <1>5, <1>6 DEF Verification, VerifierLabels
<1>8. /\ it.pc = "head" /\ it.rows = rows /\ it.counted = old.counted /\ it.after = old.after
      /\ it.report = old.report /\ it.disturbed = old.disturbed /\ it.start = old.start /\ it.limit = old.limit
  BY <1>2, <1>6 DEF Verification
<1>9. Knows(it)
  <2>1. KnowsRows(it)
    BY <1>2, <1>5, <1>8 DEF Knows, KnowsRows
  <2>2. KnowsCount(it)
    BY <1>2, <1>5, <1>8 DEF Knows, KnowsCount
  <2>3. KnowsAll(it)
    BY <1>2, <1>5, <1>8 DEF Knows, KnowsAll
  <2>4. SaidRight(it)
    BY <1>2, <1>8 DEF Knows, SaidRight
  <2> QED
    BY <2>1, <2>2, <2>3, <2>4 DEF Knows
<1>10. UNCHANGED <<log, head, changed>> /\ verifier' = [verifier EXCEPT ![v] = it]
  BY <1>1, <1>4, <1>6 DEF ReadRows, tables, VerifyIInv
<1> QED
  BY <1>7, <1>9, <1>10, OneVerifierReads

(* What is left to say when all is read: rows that no change touched fit. *)
LEMMA UntouchedRowsFit ==
  ASSUME IInv, VerifyIInv, ~changed, NEW rows \in Tables, Prefix(rows, log)
  PROVE  Broken(rows) = {}
<1>1. log \in Tables /\ Broken(log) = {}
  BY LinkedIsUnbroken DEF IInv, Integrity, VerifyIInv, TablesAreSound
<1>2. \A i \in DOMAIN rows : i \notin Broken(rows)
  BY <1>1, PrefixExpects
<1> QED
  BY <1>2 DEF Broken

(* The last reads the head, and judges. *)
LEMMA HeadKeeps == ASSUME IInv, VerifyIInv, NEW v \in Verifiers, ReadHead(v) PROVE VerifyIInv'
<1>1. PICK old : old = verifier[v]
  OBVIOUS
<1>2. old \in Verification /\ Knows(old) /\ old.pc = "head"
  BY <1>1 DEF VerifyIInv, ReadHead
<1>3. PICK rows \in Tables : rows = old.rows
  BY <1>2 DEF Verification
<1>4. PICK fits \in BOOLEAN : fits <=> (old.counted > 0 => head # NoHead /\ HeadFits(rows, head))
  OBVIOUS
<1>5. PICK said : said = Judgement(v)
  OBVIOUS
<1>6. /\ said.ok \in BOOLEAN /\ said.reason \in ChainReasons /\ said.code \in Codes
      /\ said.reason \in {"prev_mismatch", "hash_mismatch"} => Broken(rows) # {}
      /\ said.ok => Broken(rows) = {} /\ ~Truncated(v) /\ fits
      /\ Broken(rows) = {} /\ Truncated(v) => said.reason = "none" /\ said.code = "scan_truncated"
      /\ Broken(rows) = {} /\ ~Truncated(v) /\ fits => said.reason = "none" /\ said.code = "none"
  BY <1>1, <1>3, <1>4, <1>5, JudgementSays
<1>7. Truncated(v) <=> old.limit # 0 /\ old.counted > Cardinality(DOMAIN rows)
  BY <1>1, <1>3 DEF Truncated
<1>8. IsFiniteSet(DOMAIN rows) /\ Cardinality(DOMAIN rows) \in Nat
  BY <1>2, <1>3, FS_CardinalityType DEF Knows, KnowsCount
<1>9. Scanned(rows) \in Nat /\ (Broken(rows) = {} => Scanned(rows) = Cardinality(DOMAIN rows))
  BY <1>8, ScannedIsCount
<1>10. PICK report : report = [ok |-> said.ok, reason |-> said.reason, code |-> said.code,
                             entries |-> Scanned(rows), start |-> old.start, counted |-> old.counted]
  OBVIOUS
<1>11. report \in Report
  BY <1>2, <1>6, <1>9, <1>10 DEF Report, Verification
<1>12. PICK it : it = [old EXCEPT !.pc = "idle", !.rows = NoRows, !.report = report]
  OBVIOUS
<1>13. it \in Verification
  BY <1>2, <1>11, <1>12, NothingIsSaid DEF Verification, VerifierLabels
<1>14. /\ it.pc = "idle" /\ it.rows = NoRows /\ it.report = report /\ it.after = old.after
       /\ it.disturbed = old.disturbed
  BY <1>2, <1>12 DEF Verification
<1>15. old.counted \in Nat /\ old.limit \in Nat
  BY <1>2 DEF Verification
<1>16. TablesAreSound /\ log \in Tables
  BY DEF VerifyIInv, TablesAreSound
<1>17. ~changed => Prefix(rows, log) /\ Broken(rows) = {}
  BY <1>2, <1>3, UntouchedRowsFit DEF Knows, KnowsRows
<1>18. changed /\ Prefix(rows, log) /\ said.ok => ~(old.counted > 0)
  BY <1>4, <1>6, <1>16, ChangedIsNotOk
<1>19. said.ok => Scanned(rows) >= old.counted
  <2>1. SUFFICES ASSUME said.ok PROVE Scanned(rows) >= old.counted
    OBVIOUS
  <2>2. Scanned(rows) = Cardinality(DOMAIN rows) /\ ~Truncated(v)
    BY <1>6, <1>9, <2>1
  <2>3. CASE old.limit # 0
    BY <1>7, <1>8, <1>15, <2>2, <2>3
  <2>4. CASE old.limit = 0
    <3>1. old.counted <= Cardinality(DOMAIN rows) \/ (changed /\ Prefix(rows, log))
      BY <1>2, <1>3, <2>4 DEF Knows, KnowsCount
    <3>2. CASE changed /\ Prefix(rows, log)
      BY <1>8, <1>15, <1>18, <2>1, <2>2, <3>2
    <3> QED
      BY <1>8, <1>15, <2>2, <3>1, <3>2
  <2> QED
    BY <2>3, <2>4
<1>20. old.after /\ said.ok => Scanned(rows) = 0
  <2>1. SUFFICES ASSUME old.after, said.ok PROVE Scanned(rows) = 0
    OBVIOUS
  <2>2. changed /\ Prefix(rows, log) /\ Broken(rows) = {}
    BY <1>2, <1>3, <1>6, <2>1 DEF Knows, KnowsRows
  <2>3. old.counted = 0
    BY <1>15, <1>18, <2>1, <2>2
  <2>4. \A i \in DOMAIN log : First(log, i) => i \in Broken(log)
    BY <1>2, <2>1, <2>3 DEF Knows, KnowsRows
  <2>5. DOMAIN rows = {}
    <3>1. SUFFICES ASSUME DOMAIN rows # {} PROVE FALSE
      OBVIOUS
    <3>2. DOMAIN rows \subseteq Nat /\ DOMAIN log \subseteq Nat
      BY <1>16 DEF Tables
    <3>3. PICK i \in DOMAIN rows : \A j \in DOMAIN rows : i <= j
      BY <3>1, <3>2, LeastNumber
    <3>4. i \in DOMAIN log /\ First(log, i)
      BY <2>2, <3>2, <3>3 DEF First, Prefix
    <3>5. i \in Broken(rows)
      BY <1>16, <2>2, <2>4, <3>3, <3>4, PrefixExpects
    <3> QED
      BY <2>2, <3>5
  <2> QED
    BY <1>9, <2>2, <2>5, FS_EmptySet
<1>21. ASSUME ~old.disturbed, ~changed
       PROVE  /\ said.reason = "none" /\ said.code \in {"none", "scan_truncated"}
              /\ (old.start = 0) <=> (old.counted = 0)
              /\ said.code = "none" => Scanned(rows) = old.counted
  <2>1. /\ old.counted = Cardinality(DOMAIN log)
        /\ old.start = 0 <=> DOMAIN log = {}
        /\ old.limit = 0 => DOMAIN rows = DOMAIN log
    BY <1>2, <1>3, <1>21 DEF Knows, KnowsAll
  <2>2. IsFiniteSet(DOMAIN log) /\ Linked /\ HeadIsLast
    BY <1>21 DEF IInv, Integrity
  <2>3. old.counted = 0 <=> DOMAIN log = {}
    BY <2>1, <2>2, FS_EmptySet
  <2>4. Broken(rows) = {} /\ Prefix(rows, log)
    BY <1>17, <1>21
  <2>5. CASE Truncated(v)
    BY <1>6, <2>1, <2>3, <2>4, <2>5
  <2>6. CASE ~Truncated(v)
    <3>1. DOMAIN rows = DOMAIN log
      <4>1. CASE old.limit # 0
        <5>1. Cardinality(DOMAIN log) <= Cardinality(DOMAIN rows)
          BY <1>7, <1>8, <1>15, <2>1, <2>6, <4>1
        <5>2. DOMAIN rows \subseteq DOMAIN log
          BY <2>4 DEF Prefix
        <5>3. Cardinality(DOMAIN rows) <= Cardinality(DOMAIN log)
              /\ (Cardinality(DOMAIN rows) = Cardinality(DOMAIN log) => DOMAIN rows = DOMAIN log)
          BY <2>2, <5>2, FS_Subset
        <5> QED
          BY <1>8, <1>15, <2>1, <5>1, <5>3
      <4> QED
        BY <2>1, <4>1
    <3>2. fits
      <4>1. ASSUME old.counted > 0 PROVE head # NoHead /\ HeadFits(rows, head)
        <5>1. DOMAIN log # {} /\ head # NoHead
          <6>1. old.counted # 0
            BY <4>1
          <6>2. DOMAIN log # {}
            BY <2>3, <6>1
          <6> QED
            BY <2>2, <6>2 DEF HeadIsLast
        <5>2. Last(log, head.id) /\ head.hash = log[head.id].hash /\ head.entries = Cardinality(DOMAIN log)
          BY <2>2, <5>1 DEF HeadIsLast
        <5>3. Last(rows, head.id) /\ rows[head.id] = log[head.id] /\ head.id \in DOMAIN rows
          BY <2>4, <3>1, <5>2 DEF Last, Prefix
        <5> QED
          BY <3>1, <5>1, <5>2, <5>3 DEF HeadFits
      <4> QED
        BY <1>4, <4>1
    <3>3. said.reason = "none" /\ said.code = "none"
      BY <1>6, <2>4, <2>6, <3>2
    <3>4. Scanned(rows) = old.counted
      BY <1>9, <2>1, <2>4, <3>1
    <3> QED
      BY <2>1, <2>3, <3>3, <3>4
  <2> QED
    BY <2>5, <2>6
<1>22. Knows(it)
  <2>1. KnowsRows(it)
    BY <1>2, <1>14 DEF Knows, KnowsRows
  <2>2. KnowsCount(it)
    BY <1>14, NothingIsSaid DEF KnowsCount
  <2>3. KnowsAll(it)
    BY <1>14 DEF KnowsAll
  <2>4. SaidRight(it)
    <3>1. /\ report.ok = said.ok /\ report.reason = said.reason /\ report.code = said.code
          /\ report.entries = Scanned(rows) /\ report.start = old.start /\ report.counted = old.counted
      BY <1>10
    <3>2. report.reason \in {"prev_mismatch", "hash_mismatch"} => changed
      BY <1>6, <1>17, <3>1
    <3> QED
      BY <1>14, <1>19, <1>20, <1>21, <3>1, <3>2 DEF SaidRight
  <2> QED
    BY <2>1, <2>2, <2>3, <2>4 DEF Knows
<1>23. UNCHANGED <<log, head, changed>> /\ verifier' = [verifier EXCEPT ![v] = it]
  BY <1>1, <1>3, <1>5, <1>10, <1>12 DEF ReadHead, tables, VerifyIInv
<1> QED
  BY <1>13, <1>22, <1>23, OneVerifierReads

(* An append goes on beside verifications. *)
LEMMA VerifiersAtCommit ==
  ASSUME IInv, VerifyIInv, NEW w \in Writers, Commit(w) PROVE VerifyIInv'
<1>1. TablesAreSound' /\ TablesAreSound
  BY CommitKeepsTables DEF VerifyIInv
<1>2. Prefix(log, log') /\ log \in Tables /\ log' \in Tables /\ changed' = changed
  BY CommitExtends DEF VerifyIInv, TablesAreSound, Commit
<1>3. PICK new \in Nat : new = writer[w].id
  BY DEF Commit, IInv, WritersOK
<1>4. /\ DOMAIN log' = DOMAIN log \cup {new} /\ new \notin DOMAIN log
      /\ \A i \in DOMAIN log : i < new
  BY <1>3, RowsAfterCommit
<1>5. Cardinality(DOMAIN log') = Cardinality(DOMAIN log) + 1 /\ Cardinality(DOMAIN log) \in Nat
  BY <1>4, FS_AddElement, FS_CardinalityType DEF IInv
<1>6. verifier' = [v \in Verifiers |-> [verifier[v] EXCEPT !.disturbed = TRUE]]
  BY DEF Commit, Disturbed
<1>7. ASSUME NEW v \in Verifiers
      PROVE  verifier'[v] \in Verification /\ Knows(verifier[v])'
  <2>1. PICK old : old = verifier[v]
    OBVIOUS
  <2>2. PICK it : it = verifier'[v]
    OBVIOUS
  <2>3. old \in Verification /\ Knows(old) /\ it = [old EXCEPT !.disturbed = TRUE]
    BY <1>6, <2>1, <2>2 DEF VerifyIInv
  <2>4. /\ it \in Verification /\ it.disturbed
        /\ it.pc = old.pc /\ it.rows = old.rows /\ it.counted = old.counted /\ it.after = old.after
        /\ it.report = old.report /\ it.start = old.start /\ it.limit = old.limit /\ old.counted \in Nat
    BY <2>3 DEF Verification
  <2>5. Prefix(it.rows, log) => Prefix(it.rows, log')
    BY <1>2, PrefixIsTransitive
  <2>6. ASSUME it.pc # "idle", it.after, it.counted = 0, NEW i \in DOMAIN log', First(log', i)
        PROVE  i \in Broken(log')
    <3>1. changed /\ \A j \in DOMAIN log : First(log, j) => j \in Broken(log)
      BY <2>3, <2>4, <2>6 DEF Knows, KnowsRows
    <3>2. CASE i \in DOMAIN log
      <4>1. First(log, i)
        BY <1>4, <2>6 DEF First
      <4> QED
        BY <1>2, <3>1, <3>2, <4>1, PrefixExpects
    <3>3. CASE i = new
      <4>1. DOMAIN log = {}
        BY <1>4, <2>6, <3>3 DEF First
      <4>2. HeadIsOff
        BY <1>1, <3>1, <4>1 DEF TablesAreSound, Wounded, Broken
      <4> QED
        BY <1>1, <1>3, <3>3, <4>2, NewRowFollows
    <3> QED
      BY <1>4, <3>2, <3>3
  <2>7. Knows(verifier[v])'
    <3>1. KnowsRows(verifier[v])'
      BY <1>2, <2>2, <2>3, <2>4, <2>5, <2>6 DEF Knows, KnowsRows
    <3>2. KnowsCount(verifier[v])'
      <4>1. IsFiniteSet(DOMAIN it.rows)
        BY <2>3, <2>4 DEF Knows, KnowsCount
      <4>2. it.pc \in {"start", "rows"} => it.counted <= Cardinality(DOMAIN log') \/ changed
        BY <1>5, <2>3, <2>4 DEF Knows, KnowsCount
      <4>3. it.pc = "head" /\ it.limit = 0 =>
              \/ it.counted <= Cardinality(DOMAIN it.rows)
              \/ changed /\ Prefix(it.rows, log')
        BY <2>3, <2>4, <2>5 DEF Knows, KnowsCount
      <4> QED
        BY <1>2, <2>2, <4>1, <4>2, <4>3 DEF KnowsCount
    <3>3. KnowsAll(verifier[v])'
      BY <2>2, <2>4 DEF KnowsAll
    <3>4. SaidRight(verifier[v])'
      BY <1>2, <2>2, <2>3, <2>4 DEF Knows, SaidRight
    <3> QED
      BY <3>1, <3>2, <3>3, <3>4 DEF Knows
  <2> QED
    BY <2>2, <2>4, <2>7
<1>8. verifier' \in [Verifiers -> Verification]
  BY <1>6, <1>7
<1> QED
  BY <1>1, <1>7, <1>8 DEF VerifyIInv

(* The tables are changed beside verifications. *)
LEMMA VerifiersAtRepair ==
  ASSUME IInv, VerifyIInv, Repair PROVE VerifyIInv'
<1>1. TablesAreSound' /\ ~changed /\ changed' /\ verifier' = verifier
  BY RepairKeepsTables DEF VerifyIInv, Repair
<1>2. ASSUME NEW v \in Verifiers PROVE Knows(verifier[v])'
  <2>1. Knows(verifier[v]) /\ ~verifier[v].after
    BY <1>1 DEF VerifyIInv, Knows, KnowsRows
  <2>2. KnowsRows(verifier[v])'
    BY <1>1, <2>1 DEF KnowsRows
  <2>3. KnowsCount(verifier[v])'
    BY <1>1, <2>1 DEF Knows, KnowsCount
  <2>4. KnowsAll(verifier[v])'
    BY <1>1 DEF KnowsAll
  <2>5. SaidRight(verifier[v])'
    BY <1>1, <2>1 DEF Knows, SaidRight
  <2> QED
    BY <2>2, <2>3, <2>4, <2>5 DEF Knows
<1> QED
  BY <1>1, <1>2 DEF VerifyIInv

(* Steps that neither read nor commit. *)
LEMMA VerifiersStay ==
  ASSUME VerifyIInv, UNCHANGED <<log, head, changed, verifier>> PROVE VerifyIInv'
<1>1. TablesAreSound'
  BY TablesStay DEF VerifyIInv
<1>2. \A v \in Verifiers : Knows(verifier[v])'
  BY DEF VerifyIInv, Knows, KnowsRows, KnowsCount, KnowsAll, SaidRight
<1> QED
  BY <1>1, <1>2 DEF VerifyIInv

(* Every step keeps what is known of the tables and the verifications. *)
LEMMA VerifyStep == IInv /\ VerifyIInv /\ [ChainNext]_chainVars => VerifyIInv'
<1> SUFFICES ASSUME IInv, VerifyIInv, [ChainNext]_chainVars PROVE VerifyIInv'
  OBVIOUS
<1>1. ASSUME NEW w \in Writers, Begin(w) \/ LockHead(w) \/ Bootstrap(w) \/ Insert(w) \/ Rollback(w)
      PROVE  VerifyIInv'
  <2>1. UNCHANGED <<log, head, changed, verifier>>
    BY <1>1 DEF Begin, LockHead, Bootstrap, Insert, Rollback, tables
  <2> QED
    BY <2>1, VerifiersStay
<1>2. ASSUME NEW v \in Verifiers, ReadCount(v) \/ ReadStart(v) \/ ReadRows(v) \/ ReadHead(v)
      PROVE  VerifyIInv'
  BY <1>2, CountKeeps, StartKeeps, RowsKeep, HeadKeeps
<1>3. CASE UNCHANGED chainVars
  BY <1>3, VerifiersStay DEF chainVars
<1> QED
  BY <1>1, <1>2, <1>3, VerifiersAtCommit, VerifiersAtRepair DEF ChainNext

(* An empty log, and nothing said. *)
LEMMA VerifyInitially == ChainInit => VerifyIInv
<1> SUFFICES ASSUME ChainInit PROVE VerifyIInv
  OBVIOUS
<1>1. log = NoRows /\ head = NoHead /\ ~changed /\ verifier = [v \in Verifiers |-> NoVerifier]
  BY DEF ChainInit
<1>2. TablesAreSound
  BY <1>1, NothingIsSaid DEF TablesAreSound, Wounded
<1>3. ~NoVerifier.after /\ NoVerifier.pc = "idle" /\ NoVerifier.report = NoReport /\ NoVerifier.rows = NoRows
  BY DEF NoVerifier
<1>4. Knows(NoVerifier)
  <2>1. KnowsRows(NoVerifier) /\ KnowsAll(NoVerifier)
    BY <1>3 DEF KnowsRows, KnowsAll
  <2>2. KnowsCount(NoVerifier)
    BY <1>3, NothingIsSaid DEF KnowsCount
  <2>3. SaidRight(NoVerifier)
    BY <1>3 DEF SaidRight, NoReport
  <2> QED
    BY <2>1, <2>2, <2>3 DEF Knows
<1> QED
  BY <1>1, <1>2, <1>4, NothingIsSaid DEF VerifyIInv

(* verify: no untouched row is blamed; alone it is right; a table that was  *)
(* changed before is never called whole, however many appends came since;   *)
(* and ok is said of every row that was counted.                            *)
THEOREM VerdictsAreRight == ChainSpec => []VerdictIsRight
<1>1. VerifyIInv => VerdictIsRight
  <2> SUFFICES ASSUME VerifyIInv PROVE VerdictIsRight
    OBVIOUS
  <2>1. \A v \in Verifiers : SaidRight(verifier[v])
    BY DEF VerifyIInv, Knows
  <2>2. NoRowIsBlamed
    BY <2>1 DEF SaidRight, NoRowIsBlamed
  <2>3. QuietReportIsRight
    BY <2>1 DEF SaidRight, QuietReportIsRight
  <2>4. ChangeIsReported
    BY <2>1 DEF SaidRight, ChangeIsReported
  <2>5. OkMeansAll
    BY <2>1 DEF SaidRight, OkMeansAll
  <2> QED
    BY <2>2, <2>3, <2>4, <2>5 DEF VerdictIsRight
<1> QED
  BY <1>1, VerifyInitially, VerifyStep, ChainInvariance, PTL DEF ChainSpec

(* audit/chain.py: the types of the tables, of the appends under way and of *)
(* the verifications.                                                       *)
THEOREM ChainTypes == ChainSpec => []ChainType
<1>1. IInv /\ VerifyIInv => ChainType
  <2> SUFFICES ASSUME IInv, VerifyIInv PROVE ChainType
    OBVIOUS
  <2>1. \A v \in Verifiers : verifier[v] \in Verification
    BY DEF VerifyIInv
  <2>2. VerifiersOK
    BY <2>1 DEF VerifiersOK, Verification
  <2> QED
    BY <2>2 DEF IInv, ChainType
<1> QED
  BY <1>1, VerifyInitially, VerifyStep, ChainInvariance, PTL DEF ChainSpec

-----------------------------------------------------------------------------
(* The event stream of a run for any retry budgets and any number of steps.  *)
(* The argument: the row that the stream has read is one that the run has    *)
(* passed, and a run that is over stays what it is; so what was told of a    *)
(* row that ends the stream is true of the run, and still is.                *)
EventsSpec == EventsInit /\ [][EventsNext]_eventVars

EventRow == RunRows \cup {Life!NoJob}

Streams ==
    [pc : {"closed", "steps", "sleeps", "ended", "polluted", "broken"},
     row : EventRow, status : {"none"} \cup RUN_STATUSES, done : Int]

Events == {"none", "run.queued", "run.running", "run.done", "run.failed", "run.cancelled"}

Accounts ==
    [event : Events, attempt : Nat, done : Nat, most : Nat, misread : BOOLEAN]

EventsTypes ==
    /\ job \in [{"run"} -> EventRow]
    /\ stepsDone \in 0 .. MaxStepsDone
    /\ stream \in Streams
    /\ told \in Accounts

(* A run that succeeded has the result of the attempt that is its last.      *)
ResultIsCurrent(r) == r.status = "succeeded" => r.result = r.attempt

(* What a run has passed: fewer attempts, and nothing that ends it unless it *)
(* is over.                                                                  *)
Passed(old, new) ==
    /\ old.attempt <= new.attempt
    /\ old.status \in TERMINAL_STATUSES => new = old

RowWasRead ==
    /\ stream.pc # "closed" => stream.row \in RunRows /\ RunRow \in RunRows
    /\ Passed(stream.row, RunRow)

(* The event is that of the status that was told last.                       *)
EventIsOfStatus ==
    \/ stream.pc = "polluted" /\ told.event = "run.failed"
    \/ /\ stream.pc \in {"closed", "steps", "sleeps", "broken"}
       /\ stream.status \notin TERMINAL_STATUSES
       /\ told.event = IF stream.status = "none" THEN "none" ELSE EventByStatus(stream.status)
    \/ /\ stream.pc = "ended"
       /\ stream.status = stream.row.status /\ stream.status \in TERMINAL_STATUSES
       /\ told.event = EventByStatus(stream.status)
       /\ told.attempt = stream.row.attempt

CountsAreReal ==
    /\ told.attempt <= RunRow.attempt
    /\ told.done <= stepsDone /\ told.most <= stepsDone
    /\ told.done < told.most => told.misread

EventsIInv ==
    /\ EventsTypes
    /\ ResultIsCurrent(RunRow)
    /\ RowWasRead
    /\ EventIsOfStatus
    /\ CountsAreReal

(* No row, as a record.                                                      *)
LEMMA NoJobFields ==
  /\ Life!NoJob.status = "absent" /\ Life!NoJob.attempt = 0
  /\ Life!NoJob.result = 0
  BY DEF Life!NoJob, Life!Job

(* The rows of a run have numbers of attempts.                               *)
LEMMA AttemptIsNumber == ASSUME NEW r \in EventRow PROVE r.attempt \in Nat
  BY NoJobFields, WatchedAssumption DEF EventRow, RunRows

(* Every status of a run has an event.                                       *)
LEMMA EventIsText == ASSUME NEW s \in RUN_STATUSES PROVE EventByStatus(s) \in Events
<1>1. CASE s = "queued"
  BY <1>1 DEF EventByStatus, Events
<1>2. CASE s \in {"running", "cancelling"}
  BY <1>2 DEF EventByStatus, Events
<1>3. CASE s = "succeeded"
  BY <1>3 DEF EventByStatus, Events
<1>4. CASE s \in {"failed", "dead"}
  BY <1>4 DEF EventByStatus, Events
<1>5. CASE s = "cancelled"
  BY <1>5 DEF EventByStatus, Events
<1> QED
  BY <1>1, <1>2, <1>3, <1>4, <1>5 DEF RUN_STATUSES

(* No run is queued again, or finished twice, once it is over: a move leads  *)
(* from what the run was to what has that behind it.                         *)
LEMMA MovesPass ==
  ASSUME NEW old \in EventRow, NEW new \in RunRows, Life!Moved(old, new), ResultIsCurrent(old)
  PROVE  Passed(old, new) /\ ResultIsCurrent(new)
<1>1. old.attempt \in Nat /\ new.attempt \in Nat
  BY AttemptIsNumber DEF EventRow
<1>2. CASE Life!Submitted(old, new)
  BY <1>1, <1>2 DEF Life!Submitted, Life!NoJob, Life!Job, Passed, ResultIsCurrent, TERMINAL_STATUSES
<1>3. CASE Life!Started(old, new)
  BY <1>1, <1>3 DEF Life!Started, Life!Job, Passed, ResultIsCurrent, TERMINAL_STATUSES
<1>4. CASE Life!Succeeded(old, new)
  BY <1>1, <1>4 DEF Life!Succeeded, Life!Job, Passed, ResultIsCurrent, TERMINAL_STATUSES
<1>5. CASE Life!GivenUp(old, new)
  <2>1. PICK s \in {"queued", "dead"} : old.status = "running" /\ new = [old EXCEPT !.status = s]
    BY <1>5 DEF Life!GivenUp
  <2>2. new.status = s /\ new.attempt = old.attempt
    BY <2>1 DEF EventRow, RunRows, Life!NoJob, Life!Job
  <2> QED
    BY <1>1, <2>1, <2>2 DEF Passed, ResultIsCurrent, TERMINAL_STATUSES
<1>6. CASE Life!Withdrawn(old, new)
  <2>1. PICK s \in {"cancelled", "cancelling"} :
          old.status \in {"queued", "running", "cancelling"} /\ new = [old EXCEPT !.status = s]
    BY <1>6 DEF Life!Withdrawn
  <2>2. new.status = s /\ new.attempt = old.attempt
    BY <2>1 DEF EventRow, RunRows, Life!NoJob, Life!Job
  <2> QED
    BY <1>1, <2>1, <2>2 DEF Passed, ResultIsCurrent, TERMINAL_STATUSES
<1> QED
  BY <1>2, <1>3, <1>4, <1>5, <1>6 DEF Life!Moved

(* Nobody has opened the stream.                                             *)
LEMMA EventsInitially == EventsInit => EventsIInv
<1> SUFFICES ASSUME EventsInit PROVE EventsIInv
  OBVIOUS
<1>1. RunRow = Life!NoJob /\ job \in [{"run"} -> EventRow]
  BY DEF EventsInit, Life!Init, RunRow, EventRow
<1>2. EventsTypes
  <2>1. stepsDone \in 0 .. MaxStepsDone
    BY WatchedAssumption DEF EventsInit
  <2>2. stream \in Streams
    BY DEF EventsInit, Streams, EventRow
  <2>3. told \in Accounts
    BY DEF EventsInit, Accounts, Events
  <2> QED
    BY <1>1, <2>1, <2>2, <2>3 DEF EventsTypes
<1>3. ResultIsCurrent(RunRow) /\ RowWasRead
  <2>1. stream.pc = "closed" /\ stream.row = RunRow
    BY <1>1 DEF EventsInit
  <2> QED
    BY <1>1, <2>1, NoJobFields DEF ResultIsCurrent, RowWasRead, Passed, TERMINAL_STATUSES
<1>4. EventIsOfStatus
  BY DEF EventsInit, EventIsOfStatus, TERMINAL_STATUSES
<1>5. CountsAreReal
  BY <1>1, NoJobFields DEF EventsInit, CountsAreReal
<1> QED
  BY <1>2, <1>3, <1>4, <1>5 DEF EventsIInv

(* The run goes on behind the stream: what was read of it has been passed.   *)
LEMMA RunMovesKeepsEvents == EventsIInv /\ RunMoves => EventsIInv'
<1> SUFFICES ASSUME EventsIInv, RunMoves PROVE EventsIInv'
  OBVIOUS
<1>1. PICK r \in RunRows : Life!Moved(RunRow, r) /\ job' = [job EXCEPT !["run"] = r]
  BY DEF RunMoves
<1>2. RunRow \in EventRow /\ RunRow' = r /\ job' \in [{"run"} -> EventRow]
  BY <1>1 DEF EventsIInv, EventsTypes, RunRow, EventRow
<1>3. Passed(RunRow, r) /\ ResultIsCurrent(r)
  BY <1>1, <1>2, MovesPass DEF EventsIInv
<1>4. EventsTypes'
  BY <1>2 DEF EventsIInv, EventsTypes, RunMoves
<1>5. stream.row.attempt \in Nat /\ RunRow.attempt \in Nat /\ r.attempt \in Nat
  <2>1. stream.row \in EventRow /\ r \in EventRow
    BY DEF EventsIInv, EventsTypes, Streams, EventRow
  <2> QED
    BY <1>2, <2>1, AttemptIsNumber
<1>6. RowWasRead'
  BY <1>2, <1>3, <1>5 DEF EventsIInv, RowWasRead, Passed, RunMoves
<1>7. EventIsOfStatus'
  BY DEF EventsIInv, EventIsOfStatus, RunMoves
<1>8. CountsAreReal'
  BY <1>2, <1>3, <1>5 DEF EventsIInv, EventsTypes, Accounts, CountsAreReal, Passed, RunMoves
<1> QED
  BY <1>2, <1>3, <1>4, <1>6, <1>7, <1>8 DEF EventsIInv

(* A step that is recorded is one more than were told of.                    *)
LEMMA StepIsRecordedKeepsEvents == EventsIInv /\ StepIsRecorded => EventsIInv'
<1> SUFFICES ASSUME EventsIInv, StepIsRecorded PROVE EventsIInv'
  OBVIOUS
<1>1. UNCHANGED <<job, stream, told>> /\ stepsDone' = stepsDone + 1 /\ RunRow' = RunRow
  BY DEF StepIsRecorded, RunRow
<1>2. EventsTypes'
  BY <1>1, WatchedAssumption DEF EventsIInv, EventsTypes, StepIsRecorded
<1>3. CountsAreReal'
  BY <1>1 DEF EventsIInv, EventsTypes, Accounts, CountsAreReal
<1>4. RowWasRead' /\ EventIsOfStatus'
  BY <1>1 DEF EventsIInv, RowWasRead, EventIsOfStatus
<1> QED
  BY <1>1, <1>2, <1>3, <1>4 DEF EventsIInv

(* Opening the stream and polling are the same read of the row.              *)
LEMMA ReadKeepsEvents ==
  EventsIInv /\ (OpenStream \/ Poll) /\ RunRow \in RunRows => EventsIInv'
<1> SUFFICES ASSUME EventsIInv, OpenStream \/ Poll, RunRow \in RunRows PROVE EventsIInv'
  OBVIOUS
<1>0. /\ UNCHANGED <<job, stepsDone, told>> /\ stream.pc \in {"closed", "sleeps"}
      /\ stream' = [stream EXCEPT !.pc = "steps", !.row = RunRow]
  BY DEF OpenStream, Poll
<1>1. RunRow' = RunRow
  BY <1>0 DEF RunRow
<1>2. /\ stream'.pc = "steps" /\ stream'.row = RunRow
      /\ stream'.status = stream.status
  BY <1>0 DEF EventsIInv, EventsTypes, Streams
<1>3. EventsTypes'
  BY <1>0 DEF EventsIInv, EventsTypes, Streams, EventRow
<1>4. RunRow.attempt \in Nat
  BY WatchedAssumption DEF RunRows
<1>5. RowWasRead'
  BY <1>1, <1>2, <1>4 DEF RowWasRead, Passed
<1>6. EventIsOfStatus'
  BY <1>0, <1>2 DEF EventsIInv, EventIsOfStatus
<1>7. CountsAreReal'
  BY <1>0, <1>1 DEF EventsIInv, CountsAreReal
<1> QED
  BY <1>1, <1>3, <1>5, <1>6, <1>7 DEF EventsIInv

(* One pass of the stream: it reads the row and the steps, and tells of both. *)
LEMMA PassKeepsEvents ==
  EventsIInv /\ (ReadSteps \/ StepsFail) => EventsIInv'
<1> SUFFICES ASSUME EventsIInv, ReadSteps \/ StepsFail PROVE EventsIInv'
  OBVIOUS
<1>0. PICK n, m :
        Pass(n, m) /\ ((n = stepsDone /\ m = FALSE) \/ (n = 0 /\ m = TRUE))
  <2>1. CASE ReadSteps
    BY <2>1 DEF ReadSteps
  <2>2. CASE StepsFail
    BY <2>2 DEF StepsFail
  <2> QED
    BY <2>1, <2>2
<1>1. UNCHANGED <<job, stepsDone>> /\ RunRow' = RunRow /\ stream.pc = "steps"
  BY <1>0 DEF Pass, RunRow
<1>2. n \in Nat /\ n <= stepsDone /\ stepsDone \in Nat /\ m \in BOOLEAN
  <2>1. stepsDone \in Nat
    BY WatchedAssumption DEF EventsIInv, EventsTypes
  <2>2. n = stepsDone \/ n = 0
    BY <1>0
  <2>3. n \in Nat /\ n <= stepsDone
    BY <2>1, <2>2
  <2>4. m \in BOOLEAN
    BY <1>0
  <2> QED
    BY <2>1, <2>3, <2>4
<1>3. stream.row \in RunRows /\ stream \in Streams /\ told \in Accounts
  BY <1>1 DEF EventsIInv, EventsTypes, RowWasRead
<1>4. stream.row.status \in RUN_STATUSES /\ stream.row.attempt \in Nat
  BY <1>3, WatchedAssumption DEF RunRows
<1>5. /\ stream'.pc = IF stream.row.status \in TERMINAL_STATUSES THEN "ended" ELSE "sleeps"
      /\ stream'.row = stream.row /\ stream'.status = stream.row.status
  BY <1>0, <1>3 DEF Pass, Streams
<1>6. stream' \in Streams
  <2>1. stream.row.status \in {"none"} \cup RUN_STATUSES /\ n \in Int
    BY <1>2, <1>4
  <2>2. stream.row \in EventRow
    BY <1>3 DEF Streams
  <2>3. PICK pc \in {"ended", "sleeps"} :
          stream' = [stream EXCEPT !.status = stream.row.status, !.done = n, !.pc = pc]
    BY <1>0 DEF Pass
  <2> QED
    BY <1>3, <2>1, <2>2, <2>3 DEF Streams
<1>7. /\ told'.event = IF stream.row.status # stream.status
                       THEN EventByStatus(stream.row.status) ELSE told.event
      /\ told'.attempt = IF stream.row.status # stream.status THEN stream.row.attempt ELSE told.attempt
      /\ \/ told'.done = told.done /\ told'.most = told.most
         \/ told'.done = n /\ told'.most = Larger(told.most, n)
      /\ told'.misread = (told.misread \/ m)
  BY <1>0, <1>3 DEF Pass, Telling, Accounts
<1>8. EventByStatus(stream.row.status) \in Events
  BY <1>4, EventIsText
<1>9. told' \in Accounts
  BY <1>0, <1>2, <1>3, <1>4, <1>8 DEF Pass, Telling, Accounts, Larger
<1>10. EventsTypes'
  BY <1>1, <1>6, <1>9 DEF EventsIInv, EventsTypes
<1>11. RowWasRead'
  BY <1>1, <1>3, <1>5 DEF EventsIInv, RowWasRead
<1>12. EventIsOfStatus'
  <2>1. /\ stream.status \notin TERMINAL_STATUSES
        /\ told.event = IF stream.status = "none" THEN "none" ELSE EventByStatus(stream.status)
    BY <1>1 DEF EventsIInv, EventIsOfStatus
  <2>2. stream.row.status # "none"
    BY <1>4 DEF RUN_STATUSES
  <2>3. told'.event = EventByStatus(stream.row.status)
    BY <1>7, <2>1, <2>2
  <2>4. CASE stream.row.status \in TERMINAL_STATUSES
    BY <1>5, <1>7, <2>1, <2>3, <2>4 DEF EventIsOfStatus
  <2>5. CASE stream.row.status \notin TERMINAL_STATUSES
    BY <1>5, <2>2, <2>3, <2>5 DEF EventIsOfStatus
  <2> QED
    BY <2>4, <2>5
<1>13. CountsAreReal'
  <2>1. told'.attempt <= RunRow'.attempt
    BY <1>1, <1>7 DEF EventsIInv, CountsAreReal, RowWasRead, Passed
  <2>2. told.done \in Nat /\ told.most \in Nat /\ told.done <= stepsDone /\ told.most <= stepsDone
    BY <1>3 DEF Accounts, EventsIInv, CountsAreReal
  <2>3. told'.done <= stepsDone' /\ told'.most <= stepsDone'
    BY <1>1, <1>2, <1>7, <2>2 DEF Larger
  <2>4. told'.done < told'.most => told'.misread
    <3>1. CASE m = TRUE
      BY <1>7, <3>1
    <3>2. CASE told'.done = told.done /\ told'.most = told.most
      BY <1>7, <3>2 DEF EventsIInv, CountsAreReal
    <3>3. CASE n = stepsDone /\ told'.done = n /\ told'.most = Larger(told.most, n)
      <4>1. told'.most = n
        BY <1>2, <2>2, <3>3 DEF Larger
      <4> QED
        BY <1>2, <3>3, <4>1
    <3> QED
      BY <1>0, <1>7, <3>1, <3>2, <3>3
  <2> QED
    BY <2>1, <2>3, <2>4 DEF CountsAreReal
<1> QED
  BY <1>1, <1>10, <1>11, <1>12, <1>13 DEF EventsIInv

(* The streams that end without a last event, or with one of another run.    *)
LEMMA EndsKeepEvents == EventsIInv /\ (StepsPolluted \/ StreamBreaks) => EventsIInv'
<1> SUFFICES ASSUME EventsIInv, StepsPolluted \/ StreamBreaks PROVE EventsIInv'
  OBVIOUS
<1>1. UNCHANGED <<job, stepsDone>> /\ RunRow' = RunRow
  BY DEF StepsPolluted, StreamBreaks, RunRow
<1>2. stream \in Streams /\ told \in Accounts
  BY DEF EventsIInv, EventsTypes
<1>3. stream' \in Streams /\ stream'.row = stream.row /\ stream'.status = stream.status
  <2>1. PICK pc \in {"polluted", "broken"} : stream' = [stream EXCEPT !.pc = pc]
    BY DEF StepsPolluted, StreamBreaks
  <2> QED
    BY <1>2, <2>1 DEF Streams
<1>9. told' \in Accounts
  BY <1>2 DEF StepsPolluted, StreamBreaks, Accounts, Events
<1>4. EventsTypes'
  BY <1>1, <1>3, <1>9 DEF EventsIInv, EventsTypes
<1>5. RowWasRead'
  <2>1. stream.pc # "closed"
    BY DEF StepsPolluted, StreamBreaks
  <2> QED
    BY <1>1, <1>3, <2>1 DEF EventsIInv, RowWasRead
<1>6. EventIsOfStatus'
  <2>1. CASE StepsPolluted
    BY <1>2, <2>1 DEF StepsPolluted, Streams, Accounts, EventIsOfStatus
  <2>2. CASE StreamBreaks
    <3>1. stream'.pc = "broken" /\ told' = told /\ stream.pc = "sleeps"
      BY <1>2, <2>2 DEF StreamBreaks, Streams
    <3> QED
      BY <1>3, <3>1 DEF EventsIInv, EventIsOfStatus
  <2> QED
    BY <2>1, <2>2
<1>7. CountsAreReal'
  <2>1. told'.attempt = told.attempt /\ told'.done = told.done /\ told'.most = told.most /\ told'.misread = told.misread
    BY <1>2 DEF StepsPolluted, StreamBreaks, Accounts
  <2> QED
    BY <1>1, <2>1 DEF EventsIInv, CountsAreReal
<1> QED
  BY <1>1, <1>4, <1>5, <1>6, <1>7 DEF EventsIInv

(* Every step keeps the invariant.                                           *)
LEMMA EventsStep == EventsIInv /\ [EventsNext]_eventVars => EventsIInv'
<1> SUFFICES ASSUME EventsIInv, [EventsNext]_eventVars PROVE EventsIInv'
  OBVIOUS
<1>1. CASE RunMoves
  BY <1>1, RunMovesKeepsEvents
<1>2. CASE StepIsRecorded
  BY <1>2, StepIsRecordedKeepsEvents
<1>3. CASE OpenStream
  <2>1. RunRow \in RunRows
    BY <1>3 DEF OpenStream, EventsIInv, EventsTypes, EventRow, RunRow
  <2> QED
    BY <1>3, <2>1, ReadKeepsEvents
<1>4. CASE ReadSteps \/ StepsFail
  BY <1>4, PassKeepsEvents
<1>5. CASE StepsPolluted \/ StreamBreaks
  BY <1>5, EndsKeepEvents
<1>6. CASE Poll
  <2>1. stream.pc # "closed"
    BY <1>6 DEF Poll
  <2>2. RunRow \in RunRows
    BY <2>1 DEF EventsIInv, RowWasRead
  <2> QED
    BY <1>6, <2>2, ReadKeepsEvents
<1>7. CASE UNCHANGED eventVars
  BY <1>7 DEF eventVars, EventsIInv, EventsTypes, ResultIsCurrent, RowWasRead, EventIsOfStatus, CountsAreReal, RunRow
<1> QED
  BY <1>1, <1>2, <1>3, <1>4, <1>5, <1>6, <1>7 DEF EventsNext, StreamStep

(* What the client relies on follows.                                        *)
LEMMA EventsImplied == EventsIInv => EventsInv
<1> SUFFICES ASSUME EventsIInv PROVE EventsInv
  OBVIOUS
<1>1. EventsType
  <2>1. RunRow.status \in {"absent"} \cup RUN_STATUSES
    BY DEF EventsIInv, EventsTypes, RunRow, EventRow, RunRows, Life!NoJob, Life!Job
  <2> QED
    BY <2>1 DEF EventsIInv, EventsTypes, Streams, Accounts, EventsType
<1>2. LastEventIsTrue /\ BreaksWithoutVerdict
  <2>1. CASE stream.pc = "polluted"
    BY <2>1 DEF EventsIInv, EventIsOfStatus, LastEventIsTrue, LastEvents, BreaksWithoutVerdict
  <2>2. CASE stream.pc \in {"closed", "steps", "sleeps", "broken"}
    <3>1. stream.status \in ({"none"} \cup RUN_STATUSES) \ TERMINAL_STATUSES
      BY <2>2 DEF EventsIInv, EventIsOfStatus, EventsTypes, Streams
    <3>2. told.event \notin LastEvents
      BY <2>2, <3>1 DEF EventsIInv, EventIsOfStatus, LastEvents, EventByStatus, RUN_STATUSES, TERMINAL_STATUSES
    <3> QED
      BY <2>2, <3>2 DEF LastEventIsTrue, LastEvents, BreaksWithoutVerdict
  <2>3. CASE stream.pc = "ended"
    <3>1. /\ stream.status \in TERMINAL_STATUSES /\ stream.status = stream.row.status
          /\ told.event = EventByStatus(stream.status) /\ told.attempt = stream.row.attempt
      BY <2>3 DEF EventsIInv, EventIsOfStatus
    <3>2. RunRow = stream.row
      BY <3>1 DEF EventsIInv, RowWasRead, Passed
    <3>3. told.event \in LastEvents /\ (told.event = "run.done" => stream.status = "succeeded")
      BY <3>1 DEF EventByStatus, TERMINAL_STATUSES, LastEvents
    <3> QED
      BY <2>3, <3>1, <3>2, <3>3 DEF EventsIInv, ResultIsCurrent, LastEventIsTrue, BreaksWithoutVerdict
  <2> QED
    BY <2>1, <2>2, <2>3 DEF EventsIInv, EventsTypes, Streams
<1>3. ProgressIsReal
  BY DEF EventsIInv, CountsAreReal, ProgressIsReal
<1> QED
  BY <1>1, <1>2, <1>3 DEF EventsInv

(* What the client of an event stream can rely on, whatever the workers do     *)
(* meanwhile: the event that ends its stream is the only one that says so,     *)
(* and is true of the run from then on; a stream that breaks says nothing of   *)
(* how the run ended; progress is of steps that are done.                      *)
THEOREM EventsAreTrue == EventsSpec => []EventsInv
BY EventsInitially, EventsStep, EventsImplied, PTL DEF EventsSpec

-----------------------------------------------------------------------------
(* The checks of readiness for any number of requests, services, threads and *)
(* deadlines.  The argument: time goes on under a request only while a       *)
(* service is down or work waits for a thread, because whoever waits for     *)
(* another thread waits, in the end, for work that is queued or for a        *)
(* service that does not answer.  So a request that had no trouble has not   *)
(* waited; what it was told is neither late nor older than the cache.        *)
ReadySpec == ReadyInit /\ [][ReadyNext]_readyVars

Tasks == [pc : {"none", "queued", "runs", "waits", "returned"}, left : Nat, ok : BOOLEAN]

Triples == Probers \X Services \X Levels

ReadyTypes ==
    /\ healthy \subseteq Services
    /\ readyCache \in [Databases -> [ok : BOOLEAN, age : Nat]]
    /\ task \in [Probers -> [Services -> [Levels -> Tasks]]]
    /\ line \in Seq(Triples)
    /\ prober \in [Probers -> [step : 0 .. Count + 1, left : Nat, took : Nat, ok : SUBSET Services,
                               recent : SUBSET Services, trouble : BOOLEAN]]
    /\ sinceGood \in [Databases -> 0 .. LongAgo]
    /\ sinceTrouble \in 0 .. LongAgo

(* What waits for a thread waits once.                                       *)
LineIsKept ==
    /\ \A i, j \in DOMAIN line : line[i] = line[j] => i = j
    /\ \A t \in Triples : IsQueued(t) <=> TaskAt(t[1], t[2], t[3], "queued")

ThreadsAreKept == IsFiniteSet(BusyThreads) /\ Cardinality(BusyThreads) <= PoolSize

IsAsking(p) == prober[p].step \in 1 .. Count

(* The request has still to wait for the service.                            *)
IsPending(p, s) == \E i \in DOMAIN Order : prober[p].step \in 1 .. i /\ Order[i] = s

(* A service that is only pinged has one thread.                             *)
PingIsSound(p, s) ==
    /\ TaskAt(p, s, "full", "none") /\ TaskAt(p, s, "select", "none") /\ ~TaskAt(p, s, "probe", "waits")
    /\ TaskAt(p, s, "probe", "returned") =>
          /\ IsAsking(p) /\ Order[prober[p].step] = s
          /\ ~task[p][s]["probe"].ok => sinceTrouble = 0

(* The thread that looks after a database, the one that probes it, and the   *)
(* one that runs SELECT: what each waits for is there, what has returned is  *)
(* waited for, and it says what was true in this tick.                       *)
FullIsSound(p, s) ==
    /\ task[p][s]["full"].pc \in {"queued", "runs"} =>
          TaskAt(p, s, "probe", "none") /\ TaskAt(p, s, "select", "none")
    /\ TaskAt(p, s, "full", "waits") =>
          /\ ~TaskAt(p, s, "probe", "none")
          /\ task[p][s]["full"].left <= ProbeWait[s]
          /\ task[p][s]["full"].left = ProbeWait[s] \/ sinceTrouble = 0
    /\ TaskAt(p, s, "full", "returned") =>
          /\ IsPending(p, s)
          /\ IF task[p][s]["full"].ok THEN s \in prober[p].recent ELSE prober[p].trouble

ProbeIsSound(p, s) ==
    /\ task[p][s]["probe"].pc \in {"queued", "runs"} => TaskAt(p, s, "select", "none")
    /\ TaskAt(p, s, "probe", "waits") =>
          /\ ~TaskAt(p, s, "select", "none")
          /\ task[p][s]["probe"].left = SelectWait \/ sinceTrouble = 0
    /\ TaskAt(p, s, "probe", "returned") =>
          /\ TaskAt(p, s, "full", "waits")
          /\ IF task[p][s]["probe"].ok THEN sinceGood[s] = 0 ELSE sinceTrouble = 0

SelectIsSound(p, s) ==
    /\ ~TaskAt(p, s, "select", "waits")
    /\ TaskAt(p, s, "select", "returned") =>
          /\ TaskAt(p, s, "probe", "waits")
          /\ IF task[p][s]["select"].ok THEN sinceGood[s] = 0 ELSE sinceTrouble = 0

CheckIsSound(p, s) ==
    IF s \in Databases THEN FullIsSound(p, s) /\ ProbeIsSound(p, s) /\ SelectIsSound(p, s)
    ELSE PingIsSound(p, s)

(* The times of a request fit in the sum of its waits.                       *)
TimeIsKept(p) ==
    /\ IsAsking(p) => prober[p].took + prober[p].left + WaitsAfter[prober[p].step] <= Longest
    /\ prober[p].took <= Longest

(* Work that the request waits for, or will, is under way.                   *)
WorkIsThere(p) ==
    IsAsking(p) =>
        \A i \in 1 .. Count :
            LET s == Order[i] IN
            IF s \in Databases THEN i >= prober[p].step => ~TaskAt(p, s, "full", "none")
            ELSE /\ i = prober[p].step => ~TaskAt(p, s, "probe", "none")
                 /\ i > prober[p].step => TaskAt(p, s, "probe", "none")

(* What the request was told by databases is recent.                         *)
NewsAreRecent(p) ==
    /\ prober[p].step > 0 => prober[p].ok \cap Databases \subseteq prober[p].recent
    /\ IsAsking(p) => \A s \in Databases : sinceGood[s] < LongAgo => s \in prober[p].recent

(* A request that had no trouble has not waited and has heard nothing bad.   *)
CalmIsSound(p) ==
    prober[p].step > 0 /\ ~prober[p].trouble =>
        /\ prober[p].took = 0
        /\ \A i \in 1 .. Count : i < prober[p].step => Order[i] \in prober[p].ok
        /\ IsAsking(p) => prober[p].left = WaitFor(Order[prober[p].step]) /\ sinceTrouble = LongAgo

RequestIsSound(p) ==
    /\ prober[p].step = 0 => prober[p] = NoRequest
    /\ TimeIsKept(p) /\ WorkIsThere(p) /\ NewsAreRecent(p) /\ CalmIsSound(p)

CacheIsSound ==
    /\ healthy # Services => sinceTrouble = 0
    /\ \A s \in Databases :
          readyCache[s].age < CacheFor =>
              IF readyCache[s].ok THEN sinceGood[s] <= readyCache[s].age
              ELSE sinceTrouble <= readyCache[s].age

ReadyIInv ==
    /\ ReadyTypes /\ LineIsKept /\ ThreadsAreKept
    /\ \A p \in Probers : RequestIsSound(p)
    /\ \A p \in Probers, s \in Services : CheckIsSound(p, s)
    /\ CacheIsSound

-----------------------------------------------------------------------------
(* What is known of the constants.                                           *)
LEMMA OrderIsFinite ==
    /\ Count \in Nat \ {0} /\ DOMAIN Order = 1 .. Count
    /\ \A i \in 1 .. Count : Order[i] \in Services
    /\ \A s \in Services : \E i \in 1 .. Count : Order[i] = s
    /\ \A i, j \in 1 .. Count : Order[i] = Order[j] => i = j
    /\ Databases \subseteq Services
<1>1. Order \in Seq(STRING) /\ Order # <<>>
  BY ReadinessAssumption
<1>2. Count \in Nat /\ DOMAIN Order = 1 .. Count
  BY <1>1, LenProperties DEF Count
<1>3. Count # 0
  BY <1>1, EmptySeq DEF Count
<1>4. Cardinality(Databases) \in Nat /\ Cardinality(Databases) <= Count
  BY ReadinessAssumption, FS_CardinalityType DEF Count
<1>5. Databases \subseteq Services
  <2>1. \A i \in 1 .. Cardinality(Databases) : i \in DOMAIN Order
    BY <1>2, <1>4
  <2>2. Databases = {Order[i] : i \in 1 .. Cardinality(Databases)}
    BY ReadinessAssumption
  <2> QED
    BY <2>1, <2>2 DEF Services
<1>6. \A i, j \in 1 .. Count : Order[i] = Order[j] => i = j
  BY <1>2, ReadinessAssumption
<1> QED
  BY <1>2, <1>3, <1>5, <1>6 DEF Services

(* The times are numbers, and no wait is nothing.                            *)
LEMMA WaitsAreNumbers ==
    /\ \A s \in Services : ProbeWait[s] \in Nat \ {0} /\ WaitFor(s) \in Nat \ {0}
    /\ CacheFor \in Nat /\ LongAgo \in Nat /\ CacheFor < LongAgo /\ SelectWait \in Nat \ {0}
<1>1. \A s \in Services : ProbeWait[s] \in Nat \ {0}
  BY ReadinessAssumption
<1>2. Grace \in Nat
  BY ReadinessAssumption
<1>3. \A s \in Services : WaitFor(s) \in Nat \ {0}
  BY <1>1, <1>2 DEF WaitFor
<1>4. CacheFor \in Nat /\ SelectWait \in Nat \ {0}
  BY ReadinessAssumption
<1> QED
  BY <1>1, <1>3, <1>4 DEF LongAgo

(* f is the table of the waits that are left from m to n.                   *)
WaitsFrom(f, m, n) == f = [i \in m .. n |-> IF i = n THEN 0 ELSE WaitFor(Order[i + 1]) + f[i + 1]]

(* The sums of the waits from any service on exist: the shortest tail that   *)
(* had none would have one.                                                  *)
LEMMA WaitsExist ==
    ASSUME NEW n \in Nat, NEW k \in 0 .. n
    PROVE  \E f : WaitsFrom(f, n - k, n)
<1> USE DEF WaitsFrom
<1> DEFINE Solves(f, m) ==
        f = [i \in n - m .. n |-> IF i = n THEN 0 ELSE WaitFor(Order[i + 1]) + f[i + 1]]
<1> DEFINE S == {m \in 0 .. n : ~ \E f : Solves(f, m)}
<1>1. SUFFICES S = {}
  BY <1>1
<1>2. SUFFICES ASSUME S # {} PROVE FALSE
  OBVIOUS
<1>3. PICK m \in S : \A j \in S : m <= j
  <2>1. S \in SUBSET Nat
    OBVIOUS
  <2> HIDE DEF S
  <2> QED BY <2>1, <1>2, LeastNumber
<1>4. m # 0
  <2>1. PICK f : f = [i \in n .. n |-> 0]
    OBVIOUS
  <2>2. n - 0 = n /\ \A i \in n .. n : i = n
    OBVIOUS
  <2>3. Solves(f, 0)
    BY <2>1, <2>2
  <2>4. 0 \notin S
    BY <2>3
  <2> QED BY <2>4, <1>3
<1>5. m \in 0 .. n
  OBVIOUS
<1>6. m - 1 \in 0 .. n /\ ~(m <= m - 1)
  BY <1>4, <1>5
<1>7. m - 1 \notin S
  <2> HIDE DEF S
  <2> QED BY <1>3, <1>6
<1>8. PICK f : Solves(f, m - 1)
  BY <1>6, <1>7
<1> DEFINE g == [i \in n - m .. n |-> IF i = n THEN 0
                                      ELSE IF i = n - m THEN WaitFor(Order[i + 1]) + f[i + 1] ELSE f[i]]
<1>9. Solves(g, m)
  <2>1. SUFFICES ASSUME NEW i \in n - m .. n, i # n PROVE g[i] = WaitFor(Order[i + 1]) + g[i + 1]
    OBVIOUS
  <2>2. i + 1 \in n - (m - 1) .. n /\ i + 1 \in n - m .. n /\ i + 1 # n - m
    BY <2>1, <1>5
  <2>3. g[i + 1] = f[i + 1]
    BY <2>2, <1>8
  <2>4. CASE i = n - m
    BY <2>1, <2>3, <2>4
  <2>5. CASE i # n - m
    <3>1. i \in n - (m - 1) .. n
      BY <2>5, <1>5
    <3>2. f[i] = WaitFor(Order[i + 1]) + f[i + 1]
      BY <3>1, <2>1, <1>8
    <3> QED BY <2>1, <2>3, <2>5, <3>2
  <2> QED BY <2>4, <2>5
<1>10. m \notin S
  BY <1>9
<1> QED BY <1>3, <1>10

(* The sum of the waits from a service on is its own and those after it.     *)
LEMMA WaitsAreSums ==
    /\ WaitsAfter[Count] = 0
    /\ \A i \in 0 .. Count - 1 : WaitsAfter[i] = WaitFor(Order[i + 1]) + WaitsAfter[i + 1]
    /\ \A i \in 0 .. Count : WaitsAfter[i] \in Nat
<1> PICK n \in Nat \ {0} : n = Count
  BY OrderIsFinite
<1>1. \E f : f = [i \in 0 .. Count |-> IF i = Count THEN 0 ELSE WaitFor(Order[i + 1]) + f[i + 1]]
  <2>1. n \in 0 .. n /\ n - n = 0
    OBVIOUS
  <2>2. \E f : WaitsFrom(f, n - n, n)
    BY <2>1, WaitsExist
  <2>3. \E f : WaitsFrom(f, 0, Count)
    BY <2>1, <2>2
  <2> QED BY <2>3 DEF WaitsFrom
<1>2. WaitsAfter = [i \in 0 .. Count |-> IF i = Count THEN 0 ELSE WaitFor(Order[i + 1]) + WaitsAfter[i + 1]]
  BY <1>1 DEF WaitsAfter
<1>3. WaitsAfter[n] = 0
  BY <1>2
<1>4. \A i \in 0 .. n - 1 : WaitsAfter[i] = WaitFor(Order[i + 1]) + WaitsAfter[i + 1]
  <2>1. \A i \in 0 .. n - 1 : i \in 0 .. n /\ i # n
    OBVIOUS
  <2> QED BY <1>2, <2>1
<1>5. \A i \in 0 .. n - 1 : WaitFor(Order[i + 1]) \in Nat
  <2>1. \A i \in 0 .. n - 1 : i + 1 \in 1 .. n
    OBVIOUS
  <2> QED BY <2>1, OrderIsFinite, WaitsAreNumbers
<1>6. \A i \in 0 .. n : WaitsAfter[i] \in Nat
  <2> DEFINE S == {k \in 0 .. n : WaitsAfter[n - k] \notin Nat}
  <2>1. SUFFICES S = {}
    <3>1. SUFFICES ASSUME NEW i \in 0 .. n PROVE WaitsAfter[i] \in Nat
      OBVIOUS
    <3>2. n - i \in 0 .. n /\ n - (n - i) = i
      OBVIOUS
    <3>3. n - i \notin S
      BY <2>1
    <3> QED BY <3>2, <3>3
  <2>2. SUFFICES ASSUME S # {} PROVE FALSE
    OBVIOUS
  <2>3. PICK k \in S : \A j \in S : k <= j
    <3>1. S \in SUBSET Nat
      OBVIOUS
    <3> HIDE DEF S
    <3> QED BY <3>1, <2>2, LeastNumber
  <2>4. k \in 0 .. n /\ WaitsAfter[n - k] \notin Nat
    OBVIOUS
  <2>5. k # 0
    BY <2>4, <1>3
  <2>6. k - 1 \in 0 .. n /\ ~(k <= k - 1) /\ n - k \in 0 .. n - 1 /\ (n - k) + 1 = n - (k - 1)
    BY <2>4, <2>5
  <2>7. WaitsAfter[n - (k - 1)] \in Nat
    BY <2>3, <2>6
  <2>8. WaitsAfter[n - k] = WaitFor(Order[(n - k) + 1]) + WaitsAfter[(n - k) + 1]
        /\ WaitFor(Order[(n - k) + 1]) \in Nat
    BY <1>4, <1>5, <2>6
  <2>9. WaitsAfter[(n - k) + 1] \in Nat
    BY <2>6, <2>7
  <2> QED BY <2>4, <2>8, <2>9
<1> QED BY <1>3, <1>4, <1>6

-----------------------------------------------------------------------------
(* A sequence lists a set if each element is in it once.                     *)
Lists(l, Q) ==
    /\ l \in Seq(Q)
    /\ \A i, j \in DOMAIN l : l[i] = l[j] => i = j
    /\ \A t \in Q : \E i \in DOMAIN l : l[i] = t

(* Two lists of sets without common elements.                                *)
LEMMA ConcatLists ==
    ASSUME NEW Q, NEW R, NEW l, NEW m, Lists(l, Q), Lists(m, R), Q \cap R = {}
    PROVE  Lists(l \o m, Q \cup R)
<1>1. l \in Seq(Q \cup R) /\ m \in Seq(Q \cup R)
  BY SeqMonotonic DEF Lists
<1>2. /\ l \o m \in Seq(Q \cup R)
      /\ Len(l \o m) = Len(l) + Len(m)
      /\ \A i \in 1 .. Len(l) + Len(m) : (l \o m)[i] = IF i <= Len(l) THEN l[i] ELSE m[i - Len(l)]
  BY <1>1, ConcatProperties
<1>3. Len(l) \in Nat /\ Len(m) \in Nat /\ DOMAIN l = 1 .. Len(l) /\ DOMAIN m = 1 .. Len(m)
      /\ DOMAIN (l \o m) = 1 .. Len(l) + Len(m)
  BY <1>1, <1>2, LenProperties
<1>4. (\A i \in 1 .. Len(l) : l[i] \in Q) /\ (\A i \in 1 .. Len(m) : m[i] \in R)
  BY ElementOfSeq DEF Lists
<1>5. ASSUME NEW i \in DOMAIN (l \o m), NEW j \in DOMAIN (l \o m), (l \o m)[i] = (l \o m)[j]
      PROVE  i = j
  <2>1. CASE i <= Len(l) /\ j <= Len(l)
    BY <1>2, <1>3, <1>5, <2>1 DEF Lists
  <2>2. CASE ~(i <= Len(l)) /\ ~(j <= Len(l))
    <3>1. i - Len(l) \in 1 .. Len(m) /\ j - Len(l) \in 1 .. Len(m)
      BY <1>3, <2>2
    <3>2. m[i - Len(l)] = m[j - Len(l)]
      BY <1>2, <1>3, <1>5, <2>2
    <3>3. i - Len(l) = j - Len(l)
      BY <1>3, <3>1, <3>2 DEF Lists
    <3> QED BY <1>3, <3>1, <3>3
  <2>3. CASE i <= Len(l) /\ ~(j <= Len(l))
    <3>1. i \in 1 .. Len(l) /\ j - Len(l) \in 1 .. Len(m)
      BY <1>3, <2>3
    <3>2. l[i] = m[j - Len(l)]
      BY <1>2, <1>3, <1>5, <2>3
    <3> QED BY <1>4, <3>1, <3>2
  <2>4. CASE ~(i <= Len(l)) /\ j <= Len(l)
    <3>1. j \in 1 .. Len(l) /\ i - Len(l) \in 1 .. Len(m)
      BY <1>3, <2>4
    <3>2. l[j] = m[i - Len(l)]
      BY <1>2, <1>3, <1>5, <2>4
    <3> QED BY <1>4, <3>1, <3>2
  <2> QED BY <2>1, <2>2, <2>3, <2>4
<1>6. ASSUME NEW t \in Q PROVE \E i \in DOMAIN (l \o m) : (l \o m)[i] = t
  <2>1. PICK i \in 1 .. Len(l) : l[i] = t
    BY <1>3 DEF Lists
  <2>2. i \in 1 .. Len(l) + Len(m) /\ i <= Len(l)
    BY <1>3
  <2> QED BY <1>2, <1>3, <2>1, <2>2
<1>7. ASSUME NEW t \in R PROVE \E i \in DOMAIN (l \o m) : (l \o m)[i] = t
  <2>1. PICK i \in 1 .. Len(m) : m[i] = t
    BY <1>3 DEF Lists
  <2>2. i + Len(l) \in 1 .. Len(l) + Len(m) /\ ~(i + Len(l) <= Len(l)) /\ (i + Len(l)) - Len(l) = i
    BY <1>3
  <2> QED BY <1>2, <1>3, <2>1, <2>2
<1> QED BY <1>2, <1>5, <1>6, <1>7 DEF Lists

(* Lists of one element and of none.                                         *)
LEMMA OneIsListed == ASSUME NEW t PROVE Lists(<<t>>, {t})
<1>1. <<t>> \in Seq({t}) /\ DOMAIN <<t>> = 1 .. 1 /\ <<t>>[1] = t
  OBVIOUS
<1> QED BY <1>1 DEF Lists

LEMMA NoneAreListed == Lists(<<>>, {})
<1>1. <<>> \in Seq({}) /\ DOMAIN <<>> = {}
  BY EmptySeq
<1> QED BY <1>1 DEF Lists

(* One more element at the end.                                              *)
LEMMA AppendLists ==
    ASSUME NEW Q, NEW l, NEW t, Lists(l, Q), t \notin Q
    PROVE  Lists(Append(l, t), Q \cup {t})
<1>1. l \in Seq(Q \cup {t}) /\ t \in Q \cup {t}
  BY SeqMonotonic DEF Lists
<1>2. Append(l, t) = l \o <<t>>
  BY <1>1, AppendIsConcat
<1>3. Lists(<<t>>, {t}) /\ Q \cap {t} = {}
  BY OneIsListed
<1>4. Lists(l \o <<t>>, Q \cup {t})
  BY <1>3, ConcatLists
<1> QED BY <1>2, <1>4

(* The first element and the rest.                                           *)
LEMMA TailLists ==
    ASSUME NEW Q, NEW l, Lists(l, Q), l # <<>>
    PROVE  Head(l) \in Q /\ Lists(Tail(l), Q \ {Head(l)})
<1>1. /\ Head(l) \in Q /\ Tail(l) \in Seq(Q) /\ Len(Tail(l)) = Len(l) - 1
      /\ \A i \in 1 .. Len(Tail(l)) : Tail(l)[i] = l[i + 1]
  BY HeadTailProperties DEF Lists
<1>2. Len(l) \in Nat \ {0} /\ DOMAIN l = 1 .. Len(l) /\ DOMAIN Tail(l) = 1 .. Len(l) - 1 /\ Head(l) = l[1]
  BY <1>1, LenProperties, EmptySeq DEF Lists
<1>3. \A i \in 1 .. Len(l) - 1 : i + 1 \in 1 .. Len(l) /\ i + 1 # 1 /\ l[i + 1] \in Q \ {Head(l)}
  <2>1. \A i \in 1 .. Len(l) - 1 : i + 1 \in 1 .. Len(l) /\ i + 1 # 1 /\ 1 \in 1 .. Len(l)
    BY <1>2
  <2> QED BY <1>2, <2>1, ElementOfSeq DEF Lists
<1>4. Tail(l) \in Seq(Q \ {Head(l)})
  <2>1. \A i \in 2 .. Len(l) : l[i] \in Q \ {Head(l)}
    <3>1. SUFFICES ASSUME NEW i \in 2 .. Len(l) PROVE l[i] \in Q \ {Head(l)}
      OBVIOUS
    <3>2. i - 1 \in 1 .. Len(l) - 1 /\ (i - 1) + 1 = i
      BY <1>2
    <3> QED BY <1>3, <3>2
  <2>2. Tail(l) = SubSeq(l, 2, Len(l))
    BY TailIsSubSeq DEF Lists
  <2>3. 2 \in Int /\ Len(l) \in Int
    BY <1>2
  <2>4. SubSeq(l, 2, Len(l)) \in Seq(Q \ {Head(l)})
    BY <2>1, <2>3, SubSeqProperties
  <2> QED BY <2>2, <2>4
<1>5. ASSUME NEW i \in DOMAIN Tail(l), NEW j \in DOMAIN Tail(l), Tail(l)[i] = Tail(l)[j] PROVE i = j
  <2>1. i + 1 \in 1 .. Len(l) /\ j + 1 \in 1 .. Len(l) /\ l[i + 1] = l[j + 1]
    BY <1>1, <1>2, <1>5
  <2>2. i + 1 = j + 1
    BY <1>2, <2>1 DEF Lists
  <2> QED BY <1>2, <2>2
<1>6. ASSUME NEW t \in Q \ {Head(l)} PROVE \E i \in DOMAIN Tail(l) : Tail(l)[i] = t
  <2>1. PICK i \in 1 .. Len(l) : l[i] = t
    BY <1>2 DEF Lists
  <2>2. i # 1
    BY <1>2, <2>1
  <2>3. i - 1 \in 1 .. Len(l) - 1 /\ (i - 1) + 1 = i
    BY <1>2, <2>2
  <2> QED BY <1>1, <1>2, <2>1, <2>3
<1> QED BY <1>1, <1>4, <1>5, <1>6 DEF Lists

(* Work that is taken out of the line.                                       *)
LEMMA RemovalLists ==
    ASSUME NEW Q, NEW l, NEW n \in DOMAIN l, Lists(l, Q)
    PROVE  Lists(SubSeq(l, 1, n - 1) \o SubSeq(l, n + 1, Len(l)), Q \ {l[n]})
<1> DEFINE a == SubSeq(l, 1, n - 1)
           b == SubSeq(l, n + 1, Len(l))
           A == {l[i] : i \in 1 .. n - 1}
           B == {l[i] : i \in n + 1 .. Len(l)}
<1>1. Len(l) \in Nat /\ DOMAIN l = 1 .. Len(l) /\ n \in 1 .. Len(l)
  BY LenProperties DEF Lists
<1>2. Lists(a, A)
  <2>1. /\ a \in Seq(A) /\ Len(a) = IF 1 <= n - 1 THEN n - 1 ELSE 0
        /\ \A i \in 1 .. n - 1 : a[i] = l[i]
    <3>1. \A i \in 1 .. n - 1 : l[i] \in A
      OBVIOUS
    <3>2. 1 \in Int /\ n - 1 \in Int
      BY <1>1
    <3>3. /\ SubSeq(l, 1, n - 1) \in Seq(A)
          /\ Len(SubSeq(l, 1, n - 1)) = IF 1 <= n - 1 THEN (n - 1) - 1 + 1 ELSE 0
          /\ \A i \in 1 .. (n - 1) - 1 + 1 : SubSeq(l, 1, n - 1)[i] = l[1 + i - 1]
      <4> HIDE DEF A
      <4> QED BY <3>1, <3>2, SubSeqProperties
    <3>4. (n - 1) - 1 + 1 = n - 1 /\ \A i \in 1 .. n - 1 : 1 + i - 1 = i
      BY <1>1
    <3> HIDE DEF A
    <3> QED BY <3>3, <3>4
  <2>2. DOMAIN a = 1 .. n - 1
    <3> HIDE DEF a, A
    <3>1. DOMAIN a = 1 .. Len(a)
      BY <2>1, LenProperties
    <3> QED BY <1>1, <2>1, <3>1
  <2>3. \A i \in 1 .. n - 1 : i \in DOMAIN l
    BY <1>1
  <2>4. \A i, j \in DOMAIN a : a[i] = a[j] => i = j
    <3> HIDE DEF a, A
    <3> QED BY <2>1, <2>2, <2>3 DEF Lists
  <2>5. \A t \in A : \E i \in DOMAIN a : a[i] = t
    <3> HIDE DEF a
    <3> QED BY <2>1, <2>2
  <2> HIDE DEF a, A
  <2> QED BY <2>1, <2>4, <2>5 DEF Lists
<1>3. Lists(b, B)
  <2>1. /\ b \in Seq(B) /\ Len(b) = IF n + 1 <= Len(l) THEN Len(l) - n ELSE 0
        /\ \A i \in 1 .. Len(l) - n : b[i] = l[i + n]
    <3>1. \A i \in n + 1 .. Len(l) : l[i] \in B
      OBVIOUS
    <3>2. n + 1 \in Int /\ Len(l) \in Int
      BY <1>1
    <3>3. /\ SubSeq(l, n + 1, Len(l)) \in Seq(B)
          /\ Len(SubSeq(l, n + 1, Len(l))) = IF n + 1 <= Len(l) THEN Len(l) - (n + 1) + 1 ELSE 0
          /\ \A i \in 1 .. Len(l) - (n + 1) + 1 : SubSeq(l, n + 1, Len(l))[i] = l[n + 1 + i - 1]
      <4> HIDE DEF B
      <4> QED BY <3>1, <3>2, SubSeqProperties
    <3>4. Len(l) - (n + 1) + 1 = Len(l) - n /\ \A i \in 1 .. Len(l) - n : n + 1 + i - 1 = i + n
      BY <1>1
    <3> HIDE DEF B
    <3> QED BY <3>3, <3>4
  <2>2. DOMAIN b = 1 .. Len(l) - n
    <3> HIDE DEF b, B
    <3>1. DOMAIN b = 1 .. Len(b)
      BY <2>1, LenProperties
    <3> QED BY <1>1, <2>1, <3>1
  <2>3. \A i \in 1 .. Len(l) - n : i + n \in DOMAIN l
    BY <1>1
  <2>4. \A i, j \in DOMAIN b : b[i] = b[j] => i = j
    <3> HIDE DEF b, B
    <3>1. SUFFICES ASSUME NEW i \in 1 .. Len(l) - n, NEW j \in 1 .. Len(l) - n, b[i] = b[j] PROVE i = j
      BY <2>2
    <3>2. i + n = j + n
      BY <2>1, <2>3, <3>1 DEF Lists
    <3> QED BY <1>1, <3>2
  <2>5. \A t \in B : \E i \in DOMAIN b : b[i] = t
    <3>1. SUFFICES ASSUME NEW i \in n + 1 .. Len(l) PROVE \E j \in DOMAIN b : b[j] = l[i]
      OBVIOUS
    <3>2. i - n \in 1 .. Len(l) - n /\ (i - n) + n = i
      BY <1>1
    <3> HIDE DEF b
    <3> QED BY <2>1, <2>2, <3>2
  <2> HIDE DEF b, B
  <2> QED BY <2>1, <2>4, <2>5 DEF Lists
<1>4. A \cap B = {}
  <2>1. SUFFICES ASSUME NEW i \in 1 .. n - 1, NEW j \in n + 1 .. Len(l), l[i] = l[j] PROVE FALSE
    OBVIOUS
  <2>2. i \in DOMAIN l /\ j \in DOMAIN l /\ i # j
    BY <1>1
  <2> QED BY <2>1, <2>2 DEF Lists
<1>5. A \cup B = Q \ {l[n]}
  <2>1. ASSUME NEW t \in Q \ {l[n]} PROVE t \in A \cup B
    <3>1. PICK i \in 1 .. Len(l) : l[i] = t
      BY <1>1 DEF Lists
    <3>2. i # n
      BY <3>1
    <3>3. i \in 1 .. n - 1 \/ i \in n + 1 .. Len(l)
      BY <1>1, <3>2
    <3> QED BY <3>1, <3>3
  <2>2. ASSUME NEW i \in 1 .. Len(l), i # n PROVE l[i] \in Q \ {l[n]}
    <3>1. l[i] \in Q
      BY ElementOfSeq DEF Lists
    <3>2. l[i] # l[n]
      BY <1>1, <2>2 DEF Lists
    <3> QED BY <3>1, <3>2
  <2>3. (\A i \in 1 .. n - 1 : i \in 1 .. Len(l) /\ i # n)
        /\ (\A i \in n + 1 .. Len(l) : i \in 1 .. Len(l) /\ i # n)
    BY <1>1
  <2>4. A \subseteq Q \ {l[n]} /\ B \subseteq Q \ {l[n]}
    BY <2>2, <2>3
  <2> QED BY <2>1, <2>4
<1> HIDE DEF a, b, A, B
<1>6. Lists(a \o b, A \cup B)
  BY <1>2, <1>3, <1>4, ConcatLists
<1> QED BY <1>5, <1>6 DEF a, b

-----------------------------------------------------------------------------
(* The work that waits for a thread; it is what the line lists.              *)
Waiting == {t \in Triples : TaskAt(t[1], t[2], t[3], "queued")}

(* The line lists the work that waits; and if it does, it is as it should be. *)
LEMMA LineListsWaiting == ReadyTypes /\ LineIsKept => Lists(line, Waiting)
<1> SUFFICES ASSUME ReadyTypes, LineIsKept PROVE Lists(line, Waiting)
  OBVIOUS
<1>1. line \in Seq(Triples) /\ DOMAIN line = 1 .. Len(line) /\ Len(line) \in Nat
  BY LenProperties DEF ReadyTypes
<1>2. \A i \in 1 .. Len(line) : line[i] \in Waiting
  <2>1. SUFFICES ASSUME NEW i \in 1 .. Len(line) PROVE line[i] \in Waiting
    OBVIOUS
  <2>2. line[i] \in Triples
    BY <1>1, ElementOfSeq
  <2>3. IsQueued(line[i])
    BY <1>1 DEF IsQueued
  <2> QED BY <2>2, <2>3 DEF LineIsKept, Waiting
<1>3. line \in Seq(Waiting)
  <2>1. SubSeq(line, 1, Len(line)) \in Seq(Waiting)
    <3>1. 1 \in Int /\ Len(line) \in Int
      BY <1>1
    <3> QED BY <1>2, <3>1, SubSeqProperties
  <2>2. SubSeq(line, 1, Len(line)) = line
    BY <1>1, SubSeqFull
  <2> QED BY <2>1, <2>2
<1>4. \A t \in Waiting : \E i \in DOMAIN line : line[i] = t
  BY DEF Waiting, LineIsKept, IsQueued
<1> QED BY <1>3, <1>4 DEF Lists, LineIsKept

LEMMA ListedLineIsKept == Lists(line, Waiting) => line \in Seq(Triples) /\ LineIsKept
<1> SUFFICES ASSUME Lists(line, Waiting) PROVE line \in Seq(Triples) /\ LineIsKept
  OBVIOUS
<1>1. line \in Seq(Waiting) /\ DOMAIN line = 1 .. Len(line)
  BY LenProperties DEF Lists
<1>2. Waiting \subseteq Triples
  BY DEF Waiting
<1>3. line \in Seq(Triples)
  BY <1>1, <1>2, SeqMonotonic
<1>4. \A i \in DOMAIN line : line[i] \in Waiting
  BY <1>1, ElementOfSeq
<1>5. \A t \in Triples : IsQueued(t) <=> TaskAt(t[1], t[2], t[3], "queued")
  BY <1>4 DEF IsQueued, Waiting, Lists
<1> QED BY <1>3, <1>5 DEF LineIsKept, Lists

(* Work that is cancelled is not in the line any longer.                     *)
LEMMA WithoutLists ==
    ASSUME NEW Q, NEW t, Lists(line, Q)
    PROVE  Lists(Without(t), Q \ {t})
<1>1. CASE IsQueued(t)
  <2>1. PICK n \in DOMAIN line : n = CHOOSE i \in DOMAIN line : line[i] = t
    BY <1>1 DEF IsQueued
  <2>2. line[n] = t
    BY <1>1, <2>1 DEF IsQueued
  <2>3. Without(t) = SubSeq(line, 1, n - 1) \o SubSeq(line, n + 1, Len(line))
    BY <1>1, <2>1 DEF Without
  <2>4. Lists(SubSeq(line, 1, n - 1) \o SubSeq(line, n + 1, Len(line)), Q \ {line[n]})
    BY RemovalLists
  <2> QED BY <2>2, <2>3, <2>4
<1>2. CASE ~IsQueued(t)
  <2>1. t \notin Q
    BY <1>2 DEF Lists, IsQueued
  <2>2. Without(t) = line /\ Q \ {t} = Q
    BY <1>2, <2>1 DEF Without
  <2> QED BY <2>2
<1> QED BY <1>1, <1>2

-----------------------------------------------------------------------------
(* What a step makes of the three tasks of one check.                        *)
Sets(p, s, x, y, z) ==
    /\ task' \in [Probers -> [Services -> [Levels -> Tasks]]]
    /\ \A q \in Probers, u \in Services, l \in Levels :
          q # p \/ u # s => task'[q][u][l] = task[q][u][l]
    /\ task'[p][s]["full"] = x /\ task'[p][s]["probe"] = y /\ task'[p][s]["select"] = z

(* Assignments to one and to two levels of a check.                          *)
LEMMA OneTaskIsSet ==
    ASSUME ReadyTypes, NEW p \in Probers, NEW s \in Services, NEW l \in Levels, NEW x \in Tasks,
           task' = [task EXCEPT ![p][s][l] = x]
    PROVE  Sets(p, s, IF l = "full" THEN x ELSE task[p][s]["full"],
                      IF l = "probe" THEN x ELSE task[p][s]["probe"],
                      IF l = "select" THEN x ELSE task[p][s]["select"])
  BY DEF ReadyTypes, Sets, Levels

LEMMA TwoTasksAreSet ==
    ASSUME ReadyTypes, NEW p \in Probers, NEW s \in Services, NEW l \in Levels, NEW m \in Levels, l # m,
           NEW x \in Tasks, NEW y \in Tasks, task' = [task EXCEPT ![p][s][l] = x, ![p][s][m] = y]
    PROVE  Sets(p, s,
             IF l = "full" THEN x ELSE IF m = "full" THEN y ELSE task[p][s]["full"],
             IF l = "probe" THEN x ELSE IF m = "probe" THEN y ELSE task[p][s]["probe"],
             IF l = "select" THEN x ELSE IF m = "select" THEN y ELSE task[p][s]["select"])
  BY DEF ReadyTypes, Sets, Levels

(* Work that begins to wait or ceases to, of one check.                      *)
LEMMA WaitingOfOneCheck ==
    ASSUME ReadyTypes, NEW p \in Probers, NEW s \in Services, NEW x, NEW y, NEW z, Sets(p, s, x, y, z),
           NEW t \in Triples
    PROVE  t \in Waiting' <=>
             IF t[1] = p /\ t[2] = s
             THEN \/ t[3] = "full" /\ x.pc = "queued"
                  \/ t[3] = "probe" /\ y.pc = "queued"
                  \/ t[3] = "select" /\ z.pc = "queued"
             ELSE t \in Waiting
<1>1. t[1] \in Probers /\ t[2] \in Services /\ t[3] \in Levels
  BY DEF Triples
<1>2. t \in Waiting' <=> task'[t[1]][t[2]][t[3]].pc = "queued"
  BY DEF Waiting, TaskAt
<1>3. t \in Waiting <=> task[t[1]][t[2]][t[3]].pc = "queued"
  BY DEF Waiting, TaskAt
<1>4. CASE t[1] = p /\ t[2] = s
  BY <1>1, <1>2, <1>4 DEF Sets, Levels
<1>5. CASE ~(t[1] = p /\ t[2] = s)
  BY <1>1, <1>2, <1>3, <1>5 DEF Sets
<1> QED BY <1>4, <1>5

(* Threads are taken only from the line.                                     *)
LEMMA NoThreadIsTaken ==
    ASSUME ThreadsAreKept, BusyThreads' \subseteq BusyThreads
    PROVE  ThreadsAreKept'
<1>1. IsFiniteSet(BusyThreads) /\ Cardinality(BusyThreads) <= PoolSize
  BY DEF ThreadsAreKept
<1>2. IsFiniteSet(BusyThreads') /\ Cardinality(BusyThreads') <= Cardinality(BusyThreads)
  BY <1>1, FS_Subset
<1>3. Cardinality(BusyThreads) \in Nat /\ Cardinality(BusyThreads') \in Nat /\ PoolSize \in Nat
  BY <1>1, <1>2, FS_CardinalityType, ReadinessAssumption
<1> QED BY <1>1, <1>2, <1>3 DEF ThreadsAreKept

Holds(x) == x.pc \in {"runs", "waits"}

(* A step of one check in which no task begins to hold a thread.             *)
LEMMA ThreadsOfOneCheck ==
    ASSUME ReadyTypes, ThreadsAreKept, NEW p \in Probers, NEW s \in Services, NEW x, NEW y, NEW z,
           Sets(p, s, x, y, z),
           Holds(x) => HoldsThread(p, s, "full"),
           Holds(y) => HoldsThread(p, s, "probe"),
           Holds(z) => HoldsThread(p, s, "select")
    PROVE  ThreadsAreKept'
<1>1. ASSUME NEW t \in BusyThreads' PROVE t \in BusyThreads
  <2>1. t \in Triples /\ t[1] \in Probers /\ t[2] \in Services /\ t[3] \in Levels
    BY DEF BusyThreads, Triples
  <2>2. Holds(task'[t[1]][t[2]][t[3]])
    BY DEF BusyThreads, HoldsThread, Holds
  <2>3. CASE t[1] = p /\ t[2] = s
    <3>1. HoldsThread(p, s, t[3])
      BY <2>1, <2>2, <2>3 DEF Sets, Levels
    <3> QED BY <2>1, <2>3, <3>1 DEF BusyThreads, Triples
  <2>4. CASE ~(t[1] = p /\ t[2] = s)
    BY <2>1, <2>2, <2>4 DEF Sets, BusyThreads, Triples, HoldsThread, Holds
  <2> QED BY <2>3, <2>4
<1> QED BY <1>1, NoThreadIsTaken

-----------------------------------------------------------------------------
(* A database that answers is heard by all requests under way.               *)
Heard(s) ==
    /\ s \in Databases
    /\ prober' = SeesAnswer(s)
    /\ sinceGood' = [sinceGood EXCEPT ![s] = 0]

(* In a step that takes no time requests at most hear of an answer.          *)
Hears == UNCHANGED <<prober, sinceGood>> \/ \E s \in Services : Heard(s)

(* An answer changes what is recent, and nothing else of a request.          *)
LEMMA WhatIsHeard ==
    ASSUME ReadyIInv, Hears
    PROVE  /\ prober' \in [Probers -> [step : 0 .. Count + 1, left : Nat, took : Nat, ok : SUBSET Services,
                                       recent : SUBSET Services, trouble : BOOLEAN]]
           /\ sinceGood' \in [Databases -> 0 .. LongAgo]
           /\ \A q \in Probers :
                 /\ prober'[q].step = prober[q].step /\ prober'[q].left = prober[q].left
                 /\ prober'[q].took = prober[q].took /\ prober'[q].ok = prober[q].ok
                 /\ prober'[q].trouble = prober[q].trouble /\ prober[q].recent \subseteq prober'[q].recent
                 /\ prober[q].step = 0 => prober'[q] = prober[q]
           /\ \A u \in Databases : sinceGood'[u] = sinceGood[u] \/ sinceGood'[u] = 0
           /\ \A q \in Probers, u \in Databases :
                 IsAsking(q) /\ sinceGood'[u] < LongAgo => u \in prober'[q].recent
<1> DEFINE P == [step : 0 .. Count + 1, left : Nat, took : Nat, ok : SUBSET Services,
                 recent : SUBSET Services, trouble : BOOLEAN]
<1>1. prober \in [Probers -> P] /\ sinceGood \in [Databases -> 0 .. LongAgo]
  BY DEF ReadyIInv, ReadyTypes
<1>2. \A q \in Probers, u \in Databases : IsAsking(q) /\ sinceGood[u] < LongAgo => u \in prober[q].recent
  BY DEF ReadyIInv, RequestIsSound, NewsAreRecent
<1>3. CASE UNCHANGED <<prober, sinceGood>>
  BY <1>1, <1>2, <1>3
<1>4. CASE \E s \in Services : Heard(s)
  <2>1. PICK s \in Services : Heard(s)
    BY <1>4
  <2>2. ASSUME NEW q \in Probers
        PROVE  /\ prober'[q] \in P
               /\ prober'[q].step = prober[q].step /\ prober'[q].left = prober[q].left
               /\ prober'[q].took = prober[q].took /\ prober'[q].ok = prober[q].ok
               /\ prober'[q].trouble = prober[q].trouble
               /\ prober'[q].recent = IF IsAsking(q) THEN prober[q].recent \cup {s} ELSE prober[q].recent
               /\ prober[q].step = 0 => prober'[q] = prober[q]
    <3>1. prober'[q] = IF IsAsking(q) THEN [prober[q] EXCEPT !.recent = @ \cup {s}] ELSE prober[q]
      BY <2>1 DEF Heard, SeesAnswer, IsAsking
    <3>2. prober[q] \in P
      BY <1>1
    <3>3. CASE IsAsking(q)
      <4>1. prober[q].step # 0
        BY <3>3 DEF IsAsking
      <4> QED BY <3>1, <3>2, <3>3, <4>1
    <3>4. CASE ~IsAsking(q)
      BY <3>1, <3>2, <3>4
    <3> QED BY <3>3, <3>4
  <2>3. prober' = [q \in Probers |-> prober'[q]]
    BY <2>1 DEF Heard, SeesAnswer
  <2>4. prober' \in [Probers -> P]
    BY <2>2, <2>3
  <2>5. sinceGood' = [sinceGood EXCEPT ![s] = 0] /\ s \in Databases
    BY <2>1 DEF Heard
  <2>6. sinceGood' \in [Databases -> 0 .. LongAgo]
    BY <1>1, <2>5, WaitsAreNumbers
  <2>7. \A u \in Databases : sinceGood'[u] = IF u = s THEN 0 ELSE sinceGood[u]
    BY <1>1, <2>5
  <2>8. \A q \in Probers, u \in Databases : IsAsking(q) /\ sinceGood'[u] < LongAgo => u \in prober'[q].recent
    BY <1>2, <2>2, <2>7
  <2> QED BY <2>2, <2>4, <2>6, <2>7, <2>8
<1> QED BY <1>3, <1>4 DEF Hears

(* A step of one check leaves the other checks what they were.               *)
LEMMA OtherChecksAreKept ==
    ASSUME ReadyIInv, Hears, UNCHANGED sinceTrouble, NEW q \in Probers, NEW u \in Services,
           \A l \in Levels : task'[q][u][l] = task[q][u][l]
    PROVE  CheckIsSound(q, u)'
<1>1. CheckIsSound(q, u)
  BY DEF ReadyIInv
<1>2. /\ task'[q][u]["full"] = task[q][u]["full"] /\ task'[q][u]["probe"] = task[q][u]["probe"]
      /\ task'[q][u]["select"] = task[q][u]["select"]
  BY DEF Levels
<1>3. /\ prober'[q].step = prober[q].step /\ prober'[q].trouble = prober[q].trouble
      /\ prober[q].recent \subseteq prober'[q].recent
  BY WhatIsHeard
<1>4. CASE u \in Databases
  <2>1. sinceGood'[u] = sinceGood[u] \/ sinceGood'[u] = 0
    BY <1>4, WhatIsHeard
  <2>2. IsPending(q, u)' <=> IsPending(q, u)
    BY <1>3 DEF IsPending
  <2>3. FullIsSound(q, u)'
    BY <1>1, <1>2, <1>3, <1>4, <2>2 DEF CheckIsSound, FullIsSound, TaskAt
  <2>4. ProbeIsSound(q, u)'
    BY <1>1, <1>2, <1>4, <2>1 DEF CheckIsSound, ProbeIsSound, TaskAt
  <2>5. SelectIsSound(q, u)'
    BY <1>1, <1>2, <1>4, <2>1 DEF CheckIsSound, SelectIsSound, TaskAt
  <2> QED BY <1>4, <2>3, <2>4, <2>5 DEF CheckIsSound
<1>5. CASE u \notin Databases
  BY <1>1, <1>2, <1>3, <1>5 DEF CheckIsSound, PingIsSound, IsAsking, TaskAt
<1> QED BY <1>4, <1>5

(* The requests are kept by a step that ends no work they wait for.          *)
LEMMA RequestsAreKept ==
    ASSUME ReadyIInv, Hears, UNCHANGED sinceTrouble, NEW q \in Probers, WorkIsThere(q)'
    PROVE  RequestIsSound(q)'
<1>1. RequestIsSound(q)
  BY DEF ReadyIInv
<1>2. /\ prober'[q].step = prober[q].step /\ prober'[q].left = prober[q].left
      /\ prober'[q].took = prober[q].took /\ prober'[q].ok = prober[q].ok
      /\ prober'[q].trouble = prober[q].trouble /\ prober[q].recent \subseteq prober'[q].recent
      /\ prober[q].step = 0 => prober'[q] = prober[q]
      /\ IsAsking(q) => \A u \in Databases : sinceGood'[u] < LongAgo => u \in prober'[q].recent
  BY WhatIsHeard
<1>3. IsAsking(q)' <=> IsAsking(q)
  BY <1>2 DEF IsAsking
<1>4. TimeIsKept(q)'
  BY <1>1, <1>2, <1>3 DEF RequestIsSound, TimeIsKept
<1>5. NewsAreRecent(q)'
  BY <1>1, <1>2, <1>3 DEF RequestIsSound, NewsAreRecent
<1>6. CalmIsSound(q)'
  BY <1>1, <1>2, <1>3 DEF RequestIsSound, CalmIsSound
<1>7. prober'[q].step = 0 => prober'[q] = NoRequest
  BY <1>1, <1>2 DEF RequestIsSound
<1> QED BY <1>4, <1>5, <1>6, <1>7 DEF RequestIsSound

(* A step of one check, which takes no time.                                 *)
LEMMA CheckStep ==
    ASSUME ReadyIInv, NEW p \in Probers, NEW s \in Services, NEW x, NEW y, NEW z, Sets(p, s, x, y, z),
           Hears, UNCHANGED <<healthy, sinceTrouble>>,
           readyCache' \in [Databases -> [ok : BOOLEAN, age : Nat]], CacheIsSound',
           Lists(line, Waiting)', ThreadsAreKept', CheckIsSound(p, s)',
           s \in Databases /\ IsPending(p, s) /\ x.pc = "none" => TaskAt(p, s, "full", "none"),
           s \notin Databases => ~TaskAt(p, s, "probe", "none"),
           s \notin Databases /\ IsAsking(p) /\ Order[prober[p].step] = s => y.pc # "none"
    PROVE  ReadyIInv'
<1>1. ReadyTypes' /\ LineIsKept'
  <2>1. line' \in Seq(Triples) /\ LineIsKept'
    <3>1. (Lists(line, Waiting) => line \in Seq(Triples) /\ LineIsKept)'
      BY ListedLineIsKept, PTL
    <3>2. Triples' = Triples
      BY DEF Triples
    <3> QED BY <3>1, <3>2
  <2> QED BY <2>1, WhatIsHeard DEF ReadyIInv, ReadyTypes, Sets, Triples
<1>2. ASSUME NEW q \in Probers, NEW u \in Services PROVE CheckIsSound(q, u)'
  <2>1. CASE q = p /\ u = s
    BY <2>1
  <2>2. CASE ~(q = p /\ u = s)
    <3>1. \A l \in Levels : task'[q][u][l] = task[q][u][l]
      BY <2>2 DEF Sets
    <3> QED BY <3>1, OtherChecksAreKept
  <2> QED BY <2>1, <2>2
<1>3. ASSUME NEW q \in Probers PROVE RequestIsSound(q)'
  <2>1. WorkIsThere(q)'
    <3>1. prober'[q].step = prober[q].step
      BY WhatIsHeard
    <3>2. WorkIsThere(q)
      BY DEF ReadyIInv, RequestIsSound
    <3>3. SUFFICES ASSUME IsAsking(q), NEW i \in 1 .. Count
                   PROVE  IF Order[i] \in Databases
                          THEN i >= prober[q].step => task'[q][Order[i]]["full"].pc # "none"
                          ELSE /\ i = prober[q].step => task'[q][Order[i]]["probe"].pc # "none"
                               /\ i > prober[q].step => task'[q][Order[i]]["probe"].pc = "none"
      BY <3>1 DEF WorkIsThere, IsAsking, TaskAt
    <3>4. Order[i] \in Services /\ DOMAIN Order = 1 .. Count
      BY OrderIsFinite
    <3>5. IF Order[i] \in Databases
          THEN i >= prober[q].step => task[q][Order[i]]["full"].pc # "none"
          ELSE /\ i = prober[q].step => task[q][Order[i]]["probe"].pc # "none"
               /\ i > prober[q].step => task[q][Order[i]]["probe"].pc = "none"
      BY <3>2, <3>3 DEF WorkIsThere, TaskAt
    <3>6. CASE q # p \/ Order[i] # s
      <4>1. task'[q][Order[i]]["full"] = task[q][Order[i]]["full"]
            /\ task'[q][Order[i]]["probe"] = task[q][Order[i]]["probe"]
        BY <3>4, <3>6 DEF Sets, Levels
      <4> QED BY <3>5, <4>1
    <3>7. CASE q = p /\ Order[i] = s /\ s \in Databases
      <4>1. i >= prober[p].step => IsPending(p, s)
        BY <3>3, <3>4, <3>7 DEF IsPending, IsAsking
      <4> QED BY <3>5, <3>7, <4>1 DEF Sets, TaskAt
    <3>8. CASE q = p /\ Order[i] = s /\ s \notin Databases
      BY <3>3, <3>5, <3>8 DEF Sets, TaskAt
    <3> QED BY <3>6, <3>7, <3>8
  <2> QED BY <2>1, RequestsAreKept
<1> QED BY <1>1, <1>2, <1>3 DEF ReadyIInv

-----------------------------------------------------------------------------
(* The types of tasks: those that are there, that are new, that end.         *)
LEMMA TasksAreTasks ==
    ASSUME ReadyTypes, NEW p \in Probers, NEW s \in Services
    PROVE  /\ \A l \in Levels : task[p][s][l] \in Tasks
           /\ task[p][s]["full"] \in Tasks /\ task[p][s]["probe"] \in Tasks /\ task[p][s]["select"] \in Tasks
  BY DEF ReadyTypes, Levels

LEMMA NewTasks ==
    /\ NoTask \in Tasks /\ NoTask.pc = "none"
    /\ Queued \in Tasks /\ Queued.pc = "queued"
    /\ \A t \in Nat : Waits(t) \in Tasks /\ Waits(t).pc = "waits" /\ Waits(t).left = t
  BY DEF NoTask, Queued, Waits, Tasks

LEMMA TasksThatEnd ==
    ASSUME NEW p, NEW s, NEW l, NEW ok \in BOOLEAN
    PROVE  /\ Ended(p, s, l, ok) \in Tasks
           /\ Wanted(p, s, l) => Ended(p, s, l, ok).pc = "returned" /\ Ended(p, s, l, ok).ok = ok
           /\ ~Wanted(p, s, l) => Ended(p, s, l, ok).pc = "none"
<1>1. CASE Wanted(p, s, l)
  BY <1>1 DEF Ended, NoTask, Tasks
<1>2. CASE ~Wanted(p, s, l)
  BY <1>2 DEF Ended, NoTask, Tasks
<1> QED BY <1>1, <1>2

(* Who takes the result of a task, by its level.                             *)
LEMMA WhoWants ==
    ASSUME NEW p, NEW s
    PROVE  /\ Wanted(p, s, "full") <=> IsPending(p, s)
           /\ s \in Databases => (Wanted(p, s, "probe") <=> TaskAt(p, s, "full", "waits"))
           /\ s \notin Databases =>
                 (Wanted(p, s, "probe") <=> IsAsking(p) /\ Order[prober[p].step] = s)
           /\ Wanted(p, s, "select") <=> TaskAt(p, s, "probe", "waits")
<1>1. Wanted(p, s, "full") <=> IsPending(p, s)
  BY DEF Wanted, IsPending
<1>2. s \in Databases => (Wanted(p, s, "probe") <=> TaskAt(p, s, "full", "waits"))
  BY DEF Wanted
<1>3. s \notin Databases => (Wanted(p, s, "probe") <=> IsAsking(p) /\ Order[prober[p].step] = s)
  BY DEF Wanted, IsAsking
<1>4. Wanted(p, s, "select") <=> TaskAt(p, s, "probe", "waits")
  BY DEF Wanted
<1> QED BY <1>1, <1>2, <1>3, <1>4

(* A task that is cancelled is gone, or a thread goes on with it.            *)
LEMMA CancelledTasks ==
    ASSUME ReadyTypes, NEW p \in Probers, NEW s \in Services, NEW l \in Levels
    PROVE  /\ Cancelled(p, s, l) \in Tasks
           /\ task[p][s][l].pc \in {"queued", "returned"} => Cancelled(p, s, l) = NoTask
           /\ task[p][s][l].pc \notin {"queued", "returned"} => Cancelled(p, s, l) = task[p][s][l]
  BY TasksAreTasks, NewTasks DEF Cancelled, TaskAt

(* The line and the work that waits, of one check.                           *)
LEMMA LineOfOneCheck ==
    ASSUME ReadyIInv, NEW p \in Probers, NEW s \in Services, NEW x, NEW y, NEW z, Sets(p, s, x, y, z)
    PROVE  /\ \A t \in Triples : t[1] # p \/ t[2] # s => (t \in Waiting' <=> t \in Waiting)
           /\ <<p, s, "full">> \in Waiting' <=> x.pc = "queued"
           /\ <<p, s, "probe">> \in Waiting' <=> y.pc = "queued"
           /\ <<p, s, "select">> \in Waiting' <=> z.pc = "queued"
           /\ \A l \in Levels : <<p, s, l>> \in Triples /\ (<<p, s, l>> \in Waiting <=> TaskAt(p, s, l, "queued"))
           /\ Waiting \subseteq Triples /\ Waiting' \subseteq Triples
           /\ \A t \in Triples : t[1] = p /\ t[2] = s =>
                 t \in {<<p, s, "full">>, <<p, s, "probe">>, <<p, s, "select">>}
<1>1. ReadyTypes
  BY DEF ReadyIInv
<1>2. \A t \in Triples : t[1] # p \/ t[2] # s => (t \in Waiting' <=> t \in Waiting)
  BY <1>1, WaitingOfOneCheck
<1>3. <<p, s, "full">> \in Triples /\ <<p, s, "probe">> \in Triples /\ <<p, s, "select">> \in Triples
  BY DEF Triples, Levels
<1>4. <<p, s, "full">> \in Waiting' <=> x.pc = "queued"
  BY <1>1, <1>3, WaitingOfOneCheck
<1>5. <<p, s, "probe">> \in Waiting' <=> y.pc = "queued"
  BY <1>1, <1>3, WaitingOfOneCheck
<1>6. <<p, s, "select">> \in Waiting' <=> z.pc = "queued"
  BY <1>1, <1>3, WaitingOfOneCheck
<1>7. \A l \in Levels : <<p, s, l>> \in Triples /\ (<<p, s, l>> \in Waiting <=> TaskAt(p, s, l, "queued"))
  BY DEF Waiting, Triples, TaskAt
<1>8. Waiting \subseteq Triples /\ Waiting' \subseteq Triples
  BY DEF Waiting, Triples
<1>9. \A t \in Triples : t[1] = p /\ t[2] = s =>
         t \in {<<p, s, "full">>, <<p, s, "probe">>, <<p, s, "select">>}
  BY DEF Triples, Levels
<1> QED BY <1>2, <1>4, <1>5, <1>6, <1>7, <1>8, <1>9

(* A line that lists what waits after a step of one check.                   *)
LEMMA WhatWaits ==
    ASSUME ReadyIInv, NEW p \in Probers, NEW s \in Services, NEW x, NEW y, NEW z, Sets(p, s, x, y, z),
           NEW W \in SUBSET Triples,
           \A t \in Triples : t[1] # p \/ t[2] # s => (t \in W <=> t \in Waiting),
           <<p, s, "full">> \in W <=> x.pc = "queued",
           <<p, s, "probe">> \in W <=> y.pc = "queued",
           <<p, s, "select">> \in W <=> z.pc = "queued",
           Lists(line', W)
    PROVE  Lists(line, Waiting)'
<1>1. ASSUME NEW t \in Triples PROVE t \in Waiting' <=> t \in W
  <2>1. CASE t[1] # p \/ t[2] # s
    BY <2>1, LineOfOneCheck
  <2>2. CASE t = <<p, s, "full">>
    <3>1. <<p, s, "full">> \in Waiting' <=> x.pc = "queued"
      BY LineOfOneCheck
    <3> QED BY <2>2, <3>1
  <2>3. CASE t = <<p, s, "probe">>
    <3>1. <<p, s, "probe">> \in Waiting' <=> y.pc = "queued"
      BY LineOfOneCheck
    <3> QED BY <2>3, <3>1
  <2>4. CASE t = <<p, s, "select">>
    <3>1. <<p, s, "select">> \in Waiting' <=> z.pc = "queued"
      BY LineOfOneCheck
    <3> QED BY <2>4, <3>1
  <2>5. t[1] = p /\ t[2] = s => t \in {<<p, s, "full">>, <<p, s, "probe">>, <<p, s, "select">>}
    BY LineOfOneCheck
  <2> QED BY <2>1, <2>2, <2>3, <2>4, <2>5
<1>2. Waiting' \subseteq Triples
  BY LineOfOneCheck
<1>3. Waiting' = W
  BY <1>1, <1>2
<1> QED BY <1>3 DEF Lists

(* Nothing of the check begins to wait or ceases to.                         *)
LEMMA LineStays ==
    ASSUME ReadyIInv, NEW p \in Probers, NEW s \in Services, NEW x, NEW y, NEW z, Sets(p, s, x, y, z),
           x.pc = "queued" <=> TaskAt(p, s, "full", "queued"),
           y.pc = "queued" <=> TaskAt(p, s, "probe", "queued"),
           z.pc = "queued" <=> TaskAt(p, s, "select", "queued"),
           UNCHANGED line
    PROVE  Lists(line, Waiting)'
<1>1. Lists(line', Waiting)
  <2>1. Lists(line, Waiting)
    BY LineListsWaiting DEF ReadyIInv
  <2> QED BY <2>1
<1>2. \A l \in Levels : <<p, s, l>> \in Waiting <=> TaskAt(p, s, l, "queued")
  BY LineOfOneCheck
<1>3. /\ <<p, s, "full">> \in Waiting <=> x.pc = "queued"
      /\ <<p, s, "probe">> \in Waiting <=> y.pc = "queued"
      /\ <<p, s, "select">> \in Waiting <=> z.pc = "queued"
  BY <1>2 DEF Levels
<1>4. Waiting \in SUBSET Triples
  BY DEF Waiting
<1> QED BY <1>1, <1>3, <1>4, WhatWaits

(* Work of one level is put at the end of the line.                          *)
LEMMA LineGrows ==
    ASSUME ReadyIInv, NEW p \in Probers, NEW s \in Services, NEW x, NEW y, NEW z, Sets(p, s, x, y, z),
           NEW l \in Levels, ~TaskAt(p, s, l, "queued"), line' = Append(line, <<p, s, l>>),
           x.pc = "queued" <=> l = "full" \/ TaskAt(p, s, "full", "queued"),
           y.pc = "queued" <=> l = "probe" \/ TaskAt(p, s, "probe", "queued"),
           z.pc = "queued" <=> l = "select" \/ TaskAt(p, s, "select", "queued")
    PROVE  Lists(line, Waiting)'
<1> DEFINE W == Waiting \cup {<<p, s, l>>}
<1>1. Lists(line, Waiting)
  BY LineListsWaiting DEF ReadyIInv
<1>2. \A m \in Levels : <<p, s, m>> \in Triples /\ (<<p, s, m>> \in Waiting <=> TaskAt(p, s, m, "queued"))
  BY LineOfOneCheck
<1>3. Lists(line', W)
  <2>1. <<p, s, l>> \notin Waiting
    BY <1>2
  <2>2. Lists(Append(line, <<p, s, l>>), Waiting \cup {<<p, s, l>>})
    BY <1>1, <2>1, AppendLists
  <2> QED BY <2>2
<1>4. \A m \in Levels : <<p, s, m>> \in W <=> m = l \/ TaskAt(p, s, m, "queued")
  BY <1>2
<1>5. W \in SUBSET Triples /\ \A t \in Triples : t[1] # p \/ t[2] # s => (t \in W <=> t \in Waiting)
  BY <1>2 DEF Waiting
<1> HIDE DEF W
<1>6. /\ <<p, s, "full">> \in W <=> x.pc = "queued"
      /\ <<p, s, "probe">> \in W <=> y.pc = "queued"
      /\ <<p, s, "select">> \in W <=> z.pc = "queued"
  BY <1>4 DEF Levels
<1> QED BY <1>3, <1>5, <1>6, WhatWaits

(* Work of one level is taken out of the line.                               *)
LEMMA LineShrinks ==
    ASSUME ReadyIInv, NEW p \in Probers, NEW s \in Services, NEW x, NEW y, NEW z, Sets(p, s, x, y, z),
           NEW l \in Levels, line' = Without(<<p, s, l>>),
           x.pc = "queued" <=> l # "full" /\ TaskAt(p, s, "full", "queued"),
           y.pc = "queued" <=> l # "probe" /\ TaskAt(p, s, "probe", "queued"),
           z.pc = "queued" <=> l # "select" /\ TaskAt(p, s, "select", "queued")
    PROVE  Lists(line, Waiting)'
<1> DEFINE W == Waiting \ {<<p, s, l>>}
<1>1. Lists(line, Waiting)
  BY LineListsWaiting DEF ReadyIInv
<1>2. \A m \in Levels : <<p, s, m>> \in Triples /\ (<<p, s, m>> \in Waiting <=> TaskAt(p, s, m, "queued"))
  BY LineOfOneCheck
<1>3. Lists(line', W)
  <2>1. Lists(Without(<<p, s, l>>), Waiting \ {<<p, s, l>>})
    BY <1>1, WithoutLists
  <2> QED BY <2>1
<1>4. \A m \in Levels : <<p, s, m>> \in W <=> m # l /\ TaskAt(p, s, m, "queued")
  BY <1>2
<1>5. W \in SUBSET Triples /\ \A t \in Triples : t[1] # p \/ t[2] # s => (t \in W <=> t \in Waiting)
  BY <1>2 DEF Waiting
<1> HIDE DEF W
<1>6. /\ <<p, s, "full">> \in W <=> x.pc = "queued"
      /\ <<p, s, "probe">> \in W <=> y.pc = "queued"
      /\ <<p, s, "select">> \in W <=> z.pc = "queued"
  BY <1>4 DEF Levels
<1> QED BY <1>3, <1>5, <1>6, WhatWaits

-----------------------------------------------------------------------------
(* Who has still to wait for a service is asking.                            *)
LEMMA PendingIsAsking ==
    ASSUME ReadyTypes, NEW p \in Probers, NEW s \in Services, IsPending(p, s)
    PROVE  IsAsking(p) /\ prober[p].step > 0
<1>1. PICK i \in DOMAIN Order : prober[p].step \in 1 .. i
  BY DEF IsPending
<1>2. i \in 1 .. Count /\ Count \in Nat
  BY OrderIsFinite
<1> QED BY <1>1, <1>2 DEF IsAsking

(* Who asks while something went wrong lately had trouble.                   *)
LEMMA TroubleIsNoted ==
    ASSUME ReadyIInv, NEW p \in Probers, IsAsking(p), sinceTrouble < LongAgo
    PROVE  prober[p].trouble
<1>1. prober[p].step > 0 /\ sinceTrouble # LongAgo
  BY WaitsAreNumbers, OrderIsFinite DEF IsAsking, ReadyIInv, ReadyTypes
<1> QED BY <1>1 DEF ReadyIInv, RequestIsSound, CalmIsSound

(* The cache is sound as long as nothing is stored and no time passes.       *)
LEMMA CacheStays ==
    ASSUME ReadyIInv, Hears, UNCHANGED <<healthy, readyCache, sinceTrouble>>
    PROVE  CacheIsSound'
<1>1. CacheIsSound
  BY DEF ReadyIInv
<1>2. \A s \in Databases : sinceGood'[s] = sinceGood[s] \/ sinceGood'[s] = 0
  BY WhatIsHeard
<1>3. \A s \in Databases : readyCache[s].age \in Nat
  BY DEF ReadyIInv, ReadyTypes
<1> QED BY <1>1, <1>2, <1>3 DEF CacheIsSound

(* A thread that looks after a database says what is in the cache, or asks.  *)
LEMMA LookInCacheKeepsReady ==
    ASSUME ReadyIInv, NEW p \in Probers, NEW s \in Databases, LookInCache(p, s)
    PROVE  ReadyIInv'
<1>1. s \in Services /\ ReadyTypes /\ Hears /\ UNCHANGED <<healthy, readyCache, sinceTrouble>>
  BY OrderIsFinite DEF ReadyIInv, Hears, LookInCache
<1>2. /\ TaskAt(p, s, "full", "runs") /\ TaskAt(p, s, "probe", "none") /\ TaskAt(p, s, "select", "none")
  BY <1>1 DEF LookInCache, ReadyIInv, CheckIsSound, FullIsSound, TaskAt
<1>3. task[p][s]["full"] \in Tasks /\ task[p][s]["probe"] \in Tasks /\ task[p][s]["select"] \in Tasks
  BY <1>1, TasksAreTasks
<1>4. CacheIsSound' /\ readyCache' \in [Databases -> [ok : BOOLEAN, age : Nat]]
  BY <1>1, CacheStays DEF ReadyTypes
<1>5. ThreadsAreKept
  BY DEF ReadyIInv
<1>6. readyCache[s].ok \in BOOLEAN /\ readyCache[s].age \in Nat
  BY <1>1 DEF ReadyTypes
<1>7. CASE Fresh(s)
  <2> DEFINE x == Ended(p, s, "full", readyCache[s].ok)
             y == task[p][s]["probe"]
             z == task[p][s]["select"]
  <2>1. task' = [task EXCEPT ![p][s]["full"] = x] /\ UNCHANGED line
    BY <1>7 DEF LookInCache
  <2>2. /\ x \in Tasks
        /\ IsPending(p, s) => x.pc = "returned" /\ x.ok = readyCache[s].ok
        /\ ~IsPending(p, s) => x.pc = "none"
    BY <1>6, TasksThatEnd, WhoWants
  <2>3. x.pc \in {"returned", "none"}
    BY <2>2
  <2>4. y.pc = "none" /\ z.pc = "none"
    BY <1>2 DEF TaskAt
  <2> HIDE DEF x, y, z
  <2>5. Sets(p, s, x, y, z)
    <3>1. "full" \in Levels
      BY DEF Levels
    <3> QED BY <1>1, <2>1, <2>2, <3>1, OneTaskIsSet DEF y, z
  <2>6. Lists(line, Waiting)'
    BY <1>1, <1>2, <2>1, <2>3, <2>4, <2>5, LineStays DEF TaskAt
  <2>7. ThreadsAreKept'
    BY <1>1, <1>5, <2>3, <2>4, <2>5, ThreadsOfOneCheck DEF Holds
  <2>8. CheckIsSound(p, s)'
    <3>1. task'[p][s]["full"] = x /\ task'[p][s]["probe"].pc = "none" /\ task'[p][s]["select"].pc = "none"
      BY <2>4, <2>5 DEF Sets
    <3>2. x.pc = "returned" => IsPending(p, s)' /\ IF x.ok THEN s \in prober'[p].recent ELSE prober'[p].trouble
      <4>1. SUFFICES ASSUME IsPending(p, s), x.ok = readyCache[s].ok
                     PROVE  IF x.ok THEN s \in prober'[p].recent ELSE prober'[p].trouble
        BY <2>2 DEF LookInCache, IsPending
      <4>2. IsAsking(p) /\ UNCHANGED prober
        BY <1>1, <4>1, PendingIsAsking DEF LookInCache
      <4>3. readyCache[s].age < CacheFor /\ CacheFor < LongAgo /\ CacheFor \in Nat /\ LongAgo \in Nat
        BY <1>7, WaitsAreNumbers DEF Fresh
      <4>4. sinceTrouble \in Nat /\ sinceGood[s] \in Nat
        BY <1>1, WaitsAreNumbers DEF ReadyTypes
      <4>5. CASE readyCache[s].ok
        <5>1. sinceGood[s] < LongAgo
          BY <1>6, <4>3, <4>4, <4>5 DEF ReadyIInv, CacheIsSound
        <5> QED BY <4>1, <4>2, <4>5, <5>1 DEF ReadyIInv, RequestIsSound, NewsAreRecent
      <4>6. CASE ~readyCache[s].ok
        <5>1. sinceTrouble < LongAgo
          BY <1>6, <4>3, <4>4, <4>6 DEF ReadyIInv, CacheIsSound
        <5> QED BY <4>1, <4>2, <4>6, <5>1, TroubleIsNoted
      <4> QED BY <4>5, <4>6
    <3> QED BY <2>3, <3>1, <3>2 DEF CheckIsSound, FullIsSound, ProbeIsSound, SelectIsSound, TaskAt
  <2>9. IsPending(p, s) /\ x.pc = "none" => FALSE
    BY <2>2
  <2> QED BY <1>1, <1>4, <2>5, <2>6, <2>7, <2>8, <2>9, CheckStep
<1>8. CASE ~Fresh(s)
  <2> DEFINE x == Waits(ProbeWait[s])
             y == Queued
             z == task[p][s]["select"]
  <2>1. task' = [task EXCEPT ![p][s]["full"] = x, ![p][s]["probe"] = y] /\ line' = Append(line, <<p, s, "probe">>)
    BY <1>8 DEF LookInCache
  <2>2. x \in Tasks /\ x.pc = "waits" /\ x.left = ProbeWait[s] /\ y \in Tasks /\ y.pc = "queued" /\ z.pc = "none"
        /\ ProbeWait[s] \in Nat
    BY <1>1, <1>2, NewTasks, WaitsAreNumbers DEF TaskAt
  <2> HIDE DEF x, y, z
  <2>3. Sets(p, s, x, y, z)
    <3>1. "full" \in Levels /\ "probe" \in Levels
      BY DEF Levels
    <3> QED BY <1>1, <2>1, <2>2, <3>1, TwoTasksAreSet DEF z
  <2>4. Lists(line, Waiting)'
    <3>1. "probe" \in Levels
      BY DEF Levels
    <3> QED BY <1>1, <1>2, <2>1, <2>2, <2>3, <3>1, LineGrows DEF TaskAt
  <2>5. ThreadsAreKept'
    BY <1>1, <1>2, <1>5, <2>2, <2>3, ThreadsOfOneCheck DEF Holds, HoldsThread, TaskAt
  <2>6. CheckIsSound(p, s)'
    <3>1. task'[p][s]["full"] = x /\ task'[p][s]["probe"] = y /\ task'[p][s]["select"] = z
      BY <2>3 DEF Sets
    <3> QED BY <2>2, <3>1 DEF CheckIsSound, FullIsSound, ProbeIsSound, SelectIsSound, TaskAt
  <2> QED BY <1>1, <1>4, <2>2, <2>3, <2>4, <2>5, <2>6, CheckStep
<1> QED BY <1>7, <1>8

(* A verdict that is true in this tick, of a request that waits for it, is   *)
(* recent, or there was trouble.                                             *)
LEMMA VerdictIsSound ==
    ASSUME ReadyIInv, NEW p \in Probers, NEW s \in Databases, IsPending(p, s), NEW ok \in BOOLEAN,
           IF ok THEN sinceGood[s] = 0 ELSE sinceTrouble = 0
    PROVE  IF ok THEN s \in prober[p].recent ELSE prober[p].trouble
<1>1. IsAsking(p)
  BY OrderIsFinite, PendingIsAsking DEF ReadyIInv
<1>2. 0 < LongAgo
  BY WaitsAreNumbers
<1>3. CASE ok
  BY <1>1, <1>2, <1>3 DEF ReadyIInv, RequestIsSound, NewsAreRecent
<1>4. CASE ~ok
  BY <1>1, <1>2, <1>4, TroubleIsNoted
<1> QED BY <1>3, <1>4

(* What a probe said, or that it was late, is stored with the time before it. *)
LEMMA KeepVerdictKeepsReady ==
    ASSUME ReadyIInv, NEW p \in Probers, NEW s \in Databases, KeepVerdict(p, s)
    PROVE  ReadyIInv'
<1> DEFINE full == task[p][s]["full"]
           probe == task[p][s]["probe"]
           ok == probe.pc = "returned" /\ probe.ok
           x == Ended(p, s, "full", ok)
           y == Cancelled(p, s, "probe")
           z == task[p][s]["select"]
<1>1. s \in Services /\ ReadyTypes /\ Hears /\ UNCHANGED <<healthy, prober, sinceGood, sinceTrouble>>
  BY OrderIsFinite DEF ReadyIInv, Hears, KeepVerdict
<1>2. full \in Tasks /\ probe \in Tasks /\ z \in Tasks /\ ok \in BOOLEAN
  BY <1>1, TasksAreTasks
<1>3. /\ full.pc = "waits" /\ (probe.pc # "returned" => full.left = 0)
      /\ readyCache' = [readyCache EXCEPT ![s] = [ok |-> ok, age |-> ProbeWait[s] - full.left]]
      /\ task' = [task EXCEPT ![p][s]["full"] = x, ![p][s]["probe"] = y]
      /\ line' = Without(<<p, s, "probe">>)
  BY DEF KeepVerdict
<1>4. /\ probe.pc # "none" /\ full.left <= ProbeWait[s] /\ (full.left = ProbeWait[s] \/ sinceTrouble = 0)
      /\ probe.pc \in {"queued", "runs"} => z.pc = "none"
      /\ probe.pc = "waits" => z.pc # "none" /\ (probe.left = SelectWait \/ sinceTrouble = 0)
      /\ probe.pc = "returned" => IF probe.ok THEN sinceGood[s] = 0 ELSE sinceTrouble = 0
      /\ z.pc # "waits"
      /\ z.pc = "returned" => probe.pc = "waits" /\ IF z.ok THEN sinceGood[s] = 0 ELSE sinceTrouble = 0
  BY <1>1, <1>3 DEF ReadyIInv, CheckIsSound, FullIsSound, ProbeIsSound, SelectIsSound, TaskAt
<1>5. ProbeWait[s] \in Nat \ {0} /\ full.left \in Nat
  BY <1>1, <1>2, WaitsAreNumbers DEF Tasks
<1>6. IF ok THEN sinceGood[s] = 0 ELSE sinceTrouble = 0
  BY <1>3, <1>4, <1>5
<1>7. /\ x \in Tasks
      /\ IsPending(p, s) => x.pc = "returned" /\ x.ok = ok
      /\ ~IsPending(p, s) => x.pc = "none"
  BY <1>2, TasksThatEnd, WhoWants
<1>8. /\ y \in Tasks
      /\ probe.pc \in {"queued", "returned"} => y.pc = "none"
      /\ probe.pc \notin {"queued", "returned"} => y = probe
  BY <1>1, CancelledTasks, NewTasks DEF Levels
<1> HIDE DEF full, probe, ok, x, y, z
<1>9. Sets(p, s, x, y, z)
  <2>1. "full" \in Levels /\ "probe" \in Levels
    BY DEF Levels
  <2> QED BY <1>1, <1>3, <1>7, <1>8, <2>1, TwoTasksAreSet DEF z
<1>10. x.pc \in {"returned", "none"} /\ y.pc \in {"none", "runs", "waits"}
  BY <1>2, <1>4, <1>7, <1>8 DEF Tasks
<1>11. Lists(line, Waiting)'
  <2>1. "probe" \in Levels
    BY DEF Levels
  <2>2. x.pc = "queued" <=> "probe" # "full" /\ TaskAt(p, s, "full", "queued")
    BY <1>3, <1>10 DEF full, TaskAt
  <2>3. y.pc = "queued" <=> "probe" # "probe" /\ TaskAt(p, s, "probe", "queued")
    BY <1>10
  <2>4. z.pc = "queued" <=> "probe" # "select" /\ TaskAt(p, s, "select", "queued")
    BY DEF z, TaskAt
  <2> QED BY <1>1, <1>3, <1>9, <2>1, <2>2, <2>3, <2>4, LineShrinks
<1>12. ThreadsAreKept'
  <2>1. Holds(y) => HoldsThread(p, s, "probe")
    BY <1>8, <1>10 DEF Holds, HoldsThread, probe
  <2>2. ~Holds(x) /\ (Holds(z) => HoldsThread(p, s, "select"))
    BY <1>10 DEF Holds, HoldsThread, z
  <2> QED BY <1>1, <1>9, <2>1, <2>2, ThreadsOfOneCheck DEF ReadyIInv
<1>13. readyCache' \in [Databases -> [ok : BOOLEAN, age : Nat]]
  <2>1. ProbeWait[s] - full.left \in Nat
    BY <1>4, <1>5
  <2> QED BY <1>1, <1>2, <1>3, <2>1 DEF ReadyTypes
<1>14. CacheIsSound'
  <2>1. /\ readyCache'[s] = [ok |-> ok, age |-> ProbeWait[s] - full.left]
        /\ \A u \in Databases : u # s => readyCache'[u] = readyCache[u]
    BY <1>1, <1>3 DEF ReadyTypes
  <2>2. ProbeWait[s] - full.left >= 0
    BY <1>4, <1>5
  <2>3. IF readyCache'[s].ok THEN sinceGood'[s] <= readyCache'[s].age ELSE sinceTrouble' <= readyCache'[s].age
    BY <1>1, <1>6, <2>1, <2>2
  <2> QED BY <1>1, <2>1, <2>3 DEF ReadyIInv, CacheIsSound
<1>15. CheckIsSound(p, s)'
  <2>1. task'[p][s]["full"] = x /\ task'[p][s]["probe"] = y /\ task'[p][s]["select"] = z
    BY <1>9 DEF Sets
  <2>2. x.pc = "returned" => IsPending(p, s)' /\ IF x.ok THEN s \in prober'[p].recent ELSE prober'[p].trouble
    BY <1>1, <1>2, <1>6, <1>7, VerdictIsSound DEF IsPending
  <2>3. FullIsSound(p, s)'
    BY <1>10, <2>1, <2>2 DEF FullIsSound, TaskAt
  <2>4. ProbeIsSound(p, s)'
    BY <1>1, <1>4, <1>8, <1>10, <2>1 DEF ProbeIsSound, TaskAt
  <2>5. SelectIsSound(p, s)'
    BY <1>1, <1>4, <1>8, <2>1 DEF SelectIsSound, TaskAt
  <2> QED BY <2>3, <2>4, <2>5 DEF CheckIsSound
<1>16. s \in Databases /\ IsPending(p, s) /\ x.pc = "none" => TaskAt(p, s, "full", "none")
  BY <1>7
<1>17. UNCHANGED <<healthy, sinceTrouble>>
  BY <1>1
<1> QED BY <1>1, <1>9, <1>11, <1>12, <1>13, <1>14, <1>15, <1>16, <1>17, CheckStep

(* What RunSelect, SelectReturns, Answers and Fails have in common: the      *)
(* cache and those that are healthy are left alone.                          *)
LEMMA ProbeStep ==
    ASSUME ReadyIInv, NEW p \in Probers, NEW s \in Databases, NEW y \in Tasks, NEW z \in Tasks,
           Sets(p, s, task[p][s]["full"], y, z),
           Hears, UNCHANGED <<healthy, readyCache, sinceTrouble>>,
           Lists(line, Waiting)',
           Holds(y) => HoldsThread(p, s, "probe"), Holds(z) => HoldsThread(p, s, "select"),
           TaskAt(p, s, "full", "waits") => y.pc # "none",
           task[p][s]["full"].pc \in {"queued", "runs"} => y.pc = "none" /\ z.pc = "none",
           ProbeIsSound(p, s)', SelectIsSound(p, s)'
    PROVE  ReadyIInv'
<1> DEFINE x == task[p][s]["full"]
<1>1. s \in Services /\ ReadyTypes
  BY OrderIsFinite DEF ReadyIInv
<1>2. CacheIsSound' /\ readyCache' \in [Databases -> [ok : BOOLEAN, age : Nat]]
  BY <1>1, CacheStays DEF ReadyTypes
<1>3. ThreadsAreKept'
  <2>1. Holds(x) => HoldsThread(p, s, "full")
    BY DEF Holds, HoldsThread
  <2> HIDE DEF x
  <2> QED BY <1>1, <2>1, ThreadsOfOneCheck DEF ReadyIInv, x
<1>4. FullIsSound(p, s)'
  <2>1. FullIsSound(p, s)
    BY <1>1 DEF ReadyIInv, CheckIsSound
  <2>2. task'[p][s]["full"] = task[p][s]["full"] /\ task'[p][s]["probe"] = y /\ task'[p][s]["select"] = z
    BY DEF Sets
  <2>3. prober'[p].step = prober[p].step /\ prober'[p].trouble = prober[p].trouble
        /\ prober[p].recent \subseteq prober'[p].recent
    BY WhatIsHeard
  <2>4. IsPending(p, s)' <=> IsPending(p, s)
    BY <2>3 DEF IsPending
  <2> QED BY <2>1, <2>2, <2>3, <2>4 DEF FullIsSound, TaskAt
<1>5. CheckIsSound(p, s)'
  BY <1>4 DEF CheckIsSound
<1>6. x.pc = "none" => TaskAt(p, s, "full", "none")
  BY DEF TaskAt
<1> QED BY <1>1, <1>2, <1>3, <1>5, <1>6, CheckStep

(* The parts of the checks of a database, and what they say of its tasks.    *)
LEMMA ChecksOfDatabases ==
    ASSUME ReadyIInv, NEW p \in Probers, NEW s \in Databases
    PROVE  /\ s \in Services /\ ReadyTypes
           /\ FullIsSound(p, s) /\ ProbeIsSound(p, s) /\ SelectIsSound(p, s)
           /\ task[p][s]["full"] \in Tasks /\ task[p][s]["probe"] \in Tasks /\ task[p][s]["select"] \in Tasks
           /\ healthy # Services => sinceTrouble = 0
<1>1. s \in Services /\ ReadyTypes
  BY OrderIsFinite DEF ReadyIInv
<1>2. FullIsSound(p, s) /\ ProbeIsSound(p, s) /\ SelectIsSound(p, s)
  BY <1>1 DEF ReadyIInv, CheckIsSound
<1> QED BY <1>1, <1>2, TasksAreTasks DEF ReadyIInv, CacheIsSound

(* A probe finds no service, or hands SELECT to another thread.              *)
LEMMA RunSelectKeepsReady ==
    ASSUME ReadyIInv, NEW p \in Probers, NEW s \in Services, RunSelect(p, s)
    PROVE  ReadyIInv'
<1>1. s \in Databases /\ TaskAt(p, s, "probe", "runs") /\ ReadyTypes
      /\ Hears /\ UNCHANGED <<healthy, readyCache, prober, sinceGood, sinceTrouble>>
  BY DEF RunSelect, Hears, ReadyIInv
<1>2. /\ task[p][s]["full"] \in Tasks /\ task[p][s]["probe"] \in Tasks /\ task[p][s]["select"] \in Tasks
      /\ TaskAt(p, s, "select", "none") /\ task[p][s]["full"].pc \notin {"queued", "runs"}
      /\ healthy # Services => sinceTrouble = 0
  BY <1>1, ChecksOfDatabases DEF FullIsSound, ProbeIsSound, TaskAt
<1>3. "probe" \in Levels /\ "select" \in Levels
  BY DEF Levels
<1>4. ASSUME s \notin healthy, task' = [task EXCEPT ![p][s]["probe"] = Ended(p, s, "probe", FALSE)], UNCHANGED line
      PROVE  ReadyIInv'
  <2> DEFINE y == Ended(p, s, "probe", FALSE)
             z == task[p][s]["select"]
  <2>1. /\ y \in Tasks
        /\ TaskAt(p, s, "full", "waits") => y.pc = "returned" /\ y.ok = FALSE
        /\ ~TaskAt(p, s, "full", "waits") => y.pc = "none"
    BY <1>1, TasksThatEnd, WhoWants
  <2> HIDE DEF y
  <2>2. Sets(p, s, task[p][s]["full"], y, z)
    BY <1>1, <1>3, <1>4, <2>1, OneTaskIsSet DEF y
  <2>3. z.pc = "none" /\ z \in Tasks /\ y.pc \in {"none", "returned"}
    BY <1>2, <2>1 DEF TaskAt
  <2> HIDE DEF z
  <2>4. Lists(line, Waiting)'
    <3>1. task[p][s]["full"].pc = "queued" <=> TaskAt(p, s, "full", "queued")
      BY DEF TaskAt
    <3>2. y.pc = "queued" <=> TaskAt(p, s, "probe", "queued")
      BY <1>1, <2>3 DEF TaskAt
    <3>3. z.pc = "queued" <=> TaskAt(p, s, "select", "queued")
      BY <1>2, <2>3 DEF TaskAt
    <3> QED BY <1>1, <1>4, <2>2, <3>1, <3>2, <3>3, LineStays
  <2>5. task'[p][s]["full"] = task[p][s]["full"] /\ task'[p][s]["probe"] = y /\ task'[p][s]["select"] = z
    BY <2>2 DEF Sets
  <2>6. sinceTrouble' = 0
    BY <1>1, <1>2, <1>4
  <2>7. ProbeIsSound(p, s)' /\ SelectIsSound(p, s)'
    BY <2>1, <2>3, <2>5, <2>6 DEF ProbeIsSound, SelectIsSound, TaskAt
  <2>8. ~Holds(y) /\ ~Holds(z) /\ (TaskAt(p, s, "full", "waits") => y.pc # "none")
        /\ (task[p][s]["full"].pc \in {"queued", "runs"} => y.pc = "none" /\ z.pc = "none")
    BY <1>2, <2>1, <2>3 DEF Holds
  <2> QED BY <1>1, <2>1, <2>2, <2>3, <2>4, <2>7, <2>8, ProbeStep
<1>5. ASSUME task' = [task EXCEPT ![p][s]["probe"] = Waits(SelectWait), ![p][s]["select"] = Queued],
             line' = Append(line, <<p, s, "select">>)
      PROVE  ReadyIInv'
  <2> DEFINE y == Waits(SelectWait)
             z == Queued
  <2>1. y \in Tasks /\ y.pc = "waits" /\ y.left = SelectWait /\ z \in Tasks /\ z.pc = "queued"
    BY NewTasks, WaitsAreNumbers
  <2> HIDE DEF y, z
  <2>2. Sets(p, s, task[p][s]["full"], y, z)
    BY <1>1, <1>3, <1>5, <2>1, TwoTasksAreSet DEF y, z
  <2>3. Lists(line, Waiting)'
    <3>1. task[p][s]["full"].pc = "queued" <=> "select" = "full" \/ TaskAt(p, s, "full", "queued")
      BY DEF TaskAt
    <3>2. y.pc = "queued" <=> "select" = "probe" \/ TaskAt(p, s, "probe", "queued")
      BY <1>1, <2>1 DEF TaskAt
    <3>3. z.pc = "queued" <=> "select" = "select" \/ TaskAt(p, s, "select", "queued")
      BY <2>1
    <3>4. ~TaskAt(p, s, "select", "queued")
      BY <1>2 DEF TaskAt
    <3> QED BY <1>1, <1>3, <1>5, <2>2, <3>1, <3>2, <3>3, <3>4, LineGrows
  <2>4. task'[p][s]["full"] = task[p][s]["full"] /\ task'[p][s]["probe"] = y /\ task'[p][s]["select"] = z
    BY <2>2 DEF Sets
  <2>5. ProbeIsSound(p, s)' /\ SelectIsSound(p, s)'
    BY <2>1, <2>4 DEF ProbeIsSound, SelectIsSound, TaskAt
  <2>6. HoldsThread(p, s, "probe") /\ ~Holds(z) /\ y.pc # "none"
        /\ ~(task[p][s]["full"].pc \in {"queued", "runs"})
    BY <1>1, <1>2, <2>1 DEF Holds, HoldsThread, TaskAt
  <2> QED BY <1>1, <2>1, <2>2, <2>3, <2>5, <2>6, ProbeStep
<1> QED BY <1>4, <1>5 DEF RunSelect

(* A probe is told by the thread that ran SELECT, or waits no longer.        *)
LEMMA SelectReturnsKeepsReady ==
    ASSUME ReadyIInv, NEW p \in Probers, NEW s \in Services, SelectReturns(p, s)
    PROVE  ReadyIInv'
<1> DEFINE select == task[p][s]["select"]
           ok == select.pc = "returned" /\ select.ok
           y == Ended(p, s, "probe", ok)
           z == Cancelled(p, s, "select")
<1>1. s \in Databases /\ TaskAt(p, s, "probe", "waits") /\ ReadyTypes
      /\ Hears /\ UNCHANGED <<healthy, readyCache, prober, sinceGood, sinceTrouble>>
  BY DEF SelectReturns, Hears, ReadyIInv
<1>2. /\ task[p][s]["full"] \in Tasks /\ task[p][s]["probe"] \in Tasks /\ select \in Tasks
      /\ task[p][s]["full"].pc \notin {"queued", "runs"} /\ select.pc # "waits"
      /\ task[p][s]["probe"].left = SelectWait \/ sinceTrouble = 0
      /\ select.pc = "returned" => IF select.ok THEN sinceGood[s] = 0 ELSE sinceTrouble = 0
  BY <1>1, ChecksOfDatabases DEF FullIsSound, ProbeIsSound, SelectIsSound, TaskAt
<1>3. "probe" \in Levels /\ "select" \in Levels
  BY DEF Levels
<1>4. /\ select.pc # "returned" => task[p][s]["probe"].left = 0
      /\ task' = [task EXCEPT ![p][s]["probe"] = y, ![p][s]["select"] = z]
      /\ line' = Without(<<p, s, "select">>)
  BY DEF SelectReturns, SelectIsLate
<1>5. ok \in BOOLEAN /\ IF ok THEN sinceGood[s] = 0 ELSE sinceTrouble = 0
  <2>1. SelectWait # 0
    BY WaitsAreNumbers
  <2> QED BY <1>2, <1>4, <2>1 DEF Tasks
<1> HIDE DEF ok
<1>6. /\ y \in Tasks
      /\ TaskAt(p, s, "full", "waits") => y.pc = "returned" /\ y.ok = ok
      /\ ~TaskAt(p, s, "full", "waits") => y.pc = "none"
  BY <1>1, <1>5, TasksThatEnd, WhoWants
<1>7. /\ z \in Tasks
      /\ select.pc \in {"queued", "returned"} => z.pc = "none"
      /\ select.pc \notin {"queued", "returned"} => z = select
  BY <1>1, <1>3, CancelledTasks, NewTasks, OrderIsFinite
<1> HIDE DEF select, y, z
<1>8. Sets(p, s, task[p][s]["full"], y, z)
  BY <1>1, <1>3, <1>4, <1>6, <1>7, TwoTasksAreSet
<1>9. y.pc \in {"none", "returned"} /\ z.pc \in {"none", "runs"}
  BY <1>2, <1>6, <1>7 DEF Tasks
<1>10. Lists(line, Waiting)'
  <2>1. task[p][s]["full"].pc = "queued" <=> "select" # "full" /\ TaskAt(p, s, "full", "queued")
    BY DEF TaskAt
  <2>2. y.pc = "queued" <=> "select" # "probe" /\ TaskAt(p, s, "probe", "queued")
    BY <1>1, <1>9 DEF TaskAt
  <2>3. z.pc = "queued" <=> "select" # "select" /\ TaskAt(p, s, "select", "queued")
    BY <1>9
  <2> QED BY <1>1, <1>3, <1>4, <1>8, <2>1, <2>2, <2>3, LineShrinks
<1>11. task'[p][s]["full"] = task[p][s]["full"] /\ task'[p][s]["probe"] = y /\ task'[p][s]["select"] = z
  BY <1>8 DEF Sets
<1>12. ProbeIsSound(p, s)' /\ SelectIsSound(p, s)'
  BY <1>1, <1>5, <1>6, <1>9, <1>11 DEF ProbeIsSound, SelectIsSound, TaskAt
<1>13. Holds(z) => HoldsThread(p, s, "select")
  BY <1>7, <1>9 DEF Holds, HoldsThread, select
<1>14. ~Holds(y) /\ (TaskAt(p, s, "full", "waits") => y.pc # "none")
       /\ ~(task[p][s]["full"].pc \in {"queued", "runs"})
  BY <1>2, <1>6, <1>9 DEF Holds
<1> QED BY <1>1, <1>6, <1>7, <1>8, <1>10, <1>12, <1>13, <1>14, ProbeStep

(* SELECT of a database comes to an end, with an answer that all hear or in  *)
(* vain.                                                                     *)
LEMMA SelectEndsKeepsReady ==
    ASSUME ReadyIInv, NEW p \in Probers, NEW s \in Databases, NEW ok \in BOOLEAN,
           TaskAt(p, s, "select", "runs"), task' = [task EXCEPT ![p][s]["select"] = Ended(p, s, "select", ok)],
           IF ok THEN Heard(s) ELSE s \notin healthy /\ UNCHANGED <<prober, sinceGood>>,
           UNCHANGED <<healthy, readyCache, line, sinceTrouble>>
    PROVE  ReadyIInv'
<1> DEFINE y == task[p][s]["probe"]
           z == Ended(p, s, "select", ok)
<1>1. s \in Services /\ ReadyTypes /\ Hears
  BY OrderIsFinite DEF Hears, ReadyIInv
<1>2. /\ task[p][s]["full"] \in Tasks /\ y \in Tasks
      /\ y.pc \notin {"queued", "runs"} /\ task[p][s]["full"].pc \notin {"queued", "runs"}
      /\ y.pc = "waits" => (y.left = SelectWait \/ sinceTrouble = 0)
      /\ y.pc = "returned" => TaskAt(p, s, "full", "waits") /\ IF y.ok THEN sinceGood[s] = 0 ELSE sinceTrouble = 0
      /\ TaskAt(p, s, "full", "waits") => y.pc # "none"
      /\ healthy # Services => sinceTrouble = 0
  BY <1>1, ChecksOfDatabases DEF FullIsSound, ProbeIsSound, SelectIsSound, TaskAt
<1>3. "select" \in Levels
  BY DEF Levels
<1>4. /\ z \in Tasks
      /\ y.pc = "waits" => z.pc = "returned" /\ z.ok = ok
      /\ y.pc # "waits" => z.pc = "none"
  BY TasksThatEnd, WhoWants DEF TaskAt
<1>5. IF ok THEN sinceGood'[s] = 0 ELSE sinceTrouble' = 0
  BY <1>1, <1>2 DEF Heard, ReadyTypes
<1> HIDE DEF y, z
<1>6. Sets(p, s, task[p][s]["full"], y, z)
  BY <1>1, <1>3, <1>4, OneTaskIsSet DEF y, z
<1>7. Lists(line, Waiting)'
  <2>1. task[p][s]["full"].pc = "queued" <=> TaskAt(p, s, "full", "queued")
    BY DEF TaskAt
  <2>2. y.pc = "queued" <=> TaskAt(p, s, "probe", "queued")
    BY DEF y, TaskAt
  <2>3. z.pc = "queued" <=> TaskAt(p, s, "select", "queued")
    BY <1>4 DEF TaskAt
  <2> QED BY <1>1, <1>6, <2>1, <2>2, <2>3, LineStays
<1>8. /\ task'[p][s]["full"] = task[p][s]["full"] /\ task'[p][s]["probe"] = y /\ task'[p][s]["select"] = z
      /\ sinceGood'[s] = sinceGood[s] \/ sinceGood'[s] = 0
  BY <1>1, <1>6, WhatIsHeard DEF Sets
<1>9. ProbeIsSound(p, s)' /\ SelectIsSound(p, s)'
  BY <1>2, <1>4, <1>5, <1>8 DEF ProbeIsSound, SelectIsSound, TaskAt
<1>10. (Holds(y) => HoldsThread(p, s, "probe")) /\ HoldsThread(p, s, "select")
  BY DEF Holds, HoldsThread, TaskAt, y
<1>11. (TaskAt(p, s, "full", "waits") => y.pc # "none") /\ ~(task[p][s]["full"].pc \in {"queued", "runs"})
  BY <1>2
<1> QED BY <1>1, <1>2, <1>4, <1>6, <1>7, <1>9, <1>10, <1>11, ProbeStep

(* The same of a service that is only pinged.                                *)
LEMMA PingEndsKeepsReady ==
    ASSUME ReadyIInv, NEW p \in Probers, NEW s \in Services, s \notin Databases, NEW ok \in BOOLEAN,
           TaskAt(p, s, "probe", "runs"), task' = [task EXCEPT ![p][s]["probe"] = Ended(p, s, "probe", ok)],
           ~ok => s \notin healthy,
           UNCHANGED <<healthy, readyCache, line, prober, sinceGood, sinceTrouble>>
    PROVE  ReadyIInv'
<1> DEFINE x == task[p][s]["full"]
           y == Ended(p, s, "probe", ok)
           z == task[p][s]["select"]
<1>1. ReadyTypes /\ Hears /\ CacheIsSound
  BY DEF Hears, ReadyIInv
<1>2. PingIsSound(p, s) /\ x.pc = "none" /\ z.pc = "none"
  BY DEF ReadyIInv, CheckIsSound, PingIsSound, TaskAt
<1>3. "probe" \in Levels
  BY DEF Levels
<1>4. /\ y \in Tasks
      /\ IsAsking(p) /\ Order[prober[p].step] = s => y.pc = "returned" /\ y.ok = ok
      /\ ~(IsAsking(p) /\ Order[prober[p].step] = s) => y.pc = "none"
  BY TasksThatEnd, WhoWants
<1>5. ~ok => sinceTrouble' = 0
  BY <1>1 DEF CacheIsSound
<1> HIDE DEF x, y, z
<1>6. Sets(p, s, x, y, z)
  BY <1>1, <1>3, <1>4, OneTaskIsSet DEF x, y, z
<1>7. Lists(line, Waiting)'
  <2>1. x.pc = "queued" <=> TaskAt(p, s, "full", "queued")
    BY DEF x, TaskAt
  <2>2. y.pc = "queued" <=> TaskAt(p, s, "probe", "queued")
    BY <1>4 DEF TaskAt
  <2>3. z.pc = "queued" <=> TaskAt(p, s, "select", "queued")
    BY DEF z, TaskAt
  <2> QED BY <1>1, <1>6, <2>1, <2>2, <2>3, LineStays
<1>8. ThreadsAreKept'
  <2>1. ~Holds(x) /\ ~Holds(z) /\ HoldsThread(p, s, "probe")
    BY <1>2 DEF Holds, HoldsThread, TaskAt
  <2> QED BY <1>1, <1>6, <2>1, ThreadsOfOneCheck DEF ReadyIInv
<1>9. CacheIsSound' /\ readyCache' \in [Databases -> [ok : BOOLEAN, age : Nat]]
  BY <1>1, CacheStays DEF ReadyTypes
<1>10. CheckIsSound(p, s)'
  <2>1. task'[p][s]["full"] = x /\ task'[p][s]["probe"] = y /\ task'[p][s]["select"] = z
    BY <1>6 DEF Sets
  <2> QED BY <1>2, <1>4, <1>5, <2>1 DEF CheckIsSound, PingIsSound, TaskAt, IsAsking
<1>11. ~TaskAt(p, s, "probe", "none") /\ (IsAsking(p) /\ Order[prober[p].step] = s => y.pc # "none")
  BY <1>4 DEF TaskAt
<1> QED BY <1>1, <1>6, <1>7, <1>8, <1>9, <1>10, <1>11, CheckStep

(* A service answers, or fails.                                              *)
LEMMA AnswersKeepsReady ==
    ASSUME ReadyIInv, NEW p \in Probers, NEW s \in Services, Answers(p, s) \/ Fails(p, s)
    PROVE  ReadyIInv'
<1>1. PICK ok \in BOOLEAN :
        /\ TaskAt(p, s, Asks(s), "runs") /\ task' = [task EXCEPT ![p][s][Asks(s)] = Ended(p, s, Asks(s), ok)]
        /\ IF ok /\ s \in Databases THEN Heard(s) ELSE UNCHANGED <<prober, sinceGood>>
        /\ ~ok => s \notin healthy
        /\ UNCHANGED <<healthy, readyCache, line, sinceTrouble>>
  <2>1. CASE Answers(p, s)
    BY <2>1 DEF Answers, Heard
  <2>2. CASE Fails(p, s)
    BY <2>2 DEF Fails
  <2> QED BY <2>1, <2>2
<1>2. CASE s \in Databases
  <2>1. Asks(s) = "select"
    BY <1>2 DEF Asks
  <2> QED BY <1>1, <1>2, <2>1, SelectEndsKeepsReady
<1>3. CASE s \notin Databases
  <2>1. Asks(s) = "probe"
    BY <1>3 DEF Asks
  <2> QED BY <1>1, <1>3, <2>1, PingEndsKeepsReady
<1> QED BY <1>2, <1>3

-----------------------------------------------------------------------------
(* Nobody has asked.                                                         *)
LEMMA ReadyInitially == ReadyInit => ReadyIInv
<1> SUFFICES ASSUME ReadyInit PROVE ReadyIInv
  OBVIOUS
<1>1. /\ \A p \in Probers : prober[p] = NoRequest
      /\ \A p \in Probers, s \in Services, l \in Levels : task[p][s][l] = NoTask
      /\ \A s \in Databases : readyCache[s] = NoEntry
      /\ line = <<>> /\ healthy = Services
  BY DEF ReadyInit
<1>2. Count \in Nat \ {0} /\ CacheFor \in Nat /\ LongAgo \in Nat /\ Longest \in Nat
  BY OrderIsFinite, WaitsAreNumbers, WaitsAreSums DEF Longest
<1>3. ReadyTypes
  <2>1. NoRequest \in [step : 0 .. Count + 1, left : Nat, took : Nat, ok : SUBSET Services,
                       recent : SUBSET Services, trouble : BOOLEAN]
    BY <1>2 DEF NoRequest
  <2>2. NoEntry \in [ok : BOOLEAN, age : Nat]
    BY <1>2 DEF NoEntry
  <2>3. sinceGood \in [Databases -> 0 .. LongAgo] /\ sinceTrouble \in 0 .. LongAgo
    BY <1>2 DEF ReadyInit
  <2>4. task \in [Probers -> [Services -> [Levels -> Tasks]]]
    BY NewTasks DEF ReadyInit
  <2> QED BY <1>1, <2>1, <2>2, <2>3, <2>4, EmptySeq DEF ReadyInit, ReadyTypes
<1>4. \A p \in Probers, s \in Services, l \in Levels : task[p][s][l].pc = "none"
  BY <1>1, NewTasks
<1>5. LineIsKept
  <2>1. Waiting = {}
    <3>1. SUFFICES ASSUME NEW t \in Waiting PROVE FALSE
      OBVIOUS
    <3>2. t[1] \in Probers /\ t[2] \in Services /\ t[3] \in Levels /\ task[t[1]][t[2]][t[3]].pc = "queued"
      BY <3>1 DEF Waiting, Triples, TaskAt
    <3> QED BY <1>4, <3>2
  <2> QED BY <1>1, <2>1, NoneAreListed, ListedLineIsKept
<1>6. ThreadsAreKept
  <2>1. BusyThreads = {}
    <3>1. SUFFICES ASSUME NEW t \in BusyThreads PROVE FALSE
      OBVIOUS
    <3>2. t[1] \in Probers /\ t[2] \in Services /\ t[3] \in Levels /\ task[t[1]][t[2]][t[3]].pc \in {"runs", "waits"}
      BY <3>1 DEF BusyThreads, HoldsThread
    <3> QED BY <1>4, <3>2
  <2>2. PoolSize \in Nat
    BY ReadinessAssumption
  <2> QED BY <2>1, <2>2, FS_EmptySet DEF ThreadsAreKept
<1>7. ASSUME NEW p \in Probers PROVE RequestIsSound(p)
  <2>1. prober[p] = NoRequest /\ ~IsAsking(p)
    BY <1>1, <1>2 DEF IsAsking, NoRequest
  <2>2. prober[p].step = 0 /\ prober[p].took = 0
    BY <2>1 DEF NoRequest
  <2> QED BY <1>2, <2>1, <2>2 DEF RequestIsSound, TimeIsKept, WorkIsThere, NewsAreRecent, CalmIsSound
<1>8. ASSUME NEW p \in Probers, NEW s \in Services PROVE CheckIsSound(p, s)
  <2>1. task[p][s]["full"].pc = "none" /\ task[p][s]["probe"].pc = "none" /\ task[p][s]["select"].pc = "none"
    BY <1>4 DEF Levels
  <2> QED BY <2>1 DEF CheckIsSound, FullIsSound, ProbeIsSound, SelectIsSound, PingIsSound, TaskAt
<1>9. CacheIsSound
  <2>1. \A s \in Databases : ~(readyCache[s].age < CacheFor)
    BY <1>1, <1>2 DEF NoEntry
  <2> QED BY <1>1, <2>1 DEF CacheIsSound
<1> QED BY <1>3, <1>5, <1>6, <1>7, <1>8, <1>9 DEF ReadyIInv

(* A thread takes the first work of the line.                                *)
LEMMA AssignedKeepsReady == ReadyIInv /\ Assigned => ReadyIInv'
<1> SUFFICES ASSUME ReadyIInv, Assigned PROVE ReadyIInv'
  OBVIOUS
<1>1. Lists(line, Waiting) /\ ReadyTypes /\ Hears
  BY LineListsWaiting DEF ReadyIInv, Assigned, Hears
<1>2. Head(line) \in Waiting /\ Lists(Tail(line), Waiting \ {Head(line)})
  BY <1>1, TailLists DEF Assigned
<1>3. PICK p \in Probers, s \in Services, l \in Levels : Head(line) = <<p, s, l>>
  BY <1>2 DEF Waiting, Triples
<1>4. task[p][s][l] \in Tasks /\ task[p][s][l].pc = "queued"
  <2>1. task[p][s][l] \in Tasks
    BY <1>1, TasksAreTasks
  <2>2. <<p, s, l>> \in Waiting
    BY <1>2, <1>3
  <2>3. task[p][s][l].pc = "queued"
    BY <2>2 DEF Waiting, TaskAt
  <2> QED BY <2>1, <2>3
<1> DEFINE v == [task[p][s][l] EXCEPT !.pc = "runs"]
           x == IF l = "full" THEN v ELSE task[p][s]["full"]
           y == IF l = "probe" THEN v ELSE task[p][s]["probe"]
           z == IF l = "select" THEN v ELSE task[p][s]["select"]
<1>5. v \in Tasks /\ v.pc = "runs" /\ task' = [task EXCEPT ![p][s][l] = v]
  <2>1. Head(line)[1] = p /\ Head(line)[2] = s /\ Head(line)[3] = l
    BY <1>3
  <2>2. task' = [task EXCEPT ![p][s][l].pc = "runs"]
    BY <2>1 DEF Assigned
  <2>3. v \in Tasks /\ v.pc = "runs"
    BY <1>4 DEF Tasks
  <2> QED BY <2>2, <2>3
<1> HIDE DEF v
<1>6. Sets(p, s, x, y, z)
  BY <1>1, <1>5, OneTaskIsSet
<1>7. /\ IF l = "full" THEN x.pc = "runs" /\ TaskAt(p, s, "full", "queued") ELSE x = task[p][s]["full"]
      /\ IF l = "probe" THEN y.pc = "runs" /\ TaskAt(p, s, "probe", "queued") ELSE y = task[p][s]["probe"]
      /\ IF l = "select" THEN z.pc = "runs" /\ TaskAt(p, s, "select", "queued") ELSE z = task[p][s]["select"]
  BY <1>4, <1>5 DEF TaskAt
<1> HIDE DEF x, y, z
<1>8. Lists(line, Waiting)'
  <2> DEFINE W == Waiting \ {<<p, s, l>>}
  <2>1. Lists(line', W)
    BY <1>2, <1>3 DEF Assigned
  <2>2. \A m \in Levels : <<p, s, m>> \in W <=> m # l /\ TaskAt(p, s, m, "queued")
    BY <1>6, LineOfOneCheck
  <2>3. W \in SUBSET Triples /\ \A t \in Triples : t[1] # p \/ t[2] # s => (t \in W <=> t \in Waiting)
    BY DEF Waiting
  <2> HIDE DEF W
  <2>4. /\ <<p, s, "full">> \in W <=> x.pc = "queued"
        /\ <<p, s, "probe">> \in W <=> y.pc = "queued"
        /\ <<p, s, "select">> \in W <=> z.pc = "queued"
    BY <1>7, <2>2 DEF Levels, TaskAt
  <2> QED BY <1>6, <2>1, <2>3, <2>4, WhatWaits
<1>9. ThreadsAreKept'
  <2>1. BusyThreads' \subseteq BusyThreads \cup {<<p, s, l>>}
    <3>1. SUFFICES ASSUME NEW t \in BusyThreads', t # <<p, s, l>> PROVE t \in BusyThreads
      OBVIOUS
    <3>2. t \in Triples /\ t = <<t[1], t[2], t[3]>> /\ t[1] \in Probers /\ t[2] \in Services /\ t[3] \in Levels
      BY DEF BusyThreads, Triples
    <3>3. task'[t[1]][t[2]][t[3]].pc \in {"runs", "waits"}
      BY DEF BusyThreads, HoldsThread
    <3>4. ~(t[1] = p /\ t[2] = s /\ t[3] = l)
      BY <3>1, <3>2
    <3>5. task'[t[1]][t[2]][t[3]] = task[t[1]][t[2]][t[3]]
      BY <1>1, <1>5, <3>2, <3>4 DEF ReadyTypes
    <3> QED BY <3>2, <3>3, <3>5 DEF BusyThreads, Triples, HoldsThread
  <2>2. IsFiniteSet(BusyThreads) /\ Cardinality(BusyThreads) < PoolSize /\ PoolSize \in Nat
    BY ReadinessAssumption DEF ReadyIInv, ThreadsAreKept, Assigned
  <2>3. /\ IsFiniteSet(BusyThreads \cup {<<p, s, l>>})
        /\ Cardinality(BusyThreads \cup {<<p, s, l>>}) <= Cardinality(BusyThreads) + 1
    <3>1. /\ IsFiniteSet(BusyThreads \cup {<<p, s, l>>})
          /\ Cardinality(BusyThreads \cup {<<p, s, l>>}) =
                IF <<p, s, l>> \in BusyThreads THEN Cardinality(BusyThreads) ELSE Cardinality(BusyThreads) + 1
      BY <2>2, FS_AddElement
    <3> QED BY <2>2, <3>1, FS_CardinalityType
  <2>4. IsFiniteSet(BusyThreads') /\ Cardinality(BusyThreads') <= Cardinality(BusyThreads \cup {<<p, s, l>>})
    BY <2>1, <2>3, FS_Subset
  <2>5. Cardinality(BusyThreads) \in Nat /\ Cardinality(BusyThreads') \in Nat
        /\ Cardinality(BusyThreads \cup {<<p, s, l>>}) \in Nat
    BY <2>2, <2>3, <2>4, FS_CardinalityType
  <2> QED BY <2>2, <2>3, <2>4, <2>5 DEF ThreadsAreKept
<1>10. UNCHANGED <<healthy, readyCache, prober, sinceGood, sinceTrouble>>
  BY DEF Assigned
<1>11. CacheIsSound' /\ readyCache' \in [Databases -> [ok : BOOLEAN, age : Nat]]
  BY <1>1, <1>10, CacheStays DEF ReadyTypes
<1>12. CheckIsSound(p, s)'
  <2>1. task'[p][s]["full"] = x /\ task'[p][s]["probe"] = y /\ task'[p][s]["select"] = z
    BY <1>6 DEF Sets
  <2>2. CheckIsSound(p, s)
    BY DEF ReadyIInv
  <2>3. CASE s \in Databases
    <3>1. FullIsSound(p, s)'
      BY <1>7, <1>10, <2>1, <2>2, <2>3 DEF CheckIsSound, FullIsSound, IsPending, TaskAt
    <3>2. ProbeIsSound(p, s)'
      BY <1>7, <1>10, <2>1, <2>2, <2>3 DEF CheckIsSound, ProbeIsSound, FullIsSound, TaskAt
    <3>3. SelectIsSound(p, s)'
      BY <1>7, <1>10, <2>1, <2>2, <2>3 DEF CheckIsSound, SelectIsSound, ProbeIsSound, TaskAt
    <3> QED BY <2>3, <3>1, <3>2, <3>3 DEF CheckIsSound
  <2>4. CASE s \notin Databases
    BY <1>7, <1>10, <2>1, <2>2, <2>4 DEF CheckIsSound, PingIsSound, IsAsking, TaskAt
  <2> QED BY <2>3, <2>4
<1>13. s \in Databases /\ IsPending(p, s) /\ x.pc = "none" => TaskAt(p, s, "full", "none")
  BY <1>7 DEF TaskAt
<1>14. s \notin Databases => ~TaskAt(p, s, "probe", "none")
  <2>1. s \notin Databases => TaskAt(p, s, "full", "none") /\ TaskAt(p, s, "select", "none")
    BY DEF ReadyIInv, CheckIsSound, PingIsSound
  <2> QED BY <1>4, <2>1 DEF Levels, TaskAt
<1>15. s \notin Databases /\ IsAsking(p) /\ Order[prober[p].step] = s => y.pc # "none"
  BY <1>7, <1>14 DEF TaskAt
<1> QED BY <1>1, <1>6, <1>8, <1>9, <1>10, <1>11, <1>12, <1>13, <1>14, <1>15, CheckStep

-----------------------------------------------------------------------------
(* The checks and the requests of those who take no part in a step.          *)
LEMMA SameCheck ==
    ASSUME ReadyIInv, NEW q \in Probers, NEW u \in Services, \A l \in Levels : task'[q][u][l] = task[q][u][l],
           prober'[q] = prober[q], UNCHANGED <<sinceGood, sinceTrouble>>
    PROVE  CheckIsSound(q, u)'
<1>1. CheckIsSound(q, u)
  BY DEF ReadyIInv
<1>2. /\ task'[q][u]["full"] = task[q][u]["full"] /\ task'[q][u]["probe"] = task[q][u]["probe"]
      /\ task'[q][u]["select"] = task[q][u]["select"]
  BY DEF Levels
<1>3. CASE u \in Databases
  <2>1. IsPending(q, u)' <=> IsPending(q, u)
    BY DEF IsPending
  <2> QED BY <1>1, <1>2, <1>3, <2>1 DEF CheckIsSound, FullIsSound, ProbeIsSound, SelectIsSound, TaskAt
<1>4. CASE u \notin Databases
  BY <1>1, <1>2, <1>4 DEF CheckIsSound, PingIsSound, IsAsking, TaskAt
<1> QED BY <1>3, <1>4

LEMMA SameRequest ==
    ASSUME ReadyIInv, NEW q \in Probers, task'[q] = task[q], prober'[q] = prober[q],
           UNCHANGED <<sinceGood, sinceTrouble>>
    PROVE  RequestIsSound(q)'
<1>1. RequestIsSound(q)
  BY DEF ReadyIInv
<1>2. IsAsking(q)' <=> IsAsking(q)
  BY DEF IsAsking
<1>3. TimeIsKept(q)'
  BY <1>1, <1>2 DEF RequestIsSound, TimeIsKept
<1>4. NewsAreRecent(q)'
  BY <1>1, <1>2 DEF RequestIsSound, NewsAreRecent
<1>5. CalmIsSound(q)'
  BY <1>1, <1>2 DEF RequestIsSound, CalmIsSound
<1>6. WorkIsThere(q)'
  BY <1>1, <1>2 DEF RequestIsSound, WorkIsThere, TaskAt
<1> QED BY <1>1, <1>3, <1>4, <1>5, <1>6 DEF RequestIsSound

(* A step of a request itself: nothing begins to hold a thread.              *)
LEMMA RequestStep ==
    ASSUME ReadyIInv, NEW p \in Probers, UNCHANGED <<healthy, readyCache, sinceGood, sinceTrouble>>,
           task' \in [Probers -> [Services -> [Levels -> Tasks]]],
           prober' \in [Probers -> [step : 0 .. Count + 1, left : Nat, took : Nat, ok : SUBSET Services,
                                    recent : SUBSET Services, trouble : BOOLEAN]],
           \A q \in Probers : q # p => task'[q] = task[q] /\ prober'[q] = prober[q],
           \A s \in Services, l \in Levels : Holds(task'[p][s][l]) => HoldsThread(p, s, l),
           Lists(line, Waiting)', RequestIsSound(p)', \A s \in Services : CheckIsSound(p, s)'
    PROVE  ReadyIInv'
<1>1. ReadyTypes' /\ LineIsKept'
  <2>1. (Lists(line, Waiting) => line \in Seq(Triples) /\ LineIsKept)'
    BY ListedLineIsKept, PTL
  <2>2. Triples' = Triples
    BY DEF Triples
  <2> QED BY <2>1, <2>2 DEF ReadyIInv, ReadyTypes, Triples
<1>2. ThreadsAreKept'
  <2>1. ASSUME NEW t \in BusyThreads' PROVE t \in BusyThreads
    <3>1. t \in Triples /\ t[1] \in Probers /\ t[2] \in Services /\ t[3] \in Levels
          /\ Holds(task'[t[1]][t[2]][t[3]])
      BY DEF BusyThreads, Triples, HoldsThread, Holds
    <3>2. HoldsThread(t[1], t[2], t[3])
      BY <3>1 DEF HoldsThread, Holds
    <3> QED BY <3>1, <3>2 DEF BusyThreads, Triples
  <2> QED BY <2>1, NoThreadIsTaken DEF ReadyIInv
<1>3. CacheIsSound'
  BY DEF ReadyIInv, CacheIsSound
<1>4. \A q \in Probers : RequestIsSound(q)'
  BY SameRequest
<1>5. \A q \in Probers, u \in Services : CheckIsSound(q, u)'
  BY SameCheck
<1> QED BY <1>1, <1>2, <1>3, <1>4, <1>5 DEF ReadyIInv

(* The checks of all databases are put in the line at once.                  *)
LEMMA ChecksAreListed ==
    ASSUME NEW p
    PROVE  /\ Lists([i \in 1 .. Cardinality(Databases) |-> <<p, Order[i], "full">>], {<<p, s, "full">> : s \in Databases})
           /\ Order[1] \in Databases
<1> DEFINE n == Cardinality(Databases)
           l == [i \in 1 .. n |-> <<p, Order[i], "full">>]
           Q == {<<p, s, "full">> : s \in Databases}
<1>1. /\ n \in Nat \ {0} /\ n <= Count /\ Databases = {Order[i] : i \in 1 .. n}
  <2>1. IsFiniteSet(Databases) /\ Databases # {} /\ n <= Count /\ Databases = {Order[i] : i \in 1 .. n}
    BY ReadinessAssumption DEF Count
  <2> QED BY <2>1, FS_CardinalityType, FS_EmptySet
<1> HIDE DEF n
<1>2. \A i \in 1 .. n : Order[i] \in Databases /\ l[i] = <<p, Order[i], "full">>
  BY <1>1
<1>3. l \in Seq(Q) /\ DOMAIN l = 1 .. n
  <2>1. \A i \in 1 .. n : l[i] \in Q
    BY <1>2
  <2>2. DOMAIN l = 1 .. n /\ l = [i \in 1 .. n |-> l[i]]
    OBVIOUS
  <2> HIDE DEF l, Q
  <2> QED BY <1>1, <2>1, <2>2, SeqDef
<1>4. \A i, j \in DOMAIN l : l[i] = l[j] => i = j
  <2>1. SUFFICES ASSUME NEW i \in 1 .. n, NEW j \in 1 .. n, Order[i] = Order[j] PROVE i = j
    BY <1>3
  <2>2. i \in 1 .. Count /\ j \in 1 .. Count
    BY <1>1, OrderIsFinite
  <2> QED BY <2>1, <2>2, OrderIsFinite
<1>5. \A t \in Q : \E i \in DOMAIN l : l[i] = t
  BY <1>1, <1>2, <1>3
<1>6. Lists(l, Q)
  <2> HIDE DEF l, Q
  <2> QED BY <1>3, <1>4, <1>5 DEF Lists
<1> QED BY <1>1, <1>2, <1>6 DEF n

(* A request begins: the time of its waits is the sum of all.                *)
LEMMA AskReadyKeepsReady ==
    ASSUME ReadyIInv, NEW p \in Probers, AskReady(p)
    PROVE  ReadyIInv'
<1> DEFINE R == [step |-> 1, left |-> WaitFor(Order[1]), took |-> 0, ok |-> {},
                 recent |-> {s \in Databases : sinceGood[s] < LongAgo},
                 trouble |-> Troubled \/ sinceTrouble < LongAgo]
<1>1. /\ prober[p].step = 0 /\ \A s \in Services, l \in Levels : task[p][s][l] = NoTask
      /\ prober' = [prober EXCEPT ![p] = R]
      /\ line' = line \o [i \in 1 .. Cardinality(Databases) |-> <<p, Order[i], "full">>]
      /\ UNCHANGED <<healthy, readyCache, sinceGood, sinceTrouble>>
  BY DEF AskReady
<1>2. ReadyTypes /\ Databases \subseteq Services /\ Count \in Nat \ {0} /\ Order[1] \in Databases
  BY OrderIsFinite, ChecksAreListed DEF ReadyIInv
<1>3. /\ task' \in [Probers -> [Services -> [Levels -> Tasks]]]
      /\ \A q \in Probers : q # p => task'[q] = task[q]
      /\ \A s \in Services, l \in Levels :
            task'[p][s][l] = IF s \in Databases /\ l = "full" THEN Queued ELSE NoTask
  <2>1. task' = [task EXCEPT ![p] = [s \in Services |->
                    IF s \in Databases THEN [task[p][s] EXCEPT !["full"] = Queued] ELSE task[p][s]]]
    BY DEF AskReady
  <2>2. task \in [Probers -> [Services -> [Levels -> Tasks]]] /\ Queued \in Tasks
    BY <1>2, NewTasks DEF ReadyTypes
  <2>3. [s \in Services |-> IF s \in Databases THEN [task[p][s] EXCEPT !["full"] = Queued] ELSE task[p][s]]
           \in [Services -> [Levels -> Tasks]]
    BY <2>2
  <2>4. task' \in [Probers -> [Services -> [Levels -> Tasks]]]
    BY <2>1, <2>2, <2>3
  <2>5. \A s \in Services : task'[p][s] = IF s \in Databases THEN [task[p][s] EXCEPT !["full"] = Queued] ELSE task[p][s]
    BY <2>1, <2>2
  <2>6. \A s \in Services, l \in Levels :
            task'[p][s][l] = IF s \in Databases /\ l = "full" THEN Queued ELSE NoTask
    <3>1. SUFFICES ASSUME NEW s \in Services, NEW l \in Levels
                   PROVE  task'[p][s][l] = IF s \in Databases /\ l = "full" THEN Queued ELSE NoTask
      OBVIOUS
    <3>2. task[p][s] \in [Levels -> Tasks] /\ task[p][s][l] = NoTask
      BY <1>1, <2>2
    <3>3. CASE s \in Databases
      <4>1. task'[p][s] = [task[p][s] EXCEPT !["full"] = Queued]
        BY <2>5, <3>3
      <4> QED BY <3>2, <3>3, <4>1
    <3>4. CASE s \notin Databases
      <4>1. task'[p][s] = task[p][s]
        BY <2>5, <3>4
      <4> QED BY <3>2, <3>4, <4>1
    <3> QED BY <3>3, <3>4
  <2>7. \A q \in Probers : q # p => task'[q] = task[q]
    <3>1. PICK row : task' = [task EXCEPT ![p] = row]
      BY <2>1
    <3> QED BY <2>2, <3>1
  <2> QED BY <2>4, <2>6, <2>7
<1>4. /\ R.step = 1 /\ R.left = WaitFor(Order[1]) /\ R.took = 0 /\ R.ok = {}
      /\ R.recent = {s \in Databases : sinceGood[s] < LongAgo}
      /\ R.trouble <=> (Troubled \/ sinceTrouble < LongAgo)
      /\ R \in [step : 0 .. Count + 1, left : Nat, took : Nat, ok : SUBSET Services,
                recent : SUBSET Services, trouble : BOOLEAN]
  <2>1. WaitFor(Order[1]) \in Nat
    BY <1>2, WaitsAreNumbers
  <2> DEFINE b == Troubled \/ sinceTrouble < LongAgo
  <2>2. b \in BOOLEAN /\ (b <=> (Troubled \/ sinceTrouble < LongAgo))
    OBVIOUS
  <2>3. R = [step |-> 1, left |-> WaitFor(Order[1]), took |-> 0, ok |-> {},
             recent |-> {s \in Databases : sinceGood[s] < LongAgo}, trouble |-> b]
    OBVIOUS
  <2>4. {s \in Databases : sinceGood[s] < LongAgo} \subseteq Services
    BY <1>2
  <2> HIDE DEF b, R
  <2> QED BY <1>2, <2>1, <2>2, <2>3, <2>4
<1> HIDE DEF R
<1>5. /\ prober' \in [Probers -> [step : 0 .. Count + 1, left : Nat, took : Nat, ok : SUBSET Services,
                                  recent : SUBSET Services, trouble : BOOLEAN]]
      /\ prober'[p] = R /\ \A q \in Probers : q # p => prober'[q] = prober[q]
  BY <1>1, <1>2, <1>4 DEF ReadyTypes
<1>6. \A s \in Services, l \in Levels :
         IF s \in Databases /\ l = "full" THEN task'[p][s][l].pc = "queued" ELSE task'[p][s][l].pc = "none"
  BY <1>3, NewTasks
<1>7. Lists(line, Waiting)'
  <2> DEFINE Q == {<<p, s, "full">> : s \in Databases}
  <2>1. \A s \in Services, l \in Levels : task[p][s][l].pc = "none"
    BY <1>1, NewTasks
  <2>2. Lists(line, Waiting) /\ Lists([i \in 1 .. Cardinality(Databases) |-> <<p, Order[i], "full">>], Q)
    BY LineListsWaiting, ChecksAreListed DEF ReadyIInv
  <2>3. Waiting \cap Q = {}
    <3>1. SUFFICES ASSUME NEW s \in Databases, <<p, s, "full">> \in Waiting PROVE FALSE
      OBVIOUS
    <3>2. task[p][s]["full"].pc = "queued" /\ s \in Services
      BY <1>2, <3>1 DEF Waiting, TaskAt
    <3> QED BY <2>1, <3>2 DEF Levels
  <2>4. Lists(line', Waiting \cup Q)
    <3> HIDE DEF Q
    <3>1. Lists(line \o [i \in 1 .. Cardinality(Databases) |-> <<p, Order[i], "full">>], Waiting \cup Q)
      BY <2>2, <2>3, ConcatLists
    <3> QED BY <1>1, <3>1
  <2>5. ASSUME NEW t \in Triples PROVE t \in Waiting' <=> t \in Waiting \cup Q
    <3>1. t[1] \in Probers /\ t[2] \in Services /\ t[3] \in Levels /\ t = <<t[1], t[2], t[3]>>
      BY DEF Triples
    <3>2. (t \in Waiting' <=> task'[t[1]][t[2]][t[3]].pc = "queued") /\ (t \in Waiting <=> task[t[1]][t[2]][t[3]].pc = "queued")
      BY DEF Waiting, TaskAt
    <3>3. CASE t[1] # p
      <4>1. t \notin Q
        BY <3>3
      <4> QED BY <1>3, <3>1, <3>2, <3>3, <4>1
    <3>4. CASE t[1] = p
      <4>1. t \notin Waiting
        BY <2>1, <3>1, <3>2, <3>4
      <4>2. t \in Waiting' <=> t[2] \in Databases /\ t[3] = "full"
        BY <1>6, <3>1, <3>2, <3>4
      <4>3. t \in Q <=> t[2] \in Databases /\ t[3] = "full"
        BY <3>1, <3>4
      <4> QED BY <4>1, <4>2, <4>3
    <3> QED BY <3>3, <3>4
  <2>6. Waiting' = Waiting \cup Q
    <3>1. Q \subseteq Triples
      BY <1>2 DEF Triples, Levels
    <3>2. Waiting \subseteq Triples /\ Waiting' \subseteq Triples
      BY DEF Waiting, Triples
    <3> HIDE DEF Q
    <3> QED BY <2>5, <3>1, <3>2
  <2> QED BY <2>4, <2>6 DEF Lists
<1>8. RequestIsSound(p)'
  <2>1. IsAsking(p)'
    BY <1>2, <1>4, <1>5 DEF IsAsking
  <2>2. TimeIsKept(p)'
    <3>1. WaitsAfter[0] = WaitFor(Order[1]) + WaitsAfter[1] /\ WaitsAfter[1] \in Nat /\ WaitFor(Order[1]) \in Nat
      <4>1. 0 \in 0 .. Count - 1 /\ 0 + 1 = 1 /\ 1 \in 0 .. Count
        BY <1>2
      <4> QED BY <1>2, <4>1, WaitsAreSums, WaitsAreNumbers
    <3> QED BY <1>4, <1>5, <3>1 DEF TimeIsKept, Longest
  <2>3. WorkIsThere(p)'
    <3>1. \A i \in 1 .. Count : Order[i] \in Services /\ (i = 1 => Order[i] \in Databases)
      BY <1>2, OrderIsFinite
    <3> QED BY <1>4, <1>5, <1>6, <3>1 DEF WorkIsThere, TaskAt, Levels
  <2>4. NewsAreRecent(p)'
    BY <1>1, <1>4, <1>5 DEF NewsAreRecent
  <2>5. CalmIsSound(p)'
    <3>1. SUFFICES ASSUME ~R.trouble
                   PROVE  /\ R.took = 0 /\ R.left = WaitFor(Order[R.step]) /\ sinceTrouble' = LongAgo
                          /\ \A i \in 1 .. Count : ~(i < R.step)
      BY <1>5 DEF CalmIsSound
    <3>2. sinceTrouble \in 0 .. LongAgo /\ ~(sinceTrouble < LongAgo) /\ LongAgo \in Nat
      BY <1>2, <1>4, <3>1, WaitsAreNumbers DEF ReadyTypes
    <3> QED BY <1>1, <1>4, <3>2
  <2>6. prober'[p].step # 0
    BY <1>4, <1>5
  <2> QED BY <2>2, <2>3, <2>4, <2>5, <2>6 DEF RequestIsSound
<1>9. ASSUME NEW s \in Services PROVE CheckIsSound(p, s)'
  <2>1. /\ task'[p][s]["probe"].pc = "none" /\ task'[p][s]["select"].pc = "none"
        /\ task'[p][s]["full"].pc = IF s \in Databases THEN "queued" ELSE "none"
    BY <1>6 DEF Levels
  <2> QED BY <2>1 DEF CheckIsSound, FullIsSound, ProbeIsSound, SelectIsSound, PingIsSound, TaskAt
<1>10. \A s \in Services, l \in Levels : ~Holds(task'[p][s][l])
  BY <1>6 DEF Holds
<1> QED BY <1>1, <1>3, <1>5, <1>7, <1>8, <1>9, <1>10, RequestStep

(* A request goes on: of its tasks those of the service it waited for end,   *)
(* if no thread has them, and the next that is only pinged begins.           *)
LEMMA TasksOfGoOn ==
    ASSUME ReadyIInv, NEW p \in Probers, GoOn(p)
    PROVE  LET i == prober[p].step
               s == Order[i]
           IN  /\ i \in 1 .. Count /\ s \in Services /\ Level(s) \in Levels
               /\ task' \in [Probers -> [Services -> [Levels -> Tasks]]]
               /\ \A q \in Probers : q # p => task'[q] = task[q]
               /\ \A u \in Services, l \in Levels :
                     IF u = s /\ l = Level(s) THEN task'[p][u][l] = Cancelled(p, s, l)
                     ELSE IF i < Count /\ u = Order[i + 1] /\ u \notin Databases /\ l = "probe" THEN task'[p][u][l] = Queued
                     ELSE task'[p][u][l] = task[p][u][l]
<1> DEFINE i == prober[p].step
           s == Order[i]
           pinged == (IF i < Count THEN {Order[i + 1]} ELSE {}) \ Databases
<1>1. i \in 1 .. Count /\ ReadyTypes
  BY DEF GoOn, ReadyIInv
<1>2. s \in Services /\ Level(s) \in Levels
  BY <1>1, OrderIsFinite DEF Level, Levels
<1>3. task' = [task EXCEPT ![p] = [u \in Services |-> [l \in Levels |->
                        IF u = s /\ l = Level(s) THEN Cancelled(p, s, l)
                        ELSE IF u \in pinged /\ l = "probe" THEN Queued
                        ELSE task[p][u][l]]]]
  BY DEF GoOn
<1> DEFINE T == [u \in Services |-> [l \in Levels |->
                        IF u = s /\ l = Level(s) THEN Cancelled(p, s, l)
                        ELSE IF u \in pinged /\ l = "probe" THEN Queued
                        ELSE task[p][u][l]]]
<1>4. \A u : u \in pinged <=> i < Count /\ u = Order[i + 1] /\ u \notin Databases
  OBVIOUS
<1> HIDE DEF pinged, s
<1>5. T \in [Services -> [Levels -> Tasks]]
  <2>1. \A l \in Levels : Cancelled(p, s, l) \in Tasks
    BY <1>1, <1>2, CancelledTasks
  <2>2. Queued \in Tasks /\ \A u \in Services, l \in Levels : task[p][u][l] \in Tasks
    BY <1>1, NewTasks DEF ReadyTypes
  <2> QED BY <2>1, <2>2
<1>6. \A u \in Services, l \in Levels :
         T[u][l] = IF u = s /\ l = Level(s) THEN Cancelled(p, s, l)
                   ELSE IF u \in pinged /\ l = "probe" THEN Queued
                   ELSE task[p][u][l]
  OBVIOUS
<1> HIDE DEF T
<1>7. task \in [Probers -> [Services -> [Levels -> Tasks]]] /\ task' = [task EXCEPT ![p] = T]
  BY <1>1, <1>3 DEF ReadyTypes, T
<1>8. /\ task' \in [Probers -> [Services -> [Levels -> Tasks]]] /\ task'[p] = T
      /\ \A q \in Probers : q # p => task'[q] = task[q]
  BY <1>5, <1>7
<1>9. \A u \in Services, l \in Levels :
        IF u = s /\ l = Level(s) THEN task'[p][u][l] = Cancelled(p, s, l)
        ELSE IF i < Count /\ u = Order[i + 1] /\ u \notin Databases /\ l = "probe" THEN task'[p][u][l] = Queued
        ELSE task'[p][u][l] = task[p][u][l]
  BY <1>4, <1>6, <1>8
<1> QED BY <1>1, <1>2, <1>8, <1>9 DEF s

(* A request goes on: what it was told is recent, or there was trouble.      *)
LEMMA GoOnKeepsReady ==
    ASSUME ReadyIInv, NEW p \in Probers, GoOn(p)
    PROVE  ReadyIInv'
<1> PICK i \in 1 .. Count : i = prober[p].step
  BY DEF GoOn
<1> PICK s \in Services : s = Order[i]
  BY OrderIsFinite
<1> DEFINE L == Level(s)
           said == task[p][s][L]
           good == said.pc = "returned" /\ said.ok
           n == Order[i + 1]
           R == prober'[p]
<1>1. ReadyTypes /\ Count \in Nat \ {0} /\ i \in Nat /\ IsAsking(p) /\ prober[p].step > 0 /\ L \in Levels
      /\ RequestIsSound(p)
  BY OrderIsFinite, TasksOfGoOn DEF ReadyIInv, IsAsking
<1>2. /\ task' \in [Probers -> [Services -> [Levels -> Tasks]]]
      /\ \A q \in Probers : q # p => task'[q] = task[q]
      /\ \A u \in Services, l \in Levels :
            IF u = s /\ l = L THEN task'[p][u][l] = Cancelled(p, s, l)
            ELSE IF i < Count /\ u = n /\ u \notin Databases /\ l = "probe" THEN task'[p][u][l] = Queued
            ELSE task'[p][u][l] = task[p][u][l]
  BY TasksOfGoOn
<1>3. i < Count => i + 1 \in 1 .. Count /\ n \in Services /\ n # s
                   /\ (n \notin Databases => TaskAt(p, n, "probe", "none"))
  <2>1. SUFFICES ASSUME i < Count
                 PROVE  i + 1 \in 1 .. Count /\ n \in Services /\ n # s
                        /\ (n \notin Databases => TaskAt(p, n, "probe", "none"))
    OBVIOUS
  <2>2. i + 1 \in 1 .. Count /\ i + 1 # i /\ i + 1 > i
    BY <1>1, <2>1
  <2>3. n \in Services /\ n # s
    BY <2>2, OrderIsFinite
  <2> QED BY <1>1, <2>2, <2>3 DEF RequestIsSound, WorkIsThere
<1>4. said \in Tasks /\ (said.pc # "returned" => prober[p].left = 0)
  <2>1. said \in Tasks
    BY <1>1, TasksAreTasks
  <2> QED BY <2>1 DEF GoOn
<1>5. UNCHANGED <<healthy, readyCache, sinceGood, sinceTrouble>>
  BY DEF GoOn
<1>6. /\ prober' \in [Probers -> [step : 0 .. Count + 1, left : Nat, took : Nat, ok : SUBSET Services,
                                  recent : SUBSET Services, trouble : BOOLEAN]]
      /\ \A q \in Probers : q # p => prober'[q] = prober[q]
      /\ R.step = i + 1 /\ R.left = (IF i < Count THEN WaitFor(n) ELSE 0)
      /\ R.took = prober[p].took /\ R.recent = prober[p].recent /\ R.trouble = prober[p].trouble
      /\ R.ok = IF good THEN prober[p].ok \cup {s} ELSE prober[p].ok
  <2> DEFINE w == IF i < Count THEN WaitFor(n) ELSE 0
             o == IF good THEN prober[p].ok \cup {s} ELSE prober[p].ok
  <2>1. prober' = [prober EXCEPT ![p].step = i + 1, ![p].left = w, ![p].ok = o]
    <3>1. (IF i < Count THEN {n} ELSE {}) = {} <=> ~(i < Count)
      OBVIOUS
    <3>2. prober' = [prober EXCEPT ![p].step = i + 1,
                                   ![p].left = IF (IF i < Count THEN {n} ELSE {}) = {} THEN 0 ELSE WaitFor(n),
                                   ![p].ok = IF ~(said.pc # "returned") /\ said.ok THEN @ \cup {s} ELSE @]
      BY DEF GoOn
    <3>3. w = IF (IF i < Count THEN {n} ELSE {}) = {} THEN 0 ELSE WaitFor(n)
      BY <3>1
    <3>4. o = IF ~(said.pc # "returned") /\ said.ok THEN prober[p].ok \cup {s} ELSE prober[p].ok
      OBVIOUS
    <3> HIDE DEF w, o, said, n
    <3> QED BY <1>1, <3>2, <3>3, <3>4 DEF ReadyTypes
  <2>2. w \in Nat
    BY <1>3, WaitsAreNumbers
  <2>3. prober \in [Probers -> [step : 0 .. Count + 1, left : Nat, took : Nat, ok : SUBSET Services,
                                recent : SUBSET Services, trouble : BOOLEAN]]
    BY <1>1 DEF ReadyTypes
  <2>4. o \in SUBSET Services
    BY <2>3
  <2>5. i + 1 \in 0 .. Count + 1
    BY <1>1
  <2> HIDE DEF w, o
  <2>6. /\ prober' \in [Probers -> [step : 0 .. Count + 1, left : Nat, took : Nat, ok : SUBSET Services,
                                    recent : SUBSET Services, trouble : BOOLEAN]]
        /\ \A q \in Probers : q # p => prober'[q] = prober[q]
        /\ R.step = i + 1 /\ R.left = w /\ R.ok = o
        /\ R.took = prober[p].took /\ R.recent = prober[p].recent /\ R.trouble = prober[p].trouble
    BY <2>1, <2>2, <2>3, <2>4, <2>5
  <2> QED BY <2>6 DEF w, o
<1> HIDE DEF n, R
<1>7. IsAsking(p)' <=> i < Count
  BY <1>1, <1>6 DEF IsAsking, R
<1>8. /\ said.pc \in {"queued", "returned"} => task'[p][s][L].pc = "none"
      /\ said.pc \notin {"queued", "returned"} => task'[p][s][L] = said
  BY <1>1, <1>2, CancelledTasks, NewTasks
<1>9. ASSUME NEW u \in Services, NEW l \in Levels, ~(u = s /\ l = L), ~(i < Count /\ u = n /\ u \notin Databases /\ l = "probe")
      PROVE  task'[p][u][l] = task[p][u][l]
  BY <1>2, <1>9
<1>10. i < Count /\ n \notin Databases => task'[p][n]["probe"].pc = "queued"
  BY <1>2, <1>3, NewTasks DEF Levels
<1> HIDE DEF said
<1>11. Lists(line, Waiting)'
  <2> DEFINE E == IF i < Count /\ n \notin Databases THEN {<<p, n, "probe">>} ELSE {}
             W == Waiting \ {<<p, s, L>>}
             m == IF i < Count /\ n \notin Databases THEN <<<<p, n, "probe">>>> ELSE <<>>
  <2>1. line' = Without(<<p, s, L>>) \o m
    <3>1. (IF i < Count THEN {n} ELSE {}) \ Databases = {} <=> ~(i < Count /\ n \notin Databases)
      OBVIOUS
    <3> QED BY <3>1 DEF GoOn, n
  <2>2. Lists(Without(<<p, s, L>>), W) /\ Lists(m, E)
    <3>1. Lists(line, Waiting)
      BY LineListsWaiting DEF ReadyIInv
    <3>2. Lists(Without(<<p, s, L>>), W)
      BY <3>1, WithoutLists
    <3> QED BY <3>2, OneIsListed, NoneAreListed
  <2>3. W \cap E = {}
    <3>1. i < Count /\ n \notin Databases => <<p, n, "probe">> \notin Waiting
      BY <1>3 DEF Waiting, TaskAt
    <3> QED BY <3>1
  <2>4. Lists(line', W \cup E)
    <3> HIDE DEF W, E, m
    <3>1. Lists(Without(<<p, s, L>>) \o m, W \cup E)
      BY <2>2, <2>3, ConcatLists
    <3> QED BY <2>1, <3>1
  <2>5. ASSUME NEW t \in Triples PROVE t \in Waiting' <=> t \in W \cup E
    <3>1. t[1] \in Probers /\ t[2] \in Services /\ t[3] \in Levels /\ t = <<t[1], t[2], t[3]>>
      BY DEF Triples
    <3>2. (t \in Waiting' <=> task'[t[1]][t[2]][t[3]].pc = "queued") /\ (t \in Waiting <=> task[t[1]][t[2]][t[3]].pc = "queued")
      BY DEF Waiting, TaskAt
    <3>3. CASE t[1] # p
      <4>1. t \notin E /\ (t \in W <=> t \in Waiting)
        BY <3>3
      <4> QED BY <1>2, <3>1, <3>2, <3>3, <4>1
    <3>4. CASE t = <<p, s, L>>
      <4>1. t \notin W /\ t \notin E
        BY <1>3, <3>4
      <4>2. task'[p][s][L].pc # "queued"
        BY <1>8
      <4>3. t[1] = p /\ t[2] = s /\ t[3] = L
        BY <3>4
      <4> QED BY <3>2, <4>1, <4>2, <4>3
    <3>5. CASE i < Count /\ n \notin Databases /\ t = <<p, n, "probe">>
      <4>1. t \in E
        BY <3>5
      <4>2. t[1] = p /\ t[2] = n /\ t[3] = "probe"
        BY <3>5
      <4> QED BY <1>10, <3>2, <3>5, <4>1, <4>2
    <3>6. CASE t[1] = p /\ t # <<p, s, L>> /\ ~(i < Count /\ n \notin Databases /\ t = <<p, n, "probe">>)
      <4>1. t \notin E /\ (t \in W <=> t \in Waiting)
        BY <3>6
      <4>2. ~(t[2] = s /\ t[3] = L) /\ ~(i < Count /\ t[2] = n /\ t[2] \notin Databases /\ t[3] = "probe")
        BY <3>1, <3>6
      <4>3. task'[p][t[2]][t[3]] = task[p][t[2]][t[3]]
        BY <1>9, <3>1, <4>2
      <4> QED BY <3>2, <3>6, <4>1, <4>3
    <3> QED BY <3>3, <3>4, <3>5, <3>6
  <2>6. Waiting' = W \cup E
    <3>1. E \subseteq Triples
      BY <1>3 DEF Triples, Levels
    <3>2. W \subseteq Triples /\ Waiting' \subseteq Triples
      BY DEF Waiting, Triples
    <3> HIDE DEF E, W
    <3> QED BY <2>5, <3>1, <3>2
  <2> QED BY <2>4, <2>6 DEF Lists
<1>12. ASSUME NEW u \in Services, NEW l \in Levels, Holds(task'[p][u][l]) PROVE HoldsThread(p, u, l)
  <2>1. CASE u = s /\ l = L
    BY <1>4, <1>8, <1>12, <2>1 DEF Holds, HoldsThread, said
  <2>2. CASE i < Count /\ u = n /\ u \notin Databases /\ l = "probe"
    BY <1>10, <1>12, <2>2 DEF Holds
  <2>3. CASE ~(u = s /\ l = L) /\ ~(i < Count /\ u = n /\ u \notin Databases /\ l = "probe")
    <3>1. task'[p][u][l] = task[p][u][l]
      BY <1>9, <2>3
    <3> QED BY <1>12, <3>1 DEF Holds, HoldsThread
  <2> QED BY <2>1, <2>2, <2>3
<1>13. s \in Databases => L = "full" /\ FullIsSound(p, s)
  BY DEF ReadyIInv, CheckIsSound, Level
<1>14. s \notin Databases => L = "probe" /\ PingIsSound(p, s)
  BY DEF ReadyIInv, CheckIsSound, Level
<1>15. RequestIsSound(p)'
  <2>1. TimeIsKept(p)'
    <3>1. prober[p].took + prober[p].left + WaitsAfter[i] <= Longest /\ prober[p].took <= Longest
      BY <1>1 DEF RequestIsSound, TimeIsKept
    <3>2. prober[p].took \in Nat /\ prober[p].left \in Nat /\ WaitsAfter[i] \in Nat /\ Longest \in Nat
      BY <1>1, WaitsAreSums DEF ReadyTypes, Longest
    <3>3. ASSUME i < Count PROVE R.took + R.left + WaitsAfter[R.step] <= Longest
      <4>1. i \in 0 .. Count - 1 /\ i + 1 \in 0 .. Count
        BY <1>1, <3>3
      <4>2. WaitsAfter[i] = WaitFor(n) + WaitsAfter[i + 1] /\ WaitFor(n) \in Nat /\ WaitsAfter[i + 1] \in Nat
        BY <1>3, <3>3, <4>1, WaitsAreSums, WaitsAreNumbers DEF n
      <4> QED BY <1>6, <3>1, <3>2, <3>3, <4>2
    <3> QED BY <1>6, <1>7, <3>1, <3>3 DEF TimeIsKept, R
  <2>2. WorkIsThere(p)'
    <3>1. SUFFICES ASSUME i < Count, NEW j \in 1 .. Count
                   PROVE  IF Order[j] \in Databases
                          THEN j >= i + 1 => task'[p][Order[j]]["full"].pc # "none"
                          ELSE /\ j = i + 1 => task'[p][Order[j]]["probe"].pc # "none"
                               /\ j > i + 1 => task'[p][Order[j]]["probe"].pc = "none"
      BY <1>6, <1>7 DEF WorkIsThere, TaskAt, R
    <3>2. Order[j] \in Services /\ (j # i => Order[j] # s) /\ (j # i + 1 => Order[j] # n)
      BY <1>3, <3>1, OrderIsFinite DEF n
    <3>3. IF Order[j] \in Databases
          THEN j >= i => task[p][Order[j]]["full"].pc # "none"
          ELSE j > i => task[p][Order[j]]["probe"].pc = "none"
      BY <1>1 DEF RequestIsSound, WorkIsThere, TaskAt
    <3>4. CASE Order[j] \in Databases
      <4>1. SUFFICES ASSUME j >= i + 1 PROVE task'[p][Order[j]]["full"].pc # "none"
        BY <3>4
      <4>2. j # i /\ j >= i
        BY <1>1, <4>1
      <4>3. task'[p][Order[j]]["full"] = task[p][Order[j]]["full"]
        BY <1>9, <3>2, <3>4, <4>2 DEF Levels
      <4> QED BY <3>3, <3>4, <4>2, <4>3
    <3>5. CASE Order[j] \notin Databases
      <4>1. j = i + 1 => task'[p][Order[j]]["probe"].pc # "none"
        BY <1>10, <3>1, <3>5 DEF n
      <4>2. ASSUME j > i + 1 PROVE task'[p][Order[j]]["probe"].pc = "none"
        <5>1. j # i /\ j # i + 1 /\ j > i
          BY <1>1, <4>2
        <5>2. task'[p][Order[j]]["probe"] = task[p][Order[j]]["probe"]
          BY <1>9, <3>2, <5>1 DEF Levels
        <5> QED BY <3>3, <3>5, <5>1, <5>2
      <4> QED BY <3>5, <4>1, <4>2
    <3> QED BY <3>4, <3>5
  <2>3. NewsAreRecent(p)'
    <3>1. prober[p].ok \cap Databases \subseteq prober[p].recent
          /\ \A u \in Databases : sinceGood[u] < LongAgo => u \in prober[p].recent
      BY <1>1 DEF RequestIsSound, NewsAreRecent
    <3>2. s \in Databases /\ good => s \in prober[p].recent
      BY <1>13 DEF FullIsSound, TaskAt, said
    <3> QED BY <1>5, <1>6, <3>1, <3>2 DEF NewsAreRecent, R
  <2>4. CalmIsSound(p)'
    <3>1. SUFFICES ASSUME ~prober[p].trouble
                   PROVE  /\ R.took = 0 /\ \A j \in 1 .. Count : j < i + 1 => Order[j] \in R.ok
                          /\ i < Count => R.left = WaitFor(Order[i + 1]) /\ sinceTrouble' = LongAgo
      BY <1>6, <1>7 DEF CalmIsSound, R
    <3>2. /\ prober[p].took = 0 /\ \A j \in 1 .. Count : j < i => Order[j] \in prober[p].ok
          /\ prober[p].left = WaitFor(s) /\ sinceTrouble = LongAgo
      BY <1>1, <3>1 DEF RequestIsSound, CalmIsSound
    <3>3. WaitFor(s) # 0 /\ LongAgo # 0
      BY WaitsAreNumbers
    <3>4. said.pc = "returned"
      BY <1>4, <3>2, <3>3
    <3>5. said.ok
      <4>1. CASE s \in Databases
        BY <1>13, <3>1, <3>4, <4>1 DEF FullIsSound, TaskAt, said
      <4>2. CASE s \notin Databases
        BY <1>14, <3>2, <3>3, <3>4, <4>2 DEF PingIsSound, TaskAt, said
      <4> QED BY <4>1, <4>2
    <3>6. R.ok = prober[p].ok \cup {s}
      BY <1>6, <3>4, <3>5
    <3>7. \A j \in 1 .. Count : j < i + 1 => j < i \/ j = i
      BY <1>1
    <3> QED BY <1>5, <1>6, <3>2, <3>6, <3>7 DEF n
  <2>5. R.step # 0
    BY <1>1, <1>6
  <2> QED BY <2>1, <2>2, <2>3, <2>4, <2>5 DEF RequestIsSound, R
<1>16. ASSUME NEW u \in Services PROVE CheckIsSound(p, u)'
  <2>1. CheckIsSound(p, u) /\ \A l \in Levels : task[p][u][l] \in Tasks
    BY <1>1, TasksAreTasks DEF ReadyIInv
  <2>2. CASE u = s /\ s \in Databases
    <3>1. task'[p][s]["probe"] = task[p][s]["probe"] /\ task'[p][s]["select"] = task[p][s]["select"]
      BY <1>9, <1>13, <2>2 DEF Levels
    <3>2. (task'[p][s]["full"].pc = "none" /\ task[p][s]["full"].pc \in {"queued", "returned"})
          \/ (task'[p][s]["full"] = task[p][s]["full"] /\ task[p][s]["full"].pc \notin {"queued", "returned"})
      BY <1>8, <1>13, <2>2 DEF said
    <3>3. FullIsSound(p, s)'
      BY <1>5, <1>13, <2>2, <3>1, <3>2 DEF FullIsSound, TaskAt
    <3>4. ProbeIsSound(p, s)' /\ SelectIsSound(p, s)'
      BY <1>5, <2>1, <2>2, <3>1, <3>2 DEF CheckIsSound, ProbeIsSound, SelectIsSound, TaskAt
    <3> QED BY <2>2, <3>3, <3>4 DEF CheckIsSound
  <2>3. CASE u = s /\ s \notin Databases
    <3>1. task'[p][s]["full"] = task[p][s]["full"] /\ task'[p][s]["select"] = task[p][s]["select"]
      BY <1>9, <1>14, <2>3 DEF Levels
    <3>2. task'[p][s]["probe"].pc \notin {"waits", "returned"}
      BY <1>4, <1>8, <1>14, <2>3 DEF said, PingIsSound, TaskAt, Tasks
    <3> QED BY <1>14, <2>3, <3>1, <3>2 DEF CheckIsSound, PingIsSound, TaskAt
  <2>4. CASE u # s /\ i < Count /\ u = n /\ u \notin Databases
    <3>1. task'[p][u]["full"] = task[p][u]["full"] /\ task'[p][u]["select"] = task[p][u]["select"]
      BY <1>9, <2>4 DEF Levels
    <3>2. task'[p][u]["probe"].pc = "queued"
      BY <1>10, <2>4
    <3> QED BY <2>1, <2>4, <3>1, <3>2 DEF CheckIsSound, PingIsSound, TaskAt
  <2>5. CASE u # s /\ ~(i < Count /\ u = n /\ u \notin Databases)
    <3>1. /\ task'[p][u]["full"] = task[p][u]["full"] /\ task'[p][u]["select"] = task[p][u]["select"]
          /\ task'[p][u]["probe"] = task[p][u]["probe"]
      BY <1>9, <2>5 DEF Levels
    <3>2. CASE u \in Databases
      <4>1. IsPending(p, u) => IsPending(p, u)'
        <5>1. SUFFICES ASSUME NEW j \in DOMAIN Order, prober[p].step \in 1 .. j, Order[j] = u
                       PROVE  i + 1 \in 1 .. j
          BY <1>6 DEF IsPending, R
        <5>2. j \in 1 .. Count /\ j # i
          BY <2>5, <5>1, OrderIsFinite
        <5> QED BY <1>1, <5>1, <5>2
      <4>2. FullIsSound(p, u)'
        BY <1>5, <1>6, <2>1, <3>1, <3>2, <4>1 DEF CheckIsSound, FullIsSound, TaskAt, R
      <4>3. ProbeIsSound(p, u)' /\ SelectIsSound(p, u)'
        BY <1>5, <2>1, <3>1, <3>2 DEF CheckIsSound, ProbeIsSound, SelectIsSound, TaskAt
      <4> QED BY <3>2, <4>2, <4>3 DEF CheckIsSound
    <3>3. CASE u \notin Databases
      BY <2>1, <2>5, <3>1, <3>3 DEF CheckIsSound, PingIsSound, TaskAt
    <3> QED BY <3>2, <3>3
  <2> QED BY <2>2, <2>3, <2>4, <2>5
<1> QED BY <1>2, <1>5, <1>6, <1>11, <1>12, <1>15, <1>16, RequestStep

-----------------------------------------------------------------------------
(* Why time goes on under a check: when nothing is due, who waits for        *)
(* another thread waits for a service that is down or for a thread.          *)
LEMMA QueuedIsTrouble ==
    ASSUME ReadyIInv, NothingIsDue, NEW p \in Probers, NEW s \in Services, NEW l \in Levels, TaskAt(p, s, l, "queued")
    PROVE  Troubled
<1>1. <<p, s, l>> \in Triples /\ <<p, s, l>>[1] = p /\ <<p, s, l>>[2] = s /\ <<p, s, l>>[3] = l
  BY DEF Triples
<1>2. IsQueued(<<p, s, l>>)
  BY <1>1 DEF ReadyIInv, LineIsKept
<1>3. line # <<>>
  BY <1>2, EmptySeq DEF IsQueued
<1> QED BY <1>3 DEF NothingIsDue, Troubled

(* A probe that waits while nothing is due waits in trouble.                 *)
LEMMA ProbeWaitsInTrouble ==
    ASSUME ReadyIInv, NothingIsDue, NEW p \in Probers, NEW s \in Databases
    PROVE  /\ TaskAt(p, s, "probe", "waits") => Troubled
           /\ ~TaskAt(p, s, "select", "returned")
<1>1. /\ s \in Services /\ task[p][s]["select"] \in Tasks /\ "select" \in Levels
      /\ SelectIsSound(p, s) /\ ProbeIsSound(p, s) /\ ~Due(p)
  BY ChecksOfDatabases DEF NothingIsDue, Levels
<1>2. ~(TaskAt(p, s, "probe", "waits") /\ TaskAt(p, s, "select", "returned"))
  BY <1>1 DEF Due
<1>3. ~TaskAt(p, s, "select", "returned")
  BY <1>1, <1>2 DEF SelectIsSound
<1>4. ASSUME TaskAt(p, s, "probe", "waits") PROVE Troubled
  <2>1. TaskAt(p, s, "select", "queued") \/ TaskAt(p, s, "select", "runs")
    BY <1>1, <1>3, <1>4 DEF SelectIsSound, ProbeIsSound, TaskAt, Tasks
  <2>2. CASE TaskAt(p, s, "select", "queued")
    BY <1>1, <2>2, QueuedIsTrouble
  <2>3. CASE TaskAt(p, s, "select", "runs")
    <3>1. s \notin healthy
      BY <1>1, <2>3 DEF Due, Asks
    <3> QED BY <1>1, <3>1 DEF Troubled
  <2> QED BY <2>1, <2>2, <2>3
<1> QED BY <1>3, <1>4

(* So does the thread that waits for the probe.                              *)
LEMMA FullWaitsInTrouble ==
    ASSUME ReadyIInv, NothingIsDue, NEW p \in Probers, NEW s \in Databases
    PROVE  /\ TaskAt(p, s, "full", "waits") => Troubled
           /\ ~TaskAt(p, s, "probe", "returned")
<1>1. /\ s \in Services /\ task[p][s]["probe"] \in Tasks /\ "probe" \in Levels
      /\ FullIsSound(p, s) /\ ProbeIsSound(p, s) /\ ~Due(p)
  BY ChecksOfDatabases DEF NothingIsDue, Levels
<1>2. ~(TaskAt(p, s, "full", "waits") /\ TaskAt(p, s, "probe", "returned")) /\ ~TaskAt(p, s, "probe", "runs")
  BY <1>1 DEF Due
<1>3. ~TaskAt(p, s, "probe", "returned")
  BY <1>1, <1>2 DEF ProbeIsSound
<1>4. ASSUME TaskAt(p, s, "full", "waits") PROVE Troubled
  <2>1. TaskAt(p, s, "probe", "queued") \/ TaskAt(p, s, "probe", "waits")
    BY <1>1, <1>2, <1>3, <1>4 DEF FullIsSound, TaskAt, Tasks
  <2> QED BY <1>1, <2>1, QueuedIsTrouble, ProbeWaitsInTrouble
<1> QED BY <1>3, <1>4

(* What has returned to a request is taken before time goes on.              *)
LEMMA PingsAreHeard ==
    ASSUME ReadyIInv, NothingIsDue, NEW p \in Probers, NEW s \in Services, s \notin Databases
    PROVE  ~TaskAt(p, s, "probe", "returned")
<1>1. PingIsSound(p, s) /\ ~Due(p)
  BY DEF ReadyIInv, CheckIsSound, NothingIsDue
<1>2. ASSUME TaskAt(p, s, "probe", "returned") PROVE FALSE
  <2>1. IsAsking(p) /\ Order[prober[p].step] = s
    BY <1>1, <1>2 DEF PingIsSound
  <2>2. Level(s) = "probe"
    BY DEF Level
  <2> QED BY <1>1, <1>2, <2>1, <2>2 DEF Due, IsAsking
<1> QED BY <1>2

(* A request under which time goes on has trouble and time left.             *)
LEMMA AskingIsTrouble ==
    ASSUME ReadyIInv, NothingIsDue, NEW p \in Probers, IsAsking(p)
    PROVE  Troubled /\ prober[p].left # 0
<1> PICK i \in 1 .. Count : i = prober[p].step
  BY DEF IsAsking
<1> PICK s \in Services : s = Order[i]
  BY OrderIsFinite
<1>1. ReadyTypes /\ ~Due(p) /\ WorkIsThere(p) /\ CheckIsSound(p, s)
  BY DEF ReadyIInv, RequestIsSound, NothingIsDue
<1>2. task[p][s]["full"] \in Tasks /\ task[p][s]["probe"] \in Tasks
  BY <1>1, TasksAreTasks
<1>3. prober[p].left # 0 /\ ~TaskAt(p, s, Level(s), "returned")
  BY <1>1 DEF Due
<1>4. i \in Nat
  BY OrderIsFinite
<1>5. CASE s \in Databases
  <2>1. ~TaskAt(p, s, "full", "none") /\ ~TaskAt(p, s, "full", "returned") /\ ~TaskAt(p, s, "full", "runs")
    BY <1>1, <1>3, <1>4, <1>5 DEF WorkIsThere, Level, Due
  <2>2. TaskAt(p, s, "full", "queued") \/ TaskAt(p, s, "full", "waits")
    BY <1>2, <2>1 DEF TaskAt, Tasks
  <2>3. "full" \in Levels
    BY DEF Levels
  <2> QED BY <1>3, <1>5, <2>2, <2>3, QueuedIsTrouble, FullWaitsInTrouble
<1>6. CASE s \notin Databases
  <2>1. ~TaskAt(p, s, "probe", "none") /\ ~TaskAt(p, s, "probe", "returned") /\ ~TaskAt(p, s, "probe", "waits")
    BY <1>1, <1>3, <1>6 DEF WorkIsThere, Level, CheckIsSound, PingIsSound
  <2>2. TaskAt(p, s, "probe", "queued") \/ TaskAt(p, s, "probe", "runs")
    BY <1>2, <2>1 DEF TaskAt, Tasks
  <2>3. CASE TaskAt(p, s, "probe", "runs")
    <3>1. s \notin healthy
      BY <1>1, <1>6, <2>3 DEF Due, Asks
    <3> QED BY <1>3, <3>1 DEF Troubled
  <2>4. "probe" \in Levels
    BY DEF Levels
  <2> QED BY <1>3, <2>2, <2>3, <2>4, QueuedIsTrouble
<1> QED BY <1>5, <1>6

(* Time that goes on changes neither what tasks do nor what they have said.  *)
LEMMA ElapsedTasks ==
    ASSUME ReadyTypes, Elapse
    PROVE  /\ task' \in [Probers -> [Services -> [Levels -> Tasks]]]
           /\ \A p \in Probers, s \in Services, l \in Levels :
                 /\ task'[p][s][l].pc = task[p][s][l].pc /\ task'[p][s][l].ok = task[p][s][l].ok
                 /\ task'[p][s][l].left <= task[p][s][l].left
<1>1. task' = [p \in Probers |-> [s \in Services |-> [l \in Levels |->
                  [task[p][s][l] EXCEPT !.left = Less(task[p][s][l].left)]]]]
  BY DEF Elapse
<1>2. ASSUME NEW p \in Probers, NEW s \in Services, NEW l \in Levels
      PROVE  [task[p][s][l] EXCEPT !.left = Less(task[p][s][l].left)] \in Tasks
  <2>1. task[p][s][l] \in Tasks
    BY DEF ReadyTypes
  <2> QED BY <2>1 DEF Less, Tasks
<1>3. \A p \in Probers, s \in Services, l \in Levels :
         task'[p][s][l] = [task[p][s][l] EXCEPT !.left = Less(task[p][s][l].left)]
  BY <1>1
<1>4. task' \in [Probers -> [Services -> [Levels -> Tasks]]]
  BY <1>1, <1>2
<1>5. ASSUME NEW p \in Probers, NEW s \in Services, NEW l \in Levels
      PROVE  /\ task'[p][s][l].pc = task[p][s][l].pc /\ task'[p][s][l].ok = task[p][s][l].ok
             /\ task'[p][s][l].left <= task[p][s][l].left
  <2>1. task[p][s][l] \in Tasks
    BY DEF ReadyTypes
  <2>2. task'[p][s][l] = [task[p][s][l] EXCEPT !.left = Less(task[p][s][l].left)]
    BY <1>3
  <2> QED BY <2>1, <2>2 DEF Less, Tasks
<1> QED BY <1>4, <1>5

(* What time makes of a request.                                             *)
LEMMA ElapsedRequest ==
    ASSUME ReadyIInv, Elapse, NEW p \in Probers
    PROVE  /\ prober'[p] \in [step : 0 .. Count + 1, left : Nat, took : Nat, ok : SUBSET Services,
                              recent : SUBSET Services, trouble : BOOLEAN]
           /\ ~IsAsking(p) => prober'[p] = NoRequest
           /\ IsAsking(p) =>
                 /\ prober'[p].step = prober[p].step /\ prober'[p].ok = prober[p].ok
                 /\ prober'[p].recent = prober[p].recent /\ prober'[p].trouble
                 /\ prober'[p].left = prober[p].left - 1 /\ prober'[p].took = prober[p].took + 1
                 /\ prober'[p].took + prober'[p].left + WaitsAfter[prober[p].step] <= Longest
                 /\ prober'[p].took <= Longest
<1>1. ReadyTypes /\ NothingIsDue
  BY DEF ReadyIInv, Elapse
<1>2. prober'[p] = IF ~IsAsking(p) THEN NoRequest
                   ELSE [prober[p] EXCEPT !.left = Less(prober[p].left), !.took = Grown(prober[p].took, Longest + 1),
                                          !.trouble = prober[p].trouble \/ Troubled \/ healthy' # Services]
  BY DEF Elapse, IsAsking
<1>3. Longest \in Nat /\ Count \in Nat
  BY OrderIsFinite, WaitsAreSums DEF Longest
<1>4. prober[p] \in [step : 0 .. Count + 1, left : Nat, took : Nat, ok : SUBSET Services,
                     recent : SUBSET Services, trouble : BOOLEAN]
  BY <1>1 DEF ReadyTypes
<1>5. CASE ~IsAsking(p)
  BY <1>2, <1>3, <1>5 DEF NoRequest
<1>6. CASE IsAsking(p)
  <2>1. Troubled /\ prober[p].left # 0
    BY <1>1, <1>6, AskingIsTrouble
  <2>2. prober[p].took + prober[p].left + WaitsAfter[prober[p].step] <= Longest
        /\ WaitsAfter[prober[p].step] \in Nat
    <3>1. prober[p].step \in 0 .. Count
      BY <1>3, <1>6 DEF IsAsking
    <3> QED BY <1>6, <3>1, WaitsAreSums DEF ReadyIInv, RequestIsSound, TimeIsKept
  <2>3. Less(prober[p].left) = prober[p].left - 1 /\ Grown(prober[p].took, Longest + 1) = prober[p].took + 1
        /\ prober[p].left - 1 \in Nat
    BY <1>3, <1>4, <2>1, <2>2 DEF Less, Grown
  <2> DEFINE b == prober[p].trouble \/ Troubled \/ healthy' # Services
  <2>4. b = TRUE
    BY <2>1
  <2>5. prober'[p] = [prober[p] EXCEPT !.left = prober[p].left - 1, !.took = prober[p].took + 1, !.trouble = b]
    BY <1>2, <1>6, <2>3
  <2> HIDE DEF b
  <2>6. prober'[p] = [prober[p] EXCEPT !.left = prober[p].left - 1, !.took = prober[p].took + 1, !.trouble = TRUE]
    BY <2>4, <2>5
  <2>7. /\ prober'[p] \in [step : 0 .. Count + 1, left : Nat, took : Nat, ok : SUBSET Services,
                           recent : SUBSET Services, trouble : BOOLEAN]
        /\ prober'[p].step = prober[p].step /\ prober'[p].ok = prober[p].ok
        /\ prober'[p].recent = prober[p].recent /\ prober'[p].trouble
        /\ prober'[p].left = prober[p].left - 1 /\ prober'[p].took = prober[p].took + 1
    <3>1. prober[p].took + 1 \in Nat /\ TRUE \in BOOLEAN
      BY <1>4
    <3>2. prober'[p] \in [step : 0 .. Count + 1, left : Nat, took : Nat, ok : SUBSET Services,
                           recent : SUBSET Services, trouble : BOOLEAN]
      BY <1>4, <2>3, <2>6, <3>1
    <3>3. /\ prober'[p].step = prober[p].step /\ prober'[p].ok = prober[p].ok
          /\ prober'[p].recent = prober[p].recent
          /\ prober'[p].left = prober[p].left - 1 /\ prober'[p].took = prober[p].took + 1
      BY <1>4, <2>6
    <3>4. prober'[p].trouble = TRUE
      BY <1>4, <2>6
    <3> QED BY <3>2, <3>3, <3>4
  <2>8. prober[p].took \in Nat /\ prober[p].left \in Nat
    BY <1>4
  <2>9. prober'[p].took + prober'[p].left + WaitsAfter[prober[p].step] <= Longest /\ prober'[p].took <= Longest
    BY <1>3, <2>1, <2>2, <2>7, <2>8
  <2> QED BY <1>6, <2>7, <2>9
<1> QED BY <1>5, <1>6

(* Time goes on.                                                             *)
LEMMA ElapseKeepsReady == ReadyIInv /\ Elapse => ReadyIInv'
<1> SUFFICES ASSUME ReadyIInv, Elapse PROVE ReadyIInv'
  OBVIOUS
<1>1. ReadyTypes /\ NothingIsDue /\ UNCHANGED line /\ CacheFor \in Nat /\ LongAgo \in Nat /\ CacheFor < LongAgo
  BY WaitsAreNumbers DEF ReadyIInv, Elapse
<1>2. /\ task' \in [Probers -> [Services -> [Levels -> Tasks]]]
      /\ \A p \in Probers, s \in Services, l \in Levels :
            /\ task'[p][s][l].pc = task[p][s][l].pc /\ task'[p][s][l].ok = task[p][s][l].ok
            /\ task'[p][s][l].left <= task[p][s][l].left
  BY <1>1, ElapsedTasks
<1>3. /\ \A s \in Databases : sinceGood'[s] = Grown(sinceGood[s], LongAgo)
      /\ \A s \in Databases : /\ readyCache'[s].ok = readyCache[s].ok
                              /\ readyCache'[s].age = Grown(readyCache[s].age, CacheFor)
      /\ IF Troubled \/ healthy' # Services THEN sinceTrouble' = 0 ELSE sinceTrouble' = Grown(sinceTrouble, LongAgo)
  <2>1. \A s \in Databases : readyCache'[s] = [readyCache[s] EXCEPT !.age = Grown(readyCache[s].age, CacheFor)]
                             /\ readyCache[s] \in [ok : BOOLEAN, age : Nat]
    BY <1>1 DEF Elapse, ReadyTypes
  <2>2. \A s \in Databases : readyCache'[s].ok = readyCache[s].ok
                             /\ readyCache'[s].age = Grown(readyCache[s].age, CacheFor)
    BY <2>1
  <2> QED BY <2>2 DEF Elapse
<1>4. ReadyTypes'
  <2>1. healthy' \subseteq Services
    BY DEF Elapse
  <2>2. readyCache' \in [Databases -> [ok : BOOLEAN, age : Nat]]
    <3>1. readyCache' = [s \in Databases |-> [readyCache[s] EXCEPT !.age = Grown(readyCache[s].age, CacheFor)]]
      BY DEF Elapse
    <3>2. \A s \in Databases : readyCache[s] \in [ok : BOOLEAN, age : Nat]
      BY <1>1 DEF ReadyTypes
    <3> QED BY <1>1, <3>1, <3>2 DEF Grown
  <2>3. sinceGood' \in [Databases -> 0 .. LongAgo]
    <3>1. sinceGood' = [s \in Databases |-> Grown(sinceGood[s], LongAgo)]
      BY DEF Elapse
    <3>2. \A s \in Databases : sinceGood[s] \in 0 .. LongAgo
      BY <1>1 DEF ReadyTypes
    <3> QED BY <1>1, <3>1, <3>2 DEF Grown
  <2>4. sinceTrouble' \in 0 .. LongAgo
    BY <1>1, <1>3 DEF ReadyTypes, Grown
  <2>5. prober' \in [Probers -> [step : 0 .. Count + 1, left : Nat, took : Nat, ok : SUBSET Services,
                                 recent : SUBSET Services, trouble : BOOLEAN]]
    <3>1. prober' = [p \in Probers |-> prober'[p]]
      BY DEF Elapse
    <3> QED BY <3>1, ElapsedRequest
  <2>6. line' \in Seq(Triples)'
    <3>1. Triples' = Triples
      BY DEF Triples
    <3> QED BY <1>1, <3>1 DEF ReadyTypes
  <2> QED BY <1>2, <2>1, <2>2, <2>3, <2>4, <2>5, <2>6 DEF ReadyTypes, Triples
<1>5. \A t \in Triples : t[1] \in Probers /\ t[2] \in Services /\ t[3] \in Levels
  BY DEF Triples
<1>6. LineIsKept'
  <2>1. \A t \in Triples : IsQueued(t)' <=> IsQueued(t)
    BY <1>1 DEF IsQueued
  <2>2. \A t \in Triples : TaskAt(t[1], t[2], t[3], "queued")' <=> TaskAt(t[1], t[2], t[3], "queued")
    BY <1>2, <1>5 DEF TaskAt
  <2> QED BY <1>1, <2>1, <2>2 DEF ReadyIInv, LineIsKept, Triples
<1>7. ThreadsAreKept'
  <2>1. \A t \in Triples : HoldsThread(t[1], t[2], t[3])' <=> HoldsThread(t[1], t[2], t[3])
    BY <1>2, <1>5 DEF HoldsThread
  <2>2. BusyThreads' \subseteq BusyThreads
    BY <2>1 DEF BusyThreads, Triples
  <2> QED BY <2>2, NoThreadIsTaken DEF ReadyIInv
<1>8. ASSUME NEW p \in Probers PROVE RequestIsSound(p)'
  <2>1. RequestIsSound(p)
    BY DEF ReadyIInv
  <2>2. CASE ~IsAsking(p)
    <3>1. prober'[p] = NoRequest
      BY <2>2, ElapsedRequest
    <3>2. prober'[p].step = 0 /\ prober'[p].took = 0
      BY <3>1 DEF NoRequest
    <3>3. ~(IsAsking(p)') /\ Count \in Nat /\ Longest \in Nat
      BY <3>2, OrderIsFinite, WaitsAreSums DEF IsAsking, Longest
    <3> QED BY <3>1, <3>2, <3>3 DEF RequestIsSound, TimeIsKept, WorkIsThere, NewsAreRecent, CalmIsSound
  <2>3. CASE IsAsking(p)
    <3>1. /\ prober'[p].step = prober[p].step /\ prober'[p].ok = prober[p].ok
          /\ prober'[p].recent = prober[p].recent /\ prober'[p].trouble
          /\ prober'[p].took + prober'[p].left + WaitsAfter[prober[p].step] <= Longest
          /\ prober'[p].took <= Longest
      BY <2>3, ElapsedRequest
    <3>2. IsAsking(p)' /\ prober[p].step > 0 /\ prober[p].step # 0
      BY <2>3, <3>1, OrderIsFinite DEF IsAsking
    <3>3. TimeIsKept(p)'
      BY <3>1, <3>2 DEF TimeIsKept
    <3>4. WorkIsThere(p)'
      <4>1. SUFFICES ASSUME NEW i \in 1 .. Count
                     PROVE  IF Order[i] \in Databases
                            THEN i >= prober[p].step => task'[p][Order[i]]["full"].pc # "none"
                            ELSE /\ i = prober[p].step => task'[p][Order[i]]["probe"].pc # "none"
                                 /\ i > prober[p].step => task'[p][Order[i]]["probe"].pc = "none"
        BY <3>1 DEF WorkIsThere, TaskAt
      <4>2. Order[i] \in Services /\ "full" \in Levels /\ "probe" \in Levels
        BY OrderIsFinite DEF Levels
      <4>3. task'[p][Order[i]]["full"].pc = task[p][Order[i]]["full"].pc
            /\ task'[p][Order[i]]["probe"].pc = task[p][Order[i]]["probe"].pc
        BY <1>2, <4>2
      <4> QED BY <2>1, <2>3, <4>3 DEF RequestIsSound, WorkIsThere, TaskAt
    <3>5. NewsAreRecent(p)'
      <4>1. \A s \in Databases : sinceGood'[s] < LongAgo => sinceGood[s] < LongAgo
        BY <1>1, <1>3 DEF Grown, ReadyTypes
      <4> QED BY <2>1, <2>3, <3>1, <3>2, <4>1 DEF RequestIsSound, NewsAreRecent
    <3>6. CalmIsSound(p)'
      BY <3>1 DEF CalmIsSound
    <3> QED BY <3>1, <3>2, <3>3, <3>4, <3>5, <3>6 DEF RequestIsSound
  <2> QED BY <2>2, <2>3
<1>9. ASSUME NEW p \in Probers, NEW s \in Services PROVE CheckIsSound(p, s)'
  <2>1. /\ task'[p][s]["full"].pc = task[p][s]["full"].pc /\ task'[p][s]["full"].ok = task[p][s]["full"].ok
        /\ task'[p][s]["probe"].pc = task[p][s]["probe"].pc /\ task'[p][s]["probe"].ok = task[p][s]["probe"].ok
        /\ task'[p][s]["select"].pc = task[p][s]["select"].pc
        /\ task'[p][s]["full"].left <= task[p][s]["full"].left
        /\ task'[p][s]["full"].left \in Nat
    BY <1>2 DEF Levels, Tasks
  <2>2. CheckIsSound(p, s)
    BY DEF ReadyIInv
  <2>3. CASE s \in Databases
    <3>1. ~TaskAt(p, s, "probe", "returned") /\ ~TaskAt(p, s, "select", "returned")
          /\ (TaskAt(p, s, "full", "waits") => Troubled) /\ (TaskAt(p, s, "probe", "waits") => Troubled)
      BY <1>1, <2>3, FullWaitsInTrouble, ProbeWaitsInTrouble
    <3>2. Troubled => sinceTrouble' = 0
      BY <1>3
    <3>3. FullIsSound(p, s)'
      <4>1. TaskAt(p, s, "full", "waits") => task'[p][s]["full"].left <= ProbeWait[s]
        <5>1. TaskAt(p, s, "full", "waits") => task[p][s]["full"].left <= ProbeWait[s]
          BY <2>2, <2>3 DEF CheckIsSound, FullIsSound
        <5>2. ProbeWait[s] \in Nat /\ task[p][s]["full"].left \in Nat
          BY <1>1, TasksAreTasks, WaitsAreNumbers DEF Tasks
        <5> QED BY <2>1, <5>1, <5>2
      <4>2. TaskAt(p, s, "full", "returned") =>
               IsPending(p, s)' /\ IF task[p][s]["full"].ok THEN s \in prober'[p].recent ELSE prober'[p].trouble
        <5>1. SUFFICES ASSUME TaskAt(p, s, "full", "returned")
                       PROVE  IsPending(p, s)' /\ IF task[p][s]["full"].ok THEN s \in prober'[p].recent ELSE prober'[p].trouble
          OBVIOUS
        <5>2. IsPending(p, s) /\ (task[p][s]["full"].ok => s \in prober[p].recent)
          BY <2>2, <2>3, <5>1 DEF CheckIsSound, FullIsSound
        <5>3. IsAsking(p)
          BY <1>1, <5>2, PendingIsAsking
        <5>4. prober'[p].step = prober[p].step /\ prober'[p].recent = prober[p].recent /\ prober'[p].trouble
          BY <5>3, ElapsedRequest
        <5> QED BY <5>2, <5>4 DEF IsPending
      <4> QED BY <2>1, <2>2, <2>3, <3>1, <3>2, <4>1, <4>2 DEF CheckIsSound, FullIsSound, TaskAt
    <3>4. ProbeIsSound(p, s)'
      BY <2>1, <2>2, <2>3, <3>1, <3>2 DEF CheckIsSound, ProbeIsSound, TaskAt
    <3>5. SelectIsSound(p, s)'
      BY <2>1, <2>2, <2>3, <3>1 DEF CheckIsSound, SelectIsSound, TaskAt
    <3> QED BY <2>3, <3>3, <3>4, <3>5 DEF CheckIsSound
  <2>4. CASE s \notin Databases
    <3>1. ~TaskAt(p, s, "probe", "returned")
      BY <1>1, <2>4, PingsAreHeard
    <3> QED BY <2>1, <2>2, <2>4, <3>1 DEF CheckIsSound, PingIsSound, TaskAt
  <2> QED BY <2>3, <2>4
<1>10. CacheIsSound'
  <2>1. healthy' # Services => sinceTrouble' = 0
    BY <1>3
  <2>2. ASSUME NEW s \in Databases, readyCache'[s].age < CacheFor
        PROVE  IF readyCache'[s].ok THEN sinceGood'[s] <= readyCache'[s].age ELSE sinceTrouble' <= readyCache'[s].age
    <3>1. readyCache[s].age \in Nat /\ sinceGood[s] \in 0 .. LongAgo /\ sinceTrouble \in 0 .. LongAgo
      BY <1>1 DEF ReadyTypes
    <3>2. readyCache[s].age < CacheFor /\ readyCache'[s].age = readyCache[s].age + 1
      BY <1>1, <1>3, <2>2, <3>1 DEF Grown
    <3>3. IF readyCache[s].ok THEN sinceGood[s] <= readyCache[s].age ELSE sinceTrouble <= readyCache[s].age
      BY <3>2 DEF ReadyIInv, CacheIsSound
    <3>4. CASE readyCache[s].ok
      <4>1. sinceGood'[s] <= sinceGood[s] + 1
        BY <1>1, <1>3, <3>1 DEF Grown
      <4>2. sinceGood'[s] \in Nat
        BY <1>1, <1>3, <3>1 DEF Grown
      <4> QED BY <1>3, <3>1, <3>2, <3>3, <3>4, <4>1, <4>2
    <3>5. CASE ~readyCache[s].ok
      <4>1. sinceTrouble' <= sinceTrouble + 1 /\ sinceTrouble' \in Nat
        BY <1>1, <1>3, <3>1 DEF Grown
      <4> QED BY <1>3, <3>1, <3>2, <3>3, <3>5, <4>1
    <3> QED BY <3>4, <3>5
  <2> QED BY <2>1, <2>2 DEF CacheIsSound
<1> QED BY <1>4, <1>6, <1>7, <1>8, <1>9, <1>10 DEF ReadyIInv

-----------------------------------------------------------------------------
(* Nothing happens.                                                          *)
LEMMA ReadyStutters == ReadyIInv /\ UNCHANGED readyVars => ReadyIInv'
<1> SUFFICES ASSUME ReadyIInv, UNCHANGED readyVars PROVE ReadyIInv'
  OBVIOUS
<1>1. UNCHANGED <<healthy, readyCache, task, line, prober, sinceGood, sinceTrouble>>
  BY DEF readyVars
<1>2. ReadyTypes'
  BY <1>1 DEF ReadyIInv, ReadyTypes, Triples
<1>3. LineIsKept'
  BY <1>1 DEF ReadyIInv, LineIsKept, IsQueued, TaskAt, Triples
<1>4. ThreadsAreKept'
  BY <1>1 DEF ReadyIInv, ThreadsAreKept, BusyThreads, HoldsThread
<1>5. \A p \in Probers : RequestIsSound(p)'
  BY <1>1, SameRequest
<1>6. \A p \in Probers, s \in Services : CheckIsSound(p, s)'
  BY <1>1, SameCheck
<1>7. CacheIsSound'
  BY <1>1 DEF ReadyIInv, CacheIsSound
<1> QED BY <1>2, <1>3, <1>4, <1>5, <1>6, <1>7 DEF ReadyIInv

(* Every step keeps the invariant.                                           *)
LEMMA ReadyStepKeepsReady == ReadyIInv /\ [ReadyNext]_readyVars => ReadyIInv'
<1> SUFFICES ASSUME ReadyIInv, [ReadyNext]_readyVars PROVE ReadyIInv'
  OBVIOUS
<1>1. CASE \E p \in Probers : AskReady(p)
  BY <1>1, AskReadyKeepsReady
<1>2. CASE Assigned
  BY <1>2, AssignedKeepsReady
<1>3. ASSUME NEW p \in Probers, TaskStep(p) PROVE ReadyIInv'
  BY <1>3, LookInCacheKeepsReady, KeepVerdictKeepsReady, RunSelectKeepsReady, SelectReturnsKeepsReady,
     AnswersKeepsReady DEF TaskStep
<1>4. CASE \E p \in Probers : GoOn(p)
  BY <1>4, GoOnKeepsReady
<1>5. CASE \E p \in Probers, s \in Services : Fails(p, s)
  BY <1>5, AnswersKeepsReady
<1>6. CASE Elapse
  BY <1>6, ElapseKeepsReady
<1>7. CASE UNCHANGED readyVars
  BY <1>7, ReadyStutters
<1> QED BY <1>1, <1>2, <1>3, <1>4, <1>5, <1>6, <1>7 DEF ReadyNext, ReadyStep

(* What the caller of /ready relies on follows.                              *)
LEMMA ReadyImplied == ReadyIInv => ReadyInv
<1> SUFFICES ASSUME ReadyIInv PROVE ReadyInv
  OBVIOUS
<1>1. ReadyTypes /\ Count \in Nat /\ Longest \in Nat /\ HardBudget \in Nat
  BY OrderIsFinite, WaitsAreSums, ReadinessAssumption DEF ReadyIInv, Longest
<1>2. ReadyType
  <2>1. healthy \subseteq Services
    BY <1>1 DEF ReadyTypes
  <2>2. \A s \in Databases : readyCache[s].ok \in BOOLEAN /\ readyCache[s].age \in Nat
    BY <1>1 DEF ReadyTypes
  <2>3. \A p \in Probers : prober[p].step \in 0 .. Count + 1 /\ prober[p].left \in Nat /\ prober[p].ok \subseteq Services
    BY <1>1 DEF ReadyTypes
  <2>4. \A t \in Probers \X Services \X Levels : IsQueued(t) <=> TaskAt(t[1], t[2], t[3], "queued")
    BY DEF ReadyIInv, LineIsKept, Triples
  <2>5. Cardinality(BusyThreads) <= PoolSize
    BY DEF ReadyIInv, ThreadsAreKept
  <2> QED BY <2>1, <2>2, <2>3, <2>4, <2>5 DEF ReadyType
<1>3. \A p \in Probers : Answered(p) => prober[p].step > 0 /\ prober[p].step = Count + 1
  BY <1>1 DEF Answered
<1>4. OkIsFresh
  <2>1. SUFFICES ASSUME NEW p \in Probers, Answered(p), SaysOk(p) PROVE Databases \subseteq prober[p].recent
    BY DEF OkIsFresh
  <2>2. Databases \subseteq Services /\ Warnings \cap Databases = {}
    BY OrderIsFinite, ReadinessAssumption
  <2>3. prober[p].ok \cap Databases \subseteq prober[p].recent
    BY <1>3, <2>1 DEF ReadyIInv, RequestIsSound, NewsAreRecent
  <2> QED BY <2>1, <2>2, <2>3 DEF SaysOk
<1>5. RefusalHasCause
  <2>1. SUFFICES ASSUME NEW p \in Probers, Answered(p), ~prober[p].trouble PROVE SaysOk(p)
    BY DEF RefusalHasCause
  <2>2. \A i \in 1 .. Count : i < Count + 1 /\ Order[i] \in prober[p].ok
    BY <1>1, <1>3, <2>1 DEF ReadyIInv, RequestIsSound, CalmIsSound
  <2>3. \A s \in Services : \E i \in 1 .. Count : Order[i] = s
    BY OrderIsFinite
  <2> QED BY <2>2, <2>3 DEF SaysOk
<1>6. AnswersInTime
  <2>1. SUFFICES ASSUME NEW p \in Probers
                 PROVE  /\ Answered(p) /\ prober[p].took > HardBudget => prober[p].trouble
                        /\ prober[p].took <= Longest
    BY DEF AnswersInTime
  <2>2. Answered(p) /\ ~prober[p].trouble => prober[p].took = 0
    BY <1>3 DEF ReadyIInv, RequestIsSound, CalmIsSound
  <2>3. prober[p].took <= Longest
    BY DEF ReadyIInv, RequestIsSound, TimeIsKept
  <2> QED BY <1>1, <2>2, <2>3
<1> QED BY <1>2, <1>4, <1>5, <1>6 DEF ReadyInv

(* /ready never says ok of a database that has not answered since the time   *)
(* of the cache before the request; it refuses only when a service was down  *)
(* or work had to wait for a thread; and it answers within the hard budget   *)
(* unless there was such trouble, and always within the sum of its waits     *)
(* (ready, _ready_cached_probe, _READY_POOL, _READY_HARD_BUDGET_SECONDS).    *)
THEOREM ReadinessIsTrue == ReadySpec => []ReadyInv
<1>1. ReadySpec => []ReadyIInv
  BY ReadyInitially, ReadyStepKeepsReady, PTL DEF ReadySpec
<1> QED BY <1>1, ReadyImplied, PTL

-----------------------------------------------------------------------------
(* What a client relies on: the events of its run are those of the run, and    *)
(* what it is told of readiness is fresh, has a cause and comes in time.       *)
THEOREM ServingIsKept == EventsSpec /\ ReadySpec => []ServingInv
BY EventsAreTrue, ReadinessIsTrue, PTL DEF ServingInv
==============================================================================
