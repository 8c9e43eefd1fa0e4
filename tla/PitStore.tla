------------------------------ MODULE PitStore ------------------------------
(***************************************************************************)
(* PitParquetStore (data/pit_store.py): daily bars of one symbol, in one   *)
(* file per day that all snapshots share, and a manifest per snapshot that *)
(* is written last.  A snapshot is named after its content, so a writer    *)
(* that finds the manifest has nothing to do.  Files are replaced as a     *)
(* whole, but what goes into the next one is read before and without a     *)
(* lock.  SnapshotStore (data/snapshot.py) keeps the same in two tables,   *)
(* in one transaction; what it would answer is SnapshotAsOf.               *)
(***************************************************************************)
EXTENDS Naturals, FiniteSets

CONSTANTS
    Snapshots,      \* contents, each of which is its own name
    DatesOf,        \* the trade dates of each
    KnowableAt,     \* what a writer may state as knowable_at
    Unstated,       \* it states nothing: a bar is known on its trade date
    Absent,         \* no manifest
    PitWriters,
    PitReaders,
    LastDay,        \* bound: the days asked for
    MaxDailies,     \* bound: calls of write_daily
    MaxReads        \* bound: calls of as_of

Dates == UNION {DatesOf[s] : s \in Snapshots}

ASSUME PitAssumption ==
    /\ DatesOf \in [Snapshots -> SUBSET Nat]
    /\ \A s \in Snapshots : IsFiniteSet(DatesOf[s]) /\ DatesOf[s] # {}
    /\ KnowableAt \subseteq Nat \cup {Unstated}
    /\ Absent \notin Nat \cup {Unstated} /\ Unstated \notin Nat
    /\ LastDay \in Nat /\ MaxDailies \in Nat /\ MaxReads \in Nat

VARIABLES
    part,           \* the file of a day: rows of the snapshots that have it
    manifest,       \* of a snapshot: what was stated for it, or Absent
    pitWriter, pitReader,
    firstStated,    \* history: what the first manifest of a snapshot stated
    rivals,         \* history: pairs of snapshot and day that two writers had at once
    dailies, reads

pitVars == <<part, manifest, pitWriter, pitReader, firstStated, rivals, dailies, reads>>

Known(stated, day) == IF stated = Unstated THEN day ELSE stated

DailyBar(s, stated, day) == [snapshot |-> s, known |-> Known(stated, day)]

NoDaily == [at |-> "idle"]

NoQuestion == [at |-> "idle"]

PitInit ==
    /\ part = [d \in Dates |-> {}]
    /\ manifest = [s \in Snapshots |-> Absent]
    /\ pitWriter = [w \in PitWriters |-> NoDaily]
    /\ pitReader = [r \in PitReaders |-> NoQuestion]
    /\ firstStated = [s \in Snapshots |-> Absent]
    /\ rivals = {}
    /\ dailies = 0
    /\ reads = 0

-----------------------------------------------------------------------------
Busy == {w \in PitWriters : pitWriter[w].at # "idle"}

(* The days that w, which begins with s, has in common with other writers. *)
Contested(w, s) ==
    UNION {LET t == pitWriter[v].snapshot
           IN  {s, t} \X (DatesOf[s] \cap DatesOf[t]) : v \in Busy \ {w}}

(* write_daily of a snapshot that has no manifest yet; with one, and with a *)
(* knowable_at before a bar, it returns or is refused and changes nothing.  *)
WriteDaily(w, s, stated) ==
    /\ pitWriter[w].at = "idle"
    /\ dailies < MaxDailies
    /\ manifest[s] = Absent
    /\ \A d \in DatesOf[s] : d <= Known(stated, d)
    /\ pitWriter' = [pitWriter EXCEPT ![w] = [at |-> "read", snapshot |-> s, stated |-> stated,
                                              todo |-> DatesOf[s], found |-> {}]]
    /\ rivals' = rivals \cup Contested(w, s)
    /\ dailies' = dailies + 1
    /\ UNCHANGED <<part, manifest, pitReader, firstStated, reads>>

(* The rows are sorted by their date. *)
NextDay(w) == CHOOSE d \in pitWriter[w].todo : \A e \in pitWriter[w].todo : d <= e

(* _upsert_partition: what is in the file ... *)
ReadPart(w) ==
    /\ pitWriter[w].at = "read"
    /\ pitWriter' = [pitWriter EXCEPT ![w].at = "replace", ![w].found = part[NextDay(w)]]
    /\ UNCHANGED <<part, manifest, pitReader, firstStated, rivals, dailies, reads>>

(* ... but for the row that is written again ... *)
Kept(found, s) == {row \in found : row.snapshot # s}

(* ... is in the file that replaces it. *)
ReplacePart(w) ==
    LET d == NextDay(w)
        s == pitWriter[w].snapshot
        rest == pitWriter[w].todo \ {d} IN
    /\ pitWriter[w].at = "replace"
    /\ part' = [part EXCEPT ![d] = Kept(pitWriter[w].found, s) \cup {DailyBar(s, pitWriter[w].stated, d)}]
    /\ pitWriter' = [pitWriter EXCEPT ![w].at = IF rest = {} THEN "index" ELSE "read",
                                      ![w].todo = rest, ![w].found = {}]
    /\ UNCHANGED <<manifest, pitReader, firstStated, rivals, dailies, reads>>

(* _write_manifest replaces whatever is there. *)
WriteManifest(w) ==
    LET s == pitWriter[w].snapshot IN
    /\ pitWriter[w].at = "index"
    /\ manifest' = [manifest EXCEPT ![s] = pitWriter[w].stated]
    /\ firstStated' = [firstStated EXCEPT ![s] = IF @ = Absent THEN pitWriter[w].stated ELSE @]
    /\ pitWriter' = [pitWriter EXCEPT ![w] = NoDaily]
    /\ UNCHANGED <<part, pitReader, rivals, dailies, reads>>

(* A file cannot be read or written, or the process ends. *)
WriterStops(w) ==
    /\ pitWriter[w].at # "idle"
    /\ pitWriter' = [pitWriter EXCEPT ![w] = NoDaily]
    /\ UNCHANGED <<part, manifest, pitReader, firstStated, rivals, dailies, reads>>

-----------------------------------------------------------------------------
(* as_of: the manifest is there, or the snapshot is unknown; then the files *)
(* of the symbol are listed.                                                *)
AskAsOf(r, s, day) ==
    LET files == {d \in Dates : part[d] # {}} IN
    /\ pitReader[r].at # "scan"
    /\ reads < MaxReads
    /\ manifest[s] # Absent
    /\ pitReader' = [pitReader EXCEPT ![r] =
         [at |-> IF files = {} THEN "missing" ELSE "scan", snapshot |-> s, day |-> day,
          files |-> files, bars |-> {}]]
    /\ reads' = reads + 1
    /\ UNCHANGED <<part, manifest, pitWriter, firstStated, rivals, dailies>>

(* The rows of the file of d that the query selects: of one day the one that *)
(* was known first.                                                          *)
VisibleIn(s, day, d) ==
    LET rows == {row \in part[d] : row.snapshot = s /\ d <= day /\ row.known <= day} IN
    {[date |-> d, known |-> row.known] : row \in {x \in rows : \A y \in rows : x.known <= y.known}}

(* The files are read in any order, each of them as it is then. *)
ScanPart(r, d) ==
    LET q == pitReader[r]
        rest == q.files \ {d} IN
    /\ q.at = "scan"
    /\ d \in q.files
    /\ pitReader' = [pitReader EXCEPT ![r].bars = @ \cup VisibleIn(q.snapshot, q.day, d),
                                      ![r].files = rest,
                                      ![r].at = IF rest = {} THEN "answered" ELSE "scan"]
    /\ UNCHANGED <<part, manifest, pitWriter, firstStated, rivals, dailies, reads>>

PitNext ==
    \/ \E w \in PitWriters :
         \/ \E s \in Snapshots, stated \in KnowableAt : WriteDaily(w, s, stated)
         \/ ReadPart(w) \/ ReplacePart(w) \/ WriteManifest(w) \/ WriterStops(w)
    \/ \E r \in PitReaders :
         \/ \E s \in Snapshots, day \in 0 .. LastDay : AskAsOf(r, s, day)
         \/ \E d \in Dates : ScanPart(r, d)

PitSpec == PitInit /\ [][PitNext]_pitVars

-----------------------------------------------------------------------------
(* as_of of data/snapshot.py, of a table into which the first call wrote the *)
(* snapshot as a whole.                                                      *)
SnapshotAsOf(s, day) ==
    {[date |-> d, known |-> Known(firstStated[s], d)] :
       d \in {e \in DatesOf[s] : e <= day /\ Known(firstStated[s], e) <= day}}

Undisputed(s, d) == <<s, d>> \notin rivals

(* The types. *)
PitType ==
    /\ part \in [Dates -> SUBSET [snapshot : Snapshots, known : Nat]]
    /\ manifest \in [Snapshots -> KnowableAt \cup {Absent}]
    /\ rivals \subseteq Snapshots \X Dates
    /\ dailies \in 0 .. MaxDailies /\ reads \in 0 .. MaxReads

(* A manifest vouches for its rows: a snapshot that has one has its bar in the *)
(* file of each day, known since when the manifest says, whatever crashed      *)
(* before and whatever other snapshots were written before or after.  Excepted *)
(* are the days that two writers had at once: the second replaces what the     *)
(* first has added, and nobody writes it again.                                *)
RecordedIsThere ==
    \A s \in Snapshots : manifest[s] # Absent =>
        \A d \in DatesOf[s] : Undisputed(s, d) => DailyBar(s, manifest[s], d) \in part[d]

(* The first statement stands, unless two wrote the same snapshot at once. *)
FirstStands ==
    \A s \in Snapshots : (\A d \in DatesOf[s] : Undisputed(s, d)) => manifest[s] = firstStated[s]

(* What is answered is what the tables would answer, also beside a writer of *)
(* the same files: nothing that was not known by then, nothing missing, and  *)
(* the same whenever it is asked.                                            *)
AnswersAreAsOf ==
    \A r \in PitReaders : pitReader[r].at = "answered" =>
        LET q == pitReader[r] IN
        /\ \A b \in q.bars : b.date \in DatesOf[q.snapshot] /\ b.date <= q.day /\ b.known <= q.day
        /\ \A d \in DatesOf[q.snapshot] : Undisputed(q.snapshot, d) =>
              {b \in q.bars : b.date = d} = {b \in SnapshotAsOf(q.snapshot, q.day) : b.date = d}

(* A snapshot that has a manifest has files. *)
NothingMissing == \A r \in PitReaders : pitReader[r].at # "missing"

(* A snapshot is what its manifest says, in its files and in every answer. *)
PitInv ==
    /\ PitType
    /\ RecordedIsThere
    /\ FirstStands
    /\ AnswersAreAsOf
    /\ NothingMissing
=============================================================================
