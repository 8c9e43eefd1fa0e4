---------------------------- MODULE MemoryNotes -----------------------------
(***************************************************************************)
(* The notes of memory/store.py in one process: a Markdown file for each   *)
(* note, and rows of an SQLite index that its searches read.  write        *)
(* replaces the file, then the rows, and puts the file back when the rows  *)
(* fail.  Its threads share one connection, hence one transaction, under a *)
(* lock that is free between a failure and its rollback.  index_external   *)
(* writes rows without a file; a start indexes the files that no row       *)
(* names; the garbage collector of memory/lifecycle.py removes files.      *)
(***************************************************************************)
EXTENDS Integers, FiniteSets

CONSTANTS
    Notes,         \* keys of notes with a file
    Summaries,     \* keys given to index_external
    Texts,
    Authors,       \* threads
    NoAuthor,      \* the lock is free
    MaxNoteCalls,  \* bound: calls of write and index_external
    MaxMishaps     \* bound: failed steps, crashes, collected files, hashes forgotten

ASSUME NotesAssumption ==
    /\ Notes \cap Summaries = {}
    /\ NoAuthor \notin Authors
    /\ MaxNoteCalls \in Nat
    /\ MaxMishaps \in Nat

VARIABLES
    noteFile,      \* the texts in the file of a note: one, or none
    backup,        \* those in its .bak
    rows,          \* committed texts by key
    pathRows,      \* committed texts under the path of a file, the key of the reconciliation
    uncommitted,   \* the rows as the transaction of the connection has them
    recent,        \* _recent_hashes: what was given to write in the last 30 s
    author,        \* what each thread does
    lock,          \* _lock
    up,            \* the store is open
    believed,      \* history: the text that a caller was last told is there
    strained,      \* history: keys whose file, rows and callers nothing promises to agree
    noteCalls, mishaps

noteVars == <<noteFile, backup, rows, pathRows, uncommitted, recent, author, lock, up,
              believed, strained, noteCalls, mishaps>>

Keys == Notes \cup Summaries

NoAct == [pc |-> "idle"]

NotesInit ==
    /\ noteFile = [n \in Notes |-> {}]
    /\ backup = [n \in Notes |-> {}]
    /\ rows = [k \in Keys |-> {}]
    /\ pathRows = [n \in Notes |-> {}]
    /\ uncommitted = rows
    /\ recent = {}
    /\ author = [a \in Authors |-> NoAct]
    /\ lock = NoAuthor
    /\ up = TRUE
    /\ believed = [k \in Keys |-> {}]
    /\ strained = {}
    /\ noteCalls = 0
    /\ mishaps = 0

-----------------------------------------------------------------------------
files == <<noteFile, backup>>

tablesOfNotes == <<rows, pathRows, uncommitted>>

noteHistory == <<believed, strained, noteCalls, mishaps>>

AuthorAt(a, pc) == author[a].pc = pc

Turns(a, pc) == author' = [author EXCEPT ![a].pc = pc]

Rests(a) == author' = [author EXCEPT ![a] = NoAct]

Mishap == mishaps < MaxMishaps /\ mishaps' = mishaps + 1

Acting(k) == {a \in Authors : author[a].pc # "idle" /\ author[a].key = k}

(* The threads whose rows are in the transaction of the connection. *)
Underway == {a \in Authors : author[a].pc \in {"delete", "insert", "commit", "rollback"}}

Strain(keys) == strained' = strained \cup keys

(* From here on the caller of k is not alone with it. *)
NotAlone(keys, acts) ==
    [a \in Authors |->
        IF acts[a].pc # "idle" /\ acts[a].key \in keys
        THEN [acts[a] EXCEPT !.alone = FALSE] ELSE acts[a]]

(* Of two calls of one key at a time nothing is promised. *)
Starts(a, op, k, t) ==
    LET act == [pc |-> IF op = "write" THEN "backup" ELSE "lock", op |-> op, key |-> k,
                text |-> t, prior |-> "none", alone |-> TRUE]
        shared == IF Acting(k) = {} THEN {} ELSE {k}
    IN  /\ noteCalls < MaxNoteCalls
        /\ noteCalls' = noteCalls + 1
        /\ author' = NotAlone(shared, [author EXCEPT ![a] = act])
        /\ Strain(shared)

(* write: what was not given in the last 30 s, remembered before it is stored; *)
Write(a, n, t) ==
    /\ up
    /\ lock = NoAuthor
    /\ AuthorAt(a, "idle")
    /\ <<n, t>> \notin recent
    /\ recent' = recent \cup {<<n, t>>}
    /\ Starts(a, "write", n, t)
    /\ UNCHANGED <<files, tablesOfNotes, lock, up, believed, mishaps>>

(* what was given is not stored again, and the caller is told it is there. *)
Suppress(a, n, t) ==
    /\ up
    /\ lock = NoAuthor
    /\ AuthorAt(a, "idle")
    /\ <<n, t>> \in recent
    /\ noteCalls < MaxNoteCalls
    /\ noteCalls' = noteCalls + 1
    /\ believed' = [believed EXCEPT ![n] = {t}]
    /\ Strain(IF believed[n] = {t} /\ Acting(n) = {} THEN {} ELSE {n})
    /\ UNCHANGED <<files, tablesOfNotes, recent, author, lock, up, mishaps>>

IndexExternal(a, k, t) ==
    /\ up
    /\ AuthorAt(a, "idle")
    /\ Starts(a, "external", k, t)
    /\ UNCHANGED <<files, tablesOfNotes, recent, lock, up, believed, mishaps>>

(* The .bak of a file that is there; the copy may fail. *)
BackUp(a) ==
    LET n == author[a].key
    IN  /\ AuthorAt(a, "backup")
        /\ \/ /\ noteFile[n] = {}
              /\ author' = [author EXCEPT ![a].pc = "replace"]
              /\ UNCHANGED <<backup, mishaps>>
           \/ /\ noteFile[n] # {}
              /\ backup' = [backup EXCEPT ![n] = noteFile[n]]
              /\ author' = [author EXCEPT ![a].pc = "replace", ![a].prior = "saved"]
              /\ UNCHANGED mishaps
           \/ /\ noteFile[n] # {}
              /\ Mishap
              /\ author' = [author EXCEPT ![a].pc = "replace", ![a].prior = "unsaved"]
              /\ UNCHANGED backup
        /\ UNCHANGED <<noteFile, tablesOfNotes, recent, lock, up, believed, strained, noteCalls>>

(* os.replace of a temporary file, *)
Replace(a) ==
    /\ AuthorAt(a, "replace")
    /\ noteFile' = [noteFile EXCEPT ![author[a].key] = {author[a].text}]
    /\ Turns(a, "lock")
    /\ UNCHANGED <<backup, tablesOfNotes, recent, lock, up, noteHistory>>

(* or an error, on which write ends. *)
ReplaceFails(a) ==
    /\ AuthorAt(a, "replace")
    /\ Mishap
    /\ Rests(a)
    /\ UNCHANGED <<files, tablesOfNotes, recent, lock, up, believed, strained, noteCalls>>

(* with self._lock *)
TakeNotesLock(a) ==
    /\ AuthorAt(a, "lock")
    /\ lock = NoAuthor
    /\ lock' = a
    /\ Turns(a, "delete")
    /\ UNCHANGED <<files, tablesOfNotes, recent, up, noteHistory>>

DeleteRows(a) ==
    /\ AuthorAt(a, "delete")
    /\ uncommitted' = [uncommitted EXCEPT ![author[a].key] = {}]
    /\ Turns(a, "insert")
    /\ UNCHANGED <<files, rows, pathRows, recent, lock, up, noteHistory>>

(* write goes on without the DELETE. *)
DeleteSkipped(a) ==
    LET k == author[a].key
    IN  /\ AuthorAt(a, "delete")
        /\ author[a].op = "write"
        /\ Mishap
        /\ author' = NotAlone({k}, [author EXCEPT ![a].pc = "insert"])
        /\ Strain({k})
        /\ UNCHANGED <<files, tablesOfNotes, recent, lock, up, believed, noteCalls>>

InsertRow(a) ==
    /\ AuthorAt(a, "insert")
    /\ uncommitted' = [uncommitted EXCEPT ![author[a].key] = @ \cup {author[a].text}]
    /\ Turns(a, "commit")
    /\ UNCHANGED <<files, rows, pathRows, recent, lock, up, noteHistory>>

(* The rows of whoever has failed and not rolled back yet are committed with those *)
(* of a.  A call that was alone with its key has set things right.                 *)
CommitNotes(a) ==
    LET k     == author[a].key
        mixed == {author[b].key : b \in Underway \ {a}}
        right == IF author[a].alone /\ (k \in Notes => pathRows[k] = {}) THEN {k} ELSE {}
    IN  /\ AuthorAt(a, "commit")
        /\ rows' = uncommitted
        /\ believed' = [believed EXCEPT ![k] = {author[a].text}]
        /\ strained' = (strained \ right) \cup mixed
        /\ lock' = NoAuthor
        /\ Rests(a)
        /\ UNCHANGED <<files, pathRows, uncommitted, recent, up, noteCalls, mishaps>>

(* Any statement may fail; the lock is released before the rollback, and the *)
(* transaction left as it is.                                                *)
StatementFails(a) ==
    /\ \/ AuthorAt(a, "delete") /\ author[a].op = "external"
       \/ AuthorAt(a, "insert")
       \/ AuthorAt(a, "commit")
    /\ Mishap
    /\ lock' = NoAuthor
    /\ Turns(a, "rollback")
    /\ UNCHANGED <<files, tablesOfNotes, recent, up, believed, strained, noteCalls>>

(* write takes the lock again for the rollback. *)
RollBack(a) ==
    /\ AuthorAt(a, "rollback")
    /\ author[a].op = "write"
    /\ lock = NoAuthor
    /\ uncommitted' = rows
    /\ Turns(a, "undo")
    /\ UNCHANGED <<files, rows, pathRows, recent, lock, up, noteHistory>>

(* index_external does not: it takes back what another has in hand, and returns *)
(* as if nothing had happened.                                                  *)
RollBackUnlocked(a) ==
    LET k    == author[a].key
        hurt == {author[b].key : b \in Underway \ {a}}
    IN  /\ AuthorAt(a, "rollback")
        /\ author[a].op = "external"
        /\ uncommitted' = rows
        /\ believed' = [believed EXCEPT ![k] = {author[a].text}]
        /\ author' = NotAlone(hurt, [author EXCEPT ![a] = NoAct])
        /\ Strain(hurt \cup {k})
        /\ UNCHANGED <<files, rows, pathRows, recent, lock, up, noteCalls, mishaps>>

(* The old file from its .bak; without an old file, none. *)
Restored(a) ==
    LET n == author[a].key
    IN  CASE author[a].prior = "saved" /\ backup[n] # {} -> [noteFile EXCEPT ![n] = backup[n]]
          [] author[a].prior = "none" -> [noteFile EXCEPT ![n] = {}]
          [] OTHER -> noteFile

(* write raises: the caller is told that it failed. *)
UndoWrite(a) ==
    LET n == author[a].key
    IN  /\ AuthorAt(a, "undo")
        /\ noteFile' = Restored(a)
        /\ backup' = IF author[a].prior = "saved" THEN [backup EXCEPT ![n] = {}] ELSE backup
        /\ Strain(IF author[a].prior = "unsaved" THEN {n} ELSE {})
        /\ Rests(a)
        /\ UNCHANGED <<tablesOfNotes, recent, lock, up, believed, noteCalls, mishaps>>

-----------------------------------------------------------------------------
(* Thirty seconds later. *)
HashForgotten ==
    /\ recent # {}
    /\ Mishap
    /\ \E r \in recent : recent' = recent \ {r}
    /\ UNCHANGED <<files, tablesOfNotes, author, lock, up, believed, strained, noteCalls>>

(* The garbage collector archives or deletes a file; the rows stay. *)
Collect(n) ==
    /\ noteFile[n] # {}
    /\ Mishap
    /\ noteFile' = [noteFile EXCEPT ![n] = {}]
    /\ author' = NotAlone({n}, author)
    /\ Strain({n})
    /\ UNCHANGED <<backup, tablesOfNotes, recent, lock, up, believed, noteCalls>>

(* The process ends: a write between its file and its commit leaves them apart. *)
Stop ==
    /\ up
    /\ Mishap
    /\ up' = FALSE
    /\ Strain({author[a].key : a \in {b \in Authors :
                   author[b].pc \notin {"idle", "backup", "replace"} /\ author[b].op = "write"}})
    /\ author' = [a \in Authors |-> NoAct]
    /\ uncommitted' = rows
    /\ recent' = {}
    /\ lock' = NoAuthor
    /\ UNCHANGED <<files, rows, pathRows, believed, noteCalls>>

(* _reconcile_orphan_files: files without a row get one, under their path; what *)
(* fails is left out.                                                           *)
Start ==
    /\ ~up
    /\ up' = TRUE
    /\ \E found \in SUBSET {n \in Notes : noteFile[n] # {} /\ rows[n] = {} /\ pathRows[n] = {}} :
          pathRows' = [n \in Notes |-> IF n \in found THEN noteFile[n] ELSE pathRows[n]]
    /\ UNCHANGED <<files, rows, uncommitted, recent, author, lock, noteHistory>>

AuthorStep(a) ==
    \/ \E n \in Notes, t \in Texts : Write(a, n, t) \/ Suppress(a, n, t)
    \/ \E k \in Summaries, t \in Texts : IndexExternal(a, k, t)
    \/ BackUp(a)
    \/ Replace(a)
    \/ ReplaceFails(a)
    \/ TakeNotesLock(a)
    \/ DeleteRows(a)
    \/ DeleteSkipped(a)
    \/ InsertRow(a)
    \/ CommitNotes(a)
    \/ StatementFails(a)
    \/ RollBack(a)
    \/ RollBackUnlocked(a)
    \/ UndoWrite(a)

NotesNext ==
    \/ \E a \in Authors : AuthorStep(a)
    \/ \E n \in Notes : Collect(n)
    \/ HashForgotten
    \/ Stop
    \/ Start

NotesSpec == NotesInit /\ [][NotesNext]_noteVars

-----------------------------------------------------------------------------
(* write replaces the file before the rows and puts it back when they fail: of *)
(* a note nobody is at work on, the file, the rows and what its caller was     *)
(* last told agree, across failures and restarts.  What the code leaves open   *)
(* is strained, until a call that is alone with the note succeeds: two calls   *)
(* of it at a time; a failure whose rows another call commits, or whose        *)
(* rollback takes the rows of another; a DELETE that failed; a .bak that was   *)
(* not made; a text that was given within 30 s and is not there; a collected   *)
(* file; a process that ends between the file and the commit.                  *)
NotesInv ==
    \A k \in Keys \ strained : Acting(k) = {} =>
        /\ rows[k] = believed[k]
        /\ k \in Notes => noteFile[k] = believed[k] /\ pathRows[k] = {}
=============================================================================
