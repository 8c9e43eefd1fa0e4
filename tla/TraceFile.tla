----------------------------- MODULE TraceFile -----------------------------
(***************************************************************************)
(* TraceWriter (agent/trace.py): records appended to one JSON-lines file,  *)
(* the large ones by reference to a sidecar that is named after its        *)
(* content.  Every writer has a handle of its own, which writes at the end *)
(* of the file, and its own lock.  Bytes reach the disk by fsync, names by *)
(* fsync of the directory; both may fail, which is only logged.  All large *)
(* records have the same content, so that they share its sidecar.          *)
(***************************************************************************)
EXTENDS Naturals, Sequences

CONSTANTS
    Tracers,        \* handles
    MaxRecords,     \* bound: appends
    MaxSuffixes,    \* bound: names with a random suffix
    MaxFailures     \* bound: calls of the system that fail, crashes and losses of power

ASSUME TraceAssumption == MaxRecords \in Nat /\ MaxSuffixes \in Nat /\ MaxFailures \in Nat

(* Names of sidecars: 0 is the digest alone; NoBody is no sidecar. *)
Bodies == 0 .. MaxSuffixes

NoBody == MaxSuffixes + 1

VARIABLES
    pieces,     \* the trace: whole lines, starts of lines and rests of lines
    syncedTo,   \* how many of them are on the disk
    body,       \* the sidecars: "none", "whole" or "spoiled"
    onDisk,     \* those whose bytes are on the disk
    named,      \* those whose names are
    traceNamed, \* the name of the trace is
    tracer,
    sure,       \* history: records appended with nothing failing on the way
    glued,      \* history: records written behind the start of another line,
                \* and those that another writer was written behind
    unpublished,\* history: records whose sidecar could not get its name
    records, failures, losses

traceVars == <<pieces, syncedTo, body, onDisk, named, traceNamed, tracer, sure, glued,
               unpublished, records, failures, losses>>

disk == <<syncedTo, onDisk, named, traceNamed>>

bounds == <<records, failures, losses>>

Whole(r, b) == [piece |-> "whole", rec |-> r, body |-> b]

Closed == [at |-> "closed", rec |-> 0, body |-> NoBody, held |-> <<>>, good |-> TRUE]

TraceInit ==
    /\ pieces = <<>> /\ syncedTo = 0
    /\ body = [b \in Bodies |-> "none"]
    /\ onDisk = {} /\ named = {} /\ traceNamed = FALSE
    /\ tracer = [t \in Tracers |-> Closed]
    /\ sure = {} /\ glued = {} /\ unpublished = {}
    /\ records = 0 /\ failures = 0 /\ losses = 0

-----------------------------------------------------------------------------
(* What the file says. *)

EndOf(ps) == ps[Len(ps)]

Unfinished(ps) == ps # <<>> /\ EndOf(ps).piece = "start"

BeginsLine(ps, i) == i = 1 \/ ps[i - 1].piece # "start"

(* A line that json.loads accepts begins at i. *)
LineAt(ps, i) ==
    /\ BeginsLine(ps, i)
    /\ \/ ps[i].piece = "whole"
       \/ ps[i].piece = "start" /\ i < Len(ps) /\ ps[i + 1] = [ps[i] EXCEPT !.piece = "rest"]

Lines(ps) == {ps[i] : i \in {j \in DOMAIN ps : LineAt(ps, j)}}

(* read(resolve_offloads=True): records that come with what was appended. *)
Resolved == {l.rec : l \in {x \in Lines(pieces) : x.body = NoBody \/ body[x.body] = "whole"}}

(* What is lost when something is written behind the start of a line that it *)
(* does not continue.                                                        *)
GluedBy(ps, new) ==
    IF new # <<>> /\ Unfinished(ps) /\ new[1] # [EndOf(ps) EXCEPT !.piece = "rest"]
    THEN {EndOf(ps).rec, new[1].rec} ELSE {}

-----------------------------------------------------------------------------
Moves(t, state) == tracer' = [tracer EXCEPT ![t] = state]

TurnsTo(t, step) == Moves(t, [tracer[t] EXCEPT !.at = step])

Fails == failures < MaxFailures /\ failures' = failures + 1

(* Either it succeeds, or it fails and the record is not sure any more. *)
Tried(t, state, ok) ==
    /\ IF ok THEN UNCHANGED failures ELSE Fails
    /\ Moves(t, [state EXCEPT !.good = @ /\ ok])

(* _fsync_dir *)
NamesSynced(ok) ==
    /\ named' = IF ok THEN {b \in Bodies : body[b] # "none"} ELSE named
    /\ traceNamed' = (traceNamed \/ ok)

(* __init__: who creates the file syncs the directory, if that can be done. *)
Open(t) ==
    /\ tracer[t].at = "closed"
    /\ TurnsTo(t, "open")
    /\ NamesSynced(FALSE) \/ (pieces = <<>> /\ NamesSynced(TRUE))
    /\ UNCHANGED <<pieces, syncedTo, body, onDisk, sure, glued, unpublished, bounds>>

(* append of a small record or of a large one, which needs its sidecar first *)
AppendRecord(t, large) ==
    /\ tracer[t].at = "open"
    /\ records < MaxRecords
    /\ records' = records + 1
    /\ Moves(t, [tracer[t] EXCEPT !.at = IF large THEN "look" ELSE "write", !.rec = records',
                                 !.body = NoBody, !.good = TRUE])
    /\ UNCHANGED <<pieces, disk, body, sure, glued, unpublished, failures, losses>>

RandomName == CHOOSE b \in Bodies : b # 0 /\ body[b] = "none"

(* A sidecar of that name with the same bytes is used as it is; with other *)
(* bytes, or when it cannot be read, a random name is taken.               *)
LookForBytes(t) ==
    IF body[0] = "whole" THEN [tracer[t] EXCEPT !.at = "write", !.body = 0, !.good = 0 \in onDisk]
    ELSE [tracer[t] EXCEPT !.at = "publish",
            !.body = IF body[0] = "none" THEN 0 ELSE RandomName]

LookForSidecar(t) ==
    /\ tracer[t].at = "look"
    /\ \E b \in Bodies \ {0} : body[b] = "none"
    /\ \/ Moves(t, LookForBytes(t)) /\ UNCHANGED failures
       \/ /\ body[0] # "none" /\ Fails
          /\ Moves(t, [tracer[t] EXCEPT !.at = "publish", !.body = RandomName])
    /\ UNCHANGED <<pieces, disk, body, sure, glued, unpublished, records, losses>>

(* _write_sidecar_durable: the temporary file is synced if that works, linked *)
(* to its name unless somebody else was first, ...                            *)
PublishSidecar(t, synced) ==
    LET b == tracer[t].body IN
    /\ tracer[t].at = "publish"
    /\ IF body[b] # "none"
       THEN /\ Moves(t, [tracer[t] EXCEPT !.at = "write", !.good = b \in onDisk])
            /\ UNCHANGED <<body, onDisk, failures>>
       ELSE /\ body' = [body EXCEPT ![b] = "whole"]
            /\ onDisk' = IF synced THEN onDisk \cup {b} ELSE onDisk
            /\ Tried(t, [tracer[t] EXCEPT !.at = "name"], synced)
    /\ UNCHANGED <<pieces, syncedTo, named, traceNamed, sure, glued, unpublished, records, losses>>

(* ... or, when neither link nor replace work, left out. *)
CannotPublish(t) ==
    /\ tracer[t].at = "publish"
    /\ body[tracer[t].body] = "none"
    /\ Tried(t, [tracer[t] EXCEPT !.at = "write"], FALSE)
    /\ unpublished' = unpublished \cup {tracer[t].rec}
    /\ UNCHANGED <<pieces, disk, body, sure, glued, records, losses>>

(* The temporary file cannot be written: the record is dropped. *)
SidecarFails(t) ==
    /\ tracer[t].at = "publish"
    /\ Fails
    /\ TurnsTo(t, "open")
    /\ UNCHANGED <<pieces, disk, body, sure, glued, unpublished, records, losses>>

SyncSidecarName(t, ok) ==
    /\ tracer[t].at = "name"
    /\ NamesSynced(ok)
    /\ Tried(t, [tracer[t] EXCEPT !.at = "write"], ok)
    /\ UNCHANGED <<pieces, syncedTo, body, onDisk, sure, glued, unpublished, records, losses>>

(* What a handle writes next: what a failed write has left in its buffer, and *)
(* the line.                                                                  *)
Buffer(t) == Append(tracer[t].held, Whole(tracer[t].rec, tracer[t].body))

(* _append_line_locked: write and flush, ... *)
WriteLine(t) ==
    /\ tracer[t].at = "write"
    /\ pieces' = pieces \o Buffer(t)
    /\ glued' = glued \cup GluedBy(pieces, Buffer(t))
    /\ Moves(t, [tracer[t] EXCEPT !.at = "sync", !.held = <<>>])
    /\ UNCHANGED <<disk, body, sure, unpublished, bounds>>

(* Of a line that was cut, its start. *)
StartOf(p) == [p EXCEPT !.piece = "start"]

(* How far a write gets that fails: some of the pieces, of a whole line perhaps *)
(* its start; what is left may stay in the buffer.                              *)
Partial(buffer) ==
    {[done |-> SubSeq(buffer, 1, n), rest |-> SubSeq(buffer, n + 1, Len(buffer))] :
        n \in 0 .. Len(buffer) - 1}
    \cup
    {[done |-> Append(SubSeq(buffer, 1, n - 1), StartOf(buffer[n])),
      rest |-> <<[buffer[n] EXCEPT !.piece = "rest"]>> \o SubSeq(buffer, n + 1, Len(buffer))] :
        n \in {k \in DOMAIN buffer : buffer[k].piece = "whole"}}

(* A write that fails drops the record for the caller. *)
WriteFails(t) ==
    /\ tracer[t].at = "write"
    /\ Fails
    /\ \E w \in Partial(Buffer(t)), keeps \in BOOLEAN :
         /\ pieces' = pieces \o w.done
         /\ glued' = glued \cup GluedBy(pieces, w.done)
         /\ Moves(t, [tracer[t] EXCEPT !.at = "open", !.held = IF keeps THEN w.rest ELSE <<>>])
    /\ UNCHANGED <<disk, body, sure, unpublished, records, losses>>

(* ... fsync, of all that is in the file by then; if it fails that is all, ... *)
SyncLine(t, ok) ==
    /\ tracer[t].at = "sync"
    /\ syncedTo' = IF ok THEN Len(pieces) ELSE syncedTo
    /\ Tried(t, [tracer[t] EXCEPT !.at = IF ok THEN "names" ELSE "open"], ok)
    /\ UNCHANGED <<pieces, body, onDisk, named, traceNamed, sure, glued, unpublished, records, losses>>

(* ... and fsync of the directory. *)
SyncNames(t, ok) ==
    /\ tracer[t].at = "names"
    /\ NamesSynced(ok)
    /\ Tried(t, [tracer[t] EXCEPT !.at = "open"], ok)
    /\ sure' = IF tracer[t].good /\ ok THEN sure \cup {tracer[t].rec} ELSE sure
    /\ UNCHANGED <<pieces, syncedTo, body, onDisk, glued, unpublished, records, losses>>

(* close syncs what is in the file, if that can be done, and flushes what is left *)
(* in the buffer, or loses it.                                                    *)
Close(t) ==
    /\ tracer[t].at = "open"
    /\ \/ /\ pieces' = pieces \o tracer[t].held
          /\ glued' = glued \cup GluedBy(pieces, tracer[t].held)
          /\ UNCHANGED failures
       \/ tracer[t].held # <<>> /\ Fails /\ UNCHANGED <<pieces, glued>>
    /\ syncedTo' \in {syncedTo, Len(pieces)}
    /\ Moves(t, Closed)
    /\ UNCHANGED <<body, onDisk, named, traceNamed, sure, unpublished, records, losses>>

-----------------------------------------------------------------------------
(* The process of a writer ends, perhaps in its write. *)
TracerDies(t) ==
    /\ tracer[t].at # "closed"
    /\ Fails
    /\ \/ UNCHANGED <<pieces, glued>>
       \/ /\ tracer[t].at = "write"
          /\ \E w \in Partial(Buffer(t)) :
               pieces' = pieces \o w.done /\ glued' = glued \cup GluedBy(pieces, w.done)
    /\ Moves(t, Closed)
    /\ UNCHANGED <<disk, body, sure, unpublished, records, losses>>

(* Of the pieces that were not synced some are lost, and one may be cut. *)
Remaining ==
    {SubSeq(pieces, 1, n) : n \in syncedTo .. Len(pieces)} \cup
    {Append(SubSeq(pieces, 1, n - 1), StartOf(pieces[n])) :
        n \in {k \in syncedTo + 1 .. Len(pieces) : pieces[k].piece = "whole"}}

(* The power fails: every process ends, what was not synced may be gone. *)
PowerFails ==
    /\ Fails
    /\ losses' = losses + 1
    /\ \E ps \in Remaining, spoils \in BOOLEAN, forgets \in BOOLEAN :
         /\ body' = [b \in Bodies |-> IF forgets /\ b \notin named THEN "none"
                                      ELSE IF spoils /\ b \notin onDisk /\ body[b] = "whole"
                                      THEN "spoiled" ELSE body[b]]
         /\ pieces' = IF forgets /\ ~traceNamed THEN <<>> ELSE ps
    /\ syncedTo' = Len(pieces')
    /\ named' = {b \in Bodies : body'[b] # "none"}
    /\ onDisk' = {b \in Bodies : body'[b] = "whole"}
    /\ traceNamed' = (pieces' # <<>>)
    /\ tracer' = [t \in Tracers |-> Closed]
    /\ UNCHANGED <<sure, glued, unpublished, records>>

TraceNext ==
    \/ \E t \in Tracers :
         \/ Open(t) \/ LookForSidecar(t) \/ CannotPublish(t) \/ SidecarFails(t)
         \/ WriteLine(t) \/ WriteFails(t)
         \/ Close(t) \/ TracerDies(t)
         \/ \E b \in BOOLEAN :
              \/ AppendRecord(t, b) \/ PublishSidecar(t, b) \/ SyncSidecarName(t, b)
              \/ SyncLine(t, b) \/ SyncNames(t, b)
    \/ PowerFails

TraceSpec == TraceInit /\ [][TraceNext]_traceVars

-----------------------------------------------------------------------------
(* The types. *)
TraceType ==
    /\ syncedTo \in 0 .. Len(pieces)
    /\ body \in [Bodies -> {"none", "whole", "spoiled"}]
    /\ onDisk \subseteq Bodies /\ named \subseteq Bodies /\ traceNamed \in BOOLEAN
    /\ records \in 0 .. MaxRecords /\ failures \in 0 .. MaxFailures

(* Nobody else loses a record: one that was appended without a failure is read  *)
(* back with its content ever after, whatever happens to other writers, to      *)
(* their processes and to the power, unless it stands behind the start of a     *)
(* line that a crash or a failed write has left: nobody completes such a line.  *)
SureIsRead == sure \ glued \subseteq Resolved

(* Until the power fails, a line whose sidecar cannot be read is one whose *)
(* sidecar could not get its name.                                         *)
ReferencesHold ==
    losses = 0 => {l.rec : l \in Lines(pieces)} \ unpublished \subseteq Resolved

TraceInv == TraceType /\ SureIsRead /\ ReferencesHold
=============================================================================
