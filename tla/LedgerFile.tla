----------------------------- MODULE LedgerFile -----------------------------
(***************************************************************************)
(* The governance ledger of governance/ledger.py: a JSON-lines file that   *)
(* several processes append to under flock, a hash chain for each tenant   *)
(* in it, the cache of what a process verified last, and the rotation that *)
(* moves a full file away.                                                 *)
(*                                                                         *)
(* A process opens the path first and locks what it opened afterwards, so  *)
(* files are told apart from names: path and archive name files.  What is  *)
(* done under the lock of a file is one step, except that a rotation does  *)
(* its checks and its rename in two: the directory is not locked.  A       *)
(* digest stands for all that went into it.                                *)
(***************************************************************************)
EXTENDS Integers, Sequences, FiniteSetsExt

CONSTANTS
    Processes,   \* the processes that append, each with its own cache
    Rotators,    \* those of them that ever see the file full
    Tenants,
    FullAt,      \* how many lines make DEFAULT_ROTATE_BYTES
    MaxAppends   \* bound: appends that reach a file

ASSUME RotatorsAppend == Rotators \subseteq Processes
ASSUME FullAtAssumption == FullAt \in Nat \ {0}
ASSUME MaxAppendsAssumption == MaxAppends \in Nat

VARIABLES
    file,     \* the lines of every file ever created
    path,     \* the file that has the ledger's name; 0: none
    archive,  \* the files that have the names of the segments .0001, .0002, ...
    process,
    cache,    \* _tail_verify_cache of each process: the lines verified last
    acked,    \* history: the appends that returned
    spoiled   \* history: what a fault took, see Glued and Alter

ledgerVars == <<file, path, archive, process, cache, acked, spoiled>>

-----------------------------------------------------------------------------
(* Lines and the chains in them. *)

GenesisHash == <<>>

LineHash(t, n, before, rec) == <<t, n, before, rec>>

(* A line that json.loads refuses: {"_raw": ...}. *)
Torn == [parses |-> FALSE, ended |-> TRUE]

Parsed(lines) == \A k \in DOMAIN lines : lines[k].parses

OwnLines(lines, t) == {k \in DOMAIN lines : lines[k].tenant = t}

(* [count, tail] of a tenant. *)
TenantTail(lines, t) ==
    LET own == OwnLines(lines, t)
    IN  [count |-> Cardinality(own),
         tail  |-> IF own = {} THEN GenesisHash ELSE lines[Max(own)].hash]

SelfChecked(l) == l.hash = LineHash(l.tenant, l.tseq, l.before, l.rec)

Follows(l, slot) ==
    /\ l.tseq = slot.count + 1
    /\ l.before = slot.tail
    /\ SelfChecked(l)

(* _verify_entries: the whole file. *)
Verified(lines) ==
    /\ Parsed(lines)
    /\ \A k \in DOMAIN lines : lines[k].seq = k
    /\ \A t \in Tenants, k \in DOMAIN lines :
          lines[k].tenant = t => Follows(lines[k], TenantTail(SubSeq(lines, 1, k - 1), t))

(* _verify_suffix_incremental: what came after the first n lines. *)
SuffixVerified(lines, n) ==
    \A k \in n + 1 .. Len(lines) :
        /\ lines[k].seq = k
        /\ Follows(lines[k], TenantTail(SubSeq(lines, 1, k - 1), lines[k].tenant))

(* A bug: the cache is trusted when the number of lines and the last line fit, *)
(* whatever the lines before it say.                                           *)
ExtendsByTail(lines, seen) ==
    /\ Len(seen) <= Len(lines)
    /\ seen # <<>> => lines[Len(seen)] = seen[Len(seen)]

Extends(lines, seen) ==
    /\ Len(seen) <= Len(lines)
    /\ SubSeq(lines, 1, Len(seen)) = seen

NotCached == <<Torn>>

(* What an append decides about the lines it found. *)
Accepted(lines, seen) ==
    IF seen # NotCached /\ Parsed(lines) /\ Extends(lines, seen)
    THEN /\ seen # <<>> => SelfChecked(lines[Len(seen)])
         /\ SuffixVerified(lines, Len(seen))
    ELSE Verified(lines)

(* What the next line of a tenant continues. *)
Slot(lines, t) == TenantTail(lines, t)

NextLine(lines, t, n) ==
    LET slot == Slot(lines, t)
    IN  [parses |-> TRUE, ended |-> TRUE, seq |-> Len(lines) + 1, tenant |-> t,
         tseq |-> slot.count + 1, before |-> slot.tail, rec |-> n,
         hash |-> LineHash(t, slot.count + 1, slot.tail, n)]

(* Writing goes to the end of the file: a line without its end is continued. *)
Glues(lines) == lines # <<>> /\ ~lines[Len(lines)].ended

AfterWrite(lines, l) ==
    IF Glues(lines) THEN [lines EXCEPT ![Len(lines)] = Torn] ELSE Append(lines, l)

Glued(lines, l) == IF Glues(lines) THEN {lines[Len(lines)].rec, l.rec} ELSE {}

-----------------------------------------------------------------------------
Entries == 1 .. MaxAppends

Recs(lines) == {lines[k].rec : k \in {j \in DOMAIN lines : lines[j].parses}}

Stored == UNION {Recs(file[f]) : f \in DOMAIN file}

AtRest == [pc |-> "idle", file |-> 0, name |-> 0]

(* The files a rotation holds locked between its checks and its rename. *)
Locked == {process[q].file : q \in {r \in Processes : process[r].pc = "rename"}}

LedgerInit ==
    /\ file = << <<>> >>
    /\ path = 1
    /\ archive = <<>>
    /\ process = [p \in Processes |-> AtRest]
    /\ cache = [p \in Processes |-> NotCached]
    /\ acked = {}
    /\ spoiled = {}

Do(p, pc) == process' = [process EXCEPT ![p] = pc]

(* open(path, "a+b"): creates the file when the name is gone. *)
OpenForAppend(p) ==
    /\ process[p].pc = "idle"
    /\ IF path = 0
       THEN /\ file' = Append(file, <<>>)
            /\ path' = Len(file) + 1
       ELSE UNCHANGED <<file, path>>
    /\ Do(p, [pc |-> "append", file |-> path', name |-> 0])
    /\ UNCHANGED <<archive, cache, acked, spoiled>>

(* The append proper, under the lock: read, verify, write, flush, remember.  The *)
(* write may stop in the middle of the line or just before its end.              *)
AppendLine(p, t) ==
    LET f == process[p].file
        lines == file[f]
        n == Cardinality(acked \cup Stored \cup spoiled) + 1
        l == NextLine(lines, t, n)
    IN  /\ process[p].pc = "append"
        /\ f \notin Locked
        /\ n \in Entries
        /\ \/ /\ ~Accepted(lines, cache[p])            \* LedgerCorruptionError
              /\ UNCHANGED <<file, cache, acked, spoiled>>
              /\ Do(p, AtRest)
           \/ /\ Accepted(lines, cache[p])
              /\ file' = [file EXCEPT ![f] = AfterWrite(lines, l)]
              /\ acked' = acked \cup {n}
              /\ spoiled' = spoiled \cup Glued(lines, l)
              /\ cache' = [cache EXCEPT ![p] = AfterWrite(lines, l)]
              /\ Do(p, [AtRest EXCEPT !.pc = "appended"])
           \/ /\ Accepted(lines, cache[p])             \* the write fails
              /\ \E part \in {Torn, [l EXCEPT !.ended = FALSE]} :
                    /\ file' = [file EXCEPT ![f] = AfterWrite(lines, part)]
                    /\ spoiled' = spoiled \cup {n} \cup Glued(lines, l)
              /\ cache' = [cache EXCEPT ![p] = lines]
              /\ Do(p, AtRest)
              /\ UNCHANGED acked
        /\ UNCHANGED <<path, archive>>

Full == path # 0 /\ Len(file[path]) >= FullAt

(* The size is looked at after every append. *)
NoRotation(p) ==
    /\ process[p].pc = "appended"
    /\ ~(p \in Rotators /\ Full)
    /\ Do(p, AtRest)
    /\ UNCHANGED <<file, path, archive, cache, acked, spoiled>>

OpenForRotation(p) ==
    /\ process[p].pc = "appended"
    /\ p \in Rotators /\ Full
    /\ Do(p, [pc |-> "rotate", file |-> path, name |-> 0])
    /\ UNCHANGED <<file, path, archive, cache, acked, spoiled>>

(* counter *)
NextName == Len(archive) + 1

(* Under the lock of the file that was opened: verify it, look again at the size *)
(* of the file that has the name now, if one has, choose the name of the segment. *)
CheckRotation(p) ==
    LET f == process[p].file
    IN  /\ process[p].pc = "rotate"
        /\ f \notin Locked
        /\ IF Verified(file[f]) /\ (path = 0 \/ Full)
           THEN Do(p, [pc |-> "rename", file |-> f, name |-> NextName])
           ELSE Do(p, AtRest)
        /\ UNCHANGED <<file, path, archive, cache, acked, spoiled>>

(* os.rename(path, archive) replaces a segment that has the name. *)
Rename(p) ==
    /\ process[p].pc = "rename"
    /\ IF path = 0
       THEN UNCHANGED <<path, archive>>
       ELSE /\ archive' = IF process[p].name \in DOMAIN archive
                          THEN [archive EXCEPT ![process[p].name] = path]
                          ELSE Append(archive, path)
            /\ path' = 0
    /\ Do(p, AtRest)
    /\ UNCHANGED <<file, cache, acked, spoiled>>

(* Somebody edits a record in place. *)
Alter(f, k) ==
    /\ spoiled = {}
    /\ file[f][k].parses
    /\ file' = [file EXCEPT ![f][k].rec = 0]
    /\ spoiled' = {file[f][k].rec}
    /\ UNCHANGED <<path, archive, process, cache, acked>>

LedgerNext ==
    \/ \E p \in Processes :
          \/ OpenForAppend(p)
          \/ \E t \in Tenants : AppendLine(p, t)
          \/ NoRotation(p)
          \/ OpenForRotation(p)
          \/ CheckRotation(p)
          \/ Rename(p)
    \/ \E f \in DOMAIN file : \E k \in DOMAIN file[f] : Alter(f, k)

LedgerSpec == LedgerInit /\ [][LedgerNext]_ledgerVars

-----------------------------------------------------------------------------
(* Properties. *)

Named == {archive[k] : k \in DOMAIN archive} \cup ({path} \ {0})

(* Types: names are those of files that exist, a file has at most one name, and *)
(* acknowledged records are records.                                            *)
LedgerTypeOK ==
    /\ path \in 0 .. Len(file)
    /\ \A k \in DOMAIN archive : archive[k] \in DOMAIN file \ {path}
    /\ \A p \in Processes : process[p].file \in 0 .. Len(file)
    /\ acked \subseteq Entries

(* Every append that returned is still in the ledger or in one of its segments, *)
(* for all that rotations and appends through a handle opened before a rotation *)
(* do; the exceptions are the line somebody edited and a line that was written  *)
(* onto one that had lost its end.  One process rotates: see the README for two. *)
AckedIsKept ==
    acked \subseteq spoiled \cup UNION {Recs(file[f]) : f \in Named}

(* As long as nothing is damaged every file verifies as a whole, whichever       *)
(* processes wrote it, whatever their caches held, before and after it was moved. *)
ChainsHold == spoiled = {} => \A f \in DOMAIN file : Verified(file[f])

(* What the cache of a process lets it conclude about a file is what a check of *)
(* the whole file concludes: no append extends a damaged ledger.                *)
CacheIsSound ==
    \A f \in DOMAIN file, p \in Processes :
        Accepted(file[f], cache[p]) = Verified(file[f])

(* verify_chain_with_archives: the segments and the ledger, end to end. *)
Archived ==
    LET upTo[k \in 0 .. Len(archive)] == IF k = 0 THEN <<>> ELSE upTo[k - 1] \o file[archive[k]]
    IN  upTo[Len(archive)]

WholeHistory == Archived \o (IF path = 0 THEN <<>> ELSE file[path])

(* The check over the segments accepts an undamaged ledger exactly while all of  *)
(* its lines are in one file: numbering starts again in a new file, and the     *)
(* check of the joined files, on which reconciliation insists, then sees a gap. *)
HistoryVerdict ==
    spoiled = {} =>
        (Verified(WholeHistory) <=> Cardinality({f \in Named : file[f] # <<>>}) <= 1)

(* What the ledger file keeps: acknowledged lines, chains that verify, caches   *)
(* that conclude what a whole check would, and the verdict over the segments.   *)
LedgerInv ==
    /\ LedgerTypeOK
    /\ AckedIsKept
    /\ ChainsHold
    /\ CacheIsSound
    /\ HistoryVerdict
=============================================================================
