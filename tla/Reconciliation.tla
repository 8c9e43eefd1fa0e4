--------------------------- MODULE Reconciliation ---------------------------
(***************************************************************************)
(* daily_reconciliation (governance/reconcile.py) of a ledger that others  *)
(* append to and rotate.  The ledger is verified with its segments three   *)
(* times, by the daily job, by reconcile_files and by aggregate_shadow;    *)
(* the trades are those of the ledger's file alone, which is read once     *)
(* more.  Every file has a lock of its own, so that a rotation may come    *)
(* between any two of these reads.                                         *)
(***************************************************************************)
EXTENDS LedgerFile

CONSTANT MaxReconciliations  \* bound: reconciliations, one after the other

ASSUME ReconciliationAssumption == MaxReconciliations \in Nat

VARIABLES
    recon,       \* the reconciliation under way, or what came of the last one
    began,       \* history: what was there when it began
    reconciled

reconVars == <<file, path, archive, process, cache, acked, spoiled, recon, began, reconciled>>

(* A bug: the files are verified once instead of three times. *)
VerifiedOnce == 1

Verifications == 3

AtRestAgain == {"never", "refused", "failed", "reported"}

ReconInit ==
    /\ LedgerInit
    /\ recon = [pc |-> "never", round |-> 0, seen |-> <<>>, file |-> 0, trades |-> {}]
    /\ began = [acked |-> {}, damaged |-> FALSE, segments |-> 0]
    /\ reconciled = 0

-----------------------------------------------------------------------------
Damaged == \E f \in Named : ~Verified(file[f])

StartReconciliation ==
    /\ recon.pc \in AtRestAgain
    /\ reconciled < MaxReconciliations
    /\ reconciled' = reconciled + 1
    /\ recon' = [pc |-> "segments", round |-> 1, seen |-> <<>>, file |-> 0, trades |-> {}]
    /\ began' = [acked |-> acked, damaged |-> Damaged, segments |-> Len(archive)]
    /\ UNCHANGED ledgerVars

(* verify_chain_with_archives lists the segments and reads them: no rotation *)
(* holds the lock of a segment.                                              *)
ReadSegments ==
    /\ recon.pc = "segments"
    /\ recon' = [recon EXCEPT !.pc = "open", !.seen = Archived]
    /\ UNCHANGED <<ledgerVars, began, reconciled>>

(* The ledger itself, if there is a file of that name; it may have been there *)
(* when asked for and be gone when opened, ...                                *)
OpenLedger ==
    /\ recon.pc = "open"
    /\ \/ recon' = [recon EXCEPT !.pc = "verify", !.file = path]
       \/ path = 0 /\ recon' = [recon EXCEPT !.pc = "failed"]
    /\ UNCHANGED <<ledgerVars, began, reconciled>>

(* ... which may have become a segment when it can be locked. *)
Readable == recon.file = 0 \/ recon.file \notin Locked

FileRead == IF recon.file = 0 THEN <<>> ELSE file[recon.file]

HistoryIsSound == Verified(recon.seen \o FileRead)

(* Ledger(path), which the check of any lines begins with, creates the file. *)
FileThere ==
    IF recon.seen \o FileRead # <<>> /\ path = 0
    THEN file' = Append(file, <<>>) /\ path' = Len(file) + 1
    ELSE UNCHANGED <<file, path>>

Verify ==
    /\ recon.pc = "verify"
    /\ Readable
    /\ FileThere
    /\ recon' =
         IF ~HistoryIsSound THEN [recon EXCEPT !.pc = "refused"]
         ELSE IF recon.round = Verifications THEN [recon EXCEPT !.pc = "trades"]
         ELSE IF recon.round = 2 THEN [recon EXCEPT !.pc = "look", !.round = 3]
         ELSE [recon EXCEPT !.pc = "segments", !.round = @ + 1]
    /\ UNCHANGED <<archive, process, cache, acked, spoiled, began, reconciled>>

(* aggregate_shadow without a file has no trades to tell of. *)
LookForLedger ==
    /\ recon.pc = "look"
    /\ recon' = [recon EXCEPT !.pc = IF path = 0 THEN "reported" ELSE "segments"]
    /\ UNCHANGED <<ledgerVars, began, reconciled>>

(* The file is opened once more: it is an error when it has gone, ... *)
OpenForTrades ==
    /\ recon.pc = "trades"
    /\ recon' = [recon EXCEPT !.pc = IF path = 0 THEN "failed" ELSE "read", !.file = path]
    /\ UNCHANGED <<ledgerVars, began, reconciled>>

(* ... and when a line does not parse.  The lines are not verified again. *)
ReadTrades ==
    /\ recon.pc = "read"
    /\ Readable
    /\ recon' = IF Parsed(FileRead)
                THEN [recon EXCEPT !.pc = "reported", !.trades = Recs(FileRead)]
                ELSE [recon EXCEPT !.pc = "failed"]
    /\ UNCHANGED <<ledgerVars, began, reconciled>>

ReconNext ==
    \/ StartReconciliation \/ ReadSegments \/ OpenLedger \/ Verify
    \/ LookForLedger \/ OpenForTrades \/ ReadTrades
    \/ LedgerNext /\ UNCHANGED <<recon, began, reconciled>>

ReconSpec == ReconInit /\ [][ReconNext]_reconVars

-----------------------------------------------------------------------------
(* The types. *)
ReconType ==
    /\ recon.round \in 0 .. Verifications /\ recon.file \in 0 .. Len(file)
    /\ recon.trades \subseteq 0 .. MaxAppends
    /\ reconciled \in 0 .. MaxReconciliations

Reported == recon.pc = "reported"

(* What was damaged when the reconciliation began is never reported on, also   *)
(* when a rotation takes the damaged file out of sight between the look for    *)
(* segments and the look for the ledger: a later verification then sees it as  *)
(* a segment.  One verification would not do.                                  *)
DamageIsRefused == Reported => ~began.damaged

(* A report with a trade from before it began has every trade that had been      *)
(* acknowledged by then, unless somebody rotated meanwhile: of a ledger that is  *)
(* spread over files the verification sees a gap, and refuses, before the trades *)
(* of the last file could pass for all of them.  Just after a rotation, though,  *)
(* there is no gap yet: the report is then of none of them.                      *)
AllOrNone ==
    Reported /\ recon.trades \cap began.acked # {} /\ Len(archive) = began.segments =>
        began.acked \ spoiled \subseteq recon.trades

(* What a reconciliation reports has been verified, and is not a part of it. *)
ReportIsSound == ReconType /\ DamageIsRefused /\ AllOrNone
=============================================================================
