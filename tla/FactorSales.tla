---------------------------- MODULE FactorSales ----------------------------
(***************************************************************************)
(* The sale of one factor to one buyer (billing/service.py, with a real    *)
(* PostgreSQL pool): the row of purchases that UNIQUE (factor_id,          *)
(* buyer_tenant) keeps single, the mirror of it in every process, the lock *)
(* of the idempotency key, the entry in the governance ledger that follows *)
(* the row, and the compensation when that entry is refused.               *)
(*                                                                         *)
(* Everything is kept per factor and buyer, so one pair stands for all.    *)
(* Each attempt to insert has a number of its own: the code's purchase_id. *)
(***************************************************************************)
EXTENDS Integers, FiniteSets

CONSTANTS
    Services,    \* the processes that sell
    Buyers,      \* their threads, each of them serving calls of purchase
    ServiceOf,   \* [Buyers -> Services]
    MaxSales,    \* bound: attempts to insert the row
    MaxCalls     \* bound: calls of purchase

ASSUME ServiceOfAssumption == ServiceOf \in [Buyers -> Services]
ASSUME MaxSalesAssumption == MaxSales \in Nat

VARIABLES
    listed,      \* is the factor in the table factors?
    bought,      \* the row of purchases: the number of the sale; 0: none
    mirror,      \* _GLOBAL_PURCHASES of each process
    guard,       \* _PURCHASE_KEY_LOCKS of each process: the lock of the key
    buyer,       \* the calls under way
    calls,       \* calls begun
    seller,      \* where each process is with a publication
    entries,     \* how often the ledger holds each sale
    pending,     \* _PENDING_LEDGER of each process: the sales in it
    sold,        \* number of the last sale that was tried
    receipts,    \* history: the sales of the receipts that were returned
    refused,     \* history: the sales whose entry the ledger refused
    unbooked,    \* history: sales left alone by a crash or a lost answer
    failed       \* history: did a call of purchase fail in any way?

salesVars == <<listed, bought, mirror, guard, buyer, calls, seller, entries, pending,
               sold, receipts, refused, unbooked, failed>>

Sales == 1 .. MaxSales

NoLock == <<>>

AtCounter == [pc |-> "idle", lock |-> NoLock, sale |-> 0, hit |-> 0]

SalesInit ==
    /\ listed = FALSE
    /\ bought = 0
    /\ mirror = [p \in Services |-> 0]
    /\ guard = [p \in Services |-> NoLock]
    /\ buyer = [b \in Buyers |-> AtCounter]
    /\ calls = 0
    /\ seller = [p \in Services |-> "idle"]
    /\ entries = [s \in Sales |-> 0]
    /\ pending = [p \in Services |-> {}]
    /\ sold = 0
    /\ receipts = {} /\ refused = {} /\ unbooked = {}
    /\ failed = FALSE

Mine(b) == mirror[ServiceOf[b]]

At(b, pc) == buyer[b].pc = pc

Step(b, pc) == buyer' = [buyer EXCEPT ![b].pc = pc]

(* _purchase_guard on the way out: the entry goes, whoever waits for the lock. *)
GuardWithout(b) ==
    [guard EXCEPT ![ServiceOf[b]] = IF @ = buyer[b].lock THEN NoLock ELSE @]

Return_(b, s) ==
    /\ buyer' = [buyer EXCEPT ![b] = AtCounter]
    /\ guard' = GuardWithout(b)
    /\ receipts' = receipts \cup {s}

Raise(b) ==
    /\ buyer' = [buyer EXCEPT ![b] = AtCounter]
    /\ guard' = GuardWithout(b)
    /\ failed' = TRUE

db == <<listed, bought>>
books == <<entries, pending, refused, unbooked>>
history == <<receipts, failed>>

-----------------------------------------------------------------------------
(* purchase *)

(* The lock of the key, made when there is none. *)
Enter(b) ==
    LET p == ServiceOf[b]
        l == IF guard[p] = NoLock THEN <<b, calls>> ELSE guard[p]
    IN  /\ At(b, "idle")
        /\ calls < MaxCalls
        /\ calls' = calls + 1
        /\ guard' = [guard EXCEPT ![p] = l]
        /\ buyer' = [buyer EXCEPT ![b] = [AtCounter EXCEPT !.pc = "wait", !.lock = l]]
        /\ UNCHANGED <<db, mirror, seller, books, sold, history>>

Held == {buyer[b].lock : b \in {c \in Buyers : buyer[c].pc \notin {"idle", "wait"}}}

(* Under the lock: a sale in the mirror is the answer. *)
Look(b) ==
    /\ At(b, "wait")
    /\ buyer[b].lock \notin Held
    /\ IF Mine(b) # 0
       THEN Return_(b, Mine(b)) /\ UNCHANGED failed
       ELSE Step(b, "insert") /\ UNCHANGED <<guard, history>>
    /\ UNCHANGED <<db, mirror, calls, seller, books, sold>>

(* get_factor finds nothing, the foreign key refuses, or the database fails. *)
InsertFails(b) ==
    /\ At(b, "insert")
    /\ Raise(b)
    /\ UNCHANGED <<db, mirror, calls, seller, books, sold, receipts>>

(* A bug: nobody looks whether the insert returned an id. *)
InsertUnchecked(b) ==
    /\ At(b, "insert")
    /\ listed
    /\ sold < MaxSales
    /\ sold' = sold + 1
    /\ bought' = IF bought = 0 THEN sold' ELSE bought
    /\ buyer' = [buyer EXCEPT ![b].pc = "mirror", ![b].sale = sold']
    /\ UNCHANGED <<listed, mirror, guard, calls, seller, books, history>>

(* INSERT ... ON CONFLICT DO NOTHING RETURNING id; an error of the commit counts *)
(* as a conflict, whether or not the row is there.                               *)
InsertSale(b) ==
    /\ At(b, "insert")
    /\ listed
    /\ IF bought # 0
       THEN /\ Step(b, "conflict")
            /\ UNCHANGED <<bought, sold, unbooked, failed>>
       ELSE /\ sold < MaxSales
            /\ sold' = sold + 1
            /\ \/ /\ bought' = sold'
                  /\ buyer' = [buyer EXCEPT ![b].pc = "mirror", ![b].sale = sold']
                  /\ UNCHANGED <<unbooked, failed>>
               \/ /\ bought' \in {0, sold'}
                  /\ unbooked' = unbooked \cup {sold'}
                  /\ failed' = TRUE
                  /\ Step(b, "conflict")
    /\ UNCHANGED <<listed, mirror, guard, calls, seller, entries, pending, refused, receipts>>

(* The mirror again, then the row itself. *)
ReadBack(b) ==
    /\ At(b, "conflict")
    /\ IF Mine(b) # 0
       THEN Return_(b, Mine(b)) /\ UNCHANGED failed
       ELSE IF bought = 0
            THEN Raise(b) /\ UNCHANGED receipts
            ELSE /\ buyer' = [buyer EXCEPT ![b].pc = "adopt", ![b].hit = bought]
                 /\ UNCHANGED <<guard, history>>
    /\ UNCHANGED <<db, mirror, calls, seller, books, sold>>

Adopt(b) ==
    /\ At(b, "adopt")
    /\ mirror' = [mirror EXCEPT ![ServiceOf[b]] = IF @ = 0 THEN buyer[b].hit ELSE @]
    /\ Return_(b, buyer[b].hit)
    /\ UNCHANGED <<db, calls, seller, books, sold, failed>>

(* The own row is in: put it into the mirror, unless a sale is there by now. *)
Mirror(b) ==
    /\ At(b, "mirror")
    /\ IF Mine(b) # 0
       THEN /\ buyer' = [buyer EXCEPT ![b].pc = "yield", ![b].hit = Mine(b)]
            /\ UNCHANGED mirror
       ELSE /\ mirror' = [mirror EXCEPT ![ServiceOf[b]] = buyer[b].sale]
            /\ Step(b, "book")
    /\ UNCHANGED <<db, guard, calls, seller, books, sold, history>>

(* _pg_delete_purchase_sync deletes by factor and buyer, and errors are only logged. *)
Deleted(s) == {0, s}

(* Give way to the sale in the mirror. *)
Yield(b) ==
    /\ At(b, "yield")
    /\ bought' \in Deleted(bought)
    /\ Return_(b, buyer[b].hit)
    /\ unbooked' = unbooked \cup ({bought'} \ {0})
    /\ failed' = TRUE
    /\ UNCHANGED <<listed, mirror, calls, seller, entries, pending, refused, sold>>

Book(b) ==
    /\ At(b, "book")
    /\ \/ /\ entries' = [entries EXCEPT ![buyer[b].sale] = @ + 1]
          /\ Return_(b, buyer[b].sale)
          /\ UNCHANGED refused
       \/ /\ refused' = refused \cup {buyer[b].sale}
          /\ Step(b, "undo")
          /\ UNCHANGED <<entries, guard, receipts>>
    /\ UNCHANGED <<db, mirror, calls, seller, pending, unbooked, sold, failed>>

(* The entry was refused: take the row back, *)
Undo(b) ==
    /\ At(b, "undo")
    /\ bought' \in Deleted(bought)
    /\ Step(b, "forget")
    /\ UNCHANGED <<listed, mirror, guard, calls, seller, books, sold, history>>

(* A bug: a sale that was taken back is not queued, one that could not be is not either. *)
QueuedNothing(p, s) == pending[p]

(* what _enqueue_pending_ledger is called with *)
Queued(p, s) == pending[p] \cup {s}

(* then the own entry of the mirror, queue the entry, and raise. *)
Forget(b) ==
    LET p == ServiceOf[b]
    IN  /\ At(b, "forget")
        /\ mirror' = [mirror EXCEPT ![p] = IF @ = buyer[b].sale THEN 0 ELSE @]
        /\ pending' = [pending EXCEPT ![p] = Queued(p, buyer[b].sale)]
        /\ Raise(b)
        /\ UNCHANGED <<db, calls, seller, entries, refused, unbooked, sold, receipts>>

(* replay_pending_ledger, one entry. *)
ReplayEntry(p, s) ==
    /\ s \in pending[p]
    /\ entries' = [entries EXCEPT ![s] = @ + 1]
    /\ pending' = [pending EXCEPT ![p] = @ \ {s}]
    /\ UNCHANGED <<db, mirror, guard, buyer, calls, seller, refused, unbooked, sold, history>>

(* A process dies: its threads, mirror, locks and queue are gone. *)
Dies(p) ==
    /\ \E b \in Buyers : ServiceOf[b] = p /\ ~At(b, "idle")
    /\ buyer' = [b \in Buyers |-> IF ServiceOf[b] = p THEN AtCounter ELSE buyer[b]]
    /\ mirror' = [mirror EXCEPT ![p] = 0]
    /\ guard' = [guard EXCEPT ![p] = NoLock]
    /\ pending' = [pending EXCEPT ![p] = {}]
    /\ seller' = [seller EXCEPT ![p] = "idle"]
    /\ unbooked' = unbooked \cup pending[p]
                     \cup {buyer[b].sale : b \in {c \in Buyers : ServiceOf[c] = p}}
    /\ failed' = TRUE
    /\ UNCHANGED <<db, calls, entries, refused, sold, receipts>>

-----------------------------------------------------------------------------
(* publish_factor: the row, which ON CONFLICT leaves as it is, then the entry in   *)
(* the ledger; when that is refused the row is deleted, unless a sale refers to it. *)
Publish(p) ==
    /\ seller[p] = "idle"
    /\ ~listed
    /\ listed' = TRUE
    /\ seller' = [seller EXCEPT ![p] = "book"]
    /\ UNCHANGED <<bought, mirror, guard, buyer, calls, books, sold, history>>

PublishBooked(p) ==
    /\ seller[p] = "book"
    /\ seller' = [seller EXCEPT ![p] = "idle"]
    /\ listed' \in IF bought = 0 THEN BOOLEAN ELSE {TRUE}
    /\ UNCHANGED <<bought, mirror, guard, buyer, calls, books, sold, history>>

SalesNext ==
    \/ \E b \in Buyers :
          \/ Enter(b) \/ Look(b) \/ InsertFails(b) \/ InsertSale(b) \/ ReadBack(b)
          \/ Adopt(b) \/ Mirror(b) \/ Yield(b) \/ Book(b) \/ Undo(b) \/ Forget(b)
    \/ \E p \in Services : Publish(p) \/ PublishBooked(p) \/ Dies(p)
    \/ \E p \in Services, s \in Sales : ReplayEntry(p, s)

SalesSpec == SalesInit /\ [][SalesNext]_salesVars

-----------------------------------------------------------------------------
(* Properties. *)

Working(s) == \E b \in Buyers : buyer[b].sale = s

(* Every sale in the table has its entry in the ledger, or will get one: its     *)
(* thread is still at it or the entry is queued for replay.  What a crash or a   *)
(* lost answer of the commit interrupted is the exception: nothing comes back to *)
(* it.                                                                           *)
SaleIsAccounted ==
    bought # 0 =>
        \/ entries[bought] > 0
        \/ \E p \in Services : bought \in pending[p]
        \/ Working(bought)
        \/ bought \in unbooked

(* An entry of the ledger without a sale in the table comes from the queue: the  *)
(* ledger had refused it, the sale was taken back, and it was replayed all the   *)
(* same.  No other step parts the two.                                           *)
GhostsAreReplayed ==
    \A s \in Sales : entries[s] > 0 /\ bought # s => s \in refused

(* As long as nothing fails, every receipt is for the sale that is in the table, *)
(* whichever process or thread answered.                                         *)
ReceiptsAgree == ~failed /\ refused = {} => receipts \subseteq {bought}

(* The compensation deletes by factor and buyer and not by id, and still never *)
(* takes the sale of another call away.                                        *)
CompensationIsOwn ==
    [][bought # 0 /\ bought' # bought =>
          \E b \in Buyers : buyer[b].sale = bought]_salesVars

(* Types; a receipt is for a sale that was tried. *)
SalesTypeOK ==
    /\ bought \in 0 .. sold
    /\ receipts \subseteq 1 .. sold
    /\ \A b \in Buyers : buyer[b].sale \in 0 .. sold
    /\ entries \in [Sales -> Nat]

(* What sales keep: a sale is booked or will be, entries without a sale come    *)
(* from the queue, and receipts agree.                                          *)
SalesInv ==
    /\ SalesTypeOK
    /\ SaleIsAccounted
    /\ GhostsAreReplayed
    /\ ReceiptsAgree
=============================================================================
