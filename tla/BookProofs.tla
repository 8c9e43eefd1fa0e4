----------------------------- MODULE BookProofs ------------------------------
(***************************************************************************)
(* What is to be done once or in time, proved for all values of the        *)
(* constants: sales and what is booked of them, the playbook of a day,     *)
(* the time at which it is due, and the memory of the agents: its notes    *)
(* with their rows, and what a search of it answers; and what a backtest   *)
(* promises whatever its numbers are. Each part states an inductive        *)
(* invariant of its component, shows that every action keeps it, and that  *)
(* it implies what the runs check.                                         *)
(***************************************************************************)
EXTENDS MCBooks, FiniteSetTheorems, SequenceTheorems, WellFoundedInduction, TLAPS

-----------------------------------------------------------------------------
(***************************************************************************)
(* FactorSales: whoever has inserted the row and not let go of it yet is   *)
(* the only one, so that a compensation by factor and buyer hits the own   *)
(* row, and an entry is written for the sale that is in the table.         *)
(***************************************************************************)

Counters == {"idle", "wait", "insert", "conflict", "adopt", "mirror", "yield", "book", "undo", "forget"}

Locks == {NoLock} \cup (Buyers \X Nat)

Calls == [pc : Counters, lock : Locks, sale : 0 .. sold, hit : 0 .. sold]

SalesTypes ==
    /\ sold \in 0 .. MaxSales /\ bought \in 0 .. sold
    /\ mirror \in [Services -> 0 .. sold]
    /\ buyer \in [Buyers -> Calls]
    /\ calls \in Nat /\ guard \in [Services -> Locks]
    /\ entries \in [Sales -> Nat]
    /\ pending \in [Services -> SUBSET refused]
    /\ receipts \in SUBSET (1 .. sold) /\ refused \in SUBSET (1 .. sold)
    /\ failed \in BOOLEAN

Calm == failed = FALSE /\ refused = {}

(* What a call knows of the sale it tried: it is that of the table until the *)
(* call lets go of it, and an entry of it that is there was replayed.        *)
BuyerIsSound(q) ==
    /\ q.pc \in {"idle", "wait", "insert", "conflict", "adopt"} => q.sale = 0
    /\ q.pc \in {"mirror", "yield", "book", "undo"} => q.sale = bought
    /\ q.pc \in {"mirror", "yield", "book", "undo", "forget"} => q.sale # 0
    /\ q.pc \in {"mirror", "yield", "book"} => entries[q.sale] = 0 \/ q.sale \in refused
    /\ q.pc \in {"undo", "forget"} => q.sale \in refused
    /\ q.pc \in {"adopt", "yield"} => q.hit # 0
    /\ q.pc = "adopt" /\ Calm => q.hit = bought

SalesAreOwn == \A b, c \in Buyers : buyer[b].sale = buyer[c].sale /\ buyer[b].sale # 0 => b = c

EntriesAreOfSales == \A s \in Sales : entries[s] > 0 => s <= sold

MirrorsAgree == Calm => \A p \in Services : mirror[p] \in {0, bought}

(* The inductive invariant of the sales. *)
SalesIInv ==
    /\ SalesTypes
    /\ \A b \in Buyers : BuyerIsSound(buyer[b])
    /\ SalesAreOwn
    /\ EntriesAreOfSales
    /\ MirrorsAgree
    /\ SaleIsAccounted
    /\ GhostsAreReplayed
    /\ ReceiptsAgree

(* The invariant holds at the start. *)
LEMMA SalesInitially == SalesInit => SalesIInv
<1> SUFFICES ASSUME SalesInit PROVE SalesIInv
  OBVIOUS
<1>1. sold = 0 /\ bought = 0 /\ 0 \in 0 .. sold /\ sold \in 0 .. MaxSales /\ calls \in Nat
  BY MaxSalesAssumption DEF SalesInit
<1>2. AtCounter \in Calls
  BY <1>1 DEF AtCounter, Calls, Counters, Locks
<1>3. buyer \in [Buyers -> Calls]
  BY <1>2 DEF SalesInit
<1>4. /\ mirror \in [Services -> 0 .. sold] /\ guard \in [Services -> Locks]
      /\ entries \in [Sales -> Nat] /\ pending \in [Services -> SUBSET refused]
      /\ receipts \in SUBSET (1 .. sold) /\ refused \in SUBSET (1 .. sold) /\ failed \in BOOLEAN
  BY <1>1 DEF SalesInit, Locks
<1>5. SalesTypes
  BY <1>1, <1>3, <1>4 DEF SalesTypes
<1>6. \A b \in Buyers : buyer[b] = AtCounter
  BY DEF SalesInit
<1>7. /\ \A b \in Buyers : BuyerIsSound(buyer[b])
      /\ SalesAreOwn
  BY <1>6 DEF BuyerIsSound, SalesAreOwn, AtCounter
<1>8. EntriesAreOfSales /\ MirrorsAgree
  BY DEF SalesInit, EntriesAreOfSales, MirrorsAgree
<1>9. SaleIsAccounted /\ GhostsAreReplayed /\ ReceiptsAgree
  BY DEF SalesInit, SaleIsAccounted, GhostsAreReplayed, ReceiptsAgree
<1> QED BY <1>5, <1>7, <1>8, <1>9 DEF SalesIInv

(* A call that is over or begins holds no sale. *)
LEMMA CounterIsFree ==
    /\ AtCounter.pc = "idle" /\ AtCounter.sale = 0 /\ AtCounter.hit = 0
    /\ AtCounter.lock = NoLock /\ DOMAIN AtCounter = {"pc", "lock", "sale", "hit"}
BY DEF AtCounter

(* A step of one call that changes neither the table nor the books. *)
LEMMA OneCallMoves ==
    ASSUME SalesIInv, NEW b \in Buyers,
           UNCHANGED <<listed, bought, entries, pending, refused, sold>>,
           NEW q, buyer' = [buyer EXCEPT ![b] = q],
           q \in Calls,
           q.sale = buyer[b].sale, BuyerIsSound(q),
           mirror' \in [Services -> 0 .. sold],
           failed \in BOOLEAN, failed' \in {failed, TRUE},
           Calm => \A p \in Services : mirror'[p] \in {0, bought},
           calls' \in Nat, guard' \in [Services -> Locks],
           unbooked \subseteq unbooked',
           receipts' \in SUBSET (1 .. sold),
           Calm => receipts' \subseteq {bought}
    PROVE  SalesIInv'
<1>0. Calm' => Calm
  BY DEF Calm
<1>1. SalesTypes'
  BY DEF SalesIInv, SalesTypes, Calls
<1>2. \A c \in Buyers : buyer'[c] = IF c = b THEN q ELSE buyer[c]
  BY DEF SalesIInv, SalesTypes
<1>3. \A c \in Buyers : BuyerIsSound(buyer'[c])
  BY <1>2 DEF SalesIInv
<1>4. \A c \in Buyers : BuyerIsSound(buyer[c])'
  BY <1>0, <1>3 DEF BuyerIsSound
<1>5. SalesAreOwn'
  BY <1>2 DEF SalesIInv, SalesAreOwn
<1>6. EntriesAreOfSales' /\ GhostsAreReplayed'
  BY DEF SalesIInv, EntriesAreOfSales, GhostsAreReplayed
<1>7. MirrorsAgree' /\ ReceiptsAgree'
  BY <1>0 DEF MirrorsAgree, ReceiptsAgree, Calm
<1>8. SaleIsAccounted'
  BY <1>2 DEF SalesIInv, SaleIsAccounted, Working
<1> QED BY <1>1, <1>4, <1>5, <1>6, <1>7, <1>8 DEF SalesIInv

(* Every step of purchase that changes neither the table nor the books. *)
LEMMA QuietCalls ==
    ASSUME SalesIInv, NEW b \in Buyers,
           Enter(b) \/ Look(b) \/ InsertFails(b) \/ ReadBack(b) \/ Adopt(b) \/ Mirror(b)
    PROVE  SalesIInv'
<1> DEFINE Q == buyer[b]
<1>1. /\ buyer \in [Buyers -> Calls] /\ guard \in [Services -> Locks] /\ calls \in Nat
      /\ mirror \in [Services -> 0 .. sold] /\ ServiceOf[b] \in Services
      /\ bought \in 0 .. sold /\ sold \in Nat /\ receipts \in SUBSET (1 .. sold) /\ failed \in BOOLEAN
  BY ServiceOfAssumption DEF SalesIInv, SalesTypes
<1>2. /\ Q \in Calls /\ BuyerIsSound(Q) /\ Mine(b) \in 0 .. sold
      /\ Calm => Mine(b) \in {0, bought}
      /\ Calm => receipts \subseteq {bought}
      /\ Calm => \A p \in Services : mirror[p] \in {0, bought}
  BY <1>1 DEF SalesIInv, Mine, MirrorsAgree, ReceiptsAgree, Calm
<1>3. AtCounter \in Calls /\ BuyerIsSound(AtCounter)
  BY <1>1, CounterIsFree DEF AtCounter, Calls, Counters, Locks, BuyerIsSound
<1>4. GuardWithout(b) \in [Services -> Locks]
  BY <1>1, <1>2 DEF GuardWithout, Locks
<1>5. CASE Enter(b)
  <2> DEFINE l == IF guard[ServiceOf[b]] = NoLock THEN <<b, calls>> ELSE guard[ServiceOf[b]]
             q == [AtCounter EXCEPT !.pc = "wait", !.lock = l]
  <2>1. l \in Locks
    BY <1>1 DEF Locks
  <2>2. /\ buyer' = [buyer EXCEPT ![b] = q] /\ calls' = calls + 1
        /\ guard' = [guard EXCEPT ![ServiceOf[b]] = l] /\ Q.pc = "idle"
        /\ UNCHANGED <<listed, bought, mirror, entries, pending, refused, unbooked, sold, receipts, failed>>
    BY <1>5 DEF Enter, db, books, history, At
  <2>3. q \in Calls /\ q.sale = Q.sale /\ BuyerIsSound(q)
    <3>1. q \in Calls /\ q.pc = "wait" /\ q.sale = 0
      BY <1>3, <2>1 DEF Calls, Counters, AtCounter
    <3> HIDE DEF q
    <3> QED BY <1>2, <2>2, <3>1 DEF BuyerIsSound
  <2>4. guard' \in [Services -> Locks] /\ calls' \in Nat
    BY <1>1, <2>1, <2>2
  <2> HIDE DEF q, l
  <2> QED BY <1>1, <1>2, <2>2, <2>3, <2>4, OneCallMoves
<1>6. ASSUME Q.sale = 0, NEW s \in 1 .. sold, Calm => s = bought,
             Return_(b, s), failed' = failed, mirror' \in [Services -> 0 .. sold],
             Calm => \A p \in Services : mirror'[p] \in {0, bought},
             UNCHANGED <<listed, bought, calls, entries, pending, refused, unbooked, sold>>
      PROVE  SalesIInv'
  <2>1. /\ buyer' = [buyer EXCEPT ![b] = AtCounter] /\ guard' = GuardWithout(b)
        /\ receipts' = receipts \cup {s}
    BY <1>6 DEF Return_
  <2> QED BY <1>1, <1>2, <1>3, <1>4, <1>6, <2>1, CounterIsFree, OneCallMoves
<1>7. ASSUME Q.sale = 0, Raise(b),
             UNCHANGED <<listed, bought, mirror, calls, entries, pending, refused, unbooked, sold, receipts>>
      PROVE  SalesIInv'
  <2>1. buyer' = [buyer EXCEPT ![b] = AtCounter] /\ guard' = GuardWithout(b) /\ failed' = TRUE
    BY <1>7 DEF Raise
  <2> QED BY <1>1, <1>2, <1>3, <1>4, <1>7, <2>1, CounterIsFree, OneCallMoves
<1>8. CASE Look(b)
  <2>1. Q.sale = 0 /\ Q.pc = "wait"
    BY <1>2, <1>8 DEF Look, At, BuyerIsSound
  <2>2. CASE Mine(b) # 0
    BY <1>1, <1>2, <1>6, <1>8, <2>1, <2>2 DEF Look, db, books, history
  <2>3. CASE Mine(b) = 0
    <3> DEFINE q == [Q EXCEPT !.pc = "insert"]
    <3>1. q \in Calls /\ q.sale = Q.sale /\ BuyerIsSound(q)
      BY <1>2, <2>1 DEF Calls, Counters, BuyerIsSound
    <3>2. /\ buyer' = [buyer EXCEPT ![b] = q]
          /\ UNCHANGED <<listed, bought, mirror, guard, calls, entries, pending, refused, unbooked, sold, receipts, failed>>
      BY <1>1, <1>8, <2>3 DEF Look, Step, db, books, history
    <3> HIDE DEF q
    <3> QED BY <1>1, <1>2, <3>1, <3>2, OneCallMoves
  <2> QED BY <2>2, <2>3
<1>9. CASE InsertFails(b)
  BY <1>2, <1>7, <1>9 DEF InsertFails, At, BuyerIsSound, db, books
<1>10. CASE ReadBack(b)
  <2>1. Q.sale = 0 /\ Q.pc = "conflict"
    BY <1>2, <1>10 DEF ReadBack, At, BuyerIsSound
  <2>2. CASE Mine(b) # 0
    BY <1>1, <1>2, <1>6, <1>10, <2>1, <2>2 DEF ReadBack, db, books
  <2>3. CASE Mine(b) = 0 /\ bought = 0
    BY <1>7, <1>10, <2>1, <2>3 DEF ReadBack, db, books
  <2>4. CASE Mine(b) = 0 /\ bought # 0
    <3> DEFINE q == [Q EXCEPT !.pc = "adopt", !.hit = bought]
    <3>1. q \in Calls /\ q.sale = Q.sale /\ BuyerIsSound(q)
      BY <1>1, <1>2, <2>1, <2>4 DEF Calls, Counters, BuyerIsSound
    <3>2. /\ buyer' = [buyer EXCEPT ![b] = q]
          /\ UNCHANGED <<listed, bought, mirror, guard, calls, entries, pending, refused, unbooked, sold, receipts, failed>>
      BY <1>1, <1>10, <2>4 DEF ReadBack, db, books, history
    <3> HIDE DEF q
    <3> QED BY <1>1, <1>2, <3>1, <3>2, OneCallMoves
  <2> QED BY <2>2, <2>3, <2>4
<1>11. CASE Adopt(b)
  <2>1. /\ Q.sale = 0 /\ Q.hit \in 1 .. sold /\ (Calm => Q.hit = bought)
    BY <1>1, <1>2, <1>11 DEF Adopt, At, BuyerIsSound, Calls
  <2>2. mirror' \in [Services -> 0 .. sold] /\ (Calm => \A p \in Services : mirror'[p] \in {0, bought})
    BY <1>1, <1>2, <1>11, <2>1 DEF Adopt
  <2> QED BY <1>6, <1>11, <2>1, <2>2 DEF Adopt, db, books
<1>12. CASE Mirror(b)
  <2>1. /\ Q.pc = "mirror" /\ Q.sale = bought /\ bought # 0 /\ (entries[Q.sale] = 0 \/ Q.sale \in refused)
    BY <1>2, <1>12 DEF Mirror, At, BuyerIsSound
  <2>2. CASE Mine(b) # 0
    <3> DEFINE q == [Q EXCEPT !.pc = "yield", !.hit = Mine(b)]
    <3>1. q \in Calls /\ q.sale = Q.sale /\ BuyerIsSound(q)
      BY <1>1, <1>2, <2>1, <2>2 DEF Calls, Counters, BuyerIsSound
    <3>2. /\ buyer' = [buyer EXCEPT ![b] = q]
          /\ UNCHANGED <<listed, bought, mirror, guard, calls, entries, pending, refused, unbooked, sold, receipts, failed>>
      BY <1>1, <1>12, <2>2 DEF Mirror, db, books, history
    <3> HIDE DEF q
    <3> QED BY <1>1, <1>2, <3>1, <3>2, OneCallMoves
  <2>3. CASE Mine(b) = 0
    <3> DEFINE q == [Q EXCEPT !.pc = "book"]
    <3>1. q \in Calls /\ q.sale = Q.sale /\ BuyerIsSound(q)
      BY <1>1, <1>2, <2>1 DEF Calls, Counters, BuyerIsSound
    <3>2. /\ buyer' = [buyer EXCEPT ![b] = q] /\ mirror' = [mirror EXCEPT ![ServiceOf[b]] = bought]
          /\ UNCHANGED <<listed, bought, guard, calls, entries, pending, refused, unbooked, sold, receipts, failed>>
      BY <1>1, <1>12, <2>1, <2>3 DEF Mirror, Step, db, books, history
    <3>3. mirror' \in [Services -> 0 .. sold] /\ (Calm => \A p \in Services : mirror'[p] \in {0, bought})
      BY <1>1, <1>2, <3>2
    <3> HIDE DEF q
    <3> QED BY <1>1, <1>2, <3>1, <3>2, <3>3, OneCallMoves
  <2> QED BY <2>2, <2>3
<1> QED BY <1>5, <1>8, <1>9, <1>10, <1>11, <1>12

(* A row is inserted only when there is none, under a number of its own. *)
LEMMA InsertKeeps ==
    ASSUME SalesIInv, NEW b \in Buyers, InsertSale(b)
    PROVE  SalesIInv'
<1>1. /\ buyer \in [Buyers -> Calls] /\ buyer[b] \in Calls /\ BuyerIsSound(buyer[b])
      /\ buyer[b].pc = "insert" /\ buyer[b].sale = 0
      /\ bought \in 0 .. sold /\ sold \in Nat /\ failed \in BOOLEAN
      /\ mirror \in [Services -> 0 .. sold] /\ guard \in [Services -> Locks] /\ calls \in Nat
      /\ receipts \in SUBSET (1 .. sold)
      /\ Calm => receipts \subseteq {bought}
      /\ Calm => \A p \in Services : mirror[p] \in {0, bought}
  BY DEF SalesIInv, SalesTypes, InsertSale, At, BuyerIsSound, MirrorsAgree, ReceiptsAgree, Calm
<1>2. CASE bought # 0
  <2> DEFINE q == [buyer[b] EXCEPT !.pc = "conflict"]
  <2>1. q \in Calls /\ q.sale = buyer[b].sale /\ BuyerIsSound(q)
    BY <1>1 DEF Calls, Counters, BuyerIsSound
  <2>2. /\ buyer' = [buyer EXCEPT ![b] = q]
        /\ UNCHANGED <<listed, bought, mirror, guard, calls, entries, pending, refused, unbooked, sold, receipts, failed>>
    BY <1>1, <1>2 DEF InsertSale, Step
  <2> HIDE DEF q
  <2> QED BY <1>1, <2>1, <2>2, OneCallMoves
<1>3. CASE bought = 0
  <2>1. /\ sold' = sold + 1 /\ sold < MaxSales
        /\ UNCHANGED <<listed, mirror, guard, calls, entries, pending, refused, receipts>>
        /\ \/ /\ bought' = sold + 1 /\ UNCHANGED <<unbooked, failed>>
              /\ buyer' = [buyer EXCEPT ![b].pc = "mirror", ![b].sale = sold + 1]
           \/ /\ bought' \in {0, sold + 1} /\ unbooked' = unbooked \cup {sold + 1} /\ failed' = TRUE
              /\ buyer' = [buyer EXCEPT ![b].pc = "conflict"]
    BY <1>3 DEF InsertSale, Step
  <2>2. PICK q : /\ buyer' = [buyer EXCEPT ![b] = q]
                 /\ \/ /\ bought' = sold + 1 /\ UNCHANGED <<unbooked, failed>>
                       /\ q = [buyer[b] EXCEPT !.pc = "mirror", !.sale = sold + 1]
                    \/ /\ bought' \in {0, sold + 1} /\ unbooked' = unbooked \cup {sold + 1} /\ failed' = TRUE
                       /\ q = [buyer[b] EXCEPT !.pc = "conflict"]
    <3>1. [buyer EXCEPT ![b].pc = "mirror", ![b].sale = sold + 1]
            = [buyer EXCEPT ![b] = [buyer[b] EXCEPT !.pc = "mirror", !.sale = sold + 1]]
      BY <1>1
    <3> QED BY <2>1, <3>1
  <2>3. /\ q \in [pc : Counters, lock : Locks, sale : 0 .. sold + 1, hit : 0 .. sold + 1]
        /\ q.sale \in {0, sold + 1} /\ (q.sale # 0 => bought' = sold + 1 /\ q.pc = "mirror")
        /\ q.pc \in {"conflict", "mirror"} /\ (q.pc = "mirror" => q.sale = sold + 1)
        /\ (q.pc = "conflict" => q.sale = 0 /\ failed' = TRUE /\ unbooked' = unbooked \cup {sold + 1})
        /\ (q.pc = "mirror" => unbooked' = unbooked /\ failed' = failed)
    <3>1. buyer[b] \in [pc : Counters, lock : Locks, sale : 0 .. sold + 1, hit : 0 .. sold + 1]
      BY <1>1 DEF Calls
    <3>2. sold + 1 \in 0 .. sold + 1 /\ "mirror" \in Counters /\ "conflict" \in Counters
      BY <1>1 DEF Counters
    <3>3. CASE q = [buyer[b] EXCEPT !.pc = "mirror", !.sale = sold + 1] /\ bought' = sold + 1
                /\ UNCHANGED <<unbooked, failed>>
      BY <3>1, <3>2, <3>3
    <3>4. CASE /\ q = [buyer[b] EXCEPT !.pc = "conflict"] /\ bought' \in {0, sold + 1}
               /\ unbooked' = unbooked \cup {sold + 1} /\ failed' = TRUE
      <4>1. q.pc = "conflict" /\ q.sale = 0
        BY <1>1, <3>1, <3>4
      <4>2. q \in [pc : Counters, lock : Locks, sale : 0 .. sold + 1, hit : 0 .. sold + 1]
        BY <3>1, <3>2, <3>4
      <4> QED BY <3>4, <4>1, <4>2
    <3> QED BY <2>2, <3>3, <3>4
  <2>4. failed' \in BOOLEAN
    BY <1>1, <2>2
  <2>5. sold' \in 0 .. MaxSales /\ bought' \in 0 .. sold'
    <3>1. sold + 1 \in 0 .. MaxSales /\ 0 \in 0 .. sold + 1 /\ sold + 1 \in 0 .. sold + 1
      BY <1>1, <2>1, MaxSalesAssumption
    <3>2. bought' \in {0, sold + 1} /\ sold' = sold + 1
      BY <2>1, <2>2
    <3> QED BY <3>1, <3>2
  <2>6. /\ sold' \in 0 .. MaxSales /\ bought' \in 0 .. sold' /\ failed' \in BOOLEAN
        /\ receipts' \in SUBSET (1 .. sold') /\ refused' \in SUBSET (1 .. sold')
        /\ mirror' \in [Services -> 0 .. sold'] /\ pending' \in [Services -> SUBSET refused']
        /\ entries' \in [Sales -> Nat] /\ calls' \in Nat /\ guard' \in [Services -> Locks]
    <3>1. 0 .. sold \subseteq 0 .. sold' /\ 1 .. sold \subseteq 1 .. sold'
      BY <1>1, <2>1
    <3>2. /\ refused \in SUBSET (1 .. sold) /\ pending \in [Services -> SUBSET refused]
          /\ entries \in [Sales -> Nat]
      BY DEF SalesIInv, SalesTypes
    <3>3. mirror \in [Services -> 0 .. sold']
      BY <1>1, <3>1
    <3> QED BY <1>1, <2>1, <2>4, <2>5, <3>1, <3>2, <3>3
  <2>7. \A c \in Buyers : buyer'[c] = IF c = b THEN q ELSE buyer[c]
    BY <1>1, <2>2
  <2>8. \A c \in Buyers : buyer[c] \in [pc : Counters, lock : Locks, sale : 0 .. sold + 1, hit : 0 .. sold + 1]
    BY <1>1 DEF Calls
  <2>9. buyer' \in [Buyers -> [pc : Counters, lock : Locks, sale : 0 .. sold', hit : 0 .. sold']]
    BY <1>1, <2>1, <2>2, <2>3, <2>7, <2>8
  <2>10. SalesTypes'
    BY <2>6, <2>9 DEF SalesTypes, Calls
  <2>11. entries[sold + 1] = 0 /\ sold + 1 \in Sales
    <3>1. sold + 1 \in Sales
      BY <1>1, <2>1, MaxSalesAssumption DEF Sales
    <3>2. entries[sold + 1] \in Nat /\ ~(entries[sold + 1] > 0)
      BY <1>1, <3>1 DEF SalesIInv, SalesTypes, EntriesAreOfSales
    <3> QED BY <3>1, <3>2
  <2>12. Calm' => Calm /\ q.pc = "mirror"
    BY <2>1, <2>2, <2>3 DEF Calm
  <2>13. \A c \in Buyers : BuyerIsSound(buyer[c])'
    <3> SUFFICES ASSUME NEW c \in Buyers PROVE BuyerIsSound(buyer[c])'
      OBVIOUS
    <3>1. CASE c = b
      <4>1. q.pc = "mirror" => q.sale = sold + 1 /\ bought' = sold + 1 /\ sold + 1 # 0 /\ entries'[q.sale] = 0
        BY <1>1, <2>1, <2>3, <2>11
      <4> QED BY <2>3, <2>7, <3>1, <4>1 DEF BuyerIsSound
    <3>2. CASE c # b
      <4>1. BuyerIsSound(buyer[c]) /\ buyer'[c] = buyer[c] /\ buyer[c] \in Calls
        BY <1>1, <2>7, <3>2 DEF SalesIInv
      <4>2. buyer[c].pc \notin {"mirror", "yield", "book", "undo"}
        BY <1>3, <4>1 DEF BuyerIsSound
      <4>3. ~(buyer[c].pc = "adopt" /\ Calm)
        BY <1>3, <4>1 DEF BuyerIsSound
      <4> QED BY <2>1, <2>12, <4>1, <4>2, <4>3 DEF BuyerIsSound
    <3> QED BY <3>1, <3>2
  <2>14. SalesAreOwn'
    BY <1>1, <2>3, <2>7 DEF SalesIInv, SalesAreOwn, Calls
  <2>15. EntriesAreOfSales'
    BY <1>1, <2>1 DEF SalesIInv, EntriesAreOfSales, Sales, SalesTypes
  <2>16. MirrorsAgree' /\ ReceiptsAgree'
    BY <1>1, <1>3, <2>1, <2>12 DEF MirrorsAgree, ReceiptsAgree, Calm
  <2>17. SaleIsAccounted'
    <3>1. CASE q.pc = "mirror"
      BY <2>2, <2>3, <2>7, <3>1 DEF SaleIsAccounted, Working
    <3>2. CASE q.pc = "conflict"
      BY <2>2, <2>3, <3>2 DEF SaleIsAccounted
    <3> QED BY <2>3, <3>1, <3>2
  <2>18. GhostsAreReplayed'
    BY <1>3, <1>1, <2>1, <2>11 DEF SalesIInv, GhostsAreReplayed, SalesTypes, Sales
  <2> QED BY <2>10, <2>13, <2>14, <2>15, <2>16, <2>17, <2>18 DEF SalesIInv
<1> QED BY <1>1, <1>2, <1>3

(* What a call that still holds a sale knows: the row is there, it is its own, *)
(* and no other call holds it.                                                *)
LEMMA HolderIsAlone ==
    ASSUME SalesIInv, NEW b \in Buyers, buyer[b].pc \in {"mirror", "yield", "book", "undo"}
    PROVE  /\ buyer[b].sale = bought /\ bought \in 1 .. sold /\ bought \in Sales
           /\ \A c \in Buyers \ {b} :
                buyer[c].sale # bought /\ buyer[c].pc \notin {"mirror", "yield", "book", "undo"}
<1>1. buyer[b].sale = bought /\ bought # 0 /\ bought \in 0 .. sold /\ sold \in 0 .. MaxSales
  BY DEF SalesIInv, SalesTypes, BuyerIsSound
<1>2. bought \in 1 .. sold /\ bought \in Sales
  BY <1>1, MaxSalesAssumption DEF Sales
<1>3. \A c \in Buyers \ {b} : buyer[c].sale # bought
  BY <1>1 DEF SalesIInv, SalesAreOwn
<1>4. \A c \in Buyers : buyer[c].pc \in {"mirror", "yield", "book", "undo"} => buyer[c].sale = bought
  BY DEF SalesIInv, BuyerIsSound
<1> QED BY <1>1, <1>2, <1>3, <1>4

(* Whoever gives way takes the row back, which is its own. *)
LEMMA YieldKeeps ==
    ASSUME SalesIInv, NEW b \in Buyers, Yield(b)
    PROVE  SalesIInv'
<1>1. /\ buyer \in [Buyers -> Calls] /\ buyer[b] \in Calls /\ buyer[b].pc = "yield"
      /\ buyer[b].hit \in 1 .. sold /\ sold \in 0 .. MaxSales /\ sold \in Nat /\ bought \in 0 .. sold
      /\ guard \in [Services -> Locks] /\ receipts \in SUBSET (1 .. sold)
  BY MaxSalesAssumption DEF SalesIInv, SalesTypes, Yield, At, BuyerIsSound, Calls
<1>2. /\ buyer[b].sale = bought /\ bought \in Sales
      /\ \A c \in Buyers \ {b} :
           buyer[c].sale # bought /\ buyer[c].pc \notin {"mirror", "yield", "book", "undo"}
  BY <1>1, HolderIsAlone
<1>3. /\ buyer' = [buyer EXCEPT ![b] = AtCounter] /\ guard' = GuardWithout(b)
      /\ receipts' = receipts \cup {buyer[b].hit} /\ bought' \in {0, bought}
      /\ unbooked' = unbooked \cup ({bought'} \ {0}) /\ failed' = TRUE
      /\ UNCHANGED <<listed, mirror, calls, seller, entries, pending, refused, sold>>
  BY DEF Yield, Return_, Deleted
<1>4. AtCounter \in Calls
  BY <1>1 DEF AtCounter, Calls, Counters, Locks
<1>5. guard' \in [Services -> Locks]
  BY <1>1, <1>3 DEF GuardWithout, Locks
<1>6. bought' \in 0 .. sold
  BY <1>1, <1>3
<1>7. bought' \in 0 .. sold /\ receipts' \in SUBSET (1 .. sold) /\ buyer' \in [Buyers -> Calls]
  BY <1>1, <1>3, <1>4, <1>6
<1>8. SalesTypes'
  BY <1>3, <1>5, <1>7 DEF SalesIInv, SalesTypes, Calls
<1>9. \A c \in Buyers : buyer'[c] = IF c = b THEN AtCounter ELSE buyer[c]
  BY <1>1, <1>3
<1>10. \A c \in Buyers : BuyerIsSound(buyer[c])'
  <2> SUFFICES ASSUME NEW c \in Buyers PROVE BuyerIsSound(buyer[c])'
    OBVIOUS
  <2>1. CASE c = b
    BY <1>9, <2>1, CounterIsFree DEF BuyerIsSound
  <2>2. CASE c # b
    BY <1>2, <1>3, <1>9, <2>2 DEF SalesIInv, BuyerIsSound, Calm
  <2> QED BY <2>1, <2>2
<1>11. SalesAreOwn'
  BY <1>9, CounterIsFree DEF SalesIInv, SalesAreOwn
<1>12. EntriesAreOfSales' /\ MirrorsAgree' /\ ReceiptsAgree'
  BY <1>3 DEF SalesIInv, EntriesAreOfSales, MirrorsAgree, ReceiptsAgree, Calm
<1>13. SaleIsAccounted'
  BY <1>3 DEF SaleIsAccounted
<1>14. GhostsAreReplayed'
  <2>1. entries[bought] = 0 \/ bought \in refused
    BY <1>1, <1>2 DEF SalesIInv, BuyerIsSound
  <2> QED BY <1>3, <2>1 DEF SalesIInv, GhostsAreReplayed
<1> QED BY <1>8, <1>10, <1>11, <1>12, <1>13, <1>14 DEF SalesIInv

(* What is booked is the sale in the table; what the ledger refused is known. *)
LEMMA BookKeeps ==
    ASSUME SalesIInv, NEW b \in Buyers, Book(b)
    PROVE  SalesIInv'
<1>1. /\ buyer \in [Buyers -> Calls] /\ buyer[b] \in Calls /\ buyer[b].pc = "book"
      /\ sold \in 0 .. MaxSales /\ sold \in Nat /\ bought \in 0 .. sold /\ entries \in [Sales -> Nat]
      /\ guard \in [Services -> Locks] /\ receipts \in SUBSET (1 .. sold) /\ refused \in SUBSET (1 .. sold)
      /\ pending \in [Services -> SUBSET refused]
  BY MaxSalesAssumption DEF SalesIInv, SalesTypes, Book, At
<1>2. /\ buyer[b].sale = bought /\ bought \in Sales /\ bought \in 1 .. sold
      /\ \A c \in Buyers \ {b} :
           buyer[c].sale # bought /\ buyer[c].pc \notin {"mirror", "yield", "book", "undo"}
  BY <1>1, HolderIsAlone
<1>3. UNCHANGED <<listed, bought, mirror, calls, seller, pending, unbooked, sold, failed>>
  BY DEF Book, db
<1>4. CASE /\ entries' = [entries EXCEPT ![buyer[b].sale] = @ + 1]
           /\ Return_(b, buyer[b].sale) /\ UNCHANGED refused
  <2>1. /\ entries' = [entries EXCEPT ![bought] = @ + 1] /\ refused' = refused
        /\ buyer' = [buyer EXCEPT ![b] = AtCounter] /\ guard' = GuardWithout(b)
        /\ receipts' = receipts \cup {bought}
    BY <1>2, <1>4 DEF Return_
  <2>2. AtCounter \in Calls
    BY <1>1 DEF AtCounter, Calls, Counters, Locks
  <2>3. guard' \in [Services -> Locks]
    BY <1>1, <2>1 DEF GuardWithout, Locks
  <2>4. receipts' \in SUBSET (1 .. sold) /\ buyer' \in [Buyers -> Calls] /\ entries' \in [Sales -> Nat]
    BY <1>1, <1>2, <2>1, <2>2
  <2>5. SalesTypes'
    BY <1>3, <2>1, <2>3, <2>4 DEF SalesIInv, SalesTypes, Calls
  <2>6. \A c \in Buyers : buyer'[c] = IF c = b THEN AtCounter ELSE buyer[c]
    BY <1>1, <2>1
  <2>7. \A c \in Buyers : BuyerIsSound(buyer[c])'
    <3> SUFFICES ASSUME NEW c \in Buyers PROVE BuyerIsSound(buyer[c])'
      OBVIOUS
    <3>1. CASE c = b
      BY <2>6, <3>1, CounterIsFree DEF BuyerIsSound
    <3>2. CASE c # b
      BY <1>2, <1>3, <2>1, <2>6, <3>2 DEF SalesIInv, BuyerIsSound, Calm
    <3> QED BY <3>1, <3>2
  <2>8. SalesAreOwn'
    BY <2>6, CounterIsFree DEF SalesIInv, SalesAreOwn
  <2>9. \A s \in Sales : entries'[s] = IF s = bought THEN entries[s] + 1 ELSE entries[s]
    BY <1>1, <2>1
  <2>10. EntriesAreOfSales' /\ GhostsAreReplayed'
    BY <1>2, <1>3, <2>1, <2>9 DEF SalesIInv, EntriesAreOfSales, GhostsAreReplayed
  <2>11. MirrorsAgree' /\ ReceiptsAgree'
    BY <1>3, <2>1 DEF SalesIInv, MirrorsAgree, ReceiptsAgree, Calm
  <2>12. SaleIsAccounted'
    BY <1>1, <1>2, <1>3, <2>9 DEF SaleIsAccounted
  <2> QED BY <2>5, <2>7, <2>8, <2>10, <2>11, <2>12 DEF SalesIInv
<1>5. CASE /\ refused' = refused \cup {buyer[b].sale} /\ Step(b, "undo")
           /\ UNCHANGED <<entries, guard, receipts>>
  <2>1. PICK q : q = [buyer[b] EXCEPT !.pc = "undo"]
    OBVIOUS
  <2>2. /\ refused' = refused \cup {bought} /\ buyer' = [buyer EXCEPT ![b] = q]
        /\ UNCHANGED <<entries, guard, receipts>>
    BY <1>1, <1>2, <1>5, <2>1 DEF Step
  <2>3. q \in Calls /\ q.pc = "undo" /\ q.sale = bought
    BY <1>1, <1>2, <2>1 DEF Calls, Counters
  <2>4. /\ refused' \in SUBSET (1 .. sold) /\ buyer' \in [Buyers -> Calls]
        /\ pending' \in [Services -> SUBSET refused']
    BY <1>1, <1>2, <1>3, <2>2, <2>3
  <2>5. SalesTypes'
    BY <1>3, <2>2, <2>4 DEF SalesIInv, SalesTypes, Calls
  <2>6. \A c \in Buyers : buyer'[c] = IF c = b THEN q ELSE buyer[c]
    BY <1>1, <2>2
  <2>7. \A c \in Buyers : BuyerIsSound(buyer[c])'
    <3> SUFFICES ASSUME NEW c \in Buyers PROVE BuyerIsSound(buyer[c])'
      OBVIOUS
    <3>1. CASE c = b
      BY <1>2, <1>3, <2>2, <2>3, <2>6, <3>1 DEF BuyerIsSound
    <3>2. CASE c # b
      BY <1>2, <1>3, <2>2, <2>6, <3>2 DEF SalesIInv, BuyerIsSound, Calm
    <3> QED BY <3>1, <3>2
  <2>8. SalesAreOwn'
    BY <1>2, <2>3, <2>6 DEF SalesIInv, SalesAreOwn
  <2>9. EntriesAreOfSales' /\ GhostsAreReplayed'
    BY <1>3, <2>2 DEF SalesIInv, EntriesAreOfSales, GhostsAreReplayed
  <2>10. MirrorsAgree' /\ ReceiptsAgree'
    BY <2>2 DEF MirrorsAgree, ReceiptsAgree, Calm
  <2>11. SaleIsAccounted'
    BY <1>3, <2>3, <2>6 DEF SaleIsAccounted, Working
  <2> QED BY <2>5, <2>7, <2>8, <2>9, <2>10, <2>11 DEF SalesIInv
<1> QED BY <1>4, <1>5 DEF Book

(* The compensation deletes by factor and buyer, and the row is its own. *)
LEMMA UndoKeeps ==
    ASSUME SalesIInv, NEW b \in Buyers, Undo(b)
    PROVE  SalesIInv'
<1>1. /\ buyer \in [Buyers -> Calls] /\ buyer[b] \in Calls /\ buyer[b].pc = "undo"
      /\ sold \in 0 .. MaxSales /\ sold \in Nat /\ bought \in 0 .. sold
      /\ buyer[b].sale \in refused /\ buyer[b].sale # 0
  BY MaxSalesAssumption DEF SalesIInv, SalesTypes, Undo, At, BuyerIsSound
<1>2. /\ buyer[b].sale = bought /\ bought \in Sales /\ bought \in 1 .. sold
      /\ \A c \in Buyers \ {b} :
           buyer[c].sale # bought /\ buyer[c].pc \notin {"mirror", "yield", "book", "undo"}
  BY <1>1, HolderIsAlone
<1>3. PICK q : q = [buyer[b] EXCEPT !.pc = "forget"]
  OBVIOUS
<1>4. /\ bought' \in {0, bought} /\ buyer' = [buyer EXCEPT ![b] = q]
      /\ UNCHANGED <<listed, mirror, guard, calls, seller, entries, pending, refused, unbooked, sold, receipts, failed>>
  BY <1>1, <1>3 DEF Undo, Step, Deleted, books, history
<1>5. q \in Calls /\ q.pc = "forget" /\ q.sale = bought
  BY <1>1, <1>2, <1>3 DEF Calls, Counters
<1>6. bought' \in 0 .. sold /\ buyer' \in [Buyers -> Calls]
  BY <1>1, <1>4, <1>5
<1>7. SalesTypes'
  BY <1>4, <1>6 DEF SalesIInv, SalesTypes, Calls
<1>8. \A c \in Buyers : buyer'[c] = IF c = b THEN q ELSE buyer[c]
  BY <1>1, <1>4
<1>9. ~Calm /\ ~Calm'
  BY <1>1, <1>4 DEF Calm
<1>10. \A c \in Buyers : BuyerIsSound(buyer[c])'
  <2> SUFFICES ASSUME NEW c \in Buyers PROVE BuyerIsSound(buyer[c])'
    OBVIOUS
  <2>1. CASE c = b
    BY <1>1, <1>2, <1>4, <1>5, <1>8, <2>1 DEF BuyerIsSound
  <2>2. CASE c # b
    BY <1>2, <1>4, <1>8, <1>9, <2>2 DEF SalesIInv, BuyerIsSound
  <2> QED BY <2>1, <2>2
<1>11. SalesAreOwn'
  BY <1>2, <1>5, <1>8 DEF SalesIInv, SalesAreOwn
<1>12. EntriesAreOfSales' /\ GhostsAreReplayed'
  BY <1>1, <1>2, <1>4 DEF SalesIInv, EntriesAreOfSales, GhostsAreReplayed
<1>13. MirrorsAgree' /\ ReceiptsAgree'
  BY <1>9 DEF MirrorsAgree, ReceiptsAgree, Calm
<1>14. SaleIsAccounted'
  BY <1>4, <1>5, <1>8 DEF SaleIsAccounted, Working
<1> QED BY <1>7, <1>10, <1>11, <1>12, <1>13, <1>14 DEF SalesIInv

(* What is queued was refused, and the call that ends has no other duty. *)
LEMMA ForgetKeeps ==
    ASSUME SalesIInv, NEW b \in Buyers, Forget(b)
    PROVE  SalesIInv'
<1>1. /\ buyer \in [Buyers -> Calls] /\ buyer[b] \in Calls /\ buyer[b].pc = "forget"
      /\ sold \in Nat /\ bought \in 0 .. sold /\ mirror \in [Services -> 0 .. sold]
      /\ buyer[b].sale \in refused /\ ServiceOf[b] \in Services
      /\ guard \in [Services -> Locks] /\ pending \in [Services -> SUBSET refused]
  BY MaxSalesAssumption, ServiceOfAssumption DEF SalesIInv, SalesTypes, Forget, At, BuyerIsSound
<1>2. /\ buyer' = [buyer EXCEPT ![b] = AtCounter] /\ guard' = GuardWithout(b) /\ failed' = TRUE
      /\ mirror' = [mirror EXCEPT ![ServiceOf[b]] = IF @ = buyer[b].sale THEN 0 ELSE @]
      /\ pending' = [pending EXCEPT ![ServiceOf[b]] = pending[ServiceOf[b]] \cup {buyer[b].sale}]
      /\ UNCHANGED <<listed, bought, calls, seller, entries, refused, unbooked, sold, receipts>>
  BY DEF Forget, Raise, Queued, db
<1>3. AtCounter \in Calls
  BY <1>1 DEF AtCounter, Calls, Counters, Locks
<1>4. guard' \in [Services -> Locks]
  BY <1>1, <1>2 DEF GuardWithout, Locks
<1>5. mirror' \in [Services -> 0 .. sold]
  BY <1>1, <1>2
<1>6. buyer' \in [Buyers -> Calls] /\ pending' \in [Services -> SUBSET refused]
  BY <1>1, <1>2, <1>3
<1>7. SalesTypes'
  BY <1>2, <1>4, <1>5, <1>6 DEF SalesIInv, SalesTypes, Calls
<1>8. \A c \in Buyers : buyer'[c] = IF c = b THEN AtCounter ELSE buyer[c]
  BY <1>1, <1>2
<1>9. ~Calm'
  BY <1>2 DEF Calm
<1>10. \A c \in Buyers : BuyerIsSound(buyer[c])'
  <2> SUFFICES ASSUME NEW c \in Buyers PROVE BuyerIsSound(buyer[c])'
    OBVIOUS
  <2>1. CASE c = b
    BY <1>8, <2>1, CounterIsFree DEF BuyerIsSound
  <2>2. CASE c # b
    BY <1>2, <1>8, <1>9, <2>2 DEF SalesIInv, BuyerIsSound
  <2> QED BY <2>1, <2>2
<1>11. SalesAreOwn'
  BY <1>8, CounterIsFree DEF SalesIInv, SalesAreOwn
<1>12. EntriesAreOfSales' /\ GhostsAreReplayed'
  BY <1>2 DEF SalesIInv, EntriesAreOfSales, GhostsAreReplayed
<1>13. MirrorsAgree' /\ ReceiptsAgree'
  BY <1>9, <1>2 DEF MirrorsAgree, ReceiptsAgree, Calm
<1>14. SaleIsAccounted'
  <2>1. \A c \in Buyers : c # b /\ buyer[c].sale = bought => Working(bought)'
    BY <1>2, <1>8 DEF Working
  <2>2. buyer[b].sale = bought => bought \in pending'[ServiceOf[b]]
    BY <1>1, <1>2
  <2>3. \A p \in Services : pending[p] \subseteq pending'[p]
    BY <1>1, <1>2
  <2> QED BY <1>1, <1>2, <2>1, <2>2, <2>3 DEF SalesIInv, SaleIsAccounted, Working
<1> QED BY <1>7, <1>10, <1>11, <1>12, <1>13, <1>14 DEF SalesIInv

(* A replay books a sale that the ledger had refused. *)
LEMMA ReplayKeeps ==
    ASSUME SalesIInv, NEW p \in Services, NEW s \in Sales, ReplayEntry(p, s)
    PROVE  SalesIInv'
<1>1. /\ entries \in [Sales -> Nat] /\ pending \in [Services -> SUBSET refused]
      /\ s \in pending[p] /\ s \in refused /\ sold \in Nat /\ s \in 1 .. sold
  BY MaxSalesAssumption DEF SalesIInv, SalesTypes, ReplayEntry
<1>2. /\ entries' = [entries EXCEPT ![s] = @ + 1] /\ pending' = [pending EXCEPT ![p] = @ \ {s}]
      /\ UNCHANGED <<listed, bought, mirror, guard, buyer, calls, seller, refused, unbooked, sold, receipts, failed>>
  BY DEF ReplayEntry, db, history
<1>3. entries' \in [Sales -> Nat] /\ pending' \in [Services -> SUBSET refused]
  BY <1>1, <1>2
<1>4. SalesTypes'
  BY <1>2, <1>3 DEF SalesIInv, SalesTypes, Calls
<1>5. \A t \in Sales : entries'[t] = IF t = s THEN entries[t] + 1 ELSE entries[t]
  BY <1>1, <1>2
<1>6. ~Calm /\ ~Calm'
  BY <1>1, <1>2 DEF Calm
<1>7. \A c \in Buyers : BuyerIsSound(buyer[c])'
  <2> SUFFICES ASSUME NEW c \in Buyers PROVE BuyerIsSound(buyer[c])'
    OBVIOUS
  <2>1. BuyerIsSound(buyer[c]) /\ buyer[c].sale \in 0 .. sold /\ sold \in 0 .. MaxSales
    BY DEF SalesIInv, SalesTypes, Calls
  <2>2. buyer[c].sale # 0 => buyer[c].sale \in Sales
    BY <2>1, MaxSalesAssumption DEF Sales
  <2> QED BY <1>1, <1>2, <1>5, <1>6, <2>1, <2>2 DEF BuyerIsSound
<1>8. SalesAreOwn' /\ EntriesAreOfSales' /\ GhostsAreReplayed'
  BY <1>1, <1>2, <1>5 DEF SalesIInv, SalesAreOwn, EntriesAreOfSales, GhostsAreReplayed
<1>9. MirrorsAgree' /\ ReceiptsAgree'
  BY <1>6 DEF MirrorsAgree, ReceiptsAgree, Calm
<1>10. SaleIsAccounted'
  <2>1. bought # 0 => bought \in Sales
    BY MaxSalesAssumption DEF SalesIInv, SalesTypes, Sales
  <2>2. \A t \in Services : pending'[t] = IF t = p THEN pending[p] \ {s} ELSE pending[t]
    BY <1>1, <1>2
  <2>3. bought = s => entries'[bought] > 0
    <3>1. entries'[s] = entries[s] + 1 /\ entries[s] \in Nat
      BY <1>1, <1>5
    <3>2. entries[s] + 1 > 0
      BY <3>1
    <3> QED BY <3>1, <3>2
  <2>4. entries[bought] > 0 /\ bought # 0 => entries'[bought] > 0
    <3>1. \A t \in Sales : entries[t] > 0 => entries'[t] > 0
      BY <1>1, <1>5
    <3> QED BY <2>1, <3>1
  <2> QED BY <1>1, <1>2, <2>1, <2>2, <2>3, <2>4 DEF SalesIInv, SaleIsAccounted, Working
<1> QED BY <1>4, <1>7, <1>8, <1>9, <1>10 DEF SalesIInv

(* A process that dies leaves what it was at to nobody, which is recorded. *)
LEMMA DeathKeeps ==
    ASSUME SalesIInv, NEW p \in Services, Dies(p)
    PROVE  SalesIInv'
<1>1. /\ buyer \in [Buyers -> Calls] /\ sold \in Nat /\ mirror \in [Services -> 0 .. sold]
      /\ guard \in [Services -> Locks] /\ pending \in [Services -> SUBSET refused]
  BY MaxSalesAssumption DEF SalesIInv, SalesTypes
<1>2. /\ buyer' = [b \in Buyers |-> IF ServiceOf[b] = p THEN AtCounter ELSE buyer[b]]
      /\ mirror' = [mirror EXCEPT ![p] = 0] /\ guard' = [guard EXCEPT ![p] = NoLock]
      /\ pending' = [pending EXCEPT ![p] = {}]
      /\ unbooked' = unbooked \cup pending[p]
                       \cup {buyer[b].sale : b \in {c \in Buyers : ServiceOf[c] = p}}
      /\ failed' = TRUE /\ UNCHANGED <<listed, bought, calls, entries, refused, sold, receipts>>
  BY DEF Dies, db
<1>3. AtCounter \in Calls /\ NoLock \in Locks /\ 0 \in 0 .. sold
  BY <1>1 DEF AtCounter, Calls, Counters, Locks
<1>4. /\ buyer' \in [Buyers -> Calls] /\ mirror' \in [Services -> 0 .. sold]
      /\ guard' \in [Services -> Locks] /\ pending' \in [Services -> SUBSET refused]
  BY <1>1, <1>2, <1>3
<1>5. SalesTypes'
  BY <1>2, <1>4 DEF SalesIInv, SalesTypes, Calls
<1>6. \A c \in Buyers : buyer'[c] = IF ServiceOf[c] = p THEN AtCounter ELSE buyer[c]
  BY <1>2
<1>7. ~Calm'
  BY <1>2 DEF Calm
<1>8. \A c \in Buyers : BuyerIsSound(buyer[c])'
  <2> SUFFICES ASSUME NEW c \in Buyers PROVE BuyerIsSound(buyer[c])'
    OBVIOUS
  <2>1. CASE ServiceOf[c] = p
    BY <1>6, <2>1, CounterIsFree DEF BuyerIsSound
  <2>2. CASE ServiceOf[c] # p
    BY <1>2, <1>6, <1>7, <2>2 DEF SalesIInv, BuyerIsSound
  <2> QED BY <2>1, <2>2
<1>9. SalesAreOwn'
  BY <1>6, CounterIsFree DEF SalesIInv, SalesAreOwn
<1>10. EntriesAreOfSales' /\ GhostsAreReplayed'
  BY <1>2 DEF SalesIInv, EntriesAreOfSales, GhostsAreReplayed
<1>11. MirrorsAgree' /\ ReceiptsAgree'
  BY <1>7, <1>2 DEF MirrorsAgree, ReceiptsAgree, Calm
<1>12. SaleIsAccounted'
  <2>1. \A q \in Services : q # p => pending'[q] = pending[q]
    BY <1>1, <1>2
  <2>2. \A c \in Buyers : ServiceOf[c] = p => buyer[c].sale \in unbooked'
    BY <1>2
  <2>3. pending[p] \subseteq unbooked' /\ unbooked \subseteq unbooked'
    BY <1>2
  <2> QED BY <1>2, <1>6, <2>1, <2>2, <2>3 DEF SalesIInv, SaleIsAccounted, Working
<1> QED BY <1>5, <1>8, <1>9, <1>10, <1>11, <1>12 DEF SalesIInv

(* Every step keeps the invariant. *)
LEMMA SalesStep == SalesIInv /\ [SalesNext]_salesVars => SalesIInv'
<1> SUFFICES ASSUME SalesIInv, [SalesNext]_salesVars PROVE SalesIInv'
  OBVIOUS
<1>1. ASSUME NEW b \in Buyers,
             Enter(b) \/ Look(b) \/ InsertFails(b) \/ ReadBack(b) \/ Adopt(b) \/ Mirror(b)
      PROVE  SalesIInv'
  BY <1>1, QuietCalls
<1>2. ASSUME NEW b \in Buyers, InsertSale(b) \/ Yield(b) \/ Book(b) \/ Undo(b) \/ Forget(b)
      PROVE  SalesIInv'
  BY <1>2, InsertKeeps, YieldKeeps, BookKeeps, UndoKeeps, ForgetKeeps
<1>3. ASSUME NEW p \in Services, NEW s \in Sales, ReplayEntry(p, s) PROVE SalesIInv'
  BY <1>3, ReplayKeeps
<1>4. ASSUME NEW p \in Services, Dies(p) PROVE SalesIInv'
  BY <1>4, DeathKeeps
<1>5. ASSUME UNCHANGED <<bought, mirror, guard, buyer, calls, entries, pending, sold, receipts,
                         refused, unbooked, failed>>
      PROVE  SalesIInv'
  BY <1>5 DEF SalesIInv, SalesTypes, Calls, Calm, BuyerIsSound, SalesAreOwn, EntriesAreOfSales,
       MirrorsAgree, SaleIsAccounted, Working, GhostsAreReplayed, ReceiptsAgree
<1>6. ASSUME NEW p \in Services, Publish(p) \/ PublishBooked(p) PROVE SalesIInv'
  BY <1>5, <1>6 DEF Publish, PublishBooked, books, history
<1>7. CASE UNCHANGED salesVars
  BY <1>5, <1>7 DEF salesVars
<1> QED BY <1>1, <1>2, <1>3, <1>4, <1>6, <1>7 DEF SalesNext

(* The invariant is stronger than what the run checks. *)
LEMMA SalesImplied == SalesIInv => SalesInv
<1>1. SalesIInv => SalesTypeOK
  BY DEF SalesIInv, SalesTypes, SalesTypeOK, Calls
<1> QED BY <1>1 DEF SalesIInv, SalesInv

(* Every sale is booked or will be, unless a crash or a lost answer left it     *)
(* alone; entries without a sale come from the queue; receipts agree.           *)
THEOREM SalesAreBooked == SalesSpec => []SalesInv
BY SalesInitially, SalesStep, SalesImplied, PTL DEF SalesSpec

(* A row that goes, or makes way for another, is that of the call which takes *)
(* it away.                                                                   *)
THEOREM CompensationHitsOwn == SalesSpec => CompensationIsOwn
<1>1. SalesIInv /\ [SalesNext]_salesVars
        => [bought # 0 /\ bought' # bought => \E b \in Buyers : buyer[b].sale = bought]_salesVars
  <2> SUFFICES ASSUME SalesIInv, SalesNext, bought # 0, bought' # bought
               PROVE  \E b \in Buyers : buyer[b].sale = bought
    BY DEF salesVars
  <2>1. ASSUME NEW b \in Buyers,
               Enter(b) \/ Look(b) \/ InsertFails(b) \/ InsertSale(b) \/ ReadBack(b)
                 \/ Adopt(b) \/ Mirror(b) \/ Book(b) \/ Forget(b)
        PROVE  FALSE
    BY <2>1 DEF Enter, Look, InsertFails, InsertSale, ReadBack, Adopt, Mirror, Book, Forget, db
  <2>2. ASSUME NEW b \in Buyers, Yield(b) \/ Undo(b) PROVE buyer[b].sale = bought
    BY <2>2, HolderIsAlone DEF Yield, Undo, At
  <2>3. ASSUME NEW p \in Services, Publish(p) \/ PublishBooked(p) \/ Dies(p) PROVE FALSE
    BY <2>3 DEF Publish, PublishBooked, Dies, db
  <2>4. ASSUME NEW p \in Services, NEW s \in Sales, ReplayEntry(p, s) PROVE FALSE
    BY <2>4 DEF ReplayEntry, db
  <2> QED BY <2>1, <2>2, <2>3, <2>4 DEF SalesNext
<1> QED BY SalesInitially, SalesStep, <1>1, PTL DEF SalesSpec, CompensationIsOwn

-----------------------------------------------------------------------------
(***************************************************************************)
(* PlaybookDispatch: without Redis the local lock guards the playbook      *)
(* until the memo is filled, and the memo from then on; with Redis every   *)
(* execution was paid for by an expiry; and whoever keeps the others away  *)
(* executes, unless its process dies.                                      *)
(***************************************************************************)

Stages == {"new", "acquire", "local", "recheck", "run", "memo", "release", "duplicate", "executed", "lost"}

(* What a call of dispatch may be. *)
Dispatches == [pc : Stages, backend : Backends, acquired : BOOLEAN, told : SUBSET Executions]

Records == [site : Sites, life : Nat]

(* Whoever was let through by a lock and has not left a memo yet. *)
Holds(q) == q.acquired = TRUE /\ q.pc \in {"recheck", "run", "memo"}

(* Executions are of a life that was. *)
ExecutionsAreReal ==
    /\ executed \in Seq(Records)
    /\ \A e \in Executions : executed[e].life <= life[executed[e].site]

MemosAreReal == \A h \in Sites : \A e \in memo[h] : executed[e].site = h

CallsAreSound ==
    \A c \in Schedulers :
        /\ dispatch[c].pc \in {"run", "memo"} => dispatch[c].acquired = TRUE
        /\ dispatch[c].pc = "memo" => dispatch[c].told # {}
        /\ dispatch[c].pc \in {"memo", "release", "executed"} => executed # <<>>
        /\ redis = "sound" => dispatch[c].pc # "local"

(* Without Redis: as long as the memo of a process is empty its lock lets one *)
(* call through, and that one executes.                                       *)
MemoGuards ==
    \A c \in Schedulers :
        /\ dispatch[c].pc \in {"run", "memo"} => memo[SiteOf[c]] = {}
        /\ dispatch[c].pc = "release" => memo[SiteOf[c]] # {}

LockGuards ==
    \A c \in Schedulers : Holds(dispatch[c]) /\ memo[SiteOf[c]] = {} =>
        /\ localLock[SiteOf[c]] = TRUE
        /\ \A d \in Schedulers : Holds(dispatch[d]) /\ SiteOf[d] = SiteOf[c] => d = c

ExecutionsAreOne ==
    \A e, f \in Executions :
        executed[e].site = executed[f].site /\ executed[e].life = executed[f].life => e = f

ThisLifeIsKnown ==
    \A e \in Executions : executed[e].life = life[executed[e].site] =>
        \/ memo[executed[e].site] # {}
        \/ \E c \in Schedulers : SiteOf[c] = executed[e].site /\ dispatch[c].pc = "memo"

OnceWithoutRedis == MemoGuards /\ LockGuards /\ ExecutionsAreOne /\ ThisLifeIsKnown

(* With Redis: the calls that the lock let through and that did not execute yet. *)
LetThrough == {c \in Schedulers : dispatch[c].acquired = TRUE /\ dispatch[c].pc \in {"recheck", "run"}}

ExpiriesPay ==
    /\ IsFiniteSet(LetThrough)
    /\ Len(executed) + Cardinality(LetThrough) + (IF redisLock THEN 0 ELSE 1) <= 1 + lapses

(* Whoever keeps others away. *)
SomebodyHolds ==
    \E c \in Schedulers :
        \/ dispatch[c].pc = "lost"
        \/ dispatch[c].acquired = TRUE /\ dispatch[c].pc \in {"recheck", "run"}

SomebodyTries == SomebodyHolds \/ \E c \in Schedulers : dispatch[c].pc = "local"

NobodyWaitsForNobody ==
    executed = <<>> =>
        /\ \A h \in Sites : localLock[h] => SomebodyHolds
        /\ redisLock => SomebodyTries
        /\ \A c \in Schedulers : dispatch[c].pc \in {"recheck", "duplicate"} => SomebodyTries

(* The inductive invariant of the dispatch. *)
DispatchIInv ==
    /\ DispatchType
    /\ ExecutionsAreReal
    /\ MemosAreReal
    /\ ToldOfReal
    /\ CallsAreSound
    /\ redis = "none" => OnceWithoutRedis
    /\ redis = "sound" => ExpiriesPay
    /\ NobodyWaitsForNobody

(* The invariant holds at the start. *)
LEMMA DispatchInitially == DispatchInit => DispatchIInv
<1> SUFFICES ASSUME DispatchInit PROVE DispatchIInv
  OBVIOUS
<1>1. executed = <<>> /\ Executions = {} /\ <<>> \in Seq(Records) /\ Len(executed) = 0
  BY EmptySeq DEF DispatchInit, Executions
<1>2. \A c \in Schedulers : dispatch[c] = NotCalled
  BY DEF DispatchInit
<1>3. NotCalled \in Dispatches
  BY DEF NotCalled, Dispatches, Stages, Backends
<1>4. dispatch \in [Schedulers -> Dispatches]
  BY <1>3 DEF DispatchInit
<1>5. 1 \in 1 .. MaxRestarts + 1 /\ 0 \in 0 .. MaxReleases
  BY BoundsAssumption
<1>6. DispatchType
  BY <1>4, <1>5 DEF DispatchInit, DispatchType, Dispatches, Stages
<1>7. ExecutionsAreReal /\ MemosAreReal /\ ToldOfReal /\ CallsAreSound
  BY <1>1, <1>2 DEF DispatchInit, ExecutionsAreReal, MemosAreReal, ToldOfReal, CallsAreSound, NotCalled
<1>8. OnceWithoutRedis
  BY <1>1, <1>2 DEF OnceWithoutRedis, MemoGuards, LockGuards, Holds, ExecutionsAreOne, ThisLifeIsKnown, NotCalled
<1>9. LetThrough = {}
  BY <1>2 DEF LetThrough, NotCalled
<1>10. ExpiriesPay
  BY <1>1, <1>9, FS_EmptySet DEF DispatchInit, ExpiriesPay
<1>11. NobodyWaitsForNobody
  BY <1>2 DEF DispatchInit, NobodyWaitsForNobody, NotCalled
<1> QED BY <1>6, <1>7, <1>8, <1>10, <1>11 DEF DispatchIInv

(* The call of c becomes q, the others stay as they are. *)
OnlyCall(c, q) == dispatch' = [dispatch EXCEPT ![c] = q]

(* What that means for each call. *)
LEMMA OnlyCallMeans ==
    ASSUME DispatchType, NEW c \in Schedulers, NEW q, OnlyCall(c, q)
    PROVE  \A d \in Schedulers : dispatch'[d] = IF d = c THEN q ELSE dispatch[d]
BY DEF DispatchType, OnlyCall

(* What each step makes of a call. *)
LEMMA DispatchMoves ==
    ASSUME DispatchType, NEW c \in Schedulers
    PROVE  /\ dispatch[c] \in Dispatches
           /\ Dispatch(c) => \E q \in Dispatches :
                /\ OnlyCall(c, q) /\ q.acquired = dispatch[c].acquired
                /\ \/ memo[SiteOf[c]] = {} /\ q.pc = "acquire" /\ q.told = dispatch[c].told
                   \/ memo[SiteOf[c]] # {} /\ q.pc = "duplicate" /\ q.told = memo[SiteOf[c]]
           /\ SetInRedis(c) => \E q \in Dispatches :
                OnlyCall(c, q) /\ q.pc = "recheck" /\ q.acquired = ~redisLock /\ q.told = dispatch[c].told
           /\ RedisFails(c) => \E q \in Dispatches :
                OnlyCall(c, q) /\ q.pc = "local" /\ q.acquired = dispatch[c].acquired /\ q.told = dispatch[c].told
           /\ TakeLocal(c) => \E q \in Dispatches :
                OnlyCall(c, q) /\ q.pc = "recheck" /\ q.acquired = ~localLock[SiteOf[c]] /\ q.told = dispatch[c].told
           /\ Recheck(c) => \E q \in Dispatches :
                /\ OnlyCall(c, q) /\ q.acquired = dispatch[c].acquired
                /\ \/ memo[SiteOf[c]] # {} /\ q.pc = "duplicate" /\ q.told = memo[SiteOf[c]] /\ Releases(c)
                   \/ /\ memo[SiteOf[c]] = {} /\ q.told = dispatch[c].told /\ localLock' = localLock
                      /\ q.pc = IF dispatch[c].acquired THEN "run" ELSE "duplicate"
           /\ Memorize(c) => \E q \in Dispatches :
                OnlyCall(c, q) /\ q.pc = "release" /\ q.acquired = dispatch[c].acquired /\ q.told = dispatch[c].told
           /\ Finally(c) => \E q \in Dispatches :
                OnlyCall(c, q) /\ q.pc = "executed" /\ q.acquired = dispatch[c].acquired /\ q.told = dispatch[c].told
<1>1. /\ dispatch[c] \in Dispatches /\ dispatch \in [Schedulers -> Dispatches] /\ SiteOf[c] \in Sites
      /\ memo[SiteOf[c]] \in SUBSET Executions /\ localLock[SiteOf[c]] \in BOOLEAN /\ redisLock \in BOOLEAN
  BY SiteOfAssumption DEF DispatchType, Dispatches, Stages
<1>2. \A pc \in Stages : dispatch' = [dispatch EXCEPT ![c].pc = pc] => \E q \in Dispatches :
        OnlyCall(c, q) /\ q.pc = pc /\ q.acquired = dispatch[c].acquired /\ q.told = dispatch[c].told
  <2> SUFFICES ASSUME NEW pc \in Stages, dispatch' = [dispatch EXCEPT ![c].pc = pc]
               PROVE  \E q \in Dispatches :
                 OnlyCall(c, q) /\ q.pc = pc /\ q.acquired = dispatch[c].acquired /\ q.told = dispatch[c].told
    OBVIOUS
  <2>1. PICK q : q = [dispatch[c] EXCEPT !.pc = pc]
    OBVIOUS
  <2>2. q \in Dispatches /\ q.pc = pc /\ q.acquired = dispatch[c].acquired /\ q.told = dispatch[c].told
    BY <1>1, <2>1 DEF Dispatches
  <2>3. OnlyCall(c, q)
    BY <1>1, <2>1 DEF OnlyCall
  <2> QED BY <2>2, <2>3
<1>3. /\ "acquire" \in Stages /\ "duplicate" \in Stages /\ "local" \in Stages /\ "run" \in Stages
      /\ "release" \in Stages /\ "executed" \in Stages /\ "redis" \in Backends /\ "local" \in Backends
  BY DEF Stages, Backends
<1>4. \A b \in Backends, a \in BOOLEAN : Got(c, b, a) => \E q \in Dispatches :
        OnlyCall(c, q) /\ q.pc = "recheck" /\ q.acquired = a /\ q.told = dispatch[c].told
  <2> SUFFICES ASSUME NEW b \in Backends, NEW a \in BOOLEAN, Got(c, b, a)
               PROVE  \E q \in Dispatches :
                 OnlyCall(c, q) /\ q.pc = "recheck" /\ q.acquired = a /\ q.told = dispatch[c].told
    OBVIOUS
  <2>1. PICK q : q = [dispatch[c] EXCEPT !.pc = "recheck", !.backend = b, !.acquired = a]
    OBVIOUS
  <2>2. q \in Dispatches /\ q.pc = "recheck" /\ q.acquired = a /\ q.told = dispatch[c].told
    BY <1>1, <2>1 DEF Dispatches, Stages
  <2>3. OnlyCall(c, q)
    BY <1>1, <2>1 DEF Got, OnlyCall
  <2> QED BY <2>2, <2>3
<1>5. ASSUME Dispatch(c)
      PROVE  \E q \in Dispatches :
                /\ OnlyCall(c, q) /\ q.acquired = dispatch[c].acquired
                /\ \/ memo[SiteOf[c]] = {} /\ q.pc = "acquire" /\ q.told = dispatch[c].told
                   \/ memo[SiteOf[c]] # {} /\ q.pc = "duplicate" /\ q.told = memo[SiteOf[c]]
  <2>1. CASE memo[SiteOf[c]] = {}
    <3>1. dispatch' = [dispatch EXCEPT ![c].pc = "acquire"]
      BY <1>1, <1>5, <2>1 DEF Dispatch
    <3> QED BY <1>2, <1>3, <2>1, <3>1
  <2>2. CASE memo[SiteOf[c]] # {}
    <3>2. PICK t \in SUBSET Executions : t = memo[SiteOf[c]]
      BY <1>1
    <3>1. dispatch' = [dispatch EXCEPT ![c] = [dispatch[c] EXCEPT !.pc = "duplicate", !.told = t]]
      BY <1>1, <1>5, <2>2, <3>2 DEF Dispatch
    <3>3. PICK q : q = [dispatch[c] EXCEPT !.pc = "duplicate", !.told = t]
      OBVIOUS
    <3>4. q \in Dispatches /\ q.pc = "duplicate" /\ q.acquired = dispatch[c].acquired /\ q.told = t
      BY <1>1, <1>3, <3>3 DEF Dispatches
    <3>5. OnlyCall(c, q)
      BY <1>1, <3>1, <3>3 DEF OnlyCall
    <3> QED BY <2>2, <3>2, <3>4, <3>5
  <2> QED BY <2>1, <2>2
<1>6. SetInRedis(c) => \E q \in Dispatches :
                OnlyCall(c, q) /\ q.pc = "recheck" /\ q.acquired = ~redisLock /\ q.told = dispatch[c].told
  BY <1>1, <1>3, <1>4 DEF SetInRedis
<1>7. RedisFails(c) => \E q \in Dispatches :
                OnlyCall(c, q) /\ q.pc = "local" /\ q.acquired = dispatch[c].acquired /\ q.told = dispatch[c].told
  BY <1>2, <1>3 DEF RedisFails
<1>8. TakeLocal(c) => \E q \in Dispatches :
                OnlyCall(c, q) /\ q.pc = "recheck" /\ q.acquired = ~localLock[SiteOf[c]] /\ q.told = dispatch[c].told
  <2>1. (~localLock[SiteOf[c]]) \in BOOLEAN
    OBVIOUS
  <2> QED BY <2>1, <1>3, <1>4 DEF TakeLocal
<1>9. ASSUME Recheck(c)
       PROVE  \E q \in Dispatches :
                /\ OnlyCall(c, q) /\ q.acquired = dispatch[c].acquired
                /\ \/ memo[SiteOf[c]] # {} /\ q.pc = "duplicate" /\ q.told = memo[SiteOf[c]] /\ Releases(c)
                   \/ /\ memo[SiteOf[c]] = {} /\ q.told = dispatch[c].told /\ localLock' = localLock
                      /\ q.pc = IF dispatch[c].acquired THEN "run" ELSE "duplicate"
  <2>1. CASE memo[SiteOf[c]] # {}
    <3>2. PICK t \in SUBSET Executions : t = memo[SiteOf[c]]
      BY <1>1
    <3>1. Releases(c) /\ dispatch' = [dispatch EXCEPT ![c].pc = "duplicate", ![c].told = t]
      BY <1>9, <2>1, <3>2 DEF Recheck
    <3>3. PICK q : q = [dispatch[c] EXCEPT !.pc = "duplicate", !.told = t]
      OBVIOUS
    <3>4. q \in Dispatches /\ q.pc = "duplicate" /\ q.acquired = dispatch[c].acquired /\ q.told = t
      BY <1>1, <1>3, <3>3 DEF Dispatches
    <3>5. OnlyCall(c, q)
      BY <1>1, <3>1, <3>3 DEF OnlyCall
    <3> QED BY <2>1, <3>1, <3>2, <3>4, <3>5
  <2>2. CASE memo[SiteOf[c]] = {}
    <3>1. /\ dispatch' = [dispatch EXCEPT ![c].pc = IF dispatch[c].acquired THEN "run" ELSE "duplicate"]
          /\ localLock' = localLock
      BY <1>9, <2>2 DEF Recheck
    <3> QED BY <1>2, <1>3, <2>2, <3>1
  <2> QED BY <2>1, <2>2
<1>10. Memorize(c) => \E q \in Dispatches :
                OnlyCall(c, q) /\ q.pc = "release" /\ q.acquired = dispatch[c].acquired /\ q.told = dispatch[c].told
  BY <1>2, <1>3 DEF Memorize
<1>11. Finally(c) => \E q \in Dispatches :
                OnlyCall(c, q) /\ q.pc = "executed" /\ q.acquired = dispatch[c].acquired /\ q.told = dispatch[c].told
  BY <1>2, <1>3 DEF Finally
<1> QED BY <1>1, <1>5, <1>6, <1>7, <1>8, <1>9, <1>10, <1>11

(* What holds however the locks are kept. *)
Basics == DispatchType /\ ExecutionsAreReal /\ MemosAreReal /\ ToldOfReal /\ CallsAreSound

(* A step of one call that executes nothing. *)
LEMMA BasicsOfOneCall ==
    ASSUME Basics, NEW c \in Schedulers, NEW q \in Dispatches, OnlyCall(c, q),
           UNCHANGED <<executed, life, redis, lapses>>,
           redisLock' \in BOOLEAN, localLock' \in [Sites -> BOOLEAN],
           memo' \in [Sites -> SUBSET Executions], MemosAreReal',
           \A e \in q.told : executed[e].site = SiteOf[c],
           q.pc \in {"run", "memo"} => q.acquired = TRUE,
           q.pc = "memo" => q.told # {},
           q.pc \in {"memo", "release", "executed"} => executed # <<>>,
           redis = "sound" => q.pc # "local"
    PROVE  Basics'
<1>1. \A d \in Schedulers : dispatch'[d] = IF d = c THEN q ELSE dispatch[d]
  BY OnlyCallMeans DEF Basics
<1>2. Executions' = Executions /\ Dispatches' = Dispatches
  BY DEF Executions, Dispatches
<1>3. dispatch' \in [Schedulers -> Dispatches]
  BY DEF Basics, DispatchType, Dispatches, Stages, OnlyCall
<1>4. DispatchType'
  BY <1>2, <1>3 DEF Basics, DispatchType, Dispatches, Stages
<1>5. ExecutionsAreReal'
  BY <1>2 DEF Basics, ExecutionsAreReal
<1>6. q.told \subseteq Executions
  BY DEF Dispatches
<1>7. ToldOfReal'
  BY <1>1, <1>2, <1>6 DEF Basics, ToldOfReal
<1>8. CallsAreSound'
  BY <1>1 DEF Basics, CallsAreSound
<1> QED BY <1>4, <1>5, <1>7, <1>8 DEF Basics

(* An execution more. *)
LEMMA EnqueueMeans ==
    ASSUME Basics, NEW c \in Schedulers, Enqueue(c)
    PROVE  /\ Len(executed) \in Nat /\ Len(executed') = Len(executed) + 1 /\ executed' \in Seq(Records)
           /\ Executions' = Executions \cup {Len(executed) + 1} /\ Len(executed) + 1 \notin Executions
           /\ \A e \in Executions : executed'[e] = executed[e]
           /\ executed'[Len(executed) + 1] = [site |-> SiteOf[c], life |-> life[SiteOf[c]]]
           /\ executed' # <<>>
           /\ \A d \in Schedulers : d # c => dispatch'[d] = dispatch[d]
           /\ dispatch[c].pc = "run" /\ dispatch'[c].pc = "memo" /\ dispatch'[c].acquired = dispatch[c].acquired
           /\ dispatch'[c].told = {Len(executed) + 1} /\ dispatch'[c].backend = dispatch[c].backend
           /\ DOMAIN dispatch' = Schedulers
           /\ dispatch'[c] \in [pc : Stages, backend : Backends, acquired : BOOLEAN, told : SUBSET {Len(executed) + 1}]
           /\ UNCHANGED <<redis, redisLock, localLock, memo, life, lapses>>
<1> DEFINE r == [site |-> SiteOf[c], life |-> life[SiteOf[c]]]
<1>1. r \in Records /\ executed \in Seq(Records) /\ Executions = 1 .. Len(executed) /\ Len(executed) \in Nat
  BY SiteOfAssumption, BoundsAssumption DEF Basics, DispatchType, ExecutionsAreReal, Records, Executions
<1>2. /\ executed' = Append(executed, r) /\ executed' \in Seq(Records)
      /\ Len(executed') = Len(executed) + 1 /\ DOMAIN executed' = 1 .. Len(executed) + 1
      /\ \A e \in 1 .. Len(executed) : executed'[e] = executed[e]
      /\ executed'[Len(executed) + 1] = r
  BY <1>1 DEF Enqueue
<1>3. dispatch \in [Schedulers -> Dispatches]
  BY DEF Basics, DispatchType, Dispatches, Stages
<1>4. PICK q : q = [dispatch[c] EXCEPT !.pc = "memo", !.told = {Len(executed) + 1}]
  OBVIOUS
<1>5. /\ q.pc = "memo" /\ q.acquired = dispatch[c].acquired /\ q.backend = dispatch[c].backend
      /\ q.told = {Len(executed) + 1}
      /\ q \in [pc : Stages, backend : Backends, acquired : BOOLEAN, told : SUBSET {Len(executed) + 1}]
  BY <1>3, <1>4 DEF Dispatches, Stages
<1>6. dispatch' = [dispatch EXCEPT ![c] = q] /\ dispatch[c].pc = "run"
  BY <1>3, <1>4 DEF Enqueue, CallAt
<1>7. Executions' = Executions \cup {Len(executed) + 1} /\ Len(executed) + 1 \notin Executions
  BY <1>1, <1>2 DEF Executions
<1>8. executed' # <<>>
  BY <1>1, <1>2
<1>9. UNCHANGED <<redis, redisLock, localLock, memo, life, lapses>>
  BY DEF Enqueue
<1>10. /\ DOMAIN dispatch' = Schedulers /\ dispatch'[c] = q
       /\ \A d \in Schedulers : d # c => dispatch'[d] = dispatch[d]
  BY <1>3, <1>6
<1> HIDE DEF r
<1> QED BY <1>1, <1>2, <1>5, <1>6, <1>7, <1>8, <1>9, <1>10 DEF r

(* A restart makes its calls lost, and all else of the process new. *)
LEMMA RestartMeans ==
    ASSUME Basics, NEW h \in Sites, Restart(h)
    PROVE  /\ \A c \in Schedulers : \/ dispatch'[c] = dispatch[c]
                                       /\ (SiteOf[c] = h => dispatch[c].pc \in {"new", "duplicate", "executed"})
                                    \/ /\ SiteOf[c] = h /\ dispatch'[c].pc = "lost"
                                       /\ dispatch[c].pc \notin {"new", "duplicate", "executed"}
                                       /\ dispatch'[c].told = dispatch[c].told
                                       /\ dispatch'[c] \in Dispatches
           /\ dispatch' \in [Schedulers -> Dispatches]
           /\ memo' = [memo EXCEPT ![h] = {}] /\ localLock' = [localLock EXCEPT ![h] = FALSE]
           /\ life' = [life EXCEPT ![h] = @ + 1] /\ life[h] <= MaxRestarts
           /\ UNCHANGED <<redis, redisLock, executed, lapses>>
<1>1. dispatch \in [Schedulers -> Dispatches]
  BY DEF Basics, DispatchType, Dispatches, Stages
<1>2. \A c \in Schedulers : /\ [dispatch[c] EXCEPT !.pc = "lost"] \in Dispatches
                            /\ [dispatch[c] EXCEPT !.pc = "lost"].pc = "lost"
                            /\ [dispatch[c] EXCEPT !.pc = "lost"].told = dispatch[c].told
  BY <1>1 DEF Dispatches, Stages
<1>3. dispatch' = [c \in Schedulers |->
                  IF SiteOf[c] = h /\ dispatch[c].pc \notin {"new", "duplicate", "executed"}
                  THEN [dispatch[c] EXCEPT !.pc = "lost"] ELSE dispatch[c]]
  BY DEF Restart
<1>4. \A c \in Schedulers : dispatch'[c] =
                  IF SiteOf[c] = h /\ dispatch[c].pc \notin {"new", "duplicate", "executed"}
                  THEN [dispatch[c] EXCEPT !.pc = "lost"] ELSE dispatch[c]
  BY <1>3
<1>5. dispatch' \in [Schedulers -> Dispatches]
  BY <1>1, <1>2, <1>3
<1>6. /\ memo' = [memo EXCEPT ![h] = {}] /\ localLock' = [localLock EXCEPT ![h] = FALSE]
      /\ life' = [life EXCEPT ![h] = @ + 1] /\ life[h] <= MaxRestarts
      /\ UNCHANGED <<redis, redisLock, executed, lapses>>
  BY DEF Restart
<1> QED BY <1>2, <1>4, <1>5, <1>6

(* Every step keeps the basics. *)
LEMMA BasicsStep == Basics /\ DispatchNext => Basics'
<1> SUFFICES ASSUME Basics, DispatchNext PROVE Basics'
  OBVIOUS
<1>1. /\ DispatchType /\ MemosAreReal /\ memo \in [Sites -> SUBSET Executions]
      /\ redisLock \in BOOLEAN /\ localLock \in [Sites -> BOOLEAN]
      /\ life \in [Sites -> 1 .. MaxRestarts + 1]
      /\ \A c \in Schedulers : SiteOf[c] \in Sites
  BY SiteOfAssumption DEF Basics, DispatchType
<1>2. \A c \in Schedulers :
        /\ \A e \in dispatch[c].told : executed[e].site = SiteOf[c]
        /\ \A e \in memo[SiteOf[c]] : executed[e].site = SiteOf[c]
        /\ dispatch[c].pc \in {"run", "memo"} => dispatch[c].acquired = TRUE
        /\ dispatch[c].pc = "memo" => dispatch[c].told # {}
        /\ dispatch[c].pc \in {"memo", "release", "executed"} => executed # <<>>
        /\ redis = "sound" => dispatch[c].pc # "local"
  BY <1>1 DEF Basics, ToldOfReal, MemosAreReal, CallsAreSound
<1>3. memo' = memo /\ executed' = executed => MemosAreReal'
  BY DEF Basics, MemosAreReal
<1>4. \A c \in Schedulers : Releases(c) => localLock' \in [Sites -> BOOLEAN]
  BY <1>1 DEF Releases
<1>5. ASSUME NEW c \in Schedulers, Dispatch(c) PROVE Basics'
  <2>1. UNCHANGED <<redis, redisLock, localLock, memo, executed, life, lapses>>
    BY <1>5 DEF Dispatch
  <2>2. PICK q \in Dispatches :
                /\ OnlyCall(c, q) /\ q.acquired = dispatch[c].acquired
                /\ \/ memo[SiteOf[c]] = {} /\ q.pc = "acquire" /\ q.told = dispatch[c].told
                   \/ memo[SiteOf[c]] # {} /\ q.pc = "duplicate" /\ q.told = memo[SiteOf[c]]
    BY <1>1, <1>5, DispatchMoves
  <2>3. \A e \in q.told : executed[e].site = SiteOf[c]
    BY <1>2, <2>2
  <2> QED BY <1>1, <1>3, <2>1, <2>2, <2>3, BasicsOfOneCall
<1>6. ASSUME NEW c \in Schedulers, SetInRedis(c) PROVE Basics'
  <2>1. UNCHANGED <<redis, localLock, memo, executed, life, lapses>> /\ redisLock' = TRUE
    BY <1>6 DEF SetInRedis
  <2>2. PICK q \in Dispatches : OnlyCall(c, q) /\ q.pc = "recheck" /\ q.told = dispatch[c].told
    BY <1>1, <1>6, DispatchMoves
  <2> QED BY <1>1, <1>2, <1>3, <2>1, <2>2, BasicsOfOneCall
<1>7. ASSUME NEW c \in Schedulers, RedisFails(c) PROVE Basics'
  <2>1. /\ UNCHANGED <<redis, localLock, memo, executed, life, lapses>> /\ redisLock' \in {redisLock, TRUE}
        /\ redis = "flaky"
    BY <1>7 DEF RedisFails
  <2>2. PICK q \in Dispatches : OnlyCall(c, q) /\ q.pc = "local" /\ q.told = dispatch[c].told
    BY <1>1, <1>7, DispatchMoves
  <2>3. redisLock' \in BOOLEAN
    BY <1>1, <2>1
  <2> QED BY <1>1, <1>2, <1>3, <2>1, <2>2, <2>3, BasicsOfOneCall
<1>8. ASSUME NEW c \in Schedulers, TakeLocal(c) PROVE Basics'
  <2>1. UNCHANGED <<redis, redisLock, memo, executed, life, lapses>> /\ localLock' \in [Sites -> BOOLEAN]
    BY <1>1, <1>8 DEF TakeLocal
  <2>2. PICK q \in Dispatches : OnlyCall(c, q) /\ q.pc = "recheck" /\ q.told = dispatch[c].told
    BY <1>1, <1>8, DispatchMoves
  <2> QED BY <1>1, <1>2, <1>3, <2>1, <2>2, BasicsOfOneCall
<1>9. ASSUME NEW c \in Schedulers, Recheck(c) PROVE Basics'
  <2>1. UNCHANGED <<redis, redisLock, memo, executed, life, lapses>>
    BY <1>9 DEF Recheck
  <2>2. PICK q \in Dispatches :
                /\ OnlyCall(c, q) /\ q.acquired = dispatch[c].acquired
                /\ \/ memo[SiteOf[c]] # {} /\ q.pc = "duplicate" /\ q.told = memo[SiteOf[c]] /\ Releases(c)
                   \/ /\ memo[SiteOf[c]] = {} /\ q.told = dispatch[c].told /\ localLock' = localLock
                      /\ q.pc = IF dispatch[c].acquired THEN "run" ELSE "duplicate"
    BY <1>1, <1>9, DispatchMoves
  <2>3. localLock' \in [Sites -> BOOLEAN]
    BY <1>1, <1>4, <2>2
  <2>4. (q.pc = "run" => q.acquired = TRUE) /\ q.pc \in {"run", "duplicate"}
    BY <2>2 DEF Dispatches
  <2>5. \A e \in q.told : executed[e].site = SiteOf[c]
    BY <1>2, <2>2
  <2> QED BY <1>1, <1>3, <2>1, <2>2, <2>3, <2>4, <2>5, BasicsOfOneCall
<1>10. ASSUME NEW c \in Schedulers, Memorize(c) PROVE Basics'
  <2>1. /\ UNCHANGED <<redis, redisLock, localLock, executed, life, lapses>> /\ dispatch[c].pc = "memo"
        /\ memo' = [memo EXCEPT ![SiteOf[c]] = dispatch[c].told]
    BY <1>10 DEF Memorize, CallAt
  <2>2. dispatch[c].told \in SUBSET Executions
    BY <1>1 DEF DispatchType
  <2>3. memo' \in [Sites -> SUBSET Executions] /\ MemosAreReal'
    BY <1>1, <1>2, <2>1, <2>2 DEF MemosAreReal
  <2>4. PICK q \in Dispatches : OnlyCall(c, q) /\ q.pc = "release" /\ q.told = dispatch[c].told
    BY <1>1, <1>10, DispatchMoves
  <2> QED BY <1>1, <1>2, <2>1, <2>3, <2>4, BasicsOfOneCall
<1>11. ASSUME NEW c \in Schedulers, Finally(c) PROVE Basics'
  <2>1. UNCHANGED <<redis, redisLock, memo, executed, life, lapses>> /\ Releases(c) /\ dispatch[c].pc = "release"
    BY <1>11 DEF Finally, CallAt
  <2>2. PICK q \in Dispatches : OnlyCall(c, q) /\ q.pc = "executed" /\ q.told = dispatch[c].told
    BY <1>1, <1>11, DispatchMoves
  <2> QED BY <1>1, <1>2, <1>3, <1>4, <2>1, <2>2, BasicsOfOneCall
<1>12. ASSUME NEW c \in Schedulers, Enqueue(c) PROVE Basics'
  <2> DEFINE n == Len(executed) + 1
  <2>1. /\ executed' \in Seq(Records) /\ executed' # <<>>
        /\ Executions' = Executions \cup {n} /\ n \notin Executions
        /\ \A e \in Executions : executed'[e] = executed[e]
        /\ executed'[n] = [site |-> SiteOf[c], life |-> life[SiteOf[c]]]
    BY <1>12, EnqueueMeans
  <2>2. /\ \A d \in Schedulers : d # c => dispatch'[d] = dispatch[d]
        /\ dispatch'[c].pc = "memo" /\ dispatch'[c].acquired = dispatch[c].acquired /\ dispatch[c].pc = "run"
        /\ dispatch'[c].told = {n}
        /\ dispatch'[c] \in [pc : Stages, backend : Backends, acquired : BOOLEAN, told : SUBSET {n}]
        /\ UNCHANGED <<redis, redisLock, localLock, memo, life, lapses>>
    BY <1>12, EnqueueMeans
  <2> HIDE DEF n
  <2>3. dispatch \in [Schedulers -> Dispatches] /\ Executions \subseteq Executions'
    BY <1>1, <2>1 DEF DispatchType, Dispatches, Stages
  <2>4. dispatch' \in [Schedulers -> Dispatches']
    <3>1. \A d \in Schedulers : dispatch'[d] \in [pc : Stages, backend : Backends, acquired : BOOLEAN, told : SUBSET Executions']
      <4> SUFFICES ASSUME NEW d \in Schedulers
                   PROVE  dispatch'[d] \in [pc : Stages, backend : Backends, acquired : BOOLEAN, told : SUBSET Executions']
        OBVIOUS
      <4>1. CASE d = c
        BY <2>1, <2>2, <4>1
      <4>2. CASE d # c
        BY <2>3, <2>2, <4>2 DEF Dispatches
      <4> QED BY <4>1, <4>2
    <3>2. dispatch' = [d \in Schedulers |-> dispatch'[d]]
      BY <1>12, <2>3 DEF Enqueue
    <3> QED BY <3>1, <3>2 DEF Dispatches
  <2>5. memo' \in [Sites -> SUBSET Executions']
    BY <1>1, <2>3, <2>2
  <2>6. DispatchType'
    BY <1>1, <2>4, <2>5, <2>2 DEF DispatchType, Dispatches, Stages
  <2>7. ExecutionsAreReal'
    <3>1. \A h \in Sites : life[h] \in Nat /\ life[h] <= life[h]
      BY <1>1, BoundsAssumption
    <3>2. executed'[n].life <= life'[executed'[n].site]
      BY <1>1, <2>1, <2>2, <3>1
    <3>3. \A e \in Executions : executed'[e].life <= life'[executed'[e].site]
      BY <2>1, <2>2 DEF Basics, ExecutionsAreReal
    <3> QED BY <2>1, <3>2, <3>3 DEF ExecutionsAreReal
  <2>8. MemosAreReal'
    BY <1>1, <2>1, <2>2 DEF MemosAreReal
  <2>9. ToldOfReal'
    <3> SUFFICES ASSUME NEW d \in Schedulers, NEW e \in dispatch'[d].told
                 PROVE  e \in Executions' /\ executed'[e].site = SiteOf[d]
      BY DEF ToldOfReal
    <3>1. CASE d = c
      BY <2>1, <2>2, <3>1
    <3>2. CASE d # c
      BY <2>1, <2>2, <3>2 DEF Basics, ToldOfReal
    <3> QED BY <3>1, <3>2
  <2>10. CallsAreSound'
    BY <1>2, <2>1, <2>2 DEF CallsAreSound
  <2> QED BY <2>6, <2>7, <2>8, <2>9, <2>10 DEF Basics
<1>13. CASE LockExpires
  <2>1. lapses' \in 0 .. MaxReleases
    BY <1>13, BoundsAssumption DEF LockExpires, Basics, DispatchType
  <2>2. /\ redisLock' = FALSE /\ UNCHANGED <<redis, localLock, memo, dispatch, executed, life>>
        /\ Executions' = Executions
    BY <1>13 DEF LockExpires, Executions
  <2> QED BY <2>1, <2>2 DEF Basics, DispatchType, ExecutionsAreReal, MemosAreReal, ToldOfReal, CallsAreSound
<1>14. ASSUME NEW h \in Sites, Restart(h) PROVE Basics'
  <2>1. /\ dispatch' \in [Schedulers -> Dispatches] /\ executed' = executed /\ Executions' = Executions
        /\ Dispatches' = Dispatches /\ UNCHANGED <<redis, redisLock, lapses>>
    BY <1>14, RestartMeans DEF Executions, Dispatches
  <2>2. life' \in [Sites -> 1 .. MaxRestarts + 1] /\ \A k \in Sites : life[k] <= life'[k]
    <3>1. life' = [life EXCEPT ![h] = @ + 1] /\ life[h] <= MaxRestarts
      BY <1>14, RestartMeans
    <3>2. life \in [Sites -> 1 .. MaxRestarts + 1]
      BY DEF Basics, DispatchType
    <3> QED BY <3>1, <3>2, BoundsAssumption
  <2>3. memo' \in [Sites -> SUBSET Executions] /\ localLock' \in [Sites -> BOOLEAN] /\ MemosAreReal'
    <3>1. memo' = [memo EXCEPT ![h] = {}] /\ localLock' = [localLock EXCEPT ![h] = FALSE]
      BY <1>14, RestartMeans
    <3>2. memo \in [Sites -> SUBSET Executions] /\ localLock \in [Sites -> BOOLEAN]
      BY DEF Basics, DispatchType
    <3>3. \A k \in Sites : memo'[k] \subseteq memo[k]
      BY <3>1, <3>2
    <3>4. MemosAreReal'
      BY <2>1, <3>3 DEF Basics, MemosAreReal
    <3> QED BY <3>1, <3>2, <3>4
  <2>4. DispatchType'
    BY <1>1, <2>1, <2>2, <2>3 DEF DispatchType, Dispatches, Stages
  <2>5. ExecutionsAreReal'
    <3> SUFFICES ASSUME NEW e \in Executions PROVE executed[e].life <= life'[executed[e].site]
      BY <2>1 DEF Basics, ExecutionsAreReal
    <3>1. executed[e] \in Records /\ executed[e].life <= life[executed[e].site]
      BY DEF Basics, ExecutionsAreReal, Executions
    <3>2. executed[e].life \in Nat /\ executed[e].site \in Sites
      BY <3>1 DEF Records
    <3>3. life[executed[e].site] \in Nat /\ life'[executed[e].site] \in Nat /\ life[executed[e].site] <= life'[executed[e].site]
      BY <1>1, <2>2, <3>2, BoundsAssumption
    <3> QED BY <3>1, <3>2, <3>3
  <2>6. ToldOfReal' /\ CallsAreSound'
    <3>1. \A c \in Schedulers : dispatch'[c].told = dispatch[c].told /\ dispatch'[c].pc \in {dispatch[c].pc, "lost"}
                                /\ (dispatch'[c].pc # "lost" => dispatch'[c] = dispatch[c])
      BY <1>14, RestartMeans
    <3>2. ToldOfReal'
      BY <2>1, <3>1 DEF Basics, ToldOfReal
    <3>3. CallsAreSound'
      BY <1>2, <2>1, <3>1 DEF CallsAreSound
    <3> QED BY <3>2, <3>3
  <2> QED BY <2>3, <2>4, <2>5, <2>6 DEF Basics
<1> QED BY <1>5, <1>6, <1>7, <1>8, <1>9, <1>10, <1>11, <1>12, <1>13, <1>14 DEF DispatchNext

(* Every execution is one of a process. *)
LEMMA RecordsOfSites == Basics => \A e \in Executions : executed[e].site \in Sites /\ executed[e].life \in Nat
<1>1. Basics => \A e \in Executions : executed[e] \in Records
  BY DEF Basics, ExecutionsAreReal, Executions
<1> QED BY <1>1 DEF Records

(* Without Redis: who is let through while the memo is empty executes, and *)
(* fills the memo before the lock is released.                             *)
LEMMA OnceStep == Basics /\ redis = "none" /\ OnceWithoutRedis /\ DispatchNext => OnceWithoutRedis'
<1> SUFFICES ASSUME Basics, redis = "none", OnceWithoutRedis, DispatchNext PROVE OnceWithoutRedis'
  OBVIOUS
<1>1. /\ DispatchType /\ memo \in [Sites -> SUBSET Executions]
      /\ localLock \in [Sites -> BOOLEAN] /\ life \in [Sites -> 1 .. MaxRestarts + 1]
      /\ \A c \in Schedulers : SiteOf[c] \in Sites
  BY SiteOfAssumption DEF Basics, DispatchType
<1>2. ASSUME UNCHANGED <<executed, life>>,
             \A h \in Sites : memo[h] # {} => memo'[h] # {},
             \A e \in Executions : executed[e].life = life[executed[e].site] /\ memo'[executed[e].site] = {}
               => \A c \in Schedulers : SiteOf[c] = executed[e].site /\ dispatch[c].pc = "memo" => dispatch'[c].pc = "memo"
      PROVE  ExecutionsAreOne' /\ ThisLifeIsKnown'
  <2>1. Executions' = Executions /\ \A e \in Executions : executed[e].site \in Sites
    BY <1>2, RecordsOfSites DEF Executions
  <2> QED BY <1>2, <2>1 DEF OnceWithoutRedis, ExecutionsAreOne, ThisLifeIsKnown
<1>3. ASSUME NEW c \in Schedulers, Dispatch(c) PROVE OnceWithoutRedis'
  <2>1. PICK q \in Dispatches : OnlyCall(c, q) /\ q.pc \in {"acquire", "duplicate"}
    BY <1>1, <1>3, DispatchMoves
  <2>2. UNCHANGED <<localLock, memo, executed, life>> /\ dispatch[c].pc = "new"
    BY <1>3 DEF Dispatch, CallAt
  <2>3. \A d \in Schedulers : dispatch'[d] = IF d = c THEN q ELSE dispatch[d]
    BY <1>1, <2>1, OnlyCallMeans
  <2>4. MemoGuards'
    BY <2>1, <2>2, <2>3 DEF OnceWithoutRedis, MemoGuards
  <2>5. LockGuards'
    BY <2>1, <2>2, <2>3 DEF OnceWithoutRedis, LockGuards, Holds
  <2> QED BY <1>2, <2>2, <2>3, <2>4, <2>5 DEF OnceWithoutRedis
<1>4. ASSUME NEW c \in Schedulers, TakeLocal(c) PROVE OnceWithoutRedis'
  <2>1. PICK q \in Dispatches : OnlyCall(c, q) /\ q.pc = "recheck" /\ q.acquired = ~localLock[SiteOf[c]]
    BY <1>1, <1>4, DispatchMoves
  <2>2. UNCHANGED <<memo, executed, life>> /\ dispatch[c].pc \in {"local", "acquire"}
        /\ localLock' = [localLock EXCEPT ![SiteOf[c]] = TRUE]
    BY <1>4 DEF TakeLocal
  <2>3. \A d \in Schedulers : dispatch'[d] = IF d = c THEN q ELSE dispatch[d]
    BY <1>1, <2>1, OnlyCallMeans
  <2>4. MemoGuards'
    BY <2>1, <2>2, <2>3 DEF OnceWithoutRedis, MemoGuards
  <2>5. LockGuards'
    <3>1. localLock'[SiteOf[c]] = TRUE /\ \A h \in Sites : localLock[h] = TRUE => localLock'[h] = TRUE
      BY <1>1, <2>2
    <3>2. Holds(q) => localLock[SiteOf[c]] # TRUE
      BY <2>1 DEF Holds
    <3>3. \A d \in Schedulers : d # c /\ Holds(q) /\ Holds(dispatch[d]) /\ memo[SiteOf[d]] = {} => SiteOf[d] # SiteOf[c]
      BY <3>2 DEF OnceWithoutRedis, LockGuards
    <3> QED BY <1>1, <2>2, <2>3, <3>1, <3>3 DEF OnceWithoutRedis, LockGuards
  <2> QED BY <1>2, <2>2, <2>3, <2>4, <2>5 DEF OnceWithoutRedis
<1>5. ASSUME NEW c \in Schedulers, Recheck(c) PROVE OnceWithoutRedis'
  <2>1. PICK q \in Dispatches :
                /\ OnlyCall(c, q) /\ q.acquired = dispatch[c].acquired
                /\ \/ memo[SiteOf[c]] # {} /\ q.pc = "duplicate" /\ Releases(c)
                   \/ /\ memo[SiteOf[c]] = {} /\ localLock' = localLock
                      /\ q.pc = IF dispatch[c].acquired THEN "run" ELSE "duplicate"
    BY <1>1, <1>5, DispatchMoves
  <2>2. UNCHANGED <<memo, executed, life>> /\ dispatch[c].pc = "recheck"
    BY <1>5 DEF Recheck, CallAt
  <2>3. \A d \in Schedulers : dispatch'[d] = IF d = c THEN q ELSE dispatch[d]
    BY <1>1, <2>1, OnlyCallMeans
  <2>4. MemoGuards'
    BY <2>1, <2>2, <2>3 DEF OnceWithoutRedis, MemoGuards
  <2>5. \A h \in Sites : memo[h] = {} => localLock'[h] = localLock[h]
    BY <1>1, <2>1 DEF Releases
  <2>6. Holds(q) => Holds(dispatch[c])
    BY <2>1, <2>2 DEF Holds
  <2>7. LockGuards'
    BY <1>1, <2>2, <2>3, <2>5, <2>6 DEF OnceWithoutRedis, LockGuards
  <2> QED BY <1>2, <2>2, <2>3, <2>4, <2>7 DEF OnceWithoutRedis
<1>6. ASSUME NEW c \in Schedulers, Enqueue(c) PROVE OnceWithoutRedis'
  <2> DEFINE n == Len(executed) + 1
  <2>1. /\ Executions' = Executions \cup {n} /\ n \notin Executions
        /\ \A e \in Executions : executed'[e] = executed[e]
        /\ executed'[n].site = SiteOf[c] /\ executed'[n].life = life[SiteOf[c]]
    <3>1. executed'[n] = [site |-> SiteOf[c], life |-> life[SiteOf[c]]]
      BY <1>6, EnqueueMeans
    <3>2. executed'[n].site = SiteOf[c] /\ executed'[n].life = life[SiteOf[c]]
      BY <3>1
    <3> QED BY <1>6, <3>2, EnqueueMeans
  <2>2. /\ \A d \in Schedulers : d # c => dispatch'[d] = dispatch[d]
        /\ dispatch'[c].pc = "memo" /\ dispatch'[c].acquired = dispatch[c].acquired /\ dispatch[c].pc = "run"
        /\ UNCHANGED <<localLock, memo, life>>
    BY <1>6, EnqueueMeans
  <2> HIDE DEF n
  <2>3. memo[SiteOf[c]] = {} /\ Holds(dispatch[c])
    BY <2>2 DEF OnceWithoutRedis, MemoGuards, Basics, CallsAreSound, Holds
  <2>4. MemoGuards'
    BY <2>2, <2>3 DEF OnceWithoutRedis, MemoGuards
  <2>5. LockGuards'
    BY <2>2, <2>3 DEF OnceWithoutRedis, LockGuards, Holds
  <2>6. \A e \in Executions : executed[e].site = SiteOf[c] => executed[e].life # life[SiteOf[c]]
    <3> SUFFICES ASSUME NEW e \in Executions, executed[e].site = SiteOf[c], executed[e].life = life[SiteOf[c]]
                 PROVE  FALSE
      OBVIOUS
    <3>1. PICK d \in Schedulers : SiteOf[d] = SiteOf[c] /\ dispatch[d].pc = "memo"
      BY <2>3 DEF OnceWithoutRedis, ThisLifeIsKnown
    <3>2. Holds(dispatch[d])
      BY <3>1 DEF Basics, CallsAreSound, Holds
    <3> QED BY <2>2, <2>3, <3>1, <3>2 DEF OnceWithoutRedis, LockGuards
  <2>7. ExecutionsAreOne'
    BY <2>1, <2>6 DEF OnceWithoutRedis, ExecutionsAreOne
  <2>8. ThisLifeIsKnown'
    BY <2>1, <2>2 DEF OnceWithoutRedis, ThisLifeIsKnown
  <2> QED BY <2>4, <2>5, <2>7, <2>8 DEF OnceWithoutRedis
<1>7. ASSUME NEW c \in Schedulers, Memorize(c) PROVE OnceWithoutRedis'
  <2>1. PICK q \in Dispatches : OnlyCall(c, q) /\ q.pc = "release"
    BY <1>1, <1>7, DispatchMoves
  <2>2. /\ UNCHANGED <<localLock, executed, life>> /\ dispatch[c].pc = "memo"
        /\ memo' = [memo EXCEPT ![SiteOf[c]] = dispatch[c].told]
    BY <1>7 DEF Memorize, CallAt
  <2>3. \A d \in Schedulers : dispatch'[d] = IF d = c THEN q ELSE dispatch[d]
    BY <1>1, <2>1, OnlyCallMeans
  <2>4. memo[SiteOf[c]] = {} /\ Holds(dispatch[c]) /\ dispatch[c].told # {}
    BY <2>2 DEF OnceWithoutRedis, MemoGuards, Basics, CallsAreSound, Holds
  <2>5. /\ memo'[SiteOf[c]] # {} /\ \A h \in Sites : h # SiteOf[c] => memo'[h] = memo[h]
    BY <1>1, <2>2, <2>4
  <2>6. \A d \in Schedulers : SiteOf[d] = SiteOf[c] /\ Holds(dispatch[d]) => d = c
    BY <2>4 DEF OnceWithoutRedis, LockGuards
  <2>7. \A d \in Schedulers : SiteOf[d] = SiteOf[c] /\ dispatch[d].pc \in {"run", "memo"} => d = c
    BY <2>6 DEF Basics, CallsAreSound, Holds
  <2>8. MemoGuards'
    BY <1>1, <2>1, <2>3, <2>5, <2>7 DEF OnceWithoutRedis, MemoGuards
  <2>9. LockGuards'
    BY <1>1, <2>1, <2>2, <2>3, <2>5 DEF OnceWithoutRedis, LockGuards, Holds
  <2> QED BY <1>1, <1>2, <2>2, <2>3, <2>5, <2>8, <2>9 DEF OnceWithoutRedis
<1>8. ASSUME NEW c \in Schedulers, Finally(c) PROVE OnceWithoutRedis'
  <2>1. PICK q \in Dispatches : OnlyCall(c, q) /\ q.pc = "executed"
    BY <1>1, <1>8, DispatchMoves
  <2>2. UNCHANGED <<memo, executed, life>> /\ Releases(c) /\ dispatch[c].pc = "release"
    BY <1>8 DEF Finally, CallAt
  <2>3. \A d \in Schedulers : dispatch'[d] = IF d = c THEN q ELSE dispatch[d]
    BY <1>1, <2>1, OnlyCallMeans
  <2>4. memo[SiteOf[c]] # {}
    BY <2>2 DEF OnceWithoutRedis, MemoGuards
  <2>5. \A h \in Sites : memo[h] = {} => localLock'[h] = localLock[h]
    BY <1>1, <2>2, <2>4 DEF Releases
  <2>6. MemoGuards'
    BY <2>1, <2>2, <2>3 DEF OnceWithoutRedis, MemoGuards
  <2>7. LockGuards'
    BY <1>1, <2>1, <2>2, <2>3, <2>5 DEF OnceWithoutRedis, LockGuards, Holds
  <2> QED BY <1>2, <2>2, <2>3, <2>6, <2>7 DEF OnceWithoutRedis
<1>9. ASSUME NEW c \in Schedulers, SetInRedis(c) \/ RedisFails(c) PROVE FALSE
  BY <1>9 DEF SetInRedis, RedisFails
<1>10. CASE LockExpires
  BY <1>10 DEF LockExpires, OnceWithoutRedis, MemoGuards, LockGuards, ExecutionsAreOne, ThisLifeIsKnown, Executions
<1>11. ASSUME NEW h \in Sites, Restart(h) PROVE OnceWithoutRedis'
  <2>1. /\ \A c \in Schedulers : \/ dispatch'[c] = dispatch[c]
                                    /\ (SiteOf[c] = h => dispatch[c].pc \in {"new", "duplicate", "executed"})
                                 \/ SiteOf[c] = h /\ dispatch'[c].pc = "lost"
        /\ memo' = [memo EXCEPT ![h] = {}] /\ localLock' = [localLock EXCEPT ![h] = FALSE]
        /\ life' = [life EXCEPT ![h] = @ + 1] /\ executed' = executed /\ Executions' = Executions
    BY <1>11, RestartMeans DEF Executions
  <2>2. \A k \in Sites : k # h => memo'[k] = memo[k] /\ localLock'[k] = localLock[k] /\ life'[k] = life[k]
    BY <1>1, <2>1
  <2>3. \A c \in Schedulers : SiteOf[c] = h => dispatch'[c].pc \in {"new", "duplicate", "executed", "lost"}
    BY <2>1
  <2>4. \A c \in Schedulers : SiteOf[c] # h => dispatch'[c] = dispatch[c]
    BY <2>1
  <2>5. MemoGuards'
    BY <1>1, <2>2, <2>3, <2>4 DEF OnceWithoutRedis, MemoGuards
  <2>6. LockGuards'
    BY <1>1, <2>2, <2>3, <2>4 DEF OnceWithoutRedis, LockGuards, Holds
  <2>7. ExecutionsAreOne'
    BY <2>1 DEF OnceWithoutRedis, ExecutionsAreOne
  <2>8. \A e \in Executions : executed[e].site \in Sites /\ executed[e].site = h => executed[e].life # life'[h]
    <3> SUFFICES ASSUME NEW e \in Executions, executed[e].site = h PROVE executed[e].life # life'[h]
      OBVIOUS
    <3>1. executed[e] \in Records /\ executed[e].life <= life[h]
      BY DEF Basics, ExecutionsAreReal, Executions
    <3>2. executed[e].life \in Nat /\ life[h] \in Nat /\ life'[h] = life[h] + 1
      BY <1>1, <2>1, <3>1, BoundsAssumption DEF Records
    <3> QED BY <3>1, <3>2
  <2>9. \A e \in Executions : executed[e].site \in Sites
    BY RecordsOfSites
  <2>10. ThisLifeIsKnown'
    BY <1>1, <2>1, <2>2, <2>4, <2>8, <2>9 DEF OnceWithoutRedis, ThisLifeIsKnown
  <2> QED BY <2>5, <2>6, <2>7, <2>10 DEF OnceWithoutRedis
<1> QED BY <1>3, <1>4, <1>5, <1>6, <1>7, <1>8, <1>9, <1>10, <1>11 DEF DispatchNext

(* While Redis answers: who is let through has the lock of an expiry. *)
LEMMA ExpiriesStep == Basics /\ redis = "sound" /\ ExpiriesPay /\ DispatchNext => ExpiriesPay'
<1> SUFFICES ASSUME Basics, redis = "sound", ExpiriesPay, DispatchNext PROVE ExpiriesPay'
  OBVIOUS
<1>1. /\ DispatchType /\ redisLock \in BOOLEAN /\ lapses \in Nat /\ Len(executed) \in Nat
      /\ IsFiniteSet(LetThrough) /\ Cardinality(LetThrough) \in Nat
      /\ Len(executed) + Cardinality(LetThrough) + (IF redisLock THEN 0 ELSE 1) <= 1 + lapses
  BY BoundsAssumption, FS_CardinalityType DEF Basics, DispatchType, ExpiriesPay, ExecutionsAreReal
<1>2. ASSUME LetThrough' \subseteq LetThrough, UNCHANGED <<executed, redisLock, lapses>>
      PROVE  ExpiriesPay'
  <2>1. IsFiniteSet(LetThrough') /\ Cardinality(LetThrough') <= Cardinality(LetThrough) /\ Cardinality(LetThrough') \in Nat
    BY <1>1, <1>2, FS_Subset, FS_CardinalityType
  <2> QED BY <1>1, <1>2, <2>1 DEF ExpiriesPay
<1>3. ASSUME NEW c \in Schedulers, NEW q, OnlyCall(c, q),
             q.acquired = TRUE /\ q.pc \in {"recheck", "run"} => c \in LetThrough
      PROVE  LetThrough' \subseteq LetThrough
  BY <1>1, <1>3, OnlyCallMeans DEF LetThrough
<1>4. ASSUME NEW c \in Schedulers, Dispatch(c) PROVE ExpiriesPay'
  <2>1. PICK q \in Dispatches : OnlyCall(c, q) /\ q.pc \in {"acquire", "duplicate"}
    BY <1>1, <1>4, DispatchMoves
  <2> QED BY <1>2, <1>3, <1>4, <2>1 DEF Dispatch
<1>5. ASSUME NEW c \in Schedulers, SetInRedis(c) PROVE ExpiriesPay'
  <2>1. PICK q \in Dispatches : OnlyCall(c, q) /\ q.pc = "recheck" /\ q.acquired = ~redisLock
    BY <1>1, <1>5, DispatchMoves
  <2>2. redisLock' = TRUE /\ UNCHANGED <<executed, lapses>> /\ dispatch[c].pc = "acquire"
    BY <1>5 DEF SetInRedis, CallAt
  <2>3. CASE redisLock
    <3>1. LetThrough' \subseteq LetThrough
      BY <1>3, <2>1, <2>3
    <3> QED BY <1>1, <1>2, <2>2, <2>3, <3>1
  <2>4. CASE ~redisLock
    <3>1. LetThrough' = LetThrough \cup {c} /\ c \notin LetThrough
      BY <1>1, <2>1, <2>2, <2>4, OnlyCallMeans DEF LetThrough
    <3>2. IsFiniteSet(LetThrough') /\ Cardinality(LetThrough') = Cardinality(LetThrough) + 1
      BY <1>1, <3>1, FS_AddElement
    <3> QED BY <1>1, <2>2, <2>4, <3>2 DEF ExpiriesPay
  <2> QED BY <2>3, <2>4
<1>6. ASSUME NEW c \in Schedulers, Recheck(c) PROVE ExpiriesPay'
  <2>1. PICK q \in Dispatches : OnlyCall(c, q) /\ q.acquired = dispatch[c].acquired
    BY <1>1, <1>6, DispatchMoves
  <2>2. dispatch[c].pc = "recheck" /\ UNCHANGED <<executed, redisLock, lapses>>
    BY <1>6 DEF Recheck, CallAt
  <2> QED BY <1>2, <1>3, <2>1, <2>2 DEF LetThrough
<1>7. ASSUME NEW c \in Schedulers, Enqueue(c) PROVE ExpiriesPay'
  <2>1. /\ Len(executed') = Len(executed) + 1 /\ UNCHANGED <<redisLock, lapses>>
        /\ \A d \in Schedulers : d # c => dispatch'[d] = dispatch[d]
        /\ dispatch[c].pc = "run" /\ dispatch'[c].pc = "memo"
    BY <1>7, EnqueueMeans
  <2>2. LetThrough' = LetThrough \ {c} /\ c \in LetThrough
    BY <2>1 DEF LetThrough, Basics, CallsAreSound
  <2>3. IsFiniteSet(LetThrough') /\ Cardinality(LetThrough') = Cardinality(LetThrough) - 1
    BY <1>1, <2>2, FS_RemoveElement
  <2> QED BY <1>1, <2>1, <2>3 DEF ExpiriesPay
<1>8. ASSUME NEW c \in Schedulers, Memorize(c) PROVE ExpiriesPay'
  <2>1. PICK q \in Dispatches : OnlyCall(c, q) /\ q.pc = "release"
    BY <1>1, <1>8, DispatchMoves
  <2> QED BY <1>2, <1>3, <1>8, <2>1 DEF Memorize
<1>9. ASSUME NEW c \in Schedulers, Finally(c) PROVE ExpiriesPay'
  <2>1. PICK q \in Dispatches : OnlyCall(c, q) /\ q.pc = "executed"
    BY <1>1, <1>9, DispatchMoves
  <2> QED BY <1>2, <1>3, <1>9, <2>1 DEF Finally
<1>10. ASSUME NEW c \in Schedulers, TakeLocal(c) \/ RedisFails(c) PROVE FALSE
  BY <1>10 DEF TakeLocal, RedisFails, Basics, CallsAreSound
<1>11. CASE LockExpires
  <2>1. LetThrough' = LetThrough /\ executed' = executed /\ redisLock = TRUE /\ redisLock' = FALSE /\ lapses' = lapses + 1
    BY <1>1, <1>11 DEF LockExpires, LetThrough
  <2> QED BY <1>1, <2>1 DEF ExpiriesPay
<1>12. ASSUME NEW h \in Sites, Restart(h) PROVE ExpiriesPay'
  <2>1. LetThrough' \subseteq LetThrough
    BY <1>12, RestartMeans DEF LetThrough
  <2> QED BY <1>2, <1>12, <2>1 DEF Restart
<1> QED BY <1>4, <1>5, <1>6, <1>7, <1>8, <1>9, <1>10, <1>11, <1>12 DEF DispatchNext

(* Nobody is sent away by a lock that nobody executes under. *)
LEMMA NobodyStep == Basics /\ NobodyWaitsForNobody /\ DispatchNext => NobodyWaitsForNobody'
<1> SUFFICES ASSUME Basics, NobodyWaitsForNobody, DispatchNext, executed' = <<>>
             PROVE  /\ \A h \in Sites : localLock'[h] => SomebodyHolds'
                    /\ redisLock' => SomebodyTries'
                    /\ \A c \in Schedulers : dispatch'[c].pc \in {"recheck", "duplicate"} => SomebodyTries'
  BY DEF NobodyWaitsForNobody
<1>1. \A c \in Schedulers : ~Enqueue(c)
  BY EnqueueMeans
<1>2. executed = <<>>
  <2>1. \A c \in Schedulers :
          Dispatch(c) \/ SetInRedis(c) \/ RedisFails(c) \/ TakeLocal(c) \/ Recheck(c) \/ Memorize(c) \/ Finally(c)
            => executed' = executed
    BY DEF Dispatch, SetInRedis, RedisFails, TakeLocal, Recheck, Memorize, Finally
  <2>2. \A h \in Sites : Restart(h) => executed' = executed
    BY DEF Restart
  <2>3. LockExpires => executed' = executed
    BY DEF LockExpires
  <2> QED BY <1>1, <2>1, <2>2, <2>3 DEF DispatchNext
<1>3. /\ DispatchType /\ redisLock \in BOOLEAN /\ localLock \in [Sites -> BOOLEAN]
      /\ \A c \in Schedulers : SiteOf[c] \in Sites
      /\ \A h \in Sites : memo[h] = {}
      /\ \A c \in Schedulers : dispatch[c].pc \notin {"memo", "release", "executed"}
  BY <1>2, SiteOfAssumption DEF Basics, DispatchType, CallsAreSound, Executions
<1>4. /\ \A h \in Sites : localLock[h] => SomebodyHolds
      /\ redisLock => SomebodyTries
      /\ \A c \in Schedulers : dispatch[c].pc \in {"recheck", "duplicate"} => SomebodyTries
  BY <1>2 DEF NobodyWaitsForNobody
<1>5. ASSUME NEW c \in Schedulers, Dispatch(c)
      PROVE  /\ \A h \in Sites : localLock'[h] => SomebodyHolds'
             /\ redisLock' => SomebodyTries'
             /\ \A d \in Schedulers : dispatch'[d].pc \in {"recheck", "duplicate"} => SomebodyTries'
  <2>1. PICK q \in Dispatches : OnlyCall(c, q) /\ q.pc = "acquire"
    BY <1>3, <1>5, DispatchMoves
  <2>2. \A d \in Schedulers : dispatch'[d] = IF d = c THEN q ELSE dispatch[d]
    BY <1>3, <2>1, OnlyCallMeans
  <2>3. dispatch[c].pc = "new" /\ UNCHANGED <<redisLock, localLock>>
    BY <1>5 DEF Dispatch, CallAt
  <2>4. (SomebodyHolds => SomebodyHolds') /\ (SomebodyTries => SomebodyTries')
    BY <2>2, <2>3 DEF SomebodyHolds, SomebodyTries
  <2> QED BY <1>4, <2>1, <2>2, <2>3, <2>4
<1>6. ASSUME NEW c \in Schedulers, SetInRedis(c)
      PROVE  /\ \A h \in Sites : localLock'[h] => SomebodyHolds'
             /\ redisLock' => SomebodyTries'
             /\ \A d \in Schedulers : dispatch'[d].pc \in {"recheck", "duplicate"} => SomebodyTries'
  <2>1. PICK q \in Dispatches : OnlyCall(c, q) /\ q.pc = "recheck" /\ q.acquired = ~redisLock
    BY <1>3, <1>6, DispatchMoves
  <2>2. \A d \in Schedulers : dispatch'[d] = IF d = c THEN q ELSE dispatch[d]
    BY <1>3, <2>1, OnlyCallMeans
  <2>3. dispatch[c].pc = "acquire" /\ UNCHANGED localLock
    BY <1>6 DEF SetInRedis, CallAt
  <2>4. (SomebodyHolds => SomebodyHolds') /\ (SomebodyTries => SomebodyTries')
    BY <2>2, <2>3 DEF SomebodyHolds, SomebodyTries
  <2>5. ~redisLock => SomebodyHolds'
    BY <2>1, <2>2 DEF SomebodyHolds
  <2>6. SomebodyTries'
    BY <1>4, <2>4, <2>5 DEF SomebodyTries
  <2> QED BY <1>4, <2>3, <2>4, <2>6
<1>7. ASSUME NEW c \in Schedulers, RedisFails(c)
      PROVE  /\ \A h \in Sites : localLock'[h] => SomebodyHolds'
             /\ redisLock' => SomebodyTries'
             /\ \A d \in Schedulers : dispatch'[d].pc \in {"recheck", "duplicate"} => SomebodyTries'
  <2>1. PICK q \in Dispatches : OnlyCall(c, q) /\ q.pc = "local"
    BY <1>3, <1>7, DispatchMoves
  <2>2. \A d \in Schedulers : dispatch'[d] = IF d = c THEN q ELSE dispatch[d]
    BY <1>3, <2>1, OnlyCallMeans
  <2>3. dispatch[c].pc = "acquire" /\ UNCHANGED localLock
    BY <1>7 DEF RedisFails, CallAt
  <2>4. (SomebodyHolds => SomebodyHolds') /\ SomebodyTries'
    BY <2>1, <2>2, <2>3 DEF SomebodyHolds, SomebodyTries
  <2> QED BY <1>4, <2>3, <2>4
<1>8. ASSUME NEW c \in Schedulers, TakeLocal(c)
      PROVE  /\ \A h \in Sites : localLock'[h] => SomebodyHolds'
             /\ redisLock' => SomebodyTries'
             /\ \A d \in Schedulers : dispatch'[d].pc \in {"recheck", "duplicate"} => SomebodyTries'
  <2>1. PICK q \in Dispatches : OnlyCall(c, q) /\ q.pc = "recheck" /\ q.acquired = ~localLock[SiteOf[c]]
    BY <1>3, <1>8, DispatchMoves
  <2>2. \A d \in Schedulers : dispatch'[d] = IF d = c THEN q ELSE dispatch[d]
    BY <1>3, <2>1, OnlyCallMeans
  <2>3. dispatch[c].pc \in {"acquire", "local"}
    BY <1>8 DEF TakeLocal
  <2>4. SomebodyHolds => SomebodyHolds'
    BY <2>2, <2>3 DEF SomebodyHolds
  <2>5. ~localLock[SiteOf[c]] => SomebodyHolds'
    BY <2>1, <2>2 DEF SomebodyHolds
  <2>6. SomebodyHolds' /\ SomebodyTries'
    BY <1>3, <1>4, <2>4, <2>5 DEF SomebodyTries
  <2> QED BY <2>6
<1>9. ASSUME NEW c \in Schedulers, Recheck(c)
      PROVE  /\ \A h \in Sites : localLock'[h] => SomebodyHolds'
             /\ redisLock' => SomebodyTries'
             /\ \A d \in Schedulers : dispatch'[d].pc \in {"recheck", "duplicate"} => SomebodyTries'
  <2>1. PICK q \in Dispatches :
           /\ OnlyCall(c, q) /\ q.acquired = dispatch[c].acquired /\ localLock' = localLock
           /\ q.pc = IF dispatch[c].acquired THEN "run" ELSE "duplicate"
    BY <1>3, <1>9, DispatchMoves
  <2>2. \A d \in Schedulers : dispatch'[d] = IF d = c THEN q ELSE dispatch[d]
    BY <1>3, <2>1, OnlyCallMeans
  <2>3. dispatch[c].pc = "recheck" /\ UNCHANGED redisLock
    BY <1>9 DEF Recheck, CallAt
  <2>4. SomebodyHolds => SomebodyHolds'
    BY <2>1, <2>2, <2>3 DEF SomebodyHolds
  <2>5. SomebodyTries => SomebodyTries'
    BY <2>2, <2>3, <2>4 DEF SomebodyTries
  <2> QED BY <1>4, <2>1, <2>2, <2>3, <2>4, <2>5
<1>10. ASSUME NEW c \in Schedulers, Memorize(c) \/ Finally(c) PROVE FALSE
  BY <1>3, <1>10 DEF Memorize, Finally, CallAt
<1>11. CASE LockExpires
  <2>1. redisLock' = FALSE /\ UNCHANGED <<localLock, dispatch>>
    BY <1>11 DEF LockExpires
  <2> QED BY <1>4, <2>1 DEF SomebodyHolds, SomebodyTries
<1>12. ASSUME NEW h \in Sites, Restart(h)
       PROVE  /\ \A k \in Sites : localLock'[k] => SomebodyHolds'
              /\ redisLock' => SomebodyTries'
              /\ \A d \in Schedulers : dispatch'[d].pc \in {"recheck", "duplicate"} => SomebodyTries'
  <2>1. /\ \A c \in Schedulers : \/ dispatch'[c] = dispatch[c]
                                    /\ (SiteOf[c] = h => dispatch[c].pc \in {"new", "duplicate", "executed"})
                                 \/ SiteOf[c] = h /\ dispatch'[c].pc = "lost"
        /\ localLock' = [localLock EXCEPT ![h] = FALSE] /\ redisLock' = redisLock
    BY <1>12, RestartMeans
  <2>2. (SomebodyHolds => SomebodyHolds') /\ (SomebodyTries => SomebodyTries')
    BY <2>1 DEF SomebodyHolds, SomebodyTries
  <2>3. \A k \in Sites : localLock'[k] => localLock[k]
    BY <1>3, <2>1
  <2>4. \A c \in Schedulers : dispatch'[c].pc \in {"recheck", "duplicate"} => dispatch'[c] = dispatch[c]
    BY <2>1
  <2> QED BY <1>4, <2>1, <2>2, <2>3, <2>4
<1> QED BY <1>1, <1>5, <1>6, <1>7, <1>8, <1>9, <1>10, <1>11, <1>12 DEF DispatchNext

(* Every step keeps the invariant. *)
LEMMA DispatchStep == DispatchIInv /\ [DispatchNext]_dispatchVars => DispatchIInv'
<1> SUFFICES ASSUME DispatchIInv, [DispatchNext]_dispatchVars PROVE DispatchIInv'
  OBVIOUS
<1>1. CASE DispatchNext
  <2>1. Basics /\ Basics'
    BY <1>1, BasicsStep DEF DispatchIInv, Basics
  <2>2. redis' = redis
    BY <1>1 DEF DispatchNext, Dispatch, SetInRedis, RedisFails, TakeLocal, Recheck, Enqueue, Memorize, Finally,
       LockExpires, Restart
  <2> QED BY <1>1, <2>1, <2>2, OnceStep, ExpiriesStep, NobodyStep DEF DispatchIInv, Basics
<1>2. CASE UNCHANGED dispatchVars
  BY <1>2 DEF dispatchVars, DispatchIInv, DispatchType, ExecutionsAreReal, MemosAreReal, ToldOfReal, CallsAreSound,
     OnceWithoutRedis, MemoGuards, LockGuards, Holds, ExecutionsAreOne, ThisLifeIsKnown, ExpiriesPay, LetThrough,
     NobodyWaitsForNobody, SomebodyHolds, SomebodyTries, Executions
<1> QED BY <1>1, <1>2

(* The invariant is stronger than what the run checks. *)
LEMMA DispatchImplied == DispatchIInv => DispatchInv
<1> SUFFICES ASSUME DispatchIInv PROVE DispatchInv
  OBVIOUS
<1>1. OncePerLife
  <2> SUFFICES ASSUME redis = "none", NEW h \in Sites, NEW l \in 1 .. life[h]
               PROVE  Cardinality(InLife(h, l)) <= 1
    BY DEF OncePerLife
  <2>1. \A e, f \in InLife(h, l) : e = f
    BY DEF DispatchIInv, OnceWithoutRedis, ExecutionsAreOne, InLife
  <2>2. CASE InLife(h, l) = {}
    BY <2>2, FS_EmptySet
  <2>3. CASE InLife(h, l) # {}
    <3>1. PICK e : InLife(h, l) = {e}
      BY <2>1, <2>3
    <3> QED BY <3>1, FS_Singleton
  <2> QED BY <2>2, <2>3
<1>2. OncePerExpiry
  <2> SUFFICES ASSUME redis = "sound" PROVE Len(executed) <= 1 + lapses
    BY DEF OncePerExpiry
  <2>1. /\ Len(executed) \in Nat /\ Cardinality(LetThrough) \in Nat /\ lapses \in Nat
        /\ Len(executed) + Cardinality(LetThrough) + (IF redisLock THEN 0 ELSE 1) <= 1 + lapses
    BY FS_CardinalityType, BoundsAssumption DEF DispatchIInv, DispatchType, ExecutionsAreReal, ExpiriesPay
  <2> QED BY <2>1
<1>3. SomebodyExecutes
  <2> SUFFICES ASSUME \A c \in Schedulers : dispatch[c].pc \in {"duplicate", "executed"}, executed = <<>>
               PROVE  FALSE
    BY DEF SomebodyExecutes
  <2>1. PICK c \in Schedulers : TRUE
    BY SchedulersAssumption
  <2>2. dispatch[c].pc = "duplicate"
    BY DEF DispatchIInv, CallsAreSound
  <2>3. SomebodyTries
    BY <2>2 DEF DispatchIInv, NobodyWaitsForNobody
  <2> QED BY <2>3 DEF SomebodyTries, SomebodyHolds
<1> QED BY <1>1, <1>2, <1>3 DEF DispatchIInv, DispatchInv

(* The playbook of a day is executed as often as the locks promise, not more  *)
(* and at least once, for any schedulers in any processes.                    *)
THEOREM PlaybooksRunOnce == DispatchSpec => []DispatchInv
BY DispatchInitially, DispatchStep, DispatchImplied, PTL DEF DispatchSpec

-----------------------------------------------------------------------------
(***************************************************************************)
(* CronTrigger: the search skips nothing that matches.  Every minute of a  *)
(* month has the same month, and the candidate never falls behind: what    *)
(* lies between the start and the candidate has been looked at, or belongs *)
(* to a month that the expression does not name.                           *)
(***************************************************************************)

(* A set of numbers with a member has a least one. *)
LEMMA LeastNumber ==
    ASSUME NEW S \in SUBSET Nat, S # {}
    PROVE  \E i \in S : \A j \in S : i <= j
<1> DEFINE R == {ss \in Nat \X Nat : ss[1] < ss[2]}
<1>1. IsWellFoundedOn(R, Nat)
  BY NatLessThanWellFounded DEF OpToRel
<1>2. \A i, j \in Nat : j < i => <<j, i>> \in R
  OBVIOUS
<1> HIDE DEF R
<1>3. PICK i \in S : \A j \in S : ~(<<j, i>> \in R)
  BY <1>1, WFMin
<1>4. \A j \in S : i \in Nat /\ j \in Nat /\ ~(j < i)
  BY <1>2, <1>3
<1> QED BY <1>4

(* The calendar is one, and its months and days have lengths. *)
LEMMA CalendarIsFinite ==
    /\ Len(MonthDays) \in Nat /\ Months = 1 .. Len(MonthDays)
    /\ \A m \in Months : MonthDays[m] \in Nat \ {0}
    /\ MinutesPerDay \in Nat \ {0} /\ Horizon \in Nat /\ LastStart \in Nat
<1>1. HoursPerDay \in Nat \ {0} /\ MinutesPerHour \in Nat \ {0}
  BY CalendarAssumption
<1>2. \A x, y \in Nat \ {0} : x * y \in Nat \ {0}
  OBVIOUS
<1> QED BY <1>1, <1>2, CalendarAssumption DEF Months, MinutesPerDay

(* The recursion that defines the first days has a solution for any number of months. *)
LEMMA FirstDaysExist ==
    ASSUME NEW n \in Nat
    PROVE  \E f : f = [m \in 1 .. n |-> IF m = 1 THEN 0 ELSE f[m - 1] + MonthDays[m - 1]]
<1> DEFINE Solves(f, k) ==
        f = [m \in 1 .. k |-> IF m = 1 THEN 0 ELSE f[m - 1] + MonthDays[m - 1]]
<1> DEFINE S == {k \in Nat : ~ \E f : Solves(f, k)}
<1>1. SUFFICES S = {}
  BY <1>1
<1>2. SUFFICES ASSUME S # {} PROVE FALSE
  OBVIOUS
<1>3. PICK k \in S : \A j \in S : k <= j
  <2>1. S \in SUBSET Nat
    OBVIOUS
  <2> HIDE DEF S
  <2> QED BY <2>1, <1>2, LeastNumber
<1>4. k # 0
  <2>1. PICK f : f = [m \in 1 .. 0 |-> 0]
    OBVIOUS
  <2>2. Solves(f, 0)
    BY <2>1
  <2>3. 0 \notin S
    BY <2>2
  <2> QED BY <2>3, <1>3
<1>5. k \in Nat
  OBVIOUS
<1>6. k - 1 \in Nat /\ ~(k <= k - 1)
  BY <1>4, <1>5
<1>7. k - 1 \notin S
  <2> HIDE DEF S
  <2> QED BY <1>3, <1>6
<1>8. PICK f : Solves(f, k - 1)
  BY <1>6, <1>7
<1>9. PICK g : g = [m \in 1 .. k |-> IF m = 1 THEN 0 ELSE f[m - 1] + MonthDays[m - 1]]
  OBVIOUS
<1>10. \A m \in 1 .. k - 1 : g[m] = f[m]
  BY <1>6, <1>8, <1>9
<1>11. \A m \in 1 .. k : m # 1 => m - 1 \in 1 .. k - 1
  BY <1>5
<1>12. Solves(g, k)
  BY <1>9, <1>10, <1>11
<1> QED BY <1>12, <1>3

(* The first day of a month, and that of the next. *)
LEMMA FirstDays ==
    /\ FirstDay[1] = 0
    /\ \A m \in Months : FirstDay[m + 1] = FirstDay[m] + MonthDays[m]
<1>1. Len(MonthDays) + 1 \in Nat /\ Len(MonthDays) \in Nat
  BY CalendarIsFinite
<1>2. \E f : f = [m \in 1 .. Len(MonthDays) + 1 |-> IF m = 1 THEN 0 ELSE f[m - 1] + MonthDays[m - 1]]
  BY <1>1, FirstDaysExist
<1>3. FirstDay = [m \in 1 .. Len(MonthDays) + 1 |-> IF m = 1 THEN 0 ELSE FirstDay[m - 1] + MonthDays[m - 1]]
  BY <1>2 DEF FirstDay
<1>4. 1 \in 1 .. Len(MonthDays) + 1
  BY <1>1
<1>5. FirstDay[1] = 0
  BY <1>3, <1>4
<1>6. ASSUME NEW m \in Months PROVE FirstDay[m + 1] = FirstDay[m] + MonthDays[m]
  <2>1. m + 1 \in 1 .. Len(MonthDays) + 1 /\ m + 1 # 1 /\ (m + 1) - 1 = m
    BY CalendarIsFinite
  <2> QED BY <2>1, <1>3
<1> QED BY <1>5, <1>6

(* First days are numbers, and later months begin later. *)
LEMMA FirstDaysGrow ==
    /\ \A m \in 1 .. Len(MonthDays) + 1 : FirstDay[m] \in Nat
    /\ \A m, o \in 1 .. Len(MonthDays) + 1 : m <= o => FirstDay[m] <= FirstDay[o]
<1> PICK n \in Nat : n = Len(MonthDays)
  BY CalendarIsFinite
<1>1. \A m \in 1 .. n + 1 : m # 1 => m - 1 \in 1 .. n /\ FirstDay[m] = FirstDay[m - 1] + MonthDays[m - 1]
                                     /\ MonthDays[m - 1] \in Nat
  <2>1. SUFFICES ASSUME NEW m \in 1 .. n + 1, m # 1
                 PROVE  m - 1 \in 1 .. n /\ FirstDay[m] = FirstDay[m - 1] + MonthDays[m - 1]
                        /\ MonthDays[m - 1] \in Nat
    OBVIOUS
  <2>2. m - 1 \in 1 .. n /\ (m - 1) + 1 = m
    BY <2>1
  <2> QED BY <2>2, FirstDays, CalendarIsFinite
<1>2. \A m \in 1 .. n + 1 : FirstDay[m] \in Nat
  <2> DEFINE S == {m \in Nat : m \in 1 .. n + 1 /\ FirstDay[m] \notin Nat}
  <2>1. SUFFICES ASSUME S # {} PROVE FALSE
    OBVIOUS
  <2>2. PICK k \in S : \A j \in S : k <= j
    <3>1. S \in SUBSET Nat
      OBVIOUS
    <3> HIDE DEF S
    <3> QED BY <3>1, <2>1, LeastNumber
  <2>3. k \in Nat /\ k \in 1 .. n + 1 /\ FirstDay[k] \notin Nat
    OBVIOUS
  <2>4. k # 1
    BY <2>3, FirstDays
  <2>5. k - 1 \in Nat /\ k - 1 \in 1 .. n + 1 /\ ~(k <= k - 1)
    BY <2>3, <2>4
  <2>6. FirstDay[k - 1] \in Nat
    BY <2>2, <2>5
  <2> QED BY <1>1, <2>3, <2>4, <2>6
<1>3. ASSUME NEW m \in 1 .. n + 1 PROVE \A o \in 1 .. n + 1 : m <= o => FirstDay[m] <= FirstDay[o]
  <2> DEFINE S == {o \in Nat : o \in 1 .. n + 1 /\ m <= o /\ ~(FirstDay[m] <= FirstDay[o])}
  <2>1. SUFFICES ASSUME S # {} PROVE FALSE
    OBVIOUS
  <2>2. PICK k \in S : \A j \in S : k <= j
    <3>1. S \in SUBSET Nat
      OBVIOUS
    <3> HIDE DEF S
    <3> QED BY <3>1, <2>1, LeastNumber
  <2>3. k \in Nat /\ k \in 1 .. n + 1 /\ m <= k /\ ~(FirstDay[m] <= FirstDay[k])
    OBVIOUS
  <2>4. k # m
    BY <1>2, <2>3
  <2>5. k - 1 \in Nat /\ k - 1 \in 1 .. n + 1 /\ m <= k - 1 /\ ~(k <= k - 1) /\ k # 1
    BY <2>3, <2>4
  <2>6. FirstDay[m] <= FirstDay[k - 1]
    BY <2>2, <2>5
  <2>7. FirstDay[k] = FirstDay[k - 1] + MonthDays[k - 1] /\ MonthDays[k - 1] \in Nat
    BY <1>1, <2>3, <2>5
  <2> QED BY <2>3, <2>5, <2>6, <2>7, <1>2
<1> QED BY <1>2, <1>3

(* Division, for a divisor that is not known. *)
LEMMA DivisionIsBetween ==
    ASSUME NEW t \in Nat, NEW d \in Nat \ {0}
    PROVE  t \div d \in Nat /\ (t \div d) * d <= t /\ t < ((t \div d) + 1) * d
<1>1. t \div d \in Int /\ t % d \in 0 .. d - 1 /\ t = d * (t \div d) + (t % d)
  OBVIOUS
<1> QED BY <1>1

(* Products with a positive factor are ordered as the other factors are. *)
LEMMA FactorsAreOrdered ==
    ASSUME NEW x \in Nat, NEW y \in Nat, NEW d \in Nat \ {0}
    PROVE  /\ x <= y => x * d <= y * d
           /\ x * d < y * d => x < y
<1>1. \A u, v \in Nat : u <= v => u * d <= v * d
  OBVIOUS
<1>2. x * d \in Nat /\ y * d \in Nat
  OBVIOUS
<1> QED BY <1>1, <1>2

(* A product of numbers is a number. *)
LEMMA ProductIsNatural == \A x, y \in Nat : x * y \in Nat
OBVIOUS

(* A day that the calendar has is in one month, which is MonthAt. *)
LEMMA DayIsInAMonth ==
    ASSUME NEW t \in Nat, Day(t) \in Nat, Day(t) < FirstDay[Len(MonthDays) + 1]
    PROVE  MonthAt(t) \in Months /\ FirstDay[MonthAt(t)] <= Day(t) /\ Day(t) < FirstDay[MonthAt(t) + 1]
<1> PICK n \in Nat : n = Len(MonthDays)
  BY CalendarIsFinite
<1> PICK d \in Nat : d = Day(t)
  OBVIOUS
<1> DEFINE S == {m \in Nat : m \in 1 .. n + 1 /\ d < FirstDay[m]}
<1>1. n + 1 \in S
  OBVIOUS
<1>2. PICK k \in S : \A j \in S : k <= j
  <2>1. S \in SUBSET Nat
    OBVIOUS
  <2> HIDE DEF S
  <2> QED BY <2>1, <1>1, LeastNumber
<1>3. k \in Nat /\ k \in 1 .. n + 1 /\ d < FirstDay[k]
  OBVIOUS
<1>4. k # 1
  BY <1>3, FirstDays
<1>5. k - 1 \in Nat /\ k - 1 \in 1 .. n + 1 /\ ~(k <= k - 1) /\ k - 1 \in Months /\ (k - 1) + 1 = k
  BY <1>3, <1>4, CalendarIsFinite
<1>6. FirstDay[k - 1] <= d
  BY <1>2, <1>3, <1>5, FirstDaysGrow
<1>7. \A m \in Months : FirstDay[m] <= d => m <= k - 1
  <2>1. SUFFICES ASSUME NEW m \in Months, FirstDay[m] <= d, ~(m <= k - 1) PROVE FALSE
    OBVIOUS
  <2>2. m \in 1 .. n + 1 /\ k <= m
    BY <2>1, <1>3, CalendarIsFinite
  <2>3. FirstDay[k] <= FirstDay[m] /\ FirstDay[k] \in Nat /\ FirstDay[m] \in Nat
    BY <2>2, <1>3, FirstDaysGrow
  <2> QED BY <2>1, <2>3, <1>3
<1>8. PICK M : M = {m \in Months : FirstDay[m] <= d}
  OBVIOUS
<1>9. k - 1 \in M /\ \A m \in M : k - 1 >= m
  BY <1>5, <1>6, <1>7, <1>8, CalendarIsFinite
<1>10. \A m \in M : m \in Nat
  BY <1>8, CalendarIsFinite
<1>11. \A x \in M : (\A y \in M : x >= y) => x = k - 1
  <2>1. SUFFICES ASSUME NEW x \in M, \A y \in M : x >= y PROVE x = k - 1
    OBVIOUS
  <2>2. x >= k - 1 /\ k - 1 >= x /\ x \in Nat
    BY <2>1, <1>9, <1>10
  <2> QED BY <2>2, <1>5
<1>12. (CHOOSE x \in M : \A y \in M : x >= y) = k - 1
  BY <1>9, <1>11
<1>13. MonthAt(t) = k - 1
  BY <1>8, <1>12 DEF MonthAt, Max
<1> QED BY <1>3, <1>5, <1>6, <1>13

(* A time that the calendar has, the month it is in, and how far that month goes. *)
LEMMA MonthsHaveTimes ==
    ASSUME NEW t \in Nat, t < FirstDay[Len(MonthDays) + 1] * MinutesPerDay
    PROVE  /\ MonthAt(t) \in Months
           /\ NextMonth(t) \in Nat /\ t < NextMonth(t)
           /\ \A u \in t .. NextMonth(t) - 1 : MonthAt(u) = MonthAt(t)
<1> PICK n \in Nat : n = Len(MonthDays)
  BY CalendarIsFinite
<1> PICK p \in Nat \ {0} : p = MinutesPerDay
  BY CalendarIsFinite
<1>1. n + 1 \in 1 .. n + 1 /\ FirstDay[n + 1] \in Nat
  BY FirstDaysGrow
<1>2. \A u \in Nat : Day(u) \in Nat /\ Day(u) * p <= u /\ u < (Day(u) + 1) * p
  BY DivisionIsBetween DEF Day
<1>3. \A u \in Nat, x \in Nat : u < x * p => Day(u) < x
  <2>1. SUFFICES ASSUME NEW u \in Nat, NEW x \in Nat, u < x * p PROVE Day(u) < x
    OBVIOUS
  <2>2. Day(u) \in Nat /\ Day(u) * p <= u
    BY <1>2
  <2>3. Day(u) * p \in Nat /\ x * p \in Nat
    BY <2>2, ProductIsNatural
  <2>4. Day(u) * p < x * p
    BY <2>1, <2>2, <2>3
  <2> QED BY <2>2, <2>4, FactorsAreOrdered
<1>4. Day(t) \in Nat /\ Day(t) < FirstDay[n + 1]
  BY <1>1, <1>2, <1>3
<1>5. MonthAt(t) \in Months /\ FirstDay[MonthAt(t)] <= Day(t) /\ Day(t) < FirstDay[MonthAt(t) + 1]
  BY <1>4, DayIsInAMonth
<1>6. PICK m \in Months : m = MonthAt(t)
  BY <1>5
<1>7. m \in 1 .. n + 1 /\ m + 1 \in 1 .. n + 1 /\ n + 1 \in 1 .. n + 1
  BY CalendarIsFinite
<1>8. FirstDay[m] \in Nat /\ FirstDay[m + 1] \in Nat
  BY <1>7, FirstDaysGrow
<1>9. NextMonth(t) = FirstDay[m + 1] * p /\ NextMonth(t) \in Nat
  BY <1>6, <1>8 DEF NextMonth
<1>10. t < NextMonth(t)
  <2>1. Day(t) + 1 \in Nat /\ Day(t) + 1 <= FirstDay[m + 1]
    BY <1>4, <1>5, <1>6, <1>8
  <2>2. (Day(t) + 1) * p <= FirstDay[m + 1] * p /\ (Day(t) + 1) * p \in Nat
    BY <2>1, <1>8, FactorsAreOrdered, ProductIsNatural
  <2>3. t < (Day(t) + 1) * p
    BY <1>2
  <2> QED BY <2>2, <2>3, <1>9
<1>11. ASSUME NEW u \in t .. NextMonth(t) - 1 PROVE MonthAt(u) = MonthAt(t)
  <2>1. u \in Nat /\ u < FirstDay[m + 1] * p /\ t <= u
    BY <1>9
  <2>2. Day(u) \in Nat /\ Day(u) < FirstDay[m + 1]
    BY <2>1, <1>2, <1>3, <1>8
  <2>3. Day(t) < Day(u) + 1
    <3>1. u < (Day(u) + 1) * p
      BY <2>1, <1>2
    <3> PICK d \in Nat : d = Day(u) + 1
      BY <2>2
    <3>2. d * p \in Nat
      BY ProductIsNatural
    <3>3. t < d * p
      BY <2>1, <3>1, <3>2
    <3> QED BY <1>3, <3>3
  <2>4. FirstDay[m] <= Day(u)
    BY <2>2, <2>3, <1>4, <1>5, <1>6, <1>8
  <2>5. FirstDay[m + 1] <= FirstDay[n + 1]
    BY <1>7, FirstDaysGrow, CalendarIsFinite
  <2>6. Day(u) < FirstDay[n + 1]
    BY <2>2, <2>5, <1>1, <1>8
  <2>7. PICK o \in Months : o = MonthAt(u) /\ FirstDay[o] <= Day(u) /\ Day(u) < FirstDay[o + 1]
    BY <2>1, <2>2, <2>6, DayIsInAMonth
  <2>8. o \in 1 .. n + 1 /\ o + 1 \in 1 .. n + 1
    BY CalendarIsFinite
  <2>9. FirstDay[o] \in Nat /\ FirstDay[o + 1] \in Nat
    BY <2>8, FirstDaysGrow
  <2>10. ~(o + 1 <= m)
    <3>1. SUFFICES ASSUME o + 1 <= m PROVE FALSE
      OBVIOUS
    <3>2. FirstDay[o + 1] <= FirstDay[m]
      BY <3>1, <2>8, <1>7, FirstDaysGrow
    <3> QED BY <3>2, <2>7, <2>4, <2>2, <2>9, <1>8
  <2>11. ~(m + 1 <= o)
    <3>1. SUFFICES ASSUME m + 1 <= o PROVE FALSE
      OBVIOUS
    <3>2. FirstDay[m + 1] <= FirstDay[o]
      BY <3>1, <2>8, <1>7, FirstDaysGrow
    <3> QED BY <3>2, <2>7, <2>2, <2>9, <1>8
  <2>12. o = m
    BY <2>8, <1>7, <2>10, <2>11
  <2> QED BY <2>7, <2>12, <1>6
<1> QED BY <1>5, <1>9, <1>10, <1>11

CronTypes ==
    /\ after \in 0 .. LastStart
    /\ candidate \in Nat /\ after < candidate
    /\ answer \in {"searching", "found", "none"}

(* What lies behind the candidate does not match. *)
NothingIsPassed == \A t \in after + 1 .. candidate - 1 : t <= LastLooked => ~Matches(t)

CronIInv ==
    /\ CronTypes
    /\ NothingIsPassed
    /\ answer = "found" => Matches(candidate)

(* The end of the search is a number, and the calendar goes further. *)
LEMMA TheEndIsInTheCalendar ==
    ASSUME CronTypes
    PROVE  LastLooked \in Nat /\ LastLooked < FirstDay[Len(MonthDays) + 1] * MinutesPerDay
<1>1. Len(MonthDays) + 1 \in 1 .. Len(MonthDays) + 1
  BY CalendarIsFinite
<1>2. FirstDay[Len(MonthDays) + 1] \in Nat
  BY <1>1, FirstDaysGrow
<1>3. \A x, y \in Nat : x * y \in Nat
  OBVIOUS
<1>4. PICK total \in Nat : total = FirstDay[Len(MonthDays) + 1] * MinutesPerDay
  BY <1>2, <1>3, CalendarIsFinite
<1>5. PICK length \in Nat : length = Horizon * MinutesPerDay
  BY <1>3, CalendarIsFinite
<1>6. LastStart + 1 + length < total
  BY <1>4, <1>5, CalendarAssumption
<1>7. after \in Nat /\ after <= LastStart /\ LastStart \in Nat
  BY CalendarIsFinite DEF CronTypes
<1>8. after + 1 + length \in Nat /\ after + 1 + length < total
  BY <1>6, <1>7
<1> QED BY <1>4, <1>5, <1>8 DEF LastLooked

(* A search begins with nothing behind it. *)
LEMMA CronInitially == CronInit => CronIInv
<1>1. SUFFICES ASSUME CronInit PROVE CronIInv
  OBVIOUS
<1>2. CronTypes
  BY <1>1, CalendarIsFinite DEF CronInit, CronTypes
<1>3. \A t \in after + 1 .. candidate - 1 : FALSE
  BY <1>1, <1>2 DEF CronInit, CronTypes
<1> QED BY <1>1, <1>2, <1>3 DEF CronInit, CronIInv, NothingIsPassed

(* What is asked for stays. *)
LEMMA QuestionStays ==
    ASSUME UNCHANGED <<expression, after>>
    PROVE  LastLooked' = LastLooked /\ \A t : Matches(t)' <=> Matches(t)
BY DEF LastLooked, Matches, In, IsStar

(* Every step of the search keeps the invariant. *)
LEMMA CronStep == CronIInv /\ [CronNext]_cronVars => CronIInv'
<1> SUFFICES ASSUME CronIInv, [CronNext]_cronVars PROVE CronIInv'
  OBVIOUS
<1>1. CronTypes /\ NothingIsPassed
  BY DEF CronIInv
<1>2. LastLooked \in Nat /\ LastLooked < FirstDay[Len(MonthDays) + 1] * MinutesPerDay
  BY <1>1, TheEndIsInTheCalendar
<1>3. CASE SkipMonth
  <2>1. candidate \in Nat /\ candidate < FirstDay[Len(MonthDays) + 1] * MinutesPerDay
    <3>1. Len(MonthDays) + 1 \in 1 .. Len(MonthDays) + 1 /\ MinutesPerDay \in Nat
      BY CalendarIsFinite
    <3>2. FirstDay[Len(MonthDays) + 1] * MinutesPerDay \in Nat
      BY <3>1, FirstDaysGrow
    <3>3. candidate \in Nat /\ candidate <= LastLooked
      BY <1>1, <1>3 DEF SkipMonth, Searching, CronTypes
    <3> QED BY <1>2, <3>2, <3>3
  <2>2. PICK next \in Nat : next = NextMonth(candidate)
    BY <2>1, MonthsHaveTimes
  <2>3. candidate < next /\ \A u \in candidate .. next - 1 : MonthAt(u) = MonthAt(candidate)
    BY <2>1, <2>2, MonthsHaveTimes
  <2>4. \A u \in candidate .. next - 1 : ~Matches(u)
    BY <2>3, <1>3 DEF SkipMonth, Matches, In, Field
  <2>5. after' = after /\ candidate' = next /\ answer' = answer /\ expression' = expression /\ answer = "searching"
    BY <1>3, <2>2 DEF SkipMonth, Searching
  <2>6. CronTypes'
    BY <1>1, <2>2, <2>3, <2>5 DEF CronTypes
  <2>7. \A t \in after + 1 .. next - 1 : t <= LastLooked => ~Matches(t)
    BY <1>1, <2>2, <2>3, <2>4 DEF CronTypes, NothingIsPassed
  <2>8. LastLooked' = LastLooked /\ \A t : Matches(t)' <=> Matches(t)
    BY <2>5, QuestionStays
  <2>9. NothingIsPassed'
    BY <2>5, <2>7, <2>8 DEF NothingIsPassed
  <2> QED BY <2>5, <2>6, <2>9 DEF CronIInv
<1>4. CASE Found
  <2>1. UNCHANGED <<expression, after, candidate>> /\ answer' = "found" /\ Matches(candidate)
    BY <1>4 DEF Found
  <2>2. LastLooked' = LastLooked /\ \A t : Matches(t)' <=> Matches(t)
    BY <2>1, QuestionStays
  <2>3. NothingIsPassed' /\ CronTypes'
    BY <1>1, <2>1, <2>2 DEF NothingIsPassed, CronTypes
  <2>4. Matches(candidate)'
    BY <2>1 DEF Matches, In, IsStar
  <2> QED BY <2>3, <2>4 DEF CronIInv
<1>5. CASE NextMinute
  <2>1. UNCHANGED <<expression, after, answer>> /\ candidate' = candidate + 1 /\ answer = "searching"
        /\ ~Matches(candidate)
    BY <1>5 DEF NextMinute, Searching
  <2>2. LastLooked' = LastLooked /\ \A t : Matches(t)' <=> Matches(t)
    BY <2>1, QuestionStays
  <2>3. CronTypes'
    BY <1>1, <2>1 DEF CronTypes
  <2>4. \A t \in after + 1 .. candidate : t <= LastLooked => ~Matches(t)
    <3>1. \A t \in after + 1 .. candidate : t = candidate \/ t \in after + 1 .. candidate - 1
      BY <1>1 DEF CronTypes
    <3> QED BY <1>1, <2>1, <3>1 DEF NothingIsPassed
  <2>5. after' + 1 .. candidate' - 1 = after + 1 .. candidate
    BY <1>1, <2>1 DEF CronTypes
  <2>6. NothingIsPassed'
    BY <2>2, <2>4, <2>5 DEF NothingIsPassed
  <2> QED BY <2>1, <2>3, <2>6 DEF CronIInv
<1>6. CASE BeyondHorizon
  <2>1. UNCHANGED <<expression, after, candidate>> /\ answer' = "none"
    BY <1>6 DEF BeyondHorizon
  <2>2. LastLooked' = LastLooked /\ \A t : Matches(t)' <=> Matches(t)
    BY <2>1, QuestionStays
  <2>3. NothingIsPassed' /\ CronTypes'
    BY <1>1, <2>1, <2>2 DEF NothingIsPassed, CronTypes
  <2> QED BY <2>1, <2>3 DEF CronIInv
<1>7. CASE UNCHANGED cronVars
  <2>1. UNCHANGED <<expression, after, candidate, answer>>
    BY <1>7 DEF cronVars
  <2>2. LastLooked' = LastLooked /\ \A t : Matches(t)' <=> Matches(t)
    BY <2>1, QuestionStays
  <2>3. NothingIsPassed' /\ CronTypes'
    BY <1>1, <2>1, <2>2 DEF NothingIsPassed, CronTypes
  <2>4. Matches(candidate)' <=> Matches(candidate)
    BY <2>1 DEF Matches, In, IsStar
  <2> QED BY <2>1, <2>3, <2>4 DEF CronIInv
<1> QED BY <1>3, <1>4, <1>5, <1>6, <1>7 DEF CronNext

(* The answer of get_next_trigger is the first time after the given one that the *)
(* expression names, whatever the calendar and the expression are.               *)
THEOREM FirstTimeIsFound == CronSpec => []NextTriggerIsFirst
<1>1. CronIInv => NextTriggerIsFirst
  BY DEF CronIInv, CronTypes, NothingIsPassed, NextTriggerIsFirst
<1> QED BY CronInitially, CronStep, <1>1, PTL DEF CronSpec

-----------------------------------------------------------------------------
(***************************************************************************)
(* MemoryNotes.                                                            *)
(***************************************************************************)

AtWork == {"backup", "replace", "lock", "delete", "insert", "commit", "rollback", "undo"}

(* write of a note, index_external of a summary. *)
NoteActs ==
    [pc : AtWork, op : {"write"}, key : Notes, text : Texts, prior : {"none", "saved", "unsaved"},
     alone : BOOLEAN]

SummaryActs ==
    [pc : {"lock", "delete", "insert", "commit", "rollback"}, op : {"external"}, key : Summaries,
     text : Texts, prior : {"none"}, alone : BOOLEAN]

Acts == NoteActs \cup SummaryActs

NotesTypes ==
    /\ noteFile \in [Notes -> SUBSET Texts]
    /\ backup \in [Notes -> SUBSET Texts]
    /\ rows \in [Keys -> SUBSET Texts]
    /\ pathRows \in [Notes -> SUBSET Texts]
    /\ uncommitted \in [Keys -> SUBSET Texts]
    /\ author \in [Authors -> {NoAct} \cup Acts]
    /\ lock \in Authors \cup {NoAuthor}
    /\ up \in BOOLEAN
    /\ believed \in [Keys -> SUBSET Texts]
    /\ strained \in SUBSET Keys

Holding == {"delete", "insert", "commit"}

(* Who is between taking _lock and its commit or failure holds it. *)
LockIsHeld == \A a \in Authors : lock = a <=> author[a].pc \in Holding

NobodyWorksWhileDown == ~up => \A a \in Authors : author[a] = NoAct

(* A call that is alone shares its key with none, and a key that is not strained *)
(* has only such calls.                                                          *)
AloneIsAlone ==
    \A a, b \in Authors :
        author[a] # NoAct /\ author[b] # NoAct /\ author[a].key = author[b].key /\ author[a].alone = TRUE
        => a = b

(* The transaction differs from the rows at keys that are under way only. *)
UncommittedIsOwn ==
    \A k \in Keys : (\A b \in Underway : author[b].key # k) => uncommitted[k] = rows[k]

(* What a call has done to the file and the transaction, when it is alone, and *)
(* what it can go back to, when its key is not strained.                       *)
Progress(q) ==
    /\ q.alone = TRUE /\ q.op = "write" /\ q.pc \notin {"backup", "replace"} => noteFile[q.key] = {q.text}
    /\ q.alone = TRUE /\ q.pc = "insert" => uncommitted[q.key] = {}
    /\ q.alone = TRUE /\ q.pc = "commit" => uncommitted[q.key] = {q.text}
    /\ q.key \notin strained => q.alone = TRUE
    /\ q.key \notin strained /\ q.op = "write" =>
          /\ q.pc = "backup" => q.prior = "none"
          /\ q.pc # "backup" /\ q.prior = "saved" => backup[q.key] = believed[q.key] /\ backup[q.key] # {}
          /\ q.pc # "backup" /\ q.prior = "none" => believed[q.key] = {}

CallsGoOn == \A a \in Authors : author[a] # NoAct => Progress(author[a])

(* Of a key that is not strained the committed rows are what its caller was told; *)
(* so is the file of a note before it is replaced, and after it is put back.      *)
RowsAgree ==
    \A k \in Keys \ strained : rows[k] = believed[k] /\ (k \in Notes => pathRows[k] = {})

FilesAgree ==
    \A n \in Notes \ strained :
        (\A a \in Authors : author[a] # NoAct /\ author[a].key = n => author[a].pc \in {"backup", "replace"})
        => noteFile[n] = believed[n]

(* The inductive invariant of the notes. *)
NotesIInv ==
    /\ NotesTypes
    /\ LockIsHeld
    /\ NobodyWorksWhileDown
    /\ AloneIsAlone
    /\ UncommittedIsOwn
    /\ CallsGoOn
    /\ RowsAgree
    /\ FilesAgree

(* The invariant holds at the start. *)
LEMMA NotesInitially == NotesInit => NotesIInv
<1> SUFFICES ASSUME NotesInit PROVE NotesIInv
  OBVIOUS
<1>1. NotesTypes
  BY DEF NotesInit, NotesTypes
<1>2. \A a \in Authors : author[a] = NoAct /\ author[a].pc \notin Holding /\ lock # a
  BY NotesAssumption DEF NotesInit, NoAct, Holding
<1>3. /\ LockIsHeld /\ NobodyWorksWhileDown /\ AloneIsAlone /\ CallsGoOn
  BY <1>2 DEF LockIsHeld, NobodyWorksWhileDown, AloneIsAlone, CallsGoOn
<1>4. UncommittedIsOwn /\ RowsAgree /\ FilesAgree
  BY DEF NotesInit, UncommittedIsOwn, RowsAgree, FilesAgree, Keys
<1> QED BY <1>1, <1>3, <1>4 DEF NotesIInv

(* A thread is idle or at work. *)
LEMMA IdleOrAtWork ==
    ASSUME NEW q \in {NoAct} \cup Acts
    PROVE  /\ q = NoAct <=> q.pc = "idle"
           /\ q # NoAct => /\ q \in Acts /\ q.pc \in AtWork /\ q.key \in Keys
                           /\ q.text \in Texts /\ q.alone \in BOOLEAN
                           /\ q.op \in {"write", "external"}
                           /\ q.op = "write" <=> q.key \in Notes
                           /\ q.op = "external" <=> q.key \in Summaries
                           /\ q.pc \in {"backup", "replace", "undo"} => q.op = "write"
BY NotesAssumption DEF Acts, NoteActs, SummaryActs, AtWork, NoAct, Keys

(* The invariant implies what the run checks. *)
LEMMA NotesImplied == NotesIInv => NotesInv
<1> SUFFICES ASSUME NotesIInv, NEW k \in Keys \ strained, Acting(k) = {}
             PROVE  /\ rows[k] = believed[k]
                    /\ k \in Notes => noteFile[k] = believed[k] /\ pathRows[k] = {}
  BY DEF NotesInv
<1>1. rows[k] = believed[k] /\ (k \in Notes => pathRows[k] = {})
  BY DEF NotesIInv, RowsAgree
<1>2. ASSUME k \in Notes PROVE noteFile[k] = believed[k]
  <2>1. \A a \in Authors : ~(author[a] # NoAct /\ author[a].key = k)
    BY IdleOrAtWork DEF Acting, NotesIInv, NotesTypes
  <2> QED BY <1>2, <2>1 DEF NotesIInv, FilesAgree
<1> QED BY <1>1, <1>2

-----------------------------------------------------------------------------
(* A call that goes on as it was, or is not alone any more with a key in keys. *)
Stays(q, r, keys) ==
    \/ q = NoAct /\ r = NoAct
    \/ /\ q # NoAct /\ r # NoAct
       /\ r.pc = q.pc /\ r.op = q.op /\ r.key = q.key /\ r.text = q.text /\ r.prior = q.prior
       /\ r.alone = q.alone \/ (r.alone = FALSE /\ q.key \in keys)

(* What nobody touches stays. *)
LEMMA UntouchedStays == ASSUME NEW q, NEW keys PROVE Stays(q, q, keys)
BY Zenon DEF Stays

(* What NotAlone does to a call. *)
LEMMA NotAloneMeans ==
    ASSUME NEW acts \in [Authors -> {NoAct} \cup Acts], NEW keys, NEW b \in Authors
    PROVE  /\ NotAlone(keys, acts)[b] \in {NoAct} \cup Acts
           /\ Stays(acts[b], NotAlone(keys, acts)[b], keys)
           /\ acts[b] # NoAct /\ acts[b].key \in keys => NotAlone(keys, acts)[b].alone = FALSE
<1>1. PICK q : q = acts[b]
  OBVIOUS
<1>2. q \in {NoAct} \cup Acts
  BY <1>1
<1>3. NotAlone(keys, acts)[b] =
         IF q.pc # "idle" /\ q.key \in keys THEN [q EXCEPT !.alone = FALSE] ELSE q
  BY <1>1 DEF NotAlone
<1>4. CASE q # NoAct /\ q.key \in keys
  <2>1. PICK r : r = [q EXCEPT !.alone = FALSE]
    OBVIOUS
  <2>2. NotAlone(keys, acts)[b] = r /\ q \in Acts
    BY <1>2, <1>3, <1>4, <2>1, IdleOrAtWork
  <2>3. CASE q \in NoteActs
    <3>1. r \in NoteActs /\ r.alone = FALSE
      BY <2>1, <2>3 DEF NoteActs
    <3>2. r.pc = q.pc /\ r.op = q.op /\ r.key = q.key /\ r.text = q.text /\ r.prior = q.prior
      BY <2>1, <2>3 DEF NoteActs
    <3>3. r # NoAct
      BY <3>1 DEF NoteActs, NoAct, AtWork
    <3> QED BY <1>1, <1>4, <2>2, <3>1, <3>2, <3>3 DEF Stays, Acts
  <2>4. CASE q \in SummaryActs
    <3>1. r \in SummaryActs /\ r.alone = FALSE
      BY <2>1, <2>4 DEF SummaryActs
    <3>2. r.pc = q.pc /\ r.op = q.op /\ r.key = q.key /\ r.text = q.text /\ r.prior = q.prior
      BY <2>1, <2>4 DEF SummaryActs
    <3>3. r # NoAct
      BY <3>1 DEF SummaryActs, NoAct
    <3> QED BY <1>1, <1>4, <2>2, <3>1, <3>2, <3>3 DEF Stays, Acts
  <2> QED BY <2>2, <2>3, <2>4 DEF Acts
<1>5. CASE ~(q # NoAct /\ q.key \in keys)
  <2>1. NotAlone(keys, acts)[b] = q
    BY <1>2, <1>3, <1>5, IdleOrAtWork
  <2>2. Stays(q, q, keys)
    BY UntouchedStays
  <2> QED BY <1>1, <1>2, <1>5, <2>1, <2>2
<1> QED BY <1>4, <1>5

(* The threads but a stay, a is at work at its key or rests: those that are alone *)
(* are alone still.                                                               *)
LEMMA AloneStays ==
    ASSUME NotesIInv, NEW a \in Authors, NEW keys,
           \A b \in Authors \ {a} : Stays(author[b], author'[b], keys),
           author'[a] # NoAct =>
              author[a] # NoAct /\ author'[a].key = author[a].key
              /\ (author'[a].alone = TRUE => author[a].alone = TRUE)
    PROVE  AloneIsAlone'
<1> SUFFICES ASSUME NEW b \in Authors, NEW c \in Authors,
                    author'[b] # NoAct, author'[c] # NoAct,
                    author'[b].key = author'[c].key, author'[b].alone = TRUE
             PROVE  b = c
  BY DEF AloneIsAlone
<1>1. ASSUME NEW d \in Authors, author'[d] # NoAct
      PROVE  /\ author[d] # NoAct /\ author'[d].key = author[d].key
             /\ author'[d].alone = TRUE => author[d].alone = TRUE
  BY <1>1 DEF Stays
<1> QED BY <1>1 DEF NotesIInv, AloneIsAlone

(* A thread that stays goes on, where nothing has happened to its key. *)
LEMMA OthersGoOn ==
    ASSUME NotesIInv, NEW a \in Authors, NEW b \in Authors, b # a,
           author[a] # NoAct, author[b] # NoAct,
           Stays(author[b], author'[b], strained'),
           author[a].key \in strained => author[a].key \in strained' \/ author[a].alone = TRUE,
           author[b].key # author[a].key =>
              /\ author[b].key \in strained => author[b].key \in strained'
              /\ author[b].op = "write" =>
                    /\ noteFile'[author[b].key] = noteFile[author[b].key]
                    /\ backup'[author[b].key] = backup[author[b].key]
              /\ author[b].pc \in {"insert", "commit"} =>
                    uncommitted'[author[b].key] = uncommitted[author[b].key] \/ author'[b].alone = FALSE
              /\ believed'[author[b].key] = believed[author[b].key]
    PROVE  Progress(author[b])'
<1>1. PICK q, r : q = author[b] /\ r = author'[b]
  OBVIOUS
<1>2. q # NoAct /\ r # NoAct
  BY <1>1 DEF Stays
<1>3. /\ r.pc = q.pc /\ r.op = q.op /\ r.key = q.key /\ r.text = q.text /\ r.prior = q.prior
      /\ r.alone = q.alone \/ (r.alone = FALSE /\ q.key \in strained')
  BY <1>1, <1>2 DEF Stays
<1>4. Progress(q)
  BY <1>1, <1>2 DEF NotesIInv, CallsGoOn
<1>5. CASE q.key = author[a].key
  <2>1. q.alone # TRUE /\ author[a].alone # TRUE
    BY <1>1, <1>5 DEF NotesIInv, AloneIsAlone
  <2>2. r.key \in strained' /\ r.alone # TRUE
    BY <1>3, <1>4, <1>5, <2>1 DEF Progress
  <2> QED BY <1>1, <2>2 DEF Progress
<1>6. CASE q.key # author[a].key
  BY <1>1, <1>3, <1>4, <1>6 DEF Progress
<1> QED BY <1>5, <1>6

-----------------------------------------------------------------------------
(* What the step of the thread a is to everybody else: the others stay, and go on. *)
OthersStay(a) == \A b \in Authors \ {a} : Stays(author[b], author'[b], strained')

(* A thread that moves while the rest stays. *)
LEMMA OneActMoves ==
    ASSUME NotesIInv, NEW a \in Authors, NEW q \in {NoAct} \cup Acts,
           author' = [author EXCEPT ![a] = q]
    PROVE  /\ author' \in [Authors -> {NoAct} \cup Acts]
           /\ author'[a] = q
           /\ \A b \in Authors \ {a} : author'[b] = author[b]
           /\ OthersStay(a)
<1>1. author \in [Authors -> {NoAct} \cup Acts]
  BY DEF NotesIInv, NotesTypes
<1>2. \A b \in Authors : Stays(author[b], author[b], strained')
  BY UntouchedStays
<1> QED BY <1>1, <1>2 DEF OthersStay

(* Who holds the lock, after a step of a. *)
LEMMA LockStays ==
    ASSUME NotesIInv, NEW a \in Authors, OthersStay(a),
           author'[a].pc \in Holding <=> lock' = a,
           lock' = lock \/ (lock' = a /\ lock = NoAuthor) \/ (lock' = NoAuthor /\ lock = a)
    PROVE  LockIsHeld'
<1>1. NoAct.pc \notin Holding
  BY DEF NoAct, Holding
<1>2. ASSUME NEW b \in Authors, b # a PROVE lock' = b <=> author'[b].pc \in Holding
  <2>1. author'[b].pc \in Holding <=> author[b].pc \in Holding
    BY <1>2 DEF OthersStay, Stays
  <2>2. lock' = b <=> lock = b
    BY <1>2, NotesAssumption
  <2> QED BY <2>1, <2>2 DEF NotesIInv, LockIsHeld
<1> QED BY <1>2 DEF LockIsHeld

(* While a works the store is up. *)
LEMMA UpStays ==
    ASSUME NotesIInv, NEW a \in Authors, author[a] # NoAct, up' = up
    PROVE  NobodyWorksWhileDown'
BY DEF NotesIInv, NobodyWorksWhileDown

(* Everything that all steps of a call have in common: it gives its place in the code *)
(* and leaves what belongs to other keys.                                             *)
OnlyOwnKey(a, k) ==
    /\ OthersStay(a)
    /\ author'[a] # NoAct =>
          /\ author'[a].key = k
          /\ author'[a].alone = TRUE => author[a].alone = TRUE
          /\ Progress(author[a])'
    /\ author'[a].pc \in Holding <=> lock' = a
    /\ lock' = lock \/ (lock' = a /\ lock = NoAuthor) \/ (lock' = NoAuthor /\ lock = a)
    /\ up' = up
    /\ k \in strained => k \in strained' \/ author[a].alone = TRUE
    /\ \A j \in Keys \ {k} : j \in strained => j \in strained'
    /\ \A n \in Notes \ {k} : noteFile'[n] = noteFile[n] /\ backup'[n] = backup[n]
    /\ \A j \in Keys \ {k} : believed'[j] = believed[j]
    /\ \A b \in Authors \ {a} :
          author[b] # NoAct /\ author[b].key # k /\ author[b].pc \in {"insert", "commit"} =>
             uncommitted'[author[b].key] = uncommitted[author[b].key] \/ author'[b].alone = FALSE
    /\ k \in Notes \ strained' /\ (author'[a] = NoAct \/ author'[a].pc \in {"backup", "replace"}) =>
          noteFile'[k] = believed'[k]

LEMMA StepOfCall ==
    ASSUME NotesIInv, NEW a \in Authors, author[a] # NoAct, NEW k \in Keys, k = author[a].key,
           author' \in [Authors -> {NoAct} \cup Acts], OnlyOwnKey(a, k)
    PROVE  LockIsHeld' /\ NobodyWorksWhileDown' /\ AloneIsAlone' /\ CallsGoOn' /\ FilesAgree'
<1> USE DEF OnlyOwnKey
<1>1. LockIsHeld' /\ NobodyWorksWhileDown'
  BY LockStays, UpStays
<1>2. AloneIsAlone'
  BY AloneStays DEF OthersStay
<1>3. CallsGoOn'
  <2>1. ASSUME NEW b \in Authors, b # a, author'[b] # NoAct PROVE Progress(author[b])'
    <3>1. Stays(author[b], author'[b], strained') /\ author[b] # NoAct
      BY <2>1 DEF OthersStay, Stays
    <3>2. author[b].key \in Keys /\ (author[b].op = "write" => author[b].key \in Notes)
      BY <3>1, IdleOrAtWork DEF NotesIInv, NotesTypes
    <3> QED BY <2>1, <3>1, <3>2, OthersGoOn
  <2>2. author'[a] # NoAct => Progress(author[a])'
    OBVIOUS
  <2> QED BY <2>1, <2>2 DEF CallsGoOn
<1>4. ASSUME NEW n \in Notes \ strained',
             \A b \in Authors : author'[b] # NoAct /\ author'[b].key = n => author'[b].pc \in {"backup", "replace"}
      PROVE  noteFile'[n] = believed'[n]
  <2>1. CASE n = k
    BY <1>4, <2>1
  <2>2. CASE n # k
    <3>1. ASSUME NEW b \in Authors, author[b] # NoAct, author[b].key = n
          PROVE  author[b].pc \in {"backup", "replace"}
      <4>1. b # a
        BY <2>2, <3>1
      <4>2. author'[b] # NoAct /\ author'[b].key = n /\ author'[b].pc = author[b].pc
        BY <3>1, <4>1 DEF OthersStay, Stays
      <4> QED BY <1>4, <4>2
    <3>2. n \in Keys /\ n \notin strained
      BY <1>4, <2>2 DEF Keys
    <3>3. noteFile[n] = believed[n]
      BY <3>1, <3>2 DEF NotesIInv, FilesAgree
    <3> QED BY <2>2, <3>2, <3>3
  <2> QED BY <2>1, <2>2
<1> QED BY <1>1, <1>2, <1>3, <1>4 DEF FilesAgree

UnderwayPcs == {"delete", "insert", "commit", "rollback"}

(* The transaction, after a step that only touches the rows of a call under way. *)
LEMMA UncommittedStays ==
    ASSUME NotesIInv, NEW a \in Authors, OthersStay(a),
           author[a].pc \in UnderwayPcs => author'[a].pc \in UnderwayPcs,
           author'[a].pc \in UnderwayPcs => author'[a].key = author[a].key,
           UNCHANGED rows,
           \A j \in Keys : j # author[a].key \/ author'[a].pc \notin UnderwayPcs => uncommitted'[j] = uncommitted[j]
    PROVE  UncommittedIsOwn'
<1> SUFFICES ASSUME NEW k \in Keys, \A b \in Authors : author'[b].pc \in UnderwayPcs => author'[b].key # k
             PROVE  uncommitted'[k] = rows'[k]
  BY DEF UncommittedIsOwn, Underway, UnderwayPcs
<1>1. ASSUME NEW b \in Authors, b # a, author[b].pc \in UnderwayPcs PROVE author[b].key # k
  <2>1. author[b] # NoAct
    BY <1>1 DEF UnderwayPcs, NoAct
  <2>2. author'[b].pc = author[b].pc /\ author'[b].key = author[b].key
    BY <1>1, <2>1 DEF OthersStay, Stays
  <2> QED BY <1>1, <2>2
<1>2. author[a].pc \in UnderwayPcs => author[a].key # k
  OBVIOUS
<1>3. uncommitted[k] = rows[k]
  BY <1>1, <1>2 DEF NotesIInv, UncommittedIsOwn, Underway, UnderwayPcs
<1> QED BY <1>3

(* A step of a call that leaves the committed rows, and what callers were told. *)
LEMMA CallKeeps ==
    ASSUME NotesIInv, NEW a \in Authors, author[a] # NoAct, NEW k \in Keys, k = author[a].key,
           author' \in [Authors -> {NoAct} \cup Acts], OthersStay(a),
           author'[a] # NoAct =>
              /\ author'[a].key = k
              /\ author'[a].alone = TRUE => author[a].alone = TRUE
              /\ Progress(author[a])',
           author'[a].pc \in Holding <=> lock' = a,
           lock' = lock \/ (lock' = a /\ lock = NoAuthor) \/ (lock' = NoAuthor /\ lock = a),
           UNCHANGED <<rows, pathRows, believed, up>>,
           strained' \in SUBSET Keys, strained \subseteq strained',
           noteFile' \in [Notes -> SUBSET Texts], backup' \in [Notes -> SUBSET Texts],
           uncommitted' \in [Keys -> SUBSET Texts],
           \A n \in Notes \ {k} : noteFile'[n] = noteFile[n] /\ backup'[n] = backup[n],
           \/ /\ author[a].pc \in UnderwayPcs => author'[a].pc \in UnderwayPcs
              /\ \A j \in Keys : j # k \/ author'[a].pc \notin UnderwayPcs => uncommitted'[j] = uncommitted[j]
           \/ uncommitted' = rows /\ lock = NoAuthor,
           k \in Notes \ strained' /\ (author'[a] = NoAct \/ author'[a].pc \in {"backup", "replace"}) =>
              noteFile'[k] = believed[k]
    PROVE  NotesIInv'
<1>1. lock' \in Authors \cup {NoAuthor} /\ rows' = rows /\ pathRows' = pathRows /\ believed' = believed /\ up' = up
  BY DEF NotesIInv, NotesTypes
<1>2. NotesTypes'
  BY <1>1 DEF NotesIInv, NotesTypes
<1>3. ASSUME NEW b \in Authors \ {a}, author[b] # NoAct, author[b].key # k, author[b].pc \in {"insert", "commit"}
      PROVE  uncommitted'[author[b].key] = uncommitted[author[b].key]
  <2>1. author[b].key \in Keys /\ lock = b /\ lock # NoAuthor
    BY <1>3, IdleOrAtWork, NotesAssumption DEF NotesIInv, NotesTypes, LockIsHeld, Holding
  <2> QED BY <1>3, <2>1
<1>4. LockIsHeld' /\ NobodyWorksWhileDown' /\ AloneIsAlone' /\ CallsGoOn' /\ FilesAgree'
  <2>1. \A j \in Keys : j \in strained => j \in strained'
    OBVIOUS
  <2>2. k \in Notes \ strained' /\ (author'[a] = NoAct \/ author'[a].pc \in {"backup", "replace"}) =>
           noteFile'[k] = believed'[k]
    BY <1>1
  <2>3. \A b \in Authors \ {a} :
           author[b] # NoAct /\ author[b].key # k /\ author[b].pc \in {"insert", "commit"} =>
              uncommitted'[author[b].key] = uncommitted[author[b].key] \/ author'[b].alone = FALSE
    BY <1>3
  <2>4. up' = up /\ (\A j \in Keys \ {k} : believed'[j] = believed[j])
        /\ (\A j \in Keys \ {k} : j \in strained => j \in strained')
        /\ (k \in strained => k \in strained' \/ author[a].alone = TRUE)
    BY <1>1, <2>1
  <2>5. OnlyOwnKey(a, k)
    BY <2>2, <2>3, <2>4 DEF OnlyOwnKey
  <2> QED BY <2>5, StepOfCall
<1>5. UncommittedIsOwn'
  <2>1. author'[a].pc \in UnderwayPcs => author'[a].key = author[a].key
    BY DEF UnderwayPcs, NoAct
  <2>2. CASE uncommitted' = rows
    BY <1>1, <2>2 DEF UncommittedIsOwn
  <2>3. CASE ~(uncommitted' = rows)
    BY <1>1, <2>1, <2>3, UncommittedStays
  <2> QED BY <2>2, <2>3
<1>6. RowsAgree'
  BY <1>1 DEF NotesIInv, RowsAgree
<1> QED BY <1>2, <1>4, <1>5, <1>6 DEF NotesIInv

SummaryPcs == {"lock", "delete", "insert", "commit", "rollback"}

(* A call that goes to another place of the code. *)
LEMMA TurnsMean ==
    ASSUME NotesIInv, NEW a \in Authors, author[a] # NoAct, NEW at \in AtWork,
           author[a].op = "external" => at \in SummaryPcs,
           Turns(a, at)
    PROVE  /\ author' \in [Authors -> {NoAct} \cup Acts] /\ OthersStay(a)
           /\ author'[a] # NoAct /\ author'[a].pc = at
           /\ author'[a].op = author[a].op /\ author'[a].key = author[a].key
           /\ author'[a].text = author[a].text /\ author'[a].prior = author[a].prior
           /\ author'[a].alone = author[a].alone
<1>1. PICK old : old = author[a]
  OBVIOUS
<1>2. PICK q : q = [old EXCEPT !.pc = at]
  OBVIOUS
<1>3. old \in Acts /\ author' = [author EXCEPT ![a] = q]
  BY <1>1, <1>2 DEF Turns, NotesIInv, NotesTypes
<1>4. /\ q \in Acts /\ q # NoAct /\ q.pc = at
      /\ q.op = old.op /\ q.key = old.key /\ q.text = old.text /\ q.prior = old.prior
      /\ q.alone = old.alone
  <2>1. CASE old \in NoteActs
    <3>1. q \in NoteActs
      BY <1>2, <2>1 DEF NoteActs
    <3>2. q.pc = at /\ q.op = old.op /\ q.key = old.key /\ q.text = old.text /\ q.prior = old.prior
      BY <1>2, <2>1 DEF NoteActs
    <3>3. q.alone = old.alone
      BY <1>2, <2>1 DEF NoteActs
    <3> QED BY <3>1, <3>2, <3>3 DEF Acts, AtWork, NoAct
  <2>2. CASE old \in SummaryActs
    <3>1. at \in SummaryPcs
      BY <1>1, <2>2 DEF SummaryActs
    <3>2. q \in SummaryActs
      BY <1>2, <2>2, <3>1 DEF SummaryActs, SummaryPcs
    <3>3. q.pc = at /\ q.op = old.op /\ q.key = old.key /\ q.text = old.text /\ q.prior = old.prior
      BY <1>2, <2>2 DEF SummaryActs
    <3>4. q.alone = old.alone
      BY <1>2, <2>2 DEF SummaryActs
    <3> QED BY <3>1, <3>2, <3>3, <3>4 DEF Acts, AtWork, NoAct, SummaryPcs
  <2> QED BY <1>3, <2>1, <2>2 DEF Acts
<1>5. q \in {NoAct} \cup Acts
  BY <1>4
<1>6. /\ author' \in [Authors -> {NoAct} \cup Acts] /\ OthersStay(a)
      /\ author'[a] = q
  BY <1>3, <1>5, OneActMoves
<1> QED BY <1>1, <1>4, <1>6

(* A call that ends. *)
LEMMA RestsMeans ==
    ASSUME NotesIInv, NEW a \in Authors, Rests(a)
    PROVE  /\ author' \in [Authors -> {NoAct} \cup Acts] /\ OthersStay(a)
           /\ author'[a] = NoAct /\ author'[a].pc = "idle"
BY OneActMoves DEF Rests, NoAct

(* Who is at a place of the code. *)
LEMMA NoteCallAt ==
    ASSUME NotesIInv, NEW a \in Authors, author[a].pc # "idle"
    PROVE  /\ author[a] # NoAct /\ author[a] \in Acts /\ author[a].key \in Keys
           /\ author[a].text \in Texts /\ Progress(author[a])
           /\ lock = a <=> author[a].pc \in Holding
           /\ author[a].op = "write" <=> author[a].key \in Notes
           /\ author[a].op = "external" <=> author[a].key \in Summaries
           /\ author[a].pc \in {"backup", "replace", "undo"} => author[a].op = "write"
           /\ author[a].op \in {"write", "external"}
           /\ author[a].key \notin strained => author[a].alone = TRUE
           /\ author[a].alone = TRUE =>
                 \A b \in Authors : author[b] # NoAct /\ author[b].key = author[a].key => b = a
<1>1. author[a] \in {NoAct} \cup Acts
  BY DEF NotesIInv, NotesTypes
<1>2. author[a] # NoAct
  BY DEF NoAct
<1>3. Progress(author[a])
  BY <1>2 DEF NotesIInv, CallsGoOn
<1> QED BY <1>1, <1>2, <1>3, IdleOrAtWork DEF NotesIInv, LockIsHeld, AloneIsAlone, Progress

(* The file of a note that is not strained, before a write replaces it. *)
LEMMA OldFile ==
    ASSUME NotesIInv, NEW a \in Authors, author[a].pc \in {"backup", "replace"},
           author[a].key \notin strained
    PROVE  noteFile[author[a].key] = believed[author[a].key]
<1>1. author[a].pc # "idle"
  OBVIOUS
<1>2. /\ author[a].key \in Notes
      /\ \A b \in Authors : author[b] # NoAct /\ author[b].key = author[a].key => b = a
  BY <1>1, NoteCallAt
<1> QED BY <1>2 DEF NotesIInv, FilesAgree

-----------------------------------------------------------------------------
(* os.replace: the file has the new text. *)
LEMMA ReplaceKeeps ==
    ASSUME NotesIInv, NEW a \in Authors, Replace(a)
    PROVE  NotesIInv'
<1>1. PICK k : k = author[a].key
  OBVIOUS
<1>2. /\ author[a].pc = "replace" /\ Turns(a, "lock")
      /\ noteFile' = [noteFile EXCEPT ![k] = {author[a].text}]
      /\ UNCHANGED <<backup, rows, pathRows, uncommitted, recent, lock, up, believed, strained>>
  BY <1>1 DEF Replace, AuthorAt, tablesOfNotes, noteHistory
<1>3. /\ author[a] # NoAct /\ k \in Keys /\ author[a].text \in Texts /\ Progress(author[a])
      /\ author[a].op = "write" /\ k \in Notes /\ lock # a
  BY <1>1, <1>2, NoteCallAt DEF Holding
<1>4. /\ author' \in [Authors -> {NoAct} \cup Acts] /\ OthersStay(a)
      /\ author'[a] # NoAct /\ author'[a].pc = "lock"
      /\ author'[a].op = author[a].op /\ author'[a].key = author[a].key
      /\ author'[a].text = author[a].text /\ author'[a].prior = author[a].prior
      /\ author'[a].alone = author[a].alone
  BY <1>2, <1>3, TurnsMean DEF AtWork
<1>5. noteFile \in [Notes -> SUBSET Texts] /\ backup \in [Notes -> SUBSET Texts]
      /\ uncommitted \in [Keys -> SUBSET Texts] /\ strained \in SUBSET Keys
  BY DEF NotesIInv, NotesTypes
<1>6. noteFile' \in [Notes -> SUBSET Texts] /\ noteFile'[k] = {author[a].text}
      /\ \A n \in Notes \ {k} : noteFile'[n] = noteFile[n]
  BY <1>2, <1>3, <1>5
<1>7. Progress(author[a])'
  BY <1>1, <1>2, <1>3, <1>4, <1>6 DEF Progress
<1> QED BY <1>1, <1>2, <1>3, <1>4, <1>5, <1>6, <1>7, CallKeeps DEF Holding, UnderwayPcs

(* The .bak of the file, in the place of the one before. *)
LEMMA BackUpKeeps ==
    ASSUME NotesIInv, NEW a \in Authors, BackUp(a)
    PROVE  NotesIInv'
<1>1. PICK k, old : k = author[a].key /\ old = author[a]
  OBVIOUS
<1>2. /\ author[a].pc = "backup"
      /\ UNCHANGED <<noteFile, rows, pathRows, uncommitted, recent, lock, up, believed, strained>>
  BY DEF BackUp, AuthorAt, tablesOfNotes
<1>3. /\ author[a] # NoAct /\ k \in Keys /\ author[a] \in Acts /\ Progress(author[a])
      /\ author[a].op = "write" /\ k \in Notes /\ lock # a
  BY <1>1, <1>2, NoteCallAt DEF Holding
<1>4. old \in NoteActs
  BY <1>1, <1>3 DEF Acts, SummaryActs
<1>5. /\ noteFile \in [Notes -> SUBSET Texts] /\ backup \in [Notes -> SUBSET Texts]
      /\ uncommitted \in [Keys -> SUBSET Texts] /\ strained \in SUBSET Keys
  BY DEF NotesIInv, NotesTypes
<1>6. PICK prior \in {"none", "saved", "unsaved"} :
         /\ author' = [author EXCEPT ![a] = [old EXCEPT !.pc = "replace", !.prior = prior]]
         /\ prior # "none"
         /\ prior = "saved" => noteFile[k] # {} /\ backup' = [backup EXCEPT ![k] = noteFile[k]]
         /\ prior = "unsaved" => backup' = backup
      \/ /\ author' = [author EXCEPT ![a] = [old EXCEPT !.pc = "replace"]]
         /\ prior = old.prior /\ noteFile[k] = {} /\ backup' = backup
  <2>1. CASE noteFile[k] = {} /\ author' = [author EXCEPT ![a].pc = "replace"] /\ UNCHANGED backup
    <3>1. old.prior \in {"none", "saved", "unsaved"}
      BY <1>4 DEF NoteActs
    <3>2. author' = [author EXCEPT ![a] = [old EXCEPT !.pc = "replace"]]
      BY <1>1, <2>1
    <3> QED BY <2>1, <3>1, <3>2
  <2>2. CASE /\ noteFile[k] # {} /\ backup' = [backup EXCEPT ![k] = noteFile[k]]
             /\ author' = [author EXCEPT ![a].pc = "replace", ![a].prior = "saved"]
    <3>1. author' = [author EXCEPT ![a] = [old EXCEPT !.pc = "replace", !.prior = "saved"]]
      BY <1>1, <2>2
    <3> QED BY <2>2, <3>1
  <2>3. CASE UNCHANGED backup /\ author' = [author EXCEPT ![a].pc = "replace", ![a].prior = "unsaved"]
    <3>1. author' = [author EXCEPT ![a] = [old EXCEPT !.pc = "replace", !.prior = "unsaved"]]
      BY <1>1, <2>3
    <3> QED BY <2>3, <3>1
  <2> QED BY <1>1, <2>1, <2>2, <2>3 DEF BackUp
<1>7. PICK q : q = author'[a]
  OBVIOUS
<1>8. /\ author' = [author EXCEPT ![a] = q] /\ q \in NoteActs
      /\ q.pc = "replace" /\ q.op = old.op /\ q.key = old.key /\ q.text = old.text
      /\ q.prior = prior /\ q.alone = old.alone
  <2>1. CASE author' = [author EXCEPT ![a] = [old EXCEPT !.pc = "replace", !.prior = prior]]
    <3>1. q = [old EXCEPT !.pc = "replace", !.prior = prior] /\ author' = [author EXCEPT ![a] = q]
      BY <1>7, <2>1 DEF NotesIInv, NotesTypes
    <3>2. q \in NoteActs
      BY <1>4, <3>1 DEF NoteActs, AtWork
    <3>3. q.pc = "replace" /\ q.op = old.op /\ q.key = old.key /\ q.text = old.text /\ q.prior = prior
      BY <1>4, <3>1 DEF NoteActs
    <3>4. q.alone = old.alone
      BY <1>4, <3>1 DEF NoteActs
    <3> QED BY <3>1, <3>2, <3>3, <3>4
  <2>2. CASE author' = [author EXCEPT ![a] = [old EXCEPT !.pc = "replace"]] /\ prior = old.prior
    <3>1. q = [old EXCEPT !.pc = "replace"] /\ author' = [author EXCEPT ![a] = q]
      BY <1>7, <2>2 DEF NotesIInv, NotesTypes
    <3>2. q \in NoteActs
      BY <1>4, <3>1 DEF NoteActs, AtWork
    <3>3. q.pc = "replace" /\ q.op = old.op /\ q.key = old.key /\ q.text = old.text /\ q.prior = prior
      BY <1>4, <2>2, <3>1 DEF NoteActs
    <3>4. q.alone = old.alone
      BY <1>4, <3>1 DEF NoteActs
    <3> QED BY <3>1, <3>2, <3>3, <3>4
  <2> QED BY <1>6, <2>1, <2>2
<1>9. /\ author' \in [Authors -> {NoAct} \cup Acts] /\ OthersStay(a) /\ q \in Acts
  BY <1>8, OneActMoves DEF Acts
<1>10. q # NoAct
  BY <1>8 DEF NoAct
<1>11. /\ backup' \in [Notes -> SUBSET Texts] /\ \A n \in Notes \ {k} : backup'[n] = backup[n]
       /\ k \notin strained => noteFile[k] = believed[k]
       /\ prior = "none" => noteFile[k] = {}
  BY <1>1, <1>2, <1>3, <1>5, <1>6, OldFile
<1>12. Progress(q)'
  <2>1. q.key = k /\ q.op = "write" /\ q.alone = old.alone /\ strained' = strained
    BY <1>1, <1>2, <1>3, <1>8
  <2>2. k \notin strained => old.alone = TRUE /\ old.prior = "none"
    BY <1>1, <1>2, <1>3 DEF Progress
  <2>3. k \notin strained /\ prior = "saved" => backup'[k] = believed[k] /\ backup'[k] # {}
    BY <1>3, <1>5, <1>6, <1>11, <2>2
  <2>4. k \notin strained /\ prior = "none" => believed[k] = {}
    BY <1>3, <1>6, <1>11
  <2> QED BY <1>2, <1>8, <2>1, <2>2, <2>3, <2>4 DEF Progress
<1>13. Progress(author[a])'
  BY <1>7, <1>12 DEF Progress
<1>14. /\ k = author[a].key /\ author'[a] # NoAct /\ author'[a].key = k
       /\ author'[a].alone = TRUE => author[a].alone = TRUE
  BY <1>1, <1>7, <1>8, <1>10
<1>15. /\ author'[a].pc \notin Holding \cup UnderwayPcs /\ author[a].pc \notin UnderwayPcs
       /\ author'[a].pc \in Holding <=> lock' = a
  BY <1>2, <1>3, <1>7, <1>8 DEF Holding, UnderwayPcs
<1>16. /\ strained' = strained /\ noteFile' = noteFile /\ uncommitted' = uncommitted /\ lock' = lock
       /\ UNCHANGED <<rows, pathRows, believed, up>>
  BY <1>2
<1>17. k \in Notes \ strained' => noteFile'[k] = believed[k]
  BY <1>11, <1>16
<1>18. \A n \in Notes \ {k} : noteFile'[n] = noteFile[n] /\ backup'[n] = backup[n]
  BY <1>11, <1>16
<1>19. /\ strained' \in SUBSET Keys /\ strained \subseteq strained' /\ noteFile' \in [Notes -> SUBSET Texts]
       /\ backup' \in [Notes -> SUBSET Texts] /\ uncommitted' \in [Keys -> SUBSET Texts]
  BY <1>5, <1>11, <1>16
<1>20. /\ author[a].pc \in UnderwayPcs => author'[a].pc \in UnderwayPcs
       /\ \A j \in Keys : j # k \/ author'[a].pc \notin UnderwayPcs => uncommitted'[j] = uncommitted[j]
  BY <1>15, <1>16
<1> QED BY <1>3, <1>9, <1>13, <1>14, <1>15, <1>16, <1>17, <1>18, <1>19, <1>20, CallKeeps

(* A file that is not replaced is the old one. *)
LEMMA ReplaceFailsKeeps ==
    ASSUME NotesIInv, NEW a \in Authors, ReplaceFails(a)
    PROVE  NotesIInv'
<1>1. PICK k : k = author[a].key
  OBVIOUS
<1>2. /\ author[a].pc = "replace" /\ Rests(a)
      /\ UNCHANGED <<noteFile, backup, rows, pathRows, uncommitted, recent, lock, up, believed, strained>>
  BY DEF ReplaceFails, AuthorAt, files, tablesOfNotes
<1>3. /\ author[a] # NoAct /\ k \in Keys /\ k \in Notes /\ lock # a
      /\ k \notin strained => noteFile[k] = believed[k]
  BY <1>1, <1>2, NoteCallAt, OldFile DEF Holding
<1>4. /\ author' \in [Authors -> {NoAct} \cup Acts] /\ OthersStay(a)
      /\ author'[a] = NoAct /\ author'[a].pc = "idle"
  BY <1>2, RestsMeans
<1>5. /\ noteFile \in [Notes -> SUBSET Texts] /\ backup \in [Notes -> SUBSET Texts]
      /\ uncommitted \in [Keys -> SUBSET Texts] /\ strained \in SUBSET Keys
  BY DEF NotesIInv, NotesTypes
<1> QED BY <1>1, <1>2, <1>3, <1>4, <1>5, CallKeeps DEF Holding, UnderwayPcs

(* The lock is taken. *)
LEMMA TakeNotesLockKeeps ==
    ASSUME NotesIInv, NEW a \in Authors, TakeNotesLock(a)
    PROVE  NotesIInv'
<1>1. PICK k : k = author[a].key
  OBVIOUS
<1>2. /\ author[a].pc = "lock" /\ Turns(a, "delete") /\ lock = NoAuthor /\ lock' = a
      /\ UNCHANGED <<noteFile, backup, rows, pathRows, uncommitted, recent, up, believed, strained>>
  BY DEF TakeNotesLock, AuthorAt, files, tablesOfNotes, noteHistory
<1>3. author[a] # NoAct /\ k \in Keys /\ Progress(author[a])
  BY <1>1, <1>2, NoteCallAt
<1>4. /\ author' \in [Authors -> {NoAct} \cup Acts] /\ OthersStay(a)
      /\ author'[a] # NoAct /\ author'[a].pc = "delete"
      /\ author'[a].op = author[a].op /\ author'[a].key = author[a].key
      /\ author'[a].text = author[a].text /\ author'[a].prior = author[a].prior
      /\ author'[a].alone = author[a].alone
  BY <1>2, <1>3, TurnsMean DEF AtWork, SummaryPcs
<1>5. /\ noteFile \in [Notes -> SUBSET Texts] /\ backup \in [Notes -> SUBSET Texts]
      /\ uncommitted \in [Keys -> SUBSET Texts] /\ strained \in SUBSET Keys
  BY DEF NotesIInv, NotesTypes
<1>6. Progress(author[a])'
  BY <1>1, <1>2, <1>3, <1>4 DEF Progress
<1> QED BY <1>1, <1>2, <1>3, <1>4, <1>5, <1>6, CallKeeps DEF Holding, UnderwayPcs

(* The statements of a call, in the transaction of the connection. *)
LEMMA DeleteRowsKeeps ==
    ASSUME NotesIInv, NEW a \in Authors, DeleteRows(a)
    PROVE  NotesIInv'
<1>1. PICK k : k = author[a].key
  OBVIOUS
<1>2. /\ author[a].pc = "delete" /\ Turns(a, "insert")
      /\ uncommitted' = [uncommitted EXCEPT ![k] = {}]
      /\ UNCHANGED <<noteFile, backup, rows, pathRows, recent, lock, up, believed, strained>>
  BY <1>1 DEF DeleteRows, AuthorAt, files, noteHistory
<1>3. author[a] # NoAct /\ k \in Keys /\ Progress(author[a]) /\ lock = a
  BY <1>1, <1>2, NoteCallAt DEF Holding
<1>4. /\ author' \in [Authors -> {NoAct} \cup Acts] /\ OthersStay(a)
      /\ author'[a] # NoAct /\ author'[a].pc = "insert"
      /\ author'[a].op = author[a].op /\ author'[a].key = author[a].key
      /\ author'[a].text = author[a].text /\ author'[a].prior = author[a].prior
      /\ author'[a].alone = author[a].alone
  BY <1>2, <1>3, TurnsMean DEF AtWork, SummaryPcs
<1>5. /\ noteFile \in [Notes -> SUBSET Texts] /\ backup \in [Notes -> SUBSET Texts]
      /\ uncommitted \in [Keys -> SUBSET Texts] /\ strained \in SUBSET Keys
  BY DEF NotesIInv, NotesTypes
<1>6. uncommitted' \in [Keys -> SUBSET Texts] /\ uncommitted'[k] = {}
      /\ \A j \in Keys \ {k} : uncommitted'[j] = uncommitted[j]
  BY <1>2, <1>3, <1>5
<1>7. Progress(author[a])'
  BY <1>1, <1>2, <1>3, <1>4, <1>6 DEF Progress
<1> QED BY <1>1, <1>2, <1>3, <1>4, <1>5, <1>6, <1>7, CallKeeps DEF Holding, UnderwayPcs

LEMMA InsertRowKeeps ==
    ASSUME NotesIInv, NEW a \in Authors, InsertRow(a)
    PROVE  NotesIInv'
<1>1. PICK k : k = author[a].key
  OBVIOUS
<1>2. /\ author[a].pc = "insert" /\ Turns(a, "commit")
      /\ uncommitted' = [uncommitted EXCEPT ![k] = @ \cup {author[a].text}]
      /\ UNCHANGED <<noteFile, backup, rows, pathRows, recent, lock, up, believed, strained>>
  BY <1>1 DEF InsertRow, AuthorAt, files, noteHistory
<1>3. /\ author[a] # NoAct /\ k \in Keys /\ author[a].text \in Texts
      /\ Progress(author[a]) /\ lock = a
  BY <1>1, <1>2, NoteCallAt DEF Holding
<1>4. /\ author' \in [Authors -> {NoAct} \cup Acts] /\ OthersStay(a)
      /\ author'[a] # NoAct /\ author'[a].pc = "commit"
      /\ author'[a].op = author[a].op /\ author'[a].key = author[a].key
      /\ author'[a].text = author[a].text /\ author'[a].prior = author[a].prior
      /\ author'[a].alone = author[a].alone
  BY <1>2, <1>3, TurnsMean DEF AtWork, SummaryPcs
<1>5. /\ noteFile \in [Notes -> SUBSET Texts] /\ backup \in [Notes -> SUBSET Texts]
      /\ uncommitted \in [Keys -> SUBSET Texts] /\ strained \in SUBSET Keys
  BY DEF NotesIInv, NotesTypes
<1>6. /\ uncommitted' \in [Keys -> SUBSET Texts]
      /\ uncommitted'[k] = uncommitted[k] \cup {author[a].text}
      /\ \A j \in Keys \ {k} : uncommitted'[j] = uncommitted[j]
  BY <1>2, <1>3, <1>5
<1>7. author[a].alone = TRUE => uncommitted'[k] = {author[a].text}
  BY <1>1, <1>2, <1>3, <1>6 DEF Progress
<1>8. Progress(author[a])'
  BY <1>1, <1>2, <1>3, <1>4, <1>7 DEF Progress
<1> QED BY <1>1, <1>2, <1>3, <1>4, <1>5, <1>6, <1>8, CallKeeps DEF Holding, UnderwayPcs

(* A statement that fails leaves the transaction, and the lock. *)
LEMMA StatementFailsKeeps ==
    ASSUME NotesIInv, NEW a \in Authors, StatementFails(a)
    PROVE  NotesIInv'
<1>1. PICK k : k = author[a].key
  OBVIOUS
<1>2. /\ author[a].pc \in Holding /\ Turns(a, "rollback") /\ lock' = NoAuthor
      /\ UNCHANGED <<noteFile, backup, rows, pathRows, uncommitted, recent, up, believed, strained>>
  BY DEF StatementFails, AuthorAt, files, tablesOfNotes, Holding
<1>3. author[a] # NoAct /\ k \in Keys /\ Progress(author[a]) /\ lock = a
  BY <1>1, <1>2, NoteCallAt DEF Holding
<1>4. /\ author' \in [Authors -> {NoAct} \cup Acts] /\ OthersStay(a)
      /\ author'[a] # NoAct /\ author'[a].pc = "rollback"
      /\ author'[a].op = author[a].op /\ author'[a].key = author[a].key
      /\ author'[a].text = author[a].text /\ author'[a].prior = author[a].prior
      /\ author'[a].alone = author[a].alone
  BY <1>2, <1>3, TurnsMean DEF AtWork, SummaryPcs
<1>5. /\ noteFile \in [Notes -> SUBSET Texts] /\ backup \in [Notes -> SUBSET Texts]
      /\ uncommitted \in [Keys -> SUBSET Texts] /\ strained \in SUBSET Keys
  BY DEF NotesIInv, NotesTypes
<1>6. Progress(author[a])'
  BY <1>1, <1>2, <1>3, <1>4 DEF Progress, Holding
<1>7. lock' # a
  BY <1>2, NotesAssumption
<1> QED BY <1>1, <1>2, <1>3, <1>4, <1>5, <1>6, <1>7, CallKeeps DEF Holding, UnderwayPcs

(* The rollback of write, under the lock. *)
LEMMA RollBackKeeps ==
    ASSUME NotesIInv, NEW a \in Authors, RollBack(a)
    PROVE  NotesIInv'
<1>1. PICK k : k = author[a].key
  OBVIOUS
<1>2. /\ author[a].pc = "rollback" /\ author[a].op = "write" /\ Turns(a, "undo")
      /\ lock = NoAuthor /\ uncommitted' = rows
      /\ UNCHANGED <<noteFile, backup, rows, pathRows, recent, lock, up, believed, strained>>
  BY DEF RollBack, AuthorAt, files, noteHistory
<1>3. author[a] # NoAct /\ k \in Keys /\ Progress(author[a]) /\ lock # a
  BY <1>1, <1>2, NoteCallAt DEF Holding
<1>4. /\ author' \in [Authors -> {NoAct} \cup Acts] /\ OthersStay(a)
      /\ author'[a] # NoAct /\ author'[a].pc = "undo"
      /\ author'[a].op = author[a].op /\ author'[a].key = author[a].key
      /\ author'[a].text = author[a].text /\ author'[a].prior = author[a].prior
      /\ author'[a].alone = author[a].alone
  BY <1>2, <1>3, TurnsMean DEF AtWork
<1>5. /\ noteFile \in [Notes -> SUBSET Texts] /\ backup \in [Notes -> SUBSET Texts]
      /\ uncommitted \in [Keys -> SUBSET Texts] /\ strained \in SUBSET Keys
  BY DEF NotesIInv, NotesTypes
<1>6. rows \in [Keys -> SUBSET Texts]
  BY DEF NotesIInv, NotesTypes
<1>7. Progress(author[a])'
  BY <1>1, <1>2, <1>3, <1>4 DEF Progress
<1> QED BY <1>1, <1>2, <1>3, <1>4, <1>5, <1>6, <1>7, CallKeeps DEF Holding, UnderwayPcs

(* write puts the old file back. *)
LEMMA UndoWriteKeeps ==
    ASSUME NotesIInv, NEW a \in Authors, UndoWrite(a)
    PROVE  NotesIInv'
<1>1. PICK k : k = author[a].key
  OBVIOUS
<1>2. /\ author[a].pc = "undo" /\ Rests(a)
      /\ noteFile' = Restored(a)
      /\ backup' = IF author[a].prior = "saved" THEN [backup EXCEPT ![k] = {}] ELSE backup
      /\ strained' = strained \cup (IF author[a].prior = "unsaved" THEN {k} ELSE {})
      /\ UNCHANGED <<rows, pathRows, uncommitted, recent, lock, up, believed>>
  BY <1>1 DEF UndoWrite, AuthorAt, tablesOfNotes, Strain
<1>3. /\ author[a] # NoAct /\ k \in Keys /\ k \in Notes /\ author[a].op = "write"
      /\ author[a] \in Acts /\ Progress(author[a]) /\ lock # a
  BY <1>1, <1>2, NoteCallAt DEF Holding
<1>4. /\ author' \in [Authors -> {NoAct} \cup Acts] /\ OthersStay(a)
      /\ author'[a] = NoAct /\ author'[a].pc = "idle"
  BY <1>2, RestsMeans
<1>5. /\ noteFile \in [Notes -> SUBSET Texts] /\ backup \in [Notes -> SUBSET Texts]
      /\ uncommitted \in [Keys -> SUBSET Texts] /\ strained \in SUBSET Keys
  BY DEF NotesIInv, NotesTypes
<1>6. author[a].prior \in {"none", "saved", "unsaved"}
  BY <1>3 DEF Acts, NoteActs, SummaryActs
<1>7. noteFile' \in {[noteFile EXCEPT ![k] = backup[k]], [noteFile EXCEPT ![k] = {}], noteFile}
  BY <1>1, <1>2 DEF Restored
<1>8. /\ noteFile' \in [Notes -> SUBSET Texts] /\ backup' \in [Notes -> SUBSET Texts]
      /\ \A n \in Notes \ {k} : noteFile'[n] = noteFile[n] /\ backup'[n] = backup[n]
  BY <1>2, <1>3, <1>5, <1>7
<1>9. k \notin strained' => noteFile'[k] = believed[k]
  <2> SUFFICES ASSUME k \notin strained' PROVE noteFile'[k] = believed[k]
    OBVIOUS
  <2>1. k \notin strained /\ author[a].prior # "unsaved"
    BY <1>2
  <2>2. CASE author[a].prior = "saved"
    <3>1. backup[k] = believed[k] /\ backup[k] # {}
      BY <1>1, <1>2, <1>3, <2>1, <2>2 DEF Progress
    <3>2. noteFile' = [noteFile EXCEPT ![k] = backup[k]]
      BY <1>1, <1>2, <2>2, <3>1 DEF Restored
    <3> QED BY <1>3, <1>5, <3>1, <3>2
  <2>3. CASE author[a].prior = "none"
    <3>1. believed[k] = {}
      BY <1>1, <1>2, <1>3, <2>1, <2>3 DEF Progress
    <3>2. noteFile' = [noteFile EXCEPT ![k] = {}]
      BY <1>1, <1>2, <2>3 DEF Restored
    <3> QED BY <1>3, <1>5, <3>1, <3>2
  <2> QED BY <1>6, <2>1, <2>2, <2>3
<1>10. strained' \in SUBSET Keys /\ strained \subseteq strained'
  BY <1>2, <1>3, <1>5
<1> QED BY <1>1, <1>2, <1>3, <1>4, <1>5, <1>8, <1>9, <1>10, CallKeeps DEF Holding, UnderwayPcs

(* A call stays for more keys, too. *)
LEMMA StaysForMore ==
    ASSUME NEW q, NEW r, NEW keys, NEW more, keys \subseteq more, Stays(q, r, keys)
    PROVE  Stays(q, r, more)
BY DEF Stays

(* write goes on without its DELETE, and is not alone any more. *)
LEMMA DeleteSkippedKeeps ==
    ASSUME NotesIInv, NEW a \in Authors, DeleteSkipped(a)
    PROVE  NotesIInv'
<1>1. PICK k, old : k = author[a].key /\ old = author[a]
  OBVIOUS
<1>2. PICK acts : acts = [author EXCEPT ![a].pc = "insert"]
  OBVIOUS
<1>3. /\ author[a].pc = "delete" /\ author[a].op = "write"
      /\ author' = NotAlone({k}, acts)
      /\ strained' = strained \cup {k}
      /\ UNCHANGED <<noteFile, backup, rows, pathRows, uncommitted, recent, lock, up, believed>>
  BY <1>1, <1>2 DEF DeleteSkipped, AuthorAt, files, tablesOfNotes, Strain
<1>4. author[a] # NoAct /\ author[a] \in Acts /\ k \in Keys /\ lock = a
  BY <1>1, <1>3, NoteCallAt DEF Holding
<1>5. PICK q : q = [old EXCEPT !.pc = "insert"]
  OBVIOUS
<1>6. old \in NoteActs
  BY <1>1, <1>3, <1>4 DEF Acts, SummaryActs
<1>7. q \in NoteActs /\ q.pc = "insert" /\ q.key = k
  BY <1>1, <1>5, <1>6 DEF NoteActs, AtWork
<1>8. author \in [Authors -> {NoAct} \cup Acts]
  BY DEF NotesIInv, NotesTypes
<1>9. /\ acts \in [Authors -> {NoAct} \cup Acts] /\ acts[a] = q
      /\ \A b \in Authors \ {a} : acts[b] = author[b]
  BY <1>1, <1>2, <1>5, <1>7, <1>8 DEF Acts
<1>10. author' \in [Authors -> {NoAct} \cup Acts]
  BY <1>3, <1>9, NotAloneMeans DEF NotAlone
<1>11. OthersStay(a)
  BY <1>3, <1>9, NotAloneMeans, StaysForMore DEF OthersStay
<1>12. acts[a] # NoAct
  BY <1>7, <1>9 DEF NoAct
<1>13. author'[a] # NoAct /\ author'[a].pc = "insert" /\ author'[a].key = k /\ author'[a].alone = FALSE
  <2>1. Stays(acts[a], author'[a], {k}) /\ author'[a].alone = FALSE
    BY <1>3, <1>7, <1>9, <1>12, NotAloneMeans
  <2> QED BY <1>7, <1>9, <1>12, <2>1 DEF Stays
<1>14. /\ noteFile \in [Notes -> SUBSET Texts] /\ backup \in [Notes -> SUBSET Texts]
      /\ uncommitted \in [Keys -> SUBSET Texts] /\ strained \in SUBSET Keys
  BY DEF NotesIInv, NotesTypes
<1>15. Progress(author[a])'
  BY <1>3, <1>13 DEF Progress
<1>16. strained' \in SUBSET Keys /\ strained \subseteq strained'
  BY <1>3, <1>4, <1>14
<1> QED BY <1>1, <1>3, <1>4, <1>10, <1>11, <1>13, <1>14, <1>15, <1>16, CallKeeps DEF Holding, UnderwayPcs

(* The rollback of index_external takes the rows of others, which are not alone *)
(* any more; and its caller is told what is not there.                          *)
LEMMA RollBackUnlockedKeeps ==
    ASSUME NotesIInv, NEW a \in Authors, RollBackUnlocked(a)
    PROVE  NotesIInv'
<1>1. PICK k, hurt : k = author[a].key /\ hurt = {author[b].key : b \in Underway \ {a}}
  OBVIOUS
<1>2. PICK acts : acts = [author EXCEPT ![a] = NoAct]
  OBVIOUS
<1>3. /\ author[a].pc = "rollback" /\ author[a].op = "external"
      /\ uncommitted' = rows /\ rows' = rows /\ pathRows' = pathRows
      /\ believed' = [believed EXCEPT ![k] = {author[a].text}]
      /\ author' = NotAlone(hurt, acts)
      /\ strained' = strained \cup (hurt \cup {k})
      /\ UNCHANGED <<noteFile, backup, recent, lock, up>>
  BY <1>1, <1>2 DEF RollBackUnlocked, AuthorAt, files, Strain
<1>4. /\ author[a] # NoAct /\ k \in Keys /\ author[a].text \in Texts
      /\ k \in Summaries /\ lock # a
  BY <1>1, <1>3, NoteCallAt DEF Holding
<1>5. author \in [Authors -> {NoAct} \cup Acts] /\ rows \in [Keys -> SUBSET Texts]
      /\ believed \in [Keys -> SUBSET Texts] /\ strained \in SUBSET Keys
  BY DEF NotesIInv, NotesTypes
<1>6. /\ acts \in [Authors -> {NoAct} \cup Acts] /\ acts[a] = NoAct
      /\ \A b \in Authors \ {a} : acts[b] = author[b]
  BY <1>2, <1>5
<1>7. author' \in [Authors -> {NoAct} \cup Acts]
  BY <1>3, <1>6, NotAloneMeans DEF NotAlone
<1>8. OthersStay(a)
  BY <1>3, <1>6, NotAloneMeans, StaysForMore DEF OthersStay
<1>9. author'[a] = NoAct /\ author'[a].pc = "idle"
  <2>1. Stays(acts[a], author'[a], hurt)
    BY <1>3, <1>6, NotAloneMeans
  <2> QED BY <1>6, <2>1 DEF Stays, NoAct
<1>10. \A b \in Authors \ {a} :
          author[b] # NoAct /\ author[b].key # k /\ author[b].pc \in {"insert", "commit"} =>
             uncommitted'[author[b].key] = uncommitted[author[b].key] \/ author'[b].alone = FALSE
  <2> SUFFICES ASSUME NEW b \in Authors \ {a}, author[b] # NoAct, author[b].pc \in {"insert", "commit"}
               PROVE  author'[b].alone = FALSE
    OBVIOUS
  <2>1. author[b].key \in hurt
    BY <1>1 DEF Underway
  <2> QED BY <1>3, <1>6, <2>1, NotAloneMeans
<1>11. /\ hurt \subseteq Keys
       /\ believed' \in [Keys -> SUBSET Texts] /\ \A j \in Keys \ {k} : believed'[j] = believed[j]
  <2>1. ASSUME NEW b \in Underway PROVE author[b].key \in Keys
    BY <2>1, <1>5, IdleOrAtWork DEF Underway
  <2> QED BY <1>1, <1>3, <1>4, <1>5, <2>1
<1>12. k \notin Notes /\ k \in strained' /\ \A j \in Keys : j \in strained => j \in strained'
  BY <1>3, <1>4, NotesAssumption
<1>13. LockIsHeld' /\ NobodyWorksWhileDown' /\ AloneIsAlone' /\ CallsGoOn' /\ FilesAgree'
  <2>1. /\ author'[a].pc \in Holding <=> lock' = a
        /\ lock' = lock /\ up' = up
        /\ \A n \in Notes \ {k} : noteFile'[n] = noteFile[n] /\ backup'[n] = backup[n]
    BY <1>3, <1>4, <1>9 DEF Holding
  <2>2. OnlyOwnKey(a, k)
    BY <1>4, <1>8, <1>9, <1>10, <1>11, <1>12, <2>1 DEF OnlyOwnKey
  <2> QED BY <1>1, <1>4, <1>7, <2>2, StepOfCall
<1>14. NotesTypes'
  BY <1>3, <1>4, <1>5, <1>7, <1>11 DEF NotesIInv, NotesTypes
<1>15. UncommittedIsOwn'
  BY <1>3 DEF UncommittedIsOwn
<1>16. RowsAgree'
  BY <1>3, <1>11, <1>12 DEF NotesIInv, RowsAgree
<1> QED BY <1>13, <1>14, <1>15, <1>16 DEF NotesIInv

(* The commit of a: the rows of everybody under way.  A call that is alone has set *)
(* its key right.                                                                  *)
LEMMA CommitNotesKeeps ==
    ASSUME NotesIInv, NEW a \in Authors, CommitNotes(a)
    PROVE  NotesIInv'
<1>1. PICK k, mixed : k = author[a].key /\ mixed = {author[b].key : b \in Underway \ {a}}
  OBVIOUS
<1>2. PICK right : right = IF author[a].alone /\ (k \in Notes => pathRows[k] = {}) THEN {k} ELSE {}
  OBVIOUS
<1>3. /\ author[a].pc = "commit" /\ Rests(a)
      /\ rows' = uncommitted /\ uncommitted' = uncommitted
      /\ believed' = [believed EXCEPT ![k] = {author[a].text}]
      /\ strained' = (strained \ right) \cup mixed
      /\ lock' = NoAuthor
      /\ UNCHANGED <<noteFile, backup, pathRows, recent, up>>
  BY <1>1, <1>2 DEF CommitNotes, AuthorAt, files
<1>4. /\ author[a] # NoAct /\ k \in Keys /\ author[a].text \in Texts /\ Progress(author[a])
      /\ k \in Notes => author[a].op = "write"
      /\ k \notin strained => author[a].alone = TRUE
      /\ lock = a /\ a # NoAuthor
  BY <1>1, <1>3, NoteCallAt, NotesAssumption DEF Holding
<1>5. /\ author' \in [Authors -> {NoAct} \cup Acts] /\ OthersStay(a)
      /\ author'[a] = NoAct /\ author'[a].pc = "idle"
  BY <1>3, RestsMeans
<1>6. /\ author \in [Authors -> {NoAct} \cup Acts] /\ uncommitted \in [Keys -> SUBSET Texts]
      /\ believed \in [Keys -> SUBSET Texts] /\ strained \in SUBSET Keys
  BY DEF NotesIInv, NotesTypes
<1>7. /\ mixed \subseteq Keys
      /\ believed' \in [Keys -> SUBSET Texts] /\ believed'[k] = {author[a].text}
      /\ \A j \in Keys \ {k} : believed'[j] = believed[j]
  <2>1. ASSUME NEW b \in Underway PROVE author[b].key \in Keys
    BY <2>1, <1>6, IdleOrAtWork DEF Underway
  <2> QED BY <1>1, <1>3, <1>4, <1>6, <2>1
<1>8. right \subseteq {k} /\ (k \in right => author[a].alone = TRUE)
  BY <1>2
<1>9. k \notin strained' => author[a].alone = TRUE /\ (k \in Notes => pathRows[k] = {})
  <2>1. CASE k \in right
    BY <1>2, <2>1
  <2>2. CASE k \notin strained
    BY <1>4, <2>2 DEF NotesIInv, RowsAgree
  <2> QED BY <1>3, <2>1, <2>2
<1>10. LockIsHeld' /\ NobodyWorksWhileDown' /\ AloneIsAlone' /\ CallsGoOn' /\ FilesAgree'
  <2>1. k \in Notes \ strained' => noteFile'[k] = believed'[k]
    BY <1>1, <1>3, <1>4, <1>7, <1>9 DEF Progress
  <2>2. /\ k \in strained => k \in strained' \/ author[a].alone = TRUE
        /\ \A j \in Keys \ {k} : j \in strained => j \in strained'
    BY <1>3, <1>8
  <2>3. /\ author'[a].pc \in Holding <=> lock' = a
        /\ lock' = NoAuthor /\ lock = a /\ up' = up
        /\ \A n \in Notes \ {k} : noteFile'[n] = noteFile[n] /\ backup'[n] = backup[n]
        /\ \A b \in Authors : uncommitted'[author[b].key] = uncommitted[author[b].key]
    BY <1>3, <1>4, <1>5 DEF Holding
  <2>4. OnlyOwnKey(a, k)
    BY <1>4, <1>5, <1>7, <2>1, <2>2, <2>3 DEF OnlyOwnKey
  <2> QED BY <1>1, <1>4, <1>5, <2>4, StepOfCall
<1>11. NotesTypes'
  BY <1>3, <1>4, <1>5, <1>6, <1>7 DEF NotesIInv, NotesTypes
<1>12. UncommittedIsOwn'
  BY <1>3 DEF UncommittedIsOwn
<1>13. ASSUME NEW j \in Keys \ strained' PROVE rows'[j] = believed'[j] /\ (j \in Notes => pathRows'[j] = {})
  <2>1. CASE j = k
    BY <1>1, <1>3, <1>4, <1>7, <1>9, <2>1 DEF Progress
  <2>2. CASE j # k
    <3>1. j \notin strained /\ j \notin mixed
      BY <1>3, <1>8, <2>2
    <3>2. \A b \in Underway : author[b].key # j
      BY <1>1, <2>2, <3>1
    <3>3. uncommitted[j] = rows[j]
      BY <3>2 DEF NotesIInv, UncommittedIsOwn
    <3>4. rows[j] = believed[j] /\ (j \in Notes => pathRows[j] = {})
      BY <3>1 DEF NotesIInv, RowsAgree
    <3> QED BY <1>3, <1>7, <2>2, <3>3, <3>4
  <2> QED BY <2>1, <2>2
<1> QED BY <1>10, <1>11, <1>12, <1>13 DEF NotesIInv, RowsAgree

-----------------------------------------------------------------------------
(* A call that begins: it is alone, or neither it nor who is at work there is. *)
LEMMA StartsKeeps ==
    ASSUME NotesIInv, NEW a \in Authors, NEW op \in {"write", "external"}, NEW k \in Keys, NEW t \in Texts,
           op = "write" <=> k \in Notes,
           author[a].pc = "idle", up, Starts(a, op, k, t),
           UNCHANGED <<files, tablesOfNotes, lock, up, believed>>
    PROVE  NotesIInv'
<1>1. PICK act : act = [pc |-> IF op = "write" THEN "backup" ELSE "lock", op |-> op, key |-> k,
                        text |-> t, prior |-> "none", alone |-> TRUE]
  OBVIOUS
<1>2. PICK together : together = IF Acting(k) = {} THEN {} ELSE {k}
  OBVIOUS
<1>3. PICK acts : acts = [author EXCEPT ![a] = act]
  OBVIOUS
<1>4. author' = NotAlone(together, acts) /\ strained' = strained \cup together
  BY <1>1, <1>2, <1>3 DEF Starts, Strain
<1>5. UNCHANGED <<noteFile, backup, rows, pathRows, uncommitted, lock, up, believed>>
  BY DEF files, tablesOfNotes
<1>6. author \in [Authors -> {NoAct} \cup Acts] /\ strained \in SUBSET Keys
  BY DEF NotesIInv, NotesTypes
<1>7. author[a] = NoAct
  BY <1>6, IdleOrAtWork
<1>8. act \in Acts /\ act # NoAct
  BY <1>1 DEF Acts, NoteActs, SummaryActs, AtWork, NoAct, Keys
<1>9. /\ acts \in [Authors -> {NoAct} \cup Acts] /\ acts[a] = act
      /\ \A b \in Authors \ {a} : acts[b] = author[b]
  BY <1>3, <1>6, <1>8
<1>10. author' \in [Authors -> {NoAct} \cup Acts]
  BY <1>4, <1>9, NotAloneMeans DEF NotAlone
<1>11. \A b \in Authors \ {a} : Stays(author[b], author'[b], together)
  BY <1>4, <1>9, NotAloneMeans
<1>12. \A b \in Authors : author'[b] # NoAct /\ author'[b].key \in together => author'[b].alone = FALSE
  <2> SUFFICES ASSUME NEW b \in Authors, author'[b] # NoAct, author'[b].key \in together
               PROVE  author'[b].alone = FALSE
    OBVIOUS
  <2>1. Stays(acts[b], author'[b], together)
    BY <1>4, <1>9, NotAloneMeans
  <2>2. acts[b] # NoAct /\ acts[b].key \in together
    BY <2>1 DEF Stays
  <2> QED BY <1>4, <1>9, <2>2, NotAloneMeans
<1>13. /\ author'[a] # NoAct /\ author'[a].key = k /\ author'[a].op = op /\ author'[a].prior = "none"
       /\ author'[a].pc = IF op = "write" THEN "backup" ELSE "lock"
       /\ k \notin together => author'[a].alone = TRUE
  <2>1. Stays(act, author'[a], together)
    BY <1>4, <1>9, NotAloneMeans
  <2>2. /\ act.key = k /\ act.op = op /\ act.prior = "none" /\ act.alone = TRUE
        /\ act.pc = IF op = "write" THEN "backup" ELSE "lock"
    BY <1>1
  <2> QED BY <1>8, <2>1, <2>2 DEF Stays
<1>14. OthersStay(a) /\ strained \subseteq strained' /\ together \subseteq strained' /\ strained' \in SUBSET Keys
  BY <1>2, <1>4, <1>6, <1>11, StaysForMore DEF OthersStay
<1>15. LockIsHeld'
  <2>1. lock # a /\ author'[a].pc \notin Holding
    BY <1>13 DEF NotesIInv, LockIsHeld, Holding
  <2> QED BY <1>5, <1>14, <2>1, LockStays
<1>16. NobodyWorksWhileDown'
  BY <1>5 DEF NobodyWorksWhileDown
<1>17. ASSUME NEW b \in Authors \ {a}, author'[b] # NoAct
       PROVE  /\ author[b] # NoAct /\ author'[b].key = author[b].key /\ author'[b].key \in Keys
              /\ author'[b].pc = author[b].pc /\ author'[b].op = author[b].op
              /\ author'[b].key = k => k \in together
              /\ author'[b].key \notin together => author'[b].alone = author[b].alone
  <2>1. Stays(author[b], author'[b], together)
    BY <1>11
  <2>2. /\ author[b] # NoAct /\ author'[b].key = author[b].key
        /\ author'[b].pc = author[b].pc /\ author'[b].op = author[b].op
        /\ author'[b].key \notin together => author'[b].alone = author[b].alone
    BY <1>17, <2>1 DEF Stays
  <2>3. author'[b].key = k => b \in Acting(k)
    BY <1>6, <2>2, IdleOrAtWork DEF Acting
  <2>4. author'[b].key \in Keys
    BY <1>10, <1>17, IdleOrAtWork
  <2> QED BY <1>2, <2>2, <2>3, <2>4
<1>18. AloneIsAlone'
  <2> SUFFICES ASSUME NEW b \in Authors, NEW c \in Authors, b # c,
                      author'[b] # NoAct, author'[c] # NoAct,
                      author'[b].key = author'[c].key, author'[b].alone = TRUE
               PROVE  FALSE
    BY DEF AloneIsAlone
  <2>1. author'[b].key \notin together
    BY <1>12
  <2>2. b # a /\ c # a
    BY <1>13, <1>17, <2>1
  <2> QED BY <1>17, <2>1, <2>2 DEF NotesIInv, AloneIsAlone
<1>19. CallsGoOn'
  <2>1. ASSUME NEW b \in Authors, author'[b] # NoAct PROVE Progress(author[b])'
    <3>1. CASE author'[b].key \in together
      BY <1>12, <1>14, <2>1, <3>1 DEF Progress
    <3>2. CASE author'[b].key \notin together /\ b = a
      BY <1>13, <3>2 DEF Progress
    <3>3. CASE author'[b].key \notin together /\ b # a
      <4>1. Progress(author[b])
        BY <1>17, <2>1, <3>3 DEF NotesIInv, CallsGoOn
      <4>2. Stays(author[b], author'[b], together) /\ author[b] # NoAct
        BY <1>11, <1>17, <2>1, <3>3
      <4>3. /\ author'[b].pc = author[b].pc /\ author'[b].op = author[b].op
            /\ author'[b].key = author[b].key /\ author'[b].text = author[b].text
            /\ author'[b].prior = author[b].prior /\ author'[b].alone = author[b].alone
        BY <3>3, <4>2 DEF Stays
      <4>4. author[b].key \notin strained' => author[b].key \notin strained
        BY <1>14
      <4> QED BY <1>5, <4>1, <4>3, <4>4 DEF Progress
    <3> QED BY <3>1, <3>2, <3>3
  <2> QED BY <2>1 DEF CallsGoOn
<1>20. UncommittedIsOwn'
  <2>1. author[a].pc \notin UnderwayPcs /\ author'[a].pc \notin UnderwayPcs
    BY <1>13 DEF UnderwayPcs
  <2> QED BY <1>5, <1>14, <2>1, UncommittedStays
<1>21. RowsAgree'
  BY <1>5, <1>14 DEF NotesIInv, RowsAgree
<1>22. FilesAgree'
  <2> SUFFICES ASSUME NEW n \in Notes \ strained',
                      \A b \in Authors : author'[b] # NoAct /\ author'[b].key = n => author'[b].pc \in {"backup", "replace"}
               PROVE  noteFile'[n] = believed'[n]
    BY DEF FilesAgree
  <2>1. ASSUME NEW b \in Authors, author[b] # NoAct, author[b].key = n PROVE author[b].pc \in {"backup", "replace"}
    <3>1. b # a
      BY <1>7, <2>1
    <3>2. author'[b] # NoAct /\ author'[b].key = n /\ author'[b].pc = author[b].pc
      BY <1>11, <2>1, <3>1 DEF Stays
    <3> QED BY <3>2
  <2>2. n \notin strained
    BY <1>14
  <2> QED BY <1>5, <2>1, <2>2 DEF NotesIInv, FilesAgree
<1>23. NotesTypes'
  BY <1>5, <1>10, <1>14 DEF NotesIInv, NotesTypes
<1> QED BY <1>15, <1>16, <1>18, <1>19, <1>20, <1>21, <1>22, <1>23 DEF NotesIInv

(* Nobody moves: what changes is strained, and nobody is alone with a file that does. *)
LEMMA NobodyMoves ==
    ASSUME NotesIInv,
           author' \in [Authors -> {NoAct} \cup Acts],
           \A b \in Authors : Stays(author[b], author'[b], strained'),
           UNCHANGED <<backup, rows, pathRows, uncommitted, lock, up>>,
           strained' \in SUBSET Keys, strained \subseteq strained',
           noteFile' \in [Notes -> SUBSET Texts], believed' \in [Keys -> SUBSET Texts],
           \A n \in Notes : noteFile'[n] # noteFile[n] =>
              /\ n \in strained'
              /\ \A b \in Authors : author'[b] # NoAct /\ author'[b].key = n => author'[b].alone = FALSE,
           \A k \in Keys : believed'[k] # believed[k] => k \in strained'
    PROVE  NotesIInv'
<1>1. /\ backup' = backup /\ rows' = rows /\ pathRows' = pathRows /\ uncommitted' = uncommitted
      /\ lock' = lock /\ up' = up
  OBVIOUS
<1>2. NotesTypes'
  BY <1>1 DEF NotesIInv, NotesTypes
<1>3. ASSUME NEW b \in Authors
      PROVE  /\ author[b] = NoAct <=> author'[b] = NoAct
             /\ author'[b].pc = author[b].pc
             /\ author'[b] # NoAct =>
                   /\ author'[b].key = author[b].key /\ author'[b].op = author[b].op
                   /\ author'[b].text = author[b].text /\ author'[b].prior = author[b].prior
                   /\ author'[b].alone = author[b].alone \/ (author'[b].alone = FALSE /\ author'[b].key \in strained')
  <2>1. Stays(author[b], author'[b], strained')
    OBVIOUS
  <2>2. PICK q, r, keys : q = author[b] /\ r = author'[b] /\ keys = strained' /\ Stays(q, r, keys)
    BY <2>1
  <2>3. CASE q = NoAct
    BY <2>2, <2>3 DEF Stays
  <2>4. CASE q # NoAct
    <3>1. /\ q # NoAct /\ r # NoAct
          /\ r.pc = q.pc /\ r.op = q.op /\ r.key = q.key /\ r.text = q.text /\ r.prior = q.prior
          /\ r.alone = q.alone \/ (r.alone = FALSE /\ q.key \in keys)
      BY <2>2, <2>4, Zenon DEF Stays
    <3>2. /\ q # NoAct /\ r # NoAct
          /\ r.pc = q.pc /\ r.op = q.op /\ r.key = q.key /\ r.text = q.text /\ r.prior = q.prior
          /\ r.alone = q.alone \/ (r.alone = FALSE /\ r.key \in keys)
      BY <3>1, Zenon
    <3> QED BY <2>2, <3>2
  <2> QED BY <2>3, <2>4
<1>4. LockIsHeld'
  <2>1. \A b \in Authors : author'[b].pc = author[b].pc
    BY <1>3
  <2>2. \A b \in Authors : lock' = b <=> lock = b
    BY <1>1
  <2>3. \A b \in Authors : lock = b <=> author[b].pc \in Holding
    BY DEF NotesIInv, LockIsHeld
  <2>4. \A b \in Authors : lock' = b <=> author'[b].pc \in Holding
    BY <2>1, <2>2, <2>3
  <2> QED BY <2>4 DEF LockIsHeld
<1>5. NobodyWorksWhileDown'
  <2>1. \A b \in Authors : author[b] = NoAct <=> author'[b] = NoAct
    BY <1>3
  <2>2. up' = up
    BY <1>1
  <2>3. ~up => \A b \in Authors : author[b] = NoAct
    BY DEF NotesIInv, NobodyWorksWhileDown
  <2>4. ~up' => \A b \in Authors : author'[b] = NoAct
    BY <2>1, <2>2, <2>3
  <2> QED BY <2>4 DEF NobodyWorksWhileDown
<1>6. AloneIsAlone'
  <2> SUFFICES ASSUME NEW b \in Authors, NEW c \in Authors,
                      author'[b] # NoAct, author'[c] # NoAct,
                      author'[b].key = author'[c].key, author'[b].alone = TRUE
               PROVE  b = c
    BY DEF AloneIsAlone
  <2>1. author[b].alone = TRUE
    BY <1>3
  <2>2. author[b] # NoAct /\ author[c] # NoAct /\ author[b].key = author[c].key
    BY <1>3
  <2> QED BY <2>1, <2>2 DEF NotesIInv, AloneIsAlone
<1>7. UncommittedIsOwn'
  <2> SUFFICES ASSUME NEW k \in Keys, \A b \in Authors : author'[b].pc \in UnderwayPcs => author'[b].key # k
               PROVE  uncommitted'[k] = rows'[k]
    BY DEF UncommittedIsOwn, Underway, UnderwayPcs
  <2>1. ASSUME NEW b \in Authors, author[b].pc \in UnderwayPcs PROVE author[b].key # k
    <3>1. author[b] # NoAct
      BY <2>1 DEF UnderwayPcs, NoAct
    <3>2. author'[b] # NoAct /\ author'[b].pc = author[b].pc
      BY <1>3, <3>1
    <3>3. author'[b].key = author[b].key
      BY <1>3, <3>2
    <3> QED BY <2>1, <3>2, <3>3
  <2> QED BY <1>1, <2>1 DEF NotesIInv, UncommittedIsOwn, Underway, UnderwayPcs
<1>8. CallsGoOn'
  <2>1. ASSUME NEW b \in Authors, author'[b] # NoAct PROVE Progress(author[b])'
    <3>1. author[b] # NoAct /\ Progress(author[b])
      BY <1>3, <2>1 DEF NotesIInv, CallsGoOn
    <3>2. author'[b].key \in Keys /\ (author'[b].op = "write" => author'[b].key \in Notes)
      BY <2>1, IdleOrAtWork
    <3>3. author'[b].key \notin strained' =>
             author'[b].key \notin strained /\ believed'[author'[b].key] = believed[author'[b].key]
      BY <3>2
    <3>4. CASE author'[b].alone = TRUE
      <4>1. author[b].alone = TRUE
        BY <1>3, <2>1, <3>4
      <4>2. author'[b].op = "write" => noteFile'[author'[b].key] = noteFile[author'[b].key]
        BY <2>1, <3>2, <3>4
      <4>3. author'[b].op = author[b].op /\ author'[b].key = author[b].key /\ author'[b].pc = author[b].pc
            /\ author'[b].text = author[b].text /\ author'[b].prior = author[b].prior
        BY <1>3, <2>1
      <4>4. backup' = backup /\ uncommitted' = uncommitted
        BY <1>1
      <4>5. PICK q, r : q = author[b] /\ r = author'[b]
        OBVIOUS
      <4>6. Progress(q) /\ q.alone = TRUE
        BY <3>1, <4>1, <4>5
      <4>7. /\ r.op = q.op /\ r.key = q.key /\ r.pc = q.pc /\ r.text = q.text /\ r.prior = q.prior /\ r.alone = TRUE
            /\ r.op = "write" => noteFile'[q.key] = noteFile[q.key]
            /\ r.key \notin strained' => q.key \notin strained /\ believed'[q.key] = believed[q.key]
        BY <3>3, <3>4, <4>2, <4>3, <4>5
      <4>8. /\ r.alone = TRUE /\ r.op = "write" /\ r.pc \notin {"backup", "replace"} => noteFile'[r.key] = {r.text}
            /\ r.alone = TRUE /\ r.pc = "insert" => uncommitted'[r.key] = {}
            /\ r.alone = TRUE /\ r.pc = "commit" => uncommitted'[r.key] = {r.text}
        BY <4>4, <4>6, <4>7 DEF Progress
      <4>9. r.key \notin strained' /\ r.op = "write" =>
               /\ r.pc = "backup" => r.prior = "none"
               /\ r.pc # "backup" /\ r.prior = "saved" => backup'[r.key] = believed'[r.key] /\ backup'[r.key] # {}
               /\ r.pc # "backup" /\ r.prior = "none" => believed'[r.key] = {}
        BY <4>4, <4>6, <4>7 DEF Progress
      <4> QED BY <3>4, <4>5, <4>8, <4>9 DEF Progress
    <3>5. CASE author'[b].alone # TRUE
      <4>1. author'[b].key \in strained'
        BY <1>3, <2>1, <3>1, <3>3, <3>5 DEF Progress
      <4> QED BY <3>5, <4>1 DEF Progress
    <3> QED BY <3>4, <3>5
  <2> QED BY <2>1 DEF CallsGoOn
<1>9. RowsAgree'
  BY <1>1 DEF NotesIInv, RowsAgree
<1>10. FilesAgree'
  <2> SUFFICES ASSUME NEW n \in Notes \ strained',
                      \A b \in Authors : author'[b] # NoAct /\ author'[b].key = n => author'[b].pc \in {"backup", "replace"}
               PROVE  noteFile'[n] = believed'[n]
    BY DEF FilesAgree
  <2>1. \A b \in Authors : author[b] # NoAct /\ author[b].key = n => author[b].pc \in {"backup", "replace"}
    BY <1>3
  <2>2. noteFile[n] = believed[n]
    BY <2>1 DEF NotesIInv, FilesAgree
  <2>3. n \in Keys /\ n \in Notes /\ n \notin strained'
    BY DEF Keys
  <2> QED BY <2>2, <2>3
<1> QED BY <1>2, <1>4, <1>5, <1>6, <1>7, <1>8, <1>9, <1>10 DEF NotesIInv

(* A text that is not stored again. *)
LEMMA SuppressKeeps ==
    ASSUME NotesIInv, NEW a \in Authors, NEW n \in Notes, NEW t \in Texts, Suppress(a, n, t)
    PROVE  NotesIInv'
<1>1. /\ believed' = [believed EXCEPT ![n] = {t}]
      /\ strained' = strained \cup (IF believed[n] = {t} /\ Acting(n) = {} THEN {} ELSE {n})
      /\ UNCHANGED <<noteFile, backup, rows, pathRows, uncommitted, author, lock, up>>
  BY DEF Suppress, Strain, files, tablesOfNotes
<1>2. /\ n \in Keys /\ noteFile \in [Notes -> SUBSET Texts] /\ believed \in [Keys -> SUBSET Texts]
      /\ strained \in SUBSET Keys /\ author \in [Authors -> {NoAct} \cup Acts]
  BY DEF NotesIInv, NotesTypes, Keys
<1>3. /\ believed' \in [Keys -> SUBSET Texts] /\ believed'[n] = {t}
      /\ \A k \in Keys \ {n} : believed'[k] = believed[k]
  BY <1>1, <1>2
<1>4. \A k \in Keys : believed'[k] # believed[k] => k \in strained'
  BY <1>1, <1>3
<1>5. \A b \in Authors : Stays(author[b], author'[b], strained')
  BY <1>1, UntouchedStays
<1>6. strained' \in SUBSET Keys /\ strained \subseteq strained'
  BY <1>1, <1>2
<1> QED BY <1>1, <1>2, <1>3, <1>4, <1>5, <1>6, NobodyMoves

(* A collected file: of its note nothing is promised. *)
LEMMA CollectKeeps ==
    ASSUME NotesIInv, NEW n \in Notes, Collect(n)
    PROVE  NotesIInv'
<1>1. /\ noteFile' = [noteFile EXCEPT ![n] = {}]
      /\ author' = NotAlone({n}, author)
      /\ strained' = strained \cup {n}
      /\ UNCHANGED <<backup, rows, pathRows, uncommitted, lock, up, believed>>
  BY DEF Collect, Strain, tablesOfNotes
<1>2. /\ n \in Keys /\ noteFile \in [Notes -> SUBSET Texts] /\ believed \in [Keys -> SUBSET Texts]
      /\ strained \in SUBSET Keys /\ author \in [Authors -> {NoAct} \cup Acts]
  BY DEF NotesIInv, NotesTypes, Keys
<1>3. author' \in [Authors -> {NoAct} \cup Acts]
  BY <1>1, <1>2, NotAloneMeans DEF NotAlone
<1>4. \A b \in Authors : Stays(author[b], author'[b], strained')
  BY <1>1, <1>2, NotAloneMeans, StaysForMore
<1>5. noteFile' \in [Notes -> SUBSET Texts] /\ \A m \in Notes : noteFile'[m] # noteFile[m] => m = n
  BY <1>1, <1>2
<1>6. \A b \in Authors : author'[b] # NoAct /\ author'[b].key = n => author'[b].alone = FALSE
  <2> TAKE b \in Authors
  <2>1. Stays(author[b], author'[b], {n})
    BY <1>1, <1>2, NotAloneMeans
  <2>2. author'[b] # NoAct /\ author'[b].key = n => author[b] # NoAct /\ author[b].key \in {n}
    BY <2>1 DEF Stays
  <2> QED BY <1>1, <1>2, <2>2, NotAloneMeans
<1>7. strained' \in SUBSET Keys /\ strained \subseteq strained' /\ n \in strained'
  BY <1>1, <1>2
<1>8. believed' \in [Keys -> SUBSET Texts] /\ \A k \in Keys : believed'[k] = believed[k]
  BY <1>1, <1>2
<1> QED BY <1>1, <1>3, <1>4, <1>5, <1>6, <1>7, <1>8, NobodyMoves

(* Only what was given lately is forgotten. *)
LEMMA HashForgottenKeeps ==
    ASSUME NotesIInv, UNCHANGED <<noteFile, backup, rows, pathRows, uncommitted, author, lock, up, believed, strained>>
    PROVE  NotesIInv'
<1>1. CallsGoOn'
  BY DEF NotesIInv, CallsGoOn, Progress
<1> QED BY <1>1
    DEF NotesIInv, NotesTypes, LockIsHeld, NobodyWorksWhileDown, AloneIsAlone, UncommittedIsOwn, Underway,
        RowsAgree, FilesAgree

(* The end of the process: nobody is at work, and what was not committed is gone. *)
LEMMA StopKeeps ==
    ASSUME NotesIInv, Stop
    PROVE  NotesIInv'
<1>1. PICK left : left = {author[a].key : a \in {b \in Authors :
                            author[b].pc \notin {"idle", "backup", "replace"} /\ author[b].op = "write"}}
  OBVIOUS
<1>2. /\ up' = FALSE /\ lock' = NoAuthor
      /\ author' = [a \in Authors |-> NoAct]
      /\ uncommitted' = rows /\ strained' = strained \cup left
      /\ UNCHANGED <<noteFile, backup, rows, pathRows, believed>>
  BY <1>1 DEF Stop, Strain, files
<1>3. author \in [Authors -> {NoAct} \cup Acts] /\ strained \in SUBSET Keys /\ rows \in [Keys -> SUBSET Texts]
  BY DEF NotesIInv, NotesTypes
<1>4. left \subseteq Keys
  BY <1>1, <1>3, IdleOrAtWork
<1>5. NotesTypes'
  BY <1>2, <1>3, <1>4 DEF NotesIInv, NotesTypes
<1>6. \A a \in Authors : author'[a] = NoAct /\ author'[a].pc \notin Holding /\ lock' # a
  BY <1>2, NotesAssumption DEF NoAct, Holding
<1>7. LockIsHeld' /\ NobodyWorksWhileDown' /\ AloneIsAlone' /\ CallsGoOn'
  BY <1>6 DEF LockIsHeld, NobodyWorksWhileDown, AloneIsAlone, CallsGoOn
<1>8. UncommittedIsOwn' /\ RowsAgree'
  BY <1>2 DEF NotesIInv, UncommittedIsOwn, RowsAgree
<1>9. ASSUME NEW n \in Notes \ strained' PROVE noteFile'[n] = believed'[n]
  <2>1. ASSUME NEW a \in Authors, author[a] # NoAct, author[a].key = n
        PROVE  author[a].pc \in {"backup", "replace"}
    <3>1. author[a].pc # "idle" /\ author[a].op = "write"
      BY <1>3, <2>1, IdleOrAtWork
    <3>2. n \notin left
      BY <1>2
    <3> QED BY <1>1, <2>1, <3>1, <3>2
  <2>2. n \notin strained
    BY <1>2
  <2> QED BY <1>2, <2>1, <2>2 DEF NotesIInv, FilesAgree
<1> QED BY <1>5, <1>7, <1>8, <1>9 DEF NotesIInv, FilesAgree

(* The start indexes files without a row, which are strained already. *)
LEMMA StartKeeps ==
    ASSUME NotesIInv, Start
    PROVE  NotesIInv'
<1>1. PICK found \in SUBSET {n \in Notes : noteFile[n] # {} /\ rows[n] = {} /\ pathRows[n] = {}} :
         pathRows' = [n \in Notes |-> IF n \in found THEN noteFile[n] ELSE pathRows[n]]
  BY DEF Start
<1>2. /\ ~up /\ up' = TRUE
      /\ UNCHANGED <<noteFile, backup, rows, uncommitted, author, lock, believed, strained>>
  BY DEF Start, files, noteHistory
<1>3. \A a \in Authors : author[a] = NoAct
  BY <1>2 DEF NotesIInv, NobodyWorksWhileDown
<1>4. pathRows' \in [Notes -> SUBSET Texts]
  BY <1>1 DEF NotesIInv, NotesTypes
<1>5. NotesTypes'
  BY <1>2, <1>4 DEF NotesIInv, NotesTypes
<1>6. /\ LockIsHeld' /\ NobodyWorksWhileDown' /\ AloneIsAlone' /\ UncommittedIsOwn' /\ FilesAgree'
  BY <1>2 DEF NotesIInv, LockIsHeld, NobodyWorksWhileDown, AloneIsAlone, UncommittedIsOwn, Underway, FilesAgree
<1>7. CallsGoOn'
  BY <1>2, <1>3 DEF CallsGoOn
<1>8. ASSUME NEW k \in Keys \ strained PROVE rows[k] = believed[k] /\ (k \in Notes => pathRows'[k] = {})
  <2>1. rows[k] = believed[k] /\ (k \in Notes => pathRows[k] = {} /\ noteFile[k] = believed[k])
    BY <1>3 DEF NotesIInv, RowsAgree, FilesAgree
  <2> QED BY <1>1, <2>1
<1>9. RowsAgree'
  BY <1>2, <1>8 DEF RowsAgree
<1> QED BY <1>5, <1>6, <1>7, <1>9 DEF NotesIInv

(* Every step keeps the invariant. *)
LEMMA NotesStep == NotesIInv /\ [NotesNext]_noteVars => NotesIInv'
<1> SUFFICES ASSUME NotesIInv, [NotesNext]_noteVars PROVE NotesIInv'
  OBVIOUS
<1>1. ASSUME NEW a \in Authors, AuthorStep(a) PROVE NotesIInv'
  <2>1. ASSUME NEW n \in Notes, NEW t \in Texts, Write(a, n, t) PROVE NotesIInv'
    <3>1. n \in Keys /\ author[a].pc = "idle" /\ up /\ Starts(a, "write", n, t)
          /\ UNCHANGED <<files, tablesOfNotes, lock, up, believed>>
      BY <2>1 DEF Write, AuthorAt, Keys
    <3> QED BY <3>1, StartsKeeps
  <2>2. ASSUME NEW n \in Notes, NEW t \in Texts, Suppress(a, n, t) PROVE NotesIInv'
    BY <2>2, SuppressKeeps
  <2>3. ASSUME NEW k \in Summaries, NEW t \in Texts, IndexExternal(a, k, t) PROVE NotesIInv'
    <3>1. k \in Keys /\ k \notin Notes /\ author[a].pc = "idle" /\ up /\ Starts(a, "external", k, t)
          /\ UNCHANGED <<files, tablesOfNotes, lock, up, believed>>
      BY <2>3, NotesAssumption DEF IndexExternal, AuthorAt, Keys
    <3> QED BY <3>1, StartsKeeps
  <2> QED
    BY <1>1, <2>1, <2>2, <2>3, BackUpKeeps, ReplaceKeeps, ReplaceFailsKeeps, TakeNotesLockKeeps, DeleteRowsKeeps,
       DeleteSkippedKeeps, InsertRowKeeps, CommitNotesKeeps, StatementFailsKeeps, RollBackKeeps,
       RollBackUnlockedKeeps, UndoWriteKeeps
    DEF AuthorStep
<1>2. ASSUME NEW n \in Notes, Collect(n) PROVE NotesIInv'
  BY <1>2, CollectKeeps
<1>3. CASE HashForgotten
  BY <1>3, HashForgottenKeeps DEF HashForgotten, files, tablesOfNotes
<1>4. CASE Stop
  BY <1>4, StopKeeps
<1>5. CASE Start
  BY <1>5, StartKeeps
<1>6. CASE UNCHANGED noteVars
  BY <1>6, HashForgottenKeeps DEF noteVars
<1> QED BY <1>1, <1>2, <1>3, <1>4, <1>5, <1>6 DEF NotesNext

(* The file of a note, its rows and what its caller was told agree, across failures *)
(* and restarts, but for the cases that are strained.                               *)
THEOREM FilesAndRowsAgree == NotesSpec => []NotesInv
BY NotesInitially, NotesStep, NotesImplied, PTL DEF NotesSpec

-----------------------------------------------------------------------------
(***************************************************************************)
(* MemorySearch.                                                           *)
(***************************************************************************)

CachedEntries == {Nothing} \cup [version : Versions, age : 0 .. CacheTtl]

SearchPcs == {"idle", "redis", "copy", "text", "hits", "vectors", "keep", "merge", "share"}

Searches == [pc : SearchPcs, text : Versions \cup {-1}, vector : Versions \cup {-1}, took : 0 .. Slow]

WriteSteps == {"idle", "failed", "sidecar", "clear", "scan", "delete"}

SearchTypes ==
    /\ begun \in Versions
    /\ indexed \in 0 .. begun
    /\ sidecar \in 0 .. begun
    /\ results \in [Searchers -> CachedEntries]
    /\ hits \in [Searchers -> CachedEntries]
    /\ shared \in CachedEntries
    /\ search \in [Searchers -> Searches]
    /\ writing \in [Searchers -> [step : WriteSteps, version : 0 .. begun]]
    /\ outdatedFor \in [Versions -> Nat]

(* What can be read, or is not written yet, is not outdated at all. *)
WhatIsReadIsCurrent == \A v \in Versions : v \in ToBeRead \/ v > begun => outdatedFor[v] = 0

(* A version that is kept has been outdated for no more than the limit and its age. *)
KeptWithin(entry, limit) ==
    entry.version # -1 => outdatedFor[entry.version] <= limit + entry.age

(* What a search of q has in hand, and for how long it can have been outdated. *)
InHand(q) ==
    /\ q.pc \in {"hits", "vectors", "keep", "merge"} =>
          q.text # -1 /\ outdatedFor[q.text] <= q.took
    /\ q.pc = "keep" => q.vector # -1 /\ outdatedFor[q.vector] <= q.took
    /\ q.pc \in {"merge", "share"} =>
          q.vector # -1 /\ outdatedFor[q.vector] <= CacheTtl + Slow + q.took
    /\ q.pc = "copy" =>
          q.vector # -1 /\ outdatedFor[q.vector] <= 2 * (CacheTtl + Slow) + q.took

(* How long what each cache is given can have been outdated. *)
HitsLimit == Slow

SharedLimit == CacheTtl + 2 * Slow

ResultsLimit == 2 * CacheTtl + 3 * Slow

(* Each cache is filled from the one before it, by a search that may be as slow as *)
(* can be: hits from what is read, the results in Redis from hits, the results of  *)
(* a process from those in Redis.                                                  *)
CachesAreInOrder ==
    /\ \A p \in Searchers : KeptWithin(hits[p], HitsLimit)
    /\ KeptWithin(shared, SharedLimit)
    /\ \A p \in Searchers : KeptWithin(results[p], ResultsLimit)

(* The inductive invariant of the search. *)
SearchIInv ==
    /\ SearchTypes
    /\ WhatIsReadIsCurrent
    /\ CachesAreInOrder
    /\ \A p \in Searchers : InHand(search[p])

(* The invariant holds at the start. *)
LEMMA SearchInitially == SearchInit => SearchIInv
<1> SUFFICES ASSUME SearchInit PROVE SearchIInv
  OBVIOUS
<1>1. SearchTypes
  BY SearchAssumption
  DEF SearchInit, SearchTypes, Versions, CachedEntries, Searches, SearchPcs, WriteSteps, Nothing, NoSearch, NoWrite
<1>2. WhatIsReadIsCurrent
  BY DEF SearchInit, WhatIsReadIsCurrent
<1>3. CachesAreInOrder
  BY DEF SearchInit, CachesAreInOrder, KeptWithin, Nothing
<1>4. \A p \in Searchers : InHand(search[p])
  BY DEF SearchInit, InHand, NoSearch
<1> QED BY <1>1, <1>2, <1>3, <1>4 DEF SearchIInv

(* The invariant implies what the run checks. *)
LEMMA SearchImplied == SearchIInv => SearchInv
<1> SUFFICES ASSUME SearchIInv, NEW p \in Searchers
             PROVE  /\ Hit(results[p]) => outdatedFor[results[p].version] <= Staleness
                    /\ search[p].pc \in {"copy", "share"} => outdatedFor[search[p].vector] <= Staleness
  BY DEF SearchInv
<1>1. CacheTtl \in Nat /\ Slow \in Nat
  BY SearchAssumption
<1>2. /\ results[p] \in CachedEntries
      /\ search[p] \in Searches
      /\ outdatedFor \in [Versions -> Nat]
  BY DEF SearchIInv, SearchTypes
<1>3. Hit(results[p]) => outdatedFor[results[p].version] <= Staleness
  <2> SUFFICES ASSUME Hit(results[p]) PROVE outdatedFor[results[p].version] <= Staleness
    OBVIOUS
  <2>1. results[p] \in [version : Versions, age : 0 .. CacheTtl]
    BY <1>2 DEF Hit, CachedEntries, Nothing
  <2>2. outdatedFor[results[p].version] <= 2 * CacheTtl + 3 * Slow + results[p].age
    BY DEF SearchIInv, CachesAreInOrder, KeptWithin, ResultsLimit, Hit
  <2>3. outdatedFor[results[p].version] \in Nat
    BY <1>2, <2>1
  <2> QED BY <1>1, <2>1, <2>2, <2>3 DEF Staleness
<1>4. search[p].pc \in {"copy", "share"} => outdatedFor[search[p].vector] <= Staleness
  <2> SUFFICES ASSUME search[p].pc \in {"copy", "share"}
               PROVE  outdatedFor[search[p].vector] <= Staleness
    OBVIOUS
  <2>1. InHand(search[p])
    BY DEF SearchIInv
  <2>2. search[p].vector \in Versions /\ search[p].took \in 0 .. Slow
    BY <1>2, <2>1 DEF Searches, InHand
  <2>3. outdatedFor[search[p].vector] \in Nat
    BY <1>2, <2>2
  <2>4. outdatedFor[search[p].vector] <= 2 * (CacheTtl + Slow) + search[p].took
    <3>1. CASE search[p].pc = "copy"
      BY <2>1, <3>1 DEF InHand
    <3>2. CASE search[p].pc = "share"
      BY <1>1, <2>1, <2>2, <2>3, <3>2 DEF InHand
    <3> QED BY <3>1, <3>2
  <2> QED BY <1>1, <2>2, <2>3, <2>4 DEF Staleness
<1> QED BY <1>3, <1>4

(* A step of one search, that fills a cache within its limit or leaves it alone. *)
LEMMA OneSearchMoves ==
    ASSUME SearchIInv, NEW p \in Searchers, NEW q \in Searches, InHand(q),
           search' = [search EXCEPT ![p] = q],
           UNCHANGED <<indexed, begun, sidecar, writing, outdatedFor>>,
           \/ UNCHANGED results
           \/ \E e \in CachedEntries : results' = [results EXCEPT ![p] = e] /\ KeptWithin(e, ResultsLimit),
           \/ UNCHANGED hits
           \/ \E e \in CachedEntries : hits' = [hits EXCEPT ![p] = e] /\ KeptWithin(e, HitsLimit),
           \/ UNCHANGED shared
           \/ shared' \in CachedEntries /\ KeptWithin(shared', SharedLimit)
    PROVE  SearchIInv'
<1> USE DEF SearchIInv
<1>1. SearchTypes'
  BY DEF SearchTypes
<1>2. WhatIsReadIsCurrent'
  BY DEF WhatIsReadIsCurrent, ToBeRead, View
<1>3. \A e, l : KeptWithin(e, l)' <=> KeptWithin(e, l)
  BY DEF KeptWithin
<1>4. CachesAreInOrder'
  <2>1. ASSUME NEW c \in Searchers PROVE KeptWithin(hits'[c], HitsLimit)
    BY DEF CachesAreInOrder, SearchTypes
  <2>2. KeptWithin(shared', SharedLimit)
    BY DEF CachesAreInOrder
  <2>3. ASSUME NEW c \in Searchers PROVE KeptWithin(results'[c], ResultsLimit)
    BY DEF CachesAreInOrder, SearchTypes
  <2> QED BY <2>1, <2>2, <2>3 DEF CachesAreInOrder, KeptWithin, HitsLimit, SharedLimit, ResultsLimit
<1>5. ASSUME NEW c \in Searchers PROVE InHand(search[c])'
  <2>1. InHand(search'[c])
    BY DEF SearchTypes
  <2> QED BY <2>1 DEF InHand
<1> QED BY <1>1, <1>2, <1>4, <1>5

(* What the searches read is current. *)
LEMMA ReadIsCurrent ==
    ASSUME SearchIInv, NEW p \in Searchers, NEW v \in {View(p), sidecar}
    PROVE  v \in Versions /\ v # -1 /\ outdatedFor[v] = 0
<1>1. v \in ToBeRead
  BY DEF ToBeRead
<1>2. begun \in Versions /\ indexed \in 0 .. begun /\ sidecar \in 0 .. begun /\ writing[p].version \in 0 .. begun
  BY DEF SearchIInv, SearchTypes
<1>3. v \in 0 .. begun
  BY <1>2 DEF View
<1> QED BY <1>1, <1>2, <1>3, SearchAssumption DEF SearchIInv, WhatIsReadIsCurrent, Versions

(* A search between its steps. *)
LEMMA SearchInHand ==
    ASSUME SearchIInv, NEW p \in Searchers
    PROVE  /\ search[p] \in Searches
           /\ InHand(search[p])
           /\ CacheTtl \in Nat /\ Slow \in Nat
           /\ \A v \in Versions : outdatedFor[v] \in Nat
BY SearchAssumption DEF SearchIInv, SearchTypes

(* A hit in a cache is a version. *)
LEMMA HitIsVersion ==
    ASSUME NEW e \in CachedEntries, Hit(e)
    PROVE  e.version \in Versions /\ e.version # -1 /\ e.age \in 0 .. CacheTtl
BY SearchAssumption DEF CachedEntries, Hit, Nothing, Versions

(* What a search has just found is an entry. *)
LEMMA FreshIsEntry ==
    ASSUME NEW v \in Versions
    PROVE  Fresh(v) \in CachedEntries /\ Fresh(v).version = v /\ Fresh(v).age = 0
BY SearchAssumption DEF Fresh, CachedEntries

(* A hit leaves both caches of a process as they are. *)
LEMMA HitsChangeNothing ==
    ASSUME SearchIInv, NEW p \in Searchers
    PROVE  /\ results = [results EXCEPT ![p] = AfterHit(@)]
           /\ hits = [hits EXCEPT ![p] = AfterHit(@)]
BY DEF AfterHit, SearchIInv, SearchTypes

(* The steps of a search that fill no cache. *)
LEMMA LookResultsKeeps ==
    ASSUME SearchIInv, NEW p \in Searchers, LookResults(p)
    PROVE  SearchIInv'
<1>1. UNCHANGED <<indexed, begun, sidecar, writing, outdatedFor, results, hits, shared>>
  BY HitsChangeNothing DEF LookResults
<1>2. PICK q \in {NoSearch, [search[p] EXCEPT !.pc = "redis"]} : search' = [search EXCEPT ![p] = q]
  BY SearchInHand DEF LookResults, Goes, Returns
<1>3. q \in Searches /\ InHand(q)
  BY SearchInHand DEF NoSearch, Searches, SearchPcs, InHand
<1> QED BY <1>1, <1>2, <1>3, OneSearchMoves

LEMMA LookSharedKeeps ==
    ASSUME SearchIInv, NEW p \in Searchers, LookShared(p)
    PROVE  SearchIInv'
<1>1. PICK old : old = search[p]
  OBVIOUS
<1>2. PICK q : q = [old EXCEPT !.pc = "copy", !.vector = shared.version]
  OBVIOUS
<1>3. UNCHANGED <<indexed, begun, sidecar, writing, outdatedFor, results, hits, shared>>
  BY DEF LookShared
<1>4. search' = [search EXCEPT ![p] = q]
  BY <1>1, <1>2 DEF LookShared
<1>5. /\ shared.version \in Versions /\ shared.version # -1
      /\ shared.age \in 0 .. CacheTtl
  BY HitIsVersion DEF LookShared, SearchIInv, SearchTypes
<1>6. outdatedFor[shared.version] <= SharedLimit + shared.age
  <2>1. KeptWithin(shared, SharedLimit)
    BY DEF SearchIInv, CachesAreInOrder
  <2> QED BY <1>5, <2>1 DEF KeptWithin
<1>7. old \in Searches
  BY <1>1, SearchInHand
<1>8. q \in Searches
  BY <1>2, <1>5, <1>7 DEF Searches, SearchPcs
<1>9. q.pc = "copy" /\ q.vector = shared.version /\ q.took \in Nat
  BY <1>2, <1>7, SearchAssumption DEF Searches
<1>10. outdatedFor[q.vector] <= 2 * (CacheTtl + Slow) + q.took
  BY <1>5, <1>6, <1>9, SearchInHand DEF SharedLimit
<1>11. InHand(q)
  BY <1>5, <1>9, <1>10 DEF InHand
<1> QED BY <1>3, <1>4, <1>8, <1>11, OneSearchMoves

LEMMA MissSharedKeeps ==
    ASSUME SearchIInv, NEW p \in Searchers, MissShared(p)
    PROVE  SearchIInv'
<1>1. PICK q : q = [search[p] EXCEPT !.pc = "text"]
  OBVIOUS
<1>2. UNCHANGED <<indexed, begun, sidecar, writing, outdatedFor, results, hits, shared>>
  BY DEF MissShared
<1>3. search' = [search EXCEPT ![p] = q]
  BY <1>1 DEF MissShared, Goes
<1>4. q \in Searches /\ InHand(q)
  BY <1>1, SearchInHand DEF Searches, SearchPcs, InHand
<1> QED BY <1>2, <1>3, <1>4, OneSearchMoves

LEMMA ReadTextKeeps ==
    ASSUME SearchIInv, NEW p \in Searchers, ReadText(p)
    PROVE  SearchIInv'
<1>1. PICK old : old = search[p]
  OBVIOUS
<1>2. PICK q : q = [old EXCEPT !.pc = "hits", !.text = View(p)]
  OBVIOUS
<1>3. UNCHANGED <<indexed, begun, sidecar, writing, outdatedFor, results, hits, shared>>
  BY DEF ReadText
<1>4. search' = [search EXCEPT ![p] = q]
  BY <1>1, <1>2 DEF ReadText
<1>5. View(p) \in Versions /\ View(p) # -1 /\ outdatedFor[View(p)] = 0
  BY ReadIsCurrent
<1>6. old \in Searches
  BY <1>1, SearchInHand
<1>7. q \in Searches
  BY <1>2, <1>5, <1>6 DEF Searches, SearchPcs
<1>8. q.pc = "hits" /\ q.text = View(p) /\ q.took \in Nat
  BY <1>2, <1>6, SearchAssumption DEF Searches
<1>9. InHand(q)
  BY <1>5, <1>8 DEF InHand
<1> QED BY <1>3, <1>4, <1>7, <1>9, OneSearchMoves

LEMMA LookHitsKeeps ==
    ASSUME SearchIInv, NEW p \in Searchers, LookHits(p)
    PROVE  SearchIInv'
<1>1. UNCHANGED <<indexed, begun, sidecar, writing, outdatedFor, results, hits, shared>>
  BY HitsChangeNothing DEF LookHits
<1>2. PICK old : old = search[p]
  OBVIOUS
<1>3. old \in Searches /\ old.pc = "hits" /\ old.text # -1 /\ outdatedFor[old.text] <= old.took
  BY <1>2, SearchInHand DEF LookHits, SearchAt, InHand
<1>4. CASE Hit(hits[p])
  <2>1. PICK q : q = [old EXCEPT !.pc = "merge", !.vector = hits[p].version]
    OBVIOUS
  <2>2. search' = [search EXCEPT ![p] = q]
    BY <1>2, <1>4, <2>1 DEF LookHits
  <2>3. /\ hits[p].version \in Versions /\ hits[p].version # -1
        /\ hits[p].age \in 0 .. CacheTtl
        /\ outdatedFor[hits[p].version] <= Slow + hits[p].age
    BY <1>4, HitIsVersion DEF SearchIInv, SearchTypes, CachesAreInOrder, KeptWithin, HitsLimit
  <2>4. q \in Searches
    BY <1>3, <2>1, <2>3 DEF Searches, SearchPcs
  <2>5. q.pc = "merge" /\ q.vector = hits[p].version /\ q.text = old.text /\ q.took = old.took
    BY <1>3, <2>1 DEF Searches
  <2>6. q.took \in Nat
    BY <2>4, SearchAssumption DEF Searches
  <2>7. outdatedFor[q.vector] <= CacheTtl + Slow + q.took
    BY <2>3, <2>5, <2>6, SearchInHand
  <2>8. InHand(q)
    BY <1>3, <2>3, <2>5, <2>7 DEF InHand
  <2> QED BY <1>1, <2>2, <2>4, <2>8, OneSearchMoves
<1>5. CASE ~Hit(hits[p])
  <2>1. PICK q : q = [old EXCEPT !.pc = "vectors"]
    OBVIOUS
  <2>2. search' = [search EXCEPT ![p] = q]
    BY <1>2, <1>5, <2>1 DEF LookHits, Goes
  <2>3. q \in Searches /\ q.pc = "vectors" /\ q.text = old.text /\ q.took = old.took
    BY <1>3, <2>1 DEF Searches, SearchPcs
  <2>4. InHand(q)
    BY <1>3, <2>3 DEF InHand
  <2> QED BY <1>1, <2>2, <2>3, <2>4, OneSearchMoves
<1> QED BY <1>4, <1>5

LEMMA ReadVectorsKeeps ==
    ASSUME SearchIInv, NEW p \in Searchers, ReadVectors(p)
    PROVE  SearchIInv'
<1>1. UNCHANGED <<indexed, begun, sidecar, writing, outdatedFor, results, hits, shared>>
  BY DEF ReadVectors
<1>2. PICK old : old = search[p]
  OBVIOUS
<1>3. PICK v \in {View(p), sidecar} :
         search' = [search EXCEPT ![p].pc = "keep", ![p].vector = v]
  BY DEF ReadVectors
<1>4. PICK q : q = [old EXCEPT !.pc = "keep", !.vector = v]
  OBVIOUS
<1>5. search' = [search EXCEPT ![p] = q]
  BY <1>2, <1>3, <1>4
<1>6. v \in Versions /\ v # -1 /\ outdatedFor[v] = 0
  BY ReadIsCurrent
<1>7. old \in Searches /\ old.text # -1 /\ outdatedFor[old.text] <= old.took
  BY <1>2, SearchInHand DEF ReadVectors, SearchAt, InHand
<1>8. q \in Searches
  BY <1>4, <1>6, <1>7 DEF Searches, SearchPcs
<1>9. /\ q.pc = "keep" /\ q.vector = v /\ q.text = old.text
      /\ q.took = old.took /\ q.took \in Nat
  BY <1>4, <1>7, SearchAssumption DEF Searches
<1>10. InHand(q)
  BY <1>6, <1>7, <1>9 DEF InHand
<1> QED BY <1>1, <1>5, <1>8, <1>10, OneSearchMoves

(* An entry with what a search has in hand, within the limit of its cache. *)
LEMMA FreshIsWithin ==
    ASSUME NEW v \in Versions, NEW l, outdatedFor[v] \in Nat, l \in Nat, outdatedFor[v] <= l
    PROVE  Fresh(v) \in CachedEntries /\ KeptWithin(Fresh(v), l)
BY FreshIsEntry DEF KeptWithin

(* A search that ends has nothing in hand. *)
LEMMA NothingInHand == NoSearch \in Searches /\ InHand(NoSearch)
BY SearchAssumption DEF NoSearch, Searches, SearchPcs, InHand

(* The steps that fill a cache. *)
LEMMA CopyKeeps ==
    ASSUME SearchIInv, NEW p \in Searchers, Copy(p)
    PROVE  SearchIInv'
<1>1. UNCHANGED <<indexed, begun, sidecar, writing, outdatedFor, hits, shared>>
  BY DEF Copy
<1>2. PICK v : v = search[p].vector
  OBVIOUS
<1>3. search' = [search EXCEPT ![p] = NoSearch] /\ results' = [results EXCEPT ![p] = Fresh(v)]
  BY <1>2 DEF Copy, Returns
<1>4. /\ search[p].took \in 0 .. Slow
      /\ v # -1 /\ outdatedFor[v] <= 2 * (CacheTtl + Slow) + search[p].took
  BY <1>2, SearchInHand DEF Copy, SearchAt, InHand, Searches
<1>5. v \in Versions
  BY <1>2, <1>4, SearchInHand DEF Searches
<1>6. outdatedFor[v] \in Nat /\ ResultsLimit \in Nat /\ outdatedFor[v] <= ResultsLimit
  BY <1>4, <1>5, SearchInHand DEF ResultsLimit
<1>7. Fresh(v) \in CachedEntries /\ KeptWithin(Fresh(v), ResultsLimit)
  BY <1>5, <1>6, FreshIsWithin
<1> QED BY <1>1, <1>3, <1>7, NothingInHand, OneSearchMoves

LEMMA KeepHitsKeeps ==
    ASSUME SearchIInv, NEW p \in Searchers, KeepHits(p)
    PROVE  SearchIInv'
<1>1. UNCHANGED <<indexed, begun, sidecar, writing, outdatedFor, results, shared>>
  BY DEF KeepHits
<1>2. PICK old : old = search[p]
  OBVIOUS
<1>3. PICK q : q = [old EXCEPT !.pc = "merge"]
  OBVIOUS
<1>4. search' = [search EXCEPT ![p] = q] /\ hits' = [hits EXCEPT ![p] = Fresh(old.vector)]
  BY <1>2, <1>3 DEF KeepHits, Goes
<1>5. /\ old \in Searches
      /\ old.text # -1 /\ outdatedFor[old.text] <= old.took
      /\ old.vector # -1 /\ outdatedFor[old.vector] <= old.took
  BY <1>2, SearchInHand DEF KeepHits, SearchAt, InHand
<1>6. old.vector \in Versions /\ old.took \in 0 .. Slow
  BY <1>5 DEF Searches
<1>7. q \in Searches
  BY <1>3, <1>5 DEF Searches, SearchPcs
<1>8. q.pc = "merge" /\ q.text = old.text /\ q.vector = old.vector /\ q.took = old.took
  BY <1>3, <1>5 DEF Searches
<1>9. outdatedFor[old.vector] \in Nat /\ HitsLimit \in Nat /\ outdatedFor[old.vector] <= HitsLimit
  BY <1>5, <1>6, SearchInHand DEF HitsLimit
<1>10. Fresh(old.vector) \in CachedEntries /\ KeptWithin(Fresh(old.vector), HitsLimit)
  BY <1>6, <1>9, FreshIsWithin
<1>11. outdatedFor[q.vector] <= CacheTtl + Slow + q.took
  BY <1>5, <1>6, <1>8, <1>9, SearchInHand
<1>12. InHand(q)
  BY <1>5, <1>8, <1>11 DEF InHand
<1> QED BY <1>1, <1>4, <1>7, <1>10, <1>12, OneSearchMoves

LEMMA WithoutVectorsKeeps ==
    ASSUME SearchIInv, NEW p \in Searchers, WithoutVectors(p)
    PROVE  SearchIInv'
<1>1. UNCHANGED <<indexed, begun, sidecar, writing, outdatedFor, hits, shared>>
  BY DEF WithoutVectors
<1>2. PICK v : v = search[p].text
  OBVIOUS
<1>3. search' = [search EXCEPT ![p] = NoSearch] /\ results' = [results EXCEPT ![p] = Fresh(v)]
  BY <1>2 DEF WithoutVectors, Returns
<1>4. search[p].took \in 0 .. Slow /\ v # -1 /\ outdatedFor[v] <= search[p].took
  BY <1>2, SearchInHand DEF WithoutVectors, SearchAt, InHand, Searches
<1>5. v \in Versions
  BY <1>2, <1>4, SearchInHand DEF Searches
<1>6. outdatedFor[v] \in Nat /\ ResultsLimit \in Nat /\ outdatedFor[v] <= ResultsLimit
  BY <1>4, <1>5, SearchInHand DEF ResultsLimit
<1>7. Fresh(v) \in CachedEntries /\ KeptWithin(Fresh(v), ResultsLimit)
  BY <1>5, <1>6, FreshIsWithin
<1> QED BY <1>1, <1>3, <1>7, NothingInHand, OneSearchMoves

LEMMA MergeKeeps ==
    ASSUME SearchIInv, NEW p \in Searchers, Merge(p)
    PROVE  SearchIInv'
<1>1. UNCHANGED <<indexed, begun, sidecar, writing, outdatedFor, hits, shared>>
  BY DEF Merge
<1>2. PICK old : old = search[p]
  OBVIOUS
<1>3. PICK v \in {old.text, old.vector} :
         /\ results' = [results EXCEPT ![p] = Fresh(v)]
         /\ search' = [search EXCEPT ![p].pc = "share", ![p].text = -1, ![p].vector = v]
  BY <1>2 DEF Merge
<1>4. PICK q : q = [old EXCEPT !.pc = "share", !.text = -1, !.vector = v]
  OBVIOUS
<1>5. search' = [search EXCEPT ![p] = q]
  BY <1>2, <1>3, <1>4
<1>6. /\ old \in Searches
      /\ old.text # -1 /\ outdatedFor[old.text] <= old.took
      /\ old.vector # -1 /\ outdatedFor[old.vector] <= CacheTtl + Slow + old.took
  BY <1>2, SearchInHand DEF Merge, SearchAt, InHand
<1>7. v \in Versions /\ v # -1 /\ old.took \in 0 .. Slow
  BY <1>6 DEF Searches
<1>8. q \in Searches
  BY <1>4, <1>6, <1>7 DEF Searches, SearchPcs
<1>9. q.pc = "share" /\ q.vector = v /\ q.took = old.took
  BY <1>4, <1>6 DEF Searches
<1>10. outdatedFor[v] \in Nat /\ outdatedFor[v] <= CacheTtl + Slow + old.took
  BY <1>6, <1>7, SearchInHand
<1>11. ResultsLimit \in Nat /\ outdatedFor[v] <= ResultsLimit
  BY <1>7, <1>10, SearchInHand DEF ResultsLimit
<1>12. Fresh(v) \in CachedEntries /\ KeptWithin(Fresh(v), ResultsLimit)
  BY <1>7, <1>10, <1>11, FreshIsWithin
<1>13. InHand(q)
  BY <1>7, <1>9, <1>10 DEF InHand
<1> QED BY <1>1, <1>3, <1>5, <1>8, <1>12, <1>13, OneSearchMoves

LEMMA ShareKeeps ==
    ASSUME SearchIInv, NEW p \in Searchers, Share(p)
    PROVE  SearchIInv'
<1>1. UNCHANGED <<indexed, begun, sidecar, writing, outdatedFor, results, hits>>
  BY DEF Share
<1>2. PICK v : v = search[p].vector
  OBVIOUS
<1>3. search' = [search EXCEPT ![p] = NoSearch] /\ shared' \in {Fresh(v), shared}
  BY <1>2 DEF Share, Returns
<1>4. /\ search[p].took \in 0 .. Slow
      /\ v # -1 /\ outdatedFor[v] <= CacheTtl + Slow + search[p].took
  BY <1>2, SearchInHand DEF Share, SearchAt, InHand, Searches
<1>5. v \in Versions
  BY <1>2, <1>4, SearchInHand DEF Searches
<1>6. outdatedFor[v] \in Nat /\ SharedLimit \in Nat /\ outdatedFor[v] <= SharedLimit
  BY <1>4, <1>5, SearchInHand DEF SharedLimit
<1>7. Fresh(v) \in CachedEntries /\ KeptWithin(Fresh(v), SharedLimit)
  BY <1>5, <1>6, FreshIsWithin
<1> QED BY <1>1, <1>3, <1>7, NothingInHand, OneSearchMoves

-----------------------------------------------------------------------------
(* An empty cache keeps nothing for too long. *)
LEMMA NothingIsKept == Nothing \in CachedEntries /\ \A l : KeptWithin(Nothing, l)
BY DEF Nothing, CachedEntries, KeptWithin

(* A step that is no search, nor the time: what can be read afterwards could be read *)
(* before or is new, versions become current again, and caches are emptied.          *)
LEMMA OneWriteMoves ==
    ASSUME SearchIInv, SearchTypes', UNCHANGED search, begun' >= begun,
           \A v \in Versions : outdatedFor'[v] \in {0, outdatedFor[v]},
           \A v \in Versions : (v \in ToBeRead)' => v \in ToBeRead \/ v > begun \/ outdatedFor'[v] = 0,
           \A p \in Searchers : results'[p] \in {results[p], Nothing} /\ hits'[p] \in {hits[p], Nothing},
           shared' \in {shared, Nothing}
    PROVE  SearchIInv'
<1> USE DEF SearchIInv
<1>1. ASSUME NEW e \in CachedEntries, NEW l \in Nat, KeptWithin(e, l) PROVE KeptWithin(e, l)'
  <2> SUFFICES ASSUME e.version # -1 PROVE outdatedFor'[e.version] <= l + e.age
    BY DEF KeptWithin
  <2>1. e.version \in Versions /\ e.age \in Nat
    BY SearchAssumption DEF CachedEntries, Nothing
  <2>2. outdatedFor[e.version] <= l + e.age
    BY <1>1 DEF KeptWithin
  <2> QED BY <2>1, <2>2
<1>2. HitsLimit \in Nat /\ SharedLimit \in Nat /\ ResultsLimit \in Nat
  BY SearchAssumption DEF HitsLimit, SharedLimit, ResultsLimit
<1>3. CachesAreInOrder'
  <2>1. ASSUME NEW p \in Searchers PROVE KeptWithin(hits[p], HitsLimit)'
    <3>1. hits'[p] \in CachedEntries /\ KeptWithin(hits'[p], HitsLimit)
      BY NothingIsKept DEF SearchTypes, CachesAreInOrder
    <3> QED BY <1>1, <1>2, <3>1 DEF KeptWithin, HitsLimit
  <2>2. KeptWithin(shared, SharedLimit)'
    <3>1. shared' \in CachedEntries /\ KeptWithin(shared', SharedLimit)
      BY NothingIsKept DEF SearchTypes, CachesAreInOrder
    <3> QED BY <1>1, <1>2, <3>1 DEF KeptWithin, SharedLimit
  <2>3. ASSUME NEW p \in Searchers PROVE KeptWithin(results[p], ResultsLimit)'
    <3>1. results'[p] \in CachedEntries /\ KeptWithin(results'[p], ResultsLimit)
      BY NothingIsKept DEF SearchTypes, CachesAreInOrder
    <3> QED BY <1>1, <1>2, <3>1 DEF KeptWithin, ResultsLimit
  <2> QED BY <2>1, <2>2, <2>3 DEF CachesAreInOrder
<1>4. WhatIsReadIsCurrent'
  <2> SUFFICES ASSUME NEW v \in Versions, (v \in ToBeRead)' \/ v > begun'
               PROVE  outdatedFor'[v] = 0
    BY DEF WhatIsReadIsCurrent
  <2>1. begun \in Int /\ begun' \in Int /\ v \in Int
    BY SearchAssumption DEF SearchTypes, Versions
  <2> QED BY <2>1 DEF WhatIsReadIsCurrent
<1>5. ASSUME NEW p \in Searchers PROVE InHand(search[p])'
  <2>1. InHand(search[p]) /\ search[p] \in Searches
    BY DEF SearchTypes
  <2>2. \A v \in Versions : outdatedFor'[v] <= outdatedFor[v] /\ outdatedFor[v] \in Nat /\ outdatedFor'[v] \in Nat
    BY DEF SearchTypes
  <2>3. \A v \in Versions : \A l \in Nat : outdatedFor[v] <= l => outdatedFor'[v] <= l
    BY <2>2
  <2>4. /\ search[p].text # -1 => search[p].text \in Versions
        /\ search[p].vector # -1 => search[p].vector \in Versions
        /\ search[p].took \in Nat
    BY <2>1, SearchAssumption DEF Searches
  <2>5. CacheTtl + Slow + search[p].took \in Nat /\ 2 * (CacheTtl + Slow) + search[p].took \in Nat
    BY <2>4, SearchAssumption
  <2>6. InHand(search[p])'
    BY <2>1, <2>3, <2>4, <2>5 DEF InHand
  <2> QED BY <2>6
<1> QED BY <1>3, <1>4, <1>5

(* The step of one write, to q. *)
LEMMA WriteIsTyped ==
    ASSUME SearchIInv, NEW p \in Searchers, NEW q \in [step : WriteSteps, version : 0 .. begun'],
           writing' = [writing EXCEPT ![p] = q],
           begun' \in Versions, begun' >= begun,
           indexed' \in 0 .. begun', sidecar' \in 0 .. begun',
           outdatedFor' \in [Versions -> Nat],
           UNCHANGED search,
           results' = results \/ results' = [results EXCEPT ![p] = Nothing],
           hits' = hits \/ hits' = [hits EXCEPT ![p] = Nothing],
           shared' \in {shared, Nothing}
    PROVE  /\ SearchTypes'
           /\ \A c \in Searchers :
                 results'[c] \in {results[c], Nothing} /\ hits'[c] \in {hits[c], Nothing}
           /\ \A c \in Searchers : writing'[c] = IF c = p THEN q ELSE writing[c]
<1> USE DEF SearchIInv
<1>1. begun \in 0 .. MaxWrites /\ begun' \in 0 .. MaxWrites /\ MaxWrites \in Nat
  BY SearchAssumption DEF SearchTypes, Versions
<1>2. \A i \in 0 .. begun : i \in 0 .. begun'
  BY <1>1
<1>3. writing' \in [Searchers -> [step : WriteSteps, version : 0 .. begun']]
  <2>1. ASSUME NEW c \in Searchers PROVE writing[c] \in [step : WriteSteps, version : 0 .. begun']
    <3>1. writing[c] \in [step : WriteSteps, version : 0 .. begun]
      BY DEF SearchTypes
    <3> QED BY <1>2, <3>1
  <2> QED BY <2>1 DEF SearchTypes
<1>4. results' \in [Searchers -> CachedEntries] /\ hits' \in [Searchers -> CachedEntries] /\ shared' \in CachedEntries
  BY NothingIsKept DEF SearchTypes
<1>5. \A c \in Searchers :
         results'[c] \in {results[c], Nothing} /\ hits'[c] \in {hits[c], Nothing}
  BY DEF SearchTypes
<1>6. \A c \in Searchers : writing'[c] = IF c = p THEN q ELSE writing[c]
  BY DEF SearchTypes
<1> QED BY <1>3, <1>4, <1>5, <1>6 DEF SearchTypes

(* The rows of a write, committed or left in its transaction, are new. *)
LEMMA BeginKeeps ==
    ASSUME SearchIInv, NEW p \in Recorders, CommitRows(p) \/ RowsFail(p)
    PROVE  SearchIInv'
<1>1. PICK step \in {"sidecar", "failed"} : Begins(p, step)
  BY DEF CommitRows, RowsFail
<1>2. PICK q : q = [step |-> step, version |-> begun + 1]
  OBVIOUS
<1>3. /\ begun' = begun + 1 /\ begun < MaxWrites
      /\ writing' = [writing EXCEPT ![p] = q]
      /\ indexed' \in {indexed, begun'}
      /\ UNCHANGED <<sidecar, results, hits, shared, search, outdatedFor>>
  BY <1>1, <1>2 DEF Begins, CommitRows, RowsFail
<1>4. /\ MaxWrites \in Nat /\ begun \in 0 .. MaxWrites /\ p \in Searchers
      /\ indexed \in 0 .. begun /\ sidecar \in 0 .. begun
      /\ outdatedFor \in [Versions -> Nat]
  BY SearchAssumption DEF SearchIInv, SearchTypes, Versions
<1>5. /\ begun' \in Versions /\ begun' >= begun
      /\ indexed' \in 0 .. begun' /\ sidecar' \in 0 .. begun'
      /\ q \in [step : WriteSteps, version : 0 .. begun']
  BY <1>2, <1>3, <1>4 DEF Versions, WriteSteps
<1>6. /\ SearchTypes'
      /\ \A c \in Searchers :
            results'[c] \in {results[c], Nothing} /\ hits'[c] \in {hits[c], Nothing}
      /\ \A c \in Searchers : writing'[c] = IF c = p THEN q ELSE writing[c]
  BY <1>3, <1>4, <1>5, WriteIsTyped
<1>7. ASSUME NEW v \in Versions, (v \in ToBeRead)' PROVE v \in ToBeRead \/ v > begun
  <2>1. begun' > begun
    BY <1>3, <1>4
  <2>2. ASSUME NEW c \in Searchers PROVE View(c)' \in {View(c), indexed, begun'}
    BY <1>2, <1>3, <1>6 DEF View
  <2> QED BY <1>3, <1>7, <2>1, <2>2 DEF ToBeRead
<1>8. /\ SearchTypes' /\ UNCHANGED search /\ begun' >= begun
      /\ \A v \in Versions : outdatedFor'[v] \in {0, outdatedFor[v]}
      /\ \A c \in Searchers : results'[c] \in {results[c], Nothing} /\ hits'[c] \in {hits[c], Nothing}
      /\ shared' \in {shared, Nothing}
  BY <1>3, <1>5, <1>6
<1>9. \A v \in Versions : (v \in ToBeRead)' => v \in ToBeRead \/ v > begun \/ outdatedFor'[v] = 0
  BY <1>7
<1> QED BY <1>8, <1>9, OneWriteMoves, Zenon

(* A write that is taken back leaves the rows as they were committed. *)
LEMMA RollBackRowsKeeps ==
    ASSUME SearchIInv, NEW p \in Recorders, RollBackRows(p)
    PROVE  SearchIInv'
<1>1. /\ writing' = [writing EXCEPT ![p] = NoWrite]
      /\ UNCHANGED <<indexed, begun, sidecar, results, hits, shared, search, outdatedFor>>
  BY DEF RollBackRows, WriteEnds
<1>2. /\ begun \in Versions /\ begun \in Nat /\ p \in Searchers
      /\ NoWrite \in [step : WriteSteps, version : 0 .. begun']
      /\ indexed \in 0 .. begun /\ sidecar \in 0 .. begun
      /\ outdatedFor \in [Versions -> Nat]
  BY <1>1, SearchAssumption DEF SearchIInv, SearchTypes, Versions, NoWrite, WriteSteps
<1>3. /\ begun' \in Versions /\ begun' >= begun
      /\ indexed' \in 0 .. begun' /\ sidecar' \in 0 .. begun'
      /\ outdatedFor' \in [Versions -> Nat]
  BY <1>1, <1>2
<1>4. /\ SearchTypes'
      /\ \A c \in Searchers : writing'[c] = IF c = p THEN NoWrite ELSE writing[c]
  BY <1>1, <1>2, <1>3, WriteIsTyped
<1>5. \A v \in Versions : (v \in ToBeRead)' => v \in ToBeRead
  <2>1. ASSUME NEW c \in Searchers PROVE View(c)' \in {View(c), indexed}
    BY <1>1, <1>4 DEF View, NoWrite
  <2> QED BY <1>1, <2>1 DEF ToBeRead
<1>6. /\ SearchTypes' /\ UNCHANGED search /\ begun' >= begun
      /\ \A v \in Versions : outdatedFor'[v] \in {0, outdatedFor[v]}
      /\ \A c \in Searchers : results'[c] \in {results[c], Nothing} /\ hits'[c] \in {hits[c], Nothing}
      /\ shared' \in {shared, Nothing}
  BY <1>1, <1>2, <1>4
<1>7. \A v \in Versions : (v \in ToBeRead)' => v \in ToBeRead \/ v > begun \/ outdatedFor'[v] = 0
  BY <1>5
<1> QED BY <1>6, <1>7, OneWriteMoves, Zenon

(* What comes to the sidecar can be read again. *)
LEMMA UpsertKeeps ==
    ASSUME SearchIInv, NEW p \in Recorders, Upsert(p)
    PROVE  SearchIInv'
<1>1. PICK q : q = [step |-> "clear", version |-> 0]
  OBVIOUS
<1>2. /\ writing[p].step = "sidecar"
      /\ writing' = [writing EXCEPT ![p] = q]
      /\ sidecar' \in {sidecar, writing[p].version}
      /\ outdatedFor' = [outdatedFor EXCEPT ![sidecar'] = 0]
      /\ UNCHANGED <<indexed, begun, results, hits, shared, search>>
  BY <1>1 DEF Upsert, WriteAt
<1>3. /\ begun \in Versions /\ begun \in Nat /\ MaxWrites \in Nat /\ p \in Searchers
      /\ q \in [step : WriteSteps, version : 0 .. begun']
      /\ indexed \in 0 .. begun /\ sidecar \in 0 .. begun /\ writing[p].version \in 0 .. begun
      /\ outdatedFor \in [Versions -> Nat]
  BY <1>1, <1>2, SearchAssumption DEF SearchIInv, SearchTypes, Versions, WriteSteps
<1>4. sidecar' \in 0 .. begun /\ outdatedFor' \in [Versions -> Nat]
  BY <1>2, <1>3
<1>5. /\ begun' \in Versions /\ begun' >= begun
      /\ indexed' \in 0 .. begun' /\ sidecar' \in 0 .. begun'
      /\ outdatedFor' \in [Versions -> Nat]
  BY <1>2, <1>3, <1>4
<1>6. /\ SearchTypes'
      /\ \A c \in Searchers :
            results'[c] \in {results[c], Nothing} /\ hits'[c] \in {hits[c], Nothing}
      /\ \A c \in Searchers : writing'[c] = IF c = p THEN q ELSE writing[c]
  BY <1>2, <1>3, <1>5, WriteIsTyped
<1>7. \A v \in Versions : outdatedFor'[v] \in {0, outdatedFor[v]} /\ (v = sidecar' => outdatedFor'[v] = 0)
  BY <1>2, <1>3
<1>8. \A v \in Versions : (v \in ToBeRead)' => v \in ToBeRead \/ outdatedFor'[v] = 0
  <2>1. ASSUME NEW c \in Searchers PROVE View(c)' \in {View(c), indexed}
    BY <1>1, <1>2, <1>6 DEF View
  <2> QED BY <1>2, <1>7, <2>1 DEF ToBeRead
<1>9. /\ SearchTypes' /\ UNCHANGED search /\ begun' >= begun
      /\ \A v \in Versions : outdatedFor'[v] \in {0, outdatedFor[v]}
      /\ \A c \in Searchers : results'[c] \in {results[c], Nothing} /\ hits'[c] \in {hits[c], Nothing}
      /\ shared' \in {shared, Nothing}
  BY <1>2, <1>3, <1>6, <1>7
<1>10. \A v \in Versions : (v \in ToBeRead)' => v \in ToBeRead \/ v > begun \/ outdatedFor'[v] = 0
  BY <1>8
<1> QED BY <1>9, <1>10, OneWriteMoves, Zenon

(* clear_retrieval_cache and the deletion in Redis only empty caches. *)
LEMMA ClearingKeeps ==
    ASSUME SearchIInv, NEW p \in Recorders, Clear(p) \/ Scan(p) \/ DeleteShared(p)
    PROVE  SearchIInv'
<1>1. /\ SearchTypes' /\ UNCHANGED search /\ begun' >= begun
      /\ \A v \in Versions : outdatedFor'[v] \in {0, outdatedFor[v]}
      /\ \A c \in Searchers : results'[c] \in {results[c], Nothing} /\ hits'[c] \in {hits[c], Nothing}
      /\ shared' \in {shared, Nothing}
      /\ \A v \in Versions : (v \in ToBeRead)' => v \in ToBeRead \/ v > begun \/ outdatedFor'[v] = 0
  <2>1. PICK old : old = writing[p]
    OBVIOUS
  <2>2. p \in Searchers /\ old \in [step : WriteSteps, version : 0 .. begun] /\ old.step # "failed"
    BY <2>1, SearchAssumption DEF SearchIInv, SearchTypes, Clear, Scan, DeleteShared, WriteAt
  <2>3. PICK q : /\ q \in {NoWrite, [old EXCEPT !.step = "scan"], [old EXCEPT !.step = "delete"]}
                 /\ writing' = [writing EXCEPT ![p] = q]
    BY <2>1 DEF Clear, Scan, DeleteShared, WriteGoes, WriteEnds
  <2>4. UNCHANGED <<indexed, begun, sidecar, search, outdatedFor>>
    BY DEF Clear, Scan, DeleteShared
  <2>5. /\ results' = results \/ results' = [results EXCEPT ![p] = Nothing]
        /\ hits' = hits \/ hits' = [hits EXCEPT ![p] = Nothing]
        /\ shared' \in {shared, Nothing}
    BY DEF Clear, Scan, DeleteShared
  <2>6. /\ begun \in Versions /\ begun \in Nat
        /\ indexed \in 0 .. begun /\ sidecar \in 0 .. begun
        /\ outdatedFor \in [Versions -> Nat]
    BY SearchAssumption DEF SearchIInv, SearchTypes, Versions
  <2>7. q \in [step : WriteSteps, version : 0 .. begun'] /\ q.step # "failed"
    BY <2>2, <2>3, <2>4, <2>6 DEF NoWrite, WriteSteps
  <2>8. /\ begun' \in Versions /\ begun' >= begun
        /\ indexed' \in 0 .. begun' /\ sidecar' \in 0 .. begun'
        /\ outdatedFor' \in [Versions -> Nat]
    BY <2>4, <2>6
  <2>9. /\ SearchTypes'
        /\ \A c \in Searchers :
              results'[c] \in {results[c], Nothing} /\ hits'[c] \in {hits[c], Nothing}
        /\ \A c \in Searchers : writing'[c] = IF c = p THEN q ELSE writing[c]
    <3>1. p \in Searchers /\ q \in [step : WriteSteps, version : 0 .. begun']
      BY <2>2, <2>7
    <3>2. writing' = [writing EXCEPT ![p] = q] /\ UNCHANGED search
      BY <2>3, <2>4
    <3> QED BY <2>5, <2>8, <3>1, <3>2, WriteIsTyped
  <2>10. \A v \in Versions : (v \in ToBeRead)' => v \in ToBeRead
    <3>1. ASSUME NEW c \in Searchers PROVE View(c)' = View(c)
      BY <2>1, <2>2, <2>4, <2>7, <2>9 DEF View
    <3> QED BY <2>4, <3>1 DEF ToBeRead
  <2>11. \A v \in Versions : outdatedFor'[v] \in {0, outdatedFor[v]}
    BY <2>4
  <2> QED BY <2>4, <2>5, <2>8, <2>9, <2>10, <2>11
<1> QED BY <1>1, OneWriteMoves

(* _cache_set drops the oldest entry. *)
LEMMA EvictKeeps ==
    ASSUME SearchIInv, NEW p \in Searchers, Evict(p)
    PROVE  SearchIInv'
<1>1. /\ results' = [results EXCEPT ![p] = Nothing]
      /\ UNCHANGED <<indexed, begun, sidecar, hits, shared, search, writing, outdatedFor>>
  BY DEF Evict
<1>2. search' = [search EXCEPT ![p] = search[p]]
  BY <1>1 DEF SearchIInv, SearchTypes
<1> QED BY <1>1, <1>2, NothingIsKept, SearchInHand, OneSearchMoves

(* An hour hand: entries grow older by one tick, as what they hold may. *)
LEMMA OlderIsTyped ==
    ASSUME NEW e \in CachedEntries
    PROVE  /\ Older(e) \in CachedEntries
           /\ Older(e).version # -1 =>
                 /\ e.version \in Versions /\ e.age \in Nat
                 /\ Older(e).version = e.version /\ Older(e).age = e.age + 1
<1>1. CASE Hit(e) /\ e.age < CacheTtl
  <2>1. e \in [version : Versions, age : 0 .. CacheTtl] /\ e.age \in Nat /\ CacheTtl \in Nat
    BY <1>1, SearchAssumption DEF CachedEntries, Nothing, Hit
  <2>2. Older(e) = [e EXCEPT !.age = e.age + 1]
    BY <1>1 DEF Older
  <2>3. e.age + 1 \in 0 .. CacheTtl
    BY <1>1, <2>1
  <2>4. Older(e) \in [version : Versions, age : 0 .. CacheTtl]
    BY <2>1, <2>2, <2>3
  <2> QED BY <2>1, <2>2, <2>4 DEF CachedEntries
<1>2. CASE ~(Hit(e) /\ e.age < CacheTtl)
  BY <1>2, NothingIsKept DEF Older, Nothing
<1> QED BY <1>1, <1>2

(* What could not be read is outdated for one tick more, and no version for less. *)
LEMMA OneTickMore ==
    ASSUME SearchIInv, SearchTick
    PROVE  /\ outdatedFor' \in [Versions -> Nat]
           /\ \A v \in Versions : outdatedFor'[v] <= outdatedFor[v] + 1
           /\ \A v \in Versions : v \in ToBeRead \/ v > begun => outdatedFor'[v] = 0
<1>1. outdatedFor \in [Versions -> Nat]
  BY DEF SearchIInv, SearchTypes
<1>2. ASSUME NEW v \in Versions
      PROVE  outdatedFor'[v] = IF v \in ToBeRead \/ v > begun THEN 0
                               ELSE IF outdatedFor[v] > Staleness THEN outdatedFor[v]
                               ELSE outdatedFor[v] + 1
  BY DEF SearchTick
<1>3. DOMAIN outdatedFor' = Versions /\ outdatedFor' = [v \in Versions |-> outdatedFor'[v]]
  BY DEF SearchTick
<1>4. ASSUME NEW v \in Versions
      PROVE  /\ outdatedFor'[v] \in Nat /\ outdatedFor'[v] <= outdatedFor[v] + 1
             /\ v \in ToBeRead \/ v > begun => outdatedFor'[v] = 0
  BY <1>1, <1>2
<1> QED BY <1>3, <1>4

(* Time passes: every bound grows by what the entry or the search has aged. *)
LEMMA SearchTickKeeps ==
    ASSUME SearchIInv, SearchTick
    PROVE  SearchIInv'
<1> USE DEF SearchIInv
<1>1. /\ results' = [p \in Searchers |-> Older(results[p])]
      /\ hits' = [p \in Searchers |-> Older(hits[p])]
      /\ shared' = Older(shared)
      /\ search' = [p \in Searchers |->
                       IF SearchAt(p, "idle") THEN search[p] ELSE [search[p] EXCEPT !.took = @ + 1]]
      /\ \A p \in Searchers : search[p].pc # "idle" => search[p].took < Slow
      /\ UNCHANGED <<indexed, begun, sidecar, writing>>
  BY DEF SearchTick
<1>2. ASSUME NEW p \in Searchers
      PROVE  search'[p] \in Searches /\ InHand(search[p])'
  <2>1. PICK old : old = search[p]
    OBVIOUS
  <2>2. old \in Searches /\ InHand(old)
    BY <2>1, SearchInHand
  <2>3. CASE old.pc = "idle"
    BY <1>1, <2>1, <2>2, <2>3 DEF SearchAt, InHand
  <2>4. CASE old.pc # "idle"
    <3>1. search'[p] = [old EXCEPT !.took = old.took + 1] /\ old.took < Slow
      BY <1>1, <2>1, <2>4 DEF SearchAt
    <3>2. old.took \in Nat /\ Slow \in Nat /\ CacheTtl \in Nat /\ old.took + 1 \in 0 .. Slow
      BY <2>2, <3>1, SearchAssumption DEF Searches
    <3>3. search'[p] \in Searches
      BY <2>2, <3>1, <3>2 DEF Searches
    <3>4. PICK q : q = search'[p]
      OBVIOUS
    <3>5. q.pc = old.pc /\ q.text = old.text /\ q.vector = old.vector /\ q.took = old.took + 1
      BY <2>2, <3>1, <3>4 DEF Searches
    <3>6. \A v \in Versions : \A l \in Nat : outdatedFor[v] <= l => outdatedFor'[v] <= l + 1
      BY OneTickMore, SearchInHand
    <3>7. /\ old.text # -1 => old.text \in Versions
          /\ old.vector # -1 => old.vector \in Versions
      BY <2>2 DEF Searches
    <3>8. /\ CacheTtl + Slow + old.took \in Nat
          /\ 2 * (CacheTtl + Slow) + old.took \in Nat
          /\ CacheTtl + Slow + (old.took + 1) = (CacheTtl + Slow + old.took) + 1
          /\ 2 * (CacheTtl + Slow) + (old.took + 1) = (2 * (CacheTtl + Slow) + old.took) + 1
      BY <3>2
    <3>9. /\ q.pc \in {"hits", "vectors", "keep", "merge"} =>
                q.text # -1 /\ outdatedFor'[q.text] <= q.took
          /\ q.pc = "keep" => q.vector # -1 /\ outdatedFor'[q.vector] <= q.took
          /\ q.pc \in {"merge", "share"} =>
                q.vector # -1 /\ outdatedFor'[q.vector] <= CacheTtl + Slow + q.took
          /\ q.pc = "copy" =>
                q.vector # -1 /\ outdatedFor'[q.vector] <= 2 * (CacheTtl + Slow) + q.took
      BY <2>2, <3>2, <3>5, <3>6, <3>7, <3>8 DEF InHand
    <3> QED BY <3>3, <3>4, <3>9 DEF InHand
  <2> QED BY <2>3, <2>4
<1>3. ASSUME NEW e \in CachedEntries, NEW l \in Nat, KeptWithin(e, l)
      PROVE  Older(e) \in CachedEntries /\ KeptWithin(Older(e), l)'
  <2> SUFFICES ASSUME Older(e).version # -1
               PROVE  outdatedFor'[Older(e).version] <= l + Older(e).age
    BY OlderIsTyped DEF KeptWithin
  <2>1. e.version \in Versions /\ e.age \in Nat /\ Older(e).version = e.version /\ Older(e).age = e.age + 1
    BY OlderIsTyped
  <2>2. outdatedFor[e.version] <= l + e.age
    BY <1>3, <2>1, SearchAssumption DEF KeptWithin, Versions
  <2>3. outdatedFor[e.version] \in Nat /\ outdatedFor'[e.version] \in Nat
        /\ outdatedFor'[e.version] <= outdatedFor[e.version] + 1
    BY <2>1, OneTickMore, SearchInHand DEF SearchTypes
  <2> QED BY <2>1, <2>2, <2>3
<1>4. HitsLimit \in Nat /\ SharedLimit \in Nat /\ ResultsLimit \in Nat
  BY SearchAssumption DEF HitsLimit, SharedLimit, ResultsLimit
<1>5. CachesAreInOrder' /\ results' \in [Searchers -> CachedEntries] /\ hits' \in [Searchers -> CachedEntries] /\ shared' \in CachedEntries
  <2>1. ASSUME NEW p \in Searchers PROVE hits'[p] \in CachedEntries /\ KeptWithin(hits[p], HitsLimit)'
    <3>1. hits[p] \in CachedEntries /\ KeptWithin(hits[p], HitsLimit) /\ hits'[p] = Older(hits[p])
      BY <1>1 DEF SearchTypes, CachesAreInOrder
    <3> QED BY <1>3, <1>4, <3>1 DEF KeptWithin, HitsLimit
  <2>2. shared' \in CachedEntries /\ KeptWithin(shared, SharedLimit)'
    <3>1. shared \in CachedEntries /\ KeptWithin(shared, SharedLimit) /\ shared' = Older(shared)
      BY <1>1 DEF SearchTypes, CachesAreInOrder
    <3> QED BY <1>3, <1>4, <3>1 DEF KeptWithin, SharedLimit
  <2>3. ASSUME NEW p \in Searchers PROVE results'[p] \in CachedEntries /\ KeptWithin(results[p], ResultsLimit)'
    <3>1. results[p] \in CachedEntries /\ KeptWithin(results[p], ResultsLimit) /\ results'[p] = Older(results[p])
      BY <1>1 DEF SearchTypes, CachesAreInOrder
    <3> QED BY <1>3, <1>4, <3>1 DEF KeptWithin, ResultsLimit
  <2>4. results' \in [Searchers -> CachedEntries] /\ hits' \in [Searchers -> CachedEntries]
    BY <1>1, <2>1, <2>3
  <2> QED BY <2>1, <2>2, <2>3, <2>4 DEF CachesAreInOrder
<1>6. SearchTypes'
  <2>1. search' \in [Searchers -> Searches]
    BY <1>1, <1>2
  <2> QED BY <1>1, <1>5, <2>1, OneTickMore DEF SearchTypes
<1>7. WhatIsReadIsCurrent'
  <2>1. ToBeRead' = ToBeRead /\ begun' = begun
    BY <1>1 DEF ToBeRead, View
  <2> QED BY <2>1, OneTickMore DEF WhatIsReadIsCurrent
<1> QED BY <1>2, <1>5, <1>6, <1>7

(* Every step keeps the invariant. *)
LEMMA SearchStepKeeps == SearchIInv /\ [SearchNext]_searchVars => SearchIInv'
<1> SUFFICES ASSUME SearchIInv, [SearchNext]_searchVars PROVE SearchIInv'
  OBVIOUS
<1>1. CASE SearchTick
  BY <1>1, SearchTickKeeps
<1>2. ASSUME NEW p \in Searchers, SearchStep(p) \/ Evict(p) PROVE SearchIInv'
  BY <1>2, LookResultsKeeps, LookSharedKeeps, MissSharedKeeps, CopyKeeps, ReadTextKeeps, LookHitsKeeps,
     ReadVectorsKeeps, KeepHitsKeeps, WithoutVectorsKeeps, MergeKeeps, ShareKeeps, EvictKeeps
  DEF SearchStep
<1>3. ASSUME NEW p \in Recorders, WriteStep(p) PROVE SearchIInv'
  BY <1>3, BeginKeeps, RollBackRowsKeeps, UpsertKeeps, ClearingKeeps DEF WriteStep
<1>4. CASE UNCHANGED searchVars
  BY <1>4
  DEF searchVars, SearchIInv, SearchTypes, WhatIsReadIsCurrent, ToBeRead, View, CachesAreInOrder,
      KeptWithin, InHand
<1> QED BY <1>1, <1>2, <1>3, <1>4 DEF SearchNext

(* What a search may answer could be read no longer ago than three cache times and *)
(* the time of three searches, for any number of processes, writes and times.      *)
THEOREM AnswersAreRecent == SearchSpec => []SearchInv
BY SearchInitially, SearchStepKeeps, SearchImplied, PTL DEF SearchSpec

-----------------------------------------------------------------------------
(***************************************************************************)
(* Backtest: what does not depend on the numbers.  A result is computed    *)
(* after the guards of run only, has one row per bar and one position per  *)
(* column, and is flagged if its weights may be of a later day.            *)
(***************************************************************************)
BacktestSpec == BacktestInit /\ [][BacktestNext]_backtestVars

(* A series of what the bars gave, whatever that is. *)
IsSeries(s) == \E S : s \in Seq(S)

(* The series grow together, bar by bar, and the result is there when all bars are. *)
RowsPerBar ==
    /\ Len(curve) \in 0 .. Bars /\ Len(free) = Len(curve) /\ Len(positions) = Len(curve)
    /\ backtest.step \in {"asked", "refused", "signal"} => Len(curve) = 0
    /\ backtest.step = "bars" => Len(curve) < Bars
    /\ backtest.step = "done" => Len(curve) = Bars

(* Each row lays down a position in every column of the book that is traded. *)
RowsAreComplete == \A i \in 1 .. Len(positions) : DOMAIN positions[i] = Columns

(* Who has passed the guards has shown the day of the weights, or is flagged. *)
PassedGuards ==
    backtest.step \in {"signal", "bars", "done"} =>
        /\ asked.clean /\ (asked.weightsOn = "later" => backtest.nonPit)
        /\ backtest.nonPit => asked.ack

BacktestIInv ==
    /\ \E step, flag : backtest = [step |-> step, nonPit |-> flag]
    /\ backtest.step \in {"asked", "refused", "signal", "bars", "done"}
    /\ IsSeries(curve) /\ IsSeries(free) /\ IsSeries(positions)
    /\ RowsPerBar /\ RowsAreComplete /\ PassedGuards

LEMMA SeriesGrow ==
    ASSUME NEW s, IsSeries(s), NEW e
    PROVE  /\ IsSeries(Append(s, e)) /\ Len(Append(s, e)) = Len(s) + 1 /\ Len(s) \in Nat
           /\ \A i \in 1 .. Len(s) : Append(s, e)[i] = s[i]
           /\ Append(s, e)[Len(s) + 1] = e
<1>1. PICK S : s \in Seq(S)
  BY DEF IsSeries
<1> DEFINE T == S \cup {e}
<1>2. s \in Seq(T) /\ e \in T
  BY <1>1, SeqMonotonic
<1> HIDE DEF T
<1> QED BY <1>2, AppendProperties, LenProperties DEF IsSeries

LEMMA BacktestInitially == BacktestInit => BacktestIInv
<1> SUFFICES ASSUME BacktestInit PROVE BacktestIInv
  OBVIOUS
<1>1. backtest = [step |-> "asked", nonPit |-> FALSE] /\ curve = <<>> /\ free = <<>> /\ positions = <<>>
  BY DEF BacktestInit
<1>2. IsSeries(<<>>) /\ Len(<<>>) = 0
  BY EmptySeq DEF IsSeries
<1>3. Bars \in Nat
  BY BacktestAssumption
<1>4. RowsPerBar /\ RowsAreComplete /\ PassedGuards
  BY <1>1, <1>2, <1>3 DEF RowsPerBar, RowsAreComplete, PassedGuards
<1> QED BY <1>1, <1>2, <1>4 DEF BacktestIInv

(* The guards decide; the series are still empty. *)
LEMMA JudgeKeeps == BacktestIInv /\ Judge => BacktestIInv'
<1> SUFFICES ASSUME BacktestIInv, Judge PROVE BacktestIInv'
  OBVIOUS
<1>1. /\ backtest.step = "asked" /\ Len(curve) = 0 /\ Len(positions) = 0 /\ Len(free) = 0
      /\ UNCHANGED <<asked, market, book, cost, curve, free, positions>>
  BY DEF BacktestIInv, RowsPerBar, Judge
<1>2. Bars \in Nat /\ 0 < Bars
  BY BacktestAssumption
<1>3. RowsAreComplete'
  BY <1>1 DEF RowsAreComplete
<1>4. CASE Refused(asked)
  <2>1. PICK step, flag : backtest = [step |-> step, nonPit |-> flag]
    BY DEF BacktestIInv
  <2>2. backtest' = [step |-> "refused", nonPit |-> flag]
    <3>1. backtest' = [backtest EXCEPT !.step = "refused"]
      BY <1>4 DEF Judge
    <3> QED BY <2>1, <3>1
  <2>3. RowsPerBar' /\ PassedGuards'
    BY <1>1, <1>2, <2>2 DEF RowsPerBar, PassedGuards
  <2> QED BY <1>1, <1>3, <2>2, <2>3 DEF BacktestIInv
<1>5. CASE ~Refused(asked)
  <2>1. PICK step : backtest' = [step |-> step, nonPit |-> asked.skip] /\ step \in {"signal", "bars"}
    BY <1>5 DEF Judge
  <2>2. asked.clean /\ (asked.skip => asked.ack) /\ (~asked.skip => asked.weightsOn # "later")
    BY <1>5 DEF Refused
  <2>3. RowsPerBar' /\ PassedGuards'
    BY <1>1, <1>2, <2>1, <2>2 DEF RowsPerBar, PassedGuards
  <2> QED BY <1>1, <1>3, <2>1, <2>3 DEF BacktestIInv
<1> QED BY <1>4, <1>5

(* The signal gives the weights before the first bar. *)
LEMMA GenerateKeeps == BacktestIInv /\ Generate => BacktestIInv'
<1> SUFFICES ASSUME BacktestIInv, Generate PROVE BacktestIInv'
  OBVIOUS
<1>1. /\ backtest.step = "signal" /\ Len(curve) = 0 /\ Len(positions) = 0 /\ Len(free) = 0
      /\ UNCHANGED <<asked, market, cost, curve, free, positions>>
  BY DEF BacktestIInv, RowsPerBar, Generate
<1>2. Bars \in Nat /\ 0 < Bars
  BY BacktestAssumption
<1>3. PICK step, flag : backtest = [step |-> step, nonPit |-> flag]
  BY DEF BacktestIInv
<1>4. backtest' = [step |-> "bars", nonPit |-> flag] /\ backtest.nonPit = flag
  <2>1. backtest' = [backtest EXCEPT !.step = "bars"]
    BY DEF Generate
  <2> QED BY <1>3, <2>1
<1>5. RowsPerBar' /\ RowsAreComplete'
  BY <1>1, <1>2, <1>4 DEF RowsPerBar, RowsAreComplete
<1>6. PassedGuards'
  BY <1>1, <1>4 DEF BacktestIInv, PassedGuards
<1> QED BY <1>1, <1>4, <1>5, <1>6 DEF BacktestIInv

(* A bar adds a row to each series; the last one ends the run. *)
LEMMA BarKeeps == BacktestIInv /\ Bar => BacktestIInv'
<1> SUFFICES ASSUME BacktestIInv, Bar PROVE BacktestIInv'
  OBVIOUS
<1>1. backtest.step = "bars" /\ Len(curve) + 1 <= Bars /\ UNCHANGED <<asked, market, book, cost>>
  BY DEF Bar
<1>2. PICK c, f, equity : /\ curve' = Append(curve, c) /\ free' = Append(free, f)
                          /\ positions' = Append(positions, Executed(equity))
  BY DEF Bar
<1>3. IsSeries(curve) /\ IsSeries(free) /\ IsSeries(positions)
  BY DEF BacktestIInv
<1>4. /\ IsSeries(curve)' /\ IsSeries(free)' /\ IsSeries(positions)'
      /\ Len(curve') = Len(curve) + 1 /\ Len(free') = Len(free) + 1 /\ Len(positions') = Len(positions) + 1
      /\ Len(curve) \in Nat /\ Len(positions) \in Nat
  BY <1>2, <1>3, SeriesGrow DEF IsSeries
<1>5. PICK step, flag : backtest = [step |-> step, nonPit |-> flag]
  BY DEF BacktestIInv
<1>6. /\ backtest' = [step |-> IF Len(curve) + 1 = Bars THEN "done" ELSE "bars", nonPit |-> flag]
      /\ backtest.nonPit = flag
  <2>1. backtest' = IF Len(curve) + 1 = Bars THEN [backtest EXCEPT !.step = "done"] ELSE backtest
    BY DEF Bar
  <2> QED BY <1>1, <1>5, <2>1
<1>7. RowsPerBar'
  BY <1>1, <1>4, <1>6, BacktestAssumption DEF BacktestIInv, RowsPerBar
<1>8. RowsAreComplete'
  <2>1. Columns' = Columns
    BY <1>1 DEF Columns, IsMulti
  <2>2. DOMAIN Executed(equity) = Columns
    BY DEF Executed
  <2>3. SUFFICES ASSUME NEW i \in 1 .. Len(positions) + 1 PROVE DOMAIN positions'[i] = Columns
    BY <1>4, <2>1 DEF RowsAreComplete
  <2>4. CASE i = Len(positions) + 1
    BY <1>2, <1>3, <2>2, <2>4, SeriesGrow
  <2>5. CASE i # Len(positions) + 1
    <3>1. i \in 1 .. Len(positions)
      BY <1>4, <2>5
    <3>2. positions'[i] = positions[i]
      BY <1>2, <1>3, <3>1, SeriesGrow
    <3> QED BY <3>1, <3>2 DEF BacktestIInv, RowsAreComplete
  <2> QED BY <2>4, <2>5
<1>9. PassedGuards'
  BY <1>1, <1>6 DEF BacktestIInv, PassedGuards
<1> QED BY <1>4, <1>6, <1>7, <1>8, <1>9 DEF BacktestIInv

(* BacktestEngine.run: no result without the guards, which cannot be passed *)
(* by weights of a later day unless the result says so; and every result    *)
(* has a row per bar, complete in its columns.                              *)
THEOREM ResultsArePointInTime ==
    BacktestSpec => [](UnflaggedIsPointInTime /\ RowsPerBar /\ RowsAreComplete)
<1>1. BacktestIInv /\ [BacktestNext]_backtestVars => BacktestIInv'
  <2> SUFFICES ASSUME BacktestIInv, [BacktestNext]_backtestVars PROVE BacktestIInv'
    OBVIOUS
  <2>1. CASE UNCHANGED backtestVars
    BY <2>1 DEF backtestVars, BacktestIInv, IsSeries, RowsPerBar, RowsAreComplete, PassedGuards, Columns, IsMulti
  <2> QED BY <2>1, JudgeKeeps, GenerateKeeps, BarKeeps DEF BacktestNext
<1>2. BacktestIInv => UnflaggedIsPointInTime /\ RowsPerBar /\ RowsAreComplete
  BY DEF BacktestIInv, PassedGuards, UnflaggedIsPointInTime
<1> QED BY <1>1, <1>2, BacktestInitially, PTL DEF BacktestSpec

-----------------------------------------------------------------------------
(* The scheduler: no playbook of a day is executed twice without a reason, and *)
(* none is due later than its expression says.                                 *)
THEOREM ScheduleIsKept == DispatchSpec /\ CronSpec => []ScheduleInv
BY PlaybooksRunOnce, FirstTimeIsFound, PTL DEF ScheduleInv

(* The memory: what was written agrees with its rows across failed writes and  *)
(* restarts, and what a search answers is an answer of the time it was asked.  *)
THEOREM MemoryIsKept == NotesSpec /\ SearchSpec => []MemoryInv
BY FilesAndRowsAgree, AnswersAreRecent, PTL DEF MemoryInv
==============================================================================
