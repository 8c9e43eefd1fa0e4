------------------------------ MODULE MCBooks ------------------------------
(***************************************************************************)
(* What is to be written, sold, started or let in once, for TLC: the audit *)
(* chain, the ledger file and the sales booked in it, the playbook of a    *)
(* day and the time it is due, the notes of the memory, the caches of its  *)
(* search, and a backtest. A behaviour explores one of them.               *)
(***************************************************************************)
EXTENDS AuditChain, LedgerFile, FactorSales, PlaybookDispatch, CronTrigger,
        MemoryNotes, MemorySearch, Backtest, TLC

CONSTANTS w1, w2, w3, v1, p1, p2, s1, s2, b1, b2, b3, e1, e2, e3, x1, x2,
          g1, g2, n1, j1, h1, h2

(* Connections are interchangeable. *)
Connections == Permutations(Writers)

TwoServices == (b1 :> s1) @@ (b2 :> s1) @@ (b3 :> s2)

TwoSites == (e1 :> x1) @@ (e2 :> x1) @@ (e3 :> x2)

(* Two years of two months each, one of which has its third day every other year. *)
TwoYears == <<2, 3, 2, 2>>

Part(first, last, step) == [star |-> FALSE, first |-> first, last |-> last, step |-> step]

Parts ==
    {[star |-> TRUE, first |-> 0, last |-> 0, step |-> 1], Part(1, 3, 2)} \cup
    {Part(v, v, 1) : v \in 0 .. 3}

Asked(weightsOn) ==
    [weightsOn |-> weightsOn, dated |-> TRUE, skip |-> FALSE, ack |-> FALSE, synthetic |-> FALSE,
     signal |-> FALSE, clean |-> TRUE]

Plain == Asked("day")

(* One asset by closes, or by opens as well; two assets. *)
Prices ==
    {[close |-> c, open |-> <<>>] : c \in [1 .. 4 -> [{1} -> {2, 3, 4}]]} \cup
    {[close |-> c, open |-> <<2>> \o o] : c \in [1 .. 4 -> [{1} -> {2, 4}]], o \in [1 .. 3 -> {2, 3}]} \cup
    {[close |-> c, open |-> <<>>] : c \in {p \in [1 .. 4 -> [{1, 2} -> {2, 4}]] : p[1] = <<2, 4>>}}

Weightings == {<<0>>, <<1>>, <<2>>, <<4>>, <<6>>, <<-2>>, <<1, 1>>, <<1, -1>>, <<3, 3>>, <<1, 1, 2>>}

(* What may be asked otherwise: by a signal, with weights of a later day, without dates, *)
(* with a waiver that is acknowledged or not, of data that is not clean.                 *)
Queries ==
    {Plain, [Plain EXCEPT !.signal = TRUE], [Plain EXCEPT !.clean = FALSE], Asked("later"),
     [Plain EXCEPT !.dated = FALSE], [Plain EXCEPT !.dated = FALSE, !.synthetic = TRUE],
     [Asked("later") EXCEPT !.skip = TRUE], [Asked("later") EXCEPT !.skip = TRUE, !.ack = TRUE]}

VARIABLE focus   \* the component that a behaviour explores

Components == {"audit", "ledger", "sales", "dispatch", "cron", "notes",
               "search", "backtest"}

mcVars == <<focus, chainVars, ledgerVars, salesVars, dispatchVars,
            cronVars, noteVars, searchVars, backtestVars>>

MCInit ==
    /\ focus \in Components
    /\ ChainInit
    /\ LedgerInit
    /\ SalesInit
    /\ DispatchInit
    /\ focus # "dispatch" => redis = "none"
    /\ CronInit
    /\ focus # "cron" => after = 0 /\ \A f \in Fields : IsStar(f)
    /\ NotesInit
    /\ SearchInit
    /\ \/ /\ focus = "backtest"
          /\ \/ asked = Plain
             \/ asked \in Queries /\ book = <<2>> /\ cost = 1
       \/ focus # "backtest" /\ asked = Plain /\ market = (CHOOSE m \in Prices : TRUE) /\ book = <<2>> /\ cost = 0
    /\ BacktestInit

MCNext ==
    /\ UNCHANGED focus
    /\ \/ /\ focus = "audit" /\ ChainNext
          /\ UNCHANGED <<ledgerVars, salesVars, dispatchVars, cronVars,
                         noteVars, searchVars,
                         backtestVars>>
       \/ /\ focus = "ledger" /\ LedgerNext
          /\ UNCHANGED <<chainVars, salesVars, dispatchVars, cronVars,
                         noteVars, searchVars,
                         backtestVars>>
       \/ /\ focus = "sales" /\ SalesNext
          /\ UNCHANGED <<chainVars, ledgerVars, dispatchVars, cronVars,
                         noteVars, searchVars,
                         backtestVars>>
       \/ /\ focus = "dispatch" /\ DispatchNext
          /\ UNCHANGED <<chainVars, ledgerVars, salesVars, cronVars,
                         noteVars, searchVars,
                         backtestVars>>
       \/ /\ focus = "cron" /\ CronNext
          /\ UNCHANGED <<chainVars, ledgerVars, salesVars, dispatchVars,
                         noteVars, searchVars,
                         backtestVars>>
       \/ /\ focus = "notes" /\ NotesNext
          /\ UNCHANGED <<chainVars, ledgerVars, salesVars, dispatchVars,
                         cronVars, searchVars,
                         backtestVars>>
       \/ /\ focus = "search" /\ SearchNext
          /\ UNCHANGED <<chainVars, ledgerVars, salesVars, dispatchVars,
                         cronVars, noteVars,
                         backtestVars>>
       \/ /\ focus = "backtest" /\ BacktestNext
          /\ UNCHANGED <<chainVars, ledgerVars, salesVars, dispatchVars,
                         cronVars, noteVars,
                         searchVars>>

MCSpec == MCInit /\ [][MCNext]_mcVars

(* A playbook runs once when it is due, and it is due at the first time that its *)
(* expression allows.                                                           *)
ScheduleInv == DispatchInv /\ NextTriggerIsFirst

(* Files and their index, and the answers of a search. *)
MemoryInv == NotesInv /\ SearchInv
=============================================================================
