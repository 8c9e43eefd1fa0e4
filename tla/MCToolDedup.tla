---------------------------- MODULE MCToolDedup ----------------------------
(* Instances of ToolDedup for TLC: four calls in two processes. *)
EXTENDS ToolDedup, TLC

CONSTANTS c1, c2, c3, c4, h1, h2

TwoProcesses == (c1 :> h1) @@ (c2 :> h1) @@ (c3 :> h2) @@ (c4 :> h2)

Sqlite(answers) == [postgres |-> FALSE, answers |-> answers]

PostgreSQL(answers) == [postgres |-> TRUE, answers |-> answers]

(* An SQLite file whose statements may fail; PostgreSQL in each of its ways.  *)
AllDeployments ==
    {Sqlite({TRUE, FALSE})} \cup {PostgreSQL(answers) : answers \in (SUBSET BOOLEAN) \ {{}}}

SqliteFile == {Sqlite({TRUE})}

AsyncPool == {PostgreSQL({FALSE})}

(* Calls of one process are interchangeable. *)
CallSymmetry == Permutations({c1, c2}) \cup Permutations({c3, c4})
=============================================================================
