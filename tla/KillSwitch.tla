----------------------------- MODULE KillSwitch -----------------------------
(***************************************************************************)
(* The kill switches of killswitch/switch.py in Redis, their audit, and    *)
(* the gate that every request passes.  A request of one tenant for one    *)
(* tool looks at three keys, one GET after the other: the switch of the    *)
(* tenant, the tool for this tenant, the tool for everybody.               *)
(***************************************************************************)
EXTENDS Integers, Sequences

CONSTANTS
    Operators,   \* calls of enable and disable that may be under way together
    Requests,    \* requests at the gate
    MaxEnables   \* bound: calls of enable

VARIABLES
    switch,      \* key -> number of the enable that wrote it; 0: not set
    operator,    \* the calls of enable and disable under way
    gate,        \* the requests at the gate
    enables,     \* calls of enable so far
    audited,     \* enables that are in the audit log
    silent,      \* history: enables whose call broke off with the key perhaps set
    standing,    \* history: key -> last enable that returned while on, not disabled or expired since
    takenBack    \* history: keys that a rollback has deleted

switchVars == <<switch, operator, gate, enables, audited, silent, standing, takenBack>>

Keys == {"tenant", "own", "all"}

(* enforce: the tenant, then the tool; state: the own key, then the global one. *)
GetOrder == <<"tenant", "own", "all">>

Enables == 1 .. MaxEnables

Off == [pc |-> "idle", key |-> "all", no |-> 0]

Outside == [pc |-> "idle", next |-> 1, steady |-> {}]

SwitchInit ==
    /\ switch = [k \in Keys |-> 0]
    /\ operator = [o \in Operators |-> Off]
    /\ gate = [r \in Requests |-> Outside]
    /\ enables = 0
    /\ audited = {} /\ silent = {}
    /\ standing = [k \in Keys |-> 0]
    /\ takenBack = {}

OperatorAt(o, pc) == operator[o].pc = pc

(* What the requests under way may rely on when the keys become s: a switch that *)
(* has been on ever since they came.                                             *)
Watching(s) ==
    [r \in Requests |-> [gate[r] EXCEPT !.steady = {k \in @ : s[k] # 0}]]

KeysBecome(s) == switch' = s /\ gate' = Watching(s)

-----------------------------------------------------------------------------
(* enable *)

(* SET; its answer may be lost. *)
EnableSet(o, k) ==
    LET no == enables + 1
    IN  /\ OperatorAt(o, "idle")
        /\ no \in Enables
        /\ enables' = no
        /\ \/ /\ KeysBecome([switch EXCEPT ![k] = no])
              /\ operator' = [operator EXCEPT ![o] = [pc |-> "audit", key |-> k, no |-> no]]
              /\ UNCHANGED silent
           \/ /\ \E s \in {switch, [switch EXCEPT ![k] = no]} : KeysBecome(s)
              /\ silent' = silent \cup {no}
              /\ UNCHANGED operator
        /\ UNCHANGED <<audited, standing, takenBack>>

EnableAudited(o) ==
    /\ OperatorAt(o, "audit")
    /\ audited' = audited \cup {operator[o].no}
    /\ standing' = [standing EXCEPT ![operator[o].key] =
                      IF switch[operator[o].key] = operator[o].no THEN operator[o].no ELSE @]
    /\ operator' = [operator EXCEPT ![o] = Off]
    /\ UNCHANGED <<switch, gate, enables, silent, takenBack>>

(* Where the call goes when the audit refuses. *)
AfterRefusal == "rollback"

EnableRefused(o) ==
    /\ OperatorAt(o, "audit")
    /\ operator' = [operator EXCEPT ![o].pc = AfterRefusal]
    /\ UNCHANGED <<switch, gate, enables, audited, silent, standing, takenBack>>

(* DELETE, by key; when that fails too the key stays. *)
Rollback(o) ==
    LET k == operator[o].key
    IN  /\ OperatorAt(o, "rollback")
        /\ \/ /\ KeysBecome([switch EXCEPT ![k] = 0])
              /\ takenBack' = takenBack \cup {k}
              /\ UNCHANGED silent
           \/ /\ silent' = silent \cup {operator[o].no}
              /\ UNCHANGED <<switch, gate, takenBack>>
        /\ operator' = [operator EXCEPT ![o] = Off]
        /\ UNCHANGED <<enables, audited, standing>>

(* The task is cancelled or its process dies. *)
OperatorLost(o) ==
    /\ operator[o].pc \in {"audit", "rollback"}
    /\ operator' = [operator EXCEPT ![o] = Off]
    /\ silent' = silent \cup {operator[o].no}
    /\ UNCHANGED <<switch, gate, enables, audited, standing, takenBack>>

(* What a DELETE of key k leaves. *)
Without(k) == [switch EXCEPT ![k] = 0]

(* disable deletes first; an audit that fails afterwards changes nothing here. *)
Disable(k) ==
    /\ switch[k] # 0
    /\ KeysBecome(Without(k))
    /\ standing' = [standing EXCEPT ![k] = 0]
    /\ UNCHANGED <<operator, enables, audited, silent, takenBack>>

(* ex=ttl_seconds *)
SwitchExpires(k) ==
    /\ switch[k] # 0
    /\ KeysBecome([switch EXCEPT ![k] = 0])
    /\ standing' = [standing EXCEPT ![k] = 0]
    /\ UNCHANGED <<operator, enables, audited, silent, takenBack>>

-----------------------------------------------------------------------------
(* enforce *)

Come(r) ==
    /\ gate[r].pc = "idle"
    /\ gate' = [gate EXCEPT ![r] = [pc |-> "gate", next |-> 1,
                                    steady |-> {k \in Keys : switch[k] # 0}]]
    /\ UNCHANGED <<switch, operator, enables, audited, silent, standing, takenBack>>

(* One GET; Redis failing refuses the request as well. *)
GetKey(r) ==
    /\ gate[r].pc = "gate"
    /\ gate' = IF switch[GetOrder[gate[r].next]] # 0 THEN [gate EXCEPT ![r].pc = "refused"]
               ELSE IF gate[r].next = Len(GetOrder) THEN [gate EXCEPT ![r].pc = "passed"]
               ELSE [gate EXCEPT ![r].next = @ + 1]
    /\ UNCHANGED <<switch, operator, enables, audited, silent, standing, takenBack>>

Leave(r) ==
    /\ gate[r].pc \in {"gate", "refused", "passed"}
    /\ gate' = [gate EXCEPT ![r] = Outside]
    /\ UNCHANGED <<switch, operator, enables, audited, silent, standing, takenBack>>

SwitchNext ==
    \/ \E o \in Operators :
          \/ \E k \in Keys : EnableSet(o, k)
          \/ EnableAudited(o) \/ EnableRefused(o) \/ Rollback(o) \/ OperatorLost(o)
    \/ \E k \in Keys : Disable(k) \/ SwitchExpires(k)
    \/ \E r \in Requests : Come(r) \/ GetKey(r) \/ Leave(r)

SwitchSpec == SwitchInit /\ [][SwitchNext]_switchVars

-----------------------------------------------------------------------------
(* Properties. *)

SwitchTypeOK ==
    /\ switch \in [Keys -> 0 .. enables]
    /\ standing \in [Keys -> 0 .. enables]
    /\ \A r \in Requests : gate[r].steady \subseteq Keys /\ gate[r].next \in 1 .. 3

(* A switch that is on is in the audit log, or its call is still at it; the only *)
(* others are those of calls that broke off or could not be rolled back.         *)
SwitchIsAudited ==
    \A k \in Keys : switch[k] # 0 =>
        \/ switch[k] \in audited \cup silent
        \/ \E o \in Operators :
              operator[o].no = switch[k] /\ operator[o].pc \in {"audit", "rollback"}

(* A request that passes the gate met no switch that was on all the while, for   *)
(* all that is switched, rolled back and expires between its three reads.        *)
SteadySwitchStops == \A r \in Requests : gate[r].pc = "passed" => gate[r].steady = {}

(* A switch whose enable returned is on until it is disabled or expires, unless  *)
(* the rollback of another enable of the key has deleted it: that deletes by key *)
(* and not by content.  In particular no call for one key touches another.       *)
StandingIsOn ==
    \A k \in Keys : standing[k] # 0 /\ k \notin takenBack => switch[k] # 0

(* What the kill switch keeps: its types, an audited switch, a gate that no     *)
(* steady switch lets through, and a switch that stands until somebody takes    *)
(* it away.                                                                     *)
SwitchInv ==
    /\ SwitchTypeOK
    /\ SwitchIsAudited
    /\ SteadySwitchStops
    /\ StandingIsOn
=============================================================================
