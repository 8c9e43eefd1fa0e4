--------------------------- MODULE AdmissionProofs ---------------------------
(***************************************************************************)
(* What is let in, proved for all values of the constants: the kill        *)
(* switch at the gate, tickets, token buckets, the windows of the          *)
(* limiter, the quota and the requests that are charged to it. Each part   *)
(* states an inductive invariant of its component, shows that every        *)
(* action keeps it, and that it implies what the runs check.               *)
(***************************************************************************)
EXTENDS MCStores, FiniteSetTheorems, SequenceTheorems, TLAPS

-----------------------------------------------------------------------------
(***************************************************************************)
(* KillSwitch.                                                             *)
(***************************************************************************)

(* The calls of enable and the requests, as records. *)
SwitchRecords ==
    /\ enables \in Nat
    /\ operator \in [Operators -> [pc : {"idle", "audit", "rollback"}, key : Keys, no : 0 .. enables]]
    /\ gate \in [Requests -> [pc : {"idle", "gate", "refused", "passed"}, next : 1 .. 3,
                              steady : SUBSET Keys]]

(* The number of a call is in no key but its own. *)
OwnKeyOnly ==
    \A o \in Operators, k \in Keys :
        operator[o].pc # "idle" /\ switch[k] # 0 /\ switch[k] = operator[o].no => operator[o].key = k

(* A request relies on switches that are on and that it has not read yet. *)
SteadyIsAhead ==
    \A r \in Requests :
        /\ \A k \in gate[r].steady : switch[k] # 0
        /\ \A i \in 1 .. 3 : i < gate[r].next => GetOrder[i] \notin gate[r].steady

(* The inductive invariant of the kill switch. *)
SwitchIInv ==
    /\ SwitchRecords
    /\ SwitchInv
    /\ OwnKeyOnly
    /\ SteadyIsAhead

(* The invariant holds at the start. *)
LEMMA SwitchInitially == SwitchInit => SwitchIInv
BY DEF SwitchInit, SwitchIInv, SwitchRecords, SwitchInv, SwitchTypeOK, SwitchIsAudited,
       SteadySwitchStops, StandingIsOn, OwnKeyOnly, SteadyIsAhead, Off, Outside, Keys

(* What follows for the gate when the keys change: watching takes a switch that goes off *)
(* from all that rely on it.                                                             *)
LEMMA WatchingKeeps ==
    ASSUME SwitchIInv, NEW s, KeysBecome(s)
    PROVE  /\ gate' \in [Requests -> [pc : {"idle", "gate", "refused", "passed"}, next : 1 .. 3,
                                      steady : SUBSET Keys]]
           /\ SteadyIsAhead'
           /\ SteadySwitchStops'
<1>1. /\ switch' = s
      /\ gate' = [r \in Requests |-> [gate[r] EXCEPT !.steady = {k \in gate[r].steady : s[k] # 0}]]
  BY DEF KeysBecome, Watching
<1>2. ASSUME NEW r \in Requests
      PROVE  /\ gate'[r] \in [pc : {"idle", "gate", "refused", "passed"}, next : 1 .. 3, steady : SUBSET Keys]
             /\ gate'[r].pc = gate[r].pc
             /\ gate'[r].next = gate[r].next
             /\ gate'[r].steady = {k \in gate[r].steady : s[k] # 0}
  BY <1>1 DEF SwitchIInv, SwitchRecords
<1>3. SteadyIsAhead'
  BY <1>1, <1>2 DEF SwitchIInv, SteadyIsAhead
<1>4. SteadySwitchStops'
  BY <1>2 DEF SwitchIInv, SwitchInv, SteadySwitchStops
<1> QED
  BY <1>1, <1>2, <1>3, <1>4

(* A request comes, reads the switch at the gate, and leaves. *)
LEMMA GateSteps ==
    ASSUME SwitchIInv, NEW r \in Requests, Come(r) \/ GetKey(r) \/ Leave(r)
    PROVE  SwitchIInv'
<1> USE DEF SwitchIInv, SwitchRecords
<1>0. UNCHANGED <<switch, operator, enables, audited, silent, standing, takenBack>>
  BY DEF Come, GetKey, Leave
<1>1. SwitchIsAudited' /\ StandingIsOn' /\ OwnKeyOnly'
  BY <1>0 DEF SwitchInv, SwitchIsAudited, StandingIsOn, OwnKeyOnly
<1>2. SwitchRecords' /\ SteadyIsAhead' /\ SteadySwitchStops'
  <2>1. CASE Come(r)
    BY <1>0, <2>1 DEF Come, SteadyIsAhead, SteadySwitchStops, SwitchInv
  <2>2. CASE GetKey(r)
    <3> DEFINE k == GetOrder[gate[r].next]
    <3>0. Len(GetOrder) = 3
      BY DEF GetOrder
    <3>1. k \in Keys /\ gate[r].pc = "gate" /\ gate[r].next \in 1 .. 3 /\ gate[r].steady \in SUBSET Keys
      BY <2>2 DEF GetKey, GetOrder, Keys
    <3>2. \A q \in Requests \ {r} : gate'[q] = gate[q]
      BY <2>2 DEF GetKey
    <3>3. SUFFICES
            /\ gate'[r] \in [pc : {"idle", "gate", "refused", "passed"}, next : 1 .. 3, steady : SUBSET Keys]
            /\ gate' = [gate EXCEPT ![r] = gate'[r]]
            /\ gate'[r].steady = gate[r].steady
            /\ \A i \in 1 .. 3 : i < gate'[r].next => GetOrder[i] \notin gate[r].steady
            /\ gate'[r].pc = "passed" => gate[r].steady = {}
      <4>1. SwitchRecords'
        BY <1>0, <3>3
      <4>2. SteadyIsAhead'
        BY <1>0, <3>2, <3>3 DEF SteadyIsAhead
      <4>3. SteadySwitchStops'
        BY <3>2, <3>3 DEF SteadySwitchStops, SwitchInv
      <4> QED BY <4>1, <4>2, <4>3
    <3>4. \A i \in 1 .. 3 : i < gate[r].next => GetOrder[i] \notin gate[r].steady
      BY DEF SteadyIsAhead
    <3>5. CASE switch[k] # 0
      <4>1. gate' = [gate EXCEPT ![r].pc = "refused"]
        BY <2>2, <3>5 DEF GetKey
      <4> QED BY <3>1, <3>4, <4>1
    <3>6. CASE switch[k] = 0
      <4>1. k \notin gate[r].steady
        BY <3>6 DEF SteadyIsAhead
      <4>2. CASE gate[r].next = 3
        <5>1. gate' = [gate EXCEPT ![r].pc = "passed"]
          BY <2>2, <3>0, <3>6, <4>2 DEF GetKey
        <5>2. gate[r].steady = {}
          BY <3>1, <3>4, <4>1, <4>2 DEF GetOrder, Keys
        <5> QED BY <3>1, <3>4, <5>1, <5>2
      <4>3. CASE gate[r].next # 3
        <5>1. gate' = [gate EXCEPT ![r].next = @ + 1]
          BY <2>2, <3>0, <3>6, <4>3 DEF GetKey
        <5>2. /\ gate'[r] = [gate[r] EXCEPT !.next = gate[r].next + 1]
              /\ gate[r].next + 1 \in 1 .. 3
          BY <3>1, <4>3, <5>1
        <5>3. \A i \in 1 .. 3 : i < gate[r].next + 1 => GetOrder[i] \notin gate[r].steady
          BY <3>1, <3>4, <4>1
        <5> QED BY <3>1, <5>1, <5>2, <5>3
      <4> QED BY <4>2, <4>3
    <3> QED BY <3>5, <3>6
  <2>3. CASE Leave(r)
    BY <1>0, <2>3 DEF Leave, Outside, SteadyIsAhead, SteadySwitchStops, SwitchInv
  <2> QED BY <2>1, <2>2, <2>3
<1>3. SwitchTypeOK'
  BY <1>0, <1>2 DEF SwitchInv, SwitchTypeOK
<1> QED BY <1>1, <1>2, <1>3 DEF SwitchInv

(* Operators enable and disable the switch, and read it back. *)
LEMMA OperatorSteps ==
    ASSUME SwitchIInv, NEW o \in Operators,
           \/ \E k \in Keys : EnableSet(o, k)
           \/ EnableAudited(o) \/ EnableRefused(o) \/ Rollback(o) \/ OperatorLost(o)
    PROVE  SwitchIInv'
<1> USE DEF SwitchIInv, SwitchRecords
<1>0. operator[o].no \in Nat /\ operator[o].key \in Keys
  OBVIOUS
<1>1. ASSUME NEW k \in Keys, EnableSet(o, k)
      PROVE  SwitchIInv'
  <2>1. PICK s \in {switch, [switch EXCEPT ![k] = enables + 1]} :
           /\ KeysBecome(s)
           /\ \/ /\ s = [switch EXCEPT ![k] = enables + 1]
                 /\ operator' = [operator EXCEPT ![o] = [pc |-> "audit", key |-> k, no |-> enables + 1]]
                 /\ silent' = silent
              \/ silent' = silent \cup {enables + 1} /\ operator' = operator
    BY <1>1 DEF EnableSet
  <2>2. enables' = enables + 1 /\ UNCHANGED <<audited, standing, takenBack>> /\ operator[o].pc = "idle"
    BY <1>1 DEF EnableSet, OperatorAt
  <2>3. switch' = s /\ s \in [Keys -> 0 .. enables + 1]
    BY <2>1 DEF KeysBecome, SwitchInv, SwitchTypeOK
  <2>4. SwitchRecords' /\ SteadyIsAhead' /\ SteadySwitchStops'
    BY <2>1, <2>2, WatchingKeeps
  <2>5. SwitchTypeOK'
    BY <2>2, <2>3, <2>4 DEF SwitchInv, SwitchTypeOK
  <2>6. SwitchIsAudited'
    <3> SUFFICES ASSUME NEW j \in Keys, switch'[j] # 0
                 PROVE  \/ switch'[j] \in audited' \cup silent'
                        \/ \E p \in Operators :
                              operator'[p].no = switch'[j] /\ operator'[p].pc \in {"audit", "rollback"}
      BY DEF SwitchIsAudited
    <3>1. CASE switch'[j] = switch[j]
      BY <2>1, <2>2, <3>1 DEF SwitchInv, SwitchIsAudited
    <3>2. CASE switch'[j] # switch[j]
      <4>1. switch'[j] = enables + 1
        BY <2>1, <2>3, <3>2 DEF SwitchInv, SwitchTypeOK
      <4> QED BY <2>1, <4>1
    <3> QED BY <3>1, <3>2
  <2>7. StandingIsOn'
    BY <2>1, <2>2, <2>3 DEF SwitchInv, SwitchTypeOK, StandingIsOn
  <2>8. OwnKeyOnly'
    <3> SUFFICES ASSUME NEW p \in Operators, NEW j \in Keys,
                        operator'[p].pc # "idle", switch'[j] # 0, switch'[j] = operator'[p].no
                 PROVE  operator'[p].key = j
      BY DEF OwnKeyOnly
    <3>1. CASE operator'[p] = operator[p]
      <4>1. operator[p].no <= enables
        OBVIOUS
      <4>2. switch'[j] = switch[j]
        BY <2>1, <2>3, <3>1, <4>1 DEF SwitchInv, SwitchTypeOK
      <4> QED BY <3>1, <4>2 DEF OwnKeyOnly
    <3>2. CASE operator'[p] # operator[p]
      <4>1. p = o /\ operator'[p].no = enables + 1 /\ operator'[p].key = k
            /\ s = [switch EXCEPT ![k] = enables + 1]
        BY <2>1, <3>2
      <4> QED BY <2>3, <4>1 DEF SwitchInv, SwitchTypeOK
    <3> QED BY <3>1, <3>2
  <2> QED BY <2>4, <2>5, <2>6, <2>7, <2>8 DEF SwitchInv
<1>2. CASE EnableAudited(o)
  <2>1. /\ audited' = audited \cup {operator[o].no}
        /\ operator' = [operator EXCEPT ![o] = Off]
        /\ standing' = [standing EXCEPT ![operator[o].key] =
                          IF switch[operator[o].key] = operator[o].no THEN operator[o].no ELSE @]
        /\ UNCHANGED <<switch, gate, enables, silent, takenBack>>
    BY <1>2 DEF EnableAudited
  <2>2. SwitchRecords' /\ SwitchTypeOK'
    BY <1>0, <2>1 DEF SwitchInv, SwitchTypeOK, Off, Keys
  <2>3. SwitchIsAudited' /\ OwnKeyOnly'
    BY <2>1 DEF SwitchInv, SwitchIsAudited, OwnKeyOnly, Off
  <2>4. StandingIsOn'
    BY <2>1 DEF SwitchInv, SwitchTypeOK, StandingIsOn
  <2>5. SteadyIsAhead' /\ SteadySwitchStops'
    BY <2>1 DEF SwitchInv, SteadyIsAhead, SteadySwitchStops
  <2> QED BY <2>2, <2>3, <2>4, <2>5 DEF SwitchInv
<1>3. CASE EnableRefused(o)
  BY <1>0, <1>3 DEF EnableRefused, OperatorAt, AfterRefusal, SwitchInv, SwitchTypeOK, SwitchIsAudited,
                    SteadySwitchStops, StandingIsOn, OwnKeyOnly, SteadyIsAhead
<1>4. CASE Rollback(o)
  <2> DEFINE k == operator[o].key
  <2>1. CASE KeysBecome([switch EXCEPT ![k] = 0]) /\ takenBack' = takenBack \cup {k} /\ silent' = silent
    <3>1. /\ switch' = [switch EXCEPT ![k] = 0]
          /\ operator' = [operator EXCEPT ![o] = Off]
          /\ operator[o].pc = "rollback"
          /\ UNCHANGED <<enables, audited, standing>>
      BY <1>4, <2>1 DEF Rollback, KeysBecome, OperatorAt
    <3>2. SteadyIsAhead' /\ SteadySwitchStops' /\ SwitchRecords'
      BY <2>1, <3>1, WatchingKeeps DEF Off, Keys
    <3>3. SwitchTypeOK'
      BY <3>1, <3>2 DEF SwitchInv, SwitchTypeOK
    <3>4. SwitchIsAudited'
      <4> SUFFICES ASSUME NEW j \in Keys, switch'[j] # 0
                   PROVE  \/ switch'[j] \in audited' \cup silent'
                          \/ \E p \in Operators :
                                operator'[p].no = switch'[j] /\ operator'[p].pc \in {"audit", "rollback"}
        BY DEF SwitchIsAudited
      <4>1. j # k /\ switch'[j] = switch[j]
        BY <1>0, <3>1 DEF SwitchInv, SwitchTypeOK
      <4>2. operator[o].no # switch[j]
        BY <3>1, <4>1 DEF OwnKeyOnly
      <4> QED BY <2>1, <3>1, <4>1, <4>2 DEF SwitchInv, SwitchIsAudited
    <3>5. StandingIsOn'
      BY <1>0, <2>1, <3>1 DEF SwitchInv, SwitchTypeOK, StandingIsOn
    <3>6. OwnKeyOnly'
      BY <1>0, <3>1 DEF SwitchInv, SwitchTypeOK, OwnKeyOnly, Off
    <3> QED BY <3>2, <3>3, <3>4, <3>5, <3>6 DEF SwitchInv
  <2>2. CASE silent' = silent \cup {operator[o].no} /\ UNCHANGED <<switch, gate, takenBack>>
    <3>1. operator' = [operator EXCEPT ![o] = Off] /\ UNCHANGED <<enables, audited, standing>>
      BY <1>4 DEF Rollback
    <3> QED
      BY <1>0, <2>2, <3>1 DEF Off, Keys, SwitchInv, SwitchTypeOK, SwitchIsAudited,
                    SteadySwitchStops, StandingIsOn, OwnKeyOnly, SteadyIsAhead
  <2> QED BY <1>4, <2>1, <2>2 DEF Rollback
<1>5. CASE OperatorLost(o)
  BY <1>0, <1>5 DEF OperatorLost, Off, Keys, SwitchInv, SwitchTypeOK, SwitchIsAudited,
                    SteadySwitchStops, StandingIsOn, OwnKeyOnly, SteadyIsAhead
<1> QED BY <1>1, <1>2, <1>3, <1>4, <1>5

(* The switch is disabled; its key expires. *)
LEMMA KeySteps ==
    ASSUME SwitchIInv, NEW k \in Keys, Disable(k) \/ SwitchExpires(k)
    PROVE  SwitchIInv'
<1> USE DEF SwitchIInv, SwitchRecords
<1>1. /\ KeysBecome([switch EXCEPT ![k] = 0])
      /\ standing' = [standing EXCEPT ![k] = 0]
      /\ UNCHANGED <<operator, enables, audited, silent, takenBack>>
  BY DEF Disable, SwitchExpires, Without
<1>2. switch' = [switch EXCEPT ![k] = 0]
  BY <1>1 DEF KeysBecome
<1>3. SwitchRecords' /\ SteadyIsAhead' /\ SteadySwitchStops'
  BY <1>1, WatchingKeeps
<1>4. SwitchTypeOK'
  BY <1>1, <1>2, <1>3 DEF SwitchInv, SwitchTypeOK
<1>5. SwitchIsAudited' /\ StandingIsOn' /\ OwnKeyOnly'
  BY <1>1, <1>2 DEF SwitchInv, SwitchTypeOK, SwitchIsAudited, StandingIsOn, OwnKeyOnly
<1> QED BY <1>3, <1>4, <1>5 DEF SwitchInv

(* For any number of operators, requests and enables: a switch that is on is in *)
(* the audit log or its call is still at it or broke off; no request passes a   *)
(* switch that was on all the while; and a switch whose enable returned is on   *)
(* until it is disabled, expires or is deleted by a rollback (killswitch/       *)
(* switch.py).                                                                  *)
THEOREM SwitchIsSafe == SwitchSpec => []SwitchInv
<1>1. SwitchIInv /\ [SwitchNext]_switchVars => SwitchIInv'
  <2> SUFFICES ASSUME SwitchIInv, [SwitchNext]_switchVars PROVE SwitchIInv'
    OBVIOUS
  <2>1. CASE UNCHANGED switchVars
    BY <2>1 DEF switchVars, SwitchIInv, SwitchRecords, SwitchInv, SwitchTypeOK, SwitchIsAudited,
                SteadySwitchStops, StandingIsOn, OwnKeyOnly, SteadyIsAhead
  <2>2. CASE SwitchNext
    BY <2>2, OperatorSteps, KeySteps, GateSteps DEF SwitchNext
  <2> QED BY <2>1, <2>2
<1>2. SwitchIInv => SwitchInv
  BY DEF SwitchIInv
<1> QED BY SwitchInitially, <1>1, <1>2, PTL DEF SwitchSpec

-----------------------------------------------------------------------------
(***************************************************************************)
(* SseTickets.                                                             *)
(***************************************************************************)

(* No ticket is twice in a memory. *)
NoTicketTwice(memory) ==
    \A i, j \in DOMAIN memory : memory[i] = memory[j] => i = j

(* What an issue, the end of the oldest and a pop make of a memory. *)
LEMMA TicketAppended ==
    ASSUME NEW T, NEW s \in Seq(T), NEW t \in T, NoTicketTwice(s), t \notin TicketsIn(s)
    PROVE  /\ Append(s, t) \in Seq(T)
           /\ NoTicketTwice(Append(s, t))
           /\ TicketsIn(Append(s, t)) = TicketsIn(s) \cup {t}
           /\ Len(Append(s, t)) = Len(s) + 1
<1>1. /\ Append(s, t) \in Seq(T)
      /\ Len(Append(s, t)) = Len(s) + 1
      /\ \A i \in 1 .. Len(s) : Append(s, t)[i] = s[i]
      /\ Append(s, t)[Len(s) + 1] = t
      /\ Len(s) \in Nat
      /\ DOMAIN s = 1 .. Len(s) /\ DOMAIN Append(s, t) = 1 .. Len(s) + 1
  OBVIOUS
<1>2. \A i \in 1 .. Len(s) + 1 : i \in 1 .. Len(s) \/ i = Len(s) + 1
  BY <1>1
<1>3. TicketsIn(Append(s, t)) = TicketsIn(s) \cup {t}
  BY <1>1, <1>2 DEF TicketsIn
<1>4. NoTicketTwice(Append(s, t))
  BY <1>1, <1>2 DEF NoTicketTwice, TicketsIn
<1> QED BY <1>1, <1>3, <1>4

(* The oldest ticket is dropped from a memory that is full. *)
LEMMA OldestDropped ==
    ASSUME NEW T, NEW s \in Seq(T), NoTicketTwice(s), s # <<>>
    PROVE  /\ Tail(s) \in Seq(T)
           /\ NoTicketTwice(Tail(s))
           /\ TicketsIn(Tail(s)) \subseteq TicketsIn(s)
           /\ Len(Tail(s)) = Len(s) - 1
<1>1. /\ Tail(s) \in Seq(T)
      /\ Len(Tail(s)) = Len(s) - 1
      /\ Len(s) \in Nat \ {0}
      /\ \A i \in 1 .. Len(s) - 1 : Tail(s)[i] = s[i + 1]
      /\ DOMAIN s = 1 .. Len(s) /\ DOMAIN Tail(s) = 1 .. Len(s) - 1
  BY HeadTailProperties
<1>2. \A i \in 1 .. Len(s) - 1 : i + 1 \in 1 .. Len(s)
  BY <1>1
<1>3. TicketsIn(Tail(s)) \subseteq TicketsIn(s)
  BY <1>1, <1>2 DEF TicketsIn
<1>4. NoTicketTwice(Tail(s))
  BY <1>1, <1>2 DEF NoTicketTwice
<1> QED BY <1>1, <1>3, <1>4

(* The ticket that is popped is gone. *)
LEMMA TicketPopped ==
    ASSUME NEW T, NEW s \in Seq(T), NEW t, NoTicketTwice(s)
    PROVE  /\ Popped(s, t) \in Seq(T)
           /\ NoTicketTwice(Popped(s, t))
           /\ TicketsIn(Popped(s, t)) = TicketsIn(s) \ {t}
           /\ Len(Popped(s, t)) <= Len(s)
<1>1. CASE t \notin TicketsIn(s)
  BY <1>1 DEF Popped
<1>2. CASE t \in TicketsIn(s)
  <2> DEFINE k == CHOOSE i \in DOMAIN s : s[i] = t
             n == Len(s)
             u == SubSeq(s, 1, k - 1)
             v == SubSeq(s, k + 1, n)
  <2>1. k \in 1 .. n /\ s[k] = t /\ n \in Nat /\ DOMAIN s = 1 .. n
    BY <1>2 DEF TicketsIn
  <2>2. Popped(s, t) = u \o v
    BY <1>2 DEF Popped
  <2> HIDE DEF k
  <2>3. /\ u \in Seq(T) /\ Len(u) = k - 1
        /\ \A i \in 1 .. k - 1 : u[i] = s[i]
    BY <2>1, SubSeqProperties
  <2>4. /\ v \in Seq(T) /\ Len(v) = n - k
        /\ \A i \in 1 .. n - k : v[i] = s[k + i]
    <3>1. k + 1 \in Int /\ n \in Int /\ \A i \in k + 1 .. n : s[i] \in T
      BY <2>1
    <3>2. /\ v \in Seq(T)
          /\ Len(v) = IF k + 1 <= n THEN n - (k + 1) + 1 ELSE 0
          /\ \A i \in 1 .. n - (k + 1) + 1 : v[i] = s[(k + 1) + i - 1]
      BY <3>1, SubSeqProperties
    <3> HIDE DEF v, n
    <3>3. Len(v) = n - k
      BY <2>1, <3>2
    <3>4. ASSUME NEW i \in 1 .. n - k
          PROVE  v[i] = s[k + i]
      <4>1. i \in 1 .. n - (k + 1) + 1 /\ (k + 1) + i - 1 = k + i
        BY <2>1
      <4> QED BY <3>2, <4>1
    <3> QED BY <3>2, <3>3, <3>4
  <2> DEFINE w == u \o v
  <2> HIDE DEF u, v, n
  <2>5. /\ w \in Seq(T) /\ Len(w) = n - 1 /\ DOMAIN w = 1 .. n - 1
        /\ \A i \in 1 .. k - 1 : w[i] = s[i]
        /\ \A i \in k .. n - 1 : w[i] = s[i + 1]
    <3>1. /\ w \in Seq(T) /\ Len(w) = Len(u) + Len(v)
          /\ \A i \in 1 .. Len(u) + Len(v) : w[i] = IF i <= Len(u) THEN u[i] ELSE v[i - Len(u)]
      BY <2>3, <2>4, ConcatProperties
    <3> HIDE DEF w
    <3>2. Len(w) = n - 1 /\ DOMAIN w = 1 .. n - 1
      BY <2>1, <2>3, <2>4, <3>1, LenProperties
    <3>3. ASSUME NEW i \in 1 .. k - 1
          PROVE  w[i] = s[i]
      BY <2>1, <2>3, <2>4, <3>1
    <3>4. ASSUME NEW i \in k .. n - 1
          PROVE  w[i] = s[i + 1]
      <4>1. i - (k - 1) \in 1 .. n - k /\ ~(i <= k - 1) /\ i \in 1 .. n - 1 /\ k + (i - (k - 1)) = i + 1
        BY <2>1
      <4>2. w[i] = v[i - (k - 1)]
        BY <2>1, <2>3, <2>4, <3>1, <4>1
      <4> QED BY <2>4, <4>1, <4>2
    <3> QED BY <3>1, <3>2, <3>3, <3>4
  <2> HIDE DEF w
  <2>6. \A i \in 1 .. n - 1 : /\ i \in 1 .. k - 1 \/ i \in k .. n - 1
                              /\ i + 1 \in 1 .. n /\ i \in 1 .. n
    BY <2>1
  <2>7. TicketsIn(w) = TicketsIn(s) \ {t}
    <3>1. ASSUME NEW i \in 1 .. n - 1
          PROVE  w[i] \in TicketsIn(s) \ {t}
      <4>1. CASE i \in 1 .. k - 1
        <5>1. i # k /\ i \in 1 .. n
          BY <2>1, <4>1
        <5> QED BY <2>1, <2>5, <4>1, <5>1 DEF NoTicketTwice, TicketsIn
      <4>2. CASE i \in k .. n - 1
        <5>1. i + 1 # k /\ i + 1 \in 1 .. n
          BY <2>1, <4>2
        <5> QED BY <2>1, <2>5, <4>2, <5>1 DEF NoTicketTwice, TicketsIn
      <4> QED BY <2>6, <4>1, <4>2
    <3>2. ASSUME NEW i \in 1 .. n, s[i] # t
          PROVE  s[i] \in TicketsIn(w)
      <4>1. i # k
        BY <2>1, <3>2
      <4>2. CASE i < k
        <5>1. i \in 1 .. k - 1 /\ i \in 1 .. n - 1
          BY <2>1, <4>2
        <5> QED BY <2>5, <5>1 DEF TicketsIn
      <4>3. CASE i > k
        <5>1. i - 1 \in k .. n - 1 /\ i - 1 \in 1 .. n - 1 /\ (i - 1) + 1 = i
          BY <2>1, <4>3
        <5>2. w[i - 1] = s[i]
          BY <2>5, <5>1
        <5> QED BY <2>5, <5>1, <5>2 DEF TicketsIn
      <4> QED BY <2>1, <4>1, <4>2, <4>3
    <3>3. TicketsIn(w) = {w[i] : i \in 1 .. n - 1} /\ TicketsIn(s) = {s[i] : i \in 1 .. n}
      BY <2>1, <2>5 DEF TicketsIn
    <3> QED BY <3>1, <3>2, <3>3
  <2>8. NoTicketTwice(w)
    <3> SUFFICES ASSUME NEW i \in 1 .. n - 1, NEW j \in 1 .. n - 1, w[i] = w[j], i # j
                 PROVE  FALSE
      BY <2>5 DEF NoTicketTwice
    <3>1. \A a, b \in 1 .. n : s[a] = s[b] => a = b
      BY <2>1 DEF NoTicketTwice
    <3>2. CASE i \in 1 .. k - 1 /\ j \in 1 .. k - 1
      BY <2>5, <2>6, <3>1, <3>2
    <3>3. CASE i \in k .. n - 1 /\ j \in k .. n - 1
      <4>1. i + 1 = j + 1
        BY <2>5, <2>6, <3>1, <3>3
      <4> QED BY <4>1
    <3>4. CASE i \in 1 .. k - 1 /\ j \in k .. n - 1
      <4>1. i = j + 1
        BY <2>5, <2>6, <3>1, <3>4
      <4> QED BY <2>1, <3>4, <4>1
    <3>5. CASE i \in k .. n - 1 /\ j \in 1 .. k - 1
      <4>1. i + 1 = j
        BY <2>5, <2>6, <3>1, <3>5
      <4> QED BY <2>1, <3>5, <4>1
    <3> QED BY <2>6, <3>2, <3>3, <3>4, <3>5
  <2>9. n - 1 <= n
    BY <2>1
  <2> QED BY <2>2, <2>5, <2>7, <2>8, <2>9 DEF n, w
<1> QED BY <1>1, <1>2

TicketScopes == {"none", "query", "metrics", "legacy"}

Presented ==
    [pc : {"getdel", "eval", "memory", "accepted", "refused"}, ticket : Tickets,
     server : Servers, door : Doors, tries : {1, 2}]

(* Where the tickets are: issued ones only, each in one place. *)
PlacesOK ==
    /\ scope \in [Tickets -> TicketScopes]
    /\ inRedis \subseteq Issued
    /\ inMemory \in [Servers -> Seq(Tickets)]
    /\ \A h \in Servers :
          /\ NoTicketTwice(inMemory[h])
          /\ TicketsIn(inMemory[h]) \subseteq Issued
          /\ Len(inMemory[h]) <= MaxTickets
    /\ OnePlace

BearersOK ==
    /\ bearer \in [Bearers -> {NotHere} \cup Presented]
    /\ \A b \in Bearers : bearer[b] \in Presented => bearer[b].ticket \in Issued

(* An acceptance is that of the ticket its bearer presented, which is nowhere any more. *)
AcceptedOK ==
    /\ \A a \in accepted :
          /\ a.bearer \in Bearers
          /\ bearer[a.bearer] \in Presented
          /\ bearer[a.bearer].pc = "accepted"
          /\ a.ticket = bearer[a.bearer].ticket
          /\ ScopeAllowed(a.ticket, bearer[a.bearer].door)
          /\ ~StillThere(a.ticket)
    /\ \A a, b \in accepted : a.ticket = b.ticket => a = b

(* The inductive invariant of the tickets. *)
TicketsIInv == PlacesOK /\ BearersOK /\ AcceptedOK

(* The invariant holds at the start. *)
LEMMA TicketsInitially == TicketsInit => TicketsIInv
<1> SUFFICES ASSUME TicketsInit PROVE TicketsIInv
  OBVIOUS
<1> USE DEF TicketsInit
<1>1. PlacesOK
  <2>1. \A h \in Servers : inMemory[h] = <<>> /\ TicketsIn(inMemory[h]) = {} /\ NoTicketTwice(inMemory[h])
    BY DEF TicketsIn, NoTicketTwice
  <2>2. \A h \in Servers : Len(inMemory[h]) <= MaxTickets
    BY <2>1, MaxTicketsAssumption
  <2>3. inMemory \in [Servers -> Seq(Tickets)]
    BY EmptySeq
  <2> QED BY <2>1, <2>2, <2>3 DEF PlacesOK, TicketScopes, OnePlace
<1>2. BearersOK /\ AcceptedOK
  BY DEF BearersOK, AcceptedOK, NotHere, Presented
<1> QED BY <1>1, <1>2 DEF TicketsIInv

(* The invariant implies what the run checks. *)
LEMMA TicketsImplied == TicketsIInv => TicketsInv
BY DEF TicketsIInv, PlacesOK, AcceptedOK, TicketsInv, AcceptedOnce, RightDoor

(* Tickets are only taken out of their places. *)
FewerPlaces ==
    /\ scope' = scope
    /\ inRedis' \subseteq inRedis
    /\ inMemory' \in [Servers -> Seq(Tickets)]
    /\ \A h \in Servers :
          /\ NoTicketTwice(inMemory'[h])
          /\ TicketsIn(inMemory'[h]) \subseteq TicketsIn(inMemory[h])
          /\ Len(inMemory'[h]) <= MaxTickets

(* Less in the places is as sound as before. *)
LEMMA FewerPlacesOK ==
    ASSUME PlacesOK, FewerPlaces
    PROVE  PlacesOK' /\ \A t \in Tickets : StillThere(t)' => StillThere(t)
<1>1. Issued' = Issued
  BY DEF FewerPlaces, Issued
<1>2. OnePlace'
  BY DEF PlacesOK, FewerPlaces, OnePlace
<1>3. PlacesOK'
  BY <1>1, <1>2 DEF PlacesOK, FewerPlaces
<1>4. \A t \in Tickets : StillThere(t)' => StillThere(t)
  BY DEF FewerPlaces, StillThere
<1> QED BY <1>3, <1>4

(* A bearer that is not accepted goes on, and accepts nothing. *)
LEMMA BearerGoesOn ==
    ASSUME BearersOK, AcceptedOK, FewerPlaces, PlacesOK,
           NEW b \in Bearers, bearer[b] \in Presented, bearer[b].pc # "accepted",
           NEW pc \in {"getdel", "eval", "memory", "refused"}, NEW tries \in {1, 2},
           bearer' = [bearer EXCEPT ![b] = [pc |-> pc, ticket |-> bearer[b].ticket,
                                            server |-> bearer[b].server, door |-> bearer[b].door,
                                            tries |-> tries]],
           accepted' = accepted
    PROVE  BearersOK' /\ AcceptedOK'
<1>1. Issued' = Issued /\ scope' = scope
  BY DEF FewerPlaces, Issued
<1>2. bearer'[b] \in Presented /\ bearer'[b].ticket = bearer[b].ticket
  BY DEF BearersOK, Presented
<1>3. BearersOK'
  BY <1>1, <1>2 DEF BearersOK
<1>4. \A a \in accepted : a.bearer # b /\ bearer'[a.bearer] = bearer[a.bearer] /\ a.ticket \in Tickets
  BY DEF AcceptedOK, BearersOK, Presented
<1>5. AcceptedOK'
  <2>1. \A t \in Tickets : StillThere(t)' => StillThere(t)
    BY FewerPlacesOK
  <2> QED BY <1>1, <1>4, <2>1 DEF AcceptedOK, ScopeAllowed
<1> QED BY <1>3, <1>5

(* The record of a bearer, at another step. *)
LEMMA PresentedAt ==
    ASSUME NEW r \in Presented, NEW pc
    PROVE  [r EXCEPT !.pc = pc] = [pc |-> pc, ticket |-> r.ticket, server |-> r.server,
                                   door |-> r.door, tries |-> r.tries]
BY DEF Presented

(* A bearer that is turned away goes on. *)
LEMMA TurnedGoesOn ==
    ASSUME BearersOK, AcceptedOK, FewerPlaces, PlacesOK,
           NEW b \in Bearers, bearer[b] \in Presented, bearer[b].pc # "accepted",
           Turned(b), accepted' = accepted
    PROVE  BearersOK' /\ AcceptedOK'
<1> DEFINE r == bearer[b]
<1>1. CASE bearer[b].door = "socket" /\ bearer[b].tries = 1
  <2>1. bearer' = [bearer EXCEPT ![b] = [pc |-> "getdel", ticket |-> r.ticket, server |-> r.server,
                                         door |-> r.door, tries |-> 2]]
    BY <1>1 DEF Turned, Presented, BearersOK
  <2> QED BY <2>1, BearerGoesOn
<1>2. CASE ~(bearer[b].door = "socket" /\ bearer[b].tries = 1)
  <2>1. bearer' = [bearer EXCEPT ![b] = [pc |-> "refused", ticket |-> r.ticket, server |-> r.server,
                                         door |-> r.door, tries |-> r.tries]]
    <3>1. bearer' = [bearer EXCEPT ![b] = [bearer[b] EXCEPT !.pc = "refused"]]
      BY <1>2 DEF Turned
    <3> QED BY <3>1, PresentedAt
  <2>2. r.tries \in {1, 2}
    BY DEF Presented
  <2> QED BY <2>1, <2>2, BearerGoesOn
<1> QED BY <1>1, <1>2

(* A bearer that goes to another step with its ticket goes on. *)
LEMMA BearerToGoesOn ==
    ASSUME BearersOK, AcceptedOK, FewerPlaces, PlacesOK,
           NEW b \in Bearers, bearer[b] \in Presented, bearer[b].pc # "accepted",
           NEW pc \in {"getdel", "eval", "memory", "refused"},
           BearerTo(b, pc), accepted' = accepted
    PROVE  BearersOK' /\ AcceptedOK'
<1> DEFINE r == bearer[b]
<1>1. bearer' = [bearer EXCEPT ![b] = [pc |-> pc, ticket |-> r.ticket, server |-> r.server,
                                       door |-> r.door, tries |-> r.tries]]
  <2>1. bearer' = [bearer EXCEPT ![b] = [bearer[b] EXCEPT !.pc = pc]]
    BY DEF BearerTo
  <2> QED BY <2>1, PresentedAt
<1>2. r.tries \in {1, 2}
  BY DEF Presented
<1> QED BY <1>1, <1>2, BearerGoesOn

(* Whoever judges a ticket has just taken it out of the one place it was in. *)
LEMMA JudgeKeeps ==
    ASSUME TicketsIInv, FewerPlaces,
           NEW b \in Bearers, bearer[b] \in Presented, bearer[b].pc # "accepted",
           NEW t \in Tickets, t = bearer[b].ticket, StillThere(t), ~StillThere(t)',
           JudgeTicket(b)
    PROVE  BearersOK' /\ AcceptedOK'
<1> USE DEF TicketsIInv
<1> DEFINE a0 == [ticket |-> t, bearer |-> b, try |-> bearer[b].tries]
<1>1. CASE ~ScopeAllowed(t, bearer[b].door)
  BY <1>1, TurnedGoesOn DEF JudgeTicket
<1>2. CASE ScopeAllowed(t, bearer[b].door)
  <2>1. accepted' = accepted \cup {a0} /\ bearer' = [bearer EXCEPT ![b].pc = "accepted"]
    BY <1>2 DEF JudgeTicket
  <2>2. /\ bearer'[b] \in Presented /\ bearer'[b].ticket = t /\ bearer'[b].door = bearer[b].door
        /\ bearer'[b].pc = "accepted"
    BY <2>1 DEF BearersOK, Presented
  <2>3. Issued' = Issued /\ scope' = scope
    BY DEF FewerPlaces, Issued
  <2>4. BearersOK'
    BY <2>1, <2>2, <2>3 DEF BearersOK
  <2>5. \A a \in accepted : /\ a.bearer # b /\ bearer'[a.bearer] = bearer[a.bearer]
                            /\ a.ticket \in Tickets /\ a.ticket # t
    BY <2>1 DEF AcceptedOK, BearersOK, Presented
  <2>6. \A u \in Tickets : StillThere(u)' => StillThere(u)
    BY FewerPlacesOK
  <2>7. ASSUME NEW a \in accepted'
        PROVE  /\ a.bearer \in Bearers
               /\ bearer'[a.bearer] \in Presented
               /\ bearer'[a.bearer].pc = "accepted"
               /\ a.ticket = bearer'[a.bearer].ticket
               /\ ScopeAllowed(a.ticket, bearer[a.bearer].door)'
               /\ ~StillThere(a.ticket)'
    <3>1. CASE a \in accepted
      BY <2>3, <2>5, <2>6, <3>1 DEF AcceptedOK, ScopeAllowed
    <3>2. CASE a = a0
      <4>1. a.bearer = b /\ a.ticket = t
        BY <3>2
      <4> QED BY <1>2, <2>2, <2>3, <4>1 DEF ScopeAllowed
    <3> QED BY <2>1, <3>1, <3>2
  <2>8. ASSUME NEW a \in accepted', NEW c \in accepted', a.ticket = c.ticket
        PROVE  a = c
    <3>1. a0.ticket = t
      OBVIOUS
    <3> QED BY <2>1, <2>5, <2>8, <3>1 DEF AcceptedOK
  <2> QED BY <2>4, <2>7, <2>8 DEF AcceptedOK
<1> QED BY <1>1, <1>2

(* A ticket is issued: to Redis, or to the memory of one server. *)
LEMMA IssueSteps ==
    ASSUME TicketsIInv, NEW t \in Tickets, NEW s \in {"query", "metrics", "legacy"},
           IssueInRedis(t, s) \/ \E h \in Servers : IssueInMemory(t, s, h)
    PROVE  TicketsIInv'
<1> USE DEF TicketsIInv
<1>1. /\ scope[t] = "none" /\ scope' = [scope EXCEPT ![t] = s]
      /\ UNCHANGED <<bearer, accepted>>
  BY DEF IssueInRedis, IssueInMemory
<1>2. /\ scope' \in [Tickets -> TicketScopes]
      /\ t \notin Issued /\ Issued' = Issued \cup {t}
      /\ \A u \in Issued : scope'[u] = scope[u]
  BY <1>1 DEF PlacesOK, TicketScopes, Issued
<1>3. ~StillThere(t)
  BY <1>2 DEF PlacesOK, StillThere
<1>4. PlacesOK' /\ \A u \in Tickets \ {t} : StillThere(u)' => StillThere(u)
  <2>1. CASE IssueInRedis(t, s)
    <3>1. inRedis' = inRedis \cup {t} /\ inMemory' = inMemory
      BY <2>1 DEF IssueInRedis
    <3>2. OnePlace'
      BY <1>3, <3>1 DEF PlacesOK, OnePlace, StillThere
    <3> QED BY <1>2, <3>1, <3>2 DEF PlacesOK, StillThere
  <2>2. ASSUME NEW h \in Servers, IssueInMemory(t, s, h)
        PROVE  PlacesOK' /\ \A u \in Tickets \ {t} : StillThere(u)' => StillThere(u)
    <3> DEFINE m == inMemory[h]
               kept == IF Len(m) >= MaxTickets THEN Tail(m) ELSE m
    <3>1. inMemory' = [inMemory EXCEPT ![h] = Append(kept, t)] /\ inRedis' = inRedis
      BY <2>2 DEF IssueInMemory
    <3>2. /\ m \in Seq(Tickets) /\ NoTicketTwice(m) /\ Len(m) <= MaxTickets
          /\ Len(m) \in Nat /\ t \notin TicketsIn(m)
      BY <1>2 DEF PlacesOK
    <3>3. /\ kept \in Seq(Tickets) /\ NoTicketTwice(kept) /\ TicketsIn(kept) \subseteq TicketsIn(m)
          /\ Len(kept) + 1 <= MaxTickets /\ Len(kept) \in Nat
      <4>1. CASE Len(m) >= MaxTickets
        <5>1. m # <<>>
          BY <3>2, <4>1, MaxTicketsAssumption
        <5>2. /\ Tail(m) \in Seq(Tickets) /\ NoTicketTwice(Tail(m))
              /\ TicketsIn(Tail(m)) \subseteq TicketsIn(m) /\ Len(Tail(m)) = Len(m) - 1
          BY <3>2, <5>1, OldestDropped
        <5> QED BY <3>2, <4>1, <5>2, MaxTicketsAssumption
      <4>2. CASE ~(Len(m) >= MaxTickets)
        BY <3>2, <4>2, MaxTicketsAssumption
      <4> QED BY <4>1, <4>2
    <3> HIDE DEF kept
    <3>4. /\ Append(kept, t) \in Seq(Tickets) /\ NoTicketTwice(Append(kept, t))
          /\ TicketsIn(Append(kept, t)) \subseteq TicketsIn(m) \cup {t}
          /\ Len(Append(kept, t)) <= MaxTickets
      BY <3>2, <3>3, TicketAppended
    <3>5. /\ inMemory' \in [Servers -> Seq(Tickets)]
          /\ inMemory'[h] = Append(kept, t)
          /\ \A k \in Servers \ {h} : inMemory'[k] = inMemory[k]
      BY <3>1, <3>4 DEF PlacesOK
    <3>6. OnePlace'
      BY <1>2, <1>3, <3>1, <3>4, <3>5 DEF PlacesOK, OnePlace, StillThere
    <3>7. \A u \in Tickets \ {t} : StillThere(u)' => StillThere(u)
      BY <3>1, <3>4, <3>5 DEF StillThere
    <3>8. ASSUME NEW k \in Servers
          PROVE  /\ NoTicketTwice(inMemory'[k])
                 /\ TicketsIn(inMemory'[k]) \subseteq Issued'
                 /\ Len(inMemory'[k]) <= MaxTickets
      BY <1>2, <3>4, <3>5 DEF PlacesOK
    <3> QED BY <1>2, <3>1, <3>5, <3>6, <3>7, <3>8 DEF PlacesOK
  <2> QED BY <2>1, <2>2
<1>5. BearersOK'
  BY <1>1, <1>2 DEF BearersOK
<1>6. \A a \in accepted : a.ticket \in Issued /\ a.ticket # t /\ a.ticket \in Tickets
  BY <1>2 DEF AcceptedOK, BearersOK, Issued
<1>7. AcceptedOK'
  BY <1>1, <1>2, <1>4, <1>6 DEF AcceptedOK, ScopeAllowed
<1> QED BY <1>4, <1>5, <1>7

(* A ticket expires. *)
LEMMA ExpiryStep ==
    ASSUME TicketsIInv, NEW t \in Tickets, TicketExpires(t)
    PROVE  TicketsIInv'
<1> USE DEF TicketsIInv
<1>1. FewerPlaces
  <2>1. \A h \in Servers : inMemory'[h] = Popped(inMemory[h], t)
    BY DEF TicketExpires
  <2>2. ASSUME NEW h \in Servers
        PROVE  /\ Popped(inMemory[h], t) \in Seq(Tickets)
               /\ NoTicketTwice(Popped(inMemory[h], t))
               /\ TicketsIn(Popped(inMemory[h], t)) \subseteq TicketsIn(inMemory[h])
               /\ Len(Popped(inMemory[h], t)) <= MaxTickets
    <3>1. /\ inMemory[h] \in Seq(Tickets) /\ NoTicketTwice(inMemory[h])
          /\ Len(inMemory[h]) <= MaxTickets /\ Len(inMemory[h]) \in Nat
      BY DEF PlacesOK
    <3>2. /\ Popped(inMemory[h], t) \in Seq(Tickets)
          /\ NoTicketTwice(Popped(inMemory[h], t))
          /\ TicketsIn(Popped(inMemory[h], t)) = TicketsIn(inMemory[h]) \ {t}
          /\ Len(Popped(inMemory[h], t)) <= Len(inMemory[h])
      BY <3>1, TicketPopped
    <3>3. Len(Popped(inMemory[h], t)) \in Nat
      BY <3>2, LenProperties
    <3> QED BY <3>1, <3>2, <3>3, MaxTicketsAssumption
  <2>3. inMemory' \in [Servers -> Seq(Tickets)]
    BY <2>2 DEF TicketExpires
  <2> QED BY <2>1, <2>2, <2>3 DEF TicketExpires, FewerPlaces
<1>2. UNCHANGED <<scope, bearer, accepted>>
  BY DEF TicketExpires
<1>3. PlacesOK' /\ \A u \in Tickets : StillThere(u)' => StillThere(u)
  BY <1>1, FewerPlacesOK
<1>4. BearersOK' /\ AcceptedOK'
  BY <1>2, <1>3 DEF BearersOK, AcceptedOK, Presented, Issued, ScopeAllowed
<1> QED BY <1>3, <1>4

(* A bearer presents its ticket. *)
LEMMA PresentStep ==
    ASSUME TicketsIInv, NEW b \in Bearers, NEW t \in Tickets, NEW h \in Servers, NEW door \in Doors,
           Present(b, t, h, door)
    PROVE  TicketsIInv'
<1> USE DEF TicketsIInv
<1>1. /\ bearer[b].pc = "away" /\ t \in Issued
      /\ bearer' = [bearer EXCEPT ![b] = [pc |-> "getdel", ticket |-> t, server |-> h,
                                          door |-> door, tries |-> 1]]
      /\ UNCHANGED <<scope, inRedis, inMemory, accepted, outdated>>
  BY DEF Present, BearerAt
<1>2. PlacesOK'
  BY <1>1 DEF PlacesOK, Issued, OnePlace
<1>3. BearersOK'
  BY <1>1 DEF BearersOK, Presented, Issued
<1>4. \A a \in accepted : a.bearer # b /\ bearer'[a.bearer] = bearer[a.bearer]
  BY <1>1 DEF AcceptedOK, BearersOK, Presented
<1>5. AcceptedOK'
  BY <1>1, <1>4 DEF AcceptedOK, ScopeAllowed, StillThere
<1> QED BY <1>2, <1>3, <1>5

(* A bearer on its way is among those that present a ticket. *)
LEMMA OnItsWay ==
    ASSUME TicketsIInv, NEW b \in Bearers, bearer[b].pc \in {"getdel", "eval", "memory"}
    PROVE  bearer[b] \in Presented /\ bearer[b].pc # "accepted" /\ bearer[b].ticket \in Issued
BY DEF TicketsIInv, BearersOK, NotHere, Presented

(* A ticket is consumed in Redis, or Redis cannot be asked. *)
LEMMA RedisSteps ==
    ASSUME TicketsIInv, NEW b \in Bearers, GetDel(b) \/ Eval(b) \/ NoClient(b)
    PROVE  TicketsIInv'
<1> USE DEF TicketsIInv
<1>0. bearer[b].pc \in {"getdel", "eval", "memory"}
  BY DEF GetDel, Eval, NoClient, BearerAt
<1> PICK t \in Tickets : t = bearer[b].ticket
  BY <1>0, OnItsWay DEF Issued
<1>1. /\ UNCHANGED <<scope, inMemory, outdated>>
      /\ inRedis' \in {inRedis, inRedis \ {t}}
  BY DEF GetDel, Eval, NoClient, RedisAnswers, RedisRaises, Taken
<1>2. bearer[b] \in Presented /\ bearer[b].pc # "accepted"
  BY <1>0, OnItsWay
<1>3. FewerPlaces
  BY <1>1 DEF FewerPlaces, PlacesOK
<1>4. PlacesOK'
  BY <1>3, FewerPlacesOK
<1>5. CASE t \in inRedis /\ Taken(t) /\ JudgeTicket(b)
  <2>1. \A h \in Servers : t \notin TicketsIn(inMemory[h])
    BY <1>2, <1>5 DEF PlacesOK, OnePlace
  <2>2. inMemory' = inMemory /\ t \notin inRedis'
    BY <1>1, <1>5 DEF Taken
  <2>3. StillThere(t)
    BY <1>5 DEF StillThere
  <2>4. ~(t \in inRedis' \/ \E h \in Servers : t \in TicketsIn(inMemory'[h]))
    BY <2>1, <2>2
  <2>5. ~StillThere(t)'
    BY <2>4 DEF StillThere
  <2> QED BY <1>2, <1>3, <1>4, <1>5, <2>3, <2>5, JudgeKeeps
<1>6. ASSUME NEW pc \in {"eval", "memory"}, BearerTo(b, pc), accepted' = accepted
      PROVE  TicketsIInv'
  BY <1>2, <1>3, <1>4, <1>6, BearerToGoesOn
<1>7. \/ t \in inRedis /\ Taken(t) /\ JudgeTicket(b)
      \/ \E pc \in {"eval", "memory"} : BearerTo(b, pc) /\ accepted' = accepted
  BY DEF GetDel, Eval, NoClient, RedisAnswers, RedisRaises
<1> QED BY <1>5, <1>6, <1>7

(* A ticket is consumed from the memory. *)
LEMMA MemoryStep ==
    ASSUME TicketsIInv, NEW b \in Bearers, PopMemory(b)
    PROVE  TicketsIInv'
<1> USE DEF TicketsIInv
<1>1. bearer[b].pc = "memory" /\ UNCHANGED <<scope, inRedis, outdated>>
  BY DEF PopMemory, BearerAt
<1>2. bearer[b] \in Presented /\ bearer[b].pc # "accepted"
  BY <1>1, OnItsWay
<1> PICK t \in Tickets, h \in Servers : t = bearer[b].ticket /\ h = bearer[b].server
  BY <1>2 DEF Presented
<1>3. CASE t \notin TicketsIn(inMemory[h])
  <2>1. Turned(b) /\ UNCHANGED <<inMemory, accepted>>
    BY <1>3 DEF PopMemory
  <2>2. FewerPlaces
    BY <1>1, <2>1 DEF FewerPlaces, PlacesOK
  <2> QED BY <1>2, <2>1, <2>2, FewerPlacesOK, TurnedGoesOn
<1>4. CASE t \in TicketsIn(inMemory[h])
  <2>1. inMemory' = [inMemory EXCEPT ![h] = Popped(inMemory[h], t)] /\ JudgeTicket(b)
    BY <1>4 DEF PopMemory
  <2>2. /\ inMemory[h] \in Seq(Tickets) /\ NoTicketTwice(inMemory[h])
        /\ Len(inMemory[h]) <= MaxTickets /\ Len(inMemory[h]) \in Nat
    BY <1>2 DEF PlacesOK
  <2>3. /\ Popped(inMemory[h], t) \in Seq(Tickets)
        /\ NoTicketTwice(Popped(inMemory[h], t))
        /\ TicketsIn(Popped(inMemory[h], t)) = TicketsIn(inMemory[h]) \ {t}
        /\ Len(Popped(inMemory[h], t)) <= Len(inMemory[h])
    BY <2>2, TicketPopped
  <2>4. Len(Popped(inMemory[h], t)) <= MaxTickets
    <3>1. Len(Popped(inMemory[h], t)) \in Nat
      BY <2>3, LenProperties
    <3> QED BY <2>2, <2>3, <3>1, MaxTicketsAssumption
  <2>5. /\ inMemory' \in [Servers -> Seq(Tickets)]
        /\ inMemory'[h] = Popped(inMemory[h], t)
        /\ \A k \in Servers \ {h} : inMemory'[k] = inMemory[k]
    BY <1>2, <2>1, <2>3 DEF PlacesOK
  <2>6. FewerPlaces
    BY <1>1, <2>3, <2>4, <2>5 DEF FewerPlaces, PlacesOK
  <2>7. StillThere(t)
    BY <1>4 DEF StillThere
  <2>8. t \notin inRedis /\ \A k \in Servers \ {h} : t \notin TicketsIn(inMemory[k])
    BY <1>4 DEF PlacesOK, OnePlace
  <2>9. \A k \in Servers : t \notin TicketsIn(inMemory'[k])
    BY <2>3, <2>5, <2>8
  <2>10. ~StillThere(t)'
    BY <1>1, <2>8, <2>9 DEF StillThere
  <2> QED BY <1>2, <2>1, <2>6, <2>7, <2>10, FewerPlacesOK, JudgeKeeps
<1> QED BY <1>3, <1>4

(* For any number of tickets, servers and bearers: a ticket admits once, where it *)
(* was issued for, and is nowhere any more once it has; it is kept in one place,  *)
(* and no memory holds more than _MAX_TICKETS (api/security.py:180-386).          *)
THEOREM TicketsAreSingleUse == TicketsSpec => []TicketsInv
<1>1. TicketsIInv /\ [TicketsNext]_ticketVars => TicketsIInv'
  <2> SUFFICES ASSUME TicketsIInv, [TicketsNext]_ticketVars PROVE TicketsIInv'
    OBVIOUS
  <2>1. CASE UNCHANGED ticketVars
    BY <2>1 DEF ticketVars, TicketsIInv, PlacesOK, BearersOK, AcceptedOK, Issued, OnePlace,
                ScopeAllowed, StillThere
  <2>2. CASE TicketsNext
    BY <2>2, IssueSteps, ExpiryStep, PresentStep, RedisSteps, MemoryStep DEF TicketsNext
  <2> QED BY <2>1, <2>2
<1> QED BY TicketsInitially, TicketsImplied, <1>1, PTL DEF TicketsSpec

-----------------------------------------------------------------------------
(***************************************************************************)
(* TokenBuckets.                                                           *)
(***************************************************************************)

(* What was drawn since the mark, with what could be drawn now, is at most what *)
(* the bucket held plus what flowed into it.                                    *)
Inflow(b) == PerTick[b] * (clock - mark)

DrawnAndLeft == \A b \in Buckets : drawn + Refilled(b) <= Capacity[b] + Inflow(b)

(* The inductive invariant of the buckets. *)
BucketsIInv == BucketsTypeOK /\ DrawnAndLeft

(* A refill leaves a bucket between nothing and its capacity. *)
LEMMA RefillIsTyped ==
    ASSUME BucketsTypeOK, NEW b \in Buckets
    PROVE  /\ Refilled(b) \in 0 .. Capacity[b]
           /\ Capacity[b] \in Nat \ {0} /\ PerTick[b] \in Nat
           /\ tokens[b] \in Nat /\ last[b] \in Nat /\ clock \in Nat
           /\ Inflow(b) \in Nat
<1>1. Capacity[b] \in Nat \ {0} /\ PerTick[b] \in Nat
  BY CapacityAssumption, PerTickAssumption
<1>2. /\ tokens[b] \in 0 .. Capacity[b] /\ last[b] \in 0 .. clock
      /\ clock \in Nat /\ mark \in 0 .. clock
  BY DEF BucketsTypeOK
<1>3. clock - last[b] \in Nat /\ clock - mark \in Nat
  BY <1>2
<1>4. (clock - last[b]) * PerTick[b] \in Nat /\ PerTick[b] * (clock - mark) \in Nat
  BY <1>1, <1>3
<1>5. Refilled(b) \in 0 .. Capacity[b]
  BY <1>1, <1>2, <1>4 DEF Refilled, Least
<1> QED BY <1>1, <1>2, <1>4, <1>5 DEF Inflow

(* The invariant holds at the start. *)
LEMMA BucketsInitially == BucketsInit => BucketsIInv
<1> SUFFICES ASSUME BucketsInit PROVE BucketsIInv
  OBVIOUS
<1>1. BucketsTypeOK
  BY CapacityAssumption DEF BucketsInit, BucketsTypeOK, DrawerStates
<1>2. ASSUME NEW b \in Buckets
      PROVE  drawn + Refilled(b) <= Capacity[b] + Inflow(b)
  <2>1. Refilled(b) \in 0 .. Capacity[b] /\ Inflow(b) \in Nat /\ Capacity[b] \in Nat
    BY <1>1, RefillIsTyped
  <2> QED BY <2>1 DEF BucketsInit
<1> QED BY <1>1, <1>2 DEF BucketsIInv, DrawnAndLeft

(* The invariant implies what the run checks. *)
LEMMA BucketsImplied == BucketsIInv => BucketsInv
<1> SUFFICES ASSUME BucketsIInv, NEW b \in Buckets
             PROVE  drawn <= Capacity[b] + PerTick[b] * (clock - mark)
  BY DEF BucketsIInv, BucketsInv, RateIsBounded
<1>1. Refilled(b) \in Nat /\ Inflow(b) \in Nat /\ Capacity[b] \in Nat /\ drawn \in Nat
  BY RefillIsTyped DEF BucketsIInv, BucketsTypeOK
<1>2. drawn + Refilled(b) <= Capacity[b] + Inflow(b)
  BY DEF BucketsIInv, DrawnAndLeft
<1> QED BY <1>1, <1>2 DEF Inflow

(* A bucket that was just refilled offers what it holds. *)
LEMMA JustRefilled ==
    ASSUME BucketsTypeOK', NEW b \in Buckets, last'[b] = clock'
    PROVE  Refilled(b)' = tokens'[b]
BY DEF Refilled, BucketsTypeOK

(* One that nobody touched offers the same at the same time. *)
LEMMA Untouched ==
    ASSUME NEW b \in Buckets, clock' = clock, last'[b] = last[b], tokens'[b] = tokens[b]
    PROVE  Refilled(b)' = Refilled(b)
BY DEF Refilled, Least

(* acquire: both buckets are refilled, and drawn on or not. *)
LEMMA AcquireStep ==
    ASSUME BucketsIInv, NEW d \in Drawers, NEW n \in Wanted, Acquire(d, n)
    PROVE  BucketsIInv'
<1> USE DEF BucketsIInv
<1>1. /\ n \in Nat /\ drawn \in Nat
      /\ \A b \in Buckets : Refilled(b) \in 0 .. Capacity[b] /\ Capacity[b] \in Nat /\ Inflow(b) \in Nat
  BY WantedAssumption, RefillIsTyped DEF BucketsTypeOK
<1>2. /\ UNCHANGED <<clock, mark>>
      /\ last' = [b \in Buckets |-> clock]
      /\ drawer' = [drawer EXCEPT ![d] = "idle"]
  BY DEF Acquire, SeenAt
<1>3. \E k \in {0, n} :
         /\ drawn' = drawn + k
         /\ tokens' = [b \in Buckets |-> Refilled(b) - k]
         /\ \A b \in Buckets : Refilled(b) >= k
  <2>1. CASE Enough(n) /\ tokens' = [b \in Buckets |-> Refilled(b) - n] /\ drawn' = drawn + n
    BY <2>1 DEF Enough
  <2>2. CASE tokens' = [b \in Buckets |-> Refilled(b)] /\ drawn' = drawn
    <3>1. \A b \in Buckets : Refilled(b) - 0 = Refilled(b) /\ Refilled(b) >= 0
      BY <1>1
    <3>2. drawn' = drawn + 0 /\ tokens' = [b \in Buckets |-> Refilled(b) - 0]
      BY <1>1, <2>2, <3>1
    <3> QED BY <3>1, <3>2
  <2> QED BY <2>1, <2>2 DEF Acquire
<1>4. PICK k \in {0, n} :
         /\ drawn' = drawn + k
         /\ tokens' = [b \in Buckets |-> Refilled(b) - k]
         /\ \A b \in Buckets : Refilled(b) >= k
  BY <1>3
<1>5. k \in Nat /\ drawn' \in Nat
  BY <1>1, <1>4
<1>6. ASSUME NEW b \in Buckets
      PROVE  tokens'[b] = Refilled(b) - k /\ tokens'[b] \in 0 .. Capacity[b] /\ last'[b] = clock
  BY <1>1, <1>2, <1>4, <1>5
<1>7. BucketsTypeOK'
  <2>1. tokens' \in [Buckets -> Int] /\ last' \in [Buckets -> Int]
    BY <1>1, <1>2, <1>4, <1>5 DEF BucketsTypeOK
  <2>2. drawer' \in [Drawers -> DrawerStates]
    BY <1>2 DEF BucketsTypeOK, DrawerStates
  <2> QED BY <1>2, <1>5, <1>6, <2>1, <2>2 DEF BucketsTypeOK
<1>8. ASSUME NEW b \in Buckets
      PROVE  drawn' + Refilled(b)' <= Capacity[b] + Inflow(b)'
  <2>1. Refilled(b)' = Refilled(b) - k
    BY <1>2, <1>6, <1>7, JustRefilled
  <2>2. Inflow(b)' = Inflow(b) /\ drawn + Refilled(b) <= Capacity[b] + Inflow(b)
    BY <1>2 DEF Inflow, DrawnAndLeft
  <2> QED BY <1>1, <1>4, <1>5, <2>1, <2>2
<1> QED BY <1>7, <1>8 DEF DrawnAndLeft

(* available_tokens refills one bucket, which changes nothing of what it offers. *)
LEMMA LookStep ==
    ASSUME BucketsIInv, NEW d \in Drawers, LookSustained(d) \/ LookBurst(d)
    PROVE  BucketsIInv'
<1> USE DEF BucketsIInv
<1>1. PICK c \in Buckets, at \in DrawerStates :
         /\ tokens' = [tokens EXCEPT ![c] = Refilled(c)]
         /\ last' = [last EXCEPT ![c] = clock]
         /\ drawer' = [drawer EXCEPT ![d] = at]
         /\ UNCHANGED <<clock, mark, drawn>>
  BY DEF LookSustained, LookBurst, SeenAt, Buckets, DrawerStates
<1>2. \A b \in Buckets : Refilled(b) \in 0 .. Capacity[b] /\ Capacity[b] \in Nat
  BY RefillIsTyped
<1>3. BucketsTypeOK'
  BY <1>1, <1>2 DEF BucketsTypeOK
<1>4. \A b \in Buckets : Refilled(b)' = Refilled(b)
  <2> TAKE b \in Buckets
  <2>1. CASE b = c
    BY <1>1, <1>3, <2>1, JustRefilled DEF BucketsTypeOK
  <2>2. CASE b # c
    BY <1>1, <2>2, Untouched DEF BucketsTypeOK
  <2> QED BY <2>1, <2>2
<1> QED BY <1>1, <1>3, <1>4 DEF DrawnAndLeft, Inflow

(* From a mark that is now, nothing is drawn and nothing has flowed in. *)
LEMMA MarkNow ==
    ASSUME BucketsTypeOK', mark' = clock', drawn' = 0
    PROVE  DrawnAndLeft'
<1> SUFFICES ASSUME NEW b \in Buckets
             PROVE  drawn' + Refilled(b)' <= Capacity[b] + Inflow(b)'
  BY DEF DrawnAndLeft
<1>1. /\ Capacity[b] \in Nat \ {0} /\ PerTick[b] \in Nat
      /\ tokens'[b] \in 0 .. Capacity[b] /\ last'[b] \in 0 .. clock' /\ clock' \in Nat
  BY CapacityAssumption, PerTickAssumption DEF BucketsTypeOK
<1>2. (clock' - last'[b]) * PerTick[b] \in Nat
  <2>1. clock' - last'[b] \in Nat
    BY <1>1
  <2> QED BY <1>1, <2>1
<1>3. Refilled(b)' \in 0 .. Capacity[b]
  BY <1>1, <1>2 DEF Refilled, Least
<1>4. Inflow(b)' = 0
  BY <1>1 DEF Inflow
<1> QED BY <1>1, <1>3, <1>4

(* reset fills both buckets. *)
LEMMA ResetStep ==
    ASSUME BucketsIInv, NEW d \in Drawers, ResetSustained(d) \/ ResetBurst(d)
    PROVE  BucketsIInv'
<1>1. PICK c \in Buckets, at \in DrawerStates :
         /\ tokens' = [tokens EXCEPT ![c] = Capacity[c]]
         /\ last' = [last EXCEPT ![c] = clock]
         /\ drawer' = [drawer EXCEPT ![d] = at]
         /\ mark' = clock /\ drawn' = 0 /\ clock' = clock
  BY DEF ResetSustained, ResetBurst, Buckets, DrawerStates
<1>2. BucketsTypeOK'
  <2>1. \A b \in Buckets : Capacity[b] \in Nat /\ Capacity[b] \in 0 .. Capacity[b]
    BY CapacityAssumption
  <2>2. tokens' \in [Buckets -> Int] /\ last' \in [Buckets -> Int] /\ drawer' \in [Drawers -> DrawerStates]
    BY <1>1, <2>1 DEF BucketsIInv, BucketsTypeOK
  <2>3. \A b \in Buckets : tokens'[b] \in 0 .. Capacity[b] /\ last'[b] \in 0 .. clock
    BY <1>1, <2>1 DEF BucketsIInv, BucketsTypeOK
  <2> QED BY <1>1, <2>2, <2>3 DEF BucketsIInv, BucketsTypeOK
<1> QED BY <1>1, <1>2, MarkNow DEF BucketsIInv

(* One tick more lets one rate more flow in. *)
LEMMA OneMore ==
    ASSUME NEW m \in Int, NEW p \in Nat
    PROVE  (m + 1) * p = m * p + p /\ p * (m + 1) = p * m + p /\ m * p \in Int
OBVIOUS

(* In a tick no more flows in than the bucket offers more. *)
LEMMA TickStep ==
    ASSUME BucketsIInv, ClockTicks
    PROVE  BucketsIInv'
<1> USE DEF BucketsIInv
<1>1. clock' = clock + 1 /\ UNCHANGED <<tokens, last, drawer, mark, drawn>>
  BY DEF ClockTicks
<1>2. BucketsTypeOK'
  BY <1>1 DEF BucketsTypeOK
<1>3. ASSUME NEW b \in Buckets
      PROVE  drawn' + Refilled(b)' <= Capacity[b] + Inflow(b)'
  <2> DEFINE p == PerTick[b]
             m == clock - last[b]
  <2>1. /\ Capacity[b] \in Nat \ {0} /\ p \in Nat /\ tokens[b] \in 0 .. Capacity[b]
        /\ m \in Nat /\ Refilled(b) \in 0 .. Capacity[b] /\ Inflow(b) \in Nat /\ drawn \in Nat
        /\ clock \in Nat /\ mark \in Int /\ last[b] \in Int
    BY RefillIsTyped DEF BucketsTypeOK
  <2>2. Refilled(b) = Least(Capacity[b], tokens[b] + m * p)
    <3>1. CASE clock > last[b]
      BY <3>1 DEF Refilled
    <3>2. CASE ~(clock > last[b])
      <4>1. m = 0 /\ m * p = 0
        BY <2>1, <3>2
      <4> QED BY <2>1, <3>2, <4>1 DEF Refilled, Least
    <3> QED BY <3>1, <3>2
  <2>3. Refilled(b)' = Least(Capacity[b], tokens[b] + (m + 1) * p)
    <3>1. clock' - last'[b] = m + 1 /\ clock' > last'[b] /\ tokens'[b] = tokens[b]
      BY <1>1, <2>1
    <3>2. Refilled(b)' = Least(Capacity[b], tokens'[b] + (clock' - last'[b]) * PerTick[b])
      BY <3>1 DEF Refilled
    <3> QED BY <3>1, <3>2
  <2>4. Inflow(b)' = Inflow(b) + p
    <3>1. clock' - mark' = (clock - mark) + 1
      BY <1>1, <2>1
    <3>2. p * ((clock - mark) + 1) = p * (clock - mark) + p
      BY <2>1, OneMore
    <3>3. Inflow(b)' = p * (clock' - mark') /\ Inflow(b) = p * (clock - mark)
      BY DEF Inflow
    <3> QED BY <3>1, <3>2, <3>3
  <2> HIDE DEF p, m
  <2>5. Refilled(b)' <= Refilled(b) + p /\ Refilled(b)' \in Int
    BY <2>1, <2>2, <2>3, OneMore DEF Least
  <2>6. drawn + Refilled(b) <= Capacity[b] + Inflow(b)
    BY DEF DrawnAndLeft
  <2> QED BY <1>1, <2>1, <2>4, <2>5, <2>6
<1> QED BY <1>2, <1>3 DEF DrawnAndLeft

(* For any buckets and rates, any number of threads and any calls: the types *)
(* hold, and from any instant and any reset on no more is let through than   *)
(* either bucket held plus what flowed into it (telemetry/circuit.py).       *)
THEOREM RateIsKept == BucketsSpec => []BucketsInv
<1>1. BucketsIInv /\ [BucketsNext]_bucketVars => BucketsIInv'
  <2> SUFFICES ASSUME BucketsIInv, [BucketsNext]_bucketVars PROVE BucketsIInv'
    OBVIOUS
  <2>1. ASSUME NEW d \in Drawers, TakeBurstLock(d)
        PROVE  BucketsIInv'
    BY <2>1 DEF TakeBurstLock, BucketsIInv, BucketsTypeOK, DrawnAndLeft, Refilled, Least, Inflow,
                DrawerStates
  <2>2. CASE Observe
    <3>1. BucketsTypeOK' /\ mark' = clock' /\ drawn' = 0
      BY <2>2 DEF Observe, BucketsIInv, BucketsTypeOK
    <3> QED BY <3>1, MarkNow DEF BucketsIInv
  <2>3. CASE UNCHANGED bucketVars
    BY <2>3 DEF bucketVars, BucketsIInv, BucketsTypeOK, DrawnAndLeft, Refilled, Least, Inflow
  <2> QED BY <2>1, <2>2, <2>3, AcquireStep, LookStep, ResetStep, TickStep DEF BucketsNext
<1> QED BY BucketsInitially, BucketsImplied, <1>1, PTL DEF BucketsSpec

-----------------------------------------------------------------------------
(***************************************************************************)
(* RedisLimiter.                                                           *)
(***************************************************************************)

LimiterPlaces == {"idle", "script", "lock", "count", "add", "release", "delete"}

LimiterTypes ==
    /\ scripts \in BOOLEAN
    /\ now \in Nat /\ newest \in Nat
    /\ hits \subseteq [no : Nat, at : Nat] /\ IsFiniteSet(hits)
    /\ admitted \subseteq [no : Nat, at : Nat, late : BOOLEAN] /\ IsFiniteSet(admitted)
    /\ caller \in [RateCallers -> [pc : LimiterPlaces, stamp : Nat]]
    /\ lockLost \in BOOLEAN

(* Only a limiter with scripts runs them, and only one without takes the lock. *)
WayOfDeciding ==
    \A c \in RateCallers :
        /\ CallerAt(c, "script") => scripts
        /\ caller[c].pc \in {"lock", "count", "add", "release", "delete"} => ~scripts

(* As long as no lock was lost, whoever is past it holds it. *)
HolderDecides ==
    ~lockLost =>
        \A c \in RateCallers : caller[c].pc \in {"count", "add", "release", "delete"} => lock = c

(* Admissions are numbered, and decided with no later time than the latest. *)
AdmissionsAreNumbered ==
    /\ \A h \in admitted : h.at <= newest /\ h.no < Cardinality(admitted)
    /\ \A g, h \in admitted : g.no = h.no => g = h

(* What a decision with the latest time still has to see is in the sorted set. *)
RecentAreKept ==
    \A h \in admitted : h.at > newest - SlidingWindow => [no |-> h.no, at |-> h.at] \in hits

(* Who is about to add has decided, and as long as no lock was lost there is room. *)
RoomToAdd ==
    \A c \in RateCallers : CallerAt(c, "add") =>
        /\ caller[c].stamp <= newest
        /\ ~lockLost => Cardinality(hits) < Limit

InWindow(admissions, t) == {h \in admissions : ~h.late /\ t - SlidingWindow < h.at /\ h.at <= t}

(* The inductive invariant of the limiter. *)
LimiterIInv ==
    /\ LimiterTypes
    /\ WayOfDeciding
    /\ HolderDecides
    /\ AdmissionsAreNumbered
    /\ RecentAreKept
    /\ RoomToAdd
    /\ WindowLimit

(* The invariant holds at the start. *)
LEMMA LimiterInitially == LimiterInit => LimiterIInv
<1> SUFFICES ASSUME LimiterInit PROVE LimiterIInv
  OBVIOUS
<1> USE DEF LimiterInit
<1>1. LimiterTypes
  BY FS_EmptySet DEF LimiterTypes, LimiterPlaces, Away
<1>2. WayOfDeciding /\ HolderDecides /\ AdmissionsAreNumbered /\ RecentAreKept /\ RoomToAdd
  BY DEF WayOfDeciding, HolderDecides, AdmissionsAreNumbered, RecentAreKept, RoomToAdd, CallerAt, Away
<1>3. WindowLimit
  <2>1. \A t \in 0 .. MaxNow :
           {h \in admitted : ~h.late /\ t - SlidingWindow < h.at /\ h.at <= t} = {}
    OBVIOUS
  <2> QED BY <2>1, FS_EmptySet, LimitsAssumption DEF WindowLimit
<1> QED BY <1>1, <1>2, <1>3 DEF LimiterIInv

(* The invariant implies what the run checks. *)
LEMMA LimiterImplied == LimiterIInv => LimiterInv
<1> SUFFICES ASSUME LimiterIInv, ~lockLost
             PROVE  Cardinality({c \in RateCallers : caller[c].pc \in {"count", "add", "delete"}}) <= 1
  BY DEF LimiterIInv, LimiterInv, OneDecides
<1> DEFINE D == {c \in RateCallers : caller[c].pc \in {"count", "add", "delete"}}
<1>1. D \in SUBSET {lock}
  BY DEF LimiterIInv, HolderDecides
<1>2. IsFiniteSet({lock}) /\ Cardinality({lock}) = 1
  BY FS_Singleton
<1> HIDE DEF D
<1>3. Cardinality(D) <= Cardinality({lock})
  BY <1>1, <1>2, FS_Subset
<1> QED BY <1>2, <1>3 DEF D

(* What the sorted set shows with the time t of an admission that is not late: it *)
(* sees every admission of a window that the new one falls into, and there was    *)
(* room beside them.                                                              *)
LEMMA AdmissionFits ==
    ASSUME LimiterTypes, AdmissionsAreNumbered, RecentAreKept,
           NEW t \in Nat, newest <= t,
           NEW kept, kept \subseteq hits, Cardinality(kept) < Limit,
           \A h \in hits : h.at > t - SlidingWindow => h \in kept,
           NEW u \in 0 .. MaxNow, t <= u, u - SlidingWindow < t
    PROVE  Cardinality(InWindow(admitted, u)) < Limit
<1> DEFINE W == InWindow(admitted, u)
           f == [h \in W |-> [no |-> h.no, at |-> h.at]]
<1>1. IsFiniteSet(kept)
  BY FS_Subset DEF LimiterTypes
<1>2. ASSUME NEW h \in W
      PROVE  [no |-> h.no, at |-> h.at] \in kept
  <2>1. h \in admitted /\ h.at \in Nat /\ u - SlidingWindow < h.at /\ newest \in Nat /\ u \in Int
    BY MaxNowAssumption DEF LimiterTypes, InWindow
  <2>2. h.at > t - SlidingWindow /\ h.at > newest - SlidingWindow
    BY <2>1, LimitsAssumption
  <2>3. [no |-> h.no, at |-> h.at] \in hits
    BY <2>1, <2>2 DEF RecentAreKept
  <2> QED BY <2>2, <2>3
<1>3. f \in Injection(W, kept)
  <2>1. f \in [W -> kept]
    BY <1>2
  <2>2. ASSUME NEW g \in W, NEW h \in W, f[g] = f[h]
        PROVE  g = h
    BY <2>2 DEF InWindow, AdmissionsAreNumbered
  <2> QED BY <2>1, <2>2 DEF Injection, IsInjective
<1> HIDE DEF W, f
<1>4. /\ Cardinality(W) <= Cardinality(kept)
      /\ IsFiniteSet(W)
  BY <1>1, <1>3, FS_Injection
<1>5. Cardinality(W) \in Nat /\ Cardinality(kept) \in Nat
  BY <1>1, <1>4, FS_CardinalityType
<1> QED BY <1>4, <1>5, LimitsAssumption DEF W

(* One admission more, with the time t of its decision. *)
LEMMA AdmitOne ==
    ASSUME LimiterTypes, AdmissionsAreNumbered, RecentAreKept, WindowLimit,
           NEW t \in Nat,
           NEW kept, kept \subseteq hits,
           \A h \in hits : h.at > t - SlidingWindow => h \in kept,
           newest <= t /\ (scripts \/ ~lockLost) => Cardinality(kept) < Limit,
           hits' = kept \cup {Hit(t)}, Admit(Hit(t)),
           newest' = IF t > newest THEN t ELSE newest,
           UNCHANGED <<scripts, lockLost>>
    PROVE  /\ hits' \subseteq [no : Nat, at : Nat] /\ IsFiniteSet(hits')
           /\ admitted' \subseteq [no : Nat, at : Nat, late : BOOLEAN] /\ IsFiniteSet(admitted')
           /\ newest' \in Nat
           /\ AdmissionsAreNumbered' /\ RecentAreKept' /\ WindowLimit'
<1> DEFINE n == Cardinality(admitted)
           a == [no |-> n, at |-> t, late |-> t < newest]
<1>1. n \in Nat /\ newest \in Nat
  BY FS_CardinalityType DEF LimiterTypes
<1>2. Hit(t) = [no |-> n, at |-> t] /\ admitted' = admitted \cup {a}
  BY DEF Hit, Admit
<1>3. newest' \in Nat /\ newest' >= newest /\ newest' >= t /\ (t < newest => newest' = newest)
  BY <1>1
<1>4. hits' \subseteq [no : Nat, at : Nat] /\ IsFiniteSet(hits')
  <2>1. IsFiniteSet(kept)
    BY FS_Subset DEF LimiterTypes
  <2>2. IsFiniteSet(kept \cup {Hit(t)})
    BY <2>1, FS_AddElement
  <2>3. Hit(t) \in [no : Nat, at : Nat]
    BY <1>1, <1>2
  <2>4. kept \cup {Hit(t)} \subseteq [no : Nat, at : Nat]
    BY <2>3 DEF LimiterTypes
  <2> QED BY <2>2, <2>4
<1>5. a \in [no : Nat, at : Nat, late : BOOLEAN] /\ a \notin admitted
  BY <1>1 DEF AdmissionsAreNumbered, LimiterTypes
<1> HIDE DEF n
<1>6. IsFiniteSet(admitted') /\ Cardinality(admitted') = n + 1
  BY <1>2, <1>5, FS_AddElement DEF LimiterTypes, n
<1>7. \A h \in admitted : h.no \in Nat /\ h.at \in Nat /\ h.at <= newest /\ h.no < n
  BY DEF LimiterTypes, AdmissionsAreNumbered, n
<1>8. a.no = n /\ a.at = t /\ (a.late <=> t < newest)
  OBVIOUS
<1> HIDE DEF a
<1>9. AdmissionsAreNumbered'
  <2>1. ASSUME NEW h \in admitted'
        PROVE  h.at <= newest' /\ h.no < n + 1
    BY <1>1, <1>2, <1>3, <1>7, <1>8
  <2>2. ASSUME NEW g \in admitted', NEW h \in admitted', g.no = h.no
        PROVE  g = h
    BY <1>1, <1>2, <1>7, <1>8, <2>2 DEF AdmissionsAreNumbered
  <2> QED BY <1>6, <2>1, <2>2 DEF AdmissionsAreNumbered
<1>10. RecentAreKept'
  <2> SUFFICES ASSUME NEW h \in admitted', h.at > newest' - SlidingWindow
               PROVE  [no |-> h.no, at |-> h.at] \in hits'
    BY DEF RecentAreKept
  <2>1. CASE h = a
    BY <1>2, <1>8, <2>1
  <2>2. CASE h \in admitted
    <3>1. h.at > newest - SlidingWindow /\ h.at > t - SlidingWindow
      BY <1>1, <1>3, <1>7, <2>2, LimitsAssumption
    <3>2. [no |-> h.no, at |-> h.at] \in hits
      BY <2>2, <3>1 DEF RecentAreKept
    <3> QED BY <3>1, <3>2
  <2> QED BY <1>2, <2>1, <2>2
<1>11. WindowLimit'
  <2> SUFFICES ASSUME scripts \/ ~lockLost, NEW u \in 0 .. MaxNow
               PROVE  Cardinality(InWindow(admitted', u)) <= Limit
    BY DEF WindowLimit, InWindow
  <2>1. u \in Nat /\ SlidingWindow \in Nat \ {0} /\ Limit \in Nat \ {0}
    BY MaxNowAssumption, LimitsAssumption
  <2>2. IsFiniteSet(InWindow(admitted, u)) /\ Cardinality(InWindow(admitted, u)) \in Nat /\ Cardinality(InWindow(admitted, u)) <= Limit
    <3>1. IsFiniteSet(InWindow(admitted, u))
      BY FS_Subset DEF LimiterTypes, InWindow
    <3>2. Cardinality(InWindow(admitted, u)) <= Limit
      BY DEF WindowLimit, InWindow
    <3> QED BY <3>1, <3>2, FS_CardinalityType
  <2>3. CASE t >= newest /\ t <= u /\ u - SlidingWindow < t
    <3>1. Cardinality(kept) < Limit
      BY <1>1, <2>3
    <3>2. Cardinality(InWindow(admitted, u)) < Limit
      BY <1>1, <2>3, <3>1, AdmissionFits
    <3>3. InWindow(admitted', u) = InWindow(admitted, u) \cup {a}
      <4>1. ~a.late /\ u - SlidingWindow < a.at /\ a.at <= u
        BY <1>1, <1>8, <2>1, <2>3
      <4> QED BY <1>2, <4>1 DEF InWindow
    <3>4. Cardinality(InWindow(admitted', u)) <= Cardinality(InWindow(admitted, u)) + 1
      BY <2>2, <3>3, FS_AddElement
    <3>5. Cardinality(InWindow(admitted', u)) \in Nat
      BY <2>2, <3>3, FS_AddElement, FS_CardinalityType
    <3> QED BY <2>1, <2>2, <3>2, <3>4, <3>5
  <2>4. CASE ~(t >= newest /\ t <= u /\ u - SlidingWindow < t)
    <3>1. InWindow(admitted', u) = InWindow(admitted, u)
      <4>1. ~(~a.late /\ u - SlidingWindow < a.at /\ a.at <= u)
        BY <1>1, <1>8, <2>1, <2>4
      <4> QED BY <1>2, <4>1 DEF InWindow
    <3> QED BY <2>2, <3>1
  <2> QED BY <2>3, <2>4
<1> QED BY <1>3, <1>4, <1>5, <1>6, <1>9, <1>10, <1>11, <1>2 DEF LimiterTypes

(* Looking without admitting: what is out of the window of t is removed. *)
LEMMA OnlyLook ==
    ASSUME LimiterTypes, AdmissionsAreNumbered, RecentAreKept, WindowLimit,
           NEW t \in Nat,
           hits' = Recent(t), admitted' = admitted,
           newest' = IF t > newest THEN t ELSE newest,
           UNCHANGED <<scripts, lockLost>>
    PROVE  /\ hits' \subseteq [no : Nat, at : Nat] /\ IsFiniteSet(hits')
           /\ newest' \in Nat /\ t <= newest'
           /\ AdmissionsAreNumbered' /\ RecentAreKept' /\ WindowLimit'
<1>1. hits' \subseteq hits
  BY DEF Recent
<1>2. hits' \subseteq [no : Nat, at : Nat] /\ IsFiniteSet(hits')
  BY <1>1, FS_Subset DEF LimiterTypes
<1>3. newest \in Nat /\ newest' \in Nat /\ newest' >= newest /\ newest' >= t
  BY DEF LimiterTypes
<1>4. \A h \in admitted : h.at \in Nat /\ h.no \in Nat
  BY DEF LimiterTypes
<1>5. AdmissionsAreNumbered'
  BY <1>3, <1>4 DEF AdmissionsAreNumbered
<1>6. RecentAreKept'
  <2> SUFFICES ASSUME NEW h \in admitted, h.at > newest' - SlidingWindow
               PROVE  [no |-> h.no, at |-> h.at] \in hits'
    BY DEF RecentAreKept
  <2>1. h.at > newest - SlidingWindow /\ h.at > t - SlidingWindow
    BY <1>3, <1>4, LimitsAssumption
  <2> QED BY <2>1 DEF RecentAreKept, Recent
<1>7. WindowLimit'
  BY DEF WindowLimit
<1> QED BY <1>2, <1>3, <1>5, <1>6, <1>7

(* acquire in one script. *)
LEMMA ScriptStep ==
    ASSUME LimiterIInv, NEW c \in RateCallers, AcquireByScript(c)
    PROVE  LimiterIInv'
<1> USE DEF LimiterIInv
<1> DEFINE t == caller[c].stamp
<1>1. /\ caller[c].pc = "script" /\ scripts /\ t \in Nat
      /\ caller' = [caller EXCEPT ![c] = Away]
      /\ newest' = IF t > newest THEN t ELSE newest
      /\ UNCHANGED <<scripts, now, lock, lockUntil, lockLost>>
  BY DEF AcquireByScript, CallerAt, LimiterTypes, WayOfDeciding, Decides
<1>2. Recent(t) \subseteq hits /\ \A h \in hits : h.at > t - SlidingWindow => h \in Recent(t)
  BY DEF Recent
<1>3. /\ hits' \subseteq [no : Nat, at : Nat] /\ IsFiniteSet(hits')
      /\ admitted' \subseteq [no : Nat, at : Nat, late : BOOLEAN] /\ IsFiniteSet(admitted')
      /\ newest' \in Nat
      /\ AdmissionsAreNumbered' /\ RecentAreKept' /\ WindowLimit'
  <2>1. CASE Room(Recent(t))
    <3>1. hits' = Recent(t) \cup {Hit(t)} /\ Admit(Hit(t))
      BY <2>1 DEF AcquireByScript
    <3> HIDE DEF t
    <3> QED BY <1>1, <1>2, <2>1, <3>1, AdmitOne DEF Room
  <2>2. CASE ~Room(Recent(t))
    <3>1. hits' = Recent(t) /\ admitted' = admitted
      BY <2>2 DEF AcquireByScript
    <3> HIDE DEF t
    <3> QED BY <1>1, <3>1, OnlyLook DEF LimiterTypes
  <2> QED BY <2>1, <2>2
<1>4. LimiterTypes'
  BY <1>1, <1>3 DEF LimiterTypes, LimiterPlaces, Away
<1>5. WayOfDeciding' /\ HolderDecides' /\ RoomToAdd'
  BY <1>1 DEF LimiterTypes, WayOfDeciding, HolderDecides, RoomToAdd, CallerAt, Away
<1> QED BY <1>3, <1>4, <1>5

(* acquire without scripts: ZCARD. *)
LEMMA CountStep ==
    ASSUME LimiterIInv, NEW c \in RateCallers, Count(c)
    PROVE  LimiterIInv'
<1> USE DEF LimiterIInv
<1> DEFINE t == caller[c].stamp
           next == IF Room(Recent(t)) THEN "add" ELSE "release"
<1>1. /\ caller[c].pc = "count" /\ t \in Nat
      /\ caller' = [caller EXCEPT ![c].pc = next]
      /\ hits' = Recent(t) /\ admitted' = admitted
      /\ newest' = IF t > newest THEN t ELSE newest
      /\ UNCHANGED <<scripts, now, lock, lockUntil, lockLost>>
  BY DEF Count, CallerAt, LimiterTypes, Decides, Goes
<1>2. /\ hits' \subseteq [no : Nat, at : Nat] /\ IsFiniteSet(hits')
      /\ newest' \in Nat /\ t <= newest'
      /\ AdmissionsAreNumbered' /\ RecentAreKept' /\ WindowLimit'
  <2> HIDE DEF t
  <2> QED BY <1>1, OnlyLook
<1>3. /\ caller'[c].pc = next /\ caller'[c].stamp = t /\ next \in {"add", "release"}
      /\ \A d \in RateCallers \ {c} : caller'[d] = caller[d]
  BY <1>1 DEF LimiterTypes
<1>4. LimiterTypes'
  BY <1>1, <1>2, <1>3 DEF LimiterTypes, LimiterPlaces
<1>5. WayOfDeciding' /\ HolderDecides'
  BY <1>1, <1>3 DEF WayOfDeciding, HolderDecides, CallerAt
<1>6. RoomToAdd'
  <2> SUFFICES ASSUME NEW d \in RateCallers, caller'[d].pc = "add"
               PROVE  caller'[d].stamp <= newest' /\ (~lockLost' => Cardinality(hits') < Limit)
    BY DEF RoomToAdd, CallerAt
  <2>1. CASE d = c
    <3>1. next = "add"
      BY <1>3, <2>1
    <3>2. Room(Recent(t))
      BY <3>1
    <3> QED BY <1>1, <1>2, <1>3, <2>1, <3>2 DEF Room
  <2>2. CASE d # c
    <3>1. caller[d].pc = "add" /\ caller'[d] = caller[d]
      BY <1>3, <2>2
    <3>2. lockLost
      BY <1>1, <2>2, <3>1 DEF HolderDecides
    <3>3. caller[d].stamp <= newest /\ caller[d].stamp \in Nat /\ newest \in Nat
      BY <3>1 DEF RoomToAdd, CallerAt, LimiterTypes
    <3> QED BY <1>1, <3>1, <3>2, <3>3
  <2> QED BY <2>1, <2>2
<1> QED BY <1>1, <1>2, <1>4, <1>5, <1>6

(* acquire without scripts: ZADD. *)
LEMMA AddStep ==
    ASSUME LimiterIInv, NEW c \in RateCallers, Add(c)
    PROVE  LimiterIInv'
<1> USE DEF LimiterIInv
<1> DEFINE t == caller[c].stamp
<1>1. /\ caller[c].pc = "add" /\ t \in Nat /\ ~scripts /\ t <= newest /\ newest \in Nat
      /\ caller' = [caller EXCEPT ![c].pc = "release"]
      /\ hits' = hits \cup {Hit(t)} /\ Admit(Hit(t))
      /\ UNCHANGED <<scripts, now, lock, lockUntil, newest, lockLost>>
      /\ ~lockLost => Cardinality(hits) < Limit
  BY DEF Add, CallerAt, LimiterTypes, Goes, RoomToAdd, WayOfDeciding
<1>2. newest' = IF t > newest THEN t ELSE newest
  BY <1>1
<1>3. /\ hits' \subseteq [no : Nat, at : Nat] /\ IsFiniteSet(hits')
      /\ admitted' \subseteq [no : Nat, at : Nat, late : BOOLEAN] /\ IsFiniteSet(admitted')
      /\ AdmissionsAreNumbered' /\ RecentAreKept' /\ WindowLimit'
  <2> HIDE DEF t
  <2>1. hits \subseteq hits /\ \A h \in hits : h.at > t - SlidingWindow => h \in hits
    OBVIOUS
  <2> QED BY <1>1, <1>2, <2>1, AdmitOne
<1>4. LimiterTypes'
  BY <1>1, <1>3 DEF LimiterTypes, LimiterPlaces
<1>5. WayOfDeciding' /\ HolderDecides'
  BY <1>1 DEF WayOfDeciding, HolderDecides, CallerAt, LimiterTypes
<1>6. RoomToAdd'
  <2> SUFFICES ASSUME NEW d \in RateCallers, caller'[d].pc = "add"
               PROVE  caller'[d].stamp <= newest' /\ (~lockLost' => Cardinality(hits') < Limit)
    BY DEF RoomToAdd, CallerAt
  <2>1. d # c /\ caller[d].pc = "add" /\ caller'[d] = caller[d]
    BY <1>1 DEF LimiterTypes
  <2>2. lockLost
    BY <1>1, <2>1 DEF HolderDecides
  <2> QED BY <1>1, <2>1, <2>2 DEF RoomToAdd, CallerAt
<1> QED BY <1>3, <1>4, <1>5, <1>6

(* The steps that touch neither the sorted set nor what was admitted. *)
LEMMA OtherSteps ==
    ASSUME LimiterIInv, UNCHANGED <<scripts, hits, newest, admitted>>,
           now' \in Nat, lockLost' \in BOOLEAN, lockLost => lockLost',
           caller' \in [RateCallers -> [pc : LimiterPlaces, stamp : Nat]],
           \A c \in RateCallers : caller'[c].pc = "add" => caller'[c] = caller[c],
           WayOfDeciding', HolderDecides'
    PROVE  LimiterIInv'
<1> USE DEF LimiterIInv
<1>1. LimiterTypes'
  BY DEF LimiterTypes
<1>2. AdmissionsAreNumbered' /\ RecentAreKept'
  BY DEF AdmissionsAreNumbered, RecentAreKept
<1>3. WindowLimit'
  BY DEF WindowLimit, LimiterTypes
<1>4. RoomToAdd'
  BY DEF RoomToAdd, CallerAt, LimiterTypes
<1> QED BY <1>1, <1>2, <1>3, <1>4

(* acquire without scripts: the lock is taken, released, and lost. *)
LEMMA LockSteps ==
    ASSUME LimiterIInv, NEW c \in RateCallers,
           Begin(c) \/ TakeLock(c) \/ GiveUp(c) \/ LookAtLock(c) \/ DeleteLock(c)
    PROVE  LimiterIInv'
<1> USE DEF LimiterIInv
<1>1. /\ UNCHANGED <<scripts, hits, newest, admitted, now, lockLost>>
      /\ now \in Nat /\ lockLost \in BOOLEAN
      /\ caller[c] \in [pc : LimiterPlaces, stamp : Nat]
  BY DEF Begin, TakeLock, GiveUp, LookAtLock, DeleteLock, LimiterTypes
<1>2. CASE Begin(c)
  <2>1. caller' = [caller EXCEPT ![c] = [pc |-> IF scripts THEN "script" ELSE "lock", stamp |-> now]]
        /\ lock' = lock
    BY <1>2 DEF Begin
  <2>2. caller' \in [RateCallers -> [pc : LimiterPlaces, stamp : Nat]]
    BY <1>1, <2>1 DEF LimiterTypes, LimiterPlaces
  <2>3. WayOfDeciding' /\ HolderDecides'
    BY <1>1, <2>1 DEF WayOfDeciding, HolderDecides, CallerAt, LimiterTypes
  <2> QED BY <1>1, <2>1, <2>2, <2>3, OtherSteps DEF LimiterTypes
<1>3. CASE TakeLock(c)
  <2>1. /\ caller[c].pc = "lock" /\ lock = Free /\ lock' = c
        /\ caller' = [caller EXCEPT ![c].pc = "count"]
    BY <1>3 DEF TakeLock, CallerAt, Goes
  <2>2. caller' \in [RateCallers -> [pc : LimiterPlaces, stamp : Nat]]
    BY <1>1, <2>1 DEF LimiterTypes, LimiterPlaces
  <2>3. WayOfDeciding' /\ HolderDecides'
    BY <1>1, <2>1, TokenAssumption DEF WayOfDeciding, HolderDecides, CallerAt, LimiterTypes
  <2> QED BY <1>1, <2>1, <2>2, <2>3, OtherSteps DEF LimiterTypes
<1>4. CASE GiveUp(c)
  <2>1. caller' = [caller EXCEPT ![c] = Away] /\ lock' = lock
    BY <1>4 DEF GiveUp
  <2>2. caller' \in [RateCallers -> [pc : LimiterPlaces, stamp : Nat]]
    BY <1>1, <2>1 DEF LimiterTypes, LimiterPlaces, Away
  <2>3. WayOfDeciding' /\ HolderDecides'
    BY <1>1, <2>1 DEF WayOfDeciding, HolderDecides, CallerAt, LimiterTypes, Away
  <2> QED BY <1>1, <2>1, <2>2, <2>3, OtherSteps DEF LimiterTypes, Away
<1>5. CASE LookAtLock(c)
  <2>1. /\ caller[c].pc = "release" /\ lock' = lock
        /\ \/ lock = c /\ caller' = [caller EXCEPT ![c].pc = "delete"]
           \/ caller' = [caller EXCEPT ![c] = Away]
    BY <1>5 DEF LookAtLock, CallerAt, Goes
  <2>2. caller' \in [RateCallers -> [pc : LimiterPlaces, stamp : Nat]]
    BY <1>1, <2>1 DEF LimiterTypes, LimiterPlaces, Away
  <2>3. WayOfDeciding' /\ HolderDecides'
    BY <1>1, <2>1 DEF WayOfDeciding, HolderDecides, CallerAt, LimiterTypes, Away
  <2> QED BY <1>1, <2>1, <2>2, <2>3, OtherSteps DEF LimiterTypes, Away
<1>6. CASE DeleteLock(c)
  <2>1. /\ caller[c].pc = "delete" /\ lock' = Free
        /\ caller' = [caller EXCEPT ![c] = Away]
    BY <1>6 DEF DeleteLock, CallerAt
  <2>2. caller' \in [RateCallers -> [pc : LimiterPlaces, stamp : Nat]]
    BY <1>1, <2>1 DEF LimiterTypes, LimiterPlaces, Away
  <2>3. WayOfDeciding' /\ HolderDecides'
    BY <1>1, <2>1 DEF WayOfDeciding, HolderDecides, CallerAt, LimiterTypes, Away
  <2> QED BY <1>1, <2>1, <2>2, <2>3, OtherSteps DEF LimiterTypes, Away
<1> QED BY <1>2, <1>3, <1>4, <1>5, <1>6

(* A second passes: keys expire. *)
LEMMA SecondStep ==
    ASSUME LimiterIInv, Second
    PROVE  LimiterIInv'
<1>1. /\ now' = now + 1 /\ UNCHANGED <<scripts, hits, newest, admitted, caller>>
      /\ \/ lockLost' = TRUE
         \/ lockLost' = lockLost /\ lock' = lock
  BY DEF Second
<1>2. now' \in Nat
  BY <1>1 DEF LimiterIInv, LimiterTypes
<1>4. lockLost' \in BOOLEAN /\ (lockLost => lockLost')
  BY <1>1, Zenon DEF LimiterIInv, LimiterTypes
<1>3. WayOfDeciding' /\ HolderDecides'
  BY <1>1 DEF LimiterIInv, WayOfDeciding, HolderDecides, CallerAt
<1> QED BY <1>1, <1>2, <1>3, <1>4, OtherSteps DEF LimiterIInv, LimiterTypes

(* For any number of callers, any limit, window and lock time: no window holds    *)
(* more admissions than the limit but those of late callers, at all times with    *)
(* scripts and without them until a lock expires under its holder; until then one *)
(* caller at a time decides (infra/redis.py, RateLimiter.try_acquire).            *)
THEOREM WindowIsKept == LimiterSpec => []LimiterInv
<1>1. LimiterIInv /\ [LimiterNext]_limiterVars => LimiterIInv'
  <2> SUFFICES ASSUME LimiterIInv, [LimiterNext]_limiterVars PROVE LimiterIInv'
    OBVIOUS
  <2>1. CASE UNCHANGED limiterVars
    <3>1. WayOfDeciding' /\ HolderDecides'
      BY <2>1 DEF limiterVars, LimiterIInv, WayOfDeciding, HolderDecides, CallerAt
    <3> QED BY <2>1, <3>1, OtherSteps DEF limiterVars, LimiterIInv, LimiterTypes
  <2> QED BY <2>1, ScriptStep, CountStep, AddStep, LockSteps, SecondStep DEF LimiterNext
<1> QED BY LimiterInitially, LimiterImplied, <1>1, PTL DEF LimiterSpec

-----------------------------------------------------------------------------
(***************************************************************************)
(* Sums.  SumOf counts units, so that what is true of sums follows from    *)
(* the cardinality of sets.                                                *)
(***************************************************************************)

(* The units of a function on a finite set are finitely many. *)
LEMMA UnitsAreFinite ==
    ASSUME NEW S, IsFiniteSet(S), NEW f \in [S -> Nat]
    PROVE  IsFiniteSet(Units(f)) /\ SumOf(f) \in Nat
<1> DEFINE UnitsOf(x) == {x} \X (1 .. f[x])
           g == [x \in S |-> UnitsOf(x)]
           All == {UnitsOf(x) : x \in S}
<1>1. ASSUME NEW x \in S
      PROVE  IsFiniteSet(UnitsOf(x))
  <2>1. f[x] \in Int /\ 1 \in Int
    OBVIOUS
  <2>2. IsFiniteSet({x}) /\ IsFiniteSet(1 .. f[x])
    BY <2>1, FS_Singleton, FS_Interval
  <2> QED BY <2>2, FS_Product
<1>2. g \in Surjection(S, All)
  <2>1. g \in [S -> All] /\ \A y \in All : \E x \in S : g[x] = y
    OBVIOUS
  <2> QED BY <2>1, Zenon DEF Surjection
<1> HIDE DEF g, All
<1>3. IsFiniteSet(All)
  BY <1>2, FS_Surjection
<1>4. \A T \in All : IsFiniteSet(T)
  BY <1>1 DEF All
<1> HIDE DEF UnitsOf
<1>5. IsFiniteSet(UNION All)
  BY <1>3, <1>4, FS_UNION
<1>6. UNION All = Units(f)
  BY DEF All, UnitsOf, Units
<1> QED BY <1>5, <1>6, FS_CardinalityType DEF SumOf

(* No more of anything, no more in all. *)
LEMMA SumIsMonotone ==
    ASSUME NEW S, IsFiniteSet(S), NEW f \in [S -> Nat], NEW g \in [S -> Nat],
           \A x \in S : f[x] <= g[x]
    PROVE  SumOf(f) <= SumOf(g)
<1>1. ASSUME NEW u \in Units(f)
      PROVE  u \in Units(g)
  <2>1. PICK x \in S : u \in {x} \X (1 .. f[x])
    BY DEF Units
  <2>2. u \in {x} \X (1 .. g[x])
    BY <2>1
  <2> QED BY <2>2 DEF Units
<1> QED BY <1>1, UnitsAreFinite, FS_Subset DEF SumOf

(* The sum of nothing but zeros. *)
LEMMA SumOfZeros ==
    ASSUME NEW S, NEW f \in [S -> Nat], \A x \in S : f[x] = 0
    PROVE  SumOf(f) = 0
<1>1. Units(f) = {}
  BY DEF Units
<1> QED BY <1>1, FS_EmptySet DEF SumOf

(* What one number contributes can be taken out. *)
LEMMA SumWithout ==
    ASSUME NEW S, IsFiniteSet(S), NEW f \in [S -> Nat], NEW x \in S
    PROVE  SumOf(f) = SumOf([f EXCEPT ![x] = 0]) + f[x]
<1> DEFINE rest == [f EXCEPT ![x] = 0]
           Own == {x} \X (1 .. f[x])
<1>1. rest \in [S -> Nat] /\ rest[x] = 0 /\ \A y \in S \ {x} : rest[y] = f[y]
  OBVIOUS
<1>2. IsFiniteSet(Own) /\ Cardinality(Own) = f[x]
  <2>1. IsFiniteSet({x}) /\ Cardinality({x}) = 1
    BY FS_Singleton
  <2>2. f[x] \in Nat
    OBVIOUS
  <2>3. IsFiniteSet(1 .. f[x]) /\ Cardinality(1 .. f[x]) = f[x]
    BY <2>2, FS_Interval
  <2>4. PICK T : T = 1 .. f[x]
    OBVIOUS
  <2>5. PICK X : X = {x}
    OBVIOUS
  <2>6. IsFiniteSet(X \X T) /\ Cardinality(X \X T) = Cardinality(X) * Cardinality(T)
    BY <2>1, <2>3, <2>4, <2>5, FS_Product
  <2>7. Cardinality(X) = 1 /\ Cardinality(T) = f[x] /\ 1 * f[x] = f[x]
    BY <2>1, <2>2, <2>3, <2>4, <2>5
  <2> QED BY <2>4, <2>5, <2>6, <2>7
<1> HIDE DEF rest
<1>3. Units(f) = Units(rest) \cup Own
  <2>1. ASSUME NEW u \in Units(f)
        PROVE  u \in Units(rest) \cup Own
    <3>1. PICK y \in S : u \in {y} \X (1 .. f[y])
      BY DEF Units
    <3> QED BY <1>1, <3>1 DEF Units
  <2>2. ASSUME NEW u \in Units(rest)
        PROVE  u \in Units(f)
    <3>1. PICK y \in S : u \in {y} \X (1 .. rest[y])
      BY <1>1 DEF Units
    <3>2. y # x
      BY <1>1, <3>1
    <3> QED BY <1>1, <3>1, <3>2 DEF Units
  <2>3. ASSUME NEW u \in Own
        PROVE  u \in Units(f)
    BY <2>3 DEF Units
  <2> QED BY <2>1, <2>2, <2>3
<1>4. Units(rest) \cap Own = {}
  BY <1>1 DEF Units
<1> HIDE DEF Own
<1>5. IsFiniteSet(Units(rest))
  BY <1>1, UnitsAreFinite
<1>6. Cardinality(Units(f)) = Cardinality(Units(rest)) + Cardinality(Own) - Cardinality(Units(rest) \cap Own)
  BY <1>2, <1>3, <1>5, FS_Union
<1>7. Cardinality(Units(rest)) \in Nat
  BY <1>5, FS_CardinalityType
<1>8. SumOf(f) = SumOf(rest) + f[x]
  BY <1>2, <1>4, <1>6, <1>7, FS_EmptySet DEF SumOf
<1> QED BY <1>8 DEF rest

(* One number is changed. *)
LEMMA SumChanges ==
    ASSUME NEW S, IsFiniteSet(S), NEW f \in [S -> Nat], NEW g \in [S -> Nat], NEW x \in S,
           \A y \in S \ {x} : g[y] = f[y]
    PROVE  SumOf(g) = SumOf(f) - f[x] + g[x]
<1>1. [f EXCEPT ![x] = 0] = [g EXCEPT ![x] = 0]
  OBVIOUS
<1>2. SumOf(f) = SumOf([f EXCEPT ![x] = 0]) + f[x] /\ SumOf(g) = SumOf([g EXCEPT ![x] = 0]) + g[x]
  BY SumWithout
<1>3. [f EXCEPT ![x] = 0] \in [S -> Nat] /\ f[x] \in Nat /\ g[x] \in Nat
  OBVIOUS
<1>4. SumOf([f EXCEPT ![x] = 0]) \in Nat
  BY <1>3, UnitsAreFinite
<1> QED BY <1>1, <1>2, <1>3, <1>4

-----------------------------------------------------------------------------
(***************************************************************************)
(* TenantQuota: the grants fit the budget because the amounts that were    *)
(* counted and not found over it still fit beside them.                    *)
(***************************************************************************)

QuotaTypes ==
    /\ used \in Int
    /\ expires \in BOOLEAN /\ upset \in BOOLEAN
    /\ consumer \in [Consumers -> [pc : {"idle", "judge"}, amount : Nat, sum : Int]]
    /\ asked \in Nat /\ grants \in Nat /\ leaked \in Nat

(* Who consumes nothing holds nothing. *)
IdleHoldsNothing == \A c \in Consumers : ConsumerAt(c, "idle") => consumer[c].amount = 0

(* What a call will be granted. *)
Promise(c) == IF ConsumerAt(c, "judge") /\ ~OverBudget(c) THEN consumer[c].amount ELSE 0

Promised == SumOf([c \in Consumers |-> Promise(c)])

(* What is granted and what will be fits the budget. *)
PromisesFit == grants + Promised <= Budget

(* As long as nothing failed and nothing was refused, a key without a time to *)
(* live has somebody who will give it one.                                    *)
SomebodyIsFirst ==
    ~upset =>
        /\ leaked = 0
        /\ used > 0 /\ ~expires =>
              \E c \in Consumers : ConsumerAt(c, "judge") /\ IsFirst(c)

(* The inductive invariant of the quota. *)
QuotaIInv ==
    /\ QuotaTypes
    /\ IdleHoldsNothing
    /\ CounterAddsUp
    /\ PromisesFit
    /\ SomebodyIsFirst

(* The two sums, and how one consumer changes them. *)
LEMMA QuotaSums ==
    ASSUME QuotaTypes
    PROVE  /\ [c \in Consumers |-> consumer[c].amount] \in [Consumers -> Nat]
           /\ [c \in Consumers |-> Promise(c)] \in [Consumers -> Nat]
           /\ BeingJudged \in Nat /\ Promised \in Nat
           /\ Promised <= BeingJudged
<1>1. \A c \in Consumers : consumer[c].amount \in Nat /\ Promise(c) \in Nat /\ Promise(c) <= consumer[c].amount
  BY DEF QuotaTypes, Promise
<1> DEFINE f == [c \in Consumers |-> consumer[c].amount]
           g == [c \in Consumers |-> Promise(c)]
<1>2. f \in [Consumers -> Nat] /\ g \in [Consumers -> Nat] /\ \A c \in Consumers : g[c] <= f[c]
  BY <1>1
<1>3. BeingJudged = SumOf(f) /\ Promised = SumOf(g)
  BY DEF BeingJudged, Promised
<1> HIDE DEF f, g
<1>4. SumOf(f) \in Nat /\ SumOf(g) \in Nat /\ SumOf(g) <= SumOf(f)
  BY <1>2, ConsumersAssumption, UnitsAreFinite, SumIsMonotone
<1> QED BY <1>2, <1>3, <1>4 DEF f, g

(* A step of one consumer changes the promises by what is promised to it. *)
LEMMA QuotaSumsChange ==
    ASSUME QuotaTypes, QuotaTypes', NEW c \in Consumers,
           \A d \in Consumers \ {c} : consumer'[d] = consumer[d]
    PROVE  /\ BeingJudged' = BeingJudged - consumer[c].amount + consumer'[c].amount
           /\ Promised' = Promised - Promise(c) + Promise(c)'
<1> DEFINE f == [d \in Consumers |-> consumer[d].amount]
           g == [d \in Consumers |-> Promise(d)]
           ff == [d \in Consumers |-> consumer'[d].amount]
           gg == [d \in Consumers |-> Promise(d)']
<1>1. f \in [Consumers -> Nat] /\ g \in [Consumers -> Nat]
  BY QuotaSums
<1>2. ff \in [Consumers -> Nat] /\ gg \in [Consumers -> Nat]
  BY DEF QuotaTypes, Promise
<1>3. \A d \in Consumers \ {c} : ff[d] = f[d] /\ gg[d] = g[d]
  BY DEF Promise, ConsumerAt, OverBudget
<1>4. /\ BeingJudged = SumOf(f) /\ Promised = SumOf(g)
      /\ BeingJudged' = SumOf(ff) /\ Promised' = SumOf(gg)
  BY DEF BeingJudged, Promised
<1>5. f[c] = consumer[c].amount /\ ff[c] = consumer'[c].amount /\ g[c] = Promise(c) /\ gg[c] = Promise(c)'
  OBVIOUS
<1> HIDE DEF f, g, ff, gg
<1>6. SumOf(ff) = SumOf(f) - f[c] + ff[c] /\ SumOf(gg) = SumOf(g) - g[c] + gg[c]
  BY <1>1, <1>2, <1>3, ConsumersAssumption, SumChanges
<1> QED BY <1>4, <1>5, <1>6

(* The invariant holds at the start. *)
LEMMA QuotaInitially == QuotaInit => QuotaIInv
<1> SUFFICES ASSUME QuotaInit PROVE QuotaIInv
  OBVIOUS
<1>1. QuotaTypes
  <2>1. expires \in BOOLEAN /\ upset \in BOOLEAN
    BY Zenon DEF QuotaInit
  <2>2. consumer \in [Consumers -> [pc : {"idle", "judge"}, amount : Nat, sum : Int]]
    BY DEF QuotaInit, NoConsumption
  <2> QED BY <2>1, <2>2 DEF QuotaInit, QuotaTypes
<1>6. IdleHoldsNothing /\ SomebodyIsFirst
  BY DEF QuotaInit, IdleHoldsNothing, SomebodyIsFirst, NoConsumption
<1> DEFINE f == [c \in Consumers |-> consumer[c].amount]
           g == [c \in Consumers |-> Promise(c)]
<1>2. f \in [Consumers -> Nat] /\ g \in [Consumers -> Nat] /\ \A c \in Consumers : f[c] = 0 /\ g[c] = 0
  BY DEF QuotaInit, NoConsumption, Promise, ConsumerAt
<1>3. BeingJudged = SumOf(f) /\ Promised = SumOf(g)
  BY DEF BeingJudged, Promised
<1> HIDE DEF f, g
<1>4. SumOf(f) = 0 /\ SumOf(g) = 0
  BY <1>2, SumOfZeros
<1>5. CounterAddsUp /\ PromisesFit
  BY <1>3, <1>4, BudgetAssumption DEF CounterAddsUp, PromisesFit, QuotaInit
<1> QED BY <1>1, <1>5, <1>6 DEF QuotaIInv

(* The invariant implies what the run checks. *)
LEMMA QuotaImplied == QuotaIInv => QuotaInv
<1> SUFFICES ASSUME QuotaIInv PROVE QuotaInv
  OBVIOUS
<1>1. WithinBudget
  BY QuotaSums, BudgetAssumption DEF QuotaIInv, PromisesFit, WithinBudget, QuotaTypes
<1>2. KeyGoesAway
  <2> SUFFICES ASSUME grants > 0, ~upset, \A c \in Consumers : ConsumerAt(c, "idle")
               PROVE  expires
    BY DEF KeyGoesAway
  <2>1. used > 0
    BY QuotaSums DEF QuotaIInv, CounterAddsUp, QuotaTypes
  <2> QED BY <2>1 DEF QuotaIInv, SomebodyIsFirst, ConsumerAt
<1> QED BY <1>1, <1>2 DEF QuotaIInv, QuotaInv

(* INCRBY, and what its answer is judged to be. *)
LEMMA ConsumeStep ==
    ASSUME QuotaIInv, NEW c \in Consumers, NEW n \in Nat \ {0}, Consume(c, n)
    PROVE  QuotaIInv'
<1> USE DEF QuotaIInv
<1>1. /\ consumer[c].pc = "idle" /\ consumer[c].amount = 0
      /\ used' = used + n /\ asked' = asked + n
      /\ consumer' = [consumer EXCEPT ![c] = [pc |-> "judge", amount |-> n, sum |-> used + n]]
      /\ UNCHANGED <<expires, grants, leaked, upset>>
  BY DEF Consume, ConsumerAt, IdleHoldsNothing
<1>2. consumer'[c] = [pc |-> "judge", amount |-> n, sum |-> used + n]
      /\ \A d \in Consumers \ {c} : consumer'[d] = consumer[d]
  BY <1>1 DEF QuotaTypes
<1>3. QuotaTypes'
  BY <1>1 DEF QuotaTypes
<1>4. IdleHoldsNothing'
  BY <1>2 DEF IdleHoldsNothing, ConsumerAt
<1>5. BeingJudged' = BeingJudged - 0 + n /\ Promised' = Promised - Promise(c) + Promise(c)'
  BY <1>1, <1>2, <1>3, QuotaSumsChange
<1>6. Promise(c) = 0 /\ Promise(c)' = (IF used + n > Budget THEN 0 ELSE n)
  BY <1>1, <1>2 DEF Promise, ConsumerAt, OverBudget
<1>7. used \in Int /\ grants \in Nat /\ leaked \in Nat /\ BeingJudged \in Nat /\ Promised \in Nat /\ Promised <= BeingJudged
  BY QuotaSums DEF QuotaTypes
<1>8. CounterAddsUp'
  BY <1>1, <1>5, <1>7 DEF CounterAddsUp
<1>9. PromisesFit'
  BY <1>1, <1>5, <1>6, <1>7, BudgetAssumption DEF CounterAddsUp, PromisesFit
<1>10. SomebodyIsFirst'
  <2> SUFFICES ASSUME ~upset, ~expires
               PROVE  /\ leaked = 0
                      /\ \E d \in Consumers : ConsumerAt(d, "judge")' /\ IsFirst(d)'
    BY <1>1 DEF SomebodyIsFirst
  <2>1. CASE used > 0
    <3>1. PICK d \in Consumers : ConsumerAt(d, "judge") /\ IsFirst(d)
      BY <2>1 DEF SomebodyIsFirst
    <3>2. d # c
      BY <1>1, <3>1 DEF ConsumerAt
    <3> QED BY <1>2, <3>1, <3>2 DEF SomebodyIsFirst, ConsumerAt, IsFirst
  <2>2. CASE ~(used > 0)
    <3>1. used = 0
      BY <1>7, <2>2 DEF CounterAddsUp
    <3>2. ConsumerAt(c, "judge")' /\ IsFirst(c)'
      BY <1>2, <3>1 DEF ConsumerAt, IsFirst
    <3> QED BY <3>2 DEF SomebodyIsFirst
  <2> QED BY <2>1, <2>2
<1> QED BY <1>3, <1>4, <1>8, <1>9, <1>10

(* The answer is lost, and the amount stays counted. *)
LEMMA ConsumeLostStep ==
    ASSUME QuotaIInv, NEW c \in Consumers, NEW n \in Nat \ {0}, ConsumeLost(c, n)
    PROVE  QuotaIInv'
<1> USE DEF QuotaIInv
<1>1. /\ used' = used + n /\ asked' = asked + n /\ leaked' = leaked + n /\ upset' = TRUE
      /\ UNCHANGED <<expires, consumer, grants>>
  BY DEF ConsumeLost
<1>2. BeingJudged' = BeingJudged /\ Promised' = Promised
  BY <1>1 DEF BeingJudged, Promised, Promise, ConsumerAt, OverBudget
<1>3. QuotaTypes'
  BY <1>1 DEF QuotaTypes
<1>4. IdleHoldsNothing' /\ PromisesFit' /\ SomebodyIsFirst'
  BY <1>1, <1>2 DEF IdleHoldsNothing, ConsumerAt, PromisesFit, SomebodyIsFirst
<1>5. CounterAddsUp'
  BY <1>1, <1>2, QuotaSums DEF CounterAddsUp, QuotaTypes
<1> QED BY <1>3, <1>4, <1>5

(* What a call that ends leaves to the others. *)
LEMMA EndOfConsumption ==
    ASSUME QuotaIInv, QuotaTypes', NEW c \in Consumers, Ends(c)
    PROVE  /\ IdleHoldsNothing'
           /\ BeingJudged' = BeingJudged - consumer[c].amount
           /\ Promised' = Promised - Promise(c)
<1> USE DEF QuotaIInv
<1>1. consumer'[c] = NoConsumption /\ \A d \in Consumers \ {c} : consumer'[d] = consumer[d]
  BY DEF Ends, QuotaTypes
<1>2. IdleHoldsNothing'
  BY <1>1 DEF IdleHoldsNothing, ConsumerAt, NoConsumption
<1>3. consumer'[c].amount = 0 /\ Promise(c)' = 0
  BY <1>1 DEF Promise, ConsumerAt, NoConsumption
<1>4. BeingJudged \in Nat /\ Promised \in Nat /\ consumer[c].amount \in Nat /\ Promise(c) \in Nat
  BY QuotaSums DEF QuotaTypes, Promise
<1>5. /\ BeingJudged' = BeingJudged - consumer[c].amount + consumer'[c].amount
      /\ Promised' = Promised - Promise(c) + Promise(c)'
  BY <1>1, QuotaSumsChange
<1> QED BY <1>2, <1>3, <1>4, <1>5

(* DECRBY, of what was refused. *)
LEMMA TakeBackStep ==
    ASSUME QuotaIInv, NEW c \in Consumers, TakeBack(c)
    PROVE  QuotaIInv'
<1> USE DEF QuotaIInv
<1>1. /\ ConsumerAt(c, "judge") /\ OverBudget(c) /\ Ends(c) /\ upset' = TRUE
      /\ UNCHANGED <<expires, asked, grants>>
      /\ \/ used' = used - consumer[c].amount /\ leaked' = leaked
         \/ leaked' = leaked + consumer[c].amount /\ used' = used
  BY DEF TakeBack
<1>2. used \in Int /\ leaked \in Nat /\ grants \in Nat /\ consumer[c].amount \in Nat
  BY DEF QuotaTypes
<1>3. QuotaTypes'
  BY <1>1, <1>2 DEF QuotaTypes, Ends, NoConsumption
<1>4. Promise(c) = 0
  BY <1>1 DEF Promise
<1>5. /\ IdleHoldsNothing'
      /\ BeingJudged' = BeingJudged - consumer[c].amount /\ Promised' = Promised - 0
  BY <1>1, <1>3, <1>4, EndOfConsumption
<1>6. CounterAddsUp' /\ PromisesFit'
  BY <1>1, <1>2, <1>5, QuotaSums DEF CounterAddsUp, PromisesFit
<1>7. SomebodyIsFirst'
  BY <1>1 DEF SomebodyIsFirst
<1> QED BY <1>3, <1>5, <1>6, <1>7

(* What was within the budget is granted. *)
LEMMA GrantStep ==
    ASSUME QuotaIInv, NEW c \in Consumers, Grant(c)
    PROVE  QuotaIInv'
<1> USE DEF QuotaIInv
<1>1. /\ ConsumerAt(c, "judge") /\ ~OverBudget(c) /\ Ends(c)
      /\ grants' = grants + consumer[c].amount
      /\ UNCHANGED <<used, asked, leaked>>
  BY DEF Grant
<1>2. used \in Int /\ leaked \in Nat /\ grants \in Nat /\ consumer[c].amount \in Nat
  BY DEF QuotaTypes
<1>8. /\ IsFirst(c) => expires' \/ upset'
      /\ ~IsFirst(c) => (expires => expires') /\ (expires' => expires)
      /\ upset => upset'
  BY DEF Grant
<1>9. expires' \in BOOLEAN /\ upset' \in BOOLEAN
  BY DEF Grant, QuotaTypes
<1>3. QuotaTypes'
  BY <1>1, <1>2, <1>9 DEF QuotaTypes, Ends, NoConsumption
<1>4. Promise(c) = consumer[c].amount
  BY <1>1 DEF Promise
<1>5. /\ IdleHoldsNothing'
      /\ BeingJudged' = BeingJudged - consumer[c].amount /\ Promised' = Promised - consumer[c].amount
  BY <1>1, <1>3, <1>4, EndOfConsumption
<1>6. CounterAddsUp' /\ PromisesFit'
  BY <1>1, <1>2, <1>5, QuotaSums, BudgetAssumption DEF CounterAddsUp, PromisesFit
<1>7. SomebodyIsFirst'
  <2> SUFFICES ASSUME ~upset', ~expires', used > 0
               PROVE  leaked = 0 /\ \E d \in Consumers : ConsumerAt(d, "judge")' /\ IsFirst(d)'
    BY <1>1, <1>8 DEF SomebodyIsFirst
  <2>1. ~IsFirst(c) /\ ~expires /\ ~upset
    BY <1>8
  <2>2. PICK d \in Consumers : ConsumerAt(d, "judge") /\ IsFirst(d)
    BY <2>1 DEF SomebodyIsFirst
  <2>3. d # c /\ consumer'[d] = consumer[d]
    BY <1>1, <2>1, <2>2 DEF Ends, QuotaTypes
  <2> QED BY <2>1, <2>2, <2>3 DEF SomebodyIsFirst, ConsumerAt, IsFirst
<1> QED BY <1>3, <1>5, <1>6, <1>7

(* A step of something else changes nothing of it. *)
LEMMA QuotaStutters ==
    ASSUME QuotaIInv, UNCHANGED quotaVars
    PROVE  QuotaIInv'
<1>1. QuotaTypes' /\ IdleHoldsNothing' /\ SomebodyIsFirst'
  BY DEF QuotaIInv, quotaVars, QuotaTypes, IdleHoldsNothing, SomebodyIsFirst, ConsumerAt, IsFirst
<1>2. CounterAddsUp' /\ PromisesFit'
  BY DEF QuotaIInv, quotaVars, CounterAddsUp, PromisesFit, BeingJudged, Promised, Promise, ConsumerAt, OverBudget
<1> QED BY <1>1, <1>2 DEF QuotaIInv

(* For any calls, amounts and budget, however the commands of concurrent        *)
(* consumptions interleave and whichever of them fail: what is granted fits the *)
(* budget, the counter adds up, and the key of a day goes away (auth/quota.py). *)
THEOREM QuotaIsKept == QuotaSpec => []QuotaInv
<1>1. QuotaIInv /\ [QuotaNext]_quotaVars => QuotaIInv'
  BY AmountAssumption, ConsumeStep, ConsumeLostStep, TakeBackStep, GrantStep, QuotaStutters DEF QuotaNext
<1> QED BY QuotaInitially, QuotaImplied, <1>1, PTL DEF QuotaSpec

-----------------------------------------------------------------------------
(***************************************************************************)
(* QueryRequests: what is known of a request at each of its steps, and of  *)
(* the consumption that it has under way.                                  *)
(***************************************************************************)

RequestSteps ==
    {"new", "gate", "checks", "run", "account", "charging", "answer", "done", "refused", "failed", "gone"}

RequestReasons ==
    {"llm_usage_missing", "quota_backend_unavailable", "tenant_daily_token_budget_exceeded"}

RequestRecords ==
    [pc : RequestSteps, door : {"query", "stream"}, tokens : Nat, unseen : Nat,
     reasons : SUBSET RequestReasons, paid : BOOLEAN, late : BOOLEAN, runs : Nat, unbilled : BOOLEAN]

QueryTypes ==
    /\ llm \in {"real", "synthetic"}
    /\ request \in [Clients -> RequestRecords]
    /\ spent \in Nat

(* Until its loop ends a request has nothing to account for; it is told why it is *)
(* degraded, or paid, when it is accounted for.                                   *)
Sound(q) ==
    /\ q.pc \in {"new", "gate", "checks", "run", "refused"} => q.tokens = 0 /\ ~q.paid /\ q.reasons = {}
    /\ q.pc \in {"new", "gate", "checks", "refused"} => q.runs = 0 /\ q.unseen = 0
    /\ q.pc = "charging" => llm = "real"
    /\ q.pc \in {"account", "charging"} => ~q.paid /\ q.reasons = {}
    /\ q.paid => q.reasons = {}
    /\ q.pc \in {"answer", "done"} /\ llm = "real" /\ ~q.paid => q.reasons # {} \/ q.unbilled
    /\ q.late => q.pc = "refused"

(* The consumption of a request is under way while it is being charged, with its tokens. *)
Fits(q, c) ==
    /\ q.pc = "charging" => c.pc = "judge" /\ c.amount = q.tokens
    /\ q.pc # "charging" => c.pc = "idle"

(* What of the tokens that were used a request has not paid. *)
Owed(q) == IF llm # "real" THEN 0 ELSE IF q.paid THEN q.unseen ELSE q.tokens + q.unseen

OwedInAll == SumOf([r \in Clients |-> Unpaid(r)]) + SumOf([r \in Clients |-> Unseen(r)])

(* The inductive invariant of the requests. *)
QueryIInv ==
    /\ QuotaIInv
    /\ QueryTypes
    /\ TokensAddUp
    /\ \A r \in Clients : Sound(request[r]) /\ Fits(request[r], consumer[r])

(* There are finitely many clients. *)
LEMMA ClientsAreFinite == IsFiniteSet(Clients)
BY ClientsAssumption, ConsumersAssumption, FS_Subset

(* The two sums of TokensAddUp, and how they change. *)
LEMMA QuerySums ==
    ASSUME QueryTypes
    PROVE  /\ [r \in Clients |-> Unpaid(r)] \in [Clients -> Nat]
           /\ [r \in Clients |-> Unseen(r)] \in [Clients -> Nat]
           /\ SumOf([r \in Clients |-> Unpaid(r)]) \in Nat
           /\ SumOf([r \in Clients |-> Unseen(r)]) \in Nat
<1>1. \A r \in Clients : Unpaid(r) \in Nat /\ Unseen(r) \in Nat
  BY DEF QueryTypes, RequestRecords, Unpaid, Unseen
<1> QED BY <1>1, ClientsAreFinite, UnitsAreFinite

(* What is owed is a natural number. *)
LEMMA DebtIsNat == QueryTypes => OwedInAll \in Nat
BY QuerySums DEF OwedInAll

(* The tokens add up when what is spent is what was granted and what is owed. *)
LEMMA TokensByDebt ==
    QueryTypes /\ grants \in Nat => (TokensAddUp <=> spent = grants + OwedInAll)
BY QuerySums DEF OwedInAll, TokensAddUp

(* A step of one request changes the sums by what that request owes. *)
LEMMA QuerySumsChange ==
    ASSUME QueryTypes, QueryTypes', NEW r \in Clients, UNCHANGED llm,
           \A s \in Clients \ {r} : request'[s] = request[s]
    PROVE  /\ OwedInAll' = OwedInAll + Owed(request'[r]) - Owed(request[r])
           /\ OwedInAll' \in Nat
           /\ grants' \in Nat => (TokensAddUp' <=> spent' = grants' + OwedInAll')
<1> DEFINE f == [s \in Clients |-> Unpaid(s)]
           g == [s \in Clients |-> Unseen(s)]
           ff == [s \in Clients |-> Unpaid(s)']
           gg == [s \in Clients |-> Unseen(s)']
<1>1. /\ f \in [Clients -> Nat] /\ g \in [Clients -> Nat]
      /\ SumOf(f) \in Nat /\ SumOf(g) \in Nat
  BY QuerySums
<1>2. ff \in [Clients -> Nat] /\ gg \in [Clients -> Nat]
  BY DEF QueryTypes, RequestRecords, Unpaid, Unseen
<1>3. \A s \in Clients \ {r} : ff[s] = f[s] /\ gg[s] = g[s]
  BY DEF Unpaid, Unseen
<1>4. f[r] + g[r] = Owed(request[r]) /\ ff[r] + gg[r] = Owed(request'[r])
  BY DEF Unpaid, Unseen, Owed, QueryTypes, RequestRecords
<1>5. f[r] \in Nat /\ g[r] \in Nat /\ ff[r] \in Nat /\ gg[r] \in Nat
  BY <1>1, <1>2
<1> HIDE DEF f, g, ff, gg
<1>6. SumOf(ff) = SumOf(f) - f[r] + ff[r] /\ SumOf(gg) = SumOf(g) - g[r] + gg[r]
  BY <1>1, <1>2, <1>3, ClientsAreFinite, SumChanges
<1>7. SumOf(ff) + SumOf(gg) = SumOf(f) + SumOf(g) + (ff[r] + gg[r]) - (f[r] + g[r])
  BY <1>1, <1>5, <1>6
<1>8. SumOf(ff) + SumOf(gg) = SumOf(f) + SumOf(g) + Owed(request'[r]) - Owed(request[r])
  BY <1>4, <1>7
<1>9. SumOf(ff) \in Nat /\ SumOf(gg) \in Nat
  BY <1>2, ClientsAreFinite, UnitsAreFinite
<1>10. /\ OwedInAll = SumOf(f) + SumOf(g) /\ OwedInAll' = SumOf(ff) + SumOf(gg)
       /\ TokensAddUp' <=> spent' = grants' + SumOf(ff) + SumOf(gg)
  BY DEF f, g, ff, gg, OwedInAll, TokensAddUp
<1> QED BY <1>1, <1>8, <1>9, <1>10

(* One request takes a step: it stays sound, its consumption fits, and what it owes *)
(* changes by what was used and granted.                                            *)
LEMMA OneRequestMoves ==
    ASSUME QueryIInv, QuotaIInv', NEW r \in Clients, NEW q \in RequestRecords, NowIs(r, q),
           UNCHANGED llm, Sound(q), Fits(q, consumer'[r]),
           \A c \in Consumers \ {r} : consumer'[c] = consumer[c],
           spent' \in Nat,
           spent' - spent = grants' - grants + Owed(q) - Owed(request[r])
    PROVE  QueryIInv'
<1>0. QuotaIInv /\ QueryTypes /\ TokensAddUp
  BY DEF QueryIInv
<1>1. request'[r] = q /\ \A s \in Clients \ {r} : request'[s] = request[s]
  BY <1>0 DEF NowIs, QueryTypes
<1>2. QueryTypes'
  BY <1>0 DEF NowIs, QueryTypes
<1>3. \A s \in Clients : Sound(request[s])' /\ Fits(request[s], consumer[s])'
  <2> SUFFICES ASSUME NEW s \in Clients PROVE Sound(request[s])' /\ Fits(request[s], consumer[s])'
    OBVIOUS
  <2>1. CASE s = r
    BY <1>1, <2>1 DEF QueryIInv, Sound, Fits
  <2>2. CASE s # r
    BY <1>1, <2>2, ClientsAssumption DEF QueryIInv, Sound, Fits
  <2> QED BY <2>1, <2>2
<1>4. TokensAddUp'
  <2>1. /\ OwedInAll' = OwedInAll + Owed(request'[r]) - Owed(request[r])
        /\ OwedInAll' \in Nat
        /\ grants' \in Nat => (TokensAddUp' <=> spent' = grants' + OwedInAll')
    BY <1>0, <1>1, <1>2, QuerySumsChange
  <2>2. OwedInAll \in Nat
    BY <1>0, DebtIsNat
  <2>3. Owed(q) \in Nat /\ Owed(request[r]) \in Nat
    BY <1>0 DEF Owed, RequestRecords, QueryTypes
  <2>4. spent = grants + OwedInAll
    BY <1>0, TokensByDebt DEF QuotaIInv, QuotaTypes
  <2>5. grants \in Nat /\ grants' \in Nat /\ spent \in Nat
    BY <1>0 DEF QueryTypes, QuotaIInv, QuotaTypes
  <2>6. OwedInAll' = OwedInAll + Owed(q) - Owed(request[r])
    BY <1>1, <2>1
  <2>7. spent' \in Nat /\ spent' - spent = grants' - grants + Owed(q) - Owed(request[r])
    OBVIOUS
  <2>8. spent' = grants' + OwedInAll'
    <3>1. \A before, after, g, h, owed, x, y \in Int :
            before = g + owed /\ after - before = h - g + x - y => after = h + (owed + x - y)
      OBVIOUS
    <3>2. spent' = grants' + (OwedInAll + Owed(q) - Owed(request[r]))
      BY <2>2, <2>3, <2>4, <2>5, <2>7, <3>1
    <3> QED BY <2>6, <3>2
  <2> QED BY <2>1, <2>5, <2>8
<1> QED BY <1>2, <1>3, <1>4 DEF QueryIInv

(* A step of a request that neither uses nor charges tokens. *)
LEMMA QuietMove ==
    ASSUME QueryIInv, NEW r \in Clients, NEW q \in RequestRecords, NowIs(r, q),
           UNCHANGED <<quotaVars, llm, spent>>,
           request[r].pc # "charging", q.pc # "charging",
           Sound(q), Owed(q) = Owed(request[r])
    PROVE  QueryIInv'
<1>1. QuotaIInv'
  BY QuotaStutters DEF QueryIInv
<1>2. Fits(q, consumer'[r])
  BY DEF QueryIInv, Fits, quotaVars
<1>3. spent \in Nat /\ grants \in Nat /\ Owed(request[r]) \in Nat
  BY DEF QueryIInv, QueryTypes, QuotaIInv, QuotaTypes, Owed, RequestRecords
<1> QED BY <1>1, <1>2, <1>3, OneRequestMoves DEF quotaVars

(* A request is refused, or let in, before the loop runs. *)
LEMMA BeforeTheLoop ==
    ASSUME QueryIInv, NEW r \in Clients,
           \/ \E door \in {"query", "stream"} : TurnAway(r, door) \/ ConsumeTicket(r, door)
           \/ FailBefore(r) \/ CheckSwitch(r)
    PROVE  QueryIInv'
<1>1. /\ request[r] \in RequestRecords /\ Sound(request[r])
      /\ UNCHANGED <<quotaVars, llm, spent>>
  BY DEF QueryIInv, QueryTypes, TurnAway, ConsumeTicket, FailBefore, CheckSwitch
<1>2. ASSUME NEW door \in {"query", "stream"}, TurnAway(r, door) \/ ConsumeTicket(r, door)
      PROVE  QueryIInv'
  <2>1. PICK pc \in {"gate", "refused"} : NowIs(r, [NewRequest EXCEPT !.pc = pc, !.door = door])
    BY <1>2 DEF TurnAway, ConsumeTicket
  <2> DEFINE q == [NewRequest EXCEPT !.pc = pc, !.door = door]
  <2>2. /\ q \in RequestRecords /\ q.pc = pc /\ q.tokens = 0 /\ q.unseen = 0 /\ ~q.paid /\ ~q.late
        /\ q.reasons = {} /\ q.runs = 0
    BY DEF NewRequest, RequestRecords, RequestSteps
  <2>3. request[r].pc = "new"
    BY <1>2 DEF TurnAway, ConsumeTicket, RequestAt
  <2>4. NowIs(r, q)
    BY <2>1
  <2> HIDE DEF q
  <2>5. Sound(q) /\ Owed(q) = Owed(request[r])
    BY <1>1, <2>2, <2>3 DEF Sound, Owed
  <2> QED BY <1>1, <2>2, <2>3, <2>4, <2>5, QuietMove
<1>3. CASE FailBefore(r) \/ CheckSwitch(r)
  <2>1. PICK pc \in {"refused", "run"} : NowIs(r, [request[r] EXCEPT !.pc = pc])
    BY <1>3 DEF FailBefore, CheckSwitch, GoesTo
  <2> DEFINE q == [request[r] EXCEPT !.pc = pc]
  <2>2. request[r].pc = "checks"
    BY <1>3 DEF FailBefore, CheckSwitch, RequestAt
  <2>3. q \in RequestRecords /\ q.pc = pc
    BY <1>1 DEF RequestRecords, RequestSteps
  <2>4. Sound(q) /\ Owed(q) = Owed(request[r])
    BY <1>1, <2>2 DEF Sound, Owed, RequestRecords
  <2> QED BY <1>1, <2>1, <2>2, <2>3, <2>4, QuietMove
<1> QED BY <1>2, <1>3

(* Who comes when the budget is granted in full finds the gate closed: the counter *)
(* is never below what was granted.                                                *)
LEMMA PassGateStep ==
    ASSUME QueryIInv, NEW r \in Clients, PassGate(r)
    PROVE  QueryIInv'
<1>1. request[r] \in RequestRecords /\ Sound(request[r]) /\ request[r].pc = "gate"
  BY DEF QueryIInv, QueryTypes, PassGate, RequestAt
<1>2. PICK seen \in Readings :
         NowIs(r, [request[r] EXCEPT !.pc = IF GateOpen(seen) THEN "checks" ELSE "refused",
                                     !.late = seen = used /\ grants = Budget])
  BY DEF PassGate
<1> DEFINE pc == IF GateOpen(seen) THEN "checks" ELSE "refused"
           late == seen = used /\ grants = Budget
           q == [request[r] EXCEPT !.pc = pc, !.late = late]
<1>3. pc \in {"checks", "refused"} /\ late \in BOOLEAN
  OBVIOUS
<1>4. late => pc = "refused"
  <2>1. used = grants + BeingJudged + leaked /\ BeingJudged \in Nat /\ leaked \in Nat /\ grants \in Nat
    BY QuotaSums DEF QueryIInv, QuotaIInv, QuotaTypes, CounterAddsUp
  <2> QED BY <2>1, BudgetAssumption DEF GateOpen
<1>5. NowIs(r, q)
  BY <1>2
<1> HIDE DEF pc, late
<1>6. /\ q \in RequestRecords /\ q.pc = pc /\ q.late = late /\ q.paid = request[r].paid
      /\ q.tokens = request[r].tokens /\ q.unseen = request[r].unseen /\ q.reasons = request[r].reasons
      /\ q.runs = request[r].runs
  BY <1>1, <1>3 DEF RequestRecords, RequestSteps
<1> HIDE DEF q
<1>7. Sound(q) /\ Owed(q) = Owed(request[r])
  BY <1>1, <1>3, <1>4, <1>6 DEF Sound, Owed
<1> QED BY <1>1, <1>3, <1>5, <1>6, <1>7, QuietMove DEF PassGate

(* A request ends after the loop has run. *)
LEMMA AfterTheLoop ==
    ASSUME QueryIInv, NEW r \in Clients,
           RunRaises(r) \/ AccountNothing(r) \/ Answer(r) \/ AnswerRaises(r)
    PROVE  QueryIInv'
<1>1. request[r] \in RequestRecords /\ Sound(request[r]) /\ UNCHANGED <<quotaVars, llm, spent>>
  BY DEF QueryIInv, QueryTypes, RunRaises, AccountNothing, Answer, AnswerRaises
<1>2. PICK pc \in {"failed", "answer", "done"} :
         /\ NowIs(r, [request[r] EXCEPT !.pc = pc])
         /\ \/ request[r].pc = "run" /\ pc = "failed"
            \/ request[r].pc = "account" /\ llm = "synthetic" /\ pc = "answer"
            \/ request[r].pc = "answer" /\ pc \in {"done", "failed"}
  BY DEF RunRaises, AccountNothing, Answer, AnswerRaises, GoesTo, RequestAt
<1> DEFINE q == [request[r] EXCEPT !.pc = pc]
<1>3. q \in RequestRecords /\ q.pc = pc
  BY <1>1 DEF RequestRecords, RequestSteps
<1>4. Sound(q) /\ Owed(q) = Owed(request[r])
  BY <1>1, <1>2 DEF Sound, Owed, RequestRecords
<1> QED BY <1>1, <1>2, <1>3, <1>4, QuietMove

(* A request that is not charged leaves the counter alone. *)
LEMMA NotCharged ==
    ASSUME QueryIInv, NEW r \in Clients, UsageMissing(r) \/ BuildFails(r) \/ NoBackend(r)
    PROVE  QueryIInv'
<1>1. /\ request[r] \in RequestRecords /\ Sound(request[r]) /\ UNCHANGED <<quotaVars, llm, spent>>
      /\ request[r].pc = "account"
  BY DEF QueryIInv, QueryTypes, UsageMissing, BuildFails, NoBackend, RequestAt
<1>2. CASE UsageMissing(r) \/ NoBackend(r)
  <2>1. PICK reason \in RequestReasons :
           NowIs(r, [request[r] EXCEPT !.pc = "answer", !.reasons = @ \cup {reason}])
    BY <1>2 DEF UsageMissing, NoBackend, Degraded, RequestReasons
  <2> DEFINE q == [request[r] EXCEPT !.pc = "answer", !.reasons = @ \cup {reason}]
  <2>2. q \in RequestRecords /\ q.pc = "answer" /\ q.reasons # {}
    BY <1>1 DEF RequestRecords, RequestSteps
  <2>3. Sound(q) /\ Owed(q) = Owed(request[r])
    BY <1>1, <2>2 DEF Sound, Owed, RequestRecords
  <2> QED BY <1>1, <2>1, <2>2, <2>3, QuietMove
<1>3. CASE BuildFails(r)
  <2> DEFINE q == [request[r] EXCEPT !.pc = "answer", !.unbilled = TRUE]
  <2>1. NowIs(r, q)
    BY <1>3 DEF BuildFails
  <2>2. q \in RequestRecords /\ q.pc = "answer" /\ q.unbilled
    BY <1>1 DEF RequestRecords, RequestSteps
  <2>3. Sound(q) /\ Owed(q) = Owed(request[r])
    BY <1>1, <2>2 DEF Sound, Owed, RequestRecords
  <2> QED BY <1>1, <2>1, <2>2, <2>3, QuietMove
<1> QED BY <1>2, <1>3

(* A run of the loop, whether it is the last one or not: what it uses is owed. *)
LEMMA LoopRuns ==
    ASSUME QueryIInv, NEW r \in Clients, NEW n \in Nat \ {0},
           RunLoop(r, n) \/ Rerun(r, n) \/ Disconnect(r, n)
    PROVE  QueryIInv'
<1>1. /\ request[r] \in RequestRecords /\ Sound(request[r]) /\ request[r].pc = "run"
      /\ UNCHANGED <<quotaVars, llm>> /\ spent' = spent + (IF llm = "real" THEN n ELSE 0)
  BY DEF QueryIInv, QueryTypes, RunLoop, Rerun, Disconnect, RequestAt, Uses
<1>2. PICK q \in RequestRecords :
         /\ NowIs(r, q) /\ q.pc \in {"account", "run", "gone"}
         /\ q.tokens + q.unseen = request[r].tokens + request[r].unseen + n
         /\ q.pc = "run" => q.tokens = 0
         /\ q.paid = request[r].paid /\ q.reasons = request[r].reasons /\ q.late = request[r].late
  <2>0. /\ request[r].unseen \in Nat /\ request[r].runs \in Nat /\ request[r].tokens = 0
        /\ request[r].unseen + n \in Nat /\ request[r].unseen + n - n \in Nat /\ request[r].unseen + n - 0 \in Nat
        /\ request[r].runs + 1 \in Nat /\ n \in Nat /\ 0 \in Nat
    BY <1>1 DEF Sound, RequestRecords
  <2>1. CASE RunLoop(r, n)
    <3>1. PICK told \in {n, 0} :
             NowIs(r, [request[r] EXCEPT !.pc = "account", !.tokens = told, !.unseen = @ + n - told, !.runs = @ + 1])
      BY <2>1 DEF RunLoop
    <3> DEFINE q == [request[r] EXCEPT !.pc = "account", !.tokens = told, !.unseen = @ + n - told, !.runs = @ + 1]
    <3>2. q \in RequestRecords /\ q.pc = "account" /\ q.tokens = told /\ q.unseen = request[r].unseen + n - told
          /\ q.paid = request[r].paid /\ q.reasons = request[r].reasons /\ q.late = request[r].late
      BY <1>1, <2>0 DEF RequestRecords, RequestSteps
    <3>3. request[r].tokens = 0 /\ request[r].unseen \in Nat
      BY <1>1 DEF Sound, RequestRecords
    <3>4. NowIs(r, q)
      BY <3>1
    <3> HIDE DEF q
    <3> QED BY <3>2, <3>3, <3>4
  <2>2. CASE Rerun(r, n)
    <3> DEFINE q == [request[r] EXCEPT !.runs = @ + 1, !.unseen = @ + n]
    <3>1. NowIs(r, q)
      BY <2>2 DEF Rerun
    <3>2. q \in RequestRecords /\ q.pc = "run" /\ q.tokens = request[r].tokens /\ q.unseen = request[r].unseen + n
          /\ q.paid = request[r].paid /\ q.reasons = request[r].reasons /\ q.late = request[r].late
      BY <1>1, <2>0 DEF RequestRecords, RequestSteps
    <3>3. request[r].tokens = 0 /\ request[r].unseen \in Nat
      BY <1>1 DEF Sound, RequestRecords
    <3> HIDE DEF q
    <3> QED BY <3>1, <3>2, <3>3
  <2>3. CASE Disconnect(r, n)
    <3> DEFINE q == [request[r] EXCEPT !.pc = "gone", !.unseen = @ + n]
    <3>1. NowIs(r, q)
      BY <2>3 DEF Disconnect
    <3>2. q \in RequestRecords /\ q.pc = "gone" /\ q.tokens = request[r].tokens /\ q.unseen = request[r].unseen + n
          /\ q.paid = request[r].paid /\ q.reasons = request[r].reasons /\ q.late = request[r].late
      BY <1>1, <2>0 DEF RequestRecords, RequestSteps
    <3>3. request[r].tokens = 0 /\ request[r].unseen \in Nat
      BY <1>1 DEF Sound, RequestRecords
    <3> HIDE DEF q
    <3> QED BY <3>1, <3>2, <3>3
  <2> QED BY <2>1, <2>2, <2>3
<1>3. ~request[r].paid /\ request[r].reasons = {} /\ ~request[r].late
  BY <1>1 DEF Sound
<1>4. Sound(q) /\ Fits(q, consumer'[r])
  BY <1>1, <1>2, <1>3 DEF Sound, Fits, QueryIInv, quotaVars
<1>5. /\ q.tokens \in Nat /\ q.unseen \in Nat /\ request[r].tokens \in Nat /\ request[r].unseen \in Nat
      /\ spent \in Nat /\ grants \in Nat
  BY <1>1 DEF RequestRecords, QueryIInv, QueryTypes, QuotaIInv, QuotaTypes
<1>6. Owed(q) - Owed(request[r]) = IF llm = "real" THEN n ELSE 0
  BY <1>2, <1>3, <1>5 DEF Owed
<1>7. Owed(q) \in Nat /\ Owed(request[r]) \in Nat
  BY <1>5 DEF Owed
<1>8. QuotaIInv' /\ grants' = grants /\ consumer' = consumer
  BY <1>1, QuotaStutters DEF QueryIInv, quotaVars
<1>9. spent' - spent = grants' - grants + Owed(q) - Owed(request[r]) /\ spent' \in Nat
  BY <1>1, <1>5, <1>6, <1>7, <1>8
<1> QED BY <1>1, <1>2, <1>4, <1>8, <1>9, OneRequestMoves

(* The consumption for a request that was answered. *)
LEMMA ChargeStep ==
    ASSUME QueryIInv, NEW r \in Clients, Charge(r)
    PROVE  QueryIInv'
<1>1. /\ request[r] \in RequestRecords /\ Sound(request[r]) /\ Fits(request[r], consumer[r])
      /\ request[r].pc = "account" /\ llm = "real" /\ request[r].tokens > 0
      /\ UNCHANGED <<llm, killed, spent, log>>
  BY DEF QueryIInv, QueryTypes, Charge, RequestAt
<1>2. r \in Consumers /\ request[r].tokens \in Nat \ {0} /\ request[r].unseen \in Nat /\ spent \in Nat
  BY <1>1, ClientsAssumption DEF RequestRecords, QueryIInv, QueryTypes
<1>3. CASE Consume(r, request[r].tokens) /\ GoesTo(r, "charging")
  <2> DEFINE q == [request[r] EXCEPT !.pc = "charging"]
  <2>1. QuotaIInv'
    BY <1>2, <1>3, ConsumeStep DEF QueryIInv
  <2>2. /\ consumer'[r].pc = "judge" /\ consumer'[r].amount = request[r].tokens
        /\ \A c \in Consumers \ {r} : consumer'[c] = consumer[c]
        /\ grants' = grants
    BY <1>2, <1>3 DEF Consume, QueryIInv, QuotaIInv, QuotaTypes
  <2>3. q \in RequestRecords /\ q.pc = "charging" /\ q.tokens = request[r].tokens
    BY <1>1 DEF RequestRecords, RequestSteps
  <2>4. Sound(q) /\ Owed(q) = Owed(request[r])
    BY <1>1 DEF Sound, Owed, RequestRecords
  <2>5. Fits(q, consumer'[r])
    BY <2>2, <2>3 DEF Fits
  <2>6. NowIs(r, q)
    BY <1>3 DEF GoesTo
  <2>7. grants \in Nat /\ Owed(request[r]) \in Nat
    BY <1>2 DEF QueryIInv, QuotaIInv, QuotaTypes, Owed
  <2> HIDE DEF q
  <2> QED BY <1>1, <1>2, <2>1, <2>2, <2>3, <2>4, <2>5, <2>6, <2>7, OneRequestMoves
<1>4. CASE ConsumeLost(r, request[r].tokens) /\ Degraded(r, "quota_backend_unavailable")
  <2> DEFINE q == [request[r] EXCEPT !.pc = "answer", !.reasons = @ \cup {"quota_backend_unavailable"}]
  <2>1. QuotaIInv'
    BY <1>2, <1>4, ConsumeLostStep DEF QueryIInv
  <2>2. consumer' = consumer /\ grants' = grants
    BY <1>4 DEF ConsumeLost
  <2>3. q \in RequestRecords /\ q.pc = "answer" /\ q.reasons # {}
    BY <1>1 DEF RequestRecords, RequestSteps, RequestReasons
  <2>4. Sound(q) /\ Owed(q) = Owed(request[r])
    BY <1>1, <2>3 DEF Sound, Owed, RequestRecords
  <2>5. Fits(q, consumer'[r])
    BY <1>1, <2>2, <2>3 DEF Fits
  <2>6. NowIs(r, q)
    BY <1>4 DEF Degraded
  <2>7. grants \in Nat /\ Owed(request[r]) \in Nat
    BY <1>2 DEF QueryIInv, QuotaIInv, QuotaTypes, Owed
  <2> HIDE DEF q
  <2> QED BY <1>1, <1>2, <2>1, <2>2, <2>3, <2>4, <2>5, <2>6, <2>7, OneRequestMoves
<1> QED BY <1>3, <1>4 DEF Charge

(* What the consumption has said reaches the request. *)
LEMMA ChargedStep ==
    ASSUME QueryIInv, NEW r \in Clients, Charged(r)
    PROVE  QueryIInv'
<1>1. /\ request[r] \in RequestRecords /\ Sound(request[r]) /\ Fits(request[r], consumer[r])
      /\ request[r].pc = "charging"
      /\ UNCHANGED <<llm, killed, spent, log>>
  BY DEF QueryIInv, QueryTypes, Charged, RequestAt
<1>2. /\ r \in Consumers /\ request[r].tokens \in Nat /\ request[r].unseen \in Nat /\ spent \in Nat
      /\ grants \in Nat /\ llm = "real" /\ ~request[r].paid /\ request[r].reasons = {} /\ ~request[r].late
      /\ consumer[r].amount = request[r].tokens
  BY <1>1, ClientsAssumption DEF RequestRecords, QueryIInv, QueryTypes, QuotaIInv, QuotaTypes, Sound, Fits
<1>3. ASSUME Ends(r)
      PROVE  consumer'[r].pc = "idle" /\ \A c \in Consumers \ {r} : consumer'[c] = consumer[c]
  BY <1>2, <1>3 DEF Ends, NoConsumption, QueryIInv, QuotaIInv, QuotaTypes
<1>4. CASE Grant(r) /\ NowIs(r, [request[r] EXCEPT !.pc = "answer", !.paid = TRUE])
  <2> DEFINE q == [request[r] EXCEPT !.pc = "answer", !.paid = TRUE]
  <2>1. QuotaIInv'
    BY <1>2, <1>4, GrantStep DEF QueryIInv
  <2>2. Ends(r) /\ grants' = grants + request[r].tokens
    BY <1>2, <1>4 DEF Grant
  <2>3. /\ q \in RequestRecords /\ q.pc = "answer" /\ q.paid /\ q.reasons = {} /\ ~q.late
        /\ q.unseen = request[r].unseen
    BY <1>1, <1>2 DEF RequestRecords, RequestSteps
  <2>4. NowIs(r, q)
    BY <1>4
  <2> HIDE DEF q
  <2>5. Sound(q) /\ Fits(q, consumer'[r])
    BY <1>3, <2>2, <2>3 DEF Sound, Fits
  <2>6. spent' - spent = grants' - grants + Owed(q) - Owed(request[r])
    BY <1>1, <1>2, <2>2, <2>3 DEF Owed
  <2> QED BY <1>1, <1>2, <1>3, <2>1, <2>2, <2>3, <2>4, <2>5, <2>6, OneRequestMoves
<1>5. CASE TakeBack(r) /\ Degraded(r, "tenant_daily_token_budget_exceeded")
  <2> DEFINE q == [request[r] EXCEPT !.pc = "answer", !.reasons = @ \cup {"tenant_daily_token_budget_exceeded"}]
  <2>1. QuotaIInv'
    BY <1>2, <1>5, TakeBackStep DEF QueryIInv
  <2>2. Ends(r) /\ grants' = grants
    BY <1>5 DEF TakeBack
  <2>3. /\ q \in RequestRecords /\ q.pc = "answer" /\ ~q.paid /\ q.reasons # {} /\ ~q.late
        /\ q.unseen = request[r].unseen /\ q.tokens = request[r].tokens
    BY <1>1, <1>2 DEF RequestRecords, RequestSteps, RequestReasons
  <2>4. NowIs(r, q)
    BY <1>5 DEF Degraded
  <2> HIDE DEF q
  <2>5. Sound(q) /\ Fits(q, consumer'[r])
    BY <1>3, <2>2, <2>3 DEF Sound, Fits
  <2>6. Owed(q) = Owed(request[r]) /\ Owed(q) \in Nat
    BY <1>2, <2>3 DEF Owed
  <2>7. spent' - spent = grants' - grants + Owed(q) - Owed(request[r])
    BY <1>1, <1>2, <2>2, <2>6
  <2> QED BY <1>1, <1>2, <1>3, <2>1, <2>2, <2>3, <2>4, <2>5, <2>7, OneRequestMoves
<1> QED BY <1>4, <1>5 DEF Charged

(* The invariant holds at the start. *)
LEMMA QueryInitially == QueryInit => QueryIInv
<1> SUFFICES ASSUME QueryInit PROVE QueryIInv
  OBVIOUS
<1>1. QuotaIInv
  BY QuotaInitially DEF QueryInit
<1>2. /\ NewRequest \in RequestRecords /\ Sound(NewRequest) /\ NewRequest.pc = "new"
      /\ NewRequest.tokens = 0 /\ NewRequest.unseen = 0
  BY DEF NewRequest, RequestRecords, RequestSteps, Sound
<1>3. \A r \in Clients : request[r] = NewRequest
  BY DEF QueryInit
<1>4. QueryTypes
  BY <1>2 DEF QueryTypes, QueryInit
<1>5. ASSUME NEW r \in Clients
      PROVE  Sound(request[r]) /\ Fits(request[r], consumer[r])
  BY <1>2, <1>3, ClientsAssumption DEF Fits, QueryInit, QuotaInit, NoConsumption
<1> DEFINE f == [r \in Clients |-> Unpaid(r)]
           g == [r \in Clients |-> Unseen(r)]
<1>6. f \in [Clients -> Nat] /\ g \in [Clients -> Nat] /\ \A r \in Clients : f[r] = 0 /\ g[r] = 0
  BY <1>2, <1>3 DEF Unpaid, Unseen
<1>7. TokensAddUp <=> spent = grants + SumOf(f) + SumOf(g)
  BY DEF TokensAddUp
<1> HIDE DEF f, g
<1>8. SumOf(f) = 0 /\ SumOf(g) = 0
  BY <1>6, SumOfZeros
<1>9. TokensAddUp
  BY <1>7, <1>8 DEF QueryInit, QuotaInit
<1> QED BY <1>1, <1>4, <1>5, <1>9 DEF QueryIInv

(* The invariant implies what the runs check. *)
LEMMA QueryImplied == QueryIInv => QueryInv
<1> SUFFICES ASSUME QueryIInv PROVE QueryInv
  OBVIOUS
<1>1. \A r \in Clients : Sound(request[r]) /\ Fits(request[r], consumer[r]) /\ request[r] \in RequestRecords
  BY DEF QueryIInv, QueryTypes
<1>2. UnpaidIsTold /\ PaidIsNotBlamed /\ FullStaysFull /\ RefusalIsFree
  BY <1>1 DEF Sound, Fits, UnpaidIsTold, PaidIsNotBlamed, FullStaysFull, RefusalIsFree
<1> QED BY <1>2, QuotaImplied DEF QueryIInv, QueryInv

(* Every step keeps the invariant. *)
LEMMA QueryStep == QueryIInv /\ [QueryNext]_queryVars => QueryIInv'
<1> SUFFICES ASSUME QueryIInv, [QueryNext]_queryVars PROVE QueryIInv'
  OBVIOUS
<1>1. ASSUME UNCHANGED <<quotaVars, llm, request, spent>>
      PROVE  QueryIInv'
  <2>1. QuotaIInv' /\ QueryTypes'
    BY <1>1, QuotaStutters DEF QueryIInv, QueryTypes
  <2>2. TokensAddUp'
    BY <1>1 DEF QueryIInv, TokensAddUp, Unpaid, Unseen, quotaVars
  <2>3. \A r \in Clients : Sound(request[r])' /\ Fits(request[r], consumer[r])'
    BY <1>1 DEF QueryIInv, Sound, Fits, quotaVars
  <2> QED BY <2>1, <2>2, <2>3 DEF QueryIInv
<1>2. CASE SwitchTurns \/ UNCHANGED queryVars
  BY <1>1, <1>2 DEF SwitchTurns, queryVars, requestVars
<1>3. ASSUME NEW r \in Clients, NEW n \in Amounts, RunLoop(r, n) \/ Rerun(r, n) \/ Disconnect(r, n)
      PROVE  QueryIInv'
  BY <1>3, LoopRuns, AmountAssumption
<1> QED BY <1>2, <1>3, BeforeTheLoop, PassGateStep, AfterTheLoop, NotCharged, ChargeStep, ChargedStep DEF QueryNext

(* For any requests, amounts and budget, however requests interleave, whatever fails *)
(* and whoever goes away: what is charged fits the budget, every token that was used *)
(* was granted or belongs to a request that is not paid, an answer that was not paid *)
(* says so, and who was turned away costs nothing (api/server.py, auth/quota.py).    *)
THEOREM BudgetIsKept == QuerySpec => []QueryInv
BY QueryInitially, QueryImplied, QueryStep, PTL DEF QuerySpec

-----------------------------------------------------------------------------
(* The gate and its tickets: a switch that was pressed stays in force until it *)
(* is released or taken back, and no ticket opens two streams.                 *)
THEOREM GateIsKept == SwitchSpec /\ TicketsSpec => []GateInv
BY SwitchIsSafe, TicketsAreSingleUse, PTL DEF GateInv

(* Both limiters keep what they promise: no window admits more than its limit, *)
(* and no rate is exceeded.                                                    *)
THEOREM LimitsAreKept == LimiterSpec /\ BucketsSpec => []LimitsInv
BY WindowIsKept, RateIsKept, PTL DEF LimitsInv

(* The counter and the requests: nobody is granted what does not fit in, and   *)
(* what a request is charged is what it is told to have used.                  *)
THEOREM QuotaAndRequests == QuerySpec => []BudgetInv
<1>1. QueryIInv => BudgetInv
  BY QuotaImplied, QueryImplied DEF QueryIInv, BudgetInv
<1> QED BY QueryInitially, QueryStep, <1>1, PTL DEF QuerySpec
==============================================================================
