-------------------------- MODULE ToolDedupProofs --------------------------
(***************************************************************************)
(* Machine-checked proofs about ToolDedup, for any number of calls and     *)
(* processes: which backends keep the promise that a tool runs once.       *)
(***************************************************************************)
EXTENDS ToolDedup, TLAPS

USE DEF Statuses, Labels

LEMMA SameDeployment == ASSUME [Next]_vars PROVE deployment' = deployment
  BY DEF Next, vars, Claim, RunTool, MarkSuccess, MarkFailed, Get, Purge, Expire, Crash

LEMMA WrittenType ==
  ASSUME NEW s \in Statuses, NEW c \in Callers
  PROVE  Written(s, c) \in Record /\ Live(Written(s, c))
  BY DEF Written, Record, Live

LEMMA NoRecordType == NoRecord \in Record /\ ~Live(NoRecord)
  BY DEF NoRecord, Record, Live

LEMMA InitType == Init => TypeOK
  BY NoRecordType, BoundAssumption DEF Init, TypeOK

(* The steps of a call that leave it somewhere with some answer. *)
LEMMA CallType ==
  ASSUME TypeOK, NEW c \in Callers, NEW l \in Labels, NEW a \in Callers \cup {Nobody},
         Goto(c, l) \/ Return(c, a)
  PROVE  call' \in [Callers -> [pc : Labels, answer : Callers \cup {Nobody}]]
  BY DEF TypeOK, Goto, Return

LEMMA MemType ==
  ASSUME TypeOK, NEW c \in Callers, NEW rec \in Record, Remember(c, rec)
  PROVE  mem' \in [Hosts -> Record]
  BY CallerAssumption DEF TypeOK, Remember

LEMMA ReplayType ==
  ASSUME TypeOK, NEW c \in Callers, NEW rec \in Record, Replay(c, rec)
  PROVE  call' \in [Callers -> [pc : Labels, answer : Callers \cup {Nobody}]]
<1>1. rec.by \in Callers \cup {Nobody}
  BY DEF Record
<1> QED
  BY <1>1, CallType DEF Replay

LEMMA FromMemoryType ==
  ASSUME TypeOK, NEW c \in Callers, FromMemory(c)
  PROVE  /\ mem' \in [Hosts -> Record]
         /\ call' \in [Callers -> [pc : Labels, answer : Callers \cup {Nobody}]]
<1> DEFINE rec == IF Live(mem[HostOf[c]]) THEN mem[HostOf[c]] ELSE NoRecord
<1>1. rec \in Record
  BY NoRecordType, CallerAssumption DEF TypeOK
<1>2. Remember(c, rec) /\ Replay(c, rec)
  BY DEF FromMemory
<1> HIDE DEF rec
<1> QED
  BY <1>1, <1>2, MemType, ReplayType

LEMMA ClaimType == ASSUME TypeOK, NEW c \in Callers, Claim(c) PROVE TypeOK'
<1> SUFFICES row' \in Record /\ mem' \in [Hosts -> Record] /\ granted' \in Nat
             /\ call' \in [Callers -> [pc : Labels, answer : Callers \cup {Nobody}]]
  BY DEF Claim, TypeOK
<1>1. ASSUME Granted(c)
      PROVE  mem' \in [Hosts -> Record] /\ granted' \in Nat
             /\ call' \in [Callers -> [pc : Labels, answer : Callers \cup {Nobody}]]
  BY <1>1, WrittenType, MemType, CallType DEF Granted, TypeOK
<1>2. CASE ClaimInStore(c)
  <2>1. CASE ~Live(row) /\ row' = Written("PENDING", c) /\ Granted(c)
    BY <1>1, <2>1, WrittenType
  <2>2. CASE ~(~Live(row) /\ row' = Written("PENDING", c) /\ Granted(c))
    <3> DEFINE rec == IF Postgres /\ mem[HostOf[c]].status # "absent"
                      THEN mem[HostOf[c]] ELSE row
    <3>1. Remember(c, rec) /\ Goto(c, "wait") /\ UNCHANGED <<row, granted>>
      BY <1>2, <2>2 DEF ClaimInStore
    <3>2. rec \in Record
      BY CallerAssumption DEF TypeOK
    <3> HIDE DEF rec
    <3> QED
      BY <3>1, <3>2, MemType, CallType DEF TypeOK
  <2> QED
    BY <2>1, <2>2
<1>3. CASE ClaimWithoutStore(c)
  <2>1. CASE ~Postgres
    BY <1>3, <2>1, CallType DEF ClaimWithoutStore, TypeOK
  <2>2. CASE Postgres
    <3>1. row' \in Record
      BY <1>3, <2>2, WrittenType DEF ClaimWithoutStore, LostAnswer, TypeOK
    <3>2. Granted(c) \/ (Goto(c, "wait") /\ UNCHANGED <<mem, granted>>)
      BY <1>3, <2>2 DEF ClaimWithoutStore
    <3> QED
      BY <1>1, <3>1, <3>2, CallType DEF TypeOK
  <2> QED
    BY <2>1, <2>2
<1> QED
  BY <1>2, <1>3 DEF Claim

LEMMA MarkType ==
  ASSUME TypeOK, NEW c \in Callers, NEW s \in Statuses, Mark(c, s)
  PROVE  row' \in Record /\ mem' \in [Hosts -> Record]
<1>1. CASE row' = Written(s, c) /\ Remember(c, Written(s, c))
  BY <1>1, WrittenType, MemType
<1>2. CASE LostAnswer(Written(s, c)) /\ Remember(c, Written(s, c))
  <2>1. row' \in Record
    BY <1>2, WrittenType DEF LostAnswer, TypeOK
  <2> QED
    BY <1>2, <2>1, WrittenType, MemType
<1>3. CASE UNCHANGED <<row, mem>>
  BY <1>3 DEF TypeOK
<1> QED
  BY <1>1, <1>2, <1>3 DEF Mark

LEMMA GetType == ASSUME TypeOK, NEW c \in Callers, Get(c) PROVE TypeOK'
<1>1. row \in Record /\ UNCHANGED <<deployment, row, granted, expired>>
  BY DEF Get, TypeOK
<1>2. \/ Remember(c, row) /\ Replay(c, row)
      \/ FromMemory(c)
      \/ Goto(c, "purge") /\ UNCHANGED mem
      \/ Return(c, Nobody) /\ UNCHANGED mem
  BY DEF Get
<1>3. mem' \in [Hosts -> Record]
      /\ call' \in [Callers -> [pc : Labels, answer : Callers \cup {Nobody}]]
  BY <1>1, <1>2, MemType, ReplayType, FromMemoryType, CallType DEF TypeOK
<1> QED
  BY <1>1, <1>3 DEF TypeOK

LEMMA NextType == ASSUME TypeOK, [Next]_vars PROVE TypeOK'
<1>1. ASSUME NEW c \in Callers, RunTool(c) PROVE TypeOK'
  BY <1>1, CallType DEF RunTool, TypeOK
<1>2. ASSUME NEW c \in Callers, MarkSuccess(c) \/ MarkFailed(c) PROVE TypeOK'
  BY <1>2, MarkType, CallType DEF MarkSuccess, MarkFailed, TypeOK
<1>3. ASSUME NEW c \in Callers, Purge(c) PROVE TypeOK'
  BY <1>3, NoRecordType, MemType, ReplayType DEF Purge, TypeOK
<1>4. ASSUME Expire PROVE TypeOK'
  <2>1. expired' \in 0 .. MaxExpiries
    BY <1>4, BoundAssumption DEF Expire, TypeOK
  <2>2. CASE RowExpires
    BY <1>4, <2>1, <2>2 DEF Expire, RowExpires, Record, TypeOK
  <2>3. ASSUME NEW h \in Hosts, MemExpires(h) PROVE TypeOK'
    <3>1. [mem[h] EXCEPT !.fresh = FALSE] \in Record
      BY DEF Record, TypeOK
    <3> QED
      BY <1>4, <2>1, <2>3, <3>1 DEF Expire, MemExpires, TypeOK
  <2> QED
    BY <1>4, <2>2, <2>3 DEF Expire
<1>5. ASSUME NEW h \in Hosts, Crash(h) PROVE TypeOK'
  BY <1>5, NoRecordType DEF Crash, TypeOK
<1>6. ASSUME UNCHANGED vars PROVE TypeOK'
  BY <1>6 DEF vars, TypeOK
<1> QED
  BY <1>1, <1>2, <1>3, <1>4, <1>5, <1>6, ClaimType, GetType DEF Next

(* Every record has its type, in the store and in every process. *)
THEOREM DedupTypeCorrect == Spec => []TypeOK
  BY InitType, NextType, PTL DEF Spec

-----------------------------------------------------------------------------
(* While the store decides and no TTL has passed, the one claim that was   *)
(* granted occupies the key, and no waiting call finds an expired record   *)
(* to delete.                                                              *)
Occupied ==
  expired = 0 =>
    /\ granted <= 1
    /\ granted = 1 => Live(row)
    /\ row.status # "absent" => row.fresh
    /\ \A c \in Callers : call[c].pc # "purge"

LEMMA OccupiedStep == ASSUME StoreDecides, TypeOK, Occupied, Next PROVE Occupied'
<1> SUFFICES ASSUME expired' = 0
             PROVE  /\ granted' <= 1
                    /\ granted' = 1 => Live(row)'
                    /\ row'.status # "absent" => row'.fresh
                    /\ \A c \in Callers : call'[c].pc # "purge"
  BY DEF Occupied, Live
<1>1. expired = 0
  <2>1. CASE Expire
    BY <2>1, BoundAssumption DEF Expire, TypeOK
  <2>2. CASE ~Expire
    BY <2>2 DEF Next, Claim, RunTool, MarkSuccess, MarkFailed, Get, Purge, Crash
  <2> QED
    BY <2>1, <2>2
<1>2. /\ granted \in Nat /\ granted <= 1
      /\ granted = 1 => Live(row)
      /\ row.status # "absent" => row.fresh
      /\ \A c \in Callers : call[c].pc # "purge"
      /\ call = [c \in Callers |-> call[c]]
  BY <1>1 DEF Occupied, TypeOK
<1>3. ASSUME NEW c \in Callers, NEW l \in Labels, l # "purge", Goto(c, l)
      PROVE  \A d \in Callers : call'[d].pc # "purge"
  BY <1>2, <1>3 DEF Goto, TypeOK
<1>4. ASSUME NEW c \in Callers, NEW a, Return(c, a)
      PROVE  \A d \in Callers : call'[d].pc # "purge"
  BY <1>2, <1>4 DEF Return
<1>5. ASSUME NEW c \in Callers, NEW rec, Replay(c, rec)
      PROVE  \A d \in Callers : call'[d].pc # "purge"
  BY <1>3, <1>4, <1>5 DEF Replay
<1>6. ASSUME NEW c \in Callers, Claim(c)
      PROVE  /\ granted' <= 1
             /\ granted' = 1 => Live(row)'
             /\ row'.status # "absent" => row'.fresh
             /\ \A d \in Callers : call'[d].pc # "purge"
  <2>1. CASE ~Live(row) /\ row' = Written("PENDING", c) /\ Granted(c)
    BY <1>2, <1>3, <2>1 DEF Granted, Written, Live
  <2>2. CASE UNCHANGED <<row, granted>> /\ (Goto(c, "wait") \/ Return(c, Nobody))
    BY <1>2, <1>3, <1>4, <2>2 DEF Live
  <2> QED
    BY <1>6, <2>1, <2>2 DEF Claim, ClaimInStore, ClaimWithoutStore, StoreDecides
<1>7. ASSUME NEW c \in Callers, RunTool(c)
      PROVE  \A d \in Callers : call'[d].pc # "purge"
  BY <1>3, <1>7 DEF RunTool
<1>8. ASSUME NEW c \in Callers, NEW s \in Statuses, Mark(c, s)
      PROVE  Live(row)' \/ UNCHANGED row
  <2>1. row' = Written(s, c) => Live(row)'
    BY DEF Live, Written
  <2>2. row' = row \/ row' = Written(s, c)
    BY <1>8 DEF Mark, LostAnswer
  <2> QED
    BY <2>1, <2>2
<1>9. ASSUME NEW c \in Callers, MarkSuccess(c) \/ MarkFailed(c)
      PROVE  /\ granted' = granted
             /\ Live(row)' \/ UNCHANGED row
             /\ \A d \in Callers : call'[d].pc # "purge"
  BY <1>4, <1>8, <1>9 DEF MarkSuccess, MarkFailed
<1>10. ASSUME NEW c \in Callers, Get(c)
       PROVE  \A d \in Callers : call'[d].pc # "purge"
  BY <1>2, <1>4, <1>5, <1>10 DEF Get, FromMemory
<1>11. ASSUME NEW h \in Hosts, Crash(h)
       PROVE  \A d \in Callers : call'[d].pc # "purge"
  BY <1>2, <1>11 DEF Crash
<1>12. ~Expire /\ \A c \in Callers : ~Purge(c)
  <2>1. ~Expire
    BY <1>1, SMT DEF Expire
  <2>2. \A c \in Callers : ~Purge(c)
    BY <1>2 DEF Purge
  <2> QED
    BY <2>1, <2>2
<1> QED
  BY <1>2, <1>6, <1>7, <1>9, <1>10, <1>11, <1>12
     DEF Next, RunTool, Get, Crash, Live

(* execute_tool_call: with SQLite, whatever fails, and with a PostgreSQL    *)
(* that always answers, the tool runs once at most until a TTL passes, for *)
(* any number of calls and processes that wait or are killed.              *)
THEOREM ToolRunsOnce == Spec => []OnceIfStoreDecides
<1> DEFINE Inv == StoreDecides => Occupied
<1>1. Init => Inv
  BY DEF Init, Occupied, NoRecord
<1>2. TypeOK /\ Inv /\ [Next]_vars => Inv'
  <2> SUFFICES ASSUME TypeOK, Inv, [Next]_vars, StoreDecides' PROVE Occupied'
    OBVIOUS
  <2>1. StoreDecides
    BY SameDeployment DEF StoreDecides, Postgres, StoreAnswers
  <2>2. CASE UNCHANGED vars
    BY <2>1, <2>2 DEF vars, Occupied, Live
  <2> QED
    BY <2>1, <2>2, OccupiedStep
<1>3. Inv => OnceIfStoreDecides
  BY DEF Occupied, OnceIfStoreDecides, NoSecondEffect
<1> QED
  BY <1>1, <1>2, <1>3, DedupTypeCorrect, PTL DEF Spec

-----------------------------------------------------------------------------
(* PostgreSQL compares the age of a record inside the statement that uses  *)
(* it, so that every later run is paid for by an expiry.                   *)
Paid ==
  /\ granted <= expired + 1
  /\ ~Live(row) => granted <= expired
  /\ \A c \in Callers : call[c].pc # "purge"

LEMMA PaidStep ==
  ASSUME Postgres, StoreAnswers = {TRUE}, TypeOK, Paid, Next PROVE Paid'
<1>1. /\ granted \in Nat /\ expired \in Nat /\ granted <= expired + 1
      /\ ~Live(row) => granted <= expired
      /\ \A c \in Callers : call[c].pc # "purge"
      /\ call = [c \in Callers |-> call[c]]
  BY BoundAssumption DEF Paid, TypeOK
<1>2. ASSUME NEW c \in Callers, NEW l \in Labels, l # "purge", Goto(c, l)
      PROVE  \A d \in Callers : call'[d].pc # "purge"
  BY <1>1, <1>2 DEF Goto, TypeOK
<1>3. ASSUME NEW c \in Callers, NEW a, Return(c, a)
      PROVE  \A d \in Callers : call'[d].pc # "purge"
  BY <1>1, <1>3 DEF Return
<1>4. ASSUME NEW c \in Callers, NEW rec, Replay(c, rec)
      PROVE  \A d \in Callers : call'[d].pc # "purge"
  BY <1>2, <1>3, <1>4 DEF Replay
<1>5. ASSUME NEW c \in Callers, Claim(c) PROVE Paid'
  <2>1. CASE ~Live(row) /\ row' = Written("PENDING", c) /\ Granted(c)
    BY <1>1, <1>2, <1>5, <2>1 DEF Claim, Granted, Written, Live, Paid
  <2>2. CASE UNCHANGED <<row, granted>> /\ Goto(c, "wait")
    BY <1>1, <1>2, <1>5, <2>2 DEF Claim, Live, Paid
  <2> QED
    BY <1>5, <2>1, <2>2 DEF Claim, ClaimInStore, ClaimWithoutStore
<1>6. ASSUME NEW c \in Callers, RunTool(c) PROVE Paid'
  BY <1>1, <1>2, <1>6 DEF RunTool, Paid, Live
<1>7. ASSUME NEW c \in Callers, MarkSuccess(c) \/ MarkFailed(c) PROVE Paid'
  <2>1. Live(row)' /\ UNCHANGED <<granted, expired>>
    BY <1>7 DEF MarkSuccess, MarkFailed, Mark, Live, Written
  <2>2. \A d \in Callers : call'[d].pc # "purge"
    BY <1>3, <1>7 DEF MarkSuccess, MarkFailed
  <2> QED
    BY <1>1, <2>1, <2>2 DEF Paid
<1>8. ASSUME NEW c \in Callers, Get(c) PROVE Paid'
  <2>1. \A d \in Callers : call'[d].pc # "purge"
    BY <1>4, <1>8 DEF Get, FromMemory
  <2> QED
    BY <1>1, <1>8, <2>1 DEF Get, Live, Paid
<1>9. ASSUME Expire PROVE Paid'
  BY <1>1, <1>9 DEF Expire, RowExpires, MemExpires, Live, Paid
<1>10. ASSUME NEW h \in Hosts, Crash(h) PROVE Paid'
  <2>1. \A d \in Callers : call'[d].pc # "purge"
    BY <1>1, <1>10 DEF Crash
  <2> QED
    BY <1>1, <1>10, <2>1 DEF Crash, Live, Paid
<1>11. \A c \in Callers : ~Purge(c)
  BY <1>1 DEF Purge
<1> QED
  BY <1>5, <1>6, <1>7, <1>8, <1>9, <1>10, <1>11 DEF Next

(* With a PostgreSQL that always answers, every run of the tool but the    *)
(* first is paid for by a TTL that passed.                                 *)
THEOREM EveryRunIsPaid == Spec => []PaidIfPostgresDecides
<1> DEFINE Inv == Postgres /\ StoreDecides => Paid
<1>1. Init => Inv
  BY DEF Init, Paid, NoRecord
<1>2. TypeOK /\ Inv /\ [Next]_vars => Inv'
  <2> SUFFICES ASSUME TypeOK, Inv, [Next]_vars, Postgres', StoreDecides' PROVE Paid'
    OBVIOUS
  <2>1. Postgres /\ StoreDecides
    BY SameDeployment DEF StoreDecides, Postgres, StoreAnswers
  <2>2. CASE UNCHANGED vars
    BY <2>1, <2>2 DEF vars, Paid, Live
  <2> QED
    BY <2>1, <2>2, PaidStep DEF StoreDecides
<1>3. TypeOK /\ Inv => PaidIfPostgresDecides
  BY BoundAssumption DEF Paid, PaidIfPostgresDecides, OneEffectPerExpiry, TypeOK
<1> QED
  BY <1>1, <1>2, <1>3, DedupTypeCorrect, PTL DEF Spec

-----------------------------------------------------------------------------
(* A record of a success names a call that was told its own execution.     *)
Vouched(rec, calls) ==
  rec.status = "SUCCESS" => rec.by \in Callers /\ calls[rec.by].answer = rec.by

(* Every answer is that of a call that was told the same, every record of  *)
(* a success has such a call, and who was told anything is done.           *)
AllVouched ==
  /\ \A c \in Callers : call[c].answer # Nobody =>
        call[c].pc = "done" /\ call[call[c].answer].answer = call[c].answer
  /\ Vouched(row, call)
  /\ \A h \in Hosts : Vouched(mem[h], call)

(* A step that sends one call on, with no answer, a vouched one or its own. *)
LEMMA OneCallAnswers ==
  ASSUME TypeOK, AllVouched, NEW c \in Callers, call[c].pc # "done",
         NEW l \in Labels, NEW a \in Callers \cup {Nobody},
         Goto(c, l) \/ Return(c, a),
         a # Nobody => a = c \/ call[a].answer = a
  PROVE  /\ \A d \in Callers : call'[d].answer # Nobody =>
                call'[d].pc = "done" /\ call'[call'[d].answer].answer = call'[d].answer
         /\ \A rec \in Record : Vouched(rec, call) => Vouched(rec, call')
         /\ Return(c, c) => call'[c].answer = c
<1>1. call \in [Callers -> [pc : Labels, answer : Callers \cup {Nobody}]] /\ Nobody \notin Callers
  BY CallerAssumption DEF TypeOK
<1>2. call[c].answer = Nobody
  BY DEF AllVouched
<1>3. \A d \in Callers : call[d].answer # Nobody =>
        call[d].pc = "done" /\ call[call[d].answer].answer = call[d].answer
  BY DEF AllVouched
<1>4. \A d \in Callers \ {c} : call'[d] = call[d]
  BY <1>1 DEF Goto, Return
<1>5. call'[c].answer = Nobody \/ call'[c] = [pc |-> "done", answer |-> a]
  BY <1>1, <1>2 DEF Goto, Return
<1>6. \A d \in Callers : call[d].answer = d => d # c /\ call'[d].answer = d
  BY <1>1, <1>2, <1>4
<1>7. \A rec \in Record : Vouched(rec, call) => Vouched(rec, call')
  BY <1>6 DEF Vouched
<1>8. ASSUME NEW d \in Callers, call'[d].answer # Nobody
      PROVE  call'[d].pc = "done" /\ call'[call'[d].answer].answer = call'[d].answer
  <2>1. CASE d # c
    <3>1. call'[d] = call[d] /\ call[d].answer \in Callers
      BY <1>1, <1>4, <1>8, <2>1
    <3>2. call[d].pc = "done" /\ call[call[d].answer].answer = call[d].answer
      BY <1>3, <1>8, <3>1
    <3> QED
      BY <1>6, <3>1, <3>2
  <2>2. CASE d = c
    <3>1. call'[c].pc = "done" /\ call'[c].answer = a /\ a \in Callers
      BY <1>5, <1>8, <2>2
    <3>2. call'[a].answer = a
      BY <1>1, <1>6, <3>1
    <3> QED
      BY <2>2, <3>1, <3>2
  <2> QED
    BY <2>1, <2>2
<1>9. Return(c, c) => call'[c].answer = c
  BY <1>1 DEF Return
<1> QED
  BY <1>7, <1>8, <1>9

(* The records that a step may write are vouched for. *)
LEMMA RecordsAreVouched ==
  ASSUME TypeOK, AllVouched, \A rec \in Record : Vouched(rec, call) => Vouched(rec, call'),
         NEW c \in Callers, NEW rec \in Record, Vouched(rec, call'),
         Remember(c, rec) \/ UNCHANGED mem
  PROVE  \A h \in Hosts : Vouched(mem'[h], call')
<1>1. mem \in [Hosts -> Record] /\ \A h \in Hosts : Vouched(mem[h], call)
  BY DEF TypeOK, AllVouched
<1>2. \A h \in Hosts : mem'[h] = rec \/ mem'[h] = mem[h]
  BY <1>1 DEF Remember
<1>3. \A h \in Hosts : Vouched(mem[h], call')
  BY <1>1
<1> QED
  BY <1>2, <1>3

(* Every step keeps the answers vouched for. *)
LEMMA VouchedStep == ASSUME TypeOK, AllVouched, [Next]_vars PROVE AllVouched'
<1>1. row \in Record /\ mem \in [Hosts -> Record] /\ Nobody \notin Callers
      /\ call \in [Callers -> [pc : Labels, answer : Callers \cup {Nobody}]]
  BY CallerAssumption DEF TypeOK
<1>2. Vouched(row, call) /\ \A h \in Hosts : Vouched(mem[h], call)
  BY DEF AllVouched
<1> DEFINE Answers ==
  \A d \in Callers : call'[d].answer # Nobody =>
     call'[d].pc = "done" /\ call'[call'[d].answer].answer = call'[d].answer
<1> DEFINE Keeps == \A rec \in Record : Vouched(rec, call) => Vouched(rec, call')
<1>3. ASSUME NEW c \in Callers, call[c].pc # "done", NEW l \in Labels, Goto(c, l)
      PROVE  Answers /\ Keeps
  BY <1>3, OneCallAnswers
<1>4. ASSUME NEW c \in Callers, call[c].pc # "done", Return(c, Nobody)
      PROVE  Answers /\ Keeps
  BY <1>4, OneCallAnswers
<1>5. ASSUME NEW c \in Callers, call[c].pc # "done", Return(c, c)
      PROVE  Answers /\ Keeps /\ call'[c].answer = c
  BY <1>5, OneCallAnswers
<1>6. ASSUME NEW c \in Callers, call[c].pc # "done", NEW rec \in Record, Vouched(rec, call),
             Replay(c, rec)
      PROVE  Answers /\ Keeps
  <2>1. CASE rec.status = "SUCCESS" /\ Return(c, rec.by)
    <3>1. rec.by \in Callers /\ call[rec.by].answer = rec.by
      BY <1>6, <2>1 DEF Vouched
    <3> QED
      BY <1>6, <2>1, <3>1, OneCallAnswers
  <2>2. CASE Return(c, Nobody) \/ Goto(c, "wait")
    BY <1>3, <1>4, <1>6, <2>2
  <2> QED
    BY <1>6, <2>1, <2>2 DEF Replay
<1> HIDE DEF Answers, Keeps
<1>7. ASSUME Answers, Keeps, Vouched(row', call'), NEW c \in Callers, NEW rec \in Record,
             Vouched(rec, call'), Remember(c, rec) \/ UNCHANGED mem
      PROVE  AllVouched'
  <2>1. \A h \in Hosts : Vouched(mem'[h], call')
    BY <1>7, RecordsAreVouched DEF Keeps
  <2> QED
    BY <1>7, <2>1 DEF AllVouched, Answers
<1>8. Keeps => Vouched(row, call') /\ \A h \in Hosts : Vouched(mem[h], call')
  BY <1>1, <1>2 DEF Keeps
<1>9. \A c \in Callers : \A calls : Vouched(Written("PENDING", c), calls) /\ Vouched(NoRecord, calls)
                                    /\ Vouched(Written("FAILED", c), calls)
  BY DEF Vouched, Written, NoRecord
<1>10. \A c \in Callers : HostOf[c] \in Hosts
  BY CallerAssumption
<1>11. ASSUME NEW c \in Callers, Claim(c) PROVE AllVouched'
  <2>0. call[c].pc # "done"
    BY <1>11 DEF Claim
  <2>1. ASSUME Granted(c), row' \in {row, Written("PENDING", c)} PROVE AllVouched'
    <3>1. Answers /\ Keeps /\ Remember(c, Written("PENDING", c))
      BY <1>3, <2>0, <2>1 DEF Granted
    <3> QED
      BY <1>7, <1>8, <1>9, <2>1, <3>1, WrittenType
  <2>2. ASSUME Goto(c, "wait") \/ Return(c, Nobody), row' \in {row, Written("PENDING", c)}, UNCHANGED mem
        PROVE  AllVouched'
    <3>1. Answers /\ Keeps
      BY <1>3, <1>4, <2>0, <2>2
    <3> QED
      BY <1>7, <1>8, <1>9, <2>2, <3>1, NoRecordType
  <2>3. ASSUME Goto(c, "wait"), UNCHANGED row,
               NEW rec \in {mem[HostOf[c]], row}, Remember(c, rec)
        PROVE  AllVouched'
    <3>1. Answers /\ Keeps
      BY <1>3, <2>0, <2>3
    <3>2. rec \in Record /\ Vouched(rec, call')
      BY <1>1, <1>8, <1>10, <2>3, <3>1
    <3> QED
      BY <1>7, <1>8, <2>3, <3>1, <3>2
  <2>4. CASE ClaimInStore(c)
    <3>1. CASE ~Live(row) /\ row' = Written("PENDING", c) /\ Granted(c)
      BY <2>1, <3>1
    <3>2. CASE ~(~Live(row) /\ row' = Written("PENDING", c) /\ Granted(c))
      <4> DEFINE rec == IF Postgres /\ mem[HostOf[c]].status # "absent"
                        THEN mem[HostOf[c]] ELSE row
      <4>1. Remember(c, rec) /\ Goto(c, "wait") /\ UNCHANGED <<row, granted>>
        BY <2>4, <3>2 DEF ClaimInStore
      <4>2. rec \in {mem[HostOf[c]], row}
        OBVIOUS
      <4> HIDE DEF rec
      <4> QED
        BY <2>3, <4>1, <4>2
    <3> QED
      BY <3>1, <3>2
  <2>5. CASE ClaimWithoutStore(c)
    <3>1. CASE ~Postgres
      <4>1. Return(c, Nobody) /\ UNCHANGED <<row, mem, granted>>
        BY <2>5, <3>1 DEF ClaimWithoutStore
      <4> QED
        BY <2>2, <4>1
    <3>2. CASE Postgres
      <4>1. row' \in {row, Written("PENDING", c)}
        BY <2>5, <3>2 DEF ClaimWithoutStore, LostAnswer
      <4>2. Granted(c) \/ (Goto(c, "wait") /\ UNCHANGED <<mem, granted>>)
        BY <2>5, <3>2 DEF ClaimWithoutStore
      <4> QED
        BY <2>1, <2>2, <4>1, <4>2
    <3> QED
      BY <3>1, <3>2
  <2> QED
    BY <1>11, <2>4, <2>5 DEF Claim
<1>12. ASSUME NEW c \in Callers, RunTool(c) PROVE AllVouched'
  <2>1. call[c].pc # "done" /\ UNCHANGED <<row, mem>> /\ (Goto(c, "succeed") \/ Goto(c, "failing"))
    BY <1>12 DEF RunTool
  <2>2. Answers /\ Keeps
    BY <1>3, <2>1
  <2> QED
    BY <1>7, <1>8, <1>9, <2>1, <2>2, NoRecordType
<1>13. ASSUME NEW c \in Callers, NEW s \in Statuses, Mark(c, s), Answers, Keeps, Vouched(Written(s, c), call')
       PROVE  AllVouched'
  <2>1. row' \in {row, Written(s, c)} /\ (Remember(c, Written(s, c)) \/ UNCHANGED mem)
    BY <1>13 DEF Mark, LostAnswer
  <2> QED
    BY <1>7, <1>8, <1>13, <2>1, WrittenType
<1>14. ASSUME NEW c \in Callers, MarkSuccess(c) PROVE AllVouched'
  <2>1. call[c].pc # "done" /\ Mark(c, "SUCCESS") /\ Return(c, c)
    BY <1>14 DEF MarkSuccess
  <2>2. Answers /\ Keeps /\ call'[c].answer = c
    BY <1>5, <2>1
  <2>3. Vouched(Written("SUCCESS", c), call')
    BY <2>2 DEF Vouched, Written
  <2> QED
    BY <1>13, <2>1, <2>2, <2>3
<1>15. ASSUME NEW c \in Callers, MarkFailed(c) PROVE AllVouched'
  <2>1. call[c].pc # "done" /\ Mark(c, "FAILED") /\ Return(c, Nobody)
    BY <1>15 DEF MarkFailed
  <2>2. Answers /\ Keeps
    BY <1>4, <2>1
  <2> QED
    BY <1>9, <1>13, <2>1, <2>2
<1>16. ASSUME NEW c \in Callers, Get(c) PROVE AllVouched'
  <2>0. call[c].pc # "done" /\ UNCHANGED row
    BY <1>16 DEF Get
  <2>1. ASSUME NEW rec \in {row, mem[HostOf[c]], NoRecord}, Remember(c, rec), Replay(c, rec)
        PROVE  AllVouched'
    <3>1. rec \in Record /\ Vouched(rec, call)
      BY <1>1, <1>2, <1>9, <1>10, NoRecordType
    <3>2. Answers /\ Keeps
      BY <1>6, <2>0, <2>1, <3>1
    <3>3. Vouched(rec, call')
      BY <3>1, <3>2 DEF Keeps
    <3> QED
      BY <1>7, <1>8, <2>0, <2>1, <3>1, <3>2, <3>3
  <2>2. CASE FromMemory(c)
    <3> DEFINE rec == IF Live(mem[HostOf[c]]) THEN mem[HostOf[c]] ELSE NoRecord
    <3>1. Remember(c, rec) /\ Replay(c, rec)
      BY <2>2 DEF FromMemory
    <3>2. rec \in {row, mem[HostOf[c]], NoRecord}
      OBVIOUS
    <3> HIDE DEF rec
    <3> QED
      BY <2>1, <3>1, <3>2
  <2>3. CASE (Goto(c, "purge") \/ Return(c, Nobody)) /\ UNCHANGED mem
    <3>1. Answers /\ Keeps
      BY <1>3, <1>4, <2>0, <2>3
    <3> QED
      BY <1>7, <1>8, <1>9, <2>0, <2>3, <3>1, NoRecordType
  <2>4. \/ Remember(c, row) /\ Replay(c, row)
        \/ FromMemory(c)
        \/ Goto(c, "purge") /\ UNCHANGED mem
        \/ Return(c, Nobody) /\ UNCHANGED mem
    BY <1>16 DEF Get
  <2> QED
    BY <2>1, <2>2, <2>3, <2>4
<1>17. ASSUME NEW c \in Callers, Purge(c) PROVE AllVouched'
  <2>1. call[c].pc # "done" /\ row' \in {row, NoRecord} /\ Remember(c, NoRecord) /\ Replay(c, NoRecord)
    BY <1>17 DEF Purge
  <2>2. Answers /\ Keeps
    BY <1>6, <1>9, <2>1, NoRecordType
  <2> QED
    BY <1>7, <1>8, <1>9, <2>1, <2>2, NoRecordType
<1>18. ASSUME Expire PROVE AllVouched'
  <2>1. call' = call
    BY <1>18 DEF Expire
  <2>2. row'.status = row.status /\ row'.by = row.by
    BY <1>1, <1>18 DEF Expire, RowExpires, MemExpires, Record
  <2>3. \A h \in Hosts : mem'[h].status = mem[h].status /\ mem'[h].by = mem[h].by
    BY <1>1, <1>18 DEF Expire, RowExpires, MemExpires, Record
  <2>4. Vouched(row', call')
    BY <1>2, <2>1, <2>2 DEF Vouched
  <2>5. \A h \in Hosts : Vouched(mem'[h], call')
    BY <1>2, <2>1, <2>3 DEF Vouched
  <2>6. \A c \in Callers : call'[c].answer # Nobody =>
          call'[c].pc = "done" /\ call'[call'[c].answer].answer = call'[c].answer
    BY <2>1 DEF AllVouched
  <2> QED
    BY <2>4, <2>5, <2>6 DEF AllVouched
<1>19. ASSUME NEW h \in Hosts, Crash(h) PROVE AllVouched'
  <2>1. \A c \in Callers : call'[c] = call[c] \/ (call[c].pc # "done" /\ call'[c].answer = Nobody)
    BY <1>1, <1>19 DEF Crash
  <2>2. \A c \in Callers : call[c].answer # Nobody => call'[c] = call[c]
    BY <2>1 DEF AllVouched
  <2>3. row' = row /\ \A i \in Hosts : mem'[i] \in {mem[i], NoRecord}
    BY <1>1, <1>19 DEF Crash
  <2>4. \A rec \in Record : Vouched(rec, call) => Vouched(rec, call')
    BY <1>1, <2>2 DEF Vouched
  <2>5. Vouched(row', call') /\ \A i \in Hosts : Vouched(mem'[i], call')
    <3>1. \A i \in Hosts : Vouched(mem[i], call') /\ Vouched(NoRecord, call')
      BY <1>1, <1>2, <2>4 DEF Vouched, NoRecord
    <3> QED
      BY <1>1, <1>2, <2>3, <2>4, <3>1
  <2>6. \A c \in Callers : call'[c].answer # Nobody =>
          call'[c].pc = "done" /\ call'[call'[c].answer].answer = call'[c].answer
    <3>1. SUFFICES ASSUME NEW c \in Callers, call'[c].answer # Nobody
                   PROVE  call'[c].pc = "done" /\ call'[call'[c].answer].answer = call'[c].answer
      OBVIOUS
    <3>2. call'[c] = call[c]
      BY <2>1, <3>1
    <3>3. call[c].pc = "done" /\ call[call[c].answer].answer = call[c].answer /\ call[c].answer \in Callers
      BY <1>1, <3>1, <3>2 DEF AllVouched
    <3>4. call[c].answer # Nobody
      BY <3>1, <3>2
    <3> QED
      BY <1>1, <2>2, <3>2, <3>3, <3>4
  <2> QED
    BY <2>5, <2>6 DEF AllVouched
<1>20. ASSUME UNCHANGED vars PROVE AllVouched'
  BY <1>20 DEF vars, AllVouched, Vouched
<1> QED
  BY <1>11, <1>12, <1>14, <1>15, <1>16, <1>17, <1>18, <1>19, <1>20 DEF Next

(* Before the first claim nobody has an answer. *)
LEMMA VouchedInitially == Init => AllVouched
  BY DEF Init, AllVouched, Vouched, NoRecord

-----------------------------------------------------------------------------
(* A call that was let run the tool and has not said how that ended.       *)
Running(c) == call[c].pc \in {"tool", "succeed", "failing"}

(* The executions that anything is known of: those that run, those of a    *)
(* record and those whose value was returned.                              *)
Known ==
  {c \in Callers : Running(c)} \cup
  {rec.by : rec \in {r \in {row} \cup {mem[h] : h \in Hosts} : r.status # "absent"}} \cup
  ({call[c].answer : c \in Callers} \ {Nobody})

(* Until a TTL passes all that is known is of one execution, and when its  *)
(* record is settled it has ended.                                         *)
OneExecution ==
  expired = 0 =>
    /\ granted = 0 => Known = {}
    /\ \A c, d \in Known : c = d
    /\ Settled(row) => \A c \in Callers : ~Running(c)

(* What is known after a step is in any set that its parts are in. *)
LEMMA KnownAfter ==
  ASSUME NEW S,
         \A c \in Callers : Running(c)' => c \in S,
         row'.status # "absent" => row'.by \in S,
         \A h \in Hosts : mem'[h].status # "absent" => mem'[h].by \in S,
         \A c \in Callers : call'[c].answer # Nobody => call'[c].answer \in S
  PROVE  Known' \subseteq S
<1> SUFFICES ASSUME NEW k \in Known' PROVE k \in S
  OBVIOUS
<1>1. CASE k \in Callers /\ Running(k)'
  BY <1>1
<1>2. CASE \E r \in {row'} \cup {mem'[h] : h \in Hosts} : r.status # "absent" /\ k = r.by
  BY <1>2
<1>3. CASE \E c \in Callers : k = call'[c].answer /\ k # Nobody
  BY <1>3
<1> QED
  BY <1>1, <1>2, <1>3 DEF Known

(* The parts are known. *)
LEMMA PartsAreKnown ==
  /\ \A c \in Callers : Running(c) => c \in Known
  /\ row.status # "absent" => row.by \in Known
  /\ \A h \in Hosts : mem[h].status # "absent" => mem[h].by \in Known
  /\ \A c \in Callers : call[c].answer # Nobody => call[c].answer \in Known
  BY DEF Known

(* A step that lets nobody run, and writes no record but those there are or *)
(* one of the call that runs.                                               *)
LEMMA KnownStays ==
  ASSUME OneExecution, expired = 0, expired' = 0, granted' = granted,
         \A d \in Callers : Running(d)' => Running(d),
         row'.status # "absent" => row'.by \in Known,
         \A h \in Hosts : mem'[h].status # "absent" => mem'[h].by \in Known,
         \A d \in Callers : call'[d].answer # Nobody => call'[d].answer \in Known,
         Settled(row)' => \A d \in Callers : ~Running(d)'
  PROVE  OneExecution'
<1>1. Known' \subseteq Known
  <2>1. \A d \in Callers : Running(d)' => d \in Known
    BY PartsAreKnown
  <2> QED
    BY <2>1, KnownAfter
<1>2. (granted = 0 => Known = {}) /\ \A c, d \in Known : c = d
  BY DEF OneExecution
<1>3. (granted' = 0 => Known' = {}) /\ \A c, d \in Known' : c = d
  BY <1>1, <1>2
<1> QED
  BY <1>3 DEF OneExecution

(* Where the store decides every step keeps it to one execution. *)
LEMMA OneExecutionStep ==
  ASSUME StoreDecides, TypeOK, Occupied, OneExecution, Next PROVE OneExecution'
<1> SUFFICES ASSUME expired' = 0 PROVE OneExecution'
  BY DEF OneExecution
<1>1. expired = 0 /\ ~Expire
  <2>1. ~Expire
    BY BoundAssumption, SMT DEF Expire, TypeOK
  <2> QED
    BY <2>1 DEF Next, Claim, RunTool, MarkSuccess, MarkFailed, Get, Purge, Crash
<1>2. /\ row \in Record /\ mem \in [Hosts -> Record]
      /\ call \in [Callers -> [pc : Labels, answer : Callers \cup {Nobody}]]
      /\ granted \in Nat /\ granted <= 1
      /\ granted = 1 => Live(row)
      /\ row.status # "absent" => row.fresh
      /\ \A c \in Callers : call[c].pc # "purge"
      /\ \A c \in Callers : HostOf[c] \in Hosts
  BY <1>1, CallerAssumption DEF Occupied, TypeOK
<1>3. /\ granted = 0 => Known = {}
      /\ \A c, d \in Known : c = d
      /\ Settled(row) => \A c \in Callers : ~Running(c)
  BY <1>1 DEF OneExecution
<1>4. row.status # "absent" => row.by \in Known
  BY PartsAreKnown
<1>5. \A h \in Hosts : mem[h].status # "absent" => mem[h].by \in Known
  BY PartsAreKnown
<1>6. \A c \in Callers : call[c].answer # Nobody => call[c].answer \in Known
  BY PartsAreKnown
<1>7. \A c \in Callers : Running(c) => c \in Known
  BY PartsAreKnown
<1>8. ASSUME NEW c \in Callers, NEW l \in Labels, Goto(c, l), Running(c)' => Running(c)
      PROVE  /\ \A d \in Callers : Running(d)' => Running(d)
             /\ \A d \in Callers : call'[d].answer # Nobody => call'[d].answer \in Known
  BY <1>2, <1>6, <1>8 DEF Goto, Running
<1>9. ASSUME NEW c \in Callers, NEW a \in Known \cup {Nobody}, Return(c, a)
      PROVE  /\ \A d \in Callers : Running(d)' => Running(d) /\ d # c
             /\ \A d \in Callers : call'[d].answer # Nobody => call'[d].answer \in Known
  BY <1>2, <1>6, <1>9 DEF Return, Running
<1>10. ASSUME NEW c \in Callers, NEW rec \in Record, rec.status # "absent" => rec.by \in Known,
              Remember(c, rec)
       PROVE  \A h \in Hosts : mem'[h].status # "absent" => mem'[h].by \in Known
  <2>1. \A h \in Hosts : mem'[h] = mem[h] \/ mem'[h] = rec
    BY <1>2, <1>10 DEF Remember
  <2> QED
    BY <1>5, <1>10, <2>1
<1>11. ASSUME NEW c \in Callers, ~Running(c), NEW rec \in Record, rec.status # "absent" => rec.by \in Known,
              Replay(c, rec)
       PROVE  /\ \A d \in Callers : Running(d)' => Running(d)
              /\ \A d \in Callers : call'[d].answer # Nobody => call'[d].answer \in Known
  <2>1. CASE Goto(c, "wait")
    <3>1. Running(c)' => Running(c)
      BY <1>2, <2>1 DEF Goto, Running
    <3> QED
      BY <1>8, <2>1, <3>1
  <2>2. CASE Return(c, Nobody)
    BY <1>9, <2>2
  <2>3. CASE rec.status = "SUCCESS" /\ Return(c, rec.by)
    <3>1. rec.by \in Known
      BY <1>11, <2>3
    <3> QED
      BY <1>9, <2>3, <3>1
  <2> QED
    BY <1>11, <2>1, <2>2, <2>3 DEF Replay
<1>12. ASSUME NEW c \in Callers, Claim(c) PROVE OneExecution'
  <2>1. CASE ~Live(row) /\ row' = Written("PENDING", c) /\ Granted(c)
    <3>1. row.status = "absent" /\ granted = 0
      BY <1>2, <2>1 DEF Live
    <3>2. Known = {}
      BY <1>3, <3>1
    <3>3. Remember(c, Written("PENDING", c)) /\ granted' = granted + 1 /\ Goto(c, "tool")
      BY <2>1 DEF Granted
    <3>4. \A d \in Callers : Running(d)' => d \in {c}
      BY <1>2, <1>7, <3>2, <3>3 DEF Goto, Running
    <3>5. \A d \in Callers : call'[d].answer # Nobody => call'[d].answer \in {c}
      BY <1>2, <1>6, <3>2, <3>3 DEF Goto
    <3>6. \A h \in Hosts : mem'[h].status # "absent" => mem'[h].by \in {c}
      BY <1>2, <1>5, <3>2, <3>3 DEF Remember, Written
    <3>7. row'.by = c /\ row'.status = "PENDING"
      BY <2>1 DEF Written
    <3>8. Known' \subseteq {c}
      BY <3>4, <3>5, <3>6, <3>7, KnownAfter
    <3>9. granted' # 0 /\ ~Settled(row)'
      BY <1>2, <3>3, <3>7 DEF Settled
    <3> QED
      BY <3>8, <3>9 DEF OneExecution
  <2>2. CASE UNCHANGED <<row, mem, granted>> /\ Return(c, Nobody)
    <3>1. /\ \A d \in Callers : Running(d)' => Running(d)
          /\ \A d \in Callers : call'[d].answer # Nobody => call'[d].answer \in Known
      BY <1>9, <2>2
    <3>2. Settled(row)' => \A d \in Callers : ~Running(d)'
      BY <1>3, <2>2, <3>1 DEF Settled
    <3> QED
      BY <1>1, <1>4, <1>5, <2>2, <3>1, <3>2, KnownStays
  <2>3. ASSUME Live(row), UNCHANGED <<row, granted>>, Goto(c, "wait"),
               NEW rec \in {row, mem[HostOf[c]]}, Remember(c, rec)
        PROVE  OneExecution'
    <3>1. Running(c)' => Running(c)
      BY <1>2, <2>3 DEF Goto, Running
    <3>2. /\ \A d \in Callers : Running(d)' => Running(d)
          /\ \A d \in Callers : call'[d].answer # Nobody => call'[d].answer \in Known
      BY <1>8, <2>3, <3>1
    <3>3. Settled(row)' => \A d \in Callers : ~Running(d)'
      BY <1>3, <2>3, <3>2 DEF Settled
    <3>4. rec \in Record /\ (rec.status # "absent" => rec.by \in Known)
      BY <1>2, <1>4, <1>5
    <3>5. \A h \in Hosts : mem'[h].status # "absent" => mem'[h].by \in Known
      BY <1>10, <2>3, <3>4
    <3> QED
      BY <1>1, <1>4, <2>3, <3>2, <3>3, <3>5, KnownStays
  <2>4. CASE ClaimInStore(c) /\ ~(~Live(row) /\ row' = Written("PENDING", c) /\ Granted(c))
    <3> DEFINE rec == IF Postgres /\ mem[HostOf[c]].status # "absent"
                      THEN mem[HostOf[c]] ELSE row
    <3>1. Live(row) /\ Remember(c, rec) /\ Goto(c, "wait") /\ UNCHANGED <<row, granted>>
      BY <2>4 DEF ClaimInStore
    <3>2. rec \in {row, mem[HostOf[c]]}
      OBVIOUS
    <3> HIDE DEF rec
    <3> QED
      BY <2>3, <3>1, <3>2
  <2>5. CASE ClaimWithoutStore(c)
    BY <2>2, <2>5 DEF ClaimWithoutStore, StoreDecides
  <2> QED
    BY <1>12, <2>1, <2>4, <2>5 DEF Claim
<1>13. ASSUME NEW c \in Callers, RunTool(c) PROVE OneExecution'
  <2>1. UNCHANGED <<row, mem, granted>> /\ call[c].pc = "tool" /\ (Goto(c, "succeed") \/ Goto(c, "failing"))
    BY <1>13 DEF RunTool
  <2>2. Running(c)
    BY <2>1 DEF Running
  <2>3. /\ \A d \in Callers : Running(d)' => Running(d)
        /\ \A d \in Callers : call'[d].answer # Nobody => call'[d].answer \in Known
    BY <1>8, <2>1, <2>2
  <2>4. Settled(row)' => \A d \in Callers : ~Running(d)'
    BY <1>3, <2>1, <2>3 DEF Settled
  <2> QED
    BY <1>1, <1>4, <1>5, <2>1, <2>3, <2>4, KnownStays
<1>14. ASSUME NEW c \in Callers, Running(c), NEW s \in {"SUCCESS", "FAILED"}, Mark(c, s), granted' = granted,
              NEW a \in {c, Nobody}, Return(c, a)
       PROVE  OneExecution'
  <2>1. c \in Known
    BY <1>7, <1>14
  <2>2. /\ \A d \in Callers : Running(d)' => Running(d) /\ d # c
        /\ \A d \in Callers : call'[d].answer # Nobody => call'[d].answer \in Known
    BY <1>9, <1>14, <2>1
  <2>3. \A d \in Callers : ~Running(d)'
    BY <1>3, <1>7, <2>1, <2>2
  <2>4. (row' = Written(s, c) /\ Remember(c, Written(s, c))) \/ UNCHANGED <<row, mem>>
    BY <1>14 DEF Mark, StoreDecides
  <2>5. Written(s, c) \in Record /\ Written(s, c).by \in Known
    BY <1>14, <2>1, WrittenType DEF Written
  <2>6. row'.status # "absent" => row'.by \in Known
    BY <1>4, <2>4, <2>5
  <2>7. \A h \in Hosts : mem'[h].status # "absent" => mem'[h].by \in Known
    BY <1>5, <1>10, <2>4, <2>5
  <2> QED
    BY <1>1, <1>14, <2>2, <2>3, <2>6, <2>7, KnownStays
<1>15. ASSUME NEW c \in Callers, MarkSuccess(c) \/ MarkFailed(c) PROVE OneExecution'
  <2>1. Running(c) /\ granted' = granted
    BY <1>15 DEF MarkSuccess, MarkFailed, Running
  <2>2. (Mark(c, "SUCCESS") /\ Return(c, c)) \/ (Mark(c, "FAILED") /\ Return(c, Nobody))
    BY <1>15 DEF MarkSuccess, MarkFailed
  <2> QED
    BY <1>14, <2>1, <2>2
<1>16. ASSUME NEW c \in Callers, Get(c) PROVE OneExecution'
  <2>0. UNCHANGED <<row, granted>> /\ ~Running(c)
    BY <1>16 DEF Get, Running
  <2>1. ASSUME NEW rec \in {row, mem[HostOf[c]], NoRecord}, Remember(c, rec), Replay(c, rec)
        PROVE  OneExecution'
    <3>1. rec \in Record /\ (rec.status # "absent" => rec.by \in Known)
      <4>1. NoRecord \in Record /\ NoRecord.status = "absent"
        BY NoRecordType DEF NoRecord
      <4> QED
        BY <1>2, <1>4, <1>5, <4>1
    <3>2. /\ \A d \in Callers : Running(d)' => Running(d)
          /\ \A d \in Callers : call'[d].answer # Nobody => call'[d].answer \in Known
      BY <1>11, <2>0, <2>1, <3>1
    <3>3. Settled(row)' => \A d \in Callers : ~Running(d)'
      BY <1>3, <2>0, <3>2 DEF Settled
    <3>4. \A h \in Hosts : mem'[h].status # "absent" => mem'[h].by \in Known
      BY <1>10, <2>1, <3>1
    <3> QED
      BY <1>1, <1>4, <2>0, <3>2, <3>3, <3>4, KnownStays
  <2>2. CASE FromMemory(c)
    <3> DEFINE rec == IF Live(mem[HostOf[c]]) THEN mem[HostOf[c]] ELSE NoRecord
    <3>1. Remember(c, rec) /\ Replay(c, rec)
      BY <2>2 DEF FromMemory
    <3>2. rec \in {row, mem[HostOf[c]], NoRecord}
      OBVIOUS
    <3> HIDE DEF rec
    <3> QED
      BY <2>1, <3>1, <3>2
  <2>3. ASSUME UNCHANGED mem, NEW l \in Labels, Goto(c, l) \/ Return(c, Nobody), l \in {"purge", "wait"}
        PROVE  OneExecution'
    <3>1. /\ \A d \in Callers : Running(d)' => Running(d)
          /\ \A d \in Callers : call'[d].answer # Nobody => call'[d].answer \in Known
      <4>1. CASE Return(c, Nobody)
        BY <1>9, <4>1
      <4>2. CASE Goto(c, l)
        <5>1. ~Running(c)'
          BY <1>2, <2>3, <4>2 DEF Goto, Running
        <5> QED
          BY <1>8, <4>2, <5>1
      <4> QED
        BY <2>3, <4>1, <4>2
    <3>2. Settled(row)' => \A d \in Callers : ~Running(d)'
      BY <1>3, <2>0, <3>1 DEF Settled
    <3> QED
      BY <1>1, <1>4, <1>5, <2>0, <2>3, <3>1, <3>2, KnownStays
  <2>4. \/ Remember(c, row) /\ Replay(c, row)
        \/ FromMemory(c)
        \/ Goto(c, "purge") /\ UNCHANGED mem
        \/ Return(c, Nobody) /\ UNCHANGED mem
    BY <1>16 DEF Get
  <2> QED
    BY <2>1, <2>2, <2>3, <2>4
<1>17. \A c \in Callers : ~Purge(c)
  BY <1>2 DEF Purge
<1>18. ASSUME NEW h \in Hosts, Crash(h) PROVE OneExecution'
  <2>1. UNCHANGED <<row, granted>> /\ \A i \in Hosts : mem'[i] \in {mem[i], NoRecord}
    BY <1>2, <1>18 DEF Crash
  <2>2. \A d \in Callers : call'[d] \in {call[d], [pc |-> "done", answer |-> Nobody]}
    BY <1>18 DEF Crash
  <2>3. /\ \A d \in Callers : Running(d)' => Running(d)
        /\ \A d \in Callers : call'[d].answer # Nobody => call'[d].answer \in Known
    BY <1>6, <2>2 DEF Running
  <2>4. \A i \in Hosts : mem'[i].status # "absent" => mem'[i].by \in Known
    BY <1>5, <2>1 DEF NoRecord
  <2>5. Settled(row)' => \A d \in Callers : ~Running(d)'
    BY <1>3, <2>1, <2>3 DEF Settled
  <2> QED
    BY <1>1, <1>4, <2>1, <2>3, <2>4, <2>5, KnownStays
<1> QED
  BY <1>1, <1>12, <1>13, <1>15, <1>16, <1>17, <1>18 DEF Next

(* All that is known of a key, where its store decides. *)
DecidedInv == StoreDecides => Occupied /\ OneExecution

(* The store of a deployment goes on deciding. *)
LEMMA DecidedStep == ASSUME TypeOK, DecidedInv, [Next]_vars PROVE DecidedInv'
<1> SUFFICES ASSUME StoreDecides' PROVE Occupied' /\ OneExecution'
  BY DEF DecidedInv
<1>1. StoreDecides
  BY SameDeployment DEF StoreDecides, Postgres, StoreAnswers
<1>2. Occupied /\ OneExecution
  BY <1>1 DEF DecidedInv
<1>3. CASE UNCHANGED vars
  BY <1>2, <1>3 DEF vars, Occupied, OneExecution, Known, Running, Live, Settled
<1> QED
  BY <1>1, <1>2, <1>3, OccupiedStep, OneExecutionStep

(* Before the first claim nothing is known. *)
LEMMA DecidedInitially == Init => DecidedInv
<1> SUFFICES ASSUME Init PROVE Occupied /\ OneExecution
  BY DEF DecidedInv
<1>1. row = NoRecord /\ mem = [h \in Hosts |-> NoRecord] /\ granted = 0
      /\ call = [c \in Callers |-> [pc |-> "claim", answer |-> Nobody]]
  BY DEF Init
<1>2. Occupied
  BY <1>1 DEF Occupied, NoRecord
<1>3. Known = {}
  BY <1>1 DEF Known, Running, NoRecord
<1>4. ~Settled(row)
  BY <1>1 DEF Settled, NoRecord
<1> QED
  BY <1>2, <1>3, <1>4 DEF OneExecution

(* What a call that did not run the tool is told is the value of an         *)
(* execution that succeeded, in every deployment and whatever fails; and    *)
(* where the store decides all calls are told of the same one until a TTL   *)
(* passes.                                                                  *)
THEOREM RepliesAreSound == Spec => []RepliesAreRight
<1>1. AllVouched /\ TypeOK => ReplaysAreReal
  BY DEF AllVouched, ReplaysAreReal, TypeOK
<1>2. DecidedInv => AnswersAgree
  <2> SUFFICES ASSUME DecidedInv, StoreDecides, expired = 0, NEW c \in Callers, NEW d \in Callers,
                      call[c].answer # Nobody, call[d].answer # Nobody
               PROVE  call[c].answer = call[d].answer
    BY DEF AnswersAgree
  <2>1. call[c].answer \in Known /\ call[d].answer \in Known
    BY PartsAreKnown
  <2> QED
    BY <2>1 DEF DecidedInv, OneExecution
<1>3. AllVouched /\ TypeOK /\ DecidedInv => RepliesAreRight
  BY <1>1, <1>2 DEF RepliesAreRight
<1>4. TypeOK /\ AllVouched /\ [Next]_vars => AllVouched'
  BY VouchedStep
<1>5. TypeOK /\ DecidedInv /\ [Next]_vars => DecidedInv'
  BY DecidedStep
<1> QED
  BY <1>3, <1>4, <1>5, VouchedInitially, DecidedInitially, DedupTypeCorrect, PTL DEF Spec

(* A record that says how the execution ended is not changed, where the     *)
(* store decides, before its TTL passes.                                    *)
LEMMA SettledStays ==
  ASSUME TypeOK, DecidedInv, [Next]_vars, StoreDecides, expired = 0, Settled(row)
  PROVE  row' = [row EXCEPT !.fresh = row'.fresh]
<1>1. /\ \A c \in Callers : ~Running(c)
      /\ \A c \in Callers : call[c].pc # "purge"
      /\ row \in Record
  BY DEF DecidedInv, Occupied, OneExecution, TypeOK
<1>2. Live(row)
  BY DEF Settled, Live
<1>3. CASE row' = row
  BY <1>1, <1>3 DEF Record
<1>4. CASE row' = [row EXCEPT !.fresh = FALSE]
  BY <1>1, <1>4 DEF Record
<1>5. ASSUME NEW c \in Callers, Claim(c) PROVE row' = row
  BY <1>2, <1>5 DEF Claim, ClaimInStore, ClaimWithoutStore, StoreDecides
<1>6. \A c \in Callers : ~MarkSuccess(c) /\ ~MarkFailed(c) /\ ~RunTool(c)
  BY <1>1 DEF MarkSuccess, MarkFailed, RunTool, Running
<1>7. \A c \in Callers : ~Purge(c)
  BY <1>1 DEF Purge
<1>8. ASSUME NEW c \in Callers, Get(c) PROVE row' = row
  BY <1>8 DEF Get
<1>9. Expire => row' = row \/ row' = [row EXCEPT !.fresh = FALSE]
  BY DEF Expire, RowExpires, MemExpires
<1>10. \A h \in Hosts : Crash(h) => row' = row
  BY DEF Crash
<1>11. UNCHANGED vars => row' = row
  BY DEF vars
<1> QED
  BY <1>3, <1>4, <1>5, <1>6, <1>7, <1>8, <1>9, <1>10, <1>11 DEF Next

(* A key goes from PENDING to a final status once, while no TTL passes.     *)
THEOREM SettledOnce == Spec => SettledWithinTTL
<1>1. TypeOK /\ DecidedInv /\ [Next]_vars
        => [StoreDecides /\ expired = 0 /\ Settled(row) => row' = [row EXCEPT !.fresh = row'.fresh]]_vars
  BY SettledStays
<1>2. TypeOK /\ DecidedInv /\ [Next]_vars => DecidedInv'
  BY DecidedStep
<1> QED
  BY <1>1, <1>2, DecidedInitially, DedupTypeCorrect, PTL DEF Spec, SettledWithinTTL
=============================================================================
