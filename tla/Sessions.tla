------------------------------ MODULE Sessions ------------------------------
(***************************************************************************)
(* A session of session/store.py: messages that writers append while a     *)
(* client that lost its connection resumes after the last message it has,  *)
(* and the tool calls of a run, which are recorded under a key so that a   *)
(* repeated call does not have its effect twice.                           *)
(*                                                                         *)
(* Transactions are READ COMMITTED.  A message gets its id, an identity    *)
(* column, when it is inserted and is seen when its transaction commits,   *)
(* after the update of the session.                                        *)
(***************************************************************************)
EXTENDS Integers, Sequences, FiniteSets

CONSTANTS
    Appenders,   \* transactions that append a message each
    PageLimit,   \* limit of list_messages
    MaxPages,    \* bound: pages the client asks for
    Repeats,     \* callers that record a tool call with one key
    NoOne

ASSUME PageLimitAssumption == PageLimit \in Nat \ {0}
ASSUME NoOneAssumption == NoOne \notin Repeats

VARIABLES
    appender,    \* state and message id of each append
    nextId,      \* the identity column of messages
    messages,    \* the committed messages: ids in the order of the commits
    lastEvent,   \* last_event_id of the client
    pages,       \* history: the messages of each page it got
    overtaken,   \* history: messages that committed behind lastEvent
    toolCall,    \* the row of tool_calls with the key
    repeat,      \* the callers of record_tool_call
    effects      \* history: callers that ran the tool

sessionVars == <<appender, nextId, messages, lastEvent, pages, overtaken, toolCall, repeat, effects>>

messageVars == <<appender, nextId, messages, lastEvent, pages, overtaken>>
toolVars == <<toolCall, repeat, effects>>

Ids(seq) == {seq[k] : k \in DOMAIN seq}

NoCall == [by |-> NoOne, status |-> "none", result |-> NoOne]

SessionInit ==
    /\ appender = [a \in Appenders |-> [at |-> "new", id |-> 0]]
    /\ nextId = 1
    /\ messages = <<>>
    /\ lastEvent = 0
    /\ pages = <<>>
    /\ overtaken = {}
    /\ toolCall = NoCall
    /\ repeat = [c \in Repeats |-> [at |-> "new", got |-> NoCall]]
    /\ effects = <<>>

-----------------------------------------------------------------------------
(* append_message: the INSERT, which takes an id for good. *)
InsertMessage(a) ==
    /\ appender[a].at = "new"
    /\ appender' = [appender EXCEPT ![a] = [at |-> "open", id |-> nextId]]
    /\ nextId' = nextId + 1
    /\ UNCHANGED <<messages, lastEvent, pages, overtaken, toolVars>>

(* append_message: the update of the session and the commit, or neither. *)
CommitMessage(a) ==
    /\ appender[a].at = "open"
    /\ appender' = [appender EXCEPT ![a].at = "done"]
    /\ LET id == appender[a].id
       IN  \/ /\ messages' = Append(messages, id)
              /\ overtaken' = IF id < lastEvent THEN overtaken \cup {id} ELSE overtaken
           \/ UNCHANGED <<messages, overtaken>>
    /\ UNCHANGED <<nextId, lastEvent, pages, toolVars>>

(* The ids after the cursor, in order, at most PageLimit of them. *)
Page(after) ==
    LET later == {i \in Ids(messages) : i > after}
        rank(i) == Cardinality({j \in later : j <= i})
        first == {i \in later : rank(i) <= PageLimit}
    IN  [k \in 1 .. Cardinality(first) |-> CHOOSE i \in first : rank(i) = k]

(* last_event_id *)
LastEvent(page) == IF page = <<>> THEN lastEvent ELSE page[Len(page)]

(* resume_session, with the cursor of the last time. *)
ResumeSession ==
    /\ Len(pages) < MaxPages
    /\ LET page == Page(lastEvent)
       IN  /\ pages' = Append(pages, page)
           /\ lastEvent' = LastEvent(page)
    /\ UNCHANGED <<appender, nextId, messages, overtaken, toolVars>>

-----------------------------------------------------------------------------
(* ON CONFLICT (tenant_id, idempotency_key) DO NOTHING *)
Inserts == toolCall.status = "none"

(* record_tool_call: the row is the caller's, or the caller gets what is    *)
(* there.  The transaction may roll back, or commit and lose the answer,   *)
(* and either way the caller gives up.                                     *)
RecordToolCall(c) ==
    /\ repeat[c].at = "new"
    /\ LET mine == [by |-> c, status |-> "PENDING", result |-> NoOne]
       IN  \/ /\ Inserts
              /\ toolCall' = mine
              /\ \E answered \in BOOLEAN :
                   repeat' = [repeat EXCEPT ![c] = IF answered THEN [at |-> "first", got |-> mine]
                                                   ELSE [at |-> "gone", got |-> NoCall]]
           \/ /\ ~Inserts
              /\ repeat' = [repeat EXCEPT ![c] = [at |-> "done", got |-> toolCall]]
              /\ UNCHANGED toolCall
           \/ repeat' = [repeat EXCEPT ![c].at = "gone"] /\ UNCHANGED toolCall
    /\ UNCHANGED <<messageVars, effects>>

(* The caller that recorded first runs the tool, or dies. *)
RunIt(c) ==
    /\ repeat[c].at = "first"
    /\ \/ repeat' = [repeat EXCEPT ![c].at = "ran"] /\ effects' = Append(effects, c)
       \/ repeat' = [repeat EXCEPT ![c].at = "gone"] /\ UNCHANGED effects
    /\ UNCHANGED <<messageVars, toolCall>>

(* WHERE ... AND status = 'PENDING' *)
Completes == toolCall.status = "PENDING"

(* complete_tool_call; the call may be repeated, and with another outcome,  *)
(* when its answer was lost.                                               *)
CompleteToolCall(c) ==
    /\ repeat[c].at = "ran"
    /\ \E status \in {"SUCCESS", "FAILED"}, answered \in BOOLEAN :
         LET after == IF Completes THEN [toolCall EXCEPT !.status = status, !.result = c] ELSE toolCall
         IN  /\ toolCall' = after
             /\ repeat' = IF answered THEN [repeat EXCEPT ![c] = [at |-> "done", got |-> after]] ELSE repeat
    /\ UNCHANGED <<messageVars, effects>>

SessionNext ==
    \/ \E a \in Appenders : InsertMessage(a) \/ CommitMessage(a)
    \/ ResumeSession
    \/ \E c \in Repeats : RecordToolCall(c) \/ RunIt(c) \/ CompleteToolCall(c)

SessionSpec == SessionInit /\ [][SessionNext]_sessionVars

-----------------------------------------------------------------------------
(* What the client has been sent. *)
Received == UNION {Ids(pages[k]) : k \in DOMAIN pages}

(* Nothing the client resumes with is sent twice, and each page goes on     *)
(* behind the one before.                                                  *)
PagesGoOn ==
    \A j, k \in DOMAIN pages : j < k =>
        \A x \in Ids(pages[j]), y \in Ids(pages[k]) : x < y

(* A message is never passed over: what is behind the cursor of the client  *)
(* has been sent to it, whatever the limit of a page, except a message     *)
(* that committed after one with a higher id was sent.                     *)
OnlyLateIsSkipped ==
    \A i \in Ids(messages) : i \in Received \/ i > lastEvent \/ i \in overtaken

(* One key, one effect: however often a call is recorded, by whom, and      *)
(* whatever answers are lost, the tool runs at most once.                  *)
OneEffectPerKey == Len(effects) <= 1

(* The first outcome stands: every caller that was told an outcome was told *)
(* the one in the row, also one whose call to complete it came twice.      *)
OutcomeStands ==
    \A c \in Repeats :
        repeat[c].got.status \in {"SUCCESS", "FAILED"} => repeat[c].got = toolCall

(* What a session keeps: a client that resumes misses only late messages and    *)
(* gets none twice, a key has one effect and one outcome.                       *)
SessionInv ==
    /\ PagesGoOn
    /\ OnlyLateIsSkipped
    /\ OneEffectPerKey
    /\ OutcomeStands
=============================================================================
