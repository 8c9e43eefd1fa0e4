----------------------------- MODULE WsChannels -----------------------------
(***************************************************************************)
(* The WebSockets of one user in one worker (api/ws.py): they share a      *)
(* channel, its heartbeat record and its presence key in Redis, which only *)
(* this worker writes.  Beside the handlers of the sockets a monitor       *)
(* evicts a channel from which nothing was heard for TIMEOUT.  Steps       *)
(* between two awaits of the event loop are atomic.                        *)
(***************************************************************************)
EXTENDS Integers, FiniteSets

CONSTANTS
    Sockets,
    Timeout,          \* TIMEOUT, in periods of a server keepalive
    MaxKeepalives     \* MAX_SERVER_KEEPALIVES

ASSUME TimeoutAssumption == Timeout \in Nat \ {0}
ASSUME MaxKeepalivesAssumption == MaxKeepalives \in Nat

VARIABLES
    socket,        \* the handler of each socket
    conns,         \* manager._connections of the channel
    age,           \* time since _last_active of the channel; -1: no record
    keepalives,    \* _server_keepalives of the channel
    touched,       \* is the presence of the channel in _presence_touched?
    presence,      \* the key ws:online:{channel}
    monitor,       \* the check loop
    silence,       \* history: time since a client of the channel was heard
    mishaps        \* history: "redis" failed; the monitor "overslept" the closes;
                   \* it evicted a channel that was "heard"

wsVars == <<socket, conns, age, keepalives, touched, presence, monitor, silence, mishaps>>

WsInit ==
    /\ socket = [s \in Sockets |-> [pc |-> "new", ghost |-> FALSE]]
    /\ conns = {}
    /\ age = -1 /\ keepalives = 0
    /\ touched = FALSE /\ presence = FALSE
    /\ monitor = "asleep"
    /\ silence = 0
    /\ mishaps = {}

SocketAt(s, pc) == socket[s].pc = pc

Turns(s, pc) == socket' = [socket EXCEPT ![s].pc = pc]

Online == conns # {}

(* HeartbeatMonitor.record; a record that falls between the snapshot of the monitor and *)
(* its look under the lock is what the latter finds.                                    *)
Record ==
    /\ age' = 0
    /\ monitor' = IF monitor = "suspects" THEN "reassured" ELSE monitor

(* HeartbeatMonitor.remove *)
Forget == age' = -1 /\ keepalives' = 0

-----------------------------------------------------------------------------
(* ws_trace, ws_query *)

(* manager.connect, then the record without an await between. *)
Connect(s) ==
    /\ SocketAt(s, "new")
    /\ conns' = conns \cup {s}
    /\ Record
    /\ keepalives' = 0 /\ silence' = 0
    /\ Turns(s, "online")
    /\ UNCHANGED <<touched, presence, mishaps>>

(* A command that makes the key be there or not, or fails. *)
Redis(there) ==
    \/ presence' = there /\ UNCHANGED mishaps
    \/ presence' \in {there, presence} /\ mishaps' = mishaps \cup {"redis"}

(* mark_online: SET *)
MarkOnline(s) ==
    /\ SocketAt(s, "online")
    /\ Redis(TRUE)
    /\ Turns(s, "open")
    /\ UNCHANGED <<conns, age, keepalives, touched, monitor, silence>>

(* refresh_presence, throttled: only the first within 30 seconds asks Redis. *)
Refresh(s) ==
    /\ touched' = TRUE
    /\ Turns(s, IF touched THEN "open" ELSE "online")

(* Any message of the client counts. *)
Receive(s) ==
    /\ SocketAt(s, "open") /\ ~socket[s].ghost
    /\ Record
    /\ keepalives' = 0 /\ silence' = 0
    /\ Refresh(s)
    /\ UNCHANGED <<conns, presence, mishaps>>

(* A bug: every keepalive of the server counts for one of the client. *)
KeepaliveUnbounded(n) == 0

(* record resets the count, which record_keepalive therefore sets again. *)
Keepalive(n) == n

(* Nothing came within the timeout of receive: pong, and a bounded renewal.  To a socket *)
(* that was closed it cannot be sent, and the handler leaves.                           *)
ServerPong(s) ==
    LET n == keepalives + 1
    IN  /\ SocketAt(s, "open") /\ s \in conns
        /\ \/ /\ n <= MaxKeepalives
              /\ Record
              /\ keepalives' = Keepalive(n)
              /\ Refresh(s)
           \/ /\ n > MaxKeepalives
              /\ UNCHANGED <<age, keepalives, touched, monitor, socket>>
        /\ UNCHANGED <<conns, presence, silence, mishaps>>

(* The client is gone without a word: sends to it still succeed. *)
Vanish(s) ==
    /\ SocketAt(s, "open") /\ ~socket[s].ghost
    /\ socket' = [socket EXCEPT ![s].ghost = TRUE]
    /\ UNCHANGED <<conns, age, keepalives, touched, presence, monitor, silence, mishaps>>

(* The client disconnects, or a send finds it gone, or an evicted socket is closed. *)
Quit(s) ==
    /\ SocketAt(s, "open")
    /\ ~socket[s].ghost \/ s \notin conns
    /\ Turns(s, "finally")
    /\ UNCHANGED <<conns, age, keepalives, touched, presence, monitor, silence, mishaps>>

(* send_to: a socket that cannot be sent to is taken out, its handler goes on. *)
SendFails(s) ==
    /\ s \in conns /\ SocketAt(s, "open")
    /\ conns' = conns \ {s}
    /\ UNCHANGED <<socket, age, keepalives, touched, presence, monitor, silence, mishaps>>

(* manager.disconnect, which awaits the close. *)
DisconnectSocket(s) ==
    /\ SocketAt(s, "finally")
    /\ conns' = conns \ {s}
    /\ Turns(s, "closing")
    /\ UNCHANGED <<age, keepalives, touched, presence, monitor, silence, mishaps>>

(* The last of a channel clears its state. *)
Cleanup(s) ==
    /\ SocketAt(s, "closing")
    /\ \/ /\ Online
          /\ Turns(s, "done")
          /\ UNCHANGED <<age, keepalives, touched, monitor>>
       \/ /\ ~Online
          /\ Forget
          /\ touched' = FALSE
          /\ monitor' = IF monitor = "suspects" THEN "reassured" ELSE monitor
          /\ Turns(s, "offline")
    /\ UNCHANGED <<conns, presence, silence, mishaps>>

(* mark_offline: the key is deleted if it is of this worker; a failure is left to its *)
(* time to live.                                                                     *)
MarkOffline(s) ==
    /\ SocketAt(s, "offline")
    /\ Redis(FALSE)
    /\ Turns(s, "untouch")
    /\ UNCHANGED <<conns, age, keepalives, touched, monitor, silence>>

Untouch(s) ==
    /\ SocketAt(s, "untouch")
    /\ touched' = FALSE
    /\ Turns(s, "done")
    /\ UNCHANGED <<conns, age, keepalives, presence, monitor, silence, mishaps>>

-----------------------------------------------------------------------------
(* _check_loop *)

Stale == age > Timeout

Snapshot ==
    /\ monitor = "asleep" /\ Stale
    /\ monitor' = "suspects"
    /\ UNCHANGED <<socket, conns, age, keepalives, touched, presence, silence, mishaps>>

(* A bug: what the snapshot found is not looked at again. *)
StillSuspectUnchecked == monitor \in {"suspects", "reassured"}

StillSuspect == monitor = "suspects"

(* Under the lock, with the time of the snapshot. *)
Evict ==
    /\ StillSuspect
    /\ conns' = {}
    /\ monitor' = "closes"
    /\ mishaps' = mishaps \cup IF silence <= Timeout THEN {"heard"} ELSE {}
    /\ UNCHANGED <<socket, age, keepalives, touched, presence, silence>>

Spare ==
    /\ monitor = "reassured"
    /\ monitor' = "asleep"
    /\ UNCHANGED <<socket, conns, age, keepalives, touched, presence, silence, mishaps>>

(* After the closes: a record of somebody who came meanwhile stays. *)
Evicted ==
    /\ monitor = "closes"
    /\ monitor' = "asleep"
    /\ IF age = -1 \/ Stale
       THEN /\ Forget
            /\ touched' = FALSE
            /\ mishaps' = mishaps \cup IF Online THEN {"overslept"} ELSE {}
       ELSE UNCHANGED <<age, keepalives, touched, mishaps>>
    /\ UNCHANGED <<socket, conns, presence, silence>>

-----------------------------------------------------------------------------
Capped(a, b) == IF a < b THEN a ELSE b

(* 30 seconds pass: the throttle of the presence with them. *)
TickTock ==
    /\ age' = IF age = -1 THEN -1 ELSE Capped(age + 1, Timeout + 1)
    /\ silence' = Capped(silence + 1, Timeout + 1)
    /\ touched' = FALSE
    /\ UNCHANGED <<socket, conns, keepalives, presence, monitor, mishaps>>

(* The key lives for 90 seconds. *)
PresenceExpires ==
    /\ presence
    /\ presence' = FALSE
    /\ ~touched
    /\ UNCHANGED <<socket, conns, age, keepalives, touched, monitor, silence, mishaps>>

Check == Snapshot \/ Evict \/ Spare \/ Evicted

(* What a handler does by itself. *)
Handle(s) ==
    MarkOnline(s) \/ ServerPong(s) \/ DisconnectSocket(s) \/ Cleanup(s) \/ MarkOffline(s) \/ Untouch(s)

WsNext ==
    \/ \E s \in Sockets :
          Connect(s) \/ Receive(s) \/ Vanish(s) \/ Quit(s) \/ SendFails(s) \/ Handle(s)
    \/ Check
    \/ TickTock
    \/ PresenceExpires

WsSpec == WsInit /\ [][WsNext]_wsVars

(* The event loop runs its tasks, and time passes. *)
WsFairness ==
    /\ WF_wsVars(Check) /\ WF_wsVars(TickTock)
    /\ \A s \in Sockets : WF_wsVars(Handle(s))

-----------------------------------------------------------------------------
WsType ==
    /\ conns \subseteq Sockets
    /\ socket \in [Sockets -> [pc : {"new", "online", "open", "finally", "closing", "offline", "untouch", "done"},
                               ghost : BOOLEAN]]
    /\ age \in -1 .. Timeout + 1 /\ silence \in 0 .. Timeout + 1
    /\ keepalives \in 0 .. MaxKeepalives /\ touched \in BOOLEAN /\ presence \in BOOLEAN
    /\ monitor \in {"asleep", "suspects", "reassured", "closes"}

(* No socket is left out of the monitor's sight, whoever cleans up beside a reconnection; *)
(* only closes that take longer than TIMEOUT lose sight of one, until its next keepalive. *)
Monitored == Online /\ age = -1 => "overslept" \in mishaps

Pending == \E s \in Sockets : socket[s].pc \in {"online", "offline", "untouch"}

(* While Redis answers, a user without sockets is offline, and one with sockets whose *)
(* key was deleted beside a reconnection is back with the next message.               *)
PresenceFollows ==
    "redis" \notin mishaps =>
        /\ (\A s \in Sockets : socket[s].pc \in {"new", "done"}) => ~presence
        /\ Online /\ ~presence /\ touched => Pending

(* A channel of which a client was heard within TIMEOUT is not evicted, not even when its *)
(* message came after the monitor had taken note of the channel (api/ws.py:365).          *)
HeardIsNotEvicted == "heard" \notin mishaps

(* WsInv: what the sockets, the monitor and the clean-up of api/ws.py keep of a channel. *)
WsInv == WsType /\ Monitored /\ PresenceFollows /\ HeardIsNotEvicted

AllGhosts == Online /\ \A s \in Sockets : socket[s].pc \in {"online", "open"} => socket[s].ghost

(* Clients that vanish without a word are taken off the channel, if no other of its *)
(* clients is heard: the keepalives of the server do not keep them for ever.        *)
GhostsAreEvicted == AllGhosts ~> ~AllGhosts
=============================================================================
