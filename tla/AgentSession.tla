---------------------------- MODULE AgentSession ----------------------------
(***************************************************************************)
(* The life of the PC runner's connection (agent.py, ContractPcRunner):    *)
(* the connection thread dials, authenticates and receives, backs off and  *)
(* dials again, until stop() or DEVICE_REVOKED ends it.  Beside it run a   *)
(* heartbeat thread per connection, the tray's refresh thread, which sends *)
(* READY again when a registered folder changes, and the user, who quits.  *)
(* They share _state, _socket and _stopped without a lock.                 *)
(*                                                                         *)
(* What TASKs do is the subject of TaskDelivery; here the work that        *)
(* follows READY may only fail.  The folders and project workspaces a      *)
(* READY lists are the number of their latest change.                      *)
(***************************************************************************)
EXTENDS Naturals, Sequences

CONSTANTS
    MaxConn,        \* bound: connections over the whole behaviour
    MaxAttempts,    \* bound: _reconnect_attempt stops counting here
    MaxChanges      \* bound: changes of the registered folders

ASSUME SessionAssumption == MaxConn \in Nat /\ MaxAttempts \in Nat /\ MaxChanges \in Nat

VARIABLES
    stopped,    \* _stopped
    state,      \* _state
    socket,     \* _socket: the number of its connection, 0 for None
    attempt,    \* _reconnect_attempt
    pc,         \* where the connection thread is
    built,      \* the folder list in the READY it has built
    link,       \* per connection: "none", "up" or "closed"
    conn,       \* number of the newest connection
    inbox,      \* what the server has sent on it
    hb,         \* the heartbeat thread of each connection
    hbStop,     \* its stop event
    tray,       \* where the refresh thread is
    tsock,      \* the socket it has captured
    tbuilt,     \* the folder list in the READY it has built
    seen,       \* the folder list of its last comparison
    local,      \* the folder list of the stores
    user,       \* where the user's stop() is
    identity,   \* the identity store holds an identity
    heard,      \* server: message types received, per connection
    known       \* server: the folder list of the last READY, per connection

connVars == <<stopped, state, socket, attempt, pc, built>>
netVars  == <<link, conn, inbox>>
hbVars   == <<hb, hbStop>>
trayVars == <<tray, tsock, tbuilt, seen>>
vars == <<connVars, netVars, hbVars, trayVars, local, user, identity, heard, known>>

Conns == 1..MaxConn
States == {"CONNECTING", "AUTHENTICATING", "READY", "OFFLINE", "STOPPED"}
ConnPc == {"loop", "begin", "dial", "hello", "top", "recv", "build", "send", "announce",
           "work", "leave", "check", "offline", "ended"}

TypeOK ==
    /\ stopped \in BOOLEAN /\ identity \in BOOLEAN
    /\ state \in States
    /\ socket \in 0..MaxConn /\ conn \in 0..MaxConn
    /\ attempt \in 0..MaxAttempts
    /\ pc \in ConnPc
    /\ link \in [Conns -> {"none", "up", "closed"}]
    /\ inbox \in Seq({"CHALLENGE", "DEVICE_REVOKED"})
    /\ hb \in [Conns -> {"none", "wait", "check", "send", "ended"}]
    /\ hbStop \in [Conns -> BOOLEAN]
    /\ tray \in {"idle", "capture", "check", "build", "send"}
    /\ tsock \in 0..MaxConn
    /\ local \in 0..MaxChanges /\ seen \in 0..MaxChanges
    /\ built \in 0..MaxChanges /\ tbuilt \in 0..MaxChanges
    /\ user \in {"running", "flag", "state", "done"}
    /\ heard \in [Conns -> SUBSET {"HELLO", "AUTH", "READY", "HEARTBEAT"}]
    /\ known \in [Conns -> 0..MaxChanges]

Init ==
    /\ stopped = FALSE /\ state = "CONNECTING" /\ socket = 0 /\ attempt = 0
    /\ pc = "loop" /\ built = 0
    /\ link = [c \in Conns |-> "none"] /\ conn = 0 /\ inbox = <<>>
    /\ hb = [c \in Conns |-> "none"] /\ hbStop = [c \in Conns |-> FALSE]
    /\ tray = "idle" /\ tsock = 0 /\ tbuilt = 0 /\ seen = 0
    /\ local = 0 /\ user = "running" /\ identity = TRUE
    /\ heard = [c \in Conns |-> {}] /\ known = [c \in Conns |-> 0]

-----------------------------------------------------------------------------
(* The wire.  A send on a closed connection raises ConnectionClosed. *)

Open(c) == link[c] = "up"
Hear(c, type) == heard' = [heard EXCEPT ![c] = @ \cup {type}]
HearReady(c, list) == Hear(c, "READY") /\ known' = [known EXCEPT ![c] = list]

Goto(p) == pc' = p

-----------------------------------------------------------------------------
(* The connection thread: _connection_loop and _connect_once *)

\* while not self._stopped, at the start and after the sleep that follows a
\* connection.
LoopTest ==
    /\ pc = "loop"
    /\ Goto(IF stopped THEN "ended" ELSE "begin")
    /\ UNCHANGED <<stopped, state, socket, attempt, built,
                   netVars, hbVars, trayVars, local, user, identity, heard, known>>

Begin ==
    /\ pc = "begin" /\ Goto("dial")
    /\ state' = "CONNECTING"
    /\ UNCHANGED <<stopped, socket, attempt, built,
                   netVars, hbVars, trayVars, local, user, identity, heard, known>>

\* Faulty variant: the backoff starts afresh as soon as the socket is open.
DialSucceedsReset ==
    /\ pc = "dial" /\ Goto("hello")
    /\ conn < MaxConn /\ conn' = conn + 1
    /\ link' = [link EXCEPT ![conn + 1] = "up"] /\ inbox' = <<>>
    /\ socket' = conn + 1 /\ attempt' = 0
    /\ hb' = [hb EXCEPT ![conn + 1] = "wait"]
    /\ UNCHANGED <<stopped, state, built, hbStop,
                   trayVars, local, user, identity, heard, known>>

\* connect() succeeds: the socket is published, its heartbeat thread started.
DialSucceeds ==
    /\ pc = "dial" /\ Goto("hello")
    /\ conn < MaxConn /\ conn' = conn + 1
    /\ link' = [link EXCEPT ![conn + 1] = "up"] /\ inbox' = <<>>
    /\ socket' = conn + 1
    /\ hb' = [hb EXCEPT ![conn + 1] = "wait"]
    /\ UNCHANGED <<stopped, state, attempt, built, hbStop,
                   trayVars, local, user, identity, heard, known>>

DialFails ==
    /\ pc = "dial" /\ Goto("check")
    /\ UNCHANGED <<stopped, state, socket, attempt, built,
                   netVars, hbVars, trayVars, local, user, identity, heard, known>>

Hello ==
    /\ pc = "hello"
    /\ state' = "AUTHENTICATING"
    /\ IF Open(conn) THEN Goto("top") /\ Hear(conn, "HELLO") ELSE Goto("leave") /\ UNCHANGED heard
    /\ UNCHANGED <<stopped, socket, attempt, built,
                   netVars, hbVars, trayVars, local, user, identity, known>>

\* while not self._stopped, around recv()
ReceiveTest ==
    /\ pc = "top"
    /\ Goto(IF stopped THEN "leave" ELSE "recv")
    /\ UNCHANGED <<stopped, state, socket, attempt, built,
                   netVars, hbVars, trayVars, local, user, identity, heard, known>>

\* recv() gives what had arrived before the connection closed, then raises
\* ConnectionClosed; on an open connection it times out after a second.
ReceiveNothing ==
    /\ pc = "recv" /\ inbox = <<>>
    /\ Goto(IF Open(conn) THEN "top" ELSE "leave")
    /\ UNCHANGED <<stopped, state, socket, attempt, built,
                   netVars, hbVars, trayVars, local, user, identity, heard, known>>

\* CHALLENGE: AUTH goes out; then READY is built, sent and announced.
HandleChallenge ==
    /\ pc = "recv" /\ inbox # <<>> /\ Head(inbox) = "CHALLENGE"
    /\ inbox' = Tail(inbox)
    /\ IF Open(conn) THEN Goto("build") /\ Hear(conn, "AUTH") ELSE Goto("leave") /\ UNCHANGED heard
    /\ UNCHANGED <<stopped, state, socket, attempt, built, link, conn,
                   hbVars, trayVars, local, user, identity, known>>

BuildReady ==
    /\ pc = "build" /\ Goto("send")
    /\ built' = local
    /\ UNCHANGED <<stopped, state, socket, attempt,
                   netVars, hbVars, trayVars, local, user, identity, heard, known>>

SendReady ==
    /\ pc = "send"
    /\ IF Open(conn)
       THEN Goto("announce") /\ HearReady(conn, built)
       ELSE Goto("leave") /\ UNCHANGED <<heard, known>>
    /\ built' = 0
    /\ UNCHANGED <<stopped, state, socket, attempt,
                   netVars, hbVars, trayVars, local, user, identity>>

AnnounceReady ==
    /\ pc = "announce" /\ Goto("work")
    /\ attempt' = 0
    /\ state' = "READY"
    /\ UNCHANGED <<stopped, socket, built,
                   netVars, hbVars, trayVars, local, user, identity, heard, known>>

\* _resend_unacked_results: it may raise, on an open connection too (the
\* dictionary changed under the iteration).
ResendResults ==
    /\ pc = "work"
    /\ \E next \in {"top", "leave"} : Goto(next)
    /\ UNCHANGED <<stopped, state, socket, attempt, built,
                   netVars, hbVars, trayVars, local, user, identity, heard, known>>

\* Faulty variant: the identity is cleared and the loop goes on.
HandleRevokedUnstopped ==
    /\ pc = "recv" /\ inbox # <<>> /\ Head(inbox) = "DEVICE_REVOKED"
    /\ inbox' = Tail(inbox) /\ Goto("top")
    /\ identity' = FALSE
    /\ UNCHANGED <<stopped, state, socket, attempt, built, link, conn,
                   hbVars, trayVars, local, user, heard, known>>

\* PROTOCOL_ERROR with DEVICE_REVOKED: the identity is cleared, then stop().
HandleRevoked ==
    /\ pc = "recv" /\ inbox # <<>> /\ Head(inbox) = "DEVICE_REVOKED"
    /\ inbox' = Tail(inbox) /\ Goto("top")
    /\ identity' = FALSE
    /\ stopped' = TRUE /\ state' = "STOPPED"
    /\ link' = [link EXCEPT ![conn] = "closed"]
    /\ UNCHANGED <<socket, attempt, built, conn,
                   hbVars, trayVars, local, user, heard, known>>

\* finally: the heartbeat thread is told to stop and joined, but for 2 s at
\* most, so that it may still be there.
Leave ==
    /\ pc = "leave" /\ Goto("check")
    /\ hbStop' = [hbStop EXCEPT ![conn] = TRUE]
    /\ socket' = 0 /\ inbox' = <<>>
    /\ UNCHANGED <<stopped, state, attempt, built, link, conn, hb,
                   trayVars, local, user, identity, heard, known>>

\* if self._stopped: return
StopTest ==
    /\ pc = "check"
    /\ Goto(IF stopped THEN "ended" ELSE "offline")
    /\ UNCHANGED <<stopped, state, socket, attempt, built,
                   netVars, hbVars, trayVars, local, user, identity, heard, known>>

\* The delay is min(30.0, 1.0 * 2**attempt) seconds: from 2**1024 on the
\* product is no float any more, OverflowError ends the thread.
DelayOverflows == attempt >= 1024

BackOff ==
    /\ pc = "offline"
    /\ state' = "OFFLINE"
    /\ IF DelayOverflows
       THEN Goto("ended") /\ UNCHANGED attempt
       ELSE Goto("loop") /\ attempt' = IF attempt < MaxAttempts THEN attempt + 1 ELSE attempt
    /\ UNCHANGED <<stopped, socket, built,
                   netVars, hbVars, trayVars, local, user, identity, heard, known>>

ConnThread ==
    \/ LoopTest \/ Begin \/ DialSucceeds \/ DialFails \/ Hello
    \/ ReceiveTest \/ ReceiveNothing \/ HandleChallenge
    \/ BuildReady \/ SendReady \/ AnnounceReady \/ ResendResults
    \/ HandleRevoked \/ Leave \/ StopTest \/ BackOff

-----------------------------------------------------------------------------
(* _heartbeat_loop: one thread per connection, with that connection's socket *)

HbGoto(c, p) == hb' = [hb EXCEPT ![c] = p]

\* stop_event.wait(heartbeat_interval_s) returns.
HeartbeatWakes(c) ==
    /\ hb[c] = "wait"
    /\ HbGoto(c, IF hbStop[c] THEN "ended" ELSE "check")
    /\ UNCHANGED <<connVars, netVars, hbStop, trayVars, local, user, identity, heard, known>>

\* Faulty variant: the state is not looked at.
HeartbeatChecksNothing(c) ==
    /\ hb[c] = "check" /\ HbGoto(c, "send")
    /\ UNCHANGED <<connVars, netVars, hbStop, trayVars, local, user, identity, heard, known>>

HeartbeatChecks(c) ==
    /\ hb[c] = "check"
    /\ HbGoto(c, IF state = "READY" THEN "send" ELSE "wait")
    /\ UNCHANGED <<connVars, netVars, hbStop, trayVars, local, user, identity, heard, known>>

\* A failed send ends the thread.
HeartbeatSends(c) ==
    /\ hb[c] = "send"
    /\ IF Open(c) THEN HbGoto(c, "wait") /\ Hear(c, "HEARTBEAT") ELSE HbGoto(c, "ended") /\ UNCHANGED heard
    /\ UNCHANGED <<connVars, netVars, hbStop, trayVars, local, user, identity, known>>

Heartbeat(c) == HeartbeatWakes(c) \/ HeartbeatChecks(c) \/ HeartbeatSends(c)

-----------------------------------------------------------------------------
(* The tray: TrayApp.refresh and ContractPcRunner.resend_ready *)

\* The comparison remembers the new list before anything has been sent.
Refresh ==
    /\ tray = "idle" /\ seen # local
    /\ seen' = local /\ tray' = "capture"
    /\ UNCHANGED <<connVars, netVars, hbVars, tsock, tbuilt, local, user, identity, heard, known>>

CaptureSocket ==
    /\ tray = "capture"
    /\ tsock' = socket
    /\ tray' = IF socket = 0 THEN "idle" ELSE "check"
    /\ UNCHANGED <<connVars, netVars, hbVars, tbuilt, seen, local, user, identity, heard, known>>

CheckReady ==
    /\ tray = "check"
    /\ IF state = "READY"
       THEN tray' = "build" /\ UNCHANGED tsock
       ELSE tray' = "idle" /\ tsock' = 0
    /\ UNCHANGED <<connVars, netVars, hbVars, tbuilt, seen, local, user, identity, heard, known>>

\* Faulty variant: the list is not read again.
BuildAgainCached ==
    /\ tray = "build" /\ tray' = "send"
    /\ UNCHANGED <<connVars, netVars, hbVars, tsock, tbuilt, seen, local, user, identity, heard, known>>

BuildAgain ==
    /\ tray = "build" /\ tray' = "send"
    /\ tbuilt' = local
    /\ UNCHANGED <<connVars, netVars, hbVars, tsock, seen, local, user, identity, heard, known>>

\* An exception is swallowed.
SendAgain ==
    /\ tray = "send" /\ tray' = "idle"
    /\ IF Open(tsock) THEN HearReady(tsock, tbuilt) ELSE UNCHANGED <<heard, known>>
    /\ tsock' = 0 /\ tbuilt' = 0
    /\ UNCHANGED <<connVars, netVars, hbVars, seen, local, user, identity>>

Tray == Refresh \/ CaptureSocket \/ CheckReady \/ BuildAgain \/ SendAgain

-----------------------------------------------------------------------------
(* The user quits: stop(), three shared variables one after the other *)

\* Faulty variant: the flag is not set.
StopSetsNoFlag ==
    /\ user = "running" /\ user' = "flag"
    /\ UNCHANGED <<connVars, netVars, hbVars, trayVars, local, identity, heard, known>>

StopSetsFlag ==
    /\ user = "running" /\ user' = "flag"
    /\ stopped' = TRUE
    /\ UNCHANGED <<state, socket, attempt, pc, built,
                   netVars, hbVars, trayVars, local, identity, heard, known>>

\* Faulty variant: a state that is none.
StopSetsNoState ==
    /\ user = "flag" /\ user' = "state"
    /\ state' = "STOPPING"
    /\ UNCHANGED <<stopped, socket, attempt, pc, built,
                   netVars, hbVars, trayVars, local, identity, heard, known>>

StopSetsState ==
    /\ user = "flag" /\ user' = "state"
    /\ state' = "STOPPED"
    /\ UNCHANGED <<stopped, socket, attempt, pc, built,
                   netVars, hbVars, trayVars, local, identity, heard, known>>

\* Faulty variant: the socket is left to the connection thread.
StopClosesNothing ==
    /\ user = "state" /\ user' = "done"
    /\ UNCHANGED <<connVars, netVars, hbVars, trayVars, local, identity, heard, known>>

StopClosesSocket ==
    /\ user = "state" /\ user' = "done"
    /\ link' = IF socket = 0 THEN link ELSE [link EXCEPT ![socket] = "closed"]
    /\ UNCHANGED <<connVars, conn, inbox, hbVars, trayVars, local, identity, heard, known>>

Stop == StopSetsFlag \/ StopSetsState \/ StopClosesSocket

-----------------------------------------------------------------------------
(* The environment: folders change, the server (external), the network *)

FolderChanges ==
    /\ local < MaxChanges /\ local' = local + 1
    /\ UNCHANGED <<connVars, netVars, hbVars, trayVars, user, identity, heard, known>>

\* Whether the connection thread still reads what arrives.
Reading == pc \in {"hello", "top", "recv", "build", "send", "announce", "work"}

ServerChallenges ==
    /\ Reading /\ Open(conn) /\ heard[conn] = {"HELLO"} /\ inbox = <<>>
    /\ inbox' = Append(inbox, "CHALLENGE")
    /\ UNCHANGED <<connVars, link, conn, hbVars, trayVars, local, user, identity, heard, known>>

\* DEVICE_REVOKED, and the server closes the connection at once.
ServerRevokes ==
    /\ Reading /\ Open(conn) /\ heard[conn] # {}
    /\ inbox' = Append(inbox, "DEVICE_REVOKED")
    /\ link' = [link EXCEPT ![conn] = "closed"]
    /\ UNCHANGED <<connVars, conn, hbVars, trayVars, local, user, identity, heard, known>>

\* A connection breaks, or the server rejects and closes it.
Break(c) ==
    /\ Open(c)
    /\ link' = [link EXCEPT ![c] = "closed"]
    /\ UNCHANGED <<connVars, conn, inbox, hbVars, trayVars, local, user, identity, heard, known>>

Environment ==
    \/ FolderChanges \/ ServerChallenges \/ ServerRevokes
    \/ \E c \in Conns : Break(c)

-----------------------------------------------------------------------------

Next == ConnThread \/ (\E c \in Conns : Heartbeat(c)) \/ Tray \/ Stop \/ Environment

Spec == Init /\ [][Next]_vars

\* The runner's threads run (connect(), recv(), join() and sleep() all return);
\* nobody has to call stop(), but a call of it comes to its end.
Fairness ==
    /\ WF_vars(ConnThread)
    /\ WF_vars(Tray)
    /\ WF_vars(StopSetsState) /\ WF_vars(StopClosesSocket)

FairSpec == Spec /\ Fairness

-----------------------------------------------------------------------------
(* Safety *)

\* The server hears HELLO, AUTH, READY and HEARTBEAT of a connection in this
\* order, though the heartbeat thread and the tray only look at the _state all
\* connections share, and a thread of an older connection may still be there.
HandshakeOrder ==
    \A c \in Conns :
        /\ "AUTH" \in heard[c] => "HELLO" \in heard[c]
        /\ "READY" \in heard[c] => "AUTH" \in heard[c]
        /\ "HEARTBEAT" \in heard[c] => "READY" \in heard[c]

\* A revoked device dials no more: when the identity is gone, so is the loop
\* (PROTOCOL_ERROR, DEVICE_REVOKED).
RevokedNeverReconnects == [][~identity => conn' = conn]_vars

\* The backoff starts afresh only on a connection that reached READY, and the
\* loop ends for nothing but a stop, unless the delay is out of range: a device
\* the server keeps rejecting waits longer and longer, and one that lost its
\* connection dials again (_connection_loop).
ReconnectsWithBackoff ==
    [][ /\ attempt' < attempt => "READY" \in heard[conn']
        /\ (pc # "ended" /\ pc' = "ended") => (stopped' \/ DelayOverflows) ]_vars

\* Once stop() has returned, the device does not authenticate any more,
\* wherever the connection thread was.
NoAuthAfterStop ==
    [][user = "done" => \A c \in Conns : "AUTH" \in heard'[c] => "AUTH" \in heard[c]]_vars

-----------------------------------------------------------------------------
(* Liveness *)

\* stop(), the user's or the one DEVICE_REVOKED leads to, ends the connection
\* thread, from whatever it is doing.
StopEnds == (user # "running" \/ ~identity) ~> (pc = "ended")

\* A change of the folders while the runner is READY reaches the server on that
\* connection, unless the connection is given up first.
ChangeReported ==
    \A c \in Conns, v \in 1..MaxChanges :
        (local = v /\ seen # v /\ state = "READY" /\ socket = c)
            ~> (known[c] >= v \/ socket # c \/ link[c] # "up" \/ stopped)

-----------------------------------------------------------------------------
(* What the repository says and the code does not do *)

\* resend_ready: when the state is not READY nothing need be sent, the READY of
\* the next connection carries the latest list anyway.
SkippedChangeIsReported ==
    \A c \in Conns :
        (state = "READY" /\ socket = c /\ seen = local /\ tray = "idle")
            ~> (known[c] = local \/ socket # c \/ link[c] # "up" \/ stopped)
=============================================================================
