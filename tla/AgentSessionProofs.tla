------------------------- MODULE AgentSessionProofs -------------------------
(***************************************************************************)
(* Proofs about AgentSession for any number of connections, attempts and   *)
(* changes of the folders.                                                 *)
(***************************************************************************)
EXTENDS AgentSession, TLAPS

-----------------------------------------------------------------------------
(* Type correctness.  A thread that serves a connection has published it,  *)
(* and no thread refers to a connection that does not exist.               *)

Serving == pc \in {"hello", "top", "recv", "build", "send", "announce", "work", "leave"}

Anchored ==
    /\ Serving => socket = conn /\ conn # 0
    /\ socket <= conn
    /\ \A c \in Conns : link[c] # "none" <=> c <= conn
    /\ \A c \in Conns : hb[c] # "none" => c <= conn
    /\ tray \in {"check", "build", "send"} => tsock # 0 /\ tsock <= conn

Typed == TypeOK /\ Anchored

\* A message more on a connection, whichever it is, and the type of what the
\* server has heard.
LEMMA HearType ==
    ASSUME TypeOK, NEW c, NEW type \in {"HELLO", "AUTH", "READY", "HEARTBEAT"}, Hear(c, type)
    PROVE  heard' \in [Conns -> SUBSET {"HELLO", "AUTH", "READY", "HEARTBEAT"}]
<1>1. heard' = [heard EXCEPT ![c] = heard[c] \cup {type}]
  BY DEF Hear
<1>2. \A d \in Conns : heard[d] \cup {type} \in SUBSET {"HELLO", "AUTH", "READY", "HEARTBEAT"}
  BY DEF TypeOK
<1> QED
  BY <1>1, <1>2 DEF TypeOK

LEMMA EmptyType == <<>> \in Seq({"CHALLENGE", "DEVICE_REVOKED"})
OBVIOUS

LEMMA InitTyped == Init => Typed
<1> SUFFICES ASSUME Init PROVE TypeOK /\ Anchored
  BY DEF Typed
<1>1. TypeOK
  <2>1. inbox \in Seq({"CHALLENGE", "DEVICE_REVOKED"})
    BY EmptyType DEF Init
  <2>2. /\ 0 \in 0..MaxConn /\ 0 \in 0..MaxAttempts /\ 0 \in 0..MaxChanges
    BY SessionAssumption DEF SessionAssumption
  <2> QED
    BY <2>1, <2>2 DEF Init, TypeOK, States, ConnPc
<1>2. Anchored
  BY DEF Init, Anchored, Serving, Conns
<1> QED
  BY <1>1, <1>2

LEMMA ConnThreadTypeOK == ASSUME Typed, ConnThread PROVE TypeOK'
<1> USE DEF Goto, Open, HearReady, netVars, hbVars, trayVars
<1>1. CASE LoopTest \/ Begin \/ DialFails \/ ReceiveTest \/ ReceiveNothing
  BY <1>1 DEF Typed, TypeOK, States, ConnPc, LoopTest, Begin, DialFails, ReceiveTest, ReceiveNothing
<1>2. CASE DialSucceeds
  <2>1. conn' \in Conns /\ conn' \in 0..MaxConn /\ conn' = conn + 1
    BY <1>2, SessionAssumption DEF Typed, TypeOK, DialSucceeds, Conns, SessionAssumption
  <2>2. link' \in [Conns -> {"none", "up", "closed"}] /\ inbox' \in Seq({"CHALLENGE", "DEVICE_REVOKED"})
    BY <1>2, <2>1 DEF Typed, TypeOK, DialSucceeds
  <2>3. hb' \in [Conns -> {"none", "wait", "check", "send", "ended"}] /\ socket' \in 0..MaxConn
    BY <1>2, <2>1 DEF Typed, TypeOK, DialSucceeds
  <2> QED
    BY <1>2, <2>1, <2>2, <2>3 DEF Typed, TypeOK, ConnPc, DialSucceeds
<1>3. CASE Hello
  <2>1. heard' \in [Conns -> SUBSET {"HELLO", "AUTH", "READY", "HEARTBEAT"}]
    BY <1>3, HearType DEF Typed, TypeOK, Hello
  <2> QED
    BY <1>3, <2>1 DEF Typed, TypeOK, States, ConnPc, Hello
<1>4. CASE HandleChallenge
  <2>1. inbox' \in Seq({"CHALLENGE", "DEVICE_REVOKED"})
    BY <1>4 DEF Typed, TypeOK, HandleChallenge
  <2>2. heard' \in [Conns -> SUBSET {"HELLO", "AUTH", "READY", "HEARTBEAT"}]
    BY <1>4, HearType DEF Typed, TypeOK, HandleChallenge
  <2> QED
    BY <1>4, <2>1, <2>2 DEF Typed, TypeOK, ConnPc, HandleChallenge
<1>5. CASE BuildReady \/ ResendResults
  BY <1>5 DEF Typed, TypeOK, ConnPc, BuildReady, ResendResults
<1>6. CASE AnnounceReady
  BY <1>6, SessionAssumption DEF Typed, TypeOK, States, ConnPc, AnnounceReady, SessionAssumption
<1>7. CASE SendReady
  <2>1. heard' \in [Conns -> SUBSET {"HELLO", "AUTH", "READY", "HEARTBEAT"}]
    BY <1>7, HearType DEF Typed, TypeOK, SendReady
  <2>2. known' \in [Conns -> 0..MaxChanges]
    BY <1>7 DEF Typed, TypeOK, SendReady
  <2> QED
    BY <1>7, <2>1, <2>2, SessionAssumption DEF Typed, TypeOK, ConnPc, SendReady, SessionAssumption
<1>8. CASE HandleRevoked
  <2>1. inbox' \in Seq({"CHALLENGE", "DEVICE_REVOKED"})
    BY <1>8 DEF Typed, TypeOK, HandleRevoked
  <2> QED
    BY <1>8, <2>1 DEF Typed, TypeOK, States, ConnPc, HandleRevoked
<1>9. CASE Leave \/ StopTest
  <2>1. inbox' \in Seq({"CHALLENGE", "DEVICE_REVOKED"})
    BY <1>9, EmptyType DEF Typed, TypeOK, Leave, StopTest
  <2>2. socket' \in 0..MaxConn
    BY <1>9, SessionAssumption DEF Typed, TypeOK, Leave, StopTest, SessionAssumption
  <2> QED
    BY <1>9, <2>1, <2>2 DEF Typed, TypeOK, ConnPc, Leave, StopTest
<1>10. CASE BackOff
  BY <1>10, SessionAssumption DEF Typed, TypeOK, States, ConnPc, BackOff, SessionAssumption
<1> QED
  BY <1>1, <1>2, <1>3, <1>4, <1>5, <1>6, <1>7, <1>8, <1>9, <1>10 DEF ConnThread

LEMMA OthersTypeOK ==
    ASSUME Typed, (\E c \in Conns : Heartbeat(c)) \/ Tray \/ Stop \/ Environment PROVE TypeOK'
<1> USE DEF Open, HearReady, connVars, netVars, hbVars, trayVars
<1>1. ASSUME NEW c \in Conns, Heartbeat(c) PROVE TypeOK'
  <2>1. CASE HeartbeatWakes(c) \/ HeartbeatChecks(c)
    BY <2>1 DEF Typed, TypeOK, HeartbeatWakes, HeartbeatChecks, HbGoto
  <2>2. CASE HeartbeatSends(c)
    <3>1. heard' \in [Conns -> SUBSET {"HELLO", "AUTH", "READY", "HEARTBEAT"}]
      BY <2>2, HearType DEF Typed, TypeOK, HeartbeatSends
    <3> QED
      BY <2>2, <3>1 DEF Typed, TypeOK, HeartbeatSends, HbGoto
  <2> QED
    BY <1>1, <2>1, <2>2 DEF Heartbeat
<1>2. CASE Refresh \/ BuildAgain
  BY <1>2 DEF Typed, TypeOK, Refresh, BuildAgain
<1>3. CASE CaptureSocket \/ CheckReady
  BY <1>3, SessionAssumption DEF Typed, TypeOK, CaptureSocket, CheckReady, SessionAssumption
<1>4. CASE SendAgain
  <2>1. heard' \in [Conns -> SUBSET {"HELLO", "AUTH", "READY", "HEARTBEAT"}]
    BY <1>4, HearType DEF Typed, TypeOK, SendAgain
  <2>2. known' \in [Conns -> 0..MaxChanges]
    BY <1>4 DEF Typed, TypeOK, SendAgain
  <2> QED
    BY <1>4, <2>1, <2>2, SessionAssumption DEF Typed, TypeOK, SendAgain, SessionAssumption
<1>5. CASE Stop
  BY <1>5 DEF Typed, TypeOK, States, Stop, StopSetsFlag, StopSetsState, StopClosesSocket
<1>6. CASE FolderChanges
  BY <1>6, SessionAssumption DEF Typed, TypeOK, FolderChanges, SessionAssumption
<1>7. CASE ServerChallenges
  <2>1. inbox' \in Seq({"CHALLENGE", "DEVICE_REVOKED"})
    BY <1>7 DEF Typed, TypeOK, ServerChallenges
  <2> QED
    BY <1>7, <2>1 DEF Typed, TypeOK, ServerChallenges
<1>8. CASE ServerRevokes
  <2>1. inbox' \in Seq({"CHALLENGE", "DEVICE_REVOKED"})
    BY <1>8 DEF Typed, TypeOK, ServerRevokes
  <2> QED
    BY <1>8, <2>1 DEF Typed, TypeOK, ServerRevokes
<1>9. ASSUME NEW c \in Conns, Break(c) PROVE TypeOK'
  BY <1>9 DEF Typed, TypeOK, Break
<1> QED
  BY <1>1, <1>2, <1>3, <1>4, <1>5, <1>6, <1>7, <1>8, <1>9 DEF Tray, Environment

\* Only the connection thread moves pc and makes connections.
LEMMA StepAnchored == Typed /\ [Next]_vars => Anchored'
<1> SUFFICES ASSUME Typed, [Next]_vars PROVE Anchored'
  OBVIOUS
<1> USE DEF Typed, Anchored, Serving
<1>1. CASE DialSucceeds
  <2>1. conn \in Nat /\ conn' = conn + 1 /\ socket' = conn' /\ pc' = "hello"
    BY <1>1 DEF TypeOK, DialSucceeds, Goto
  <2>2. \A c \in Conns : hb'[c] # "none" => c <= conn'
    BY <1>1, <2>1 DEF TypeOK, DialSucceeds, Conns
  <2>3. tray' = tray /\ tsock' = tsock
    BY <1>1 DEF DialSucceeds, trayVars
  <2>4. \A c \in Conns : link'[c] # "none" <=> c <= conn'
    BY <1>1, <2>1 DEF TypeOK, DialSucceeds, Conns
  <2> QED
    BY <2>1, <2>2, <2>3, <2>4 DEF TypeOK
<1>2. CASE ConnThread /\ ~DialSucceeds
  <2>1. UNCHANGED <<conn, hb, tray, tsock>> /\ \A c \in Conns : link'[c] = "none" <=> link[c] = "none"
    BY <1>2 DEF ConnThread, LoopTest, Begin, DialFails, Hello, ReceiveTest, ReceiveNothing, HandleChallenge,
       BuildReady, SendReady, AnnounceReady, ResendResults, HandleRevoked, Leave, StopTest, BackOff,
       netVars, hbVars, trayVars, TypeOK, Open
  <2>2. (Serving' => Serving /\ socket' = socket) /\ socket' \in {socket, 0}
    BY <1>2 DEF ConnThread, LoopTest, Begin, DialFails, Hello, ReceiveTest, ReceiveNothing, HandleChallenge,
       BuildReady, SendReady, AnnounceReady, ResendResults, HandleRevoked, Leave, StopTest, BackOff, Goto
  <2> QED
    BY <2>1, <2>2 DEF TypeOK
<1>3. ASSUME NEW c \in Conns, Heartbeat(c) PROVE Anchored'
  BY <1>3 DEF TypeOK, Heartbeat, HeartbeatWakes, HeartbeatChecks, HeartbeatSends, HbGoto,
     connVars, netVars, trayVars
<1>4. CASE Tray
  BY <1>4 DEF TypeOK, Tray, Refresh, CaptureSocket, CheckReady, BuildAgain, SendAgain, connVars, netVars, hbVars
<1>5. CASE Stop
  <2>1. UNCHANGED <<conn, hb, tray, tsock, pc, socket>>
    BY <1>5 DEF Stop, StopSetsFlag, StopSetsState, StopClosesSocket, connVars, netVars, hbVars, trayVars
  <2>2. link' = link \/ (socket # 0 /\ link' = [link EXCEPT ![socket] = "closed"])
    BY <1>5 DEF Stop, StopSetsFlag, StopSetsState, StopClosesSocket, netVars
  <2>3. (socket \in Conns /\ socket <= conn) \/ socket = 0
    BY DEF TypeOK, Conns
  <2>4. \A c \in Conns : link'[c] # "none" <=> c <= conn
    BY <2>2, <2>3 DEF TypeOK
  <2> QED
    BY <2>1, <2>4
<1>7. CASE Environment
  <2>1. UNCHANGED <<conn, hb, tray, tsock, pc, socket>>
    BY <1>7 DEF Environment, FolderChanges, ServerChallenges, ServerRevokes, Break,
       connVars, netVars, hbVars, trayVars
  <2>2. link' = link \/ \E c : Open(c) /\ link' = [link EXCEPT ![c] = "closed"]
    BY <1>7 DEF Environment, FolderChanges, ServerChallenges, ServerRevokes, Break, netVars
  <2>3. \A c \in Conns : link'[c] # "none" <=> c <= conn
    BY <2>2 DEF TypeOK, Open
  <2> QED
    BY <2>1, <2>3
<1>6. CASE UNCHANGED vars
  BY <1>6 DEF vars, connVars, netVars, hbVars, trayVars
<1> QED
  BY <1>1, <1>2, <1>3, <1>4, <1>5, <1>6, <1>7 DEF Next

LEMMA StepTyped == Typed /\ [Next]_vars => Typed'
<1>1. ASSUME TypeOK, UNCHANGED vars PROVE TypeOK'
  BY <1>1 DEF TypeOK, vars, connVars, netVars, hbVars, trayVars
<1> QED
  BY <1>1, ConnThreadTypeOK, OthersTypeOK, StepAnchored DEF Next, Typed

\* Every variable keeps its type, and a thread's socket is one of the
\* connections made so far.
THEOREM SessionTypeCorrect == Spec => [](TypeOK /\ Anchored)
<1> QED
  <2>1. Typed <=> TypeOK /\ Anchored
    BY DEF Typed
  <2> QED
    BY <2>1, InitTyped, StepTyped, PTL DEF Spec

-----------------------------------------------------------------------------
(* The order of the handshake.  What a thread knows of its connection from *)
(* where it is, and what READY in _state means for older connections: a    *)
(* connection is finished with its handshake, or nothing can be sent on it *)
(* any more.                                                               *)

Settled(c) == link[c] = "closed" \/ "READY" \in heard[c]

\* The connection thread has left its last connection.
Left ==
    \/ pc \in {"offline", "begin", "dial"}
    \/ pc \in {"leave", "check", "loop"} /\ ~stopped

Progress ==
    /\ pc \in {"top", "recv"} => "HELLO" \in heard[conn]
    /\ pc \in {"build", "send"} => "AUTH" \in heard[conn]
    /\ pc \in {"announce", "work"} => "READY" \in heard[conn]
    /\ Left => conn = 0 \/ Settled(conn)
    /\ pc = "dial" => state # "READY"
    /\ \A c \in Conns : c < conn => Settled(c)
    /\ state = "READY" => \A c \in Conns : c <= conn => Settled(c)
    /\ \A c \in Conns : hb[c] = "send" => Settled(c)
    /\ tray \in {"build", "send"} => Settled(tsock)

Ordered == Progress /\ HandshakeOrder

LEMMA InitOrdered == Init => Ordered
BY DEF Init, Ordered, Progress, Left, HandshakeOrder, Conns

\* What is settled stays so, but for the connection being made.
LEMMA SettledStays ==
    ASSUME Typed, [Next]_vars, NEW c \in Conns, c <= conn, Settled(c) PROVE Settled(c)'
<1> USE DEF Settled, Typed, TypeOK, Open, Hear, HearReady, connVars, netVars, hbVars, trayVars
<1>1. CASE DialSucceeds
  BY <1>1 DEF DialSucceeds
<1>2. CASE ConnThread /\ ~DialSucceeds
  BY <1>2 DEF ConnThread, LoopTest, Begin, DialFails, Hello, ReceiveTest, ReceiveNothing, HandleChallenge,
     BuildReady, SendReady, AnnounceReady, ResendResults, HandleRevoked, Leave, StopTest, BackOff
<1>3. ASSUME NEW d \in Conns, Heartbeat(d) PROVE Settled(c)'
  BY <1>3 DEF Heartbeat, HeartbeatWakes, HeartbeatChecks, HeartbeatSends
<1>4. CASE Tray
  BY <1>4 DEF Tray, Refresh, CaptureSocket, CheckReady, BuildAgain, SendAgain
<1>5. CASE Stop
  BY <1>5 DEF Stop, StopSetsFlag, StopSetsState, StopClosesSocket
<1>6. CASE Environment
  BY <1>6 DEF Environment, FolderChanges, ServerChallenges, ServerRevokes, Break
<1>7. CASE UNCHANGED vars
  BY <1>7 DEF vars
<1> QED
  BY <1>1, <1>2, <1>3, <1>4, <1>5, <1>6, <1>7 DEF Next

\* How the numbers of connections compare.
LEMMA Numbers ==
    ASSUME Typed
    PROVE  /\ conn \in Nat /\ (conn # 0 => conn \in Conns)
           /\ \A c \in Conns : c \in Nat /\ (link[c] # "none" <=> c <= conn) /\ (hb[c] # "none" => c <= conn)
           /\ tray \in {"check", "build", "send"} => tsock \in Conns /\ tsock <= conn
           /\ Serving => conn \in Conns /\ socket = conn
BY SessionAssumption DEF Typed, TypeOK, Anchored, Serving, Conns, SessionAssumption

\* What a step leaves of the facts about settled connections when it makes no
\* connection, does not announce READY and moves neither heartbeat nor tray
\* threads on.
LEMMA SettledFacts ==
    ASSUME Typed, Ordered, [Next]_vars, UNCHANGED <<conn, tray, tsock, hb>>,
           state' = "READY" => state = "READY"
    PROVE  /\ \A c \in Conns : c < conn' => Settled(c)'
           /\ state' = "READY" => \A c \in Conns : c <= conn' => Settled(c)'
           /\ \A c \in Conns : hb'[c] = "send" => Settled(c)'
           /\ tray' \in {"build", "send"} => Settled(tsock)'
           /\ conn # 0 /\ Settled(conn) => Settled(conn)'
<1>1. \A c \in Conns : c <= conn /\ Settled(c) => Settled(c)'
  BY SettledStays
<1>2. \A c \in Conns : c < conn => c <= conn
  BY Numbers
<1> QED
  BY <1>1, <1>2, Numbers DEF Ordered, Progress

LEMMA ConnThreadOrdered == ASSUME Typed, Ordered, ConnThread PROVE Ordered'
<1>1. [Next]_vars
  BY DEF Next
<1>2. CASE DialSucceeds
  <2>1. /\ pc = "dial" /\ pc' = "hello" /\ conn' = conn + 1
        /\ UNCHANGED <<state, heard, tray, tsock>> /\ hb' = [hb EXCEPT ![conn + 1] = "wait"]
    BY <1>2 DEF DialSucceeds, Goto, trayVars
  <2>2. \A c \in Conns : c <= conn /\ Settled(c) => Settled(c)'
    BY <1>1, SettledStays
  <2>3. conn = 0 \/ Settled(conn)
    BY <2>1 DEF Ordered, Progress, Left
  <2>4. \A c \in Conns : c < conn' => Settled(c)
    <3>1. \A c \in Conns : c < conn' => c < conn \/ c = conn
      BY <2>1, Numbers
    <3>2. \A c \in Conns : c # 0
      BY DEF Conns
    <3> QED
      BY <2>3, <3>1, <3>2 DEF Ordered, Progress
  <2>5. \A c \in Conns : c < conn' => c <= conn
    BY <2>1, Numbers
  <2>6. \A c \in Conns : hb'[c] = "send" => hb[c] = "send" /\ c <= conn
    BY <2>1, Numbers DEF Typed, TypeOK
  <2>7. /\ \A c \in Conns : c < conn' => Settled(c)'
        /\ \A c \in Conns : hb'[c] = "send" => Settled(c)'
        /\ tray' \in {"build", "send"} => Settled(tsock)'
    BY <2>1, <2>2, <2>4, <2>5, <2>6, Numbers DEF Ordered, Progress
  <2>8. state' # "READY" /\ ~Left' /\ HandshakeOrder'
    BY <2>1 DEF Ordered, Progress, Left, HandshakeOrder
  <2> QED
    BY <2>1, <2>7, <2>8 DEF Ordered, Progress
<1>3. ASSUME UNCHANGED <<conn, heard, tray, tsock, hb>>,
             pc' \notin {"build", "send", "announce", "work"}, pc' \in {"top", "recv"} => pc \in {"top", "recv"},
             state' = "READY" => state = "READY", pc' = "dial" => state' # "READY",
             Left' => Left \/ conn = 0 \/ Settled(conn)
      PROVE  Ordered'
  BY <1>1, <1>3, SettledFacts DEF Ordered, Progress, HandshakeOrder
<1>4. CASE LoopTest \/ Begin \/ DialFails \/ Leave \/ StopTest \/ BackOff
  BY <1>3, <1>4 DEF LoopTest, Begin, DialFails, Leave, StopTest, BackOff, Goto, Left, netVars, hbVars, trayVars
<1>5. CASE ReceiveTest
  BY <1>3, <1>5 DEF ReceiveTest, Goto, Left, netVars, hbVars, trayVars
<1>6. CASE ReceiveNothing
  <2>1. ~Open(conn) => Settled(conn)
    BY <1>6, Numbers DEF ReceiveNothing, Open, Settled, Typed, TypeOK, Serving
  <2> QED
    BY <1>3, <1>6, <2>1 DEF ReceiveNothing, Goto, Left, netVars, hbVars, trayVars
<1>7. CASE HandleRevoked
  BY <1>3, <1>7 DEF HandleRevoked, Goto, Left, hbVars, trayVars

\* The steps that send: conn stays, and the message is in order.
<1>8. ASSUME UNCHANGED <<conn, tray, tsock, hb>>, pc' # "dial", state' = "READY" => state = "READY",
             HandshakeOrder', Left' => conn # 0 /\ Settled(conn),
             pc' \in {"top", "recv"} => "HELLO" \in heard'[conn],
             pc' \in {"build", "send"} => "AUTH" \in heard'[conn],
             pc' \in {"announce", "work"} => "READY" \in heard'[conn]
      PROVE  Ordered'
  BY <1>1, <1>8, SettledFacts DEF Ordered, Progress
<1>9. Serving /\ ~Open(conn) => Settled(conn)
  BY Numbers DEF Open, Settled, Typed, TypeOK
<1>10. CASE Hello
  <2>1. conn \in Conns /\ conn # 0
    BY <1>10, Numbers DEF Hello, Serving, Conns
  <2>2. CASE Open(conn)
    BY <1>8, <1>10, <2>1, <2>2 DEF Hello, Goto, Hear, Left, HandshakeOrder, Ordered, Typed, TypeOK,
       netVars, hbVars, trayVars
  <2>3. CASE ~Open(conn)
    BY <1>8, <1>9, <1>10, <2>1, <2>3 DEF Hello, Serving, Goto, Left, HandshakeOrder, Ordered,
       netVars, hbVars, trayVars
  <2> QED
    BY <2>2, <2>3
<1>11. CASE HandleChallenge
  <2>1. conn \in Conns /\ conn # 0 /\ "HELLO" \in heard[conn]
    BY <1>11, Numbers DEF HandleChallenge, Serving, Conns, Ordered, Progress
  <2>2. CASE Open(conn)
    BY <1>8, <1>11, <2>1, <2>2 DEF HandleChallenge, Goto, Hear, Left, HandshakeOrder, Ordered, Typed, TypeOK,
       hbVars, trayVars
  <2>3. CASE ~Open(conn)
    BY <1>8, <1>9, <1>11, <2>1, <2>3 DEF HandleChallenge, Serving, Goto, Left, HandshakeOrder, Ordered,
       hbVars, trayVars
  <2> QED
    BY <2>2, <2>3
<1>12. CASE BuildReady
  BY <1>8, <1>12 DEF BuildReady, Goto, Left, HandshakeOrder, Ordered, Progress, netVars, hbVars, trayVars
<1>13. CASE SendReady
  <2>1. conn \in Conns /\ conn # 0 /\ "AUTH" \in heard[conn]
    BY <1>13, Numbers DEF SendReady, Serving, Conns, Ordered, Progress
  <2>2. CASE Open(conn)
    BY <1>8, <1>13, <2>1, <2>2 DEF SendReady, Goto, Hear, HearReady, Left, HandshakeOrder, Ordered, Typed, TypeOK,
       netVars, hbVars, trayVars
  <2>3. CASE ~Open(conn)
    BY <1>8, <1>9, <1>13, <2>1, <2>3 DEF SendReady, Serving, Goto, Left, HandshakeOrder, Ordered,
       netVars, hbVars, trayVars
  <2> QED
    BY <2>2, <2>3
<1>14. CASE ResendResults
  BY <1>8, <1>14, Numbers DEF ResendResults, Serving, Goto, Left, HandshakeOrder, Ordered, Progress, Settled,
     Conns, netVars, hbVars, trayVars
<1>15. CASE AnnounceReady
  <2>1. "READY" \in heard[conn] /\ conn \in Conns
    BY <1>15, Numbers DEF AnnounceReady, Serving, Ordered, Progress
  <2>2. UNCHANGED <<conn, heard, link, hb, tray, tsock>> /\ pc' = "work"
    BY <1>15 DEF AnnounceReady, Goto, netVars, hbVars, trayVars
  <2>3. \A c \in Conns : c <= conn => Settled(c)
    <3>1. \A c \in Conns : c <= conn => c < conn \/ c = conn
      BY Numbers
    <3> QED
      BY <2>1, <3>1 DEF Ordered, Progress, Settled
  <2> QED
    BY <2>1, <2>2, <2>3 DEF Ordered, Progress, HandshakeOrder, Left, Settled
<1> QED
  BY <1>2, <1>4, <1>5, <1>6, <1>7, <1>10, <1>11, <1>12, <1>13, <1>14, <1>15 DEF ConnThread

LEMMA OthersOrdered ==
    ASSUME Typed, Ordered, (\E c \in Conns : Heartbeat(c)) \/ Tray \/ Stop \/ Environment PROVE Ordered'
<1>1. [Next]_vars
  BY DEF Next
\* Steps that are heard of by nobody.
<1>2. ASSUME UNCHANGED <<conn, heard, tray, tsock, hb, pc>>, state' = "READY" => state = "READY",
             stopped => stopped'
      PROVE  Ordered'
  BY <1>1, <1>2, SettledFacts DEF Ordered, Progress, HandshakeOrder, Left
<1>3. CASE Stop
  BY <1>2, <1>3 DEF Stop, StopSetsFlag, StopSetsState, StopClosesSocket, connVars, netVars, hbVars, trayVars
<1>4. CASE Environment
  BY <1>2, <1>4 DEF Environment, FolderChanges, ServerChallenges, ServerRevokes, Break,
     connVars, netVars, hbVars, trayVars
<1>5. ASSUME UNCHANGED <<connVars, conn, link>>, HandshakeOrder',
             \A c \in Conns : heard[c] \subseteq heard'[c],
             \A c \in Conns : hb'[c] = "send" => Settled(c),
             tray' \in {"build", "send"} => tsock' \in Conns /\ Settled(tsock')
      PROVE  Ordered'
  <2>1. \A c \in Conns : Settled(c) => Settled(c)'
    BY <1>5 DEF Settled
  <2>2. conn = 0 \/ conn \in Conns
    BY Numbers
  <2>3. tray' \in {"build", "send"} => Settled(tsock)'
    BY <1>5, <2>1 DEF Settled
  <2>4. UNCHANGED <<pc, stopped, state, conn>> /\ (Left' <=> Left)
    BY <1>5 DEF connVars, Left
  <2>5. \A p \in {"HELLO", "AUTH", "READY"} : conn # 0 /\ p \in heard[conn] => p \in heard'[conn]
    BY <1>5, <2>2
  <2>6. \/ pc \in {"top", "recv", "build", "send", "announce", "work"} /\ Serving /\ conn # 0
        \/ pc \notin {"top", "recv", "build", "send", "announce", "work"}
    BY DEF Serving, Typed, Anchored
  <2>7. /\ pc' \in {"top", "recv"} => "HELLO" \in heard'[conn']
        /\ pc' \in {"build", "send"} => "AUTH" \in heard'[conn']
        /\ pc' \in {"announce", "work"} => "READY" \in heard'[conn']
    BY <2>4, <2>5, <2>6 DEF Ordered, Progress
  <2>8. /\ Left' => conn' = 0 \/ Settled(conn)'
        /\ pc' = "dial" => state' # "READY"
        /\ \A c \in Conns : c < conn' => Settled(c)'
        /\ state' = "READY" => \A c \in Conns : c <= conn' => Settled(c)'
        /\ \A c \in Conns : hb'[c] = "send" => Settled(c)'
    BY <1>5, <2>1, <2>2, <2>4 DEF Ordered, Progress
  <2> QED
    BY <1>5, <2>3, <2>7, <2>8 DEF Ordered, Progress
<1>6. ASSUME NEW c \in Conns, Heartbeat(c) PROVE Ordered'
  <2>1. UNCHANGED <<connVars, conn, link, tray, tsock>>
    BY <1>6 DEF Heartbeat, HeartbeatWakes, HeartbeatChecks, HeartbeatSends, netVars, trayVars
  <2>2. tray' \in {"build", "send"} => tsock' \in Conns /\ Settled(tsock')
    BY <2>1, Numbers DEF Ordered, Progress
  <2>3. CASE HeartbeatWakes(c) \/ HeartbeatChecks(c)
    <3>1. heard' = heard /\ HandshakeOrder'
      BY <2>3 DEF HeartbeatWakes, HeartbeatChecks, Ordered, HandshakeOrder
    <3>2. \A d \in Conns : hb'[d] = "send" => Settled(d)
      <4>1. CASE HeartbeatWakes(c)
        BY <4>1 DEF HeartbeatWakes, HbGoto, Ordered, Progress, Typed, TypeOK
      <4>2. CASE HeartbeatChecks(c)
        <5>1. hb[c] # "none" /\ hb' = [hb EXCEPT ![c] = IF state = "READY" THEN "send" ELSE "wait"]
          BY <4>2 DEF HeartbeatChecks, HbGoto
        <5>2. state = "READY" => Settled(c)
          BY <5>1, Numbers DEF Ordered, Progress
        <5> QED
          BY <5>1, <5>2 DEF Ordered, Progress, Typed, TypeOK
      <4> QED
        BY <2>3, <4>1, <4>2
    <3> QED
      BY <1>5, <2>1, <2>2, <3>1, <3>2
  <2>4. CASE HeartbeatSends(c)
    <3>1. /\ hb[c] = "send" /\ Settled(c)
          /\ heard' = heard \/ (Open(c) /\ heard' = [heard EXCEPT ![c] = heard[c] \cup {"HEARTBEAT"}])
      BY <1>6, <2>4 DEF HeartbeatSends, Hear, Ordered, Progress
    <3>2. \A d \in Conns : hb'[d] = "send" => Settled(d)
      BY <2>4 DEF HeartbeatSends, HbGoto, Ordered, Progress, Typed, TypeOK
    <3>3. HandshakeOrder' /\ \A d \in Conns : heard[d] \subseteq heard'[d]
      <4>1. CASE heard' = heard
        BY <4>1 DEF Ordered, HandshakeOrder
      <4>2. CASE Open(c) /\ heard' = [heard EXCEPT ![c] = heard[c] \cup {"HEARTBEAT"}]
        <5>1. "READY" \in heard[c]
          BY <3>1, <4>2 DEF Settled, Open
        <5>2. \A d \in Conns : heard'[d] = IF d = c THEN heard[c] \cup {"HEARTBEAT"} ELSE heard[d]
          BY <4>2 DEF Typed, TypeOK
        <5> QED
          BY <5>1, <5>2 DEF Ordered, HandshakeOrder
      <4> QED
        BY <3>1, <4>1, <4>2
    <3> QED
      BY <1>5, <2>1, <2>2, <3>2, <3>3
  <2> QED
    BY <1>6, <2>3, <2>4 DEF Heartbeat
<1>7. ASSUME UNCHANGED <<connVars, conn, link, hb>>, HandshakeOrder',
             \A c \in Conns : heard[c] \subseteq heard'[c],
             tray' \in {"build", "send"} => tsock' \in Conns /\ Settled(tsock')
      PROVE  Ordered'
  BY <1>5, <1>7 DEF Ordered, Progress
<1>8. CASE Refresh \/ CaptureSocket \/ CheckReady \/ BuildAgain
  <2>1. UNCHANGED <<connVars, conn, link, hb, heard>> /\ HandshakeOrder'
    BY <1>8 DEF Refresh, CaptureSocket, CheckReady, BuildAgain, netVars, hbVars, Ordered, HandshakeOrder
  <2>2. CASE Refresh \/ CaptureSocket
    BY <1>7, <2>1, <2>2 DEF Refresh, CaptureSocket
  <2>3. CASE CheckReady
    <3>1. tsock \in Conns /\ (state = "READY" => Settled(tsock))
      BY <2>3, Numbers DEF CheckReady, Ordered, Progress
    <3> QED
      BY <1>7, <2>1, <2>3, <3>1 DEF CheckReady
  <2>4. CASE BuildAgain
    BY <1>7, <2>1, <2>4, Numbers DEF BuildAgain, Ordered, Progress
  <2> QED
    BY <1>8, <2>2, <2>3, <2>4
<1>9. CASE SendAgain
  <2>1. tsock \in Conns /\ Settled(tsock)
    BY <1>9, Numbers DEF SendAgain, Ordered, Progress
  <2>2. tray' = "idle" /\ UNCHANGED <<connVars, conn, link, hb>>
    BY <1>9 DEF SendAgain, netVars, hbVars
  <2>3. heard' = heard \/ (Open(tsock) /\ heard' = [heard EXCEPT ![tsock] = heard[tsock] \cup {"READY"}])
    BY <1>9 DEF SendAgain, HearReady, Hear
  <2>4. \A c \in Conns : heard'[c] = heard[c]
    <3>1. Open(tsock) => heard[tsock] \cup {"READY"} = heard[tsock]
      BY <2>1 DEF Settled, Open
    <3> QED
      BY <2>1, <2>3, <3>1 DEF Typed, TypeOK
  <2>5. HandshakeOrder'
    BY <2>4 DEF Ordered, HandshakeOrder
  <2> QED
    BY <1>7, <2>2, <2>4, <2>5
<1> QED
  BY <1>3, <1>4, <1>6, <1>8, <1>9 DEF Tray

LEMMA StepOrdered == Typed /\ Ordered /\ [Next]_vars => Ordered'
<1>1. ASSUME Ordered, UNCHANGED vars PROVE Ordered'
  BY <1>1 DEF Ordered, Progress, HandshakeOrder, Left, Settled, vars, connVars, netVars, hbVars, trayVars
<1> QED
  BY <1>1, ConnThreadOrdered, OthersOrdered DEF Next

\* Whatever threads of older connections are still there, the server hears the
\* messages of a connection in the order of the handshake.
THEOREM HandshakeInOrder == Spec => []HandshakeOrder
<1>1. Ordered => HandshakeOrder
  BY DEF Ordered
<1> QED
  BY <1>1, InitTyped, StepTyped, InitOrdered, StepOrdered, PTL DEF Spec

-----------------------------------------------------------------------------
(* stop().  When it has returned, a thread that was serving a connection   *)
(* finds it closed, one that was dialling leaves before it receives.       *)

Ended ==
    /\ user # "running" => stopped
    /\ user = "done" /\ pc = "recv" => ~Open(conn)

LEMMA StepEnded == Typed /\ Ended /\ [Next]_vars => Ended'
<1> SUFFICES ASSUME Typed, Ended, [Next]_vars PROVE Ended'
  OBVIOUS
<1> USE DEF Ended, Open, connVars, netVars, hbVars, trayVars
<1>1. CASE ConnThread
  BY <1>1, Numbers DEF ConnThread, LoopTest, Begin, DialSucceeds, DialFails, Hello, ReceiveTest, ReceiveNothing,
     HandleChallenge, BuildReady, SendReady, AnnounceReady, ResendResults, HandleRevoked, Leave, StopTest,
     BackOff, Goto, Typed, TypeOK, Serving
<1>2. ASSUME NEW c \in Conns, Heartbeat(c) PROVE Ended'
  BY <1>2 DEF Heartbeat, HeartbeatWakes, HeartbeatChecks, HeartbeatSends
<1>3. CASE Tray
  BY <1>3 DEF Tray, Refresh, CaptureSocket, CheckReady, BuildAgain, SendAgain
<1>4. CASE Stop
  <2>1. CASE StopSetsFlag \/ StopSetsState
    BY <2>1 DEF StopSetsFlag, StopSetsState
  <2>2. CASE StopClosesSocket
    <3>1. UNCHANGED <<pc, stopped, conn>> /\ user = "state"
      BY <2>2 DEF StopClosesSocket
    <3>2. pc = "recv" => socket = conn /\ conn \in Conns /\ socket # 0
      BY Numbers DEF Serving, Conns
    <3>3. pc = "recv" => link'[conn] = "closed"
      BY <2>2, <3>2 DEF StopClosesSocket, Typed, TypeOK
    <3> QED
      BY <3>1, <3>3
  <2> QED
    BY <1>4, <2>1, <2>2 DEF Stop
<1>5. CASE Environment
  BY <1>5, Numbers DEF Environment, FolderChanges, ServerChallenges, ServerRevokes, Break, Typed, TypeOK, Serving
<1>6. CASE UNCHANGED vars
  BY <1>6 DEF vars
<1> QED
  BY <1>1, <1>2, <1>3, <1>4, <1>5, <1>6 DEF Next

\* AUTH is sent by the connection thread alone, in answer to a CHALLENGE.
LEMMA AuthAnswers ==
    ASSUME Typed, [Next]_vars, NEW c \in Conns, "AUTH" \in heard'[c], "AUTH" \notin heard[c]
    PROVE  pc = "recv" /\ Open(conn)
<1> USE DEF connVars, netVars, hbVars, trayVars, Typed, TypeOK, Hear, HearReady
<1>1. CASE ConnThread
  BY <1>1 DEF ConnThread, LoopTest, Begin, DialSucceeds, DialFails, Hello, ReceiveTest, ReceiveNothing,
     HandleChallenge, BuildReady, SendReady, AnnounceReady, ResendResults, HandleRevoked, Leave, StopTest, BackOff
<1>2. ASSUME NEW d \in Conns, Heartbeat(d) PROVE FALSE
  BY <1>2 DEF Heartbeat, HeartbeatWakes, HeartbeatChecks, HeartbeatSends
<1>3. CASE Tray
  BY <1>3 DEF Tray, Refresh, CaptureSocket, CheckReady, BuildAgain, SendAgain
<1>4. CASE Stop \/ Environment \/ UNCHANGED vars
  BY <1>4 DEF Stop, StopSetsFlag, StopSetsState, StopClosesSocket, Environment, FolderChanges,
     ServerChallenges, ServerRevokes, Break, vars
<1> QED
  BY <1>1, <1>2, <1>3, <1>4 DEF Next

\* Once stop() has returned, the device does not authenticate any more.
THEOREM NoAuthenticationAfterStop == Spec => NoAuthAfterStop
<1>1. Init => Ended
  BY DEF Init, Ended
<1>2. Typed /\ Ended /\ [Next]_vars
        => [user = "done" => \A c \in Conns : "AUTH" \in heard'[c] => "AUTH" \in heard[c]]_vars
  BY AuthAnswers DEF Ended
<1> QED
  BY <1>1, <1>2, InitTyped, StepTyped, StepEnded, PTL DEF Spec, NoAuthAfterStop

-----------------------------------------------------------------------------
(* Revocation.  It is learned while receiving; the flag it sets leads the  *)
(* thread out of the connection and out of the loop, and nothing clears it.*)

Banned == ~identity => stopped /\ pc \in {"top", "leave", "check", "ended"}

LEMMA StepBanned == Typed /\ Banned /\ [Next]_vars => Banned'
<1> SUFFICES ASSUME Typed, Banned, [Next]_vars PROVE Banned'
  OBVIOUS
<1> USE DEF Banned, connVars, netVars, hbVars, trayVars
<1>1. CASE ConnThread
  BY <1>1 DEF ConnThread, LoopTest, Begin, DialSucceeds, DialFails, Hello, ReceiveTest, ReceiveNothing,
     HandleChallenge, BuildReady, SendReady, AnnounceReady, ResendResults, HandleRevoked, Leave, StopTest,
     BackOff, Goto
<1>2. ASSUME NEW c \in Conns, Heartbeat(c) PROVE Banned'
  BY <1>2 DEF Heartbeat, HeartbeatWakes, HeartbeatChecks, HeartbeatSends
<1>3. CASE Tray
  BY <1>3 DEF Tray, Refresh, CaptureSocket, CheckReady, BuildAgain, SendAgain
<1>4. CASE Stop
  BY <1>4 DEF Stop, StopSetsFlag, StopSetsState, StopClosesSocket
<1>5. CASE Environment
  BY <1>5 DEF Environment, FolderChanges, ServerChallenges, ServerRevokes, Break
<1>6. CASE UNCHANGED vars
  BY <1>6 DEF vars
<1> QED
  BY <1>1, <1>2, <1>3, <1>4, <1>5, <1>6 DEF Next

\* What the steps of the connection thread do to conn, attempt and pc, and that
\* no other step touches them.
LEMMA ThreadAlone ==
    ASSUME [Next]_vars PROVE ConnThread \/ UNCHANGED <<conn, attempt, pc>>
<1> USE DEF connVars, netVars, hbVars, trayVars
<1>1. ASSUME NEW c \in Conns, Heartbeat(c) PROVE UNCHANGED <<conn, attempt, pc>>
  BY <1>1 DEF Heartbeat, HeartbeatWakes, HeartbeatChecks, HeartbeatSends
<1>2. ASSUME Tray PROVE UNCHANGED <<conn, attempt, pc>>
  BY <1>2 DEF Tray, Refresh, CaptureSocket, CheckReady, BuildAgain, SendAgain
<1>3. ASSUME Stop PROVE UNCHANGED <<conn, attempt, pc>>
  BY <1>3 DEF Stop, StopSetsFlag, StopSetsState, StopClosesSocket
<1>4. ASSUME Environment PROVE UNCHANGED <<conn, attempt, pc>>
  BY <1>4 DEF Environment, FolderChanges, ServerChallenges, ServerRevokes, Break
<1>5. ASSUME UNCHANGED vars PROVE UNCHANGED <<conn, attempt, pc>>
  BY <1>5 DEF vars
<1> QED
  BY <1>1, <1>2, <1>3, <1>4, <1>5 DEF Next

LEMMA DialsFromDial == ConnThread => conn' = conn \/ pc = "dial"
BY DEF ConnThread, LoopTest, Begin, DialSucceeds, DialFails, Hello, ReceiveTest, ReceiveNothing,
   HandleChallenge, BuildReady, SendReady, AnnounceReady, ResendResults, HandleRevoked, Leave, StopTest,
   BackOff, netVars

\* A revoked device makes no further connection.
THEOREM RevokedStaysOff == Spec => RevokedNeverReconnects
<1>1. Init => Banned
  BY DEF Init, Banned
<1>2. Banned /\ [Next]_vars => [~identity => conn' = conn]_vars
  BY ThreadAlone, DialsFromDial DEF Banned
<1> QED
  BY <1>1, <1>2, InitTyped, StepTyped, StepBanned, PTL DEF Spec, RevokedNeverReconnects

-----------------------------------------------------------------------------
(* The backoff.  The counter falls where READY is announced, and there the *)
(* server has heard READY on the connection.                               *)

LEMMA CounterFalls ==
    ASSUME Typed, ConnThread, attempt' < attempt PROVE pc = "announce" /\ UNCHANGED <<conn, heard>>
<1>1. attempt \in Nat
  BY SessionAssumption DEF SessionAssumption, Typed, TypeOK
<1>2. CASE BackOff
  BY <1>1, <1>2 DEF BackOff
<1>3. CASE AnnounceReady
  BY <1>3 DEF AnnounceReady, netVars
<1>4. CASE ~BackOff /\ ~AnnounceReady
  <2>1. attempt' = attempt
    BY <1>4 DEF ConnThread, LoopTest, Begin, DialSucceeds, DialFails, Hello, ReceiveTest, ReceiveNothing,
       HandleChallenge, BuildReady, SendReady, ResendResults, HandleRevoked, Leave, StopTest
  <2> QED
    BY <1>1, <2>1
<1> QED
  BY <1>2, <1>3, <1>4

LEMMA LoopEnds ==
    ASSUME ConnThread, pc # "ended", pc' = "ended" PROVE stopped' \/ DelayOverflows
BY DEF ConnThread, LoopTest, Begin, DialSucceeds, DialFails, Hello, ReceiveTest, ReceiveNothing,
   HandleChallenge, BuildReady, SendReady, AnnounceReady, ResendResults, HandleRevoked, Leave, StopTest,
   BackOff, Goto

\* The delay grows from one attempt to the next until a connection has reached
\* READY, and the runner gives up only when it is stopped or the delay is out
\* of the range of a float.
THEOREM ReconnectsOnlyWithBackoff == Spec => ReconnectsWithBackoff
<1>1. Typed /\ Ordered /\ [Next]_vars
        => [ /\ attempt' < attempt => "READY" \in heard[conn']
             /\ (pc # "ended" /\ pc' = "ended") => (stopped' \/ DelayOverflows) ]_vars
  <2> SUFFICES ASSUME Typed, Ordered, [Next]_vars
               PROVE  /\ attempt' < attempt => "READY" \in heard[conn']
                      /\ (pc # "ended" /\ pc' = "ended") => (stopped' \/ DelayOverflows)
    OBVIOUS
  <2>1. ASSUME ConnThread, attempt' < attempt PROVE "READY" \in heard[conn']
    BY <2>1, CounterFalls DEF Ordered, Progress
  <2>2. ASSUME UNCHANGED <<conn, attempt, pc>> PROVE ~(attempt' < attempt)
    BY <2>2, SessionAssumption DEF SessionAssumption, Typed, TypeOK
  <2> QED
    BY <2>1, <2>2, ThreadAlone, LoopEnds
<1> QED
  BY <1>1, InitTyped, StepTyped, InitOrdered, StepOrdered, PTL DEF Spec, ReconnectsWithBackoff

-----------------------------------------------------------------------------
(* stop() ends the loop: what StopEnds needs besides fairness.              *)

\* A bound for the steps of the connection thread until its end, once the flag
\* is set.
Remaining ==
    CASE pc = "ended"               -> 0
      [] pc \in {"loop", "check"}   -> 1
      [] pc \in {"offline", "leave"} -> 2
      [] pc = "top"                 -> 3
      [] pc = "work"                -> 4
      [] pc = "announce"            -> 5
      [] pc = "send"                -> 6
      [] pc = "build"               -> 7
      [] pc \in {"hello", "recv"}   -> 8
      [] pc = "dial"                -> 9
      [] OTHER                      -> 10

StopIsNear == (user # "running" \/ ~identity) => stopped

EachStepNearer == [][stopped => stopped' /\ (ConnThread => Remaining' < Remaining)]_vars

\* From the first assignment of stop() on, or once the identity is gone, the flag
\* is set for good, and every step of the connection thread leads towards its end:
\* no connection is received on, dialled or waited for a second time, whatever the
\* server sends and the other threads do (agent.py 224-231, 353-394).
THEOREM StoppingIsFinal == Spec => []StopIsNear /\ EachStepNearer
<1>1. ASSUME Typed, ConnThread, stopped PROVE stopped' /\ Remaining' < Remaining
  <2>1. stopped'
    BY <1>1 DEF ConnThread, LoopTest, Begin, DialSucceeds, DialFails, Hello, ReceiveTest,
       ReceiveNothing, HandleChallenge, BuildReady, SendReady, AnnounceReady, ResendResults, HandleRevoked,
       Leave, StopTest, BackOff
  <2>2. \/ pc \in {"loop", "check"} /\ pc' = "ended"
        \/ pc = "begin" /\ pc' = "dial"
        \/ pc = "dial" /\ pc' \in {"hello", "check"}
        \/ pc \in {"hello", "recv"} /\ pc' \in {"top", "leave", "build"}
        \/ pc = "build" /\ pc' = "send"
        \/ pc = "send" /\ pc' \in {"announce", "leave"}
        \/ pc = "announce" /\ pc' = "work"
        \/ pc = "work" /\ pc' \in {"top", "leave"}
        \/ pc = "top" /\ pc' = "leave"
        \/ pc = "leave" /\ pc' = "check"
        \/ pc = "offline" /\ pc' \in {"loop", "ended"}
    BY <1>1 DEF ConnThread, LoopTest, Begin, DialSucceeds, DialFails, Hello, ReceiveTest,
       ReceiveNothing, HandleChallenge, BuildReady, SendReady, AnnounceReady, ResendResults, HandleRevoked,
       Leave, StopTest, BackOff, Goto
  <2>3. Remaining' < Remaining
    BY <2>2 DEF Remaining
  <2> QED
    BY <2>1, <2>3
<1>2. ASSUME [Next]_vars, ~ConnThread, stopped PROVE stopped'
  <2> USE DEF connVars, netVars, hbVars, trayVars
  <2>1. ASSUME NEW c \in Conns, Heartbeat(c) PROVE stopped'
    BY <1>2, <2>1 DEF Heartbeat, HeartbeatWakes, HeartbeatChecks, HeartbeatSends
  <2>2. CASE Tray \/ Stop \/ Environment \/ UNCHANGED vars
    BY <1>2, <2>2 DEF Tray, Refresh, CaptureSocket, CheckReady, BuildAgain, SendAgain,
       Stop, StopSetsFlag, StopSetsState, StopClosesSocket,
       Environment, FolderChanges, ServerChallenges, ServerRevokes, Break, vars
  <2> QED
    BY <1>2, <2>1, <2>2 DEF Next
<1>3. Typed /\ [Next]_vars => [stopped => stopped' /\ (ConnThread => Remaining' < Remaining)]_vars
  BY <1>1, <1>2
<1>4. Init => Ended /\ Banned
  BY DEF Init, Ended, Banned
<1>5. Ended /\ Banned => StopIsNear
  BY DEF Ended, Banned, StopIsNear
<1> QED
  BY <1>3, <1>4, <1>5, InitTyped, StepTyped, StepEnded, StepBanned, PTL DEF Spec, EachStepNearer

-----------------------------------------------------------------------------
(* Changes of the folders: what ChangeReported needs besides fairness, and  *)
(* the one way in which a change is left for the next connection.          *)

\* The READY of the connection has been built, or sent and the connection used.
Past == pc \in {"send", "announce", "work"} \/ (pc \in {"top", "recv"} /\ "READY" \in heard[conn])

\* The list in the last READY of the connection, be it sent or only built.
Latest == IF pc = "send" THEN built ELSE known[conn]

\* The tray will notice the change, has it in hand, or it is in that READY.
Underway ==
    \/ seen # local
    \/ tray \in {"capture", "check", "build"}
    \/ tray = "send" /\ tsock = conn
    \/ Latest = local

Unreported == Past /\ Open(conn) /\ ~Underway

\* There is one handshake per connection.
Fresh ==
    /\ \A c \in Conns : c > conn => heard[c] = {}
    /\ pc = "hello" => heard[conn] = {}
    /\ \A i \in DOMAIN inbox : inbox[i] = "CHALLENGE" => i = 1 /\ conn \in Conns /\ heard[conn] = {"HELLO"}
    /\ pc \in {"build", "send"} => "READY" \notin heard[conn]

\* No list is newer than the stores' own, and a tray that sends sends what it has
\* compared, or newer.
Versions ==
    /\ seen <= local /\ built <= local
    /\ \A c \in Conns : known[c] <= local
    /\ tray = "send" => seen <= tbuilt /\ tbuilt <= local

\* A tray that still has the socket of an older connection noticed its change before
\* the READY of this one was built.
Overtaken ==
    Past /\ tray \in {"check", "build", "send"} /\ tsock # conn => seen <= Latest

LEMMA HeardIs ==
    ASSUME Typed, NEW c \in Conns, NEW type, Hear(c, type)
    PROVE  \A d \in Conns : heard'[d] = IF d = c THEN heard[d] \cup {type} ELSE heard[d]
BY DEF Hear, Typed, TypeOK

\* What is sent on a connection where READY can be sent is no news, but for a
\* heartbeat on one that has got that far.
LEMMA TrayHeard ==
    ASSUME Typed, Ordered, SendAgain
    PROVE  (\A c \in Conns : heard'[c] = heard[c])
           /\ tsock \in Conns /\ (Open(tsock) => "READY" \in heard[tsock])
<1>1. tsock \in Conns /\ Settled(tsock)
  BY Numbers DEF SendAgain, Ordered, Progress
<1>2. Open(tsock) => "READY" \in heard[tsock]
  BY <1>1 DEF Settled, Open
<1>3. heard' = heard \/ (Open(tsock) /\ heard' = [heard EXCEPT ![tsock] = heard[tsock] \cup {"READY"}])
  BY DEF SendAgain, HearReady, Hear
<1>4. \A c \in Conns : heard'[c] = heard[c]
  <2>1. Open(tsock) => heard[tsock] \cup {"READY"} = heard[tsock]
    BY <1>2
  <2> QED
    BY <1>1, <1>3, <2>1 DEF Typed, TypeOK
<1> QED
  BY <1>1, <1>2, <1>4

LEMMA HeartbeatHeard ==
    ASSUME Typed, Ordered, NEW c \in Conns, Heartbeat(c)
    PROVE  \/ heard' = heard
           \/ /\ "READY" \in heard[c]
              /\ \A d \in Conns : heard'[d] = IF d = c THEN heard[d] \cup {"HEARTBEAT"} ELSE heard[d]
<1>1. CASE HeartbeatWakes(c) \/ HeartbeatChecks(c)
  BY <1>1 DEF HeartbeatWakes, HeartbeatChecks
<1>2. CASE HeartbeatSends(c) /\ Open(c)
  BY <1>2, HeardIs DEF HeartbeatSends, Ordered, Progress, Settled, Open
<1>3. CASE HeartbeatSends(c) /\ ~Open(c)
  BY <1>3 DEF HeartbeatSends
<1> QED
  BY <1>1, <1>2, <1>3 DEF Heartbeat

LEMMA InboxFacts ==
    ASSUME Typed
    PROVE  /\ Len(inbox) \in Nat /\ DOMAIN inbox = 1..Len(inbox)
           /\ inbox # <<>> => /\ 1 \in DOMAIN inbox /\ Head(inbox) = inbox[1]
                              /\ \A i \in DOMAIN Tail(inbox) : i + 1 \in DOMAIN inbox /\ i + 1 # 1
                                                             /\ Tail(inbox)[i] = inbox[i + 1]
<1>1. inbox \in Seq({"CHALLENGE", "DEVICE_REVOKED"})
  BY DEF Typed, TypeOK
<1>2. Len(inbox) \in Nat /\ DOMAIN inbox = 1..Len(inbox)
  BY <1>1
<1>3. ASSUME inbox # <<>>
      PROVE  1 \in DOMAIN inbox /\ Head(inbox) = inbox[1]
  BY <1>1, <1>2, <1>3
<1>4. ASSUME inbox # <<>>
      PROVE  \A i \in DOMAIN Tail(inbox) : i + 1 \in DOMAIN inbox /\ i + 1 # 1 /\ Tail(inbox)[i] = inbox[i + 1]
  <2>1. Len(Tail(inbox)) = Len(inbox) - 1 /\ DOMAIN Tail(inbox) = 1..(Len(inbox) - 1)
    BY <1>1, <1>2, <1>4
  <2> QED
    BY <1>1, <1>2, <1>4, <2>1
<1> QED
  BY <1>2, <1>3, <1>4

LEMMA StepFresh == Typed /\ Ordered /\ Fresh /\ [Next]_vars => Fresh'
<1> SUFFICES ASSUME Typed, Ordered, Fresh, [Next]_vars PROVE Fresh'
  OBVIOUS
\* Steps that are heard of by nobody, and leave at most messages out.
<1>1. ASSUME conn' = conn, \A c \in Conns : heard'[c] = heard[c], conn = 0 => heard' = heard,
             pc' = pc \/ pc' \notin {"hello", "build", "send"} \/ (pc = "build" /\ pc' = "send"),
             inbox' = inbox \/ inbox' = <<>> \/ (inbox # <<>> /\ inbox' = Tail(inbox))
      PROVE  Fresh'
  <2>1. heard'[conn] = heard[conn]
    BY <1>1, Numbers
  <2>2. ASSUME NEW i \in DOMAIN inbox', inbox'[i] = "CHALLENGE"
        PROVE  i = 1 /\ conn' \in Conns /\ heard'[conn'] = {"HELLO"}
    <3>1. CASE inbox' = inbox
      BY <1>1, <2>1, <2>2, <3>1 DEF Fresh
    <3>2. CASE inbox # <<>> /\ inbox' = Tail(inbox)
      <4>1. i + 1 \in DOMAIN inbox /\ i + 1 # 1 /\ inbox[i + 1] = "CHALLENGE"
        BY <2>2, <3>2, InboxFacts
      <4> QED
        BY <4>1 DEF Fresh
    <3>3. inbox' # <<>>
      BY <2>2
    <3> QED
      BY <1>1, <3>1, <3>2, <3>3
  <2> QED
    BY <1>1, <2>1, <2>2 DEF Fresh
<1>2. CASE DialSucceeds
  <2>1. conn' = conn + 1 /\ heard' = heard /\ inbox' = <<>> /\ pc' = "hello"
    BY <1>2 DEF DialSucceeds, Goto
  <2>2. conn + 1 \in Conns /\ conn + 1 > conn
    BY <1>2, Numbers, SessionAssumption DEF DialSucceeds, Conns, SessionAssumption
  <2>3. \A c \in Conns : c > conn + 1 => c > conn
    BY Numbers
  <2> QED
    BY <2>1, <2>2, <2>3 DEF Fresh
<1>3. CASE Hello
  <2>1. pc = "hello" /\ pc' \in {"top", "leave"} /\ conn' = conn /\ inbox' = inbox /\ conn \in Conns
    BY <1>3, Numbers DEF Hello, Goto, netVars, Serving
  <2>2. \A d \in Conns : heard'[d] = heard[d] \/ (d = conn /\ heard'[d] = heard[d] \cup {"HELLO"})
    BY <1>3, <2>1, HeardIs DEF Hello
  <2>3. \A c \in Conns : c > conn => c # conn
    BY Numbers
  <2>4. \A i \in DOMAIN inbox : inbox[i] # "CHALLENGE"
    BY <2>1 DEF Fresh
  <2> QED
    BY <2>1, <2>2, <2>3, <2>4 DEF Fresh
<1>4. CASE HandleChallenge
  <2>1. /\ pc = "recv" /\ pc' \in {"build", "leave"} /\ conn' = conn /\ conn \in Conns
        /\ inbox # <<>> /\ Head(inbox) = "CHALLENGE" /\ inbox' = Tail(inbox)
    BY <1>4, Numbers DEF HandleChallenge, Goto, Serving
  <2>2. \A d \in Conns : heard'[d] = heard[d] \/ (d = conn /\ heard'[d] = heard[d] \cup {"AUTH"})
    BY <1>4, <2>1, HeardIs DEF HandleChallenge
  <2>3. heard[conn] = {"HELLO"}
    BY <2>1, InboxFacts DEF Fresh
  <2>4. \A i \in DOMAIN inbox' : inbox'[i] # "CHALLENGE"
    BY <2>1, InboxFacts DEF Fresh
  <2>5. \A c \in Conns : c > conn => c # conn
    BY Numbers
  <2> QED
    BY <2>1, <2>2, <2>3, <2>4, <2>5 DEF Fresh
<1>5. CASE SendReady
  <2>1. /\ pc = "send" /\ pc' \in {"announce", "leave"} /\ conn' = conn /\ inbox' = inbox /\ conn \in Conns
        /\ "AUTH" \in heard[conn]
    BY <1>5, Numbers DEF SendReady, Goto, netVars, Serving, Ordered, Progress
  <2>2. \A d \in Conns : heard'[d] = heard[d] \/ (d = conn /\ heard'[d] = heard[d] \cup {"READY"})
    BY <1>5, <2>1, HeardIs DEF SendReady, HearReady
  <2>3. \A i \in DOMAIN inbox : inbox[i] # "CHALLENGE"
    BY <2>1 DEF Fresh
  <2>4. \A c \in Conns : c > conn => c # conn
    BY Numbers
  <2> QED
    BY <2>1, <2>2, <2>3, <2>4 DEF Fresh
<1>6. CASE LoopTest \/ Begin \/ DialFails \/ ReceiveTest \/ ReceiveNothing \/ BuildReady \/ AnnounceReady
           \/ ResendResults \/ HandleRevoked \/ Leave \/ StopTest \/ BackOff
  BY <1>1, <1>6 DEF LoopTest, Begin, DialFails, ReceiveTest, ReceiveNothing, BuildReady, AnnounceReady,
     ResendResults, HandleRevoked, Leave, StopTest, BackOff, Goto, netVars
<1>7. ASSUME NEW c \in Conns, Heartbeat(c) PROVE Fresh'
  <2>1. UNCHANGED <<conn, inbox, pc>>
    BY <1>7 DEF Heartbeat, HeartbeatWakes, HeartbeatChecks, HeartbeatSends, netVars, connVars
  <2>2. CASE heard' = heard
    BY <1>1, <2>1, <2>2
  <2>3. CASE /\ "READY" \in heard[c]
             /\ \A d \in Conns : heard'[d] = IF d = c THEN heard[d] \cup {"HEARTBEAT"} ELSE heard[d]
    <3>1. \A d \in Conns : "READY" \notin heard[d] => heard'[d] = heard[d]
      BY <2>3
    <3>2. pc \in {"hello", "build", "send"} => conn \in Conns
      BY Numbers DEF Serving
    <3>3. \A i \in DOMAIN inbox : inbox[i] = "CHALLENGE" => conn \in Conns
      BY DEF Fresh
    <3> QED
      BY <2>1, <3>1, <3>2, <3>3 DEF Fresh
  <2> QED
    BY <1>7, <2>2, <2>3, HeartbeatHeard
<1>8. CASE Tray
  <2>1. UNCHANGED <<conn, inbox, pc>>
    BY <1>8 DEF Tray, Refresh, CaptureSocket, CheckReady, BuildAgain, SendAgain, netVars, connVars
  <2>2. CASE SendAgain
    BY <1>1, <2>1, <2>2, TrayHeard, Numbers DEF Anchored, Typed, SendAgain
  <2>3. CASE Refresh \/ CaptureSocket \/ CheckReady \/ BuildAgain
    BY <1>1, <2>1, <2>3 DEF Refresh, CaptureSocket, CheckReady, BuildAgain
  <2> QED
    BY <1>8, <2>2, <2>3 DEF Tray
<1>9. CASE Stop
  BY <1>1, <1>9 DEF Stop, StopSetsFlag, StopSetsState, StopClosesSocket, connVars, netVars
<1>10. CASE ServerChallenges \/ ServerRevokes
  <2>1. UNCHANGED <<conn, pc, heard>>
    BY <1>10 DEF ServerChallenges, ServerRevokes, connVars
  <2>2. \/ inbox = <<>> /\ inbox' = Append(inbox, "CHALLENGE") /\ heard[conn] = {"HELLO"} /\ conn \in Conns
        \/ inbox' = Append(inbox, "DEVICE_REVOKED")
    BY <1>10, Numbers DEF ServerChallenges, ServerRevokes, Reading, Serving
  <2>3. inbox \in Seq({"CHALLENGE", "DEVICE_REVOKED"})
    BY DEF Typed, TypeOK
  <2>4. ASSUME NEW i \in DOMAIN inbox', inbox'[i] = "CHALLENGE"
        PROVE  i = 1 /\ conn \in Conns /\ heard[conn] = {"HELLO"}
    <3>1. CASE inbox = <<>> /\ inbox' = Append(inbox, "CHALLENGE") /\ heard[conn] = {"HELLO"} /\ conn \in Conns
      <4>1. DOMAIN inbox' = 1..1
        BY <3>1
      <4> QED
        BY <2>4, <3>1, <4>1
    <3>2. CASE inbox' = Append(inbox, "DEVICE_REVOKED")
      <4>1. i \in 1..(Len(inbox) + 1) /\ Len(inbox) \in Nat
        BY <2>3, <2>4, <3>2
      <4>2. i # Len(inbox) + 1
        BY <2>3, <2>4, <3>2
      <4>3. i \in DOMAIN inbox /\ inbox[i] = "CHALLENGE"
        BY <2>3, <2>4, <3>2, <4>1, <4>2
      <4> QED
        BY <4>3 DEF Fresh
    <3> QED
      BY <2>2, <3>1, <3>2
  <2> QED
    BY <2>1, <2>4 DEF Fresh
<1>11. CASE FolderChanges \/ \E c \in Conns : Break(c)
  BY <1>1, <1>11 DEF FolderChanges, Break, connVars, netVars
<1>12. CASE UNCHANGED vars
  BY <1>1, <1>12 DEF vars, connVars, netVars
<1> QED
  BY <1>2, <1>3, <1>4, <1>5, <1>6, <1>7, <1>8, <1>9, <1>10, <1>11, <1>12 DEF Next, ConnThread, Environment

LEMMA StepVersions == Typed /\ Versions /\ [Next]_vars => Versions'
<1> SUFFICES ASSUME Typed, Versions, [Next]_vars PROVE Versions'
  OBVIOUS
<1> USE DEF Versions, connVars, netVars, hbVars, trayVars
<1>0. /\ local \in Nat /\ seen \in Nat /\ built \in Nat /\ tbuilt \in Nat
      /\ \A c \in Conns : known[c] \in Nat
  BY SessionAssumption DEF Typed, TypeOK, SessionAssumption
<1>1. CASE ConnThread
  <2>1. CASE BuildReady
    BY <1>0, <2>1 DEF BuildReady
  <2>2. CASE SendReady
    <3>1. \A c \in Conns : known'[c] \in {known[c], built}
      BY <2>2 DEF SendReady, HearReady, Typed, TypeOK
    <3> QED
      BY <1>0, <2>2, <3>1 DEF SendReady
  <2>3. CASE ~BuildReady /\ ~SendReady
    BY <1>1, <2>3 DEF ConnThread, LoopTest, Begin, DialSucceeds, DialFails, Hello, ReceiveTest, ReceiveNothing,
       HandleChallenge, AnnounceReady, ResendResults, HandleRevoked, Leave, StopTest, BackOff
  <2> QED
    BY <2>1, <2>2, <2>3
<1>2. ASSUME NEW c \in Conns, Heartbeat(c) PROVE Versions'
  BY <1>2 DEF Heartbeat, HeartbeatWakes, HeartbeatChecks, HeartbeatSends
<1>3. CASE Refresh \/ CaptureSocket \/ CheckReady \/ BuildAgain
  BY <1>0, <1>3 DEF Refresh, CaptureSocket, CheckReady, BuildAgain
<1>4. CASE SendAgain
  <2>1. \A c \in Conns : known'[c] \in {known[c], tbuilt}
    BY <1>4 DEF SendAgain, HearReady, Typed, TypeOK
  <2> QED
    BY <1>0, <1>4, <2>1 DEF SendAgain
<1>5. CASE Stop
  BY <1>5 DEF Stop, StopSetsFlag, StopSetsState, StopClosesSocket
<1>6. CASE FolderChanges
  BY <1>0, <1>6 DEF FolderChanges
<1>7. CASE Environment /\ ~FolderChanges
  BY <1>7 DEF Environment, ServerChallenges, ServerRevokes, Break
<1>8. CASE UNCHANGED vars
  BY <1>8 DEF vars
<1> QED
  BY <1>1, <1>2, <1>3, <1>4, <1>5, <1>6, <1>7, <1>8 DEF Next, Tray

LEMMA HelloHeard ==
    ASSUME Typed, Hello, conn \in Conns, heard[conn] = {}
    PROVE  heard'[conn] \subseteq {"HELLO"}
<1>1. CASE Hear(conn, "HELLO")
  BY <1>1, HeardIs
<1>2. CASE heard' = heard
  BY <1>2
<1> QED
  BY <1>1, <1>2 DEF Hello

\* What the connection thread does to the READY of its connection: it builds it,
\* sends what it has built, or leaves it as it is.
LEMMA ThreadLatest ==
    ASSUME Typed, Ordered, Fresh, ConnThread, Past'
    PROVE  /\ UNCHANGED <<conn, seen, local, tray, tsock, tbuilt>>
           /\ Latest' = local \/ (Past /\ Latest' = Latest)
           /\ Open(conn)' => Open(conn)
<1> USE DEF Typed, TypeOK, Goto, Open, netVars, hbVars, trayVars
<1>1. CASE BuildReady
  BY <1>1 DEF BuildReady, Latest
<1>2. CASE SendReady
  <2>1. conn \in Conns /\ pc = "send"
    BY <1>2, Numbers DEF SendReady, Serving
  <2>2. pc' = "announce"
    BY <1>2 DEF SendReady, Past
  <2>3. known'[conn] = built
    BY <1>2, <2>1, <2>2 DEF SendReady, HearReady
  <2> QED
    BY <1>2, <2>1, <2>2, <2>3 DEF SendReady, Latest, Past
<1>3. CASE Hello
  <2>1. pc = "hello" /\ pc' \in {"top", "leave"} /\ conn' = conn /\ heard[conn] = {} /\ conn \in Conns
    BY <1>3, Numbers DEF Hello, Fresh, Serving
  <2>2. heard'[conn] \subseteq {"HELLO"}
    BY <1>3, <2>1, HelloHeard
  <2> QED
    BY <2>1, <2>2 DEF Past
<1>4. CASE AnnounceReady \/ ResendResults \/ ReceiveTest \/ ReceiveNothing
  <2>1. UNCHANGED <<conn, link, known, heard, seen, local, tray, tsock, tbuilt>>
    BY <1>4 DEF AnnounceReady, ResendResults, ReceiveTest, ReceiveNothing
  <2>2. /\ pc \in {"announce", "work", "top", "recv"} /\ pc' # "send"
        /\ pc \in {"top", "recv"} /\ pc' \in {"announce", "work", "top", "recv"} => pc' \in {"top", "recv"}
    BY <1>4 DEF AnnounceReady, ResendResults, ReceiveTest, ReceiveNothing
  <2>3. Past
    BY <2>1, <2>2 DEF Past
  <2>4. Latest' = Latest
    BY <2>1, <2>2 DEF Latest
  <2> QED
    BY <2>1, <2>3, <2>4
<1>5. CASE HandleRevoked
  <2>1. UNCHANGED <<conn, known, heard, seen, local, tray, tsock, tbuilt>> /\ pc = "recv" /\ pc' = "top"
    BY <1>5 DEF HandleRevoked
  <2>2. conn \in Conns /\ link'[conn] = "closed"
    BY <1>5, <2>1, Numbers DEF HandleRevoked, Serving
  <2> QED
    BY <2>1, <2>2 DEF Past, Latest
<1>6. CASE LoopTest \/ Begin \/ DialSucceeds \/ DialFails \/ HandleChallenge \/ Leave \/ StopTest \/ BackOff
  BY <1>6 DEF LoopTest, Begin, DialSucceeds, DialFails, HandleChallenge, Leave, StopTest, BackOff, Past
<1> QED
  BY <1>1, <1>2, <1>3, <1>4, <1>5, <1>6 DEF ConnThread

LEMMA HeartbeatLatest ==
    ASSUME Typed, Ordered, NEW c \in Conns, Heartbeat(c)
    PROVE  /\ UNCHANGED <<conn, link, seen, local, tray, tsock, tbuilt, Latest>>
           /\ Past' => Past
<1>1. UNCHANGED <<conn, link, seen, local, tray, tsock, tbuilt, pc, built, known>>
  BY DEF Heartbeat, HeartbeatWakes, HeartbeatChecks, HeartbeatSends, netVars, connVars, trayVars
<1>2. \A d \in Conns : "READY" \in heard'[d] => "READY" \in heard[d]
  BY HeartbeatHeard
<1>3. pc \in {"top", "recv"} => conn \in Conns
  BY Numbers DEF Serving
<1> QED
  BY <1>1, <1>2, <1>3 DEF Past, Latest

\* What the tray leaves alone, and what it sends.
LEMMA TrayLatest ==
    ASSUME Typed, Ordered, Tray
    PROVE  /\ UNCHANGED <<conn, link, local, state>> /\ (Past' => Past) /\ (~SendAgain => Latest' = Latest)
           /\ Past => conn \in Conns /\ socket = conn
<1>1. UNCHANGED <<conn, link, local, state, pc, built, socket>>
  BY DEF Tray, Refresh, CaptureSocket, CheckReady, BuildAgain, SendAgain, netVars, connVars
<1>2. ~SendAgain => UNCHANGED <<known, heard>>
  BY DEF Tray, Refresh, CaptureSocket, CheckReady, BuildAgain
<1>3. Past => conn \in Conns /\ socket = conn
  BY Numbers DEF Past, Serving
<1>4. Past' => Past
  <2>1. pc \in {"top", "recv"} => conn \in Conns
    BY Numbers DEF Serving
  <2> QED
    BY <1>1, <1>2, <2>1, TrayHeard DEF Past
<1> QED
  BY <1>1, <1>2, <1>3, <1>4 DEF Latest

LEMMA OthersLatest ==
    ASSUME Stop \/ Environment \/ UNCHANGED vars, Typed
    PROVE  /\ UNCHANGED <<conn, seen, tray, tsock, tbuilt, Latest, Past>>
           /\ conn \in Conns /\ Open(conn)' => Open(conn)
           /\ local' \in {local, local + 1}
<1>1. UNCHANGED <<conn, seen, tray, tsock, tbuilt, pc, built, known, heard>>
  BY DEF Stop, StopSetsFlag, StopSetsState, StopClosesSocket, Environment, FolderChanges, ServerChallenges,
     ServerRevokes, Break, vars, connVars, netVars, trayVars
<1>2. link' = link \/ \E c : link' = [link EXCEPT ![c] = "closed"]
  BY DEF Stop, StopSetsFlag, StopSetsState, StopClosesSocket, Environment, FolderChanges, ServerChallenges,
     ServerRevokes, Break, vars, netVars
<1>3. local' \in {local, local + 1}
  BY DEF Stop, StopSetsFlag, StopSetsState, StopClosesSocket, Environment, FolderChanges, ServerChallenges,
     ServerRevokes, Break, vars
<1>4. UNCHANGED <<Latest, Past>>
  BY <1>1 DEF Latest, Past
<1>5. conn \in Conns /\ Open(conn)' => Open(conn)
  <2> SUFFICES ASSUME conn \in Conns, link'[conn] = "up" PROVE link[conn] = "up"
    BY <1>1 DEF Open
  <2>1. CASE link' = link
    BY <2>1
  <2>2. ASSUME NEW c, link' = [link EXCEPT ![c] = "closed"] PROVE link[conn] = "up"
    BY <2>2 DEF Typed, TypeOK
  <2> QED
    BY <1>2, <2>1, <2>2
<1> QED
  BY <1>1, <1>3, <1>4, <1>5

LEMMA StepOvertaken ==
    Typed /\ Ordered /\ Fresh /\ Versions /\ Overtaken /\ [Next]_vars => Overtaken'
<1> SUFFICES ASSUME Typed, Ordered, Fresh, Versions, Overtaken, [Next]_vars PROVE Overtaken'
  OBVIOUS
<1> USE DEF Overtaken
<1>1. CASE ConnThread
  BY <1>1, ThreadLatest DEF Versions
<1>2. ASSUME NEW c \in Conns, Heartbeat(c) PROVE Overtaken'
  BY <1>2, HeartbeatLatest
<1>3. CASE Tray
  BY <1>3, TrayLatest DEF Tray, Refresh, CaptureSocket, CheckReady, BuildAgain, SendAgain
<1>4. CASE Stop \/ Environment \/ UNCHANGED vars
  BY <1>4, OthersLatest
<1> QED
  BY <1>1, <1>2, <1>3, <1>4 DEF Next

\* A change that the tray noticed before the READY of the connection was built is in
\* it, whatever becomes of the tray's own message.
LEMMA OldSocketTold ==
    ASSUME Typed, Versions, Overtaken, Past, tray \in {"check", "build", "send"}, tsock # conn
    PROVE  seen # local \/ Latest = local
<1>1. local \in Nat /\ seen \in Nat /\ built \in Nat /\ (conn \in Conns => known[conn] \in Nat)
  BY SessionAssumption DEF Typed, TypeOK, SessionAssumption
<1>2. conn \in Conns
  BY Numbers DEF Past, Serving
<1>3. Latest \in Nat /\ Latest <= local /\ seen <= Latest
  BY <1>1, <1>2 DEF Latest, Versions, Overtaken
<1> QED
  BY <1>1, <1>3

\* While a connection lasts, a change of the folders is in its READY, or the tray has
\* it in hand or will notice it, but for one case: the tray asks for the state
\* between the building of READY and its announcement.  Neither a socket of an older
\* connection, nor a second change, nor a READY of the connection thread that
\* crosses one of the tray makes the server keep an older list (resend_ready,
\* agent.py 199-222, 475-488; tray_app.py 396-415).
OnlySkippedUnreported ==
    [][~Unreported /\ Unreported' => CheckReady /\ tsock = conn /\ state # "READY"]_vars

THEOREM OnlySkippedChangesAreLate == Spec => OnlySkippedUnreported
<1> DEFINE RInv == Typed /\ Ordered /\ Fresh /\ Versions /\ Overtaken
           Skips == ~Unreported /\ Unreported' => CheckReady /\ tsock = conn /\ state # "READY"
<1>1. Init => Fresh /\ Versions /\ Overtaken
  BY DEF Init, Fresh, Versions, Overtaken, Past
<1>2. ASSUME RInv, [Next]_vars, ~Unreported, Unreported'
      PROVE  CheckReady /\ tsock = conn /\ state # "READY"
  <2>0. Past' /\ Open(conn)' /\ ~Underway'
    BY <1>2 DEF Unreported
  <2>1. local \in Nat
    BY <1>2, SessionAssumption DEF Typed, TypeOK, SessionAssumption
  <2>2. ASSUME ConnThread PROVE FALSE
    BY <1>2, <2>0, <2>2, ThreadLatest DEF Unreported, Underway
  <2>3. ASSUME NEW c \in Conns, Heartbeat(c) PROVE FALSE
    BY <1>2, <2>0, <2>3, HeartbeatLatest DEF Unreported, Underway, Open
  <2>4. ASSUME Stop \/ Environment \/ UNCHANGED vars PROVE FALSE
    <3>1. local' = local + 1 => seen' # local'
      BY <1>2, <2>1, <2>4, OthersLatest, SessionAssumption DEF Versions, Typed, TypeOK, SessionAssumption
    <3>2. Past /\ conn \in Conns
      BY <1>2, <2>0, <2>4, OthersLatest, Numbers DEF Past, Serving
    <3> QED
      BY <1>2, <2>0, <2>4, <3>1, <3>2, OthersLatest DEF Unreported, Underway
  <2>5. CASE Refresh \/ CaptureSocket
    <3>1. Past /\ socket # 0
      BY <1>2, <2>0, <2>5, TrayLatest DEF Tray, Conns
    <3> QED
      BY <2>0, <2>5, <3>1 DEF Refresh, CaptureSocket, Underway
  <2>6. CASE CheckReady \/ BuildAgain
    <3>1. /\ Past /\ Latest' = Latest /\ UNCHANGED <<conn, local, seen>> /\ tray \in {"check", "build"}
      BY <1>2, <2>0, <2>6, TrayLatest DEF Tray, CheckReady, BuildAgain, SendAgain
    <3>2. tsock = conn
      BY <1>2, <2>0, <3>1, OldSocketTold DEF Underway
    <3> QED
      BY <2>0, <2>6, <3>1, <3>2 DEF CheckReady, BuildAgain, Underway
  <2>7. ASSUME SendAgain PROVE FALSE
    <3>1. /\ Past /\ UNCHANGED <<conn, local, seen, link, pc, built>> /\ tray = "send" /\ conn \in Conns
          /\ seen = local
      BY <1>2, <2>0, <2>7, TrayLatest DEF Tray, SendAgain, Underway, connVars
    <3>2. CASE tsock # conn
      <4>1. Latest' = Latest
        BY <1>2, <2>7, <3>1, <3>2 DEF SendAgain, HearReady, Latest, Typed, TypeOK
      <4> QED
        BY <1>2, <2>0, <3>1, <3>2, <4>1, OldSocketTold DEF Underway
    <3>3. CASE tsock = conn
      <4>1. Open(conn) /\ pc # "send"
        BY <1>2, <2>0, <2>7, <3>1, <3>3, TrayHeard DEF Open, Fresh
      <4>2. known'[conn] = tbuilt
        BY <1>2, <2>7, <3>1, <3>3, <4>1 DEF SendAgain, HearReady, Typed, TypeOK
      <4>3. tbuilt = local
        BY <1>2, <2>1, <3>1, SessionAssumption DEF Versions, Typed, TypeOK, SessionAssumption
      <4> QED
        BY <2>0, <3>1, <4>1, <4>2, <4>3 DEF Latest, Underway
    <3> QED
      BY <3>2, <3>3
  <2> QED
    BY <1>2, <2>2, <2>3, <2>4, <2>5, <2>6, <2>7 DEF Next, Tray
<1>3. RInv /\ [Next]_vars => [Skips]_vars
  BY <1>2
<1> QED
  BY <1>1, <1>3, InitTyped, StepTyped, InitOrdered, StepOrdered, StepFresh, StepVersions, StepOvertaken, PTL
     DEF Spec, OnlySkippedUnreported
=============================================================================
