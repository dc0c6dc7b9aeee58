---------------------------- MODULE TaskDelivery ----------------------------
(***************************************************************************)
(* How the PC runner (agent.py, class ContractPcRunner) receives TASKs,    *)
(* executes them and gets their RESULTs to the server, across dropped      *)
(* connections, repeated messages and restarts of the process.             *)
(*                                                                         *)
(* Actors: the connection thread (_connection_loop), one task thread per   *)
(* TASK message (_run_task) serialised by _task_lock, the history file of  *)
(* processed_task_store.py, and the server, which is external and modelled *)
(* from the protocol the runner relies on.                                 *)
(*                                                                         *)
(* A step ends where the code can block: a socket send, a lock, opening    *)
(* and writing the history file.  Handshake contents, PROGRESS texts and   *)
(* the payload of a RESULT are abstracted; a RESULT is the number of the   *)
(* execution that produced it.                                             *)
(***************************************************************************)
EXTENDS Naturals, Sequences, FiniteSets

CONSTANTS
    Dispatches,     \* taskId:dispatchId keys
    Threads,        \* task threads that can be alive at once
    None,           \* no thread, no dispatch
    MaxConn,        \* bound: websocket connections over the whole behaviour
    MaxSends,       \* times the server sends one TASK: the first, then one retransmission
    MaxDrops,       \* bound: network failures
    MaxCrashes,     \* bound: process exits
    MaxUnsaved      \* bound: saves of the history that raise

ASSUME DeliveryAssumption ==
    /\ IsFiniteSet(Dispatches)
    /\ None \notin Dispatches \cup Threads
    /\ MaxConn \in Nat /\ MaxSends \in Nat
    /\ MaxDrops \in Nat /\ MaxCrashes \in Nat /\ MaxUnsaved \in Nat

VARIABLES
    link,       \* per connection: "none", "up", "dead" (cut, not yet noticed) or "closed"
    conn,       \* number of the newest connection
    cpc,        \* where the connection thread is
    left,       \* keys _resend_unacked_results has still to visit
    size,       \* size of the dictionary when that iteration began
    inbox,      \* messages on their way to the runner on connection conn
    cache,      \* _result_cache
    disk,       \* contents of the history file, as load() would return them
    snap,       \* the serialised history a save() is about to write, per kind of writer
    tpc,        \* where each task thread is
    tdis,       \* the dispatch it works for
    tsock,      \* the connection whose socket it captured
    lock,       \* holder of _task_lock
    execs,      \* how often each dispatch was executed, over all restarts
    ranHere,    \* dispatches executed since this process started
    aged,       \* dispatches whose result is older than PROCESSED_TASK_RETENTION_S
    sends,      \* server: TASKs sent per dispatch
    status,     \* server: what it knows of the dispatch
    got,        \* server: the different RESULTs received per dispatch
    drops, crashes, unsaved

netVars    == <<link, conn, inbox>>
connVars   == <<cpc, left, size>>
threadVars == <<tpc, tdis, tsock, lock>>
storeVars  == <<cache, disk, snap, aged>>
histVars   == <<execs, ranHere>>
serverVars == <<sends, status, got>>
faultVars  == <<drops, crashes, unsaved>>
vars == <<netVars, connVars, threadVars, storeVars, histVars, serverVars, faultVars>>

Conns    == 1..MaxConn
Writers  == {"conn", "task"}
LinkState == {"none", "up", "dead", "closed"}
ConnPc   == {"offline", "auth", "ready", "resend", "recv", "save", "flush"}
ThreadPc == {"free", "lock", "validate", "progress", "execute",
             "save", "flush", "reack", "result"}
Status   == {"none", "accepted", "rejected", "expired"}
Message  == [type : {"TASK", "RESULT_ACK"}, key : Dispatches]

\* A record of _result_cache; res = 0 stands for an absent key.
Entry   == [res : Nat, acked : BOOLEAN]
NoEntry == [res |-> 0, acked |-> FALSE]
History == [Dispatches -> Entry]
NoHistory == [d \in Dispatches |-> NoEntry]

TypeOK ==
    /\ link \in [Conns -> LinkState]
    /\ conn \in 0..MaxConn
    /\ cpc \in ConnPc
    /\ left \in SUBSET Dispatches /\ size \in Nat
    /\ inbox \in Seq(Message)
    /\ cache \in History /\ disk \in History /\ snap \in [Writers -> History]
    /\ tpc \in [Threads -> ThreadPc]
    /\ tdis \in [Threads -> Dispatches \cup {None}]
    /\ tsock \in [Threads -> 0..MaxConn]
    /\ lock \in Threads \cup {None}
    /\ execs \in [Dispatches -> Nat]
    /\ ranHere \in SUBSET Dispatches /\ aged \in SUBSET Dispatches
    /\ sends \in [Dispatches -> Nat]
    /\ status \in [Dispatches -> Status]
    /\ got \in [Dispatches -> SUBSET Nat]
    /\ drops \in Nat /\ crashes \in Nat /\ unsaved \in Nat

Init ==
    /\ link = [c \in Conns |-> "none"] /\ conn = 0 /\ inbox = <<>>
    /\ cpc = "offline" /\ left = {} /\ size = 0
    /\ tpc = [t \in Threads |-> "free"] /\ tdis = [t \in Threads |-> None]
    /\ tsock = [t \in Threads |-> 0] /\ lock = None
    /\ cache = NoHistory /\ disk = NoHistory /\ aged = {}
    /\ snap = [w \in Writers |-> NoHistory]
    /\ execs = [d \in Dispatches |-> 0] /\ ranHere = {}
    /\ sends = [d \in Dispatches |-> 0] /\ status = [d \in Dispatches |-> "none"]
    /\ got = [d \in Dispatches |-> {}]
    /\ drops = 0 /\ crashes = 0 /\ unsaved = 0

-----------------------------------------------------------------------------
(* Result cache *)

Cached(d)  == cache[d].res # 0
Pending(d) == Cached(d) /\ ~cache[d].acked
Keys(h)    == {d \in Dispatches : h[d].res # 0}

\* Faulty variant: a confirmed result goes at once.
PruneEarly(h) == [d \in Dispatches |-> IF h[d].acked THEN NoEntry ELSE h[d]]

\* _prune_result_cache: confirmed results past the retention period go.
Prune(h) == [d \in Dispatches |-> IF h[d].acked /\ d \in aged THEN NoEntry ELSE h[d]]

\* write_text: open() truncates the file, which load() reads as no history at
\* all; then the text is written.  When the other writer has written since this
\* one opened the file, the shorter text leaves a tail of the longer one behind
\* and load() again reads nothing.
Truncate == disk' = NoHistory
Write(w) == disk' \in {snap[w]} \cup (IF disk = NoHistory THEN {} ELSE {NoHistory})

\* save() raises, in mkdir, in open() or while it writes (a full disk, a file in
\* use): nobody catches that inside the handler.  The file is left as it was or
\* without a readable history.
SaveFails(w) ==
    /\ unsaved < MaxUnsaved /\ unsaved' = unsaved + 1
    /\ disk' \in {disk, NoHistory}
    /\ snap' = [snap EXCEPT ![w] = NoHistory]
    /\ UNCHANGED <<cache, aged, histVars, serverVars, drops, crashes>>

-----------------------------------------------------------------------------
(* The server (external).  It reads a message in the step that sends it. *)

\* A message of the server reaches the inbox only while the connection thread
\* still serves that socket.
Deliver(c, m) == inbox' = IF c = conn /\ cpc # "offline" THEN Append(inbox, m) ELSE inbox

\* RESULT on connection c: the server stores it and answers RESULT_ACK there.
ServerTakesResult(c, d, r) ==
    IF link[c] = "up"
    THEN /\ got' = [got EXCEPT ![d] = @ \cup {r}]
         /\ Deliver(c, [type |-> "RESULT_ACK", key |-> d])
    ELSE UNCHANGED <<got, inbox>>

\* ACK on connection c: the first one decides, unless the dispatch expired.
ServerTakesAck(c, d, accepted) ==
    status' = IF link[c] = "up" /\ status[d] = "none"
              THEN [status EXCEPT ![d] = IF accepted THEN "accepted" ELSE "rejected"]
              ELSE status

\* The server keeps one delivery per device active.
Active(d) == sends[d] > 0 /\ status[d] \in {"none", "accepted"} /\ got[d] = {}

\* TASK, or its one retransmission when no ACK came in time.
Dispatch(d) ==
    /\ cpc \notin {"offline", "auth"} /\ link[conn] = "up"
    /\ sends[d] < MaxSends /\ status[d] = "none" /\ got[d] = {} /\ d \notin aged
    /\ \A e \in Dispatches \ {d} : ~Active(e)
    /\ sends' = [sends EXCEPT ![d] = @ + 1]
    /\ inbox' = Append(inbox, [type |-> "TASK", key |-> d])
    /\ UNCHANGED <<link, conn, connVars, threadVars, storeVars, histVars, status, got, faultVars>>

\* No ACK after the retransmission, or no RESULT before expiresAt.
Expire(d) ==
    /\ Active(d)
    /\ status[d] = "accepted" \/ sends[d] = MaxSends
    /\ status' = [status EXCEPT ![d] = "expired"]
    /\ UNCHANGED <<netVars, connVars, threadVars, storeVars, histVars, sends, got, faultVars>>

-----------------------------------------------------------------------------
(* The connection thread *)

\* _connect_once: a new socket; HELLO goes out and CHALLENGE is awaited.
Connect ==
    /\ cpc = "offline" /\ conn < MaxConn
    /\ conn' = conn + 1
    /\ link' = [link EXCEPT ![conn + 1] = "up"]
    /\ inbox' = <<>>
    /\ cpc' = "auth"
    /\ UNCHANGED <<left, size, threadVars, storeVars, histVars, serverVars, faultVars>>

\* The thread gives the connection up.  Only recv() finding the socket closed
\* ends it in order; an exception leaves _connect_once without closing the
\* socket, so a link that is up stays up and nobody reads from it any more.
LeaveConnection ==
    /\ cpc' = "offline" /\ left' = {} /\ size' = 0 /\ inbox' = <<>>

\* recv() raises ConnectionClosed once what had arrived is consumed.
RecvClosed ==
    /\ cpc \in {"auth", "recv"} /\ inbox = <<>> /\ link[conn] = "closed"
    /\ LeaveConnection
    /\ UNCHANGED <<link, conn, threadVars, storeVars, histVars, serverVars, faultVars>>

\* CHALLENGE: AUTH and READY are sent, the state becomes READY.  CHALLENGE may
\* have arrived just before the link broke.
Authenticate ==
    /\ cpc = "auth"
    /\ IF link[conn] = "closed"
       THEN LeaveConnection
       ELSE cpc' = "ready" /\ UNCHANGED <<left, size, inbox>>
    /\ UNCHANGED <<link, conn, threadVars, storeVars, histVars, serverVars, faultVars>>

\* _resend_unacked_results visits key d, with the keys in rest still to come in
\* a dictionary that held n of them when the iteration began.
Visit(d, rest, n) ==
    IF Pending(d) /\ link[conn] = "closed"
    THEN LeaveConnection /\ UNCHANGED got
    ELSE /\ cpc' = "resend" /\ left' = rest /\ size' = n
         /\ IF Pending(d) THEN ServerTakesResult(conn, d, cache[d].res) ELSE UNCHANGED <<got, inbox>>

StartReceiving == cpc' = "recv" /\ left' = {} /\ size' = 0 /\ UNCHANGED <<got, inbox>>

\* Faulty variant: READY is not followed by the pending results.
BeginResendForgotten ==
    /\ cpc = "ready" /\ StartReceiving
    /\ UNCHANGED <<link, conn, threadVars, storeVars, histVars, sends, status, faultVars>>

BeginResend ==
    /\ cpc = "ready"
    /\ IF Keys(cache) = {}
       THEN StartReceiving
       ELSE \E d \in Keys(cache) : Visit(d, Keys(cache) \ {d}, Cardinality(Keys(cache)))
    /\ UNCHANGED <<link, conn, threadVars, storeVars, histVars, sends, status, faultVars>>

\* The next round.  A task thread may have changed the dictionary meanwhile:
\* Python then raises RuntimeError, and the connection is given up.
ResendNext ==
    /\ cpc = "resend"
    /\ IF Cardinality(Keys(cache)) # size
       THEN LeaveConnection /\ UNCHANGED got
       ELSE IF left = {}
       THEN StartReceiving
       ELSE \E d \in left : Visit(d, left \ {d}, size)
    /\ UNCHANGED <<link, conn, threadVars, storeVars, histVars, sends, status, faultVars>>

\* Faulty variant: the message itself is passed on for its key.
ReceiveTaskWhole(t) ==
    /\ cpc = "recv" /\ inbox # <<>> /\ Head(inbox).type = "TASK"
    /\ tpc[t] = "free"
    /\ inbox' = Tail(inbox)
    /\ tpc' = [tpc EXCEPT ![t] = "lock"]
    /\ tdis' = [tdis EXCEPT ![t] = Head(inbox)]
    /\ tsock' = [tsock EXCEPT ![t] = conn]
    /\ UNCHANGED <<link, conn, connVars, lock, storeVars, histVars, serverVars, faultVars>>

\* TASK: a thread of its own, holding the socket the message came from.
ReceiveTask(t) ==
    /\ cpc = "recv" /\ inbox # <<>> /\ Head(inbox).type = "TASK"
    /\ tpc[t] = "free"
    /\ inbox' = Tail(inbox)
    /\ tpc' = [tpc EXCEPT ![t] = "lock"]
    /\ tdis' = [tdis EXCEPT ![t] = Head(inbox).key]
    /\ tsock' = [tsock EXCEPT ![t] = conn]
    /\ UNCHANGED <<link, conn, connVars, lock, storeVars, histVars, serverVars, faultVars>>

\* RESULT_ACK: a cached result is marked, the history pruned and serialised.
ReceiveResultAck ==
    /\ cpc = "recv" /\ inbox # <<>> /\ Head(inbox).type = "RESULT_ACK"
    /\ inbox' = Tail(inbox)
    /\ LET d == Head(inbox).key IN
       IF Cached(d)
       THEN /\ cache' = Prune([cache EXCEPT ![d].acked = TRUE])
            /\ snap' = [snap EXCEPT !["conn"] = cache']
            /\ cpc' = "save"
       ELSE UNCHANGED <<cache, snap, cpc>>
    /\ UNCHANGED <<link, conn, left, size, threadVars, disk, aged, histVars, serverVars, faultVars>>

ConnTruncate ==
    /\ cpc = "save" /\ cpc' = "flush"
    /\ Truncate
    /\ UNCHANGED <<netVars, left, size, threadVars, cache, snap, aged, histVars, serverVars, faultVars>>

ConnWrite ==
    /\ cpc = "flush" /\ cpc' = "recv"
    /\ Write("conn")
    /\ snap' = [snap EXCEPT !["conn"] = NoHistory]
    /\ UNCHANGED <<netVars, left, size, threadVars, cache, aged, histVars, serverVars, faultVars>>

\* The exception ends _connect_once; _connection_loop catches it.
ConnSaveFails ==
    /\ cpc \in {"save", "flush"} /\ LeaveConnection
    /\ SaveFails("conn")
    /\ UNCHANGED <<link, conn, threadVars>>

-----------------------------------------------------------------------------
(* A task thread: _run_task and _handle_task *)

\* Faulty variant: the lock is not given back.
EndThreadLocked(t) ==
    /\ tpc' = [tpc EXCEPT ![t] = "free"]
    /\ tdis' = [tdis EXCEPT ![t] = None]
    /\ tsock' = [tsock EXCEPT ![t] = 0]
    /\ UNCHANGED lock

\* The thread ends: normally, or because a send or a save raised.
EndThread(t) ==
    /\ tpc' = [tpc EXCEPT ![t] = "free"]
    /\ tdis' = [tdis EXCEPT ![t] = None]
    /\ tsock' = [tsock EXCEPT ![t] = 0]
    /\ lock' = None

GoTo(t, pc) == tpc' = [tpc EXCEPT ![t] = pc] /\ UNCHANGED <<tdis, tsock, lock>>

\* Faulty variant: no lock around _handle_task.
AcquireLockUnlocked(t) ==
    /\ tpc[t] = "lock"
    /\ lock' = t
    /\ tpc' = [tpc EXCEPT ![t] = IF Cached(tdis[t]) THEN "reack" ELSE "validate"]
    /\ UNCHANGED <<netVars, connVars, tdis, tsock, storeVars, histVars, serverVars, faultVars>>

\* Faulty variant: the cache is not consulted.
AcquireLockUncached(t) ==
    /\ tpc[t] = "lock" /\ lock = None
    /\ lock' = t
    /\ tpc' = [tpc EXCEPT ![t] = "validate"]
    /\ UNCHANGED <<netVars, connVars, tdis, tsock, storeVars, histVars, serverVars, faultVars>>

\* The lock is taken and the cache looked up.
AcquireLock(t) ==
    /\ tpc[t] = "lock" /\ lock = None
    /\ lock' = t
    /\ tpc' = [tpc EXCEPT ![t] = IF Cached(tdis[t]) THEN "reack" ELSE "validate"]
    /\ UNCHANGED <<netVars, connVars, tdis, tsock, storeVars, histVars, serverVars, faultVars>>

\* A repeated TASK: the stored ACK is sent again (only accepted ones are stored).
ResendAck(t) ==
    /\ tpc[t] = "reack"
    /\ IF link[tsock[t]] = "closed" THEN EndThread(t) ELSE GoTo(t, "result")
    /\ ServerTakesAck(tsock[t], tdis[t], TRUE)
    /\ UNCHANGED <<netVars, connVars, storeVars, histVars, sends, got, faultVars>>

\* _validate_task decides and the ACK is sent.  A refusal ends the thread and
\* leaves no trace.
Validate(t) ==
    /\ tpc[t] = "validate"
    /\ \E accepted \in BOOLEAN :
          /\ IF accepted /\ link[tsock[t]] # "closed" THEN GoTo(t, "progress") ELSE EndThread(t)
          /\ ServerTakesAck(tsock[t], tdis[t], accepted)
    /\ UNCHANGED <<netVars, connVars, storeVars, histVars, sends, got, faultVars>>

\* PROGRESS 0 is sent and _execute_task begins.
BeginExecution(t) ==
    /\ tpc[t] = "progress"
    /\ IF link[tsock[t]] = "closed"
       THEN EndThread(t) /\ UNCHANGED histVars
       ELSE /\ GoTo(t, "execute")
            /\ execs' = [execs EXCEPT ![tdis[t]] = @ + 1]
            /\ ranHere' = ranHere \cup {tdis[t]}
    /\ UNCHANGED <<netVars, connVars, storeVars, serverVars, faultVars>>

\* Faulty variant: the result is stored as if it were confirmed already.
FinishExecutionAcked(t) ==
    /\ tpc[t] = "execute"
    /\ cache' = Prune([cache EXCEPT ![tdis[t]] = [res |-> execs[tdis[t]], acked |-> TRUE]])
    /\ snap' = [snap EXCEPT !["task"] = cache']
    /\ GoTo(t, "save")
    /\ UNCHANGED <<netVars, connVars, disk, aged, histVars, serverVars, faultVars>>

\* _execute_task ends (every exception becomes a FAILED result); the result is
\* cached, the history pruned and serialised.
FinishExecution(t) ==
    /\ tpc[t] = "execute"
    /\ cache' = Prune([cache EXCEPT ![tdis[t]] = [res |-> execs[tdis[t]], acked |-> FALSE]])
    /\ snap' = [snap EXCEPT !["task"] = cache']
    /\ GoTo(t, "save")
    /\ UNCHANGED <<netVars, connVars, disk, aged, histVars, serverVars, faultVars>>

TaskTruncate(t) ==
    /\ tpc[t] = "save" /\ GoTo(t, "flush")
    /\ Truncate
    /\ UNCHANGED <<netVars, connVars, cache, snap, aged, histVars, serverVars, faultVars>>

TaskWrite(t) ==
    /\ tpc[t] = "flush" /\ GoTo(t, "result")
    /\ Write("task")
    /\ snap' = [snap EXCEPT !["task"] = NoHistory]
    /\ UNCHANGED <<netVars, connVars, cache, aged, histVars, serverVars, faultVars>>

\* The exception ends the thread: its RESULT is not sent.
TaskSaveFails(t) ==
    /\ tpc[t] \in {"save", "flush"} /\ EndThread(t)
    /\ SaveFails("task")
    /\ UNCHANGED <<netVars, connVars>>

\* RESULT on the socket the TASK came from; the thread ends.
SendResult(t) ==
    /\ tpc[t] = "result"
    /\ ServerTakesResult(tsock[t], tdis[t], cache[tdis[t]].res)
    /\ EndThread(t)
    /\ UNCHANGED <<link, conn, connVars, storeVars, histVars, sends, status, faultVars>>

-----------------------------------------------------------------------------
(* The environment *)

\* A result grows older than the retention period.  An hour has passed: the
\* server has nothing about this dispatch under way any more.
Age(d) ==
    /\ Cached(d) /\ cache[d].acked /\ d \notin aged
    /\ \A i \in DOMAIN inbox : inbox[i] # [type |-> "TASK", key |-> d]
    /\ \A t \in Threads : tdis[t] # d
    /\ aged' = aged \cup {d}
    /\ UNCHANGED <<netVars, connVars, threadVars, cache, disk, snap, histVars, serverVars, faultVars>>

\* The network fails on connection c: some of the messages under way arrive.
Drop(c) ==
    /\ link[c] = "up" /\ drops < MaxDrops
    /\ drops' = drops + 1
    /\ link' = [link EXCEPT ![c] = "dead"]
    /\ IF c = conn THEN \E n \in 0..Len(inbox) : inbox' = SubSeq(inbox, 1, n) ELSE UNCHANGED inbox
    /\ UNCHANGED <<conn, connVars, threadVars, storeVars, histVars, serverVars, crashes, unsaved>>

\* The runner's socket finds out; from now on sends raise ConnectionClosed.
Notice(c) ==
    /\ link[c] = "dead"
    /\ link' = [link EXCEPT ![c] = "closed"]
    /\ UNCHANGED <<conn, inbox, connVars, threadVars, storeVars, histVars, serverVars, faultVars>>

\* The process ends and is started again: threads, sockets and cache are gone;
\* the history is read back and pruned.
Restart ==
    /\ crashes < MaxCrashes /\ crashes' = crashes + 1
    /\ link' = [c \in Conns |-> IF c <= conn THEN "closed" ELSE "none"]
    /\ cpc' = "offline" /\ left' = {} /\ size' = 0 /\ inbox' = <<>>
    /\ tpc' = [t \in Threads |-> "free"] /\ tdis' = [t \in Threads |-> None]
    /\ tsock' = [t \in Threads |-> 0] /\ lock' = None
    /\ cache' = Prune(disk) /\ snap' = [w \in Writers |-> NoHistory]
    /\ ranHere' = {}
    /\ UNCHANGED <<conn, disk, aged, execs, serverVars, drops, unsaved>>

-----------------------------------------------------------------------------

ConnThread ==
    \/ Connect \/ Authenticate \/ BeginResend \/ ResendNext \/ RecvClosed
    \/ ReceiveResultAck \/ ConnTruncate \/ ConnWrite \/ ConnSaveFails
    \/ \E t \in Threads : ReceiveTask(t)

TaskThread(t) ==
    \/ AcquireLock(t) \/ ResendAck(t) \/ Validate(t) \/ BeginExecution(t)
    \/ FinishExecution(t) \/ TaskTruncate(t) \/ TaskWrite(t) \/ TaskSaveFails(t) \/ SendResult(t)

Environment ==
    \/ \E d \in Dispatches : Dispatch(d) \/ Expire(d) \/ Age(d)
    \/ \E c \in Conns : Drop(c) \/ Notice(c)
    \/ Restart

Next == ConnThread \/ (\E t \in Threads : TaskThread(t)) \/ Environment

Spec == Init /\ [][Next]_vars

\* The two kinds of threads run; a dead link is noticed in the end (keepalive
\* of the websocket library, failing HEARTBEATs).  The server, the network and
\* the passing of time are under no obligation.
Fairness ==
    /\ WF_vars(ConnThread)
    /\ \A t \in Threads : WF_vars(TaskThread(t))
    /\ \A c \in Conns : WF_vars(Notice(c))

FairSpec == Spec /\ Fairness

-----------------------------------------------------------------------------
(* Safety *)

Holding(t) == tpc[t] \notin {"free", "lock"}

\* READY reports maxConcurrentTasks = 1 and every TASK has a thread of its own:
\* of any two threads at most one is past _task_lock, and it is the holder.
OneTaskAtATime ==
    /\ \A t, u \in Threads : Holding(t) /\ Holding(u) => t = u
    /\ \A t \in Threads : Holding(t) <=> lock = t

\* A thread that is going to execute a dispatch works for one that was not
\* executed since the process started, however often its TASK was repeated and
\* whatever became of the connections meanwhile (_handle_task's cache lookup).
NotRunTwiceHere ==
    \A t \in Threads : tpc[t] \in {"validate", "progress"} => tdis[t] \notin ranHere

\* A result is marked as confirmed, in memory, in the file or in a text on its
\* way there, only if the server really has it: nothing else lets
\* _prune_result_cache or _resend_unacked_results forget a result.
AckedMeansDelivered ==
    \A d \in Dispatches :
        \/ got[d] # {}
        \/ /\ ~cache[d].acked /\ ~disk[d].acked
           /\ \A w \in Writers : ~snap[w][d].acked

\* The promise of TaskLedger, read off this module's state.
Standing(d) ==
    CASE \E t \in Threads : tdis[t] = d /\ tpc[t] = "execute" -> "running"
      [] OTHER -> IF Cached(d) THEN IF cache[d].acked THEN "confirmed" ELSE "answered"
                  ELSE IF d \in aged THEN "retired" ELSE "fresh"

Ledger == INSTANCE TaskLedger WITH ledger <- [d \in Dispatches |-> Standing(d)], starts <- crashes

\* Every step of the runner is a step of TaskLedger or none: one execution at
\* a time, results kept until confirmed, nothing forgotten but by a restart.
RefinesLedger == Ledger!Spec

-----------------------------------------------------------------------------
(* Liveness *)

\* A result pending when READY has gone out on a connection is confirmed,
\* unless that connection is lost or given up first (_resend_unacked_results).
PendingAtReadyIsConfirmed ==
    \A c \in Conns, d \in Dispatches :
        (conn = c /\ cpc = "ready" /\ Pending(d)) ~> (~Pending(d) \/ conn # c \/ link[c] # "up" \/ cpc = "offline")

\* Nothing of d is left to do: no TASK waiting or worked on, no pending result.
Settled(d) ==
    /\ \A i \in DOMAIN inbox : inbox[i] # [type |-> "TASK", key |-> d]
    /\ \A t \in Threads : tdis[t] # d
    /\ ~Pending(d)

\* As long as nothing fails, every TASK is worked off behind _task_lock and a
\* result it has is confirmed to the runner.
SettledWithoutFaults ==
    \A d \in Dispatches : (sends[d] > 0) ~> (Settled(d) \/ drops + crashes + unsaved > 0)

-----------------------------------------------------------------------------
(* What the repository says and the code does not do *)

\* agent.py:520-523 and 591-594: a result that could not be sent goes out after
\* the reconnection in any case, so every pending result is confirmed in the end.
PendingIsConfirmed == \A d \in Dispatches : Pending(d) ~> ~Pending(d)

\* agent.py:3-6: only the connection thread touches the result cache, so that
\* no lock is needed.  What a lock would be needed for: once nobody is saving,
\* the history file holds every result the process has cached.
HistoryHoldsCache ==
    (cpc \notin {"save", "flush"} /\ \A t \in Threads : tpc[t] \notin {"save", "flush"})
        => \A d \in Dispatches : Cached(d) => disk[d].res # 0
=============================================================================
