------------------------- MODULE TaskDeliveryProofs -------------------------
(***************************************************************************)
(* Proofs about TaskDelivery for any number of dispatches, threads and     *)
(* connections, and any number of faults.                                  *)
(***************************************************************************)
EXTENDS TaskDelivery, TLAPS, FiniteSetTheorems, SequenceTheorems

\* Pruning keeps a history a history.
LEMMA PruneType == ASSUME NEW h \in History PROVE Prune(h) \in History
BY DEF Prune, History, Entry, NoEntry

LEMMA NoHistoryType == NoHistory \in History /\ NoEntry \in Entry
BY DEF NoHistory, History, Entry, NoEntry

\* The size of the dictionary is a number.
LEMMA SizeType == Cardinality(Keys(cache)) \in Nat /\ Keys(cache) \in SUBSET Dispatches
<1>1. Keys(cache) \subseteq Dispatches
  BY DEF Keys
<1>2. IsFiniteSet(Keys(cache))
  BY <1>1, DeliveryAssumption, FS_Subset DEF DeliveryAssumption
<1> QED
  BY <1>1, <1>2, FS_CardinalityType

\* What the server does with a RESULT or an ACK is of the right type, whatever
\* the connection is.
LEMMA ServerTakesResultType ==
    ASSUME TypeOK, NEW c, NEW d \in Dispatches, NEW r \in Nat, ServerTakesResult(c, d, r)
    PROVE  got' \in [Dispatches -> SUBSET Nat] /\ inbox' \in Seq(Message)
<1>1. [type |-> "RESULT_ACK", key |-> d] \in Message
  BY DEF Message
<1>2. got' \in [Dispatches -> SUBSET Nat]
  <2>1. got[d] \cup {r} \in SUBSET Nat
    BY DEF TypeOK
  <2> QED
    BY <2>1 DEF ServerTakesResult, Deliver, TypeOK
<1>3. \A m \in Message : Append(inbox, m) \in Seq(Message)
  BY DEF TypeOK
<1>4. inbox' \in Seq(Message)
  BY <1>1, <1>3 DEF ServerTakesResult, Deliver, TypeOK
<1> QED
  BY <1>2, <1>4

LEMMA ServerTakesAckType ==
    ASSUME TypeOK, NEW c, NEW d \in Dispatches, NEW b \in BOOLEAN, ServerTakesAck(c, d, b)
    PROVE  status' \in [Dispatches -> Status]
BY DEF ServerTakesAck, TypeOK, Status

\* The thread variables keep their type when a thread moves on or ends.
LEMMA GoToType ==
    ASSUME TypeOK, NEW t \in Threads, NEW pc \in ThreadPc, GoTo(t, pc)
    PROVE  /\ tpc' \in [Threads -> ThreadPc] /\ tdis' \in [Threads -> Dispatches \cup {None}]
           /\ tsock' \in [Threads -> 0..MaxConn] /\ lock' \in Threads \cup {None}
BY DEF GoTo, TypeOK

LEMMA EndThreadType ==
    ASSUME TypeOK, NEW t \in Threads, EndThread(t)
    PROVE  /\ tpc' \in [Threads -> ThreadPc] /\ tdis' \in [Threads -> Dispatches \cup {None}]
           /\ tsock' \in [Threads -> 0..MaxConn] /\ lock' \in Threads \cup {None}
BY DeliveryAssumption DEF EndThread, TypeOK, ThreadPc, DeliveryAssumption

LEMMA LeaveConnectionType ==
    ASSUME LeaveConnection
    PROVE  cpc' \in ConnPc /\ left' \in SUBSET Dispatches /\ size' \in Nat /\ inbox' \in Seq(Message)
BY DEF LeaveConnection, ConnPc

\* What a save that raises leaves behind.
LEMMA SaveFailsType ==
    ASSUME TypeOK, NEW w \in Writers, SaveFails(w)
    PROVE  disk' \in History /\ snap' \in [Writers -> History] /\ unsaved' \in Nat
BY NoHistoryType DEF SaveFails, TypeOK

LEMMA VisitType ==
    ASSUME TypeOK, NEW d \in Dispatches, NEW rest \in SUBSET Dispatches, NEW n \in Nat, Visit(d, rest, n)
    PROVE  /\ cpc' \in ConnPc /\ left' \in SUBSET Dispatches /\ size' \in Nat
           /\ inbox' \in Seq(Message) /\ got' \in [Dispatches -> SUBSET Nat]
<1>1. cache[d].res \in Nat
  BY DEF TypeOK, History, Entry
<1>2. CASE Pending(d) /\ link[conn] = "closed"
  BY <1>2, LeaveConnectionType DEF Visit, TypeOK
<1>3. CASE ~(Pending(d) /\ link[conn] = "closed")
  <2>1. cpc' = "resend" /\ left' = rest /\ size' = n
    BY <1>3 DEF Visit
  <2>2. CASE Pending(d)
    BY <1>1, <1>3, <2>1, <2>2, ServerTakesResultType DEF Visit, ConnPc
  <2>3. CASE ~Pending(d)
    BY <2>1, <2>3 DEF Visit, ConnPc, TypeOK
  <2> QED
    BY <2>2, <2>3
<1> QED
  BY <1>2, <1>3

LEMMA StartReceivingType ==
    ASSUME TypeOK, StartReceiving
    PROVE  /\ cpc' \in ConnPc /\ left' \in SUBSET Dispatches /\ size' \in Nat
           /\ inbox' \in Seq(Message) /\ got' \in [Dispatches -> SUBSET Nat]
BY DEF StartReceiving, ConnPc, TypeOK

-----------------------------------------------------------------------------
(* Type correctness, one lemma per kind of actor *)

LEMMA ConnThreadType == ASSUME TypeOK, ConnThread PROVE TypeOK'
<1>1. CASE Connect
  BY <1>1, DeliveryAssumption DEF Connect, TypeOK, DeliveryAssumption, Conns, LinkState, ConnPc,
     threadVars, storeVars, histVars, serverVars, faultVars
<1>2. CASE Authenticate
  BY <1>2, LeaveConnectionType DEF Authenticate, TypeOK, ConnPc,
     threadVars, storeVars, histVars, serverVars, faultVars
<1>3. CASE BeginResend
  <2>1. /\ cpc' \in ConnPc /\ left' \in SUBSET Dispatches /\ size' \in Nat
        /\ inbox' \in Seq(Message) /\ got' \in [Dispatches -> SUBSET Nat]
    BY <1>3, SizeType, VisitType, StartReceivingType DEF BeginResend
  <2> QED
    BY <1>3, <2>1 DEF BeginResend, TypeOK, threadVars, storeVars, histVars, faultVars
<1>4. CASE ResendNext
  <2>1. /\ cpc' \in ConnPc /\ left' \in SUBSET Dispatches /\ size' \in Nat
        /\ inbox' \in Seq(Message) /\ got' \in [Dispatches -> SUBSET Nat]
    <3>1. size \in Nat /\ \A d \in left : d \in Dispatches /\ left \ {d} \in SUBSET Dispatches
      BY DEF TypeOK
    <3> QED
      BY <1>4, <3>1, LeaveConnectionType, VisitType, StartReceivingType DEF ResendNext, TypeOK
  <2> QED
    BY <1>4, <2>1 DEF ResendNext, TypeOK, threadVars, storeVars, histVars, faultVars
<1>5. CASE RecvClosed
  BY <1>5, LeaveConnectionType DEF RecvClosed, TypeOK, threadVars, storeVars, histVars, serverVars, faultVars
<1>6. CASE ReceiveResultAck
  <2>1. Head(inbox) \in Message /\ Tail(inbox) \in Seq(Message)
    BY <1>6 DEF ReceiveResultAck, TypeOK
  <2>2. CASE Cached(Head(inbox).key)
    <3> DEFINE d == Head(inbox).key
               h == [cache EXCEPT ![d].acked = TRUE]
    <3>1. d \in Dispatches
      BY <2>1 DEF Message
    <3>2. h \in History
      BY <3>1 DEF TypeOK, History, Entry
    <3>3. Prune(h) \in History
      BY <3>2, PruneType
    <3>4. cache' = Prune(h) /\ snap' = [snap EXCEPT !["conn"] = cache'] /\ cpc' = "save"
      BY <1>6, <2>2 DEF ReceiveResultAck
    <3>5. cache' \in History /\ snap' \in [Writers -> History] /\ cpc' \in ConnPc
      BY <3>3, <3>4 DEF TypeOK, Writers, ConnPc
    <3> QED
      BY <1>6, <2>1, <3>5 DEF ReceiveResultAck, TypeOK, threadVars, histVars, serverVars, faultVars
  <2>3. CASE ~Cached(Head(inbox).key)
    BY <1>6, <2>1, <2>3 DEF ReceiveResultAck, TypeOK, threadVars, histVars, serverVars, faultVars
  <2> QED
    BY <2>2, <2>3
<1>7. CASE ConnTruncate
  BY <1>7, NoHistoryType DEF ConnTruncate, Truncate, TypeOK, ConnPc,
     netVars, threadVars, histVars, serverVars, faultVars
<1>8. CASE ConnWrite
  BY <1>8, NoHistoryType DEF ConnWrite, Write, TypeOK, ConnPc, Writers,
     netVars, threadVars, histVars, serverVars, faultVars
<1>9. ASSUME NEW t \in Threads, ReceiveTask(t) PROVE TypeOK'
  <2>1. Head(inbox) \in Message /\ Tail(inbox) \in Seq(Message)
    BY <1>9 DEF ReceiveTask, TypeOK
  <2>2. Head(inbox).key \in Dispatches
    BY <2>1 DEF Message
  <2>3. tdis' \in [Threads -> Dispatches \cup {None}]
    BY <1>9, <2>2 DEF ReceiveTask, TypeOK
  <2>4. tsock' \in [Threads -> 0..MaxConn] /\ tpc' \in [Threads -> ThreadPc]
    BY <1>9 DEF ReceiveTask, TypeOK, ThreadPc
  <2> QED
    BY <1>9, <2>1, <2>3, <2>4 DEF ReceiveTask, TypeOK, connVars, storeVars, histVars, serverVars, faultVars
<1>10. CASE ConnSaveFails
  BY <1>10, NoHistoryType, LeaveConnectionType, SaveFailsType DEF ConnSaveFails, SaveFails, TypeOK, Writers,
     threadVars, histVars, serverVars
<1> QED
  BY <1>1, <1>2, <1>3, <1>4, <1>5, <1>6, <1>7, <1>8, <1>9, <1>10 DEF ConnThread

LEMMA TaskThreadType == ASSUME TypeOK, NEW t \in Threads, tdis[t] \in Dispatches, TaskThread(t) PROVE TypeOK'
<1> USE DEF ThreadPc
<1>1. CASE AcquireLock(t)
  BY <1>1 DEF AcquireLock, TypeOK, netVars, connVars, storeVars, histVars, serverVars, faultVars
<1>2. CASE ResendAck(t)
  BY <1>2, GoToType, EndThreadType, ServerTakesAckType
  DEF ResendAck, TypeOK, netVars, connVars, storeVars, histVars, faultVars
<1>3. CASE Validate(t)
  <2>1. PICK accepted \in BOOLEAN :
          /\ IF accepted /\ link[tsock[t]] # "closed" THEN GoTo(t, "progress") ELSE EndThread(t)
          /\ ServerTakesAck(tsock[t], tdis[t], accepted)
    BY <1>3 DEF Validate
  <2>2. status' \in [Dispatches -> Status]
    BY <2>1, ServerTakesAckType
  <2>3. /\ tpc' \in [Threads -> ThreadPc] /\ tdis' \in [Threads -> Dispatches \cup {None}]
        /\ tsock' \in [Threads -> 0..MaxConn] /\ lock' \in Threads \cup {None}
    BY <2>1, GoToType, EndThreadType
  <2> QED
    BY <1>3, <2>2, <2>3 DEF Validate, TypeOK, netVars, connVars, storeVars, histVars, faultVars
<1>4. CASE BeginExecution(t)
  <2>1. /\ tpc' \in [Threads -> ThreadPc] /\ tdis' \in [Threads -> Dispatches \cup {None}]
        /\ tsock' \in [Threads -> 0..MaxConn] /\ lock' \in Threads \cup {None}
    BY <1>4, GoToType, EndThreadType DEF BeginExecution
  <2>2. execs' \in [Dispatches -> Nat] /\ ranHere' \in SUBSET Dispatches
    <3>1. CASE link[tsock[t]] = "closed"
      BY <1>4, <3>1 DEF BeginExecution, TypeOK, histVars
    <3>2. CASE link[tsock[t]] # "closed"
      <4>1. execs' = [execs EXCEPT ![tdis[t]] = @ + 1] /\ ranHere' = ranHere \cup {tdis[t]}
        BY <1>4, <3>2 DEF BeginExecution
      <4> QED
        BY <4>1 DEF TypeOK
    <3> QED
      BY <3>1, <3>2
  <2> QED
    BY <1>4, <2>1, <2>2 DEF BeginExecution, TypeOK, netVars, connVars, storeVars, serverVars, faultVars
<1>5. CASE FinishExecution(t)
  <2> DEFINE h == [cache EXCEPT ![tdis[t]] = [res |-> execs[tdis[t]], acked |-> FALSE]]
  <2>1. h \in History
    BY DEF TypeOK, History, Entry
  <2>2. cache' \in History /\ snap' \in [Writers -> History]
    BY <1>5, <2>1, PruneType DEF FinishExecution, TypeOK, Writers
  <2> QED
    BY <1>5, <2>2, GoToType DEF FinishExecution, TypeOK, netVars, connVars, histVars, serverVars, faultVars
<1>6. CASE TaskTruncate(t)
  BY <1>6, GoToType, NoHistoryType
  DEF TaskTruncate, Truncate, TypeOK, netVars, connVars, histVars, serverVars, faultVars
<1>7. CASE TaskWrite(t)
  BY <1>7, GoToType, NoHistoryType
  DEF TaskWrite, Write, TypeOK, Writers, netVars, connVars, histVars, serverVars, faultVars
<1>8. CASE TaskSaveFails(t)
  BY <1>8, EndThreadType, SaveFailsType
  DEF TaskSaveFails, SaveFails, TypeOK, Writers, netVars, connVars, histVars, serverVars
<1>9. CASE SendResult(t)
  <2>1. cache[tdis[t]].res \in Nat
    BY DEF TypeOK, History, Entry
  <2> QED
    BY <1>9, <2>1, EndThreadType, ServerTakesResultType
    DEF SendResult, TypeOK, connVars, storeVars, histVars, faultVars
<1> QED
  BY <1>1, <1>2, <1>3, <1>4, <1>5, <1>6, <1>7, <1>8, <1>9 DEF TaskThread

LEMMA EnvironmentType == ASSUME TypeOK, Environment PROVE TypeOK'
<1>1. ASSUME NEW d \in Dispatches, Dispatch(d) PROVE TypeOK'
  <2>1. [type |-> "TASK", key |-> d] \in Message
    BY DEF Message
  <2>2. inbox' \in Seq(Message)
    BY <1>1, <2>1 DEF Dispatch, TypeOK
  <2> QED
    BY <1>1, <2>2 DEF Dispatch, TypeOK, connVars, threadVars, storeVars, histVars, faultVars
<1>2. ASSUME NEW d \in Dispatches, Expire(d) PROVE TypeOK'
  BY <1>2 DEF Expire, TypeOK, Status, netVars, connVars, threadVars, storeVars, histVars, faultVars
<1>3. ASSUME NEW d \in Dispatches, Age(d) PROVE TypeOK'
  BY <1>3 DEF Age, TypeOK, netVars, connVars, threadVars, histVars, serverVars, faultVars
<1>4. ASSUME NEW c \in Conns, Drop(c) PROVE TypeOK'
  <2>1. inbox' \in Seq(Message)
    <3>1. \A n \in 0..Len(inbox) : SubSeq(inbox, 1, n) \in Seq(Message)
      BY SubSeqProperties DEF TypeOK
    <3> QED
      BY <1>4, <3>1 DEF Drop, TypeOK
  <2>2. link' \in [Conns -> LinkState] /\ drops' \in Nat
    BY <1>4 DEF Drop, TypeOK, LinkState
  <2> QED
    BY <1>4, <2>1, <2>2 DEF Drop, TypeOK, connVars, threadVars, storeVars, histVars, serverVars
<1>5. ASSUME NEW c \in Conns, Notice(c) PROVE TypeOK'
  BY <1>5 DEF Notice, TypeOK, LinkState, connVars, threadVars, storeVars, histVars, serverVars, faultVars
<1>6. CASE Restart
  <2>1. Prune(disk) \in History
    BY PruneType DEF TypeOK
  <2>2. /\ link' \in [Conns -> LinkState] /\ inbox' \in Seq(Message)
        /\ cpc' \in ConnPc /\ left' \in SUBSET Dispatches /\ size' \in Nat
    BY <1>6 DEF Restart, LinkState, ConnPc
  <2>3. /\ tpc' \in [Threads -> ThreadPc] /\ tdis' \in [Threads -> Dispatches \cup {None}]
        /\ tsock' \in [Threads -> 0..MaxConn] /\ lock' \in Threads \cup {None}
    BY <1>6, DeliveryAssumption DEF Restart, ThreadPc, DeliveryAssumption
  <2>4. cache' \in History /\ snap' \in [Writers -> History] /\ ranHere' \in SUBSET Dispatches
    BY <1>6, <2>1, NoHistoryType DEF Restart
  <2> QED
    BY <1>6, <2>2, <2>3, <2>4 DEF Restart, TypeOK, serverVars
<1> QED
  BY <1>1, <1>2, <1>3, <1>4, <1>5, <1>6 DEF Environment

-----------------------------------------------------------------------------
(* A thread that is not free works for a dispatch, and nobody but the thread *)
(* past _task_lock holds it.                                               *)

Working == \A t \in Threads : tpc[t] # "free" => tdis[t] \in Dispatches

LEMMA InitWorking == Init => TypeOK /\ Working
BY DeliveryAssumption, NoHistoryType
DEF Init, TypeOK, Working, DeliveryAssumption, Conns, LinkState, ConnPc, ThreadPc, Status

LEMMA StepWorking == TypeOK /\ Working /\ [Next]_vars => (TypeOK /\ Working)'
<1> SUFFICES ASSUME TypeOK, Working, [Next]_vars PROVE TypeOK' /\ Working'
  OBVIOUS
<1> USE DEF Working
<1>1. CASE ConnThread
  <2>1. ASSUME NEW u \in Threads, ReceiveTask(u) PROVE Working'
    <3>1. Head(inbox) \in Message
      BY <2>1 DEF ReceiveTask, TypeOK
    <3>2. Head(inbox).key \in Dispatches
      BY <3>1 DEF Message
    <3> QED
      BY <2>1, <3>2 DEF ReceiveTask, TypeOK
  <2>2. ASSUME UNCHANGED threadVars PROVE Working'
    BY <2>2 DEF threadVars
  <2>3. UNCHANGED threadVars \/ \E u \in Threads : ReceiveTask(u)
    BY <1>1 DEF ConnThread, Connect, Authenticate, BeginResend, ResendNext, RecvClosed,
       ReceiveResultAck, ConnTruncate, ConnWrite, ConnSaveFails, SaveFails
  <2> QED
    BY <1>1, <2>1, <2>2, <2>3, ConnThreadType
<1>2. ASSUME NEW t \in Threads, TaskThread(t) PROVE TypeOK' /\ Working'
  <2>1. tpc[t] # "free"
    BY <1>2 DEF TaskThread, AcquireLock, ResendAck, Validate, BeginExecution,
       FinishExecution, TaskTruncate, TaskWrite, TaskSaveFails, SaveFails, SendResult
  <2>2. tdis[t] \in Dispatches
    BY <2>1
  <2>3. EndThread(t) \/ (tdis' = tdis /\ \A u \in Threads \ {t} : tpc'[u] = tpc[u])
    BY <1>2 DEF TypeOK, TaskThread, AcquireLock, ResendAck, Validate, BeginExecution,
       FinishExecution, TaskTruncate, TaskWrite, TaskSaveFails, SaveFails, SendResult, GoTo
  <2>4. Working'
    BY <2>2, <2>3 DEF TypeOK, EndThread
  <2> QED
    BY <1>2, <2>2, <2>4, TaskThreadType
<1>3. CASE Environment
  <2>1. UNCHANGED threadVars \/ Restart
    BY <1>3 DEF Environment, Dispatch, Expire, Age, Drop, Notice
  <2>2. Working'
    BY <2>1 DEF threadVars, Restart
  <2> QED
    BY <1>3, <2>2, EnvironmentType
<1>4. CASE UNCHANGED vars
  BY <1>4 DEF vars, netVars, connVars, threadVars, storeVars, histVars, serverVars, faultVars, TypeOK
<1> QED
  BY <1>1, <1>2, <1>3, <1>4 DEF Next

\* Every variable keeps its type, whatever the messages, failures and restarts.
THEOREM TypeCorrect == Spec => [](TypeOK /\ Working)
<1> QED
  BY InitWorking, StepWorking, PTL DEF Spec

-----------------------------------------------------------------------------
(* Mutual exclusion by _task_lock *)

\* The thread variables after a step of the connection thread, and of the
\* environment.
LEMMA ConnThreadFrame ==
    ConnThread => UNCHANGED threadVars \/ \E u \in Threads : ReceiveTask(u)
BY DEF ConnThread, Connect, Authenticate, BeginResend, ResendNext, RecvClosed,
   ReceiveResultAck, ConnTruncate, ConnWrite, ConnSaveFails, SaveFails

LEMMA EnvironmentFrame == Environment => UNCHANGED threadVars \/ Restart
BY DEF Environment, Dispatch, Expire, Age, Drop, Notice

LEMMA InitExclusion == Init => OneTaskAtATime
BY DeliveryAssumption DEF Init, OneTaskAtATime, Holding, DeliveryAssumption

LEMMA StepExclusion == TypeOK /\ OneTaskAtATime /\ [Next]_vars => OneTaskAtATime'
<1> SUFFICES ASSUME TypeOK, OneTaskAtATime, [Next]_vars PROVE OneTaskAtATime'
  OBVIOUS
<1> USE DEF OneTaskAtATime, Holding
<1>1. ASSUME UNCHANGED threadVars PROVE OneTaskAtATime'
  BY <1>1 DEF threadVars
<1>2. ASSUME NEW t \in Threads, ReceiveTask(t) PROVE OneTaskAtATime'
  BY <1>2 DEF ReceiveTask, TypeOK
<1>3. ASSUME Restart PROVE OneTaskAtATime'
  BY <1>3, DeliveryAssumption DEF Restart, DeliveryAssumption
<1>4. ASSUME NEW t \in Threads, AcquireLock(t) PROVE OneTaskAtATime'
  BY <1>4, DeliveryAssumption DEF AcquireLock, TypeOK, DeliveryAssumption
<1>5. ASSUME NEW t \in Threads, Holding(t), EndThread(t) PROVE OneTaskAtATime'
  BY <1>5, DeliveryAssumption DEF EndThread, TypeOK, DeliveryAssumption
<1>6. ASSUME NEW t \in Threads, Holding(t), NEW pc \in ThreadPc \ {"free", "lock"}, GoTo(t, pc)
      PROVE  OneTaskAtATime'
  BY <1>6 DEF GoTo, TypeOK
<1>7. ASSUME NEW t \in Threads, TaskThread(t) PROVE OneTaskAtATime'
  <2>1. \/ AcquireLock(t)
        \/ Holding(t) /\ EndThread(t)
        \/ Holding(t) /\ \E pc \in ThreadPc \ {"free", "lock"} : GoTo(t, pc)
    BY <1>7 DEF TaskThread, ResendAck, Validate, BeginExecution, FinishExecution,
       TaskTruncate, TaskWrite, TaskSaveFails, SaveFails, SendResult, ThreadPc
  <2> QED
    BY <1>4, <1>5, <1>6, <1>7, <2>1
<1>8. CASE UNCHANGED vars
  BY <1>1, <1>8 DEF vars
<1> QED
  BY <1>1, <1>2, <1>3, <1>7, <1>8, ConnThreadFrame, EnvironmentFrame DEF Next

\* At most one thread is past _task_lock, and it is the holder.
THEOREM TaskMutualExclusion == Spec => []OneTaskAtATime
<1>1. TypeOK /\ Working /\ OneTaskAtATime /\ [Next]_vars => OneTaskAtATime'
  BY StepExclusion
<1> QED
  BY <1>1, InitExclusion, TypeCorrect, PTL DEF Spec

-----------------------------------------------------------------------------
(* Confirmed means delivered *)

\* A RESULT_ACK under way answers a RESULT the server took.
AcksAreTrue ==
    \A i \in DOMAIN inbox : inbox[i].type = "RESULT_ACK" => got[inbox[i].key] # {}

\* A history that marks as confirmed only what the server has.
Truthful(h) == \A d \in Dispatches : h[d].acked => got[d] # {}

Truth == AcksAreTrue /\ Truthful(cache) /\ Truthful(disk) /\ \A w \in Writers : Truthful(snap[w])

LEMMA TruthSuffices == Truth => AckedMeansDelivered
BY DEF Truth, Truthful, AckedMeansDelivered

LEMMA InitTruth == Init => Truth
BY DEF Init, Truth, Truthful, AcksAreTrue, NoHistory, NoEntry, Writers

LEMMA NoHistoryTruthful == Truthful(NoHistory) /\ Truthful(NoHistory)'
BY DEF Truthful, NoHistory, NoEntry

LEMMA PruneTruthful == ASSUME NEW h, Truthful(h) PROVE Truthful(Prune(h))
BY DEF Truthful, Prune, NoEntry

\* The server forgets no RESULT; a message it adds is a true RESULT_ACK.
LEMMA ServerTakesResultTrue ==
    ASSUME TypeOK, AcksAreTrue, NEW c, NEW d \in Dispatches, NEW r \in Nat, ServerTakesResult(c, d, r)
    PROVE  AcksAreTrue' /\ \A e \in Dispatches : got[e] # {} => got'[e] # {}
<1> DEFINE m == [type |-> "RESULT_ACK", key |-> d]
<1>1. m \in Message /\ m.key = d
  BY DEF Message
<1>2. \A i \in DOMAIN inbox : inbox[i] \in Message /\ inbox[i].key \in Dispatches
  <2>1. \A i \in DOMAIN inbox : inbox[i] \in Message
    BY DEF TypeOK
  <2>2. \A x \in Message : x.key \in Dispatches
    BY DEF Message
  <2> QED
    BY <2>1, <2>2
<1>3. CASE link[c] = "up"
  <2>1. got' = [got EXCEPT ![d] = @ \cup {r}] /\ (inbox' = Append(inbox, m) \/ inbox' = inbox)
    BY <1>3 DEF ServerTakesResult, Deliver
  <2>2. got'[d] # {} /\ \A e \in Dispatches : got[e] # {} => got'[e] # {}
    BY <2>1 DEF TypeOK
  <2>3. CASE inbox' = inbox
    BY <1>2, <2>2, <2>3 DEF AcksAreTrue
  <2>4. CASE inbox' = Append(inbox, m)
    <3>1. ASSUME NEW i \in DOMAIN inbox' PROVE (i \in DOMAIN inbox /\ inbox'[i] = inbox[i]) \/ inbox'[i] = m
      BY <2>4, <3>1, <1>1 DEF TypeOK
    <3> QED
      BY <1>1, <1>2, <2>2, <3>1 DEF AcksAreTrue
  <2> QED
    BY <2>1, <2>2, <2>3, <2>4
<1>4. CASE link[c] # "up"
  BY <1>4 DEF ServerTakesResult, AcksAreTrue
<1> QED
  BY <1>3, <1>4

\* A history that stays as it is stays truthful while the server forgets nothing.
LEMMA TruthfulStays ==
    ASSUME Truth, \A e \in Dispatches : got[e] # {} => got'[e] # {}, UNCHANGED storeVars, AcksAreTrue'
    PROVE  Truth'
BY DEF Truth, Truthful, storeVars

\* So does one whose save raises.
LEMMA SaveFailsTruth ==
    ASSUME TypeOK, Truth, NEW w \in Writers, SaveFails(w), inbox' = inbox \/ inbox' = <<>> PROVE Truth'
<1>0. got' = got /\ cache' = cache /\ disk' \in {disk, NoHistory}
  BY DEF SaveFails, serverVars
<1>1. AcksAreTrue'
  <2>1. CASE inbox' = inbox
    BY <1>0, <2>1 DEF Truth, AcksAreTrue
  <2>2. CASE inbox' = <<>>
    BY <2>2 DEF AcksAreTrue
  <2> QED
    BY <2>1, <2>2
<1>2. Truthful(cache)'
  BY <1>0 DEF Truth, Truthful
<1>3. Truthful(disk)'
  BY <1>0, NoHistoryTruthful DEF Truth, Truthful
<1>4. \A v \in Writers : Truthful(snap[v])'
  BY <1>0, NoHistoryTruthful DEF SaveFails, Truth, Truthful, TypeOK
<1> QED
  BY <1>1, <1>2, <1>3, <1>4 DEF Truth

LEMMA EmptyInboxTrue == inbox' = <<>> => AcksAreTrue'
BY DEF AcksAreTrue

LEMMA VisitTruth ==
    ASSUME TypeOK, Truth, NEW d \in Dispatches, NEW rest, NEW n, Visit(d, rest, n), UNCHANGED storeVars
    PROVE  Truth'
<1>1. cache[d].res \in Nat
  BY DEF TypeOK, History, Entry
<1>2. CASE Pending(d) /\ link[conn] = "closed"
  <2>1. AcksAreTrue'
    BY <1>2, EmptyInboxTrue DEF Visit, LeaveConnection
  <2> QED
    BY <1>2, <2>1, TruthfulStays DEF Visit
<1>3. CASE Pending(d) /\ link[conn] # "closed"
  <2>1. ServerTakesResult(conn, d, cache[d].res)
    BY <1>3 DEF Visit
  <2> QED
    BY <1>1, <2>1, ServerTakesResultTrue, TruthfulStays DEF Truth
<1>4. CASE ~Pending(d)
  <2>1. UNCHANGED <<got, inbox>>
    BY <1>4 DEF Visit
  <2> QED
    BY <2>1 DEF Truth, Truthful, AcksAreTrue, storeVars
<1> QED
  BY <1>2, <1>3, <1>4

LEMMA ConnThreadTruth == ASSUME TypeOK, Truth, ConnThread PROVE Truth'
<1>1. ASSUME UNCHANGED <<got, storeVars>>, inbox' = inbox \/ inbox' = <<>> PROVE Truth'
  <2>1. AcksAreTrue'
    BY <1>1 DEF Truth, AcksAreTrue
  <2> QED
    BY <1>1, <2>1, TruthfulStays
<1>2. CASE Connect \/ Authenticate \/ RecvClosed
  BY <1>1, <1>2 DEF Connect, Authenticate, RecvClosed, LeaveConnection, serverVars
<1>3. CASE BeginResend
  <2>1. CASE StartReceiving
    BY <1>1, <1>3, <2>1 DEF BeginResend, StartReceiving
  <2>2. ASSUME NEW d \in Keys(cache), Visit(d, Keys(cache) \ {d}, Cardinality(Keys(cache))) PROVE Truth'
    BY <1>3, <2>2, VisitTruth DEF BeginResend, Keys
  <2> QED
    BY <1>3, <2>1, <2>2 DEF BeginResend
<1>4. CASE ResendNext
  <2>1. CASE StartReceiving
    BY <1>1, <1>4, <2>1 DEF ResendNext, StartReceiving
  <2>2. ASSUME NEW d \in left, Visit(d, left \ {d}, size) PROVE Truth'
    BY <1>4, <2>2, VisitTruth DEF ResendNext, TypeOK
  <2>3. CASE LeaveConnection /\ UNCHANGED got
    BY <1>1, <1>4, <2>3 DEF ResendNext, LeaveConnection
  <2> QED
    BY <1>4, <2>1, <2>2, <2>3 DEF ResendNext
<1>5. CASE ReceiveResultAck
  <2> DEFINE m == Head(inbox)
  <2>1. m \in Message /\ m = inbox[1] /\ 1 \in DOMAIN inbox /\ m.type = "RESULT_ACK"
    BY <1>5 DEF ReceiveResultAck, TypeOK
  <2>2. m.key \in Dispatches /\ got[m.key] # {}
    BY <2>1 DEF Message, Truth, AcksAreTrue
  <2>3. UNCHANGED <<got, disk>> /\ inbox' = Tail(inbox)
    BY <1>5 DEF ReceiveResultAck, serverVars
  <2>4. AcksAreTrue'
    <3>1. ASSUME NEW i \in DOMAIN inbox' PROVE i + 1 \in DOMAIN inbox /\ inbox'[i] = inbox[i + 1]
      BY <1>5, <2>3, <3>1 DEF ReceiveResultAck, TypeOK
    <3> QED
      BY <2>3, <3>1 DEF Truth, AcksAreTrue
  <2>5. CASE ~Cached(m.key)
    BY <1>5, <2>3, <2>4, <2>5 DEF ReceiveResultAck, Truth, Truthful
  <2>6. CASE Cached(m.key)
    <3> DEFINE h == [cache EXCEPT ![m.key].acked = TRUE]
    <3>1. Truthful(h)
      BY <2>2 DEF Truth, Truthful, TypeOK, History, Entry
    <3>2. Truthful(Prune(h))
      BY <3>1, PruneTruthful
    <3>3. cache' = Prune(h) /\ snap' = [snap EXCEPT !["conn"] = cache']
      BY <1>5, <2>6 DEF ReceiveResultAck
    <3>4. Truthful(cache)' /\ Truthful(disk)' /\ \A w \in Writers : Truthful(snap[w])'
      BY <2>3, <3>2, <3>3 DEF Truth, Truthful, TypeOK
    <3> QED
      BY <2>4, <3>4 DEF Truth
  <2> QED
    BY <2>5, <2>6
<1>6. CASE ConnTruncate
  BY <1>6, NoHistoryTruthful DEF ConnTruncate, Truncate, Truth, Truthful, AcksAreTrue, netVars, serverVars
<1>7. CASE ConnWrite
  BY <1>7, NoHistoryTruthful
  DEF ConnWrite, Write, Truth, Truthful, AcksAreTrue, netVars, serverVars, TypeOK, Writers
<1>8. ASSUME NEW t \in Threads, ReceiveTask(t) PROVE Truth'
  <2>1. UNCHANGED <<got, storeVars>> /\ inbox' = Tail(inbox)
    BY <1>8 DEF ReceiveTask, serverVars
  <2>2. ASSUME NEW i \in DOMAIN inbox' PROVE i + 1 \in DOMAIN inbox /\ inbox'[i] = inbox[i + 1]
    BY <1>8, <2>1, <2>2 DEF ReceiveTask, TypeOK
  <2>3. AcksAreTrue'
    BY <2>1, <2>2 DEF Truth, AcksAreTrue
  <2> QED
    BY <2>1, <2>3, TruthfulStays
<1>9. CASE ConnSaveFails
  BY <1>9, SaveFailsTruth DEF ConnSaveFails, LeaveConnection, Writers
<1> QED
  BY <1>2, <1>3, <1>4, <1>5, <1>6, <1>7, <1>8, <1>9 DEF ConnThread

LEMMA TaskThreadTruth ==
    ASSUME TypeOK, Truth, NEW t \in Threads, tdis[t] \in Dispatches, TaskThread(t) PROVE Truth'
<1>1. CASE AcquireLock(t) \/ ResendAck(t) \/ Validate(t) \/ BeginExecution(t)
  <2>1. UNCHANGED <<inbox, got, storeVars>>
    BY <1>1 DEF AcquireLock, ResendAck, Validate, BeginExecution, netVars, serverVars
  <2> QED
    BY <2>1 DEF Truth, Truthful, AcksAreTrue, storeVars
<1>2. CASE FinishExecution(t)
  <2> DEFINE h == [cache EXCEPT ![tdis[t]] = [res |-> execs[tdis[t]], acked |-> FALSE]]
  <2>1. Truthful(h)
    BY DEF Truth, Truthful, TypeOK, History, Entry
  <2>2. Truthful(Prune(h))
    BY <2>1, PruneTruthful
  <2>3. cache' = Prune(h) /\ snap' = [snap EXCEPT !["task"] = cache'] /\ UNCHANGED <<disk, inbox, got>>
    BY <1>2 DEF FinishExecution, netVars, serverVars
  <2> QED
    BY <2>2, <2>3 DEF Truth, Truthful, AcksAreTrue, TypeOK
<1>3. CASE TaskTruncate(t)
  BY <1>3, NoHistoryTruthful DEF TaskTruncate, Truncate, Truth, Truthful, AcksAreTrue, netVars, serverVars
<1>4. CASE TaskWrite(t)
  BY <1>4, NoHistoryTruthful
  DEF TaskWrite, Write, Truth, Truthful, AcksAreTrue, netVars, serverVars, TypeOK, Writers
<1>5. CASE SendResult(t)
  <2>1. cache[tdis[t]].res \in Nat
    BY DEF TypeOK, History, Entry
  <2>2. ServerTakesResult(tsock[t], tdis[t], cache[tdis[t]].res) /\ UNCHANGED storeVars
    BY <1>5 DEF SendResult
  <2> QED
    BY <2>1, <2>2, ServerTakesResultTrue, TruthfulStays DEF Truth
<1>6. CASE TaskSaveFails(t)
  BY <1>6, SaveFailsTruth DEF TaskSaveFails, Writers, netVars
<1> QED
  BY <1>1, <1>2, <1>3, <1>4, <1>5, <1>6 DEF TaskThread

LEMMA EnvironmentTruth == ASSUME TypeOK, Truth, Environment PROVE Truth'
<1>1. ASSUME NEW d \in Dispatches, Dispatch(d) PROVE Truth'
  <2> DEFINE m == [type |-> "TASK", key |-> d]
  <2>1. UNCHANGED <<got, storeVars>> /\ inbox' = Append(inbox, m)
    BY <1>1 DEF Dispatch
  <2>2. ASSUME NEW i \in DOMAIN inbox' PROVE (i \in DOMAIN inbox /\ inbox'[i] = inbox[i]) \/ inbox'[i] = m
    BY <2>1, <2>2 DEF TypeOK
  <2>3. AcksAreTrue'
    BY <2>1, <2>2 DEF Truth, AcksAreTrue
  <2> QED
    BY <2>1, <2>3, TruthfulStays
<1>2. ASSUME NEW d \in Dispatches, Expire(d) \/ Age(d) PROVE Truth'
  BY <1>2 DEF Expire, Age, Truth, Truthful, AcksAreTrue, netVars, storeVars, serverVars
<1>3. ASSUME NEW c \in Conns, Drop(c) PROVE Truth'
  <2>1. UNCHANGED <<got, storeVars>>
    BY <1>3 DEF Drop, serverVars
  <2>2. inbox' = inbox \/ \E n \in 0..Len(inbox) : inbox' = SubSeq(inbox, 1, n)
    BY <1>3 DEF Drop
  <2>3. ASSUME NEW i \in DOMAIN inbox' PROVE i \in DOMAIN inbox /\ inbox'[i] = inbox[i]
    BY <2>2, <2>3 DEF TypeOK
  <2>4. AcksAreTrue'
    BY <2>1, <2>3 DEF Truth, AcksAreTrue
  <2> QED
    BY <2>1, <2>4, TruthfulStays
<1>4. ASSUME NEW c \in Conns, Notice(c) PROVE Truth'
  BY <1>4 DEF Notice, Truth, Truthful, AcksAreTrue, storeVars, serverVars
<1>5. CASE Restart
  <2>1. Truthful(Prune(disk))
    BY PruneTruthful DEF Truth
  <2>2. AcksAreTrue'
    BY <1>5, EmptyInboxTrue DEF Restart
  <2>3. UNCHANGED <<got, disk>> /\ cache' = Prune(disk) /\ snap' = [w \in Writers |-> NoHistory]
    BY <1>5 DEF Restart, serverVars
  <2> QED
    BY <2>1, <2>2, <2>3, NoHistoryTruthful DEF Truth, Truthful
<1> QED
  BY <1>1, <1>2, <1>3, <1>4, <1>5 DEF Environment

LEMMA StepTruth == TypeOK /\ Working /\ Truth /\ [Next]_vars => Truth'
<1> SUFFICES ASSUME TypeOK, Working, Truth, [Next]_vars PROVE Truth'
  OBVIOUS
<1>1. ASSUME NEW t \in Threads, TaskThread(t) PROVE tdis[t] \in Dispatches
  BY <1>1 DEF Working, TaskThread, AcquireLock, ResendAck, Validate, BeginExecution,
     FinishExecution, TaskTruncate, TaskWrite, TaskSaveFails, SaveFails, SendResult
<1>2. CASE UNCHANGED vars
  BY <1>2 DEF vars, netVars, storeVars, serverVars, Truth, Truthful, AcksAreTrue
<1> QED
  BY <1>1, <1>2, ConnThreadTruth, TaskThreadTruth, EnvironmentTruth DEF Next

\* A result counts as confirmed, in memory, in the file or in a text on its way
\* there, only if the server has it, whatever failures and restarts there were.
THEOREM AckedDelivered == Spec => []AckedMeansDelivered
<1>1. TypeOK /\ Working /\ Truth /\ [Next]_vars => Truth'
  BY StepTruth
<1> QED
  BY <1>1, InitTruth, TruthSuffices, TypeCorrect, PTL DEF Spec

-----------------------------------------------------------------------------
(* No dispatch runs twice in one process *)

\* A dispatch that ran is being run, or has its result in the cache, or is so
\* old that its confirmed result was pruned.
RanIsKnown ==
    \A d \in ranHere :
        \/ Cached(d) \/ d \in aged
        \/ \E t \in Threads : tpc[t] = "execute" /\ tdis[t] = d

\* Nothing is under way any more about a dispatch that old.
AgedIsOver ==
    \A d \in aged :
        /\ \A i \in DOMAIN inbox : inbox[i] # [type |-> "TASK", key |-> d]
        /\ \A t \in Threads : tdis[t] # d

\* Executions are counted from one, so that a result is never the absent one.
RanCounts ==
    \A t \in Threads : tpc[t] = "execute" => execs[tdis[t]] # 0

Once == RanIsKnown /\ AgedIsOver /\ RanCounts /\ NotRunTwiceHere

LEMMA InitOnce == Init => Once
BY DEF Init, Once, RanIsKnown, AgedIsOver, RanCounts, NotRunTwiceHere

\* Pruning removes only results past their retention period.
LEMMA PruneKeeps ==
    ASSUME NEW h, NEW d \in Dispatches, h[d].res # 0, d \notin aged PROVE Prune(h)[d].res # 0
BY DEF Prune

\* A step that leaves the threads, the history of executions and the ages alone
\* and adds no TASK can only disturb RanIsKnown, by what it takes from the cache.
LEMMA OnceStays ==
    ASSUME Once, UNCHANGED <<threadVars, histVars, aged>>,
           \A d \in Dispatches : Cached(d) => Cached(d)' \/ d \in aged,
           ranHere \subseteq Dispatches,
           \A i \in DOMAIN inbox' : inbox'[i].type = "RESULT_ACK" \/ \E j \in DOMAIN inbox : inbox'[i] = inbox[j]
    PROVE  Once'
<1>1. RanIsKnown'
  BY DEF Once, RanIsKnown, threadVars, histVars
<1>2. AgedIsOver'
  BY DEF Once, AgedIsOver, threadVars
<1>3. RanCounts' /\ NotRunTwiceHere'
  BY DEF Once, RanCounts, NotRunTwiceHere, threadVars, histVars
<1> QED
  BY <1>1, <1>2, <1>3 DEF Once

\* What the server answers to a RESULT is no TASK.
LEMMA ServerTakesResultInbox ==
    ASSUME TypeOK, NEW c, NEW d, NEW r, ServerTakesResult(c, d, r)
    PROVE  \A i \in DOMAIN inbox' :
               inbox'[i].type = "RESULT_ACK" \/ \E j \in DOMAIN inbox : inbox'[i] = inbox[j]
<1> DEFINE m == [type |-> "RESULT_ACK", key |-> d]
<1>1. inbox' = inbox \/ inbox' = Append(inbox, m)
  BY DEF ServerTakesResult, Deliver
<1>2. CASE inbox' = inbox
  BY <1>2
<1>3. CASE inbox' = Append(inbox, m)
  <2>1. ASSUME NEW i \in DOMAIN inbox' PROVE (i \in DOMAIN inbox /\ inbox'[i] = inbox[i]) \/ inbox'[i] = m
    BY <1>3, <2>1 DEF TypeOK
  <2> QED
    BY <2>1
<1> QED
  BY <1>1, <1>2, <1>3

LEMMA VisitInbox ==
    ASSUME TypeOK, NEW d, NEW rest, NEW n, Visit(d, rest, n)
    PROVE  \A i \in DOMAIN inbox' :
               inbox'[i].type = "RESULT_ACK" \/ \E j \in DOMAIN inbox : inbox'[i] = inbox[j]
<1>1. CASE Pending(d) /\ link[conn] = "closed"
  BY <1>1 DEF Visit, LeaveConnection
<1>2. CASE Pending(d) /\ link[conn] # "closed"
  BY <1>2, ServerTakesResultInbox DEF Visit
<1>3. CASE ~Pending(d)
  BY <1>3 DEF Visit
<1> QED
  BY <1>1, <1>2, <1>3

LEMMA ConnThreadOnce == ASSUME TypeOK, Once, ConnThread PROVE Once'
<1>1. ranHere \subseteq Dispatches
  BY DEF TypeOK
<1>2. ASSUME UNCHANGED <<cache, aged, threadVars, histVars>>,
             \A i \in DOMAIN inbox' : inbox'[i].type = "RESULT_ACK" \/ \E j \in DOMAIN inbox : inbox'[i] = inbox[j]
      PROVE  Once'
  BY <1>1, <1>2, OnceStays DEF Cached
<1>3. ASSUME UNCHANGED <<cache, aged, threadVars, histVars>>, inbox' = inbox \/ inbox' = <<>> PROVE Once'
  BY <1>2, <1>3
<1>4. CASE Connect \/ Authenticate \/ RecvClosed \/ ConnTruncate \/ ConnWrite \/ ConnSaveFails
  BY <1>3, <1>4 DEF Connect, Authenticate, RecvClosed, LeaveConnection, ConnTruncate, ConnWrite, ConnSaveFails, SaveFails, storeVars, netVars
<1>5. CASE BeginResend
  <2>1. CASE StartReceiving
    BY <1>3, <1>5, <2>1 DEF BeginResend, StartReceiving, storeVars
  <2>2. ASSUME NEW d, Visit(d, Keys(cache) \ {d}, Cardinality(Keys(cache))) PROVE Once'
    BY <1>2, <1>5, <2>2, VisitInbox DEF BeginResend, storeVars
  <2> QED
    BY <1>5, <2>1, <2>2 DEF BeginResend
<1>6. CASE ResendNext
  <2>1. CASE StartReceiving
    BY <1>3, <1>6, <2>1 DEF ResendNext, StartReceiving, storeVars
  <2>2. ASSUME NEW d, Visit(d, left \ {d}, size) PROVE Once'
    BY <1>2, <1>6, <2>2, VisitInbox DEF ResendNext, storeVars
  <2>3. CASE LeaveConnection
    BY <1>3, <1>6, <2>3 DEF ResendNext, LeaveConnection, storeVars
  <2> QED
    BY <1>6, <2>1, <2>2, <2>3 DEF ResendNext
<1>7. CASE ReceiveResultAck
  <2> DEFINE k == Head(inbox).key
  <2>1. \A d \in Dispatches : Cached(d) => Cached(d)' \/ d \in aged
    <3>1. CASE Cached(k)
      <4> DEFINE h == [cache EXCEPT ![k].acked = TRUE]
      <4>1. cache' = Prune(h)
        BY <1>7, <3>1 DEF ReceiveResultAck
      <4>2. \A d \in Dispatches : cache[d].res # 0 => h[d].res # 0
        BY DEF TypeOK, History, Entry
      <4> QED
        BY <4>1, <4>2, PruneKeeps DEF Cached
    <3>2. CASE ~Cached(k)
      BY <1>7, <3>2 DEF ReceiveResultAck, Cached
    <3> QED
      BY <3>1, <3>2
  <2>2. \A i \in DOMAIN inbox' : \E j \in DOMAIN inbox : inbox'[i] = inbox[j]
    <3>1. ASSUME NEW i \in DOMAIN inbox' PROVE i + 1 \in DOMAIN inbox /\ inbox'[i] = inbox[i + 1]
      BY <1>7, <3>1 DEF ReceiveResultAck, TypeOK
    <3> QED
      BY <3>1
  <2>3. UNCHANGED <<threadVars, histVars, aged>>
    BY <1>7 DEF ReceiveResultAck
  <2> QED
    BY <1>1, <2>1, <2>2, <2>3, OnceStays
<1>8. ASSUME NEW t \in Threads, ReceiveTask(t) PROVE Once'
  <2>1. Head(inbox) = inbox[1] /\ 1 \in DOMAIN inbox /\ Head(inbox) \in Message
    BY <1>8 DEF ReceiveTask, TypeOK
  <2>2. Head(inbox) = [type |-> "TASK", key |-> Head(inbox).key]
    BY <1>8, <2>1 DEF ReceiveTask, Message
  <2>3. Head(inbox).key \notin aged
    BY <2>1, <2>2 DEF Once, AgedIsOver
  <2>4. /\ tpc' = [tpc EXCEPT ![t] = "lock"] /\ tdis' = [tdis EXCEPT ![t] = Head(inbox).key]
        /\ tpc[t] = "free" /\ UNCHANGED <<cache, aged, execs, ranHere>> /\ inbox' = Tail(inbox)
    BY <1>8 DEF ReceiveTask, storeVars, histVars
  <2>5. AgedIsOver'
    <3>1. ASSUME NEW i \in DOMAIN inbox' PROVE i + 1 \in DOMAIN inbox /\ inbox'[i] = inbox[i + 1]
      BY <1>8, <2>4, <3>1 DEF ReceiveTask, TypeOK
    <3> QED
      BY <2>3, <2>4, <3>1 DEF Once, AgedIsOver, TypeOK
  <2>6. RanIsKnown'
    BY <2>4 DEF Once, RanIsKnown, Cached, TypeOK
  <2>7. RanCounts' /\ NotRunTwiceHere'
    BY <2>4 DEF Once, RanCounts, NotRunTwiceHere, TypeOK
  <2> QED
    BY <2>5, <2>6, <2>7 DEF Once
<1> QED
  BY <1>4, <1>5, <1>6, <1>7, <1>8 DEF ConnThread

\* What a task thread does when it moves on without executing, or ends.
LEMMA MoveOnOnce ==
    ASSUME TypeOK, Once, NEW t \in Threads, tpc[t] # "execute",
           UNCHANGED <<cache, aged, histVars>>,
           \A i \in DOMAIN inbox' : inbox'[i].type = "RESULT_ACK" \/ \E j \in DOMAIN inbox : inbox'[i] = inbox[j],
           NEW pc, tpc' = [tpc EXCEPT ![t] = pc],
           tdis' = tdis \/ tdis' = [tdis EXCEPT ![t] = None],
           pc # "execute", pc \in {"validate", "progress"} => tdis' = tdis /\ tdis[t] \notin ranHere
    PROVE  Once'
<1>1. RanIsKnown'
  BY DEF Once, RanIsKnown, Cached, TypeOK, histVars
<1>2. AgedIsOver'
  <2>1. \A d \in aged, u \in Threads : tdis'[u] # d
    BY DeliveryAssumption DEF Once, AgedIsOver, TypeOK, DeliveryAssumption
  <2>2. \A d \in aged : \A i \in DOMAIN inbox' : inbox'[i] # [type |-> "TASK", key |-> d]
    BY DEF Once, AgedIsOver
  <2> QED
    BY <2>1, <2>2 DEF AgedIsOver
<1>3. RanCounts'
  BY DEF Once, RanCounts, TypeOK, histVars
<1>4. NotRunTwiceHere'
  BY DEF Once, NotRunTwiceHere, TypeOK, histVars
<1> QED
  BY <1>1, <1>2, <1>3, <1>4 DEF Once

LEMMA TaskThreadOnce ==
    ASSUME TypeOK, OneTaskAtATime, Once, NEW t \in Threads, tdis[t] \in Dispatches, TaskThread(t)
    PROVE  Once'
<1> DEFINE d == tdis[t]
           Quiet == inbox' = inbox /\ UNCHANGED <<cache, aged, histVars>>
<1>1. ASSUME Quiet, tpc[t] # "execute", EndThread(t) PROVE Once'
  BY <1>1, MoveOnOnce DEF EndThread
<1>2. ASSUME Quiet, tpc[t] # "execute", NEW pc, pc # "execute", GoTo(t, pc),
             pc \in {"validate", "progress"} => d \notin ranHere
      PROVE  Once'
  BY <1>2, MoveOnOnce DEF GoTo
<1>3. CASE AcquireLock(t)
  <2>1. Quiet /\ tdis' = tdis /\ tpc[t] = "lock" /\ lock = None
    BY <1>3 DEF AcquireLock, netVars, storeVars
  <2>2. \A u \in Threads : tpc[u] # "execute"
    BY <2>1, DeliveryAssumption DEF OneTaskAtATime, Holding, DeliveryAssumption
  <2>3. d \notin aged
    BY DEF Once, AgedIsOver
  <2>4. ~Cached(d) => d \notin ranHere
    BY <2>2, <2>3 DEF Once, RanIsKnown
  <2>5. CASE Cached(d)
    <3>1. tpc' = [tpc EXCEPT ![t] = "reack"]
      BY <1>3, <2>5 DEF AcquireLock
    <3> QED
      BY <2>1, <3>1, MoveOnOnce
  <2>6. CASE ~Cached(d)
    <3>1. tpc' = [tpc EXCEPT ![t] = "validate"]
      BY <1>3, <2>6 DEF AcquireLock
    <3> QED
      BY <2>1, <2>4, <2>6, <3>1, MoveOnOnce
  <2> QED
    BY <2>5, <2>6
<1>4. CASE ResendAck(t)
  BY <1>1, <1>2, <1>4 DEF ResendAck, netVars, storeVars
<1>5. CASE Validate(t)
  <2>1. Quiet /\ tpc[t] = "validate" /\ (EndThread(t) \/ GoTo(t, "progress"))
    BY <1>5 DEF Validate, netVars, storeVars
  <2>2. d \notin ranHere
    BY <2>1 DEF Once, NotRunTwiceHere
  <2> QED
    BY <1>1, <1>2, <2>1, <2>2
<1>6. CASE BeginExecution(t)
  <2>1. CASE link[tsock[t]] = "closed"
    BY <1>1, <1>6, <2>1 DEF BeginExecution, netVars, storeVars
  <2>2. CASE link[tsock[t]] # "closed"
    <3>1. /\ tpc[t] = "progress" /\ tpc' = [tpc EXCEPT ![t] = "execute"]
          /\ execs' = [execs EXCEPT ![d] = @ + 1] /\ ranHere' = ranHere \cup {d}
          /\ UNCHANGED <<tdis, inbox, cache, aged>>
      BY <1>6, <2>2 DEF BeginExecution, GoTo, netVars, storeVars
    <3>2. RanIsKnown'
      BY <3>1 DEF Once, RanIsKnown, Cached, TypeOK
    <3>3. AgedIsOver'
      BY <3>1 DEF Once, AgedIsOver
    <3>4. RanCounts'
      BY <3>1 DEF Once, RanCounts, TypeOK
    <3>5. NotRunTwiceHere'
      <4>1. \A u \in Threads : tpc'[u] \notin {"validate", "progress"}
        BY <3>1 DEF TypeOK, OneTaskAtATime, Holding
      <4> QED
        BY <4>1 DEF NotRunTwiceHere
    <3> QED
      BY <3>2, <3>3, <3>4, <3>5 DEF Once
  <2> QED
    BY <2>1, <2>2
<1>7. CASE FinishExecution(t)
  <2> DEFINE h == [cache EXCEPT ![d] = [res |-> execs[d], acked |-> FALSE]]
  <2>1. /\ tpc[t] = "execute" /\ cache' = Prune(h) /\ tpc' = [tpc EXCEPT ![t] = "save"]
        /\ UNCHANGED <<tdis, inbox, aged, execs, ranHere>>
    BY <1>7 DEF FinishExecution, GoTo, netVars, histVars
  <2>2. execs[d] # 0 /\ d \notin aged
    BY <2>1 DEF Once, RanCounts, AgedIsOver
  <2>3. \A e \in Dispatches : Cached(e) \/ e = d => h[e].res # 0
    BY <2>2 DEF Cached, TypeOK, History, Entry
  <2>4. \A e \in Dispatches : Cached(e) \/ e = d => Cached(e)' \/ e \in aged
    BY <2>1, <2>3, PruneKeeps DEF Cached
  <2>5. RanIsKnown'
    BY <2>1, <2>4 DEF Once, RanIsKnown, TypeOK
  <2>6. AgedIsOver'
    BY <2>1 DEF Once, AgedIsOver
  <2>7. RanCounts' /\ NotRunTwiceHere'
    BY <2>1 DEF Once, RanCounts, NotRunTwiceHere, TypeOK
  <2> QED
    BY <2>5, <2>6, <2>7 DEF Once
<1>8. CASE TaskTruncate(t) \/ TaskWrite(t)
  <2>1. Quiet /\ tpc[t] # "execute" /\ (GoTo(t, "flush") \/ GoTo(t, "result"))
    BY <1>8 DEF TaskTruncate, TaskWrite, netVars
  <2> QED
    BY <1>2, <2>1
<1>9. CASE SendResult(t)
  <2>1. \A i \in DOMAIN inbox' : inbox'[i].type = "RESULT_ACK" \/ \E j \in DOMAIN inbox : inbox'[i] = inbox[j]
    BY <1>9, ServerTakesResultInbox DEF SendResult
  <2> QED
    BY <1>9, <2>1, MoveOnOnce DEF SendResult, EndThread, storeVars
<1>10. CASE TaskSaveFails(t)
  BY <1>1, <1>10 DEF TaskSaveFails, SaveFails, netVars
<1> QED
  BY <1>3, <1>4, <1>5, <1>6, <1>7, <1>8, <1>9, <1>10 DEF TaskThread

LEMMA EnvironmentOnce == ASSUME TypeOK, Once, Environment PROVE Once'
<1>1. ranHere \subseteq Dispatches
  BY DEF TypeOK
<1>2. ASSUME NEW e \in Dispatches, Dispatch(e) PROVE Once'
  <2> DEFINE m == [type |-> "TASK", key |-> e]
  <2>1. inbox' = Append(inbox, m) /\ UNCHANGED <<threadVars, cache, aged, histVars>> /\ e \notin aged
    BY <1>2 DEF Dispatch, storeVars
  <2>2. ASSUME NEW i \in DOMAIN inbox' PROVE (i \in DOMAIN inbox /\ inbox'[i] = inbox[i]) \/ inbox'[i] = m
    BY <2>1, <2>2 DEF TypeOK
  <2>3. \A a \in aged : m # [type |-> "TASK", key |-> a]
    BY <2>1
  <2>4. AgedIsOver'
    BY <2>1, <2>2, <2>3 DEF Once, AgedIsOver, threadVars
  <2>5. RanIsKnown' /\ RanCounts' /\ NotRunTwiceHere'
    BY <2>1 DEF Once, RanIsKnown, Cached, RanCounts, NotRunTwiceHere, threadVars, histVars
  <2> QED
    BY <2>4, <2>5 DEF Once
<1>3. ASSUME NEW e \in Dispatches, Expire(e) PROVE Once'
  BY <1>1, <1>3, OnceStays DEF Expire, netVars, storeVars, Cached
<1>4. ASSUME NEW e \in Dispatches, Age(e) PROVE Once'
  BY <1>4 DEF Age, Once, RanIsKnown, AgedIsOver, RanCounts, NotRunTwiceHere, Cached,
     netVars, threadVars, histVars
<1>5. ASSUME NEW c \in Conns, Drop(c) PROVE Once'
  <2>1. inbox' = inbox \/ \E n \in 0..Len(inbox) : inbox' = SubSeq(inbox, 1, n)
    BY <1>5 DEF Drop
  <2>2. ASSUME NEW i \in DOMAIN inbox' PROVE i \in DOMAIN inbox /\ inbox'[i] = inbox[i]
    BY <2>1, <2>2 DEF TypeOK
  <2> QED
    BY <1>1, <1>5, <2>2, OnceStays DEF Drop, storeVars, Cached
<1>6. ASSUME NEW c \in Conns, Notice(c) PROVE Once'
  BY <1>1, <1>6, OnceStays DEF Notice, storeVars, Cached
<1>7. CASE Restart
  BY <1>7, DeliveryAssumption
  DEF Restart, Once, RanIsKnown, AgedIsOver, RanCounts, NotRunTwiceHere, TypeOK, DeliveryAssumption
<1> QED
  BY <1>2, <1>3, <1>4, <1>5, <1>6, <1>7 DEF Environment

LEMMA StepOnce == TypeOK /\ Working /\ OneTaskAtATime /\ Once /\ [Next]_vars => Once'
<1> SUFFICES ASSUME TypeOK, Working, OneTaskAtATime, Once, [Next]_vars PROVE Once'
  OBVIOUS
<1>1. ASSUME NEW t \in Threads, TaskThread(t) PROVE tdis[t] \in Dispatches
  BY <1>1 DEF Working, TaskThread, AcquireLock, ResendAck, Validate, BeginExecution,
     FinishExecution, TaskTruncate, TaskWrite, TaskSaveFails, SaveFails, SendResult
<1>2. CASE UNCHANGED vars
  BY <1>2 DEF vars, netVars, threadVars, storeVars, histVars, Once, RanIsKnown, AgedIsOver, Cached,
     RanCounts, NotRunTwiceHere
<1> QED
  BY <1>1, <1>2, ConnThreadOnce, TaskThreadOnce, EnvironmentOnce DEF Next

\* However often a TASK is repeated and on whatever connections, a process
\* executes its dispatch once.
THEOREM NeverRunTwice == Spec => []NotRunTwiceHere
<1>1. Once => NotRunTwiceHere
  BY DEF Once
<1> QED
  BY <1>1, InitOnce, StepOnce, TypeCorrect, TaskMutualExclusion, PTL DEF Spec

-----------------------------------------------------------------------------
(* TaskDelivery implements TaskLedger.                                     *)
(*                                                                         *)
(* What the refinement needs to know.  A thread that is to execute a       *)
(* dispatch, or executes it, has no result of it in the cache; and a       *)
(* history on its way to the file, or in it, knows nothing that the cache  *)
(* does not know, but for results that are past their retention period.    *)

Unrun ==
    \A t \in Threads : tpc[t] \in {"validate", "progress", "execute"} => ~Cached(tdis[t])

\* History h was taken from what is now cache c; A are the aged dispatches.
Covered(h, c, A) ==
    \A d \in Dispatches :
        /\ h[d].res # 0 => c[d].res # 0 \/ d \in A
        /\ h[d].acked => h[d].res # 0 /\ (c[d].res # 0 => c[d].acked)

Backed == Covered(cache, cache, aged) /\ Covered(disk, cache, aged) /\ \A w \in Writers : Covered(snap[w], cache, aged)

LEMMA InitBacked == Init => Unrun /\ Backed
BY DEF Init, Unrun, Backed, Covered, NoHistory, NoEntry, Writers

LEMMA NoHistoryCovered == ASSUME NEW c, NEW A PROVE Covered(NoHistory, c, A)
BY DEF Covered, NoHistory, NoEntry

\* What is covered stays covered when results go only after their period and a
\* confirmation is not taken back.
LEMMA CoveredStays ==
    ASSUME NEW h, NEW c, NEW c2, NEW A, NEW B, Covered(h, c, A), A \subseteq B,
           \A d \in Dispatches : c[d].res # 0 => c2[d].res # 0 \/ d \in B,
           \A d \in Dispatches : h[d].acked /\ c2[d].res # 0 => c2[d].acked
    PROVE  Covered(h, c2, B)
BY DEF Covered

\* What marking a result as confirmed does to the records.
LEMMA MarkAcked ==
    ASSUME NEW c \in History, NEW k \in Dispatches, NEW d \in Dispatches
    PROVE  LET h == [c EXCEPT ![k].acked = TRUE]
           IN  h[d].res = c[d].res /\ (d # k => h[d] = c[d]) /\ (d = k => h[d].acked)
<1>1. c[k] \in Entry
  BY DEF History
<1>2. [c EXCEPT ![k].acked = TRUE][d] = IF d = k THEN [c[k] EXCEPT !.acked = TRUE] ELSE c[d]
  BY DEF History
<1>3. [c[k] EXCEPT !.acked = TRUE].res = c[k].res /\ [c[k] EXCEPT !.acked = TRUE].acked
  BY <1>1 DEF Entry
<1> QED
  BY <1>2, <1>3

-----------------------------------------------------------------------------

LEMMA StepUnrun ==
    ASSUME TypeOK, Working, OneTaskAtATime, Unrun, [Next]_vars PROVE Unrun'
<1>1. ASSUME UNCHANGED threadVars, \A d : Cached(d)' => Cached(d) PROVE Unrun'
  BY <1>1 DEF Unrun, threadVars
<1>2. ASSUME UNCHANGED <<threadVars, cache>> PROVE Unrun'
  BY <1>1, <1>2 DEF Cached
<1>3. CASE ReceiveResultAck
  <2>1. UNCHANGED threadVars
    BY <1>3 DEF ReceiveResultAck
  <2>2. \A d \in Dispatches : Cached(d)' => Cached(d)
    <3>0. Head(inbox).key \in Dispatches
      <4>1. Head(inbox) \in Message
        BY <1>3 DEF ReceiveResultAck, TypeOK
      <4> QED
        BY <4>1 DEF Message
    <3>1. CASE UNCHANGED cache
      BY <3>1 DEF Cached
    <3>2. ASSUME NEW k \in Dispatches, cache' = Prune([cache EXCEPT ![k].acked = TRUE]) PROVE \A d \in Dispatches : Cached(d)' => Cached(d)
      <4> DEFINE h == [cache EXCEPT ![k].acked = TRUE]
      <4>1. \A d \in Dispatches : h[d].res = cache[d].res
        BY MarkAcked DEF TypeOK
      <4>2. \A d \in Dispatches : cache'[d] = NoEntry \/ cache'[d] = h[d]
        BY <3>2 DEF Prune
      <4> HIDE DEF h
      <4> QED
        BY <4>1, <4>2 DEF Cached, NoEntry
    <3> QED
      BY <1>3, <3>0, <3>1, <3>2 DEF ReceiveResultAck
  <2> QED
    BY <2>1, <2>2 DEF Unrun, Working, threadVars, Cached
<1>4. ASSUME NEW t \in Threads, ReceiveTask(t) PROVE Unrun'
  BY <1>4 DEF ReceiveTask, Unrun, Cached, TypeOK, storeVars
<1>5. CASE Restart
  BY <1>5 DEF Restart, Unrun
<1>6. ASSUME NEW t \in Threads, EndThread(t), UNCHANGED cache PROVE Unrun'
  BY <1>6 DEF EndThread, Unrun, Cached, TypeOK
<1>7. ASSUME NEW t \in Threads, NEW pc, GoTo(t, pc), UNCHANGED cache,
             pc \in {"validate", "progress", "execute"} => ~Cached(tdis[t])
      PROVE  Unrun'
  BY <1>7 DEF GoTo, Unrun, Cached, TypeOK
<1>8. ASSUME NEW t \in Threads, AcquireLock(t) PROVE Unrun'
  BY <1>8 DEF AcquireLock, Unrun, Cached, TypeOK, storeVars
<1>9. ASSUME NEW t \in Threads, FinishExecution(t) PROVE Unrun'
  BY <1>9 DEF FinishExecution, GoTo, Unrun, OneTaskAtATime, Holding, TypeOK
<1>10. ASSUME NEW t \in Threads, TaskThread(t) PROVE Unrun'
  <2>1. CASE ResendAck(t) \/ TaskTruncate(t) \/ TaskWrite(t) \/ TaskSaveFails(t) \/ SendResult(t)
    BY <1>6, <1>7, <2>1 DEF ResendAck, TaskTruncate, TaskWrite, TaskSaveFails, SaveFails, SendResult, storeVars
  <2>2. CASE Validate(t) \/ BeginExecution(t)
    <3>1. ~Cached(tdis[t])
      BY <2>2 DEF Validate, BeginExecution, Unrun
    <3> QED
      BY <1>6, <1>7, <2>2, <3>1 DEF Validate, BeginExecution, storeVars
  <2> QED
    BY <1>8, <1>9, <1>10, <2>1, <2>2 DEF TaskThread
<1>11. CASE ConnThread
  <2>1. UNCHANGED <<threadVars, cache>> \/ ReceiveResultAck \/ \E t \in Threads : ReceiveTask(t)
    BY <1>11 DEF ConnThread, Connect, Authenticate, BeginResend, ResendNext, RecvClosed, ConnTruncate, ConnWrite, ConnSaveFails, SaveFails,
       storeVars
  <2> QED
    BY <1>2, <1>3, <1>4, <2>1
<1>12. CASE Environment
  BY <1>2, <1>5, <1>12 DEF Environment, Dispatch, Expire, Age, Drop, Notice, storeVars
<1>13. CASE UNCHANGED vars
  BY <1>2, <1>13 DEF vars, storeVars
<1> QED
  BY <1>10, <1>11, <1>12, <1>13 DEF Next

LEMMA StepBacked ==
    ASSUME TypeOK, Working, Once, Unrun, Backed, [Next]_vars PROVE Backed'
<1>1. ASSUME UNCHANGED storeVars PROVE Backed'
  BY <1>1 DEF Backed, storeVars
<1>2. ASSUME UNCHANGED <<cache, aged, snap>>, Truncate PROVE Backed'
  BY <1>2, NoHistoryCovered DEF Backed, Truncate
<1>3. ASSUME NEW w \in Writers, UNCHANGED <<cache, aged>>, Write(w), snap' = [snap EXCEPT ![w] = NoHistory]
      PROVE  Backed'
  <2>1. disk' = snap[w] \/ disk' = NoHistory
    BY <1>3 DEF Write
  <2>2. \A v \in Writers : snap'[v] = snap[v] \/ snap'[v] = NoHistory
    BY <1>3 DEF TypeOK
  <2> QED
    BY <1>3, <2>1, <2>2, NoHistoryCovered DEF Backed
\* A new cache, a copy of which is going to be written.
<1>4. ASSUME NEW w \in Writers, UNCHANGED <<disk, aged>>, snap' = [snap EXCEPT ![w] = cache'],
             \A d \in Dispatches : cache[d].res # 0 => cache'[d].res # 0 \/ d \in aged,
             \A d \in Dispatches : cache'[d].acked => cache'[d].res # 0,
             \A d \in Dispatches : cache'[d].res # 0 /\ ~cache'[d].acked => ~disk[d].acked /\ \A v \in Writers : ~snap[v][d].acked
      PROVE  Backed'
  <2>1. Covered(cache', cache', aged)
    BY <1>4 DEF Covered
  <2>2. Covered(disk, cache', aged)
    BY <1>4, CoveredStays DEF Backed
  <2>3. \A v \in Writers : Covered(snap[v], cache', aged)
    BY <1>4, CoveredStays DEF Backed
  <2>4. \A v \in Writers : snap'[v] = snap[v] \/ snap'[v] = cache'
    BY <1>4 DEF TypeOK
  <2> QED
    BY <1>4, <2>1, <2>2, <2>3, <2>4 DEF Backed
<1>5. CASE ReceiveResultAck
  <2> DEFINE k == Head(inbox).key
             h == [cache EXCEPT ![k].acked = TRUE]
  <2>1. k \in Dispatches
    <3>1. Head(inbox) \in Message
      BY <1>5 DEF ReceiveResultAck, TypeOK
    <3> QED
      BY <3>1 DEF Message
  <2>2. CASE ~Cached(k)
    BY <1>1, <1>5, <2>2 DEF ReceiveResultAck, storeVars
  <2>3. CASE Cached(k)
    <3>1. cache' = Prune(h) /\ snap' = [snap EXCEPT !["conn"] = cache'] /\ UNCHANGED <<disk, aged>>
      BY <1>5, <2>3 DEF ReceiveResultAck
    <3>2. \A d \in Dispatches : h[d].res = cache[d].res /\ (d # k => h[d] = cache[d]) /\ (d = k => h[d].acked)
      BY <2>1, MarkAcked DEF TypeOK
    <3>3. \A d \in Dispatches : cache'[d] = IF h[d].acked /\ d \in aged THEN NoEntry ELSE h[d]
      BY <3>1 DEF Prune
    <3> HIDE DEF h
    <3>4. \A d \in Dispatches : cache[d].res # 0 => cache'[d].res # 0 \/ d \in aged
      BY <3>2, <3>3
    <3>5. \A d \in Dispatches : cache'[d].acked => cache'[d].res # 0
      BY <2>3, <3>2, <3>3 DEF Backed, Covered, Cached, NoEntry
    <3>6. \A d \in Dispatches : cache'[d].res # 0 /\ ~cache'[d].acked => cache[d].res # 0 /\ ~cache[d].acked
      BY <3>2, <3>3 DEF NoEntry
    <3>7. \A d \in Dispatches :
              cache'[d].res # 0 /\ ~cache'[d].acked => ~disk[d].acked /\ \A v \in Writers : ~snap[v][d].acked
      BY <3>6 DEF Backed, Covered
    <3> QED
      BY <1>4, <3>1, <3>4, <3>5, <3>7 DEF Writers
  <2> QED
    BY <2>2, <2>3
<1>6. ASSUME NEW t \in Threads, FinishExecution(t) PROVE Backed'
  <2> DEFINE k == tdis[t]
             h == [cache EXCEPT ![k] = [res |-> execs[k], acked |-> FALSE]]
  <2>1. /\ tpc[t] = "execute" /\ cache' = Prune(h) /\ snap' = [snap EXCEPT !["task"] = cache']
        /\ UNCHANGED <<disk, aged>>
    BY <1>6 DEF FinishExecution
  <2>2. k \in Dispatches /\ execs[k] # 0 /\ k \notin aged /\ ~Cached(k)
    BY <2>1 DEF Working, Once, RanCounts, AgedIsOver, Unrun
  <2>3. \A d \in Dispatches : h[d] = IF d = k THEN [res |-> execs[k], acked |-> FALSE] ELSE cache[d]
    BY <2>2 DEF TypeOK, History
  <2>4. \A d \in Dispatches : cache'[d] = IF h[d].acked /\ d \in aged THEN NoEntry ELSE h[d]
    BY <2>1 DEF Prune
  <2>5. \A d \in Dispatches : cache[d].res # 0 => cache'[d].res # 0 \/ d \in aged
    BY <2>2, <2>3, <2>4
  <2>6. \A d \in Dispatches : cache'[d].acked => cache'[d].res # 0
    BY <2>2, <2>3, <2>4 DEF Backed, Covered, NoEntry
  <2>7. ~disk[k].acked /\ \A v \in Writers : ~snap[v][k].acked
    BY <2>2 DEF Backed, Covered, Cached
  <2>8. \A d \in Dispatches :
            d # k /\ cache'[d].res # 0 /\ ~cache'[d].acked => cache[d].res # 0 /\ ~cache[d].acked
    BY <2>3, <2>4 DEF NoEntry
  <2>9. \A d \in Dispatches :
            cache'[d].res # 0 /\ ~cache'[d].acked => ~disk[d].acked /\ \A v \in Writers : ~snap[v][d].acked
    BY <2>7, <2>8 DEF Backed, Covered
  <2> QED
    BY <1>4, <2>1, <2>5, <2>6, <2>9 DEF Writers
<1>7. CASE Restart
  <2>1. cache' = Prune(disk) /\ UNCHANGED <<disk, aged>> /\ \A w \in Writers : snap'[w] = NoHistory
    BY <1>7 DEF Restart
  <2>2. \A d \in Dispatches : cache'[d] = IF disk[d].acked /\ d \in aged THEN NoEntry ELSE disk[d]
    BY <2>1 DEF Prune
  <2>3. Covered(cache', cache', aged) /\ Covered(disk, cache', aged)
    BY <2>2 DEF Backed, Covered, NoEntry
  <2> QED
    BY <2>1, <2>3, NoHistoryCovered DEF Backed
<1>8. ASSUME NEW d \in Dispatches, Age(d) PROVE Backed'
  <2>1. UNCHANGED <<cache, disk, snap>> /\ aged \subseteq aged'
    BY <1>8 DEF Age
  <2> QED
    BY <2>1 DEF Backed, Covered
<1>9. ASSUME NEW w \in Writers, SaveFails(w) PROVE Backed'
  <2>1. UNCHANGED <<cache, aged>> /\ disk' \in {disk, NoHistory}
    BY <1>9 DEF SaveFails
  <2>2. \A v \in Writers : snap'[v] = snap[v] \/ snap'[v] = NoHistory
    BY <1>9 DEF SaveFails, TypeOK
  <2> QED
    BY <2>1, <2>2, NoHistoryCovered DEF Backed
<1>10. ASSUME NEW t \in Threads, TaskThread(t) PROVE Backed'
  <2>1. CASE TaskTruncate(t)
    BY <1>2, <2>1 DEF TaskTruncate
  <2>2. CASE TaskWrite(t)
    BY <1>3, <2>2 DEF TaskWrite, Writers
  <2>3. CASE TaskSaveFails(t)
    BY <1>9, <2>3 DEF TaskSaveFails, Writers
  <2> QED
    BY <1>1, <1>6, <1>10, <2>1, <2>2, <2>3 DEF TaskThread, AcquireLock, ResendAck, Validate, BeginExecution, SendResult
<1>11. CASE ConnThread
  <2>1. CASE ConnTruncate
    BY <1>2, <2>1 DEF ConnTruncate
  <2>2. CASE ConnWrite
    BY <1>3, <2>2 DEF ConnWrite, Writers
  <2>3. CASE ConnSaveFails
    BY <1>9, <2>3 DEF ConnSaveFails, Writers
  <2> QED
    BY <1>1, <1>5, <1>11, <2>1, <2>2, <2>3 DEF ConnThread, Connect, Authenticate, BeginResend, ResendNext, RecvClosed,
       ReceiveTask
<1>12. CASE Environment
  BY <1>1, <1>7, <1>8, <1>12 DEF Environment, Dispatch, Expire, Drop, Notice
<1>13. CASE UNCHANGED vars
  BY <1>1, <1>13 DEF vars
<1> QED
  BY <1>10, <1>11, <1>12, <1>13 DEF Next

-----------------------------------------------------------------------------
(* Each step of TaskDelivery is a step of TaskLedger or none. *)

Known == [d \in Dispatches |-> Standing(d)]

Running(d) == \E t \in Threads : tdis[t] = d /\ tpc[t] = "execute"

\* A standing depends on who executes, on the cache and on the ages.
LEMMA StandingIs ==
    ASSUME NEW d \in Dispatches
    PROVE  /\ Known[d] = IF Running(d) THEN "running"
                         ELSE IF cache[d].res # 0 THEN IF cache[d].acked THEN "confirmed" ELSE "answered"
                         ELSE IF d \in aged THEN "retired" ELSE "fresh"
           /\ Known'[d] = IF Running(d)' THEN "running"
                          ELSE IF cache'[d].res # 0 THEN IF cache'[d].acked THEN "confirmed" ELSE "answered"
                          ELSE IF d \in aged' THEN "retired" ELSE "fresh"
BY DEF Known, Standing, Running, Cached

LEMMA StandingsStay ==
    ASSUME UNCHANGED <<cache, aged>>, \A d \in Dispatches : Running(d)' <=> Running(d)
    PROVE  Known' = Known
<1>1. \A d \in Dispatches : Known'[d] = Known[d]
  BY StandingIs
<1> QED
  BY <1>1 DEF Known

\* Whoever executes, when one thread moves that does not.
LEMMA RunningStays ==
    ASSUME NEW t \in Threads, tpc[t] # "execute", tpc'[t] # "execute",
           \A u \in Threads \ {t} : tpc'[u] = tpc[u] /\ tdis'[u] = tdis[u]
    PROVE  \A d \in Dispatches : Running(d)' <=> Running(d)
BY DEF Running

LEMMA Frame ==
    ASSUME UNCHANGED <<cache, aged, tpc, tdis>> PROVE Known' = Known
BY StandingsStay DEF Running

\* The first and the last step of an execution, and a confirmation.
LEMMA LedgerBegins ==
    ASSUME TypeOK, Working, OneTaskAtATime, Once, Unrun, NEW t \in Threads, BeginExecution(t)
    PROVE  Known' = Known \/ Ledger!Begin(tdis[t])
<1> DEFINE d == tdis[t]
<1>1. tpc[t] = "progress" /\ d \in Dispatches /\ UNCHANGED <<cache, aged, crashes>>
  BY DEF BeginExecution, Working, storeVars, faultVars
<1>2. CASE EndThread(t)
  <2>1. tpc'[t] # "execute" /\ \A u \in Threads \ {t} : tpc'[u] = tpc[u] /\ tdis'[u] = tdis[u]
    BY <1>2 DEF EndThread, TypeOK
  <2> QED
    BY <1>1, <2>1, RunningStays, StandingsStay
<1>3. CASE GoTo(t, "execute")
  <2>1. tdis' = tdis /\ tpc' = [tpc EXCEPT ![t] = "execute"]
    BY <1>3 DEF GoTo
  <2>2. \A e \in Dispatches : ~Running(e) /\ (Running(e)' <=> e = d)
    BY <1>1, <2>1 DEF Running, OneTaskAtATime, Holding, TypeOK
  <2>3. ~Cached(d) /\ d \notin aged
    BY <1>1 DEF Unrun, Once, AgedIsOver
  <2>4. Known[d] = "fresh" /\ \A e \in Dispatches : Known[e] # "running"
    BY <1>1, <2>2, <2>3, StandingIs DEF Cached
  <2>5. \A e \in Dispatches : Known'[e] = IF e = d THEN "running" ELSE Known[e]
    BY <1>1, <2>2, StandingIs
  <2>6. Known' = [Known EXCEPT ![d] = "running"]
    BY <2>5 DEF Known
  <2> QED
    BY <1>1, <2>4, <2>6 DEF Ledger!Begin, Known
<1> QED
  BY <1>2, <1>3 DEF BeginExecution

LEMMA LedgerAnswers ==
    ASSUME TypeOK, Working, OneTaskAtATime, Once, Unrun, Backed, NEW t \in Threads, FinishExecution(t)
    PROVE  Ledger!Answer(tdis[t])
<1> DEFINE d == tdis[t]
           h == [cache EXCEPT ![d] = [res |-> execs[d], acked |-> FALSE]]
           l == [Known EXCEPT ![d] = "answered"]
<1>1. /\ tpc[t] = "execute" /\ d \in Dispatches /\ execs[d] # 0 /\ d \notin aged
      /\ tdis' = tdis /\ tpc' = [tpc EXCEPT ![t] = "save"] /\ cache' = Prune(h) /\ UNCHANGED <<aged, crashes>>
  BY DEF FinishExecution, GoTo, Working, Once, RanCounts, AgedIsOver, faultVars
<1>2. \A e \in Dispatches : (Running(e) <=> e = d) /\ ~Running(e)'
  BY <1>1 DEF Running, OneTaskAtATime, Holding, TypeOK
<1>3. \A e \in Dispatches : h[e] = IF e = d THEN [res |-> execs[d], acked |-> FALSE] ELSE cache[e]
  BY <1>1 DEF TypeOK, History
<1>4. \A e \in Dispatches : cache'[e] = IF h[e].acked /\ e \in aged THEN NoEntry ELSE h[e]
  BY <1>1 DEF Prune
<1>5. \A e \in Dispatches : l[e] = IF e = d THEN "answered" ELSE Known[e]
  BY DEF Known
<1> HIDE DEF h
<1>6. \A e \in Dispatches : Known'[e] = IF e \in aged /\ l[e] = "confirmed" THEN "retired" ELSE l[e]
  <2>1. Known'[d] = "answered"
    <3>1. cache'[d].res # 0 /\ ~cache'[d].acked /\ ~Running(d)'
      BY <1>1, <1>2, <1>3, <1>4
    <3> QED
      BY <1>1, <3>1, StandingIs
  <2>2. ASSUME NEW e \in Dispatches, e # d
        PROVE  Known'[e] = IF e \in aged /\ Known[e] = "confirmed" THEN "retired" ELSE Known[e]
    <3>1. cache'[e] = (IF cache[e].acked /\ e \in aged THEN NoEntry ELSE cache[e]) /\ ~Running(e) /\ ~Running(e)'
      BY <1>2, <1>3, <1>4, <2>2
    <3>2. cache[e].acked => cache[e].res # 0
      BY DEF Backed, Covered
    <3>3. aged' = aged
      BY <1>1
    <3> HIDE DEF l, d
    <3> QED
      BY <3>1, <3>2, <3>3, StandingIs DEF NoEntry
  <2> QED
    BY <1>1, <1>5, <2>1, <2>2
<1>7. Known' = Ledger!Tidy(l, aged)
  BY <1>6 DEF Ledger!Tidy, Known
<1>8. Known[d] = "running" /\ aged \in SUBSET Dispatches
  BY <1>1, <1>2, StandingIs DEF TypeOK
<1> QED
  BY <1>1, <1>7, <1>8 DEF Ledger!Answer, Known

LEMMA LedgerConfirms ==
    ASSUME TypeOK, Unrun, Backed, ReceiveResultAck
    PROVE  Known' = Known \/ \E d \in Dispatches : Ledger!Confirm(d)
<1> DEFINE d == Head(inbox).key
           h == [cache EXCEPT ![d].acked = TRUE]
           l == [Known EXCEPT ![d] = "confirmed"]
<1>1. d \in Dispatches
  <2>1. Head(inbox) \in Message
    BY DEF ReceiveResultAck, TypeOK
  <2> QED
    BY <2>1 DEF Message
<1>2. UNCHANGED <<tpc, tdis, aged, crashes>> /\ \A e \in Dispatches : Running(e)' <=> Running(e)
  BY DEF ReceiveResultAck, Running, threadVars, faultVars
<1>3. CASE ~Cached(d)
  BY <1>2, <1>3, Frame DEF ReceiveResultAck
<1>4. CASE Cached(d)
  <2>1. cache' = Prune(h) /\ ~Running(d)
    BY <1>4 DEF ReceiveResultAck, Unrun, Running
  <2>2. \A e \in Dispatches : h[e].res = cache[e].res /\ (e # d => h[e] = cache[e]) /\ (e = d => h[e].acked)
    BY <1>1, MarkAcked DEF TypeOK
  <2>3. \A e \in Dispatches : cache'[e] = IF h[e].acked /\ e \in aged THEN NoEntry ELSE h[e]
    BY <2>1 DEF Prune
  <2> HIDE DEF h
  <2>4. \A e \in Dispatches : l[e] = IF e = d THEN "confirmed" ELSE Known[e]
    BY DEF Known
  <2>5. \A e \in Dispatches : Known'[e] = IF e \in aged /\ l[e] = "confirmed" THEN "retired" ELSE l[e]
    <3>1. Known'[d] = IF d \in aged THEN "retired" ELSE "confirmed"
      BY <1>1, <1>2, <1>4, <2>1, <2>2, <2>3, StandingIs DEF Cached, NoEntry
    <3>2. ASSUME NEW e \in Dispatches, e # d
          PROVE  Known'[e] = IF e \in aged /\ Known[e] = "confirmed" THEN "retired" ELSE Known[e]
      <4>1. cache'[e] = IF cache[e].acked /\ e \in aged THEN NoEntry ELSE cache[e]
        BY <2>2, <2>3, <3>2
      <4>2. /\ cache[e].acked => cache[e].res # 0
            /\ Running(e) => cache[e].res = 0
        BY DEF Backed, Covered, Unrun, Running, Cached
      <4> QED
        BY <1>2, <4>1, <4>2, StandingIs DEF NoEntry
    <3> QED
      BY <1>1, <2>4, <3>1, <3>2
  <2>6. Known' = Ledger!Tidy(l, aged)
    BY <2>5 DEF Ledger!Tidy, Known
  <2>7. Known[d] \in {"answered", "confirmed"} /\ aged \in SUBSET Dispatches
    BY <1>1, <1>4, <2>1, StandingIs DEF Cached, TypeOK
  <2> QED
    BY <1>1, <1>2, <2>6, <2>7 DEF Ledger!Confirm, Known
<1> QED
  BY <1>3, <1>4

\* What a restart makes of what was known: the file is behind the cache at most.
LEMMA LedgerRestarts ==
    ASSUME TypeOK, Unrun, Once, Backed, Restart PROVE Ledger!Restart
<1>1. cache' = Prune(disk) /\ UNCHANGED aged /\ crashes' = crashes + 1 /\ \A d \in Dispatches : ~Running(d)'
  BY DEF Restart, Running
<1>2. \A d \in Dispatches : cache'[d] = IF disk[d].acked /\ d \in aged THEN NoEntry ELSE disk[d]
  BY <1>1 DEF Prune
<1>3. ASSUME NEW d \in Dispatches PROVE Known'[d] \in Ledger!Standings /\ Known'[d] \in Ledger!Survives(Known[d])
  <2>1. Running(d) => cache[d].res = 0 /\ d \notin aged
    BY DEF Unrun, Running, Once, AgedIsOver, Cached
  <2>2. /\ disk[d].res # 0 => cache[d].res # 0 \/ d \in aged
        /\ disk[d].acked => disk[d].res # 0 /\ (cache[d].res # 0 => cache[d].acked)
    BY DEF Backed, Covered
  <2>3. cache'[d] = IF disk[d].acked /\ d \in aged THEN NoEntry ELSE disk[d]
    BY <1>2
  <2> QED
    BY <1>1, <2>1, <2>2, <2>3, StandingIs DEF Ledger!Standings, Ledger!Survives, NoEntry
<1>4. Known' \in [Dispatches -> Ledger!Standings]
  BY <1>3 DEF Known
<1> QED
  BY <1>1, <1>3, <1>4 DEF Ledger!Restart, Known

LEMMA StepLedger ==
    ASSUME TypeOK, Working, OneTaskAtATime, Once, Unrun, Backed, [Next]_vars
    PROVE  [Ledger!Next]_<<Known, crashes>>
<1>1. ASSUME NEW t \in Threads, TaskThread(t) PROVE [Ledger!Next]_<<Known, crashes>>
  <2>1. tdis[t] \in Dispatches /\ crashes' = crashes
    BY <1>1 DEF Working, TaskThread, AcquireLock, ResendAck, Validate, BeginExecution,
       FinishExecution, TaskTruncate, TaskWrite, TaskSaveFails, SaveFails, SendResult, faultVars
  <2>2. CASE BeginExecution(t)
    BY <2>1, <2>2, LedgerBegins DEF Ledger!Next
  <2>3. CASE FinishExecution(t)
    BY <2>1, <2>3, LedgerAnswers DEF Ledger!Next
  <2>4. CASE ~BeginExecution(t) /\ ~FinishExecution(t)
    <3>1. /\ UNCHANGED <<cache, aged>> /\ tpc[t] # "execute" /\ tpc'[t] # "execute"
          /\ \A u \in Threads \ {t} : tpc'[u] = tpc[u] /\ tdis'[u] = tdis[u]
      BY <1>1, <2>4 DEF TaskThread, AcquireLock, ResendAck, Validate, TaskTruncate, TaskWrite, TaskSaveFails, SaveFails, SendResult,
         EndThread, GoTo, TypeOK, storeVars
    <3> QED
      BY <2>1, <3>1, RunningStays, StandingsStay
  <2> QED
    BY <2>2, <2>3, <2>4
<1>2. CASE ConnThread
  <2>1. crashes' = crashes
    BY <1>2 DEF ConnThread, Connect, Authenticate, BeginResend, ResendNext, RecvClosed, ReceiveResultAck,
       ConnTruncate, ConnWrite, ConnSaveFails, SaveFails, ReceiveTask, faultVars
  <2>2. CASE ReceiveResultAck
    BY <2>1, <2>2, LedgerConfirms DEF Ledger!Next
  <2>3. ASSUME NEW t \in Threads, ReceiveTask(t) PROVE Known' = Known
    <3>1. /\ UNCHANGED <<cache, aged>> /\ tpc[t] # "execute" /\ tpc'[t] # "execute"
          /\ \A u \in Threads \ {t} : tpc'[u] = tpc[u] /\ tdis'[u] = tdis[u]
      BY <2>3 DEF ReceiveTask, TypeOK, storeVars
    <3> QED
      BY <3>1, RunningStays, StandingsStay
  <2>4. \/ ReceiveResultAck \/ UNCHANGED <<cache, aged, tpc, tdis>>
        \/ \E t \in Threads : ReceiveTask(t)
    BY <1>2 DEF ConnThread, Connect, Authenticate, BeginResend, ResendNext, RecvClosed, ConnTruncate, ConnWrite, ConnSaveFails, SaveFails,
       threadVars, storeVars
  <2> QED
    BY <2>1, <2>2, <2>3, <2>4, Frame
<1>3. CASE Environment
  <2>1. ASSUME NEW d \in Dispatches, Age(d) PROVE Known' = Known
    <3>1. cache[d].res # 0 /\ aged' = aged \cup {d} /\ UNCHANGED <<cache, tpc, tdis>>
      BY <2>1 DEF Age, Cached, threadVars
    <3>2. \A e \in Dispatches : Known'[e] = Known[e]
      BY <3>1, StandingIs DEF Running
    <3> QED
      BY <3>2 DEF Known
  <2>2. \/ Restart \/ UNCHANGED <<cache, aged, tpc, tdis, crashes>>
        \/ \E d \in Dispatches : Age(d) /\ crashes' = crashes
    BY <1>3 DEF Environment, Dispatch, Expire, Age, Drop, Notice, threadVars, storeVars, faultVars
  <2> QED
    BY <2>1, <2>2, Frame, LedgerRestarts DEF Ledger!Next
<1>4. CASE UNCHANGED vars
  BY <1>4, Frame DEF vars, threadVars, storeVars, faultVars
<1> QED
  BY <1>1, <1>2, <1>3, <1>4 DEF Next

\* The runner keeps the promise of TaskLedger: whatever the connections, the
\* threads and the history file do, each step is one of its steps or none.
THEOREM KeepsLedger == Spec => RefinesLedger
<1>1. Init => Ledger!Init
  BY DEF Init, Ledger!Init, Standing, Cached, NoHistory, NoEntry
<1>2. TypeOK /\ Working /\ OneTaskAtATime /\ Once /\ Unrun /\ Backed /\ [Next]_vars
        => [Ledger!Next]_<<[d \in Dispatches |-> Standing(d)], crashes>>
  BY StepLedger DEF Known
<1>3. TypeOK /\ Working /\ OneTaskAtATime /\ Once /\ Unrun /\ Backed /\ [Next]_vars => (Unrun /\ Backed)'
  BY StepUnrun, StepBacked
<1> QED
  BY <1>1, <1>2, <1>3, InitBacked, InitOnce, StepOnce, TypeCorrect, TaskMutualExclusion, PTL
  DEF Spec, RefinesLedger, Ledger!Spec


-----------------------------------------------------------------------------
(* Pending results after READY: what PendingAtReadyIsConfirmed needs besides *)
(* fairness, and the one way in which a result is left behind.             *)

Served == cpc \notin {"offline", "auth"} /\ link[conn] = "up"

AckComing(d) == \E i \in DOMAIN inbox : inbox[i] = [type |-> "RESULT_ACK", key |-> d]
Answering(d) == \E t \in Threads : tdis[t] = d /\ tpc[t] \in {"save", "flush", "result"}

\* The resend has yet to come to d, or d's confirmation is on its way, or the
\* thread that executed d is about to send its result.
InHand(d) == cpc = "ready" \/ d \in left \/ AckComing(d) \/ Answering(d)

Missed(d) == Served /\ Pending(d) /\ ~InHand(d)

LEMMA AckAppended ==
    ASSUME TypeOK, NEW d, NEW m \in Message, inbox' = Append(inbox, m)
    PROVE  /\ AckComing(d) => AckComing(d)'
           /\ m = [type |-> "RESULT_ACK", key |-> d] => AckComing(d)'
<1>1. Len(inbox) \in Nat /\ DOMAIN inbox = 1..Len(inbox) /\ DOMAIN inbox' = 1..(Len(inbox) + 1)
  BY DEF TypeOK
<1>2. \A i \in DOMAIN inbox : i \in DOMAIN inbox' /\ inbox'[i] = inbox[i]
  BY <1>1 DEF TypeOK
<1>3. Len(inbox) + 1 \in DOMAIN inbox' /\ inbox'[Len(inbox) + 1] = m
  BY <1>1 DEF TypeOK
<1> QED
  BY <1>2, <1>3 DEF AckComing

\* A message is taken that is no confirmation of d.
LEMMA AckRemains ==
    ASSUME TypeOK, NEW d, inbox # <<>>, Head(inbox) # [type |-> "RESULT_ACK", key |-> d],
           inbox' = Tail(inbox), AckComing(d)
    PROVE  AckComing(d)'
<1>1. Len(inbox) \in Nat /\ DOMAIN inbox = 1..Len(inbox) /\ Head(inbox) = inbox[1]
  BY DEF TypeOK
<1>2. PICK i \in DOMAIN inbox : inbox[i] = [type |-> "RESULT_ACK", key |-> d]
  BY DEF AckComing
<1>3. i \in 2..Len(inbox)
  BY <1>1, <1>2
<1>4. DOMAIN inbox' = 1..(Len(inbox) - 1) /\ \A k \in 1..(Len(inbox) - 1) : inbox'[k] = inbox[k + 1]
  BY <1>1, HeadTailProperties DEF TypeOK
<1>5. i - 1 \in DOMAIN inbox' /\ inbox'[i - 1] = inbox[i]
  BY <1>1, <1>3, <1>4
<1> QED
  BY <1>2, <1>5 DEF AckComing

\* The server's answer to a RESULT on the connection being served.
LEMMA AckSent ==
    ASSUME TypeOK, NEW c, NEW e \in Dispatches, NEW r, ServerTakesResult(c, e, r), NEW d
    PROVE  /\ AckComing(d) => AckComing(d)'
           /\ d = e /\ c = conn /\ Served => AckComing(d)'
<1> DEFINE m == [type |-> "RESULT_ACK", key |-> e]
<1>1. m \in Message
  BY DEF Message
<1>2. inbox' = inbox \/ inbox' = Append(inbox, m)
  BY DEF ServerTakesResult, Deliver
<1>3. c = conn /\ Served => inbox' = Append(inbox, m)
  BY DEF ServerTakesResult, Deliver, Served
<1>4. AckComing(d) => AckComing(d)'
  <2>1. CASE inbox' = inbox
    BY <2>1 DEF AckComing
  <2>2. CASE inbox' = Append(inbox, m)
    BY <1>1, <2>2, AckAppended
  <2> QED
    BY <1>2, <2>1, <2>2
<1>5. ASSUME d = e, c = conn, Served PROVE AckComing(d)'
  BY <1>1, <1>3, <1>5, AckAppended
<1> QED
  BY <1>4, <1>5

LEMMA VisitInHand ==
    ASSUME TypeOK, NEW e \in Dispatches, NEW rest, NEW n, Visit(e, rest, n),
           UNCHANGED <<link, conn, threadVars, cache>>, cpc \in {"ready", "resend"},
           NEW d \in Dispatches, d \in rest \cup {e} \/ AckComing(d) \/ Answering(d)
    PROVE  ~Missed(d)'
<1> SUFFICES ASSUME Missed(d)' PROVE FALSE
  OBVIOUS
<1>1. Served /\ Pending(d) /\ cpc' # "offline" /\ ~InHand(d)'
  <2>1. Served' /\ Pending(d)' /\ ~InHand(d)'
    BY DEF Missed
  <2> QED
    BY <2>1 DEF Served, Pending, Cached
<1>2. /\ left' = rest
      /\ IF Pending(e) THEN ServerTakesResult(conn, e, cache[e].res) ELSE UNCHANGED <<got, inbox>>
  BY <1>1 DEF Visit, LeaveConnection
<1>3. AckComing(d) => AckComing(d)'
  <2>1. CASE Pending(e)
    BY <1>2, <2>1, AckSent
  <2>2. CASE ~Pending(e)
    BY <1>2, <2>2 DEF AckComing
  <2> QED
    BY <2>1, <2>2
<1>4. Answering(d) => Answering(d)'
  BY DEF Answering, threadVars
<1>5. d = e => AckComing(d)'
  BY <1>1, <1>2, AckSent
<1> QED
  BY <1>1, <1>2, <1>3, <1>4, <1>5 DEF InHand

\* A step that loses nothing of what keeps d in hand.
LEMMA InHandStays ==
    ASSUME NEW d \in Dispatches, conn' = conn, cpc' # "ready" => cpc # "ready",
           Served' => Served, Served' /\ Pending(d)' => Pending(d),
           d \in left => d \in left', Pending(d)' /\ AckComing(d) => AckComing(d)',
           Answering(d) => Answering(d)', ~Missed(d)
    PROVE  ~Missed(d)'
BY DEF Missed, InHand

LEMMA ConnThreadMisses ==
    ASSUME TypeOK, ConnThread, NEW d \in Dispatches, ~Missed(d) PROVE ~Missed(d)'
<1> SUFFICES ASSUME Missed(d)' PROVE FALSE
  OBVIOUS
<1>0. Served' /\ Pending(d)' /\ ~InHand(d)'
  BY DEF Missed
<1>1. CASE Connect \/ Authenticate \/ RecvClosed
  BY <1>0, <1>1 DEF Connect, Authenticate, RecvClosed, LeaveConnection, Served, InHand
<1>2. CASE BeginResend
  <2>1. Keys(cache) # {}
    BY <1>0, <1>2 DEF BeginResend, storeVars, Keys, Pending, Cached
  <2>2. PICK e \in Keys(cache) : Visit(e, Keys(cache) \ {e}, Cardinality(Keys(cache)))
    BY <1>2, <2>1 DEF BeginResend
  <2>3. d \in (Keys(cache) \ {e}) \cup {e} /\ e \in Dispatches
    BY <1>0, <1>2 DEF BeginResend, storeVars, Keys, Pending, Cached
  <2> QED
    BY <1>2, <2>2, <2>3, VisitInHand DEF BeginResend, storeVars
<1>3. CASE ResendNext
  <2>1. UNCHANGED <<link, conn, threadVars, cache>> /\ cpc = "resend"
    BY <1>3 DEF ResendNext, storeVars
  <2>2. Served /\ Pending(d)
    BY <1>0, <2>1 DEF Served, Pending, Cached
  <2>3. d \in left \/ AckComing(d) \/ Answering(d)
    BY <2>1, <2>2 DEF Missed, InHand
  <2>4. CASE StartReceiving /\ left = {}
    BY <1>0, <2>1, <2>3, <2>4 DEF StartReceiving, InHand, AckComing, Answering, threadVars
  <2>5. ASSUME NEW e \in left, Visit(e, left \ {e}, size) PROVE FALSE
    <3>1. e \in Dispatches /\ (d \in (left \ {e}) \cup {e} \/ AckComing(d) \/ Answering(d))
      BY <2>3 DEF TypeOK
    <3> QED
      BY <2>1, <2>5, <3>1, VisitInHand
  <2>6. cpc' # "offline"
    BY <1>0 DEF Served
  <2> QED
    BY <1>3, <2>4, <2>5, <2>6 DEF ResendNext, LeaveConnection
<1>4. ASSUME NEW t \in Threads, ReceiveTask(t) PROVE FALSE
  <2>1. /\ cpc = "recv" /\ inbox # <<>> /\ Head(inbox).type = "TASK" /\ inbox' = Tail(inbox)
        /\ UNCHANGED <<link, conn, cpc, left, cache>>
    BY <1>4 DEF ReceiveTask, connVars, storeVars
  <2>2. AckComing(d) => AckComing(d)'
    <3>1. Head(inbox) # [type |-> "RESULT_ACK", key |-> d]
      BY <2>1
    <3> QED
      BY <2>1, <3>1, AckRemains
  <2>3. Answering(d) => Answering(d)'
    BY <1>4 DEF ReceiveTask, Answering, TypeOK
  <2>4. (Served' <=> Served) /\ (Pending(d)' <=> Pending(d))
    BY <2>1 DEF Served, Pending, Cached
  <2> QED
    BY <2>1, <2>2, <2>3, <2>4, InHandStays
<1>5. CASE ReceiveResultAck
  <2>1. /\ cpc = "recv" /\ cpc' \in {"recv", "save"} /\ inbox # <<>> /\ inbox' = Tail(inbox)
        /\ Head(inbox).type = "RESULT_ACK" /\ UNCHANGED <<link, conn, left, threadVars>>
    BY <1>5 DEF ReceiveResultAck
  <2> DEFINE e == Head(inbox).key
  <2>2. (cache' = cache /\ ~Cached(e)) \/ cache' = Prune([cache EXCEPT ![e].acked = TRUE])
    BY <1>5 DEF ReceiveResultAck
  <2>3. Pending(d) /\ d # e
    <3> HIDE DEF e
    <3>1. cache[d] \in Entry /\ cache'[d].res # 0 /\ ~cache'[d].acked
      BY <1>0 DEF TypeOK, History, Pending, Cached
    <3>2. CASE cache' = cache /\ ~Cached(e)
      BY <3>1, <3>2 DEF Pending, Cached
    <3>3. CASE cache' = Prune([cache EXCEPT ![e].acked = TRUE])
      <4> DEFINE h == [cache EXCEPT ![e].acked = TRUE]
      <4>1. cache'[d] = h[d]
        BY <3>1, <3>3 DEF Prune, NoEntry
      <4>2. d # e
        BY <3>1, <4>1 DEF TypeOK, History, Entry
      <4>3. h[d] = cache[d]
        BY <4>2 DEF TypeOK, History
      <4> QED
        BY <3>1, <4>1, <4>2, <4>3 DEF Pending, Cached
    <3> QED
      BY <2>2, <3>2, <3>3
  <2>4. AckComing(d) => AckComing(d)'
    <3>1. Head(inbox) # [type |-> "RESULT_ACK", key |-> d]
      BY <2>3
    <3> QED
      BY <2>1, <3>1, AckRemains
  <2>5. (Served' => Served) /\ (Answering(d) => Answering(d)')
    BY <2>1 DEF Served, Answering, threadVars
  <2> QED
    BY <2>1, <2>3, <2>4, <2>5, InHandStays
<1>6. CASE ConnTruncate \/ ConnWrite
  <2>1. /\ cpc \in {"save", "flush"} /\ cpc' \in {"flush", "recv"}
        /\ UNCHANGED <<link, conn, inbox, left, threadVars, cache>>
    BY <1>6 DEF ConnTruncate, ConnWrite, netVars
  <2>2. /\ Served' => Served
        /\ Pending(d)' => Pending(d)
        /\ AckComing(d) => AckComing(d)'
        /\ Answering(d) => Answering(d)'
    BY <2>1 DEF Served, Pending, Cached, AckComing, Answering, threadVars
  <2> QED
    BY <2>1, <2>2, InHandStays
<1>7. CASE ConnSaveFails
  BY <1>0, <1>7 DEF ConnSaveFails, LeaveConnection, Served
<1> QED
  BY <1>1, <1>2, <1>3, <1>4, <1>5, <1>6, <1>7 DEF ConnThread

LEMMA TaskThreadMisses ==
    ASSUME TypeOK, Working, NEW t \in Threads, TaskThread(t), NEW d \in Dispatches, ~Missed(d), Missed(d)'
    PROVE  tdis[t] = d /\ (TaskSaveFails(t) \/ (SendResult(t) /\ tsock[t] # conn))
<1>0. Served' /\ Pending(d)' /\ ~InHand(d)'
  BY DEF Missed
<1>1. UNCHANGED <<link, conn, cpc, left>>
  BY DEF TaskThread, AcquireLock, ResendAck, Validate, BeginExecution, FinishExecution, TaskTruncate,
     TaskWrite, TaskSaveFails, SaveFails, SendResult, netVars, connVars
<1>2. Served
  BY <1>0, <1>1 DEF Served
<1>3. CASE AcquireLock(t) \/ ResendAck(t) \/ Validate(t) \/ BeginExecution(t) \/ TaskTruncate(t) \/ TaskWrite(t)
  <2>1. UNCHANGED <<inbox, cache>>
    BY <1>3 DEF AcquireLock, ResendAck, Validate, BeginExecution, TaskTruncate, TaskWrite, netVars, storeVars
  <2>2. Answering(d) => Answering(d)'
    BY <1>3 DEF AcquireLock, ResendAck, Validate, BeginExecution, TaskTruncate, TaskWrite,
       GoTo, EndThread, Answering, TypeOK
  <2>3. (Pending(d)' => Pending(d)) /\ (AckComing(d) => AckComing(d)')
    BY <2>1 DEF Pending, Cached, AckComing
  <2> QED
    BY <1>1, <1>2, <2>2, <2>3, InHandStays
<1>4. CASE FinishExecution(t)
  <2>1. /\ inbox' = inbox /\ tpc[t] = "execute" /\ GoTo(t, "save")
        /\ cache' = Prune([cache EXCEPT ![tdis[t]] = [res |-> execs[tdis[t]], acked |-> FALSE]])
    BY <1>4 DEF FinishExecution, netVars
  <2>2. tdis[t] # d
    <3>1. tdis'[t] = tdis[t] /\ tpc'[t] = "save"
      BY <2>1 DEF GoTo, TypeOK
    <3> QED
      BY <1>0, <3>1 DEF InHand, Answering
  <2>3. Pending(d)
    BY <1>0, <2>1, <2>2 DEF Pending, Cached, Prune, NoEntry, TypeOK, History
  <2>4. (AckComing(d) => AckComing(d)') /\ (Answering(d) => Answering(d)')
    BY <2>1, <2>2 DEF AckComing, Answering, GoTo, TypeOK
  <2> QED
    BY <1>1, <1>2, <2>3, <2>4, InHandStays
<1>5. CASE SendResult(t)
  <2>1. /\ tpc[t] = "result" /\ EndThread(t) /\ cache' = cache
        /\ ServerTakesResult(tsock[t], tdis[t], cache[tdis[t]].res)
    BY <1>5 DEF SendResult, storeVars
  <2>2. tdis[t] \in Dispatches
    BY <2>1 DEF Working
  <2>3. AckComing(d) => AckComing(d)'
    BY <2>1, <2>2, AckSent
  <2>4. Pending(d)' => Pending(d)
    BY <2>1 DEF Pending, Cached
  <2>5. CASE tdis[t] # d
    <3>1. Answering(d) => Answering(d)'
      BY <2>1, <2>5 DEF EndThread, Answering, TypeOK
    <3> QED
      BY <1>1, <1>2, <2>3, <2>4, <3>1, InHandStays
  <2>6. CASE tdis[t] = d /\ tsock[t] = conn
    BY <1>0, <1>2, <2>1, <2>2, <2>6, AckSent DEF InHand
  <2> QED
    BY <1>5, <2>5, <2>6
<1>6. CASE TaskSaveFails(t)
  <2>1. EndThread(t) /\ UNCHANGED <<inbox, cache>>
    BY <1>6 DEF TaskSaveFails, SaveFails, netVars
  <2>2. (Pending(d)' => Pending(d)) /\ (AckComing(d) => AckComing(d)')
    BY <2>1 DEF Pending, Cached, AckComing
  <2>3. CASE tdis[t] # d
    <3>1. Answering(d) => Answering(d)'
      BY <2>1, <2>3 DEF EndThread, Answering, TypeOK
    <3> QED
      BY <1>1, <1>2, <2>2, <3>1, InHandStays
  <2> QED
    BY <1>6, <2>3
<1> QED
  BY <1>3, <1>4, <1>5, <1>6 DEF TaskThread

LEMMA EnvironmentMisses ==
    ASSUME TypeOK, Environment, NEW d \in Dispatches, ~Missed(d) PROVE ~Missed(d)'
<1> SUFFICES ASSUME Missed(d)' PROVE FALSE
  OBVIOUS
<1>0. Served' /\ Pending(d)' /\ ~InHand(d)'
  BY DEF Missed
<1>1. ASSUME NEW e \in Dispatches, Dispatch(e) PROVE FALSE
  <2>1. /\ inbox' = Append(inbox, [type |-> "TASK", key |-> e])
        /\ UNCHANGED <<link, conn, cpc, left, threadVars, cache>>
    BY <1>1 DEF Dispatch, connVars, storeVars
  <2>2. [type |-> "TASK", key |-> e] \in Message
    BY DEF Message
  <2>3. AckComing(d) => AckComing(d)'
    BY <2>1, <2>2, AckAppended
  <2>4. (Served' => Served) /\ (Pending(d)' => Pending(d)) /\ (Answering(d) => Answering(d)')
    BY <2>1 DEF Served, Pending, Cached, Answering, threadVars
  <2> QED
    BY <2>1, <2>3, <2>4, InHandStays
<1>2. ASSUME NEW e \in Dispatches, Expire(e) \/ Age(e) PROVE FALSE
  <2>1. UNCHANGED <<link, conn, inbox, cpc, left, threadVars, cache>>
    BY <1>2 DEF Expire, Age, netVars, connVars, storeVars
  <2>2. (Served' => Served) /\ (Pending(d)' => Pending(d)) /\ (Answering(d) => Answering(d)')
    BY <2>1 DEF Served, Pending, Cached, Answering, threadVars
  <2>3. AckComing(d) => AckComing(d)'
    BY <2>1 DEF AckComing
  <2> QED
    BY <2>1, <2>2, <2>3, InHandStays
<1>3. ASSUME NEW c \in Conns, Drop(c) \/ Notice(c) PROVE FALSE
  <2>1. /\ UNCHANGED <<conn, cpc, left, threadVars, cache>>
        /\ \E x \in {"dead", "closed"} : link' = [link EXCEPT ![c] = x]
    BY <1>3 DEF Drop, Notice, connVars, storeVars
  <2>2. conn # c /\ link'[conn] = link[conn]
    BY <1>0, <2>1 DEF Served, TypeOK
  <2>3. inbox' = inbox
    BY <1>3, <2>2 DEF Drop, Notice
  <2>4. (Served' => Served) /\ (Pending(d)' => Pending(d)) /\ (Answering(d) => Answering(d)')
    BY <2>1, <2>2 DEF Served, Pending, Cached, Answering, threadVars
  <2>5. AckComing(d) => AckComing(d)'
    BY <2>3 DEF AckComing
  <2> QED
    BY <2>1, <2>4, <2>5, InHandStays
<1>4. CASE Restart
  BY <1>0, <1>4 DEF Restart, Served
<1> QED
  BY <1>1, <1>2, <1>3, <1>4 DEF Environment

\* As long as a connection lasts, every result that is pending after READY is
\* resent on it, confirmed, or about to be sent by its own thread, but for two
\* cases: the thread sends it on the socket of an older connection when the resend
\* has passed, or its save of the history raises, which ends the thread.  No iteration, repetition, confirmation or other dispatch makes it
\* wait for the next connection (_resend_unacked_results and _handle_task,
\* agent.py 463-466, 490-496, 591-602).
OnlyLateMissed ==
    [][ \A d \in Dispatches :
          ~Missed(d) /\ Missed(d)' =>
            \E t \in Threads : tdis[t] = d /\ (TaskSaveFails(t) \/ (SendResult(t) /\ tsock[t] # conn)) ]_vars

THEOREM OnlyLateResultsAreMissed == Spec => OnlyLateMissed
<1> DEFINE Late ==
      \A d \in Dispatches :
        ~Missed(d) /\ Missed(d)' =>
          \E t \in Threads : tdis[t] = d /\ (TaskSaveFails(t) \/ (SendResult(t) /\ tsock[t] # conn))
<1>1. ASSUME TypeOK, Working, [Next]_vars, NEW d \in Dispatches, ~Missed(d), Missed(d)'
      PROVE  \E t \in Threads : tdis[t] = d /\ (TaskSaveFails(t) \/ (SendResult(t) /\ tsock[t] # conn))
  <2>1. CASE UNCHANGED vars
    BY <1>1, <2>1 DEF vars, netVars, connVars, threadVars, storeVars, Missed, Served, InHand, Pending, Cached,
       AckComing, Answering
  <2> QED
    BY <1>1, <2>1, ConnThreadMisses, TaskThreadMisses, EnvironmentMisses DEF Next
<1>2. TypeOK /\ Working /\ [Next]_vars => [Late]_vars
  BY <1>1
<1> QED
  BY <1>2, TypeCorrect, PTL DEF Spec, OnlyLateMissed

\* As long as nothing has failed, the first connection serves for ever, and there
\* was nothing to resend on it.
Unbroken ==
    drops = 0 /\ crashes = 0 /\ unsaved = 0 =>
        /\ left = {} /\ (conn = 0 => cpc = "offline")
        /\ conn # 0 => conn = 1 /\ link[1] = "up" /\ cpc \notin {"offline", "resend"}
        /\ cpc \in {"offline", "auth", "ready"} => Keys(cache) = {} /\ \A t \in Threads : tpc[t] = "free"
        /\ \A t \in Threads : tpc[t] # "free" => tsock[t] = conn

\* Without a lost connection, a restart and a save that raises no result is ever missed: a pending one
\* is about to be sent by its thread, or its RESULT_ACK is on its way.  The thread
\* that serves the connection never gives it up, and no save, repetition or other
\* task comes in between (_connect_once and _handle_task, agent.py 367-394, 541-602).
NothingMissed ==
    drops = 0 /\ crashes = 0 /\ unsaved = 0 =>
        \A d \in Dispatches : Pending(d) => AckComing(d) \/ Answering(d)

LEMMA NoFaultBefore ==
    ASSUME TypeOK, [Next]_vars, drops' = 0, crashes' = 0, unsaved' = 0
    PROVE  /\ drops = 0 /\ crashes = 0 /\ unsaved = 0 /\ ~Restart /\ \A c \in Conns : ~Drop(c)
           /\ ~ConnSaveFails /\ \A t \in Threads : ~TaskSaveFails(t)
<1>1. drops \in Nat /\ crashes \in Nat /\ unsaved \in Nat
  BY DEF TypeOK
<1>2. /\ drops' = drops \/ drops' = drops + 1
      /\ crashes' = crashes \/ crashes' = crashes + 1
      /\ unsaved' = unsaved \/ unsaved' = unsaved + 1
  BY DEF Next, ConnThread, TaskThread, Environment, Connect, Authenticate, BeginResend, ResendNext, RecvClosed,
     ReceiveResultAck, ConnTruncate, ConnWrite, ConnSaveFails, SaveFails, ReceiveTask, AcquireLock, ResendAck, Validate, BeginExecution,
     FinishExecution, TaskTruncate, TaskWrite, TaskSaveFails, SaveFails, SendResult, Dispatch, Expire, Age, Drop, Notice, Restart,
     faultVars, vars
<1> QED
  BY <1>1, <1>2 DEF Drop, Restart, ConnSaveFails, TaskSaveFails, SaveFails

LEMMA StepUnbroken ==
    ASSUME TypeOK, Working, Unbroken, [Next]_vars PROVE Unbroken'
<1> SUFFICES ASSUME drops' = 0, crashes' = 0, unsaved' = 0
             PROVE  /\ left' = {} /\ (conn' = 0 => cpc' = "offline")
                    /\ conn' # 0 => conn' = 1 /\ link'[1] = "up" /\ cpc' \notin {"offline", "resend"}
                    /\ cpc' \in {"offline", "auth", "ready"} => Keys(cache)' = {} /\ \A t \in Threads : tpc'[t] = "free"
                    /\ \A t \in Threads : tpc'[t] # "free" => tsock'[t] = conn'
  BY DEF Unbroken
<1>1. /\ left = {} /\ (conn = 0 => cpc = "offline")
      /\ conn # 0 => conn = 1 /\ link[1] = "up" /\ cpc \notin {"offline", "resend"}
      /\ cpc \in {"offline", "auth", "ready"} => Keys(cache) = {} /\ \A t \in Threads : tpc[t] = "free"
      /\ \A t \in Threads : tpc[t] # "free" => tsock[t] = conn
      /\ ~Restart /\ (\A c \in Conns : ~Drop(c)) /\ ~ConnSaveFails
  BY NoFaultBefore DEF Unbroken
<1>2. cache' = cache => Keys(cache)' = Keys(cache)
  BY DEF Keys
<1>3. CASE Connect
  <2>1. conn = 0 /\ conn' = 1 /\ 1 \in Conns /\ cpc' = "auth" /\ UNCHANGED <<left, cache, tpc, tsock>>
    BY <1>1, <1>3, DeliveryAssumption DEF Connect, Conns, DeliveryAssumption, storeVars, threadVars, TypeOK
  <2>2. link'[1] = "up"
    BY <1>3, <2>1 DEF Connect, TypeOK
  <2> QED
    BY <1>1, <1>2, <2>1, <2>2
<1>4. CASE Authenticate \/ RecvClosed
  <2>1. conn = 1 /\ link[1] = "up" /\ cpc \in {"auth", "recv"}
    BY <1>1, <1>4 DEF Authenticate, RecvClosed
  <2>2. cpc = "auth" /\ cpc' = "ready" /\ UNCHANGED <<link, conn, left, cache, tpc, tsock>>
    BY <1>4, <2>1 DEF Authenticate, RecvClosed, threadVars, storeVars
  <2> QED
    BY <1>1, <1>2, <2>1, <2>2
<1>5. CASE BeginResend \/ ResendNext
  <2>1. cpc = "ready" /\ BeginResend /\ Keys(cache) = {} /\ conn = 1
    BY <1>1, <1>5 DEF BeginResend, ResendNext
  <2>2. cpc' = "recv" /\ left' = {} /\ UNCHANGED <<link, conn, tpc, tsock>>
    BY <2>1 DEF BeginResend, StartReceiving, threadVars
  <2> QED
    BY <1>1, <2>1, <2>2
<1>6. CASE ReceiveResultAck \/ ConnTruncate \/ ConnWrite
  <2>1. /\ cpc \in {"recv", "save", "flush"} /\ cpc' \in {"recv", "save", "flush"}
        /\ UNCHANGED <<link, conn, left, tpc, tsock>>
    BY <1>6 DEF ReceiveResultAck, ConnTruncate, ConnWrite, netVars, threadVars
  <2> QED
    BY <1>1, <2>1
<1>7. ASSUME NEW t \in Threads, ReceiveTask(t)
      PROVE  /\ cpc' = "recv" /\ UNCHANGED <<link, conn, left>> /\ cpc = "recv"
             /\ \A u \in Threads : tpc'[u] # "free" => tsock'[u] = conn
  BY <1>1, <1>7 DEF ReceiveTask, connVars, TypeOK
<1>8. ASSUME NEW t \in Threads, TaskThread(t)
      PROVE  /\ UNCHANGED <<link, conn, left, cpc>> /\ tpc[t] # "free"
             /\ \A u \in Threads : tpc'[u] # "free" => tsock'[u] = conn
  <2>1. UNCHANGED <<link, conn, left, cpc>> /\ tpc[t] # "free"
    BY <1>8 DEF TaskThread, AcquireLock, ResendAck, Validate, BeginExecution, FinishExecution, TaskTruncate,
       TaskWrite, TaskSaveFails, SaveFails, SendResult, netVars, connVars
  <2>2. EndThread(t) \/ \E pc : tpc' = [tpc EXCEPT ![t] = pc] /\ tsock' = tsock
    BY <1>8 DEF TaskThread, AcquireLock, ResendAck, Validate, BeginExecution, FinishExecution, TaskTruncate,
       TaskWrite, TaskSaveFails, SaveFails, SendResult, GoTo
  <2> QED
    BY <1>1, <2>1, <2>2 DEF EndThread, TypeOK
<1>9. ASSUME NEW d \in Dispatches, Dispatch(d) \/ Expire(d) \/ Age(d)
      PROVE  UNCHANGED <<link, conn, left, cpc, cache, tpc, tsock>>
  BY <1>9 DEF Dispatch, Expire, Age, netVars, connVars, storeVars, threadVars
<1>10. ASSUME NEW c \in Conns, Notice(c)
       PROVE  UNCHANGED <<conn, left, cpc, cache, tpc, tsock>> /\ (link[1] = "up" => link'[1] = "up")
  BY <1>10 DEF Notice, connVars, storeVars, threadVars, TypeOK
<1>11. CASE UNCHANGED vars
  BY <1>1, <1>2, <1>11 DEF vars, netVars, connVars, storeVars, threadVars
<1>12. CASE ConnThread
  BY <1>1, <1>3, <1>4, <1>5, <1>6, <1>7, <1>12 DEF ConnThread
<1>13. CASE \E t \in Threads : TaskThread(t)
  BY <1>1, <1>8, <1>13
<1>14. CASE Environment
  BY <1>1, <1>2, <1>9, <1>10, <1>14 DEF Environment
<1> QED
  BY <1>11, <1>12, <1>13, <1>14 DEF Next

\* No result is missed while nothing fails (agent.py 367-394, 541-602).
THEOREM NothingMissedWithoutFaults == Spec => []NothingMissed
<1> DEFINE NoneMissed == drops = 0 /\ crashes = 0 /\ unsaved = 0 => \A d \in Dispatches : ~Missed(d)
<1>1. Init => Unbroken /\ NoneMissed
  BY DEF Init, Unbroken, Keys, NoHistory, NoEntry, Missed, Pending, Cached
<1>2. ASSUME TypeOK, Working, Unbroken, NoneMissed, [Next]_vars PROVE NoneMissed'
  <2> SUFFICES ASSUME drops' = 0, crashes' = 0, unsaved' = 0, NEW d \in Dispatches, Missed(d)' PROVE FALSE
    OBVIOUS
  <2>1. drops = 0 /\ crashes = 0 /\ unsaved = 0 /\ ~Missed(d) /\ \A t \in Threads : ~TaskSaveFails(t)
    BY <1>2, NoFaultBefore
  <2>2. CASE UNCHANGED vars
    BY <2>1, <2>2 DEF vars, netVars, connVars, threadVars, storeVars, Missed, Served, InHand, Pending, Cached,
       AckComing, Answering
  <2>3. PICK t \in Threads : SendResult(t) /\ tsock[t] # conn
    BY <1>2, <2>1, <2>2, ConnThreadMisses, TaskThreadMisses, EnvironmentMisses DEF Next
  <2> QED
    BY <1>2, <2>1, <2>3 DEF SendResult, Unbroken
<1>3. TypeOK /\ Unbroken /\ NoneMissed => NothingMissed
  <2> SUFFICES ASSUME TypeOK, Unbroken, NoneMissed, drops = 0, crashes = 0, unsaved = 0, NEW d \in Dispatches, Pending(d)
               PROVE  AckComing(d) \/ Answering(d)
    BY DEF NothingMissed
  <2>1. d \in Keys(cache)
    BY DEF Keys, Pending, Cached
  <2>2. cpc \notin {"offline", "auth", "ready"} /\ link[conn] = "up" /\ left = {}
    BY <2>1 DEF Unbroken
  <2> QED
    BY <2>2 DEF Missed, Served, InHand
<1>4. TypeOK /\ Working /\ Unbroken /\ NoneMissed /\ [Next]_vars => (Unbroken /\ NoneMissed)'
  BY <1>2, StepUnbroken
<1> QED
  BY <1>1, <1>3, <1>4, TypeCorrect, PTL DEF Spec
=============================================================================
