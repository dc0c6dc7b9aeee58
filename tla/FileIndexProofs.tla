-------------------------- MODULE FileIndexProofs ---------------------------
(***************************************************************************)
(* Proofs about FileIndex for any folders, files and tracked objects, any  *)
(* number of saves of the list and of changes on the disk.                 *)
(***************************************************************************)
EXTENDS FileIndex, TLAPS, SequenceTheorems

-----------------------------------------------------------------------------
(* Which thread refers to which object. *)

Anchored ==
    /\ \A f \in Folders : folders[f] # 0 => owner[folders[f]] = f
    /\ \A w \in Objects : w <= made <=> owner[w] \in Folders
    /\ \A w \in Objects : watch[w] # "none" => w <= made
    /\ \A w \in Objects : ~Live(w) => queue[w] = <<>> /\ busy[w] = None
    /\ \A s \in Syncs :
        LET t == sync[s] IN
        /\ t.pc \in {"enter", "list", "scan", "insert", "publish"} => t.folder \in Folders
        /\ t.pc \in {"list", "scan", "insert", "publish"} => t.obj # 0 /\ owner[t.obj] = t.folder
        /\ t.pc = "join" => t.obj # 0 /\ owner[t.obj] \in Folders
        /\ t.pc = "insert" => t.file \in Files

Typed == TypeOK /\ Anchored

Thread == [pc : SyncPc, todo : SUBSET Folders, drop : SUBSET Folders,
           folder : Folders \cup {None}, obj : 0..MaxTracked,
           scan : SUBSET Files, file : Files \cup {None}]

LEMMA Numbers == /\ \A w \in Objects : w \in Nat /\ w # 0 /\ w \in 0..MaxTracked
                 /\ \A w \in 0..MaxTracked : w # 0 => w \in Objects
                 /\ 0 \in 0..MaxTracked
BY IndexAssumption DEF IndexAssumption, Objects

LEMMA IdleThread == Idle \in Thread
BY Numbers DEF Idle, Thread, SyncPc

LEMMA DoneThread == ASSUME NEW t \in Thread PROVE Done(t) \in Thread
BY Numbers DEF Done, Thread, SyncPc

LEMMA EventParts ==
    ASSUME NEW e \in Event PROVE e.file \in Files /\ (e.kind = "moved" => e.to \in Files)
BY DEF Event

\* What join() leaves undone are files.
LEMMA UndoneFiles == ASSUME NEW w, queue[w] \in Seq(Event) PROVE Undone(w) \subseteq Files
<1>1. \A i \in DOMAIN queue[w] : queue[w][i] \in Event
  OBVIOUS
<1> QED
  BY <1>1, EventParts DEF Undone

LEMMA InitTyped == Init => Typed
<1> SUFFICES ASSUME Init PROVE TypeOK /\ Anchored
  BY DEF Typed
<1>1. sync \in [Syncs -> Thread]
  BY IdleThread DEF Init
<1>2. <<>> \in Seq(Event)
  OBVIOUS
<1>3. TypeOK
  BY <1>1, <1>2, Numbers DEF Init, TypeOK, Thread
<1>4. Anchored
  BY IndexAssumption, Numbers DEF Init, Anchored, Idle, Live, IndexAssumption
<1> QED
  BY <1>3, <1>4

\* A step of thread s on its own record.
LEMMA ThreadSteps ==
    ASSUME TypeOK, NEW s \in Syncs, NEW t \in Thread, sync' = [sync EXCEPT ![s] = t]
    PROVE  sync' \in [Syncs -> Thread] /\ sync'[s] = t /\ \A u \in Syncs : u # s => sync'[u] = sync[u]
BY DEF TypeOK, Thread

-----------------------------------------------------------------------------
(* Type correctness, one lemma per actor *)

\* The start gives its thread nothing to do before it starts it, and on a root
\* that has gone there is nothing.
Grounded ==
    /\ main # "up" => sync["boot"].pc = "idle"
    /\ \A f \in Folders : ~there[f] => files[f] = {}

\* A thread is set going where it is at rest.
LEMMA DriverThread ==
    ASSUME Typed, Grounded, LoadList \/ StartAgent \/ RefreshSees \/ RefreshLoads
    PROVE  \E s \in Syncs, t \in Thread :
              /\ sync' = [sync EXCEPT ![s] = t]
              /\ t.pc = sync[s].pc \/ (sync[s].pc \in {"idle", "load"} /\ t.pc \in {"load", "compare"})
              /\ t.obj = sync[s].obj /\ t.folder = sync[s].folder /\ t.file = sync[s].file /\ t.scan = sync[s].scan
<1>1. "boot" \in Syncs /\ "tray" \in Syncs /\ \A s \in Syncs : sync[s] \in Thread
  BY DEF Typed, TypeOK, Thread, Syncs
<1>2. CASE LoadList
  <2> DEFINE t == [sync["boot"] EXCEPT !.todo = list]
  <2>1. /\ t \in Thread /\ t.obj = sync["boot"].obj /\ t.folder = sync["boot"].folder
        /\ t.file = sync["boot"].file /\ t.scan = sync["boot"].scan
    BY <1>1, <1>2 DEF Thread, SyncPc, Typed, TypeOK
  <2>2. t.pc = sync["boot"].pc
    BY <1>1, <1>2 DEF Thread, Grounded, LoadList
  <2>3. sync' = [sync EXCEPT !["boot"] = t]
    BY <1>2 DEF LoadList
  <2> QED
    BY <1>1, <2>1, <2>2, <2>3
<1>3. CASE StartAgent
  <2> DEFINE t == [sync["boot"] EXCEPT !.pc = "compare"]
  <2>1. /\ t \in Thread /\ t.obj = sync["boot"].obj /\ t.folder = sync["boot"].folder
        /\ t.file = sync["boot"].file /\ t.scan = sync["boot"].scan
    BY <1>1, <1>3 DEF Thread, SyncPc, Typed, TypeOK
  <2>2. sync["boot"].pc = "idle" /\ t.pc = "compare"
    BY <1>1, <1>3 DEF Thread, Grounded, StartAgent
  <2>3. sync' = [sync EXCEPT !["boot"] = t]
    BY <1>3 DEF StartAgent
  <2> QED
    BY <1>1, <2>1, <2>2, <2>3
<1>4. CASE RefreshSees
  <2> DEFINE t == [sync["tray"] EXCEPT !.pc = "load"]
  <2>1. /\ t \in Thread /\ t.obj = sync["tray"].obj /\ t.folder = sync["tray"].folder
        /\ t.file = sync["tray"].file /\ t.scan = sync["tray"].scan
    BY <1>1, <1>4 DEF Thread, SyncPc, Typed, TypeOK
  <2>2. sync["tray"].pc = "idle" /\ t.pc = "load"
    BY <1>1, <1>4 DEF Thread, Grounded, RefreshSees
  <2>3. sync' = [sync EXCEPT !["tray"] = t]
    BY <1>4 DEF RefreshSees
  <2> QED
    BY <1>1, <2>1, <2>2, <2>3
<1>5. CASE RefreshLoads
  <2> DEFINE t == [sync["tray"] EXCEPT !.pc = "compare", !.todo = list]
  <2>1. /\ t \in Thread /\ t.obj = sync["tray"].obj /\ t.folder = sync["tray"].folder
        /\ t.file = sync["tray"].file /\ t.scan = sync["tray"].scan
    BY <1>1, <1>5 DEF Thread, SyncPc, Typed, TypeOK
  <2>2. sync["tray"].pc = "load" /\ t.pc = "compare"
    BY <1>1, <1>5 DEF Thread, Grounded, RefreshLoads
  <2>3. sync' = [sync EXCEPT !["tray"] = t]
    BY <1>5 DEF RefreshLoads
  <2> QED
    BY <1>1, <2>1, <2>2, <2>3
<1> QED
  BY <1>2, <1>3, <1>4, <1>5

LEMMA DriverTyped ==
    ASSUME Typed, Grounded, LoadList \/ StartAgent \/ RefreshSees \/ RefreshLoads PROVE Typed'
<1> USE DEF Typed
<1>1. UNCHANGED <<listVars, objectVars, watchVars, rows, diskVars>>
  BY DEF LoadList, StartAgent, RefreshSees, RefreshLoads
<1>2. mtime' \in Nat /\ main' \in {"load", "stat", "up"} /\ failed' \in SUBSET Objects
  BY DEF LoadList, StartAgent, RefreshSees, RefreshLoads, TypeOK, driverVars
<1>3. \E s \in Syncs, t \in Thread :
          /\ sync' = [sync EXCEPT ![s] = t]
          /\ t.pc = sync[s].pc \/ t.pc \in {"load", "compare"}
          /\ t.obj = sync[s].obj /\ t.folder = sync[s].folder /\ t.file = sync[s].file
  BY DriverThread
<1>4. TypeOK'
  BY <1>1, <1>2, <1>3, ThreadSteps DEF TypeOK, Thread, listVars, objectVars, watchVars, diskVars
<1>5. Anchored'
  <2>1. UNCHANGED <<folders, owner, made, watch, queue, busy>>
    BY <1>1 DEF objectVars, watchVars
  <2> QED
    BY <1>3, <2>1, ThreadSteps DEF Anchored, Live
<1> QED
  BY <1>4, <1>5

-----------------------------------------------------------------------------
(* What each step of sync_folders does to its thread's record *)

Moves(s) == sync' \in [Syncs -> Thread] /\ \A u \in Syncs : u # s => sync'[u] = sync[u]

LEMMA CompareThread ==
    ASSUME TypeOK, NEW s \in Syncs, Compare(s)
    PROVE  Moves(s) /\ sync'[s].pc = "drop"
<1> DEFINE t == [sync[s] EXCEPT !.pc = "drop", !.drop = Tracked \ sync[s].todo]
<1>1. t \in Thread /\ t.pc = "drop"
  BY DEF TypeOK, Thread, SyncPc, Tracked
<1>2. sync' = [sync EXCEPT ![s] = t]
  BY DEF Compare
<1> QED
  BY <1>1, <1>2, ThreadSteps DEF Moves

\* A folder that is taken out hands its object over to the thread.
LEMMA PopThread ==
    ASSUME TypeOK, NEW s \in Syncs, PopFolder(s)
    PROVE  /\ Moves(s) /\ sync[s].pc = "drop"
           /\ \/ sync'[s].pc = "next" /\ UNCHANGED objectVars
              \/ \E f \in Folders :
                    /\ folders' = [folders EXCEPT ![f] = 0] /\ UNCHANGED <<made, owner, status>>
                    /\ \/ sync'[s].pc = "drop"
                       \/ sync'[s].pc = "join" /\ folders[f] # 0 /\ sync'[s].obj = folders[f]
<1>1. sync[s] \in Thread /\ sync[s].pc = "drop"
  BY DEF TypeOK, Thread, PopFolder
<1>2. CASE sync[s].drop = {}
  <2> DEFINE t == [sync[s] EXCEPT !.pc = "next"]
  <2>1. t \in Thread /\ t.pc = "next"
    BY <1>1 DEF Thread, SyncPc
  <2>2. sync' = [sync EXCEPT ![s] = t] /\ UNCHANGED objectVars
    BY <1>2 DEF PopFolder
  <2> QED
    BY <1>1, <2>1, <2>2, ThreadSteps DEF Moves
<1>3. CASE sync[s].drop # {}
  <2>1. PICK f \in sync[s].drop :
          LET w == folders[f] IN
          /\ folders' = [folders EXCEPT ![f] = 0]
          /\ sync' = [sync EXCEPT ![s].drop = @ \ {f},
                                  ![s].pc = IF w # 0 /\ watch[w] = "set" THEN "join" ELSE "drop",
                                  ![s].obj = IF w # 0 /\ watch[w] = "set" THEN w ELSE 0]
          /\ UNCHANGED <<made, owner, status>>
    BY <1>3 DEF PopFolder
  <2>2. f \in Folders
    BY <1>1, <2>1 DEF Thread
  <2>3. CASE folders[f] # 0 /\ watch[folders[f]] = "set"
    <3> DEFINE t == [sync[s] EXCEPT !.drop = @ \ {f}, !.pc = "join", !.obj = folders[f]]
    <3>1. t \in Thread /\ t.pc = "join" /\ t.obj = folders[f]
      BY <1>1, <2>2 DEF TypeOK, Thread, SyncPc
    <3>2. sync' = [sync EXCEPT ![s] = t]
      BY <2>1, <2>3
    <3> QED
      BY <1>1, <2>1, <2>2, <2>3, <3>1, <3>2, ThreadSteps DEF Moves
  <2>4. CASE ~(folders[f] # 0 /\ watch[folders[f]] = "set")
    <3> DEFINE t == [sync[s] EXCEPT !.drop = @ \ {f}, !.pc = "drop", !.obj = 0]
    <3>1. t \in Thread /\ t.pc = "drop"
      BY <1>1, Numbers DEF Thread, SyncPc
    <3>2. sync' = [sync EXCEPT ![s] = t]
      BY <2>1, <2>4
    <3> QED
      BY <1>1, <2>1, <2>2, <3>1, <3>2, ThreadSteps DEF Moves
  <2> QED
    BY <2>3, <2>4
<1> QED
  BY <1>2, <1>3

LEMMA JoinThread ==
    ASSUME TypeOK, NEW s \in Syncs, JoinObserver(s)
    PROVE  Moves(s) /\ sync'[s].pc = "drop"
<1> DEFINE t == [sync[s] EXCEPT !.pc = "drop", !.obj = 0]
<1>1. t \in Thread /\ t.pc = "drop"
  BY Numbers DEF TypeOK, Thread, SyncPc
<1>2. sync' = [sync EXCEPT ![s] = t]
  BY DEF JoinObserver
<1> QED
  BY <1>1, <1>2, ThreadSteps DEF Moves

LEMMA NextThread ==
    ASSUME TypeOK, NEW s \in Syncs, NextFolder(s)
    PROVE  /\ Moves(s) /\ sync[s].pc = "next"
           /\ sync'[s].pc \in {"idle", "next"} \/ (sync'[s].pc = "enter" /\ sync'[s].folder \in Folders)
<1>1. sync[s] \in Thread /\ sync[s].pc = "next"
  BY DEF TypeOK, Thread, NextFolder
<1>2. CASE sync[s].todo = {}
  BY <1>1, <1>2, IdleThread, ThreadSteps DEF NextFolder, Moves, Idle
<1>3. CASE sync[s].todo # {}
  <2>1. PICK f \in sync[s].todo :
          sync' = [sync EXCEPT ![s].todo = @ \ {f},
                               ![s].pc = IF f \in Tracked THEN "next" ELSE "enter",
                               ![s].folder = IF f \in Tracked THEN None ELSE f]
    BY <1>3 DEF NextFolder
  <2> DEFINE t == [sync[s] EXCEPT !.todo = @ \ {f}, !.pc = IF f \in Tracked THEN "next" ELSE "enter",
                                  !.folder = IF f \in Tracked THEN None ELSE f]
  <2>2. f \in Folders
    BY <1>1, <2>1 DEF Thread
  <2>3. t \in Thread /\ (t.pc = "next" \/ (t.pc = "enter" /\ t.folder \in Folders))
    BY <1>1, <2>2 DEF Thread, SyncPc
  <2>4. sync' = [sync EXCEPT ![s] = t]
    BY <2>1
  <2> HIDE DEF t
  <2> QED
    BY <1>1, <2>3, <2>4, ThreadSteps DEF Moves
<1> QED
  BY <1>2, <1>3

LEMMA EnterThread ==
    ASSUME TypeOK, NEW s \in Syncs, Enter(s)
    PROVE  /\ Moves(s) /\ sync'[s].pc = "list" /\ sync'[s].folder = sync[s].folder
           /\ sync'[s].obj = made + 1 /\ made + 1 \in Objects
<1> DEFINE t == [sync[s] EXCEPT !.pc = "list", !.obj = made + 1]
<1>1. made + 1 \in Objects
  BY IndexAssumption DEF TypeOK, Enter, Objects, IndexAssumption
<1>2. t \in Thread /\ t.pc = "list" /\ t.folder = sync[s].folder /\ t.obj = made + 1
  BY <1>1, Numbers DEF TypeOK, Thread, SyncPc
<1>3. sync' = [sync EXCEPT ![s] = t]
  BY DEF Enter
<1> HIDE DEF t
<1> QED
  BY <1>1, <1>2, <1>3, ThreadSteps DEF Moves

\* The thread is through with a folder.
LEMMA DoneStep ==
    ASSUME TypeOK, NEW s \in Syncs, sync' = [sync EXCEPT ![s] = Done(@)]
    PROVE  Moves(s) /\ sync'[s].pc = "next"
<1>1. sync[s] \in Thread
  BY DEF TypeOK, Thread
<1>2. Done(sync[s]) \in Thread /\ Done(sync[s]).pc = "next"
  BY <1>1, DoneThread DEF Done, Thread
<1> QED
  BY <1>2, ThreadSteps DEF Moves

LEMMA ListThread ==
    ASSUME Typed, NEW s \in Syncs, ListRoot(s), there[sync[s].folder]
    PROVE  /\ Moves(s) /\ sync'[s].pc = "scan" /\ sync'[s].folder = sync[s].folder
           /\ sync'[s].obj = sync[s].obj /\ sync'[s].scan = files[sync[s].folder] \ Hidden
<1> DEFINE t == [sync[s] EXCEPT !.pc = "scan", !.scan = files[sync[s].folder] \ Hidden]
<1>1. sync[s] \in Thread /\ sync[s].folder \in Folders
  BY DEF Typed, TypeOK, Thread, Anchored, ListRoot
<1>2. files[sync[s].folder] \in SUBSET Files
  BY <1>1 DEF Typed, TypeOK
<1>3. t \in Thread /\ t.pc = "scan" /\ t.folder = sync[s].folder /\ t.obj = sync[s].obj /\ t.scan = files[sync[s].folder] \ Hidden
  BY <1>1, <1>2 DEF Thread, SyncPc
<1>4. sync' = [sync EXCEPT ![s] = t]
  BY DEF ListRoot
<1> HIDE DEF t
<1> QED
  BY <1>3, <1>4, ThreadSteps DEF Moves, Typed

\* A path that is still a file is going to be inserted, the others are passed over.
LEMMA ScanThread ==
    ASSUME Typed, NEW s \in Syncs, ScanFile(s)
    PROVE  /\ Moves(s) /\ sync'[s].folder = sync[s].folder /\ sync'[s].obj = sync[s].obj
           /\ \E p \in sync[s].scan :
                /\ sync'[s].scan = sync[s].scan \ {p}
                /\ \/ p \in files[sync[s].folder] /\ sync'[s].pc = "insert" /\ sync'[s].file = p
                   \/ p \notin files[sync[s].folder] /\ sync'[s].pc = "scan"
<1>1. sync[s] \in Thread
  BY DEF Typed, TypeOK, Thread
<1>2. PICK p \in sync[s].scan :
        sync' = [sync EXCEPT ![s].scan = @ \ {p},
                             ![s].pc = IF p \in files[sync[s].folder] THEN "insert" ELSE "scan",
                             ![s].file = IF p \in files[sync[s].folder] THEN p ELSE None]
  BY DEF ScanFile
<1> DEFINE t == [sync[s] EXCEPT !.scan = @ \ {p}, !.pc = IF p \in files[sync[s].folder] THEN "insert" ELSE "scan",
                                !.file = IF p \in files[sync[s].folder] THEN p ELSE None]
<1>3. p \in Files
  BY <1>1, <1>2 DEF Thread
<1>4. /\ t \in Thread /\ t.folder = sync[s].folder /\ t.obj = sync[s].obj /\ t.scan = sync[s].scan \ {p}
      /\ \/ p \in files[sync[s].folder] /\ t.pc = "insert" /\ t.file = p
         \/ p \notin files[sync[s].folder] /\ t.pc = "scan"
  BY <1>1, <1>3 DEF Thread, SyncPc
<1>5. sync' = [sync EXCEPT ![s] = t]
  BY <1>2
<1> HIDE DEF t
<1> QED
  BY <1>4, <1>5, ThreadSteps DEF Moves, Typed

LEMMA InsertThread ==
    ASSUME Typed, NEW s \in Syncs, InsertScanned(s)
    PROVE  /\ Moves(s) /\ sync'[s].pc = "scan" /\ sync'[s].folder = sync[s].folder
           /\ sync'[s].obj = sync[s].obj /\ sync'[s].scan = sync[s].scan
<1> DEFINE t == [sync[s] EXCEPT !.pc = "scan", !.file = None]
<1>1. /\ t \in Thread /\ t.pc = "scan" /\ t.folder = sync[s].folder
      /\ t.obj = sync[s].obj /\ t.scan = sync[s].scan
  BY DEF Typed, TypeOK, Thread, SyncPc
<1>2. sync' = [sync EXCEPT ![s] = t]
  BY DEF InsertScanned
<1> HIDE DEF t
<1> QED
  BY <1>1, <1>2, ThreadSteps DEF Moves, Typed

LEMMA ObserverThread ==
    ASSUME Typed, NEW s \in Syncs, StartObserver(s)
    PROVE  /\ Moves(s)
           /\ sync'[s].pc = "publish" /\ sync'[s].folder = sync[s].folder /\ sync'[s].obj = sync[s].obj
<1> DEFINE t == [sync[s] EXCEPT !.pc = "publish"]
<1>1. t \in Thread /\ t.pc = "publish" /\ t.folder = sync[s].folder /\ t.obj = sync[s].obj
  BY DEF Typed, TypeOK, Thread, SyncPc
<1>2. sync' = [sync EXCEPT ![s] = t]
  BY DEF StartObserver
<1> HIDE DEF t
<1> QED
  BY <1>1, <1>2, ThreadSteps DEF Moves, Typed

\* sync_folders ends.
LEMMA RaisesThread ==
    ASSUME TypeOK, NEW s \in Syncs, SyncRaises(s)
    PROVE  Moves(s) /\ sync'[s].pc = "idle" /\ sync[s].pc \in {"scan", "insert"}
BY IdleThread, ThreadSteps DEF SyncRaises, Moves, Idle

LEMMA SyncTyped == ASSUME Typed, NEW s \in Syncs, Sync(s) PROVE Typed'
<1> DEFINE t == sync[s]
           t2 == sync'[s]
<1>1. TypeOK /\ Anchored /\ t \in Thread
  BY DEF Typed, TypeOK, Thread
<1> USE DEF driverVars, listVars, objectVars, watchVars, diskVars
\* The objects and observers stay as they are.
<1>2. ASSUME Moves(s), UNCHANGED <<folders, owner, made, watch, queue, busy>>,
             t2.pc \in {"enter", "list", "scan", "insert", "publish"} => t2.folder \in Folders,
             t2.pc \in {"list", "scan", "insert", "publish"} => t2.obj # 0 /\ owner[t2.obj] = t2.folder,
             t2.pc = "join" => t2.obj # 0 /\ owner[t2.obj] \in Folders,
             t2.pc = "insert" => t2.file \in Files
      PROVE  Anchored'
  BY <1>1, <1>2 DEF Anchored, Moves, Live
<1>3. CASE Compare(s)
  BY <1>1, <1>2, <1>3, CompareThread DEF Compare, Moves, Typed, TypeOK, Thread
<1>4. CASE PopFolder(s)
  <2>1. CASE t2.pc = "next" /\ UNCHANGED objectVars
    BY <1>1, <1>2, <1>4, <2>1, PopThread DEF PopFolder, Moves, Typed, TypeOK, Thread
  <2>2. ASSUME NEW f \in Folders, folders' = [folders EXCEPT ![f] = 0], UNCHANGED <<made, owner, status>>,
               t2.pc = "drop" \/ (t2.pc = "join" /\ folders[f] # 0 /\ t2.obj = folders[f])
        PROVE  Typed'
    <3>1. Moves(s) /\ UNCHANGED <<driverVars, listVars, watchVars, rows, diskVars>>
      BY <1>1, <1>4, PopThread DEF PopFolder
    <3>2. TypeOK'
      BY <1>1, <2>2, <3>1, Numbers DEF Moves, TypeOK, Thread
    <3>3. t2.pc = "join" => t2.obj # 0 /\ owner[t2.obj] \in Folders
      BY <1>1, <2>2 DEF Anchored
    <3>4. \A g \in Folders : folders'[g] # 0 => folders'[g] = folders[g]
      BY <1>1, <2>2 DEF TypeOK
    <3>5. Anchored'
      BY <1>1, <2>2, <3>1, <3>3, <3>4 DEF Anchored, Moves, Live
    <3> QED
      BY <3>2, <3>5 DEF Typed
  <2> QED
    BY <1>1, <1>4, <2>1, <2>2, PopThread
<1>5. CASE JoinObserver(s)
  <2> DEFINE w == t.obj
  <2>1. /\ Moves(s) /\ t2.pc = "drop" /\ w \in Objects /\ owner[w] \in Folders /\ w <= made
        /\ busy[w] = None /\ watch' = [watch EXCEPT ![w] = "stopped"] /\ queue' = [queue EXCEPT ![w] = <<>>]
        /\ gap' = [gap EXCEPT ![owner[w]] = @ \cup Undone(w)]
        /\ UNCHANGED <<driverVars, listVars, objectVars, busy, rows, there, files, changes>>
    BY <1>1, <1>5, JoinThread, Numbers DEF JoinObserver, Anchored, Thread
  <2>2. Undone(w) \subseteq Files /\ <<>> \in Seq(Event)
    BY <1>1, <2>1, UndoneFiles DEF TypeOK
  <2>3. TypeOK'
    <3>1. watch' \in [Objects -> {"none", "on", "set", "stopped"}] /\ queue' \in [Objects -> Seq(Event)]
      BY <1>1, <2>1, <2>2 DEF TypeOK
    <3>2. gap' \in [Folders -> SUBSET Files] /\ sync' \in [Syncs -> Thread]
      BY <1>1, <2>1, <2>2 DEF TypeOK, Moves
    <3> QED
      BY <1>1, <2>1, <3>1, <3>2 DEF TypeOK, Thread
  <2>4. Anchored'
    <3>1. \A v \in Objects : (watch'[v] # "none" => watch[v] # "none" \/ v = w)
                             /\ (~Live(v)' => queue'[v] = <<>> /\ busy'[v] = None)
      BY <1>1, <2>1 DEF Anchored, Live, TypeOK
    <3> QED
      BY <1>1, <2>1, <3>1 DEF Anchored, Moves
  <2> QED
    BY <2>3, <2>4 DEF Typed
<1>6. CASE NextFolder(s)
  BY <1>1, <1>2, <1>6, NextThread DEF NextFolder, Moves, Typed, TypeOK, Thread
<1>7. CASE Enter(s)
  <2> DEFINE w == made + 1
             f == t.folder
  <2>1. /\ Moves(s) /\ t2.pc = "list" /\ t2.folder = f /\ f \in Folders /\ t2.obj = w /\ w \in Objects
        /\ made' = w /\ folders' = [folders EXCEPT ![f] = w]
        /\ owner' = [owner EXCEPT ![w] = f] /\ status' = [status EXCEPT ![w] = "INDEXING"]
        /\ UNCHANGED <<driverVars, listVars, watchVars, rows, diskVars>>
    BY <1>1, <1>7, EnterThread DEF Enter, Anchored
  <2>2. TypeOK'
    BY <1>1, <2>1, Numbers DEF Moves, TypeOK, Thread
  <2>3. w # 0 /\ \A v \in Objects : (v <= w <=> v <= made \/ v = w) /\ ~(w <= made)
    BY <1>1, <2>1, IndexAssumption DEF TypeOK, Objects, IndexAssumption
  <2>4. /\ \A v \in Objects : owner'[v] = IF v = w THEN f ELSE owner[v]
        /\ \A g \in Folders : folders'[g] = IF g = f THEN w ELSE folders[g]
    BY <1>1, <2>1 DEF TypeOK
  <2>5. \A v \in Objects : v <= made => owner'[v] = owner[v]
    BY <2>3, <2>4
  <2>6. owner[w] \notin Folders
    BY <1>1, <2>1, <2>3 DEF Anchored
  <2>7. \A g \in Folders : folders[g] # 0 => owner'[folders[g]] = g
    <3>1. \A g \in Folders : folders[g] # 0 => folders[g] \in Objects /\ folders[g] # w
      BY <1>1, <2>6, Numbers DEF Anchored, TypeOK
    <3> QED
      BY <1>1, <2>4, <3>1 DEF Anchored
  <2>8. \A u \in Syncs : sync[u].obj # 0 /\ owner[sync[u].obj] \in Folders => owner'[sync[u].obj] = owner[sync[u].obj]
    <3>1. \A u \in Syncs : sync[u].obj \in 0..MaxTracked
      BY <1>1 DEF TypeOK
    <3> QED
      BY <2>4, <2>6, <3>1, Numbers
  <2>9. Anchored'
    <3>1. \A g \in Folders : folders'[g] # 0 => owner'[folders'[g]] = g
      BY <2>1, <2>4, <2>7
    <3>2. \A v \in Objects : (v <= made' <=> owner'[v] \in Folders) /\ (watch'[v] # "none" => v <= made')
      BY <1>1, <2>1, <2>3, <2>4 DEF Anchored
    <3>3. \A v \in Objects : ~Live(v)' => queue'[v] = <<>> /\ busy'[v] = None
      BY <1>1, <2>1 DEF Anchored, Live
    <3>4. owner'[w] = f
      BY <2>1, <2>4
    <3> QED
      BY <1>1, <2>1, <2>3, <2>8, <3>1, <3>2, <3>3, <3>4 DEF Anchored, Moves
  <2> QED
    BY <2>2, <2>9 DEF Typed
\* The status of the thread's object changes, and the thread is through with it.
<1>8. ASSUME sync' = [sync EXCEPT ![s] = Done(@)], NEW x \in {"INDEXED", "UNAVAILABLE"},
             status' = [status EXCEPT ![t.obj] = x], gap' \in [Folders -> SUBSET Files],
             UNCHANGED <<driverVars, listVars, folders, made, owner, rows, there, files, changes, queue, busy>>
      PROVE  /\ UNCHANGED watch => Typed'
             /\ (watch' = [watch EXCEPT ![t.obj] = "set"] /\ t.pc = "publish") => Typed'
  <2>1. Moves(s) /\ t2.pc = "next"
    BY <1>1, <1>8, DoneStep
  <2>2. status' \in [Objects -> {"none", "INDEXING", "INDEXED", "UNAVAILABLE"}] /\ sync' \in [Syncs -> Thread]
    BY <1>1, <1>8, <2>1 DEF TypeOK, Moves
  <2>3. ASSUME UNCHANGED watch PROVE Typed'
    BY <1>1, <1>2, <1>8, <2>1, <2>2, <2>3 DEF Typed, TypeOK, Thread
  <2>4. ASSUME watch' = [watch EXCEPT ![t.obj] = "set"], t.pc = "publish" PROVE Typed'
    <3>1. t.obj \in Objects /\ t.obj <= made
      BY <1>1, <2>4, Numbers DEF Anchored, Thread
    <3>2. TypeOK'
      BY <1>1, <1>8, <2>2, <2>4, <3>1 DEF TypeOK, Thread
    <3>3. \A v \in Objects : (watch'[v] # "none" => v <= made)
                             /\ (~Live(v)' => queue[v] = <<>> /\ busy[v] = None)
      BY <1>1, <2>4, <3>1 DEF Anchored, Live, TypeOK
    <3>4. Anchored'
      BY <1>1, <1>8, <2>1, <3>3 DEF Anchored, Moves
    <3> QED
      BY <3>2, <3>4 DEF Typed
  <2> QED
    BY <2>3, <2>4
<1>9. CASE ListRoot(s)
  <2>1. t.folder \in Folders /\ t.obj # 0 /\ owner[t.obj] = t.folder /\ t.pc = "list"
    BY <1>1, <1>9 DEF Anchored, ListRoot
  <2>2. CASE there[t.folder]
    <3>1. UNCHANGED <<driverVars, listVars, objectVars, watchVars, rows, there, files, changes>>
      BY <1>9, <2>2 DEF ListRoot
    <3>2. gap' = [gap EXCEPT ![t.folder] = @ \ (files[t.folder] \ Hidden)]
      BY <1>9, <2>2 DEF ListRoot
    <3>3. TypeOK'
      BY <1>1, <1>9, <2>2, <3>1, <3>2, ListThread DEF TypeOK, Thread, Moves, Typed
    <3>4. Anchored'
      BY <1>2, <1>9, <2>1, <2>2, <3>1, ListThread
    <3> QED
      BY <3>3, <3>4 DEF Typed
  <2>3. CASE ~there[t.folder]
    BY <1>1, <1>8, <1>9, <2>3 DEF ListRoot, Unavailable, TypeOK
  <2> QED
    BY <2>2, <2>3
<1>10. CASE ScanFails(s)
  <2>1. t.folder \in Folders /\ t.scan \in SUBSET Files
    BY <1>1, <1>10 DEF Anchored, ScanFails, Thread
  <2>2. gap' \in [Folders -> SUBSET Files]
    BY <1>1, <1>10, <2>1 DEF ScanFails, LeftBehind, TypeOK
  <2> QED
    BY <1>8, <1>10, <2>2 DEF ScanFails, Unavailable
<1>15. CASE SyncRaises(s)
  <2>1. t.folder \in Folders /\ t.obj \in Objects /\ t.scan \cup ({t.file} \ {None}) \in SUBSET Files
    BY <1>1, <1>15, Numbers DEF Anchored, SyncRaises, Thread
  <2>2. gap' \in [Folders -> SUBSET Files] /\ failed' \in SUBSET Objects
    BY <1>1, <1>15, <2>1 DEF SyncRaises, LeftBehind, TypeOK
  <2>3. Moves(s) /\ t2.pc = "idle"
    BY <1>1, <1>15, RaisesThread
  <2>4. UNCHANGED <<mtime, main, listVars, objectVars, watchVars, rows, there, files, changes>>
    BY <1>15 DEF SyncRaises
  <2>5. TypeOK'
    BY <1>1, <2>2, <2>3, <2>4 DEF TypeOK, Thread, Moves
  <2>6. Anchored'
    BY <1>2, <2>3, <2>4
  <2> QED
    BY <2>5, <2>6 DEF Typed
<1>11. CASE ScanFile(s)
  <2>1. t.folder \in Folders /\ t.obj # 0 /\ owner[t.obj] = t.folder /\ t.scan \in SUBSET Files
    BY <1>1, <1>11 DEF Anchored, ScanFile, Thread
  <2>2. UNCHANGED <<driverVars, listVars, objectVars, watchVars, rows, diskVars>>
    BY <1>11 DEF ScanFile
  <2>3. TypeOK'
    BY <1>1, <1>11, <2>2, ScanThread DEF TypeOK, Thread, Moves
  <2>4. Anchored'
    BY <1>2, <1>11, <2>1, <2>2, ScanThread
  <2> QED
    BY <2>3, <2>4 DEF Typed
<1>12. CASE InsertScanned(s)
  <2>1. t.folder \in Folders /\ t.obj # 0 /\ owner[t.obj] = t.folder /\ t.file \in Files
    BY <1>1, <1>12 DEF Anchored, InsertScanned
  <2>2. UNCHANGED <<driverVars, listVars, objectVars, watchVars, diskVars>> /\ rows' = rows \cup {<<t.folder, t.file>>}
    BY <1>12 DEF InsertScanned
  <2>3. TypeOK'
    BY <1>1, <1>12, <2>1, <2>2, InsertThread DEF TypeOK, Thread, Moves
  <2>4. Anchored'
    BY <1>2, <1>12, <2>1, <2>2, InsertThread
  <2> QED
    BY <2>3, <2>4 DEF Typed
<1>13. CASE StartObserver(s)
  <2>1. t.folder \in Folders /\ t.obj # 0 /\ owner[t.obj] = t.folder /\ t.obj \in Objects /\ t.obj <= made
    BY <1>1, <1>13, Numbers DEF Anchored, StartObserver, Thread
  <2>2. UNCHANGED <<driverVars, listVars, objectVars, queue, busy, rows, diskVars>>
    BY <1>13 DEF StartObserver
  <2>3. /\ Moves(s) /\ t2.pc = "publish" /\ t2.folder = t.folder /\ t2.obj = t.obj
        /\ watch' = [watch EXCEPT ![t.obj] = "on"]
    BY <1>13, ObserverThread DEF StartObserver
  <2>4. TypeOK'
    BY <1>1, <2>1, <2>2, <2>3 DEF TypeOK, Thread, Moves
  <2>5. \A v \in Objects : (watch'[v] # "none" => v <= made)
                           /\ (~Live(v)' => queue[v] = <<>> /\ busy[v] = None)
    BY <1>1, <2>1, <2>3 DEF Anchored, Live, TypeOK
  <2>6. Anchored'
    BY <1>1, <2>1, <2>2, <2>3, <2>5 DEF Anchored, Moves
  <2> QED
    BY <2>4, <2>6 DEF Typed
<1>14. CASE Publish(s)
  <2>1. gap' \in [Folders -> SUBSET Files] /\ t.pc = "publish"
    BY <1>1, <1>14 DEF Publish, TypeOK
  <2> QED
    BY <1>8, <1>14, <2>1 DEF Publish
<1> QED
  BY <1>3, <1>4, <1>5, <1>6, <1>7, <1>9, <1>10, <1>11, <1>12, <1>13, <1>14, <1>15 DEF Sync

\* The event an observer handles.
LEMMA HeadEvent ==
    ASSUME TypeOK, NEW w \in Objects, queue[w] # <<>>
    PROVE  Head(queue[w]) \in Event /\ Tail(queue[w]) \in Seq(Event)
BY DEF TypeOK

LEMMA ObserverTyped == ASSUME Typed, NEW w \in Objects, Observer(w) PROVE Typed'
<1> USE DEF driverVars, listVars, objectVars, diskVars
<1>1. TypeOK /\ Anchored
  BY DEF Typed
<1>2. Live(w) /\ owner[w] \in Folders
  <2>1. Live(w)
    BY <1>1 DEF Observer, HandleUpsert, HandleRemove, HandleMoved, FinishUpsert, Anchored
  <2> QED
    BY <1>1, <2>1 DEF Anchored, Live
<1>3. /\ UNCHANGED <<driverVars, listVars, sync, objectVars, watch, diskVars>>
      /\ \A v \in Objects : v # w => queue'[v] = queue[v] /\ busy'[v] = busy[v]
  BY <1>1 DEF Observer, HandleUpsert, HandleRemove, HandleMoved, FinishUpsert, LookUp, TypeOK
<1>4. rows' \in SUBSET (Folders \X Files) /\ busy' \in [Objects -> Files \cup {None}] /\ queue' \in [Objects -> Seq(Event)]
  <2>1. CASE HandleUpsert(w)
    BY <1>1, <2>1, HeadEvent, EventParts DEF HandleUpsert, LookUp, TypeOK
  <2>2. CASE HandleRemove(w)
    BY <1>1, <2>2, HeadEvent DEF HandleRemove, TypeOK
  <2>3. CASE HandleMoved(w)
    <3>1. Head(queue[w]).to \in Files /\ Tail(queue[w]) \in Seq(Event)
      BY <1>1, <2>3, HeadEvent, EventParts DEF HandleMoved
    <3>2. [kind |-> "upsert", file |-> Head(queue[w]).to] \in Event
      BY <3>1 DEF Event
    <3>3. \A e \in Event, q \in Seq(Event) : <<e>> \o q \in Seq(Event)
      OBVIOUS
    <3> QED
      BY <1>1, <2>3, <3>1, <3>2, <3>3 DEF HandleMoved, TypeOK
  <2>4. CASE FinishUpsert(w)
    BY <1>1, <1>2, <2>4 DEF FinishUpsert, TypeOK
  <2> QED
    BY <2>1, <2>2, <2>3, <2>4 DEF Observer
<1>5. TypeOK'
  BY <1>1, <1>3, <1>4 DEF TypeOK, Thread
<1>6. Anchored'
  BY <1>1, <1>2, <1>3 DEF Anchored, Live
<1> QED
  BY <1>5, <1>6 DEF Typed

\* An event reaches the observers of its folder.
LEMMA NotifyType ==
    ASSUME TypeOK, NEW f, NEW e \in Event, Notify(f, e)
    PROVE  /\ queue' \in [Objects -> Seq(Event)]
           /\ \A w \in Objects : queue'[w] = IF Live(w) /\ owner[w] = f THEN Append(queue[w], e) ELSE queue[w]
<1>1. \A w \in Objects : Append(queue[w], e) \in Seq(Event)
  BY DEF TypeOK
<1> QED
  BY <1>1 DEF Notify, TypeOK

\* What is common to the changes of files.
LEMMA ChangeTyped ==
    ASSUME Typed, NEW f \in Folders, NEW P \in SUBSET Files, Changed(f, P), NEW e \in Event, Notify(f, e),
           files' \in [Folders -> SUBSET Files]
    PROVE  Typed'
<1> USE DEF driverVars, listVars, objectVars
<1>1. gap' \in [Folders -> SUBSET Files] /\ changes' \in Nat
  BY DEF Changed, Typed, TypeOK
<1>2. /\ UNCHANGED <<driverVars, listVars, sync, objectVars, watch, busy, rows, there>>
      /\ queue' \in [Objects -> Seq(Event)] /\ \A w \in Objects : ~Live(w) => queue'[w] = queue[w]
  BY NotifyType DEF Changed, Typed
<1>3. TypeOK'
  BY <1>1, <1>2 DEF Typed, TypeOK
<1>4. Anchored'
  BY <1>2 DEF Typed, Anchored, Live
<1> QED
  BY <1>3, <1>4 DEF Typed

LEMMA EnvironmentTyped == ASSUME Typed, Environment PROVE Typed'
<1> USE DEF driverVars, objectVars, watchVars, diskVars
<1>1. CASE Edit
  BY <1>1 DEF Edit, Typed, TypeOK, Anchored, Live
<1>2. ASSUME NEW f \in Folders, RootVanishes(f) PROVE Typed'
  <2>1. TypeOK'
    BY <1>2 DEF RootVanishes, Typed, TypeOK, listVars
  <2>2. Anchored'
    BY <1>2 DEF RootVanishes, Typed, Anchored, Live
  <2> QED
    BY <2>1, <2>2 DEF Typed
<1>3. ASSUME NEW f \in Folders, NEW p \in Files, WriteFile(f, p) PROVE Typed'
  <2>1. [kind |-> "upsert", file |-> p] \in Event
    BY DEF Event
  <2>2. files' \in [Folders -> SUBSET Files]
    BY <1>3 DEF WriteFile, Typed, TypeOK
  <2> QED
    BY <1>3, <2>1, <2>2, ChangeTyped DEF WriteFile
<1>4. ASSUME NEW f \in Folders, NEW p \in Files, DeleteFile(f, p) PROVE Typed'
  <2>1. [kind |-> "remove", file |-> p] \in Event
    BY DEF Event
  <2>2. files' \in [Folders -> SUBSET Files]
    BY <1>4 DEF DeleteFile, Typed, TypeOK
  <2> QED
    BY <1>4, <2>1, <2>2, ChangeTyped DEF DeleteFile
<1>5. ASSUME NEW f \in Folders, NEW p \in Files, NEW q \in Files, MoveFile(f, p, q) PROVE Typed'
  <2>1. [kind |-> "moved", file |-> p, to |-> q] \in Event
    BY DEF Event
  <2>2. files' \in [Folders -> SUBSET Files] /\ {p, q} \in SUBSET Files
    BY <1>5 DEF MoveFile, Typed, TypeOK
  <2> QED
    BY <1>5, <2>1, <2>2, ChangeTyped DEF MoveFile
<1> QED
  BY <1>1, <1>2, <1>3, <1>4, <1>5 DEF Environment

LEMMA InitGrounded == Init => Grounded
BY DEF Init, Grounded, Idle, Syncs

\* A thread at work moves, and nothing it does is about the start.
LEMMA SyncMoves ==
    ASSUME Typed, NEW s \in Syncs, Sync(s)
    PROVE  Moves(s) /\ sync[s].pc # "idle" /\ UNCHANGED <<mtime, main, there, files>>
<1> USE DEF diskVars, driverVars
<1>1. CASE Compare(s) \/ PopFolder(s) \/ JoinObserver(s) \/ NextFolder(s) \/ Enter(s)
  BY <1>1, CompareThread, PopThread, JoinThread, NextThread, EnterThread
  DEF Typed, Compare, PopFolder, JoinObserver, NextFolder, Enter
<1>2. CASE ListRoot(s)
  BY <1>2, ListThread, DoneStep DEF Typed, ListRoot, Unavailable
<1>3. CASE ScanFails(s) \/ ScanFile(s) \/ InsertScanned(s) \/ StartObserver(s) \/ Publish(s)
  BY <1>3, DoneStep, ScanThread, InsertThread, ObserverThread
  DEF Typed, ScanFails, Unavailable, ScanFile, InsertScanned, StartObserver, Publish
<1>4. CASE SyncRaises(s)
  BY <1>4, RaisesThread DEF Typed, SyncRaises
<1> QED
  BY <1>1, <1>2, <1>3, <1>4 DEF Sync

LEMMA StepGrounded == ASSUME Typed, Grounded, [Next]_vars PROVE Grounded'
<1>1. CASE LoadList \/ StartAgent \/ RefreshSees \/ RefreshLoads
  BY <1>1 DEF LoadList, StartAgent, RefreshSees, RefreshLoads, Grounded, diskVars, driverVars, Typed, TypeOK, Syncs
<1>2. ASSUME NEW s \in Syncs, Sync(s) PROVE Grounded'
  BY <1>2, SyncMoves DEF Grounded, Moves, driverVars, Syncs
<1>3. ASSUME NEW w \in Objects, Observer(w) PROVE Grounded'
  BY <1>3 DEF Observer, HandleUpsert, HandleRemove, HandleMoved, FinishUpsert, Grounded, diskVars, driverVars
<1>4. CASE Environment
  <2>1. UNCHANGED <<driverVars, sync>>
    BY <1>4 DEF Environment, Edit, RootVanishes, WriteFile, DeleteFile, MoveFile, Changed
  <2>2. \A f \in Folders : ~there'[f] => files'[f] = {}
    <3>1. CASE Edit
      BY <3>1 DEF Edit, diskVars, Grounded
    <3>2. ASSUME NEW f \in Folders, RootVanishes(f) PROVE \A g \in Folders : ~there'[g] => files'[g] = {}
      BY <3>2 DEF RootVanishes, Grounded, Typed, TypeOK
    <3>3. ASSUME NEW f \in Folders, NEW x, files' = [files EXCEPT ![f] = x], there[f], there' = there
          PROVE  \A g \in Folders : ~there'[g] => files'[g] = {}
      BY <3>3 DEF Grounded, Typed, TypeOK
    <3> QED
      BY <1>4, <3>1, <3>2, <3>3 DEF Environment, WriteFile, DeleteFile, MoveFile, Changed
  <2> QED
    BY <2>1, <2>2 DEF Grounded, driverVars
<1>5. CASE UNCHANGED vars
  BY <1>5 DEF vars, driverVars, diskVars, Grounded
<1> QED
  BY <1>1, <1>2, <1>3, <1>4, <1>5 DEF Next

LEMMA StepTyped == Typed /\ Grounded /\ [Next]_vars => (Typed /\ Grounded)'
<1>1. ASSUME Typed, UNCHANGED vars PROVE Typed'
  BY <1>1 DEF vars, listVars, driverVars, objectVars, watchVars, diskVars, Typed, TypeOK, Anchored, Live
<1> QED
  BY <1>1, DriverTyped, SyncTyped, ObserverTyped, EnvironmentTyped, StepGrounded DEF Next

\* Every variable keeps its type, whatever is saved, scanned, reported or
\* taken away meanwhile, and no thread or folder refers to an object of another
\* folder.
THEOREM IndexTypeCorrect == Spec => [](TypeOK /\ Anchored)
<1> QED
  BY InitTyped, InitGrounded, StepTyped, PTL DEF Spec, Typed

-----------------------------------------------------------------------------
(* What a queue of events is going to do about file p. *)

Removes(e, p) == e.kind \in {"remove", "moved"} /\ e.file = p
Inserts(e, p) == (e.kind = "upsert" /\ e.file = p) \/ (e.kind = "moved" /\ e.to = p)

Goes(q, p)     == \E i \in DOMAIN q : Removes(q[i], p)
Comes(q, p)    == \E i \in DOMAIN q : Inserts(q[i], p)
Recovers(q, p) == \A i \in DOMAIN q : Removes(q[i], p) => \E j \in DOMAIN q : i < j /\ Inserts(q[j], p)

\* An observer's queue ends with the truth about what is there: what it is going
\* to remove of that, it inserts again later.
EndsTrue == \A w \in Objects : Live(w) => \A p \in files[owner[w]] : Recovers(queue[w], p)

\* Somebody is going to insert the row.
Scanning(f, p) ==
    \E s \in Syncs : /\ sync[s].folder = f /\ sync[s].pc \in {"scan", "insert"}
                     /\ p \in sync[s].scan \/ (sync[s].pc = "insert" /\ sync[s].file = p)
Following(f, p) == \E w \in Objects : Live(w) /\ owner[w] = f /\ (busy[w] = p \/ Comes(queue[w], p))

Unscanned(f) ==
    /\ \A w \in Objects : owner[w] = f => status[w] # "INDEXED"
    /\ \A s \in Syncs : sync[s].folder = f => sync[s].pc \notin {"scan", "insert", "publish"}

Found ==
    \A f \in Folders : \A p \in files[f] \ gap[f] :
        <<f, p>> \in rows \/ Scanning(f, p) \/ Following(f, p) \/ (Unscanned(f) /\ p \notin Hidden)

\* What is not there any more is removed, also after an insertion under way.
Gone ==
    \A f \in Folders : \A p \in (Files \ files[f]) \ gap[f] :
        /\ <<f, p>> \in rows => \E w \in Objects : Live(w) /\ owner[w] = f /\ Goes(queue[w], p)
        /\ \A w \in Objects : owner[w] = f /\ busy[w] = p => Goes(queue[w], p)
        /\ \A s \in Syncs : ~(sync[s].folder = f /\ sync[s].pc = "insert" /\ sync[s].file = p)

Tells == EndsTrue /\ Found /\ Gone

LEMMA TellsSuffices == Typed /\ Tells => IndexConsistent
<1> SUFFICES ASSUME Typed, Tells, NEW f \in Folders, f \in Tracked, status[folders[f]] = "INDEXED", Quiet(f),
                    NEW p \in Files \ gap[f]
             PROVE  <<f, p>> \in rows <=> p \in files[f]
  BY DEF IndexConsistent
<1>1. folders[f] \in Objects /\ owner[folders[f]] = f
  BY IndexAssumption DEF Typed, TypeOK, Anchored, Tracked, Objects, IndexAssumption
<1>2. ~Unscanned(f) /\ ~Scanning(f, p)
  BY <1>1 DEF Unscanned, Scanning, Quiet
<1>3. ASSUME NEW w \in Objects, Live(w), owner[w] = f PROVE busy[w] = None /\ ~Goes(queue[w], p) /\ ~Comes(queue[w], p)
  BY <1>3 DEF Quiet, Goes, Comes
<1>4. p # None
  BY IndexAssumption DEF IndexAssumption
<1>5. ~Following(f, p)
  BY <1>3, <1>4 DEF Following
<1> QED
  BY <1>2, <1>3, <1>5 DEF Tells, Found, Gone

-----------------------------------------------------------------------------
(* Queues *)

LEMMA QueueAppend ==
    ASSUME NEW q \in Seq(Event), NEW e \in Event, NEW p
    PROVE  /\ (Inserts(e, p) /\ ~Removes(e, p)) => Recovers(Append(q, e), p) /\ Comes(Append(q, e), p)
           /\ Removes(e, p) => Goes(Append(q, e), p)
           /\ (Recovers(q, p) /\ ~Removes(e, p)) => Recovers(Append(q, e), p)
           /\ Goes(q, p) => Goes(Append(q, e), p)
           /\ Comes(q, p) => Comes(Append(q, e), p)
<1> DEFINE r == Append(q, e)
<1>1. /\ DOMAIN q = 1..Len(q) /\ DOMAIN r = 1..(Len(q) + 1) /\ Len(q) \in Nat
      /\ r[Len(q) + 1] = e /\ \A i \in 1..Len(q) : r[i] = q[i]
  OBVIOUS
<1> HIDE DEF r
<1>2. \A i \in DOMAIN r : i \in DOMAIN q \/ i = Len(q) + 1
  BY <1>1
<1>3. DOMAIN q \subseteq DOMAIN r /\ Len(q) + 1 \in DOMAIN r /\ \A i \in DOMAIN q : i < Len(q) + 1
  BY <1>1
<1>4. (Inserts(e, p) /\ ~Removes(e, p)) => Recovers(r, p) /\ Comes(r, p)
  BY <1>1, <1>2, <1>3 DEF Recovers, Comes
<1>5. /\ Removes(e, p) => Goes(r, p)
      /\ Goes(q, p) => Goes(r, p)
      /\ Comes(q, p) => Comes(r, p)
  BY <1>1, <1>3 DEF Goes, Comes
<1>6. (Recovers(q, p) /\ ~Removes(e, p)) => Recovers(r, p)
  BY <1>1, <1>2, <1>3 DEF Recovers
<1> QED
  BY <1>4, <1>5, <1>6 DEF r

\* The first event is handled; r is the rest, with something put before it or not.
LEMMA QueueHandled ==
    ASSUME NEW q \in Seq(Event), q # <<>>, NEW p
    PROVE  LET r == Tail(q)
               h == Head(q)
           IN  /\ Recovers(q, p) => Recovers(r, p)
               /\ (Goes(q, p) /\ ~Removes(h, p)) => Goes(r, p)
               /\ (Comes(q, p) /\ ~Inserts(h, p)) => Comes(r, p)
               /\ (Recovers(q, p) /\ Removes(h, p)) => Comes(r, p)
<1> DEFINE r == Tail(q)
<1>1. /\ Len(q) \in Nat /\ 1 \in DOMAIN q /\ DOMAIN q = 1..Len(q) /\ DOMAIN r = 1..(Len(q) - 1) /\ Head(q) = q[1]
      /\ \A i \in DOMAIN r : i + 1 \in DOMAIN q /\ r[i] = q[i + 1]
  OBVIOUS
<1>2. \A i \in DOMAIN q : i # 1 => i - 1 \in DOMAIN r /\ r[i - 1] = q[i]
  BY <1>1
<1> HIDE DEF r
<1>3. Recovers(q, p) => Recovers(r, p)
  <2> SUFFICES ASSUME Recovers(q, p), NEW i \in DOMAIN r, Removes(r[i], p)
               PROVE  \E j \in DOMAIN r : i < j /\ Inserts(r[j], p)
    BY DEF Recovers
  <2>1. PICK j \in DOMAIN q : i + 1 < j /\ Inserts(q[j], p)
    BY <1>1 DEF Recovers
  <2>2. j - 1 \in DOMAIN r /\ r[j - 1] = q[j] /\ i < j - 1
    BY <1>1, <1>2, <2>1
  <2> QED
    BY <2>1, <2>2
<1>4. (Goes(q, p) /\ ~Removes(Head(q), p)) => Goes(r, p)
  BY <1>1, <1>2 DEF Goes
<1>5. (Comes(q, p) /\ ~Inserts(Head(q), p)) => Comes(r, p)
  BY <1>1, <1>2 DEF Comes
<1>6. (Recovers(q, p) /\ Removes(Head(q), p)) => Comes(r, p)
  <2> SUFFICES ASSUME Recovers(q, p), Removes(Head(q), p) PROVE Comes(r, p)
    OBVIOUS
  <2>1. PICK j \in DOMAIN q : 1 < j /\ Inserts(q[j], p)
    BY <1>1 DEF Recovers
  <2> QED
    BY <1>1, <1>2, <2>1 DEF Comes
<1> QED
  BY <1>3, <1>4, <1>5, <1>6 DEF r

LEMMA QueueMoved ==
    ASSUME NEW q \in Seq(Event), q # <<>>, Head(q).kind = "moved", NEW p
    PROVE  LET r == <<[kind |-> "upsert", file |-> Head(q).to]>> \o Tail(q)
               h == Head(q)
           IN  /\ Recovers(q, p) => Recovers(r, p)
               /\ (Goes(q, p) /\ ~Removes(h, p)) => Goes(r, p)
               /\ Comes(q, p) => Comes(r, p)
               /\ (Recovers(q, p) /\ Removes(h, p)) => Comes(r, p)
<1> DEFINE e == [kind |-> "upsert", file |-> Head(q).to]
           r == <<e>> \o Tail(q)
<1>1. /\ Len(q) \in Nat /\ 1 \in DOMAIN q /\ DOMAIN q = 1..Len(q) /\ Head(q) = q[1]
      /\ DOMAIN r = 1..Len(q) /\ r[1] = e /\ \A i \in DOMAIN q : i # 1 => r[i] = q[i]
  <2>1. Tail(q) \in Seq(Event) /\ Len(Tail(q)) = Len(q) - 1 /\ Len(q) \in Nat /\ Len(q) >= 1
    OBVIOUS
  <2>2. \A i \in 1..(Len(q) - 1) : Tail(q)[i] = q[i + 1]
    OBVIOUS
  <2>3. Len(r) = Len(q) /\ r[1] = e /\ \A i \in 2..Len(q) : r[i] = Tail(q)[i - 1]
    BY <2>1
  <2>4. DOMAIN r = 1..Len(q) /\ DOMAIN q = 1..Len(q) /\ Head(q) = q[1]
    BY <2>1, <2>3
  <2> HIDE DEF r, e
  <2>5. \A i \in 2..Len(q) : r[i] = q[i]
    BY <2>1, <2>2, <2>3
  <2> QED
    BY <2>1, <2>3, <2>4, <2>5
<1>2. ~Removes(r[1], p) /\ (Inserts(Head(q), p) => Inserts(r[1], p))
  BY <1>1 DEF Removes, Inserts
<1> HIDE DEF r, e
<1>3. Recovers(q, p) => Recovers(r, p)
  <2> SUFFICES ASSUME Recovers(q, p), NEW i \in DOMAIN r, Removes(r[i], p)
               PROVE  \E j \in DOMAIN r : i < j /\ Inserts(r[j], p)
    BY DEF Recovers
  <2>1. PICK j \in DOMAIN q : i < j /\ Inserts(q[j], p)
    BY <1>1, <1>2 DEF Recovers
  <2> QED
    BY <1>1, <2>1
<1>4. (Goes(q, p) /\ ~Removes(Head(q), p)) => Goes(r, p)
  BY <1>1 DEF Goes
<1>5. Comes(q, p) => Comes(r, p)
  BY <1>1, <1>2 DEF Comes
<1>6. (Recovers(q, p) /\ Removes(Head(q), p)) => Comes(r, p)
  <2> SUFFICES ASSUME Recovers(q, p), Removes(Head(q), p) PROVE Comes(r, p)
    OBVIOUS
  <2>1. PICK j \in DOMAIN q : 1 < j /\ Inserts(q[j], p)
    BY <1>1 DEF Recovers
  <2> QED
    BY <1>1, <2>1 DEF Comes
<1> QED
  BY <1>3, <1>4, <1>5, <1>6 DEF r, e

-----------------------------------------------------------------------------
(* The table tells the truth: one lemma per kind of step *)

Inserting(s, f, p) == sync[s].folder = f /\ sync[s].pc = "insert" /\ sync[s].file = p

\* An observer that is not watching has nothing to do.
LEMMA OnlyLive ==
    ASSUME Typed, NEW w \in Objects, ~Live(w), NEW p
    PROVE  Recovers(queue[w], p) /\ ~Goes(queue[w], p) /\ ~Comes(queue[w], p) /\ busy[w] = None
<1>1. queue[w] = <<>> /\ busy[w] = None
  BY DEF Typed, Anchored
<1>2. DOMAIN queue[w] = {}
  BY <1>1
<1> QED
  BY <1>1, <1>2 DEF Recovers, Goes, Comes

LEMMA InitTells == Init => Tells
<1> SUFFICES ASSUME Init PROVE Tells
  OBVIOUS
<1>1. \A w \in Objects : ~Live(w) /\ owner[w] = None
  BY DEF Init, Live
<1>2. EndsTrue
  BY <1>1 DEF EndsTrue
<1>3. \A s \in Syncs : sync[s].pc = "idle"
  BY DEF Init, Idle
<1>4. \A f \in Folders : f # None
  BY IndexAssumption DEF IndexAssumption
<1>5. Found
  <2>1. \A f \in Folders : Unscanned(f)
    BY <1>1, <1>3, <1>4 DEF Unscanned
  <2>2. \A f \in Folders : \A p \in files[f] \cap Hidden : <<f, p>> \in rows \/ p \in gap[f]
    <3>1. \A f \in Folders : gap[f] = {p \in Files : \/ <<f, p>> \in rows /\ p \notin files[f]
                                                     \/ <<f, p>> \notin rows /\ p \in files[f] \cap Hidden}
      BY DEF Init
    <3> QED
      BY <3>1, IndexAssumption DEF IndexAssumption
  <2> QED
    BY <2>1, <2>2 DEF Found
<1>6. Gone
  <2>1. \A p \in Files : p # None
    BY IndexAssumption DEF IndexAssumption
  <2>2. \A w \in Objects : busy[w] = None
    BY DEF Init
  <2>3. \A f \in Folders, p \in Files : <<f, p>> \in rows /\ p \notin files[f] => p \in gap[f]
    BY DEF Init
  <2> QED
    BY <1>3, <2>1, <2>2, <2>3 DEF Gone
<1> QED
  BY <1>2, <1>5, <1>6 DEF Tells

\* A step after which the disk and the queues are as before.
LEMMA TellsStays ==
    ASSUME Typed, Tells, UNCHANGED <<files, queue, busy>>,
           \A w \in Objects : Live(w) => Live(w)' /\ owner'[w] = owner[w],
           rows \subseteq rows',
           \A f \in Folders, p \in Files : <<f, p>> \in rows' => <<f, p>> \in rows \/ p \in files[f] \/ p \in gap'[f],
           \A f \in Folders : \A p \in Files \ gap'[f] : p \notin gap[f] \/ (p \in files[f] /\ Scanning(f, p)'),
           \A f \in Folders : \A p \in files[f] \ gap'[f] : Scanning(f, p) => Scanning(f, p)' \/ <<f, p>> \in rows',
           \A f \in Folders : \A p \in files[f] \ Hidden : Unscanned(f) => Unscanned(f)' \/ Scanning(f, p)',
           \A s \in Syncs, f \in Folders, p \in Files : Inserting(s, f, p)' => Inserting(s, f, p) \/ p \in files[f]
    PROVE  Tells'
<1>1. \A f \in Folders : files[f] \subseteq Files
  BY DEF Typed, TypeOK
<1>2. \A p \in Files : p # None
  BY IndexAssumption DEF IndexAssumption
<1>3. EndsTrue'
  <2> SUFFICES ASSUME NEW w \in Objects, Live(w)', NEW p \in files[owner'[w]] PROVE Recovers(queue[w], p)
    BY DEF EndsTrue
  <2>1. CASE Live(w)
    BY <2>1 DEF Tells, EndsTrue
  <2>2. CASE ~Live(w)
    BY <2>2, OnlyLive
  <2> QED
    BY <2>1, <2>2
<1>4. Found'
  <2> SUFFICES ASSUME NEW f \in Folders, NEW p \in files[f] \ gap'[f]
               PROVE  <<f, p>> \in rows' \/ Scanning(f, p)' \/ Following(f, p)' \/ (Unscanned(f)' /\ p \notin Hidden)
    BY DEF Found
  <2>1. p \in Files
    BY <1>1
  <2>2. CASE p \notin gap[f]
    <3>1. <<f, p>> \in rows \/ Scanning(f, p) \/ Following(f, p) \/ (Unscanned(f) /\ p \notin Hidden)
      BY <2>2 DEF Tells, Found
    <3>2. Following(f, p) => Following(f, p)'
      BY DEF Following
    <3> QED
      BY <3>1, <3>2
  <2> QED
    BY <2>1, <2>2
<1>5. Gone'
  <2> SUFFICES ASSUME NEW f \in Folders, NEW p \in (Files \ files[f]) \ gap'[f]
               PROVE  /\ <<f, p>> \in rows' => \E w \in Objects : Live(w)' /\ owner'[w] = f /\ Goes(queue[w], p)
                      /\ \A w \in Objects : owner'[w] = f /\ busy[w] = p => Goes(queue[w], p)
                      /\ \A s \in Syncs : ~Inserting(s, f, p)'
    BY DEF Gone, Inserting
  <2>1. p \notin gap[f]
    OBVIOUS
  <2>2. /\ <<f, p>> \in rows => \E w \in Objects : Live(w) /\ owner[w] = f /\ Goes(queue[w], p)
        /\ \A w \in Objects : owner[w] = f /\ busy[w] = p => Goes(queue[w], p)
        /\ \A s \in Syncs : ~Inserting(s, f, p)
    BY <2>1 DEF Tells, Gone, Inserting
  <2>3. \A w \in Objects : busy[w] = p => Live(w)
    BY <1>2, OnlyLive
  <2> QED
    BY <2>2, <2>3
<1> QED
  BY <1>3, <1>4, <1>5 DEF Tells

\* A thread leaves a scan, or was not at one.
LEMMA Leaves ==
    ASSUME NEW s \in Syncs, Moves(s), sync'[s].pc \notin {"scan", "insert", "publish"},
           \A w \in Objects : status'[w] = "INDEXED" /\ owner'[w] \in Folders
                                => (status[w] = "INDEXED" /\ owner[w] = owner'[w])
                                   \/ (sync[s].pc = "publish" /\ owner'[w] = sync[s].folder)
    PROVE  /\ \A f \in Folders : \A p : Scanning(f, p) =>
                 Scanning(f, p)' \/ (sync[s].folder = f /\ sync[s].pc \in {"scan", "insert"}
                                     /\ (p \in sync[s].scan \/ (sync[s].pc = "insert" /\ sync[s].file = p)))
           /\ \A f \in Folders : Unscanned(f) => Unscanned(f)'
           /\ \A u \in Syncs : \A f, p : Inserting(u, f, p)' => Inserting(u, f, p)
<1>1. \A f \in Folders : \A p : Scanning(f, p) =>
                 Scanning(f, p)' \/ (sync[s].folder = f /\ sync[s].pc \in {"scan", "insert"}
                                     /\ (p \in sync[s].scan \/ (sync[s].pc = "insert" /\ sync[s].file = p)))
  BY DEF Scanning, Moves
<1>2. \A f \in Folders : Unscanned(f) => Unscanned(f)'
  <2> SUFFICES ASSUME NEW f \in Folders, Unscanned(f) PROVE Unscanned(f)'
    OBVIOUS
  <2>1. \A w \in Objects : owner'[w] = f => status'[w] # "INDEXED"
    BY DEF Unscanned
  <2>2. \A u \in Syncs : sync'[u].folder = f => sync'[u].pc \notin {"scan", "insert", "publish"}
    BY DEF Unscanned, Moves
  <2> QED
    BY <2>1, <2>2 DEF Unscanned
<1>3. \A u \in Syncs : \A f, p : Inserting(u, f, p)' => Inserting(u, f, p)
  BY DEF Inserting, Moves
<1> QED
  BY <1>1, <1>2, <1>3

LEMMA DriverTells ==
    ASSUME Typed, Grounded, Tells, LoadList \/ StartAgent \/ RefreshSees \/ RefreshLoads PROVE Tells'
<1>1. UNCHANGED <<files, queue, busy, watch, owner, rows, gap, status>>
  BY DEF LoadList, StartAgent, RefreshSees, RefreshLoads, objectVars, watchVars, diskVars
<1>2. PICK s \in Syncs, t \in Thread :
          /\ sync' = [sync EXCEPT ![s] = t]
          /\ t.pc = sync[s].pc \/ (sync[s].pc \in {"idle", "load"} /\ t.pc \in {"load", "compare"})
          /\ t.folder = sync[s].folder /\ t.file = sync[s].file /\ t.scan = sync[s].scan
  BY DriverThread
<1>3. sync'[s] = t /\ \A u \in Syncs : u # s => sync'[u] = sync[u]
  BY <1>2, ThreadSteps DEF Typed
<1>4. \A u \in Syncs : /\ sync'[u].folder = sync[u].folder /\ sync'[u].file = sync[u].file
                       /\ sync'[u].scan = sync[u].scan
                       /\ \A x \in {"scan", "insert", "publish"} : sync'[u].pc = x <=> sync[u].pc = x
  BY <1>2, <1>3
<1>5. \A f, p : /\ Scanning(f, p) => Scanning(f, p)'
                /\ \A u \in Syncs : Inserting(u, f, p)' => Inserting(u, f, p)
  BY <1>4 DEF Scanning, Inserting
<1>6. \A f : Unscanned(f) => Unscanned(f)'
  BY <1>1, <1>4 DEF Unscanned
<1> QED
  BY <1>1, <1>5, <1>6, TellsStays DEF Live

\* Steps of a thread that touch neither observers nor files.
LEMMA LeavesTells ==
    ASSUME Typed, Tells, NEW s \in Syncs, Moves(s),
           sync'[s].pc \notin {"scan", "insert", "publish"},
           sync[s].pc \in {"scan", "insert"} /\ sync[s].folder \in Folders =>
               \A p \in sync[s].scan \cup (IF sync[s].pc = "insert" THEN {sync[s].file} ELSE {}) : p \in gap'[sync[s].folder],
           UNCHANGED <<files, queue, busy, rows>>, \A g \in Folders : gap[g] \subseteq gap'[g],
           \A w \in Objects : Live(w) => Live(w)' /\ owner'[w] = owner[w],
           \A w \in Objects : status'[w] = "INDEXED" /\ owner'[w] \in Folders
                                => (status[w] = "INDEXED" /\ owner[w] = owner'[w])
                                   \/ (sync[s].pc = "publish" /\ owner'[w] = sync[s].folder)
    PROVE  Tells'
<1>1. /\ \A f \in Folders : \A p : Scanning(f, p) =>
                 Scanning(f, p)' \/ (sync[s].folder = f /\ sync[s].pc \in {"scan", "insert"}
                                     /\ (p \in sync[s].scan \/ (sync[s].pc = "insert" /\ sync[s].file = p)))
      /\ \A f \in Folders : Unscanned(f) => Unscanned(f)'
      /\ \A u \in Syncs : \A f, p : Inserting(u, f, p)' => Inserting(u, f, p)
  BY Leaves
<1>2. \A f \in Folders : \A p \in files[f] \ gap'[f] : Scanning(f, p) => Scanning(f, p)'
  BY <1>1
<1> QED
  BY <1>1, <1>2, TellsStays

LEMMA SyncTells == ASSUME Typed, Grounded, Tells, NEW s \in Syncs, Sync(s) PROVE Tells'
<1> DEFINE t == sync[s]
           t2 == sync'[s]
           f == t.folder
<1>1. TypeOK /\ Anchored /\ t \in Thread
  BY DEF Typed, TypeOK, Thread
<1> USE DEF driverVars, listVars, objectVars, watchVars, diskVars
<1>2. CASE Compare(s)
  BY <1>1, <1>2, LeavesTells, CompareThread DEF Compare, Live
<1>3. CASE PopFolder(s)
  <2>1. Moves(s) /\ t.pc = "drop" /\ t2.pc \in {"next", "drop", "join"} /\ UNCHANGED <<owner, status>>
    BY <1>1, <1>3, PopThread
  <2> QED
    BY <1>3, <2>1, LeavesTells DEF PopFolder, Live
<1>4. CASE JoinObserver(s)
  <2> DEFINE w == t.obj
             g == owner[w]
  <2>1. /\ Moves(s) /\ t.pc = "join" /\ t2.pc = "drop" /\ w \in Objects /\ g \in Folders
        /\ busy[w] = None /\ watch' = [watch EXCEPT ![w] = "stopped"] /\ queue' = [queue EXCEPT ![w] = <<>>]
        /\ gap' = [gap EXCEPT ![g] = @ \cup Undone(w)]
        /\ UNCHANGED <<objectVars, busy, rows, files>>
    BY <1>1, <1>4, JoinThread, Numbers DEF JoinObserver, Anchored, Thread
  <2>2. /\ \A v \in Objects : v # w => queue'[v] = queue[v] /\ (Live(v) <=> Live(v)')
        /\ \A v \in Objects : v = w => ~Live(v)'
        /\ \A h \in Folders : gap[h] \subseteq gap'[h]
        /\ Undone(w) \subseteq gap'[g]
    <3>1. \A v \in Objects : v # w => queue'[v] = queue[v] /\ watch'[v] = watch[v]
      BY <1>1, <2>1 DEF TypeOK
    <3>2. watch'[w] = "stopped"
      BY <1>1, <2>1 DEF TypeOK
    <3>3. \A h \in Folders : gap'[h] = IF h = g THEN gap[h] \cup Undone(w) ELSE gap[h]
      BY <1>1, <2>1 DEF TypeOK
    <3>4. \A v \in Objects : v # w => queue'[v] = queue[v] /\ (Live(v) <=> Live(v)')
      BY <3>1 DEF Live
    <3>5. \A v \in Objects : v = w => ~Live(v)'
      BY <3>2 DEF Live
    <3>6. \A h \in Folders : gap[h] \subseteq gap'[h]
      BY <3>3
    <3>7. Undone(w) \subseteq gap'[g]
      <4>1. g \in Folders
        BY <2>1
      <4>2. gap'[g] = gap[g] \cup Undone(w)
        BY <3>3, <4>1, Zenon
      <4> QED
        BY <4>2, Zenon
    <3> QED
      BY <3>4, <3>5, <3>6, <3>7
  <2>3. \A p \in Files \ gap'[g] : ~Goes(queue[w], p) /\ ~Comes(queue[w], p)
    <3>1. queue[w] \in Seq(Event) /\ \A i \in DOMAIN queue[w] : queue[w][i] \in Event
      BY <1>1, <2>1 DEF TypeOK
    <3>2. \A i \in DOMAIN queue[w] : /\ queue[w][i].file \in Undone(w)
                                     /\ queue[w][i].kind = "moved" => queue[w][i].to \in Undone(w)
      BY <3>1 DEF Undone
    <3> QED
      BY <2>2, <3>2 DEF Goes, Comes, Removes, Inserts
  <2>4. /\ \A h \in Folders : \A p : Scanning(h, p) => Scanning(h, p)'
        /\ \A h \in Folders : Unscanned(h) => Unscanned(h)'
        /\ \A u \in Syncs : \A h, p : Inserting(u, h, p)' => Inserting(u, h, p)
    BY <2>1, Leaves
  <2>5. EndsTrue'
    <3> SUFFICES ASSUME NEW v \in Objects, Live(v)', NEW p \in files[owner[v]] PROVE Recovers(queue'[v], p)
      BY <2>1 DEF EndsTrue
    <3>1. v # w /\ Live(v) /\ queue'[v] = queue[v]
      BY <2>1, <2>2
    <3> QED
      BY <3>1 DEF Tells, EndsTrue
  <2>6. Found'
    <3> SUFFICES ASSUME NEW h \in Folders, NEW p \in files[h] \ gap'[h]
                 PROVE  <<h, p>> \in rows \/ Scanning(h, p)' \/ Following(h, p)' \/ (Unscanned(h)' /\ p \notin Hidden)
      BY <2>1 DEF Found
    <3>1. p \in Files /\ p # None
      BY <1>1, IndexAssumption DEF TypeOK, IndexAssumption
    <3>2. <<h, p>> \in rows \/ Scanning(h, p) \/ Following(h, p) \/ (Unscanned(h) /\ p \notin Hidden)
      BY <2>2 DEF Tells, Found
    <3>3. Following(h, p) => Following(h, p)'
      <4> SUFFICES ASSUME NEW v \in Objects, Live(v), owner[v] = h, busy[v] = p \/ Comes(queue[v], p)
                   PROVE  Following(h, p)'
        BY DEF Following
      <4>1. v # w
        BY <2>1, <2>3, <3>1
      <4> QED
        BY <2>1, <2>2, <4>1 DEF Following
    <3> QED
      BY <2>4, <3>2, <3>3
  <2>7. Gone'
    <3> SUFFICES ASSUME NEW h \in Folders, NEW p \in (Files \ files[h]) \ gap'[h]
                 PROVE  /\ <<h, p>> \in rows => \E v \in Objects : Live(v)' /\ owner[v] = h /\ Goes(queue'[v], p)
                        /\ \A v \in Objects : owner[v] = h /\ busy[v] = p => Goes(queue'[v], p)
                        /\ \A u \in Syncs : ~Inserting(u, h, p)'
      BY <2>1 DEF Gone, Inserting
    <3>1. p # None
      BY IndexAssumption DEF IndexAssumption
    <3>2. /\ <<h, p>> \in rows => \E v \in Objects : Live(v) /\ owner[v] = h /\ Goes(queue[v], p)
          /\ \A v \in Objects : owner[v] = h /\ busy[v] = p => Goes(queue[v], p)
          /\ \A u \in Syncs : ~Inserting(u, h, p)
      BY <2>2 DEF Tells, Gone, Inserting
    <3> QED
      BY <2>1, <2>2, <2>3, <2>4, <3>1, <3>2
  <2> QED
    BY <2>5, <2>6, <2>7 DEF Tells
<1>5. CASE NextFolder(s)
  BY <1>1, <1>5, LeavesTells, NextThread DEF NextFolder, Live
<1>6. CASE Enter(s)
  <2>1. /\ Moves(s) /\ t.pc = "enter" /\ t2.pc = "list" /\ made + 1 \in Objects
        /\ owner' = [owner EXCEPT ![made + 1] = f] /\ status' = [status EXCEPT ![made + 1] = "INDEXING"]
        /\ UNCHANGED <<watchVars, rows, diskVars>>
    BY <1>1, <1>6, EnterThread DEF Enter
  <2>2. ~(made + 1 <= made)
    BY <1>1, IndexAssumption DEF TypeOK, IndexAssumption
  <2>3. \A w \in Objects : Live(w) => Live(w)' /\ owner'[w] = owner[w]
    BY <1>1, <2>1, <2>2 DEF TypeOK, Anchored, Live
  <2>4. \A w \in Objects : status'[w] = "INDEXED" => status[w] = "INDEXED" /\ owner[w] = owner'[w]
    BY <1>1, <2>1 DEF TypeOK
  <2> QED
    BY <2>1, <2>3, <2>4, LeavesTells
<1>8. CASE ListRoot(s) /\ ~there[f]
  <2>1. Moves(s) /\ t.pc = "list" /\ t2.pc = "next" /\ status' = [status EXCEPT ![t.obj] = "UNAVAILABLE"]
        /\ UNCHANGED <<owner, watchVars, rows, diskVars>>
    BY <1>1, <1>8, DoneStep DEF ListRoot, Unavailable
  <2>2. \A w \in Objects : status'[w] = "INDEXED" => status[w] = "INDEXED" /\ owner[w] = owner'[w]
    BY <1>1, <2>1 DEF TypeOK
  <2> QED
    BY <2>1, <2>2, LeavesTells DEF Live
<1>9. CASE ScanFails(s)
  <2>1. Moves(s) /\ t.pc = "scan" /\ t2.pc = "next" /\ status' = [status EXCEPT ![t.obj] = "UNAVAILABLE"]
        /\ f \in Folders /\ gap' = [gap EXCEPT ![f] = @ \cup t.scan]
        /\ UNCHANGED <<owner, watchVars, rows, files>>
    BY <1>1, <1>9, DoneStep DEF ScanFails, Unavailable, LeftBehind, Anchored
  <2>2. \A w \in Objects : status'[w] = "INDEXED" => status[w] = "INDEXED" /\ owner[w] = owner'[w]
    BY <1>1, <2>1 DEF TypeOK
  <2>3. t.scan \subseteq gap'[f] /\ \A g \in Folders : gap[g] \subseteq gap'[g]
    BY <1>1, <2>1 DEF TypeOK
  <2> QED
    BY <2>1, <2>2, <2>3, LeavesTells DEF Live
<1>17. CASE SyncRaises(s)
  <2>1. /\ Moves(s) /\ t.pc \in {"scan", "insert"} /\ t2.pc = "idle" /\ f \in Folders
        /\ gap' = [gap EXCEPT ![f] = @ \cup (t.scan \cup ({t.file} \ {None}))]
        /\ UNCHANGED <<objectVars, watchVars, rows, files>>
    BY <1>1, <1>17, RaisesThread DEF SyncRaises, LeftBehind, Anchored
  <2>2. t.pc = "insert" => t.file # None
    BY <1>1, IndexAssumption DEF Anchored, IndexAssumption
  <2>3. t.scan \cup (IF t.pc = "insert" THEN {t.file} ELSE {}) \subseteq gap'[f]
    BY <1>1, <2>1, <2>2 DEF TypeOK
  <2>4. \A g \in Folders : gap[g] \subseteq gap'[g]
    BY <1>1, <2>1 DEF TypeOK
  <2> QED
    BY <2>1, <2>3, <2>4, LeavesTells DEF Live
\* The thread goes on with its scan: it takes nothing from what others do.
<1>10. ASSUME Moves(s), t2.folder = f, t2.pc \in {"scan", "insert", "publish"}
       PROVE  /\ \A g, p : Scanning(g, p) /\ g # f => Scanning(g, p)'
              /\ \A p : (Scanning(f, p) /\ ~(t.pc \in {"scan", "insert"} /\ (p \in t.scan \/ (t.pc = "insert" /\ t.file = p))))
                            => Scanning(f, p)'
              /\ UNCHANGED <<owner, status>> => \A g \in Folders : Unscanned(g) /\ g # f => Unscanned(g)'
              /\ \A u \in Syncs : \A g, p : Inserting(u, g, p)' /\ (u # s \/ g # f) => Inserting(u, g, p)
  <2>1. \A g, p : Scanning(g, p) /\ g # f => Scanning(g, p)'
    BY <1>10 DEF Scanning, Moves
  <2>2. \A p : (Scanning(f, p) /\ ~(t.pc \in {"scan", "insert"} /\ (p \in t.scan \/ (t.pc = "insert" /\ t.file = p))))
                   => Scanning(f, p)'
    BY <1>10 DEF Scanning, Moves
  <2>3. UNCHANGED <<owner, status>> => \A g \in Folders : Unscanned(g) /\ g # f => Unscanned(g)'
    BY <1>10 DEF Unscanned, Moves
  <2>4. \A u \in Syncs : \A g, p : Inserting(u, g, p)' /\ (u # s \/ g # f) => Inserting(u, g, p)
    BY <1>10 DEF Inserting, Moves
  <2> QED
    BY <2>1, <2>2, <2>3, <2>4
<1>11. CASE ListRoot(s) /\ there[f]
  <2>1. /\ Moves(s) /\ t.pc = "list" /\ t2.pc = "scan" /\ t2.folder = f /\ t2.scan = files[f] \ Hidden /\ f \in Folders
    BY <1>1, <1>11, ListThread DEF ListRoot, Anchored
  <2>2. /\ gap' = [gap EXCEPT ![f] = @ \ (files[f] \ Hidden)]
        /\ UNCHANGED <<owner, status, watchVars, rows, files>>
    BY <1>11 DEF ListRoot
  <2>3. \A p \in files[f] \ Hidden : Scanning(f, p)'
    BY <2>1 DEF Scanning
  <2>4. \A g \in Folders : \A p \in Files \ gap'[g] : p \notin gap[g] \/ (p \in files[g] /\ Scanning(g, p)')
    <3>1. \A g \in Folders : gap'[g] = IF g = f THEN gap[g] \ (files[g] \ Hidden) ELSE gap[g]
      BY <1>1, <2>1, <2>2 DEF TypeOK
    <3> QED
      BY <2>1, <2>3, <3>1
  <2>5. /\ \A g \in Folders : \A p \in files[g] : Scanning(g, p) => Scanning(g, p)'
        /\ \A g \in Folders : \A p \in files[g] \ Hidden : Unscanned(g) => Unscanned(g)' \/ Scanning(g, p)'
        /\ \A u \in Syncs, g \in Folders, p \in Files : Inserting(u, g, p)' => Inserting(u, g, p)
    BY <1>10, <2>1, <2>2, <2>3 DEF Inserting
  <2> QED
    BY <2>2, <2>4, <2>5, TellsStays DEF Live
<1>12. ASSUME t.pc \in {"scan", "insert", "publish"} PROVE f \in Folders /\ ~Unscanned(f)
  BY <1>1, <1>12 DEF Anchored, Unscanned
<1>13. CASE ScanFile(s)
  <2>1. PICK p \in t.scan :
          /\ Moves(s) /\ t.pc = "scan" /\ t2.folder = f /\ t2.scan = t.scan \ {p}
          /\ \/ p \in files[f] /\ t2.pc = "insert" /\ t2.file = p
             \/ p \notin files[f] /\ t2.pc = "scan"
    BY <1>13, ScanThread DEF ScanFile
  <2>2. UNCHANGED <<owner, status, watchVars, rows, files, gap>>
    BY <1>13 DEF ScanFile
  <2>3. \A g \in Folders : \A q \in files[g] : Scanning(g, q) => Scanning(g, q)'
    <3>1. \A q \in files[f] : q \in t.scan => Scanning(f, q)'
      BY <2>1 DEF Scanning
    <3> QED
      BY <1>10, <2>1, <3>1
  <2>4. /\ \A g \in Folders : Unscanned(g) => Unscanned(g)'
        /\ \A u \in Syncs, g \in Folders, q \in Files : Inserting(u, g, q)' => Inserting(u, g, q) \/ q \in files[g]
    BY <1>10, <1>12, <2>1, <2>2 DEF Inserting
  <2> QED
    BY <2>2, <2>3, <2>4, TellsStays DEF Live
<1>14. CASE InsertScanned(s)
  <2>1. Moves(s) /\ t.pc = "insert" /\ t2.pc = "scan" /\ t2.folder = f /\ t2.scan = t.scan
    BY <1>14, InsertThread DEF InsertScanned
  <2>2. rows' = rows \cup {<<f, t.file>>} /\ UNCHANGED <<owner, status, watchVars, files, gap>>
    BY <1>14 DEF InsertScanned
  <2>3. \A g \in Folders : \A q \in files[g] : Scanning(g, q) => Scanning(g, q)' \/ <<g, q>> \in rows'
    <3>1. \A q : q \in t.scan => Scanning(f, q)'
      BY <2>1 DEF Scanning
    <3> QED
      BY <1>10, <2>1, <2>2, <3>1
  <2>4. /\ \A g \in Folders : Unscanned(g) => Unscanned(g)'
        /\ \A u \in Syncs, g \in Folders, q \in Files : Inserting(u, g, q)' => Inserting(u, g, q)
    BY <1>10, <1>12, <2>1, <2>2 DEF Inserting
  <2>5. \A g \in Folders, q \in Files : <<g, q>> \in rows' => <<g, q>> \in rows \/ q \in files[g] \/ q \in gap'[g]
    BY <2>1, <2>2 DEF Tells, Gone
  <2> QED
    BY <2>2, <2>3, <2>4, <2>5, TellsStays DEF Live
<1>15. CASE StartObserver(s)
  <2>1. /\ t.pc = "scan" /\ t.scan = {} /\ t2.pc = "publish" /\ t2.folder = f
        /\ watch' = [watch EXCEPT ![t.obj] = "on"] /\ UNCHANGED <<objectVars, queue, busy, rows, diskVars>>
    BY <1>15, ObserverThread DEF StartObserver
  <2>2. \A w \in Objects : Live(w) => Live(w)'
    BY <1>1, <2>1 DEF TypeOK, Live
  <2>3. /\ \A g \in Folders, q \in Files : Scanning(g, q) => Scanning(g, q)'
        /\ \A g \in Folders : Unscanned(g) => Unscanned(g)'
        /\ \A u \in Syncs, g \in Folders, q \in Files : Inserting(u, g, q)' => Inserting(u, g, q)
    BY <1>10, <1>12, <1>15, <2>1, ObserverThread DEF Inserting
  <2>4. \A g \in Folders : files[g] \subseteq Files
    BY <1>1 DEF TypeOK
  <2> QED
    BY <2>1, <2>2, <2>3, <2>4, TellsStays
<1>16. CASE Publish(s)
  <2>1. /\ t.pc = "publish" /\ Moves(s) /\ t2.pc = "next" /\ t.obj # 0 /\ owner[t.obj] = f
        /\ watch' = [watch EXCEPT ![t.obj] = "set"] /\ status' = [status EXCEPT ![t.obj] = "INDEXED"]
        /\ UNCHANGED <<owner, queue, busy, rows, diskVars>>
    BY <1>1, <1>16, DoneStep DEF Publish, Anchored
  <2>2. \A w \in Objects : Live(w) => Live(w)'
    BY <1>1, <2>1 DEF TypeOK, Live
  <2>3. \A w \in Objects : status'[w] = "INDEXED" => status[w] = "INDEXED" \/ owner[w] = f
    BY <1>1, <2>1 DEF TypeOK
  <2> QED
    BY <2>1, <2>2, <2>3, LeavesTells
<1> QED
  BY <1>2, <1>3, <1>4, <1>5, <1>6, <1>8, <1>9, <1>11, <1>13, <1>14, <1>15, <1>16, <1>17 DEF Sync, ListRoot

\* An observer takes the first event: what it removes is not there or comes back.
LEMMA HandledTells ==
    ASSUME Typed, Tells, NEW w \in Objects, Live(w), busy[w] = None, owner[w] \in Folders,
           \A v \in Objects : v # w => queue'[v] = queue[v] /\ busy'[v] = busy[v],
           UNCHANGED <<sync, owner, status, watch, files, gap>>,
           \A p : Recovers(queue[w], p) => Recovers(queue'[w], p),
           \A p : Goes(queue[w], p) => Goes(queue'[w], p) \/ <<owner[w], p>> \notin rows',
           \A p \in files[owner[w]] : Comes(queue[w], p) => Comes(queue'[w], p) \/ busy'[w] = p,
           rows' \subseteq rows,
           \A f, p : <<f, p>> \in rows /\ <<f, p>> \notin rows'
                        => f = owner[w] /\ (p \in files[f] => Comes(queue'[w], p)),
           busy'[w] \in files[owner[w]] \cup {None}
    PROVE  Tells'
<1> DEFINE g == owner[w]
<1>1. \A v \in Objects : Live(v) <=> Live(v)'
  BY DEF Live
<1>2. \A p \in Files : p # None
  BY IndexAssumption DEF IndexAssumption
<1>3. \A f \in Folders : files[f] \subseteq Files
  BY DEF Typed, TypeOK
<1>4. EndsTrue'
  <2> SUFFICES ASSUME NEW v \in Objects, Live(v), NEW p \in files[owner[v]] PROVE Recovers(queue'[v], p)
    BY <1>1 DEF EndsTrue
  <2>1. Recovers(queue[v], p)
    BY DEF Tells, EndsTrue
  <2> QED
    BY <2>1
<1>5. Found'
  <2> SUFFICES ASSUME NEW f \in Folders, NEW p \in files[f] \ gap[f]
               PROVE  <<f, p>> \in rows' \/ Scanning(f, p)' \/ Following(f, p)' \/ (Unscanned(f)' /\ p \notin Hidden)
    BY DEF Found
  <2>1. p # None
    BY <1>2, <1>3
  <2>2. <<f, p>> \in rows \/ Scanning(f, p) \/ Following(f, p) \/ (Unscanned(f) /\ p \notin Hidden)
    BY DEF Tells, Found
  <2>3. CASE <<f, p>> \in rows
    BY <1>1, <2>3 DEF Following
  <2>4. CASE Following(f, p)
    <3>1. PICK v \in Objects : Live(v) /\ owner[v] = f /\ (busy[v] = p \/ Comes(queue[v], p))
      BY <2>4 DEF Following
    <3>2. busy'[v] = p \/ Comes(queue'[v], p)
      BY <2>1, <3>1
    <3> QED
      BY <1>1, <3>1, <3>2 DEF Following
  <2>5. CASE Scanning(f, p) \/ (Unscanned(f) /\ p \notin Hidden)
    BY <2>5 DEF Scanning, Unscanned
  <2> QED
    BY <2>2, <2>3, <2>4, <2>5
<1>6. Gone'
  <2> SUFFICES ASSUME NEW f \in Folders, NEW p \in (Files \ files[f]) \ gap[f]
               PROVE  /\ <<f, p>> \in rows' => \E v \in Objects : Live(v)' /\ owner'[v] = f /\ Goes(queue'[v], p)
                      /\ \A v \in Objects : owner'[v] = f /\ busy'[v] = p => Goes(queue'[v], p)
                      /\ \A u \in Syncs : ~(sync'[u].folder = f /\ sync'[u].pc = "insert" /\ sync'[u].file = p)
    BY DEF Gone
  <2>1. /\ <<f, p>> \in rows => \E v \in Objects : Live(v) /\ owner[v] = f /\ Goes(queue[v], p)
        /\ \A v \in Objects : owner[v] = f /\ busy[v] = p => Goes(queue[v], p)
        /\ \A u \in Syncs : ~Inserting(u, f, p)
    BY DEF Tells, Gone, Inserting
  <2>2. p # None
    BY <1>2
  <2>3. ASSUME <<f, p>> \in rows' PROVE \E v \in Objects : Live(v)' /\ owner[v] = f /\ Goes(queue'[v], p)
    <3>1. PICK v \in Objects : Live(v) /\ owner[v] = f /\ Goes(queue[v], p)
      BY <2>1, <2>3
    <3>2. Goes(queue'[v], p)
      BY <2>3, <3>1
    <3> QED
      BY <1>1, <3>1, <3>2
  <2>4. \A v \in Objects : owner[v] = f /\ busy'[v] = p => Goes(queue'[v], p)
    BY <2>1, <2>2
  <2> QED
    BY <2>1, <2>3, <2>4 DEF Inserting
<1> QED
  BY <1>4, <1>5, <1>6 DEF Tells

LEMMA FinishTells == ASSUME Typed, Tells, NEW w \in Objects, FinishUpsert(w) PROVE Tells'
<1>1. /\ rows' = rows \cup {<<owner[w], busy[w]>>} /\ busy' = [busy EXCEPT ![w] = None] /\ busy[w] # None
      /\ UNCHANGED <<sync, owner, status, watch, queue, files, gap>>
  BY DEF FinishUpsert, objectVars, diskVars
<1>2. Live(w)
  BY <1>1 DEF Typed, Anchored
<1>3. \A v \in Objects : busy'[v] = (IF v = w THEN None ELSE busy[v]) /\ (Live(v) <=> Live(v)')
  BY <1>1 DEF Typed, TypeOK, Live
<1>4. \A p \in Files : p # None
  BY IndexAssumption DEF IndexAssumption
<1>5. EndsTrue'
  BY <1>1, <1>3 DEF Tells, EndsTrue
<1>6. Found'
  <2> SUFFICES ASSUME NEW f \in Folders, NEW p \in files[f] \ gap[f]
               PROVE  <<f, p>> \in rows' \/ Scanning(f, p)' \/ Following(f, p)' \/ (Unscanned(f)' /\ p \notin Hidden)
    BY <1>1 DEF Found
  <2>1. <<f, p>> \in rows \/ Scanning(f, p) \/ Following(f, p) \/ (Unscanned(f) /\ p \notin Hidden)
    BY DEF Tells, Found
  <2>2. Following(f, p) => Following(f, p)' \/ <<f, p>> \in rows'
    BY <1>1, <1>3 DEF Following
  <2>3. (Scanning(f, p) => Scanning(f, p)') /\ (Unscanned(f) => Unscanned(f)')
    BY <1>1 DEF Scanning, Unscanned
  <2> QED
    BY <1>1, <2>1, <2>2, <2>3
<1>7. Gone'
  <2> SUFFICES ASSUME NEW f \in Folders, NEW p \in (Files \ files[f]) \ gap[f]
               PROVE  /\ <<f, p>> \in rows' => \E v \in Objects : Live(v)' /\ owner[v] = f /\ Goes(queue[v], p)
                      /\ \A v \in Objects : owner[v] = f /\ busy'[v] = p => Goes(queue[v], p)
                      /\ \A u \in Syncs : ~Inserting(u, f, p)
    BY <1>1 DEF Gone, Inserting
  <2>1. /\ <<f, p>> \in rows => \E v \in Objects : Live(v) /\ owner[v] = f /\ Goes(queue[v], p)
        /\ \A v \in Objects : owner[v] = f /\ busy[v] = p => Goes(queue[v], p)
        /\ \A u \in Syncs : ~Inserting(u, f, p)
    BY DEF Tells, Gone, Inserting
  <2> QED
    BY <1>1, <1>2, <1>3, <1>4, <2>1
<1> QED
  BY <1>5, <1>6, <1>7 DEF Tells

LEMMA ObserverTells == ASSUME Typed, Tells, NEW w \in Objects, Observer(w) PROVE Tells'
<1> DEFINE q == queue[w]
           h == Head(q)
           g == owner[w]
<1> USE DEF driverVars, listVars, objectVars, diskVars
<1>1. CASE FinishUpsert(w)
  BY <1>1, FinishTells
<1>2. CASE HandleUpsert(w) \/ HandleRemove(w) \/ HandleMoved(w)
  <2>1. /\ Live(w) /\ busy[w] = None /\ q # <<>> /\ q \in Seq(Event) /\ h \in Event /\ g \in Folders
        /\ UNCHANGED <<sync, owner, status, watch, files, gap>>
        /\ \A v \in Objects : v # w => queue'[v] = queue[v] /\ busy'[v] = busy[v]
    BY <1>2, HeadEvent DEF HandleUpsert, HandleRemove, HandleMoved, LookUp, Typed, TypeOK, Anchored, Live
  <2>2. \A p \in files[g] : Recovers(q, p)
    BY <2>1 DEF Tells, EndsTrue
  <2>3. CASE HandleUpsert(w)
    <3>1. /\ queue'[w] = Tail(q) /\ busy'[w] = (IF h.file \in files[g] THEN h.file ELSE None)
          /\ rows' = rows /\ h.kind = "upsert"
      BY <2>3 DEF HandleUpsert, LookUp, Typed, TypeOK
    <3>2. \A p : ~Removes(h, p) /\ (Inserts(h, p) => h.file = p)
      BY <3>1 DEF Removes, Inserts
    <3>3. /\ \A p : Recovers(q, p) => Recovers(queue'[w], p)
          /\ \A p : Goes(q, p) => Goes(queue'[w], p)
          /\ \A p \in files[g] : Comes(q, p) => Comes(queue'[w], p) \/ busy'[w] = p
      BY <2>1, <3>1, <3>2, QueueHandled
    <3>4. busy'[w] \in files[g] \cup {None}
      BY <3>1
    <3> QED
      BY <2>1, <3>1, <3>3, <3>4, HandledTells
  \* A row goes, and comes back where the file is there.
  <2>4. ASSUME rows' = rows \ {<<g, h.file>>}, h.kind \in {"remove", "moved"}, busy' = busy,
               \A p : Recovers(q, p) => Recovers(queue'[w], p),
               \A p : Goes(q, p) /\ ~Removes(h, p) => Goes(queue'[w], p),
               \A p : Comes(q, p) => Comes(queue'[w], p),
               \A p : Recovers(q, p) /\ Removes(h, p) => Comes(queue'[w], p)
        PROVE  Tells'
    <3>1. \A p : Removes(h, p) <=> h.file = p
      BY <2>4 DEF Removes
    <3>2. \A p : Goes(q, p) => Goes(queue'[w], p) \/ <<g, p>> \notin rows'
      BY <2>4, <3>1
    <3>3. \A f, p : <<f, p>> \in rows /\ <<f, p>> \notin rows' => f = g /\ (p \in files[f] => Comes(queue'[w], p))
      BY <2>2, <2>4, <3>1
    <3>4. rows' \subseteq rows /\ busy'[w] \in files[g] \cup {None}
      BY <2>1, <2>4
    <3> QED
      BY <2>1, <2>4, <3>2, <3>3, <3>4, HandledTells
  <2>5. CASE HandleRemove(w)
    <3>1. queue'[w] = Tail(q) /\ busy' = busy /\ rows' = rows \ {<<g, h.file>>} /\ h.kind = "remove"
      BY <2>5 DEF HandleRemove, Typed, TypeOK
    <3>2. \A p : ~Inserts(h, p)
      BY <3>1 DEF Inserts
    <3>3. /\ \A p : Recovers(q, p) => Recovers(queue'[w], p)
          /\ \A p : Goes(q, p) /\ ~Removes(h, p) => Goes(queue'[w], p)
          /\ \A p : Comes(q, p) => Comes(queue'[w], p)
          /\ \A p : Recovers(q, p) /\ Removes(h, p) => Comes(queue'[w], p)
      BY <2>1, <3>1, <3>2, QueueHandled
    <3> QED
      BY <2>4, <3>1, <3>3
  <2>6. CASE HandleMoved(w)
    <3>1. /\ queue'[w] = <<[kind |-> "upsert", file |-> h.to]>> \o Tail(q) /\ busy' = busy
          /\ rows' = rows \ {<<g, h.file>>} /\ h.kind = "moved"
      BY <2>6 DEF HandleMoved, Typed, TypeOK
    <3>2. /\ \A p : Recovers(q, p) => Recovers(queue'[w], p)
          /\ \A p : Goes(q, p) /\ ~Removes(h, p) => Goes(queue'[w], p)
          /\ \A p : Comes(q, p) => Comes(queue'[w], p)
          /\ \A p : Recovers(q, p) /\ Removes(h, p) => Comes(queue'[w], p)
      BY <2>1, <3>1, QueueMoved
    <3> QED
      BY <2>4, <3>1, <3>2
  <2> QED
    BY <1>2, <2>3, <2>5, <2>6
<1> QED
  BY <1>1, <1>2 DEF Observer

LEMMA SameTells ==
    ASSUME Typed, Tells, UNCHANGED <<sync, owner, status, watchVars, rows, files, gap>> PROVE Tells'
<1>1. /\ \A f, p : Scanning(f, p) => Scanning(f, p)'
      /\ \A f : Unscanned(f) => Unscanned(f)'
      /\ \A u, f, p : Inserting(u, f, p)' => Inserting(u, f, p)
      /\ \A w : Live(w) => Live(w)'
  BY DEF Scanning, Unscanned, Inserting, Live, watchVars
<1> QED
  BY <1>1, TellsStays DEF watchVars

\* The files in P of folder f change, and those who watch it are told the truth.
LEMMA ChangeTells ==
    ASSUME Typed, Tells, NEW f \in Folders, NEW P \in SUBSET Files, Changed(f, P),
           NEW e \in Event, Notify(f, e), NEW F \in SUBSET Files, files' = [files EXCEPT ![f] = F],
           \A p \in Files \ P : (p \in F <=> p \in files[f]) /\ ~Removes(e, p),
           \A p \in P \cap F : Inserts(e, p) /\ ~Removes(e, p),
           \A p \in P \ F : Removes(e, p)
    PROVE  Tells'
<1>1. /\ UNCHANGED <<sync, owner, status, watch, busy, rows>>
      /\ \A g \in Folders : files'[g] = (IF g = f THEN F ELSE files[g]) /\ files[g] \subseteq Files
      /\ \A g \in Folders : g # f => gap'[g] = gap[g]
      /\ gap'[f] = (IF Seen(f) THEN gap[f] \ P ELSE gap[f] \cup P)
  BY DEF Changed, objectVars, Typed, TypeOK
<1>2. /\ \A w \in Objects : queue[w] \in Seq(Event)
      /\ \A w \in Objects : Live(w) /\ owner[w] = f => queue'[w] = Append(queue[w], e)
      /\ \A w \in Objects : ~(Live(w) /\ owner[w] = f) => queue'[w] = queue[w]
      /\ \A w \in Objects : Live(w) <=> Live(w)'
  <2>1. \A w \in Objects : queue[w] \in Seq(Event)
    BY DEF Typed, TypeOK
  <2>2. \A w \in Objects : queue'[w] = IF Live(w) /\ owner[w] = f THEN Append(queue[w], e) ELSE queue[w]
    BY NotifyType DEF Typed
  <2>3. \A w \in Objects : Live(w) <=> Live(w)'
    BY <1>1 DEF Live
  <2> QED
    BY <2>1, <2>2, <2>3
<1>3. \A p \in Files : p # None
  BY IndexAssumption DEF IndexAssumption
<1>4. EndsTrue'
  <2> SUFFICES ASSUME NEW w \in Objects, Live(w), NEW p \in files'[owner[w]] PROVE Recovers(queue'[w], p)
    BY <1>1, <1>2 DEF EndsTrue
  <2>1. owner[w] \in Folders
    BY DEF Typed, Anchored, Live
  <2>2. CASE owner[w] # f
    BY <1>1, <1>2, <2>1, <2>2 DEF Tells, EndsTrue
  <2>3. CASE owner[w] = f
    <3>1. p \in F /\ queue'[w] = Append(queue[w], e) /\ p \in Files
      BY <1>1, <1>2, <2>3
    <3>2. p \notin P => Recovers(queue[w], p)
      BY <2>3, <3>1 DEF Tells, EndsTrue
    <3> QED
      BY <1>2, <3>1, <3>2, QueueAppend
  <2> QED
    BY <2>2, <2>3
\* What an observer is going to do it is still going to do.
<1>5. /\ \A w \in Objects : \A p : Goes(queue[w], p) => Goes(queue'[w], p)
      /\ \A w \in Objects : \A p : Comes(queue[w], p) => Comes(queue'[w], p)
  <2>1. \A q \in Seq(Event) : \A p : (Goes(q, p) => Goes(Append(q, e), p)) /\ (Comes(q, p) => Comes(Append(q, e), p))
    BY QueueAppend
  <2>2. \A w \in Objects : queue'[w] = queue[w] \/ queue'[w] = Append(queue[w], e)
    BY <1>2
  <2> QED
    BY <1>2, <2>1, <2>2
<1>6. Found'
  <2> SUFFICES ASSUME NEW g \in Folders, NEW p \in files'[g] \ gap'[g]
               PROVE  <<g, p>> \in rows' \/ Scanning(g, p)' \/ Following(g, p)' \/ (Unscanned(g)' /\ p \notin Hidden)
    BY DEF Found
  <2>1. p \in Files
    BY <1>1
  <2>2. CASE g = f /\ p \in P
    <3>1. Seen(f) /\ p \in F
      BY <1>1, <2>2
    <3>2. PICK w \in Objects : Live(w) /\ owner[w] = f
      BY <3>1 DEF Seen
    <3>3. Comes(queue'[w], p)
      <4>1. Inserts(e, p) /\ ~Removes(e, p)
        BY <2>2, <3>1
      <4>2. queue[w] \in Seq(Event) /\ queue'[w] = Append(queue[w], e)
        BY <1>2, <3>2
      <4> QED
        BY <4>1, <4>2, QueueAppend
    <3> QED
      BY <1>1, <1>2, <2>2, <3>2, <3>3 DEF Following
  <2>3. CASE ~(g = f /\ p \in P)
    <3>1. p \in files[g] \ gap[g]
      BY <1>1, <2>1, <2>3
    <3>2. <<g, p>> \in rows \/ Scanning(g, p) \/ Following(g, p) \/ (Unscanned(g) /\ p \notin Hidden)
      BY <3>1 DEF Tells, Found
    <3>3. (Scanning(g, p) => Scanning(g, p)') /\ (Unscanned(g) => Unscanned(g)')
      BY <1>1 DEF Scanning, Unscanned
    <3>4. Following(g, p) => Following(g, p)'
      BY <1>1, <1>2, <1>5 DEF Following
    <3> QED
      BY <1>1, <3>2, <3>3, <3>4
  <2> QED
    BY <2>2, <2>3
<1>7. Gone'
  <2> SUFFICES ASSUME NEW g \in Folders, NEW p \in (Files \ files'[g]) \ gap'[g]
               PROVE  /\ <<g, p>> \in rows' => \E w \in Objects : Live(w)' /\ owner'[w] = g /\ Goes(queue'[w], p)
                      /\ \A w \in Objects : owner'[w] = g /\ busy'[w] = p => Goes(queue'[w], p)
                      /\ \A s \in Syncs : ~(sync'[s].folder = g /\ sync'[s].pc = "insert" /\ sync'[s].file = p)
    BY DEF Gone
  <2>1. CASE g = f /\ p \in P
    <3>1. Seen(f) /\ Removes(e, p)
      BY <1>1, <2>1
    <3>2. \A w \in Objects : Live(w) /\ owner[w] = f => Goes(queue'[w], p)
      <4>1. \A q \in Seq(Event) : Goes(Append(q, e), p)
        BY <3>1, QueueAppend
      <4> QED
        BY <1>2, <4>1
    <3>3. \A w \in Objects : busy[w] = p => Live(w)
      BY <1>3 DEF Typed, Anchored
    <3> QED
      BY <1>1, <1>2, <2>1, <3>1, <3>2, <3>3 DEF Seen
  <2>2. CASE ~(g = f /\ p \in P)
    <3>1. p \in (Files \ files[g]) \ gap[g]
      BY <1>1, <2>2
    <3>2. /\ <<g, p>> \in rows => \E w \in Objects : Live(w) /\ owner[w] = g /\ Goes(queue[w], p)
          /\ \A w \in Objects : owner[w] = g /\ busy[w] = p => Goes(queue[w], p)
          /\ \A s \in Syncs : ~(sync[s].folder = g /\ sync[s].pc = "insert" /\ sync[s].file = p)
      BY <3>1 DEF Tells, Gone
    <3> QED
      BY <1>1, <1>2, <1>5, <3>2
  <2> QED
    BY <2>1, <2>2
<1> QED
  BY <1>4, <1>6, <1>7 DEF Tells

LEMMA EnvironmentTells == ASSUME Typed, Tells, Environment PROVE Tells'
<1>1. CASE Edit
  BY <1>1, SameTells DEF Edit, objectVars, watchVars, diskVars
<1>2. ASSUME NEW f \in Folders, RootVanishes(f) PROVE Tells'
  <2>1. /\ UNCHANGED <<sync, owner, status, watch, queue, busy, rows>>
        /\ \A g \in Folders : files'[g] = (IF g = f THEN {} ELSE files[g])
        /\ \A g \in Folders : gap'[g] = (IF g = f THEN Files ELSE gap[g])
    BY <1>2 DEF RootVanishes, objectVars, watchVars, Typed, TypeOK
  <2>2. \A w \in Objects : Live(w) => owner[w] \in Folders
    BY DEF Typed, Anchored, Live
  <2>3. EndsTrue'
    BY <2>1, <2>2 DEF Tells, EndsTrue, Live
  <2>4. \A g \in Folders : g # f => files'[g] = files[g] /\ gap'[g] = gap[g]
    BY <2>1
  <2>5. files'[f] = {} /\ gap'[f] = Files
    BY <2>1
  <2>6. Found'
    <3> SUFFICES ASSUME NEW g \in Folders, NEW p \in files'[g] \ gap'[g]
                 PROVE  <<g, p>> \in rows' \/ Scanning(g, p)' \/ Following(g, p)' \/ (Unscanned(g)' /\ p \notin Hidden)
      BY DEF Found
    <3>1. p \in files[g] \ gap[g]
      BY <2>4, <2>5
    <3>2. <<g, p>> \in rows \/ Scanning(g, p) \/ Following(g, p) \/ (Unscanned(g) /\ p \notin Hidden)
      BY <3>1 DEF Tells, Found
    <3>3. /\ Scanning(g, p) => Scanning(g, p)'
          /\ Following(g, p) => Following(g, p)'
          /\ Unscanned(g) => Unscanned(g)'
      BY <2>1 DEF Scanning, Following, Unscanned, Live
    <3> QED
      BY <2>1, <3>2, <3>3
  <2>7. Gone'
    <3> SUFFICES ASSUME NEW g \in Folders, NEW p \in (Files \ files'[g]) \ gap'[g]
                 PROVE  /\ <<g, p>> \in rows' => \E w \in Objects : Live(w)' /\ owner'[w] = g /\ Goes(queue'[w], p)
                        /\ \A w \in Objects : owner'[w] = g /\ busy'[w] = p => Goes(queue'[w], p)
                        /\ \A s \in Syncs : ~(sync'[s].folder = g /\ sync'[s].pc = "insert" /\ sync'[s].file = p)
      BY DEF Gone
    <3>1. p \in (Files \ files[g]) \ gap[g]
      BY <2>4, <2>5
    <3>2. /\ <<g, p>> \in rows => \E w \in Objects : Live(w) /\ owner[w] = g /\ Goes(queue[w], p)
          /\ \A w \in Objects : owner[w] = g /\ busy[w] = p => Goes(queue[w], p)
          /\ \A s \in Syncs : ~(sync[s].folder = g /\ sync[s].pc = "insert" /\ sync[s].file = p)
      BY <3>1 DEF Tells, Gone
    <3> QED
      BY <2>1, <3>2 DEF Live
  <2> QED
    BY <2>3, <2>6, <2>7 DEF Tells
<1>3. ASSUME NEW f \in Folders, NEW p \in Files, WriteFile(f, p) PROVE Tells'
  <2> DEFINE e == [kind |-> "upsert", file |-> p]
  <2>1. e \in Event /\ \A q : ~Removes(e, q) /\ (Inserts(e, q) <=> q = p)
    BY DEF Event, Removes, Inserts
  <2>2. files[f] \cup {p} \in SUBSET Files
    BY DEF Typed, TypeOK
  <2>3. Changed(f, {p}) /\ Notify(f, e) /\ files' = [files EXCEPT ![f] = files[f] \cup {p}]
    BY <1>3 DEF WriteFile
  <2> HIDE DEF e
  <2> QED
    BY <2>1, <2>2, <2>3, ChangeTells
<1>4. ASSUME NEW f \in Folders, NEW p \in Files, DeleteFile(f, p) PROVE Tells'
  <2> DEFINE e == [kind |-> "remove", file |-> p]
  <2>1. e \in Event /\ \A q : ~Inserts(e, q) /\ (Removes(e, q) <=> q = p)
    BY DEF Event, Removes, Inserts
  <2>2. files[f] \ {p} \in SUBSET Files
    BY DEF Typed, TypeOK
  <2>3. Changed(f, {p}) /\ Notify(f, e) /\ files' = [files EXCEPT ![f] = files[f] \ {p}]
    BY <1>4 DEF DeleteFile
  <2> DEFINE F == files[f] \ {p}
  <2>4. /\ \A r \in Files \ {p} : (r \in F <=> r \in files[f]) /\ ~Removes(e, r)
        /\ \A r \in {p} \cap F : Inserts(e, r) /\ ~Removes(e, r)
        /\ \A r \in {p} \ F : Removes(e, r)
    BY <2>1
  <2>5. F \in SUBSET Files /\ {p} \in SUBSET Files /\ files' = [files EXCEPT ![f] = F]
    BY <2>2, <2>3
  <2> HIDE DEF e, F
  <2> QED
    BY <2>1, <2>3, <2>4, <2>5, ChangeTells
<1>5. ASSUME NEW f \in Folders, NEW p \in Files, NEW q \in Files, MoveFile(f, p, q) PROVE Tells'
  <2> DEFINE e == [kind |-> "moved", file |-> p, to |-> q]
             F == (files[f] \ {p}) \cup {q}
  <2>1. e \in Event /\ \A r : (Inserts(e, r) <=> r = q) /\ (Removes(e, r) <=> r = p)
    BY DEF Event, Removes, Inserts
  <2>2. F \in SUBSET Files /\ {p, q} \in SUBSET Files
    BY DEF Typed, TypeOK
  <2>3. Changed(f, {p, q}) /\ Notify(f, e) /\ files' = [files EXCEPT ![f] = F] /\ p # q
    BY <1>5 DEF MoveFile
  <2>4. /\ \A r \in Files \ {p, q} : (r \in F <=> r \in files[f]) /\ ~Removes(e, r)
        /\ \A r \in {p, q} \cap F : Inserts(e, r) /\ ~Removes(e, r)
        /\ \A r \in {p, q} \ F : Removes(e, r)
    BY <2>1, <2>3
  <2> HIDE DEF e, F
  <2> QED
    BY <2>1, <2>2, <2>3, <2>4, ChangeTells
<1> QED
  BY <1>1, <1>2, <1>3, <1>4, <1>5 DEF Environment

LEMMA StepTells == Typed /\ Grounded /\ Tells /\ [Next]_vars => Tells'
<1>1. ASSUME Typed, Tells, UNCHANGED vars PROVE Tells'
  BY <1>1, SameTells DEF vars, objectVars, diskVars
<1> QED
  BY <1>1, DriverTells, SyncTells, ObserverTells, EnvironmentTells DEF Next

\* An INDEXED folder with nothing on its way into the table has a row for a file
\* if and only if it exists, for all that did not change behind the backs of scan
\* and observer, whatever is saved, dropped, scanned again and reported meanwhile.
THEOREM IndexIsConsistent == Spec => []IndexConsistent
<1>1. Spec => [](Typed /\ Grounded)
  BY InitTyped, InitGrounded, StepTyped, PTL DEF Spec
<1>2. Spec => []Tells
  BY <1>1, InitTells, StepTells, PTL DEF Spec
<1> QED
  BY <1>1, <1>2, TellsSuffices, PTL
-----------------------------------------------------------------------------
(* A status settles: what StatusSettles needs besides fairness.             *)

\* A thread is at work on the object.
Attended(w) ==
    \E s \in Syncs : sync[s].obj = w /\ sync[s].pc \in {"list", "scan", "insert", "publish"}

Stuck(w) == status[w] = "INDEXING" /\ ~Attended(w)

\* An object is never left INDEXING, whichever threads drop and scan it, but for the
\* one at which sync_folders ends with an exception: the database refuses a row, or
\* observer.start() raises (file_index.py 149-174, 194-205).
OnlyExceptionsStick ==
    [][\A w \in Objects : ~Stuck(w) /\ Stuck(w)' => \E s \in Syncs : SyncRaises(s) /\ sync[s].obj = w]_vars

\* What a step of a thread does to the objects that are INDEXING.
LEMMA SyncAttends ==
    ASSUME Typed, NEW s \in Syncs, Sync(s), NEW w \in Objects, status'[w] = "INDEXING",
           status[w] = "INDEXING" => sync[s].obj = w /\ sync[s].pc \in {"list", "scan", "insert", "publish"}
    PROVE  \/ sync'[s].obj = w /\ sync'[s].pc \in {"list", "scan", "insert", "publish"}
           \/ SyncRaises(s) /\ sync[s].obj = w
<1> USE DEF objectVars
<1>1. CASE Compare(s) \/ PopFolder(s) \/ JoinObserver(s) \/ NextFolder(s)
  BY <1>1 DEF Compare, PopFolder, JoinObserver, NextFolder
<1>2. CASE Enter(s)
  <2>1. sync'[s].pc = "list" /\ sync'[s].obj = made + 1 /\ sync[s].pc = "enter"
    BY <1>2, EnterThread DEF Typed, Enter
  <2>2. w = made + 1
    BY <1>2, <2>1 DEF Enter, Typed, TypeOK
  <2> QED
    BY <2>1, <2>2
<1>3. ASSUME sync[s].obj \in 0..MaxTracked, Unavailable(s) PROVE FALSE
  BY <1>3 DEF Unavailable, Typed, TypeOK
<1>4. sync[s].obj \in 0..MaxTracked
  BY DEF Typed, TypeOK
<1>5. CASE ListRoot(s)
  <2>1. there[sync[s].folder] /\ status' = status
    BY <1>3, <1>4, <1>5 DEF ListRoot
  <2> QED
    BY <1>5, <2>1, ListThread
<1>6. CASE ScanFails(s)
  BY <1>3, <1>4, <1>6 DEF ScanFails
<1>7. CASE ScanFile(s)
  BY <1>7, ScanThread DEF ScanFile
<1>8. CASE InsertScanned(s)
  BY <1>8, InsertThread DEF InsertScanned
<1>9. CASE StartObserver(s)
  BY <1>9, ObserverThread DEF StartObserver
<1>11. CASE SyncRaises(s)
  BY <1>11 DEF SyncRaises
<1>10. CASE Publish(s)
  BY <1>4, <1>10 DEF Publish, Typed, TypeOK
<1> QED
  BY <1>1, <1>2, <1>5, <1>6, <1>7, <1>8, <1>9, <1>10, <1>11 DEF Sync

\* Every object of every folder is followed to a status (file_index.py 135-174).
THEOREM OnlyExceptionsStay == Spec => OnlyExceptionsStick
<1>1. ASSUME Typed, Grounded, [Next]_vars, NEW w \in Objects, ~Stuck(w), Stuck(w)'
      PROVE  \E s \in Syncs : SyncRaises(s) /\ sync[s].obj = w
  <2>1. /\ status'[w] = "INDEXING" /\ (status[w] = "INDEXING" => Attended(w))
        /\ \A s \in Syncs : ~(sync'[s].obj = w /\ sync'[s].pc \in {"list", "scan", "insert", "publish"})
    BY <1>1 DEF Stuck, Attended
  <2>2. ASSUME UNCHANGED <<status, sync>> PROVE FALSE
    BY <2>1, <2>2 DEF Attended
  <2>3. ASSUME LoadList \/ StartAgent \/ RefreshSees \/ RefreshLoads PROVE FALSE
    <3>1. PICK s \in Syncs, t \in Thread :
              /\ sync' = [sync EXCEPT ![s] = t] /\ t.obj = sync[s].obj
              /\ t.pc = sync[s].pc \/ sync[s].pc \in {"idle", "load"}
      BY <1>1, <2>3, DriverThread
    <3>2. sync'[s] = t /\ \A u \in Syncs : u # s => sync'[u] = sync[u]
      BY <1>1, <3>1, ThreadSteps DEF Typed
    <3>3. status' = status
      BY <2>3 DEF LoadList, StartAgent, RefreshSees, RefreshLoads, objectVars
    <3> QED
      BY <2>1, <3>1, <3>2, <3>3 DEF Attended
  <2>4. ASSUME NEW s \in Syncs, Sync(s) PROVE SyncRaises(s) /\ sync[s].obj = w
    <3>1. \A u \in Syncs : u # s => sync'[u] = sync[u]
      BY <1>1, <2>4, SyncMoves DEF Moves
    <3>2. status[w] = "INDEXING" => sync[s].obj = w /\ sync[s].pc \in {"list", "scan", "insert", "publish"}
      BY <2>1, <3>1 DEF Attended
    <3> QED
      BY <1>1, <2>1, <2>4, <3>2, SyncAttends
  <2>5. ASSUME NEW o \in Objects, Observer(o) PROVE FALSE
    BY <2>2, <2>5 DEF Observer, HandleUpsert, HandleRemove, HandleMoved, FinishUpsert, objectVars
  <2>6. ASSUME Environment PROVE FALSE
    BY <2>2, <2>6 DEF Environment, Edit, RootVanishes, WriteFile, DeleteFile, MoveFile, Changed, objectVars
  <2>7. ASSUME UNCHANGED vars PROVE FALSE
    BY <2>2, <2>7 DEF vars, objectVars
  <2> QED
    BY <1>1, <2>3, <2>4, <2>5, <2>6, <2>7 DEF Next
<1>2. Spec => [](Typed /\ Grounded)
  BY InitTyped, InitGrounded, StepTyped, PTL DEF Spec
<1>3. Typed /\ Grounded /\ [Next]_vars =>
        [\A w \in Objects : ~Stuck(w) /\ Stuck(w)' => \E s \in Syncs : SyncRaises(s) /\ sync[s].obj = w]_vars
  BY <1>1
<1> QED
  BY <1>2, <1>3, PTL DEF Spec, OnlyExceptionsStick

-----------------------------------------------------------------------------
(* A saved list is followed: what EditIsFollowed needs besides fairness.    *)

\* What the tray's thread has done and has yet to do makes up the list.
InLine(t) ==
    \/ t.pc = "load"
    \/ t.pc = "compare" /\ t.todo = list
    \/ t.pc \in {"drop", "join"} /\ t.todo = list /\ t.drop = Tracked \ list
    \/ /\ t.pc \in {"next", "list", "scan", "insert", "publish"}
       /\ Tracked \subseteq list /\ t.todo \subseteq list /\ list \subseteq Tracked \cup t.todo
    \/ /\ t.pc = "enter"
       /\ Tracked \subseteq list /\ t.todo \subseteq list /\ t.folder \in list
       /\ list \subseteq Tracked \cup t.todo \cup {t.folder}
    \/ t.pc = "idle" /\ Tracked = list

\* The thread of the start is through, and the list was not saved since the tray
\* has looked at its time.
Follows == main = "up" /\ sync["boot"].pc = "idle" /\ mtime = edits /\ InLine(sync["tray"])

\* Once the thread of the start is through, the tray that notices a save follows it
\* to the end, and then the folders tracked are those of the list, unless sync_folders
\* ends with an exception.  The next save is the only other thing that makes them
\* differ (sync_folders, file_index.py 125-185; tray_app.py 386-392).
OnlyExceptionsEnd ==
    [][/\ RefreshSees /\ sync["boot"].pc = "idle" => Follows'
       /\ Follows => Follows' \/ Edit \/ SyncRaises("tray")]_vars

LEMMA TrayFollows ==
    ASSUME Typed, Follows, Sync("tray"), ~SyncRaises("tray") PROVE Follows'
<1> DEFINE r == sync["tray"]
           q == sync'["tray"]
<1>1. /\ r \in Thread /\ "tray" \in Syncs /\ "boot" \in Syncs /\ "boot" # "tray"
      /\ list \in SUBSET Folders /\ folders \in [Folders -> 0..MaxTracked]
  BY DEF Typed, TypeOK, Thread, Syncs
<1>2. UNCHANGED <<main, mtime>> /\ sync'["boot"] = sync["boot"] /\ r.pc # "idle"
  BY <1>1, SyncMoves DEF Moves, driverVars
<1>3. UNCHANGED <<list, edits>>
  BY DEF Sync, Compare, PopFolder, JoinObserver, NextFolder, Enter, ListRoot, ScanFails, SyncRaises, ScanFile, InsertScanned,
     StartObserver, Publish, listVars
<1>4. SUFFICES InLine(sync["tray"])'
  BY <1>2, <1>3 DEF Follows
<1>5. folders' = folders => Tracked' = Tracked
  BY DEF Tracked
<1>6. ASSUME NEW t \in Thread, sync' = [sync EXCEPT !["tray"] = t] PROVE q = t
  BY <1>1, <1>6, ThreadSteps DEF Typed
<1>7. ASSUME folders' = folders, r.pc \in {"list", "scan", "insert", "publish"}, q.todo = r.todo,
             q.pc \in {"next", "scan", "insert", "publish"}
      PROVE  InLine(sync["tray"])'
  BY <1>3, <1>5, <1>7 DEF Follows, InLine
<1>8. CASE Compare("tray")
  <2> DEFINE t == [r EXCEPT !.pc = "drop", !.drop = Tracked \ r.todo]
  <2>1. t \in Thread /\ t.pc = "drop" /\ t.todo = r.todo /\ t.drop = Tracked \ r.todo
    BY <1>1 DEF Thread, SyncPc, Tracked
  <2>2. q = t
    <3>1. sync' = [sync EXCEPT !["tray"] = t]
      BY <1>8 DEF Compare
    <3> HIDE DEF t
    <3> QED
      BY <1>6, <2>1, <3>1
  <2>3. r.pc = "compare" /\ Tracked' = Tracked
    BY <1>5, <1>8 DEF Compare, objectVars
  <2> QED
    BY <1>3, <2>1, <2>2, <2>3 DEF Follows, InLine
<1>9. CASE PopFolder("tray")
  <2>0. r.pc = "drop" /\ r.todo = list /\ r.drop = Tracked \ list
    BY <1>9 DEF PopFolder, Follows, InLine
  <2>1. CASE r.drop = {}
    <3> DEFINE t == [r EXCEPT !.pc = "next"]
    <3>1. t \in Thread /\ t.pc = "next" /\ t.todo = r.todo
      BY <1>1 DEF Thread, SyncPc
    <3>2. q = t /\ Tracked' = Tracked
      BY <1>5, <1>6, <1>9, <2>1, <3>1 DEF PopFolder, objectVars
    <3> QED
      BY <1>3, <2>0, <2>1, <3>1, <3>2 DEF InLine
  <2>2. CASE r.drop # {}
    <3>1. PICK f \in r.drop :
             LET w == folders[f] IN
             /\ folders' = [folders EXCEPT ![f] = 0]
             /\ sync' = [sync EXCEPT !["tray"].drop = @ \ {f},
                                     !["tray"].pc = IF w # 0 /\ watch[w] = "set" THEN "join" ELSE "drop",
                                     !["tray"].obj = IF w # 0 /\ watch[w] = "set" THEN w ELSE 0]
      BY <1>9, <2>2 DEF PopFolder
    <3> DEFINE set == folders[f] # 0 /\ watch[folders[f]] = "set"
               t == [r EXCEPT !.drop = @ \ {f}, !.pc = IF set THEN "join" ELSE "drop",
                              !.obj = IF set THEN folders[f] ELSE 0]
    <3>2. f \in Folders /\ folders[f] \in 0..MaxTracked
      BY <1>1, <3>1 DEF Thread
    <3>3. t \in Thread /\ t.pc \in {"drop", "join"} /\ t.todo = r.todo /\ t.drop = r.drop \ {f}
      BY <1>1, <3>2, Numbers DEF Thread, SyncPc
    <3>4. sync' = [sync EXCEPT !["tray"] = t]
      BY <3>1
    <3>5. Tracked' = Tracked \ {f}
      BY <1>1, <3>1, <3>2 DEF Tracked
    <3> HIDE DEF t
    <3>6. q = t
      BY <1>6, <3>3, <3>4
    <3> QED
      BY <1>3, <2>0, <3>3, <3>5, <3>6 DEF InLine
  <2> QED
    BY <2>1, <2>2
<1>10. CASE JoinObserver("tray")
  <2> DEFINE t == [r EXCEPT !.pc = "drop", !.obj = 0]
  <2>1. t \in Thread /\ t.pc = "drop" /\ t.todo = r.todo /\ t.drop = r.drop
    BY <1>1, Numbers DEF Thread, SyncPc
  <2>2. q = t
    BY <1>6, <1>10, <2>1 DEF JoinObserver
  <2>3. r.pc = "join" /\ Tracked' = Tracked
    BY <1>5, <1>10 DEF JoinObserver, objectVars
  <2> QED
    BY <1>3, <2>1, <2>2, <2>3 DEF Follows, InLine
<1>11. CASE NextFolder("tray")
  <2>0. /\ r.pc = "next" /\ Tracked' = Tracked
        /\ Tracked \subseteq list /\ r.todo \subseteq list /\ list \subseteq Tracked \cup r.todo
    BY <1>5, <1>11 DEF NextFolder, Follows, InLine, objectVars
  <2>1. CASE r.todo = {}
    <3>1. q = Idle
      BY <1>6, <1>11, <2>1, IdleThread DEF NextFolder
    <3>2. q.pc = "idle"
      BY <3>1 DEF Idle
    <3> QED
      BY <1>3, <2>0, <2>1, <3>2 DEF InLine
  <2>2. CASE r.todo # {}
    <3>1. PICK f \in r.todo :
             sync' = [sync EXCEPT !["tray"].todo = @ \ {f},
                                  !["tray"].pc = IF f \in Tracked THEN "next" ELSE "enter",
                                  !["tray"].folder = IF f \in Tracked THEN None ELSE f]
      BY <1>11, <2>2 DEF NextFolder
    <3> DEFINE t == [r EXCEPT !.todo = @ \ {f}, !.pc = IF f \in Tracked THEN "next" ELSE "enter",
                              !.folder = IF f \in Tracked THEN None ELSE f]
    <3>2. /\ t \in Thread /\ t.todo = r.todo \ {f}
          /\ t.pc = IF f \in Tracked THEN "next" ELSE "enter"
          /\ f \notin Tracked => t.folder = f
      BY <1>1, <3>1 DEF Thread, SyncPc
    <3>3. sync' = [sync EXCEPT !["tray"] = t]
      BY <3>1
    <3> HIDE DEF t
    <3>4. q = t
      BY <1>6, <3>2, <3>3
    <3> QED
      BY <1>3, <2>0, <3>1, <3>2, <3>4 DEF InLine
  <2> QED
    BY <2>1, <2>2
<1>12. CASE Enter("tray")
  <2> DEFINE t == [r EXCEPT !.pc = "list", !.obj = made + 1]
  <2>1. t \in Thread /\ t.pc = "list" /\ t.todo = r.todo
    <3>1. made + 1 \in 0..MaxTracked
      BY <1>1, <1>12, EnterThread, Numbers DEF Typed
    <3> QED
      BY <1>1, <3>1 DEF Thread, SyncPc
  <2>2. q = t
    BY <1>6, <1>12, <2>1 DEF Enter
  <2>3. r.pc = "enter" /\ r.folder \in Folders /\ folders' = [folders EXCEPT ![r.folder] = made + 1] /\ made + 1 # 0
    BY <1>1, <1>12, EnterThread, Numbers DEF Enter, Typed, Anchored
  <2>4. Tracked' = Tracked \cup {r.folder}
    BY <1>1, <2>3 DEF Tracked
  <2> QED
    BY <1>3, <2>1, <2>2, <2>3, <2>4 DEF Follows, InLine
<1>13. ASSUME sync' = [sync EXCEPT !["tray"] = Done(@)] PROVE q.pc = "next" /\ q.todo = r.todo
  <2>1. Done(r) \in Thread /\ Done(r).pc = "next" /\ Done(r).todo = r.todo
    BY <1>1, DoneThread DEF Done, Thread
  <2> QED
    BY <1>6, <1>13, <2>1
<1>14. CASE ListRoot("tray")
  <2>1. r.pc = "list" /\ folders' = folders
    BY <1>14 DEF ListRoot
  <2>2. CASE there[r.folder]
    <3> DEFINE t == [r EXCEPT !.pc = "scan", !.scan = files[r.folder] \ Hidden]
    <3>1. files[r.folder] \ Hidden \in SUBSET Files
      BY <1>1, <2>1 DEF Typed, TypeOK, Anchored
    <3>2. t \in Thread /\ t.pc = "scan" /\ t.todo = r.todo
      BY <1>1, <3>1 DEF Thread, SyncPc
    <3>3. q = t
      <4>1. sync' = [sync EXCEPT !["tray"] = t]
        BY <1>14, <2>2 DEF ListRoot
      <4> HIDE DEF t
      <4> QED
        BY <1>6, <3>2, <4>1
    <3> QED
      BY <1>7, <2>1, <3>2, <3>3
  <2>3. CASE ~there[r.folder]
    BY <1>7, <1>13, <1>14, <2>1, <2>3 DEF ListRoot, Unavailable
  <2> QED
    BY <2>2, <2>3
<1>15. CASE ScanFails("tray") \/ Publish("tray")
  <2>1. /\ sync' = [sync EXCEPT !["tray"] = Done(@)] /\ folders' = folders
        /\ r.pc \in {"scan", "publish"}
    BY <1>15 DEF ScanFails, Unavailable, Publish
  <2> QED
    BY <1>7, <1>13, <2>1
<1>16. CASE ScanFile("tray")
  <2>1. PICK p \in r.scan :
           sync' = [sync EXCEPT !["tray"].scan = @ \ {p},
                                !["tray"].pc = IF p \in files[r.folder] THEN "insert" ELSE "scan",
                                !["tray"].file = IF p \in files[r.folder] THEN p ELSE None]
    BY <1>16 DEF ScanFile
  <2> DEFINE t == [r EXCEPT !.scan = @ \ {p}, !.pc = IF p \in files[r.folder] THEN "insert" ELSE "scan",
                            !.file = IF p \in files[r.folder] THEN p ELSE None]
  <2>2. t \in Thread /\ t.pc \in {"scan", "insert"} /\ t.todo = r.todo
    BY <1>1, <2>1 DEF Thread, SyncPc
  <2>3. sync' = [sync EXCEPT !["tray"] = t]
    BY <2>1
  <2> HIDE DEF t
  <2>4. q = t /\ r.pc = "scan" /\ folders' = folders
    BY <1>6, <1>16, <2>2, <2>3 DEF ScanFile, objectVars
  <2> QED
    BY <1>7, <2>2, <2>4
<1>17. CASE InsertScanned("tray")
  <2> DEFINE t == [r EXCEPT !.pc = "scan", !.file = None]
  <2>1. t \in Thread /\ t.pc = "scan" /\ t.todo = r.todo
    BY <1>1 DEF Thread, SyncPc
  <2>2. q = t /\ r.pc = "insert" /\ folders' = folders
    BY <1>6, <1>17, <2>1 DEF InsertScanned, objectVars
  <2> QED
    BY <1>7, <2>1, <2>2
<1>18. CASE StartObserver("tray")
  <2> DEFINE t == [r EXCEPT !.pc = "publish"]
  <2>1. t \in Thread /\ t.pc = "publish" /\ t.todo = r.todo
    BY <1>1 DEF Thread, SyncPc
  <2>2. sync' = [sync EXCEPT !["tray"] = t] /\ r.pc = "scan" /\ folders' = folders
    BY <1>18 DEF StartObserver, objectVars
  <2>3. q = t
    BY <1>6, <2>1, <2>2
  <2> QED
    BY <1>7, <2>1, <2>2, <2>3
<1> QED
  BY <1>8, <1>9, <1>10, <1>11, <1>12, <1>14, <1>15, <1>16, <1>17, <1>18 DEF Sync

\* Once noticed, a saved list is followed, whatever folders it drops and adds
\* (file_index.py 125-185).
THEOREM OnlyExceptionsEndIt == Spec => OnlyExceptionsEnd
<1> DEFINE Keeps == /\ RefreshSees /\ sync["boot"].pc = "idle" => Follows'
                    /\ Follows => Follows' \/ Edit \/ SyncRaises("tray")
<1>1. ASSUME Typed, Grounded, RefreshSees, sync["boot"].pc = "idle" PROVE Follows'
  <2>1. /\ sync["tray"] \in Thread /\ sync["boot"] \in Thread /\ "tray" \in Syncs /\ "boot" \in Syncs
    BY <1>1 DEF Typed, TypeOK, Thread, Syncs
  <2>2. sync'["tray"].pc = "load" /\ sync'["boot"] = sync["boot"]
    BY <1>1, <2>1 DEF RefreshSees, Typed, TypeOK
  <2> QED
    BY <1>1, <2>2 DEF RefreshSees, Follows, InLine, listVars
<1>2. ASSUME Typed, Grounded, [Next]_vars, Follows, ~Edit, ~SyncRaises("tray") PROVE Follows'
  <2>1. ASSUME UNCHANGED <<list, edits, main, mtime, sync, folders>> PROVE Follows'
    BY <1>2, <2>1 DEF Follows, InLine, Tracked
  <2>2. CASE LoadList \/ StartAgent
    BY <1>2, <2>2 DEF Follows, LoadList, StartAgent
  <2>3. CASE RefreshSees
    BY <1>1, <1>2, <2>3 DEF Follows
  <2>4. CASE RefreshLoads
    <3>1. sync["tray"] \in Thread /\ "tray" \in Syncs /\ "boot" \in Syncs
      BY <1>2 DEF Typed, TypeOK, Thread, Syncs
    <3>2. sync'["tray"].pc = "compare" /\ sync'["tray"].todo = list /\ sync'["boot"] = sync["boot"]
      BY <1>2, <2>4, <3>1 DEF RefreshLoads, Typed, TypeOK
    <3> QED
      BY <1>2, <2>4, <3>2 DEF RefreshLoads, Follows, InLine, driverVars, listVars
  <2>5. CASE Sync("tray")
    BY <1>2, <2>5, TrayFollows
  <2>6. CASE Sync("boot")
    BY <1>2, <2>6, SyncMoves DEF Follows, Syncs
  <2>7. ASSUME NEW o \in Objects, Observer(o) PROVE Follows'
    BY <2>1, <2>7 DEF Observer, HandleUpsert, HandleRemove, HandleMoved, FinishUpsert, driverVars, listVars, objectVars
  <2>8. CASE Environment
    BY <1>2, <2>1, <2>8 DEF Environment, RootVanishes, WriteFile, DeleteFile, MoveFile, Changed, driverVars,
       listVars, objectVars
  <2>9. CASE UNCHANGED vars
    BY <2>1, <2>9 DEF vars, driverVars, listVars, objectVars
  <2> QED
    BY <1>2, <2>2, <2>3, <2>4, <2>5, <2>6, <2>7, <2>8, <2>9 DEF Next, Syncs
<1>3. Spec => [](Typed /\ Grounded)
  BY InitTyped, InitGrounded, StepTyped, PTL DEF Spec
<1>4. Typed /\ Grounded /\ [Next]_vars => [Keeps]_vars
  BY <1>1, <1>2
<1> QED
  BY <1>3, <1>4, PTL DEF Spec, OnlyExceptionsEnd
=============================================================================
