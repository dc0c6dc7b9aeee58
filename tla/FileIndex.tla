----------------------------- MODULE FileIndex -----------------------------
(***************************************************************************)
(* The file index (file_index.py, FileIndexStore) and who drives it: the   *)
(* start of the tray (tray_app.py, start_agent), the sync_folders thread   *)
(* ContractPcRunner.start makes, and the tray's refresh thread, which      *)
(* calls sync_folders again when the folder list was saved.  A watchdog    *)
(* observer per folder feeds changes into the table of files.              *)
(*                                                                         *)
(* A step ends where a lock is released or the file system is looked at.   *)
(* A folder stands for its id and its root path, which the management      *)
(* window keeps together; file names, sizes and times are abstracted, so a *)
(* row is a folder and a file.                                             *)
(***************************************************************************)
EXTENDS Naturals, Sequences, FiniteSets

CONSTANTS
    Folders,        \* search folders
    Files,          \* file names inside a folder
    Hidden,         \* those of them with a part that begins with a dot
    None,           \* no folder, no file
    MaxTracked,     \* bound: _TrackedFolder objects over the whole behaviour
    MaxEdits,       \* bound: saves of the folder list
    MaxChanges      \* bound: changes of files

ASSUME IndexAssumption ==
    /\ None \notin Folders \cup Files /\ Hidden \subseteq Files
    /\ MaxTracked \in Nat /\ MaxEdits \in Nat /\ MaxChanges \in Nat

VARIABLES
    list,       \* search-folders.json
    edits,      \* how often it was saved: its modification time
    mtime,      \* _search_folders_mtime
    main,       \* where start_agent is
    failed,     \* objects sync_folders left behind with an exception
    sync,       \* the two threads that run sync_folders
    folders,    \* _folders: the number of the tracked object, 0 for none
    made,       \* objects made so far
    owner, status, watch,   \* per object: its folder, its status, its observer
    queue, busy,            \* per observer: its events, the file it is about to insert
    rows,       \* the files table
    there, files,           \* per folder: its root exists, the files in it
    gap,        \* per folder: files whose last change no watcher and no scan has to see
    changes

driverVars  == <<mtime, main, failed>>
objectVars  == <<folders, made, owner, status>>
watchVars   == <<watch, queue, busy>>
diskVars    == <<there, files, gap, changes>>
listVars    == <<list, edits>>
vars == <<listVars, driverVars, sync, objectVars, watchVars, rows, diskVars>>

Syncs   == {"boot", "tray"}
Objects == 1..MaxTracked
SyncPc  == {"idle", "load", "compare", "drop", "join", "next", "enter", "list",
            "scan", "insert", "publish"}
Event   == [kind : {"upsert", "remove"}, file : Files] \cup [kind : {"moved"}, file : Files, to : Files]
Idle    == [pc |-> "idle", todo |-> {}, drop |-> {}, folder |-> None, obj |-> 0, scan |-> {}, file |-> None]

TypeOK ==
    /\ list \in SUBSET Folders /\ edits \in Nat /\ mtime \in Nat
    /\ main \in {"load", "stat", "up"} /\ failed \in SUBSET Objects
    /\ sync \in [Syncs -> [pc : SyncPc, todo : SUBSET Folders, drop : SUBSET Folders,
                           folder : Folders \cup {None}, obj : 0..MaxTracked,
                           scan : SUBSET Files, file : Files \cup {None}]]
    /\ folders \in [Folders -> 0..MaxTracked] /\ made \in 0..MaxTracked
    /\ owner \in [Objects -> Folders \cup {None}]
    /\ status \in [Objects -> {"none", "INDEXING", "INDEXED", "UNAVAILABLE"}]
    /\ watch \in [Objects -> {"none", "on", "set", "stopped"}]
    /\ queue \in [Objects -> Seq(Event)] /\ busy \in [Objects -> Files \cup {None}]
    /\ rows \in SUBSET (Folders \X Files)
    /\ there \in [Folders -> BOOLEAN] /\ files \in [Folders -> SUBSET Files]
    /\ gap \in [Folders -> SUBSET Files]
    /\ changes \in Nat

\* The process starts.  Folders, files and the table are what an earlier one and
\* the time since have left: there may be rows for files that are gone, and hidden
\* files without a row, neither of which a scan puts right.
Init ==
    /\ list \in SUBSET Folders /\ edits = 0 /\ mtime = 0 /\ main = "load" /\ failed = {}
    /\ sync = [s \in Syncs |-> Idle]
    /\ folders = [f \in Folders |-> 0] /\ made = 0
    /\ owner = [w \in Objects |-> None] /\ status = [w \in Objects |-> "none"]
    /\ watch = [w \in Objects |-> "none"]
    /\ queue = [w \in Objects |-> <<>>] /\ busy = [w \in Objects |-> None]
    /\ there \in [Folders -> BOOLEAN]
    /\ files \in [Folders -> SUBSET Files]
    /\ \A f \in Folders : ~there[f] => files[f] = {}
    /\ rows \in SUBSET (Folders \X Files)
    /\ gap = [f \in Folders |-> {p \in Files : \/ <<f, p>> \in rows /\ p \notin files[f]
                                               \/ <<f, p>> \notin rows /\ p \in files[f] \cap Hidden}]
    /\ changes = 0

-----------------------------------------------------------------------------
(* start_agent and refresh *)

\* start_agent reads the list; the agent's thread will be given this list.
LoadList ==
    /\ main = "load" /\ main' = "stat"
    /\ sync' = [sync EXCEPT !["boot"].todo = list]
    /\ UNCHANGED <<mtime, failed, listVars, objectVars, watchVars, rows, diskVars>>

\* Then it reads the modification time, and the agent starts.
StartAgent ==
    /\ main = "stat" /\ main' = "up"
    /\ mtime' = edits
    /\ sync' = [sync EXCEPT !["boot"].pc = "compare"]
    /\ UNCHANGED <<failed, listVars, objectVars, watchVars, rows, diskVars>>

\* refresh: the time is remembered first, then the list is read.
RefreshSees ==
    /\ main = "up" /\ sync["tray"].pc = "idle" /\ mtime # edits
    /\ mtime' = edits
    /\ sync' = [sync EXCEPT !["tray"].pc = "load"]
    /\ UNCHANGED <<main, failed, listVars, objectVars, watchVars, rows, diskVars>>

RefreshLoads ==
    /\ sync["tray"].pc = "load"
    /\ sync' = [sync EXCEPT !["tray"].pc = "compare", !["tray"].todo = list]
    /\ UNCHANGED <<driverVars, listVars, objectVars, watchVars, rows, diskVars>>

-----------------------------------------------------------------------------
(* sync_folders, _ensure_watching and _stop_watching, run by thread s *)

Tracked == {f \in Folders : folders[f] # 0}

\* Faulty variant: the modification time is remembered only now.
CompareLate(s) ==
    /\ sync[s].pc = "compare"
    /\ sync' = [sync EXCEPT ![s].pc = "drop", ![s].drop = Tracked \ sync[s].todo]
    /\ mtime' = edits
    /\ UNCHANGED <<main, failed, listVars, objectVars, watchVars, rows, diskVars>>

\* Which folders are tracked and not listed.
Compare(s) ==
    /\ sync[s].pc = "compare"
    /\ sync' = [sync EXCEPT ![s].pc = "drop", ![s].drop = Tracked \ sync[s].todo]
    /\ UNCHANGED <<driverVars, listVars, objectVars, watchVars, rows, diskVars>>

\* _stop_watching: the folder is taken out; its observer, if the object has one
\* already, is stopped and joined.
PopFolder(s) ==
    /\ sync[s].pc = "drop"
    /\ IF sync[s].drop = {}
       THEN sync' = [sync EXCEPT ![s].pc = "next"] /\ UNCHANGED objectVars
       ELSE \E f \in sync[s].drop :
            LET w == folders[f] IN
            /\ folders' = [folders EXCEPT ![f] = 0]
            /\ sync' = [sync EXCEPT ![s].drop = @ \ {f},
                                    ![s].pc = IF w # 0 /\ watch[w] = "set" THEN "join" ELSE "drop",
                                    ![s].obj = IF w # 0 /\ watch[w] = "set" THEN w ELSE 0]
            /\ UNCHANGED <<made, owner, status>>
    /\ UNCHANGED <<driverVars, listVars, watchVars, rows, diskVars>>

\* What an observer has not come to when it stops stays undone.
Undone(w) == {queue[w][i].file : i \in DOMAIN queue[w]}
             \cup {queue[w][i].to : i \in {j \in DOMAIN queue[w] : queue[w][j].kind = "moved"}}

\* join() waits for the event being handled; the others are dropped.
JoinObserver(s) ==
    /\ sync[s].pc = "join"
    /\ LET w == sync[s].obj IN
       /\ busy[w] = None
       /\ watch' = [watch EXCEPT ![w] = "stopped"]
       /\ queue' = [queue EXCEPT ![w] = <<>>]
       /\ gap' = [gap EXCEPT ![owner[w]] = @ \cup Undone(w)]
    /\ sync' = [sync EXCEPT ![s].pc = "drop", ![s].obj = 0]
    /\ UNCHANGED <<driverVars, listVars, objectVars, busy, rows, there, files, changes>>

\* _ensure_watching, first lock: a folder already tracked is left alone.
NextFolder(s) ==
    /\ sync[s].pc = "next"
    /\ IF sync[s].todo = {}
       THEN sync' = [sync EXCEPT ![s] = Idle]
       ELSE \E f \in sync[s].todo :
            sync' = [sync EXCEPT ![s].todo = @ \ {f},
                                 ![s].pc = IF f \in Tracked THEN "next" ELSE "enter",
                                 ![s].folder = IF f \in Tracked THEN None ELSE f]
    /\ UNCHANGED <<driverVars, listVars, objectVars, watchVars, rows, diskVars>>

\* Second lock: a new object is entered, INDEXING.
Enter(s) ==
    /\ sync[s].pc = "enter" /\ made < MaxTracked
    /\ made' = made + 1
    /\ folders' = [folders EXCEPT ![sync[s].folder] = made + 1]
    /\ owner' = [owner EXCEPT ![made + 1] = sync[s].folder]
    /\ status' = [status EXCEPT ![made + 1] = "INDEXING"]
    /\ sync' = [sync EXCEPT ![s].pc = "list", ![s].obj = made + 1]
    /\ UNCHANGED <<driverVars, listVars, watchVars, rows, diskVars>>

\* The thread is done with this folder.
Done(t) == [t EXCEPT !.pc = "next", !.folder = None, !.obj = 0, !.scan = {}, !.file = None]

Unavailable(s) ==
    /\ status' = [status EXCEPT ![sync[s].obj] = "UNAVAILABLE"]
    /\ sync' = [sync EXCEPT ![s] = Done(@)]

\* What of folder f a scan that has come to an end has not entered stays undone.
LeftBehind(f, P) == gap' = [gap EXCEPT ![f] = @ \cup P]

\* root.exists(), and the files rglob() is going to yield: those with a part that
\* begins with a dot are passed over.
ListRoot(s) ==
    /\ sync[s].pc = "list"
    /\ LET f == sync[s].folder
           visible == files[f] \ Hidden IN
       IF there[f]
       THEN /\ sync' = [sync EXCEPT ![s].pc = "scan", ![s].scan = visible]
            /\ gap' = [gap EXCEPT ![f] = @ \ visible]
            /\ UNCHANGED status
       ELSE Unavailable(s) /\ UNCHANGED gap
    /\ UNCHANGED <<driverVars, listVars, folders, made, owner, watchVars, rows, there, files, changes>>

\* rglob() raises OSError: the root or a directory below it has gone away or
\* cannot be read.
ScanFails(s) ==
    /\ sync[s].pc = "scan"
    /\ Unavailable(s)
    /\ LeftBehind(sync[s].folder, sync[s].scan)
    /\ UNCHANGED <<driverVars, listVars, folders, made, owner, watchVars, rows, there, files, changes>>

\* What is outside the try or no OSError raises: the database refuses the row, or
\* observer.start() fails, on a root that has gone or at a limit of the system.
\* sync_folders ends there, and with it what is left of the list.
SyncRaises(s) ==
    /\ \/ sync[s].pc = "insert"
       \/ sync[s].pc = "scan" /\ sync[s].scan = {}
    /\ failed' = failed \cup {sync[s].obj}
    /\ LeftBehind(sync[s].folder, sync[s].scan \cup ({sync[s].file} \ {None}))
    /\ sync' = [sync EXCEPT ![s] = Idle]
    /\ UNCHANGED <<mtime, main, listVars, objectVars, watchVars, rows, there, files, changes>>

\* is_file() and stat() of the next path; what has gone is passed over.
ScanFile(s) ==
    /\ sync[s].pc = "scan"
    /\ \E p \in sync[s].scan :
          sync' = [sync EXCEPT ![s].scan = @ \ {p},
                               ![s].pc = IF p \in files[sync[s].folder] THEN "insert" ELSE "scan",
                               ![s].file = IF p \in files[sync[s].folder] THEN p ELSE None]
    /\ UNCHANGED <<driverVars, listVars, objectVars, watchVars, rows, diskVars>>

InsertScanned(s) ==
    /\ sync[s].pc = "insert"
    /\ rows' = rows \cup {<<sync[s].folder, sync[s].file>>}
    /\ sync' = [sync EXCEPT ![s].pc = "scan", ![s].file = None]
    /\ UNCHANGED <<driverVars, listVars, objectVars, watchVars, diskVars>>

\* observer.start().
StartObserver(s) ==
    /\ sync[s].pc = "scan" /\ sync[s].scan = {}
    /\ watch' = [watch EXCEPT ![sync[s].obj] = "on"]
    /\ sync' = [sync EXCEPT ![s].pc = "publish"]
    /\ UNCHANGED <<driverVars, listVars, objectVars, queue, busy, rows, diskVars>>

\* Faulty variant: the status is left as it is.
PublishSilently(s) ==
    /\ sync[s].pc = "publish"
    /\ watch' = [watch EXCEPT ![sync[s].obj] = "set"]
    /\ sync' = [sync EXCEPT ![s] = Done(@)]
    /\ UNCHANGED <<driverVars, listVars, objectVars, queue, busy, rows, diskVars>>

\* Faulty variant: a status that is none.
PublishReady(s) ==
    /\ sync[s].pc = "publish"
    /\ watch' = [watch EXCEPT ![sync[s].obj] = "set"]
    /\ status' = [status EXCEPT ![sync[s].obj] = "READY"]
    /\ sync' = [sync EXCEPT ![s] = Done(@)]
    /\ UNCHANGED <<driverVars, listVars, folders, made, owner, queue, busy, rows, diskVars>>

\* tracked.observer and tracked.status are set.
Publish(s) ==
    /\ sync[s].pc = "publish"
    /\ watch' = [watch EXCEPT ![sync[s].obj] = "set"]
    /\ status' = [status EXCEPT ![sync[s].obj] = "INDEXED"]
    /\ sync' = [sync EXCEPT ![s] = Done(@)]
    /\ UNCHANGED <<driverVars, listVars, folders, made, owner, queue, busy, rows, diskVars>>

Sync(s) ==
    \/ Compare(s) \/ PopFolder(s) \/ JoinObserver(s) \/ NextFolder(s) \/ Enter(s) \/ ListRoot(s)
    \/ ScanFails(s) \/ SyncRaises(s) \/ ScanFile(s) \/ InsertScanned(s) \/ StartObserver(s) \/ Publish(s)

-----------------------------------------------------------------------------
(* An observer's thread: _FolderEventHandler, _upsert_file, _remove_file *)

Live(w) == watch[w] \in {"on", "set"}

\* _upsert_file looks the file up first; one that has gone is passed over.
LookUp(w, p) == busy' = [busy EXCEPT ![w] = IF p \in files[owner[w]] THEN p ELSE None]

HandleUpsert(w) ==
    /\ Live(w) /\ busy[w] = None /\ queue[w] # <<>> /\ Head(queue[w]).kind = "upsert"
    /\ queue' = [queue EXCEPT ![w] = Tail(@)]
    /\ LookUp(w, Head(queue[w]).file)
    /\ UNCHANGED <<driverVars, listVars, sync, objectVars, watch, rows, diskVars>>

HandleRemove(w) ==
    /\ Live(w) /\ busy[w] = None /\ queue[w] # <<>> /\ Head(queue[w]).kind = "remove"
    /\ queue' = [queue EXCEPT ![w] = Tail(@)]
    /\ rows' = rows \ {<<owner[w], Head(queue[w]).file>>}
    /\ UNCHANGED <<driverVars, listVars, sync, objectVars, watch, busy, diskVars>>

\* Faulty variant: the new name is forgotten.
HandleMovedHalf(w) ==
    /\ Live(w) /\ busy[w] = None /\ queue[w] # <<>> /\ Head(queue[w]).kind = "moved"
    /\ queue' = [queue EXCEPT ![w] = Tail(@)]
    /\ rows' = rows \ {<<owner[w], Head(queue[w]).file>>}
    /\ UNCHANGED <<driverVars, listVars, sync, objectVars, watch, busy, diskVars>>

\* on_moved: the old name is removed, then the new one looked up and inserted.
HandleMoved(w) ==
    /\ Live(w) /\ busy[w] = None /\ queue[w] # <<>> /\ Head(queue[w]).kind = "moved"
    /\ queue' = [queue EXCEPT ![w] = <<[kind |-> "upsert", file |-> Head(@).to]>> \o Tail(@)]
    /\ rows' = rows \ {<<owner[w], Head(queue[w]).file>>}
    /\ UNCHANGED <<driverVars, listVars, sync, objectVars, watch, busy, diskVars>>

FinishUpsert(w) ==
    /\ busy[w] # None
    /\ rows' = rows \cup {<<owner[w], busy[w]>>}
    /\ busy' = [busy EXCEPT ![w] = None]
    /\ UNCHANGED <<driverVars, listVars, sync, objectVars, watch, queue, diskVars>>

Observer(w) == HandleUpsert(w) \/ HandleRemove(w) \/ HandleMoved(w) \/ FinishUpsert(w)

-----------------------------------------------------------------------------
(* The environment: the management window and the file system *)

Edit ==
    /\ edits < MaxEdits /\ edits' = edits + 1
    /\ list' \in SUBSET Folders \ {list}
    /\ UNCHANGED <<driverVars, sync, objectVars, watchVars, rows, diskVars>>

\* Every observer of the folder is told.
Notify(f, e) == queue' = [w \in Objects |-> IF Live(w) /\ owner[w] = f THEN Append(queue[w], e) ELSE queue[w]]

\* gap is a history variable: a change of the files in P is to be seen by an
\* observer, unless there is none or a scan is under way that may undo it.
Seen(f) ==
    /\ \E w \in Objects : Live(w) /\ owner[w] = f
    /\ \A s \in Syncs : sync[s].folder = f => sync[s].pc \notin {"scan", "insert"}

Changed(f, P) ==
    /\ changes < MaxChanges /\ changes' = changes + 1
    /\ there[f]
    /\ gap' = [gap EXCEPT ![f] = IF Seen(f) THEN @ \ P ELSE @ \cup P]
    /\ UNCHANGED <<driverVars, listVars, sync, objectVars, watch, busy, rows, there>>

\* Created or modified.
WriteFile(f, p) ==
    /\ Changed(f, {p})
    /\ files' = [files EXCEPT ![f] = @ \cup {p}]
    /\ Notify(f, [kind |-> "upsert", file |-> p])

DeleteFile(f, p) ==
    /\ p \in files[f] /\ Changed(f, {p})
    /\ files' = [files EXCEPT ![f] = @ \ {p}]
    /\ Notify(f, [kind |-> "remove", file |-> p])

MoveFile(f, p, q) ==
    /\ p \in files[f] /\ p # q /\ Changed(f, {p, q})
    /\ files' = [files EXCEPT ![f] = (@ \ {p}) \cup {q}]
    /\ Notify(f, [kind |-> "moved", file |-> p, to |-> q])

\* A volume is removed; nothing is reported for the files on it.
RootVanishes(f) ==
    /\ there[f] /\ changes < MaxChanges /\ changes' = changes + 1
    /\ there' = [there EXCEPT ![f] = FALSE]
    /\ files' = [files EXCEPT ![f] = {}]
    /\ gap' = [gap EXCEPT ![f] = Files]
    /\ UNCHANGED <<driverVars, listVars, sync, objectVars, watchVars, rows>>

Environment ==
    \/ Edit
    \/ \E f \in Folders : RootVanishes(f)
    \/ \E f \in Folders, p \in Files : WriteFile(f, p) \/ DeleteFile(f, p)
    \/ \E f \in Folders, p, q \in Files : MoveFile(f, p, q)

-----------------------------------------------------------------------------

Next ==
    \/ LoadList \/ StartAgent \/ RefreshSees \/ RefreshLoads
    \/ \E s \in Syncs : Sync(s)
    \/ \E w \in Objects : Observer(w)
    \/ Environment

Spec == Init /\ [][Next]_vars

\* The process comes up and its threads run.
Fairness ==
    /\ WF_vars(LoadList \/ StartAgent) /\ WF_vars(RefreshSees \/ RefreshLoads)
    /\ \A s \in Syncs : WF_vars(Sync(s))
    /\ \A w \in Objects : WF_vars(Observer(w))

FairSpec == Spec /\ Fairness

-----------------------------------------------------------------------------
(* Safety *)

\* Nothing of folder f is on its way into the table.
Quiet(f) ==
    /\ \A s \in Syncs : sync[s].folder # f
    /\ \A w \in Objects : owner[w] = f => busy[w] = None /\ (Live(w) => queue[w] = <<>>)

\* What an INDEXED folder says when nothing is on its way is true of every file
\* that did not change behind the backs of scan and observer: it is found if and
\* only if it exists.  Several observers of one folder, a scan beside an older
\* observer, and events handled long after the change do not disturb it.  A hidden
\* file is one of these files only once an observer was told of it, or when its row
\* was right from the start: the scan passes it over, the observers do not.
IndexConsistent ==
    \A f \in Folders :
        (f \in Tracked /\ status[folders[f]] = "INDEXED" /\ Quiet(f))
            => \A p \in Files \ gap[f] : <<f, p>> \in rows <=> p \in files[f]

-----------------------------------------------------------------------------
(* Liveness *)

\* A folder does not remain INDEXING (the server ranks such folders last), but for
\* the one at which sync_folders ended with an exception: refresh will have a new
\* status to report.
StatusSettles ==
    \A w \in Objects : status[w] = "INDEXING" ~> (status[w] # "INDEXING" \/ w \in failed)

\* A saved list that differs in time from the one the tray knows is followed, once
\* the thread of the start is through: the tray's thread comes to rest with exactly
\* its folders tracked, unless it is saved again, or sync_folders ended with an
\* exception at a folder it lists.
EditIsFollowed ==
    \A n \in 1..MaxEdits :
        (main = "up" /\ sync["boot"].pc = "idle" /\ edits = n /\ mtime # n)
            ~> (\/ mtime = n /\ sync["tray"].pc = "idle" /\ Tracked = list
                \/ edits # n \/ (sync["tray"].pc = "enter" /\ made = MaxTracked)
                \/ \E w \in failed : owner[w] \in list /\ folders[owner[w]] = w)

-----------------------------------------------------------------------------
(* What the repository says and the code does not do *)

\* README.md:30: the search is confined to the registered folders, and removing
\* one takes effect at once, without a restart.  When every thread is through
\* with the present list, no other folder is tracked or watched.
OnlyListedFolders ==
    (main = "up" /\ mtime = edits /\ \A s \in Syncs : sync[s].pc = "idle")
        => /\ Tracked \subseteq list
           /\ \A w \in Objects : Live(w) => owner[w] \in list
=============================================================================
