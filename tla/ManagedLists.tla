----------------------------- MODULE ManagedLists -----------------------------
(***************************************************************************)
(* The two lists a user manages, search folders and project folders: each  *)
(* is a JSON file that windows (processes of their own, folders_window.py  *)
(* and project_workspaces_window.py) read and rewrite as a whole and that  *)
(* the tray (tray_app.py) loads at its start, polls for a new modification *)
(* time every two seconds and writes itself if it is missing.              *)
(*                                                                         *)
(* A window knows the list as it was when the window was opened.  Every    *)
(* write truncates the file first; what is found in between, or left by a  *)
(* writer that was ended there, is no list: "broken" texts are not JSON    *)
(* and read as no list at all, "cut" ones end within a character, which    *)
(* neither the windows nor the tray expect.                                *)
(***************************************************************************)
EXTENDS Naturals

CONSTANTS
    Folders,    \* what can be on a list
    Default,    \* the search folders of a PC without a file
    Windows,    \* bound: windows opened, each once
    MaxStarts   \* bound: starts of the tray

ASSUME ListsAssumption ==
    Default \subseteq Folders /\ "tray" \notin Windows /\ MaxStarts \in Nat

VARIABLES
    text,       \* what is in the file of a list
    saved,      \* the list it holds, or held when it was last whole
    part,       \* who has written the part of a text that is in it
    seen,       \* files whose present modification time the tray remembers
    tray,       \* where the tray is: "off", its start, "up"
    starts,
    agent,      \* start_agent came to its end
    used,       \* the lists the tray works with
    menu,       \* the list whose missing file the tray is writing
    poll,       \* where refresh() is
    changed,    \* reported_changed
    news,       \* statuses # _search_folder_statuses
    untold,     \* history: lists that changed since the agent was last asked to tell
    withheld,   \* history: a refresh broke off with a change to report
    win,        \* where a window is
    of,         \* its list
    base,       \* what it loaded
    next,       \* what it writes
    handle,     \* the window process the tray remembers for a list
    overtaken,  \* history: windows opened over by another one of their list
    overlapped, \* history: windows that loaded their list and had it written by others
    hurt,       \* history: the last writer was ended in the middle, or was not alone
    missed,     \* history: the list was written between its load and its stat
    lost        \* history: a window that showed its list and was not overlapped dropped
                \* folders unseen

fileVars == <<text, saved, part, seen, overlapped, missed>>
trayVars == <<tray, starts, agent, used, menu>>
pollVars == <<poll, changed, news, untold, withheld>>
winVars  == <<win, of, base, next, handle, overtaken>>
vars == <<fileVars, trayVars, pollVars, winVars, hurt, lost>>

Lists == {"search", "projects"}
Text  == {"absent", "whole", "empty", "broken", "cut"}
Boot  == {"load search", "stat search", "load projects", "stat projects"}
Poll  == {"wait", "load search", "status", "stat projects", "load projects", "resend"}

TypeOK ==
    /\ text \in [Lists -> Text] /\ saved \in [Lists -> SUBSET Folders]
    /\ part \in [Lists -> Windows \cup {"tray"}] /\ seen \in SUBSET Lists
    /\ tray \in Boot \cup {"off", "up"} /\ starts \in 0..MaxStarts /\ agent \in BOOLEAN
    /\ used \in [Lists -> SUBSET Folders] /\ menu \in Lists \cup {"idle"}
    /\ poll \in Poll /\ changed \in BOOLEAN /\ news \in BOOLEAN
    /\ untold \in SUBSET Lists /\ withheld \in BOOLEAN
    /\ win \in [Windows -> {"unused", "loading", "blank", "shown", "writing", "rest", "gone"}]
    /\ of \in [Windows -> Lists]
    /\ base \in [Windows -> SUBSET Folders] /\ next \in [Windows -> SUBSET Folders]
    /\ handle \in [Lists -> SUBSET Windows] /\ overtaken \in SUBSET Windows
    /\ overlapped \in SUBSET Windows /\ hurt \in SUBSET Lists /\ missed \in SUBSET Lists
    /\ lost \in BOOLEAN

Nowhere == [l \in Lists |-> {}]

Init ==
    /\ text = [l \in Lists |-> "absent"] /\ saved = Nowhere
    /\ part = [l \in Lists |-> "tray"] /\ seen = {}
    /\ tray = "off" /\ starts = 0 /\ agent = FALSE /\ used = Nowhere /\ menu = "idle"
    /\ poll = "wait" /\ changed = FALSE /\ news = FALSE
    /\ untold = {} /\ withheld = FALSE
    /\ win = [w \in Windows |-> "unused"] /\ of = [w \in Windows |-> "search"]
    /\ base = [w \in Windows |-> {}] /\ next = [w \in Windows |-> {}]
    /\ handle = Nowhere /\ overtaken = {}
    /\ overlapped = {} /\ hurt = {} /\ missed = {} /\ lost = FALSE

-----------------------------------------------------------------------------
(* The files *)

\* _default_search_folders; there are no default projects.
DefaultList(l) == IF l = "search" THEN Default ELSE {}

Alive(w)   == win[w] \notin {"unused", "gone"}
AtPage(w)  == win[w] \in {"blank", "shown"}
Loaded(l)  == {w \in Windows : of[w] = l /\ win[w] \in {"blank", "shown", "writing", "rest"}}
Writing(l) == {w \in Windows : of[w] = l /\ win[w] \in {"writing", "rest"}}
Busy(l)    == Writing(l) # {} \/ menu = l

\* The file of l gets another text and another modification time.
Change(l, by, t, list) ==
    /\ text' = [text EXCEPT ![l] = t]
    /\ saved' = [saved EXCEPT ![l] = list]
    /\ part' = [part EXCEPT ![l] = IF t \in {"broken", "cut"} THEN by ELSE "tray"]
    /\ seen' = seen \ {l}
    /\ overlapped' = (overlapped \cup Loaded(l)) \ {by}
    /\ missed' = IF <<tray, l>> \in {<<"stat search", "search">>, <<"stat projects", "projects">>}
                 THEN missed \cup {l} ELSE missed

\* Writing begins: a list replaces the one there is, of whose folders the writer
\* has to account for the known ones.
Truncate(l, by, known) ==
    /\ Change(l, by, "empty", saved[l])
    /\ lost' = (lost \/ (/\ by \notin overlapped /\ text[l] = "whole"
                         /\ ~(saved[l] \subseteq known)))
    /\ hurt' = IF Busy(l) THEN hurt \cup {l} ELSE hurt \ {l}

-----------------------------------------------------------------------------
(* A window *)

\* Faulty variant: the window opens with an empty list.
LoadNothing(w) ==
    /\ win[w] = "loading"
    /\ win' = [win EXCEPT ![w] = "blank"]
    /\ UNCHANGED <<fileVars, trayVars, pollVars, of, base, next, handle, overtaken, hurt, lost>>

\* Api.__init__ with load_folders or load_workspaces; the page comes up with an
\* empty list.
LoadList(w) ==
    LET l == of[w] IN
    /\ win[w] = "loading"
    /\ IF text[l] = "cut"
       THEN win' = [win EXCEPT ![w] = "gone"] /\ UNCHANGED <<base, overlapped>>
       ELSE /\ win' = [win EXCEPT ![w] = "blank"]
            /\ base' = [base EXCEPT ![w] = IF text[l] = "whole" THEN saved[l] ELSE {}]
            /\ overlapped' = IF Busy(l) THEN overlapped \cup {w} ELSE overlapped
    /\ UNCHANGED <<text, saved, part, seen, missed, trayVars, pollVars,
                   of, next, handle, overtaken, hurt, lost>>

\* get_folders or get_workspaces has answered: the page shows the list.
ShowList(w) ==
    /\ win[w] = "blank"
    /\ win' = [win EXCEPT ![w] = "shown"]
    /\ UNCHANGED <<fileVars, trayVars, pollVars, of, base, next, handle, overtaken, hurt, lost>>

\* Api.save with the list the user has made of what the page shows, which may be
\* nothing yet: write_text opens the file, which empties it.
BeginSave(w) ==
    /\ AtPage(w)
    /\ \E list \in SUBSET Folders :
        /\ next' = [next EXCEPT ![w] = list]
        /\ Truncate(of[w], w, IF win[w] = "blank" THEN Folders ELSE base[w] \cup list)
    /\ win' = [win EXCEPT ![w] = "writing"]
    /\ UNCHANGED <<trayVars, pollVars, of, base, handle, overtaken>>

\* A list longer than the buffer is written in two parts.
WritePart(w) ==
    /\ win[w] = "writing"
    /\ win' = [win EXCEPT ![w] = "rest"]
    /\ \E t \in {"broken", "cut"} : Change(of[w], w, t, saved[of[w]])
    /\ UNCHANGED <<trayVars, pollVars, of, base, next, handle, overtaken, hurt, lost>>

\* The windows ws end; what they had in memory is gone.
EndWindows(ws) ==
    /\ win'  = [w \in Windows |-> IF w \in ws THEN "gone" ELSE win[w]]
    /\ base' = [w \in Windows |-> IF w \in ws THEN {} ELSE base[w]]
    /\ next' = [w \in Windows |-> IF w \in ws THEN {} ELSE next[w]]

\* Faulty variant: the process ends before the buffer is written.
ExitUnflushed(w) ==
    /\ win[w] \in {"writing", "rest"}
    /\ EndWindows({w})
    /\ UNCHANGED <<fileVars, trayVars, pollVars, of, handle, overtaken, hurt, lost>>

\* The rest is written and the file closed, then os._exit(0).  A writer that is
\* not alone writes over what it did not empty, or behind a hole.
FinishSave(w) ==
    LET l == of[w]
        alone == IF win[w] = "writing" THEN text[l] = "empty" ELSE part[l] = w IN
    /\ win[w] \in {"writing", "rest"}
    /\ EndWindows({w})
    /\ \/ Change(l, w, "whole", next[w])
       \/ ~alone /\ Change(l, w, "broken", saved[l])
    /\ UNCHANGED <<trayVars, pollVars, of, handle, overtaken, hurt, lost>>

\* Api.cancel or the window's close button.
Cancel(w) ==
    /\ AtPage(w)
    /\ EndWindows({w}) /\ overlapped' = overlapped \ {w}
    /\ UNCHANGED <<text, saved, part, seen, missed, trayVars, pollVars, of, handle, overtaken, hurt, lost>>

Window(w) == LoadList(w) \/ ShowList(w) \/ BeginSave(w) \/ WritePart(w) \/ FinishSave(w) \/ Cancel(w)

-----------------------------------------------------------------------------
(* The tray's menu *)

\* subprocess.Popen: the handle of an earlier window is overwritten.
Spawn(w, l) ==
    /\ win[w] = "unused"
    /\ win' = [win EXCEPT ![w] = "loading"]
    /\ of' = [of EXCEPT ![w] = l]
    /\ handle' = [handle EXCEPT ![l] = {w}]
    /\ overtaken' = overtaken \cup {v \in handle[l] : Alive(v)}
    /\ UNCHANGED <<base, next>>

OpenWindow(w, l) ==
    /\ tray = "up" /\ menu = "idle" /\ text[l] # "absent"
    /\ Spawn(w, l)
    /\ UNCHANGED <<fileVars, trayVars, pollVars, hurt, lost>>

\* open_folders_window and open_project_workspaces_window without a file: the
\* first list is written before the window is opened.
Seed(l) ==
    /\ tray = "up" /\ menu = "idle" /\ text[l] = "absent" /\ menu' = l
    /\ Truncate(l, "tray", DefaultList(l))
    /\ UNCHANGED <<tray, starts, agent, used, pollVars, winVars>>

SeedAndOpen(w) ==
    LET l == menu IN
    /\ tray = "up" /\ l \in Lists /\ menu' = "idle"
    /\ Change(l, "tray", "whole", DefaultList(l))
    /\ Spawn(w, l)
    /\ UNCHANGED <<tray, starts, agent, used, pollVars, hurt, lost>>

\* The tray's process ends, and ws with it.
EndTray(ws) ==
    /\ tray' = "off" /\ agent' = FALSE /\ used' = Nowhere /\ menu' = "idle"
    /\ poll' = "wait" /\ changed' = FALSE /\ news' = FALSE
    /\ untold' = {} /\ withheld' = FALSE
    /\ seen' = {} /\ missed' = {} /\ handle' = Nowhere
    /\ EndWindows(ws) /\ overlapped' = overlapped \ ws
    /\ UNCHANGED <<text, saved, part, starts, of, overtaken, lost>>

\* Faulty variant: only the window of the search folders is ended.
QuitEndsOne ==
    LET ws == {w \in handle["search"] : Alive(w)} IN
    /\ tray = "up" /\ menu = "idle"
    /\ hurt' = hurt \cup {l \in Lists : Writing(l) \cap ws # {}}
    /\ EndTray(ws)

\* quit_app: the windows the tray has a handle of are ended where they are.
QuitApp ==
    LET ws == {w \in handle["search"] \cup handle["projects"] : Alive(w)} IN
    /\ tray = "up" /\ menu = "idle"
    /\ hurt' = hurt \cup {l \in Lists : Writing(l) \cap ws # {}}
    /\ EndTray(ws)

\* The user logs off: every process ends where it is (external).
LogOff ==
    /\ tray # "off"
    /\ hurt' = hurt \cup {l \in Lists : Busy(l)}
    /\ EndTray({w \in Windows : Alive(w)})

-----------------------------------------------------------------------------
(* The tray's start: start_agent *)

StartTray ==
    /\ tray = "off" /\ starts < MaxStarts
    /\ tray' = "load search" /\ starts' = starts + 1
    /\ UNCHANGED <<fileVars, agent, used, menu, pollVars, winVars, hurt, lost>>

\* What _load_search_folders and _load_project_workspaces make of the file.
Read(l) == IF text[l] = "whole" THEN saved[l] ELSE DefaultList(l)

\* The list is read; an exception ends start_agent, and the tray goes on without
\* an agent (setup).
StartLoads(l, load, stat) ==
    /\ tray = load
    /\ IF text[l] = "cut"
       THEN tray' = "up" /\ UNCHANGED <<used, news>>
       ELSE /\ tray' = stat /\ used' = [used EXCEPT ![l] = Read(l)]
            /\ news' = TRUE
    /\ UNCHANGED <<fileVars, starts, agent, menu, poll, changed, untold, withheld,
                   winVars, hurt, lost>>

\* The modification time is taken after the list.  The first READY of the agent
\* has the lists of the start.
StartStats(l, stat, goto) ==
    /\ tray = stat /\ tray' = goto
    /\ seen' = seen \cup {l} /\ agent' = (goto = "up")
    /\ untold' = IF goto = "up" THEN {} ELSE untold
    /\ UNCHANGED <<text, saved, part, overlapped, missed, starts, used, menu,
                   poll, changed, news, withheld, winVars, hurt, lost>>

Start ==
    \/ StartLoads("search", "load search", "stat search")
    \/ StartStats("search", "stat search", "load projects")
    \/ StartLoads("projects", "load projects", "stat projects")
    \/ StartStats("projects", "stat projects", "up")

-----------------------------------------------------------------------------
(* The tray's refresh thread *)

At(from, goto) == tray = "up" /\ poll = from /\ poll' = goto

\* A file whose modification time is not the remembered one is read; the time is
\* remembered before.  The project store is there if start_agent got so far.
Stat(l, from, load, goto) ==
    /\ IF text[l] # "absent" /\ l \notin seen /\ (l = "search" \/ agent)
       THEN At(from, load) /\ seen' = seen \cup {l}
       ELSE At(from, goto) /\ UNCHANGED seen
    /\ UNCHANGED <<text, saved, part, overlapped, missed, trayVars, changed, news,
                   untold, withheld, winVars, hurt, lost>>

\* Faulty variant: the exception ends the refresh thread.
LoadDies(l, from, goto, report) ==
    /\ IF text[l] = "cut"
       THEN At(from, "ended") /\ UNCHANGED <<used, missed, changed>>
       ELSE /\ At(from, goto)
            /\ used' = [used EXCEPT ![l] = Read(l)] /\ missed' = missed \ {l}
            /\ changed' = report
    /\ untold' = IF used' = used THEN untold ELSE untold \cup {l}
    /\ UNCHANGED <<text, saved, part, overlapped, seen, tray, starts, agent, menu,
                   withheld, winVars, hurt, lost>>

\* The list is loaded, or _refresh_loop logs the exception: this refresh is over and
\* what it had to report is forgotten.
Load(l, from, goto, report) ==
    /\ IF text[l] = "cut"
       THEN /\ At(from, "wait") /\ changed' = FALSE
            /\ withheld' = (withheld \/ changed)
            /\ UNCHANGED <<used, missed>>
       ELSE /\ At(from, goto)
            /\ used' = [used EXCEPT ![l] = Read(l)] /\ missed' = missed \ {l}
            /\ changed' = report
            /\ UNCHANGED withheld
    /\ untold' = IF used' = used THEN untold ELSE untold \cup {l}
    /\ UNCHANGED <<text, saved, part, overlapped, seen, tray, starts, agent, menu,
                   winVars, hurt, lost>>

\* sync_folders: the statuses have the folders' ids as keys.
LoadSearch ==
    /\ Load("search", "load search", "status", changed)
    /\ news' = (news \/ used' # used)

CompareStatuses ==
    /\ At("status", "stat projects")
    /\ changed' = news /\ news' = FALSE
    /\ UNCHANGED <<fileVars, trayVars, untold, withheld, winVars, hurt, lost>>

\* Faulty variant: what the first list has to report is forgotten.
LoadForgets ==
    /\ Load("projects", "load projects", "resend", used' # used)
    /\ UNCHANGED news

\* sync_workspaces
LoadProjects ==
    /\ Load("projects", "load projects", "resend", TRUE)
    /\ UNCHANGED news

\* agent.resend_ready takes both lists from the stores.
Resend ==
    /\ At("resend", "wait") /\ changed' = FALSE
    /\ untold' = IF changed /\ agent THEN {} ELSE untold
    /\ withheld' = (withheld /\ ~changed)
    /\ UNCHANGED <<fileVars, trayVars, news, winVars, hurt, lost>>

Refresh ==
    \/ Stat("search", "wait", "load search", "status")
    \/ LoadSearch \/ CompareStatuses
    \/ Stat("projects", "stat projects", "load projects", "resend")
    \/ LoadProjects \/ Resend

\* An index thread has come to another status of a folder.
IndexStatus ==
    /\ tray = "up" /\ news' = TRUE
    /\ UNCHANGED <<fileVars, trayVars, poll, changed, untold, withheld, winVars, hurt, lost>>

-----------------------------------------------------------------------------

Next ==
    \/ \E w \in Windows : Window(w) \/ SeedAndOpen(w) \/ \E l \in Lists : OpenWindow(w, l)
    \/ \E l \in Lists : Seed(l)
    \/ QuitApp \/ LogOff \/ StartTray \/ Start \/ Refresh \/ IndexStatus

\* The start goes on and the refresh thread polls; users need not do anything.
Spec == Init /\ [][Next]_vars /\ WF_vars(Start) /\ WF_vars(Refresh)

-----------------------------------------------------------------------------
(* Properties *)

\* A folder its user has not removed is dropped from a list only by a window
\* whose file someone else wrote while it was open (folders_window.py 90 and
\* 108-110), or one saved before its page had the list (folders_window.html 133
\* and 191), never by another window or by the tray.
OnlyOverlapLoses == ~lost

\* What is in a file at rest can be read, unless a writer was ended in the middle
\* of its write or two wrote at once (folders_window.py 51-53 and 108-111).
WholeUnlessInterrupted ==
    \A l \in Lists : text[l] \in {"empty", "broken", "cut"} => Busy(l) \/ l \in hurt

\* quit_app ends the open windows with the tray (tray_app.py 441), except those
\* another window of the same list was opened over.
QuitEndsWindows == tray = "off" => \A w \in Windows : Alive(w) => w \in overtaken

\* Between two refreshes the agent has passed on the lists the tray works with
\* (tray_app.py 393-411), unless a refresh broke off after it had noticed a change.
AgentIsTold == (agent /\ poll = "wait" /\ ~news /\ ~withheld) => untold = {}

\* A list that was saved is what the tray works with in the end (tray_app.py
\* 380-407), unless it is saved again, the tray ends or has come up without an
\* agent, or the save fell between the load and the stat of the start.
SaveIsApplied ==
    \A l \in Lists, list \in SUBSET Folders :
        (tray = "up" /\ agent /\ text[l] = "whole" /\ saved[l] = list)
            ~> (used[l] = list \/ saved[l] # list \/ text[l] # "whole"
                \/ tray = "off" \/ l \in missed)
=============================================================================
