------------------------- MODULE ManagedListsProofs -------------------------
(***************************************************************************)
(* Proofs about ManagedLists, for any folders, any number of windows that  *)
(* are opened and closed, and any number of starts of the tray.            *)
(***************************************************************************)
EXTENDS ManagedLists, TLAPS

-----------------------------------------------------------------------------
(* Types *)

LEMMA ChangeType ==
    ASSUME TypeOK, NEW l \in Lists, NEW by \in Windows \cup {"tray"}, NEW t \in Text,
           NEW list \in SUBSET Folders, Change(l, by, t, list)
    PROVE  /\ text' \in [Lists -> Text] /\ saved' \in [Lists -> SUBSET Folders]
           /\ part' \in [Lists -> Windows \cup {"tray"}] /\ seen' \in SUBSET Lists
           /\ overlapped' \in SUBSET Windows /\ missed' \in SUBSET Lists
BY DEF TypeOK, Change, Loaded

LEMMA EndWindowsType ==
    ASSUME TypeOK, NEW ws, EndWindows(ws)
    PROVE  /\ win' \in [Windows -> {"unused", "loading", "blank", "shown", "writing", "rest", "gone"}]
           /\ base' \in [Windows -> SUBSET Folders] /\ next' \in [Windows -> SUBSET Folders]
BY DEF TypeOK, EndWindows

LEMMA SpawnType ==
    ASSUME TypeOK, NEW w \in Windows, NEW l \in Lists, Spawn(w, l)
    PROVE  /\ win' \in [Windows -> {"unused", "loading", "blank", "shown", "writing", "rest", "gone"}]
           /\ of' \in [Windows -> Lists] /\ handle' \in [Lists -> SUBSET Windows]
           /\ overtaken' \in SUBSET Windows /\ UNCHANGED <<base, next>>
BY DEF TypeOK, Spawn

LEMMA EndTrayType ==
    ASSUME TypeOK, NEW ws \in SUBSET Windows, hurt' \in SUBSET Lists, EndTray(ws)
    PROVE  TypeOK'
<1>1. EndWindows(ws)
  BY DEF EndTray
<1>2. QED
  BY <1>1, EndWindowsType DEF EndTray, TypeOK, Nowhere, Poll

LEMMA ReadType ==
    ASSUME TypeOK, NEW l \in Lists
    PROVE  /\ DefaultList(l) \in SUBSET Folders
           /\ Read(l) \in SUBSET Folders
BY ListsAssumption DEF TypeOK, Read, DefaultList

LEMMA TypeStep ==
    ASSUME TypeOK, [Next]_vars
    PROVE  TypeOK'
<1> USE DEF TypeOK, fileVars, trayVars, pollVars, winVars
<1>1. ASSUME NEW w \in Windows, LoadList(w) PROVE TypeOK'
  BY <1>1 DEF LoadList
<1>2. ASSUME NEW w \in Windows, BeginSave(w) PROVE TypeOK'
  <2>1. PICK list \in SUBSET Folders :
          /\ next' = [next EXCEPT ![w] = list]
          /\ Truncate(of[w], w, IF win[w] = "blank" THEN Folders ELSE base[w] \cup list)
    BY <1>2 DEF BeginSave
  <2>2. Change(of[w], w, "empty", saved[of[w]]) /\ lost' \in BOOLEAN /\ hurt' \in SUBSET Lists
    BY <2>1 DEF Truncate
  <2>3. QED
    BY <1>2, <2>1, <2>2, ChangeType DEF BeginSave, Text
<1>3. ASSUME NEW w \in Windows, WritePart(w) PROVE TypeOK'
  <2>1. PICK t \in {"broken", "cut"} : Change(of[w], w, t, saved[of[w]])
    BY <1>3 DEF WritePart
  <2>2. QED
    BY <1>3, <2>1, ChangeType DEF WritePart, Text
<1>4. ASSUME NEW w \in Windows, FinishSave(w) PROVE TypeOK'
  <2>1. PICK t \in {"whole", "broken"}, list \in SUBSET Folders : Change(of[w], w, t, list)
    BY <1>4 DEF FinishSave
  <2>2. EndWindows({w})
    BY <1>4 DEF FinishSave
  <2>3. QED
    BY <1>4, <2>1, <2>2, ChangeType, EndWindowsType DEF FinishSave, Text
<1>5. ASSUME NEW w \in Windows, Cancel(w) PROVE TypeOK'
  <2>1. EndWindows({w})
    BY <1>5 DEF Cancel
  <2>2. QED
    BY <1>5, <2>1, EndWindowsType DEF Cancel
<1>6. ASSUME NEW w \in Windows, NEW l \in Lists, OpenWindow(w, l) PROVE TypeOK'
  BY <1>6, SpawnType DEF OpenWindow
<1>7. ASSUME NEW l \in Lists, Seed(l) PROVE TypeOK'
  <2>1. Truncate(l, "tray", DefaultList(l))
    BY <1>7 DEF Seed
  <2>2. Change(l, "tray", "empty", saved[l]) /\ lost' \in BOOLEAN /\ hurt' \in SUBSET Lists
    BY <2>1 DEF Truncate
  <2>3. QED
    BY <1>7, <2>2, ChangeType DEF Seed, Text
<1>8. ASSUME NEW w \in Windows, SeedAndOpen(w) PROVE TypeOK'
  <2>1. menu \in Lists /\ Change(menu, "tray", "whole", DefaultList(menu)) /\ Spawn(w, menu)
    BY <1>8 DEF SeedAndOpen
  <2>2. DefaultList(menu) \in SUBSET Folders
    BY <2>1, ReadType
  <2>3. QED
    BY <1>8, <2>1, <2>2, ChangeType, SpawnType DEF SeedAndOpen, Text
<1>9. CASE QuitApp
  <2> DEFINE ws == {w \in handle["search"] \cup handle["projects"] : Alive(w)}
  <2>1. ws \in SUBSET Windows
    BY DEF Lists
  <2>2. EndTray(ws) /\ hurt' \in SUBSET Lists
    BY <1>9 DEF QuitApp
  <2>3. QED
    BY <2>1, <2>2, EndTrayType
<1>10. CASE LogOff
  BY <1>10, EndTrayType DEF LogOff
<1>11. CASE StartTray
  <2>1. starts \in 0..MaxStarts /\ starts < MaxStarts => starts + 1 \in 0..MaxStarts
    BY ListsAssumption
  <2>2. QED
    BY <1>11, <2>1 DEF StartTray, Boot
<1>12. CASE Start
  <2>1. ASSUME NEW l \in Lists, NEW load, NEW stat \in Boot, StartLoads(l, load, stat)
        PROVE  TypeOK'
    BY <2>1, ReadType DEF StartLoads, Boot
  <2>2. ASSUME NEW l \in Lists, NEW stat, NEW goto \in Boot \cup {"up"}, StartStats(l, stat, goto)
        PROVE  TypeOK'
    BY <2>2 DEF StartStats, Boot
  <2>3. QED
    BY <1>12, <2>1, <2>2 DEF Start, Boot, Lists
<1>13. CASE Refresh
  <2>1. ASSUME NEW l \in Lists, NEW from, NEW load \in Poll, NEW goto \in Poll,
               Stat(l, from, load, goto)
        PROVE  TypeOK'
    BY <2>1 DEF Stat, At
  <2>2. ASSUME NEW l \in Lists, NEW from, NEW goto \in Poll, NEW report \in BOOLEAN,
               Load(l, from, goto, report), news' \in BOOLEAN
        PROVE  TypeOK'
    BY <2>2, ReadType DEF Load, At, Poll
  <2>3. CASE LoadSearch
    BY <2>2, <2>3 DEF LoadSearch, Poll, Lists
  <2>4. CASE LoadProjects
    BY <2>2, <2>4 DEF LoadProjects, Poll, Lists
  <2>5. CASE CompareStatuses \/ Resend
    BY <2>5 DEF CompareStatuses, Resend, At, Poll
  <2>6. QED
    BY <1>13, <2>1, <2>3, <2>4, <2>5 DEF Refresh, Poll, Lists
<1>14. CASE IndexStatus
  BY <1>14 DEF IndexStatus
<1>15. CASE UNCHANGED vars
  BY <1>15 DEF vars
<1>16. ASSUME NEW w \in Windows, ShowList(w) PROVE TypeOK'
  BY <1>16 DEF ShowList
<1>17. QED
  BY <1>1, <1>2, <1>3, <1>4, <1>5, <1>6, <1>7, <1>8, <1>9, <1>10, <1>11, <1>12, <1>13,
     <1>14, <1>15, <1>16 DEF Next, Window

\* Every variable of ManagedLists keeps its type; refresh() always is at one of its
\* places, so the refresh thread never ends (tray_app.py 340-348).
THEOREM ListsTypeCorrect == Spec => []TypeOK
<1>1. ASSUME Init PROVE TypeOK
  <2>1. 0 \in 0..MaxStarts
    BY ListsAssumption
  <2>2. /\ text \in [Lists -> Text] /\ saved \in [Lists -> SUBSET Folders]
        /\ part \in [Lists -> Windows \cup {"tray"}] /\ used \in [Lists -> SUBSET Folders]
        /\ handle \in [Lists -> SUBSET Windows]
    BY <1>1 DEF Init, Nowhere, Text
  <2>3. /\ win \in [Windows -> {"unused", "loading", "blank", "shown", "writing", "rest", "gone"}]
        /\ of \in [Windows -> Lists]
        /\ base \in [Windows -> SUBSET Folders] /\ next \in [Windows -> SUBSET Folders]
    BY <1>1 DEF Init, Lists
  <2>4. /\ agent \in BOOLEAN /\ changed \in BOOLEAN /\ news \in BOOLEAN
        /\ withheld \in BOOLEAN /\ lost \in BOOLEAN
    BY <1>1 DEF Init
  <2>5. QED
    BY <1>1, <2>1, <2>2, <2>3, <2>4 DEF Init, TypeOK, Poll
<1>2. QED
  BY <1>1, TypeStep, PTL DEF Spec

-----------------------------------------------------------------------------
(* The agent is told *)

\* What the agent has not been told will be noticed by the next refresh, is about
\* to be reported by this one, or was withheld.
Pending ==
    agent /\ untold # {} =>
        news \/ withheld \/ (changed /\ poll \in {"stat projects", "load projects", "resend"})

LEMMA PendingStep ==
    ASSUME TypeOK, Pending, [Next]_vars
    PROVE  Pending'
<1> USE DEF Pending, fileVars, trayVars, pollVars, winVars
<1>1. CASE Refresh
  <2>1. CASE Stat("search", "wait", "load search", "status")
    BY <2>1 DEF Stat, At
  <2>2. CASE LoadSearch
    BY <2>2 DEF LoadSearch, Load, At
  <2>3. CASE CompareStatuses
    BY <2>3 DEF CompareStatuses, At
  <2>4. CASE Stat("projects", "stat projects", "load projects", "resend")
    BY <2>4 DEF Stat, At
  <2>5. CASE LoadProjects
    BY <2>5 DEF LoadProjects, Load, At
  <2>6. CASE Resend
    BY <2>6 DEF Resend, At, TypeOK
  <2>7. QED
    BY <1>1, <2>1, <2>2, <2>3, <2>4, <2>5, <2>6 DEF Refresh
<1>2. CASE Start
  <2>1. ASSUME NEW l, NEW load, NEW stat, StartLoads(l, load, stat) PROVE Pending'
    BY <2>1 DEF StartLoads
  <2>2. ASSUME NEW l, NEW stat, NEW goto, StartStats(l, stat, goto) PROVE Pending'
    BY <2>2 DEF StartStats
  <2>3. QED
    BY <1>2, <2>1, <2>2 DEF Start
<1>3. CASE QuitApp \/ LogOff
  BY <1>3 DEF QuitApp, LogOff, EndTray
<1>4. CASE \E w \in Windows : Window(w) \/ SeedAndOpen(w) \/ \E l \in Lists : OpenWindow(w, l)
  <2>1. UNCHANGED <<agent, untold, news, withheld, changed, poll>>
    BY <1>4 DEF Window, LoadList, ShowList, BeginSave, WritePart, FinishSave, Cancel, SeedAndOpen,
       OpenWindow
  <2>2. QED
    BY <2>1
<1>5. CASE (\E l \in Lists : Seed(l)) \/ StartTray \/ IndexStatus \/ UNCHANGED vars
  BY <1>5 DEF Seed, StartTray, IndexStatus, vars
<1>6. QED
  BY <1>1, <1>2, <1>3, <1>4, <1>5 DEF Next

\* Whatever the files, the users and the index threads do, the agent has been told
\* of the lists in use when a refresh is over, unless it broke off (tray_app.py
\* 380-411).
THEOREM AgentTold == Spec => []AgentIsTold
<1>1. Init => Pending
  BY DEF Init, Pending
<1>2. Pending => AgentIsTold
  BY DEF Pending, AgentIsTold
<1>3. QED
  BY <1>1, <1>2, PendingStep, ListsTypeCorrect, PTL DEF Spec

-----------------------------------------------------------------------------
(* The windows end with the tray *)

\* A window that lives is the one the tray remembers, or was opened over; a tray
\* that is off remembers none.
Remembered ==
    /\ \A w \in Windows : Alive(w) => w \in overtaken \/ w \in handle[of[w]]
    /\ tray = "off" => handle = Nowhere

LEMMA RememberedStep ==
    ASSUME TypeOK, Remembered, [Next]_vars
    PROVE  Remembered'
<1> USE DEF Remembered, Alive, fileVars, trayVars, pollVars, winVars
<1>1. ASSUME NEW w \in Windows, Window(w) PROVE Remembered'
  <2>1. CASE LoadList(w) \/ ShowList(w)
    BY <2>1 DEF LoadList, ShowList, TypeOK
  <2>2. CASE FinishSave(w) \/ Cancel(w)
    BY <2>2 DEF FinishSave, Cancel, EndWindows, TypeOK
  <2>3. CASE BeginSave(w) \/ WritePart(w)
    BY <2>3 DEF BeginSave, WritePart, AtPage, TypeOK
  <2>4. QED
    BY <1>1, <2>1, <2>2, <2>3 DEF Window
<1>2. ASSUME NEW w \in Windows, NEW l \in Lists, Spawn(w, l), tray = "up", tray' = tray
      PROVE  Remembered'
  BY <1>2 DEF Spawn, TypeOK
<1>3. CASE \E w \in Windows : SeedAndOpen(w) \/ \E l \in Lists : OpenWindow(w, l)
  BY <1>2, <1>3 DEF SeedAndOpen, OpenWindow
<1>4. ASSUME NEW ws \in SUBSET Windows, EndTray(ws),
             \A w \in Windows : Alive(w) => w \in overtaken \/ w \in ws
      PROVE  Remembered'
  BY <1>4 DEF EndTray, EndWindows, TypeOK
<1>5. CASE QuitApp
  <2> DEFINE ws == {w \in handle["search"] \cup handle["projects"] : Alive(w)}
  <2>1. ws \in SUBSET Windows /\ EndTray(ws)
    BY <1>5 DEF QuitApp, TypeOK, Lists
  <2>2. \A w \in Windows : Alive(w) => w \in overtaken \/ w \in ws
    BY DEF TypeOK, Lists
  <2>3. QED
    BY <1>4, <2>1, <2>2
<1>6. CASE LogOff
  BY <1>4, <1>6 DEF LogOff
<1>7. CASE Start
  <2>1. ASSUME NEW l, NEW load, NEW stat, load # "off", stat # "off", StartLoads(l, load, stat)
        PROVE  Remembered'
    BY <2>1 DEF StartLoads
  <2>2. ASSUME NEW l, NEW stat, NEW goto, goto # "off", StartStats(l, stat, goto)
        PROVE  Remembered'
    BY <2>2 DEF StartStats
  <2>3. QED
    BY <1>7, <2>1, <2>2 DEF Start
<1>8. CASE (\E l \in Lists : Seed(l)) \/ StartTray \/ IndexStatus \/ UNCHANGED vars
  BY <1>8 DEF Seed, StartTray, IndexStatus, vars
<1>9. CASE Refresh
  BY <1>9 DEF Refresh, Stat, LoadSearch, LoadProjects, Load, CompareStatuses, Resend
<1>10. QED
  BY <1>1, <1>3, <1>5, <1>6, <1>7, <1>8, <1>9 DEF Next

\* For any number of windows, none is left when the tray has quit but those that
\* another one of their list was opened over (tray_app.py 435-446).
THEOREM QuittingEndsWindows == Spec => []QuitEndsWindows
<1>1. Init => Remembered
  BY DEF Init, Remembered, Alive
<1>2. TypeOK /\ Remembered => QuitEndsWindows
  BY DEF Remembered, QuitEndsWindows, Nowhere, TypeOK
<1>3. QED
  BY <1>1, <1>2, RememberedStep, ListsTypeCorrect, PTL DEF Spec

-----------------------------------------------------------------------------
(* Only overlapping windows lose folders *)

\* A window whose file nobody else has written since it was loaded knows all that is
\* in it.
Informed ==
    \A w \in Windows :
        (AtPage(w) /\ w \notin overlapped /\ text[of[w]] = "whole")
            => saved[of[w]] \subseteq base[w]

LEMMA ChangeInforms ==
    ASSUME TypeOK, Informed, NEW l \in Lists, NEW by \in Windows \cup {"tray"}, NEW t \in Text,
           NEW list \in SUBSET Folders, Change(l, by, t, list),
           \A w \in Windows : AtPage(w)' =>
                w # by /\ AtPage(w) /\ of'[w] = of[w] /\ base'[w] = base[w]
    PROVE  Informed'
<1>1. SUFFICES ASSUME NEW w \in Windows,
                      AtPage(w)', w \notin overlapped', text'[of'[w]] = "whole"
               PROVE  saved'[of'[w]] \subseteq base'[w]
  BY DEF Informed
<1>2. w # by /\ AtPage(w) /\ of'[w] = of[w] /\ base'[w] = base[w]
  BY <1>1
<1>3. of[w] # l /\ w \notin overlapped
  BY <1>1, <1>2 DEF Change, Loaded, AtPage
<1>4. saved'[of[w]] = saved[of[w]] /\ text'[of[w]] = text[of[w]]
  BY <1>3 DEF Change, TypeOK
<1>5. QED
  BY <1>1, <1>2, <1>3, <1>4 DEF Informed

\* A step that leaves the files alone, and the windows that show their list.
LEMMA QuietInforms ==
    ASSUME TypeOK, Informed, UNCHANGED <<text, saved>>,
           \A w \in Windows : AtPage(w)' =>
                /\ AtPage(w) /\ of'[w] = of[w] /\ base'[w] = base[w]
                /\ w \in overlapped => w \in overlapped'
    PROVE  Informed'
BY DEF Informed

LEMMA InformedStep ==
    ASSUME TypeOK, Informed, OnlyOverlapLoses, [Next]_vars
    PROVE  (Informed /\ OnlyOverlapLoses)'
<1> USE DEF AtPage, OnlyOverlapLoses, fileVars, trayVars, pollVars, winVars
<1>1. ASSUME NEW w \in Windows, LoadList(w) PROVE (Informed /\ OnlyOverlapLoses)'
  <2>1. CASE text[of[w]] = "cut"
    BY <1>1, <2>1, QuietInforms DEF LoadList, TypeOK
  <2>2. CASE text[of[w]] # "cut"
    <3>1. /\ UNCHANGED <<text, saved, of, lost>> /\ win' = [win EXCEPT ![w] = "blank"]
          /\ base' = [base EXCEPT ![w] = IF text[of[w]] = "whole" THEN saved[of[w]] ELSE {}]
          /\ overlapped \subseteq overlapped'
      BY <1>1, <2>2 DEF LoadList
    <3>2. ASSUME NEW v \in Windows,
                 AtPage(v)', v \notin overlapped', text'[of'[v]] = "whole"
          PROVE  saved'[of'[v]] \subseteq base'[v]
      <4>1. CASE v = w
        BY <3>1, <3>2, <4>1 DEF TypeOK
      <4>2. CASE v # w
        BY <3>1, <3>2, <4>2 DEF TypeOK, Informed
      <4>3. QED
        BY <4>1, <4>2
    <3>3. QED
      BY <3>1, <3>2 DEF Informed
  <2>3. QED
    BY <2>1, <2>2
<1>2. ASSUME NEW w \in Windows, BeginSave(w) PROVE (Informed /\ OnlyOverlapLoses)'
  <2>1. PICK list \in SUBSET Folders : Truncate(of[w], w, IF win[w] = "blank" THEN Folders ELSE base[w] \cup list)
    BY <1>2 DEF BeginSave
  <2>2. /\ AtPage(w) /\ win' = [win EXCEPT ![w] = "writing"]
        /\ UNCHANGED <<of, base>>
    BY <1>2 DEF BeginSave
  <2>3. Change(of[w], w, "empty", saved[of[w]])
    BY <2>1 DEF Truncate
  <2>4. Informed'
    <3>1. of[w] \in Lists /\ saved[of[w]] \in SUBSET Folders /\ "empty" \in Text
      BY DEF TypeOK, Text
    <3>2. \A v \in Windows : AtPage(v)' =>
             v # w /\ AtPage(v) /\ of'[v] = of[v] /\ base'[v] = base[v]
      BY <2>2 DEF TypeOK
    <3>3. QED
      BY <2>3, <3>1, <3>2, ChangeInforms
  <2>5. w \notin overlapped /\ text[of[w]] = "whole"
          => saved[of[w]] \subseteq IF win[w] = "blank" THEN Folders ELSE base[w] \cup list
    BY <2>2 DEF Informed, TypeOK
  <2>6. ~lost'
    BY <2>1, <2>5 DEF Truncate
  <2>7. QED
    BY <2>4, <2>6
<1>3. ASSUME NEW w \in Windows, WritePart(w) PROVE (Informed /\ OnlyOverlapLoses)'
  <2>1. PICK t \in {"broken", "cut"} : Change(of[w], w, t, saved[of[w]])
    BY <1>3 DEF WritePart
  <2>2. of[w] \in Lists /\ saved[of[w]] \in SUBSET Folders /\ t \in Text
    BY DEF TypeOK, Text
  <2>3. \A v \in Windows : AtPage(v)' =>
           v # w /\ AtPage(v) /\ of'[v] = of[v] /\ base'[v] = base[v]
    BY <1>3 DEF WritePart, TypeOK
  <2>4. QED
    BY <1>3, <2>1, <2>2, <2>3, ChangeInforms DEF WritePart
<1>4. ASSUME NEW w \in Windows, FinishSave(w) PROVE (Informed /\ OnlyOverlapLoses)'
  <2>1. PICK t \in {"whole", "broken"}, list \in SUBSET Folders : Change(of[w], w, t, list)
    BY <1>4 DEF FinishSave, TypeOK
  <2>2. of[w] \in Lists /\ t \in Text
    BY DEF TypeOK, Text
  <2>3. \A v \in Windows : AtPage(v)' =>
           v # w /\ AtPage(v) /\ of'[v] = of[v] /\ base'[v] = base[v]
    BY <1>4 DEF FinishSave, EndWindows, TypeOK
  <2>4. QED
    BY <1>4, <2>1, <2>2, <2>3, ChangeInforms DEF FinishSave
<1>5. ASSUME NEW w \in Windows, Cancel(w) PROVE (Informed /\ OnlyOverlapLoses)'
  BY <1>5, QuietInforms DEF Cancel, EndWindows
<1>6. ASSUME NEW w \in Windows, NEW l \in Lists, OpenWindow(w, l)
      PROVE  (Informed /\ OnlyOverlapLoses)'
  BY <1>6, QuietInforms DEF OpenWindow, Spawn, TypeOK
<1>7. ASSUME NEW l \in Lists, Seed(l) PROVE (Informed /\ OnlyOverlapLoses)'
  <2>1. Truncate(l, "tray", DefaultList(l)) /\ text[l] = "absent" /\ UNCHANGED winVars
    BY <1>7 DEF Seed
  <2>2. Change(l, "tray", "empty", saved[l]) /\ ~lost'
    BY <2>1 DEF Truncate
  <2>3. saved[l] \in SUBSET Folders /\ "empty" \in Text
    BY DEF TypeOK, Text
  <2>4. \A w \in Windows : AtPage(w)' =>
           w # "tray" /\ AtPage(w) /\ of'[w] = of[w] /\ base'[w] = base[w]
    BY <2>1, ListsAssumption
  <2>5. QED
    BY <2>2, <2>3, <2>4, ChangeInforms
<1>8. ASSUME NEW w \in Windows, SeedAndOpen(w) PROVE (Informed /\ OnlyOverlapLoses)'
  <2>1. /\ menu \in Lists /\ Change(menu, "tray", "whole", DefaultList(menu))
        /\ Spawn(w, menu) /\ lost' = lost
    BY <1>8 DEF SeedAndOpen
  <2>2. DefaultList(menu) \in SUBSET Folders /\ "whole" \in Text
    BY <2>1, ReadType DEF Text
  <2>3. \A v \in Windows : AtPage(v)' =>
           v # "tray" /\ AtPage(v) /\ of'[v] = of[v] /\ base'[v] = base[v]
    BY <2>1, ListsAssumption DEF Spawn, TypeOK
  <2>4. QED
    BY <2>1, <2>2, <2>3, ChangeInforms
<1>9. ASSUME NEW ws, EndTray(ws) PROVE (Informed /\ OnlyOverlapLoses)'
  <2>1. \A w \in Windows : AtPage(w)' =>
           /\ AtPage(w) /\ of'[w] = of[w] /\ base'[w] = base[w]
           /\ w \in overlapped => w \in overlapped'
    BY <1>9 DEF EndTray, EndWindows
  <2>2. QED
    BY <1>9, <2>1, QuietInforms DEF EndTray
<1>10. CASE QuitApp \/ LogOff
  BY <1>9, <1>10 DEF QuitApp, LogOff
<1>11. CASE StartTray \/ Start \/ Refresh \/ IndexStatus \/ UNCHANGED vars
  <2>1. UNCHANGED <<text, saved, overlapped, lost, win, of, base>>
    BY <1>11 DEF StartTray, Start, StartLoads, StartStats, Refresh, Stat, LoadSearch,
       LoadProjects, Load, CompareStatuses, Resend, IndexStatus, vars
  <2>2. QED
    BY <2>1, QuietInforms
<1>12. ASSUME NEW w \in Windows, ShowList(w) PROVE (Informed /\ OnlyOverlapLoses)'
  BY <1>12, QuietInforms DEF ShowList, TypeOK
<1>13. QED
  BY <1>1, <1>2, <1>3, <1>4, <1>5, <1>6, <1>7, <1>8, <1>10, <1>11, <1>12 DEF Next, Window

\* With any number of windows open at once, a folder its user has not removed is
\* lost only through a window whose file someone else wrote while it was open, or
\* whose page was still empty (folders_window.py 90 and 108-110).
THEOREM NothingElseLoses == Spec => []OnlyOverlapLoses
<1>1. Init => Informed /\ OnlyOverlapLoses
  BY DEF Init, Informed, AtPage, OnlyOverlapLoses
<1>2. QED
  BY <1>1, InformedStep, ListsTypeCorrect, PTL DEF Spec

-----------------------------------------------------------------------------
(* Files at rest are whole *)

\* A list whose file is not hurt has one writer at most, and the file is as that
\* writer left it.
Sole(l) ==
    l \notin hurt =>
        /\ \A v, w \in Writing(l) : v = w
        /\ menu = l => Writing(l) = {}
        /\ \A w \in Writing(l) : /\ win[w] = "writing" => text[l] = "empty"
                                 /\ win[w] = "rest" => part[l] = w

Settled(l) == text[l] \in {"empty", "broken", "cut"} => Busy(l) \/ l \in hurt

Orderly == \A l \in Lists : Sole(l) /\ Settled(l)

\* A step that does not concern the file of l or its writers.
LEMMA Elsewhere ==
    ASSUME NEW l \in Lists, Sole(l), Settled(l),
           text'[l] = text[l], part'[l] = part[l], l \in hurt' <=> l \in hurt,
           Writing(l)' = Writing(l), menu' = l <=> menu = l,
           \A w \in Writing(l) : win'[w] = win[w]
    PROVE  Sole(l)' /\ Settled(l)'
BY DEF Sole, Settled, Busy

\* A change of one file leaves the others as they were.
LEMMA ChangeElsewhere ==
    ASSUME TypeOK, NEW k, NEW l \in Lists, k # l, NEW by, NEW t, NEW list, Change(k, by, t, list)
    PROVE  text'[l] = text[l] /\ part'[l] = part[l]
BY DEF TypeOK, Change

LEMMA OrderlyStep ==
    ASSUME TypeOK, Orderly, [Next]_vars
    PROVE  Orderly'
<1> USE DEF fileVars, trayVars, pollVars, winVars
<1>0. ASSUME NEW l \in Lists PROVE Sole(l) /\ Settled(l)
  BY DEF Orderly
<1>1. ASSUME UNCHANGED <<text, part, hurt, menu>>, \A l \in Lists : Writing(l)' = Writing(l),
             \A l \in Lists : \A w \in Writing(l) : win'[w] = win[w]
      PROVE  Orderly'
  BY <1>0, <1>1, Elsewhere DEF Orderly
<1>2. ASSUME NEW w \in Windows, LoadList(w) \/ ShowList(w) \/ Cancel(w) PROVE Orderly'
  <2>1. UNCHANGED <<text, part, hurt, menu, of>>
    BY <1>2 DEF LoadList, ShowList, Cancel
  <2>2. win[w] \in {"loading", "blank", "shown"} /\ win'[w] \in {"blank", "shown", "gone"}
    BY <1>2 DEF LoadList, ShowList, Cancel, AtPage, EndWindows, TypeOK
  <2>3. \A v \in Windows : v # w => win'[v] = win[v]
    BY <1>2 DEF LoadList, ShowList, Cancel, EndWindows, TypeOK
  <2>4. QED
    BY <1>1, <2>1, <2>2, <2>3 DEF Writing
<1>3. ASSUME NEW w \in Windows, BeginSave(w) PROVE Orderly'
  <2>1. PICK list \in SUBSET Folders : Truncate(of[w], w, IF win[w] = "blank" THEN Folders ELSE base[w] \cup list)
    BY <1>3 DEF BeginSave
  <2>2. /\ Change(of[w], w, "empty", saved[of[w]]) /\ UNCHANGED <<menu, of>>
        /\ hurt' = IF Busy(of[w]) THEN hurt \cup {of[w]} ELSE hurt \ {of[w]}
        /\ AtPage(w) /\ win' = [win EXCEPT ![w] = "writing"]
    BY <1>3, <2>1 DEF BeginSave, Truncate
  <2>3. of[w] \in Lists /\ w \in Writing(of[w])' /\ Writing(of[w])' = Writing(of[w]) \cup {w}
    BY <2>2 DEF TypeOK, Writing
  <2>4. Settled(of[w])'
    BY <2>2, <2>3 DEF Settled, Busy
  <2>5. Sole(of[w])'
    <3>1. CASE Busy(of[w])
      BY <2>2, <3>1 DEF Sole
    <3>2. CASE ~Busy(of[w])
      <4>1. Writing(of[w])' = {w} /\ menu' # of[w]
        BY <2>2, <2>3, <3>2 DEF Busy
      <4>2. win'[w] = "writing" /\ text'[of[w]] = "empty"
        BY <2>2 DEF TypeOK, Change
      <4>3. QED
        BY <2>2, <4>1, <4>2 DEF Sole
    <3>3. QED
      BY <3>1, <3>2
  <2>6. ASSUME NEW l \in Lists, l # of[w] PROVE Sole(l)' /\ Settled(l)'
    <3>1. Writing(l)' = Writing(l) /\ \A v \in Writing(l) : win'[v] = win[v]
      BY <2>2, <2>6 DEF TypeOK, Writing, AtPage
    <3>2. QED
      BY <1>0, <2>2, <2>6, <3>1, Elsewhere, ChangeElsewhere
  <2>7. QED
    BY <2>2, <2>4, <2>5, <2>6 DEF Orderly
<1>4. ASSUME NEW w \in Windows, WritePart(w) PROVE Orderly'
  <2>1. PICK t \in {"broken", "cut"} : Change(of[w], w, t, saved[of[w]])
    BY <1>4 DEF WritePart
  <2>2. /\ win[w] = "writing" /\ win' = [win EXCEPT ![w] = "rest"]
        /\ UNCHANGED <<menu, of, hurt>>
    BY <1>4 DEF WritePart
  <2>3. of[w] \in Lists /\ w \in Writing(of[w]) /\ \A l \in Lists : Writing(l)' = Writing(l)
    BY <2>2 DEF TypeOK, Writing
  <2>4. Settled(of[w])'
    BY <2>2, <2>3 DEF Settled, Busy
  <2>5. Sole(of[w])'
    <3>1. part'[of[w]] = w /\ win'[w] = "rest"
      BY <2>1, <2>2 DEF Change, TypeOK
    <3>2. of[w] \notin hurt => \A v \in Writing(of[w]) : v = w
      BY <1>0, <2>3 DEF Sole
    <3>3. of[w] \notin hurt => menu # of[w]
      BY <1>0, <2>3 DEF Sole
    <3>4. QED
      BY <2>2, <2>3, <3>1, <3>2, <3>3 DEF Sole
  <2>6. ASSUME NEW l \in Lists, l # of[w] PROVE Sole(l)' /\ Settled(l)'
    <3>1. \A v \in Writing(l) : win'[v] = win[v]
      BY <2>2, <2>6 DEF TypeOK, Writing
    <3>2. QED
      BY <1>0, <2>1, <2>2, <2>3, <2>6, <3>1, Elsewhere, ChangeElsewhere
  <2>7. QED
    BY <2>2, <2>4, <2>5, <2>6 DEF Orderly
<1>5. ASSUME NEW w \in Windows, FinishSave(w) PROVE Orderly'
  <2>1. PICK t \in {"whole", "broken"}, list \in SUBSET Folders :
          /\ Change(of[w], w, t, list)
          /\ t = "broken" => ~(IF win[w] = "writing" THEN text[of[w]] = "empty"
                               ELSE part[of[w]] = w)
    BY <1>5 DEF FinishSave, TypeOK
  <2>2. win[w] \in {"writing", "rest"} /\ UNCHANGED <<menu, of, hurt>> /\ EndWindows({w})
    BY <1>5 DEF FinishSave
  <2>3. /\ of[w] \in Lists /\ w \in Writing(of[w])
        /\ Writing(of[w])' = Writing(of[w]) \ {w}
    BY <2>2 DEF TypeOK, Writing, EndWindows
  <2>4. of[w] \notin hurt => Writing(of[w])' = {} /\ t = "whole" /\ menu # of[w]
    BY <1>0, <2>1, <2>2, <2>3 DEF Sole
  <2>5. text'[of[w]] = t
    BY <2>1 DEF Change, TypeOK
  <2>6. Sole(of[w])' /\ Settled(of[w])'
    BY <2>2, <2>4, <2>5 DEF Sole, Settled
  <2>7. ASSUME NEW l \in Lists, l # of[w] PROVE Sole(l)' /\ Settled(l)'
    <3>1. Writing(l)' = Writing(l) /\ \A v \in Writing(l) : win'[v] = win[v]
      BY <2>2, <2>7 DEF TypeOK, Writing, EndWindows
    <3>2. QED
      BY <1>0, <2>1, <2>2, <2>7, <3>1, Elsewhere, ChangeElsewhere
  <2>8. QED
    BY <2>2, <2>6, <2>7 DEF Orderly
<1>6. ASSUME NEW w \in Windows, NEW k \in Lists, Spawn(w, k)
      PROVE  \A l \in Lists : Writing(l)' = Writing(l) /\ \A v \in Writing(l) : win'[v] = win[v]
  BY <1>6 DEF Spawn, Writing, TypeOK
<1>7. ASSUME NEW w \in Windows, NEW k \in Lists, OpenWindow(w, k) PROVE Orderly'
  BY <1>1, <1>6, <1>7 DEF OpenWindow
<1>8. ASSUME NEW k \in Lists, Seed(k) PROVE Orderly'
  <2>1. /\ Change(k, "tray", "empty", saved[k]) /\ menu = "idle" /\ menu' = k
        /\ hurt' = IF Busy(k) THEN hurt \cup {k} ELSE hurt \ {k}
        /\ UNCHANGED <<win, of>>
    BY <1>8 DEF Seed, Truncate
  <2>2. \A l \in Lists : Writing(l)' = Writing(l)
    BY <2>1 DEF Writing
  <2>3. Sole(k)' /\ Settled(k)'
    BY <2>1, <2>2 DEF Sole, Settled, Busy
  <2>4. ASSUME NEW l \in Lists, l # k PROVE Sole(l)' /\ Settled(l)'
    BY <1>0, <2>1, <2>2, <2>4, Elsewhere, ChangeElsewhere DEF Lists
  <2>5. QED
    BY <2>3, <2>4 DEF Orderly
<1>9. ASSUME NEW w \in Windows, SeedAndOpen(w) PROVE Orderly'
  <2>0. PICK k \in Lists : k = menu
    BY <1>9 DEF SeedAndOpen
  <2>1. /\ menu' = "idle" /\ hurt' = hurt /\ Spawn(w, k)
        /\ Change(k, "tray", "whole", DefaultList(k))
    BY <1>9, <2>0 DEF SeedAndOpen
  <2>2. \A l \in Lists : Writing(l)' = Writing(l) /\ \A v \in Writing(l) : win'[v] = win[v]
    BY <1>6, <2>1
  <2>3. text'[k] = "whole"
    BY <2>1 DEF Change, TypeOK
  <2>4. Sole(k)' /\ Settled(k)'
    <3>1. Settled(k)'
      BY <2>3 DEF Settled
    <3>2. k \notin hurt => Writing(k)' = {} /\ menu' # k
      BY <1>0, <2>0, <2>1, <2>2 DEF Sole, Lists
    <3>3. QED
      BY <2>1, <3>1, <3>2 DEF Sole
  <2>5. ASSUME NEW l \in Lists, l # k PROVE Sole(l)' /\ Settled(l)'
    BY <1>0, <2>0, <2>1, <2>2, <2>5, Elsewhere, ChangeElsewhere DEF Lists
  <2>6. QED
    BY <2>4, <2>5 DEF Orderly
<1>10. ASSUME NEW ws \in SUBSET Windows, EndTray(ws),
              \A l \in Lists : l \in hurt' <=> (l \in hurt \/ Writing(l) \cap ws # {} \/ menu = l)
       PROVE  Orderly'
  <2>1. UNCHANGED <<text, part, of>> /\ menu' = "idle" /\ EndWindows(ws)
    BY <1>10 DEF EndTray
  <2>2. ASSUME NEW l \in Lists PROVE Sole(l)' /\ Settled(l)'
    <3>1. CASE l \in hurt'
      BY <3>1 DEF Sole, Settled
    <3>2. CASE l \notin hurt'
      <4>1. l \notin hurt /\ Writing(l) \cap ws = {} /\ menu # l
        BY <1>10, <3>2
      <4>2. Writing(l)' = Writing(l) /\ \A w \in Writing(l) : win'[w] = win[w]
        BY <2>1, <4>1 DEF Writing, EndWindows
      <4>3. QED
        BY <1>0, <2>1, <3>2, <4>1, <4>2, Elsewhere DEF Lists
    <3>3. QED
      BY <3>1, <3>2
  <2>3. QED
    BY <2>2 DEF Orderly
<1>11. CASE QuitApp
  <2> DEFINE ws == {w \in handle["search"] \cup handle["projects"] : Alive(w)}
  <2>1. /\ ws \in SUBSET Windows /\ EndTray(ws) /\ menu = "idle"
        /\ hurt' = hurt \cup {l \in Lists : Writing(l) \cap ws # {}}
    BY <1>11 DEF QuitApp, TypeOK, Lists
  <2> HIDE DEF ws
  <2>2. QED
    BY <1>10, <2>1 DEF Lists
<1>12. CASE LogOff
  <2> DEFINE ws == {w \in Windows : Alive(w)}
  <2>1. EndTray(ws) /\ hurt' = hurt \cup {l \in Lists : Busy(l)}
    BY <1>12 DEF LogOff
  <2>2. \A l \in Lists : Writing(l) \cap ws = Writing(l)
    BY DEF Writing, Alive
  <2>3. ws \in SUBSET Windows
    OBVIOUS
  <2> HIDE DEF ws
  <2>4. QED
    BY <1>10, <2>1, <2>2, <2>3 DEF Busy
<1>13. CASE StartTray \/ Start \/ Refresh \/ IndexStatus \/ UNCHANGED vars
  <2>1. UNCHANGED <<text, part, hurt, menu, win, of>>
    BY <1>13 DEF StartTray, Start, StartLoads, StartStats, Refresh, Stat, LoadSearch,
       LoadProjects, Load, CompareStatuses, Resend, IndexStatus, vars
  <2>2. QED
    BY <1>1, <2>1 DEF Writing
<1>14. QED
  BY <1>2, <1>3, <1>4, <1>5, <1>7, <1>8, <1>9, <1>11, <1>12, <1>13 DEF Next, Window

\* With any number of windows, what lies in a file nobody writes can be read, unless
\* its last writer was ended in the middle or was not alone (folders_window.py 51-53).
THEOREM FilesAtRest == Spec => []WholeUnlessInterrupted
<1>1. Init => Orderly
  BY DEF Init, Orderly, Sole, Settled, Writing
<1>2. Orderly => WholeUnlessInterrupted
  BY DEF Orderly, Settled, WholeUnlessInterrupted
<1>3. QED
  BY <1>1, <1>2, OrderlyStep, ListsTypeCorrect, PTL DEF Spec

-----------------------------------------------------------------------------
(* A saved list is noticed: what SaveIsApplied needs besides fairness.      *)

Loading(l) == <<poll, l>> \in {<<"load search", "search">>, <<"load projects", "projects">>}

\* The list in the file of l is the one the tray works with, or its modification
\* time is one the tray has not seen, or refresh is about to read the file.
Noticed(l) == used[l] = Read(l) \/ l \notin seen \/ Loading(l)

\* Neither a save in the middle of a refresh or of the start, nor one in two parts,
\* nor a read that raises leaves the tray with an old list whose file it takes to
\* be read, but for one case: the file was written between its load and its stat at
\* the start (tray_app.py 269-278, 380-407).
SavesAreNoticed ==
    tray = "up" => \A l \in Lists : text[l] = "whole" => Noticed(l) \/ l \in missed

\* At the start the time is taken after the list.
Taking(l) ==
    /\ <<tray, l>> \in {<<"load search", "search">>, <<"stat search", "search">>,
                        <<"load search", "projects">>, <<"stat search", "projects">>,
                        <<"load projects", "projects">>, <<"stat projects", "projects">>} => l \notin seen
    /\ <<tray, l>> \in {<<"stat search", "search">>, <<"stat projects", "projects">>}
          => used[l] = Read(l) \/ l \in missed

Noting ==
    /\ tray = "off" => seen = {}
    /\ tray # "up" => poll = "wait"
    /\ \A l \in Lists : Taking(l) /\ (Noticed(l) \/ l \in missed \/ text[l] = "cut")

LEMMA ChangeNoted ==
    ASSUME TypeOK, Noting, UNCHANGED <<tray, used, poll>>, NEW l \in Lists, NEW by, NEW t, NEW list,
           Change(l, by, t, list)
    PROVE  Noting'
<1>1. seen' = seen \ {l} /\ missed \subseteq missed'
  BY DEF Change
<1>2. \A m \in Lists : m # l => Read(m)' = Read(m) /\ text'[m] = text[m]
  BY DEF Change, Read, TypeOK
<1>3. <<tray, l>> \in {<<"stat search", "search">>, <<"stat projects", "projects">>} => l \in missed'
  BY DEF Change
<1>4. Taking(l)' /\ Noticed(l)'
  BY <1>1, <1>3 DEF Taking, Noticed, Noting
<1>5. ASSUME NEW m \in Lists, m # l PROVE Taking(m)' /\ (Noticed(m)' \/ m \in missed' \/ text'[m] = "cut")
  BY <1>1, <1>2, <1>5 DEF Noting, Taking, Noticed, Loading
<1> QED
  BY <1>1, <1>4, <1>5 DEF Noting

LEMMA SameNoted ==
    ASSUME Noting, UNCHANGED <<text, saved, seen, missed, tray, used, poll>> PROVE Noting'
BY DEF Noting, Taking, Noticed, Loading, Read

LEMMA StartNoted == ASSUME TypeOK, Noting, Start PROVE Noting'
<1> USE DEF Lists
<1>1. ASSUME NEW l \in Lists, NEW load, NEW stat, NEW other, StartLoads(l, load, stat),
             <<l, load, stat, other>> \in {<<"search", "load search", "stat search", "projects">>,
                                           <<"projects", "load projects", "stat projects", "search">>}
      PROVE  Noting'
  <2>1. /\ UNCHANGED <<text, saved, seen, missed, poll>> /\ tray = load
        /\ \A m \in Lists : Read(m)' = Read(m)
    BY <1>1 DEF StartLoads, Read, fileVars
  <2>2. CASE text[l] = "cut"
    BY <1>1, <2>1, <2>2 DEF StartLoads, Noting, Taking, Noticed, Loading
  <2>3. CASE text[l] # "cut"
    <3>1. tray' = stat /\ used'[l] = Read(l) /\ used'[other] = used[other]
      <4>1. tray' = stat /\ used' = [used EXCEPT ![l] = Read(l)] /\ other \in Lists /\ other # l
        BY <1>1, <2>3 DEF StartLoads
      <4>2. used \in [Lists -> SUBSET Folders]
        BY DEF TypeOK
      <4> QED
        BY <4>1, <4>2
    <3> QED
      BY <1>1, <2>1, <3>1 DEF Noting, Taking, Noticed, Loading
  <2> QED
    BY <2>2, <2>3
<1>2. ASSUME NEW l \in Lists, NEW stat, NEW goto, StartStats(l, stat, goto),
             <<l, stat, goto>> \in {<<"search", "stat search", "load projects">>,
                                    <<"projects", "stat projects", "up">>}
      PROVE  Noting'
  <2>1. /\ UNCHANGED <<text, missed, used, poll>> /\ tray = stat /\ tray' = goto /\ seen' = seen \cup {l}
        /\ \A m \in Lists : Read(m)' = Read(m)
    BY <1>2 DEF StartStats, Read
  <2> QED
    BY <1>2, <2>1 DEF Noting, Taking, Noticed, Loading
<1> QED
  BY <1>1, <1>2 DEF Start

LEMMA RefreshNoted == ASSUME TypeOK, Noting, Refresh PROVE Noting'
<1> USE DEF Lists
<1>1. tray = "up" /\ tray' = "up"
  BY DEF Refresh, Stat, LoadSearch, LoadProjects, Load, CompareStatuses, Resend, At, trayVars
<1>2. ASSUME NEW l \in Lists, NEW load, NEW goto, NEW other, Stat(l, poll, load, goto),
             <<l, load, other>> \in {<<"search", "load search", "projects">>, <<"projects", "load projects", "search">>},
             ~Loading(l), ~Loading(other)
      PROVE  Noting'
  <2>1. UNCHANGED <<text, saved, missed, used>> /\ \A m \in Lists : Read(m)' = Read(m)
    BY <1>2 DEF Stat, Read, trayVars
  <2>2. (seen' = seen /\ ~Loading(l)) \/ (seen' = seen \cup {l} /\ poll' = load)
    BY <1>2 DEF Stat, At
  <2> QED
    BY <1>1, <1>2, <2>1, <2>2 DEF Noting, Taking, Noticed, Loading
<1>3. ASSUME NEW l \in Lists, NEW load, NEW goto, NEW report, NEW other, Load(l, load, goto, report),
             <<l, load, other>> \in {<<"search", "load search", "projects">>, <<"projects", "load projects", "search">>}
      PROVE  Noting'
  <2>1. UNCHANGED <<text, saved, seen>> /\ poll = load /\ \A m \in Lists : Read(m)' = Read(m)
    BY <1>3 DEF Load, At, Read
  <2>2. CASE text[l] = "cut"
    BY <1>1, <1>3, <2>1, <2>2 DEF Load, Noting, Taking, Noticed, Loading
  <2>3. CASE text[l] # "cut"
    <3>1. used'[l] = Read(l) /\ used'[other] = used[other] /\ missed' = missed \ {l}
      BY <1>3, <2>3 DEF Load, TypeOK
    <3> QED
      BY <1>1, <1>3, <2>1, <3>1 DEF Noting, Taking, Noticed, Loading
  <2> QED
    BY <2>2, <2>3
<1>4. CASE CompareStatuses \/ Resend
  <2>1. UNCHANGED <<text, saved, seen, missed, used>> /\ poll \in {"status", "resend"} /\ \A m \in Lists : Read(m)' = Read(m)
    BY <1>4 DEF CompareStatuses, Resend, At, fileVars, trayVars, Read
  <2> QED
    BY <1>1, <2>1 DEF Noting, Taking, Noticed, Loading
<1>5. CASE Stat("search", "wait", "load search", "status") \/ Stat("projects", "stat projects", "load projects", "resend")
  <2>1. CASE Stat("search", "wait", "load search", "status")
    <3>1. poll = "wait"
      BY <2>1 DEF Stat, At
    <3> QED
      BY <1>2, <2>1, <3>1 DEF Loading
  <2>2. CASE Stat("projects", "stat projects", "load projects", "resend")
    <3>1. poll = "stat projects"
      BY <2>2 DEF Stat, At
    <3> QED
      BY <1>2, <2>2, <3>1 DEF Loading
  <2> QED
    BY <1>5, <2>1, <2>2
<1> QED
  BY <1>3, <1>4, <1>5 DEF Refresh, LoadSearch, LoadProjects

LEMMA NotingStep == ASSUME TypeOK, Noting, [Next]_vars PROVE Noting'
<1> USE DEF fileVars, trayVars, pollVars, winVars
<1>1. ASSUME NEW w \in Windows, Window(w) PROVE Noting'
  <2>1. of[w] \in Lists
    BY DEF TypeOK
  <2>2. CASE LoadList(w) \/ ShowList(w) \/ Cancel(w)
    BY <2>2, SameNoted DEF LoadList, ShowList, Cancel
  <2>3. UNCHANGED <<tray, used, poll>>
    BY <1>1 DEF Window, LoadList, ShowList, BeginSave, WritePart, FinishSave, Cancel
  <2>4. CASE BeginSave(w) \/ WritePart(w)
    BY <2>1, <2>3, <2>4, ChangeNoted DEF BeginSave, WritePart, Truncate
  <2>5. CASE FinishSave(w)
    BY <2>1, <2>3, <2>5, ChangeNoted DEF FinishSave
  <2> QED
    BY <1>1, <2>2, <2>4, <2>5 DEF Window
<1>2. ASSUME NEW w \in Windows, SeedAndOpen(w) PROVE Noting'
  BY <1>2, ChangeNoted DEF SeedAndOpen
<1>3. ASSUME NEW l \in Lists, Seed(l) PROVE Noting'
  BY <1>3, ChangeNoted DEF Seed, Truncate
<1>4. CASE QuitApp \/ LogOff
  BY <1>4 DEF QuitApp, LogOff, EndTray, Noting, Taking, Noticed
<1>5. CASE StartTray
  <2>1. UNCHANGED <<text, saved, seen, missed, used, poll>> /\ tray = "off" /\ tray' = "load search"
    BY <1>5 DEF StartTray
  <2> QED
    BY <2>1 DEF Noting, Taking, Noticed
<1>6. CASE (\E w \in Windows, l \in Lists : OpenWindow(w, l)) \/ IndexStatus \/ UNCHANGED vars
  BY <1>6, SameNoted DEF OpenWindow, IndexStatus, vars
<1> QED
  BY <1>1, <1>2, <1>3, <1>4, <1>5, <1>6, StartNoted, RefreshNoted DEF Next

\* A save is noticed, for any number of windows, wherever it falls (tray_app.py
\* 269-278, 380-407).
THEOREM SavesNoticed == Spec => []SavesAreNoticed
<1>1. Init => Noting
  BY DEF Init, Noting, Taking, Noticed
<1>2. TypeOK /\ Noting => SavesAreNoticed
  BY DEF Noting, SavesAreNoticed
<1> QED
  BY <1>1, <1>2, NotingStep, ListsTypeCorrect, PTL DEF Spec
=============================================================================
