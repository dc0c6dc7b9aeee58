------------------------ MODULE TaskExecutionProofs ------------------------
(***************************************************************************)
(* Proofs about TaskExecution for every kind of task, both systems and any *)
(* number of turns, PROGRESS messages and edits.                           *)
(***************************************************************************)
EXTENDS TaskExecution, TLAPS

Before == {"validate", "progress", "lookup", "spawn"}
Within == {"read", "wait", "cancel", "abandon", "judge", "run", "kill", "reap"}

\* Where the task thread is tells whether there is a process and an outcome.
Staged ==
    /\ tpc \in Before => cli = "none"
    /\ tpc \in Before \cup Within => outcome = "none"
    /\ tpc \in {"cancel", "judge", "reap"} => cli # "running"

Counted ==
    /\ tpc \in Before => turns = 0 /\ written = 0 /\ unread = 0 /\ holders = {}
    /\ tpc = "read" => turns + unread = written
    /\ tpc \in {"wait", "cancel", "judge"} => turns = written /\ holders = {}

Looked == (tpc = "lookup" /\ listed) \/ tpc = "spawn" => fresh

Quiet ==
    /\ tpc \in {"validate", "progress"} => ticker = "none"
    /\ tpc \in {"join", "record", "result"} \/ (tpc = "over" /\ ticker # "none") => stop
    /\ tpc # "over" \/ ticker = "send" => late = 0

-----------------------------------------------------------------------------

LEMMA TypeInit == Init => TypeOK
<1> SUFFICES ASSUME Init PROVE TypeOK
  OBVIOUS
<1>1. 0 \in 0..MaxTurns /\ 0 \in 0..MaxEdits
  BY ExecutionAssumption DEF ExecutionAssumption
<1> QED
  BY <1>1 DEF Init, TypeOK, TaskPc, Outcome, CliState, TimerState

LEMMA TypeStep == TypeOK /\ [Next]_vars => TypeOK'
<1> SUFFICES ASSUME TypeOK, [Next]_vars PROVE TypeOK'
  OBVIOUS
<1> USE DEF TypeOK, TaskPc, Outcome, CliState, TimerState, Go, Finish,
        taskVars, tickVars, cliVars, timeVars, envVars
<1>1. CASE Validate
  BY <1>1 DEF Validate, Found
<1>2. CASE BeginExecution
  BY <1>2 DEF BeginExecution
<1>3. CASE LookUp
  BY <1>3 DEF LookUp, Found
<1>4. CASE Collect
  BY <1>4 DEF Collect
<1>5. CASE SpawnFails
  BY <1>5 DEF SpawnFails
<1>6. CASE Spawn
  BY <1>6 DEF Spawn
<1>7. CASE StopTicker
  BY <1>7 DEF StopTicker
<1>8. CASE JoinTicker
  BY <1>8 DEF JoinTicker
<1>9. CASE Record
  BY <1>9 DEF Record
<1>10. CASE SendResult
  BY <1>10 DEF SendResult
<1>11. CASE ReadLine
  BY <1>11 DEF ReadLine
<1>12. CASE ReadFails
  BY <1>12 DEF ReadFails
<1>13. CASE ReadEnds
  BY <1>13 DEF ReadEnds
<1>14. CASE WaitForCli
  BY <1>14 DEF WaitForCli
<1>15. CASE CancelTimer
  BY <1>15 DEF CancelTimer, Cancelled
<1>16. CASE Abandon
  BY <1>16 DEF Abandon, Cancelled
<1>17. CASE Judge
  BY <1>17 DEF Judge
<1>18. CASE RunEnds \/ SummaryEnds
  <2>1. PICK o \in {"ok", "failed"} : Ends(o)
    BY <1>18 DEF RunEnds, SummaryEnds
  <2>2. QED
    BY <2>1 DEF Ends
<1>19. CASE RunTimesOut
  BY <1>19 DEF RunTimesOut
<1>20. CASE KillRun
  BY <1>20 DEF KillRun, KillCli
<1>21. CASE ReapRun
  BY <1>21 DEF ReapRun
<1>22. CASE TimerExpires
  BY <1>22 DEF TimerExpires
<1>23. CASE TimerSets
  BY <1>23 DEF TimerSets
<1>24. CASE TimerKills
  BY <1>24 DEF TimerKills, KillCli
<1>25. CASE TickerWakes
  BY <1>25 DEF TickerWakes
<1>26. CASE TickerSends
  BY <1>26 DEF TickerSends
<1>27. CASE CliWrites
  <2>1. written < MaxTurns => written + 1 \in 0..MaxTurns
    BY ExecutionAssumption DEF ExecutionAssumption
  <2>2. written' \in 0..MaxTurns /\ unread' \in Nat
    BY <1>27, <2>1 DEF CliWrites
  <2>3. garbled' \in BOOLEAN
    BY <1>27 DEF CliWrites
  <2> QED
    BY <1>27, <2>2, <2>3 DEF CliWrites
<1>28. CASE CliForks
  BY <1>28 DEF CliForks
<1>29. CASE Closes
  BY <1>29 DEF Closes
<1>30. CASE CliExits
  BY <1>30 DEF CliExits
<1>31. CASE Edit
  <2>1. edits < MaxEdits => edits + 1 \in 0..MaxEdits
    BY ExecutionAssumption DEF ExecutionAssumption
  <2> QED
    BY <1>31, <2>1 DEF Edit
<1>32. CASE Drop
  <2>1. up' \in BOOLEAN
    BY <1>32 DEF Drop
  <2> QED
    BY <1>32, <2>1 DEF Drop
<1>33. CASE UNCHANGED vars
  BY <1>33 DEF vars
<1> QED
  BY <1>1, <1>2, <1>3, <1>4, <1>5, <1>6, <1>7, <1>8, <1>9, <1>10, <1>11,
       <1>12, <1>13, <1>14, <1>15, <1>16, <1>17, <1>18, <1>19, <1>20, <1>21,
       <1>22, <1>23, <1>24, <1>25, <1>26, <1>27, <1>28, <1>29, <1>30, <1>31,
       <1>32, <1>33 DEF Next,
     Task, Handle, Codex, Run, Timer, Ticker, Cli

\* Every variable keeps its type.
THEOREM ExecutionTypeCorrect == Spec => []TypeOK
<1> QED
  BY TypeInit, TypeStep, PTL DEF Spec

\* Who is past the process's end has seen it end or killed it; only the way out
\* after an undecodable line leaves it alone.
LEMMA Survivors ==
  TypeOK /\ Staged /\ NoSurvivor /\ [Next]_vars => (Staged /\ NoSurvivor)'
<1> SUFFICES ASSUME TypeOK, Staged, NoSurvivor, [Next]_vars
             PROVE  (Staged /\ NoSurvivor)'
  OBVIOUS
<1> USE DEF TypeOK, Staged, NoSurvivor, Before, Within, Go, Finish, taskVars,
        tickVars, cliVars, timeVars, envVars
<1>1. CASE Handle
  BY <1>1 DEF Handle, Validate, BeginExecution, LookUp, Found, Collect, SpawnFails,
       Spawn, StopTicker, JoinTicker, Record, SendResult
<1>2. CASE Codex
  BY <1>2 DEF Codex, ReadLine, ReadFails, ReadEnds, WaitForCli, CancelTimer,
       Abandon, Judge, Cancelled
<1>3. CASE Run
  BY <1>3 DEF Run, Ends, RunEnds, SummaryEnds, RunTimesOut, KillRun, ReapRun, KillCli
<1>4. CASE Timer
  BY <1>4 DEF Timer, TimerExpires, TimerSets, TimerKills, KillCli
<1>5. CASE Ticker
  BY <1>5 DEF Ticker, TickerWakes, TickerSends
<1>6. CASE Cli
  BY <1>6 DEF Cli, CliWrites, CliForks, Closes, CliExits
<1>7. CASE Edit \/ Drop
  BY <1>7 DEF Edit, Drop
<1>8. CASE UNCHANGED vars
  BY <1>8 DEF vars
<1> QED
  BY <1>1, <1>2, <1>3, <1>4, <1>5, <1>6, <1>7, <1>8 DEF Next, Task

\* No process outlives its execution, unless its output could not be decoded.
THEOREM NothingSurvives == Spec => []NoSurvivor
<1>1. Init => Staged /\ NoSurvivor
  BY DEF Init, Staged, NoSurvivor, Before, Within
<1> QED
  BY <1>1, ExecutionTypeCorrect, Survivors, PTL DEF Spec

LEMMA StagedAlways == Spec => []Staged
<1>1. Init => Staged /\ NoSurvivor
  BY DEF Init, Staged, NoSurvivor, Before, Within
<1> QED
  BY <1>1, ExecutionTypeCorrect, Survivors, PTL DEF Spec

\* What was written is in the pipe or has been read, and nobody writes once the
\* end of the pipe was seen.
LEMMA Counts ==
  TypeOK /\ Staged /\ Counted /\ SuccessIsComplete /\ [Next]_vars => (Counted /\ SuccessIsComplete)'
<1> SUFFICES ASSUME TypeOK, Staged, Counted, SuccessIsComplete, [Next]_vars
             PROVE  (Counted /\ SuccessIsComplete)'
  OBVIOUS
<1> USE DEF TypeOK, Staged, Counted, SuccessIsComplete, EndOfFile, NoExitCode,
        Before, Within, Go, Finish, taskVars, tickVars, cliVars, timeVars,
        envVars
<1>1. CASE Handle
  <2>1. CASE Validate
    BY <2>1 DEF Validate, Found
  <2>2. CASE BeginExecution
    BY <2>2 DEF BeginExecution
  <2>3. CASE LookUp
    BY <2>3 DEF LookUp, Found
  <2>4. CASE Collect
    BY <2>4 DEF Collect
  <2>5. CASE SpawnFails
    BY <2>5 DEF SpawnFails
  <2>6. CASE Spawn
    BY <2>6 DEF Spawn
  <2>7. CASE StopTicker
    BY <2>7 DEF StopTicker
  <2>8. CASE JoinTicker
    BY <2>8 DEF JoinTicker
  <2>9. CASE Record
    BY <2>9 DEF Record
  <2>10. CASE SendResult
    BY <2>10 DEF SendResult
  <2> QED BY <1>1, <2>1, <2>2, <2>3, <2>4, <2>5, <2>6, <2>7, <2>8, <2>9, <2>10 DEF Handle
<1>2. CASE Codex
  <2>1. CASE ReadLine
    BY <2>1 DEF ReadLine
  <2>2. CASE ReadFails
    BY <2>2 DEF ReadFails
  <2>3. CASE ReadEnds
    BY <2>3 DEF ReadEnds
  <2>4. CASE WaitForCli
    BY <2>4 DEF WaitForCli
  <2>5. CASE CancelTimer
    BY <2>5 DEF CancelTimer, Cancelled
  <2>6. CASE Abandon
    BY <2>6 DEF Abandon, Cancelled
  <2>7. CASE Judge
    BY <2>7 DEF Judge
  <2> QED BY <1>2, <2>1, <2>2, <2>3, <2>4, <2>5, <2>6, <2>7 DEF Codex
<1>3. CASE Run
  BY <1>3 DEF Run, Ends, RunEnds, SummaryEnds, RunTimesOut, KillRun, ReapRun, KillCli
<1>4. CASE Timer
  BY <1>4 DEF Timer, TimerExpires, TimerSets, TimerKills, KillCli
<1>5. CASE Ticker
  BY <1>5 DEF Ticker, TickerWakes, TickerSends
<1>6. CASE Cli
  <2>1. CASE CliWrites
    BY <2>1 DEF CliWrites
  <2>2. CASE CliForks
    BY <2>2 DEF CliForks
  <2>3. CASE Closes
    BY <2>3 DEF Closes
  <2>4. CASE CliExits
    BY <2>4 DEF CliExits
  <2> QED BY <1>6, <2>1, <2>2, <2>3, <2>4 DEF Cli
<1>7. CASE Edit \/ Drop
  BY <1>7 DEF Edit, Drop
<1>8. CASE UNCHANGED vars
  BY <1>8 DEF vars
<1> QED
  BY <1>1, <1>2, <1>3, <1>4, <1>5, <1>6, <1>7, <1>8 DEF Next, Task

\* A success comes from a CLI that ended with 0 and has all its turns.
THEOREM SuccessComplete == Spec => []SuccessIsComplete
<1>1. Init => Counted /\ SuccessIsComplete
  BY DEF Init, Staged, Counted, SuccessIsComplete, NoExitCode, Before, Within
<1>2. Spec => []TypeOK /\ []Staged
  BY ExecutionTypeCorrect, StagedAlways
<1> QED
  BY <1>1, <1>2, Counts, PTL DEF Spec

\* The second look-up sees the list as it is after the execution began.
LEMMA Looks ==
  TypeOK /\ Looked /\ UsesListedTarget /\ [Next]_vars => (Looked /\ UsesListedTarget)'
<1> SUFFICES ASSUME TypeOK, Looked, UsesListedTarget, [Next]_vars
             PROVE  (Looked /\ UsesListedTarget)'
  OBVIOUS
<1> USE DEF TypeOK, Looked, UsesListedTarget, Go, Finish, taskVars, tickVars,
        cliVars, timeVars, envVars
<1>1. CASE Handle
  BY <1>1 DEF Handle, Validate, BeginExecution, LookUp, Found, Collect, Inside,
       SpawnFails, Spawn, StopTicker, JoinTicker, Record, SendResult
<1>2. CASE Codex
  BY <1>2 DEF Codex, ReadLine, ReadFails, ReadEnds, WaitForCli, CancelTimer,
       Abandon, Judge, Cancelled
<1>3. CASE Run
  BY <1>3 DEF Run, Ends, RunEnds, SummaryEnds, RunTimesOut, KillRun, ReapRun, KillCli
<1>4. CASE Timer
  BY <1>4 DEF Timer, TimerExpires, TimerSets, TimerKills, KillCli
<1>5. CASE Ticker
  BY <1>5 DEF Ticker, TickerWakes, TickerSends
<1>6. CASE Cli
  BY <1>6 DEF Cli, CliWrites, CliForks, Closes, CliExits
<1>7. CASE Edit \/ Drop
  BY <1>7 DEF Edit, Drop
<1>8. CASE UNCHANGED vars
  BY <1>8 DEF vars
<1> QED
  BY <1>1, <1>2, <1>3, <1>4, <1>5, <1>6, <1>7, <1>8 DEF Next, Task

\* What is run was listed at some moment of the execution.
THEOREM ListedTargetUsed == Spec => []UsesListedTarget
<1>1. Init => Looked /\ UsesListedTarget
  BY DEF Init, Looked, UsesListedTarget
<1> QED
  BY <1>1, ExecutionTypeCorrect, Looks, PTL DEF Spec

\* After the result the ticker's event is set, so a ticker that returns from a
\* late send ends.
LEMMA Quiets ==
  TypeOK /\ Quiet /\ AtMostOneLate /\ [Next]_vars => (Quiet /\ AtMostOneLate)'
<1> SUFFICES ASSUME TypeOK, Quiet, AtMostOneLate, [Next]_vars
             PROVE  (Quiet /\ AtMostOneLate)'
  OBVIOUS
<1> USE DEF TypeOK, Quiet, AtMostOneLate, Go, Finish, taskVars, tickVars,
        cliVars, timeVars, envVars
<1>1. CASE Handle
  BY <1>1 DEF Handle, Validate, BeginExecution, LookUp, Found, Collect, SpawnFails,
       Spawn, StopTicker, JoinTicker, Record, SendResult
<1>2. CASE Codex
  BY <1>2 DEF Codex, ReadLine, ReadFails, ReadEnds, WaitForCli, CancelTimer,
       Abandon, Judge, Cancelled
<1>3. CASE Run
  BY <1>3 DEF Run, Ends, RunEnds, SummaryEnds, RunTimesOut, KillRun, ReapRun, KillCli
<1>4. CASE Timer
  BY <1>4 DEF Timer, TimerExpires, TimerSets, TimerKills, KillCli
<1>5. CASE Ticker
  BY <1>5 DEF Ticker, TickerWakes, TickerSends
<1>6. CASE Cli
  BY <1>6 DEF Cli, CliWrites, CliForks, Closes, CliExits
<1>7. CASE Edit \/ Drop
  BY <1>7 DEF Edit, Drop
<1>8. CASE UNCHANGED vars
  BY <1>8 DEF vars
<1> QED
  BY <1>1, <1>2, <1>3, <1>4, <1>5, <1>6, <1>7, <1>8 DEF Next, Task

\* At most one PROGRESS follows the RESULT.
THEOREM OneLateProgress == Spec => []AtMostOneLate
<1>1. Init => Quiet /\ AtMostOneLate
  BY DEF Init, Quiet, AtMostOneLate
<1> QED
  BY <1>1, ExecutionTypeCorrect, Quiets, PTL DEF Spec


-----------------------------------------------------------------------------
(* An execution ends: what ExecutionEnds needs besides fairness *)

Waiting == kind = "codex" /\ tpc \in {"read", "wait"}

\* The timer is on its way, or has done what it can.
Timed ==
    Waiting => \/ timer \in {"armed", "due", "set"}
               \/ timer = "done" /\ cli # "running" /\ "cli" \notin holders

LEMMA TimedStep == TypeOK /\ Timed /\ [Next]_vars => Timed'
<1> SUFFICES ASSUME TypeOK, Timed, [Next]_vars PROVE Timed'
  OBVIOUS
<1> USE DEF TypeOK, Timed, Waiting, Go, Finish, taskVars, tickVars, cliVars, timeVars, envVars
<1>1. CASE Handle
  BY <1>1 DEF Handle, Validate, BeginExecution, LookUp, Found, Collect, SpawnFails,
       Spawn, StopTicker, JoinTicker, Record, SendResult
<1>2. CASE Codex
  BY <1>2 DEF Codex, ReadLine, ReadFails, ReadEnds, WaitForCli, CancelTimer,
       Abandon, Judge, Cancelled
<1>3. CASE Run
  BY <1>3 DEF Run, Ends, RunEnds, SummaryEnds, RunTimesOut, KillRun, ReapRun, KillCli
<1>4. CASE Timer
  BY <1>4 DEF Timer, TimerExpires, TimerSets, TimerKills, KillCli
<1>5. CASE Ticker
  BY <1>5 DEF Ticker, TickerWakes, TickerSends
<1>6. CASE Cli
  BY <1>6 DEF Cli, CliWrites, CliForks, Closes, CliExits
<1>7. CASE Edit \/ Drop
  BY <1>7 DEF Edit, Drop
<1>8. CASE UNCHANGED vars
  BY <1>8 DEF vars
<1> QED
  BY <1>1, <1>2, <1>3, <1>4, <1>5, <1>6, <1>7, <1>8 DEF Next, Task

\* Whoever reads the output of Codex, or waits for its end, has a timer that will
\* still kill it, or that has: then nobody but a helper can hold the pipe, which is
\* the one exception ExecutionEnds makes (code_adapters.py 232-251).
THEOREM EveryWaitIsTimed == Spec => []Timed
<1>1. Init => Timed
  BY DEF Init, Timed, Waiting
<1> QED
  BY <1>1, ExecutionTypeCorrect, TimedStep, PTL DEF Spec

\* How many steps of the task thread are left at most: the places before it, and
\* the turns it may still read.
Places ==
    CASE tpc = "validate"                     -> 12
      [] tpc = "progress"                     -> 11
      [] tpc = "lookup"                       -> 10
      [] tpc = "spawn"                        -> 9
      [] tpc \in {"read", "run"}              -> 8
      [] tpc \in {"wait", "abandon", "kill"}  -> 7
      [] tpc \in {"cancel", "reap"}           -> 6
      [] tpc = "judge"                        -> 5
      [] tpc = "stop"                         -> 4
      [] tpc = "join"                         -> 3
      [] tpc = "record"                       -> 2
      [] tpc = "result"                       -> 1
      [] OTHER                                -> 0

Ahead == Places + IF tpc \in Before \cup {"read"} THEN MaxTurns - turns ELSE 0

LEMMA AheadType == TypeOK /\ Counted => Ahead \in Nat
<1> SUFFICES ASSUME TypeOK, Counted PROVE Ahead \in Nat
  OBVIOUS
<1>1. Places \in Nat
  BY DEF Places
<1>2. tpc \in Before \cup {"read"} => MaxTurns - turns \in Nat
  BY ExecutionAssumption DEF TypeOK, Counted, Before
<1> QED
  BY <1>1, <1>2 DEF Ahead

\* No step of the task thread goes back: at most one for each place and each turn
\* is ever left, so an execution that never ends waits for a process or for its
\* ticker (_handle_task and _execute_task, agent.py 541-602).
THEOREM ExecutionAdvances == Spec => [](Ahead \in Nat) /\ [][Task => Ahead' < Ahead]_vars
<1>1. ASSUME TypeOK, Counted, Task PROVE Ahead' < Ahead
  <2>1. turns \in Nat /\ MaxTurns \in Nat /\ (tpc \in Before \cup {"read"} => MaxTurns - turns \in Nat)
    BY <1>1, ExecutionAssumption DEF TypeOK, Counted, Before
  <2> USE DEF Ahead, Places, Before, Go, Finish
  <2>2. CASE Handle
    BY <2>1, <2>2 DEF Handle, Validate, BeginExecution, LookUp, Collect, SpawnFails,
       Spawn, StopTicker, JoinTicker, Record, SendResult
  <2>3. CASE ReadLine
    BY <2>1, <2>3 DEF ReadLine
  <2>4. CASE Codex /\ ~ReadLine
    BY <2>1, <2>4 DEF Codex, ReadFails, ReadEnds, WaitForCli, CancelTimer, Abandon, Judge
  <2>5. CASE Run
    BY <2>1, <2>5 DEF Run, Ends, RunEnds, SummaryEnds, RunTimesOut, KillRun, ReapRun
  <2> QED
    BY <1>1, <2>2, <2>3, <2>4, <2>5 DEF Task
<1>2. Spec => []TypeOK /\ []Counted
  <2>1. Init => Counted /\ SuccessIsComplete
    BY DEF Init, Staged, Counted, SuccessIsComplete, NoExitCode, Before, Within
  <2> QED
    BY <2>1, ExecutionTypeCorrect, StagedAlways, Counts, PTL DEF Spec
<1> QED
  BY <1>1, <1>2, AheadType, PTL DEF Spec
=============================================================================
