---------------------------- MODULE TaskExecution ----------------------------
(***************************************************************************)
(* One accepted TASK inside _task_lock: what TaskDelivery has as a single  *)
(* long step (agent.py _handle_task from the ACK on and _execute_task,     *)
(* with the subprocesses of code_adapters.py and file_actions.py).         *)
(*                                                                         *)
(* Actors: the task thread, its progress ticker, the timer that kills the  *)
(* Codex CLI, the CLI with a helper process it may leave behind, and the   *)
(* user, who takes workspaces and files off the lists meanwhile.           *)
(*                                                                         *)
(* kind is what runs: "codex" (Popen, output read line by line, a timer),  *)
(* "claude" (subprocess.run with its output captured and a time limit),    *)
(* "summary" (the same with either CLI, in a directory made for it), "open"*)
(* (FILE_OPEN: subprocess.run of the file manager, no pipe) or without any *)
(* process "search", "usage" and "status".  Of the output the turns        *)
(* (completed agent messages) are counted, and whether it is garbled:      *)
(* holds bytes the encoding of the pipe cannot decode.                     *)
(***************************************************************************)
EXTENDS Naturals

CONSTANTS
    MaxTurns,   \* bound: turns the CLI writes
    MaxTicks,   \* bound: PROGRESS messages of the ticker
    MaxEdits    \* bound: changes of the workspace list or the index

ASSUME ExecutionAssumption ==
    MaxTurns \in Nat /\ MaxTicks \in Nat /\ MaxEdits \in Nat

VARIABLES
    kind, os,   \* what is executed, and on which system
    listed,     \* the target can be looked up: workspace with its adapter, fileRef, folder,
                \* an adapter for summaries, figures of usage
    edits,
    up,         \* the socket the TASK came from is open
    tpc,        \* where the task thread is
    outcome,    \* what _execute_task returned: "ok" or why it failed
    turns,      \* turns the task thread has read
    ticker,     \* the progress ticker
    stop,       \* progress_stop
    ticks,      \* PROGRESS messages it has sent
    cli,        \* the process: "none", "running", how it "exited" or "killed"
    holders,    \* processes that hold the write end of its stdout
    written,    \* turns it has written
    unread,     \* turns of these still in the pipe
    garbled,    \* bytes in the pipe that do not decode
    timer, timedOut,
    used,       \* history: a target was run that had been off the list since the start
    fresh,      \* history: the target was listed at some moment of the execution
    late        \* history: PROGRESS messages sent after the RESULT

taskVars == <<tpc, outcome, turns>>
tickVars == <<ticker, stop, ticks, late>>
cliVars  == <<cli, holders, written, unread, garbled>>
timeVars == <<timer, timedOut>>
envVars  == <<kind, os, listed, edits, up, fresh>>
vars == <<taskVars, tickVars, cliVars, timeVars, envVars, used>>

Kind   == {"codex", "claude", "summary", "open", "search", "usage", "status"}
Inside == {"search", "usage", "status"}     \* without a process
TaskPc == {"validate", "progress", "lookup", "spawn", "read", "wait", "cancel", "abandon",
           "judge", "run", "kill", "reap", "stop", "join", "record", "result", "over"}
Outcome == {"none", "ok", "failed", "timeout", "undecodable"}
CliState == {"none", "running", "exit0", "exit1", "killed"}
TimerState == {"off", "armed", "due", "set", "done", "cancelled"}

TypeOK ==
    /\ kind \in Kind /\ os \in {"Darwin", "Windows"}
    /\ listed \in BOOLEAN /\ edits \in 0..MaxEdits /\ up \in BOOLEAN
    /\ tpc \in TaskPc /\ outcome \in Outcome
    /\ ticker \in {"none", "wait", "send", "ended"}
    /\ stop \in BOOLEAN /\ ticks \in Nat
    /\ cli \in CliState /\ holders \in SUBSET {"cli", "helper"}
    /\ written \in 0..MaxTurns /\ unread \in Nat /\ garbled \in BOOLEAN /\ turns \in Nat
    /\ timer \in TimerState /\ timedOut \in BOOLEAN
    /\ used \in BOOLEAN /\ fresh \in BOOLEAN /\ late \in Nat

Init ==
    /\ kind \in Kind /\ os \in {"Darwin", "Windows"}
    /\ listed \in BOOLEAN /\ edits = 0 /\ up = TRUE /\ fresh = FALSE
    /\ tpc = "validate" /\ outcome = "none" /\ turns = 0
    /\ ticker = "none" /\ stop = FALSE /\ ticks = 0 /\ late = 0
    /\ cli = "none" /\ holders = {}
    /\ written = 0 /\ unread = 0 /\ garbled = FALSE
    /\ timer = "off" /\ timedOut = FALSE /\ used = FALSE

Go(from, to) == tpc = from /\ tpc' = to

\* _execute_task turns whatever ended the execution into an outcome.
Finish(from, o) == Go(from, "stop") /\ outcome' = o

-----------------------------------------------------------------------------
(* The task thread: _handle_task *)

\* _find_project_workspace and _resolve_code_adapter, _resolve_summary_adapter,
\* resolve_file_ref, is_searchable or a collector of usage finds the target.
Found == listed

\* _validate_task with its first look-up, and the ACK.  A refused TASK ends here
\* (it may also be too late or malformed), and so does the thread when a send
\* raises ConnectionClosed or the usage logs raise.
Validate ==
    /\ tpc = "validate"
    /\ \/ tpc' = "over"
       \/ tpc' = "progress" /\ (kind # "status" => Found) /\ up
    /\ UNCHANGED <<outcome, turns, tickVars, cliVars, timeVars, envVars, used>>

\* PROGRESS 0, then the ticker starts.
BeginExecution ==
    /\ tpc = "progress"
    /\ IF up
       THEN tpc' = "lookup" /\ ticker' = "wait" /\ fresh' = listed
       ELSE tpc' = "over" /\ UNCHANGED <<ticker, fresh>>
    /\ UNCHANGED <<outcome, turns, stop, ticks, late, cliVars, timeVars,
                   kind, os, listed, edits, up, used>>

\* Faulty variant: what validation found is used without another look.
TrustValidation ==
    /\ kind \notin Inside
    /\ Go("lookup", "spawn")
    /\ UNCHANGED <<outcome, turns, tickVars, cliVars, timeVars, envVars, used>>

\* The second look-up: resolve_file_ref, find and _resolve_code_adapter, or
\* _resolve_summary_adapter.  A missing one raises in _execute_task.
LookUp ==
    /\ kind \notin Inside
    /\ IF Found THEN Go("lookup", "spawn") /\ UNCHANGED outcome
                 ELSE Finish("lookup", "failed")
    /\ UNCHANGED <<turns, tickVars, cliVars, timeVars, envVars, used>>

\* FILE_SEARCH goes to the index, AI_AGENT_USAGE to the logs without another look
\* whether they are there; an error of the database or of a log is a failure.
Collect ==
    /\ kind \in Inside
    /\ \E o \in {"ok", "failed"} : Finish("lookup", o)
    /\ used' = (kind # "status" /\ ~fresh)
    /\ UNCHANGED <<turns, tickVars, cliVars, timeVars, envVars>>

\* The CLI is not in the PATH or the folder is gone (code_adapters.py 80-86).
SpawnFails ==
    /\ Finish("spawn", "failed")
    /\ UNCHANGED <<turns, tickVars, cliVars, timeVars, envVars, used>>

\* Popen; for Codex the timer is started with it.
Spawn ==
    /\ Go("spawn", IF kind = "codex" THEN "read" ELSE "run")
    /\ cli' = "running"
    /\ holders' = IF kind = "open" THEN {} ELSE {"cli"}
    /\ timer' = IF kind = "codex" THEN "armed" ELSE timer
    /\ used' = ~fresh
    /\ UNCHANGED <<outcome, turns, tickVars, written, unread, garbled, timedOut, envVars>>

\* progress_stop.set()
StopTicker ==
    /\ Go("stop", "join") /\ stop' = TRUE
    /\ UNCHANGED <<outcome, turns, ticker, ticks, late, cliVars, timeVars, envVars, used>>

\* progress_thread.join(timeout=2.0): a waiting ticker wakes and ends at once,
\* so only one that is held up in a send outlasts the join.
JoinTicker ==
    /\ Go("join", "record") /\ ticker \in {"ended", "send"}
    /\ UNCHANGED <<outcome, turns, tickVars, cliVars, timeVars, envVars, used>>

\* The result is cached and saved.
Record ==
    /\ Go("record", "result")
    /\ UNCHANGED <<outcome, turns, tickVars, cliVars, timeVars, envVars, used>>

\* RESULT, or ConnectionClosed; either way the lock is released.
SendResult ==
    /\ Go("result", "over")
    /\ UNCHANGED <<outcome, turns, tickVars, cliVars, timeVars, envVars, used>>

-----------------------------------------------------------------------------
(* run_codex_analysis *)

EndOfFile == unread = 0 /\ ~garbled /\ holders = {}

\* The timer is cancelled, too late if it has fired.
Cancelled == timer' = IF timer = "armed" THEN "cancelled" ELSE timer

\* A line is read; a turn is reported and a closed connection does not matter
\* (_send_turn_progress).
ReadLine ==
    /\ tpc = "read" /\ unread > 0
    /\ unread' = unread - 1 /\ turns' = turns + 1
    /\ UNCHANGED <<tpc, outcome, tickVars, cli, holders, written, garbled,
                   timeVars, envVars, used>>

\* The decoder meets bytes it cannot decode; it works on blocks, so turns before
\* them may be lost.  The exception leaves the loop for the finally clause.
ReadFails ==
    /\ Go("read", "abandon") /\ garbled
    /\ UNCHANGED <<outcome, turns, tickVars, cliVars, timeVars, envVars, used>>

\* Faulty variant: the timer is for the reading only.
ReadEndsTimer ==
    /\ Go("read", "wait") /\ EndOfFile /\ Cancelled
    /\ UNCHANGED <<outcome, turns, tickVars, cliVars, timedOut, envVars, used>>

ReadEnds ==
    /\ Go("read", "wait") /\ EndOfFile
    /\ UNCHANGED <<outcome, turns, tickVars, cliVars, timeVars, envVars, used>>

\* proc.wait()
WaitForCli ==
    /\ Go("wait", "cancel") /\ cli # "running"
    /\ UNCHANGED <<outcome, turns, tickVars, cliVars, timeVars, envVars, used>>

CancelTimer ==
    /\ Go("cancel", "judge") /\ Cancelled
    /\ UNCHANGED <<outcome, turns, tickVars, cliVars, timedOut, envVars, used>>

\* finally after an exception: nobody kills or waits for the process.  Its pipe
\* goes with the Popen object.
Abandon ==
    /\ Finish("abandon", "undecodable") /\ Cancelled
    /\ UNCHANGED <<turns, tickVars, cliVars, timedOut, envVars, used>>

\* Faulty variant: only the timer's flag is looked at.
JudgeByFlag ==
    /\ Finish("judge", IF timedOut THEN "timeout" ELSE "ok")
    /\ UNCHANGED <<turns, tickVars, cliVars, timeVars, envVars, used>>

\* First the flag, then the return code.
Judge ==
    /\ Finish("judge", IF timedOut THEN "timeout"
                       ELSE IF cli = "exit0" THEN "ok" ELSE "failed")
    /\ UNCHANGED <<turns, tickVars, cliVars, timeVars, envVars, used>>

-----------------------------------------------------------------------------
(* The timer of run_codex_analysis: threading.Timer and _kill_on_timeout *)

\* finished.wait has timed out and finished is not set.
TimerExpires ==
    /\ timer = "armed" /\ timer' = "due"
    /\ UNCHANGED <<taskVars, tickVars, cliVars, timedOut, envVars, used>>

TimerSets ==
    /\ timer = "due" /\ timer' = "set" /\ timedOut' = TRUE
    /\ UNCHANGED <<taskVars, tickVars, cliVars, envVars, used>>

\* proc.kill() spares a process that has ended, and the helpers of one that has not.
KillCli ==
    /\ cli' = IF cli = "running" THEN "killed" ELSE cli
    /\ holders' = holders \ {"cli"}
    /\ UNCHANGED <<written, unread, garbled>>

TimerKills ==
    /\ timer = "set" /\ timer' = "done" /\ KillCli
    /\ UNCHANGED <<taskVars, tickVars, timedOut, envVars, used>>

-----------------------------------------------------------------------------
(* subprocess.run with a time limit: run_claude_code_analysis,                *)
(* run_claude_code_summary, run_codex_summary and reveal_in_file_manager      *)

\* The return code of explorer is not looked at.
NoExitCode == kind = "open" /\ os = "Windows"

\* communicate() has read both pipes to their end and the process has ended.
Ends(o) ==
    /\ cli # "running" /\ holders = {} /\ Finish("run", o)
    /\ turns' = written /\ unread' = 0
    /\ UNCHANGED <<tickVars, cli, holders, written, garbled, timeVars, envVars, used>>

RunEnds ==
    /\ kind # "summary"
    /\ Ends(IF ~garbled /\ (cli = "exit0" \/ NoExitCode) THEN "ok" ELSE "failed")

\* A summary of Codex needs a message, Claude Code's output can stand for itself;
\* and the directory cannot be removed while a process is in it (Windows).
SummaryEnds ==
    /\ kind = "summary"
    /\ \E o \in {"ok", "failed"} :
        /\ o = "ok" => cli = "exit0" /\ ~garbled
        /\ o = "failed" => cli # "exit0" \/ garbled \/ written = 0 \/ os = "Windows"
        /\ Ends(o)

RunTimesOut ==
    /\ Go("run", "kill")
    /\ UNCHANGED <<outcome, turns, tickVars, cliVars, timeVars, envVars, used>>

\* Faulty variant: the time limit ends the wait and not the process.
LeaveRunning ==
    /\ Finish("kill", "timeout")
    /\ UNCHANGED <<turns, tickVars, cliVars, timeVars, envVars, used>>

\* Faulty variant: the signal is reported instead of the time limit.
KillRunReports ==
    /\ Finish("kill", "killed") /\ KillCli
    /\ UNCHANGED <<turns, tickVars, timeVars, envVars, used>>

KillRun ==
    /\ Go("kill", "reap") /\ KillCli
    /\ UNCHANGED <<outcome, turns, tickVars, timeVars, envVars, used>>

\* run() waits for the killed process; on Windows it reads the pipes to their
\* end once more, without a time limit.
ReapRun ==
    /\ cli # "running" /\ (os = "Windows" => holders = {})
    /\ Finish("reap", "timeout")
    /\ UNCHANGED <<turns, tickVars, cliVars, timeVars, envVars, used>>

-----------------------------------------------------------------------------
(* _progress_ticker *)

\* Faulty variant: the ticker goes by its count and forgets the event.
TickerIgnoresStop ==
    /\ ticker = "wait" /\ ticks < MaxTicks /\ ticker' = "send"
    /\ UNCHANGED <<taskVars, stop, ticks, late, cliVars, timeVars, envVars, used>>

TickerWakes ==
    /\ ticker = "wait"
    /\ \/ stop /\ ticker' = "ended"
       \/ ~stop /\ ticks < MaxTicks /\ ticker' = "send"
    /\ UNCHANGED <<taskVars, stop, ticks, late, cliVars, timeVars, envVars, used>>

\* PROGRESS goes out, or ConnectionClosed ends the ticker.
TickerSends ==
    /\ ticker = "send"
    /\ IF up
       THEN /\ ticker' = "wait" /\ ticks' = ticks + 1
            /\ late' = IF tpc = "over" THEN late + 1 ELSE late
       ELSE ticker' = "ended" /\ UNCHANGED <<ticks, late>>
    /\ UNCHANGED <<taskVars, stop, cliVars, timeVars, envVars, used>>

-----------------------------------------------------------------------------
(* The CLI and what it starts (external) *)

\* Output is written as long as somebody reads.
CliWrites ==
    /\ holders # {} /\ tpc \in {"read", "run"}
    /\ \/ /\ written < MaxTurns
          /\ written' = written + 1 /\ unread' = unread + 1 /\ UNCHANGED garbled
       \/ garbled' = TRUE /\ UNCHANGED <<written, unread>>
    /\ UNCHANGED <<taskVars, tickVars, cli, holders, timeVars, envVars, used>>

CliForks ==
    /\ cli = "running" /\ "cli" \in holders /\ holders' = holders \cup {"helper"}
    /\ UNCHANGED <<taskVars, tickVars, cli, written, unread, garbled, timeVars, envVars, used>>

Closes ==
    /\ \E p \in holders : holders' = holders \ {p}
    /\ UNCHANGED <<taskVars, tickVars, cli, written, unread, garbled, timeVars, envVars, used>>

CliExits ==
    /\ cli = "running" /\ cli' \in {"exit0", "exit1"} /\ holders' = holders \ {"cli"}
    /\ UNCHANGED <<taskVars, tickVars, written, unread, garbled, timeVars, envVars, used>>

-----------------------------------------------------------------------------
(* The user and the network (external) *)

\* A workspace or a file goes off the list, or comes back.
Edit ==
    /\ edits < MaxEdits /\ edits' = edits + 1
    /\ listed' = ~listed /\ fresh' = (fresh \/ listed')
    /\ UNCHANGED <<taskVars, tickVars, cliVars, timeVars, kind, os, up, used>>

Drop ==
    /\ up /\ up' = FALSE
    /\ UNCHANGED <<taskVars, tickVars, cliVars, timeVars, kind, os, listed, edits, fresh, used>>

-----------------------------------------------------------------------------

Handle == Validate \/ BeginExecution \/ LookUp \/ Collect \/ SpawnFails \/ Spawn
          \/ StopTicker \/ JoinTicker \/ Record \/ SendResult
Codex  == ReadLine \/ ReadFails \/ ReadEnds \/ WaitForCli \/ CancelTimer \/ Abandon \/ Judge
Run    == RunEnds \/ SummaryEnds \/ RunTimesOut \/ KillRun \/ ReapRun
Task   == Handle \/ Codex \/ Run
Timer  == TimerExpires \/ TimerSets \/ TimerKills
Ticker == TickerWakes \/ TickerSends
Cli    == CliWrites \/ CliForks \/ Closes \/ CliExits

Next == Task \/ Timer \/ Ticker \/ Cli \/ Edit \/ Drop

\* Threads run, the timer's 300 s pass, sends return; the CLI need not do anything.
Spec == Init /\ [][Next]_vars /\ WF_vars(Task) /\ WF_vars(Timer) /\ WF_vars(Ticker)

-----------------------------------------------------------------------------
(* Properties *)

\* A target that was off its list during the whole execution is not used: the
\* removal between validation and execution is noticed (agent.py 733-741, 749).
\* FILE_SEARCH and AI_AGENT_USAGE do not look again.
UsesListedTarget == used => kind \in {"search", "usage"}

\* A success means that the CLI ended by itself with 0 and that every turn it
\* wrote is in the answer, whatever the timer does at the end (code_adapters.py
\* 265-273).  explorer's code is the exception.
SuccessIsComplete ==
    outcome = "ok" =>
        /\ cli = "exit0" \/ NoExitCode \/ kind \in Inside
        /\ cli # "running" /\ turns = written

\* No process outlives the execution that started it, except one whose output
\* could not be decoded (code_adapters.py 232-238 and subprocess.run).
NoSurvivor == outcome \notin {"none", "undecodable"} => cli # "running"

\* After the RESULT at most the one PROGRESS follows that the ticker was sending
\* when the join gave up (agent.py 577-579).
AtMostOneLate == late <= 1

\* The time limits end an execution whose CLI hangs, so _task_lock is released
\* (code_adapters.py 232-233), unless a helper of a killed CLI keeps its pipe open
\* for ever, which no time limit covers for Codex, nor for the others on Windows.
HeldOpen == cli # "running" /\ "helper" \in holders
            /\ (kind = "codex" \/ (kind \in {"claude", "summary"} /\ os = "Windows"))
ExecutionEnds == (tpc = "lookup") ~> (tpc = "over" \/ []HeldOpen)
=============================================================================
