# Slash PC runner: a verification project in TLA+

The Slash PC runner (`slash-python-pc-runner/`) is a tray application that keeps a
WebSocket connection from a PC to the Slash server, receives tasks on it (file
search, opening a file, code analysis by a local CLI, usage and system figures),
executes them one at a time and sends the results back. It survives lost
connections, repeated messages, restarts, and folders that are registered and
removed while it runs. This directory models that program: what its threads do
step by step, what it stores, and what it promises. TLC checks small instances
and TLAPS proves every safety property the passing runs check for all values of the constants.

File names without a directory are those of `slash-python-pc-runner/src/slash_pc_runner/`.

## 1. Inventory

| Component | State | Operations | Talks to | Module |
|---|---|---|---|---|
| Task delivery (`agent.py` 263-287, 455-602, `processed_task_store.py`) | `_result_cache`, history file, `_task_lock` | receive TASK and RESULT_ACK, resend after READY, save, prune, restart | server, history file | `TaskDelivery`, `TaskLedger` |
| Connection and session (`agent.py` 191-231, 353-508; `tray_app.py` refresh) | `_state`, `_socket`, `_stopped`, `_reconnect_attempt`, a heartbeat thread per connection | dial, authenticate, receive, back off, heartbeat, `resend_ready`, `stop` | server, tray, folder stores | `AgentSession` |
| Registration and identity (`tray_app.py` 141-338, `agent.py` 176-349, `identity_store.py`, `pairing_client.py`, `single_instance.py`) | identity in memory, in its file, in the old keyring; the code at hand | load, migrate, refresh, pair, verify, save, clear, retry | server, user, disk | `Registration` |
| File index (`file_index.py`, `tray_app.py` 269-273, 386-392) | `_folders`, status per folder, observers, the `files` table | `sync_folders` in two threads, scan, events, `_stop_watching` | file system, watchdog, folder window | `FileIndex` |
| Task execution (`agent.py` 556-767, `file_actions.py`, `system_status.py`, `project_workspace_store.py`) | the running task, its progress ticker | validate, look up, execute, PROGRESS, RESULT | stores, adapters, server | `TaskExecution` |
| Code analysis (`code_adapters.py`) | a CLI process, its pipes, a kill timer | spawn, read, time out | local CLI | `TaskExecution` |
| Truncation (`agent.py` 82-120) | the locals of two functions | cut a summary to 64 KiB of JSON | task execution | `Truncation` |
| Usage (`usage_adapters.py`) | a cache of 30 s | look up, walk the logs, sum, store | log files, validation and execution | `UsageLogs`, `Answers` |
| Summaries (`summary_adapters.py`) | a CLI process, a temporary directory | run, take the text | local CLI | `TaskExecution`, `Answers` |
| Managed lists (`folders_window.py`, `project_workspaces_window.py`, `project_workspace_store.py`, `tray_app.py` 60-100, 269-278, 380-446) | two JSON files; in each window what it loaded; in the tray the lists, two modification times, two handles | open a window, load, save, cancel, poll, seed, quit | files, file index, agent | `ManagedLists` |
| Pairing window (`pairing_window.py`) | one code | show, enter, end | tray | its effect, in `Registration` |
| Tray (`tray_app.py`, `__main__.py`) | menu, processes of the windows | setup, refresh, quit | all of the above | its control, not its menu |
| Update check, build info, resources, platform, cryptography, command line | none that matters to the rest | | | not modelled (section 8) |

How they interact. `TrayApp.setup` runs `start_agent`, which reads the folder
lists, loads the identity and starts a `ContractPcRunner`. `start()` spawns a thread
that runs `sync_folders`, refreshes the session or pairs the PC, and starts the
connection thread. That thread makes one connection after the other; each has a
heartbeat thread, and every TASK gets a thread of its own behind `_task_lock`. The
tray's refresh thread polls the files the windows write, calls `sync_folders` and
`resend_ready`. Everything shared between these threads is a plain attribute,
unless `_task_lock` or the lock of a store guards it.

What is hard, and what makes each component correct:

* Delivery: a TASK is repeated, an answer is lost, the process ends between the
  execution and the save, two threads write one file. Correct is: one task at a
  time, no second execution while the process lives, a result forgotten only when
  the server has it, and every result confirmed in the end.
* Session: four kinds of threads read and write `_state` and `_socket`, and threads
  of old connections linger. Correct is: the handshake is in order on every
  connection, `stop()` and a revocation end the loop from anywhere, the backoff
  works, the server learns of folder changes.
* Registration: each request can fail on either side of the server's effect, each
  file operation can be torn, and failure handling crosses four call levels. Correct
  is: no new pairing of a revoked device, no identity lost, restarts reconnect.
* Task execution: the task thread, its ticker, a timer, a process and that process's
  own children race at the end of an execution. Correct is: a success is complete,
  nothing is left running, nothing more is said after the RESULT, the lock is released.
* Managed lists: windows, a second window, the tray's polling and the end of any of them
  meet in one file that is rewritten in place. Correct is: nothing is dropped but by an
  overlap, a file at rest can be read, what was saved is used and reported, no window is
  left behind.
* Answers: the logs grow while they are counted, a text may take up to six times its
  length as JSON, or have no UTF-8 form. Correct is: figures the logs really had, a
  summary that fits and is not cut too short, an analysis that survives its usage.
* File index: a scan, older observers, a second `sync_folders` and the file system
  itself all move at once. Correct is: the table agrees with the disk, states
  settle, the list is followed.

`PROJECT.json` lists forty hazards at their lines with the properties that watch them.

## 2. Modules

| Module | What it is |
|---|---|
| `TaskLedger` | abstract specification: what the runner promises of dispatches |
| `TaskDelivery` | the detailed one; `RefinesLedger` is the refinement |
| `AgentSession` | connection, heartbeats, tray, `stop()` |
| `Registration` | start, identity, pairing, revocation |
| `TaskExecution` | one task inside the lock: CLI process, kill timer, ticker |
| `Answers` | from the CLI's output to the answer; composes the next two |
| `UsageLogs` | the count of the usage while the logs change |
| `Truncation` | the cut of a summary |
| `ManagedLists` | two list files, their windows, the tray that polls them |
| `FileIndex` | folder list, scans, observers, table |
| `MCTaskDelivery`, `MCAgentSession`, `MCRegistration`, `MCFileIndex`, `MCTaskExecution`, `MCManagedLists`, `MCAnswers` | the instances TLC checks |
| `TaskDeliveryProofs` (with the refinement of `TaskLedger`), `AgentSessionProofs`, `RegistrationProofs`, `TaskExecutionProofs`, `FileIndexProofs`, `ManagedListsProofs`, `TruncationProofs`, `AnswersProofs` (with `UsageLogs`) | theorems |

Conventions. An action is a stretch of code between two points where a thread can
be held up or another can interfere: a send, a lock, a file operation, a request, a
read of a shared attribute. Actions carry the names of functions where a function
is one action, and `PROJECT.json` maps every definition to its lines. An operator
commented "Faulty variant" is no part of a specification: it is a plausible bug,
substituted for the definition after it to see that a property notices.

### TaskDelivery

Connections are numbered; `link` is the state of each. "dead" is a connection that
is cut and has not noticed: sends succeed and are lost. "closed" makes sends raise
`ConnectionClosed`. A task thread keeps `tsock`, the connection its TASK came from,
as `_run_task` keeps its `socket` argument. `_resend_unacked_results` is `BeginResend`
and `ResendNext`, one key each, and has the `RuntimeError` Python raises if the
dictionary changed size. A save is a truncation and a write (`Truncate`, `Write`),
which interleave between the two kinds of writers as nothing in the code forbids it. Either
half may raise (`ConnSaveFails`, `TaskSaveFails`): on the connection thread that ends
`_connect_once`, on a task thread it ends the thread before its RESULT.
`Prune`, serialisation and the insertion before it are one step. A RESULT is the
number of the execution that made it. An execution may take any time, `Restart` may
hit every step, and `Age` (an hour has passed) needs that nothing about the dispatch
is under way. The server is external: it sends a TASK, once more if no ACK came,
keeps one delivery per device active, acknowledges each RESULT, and may give up.

### TaskExecution

What `TaskDelivery` has as one long step. `tpc` follows `_handle_task` from the ACK on,
`_execute_task`, and then one of two ways: "read" to "judge" is `run_codex_analysis`
with its `threading.Timer`, "run" to "reap" is `subprocess.run`, which
`run_claude_code_analysis`, both ways to summarise and `reveal_in_file_manager` use; the
other three task types run nothing. The timer has a step between its look at
`finished` and the flag, and one between the flag and the kill, so a `cancel()` can
come too late by either. The CLI is external: it may hang, write, write bytes that do
not decode, close its output before it ends, leave a helper that holds the pipe, and
end with any code; it is never obliged to do anything, which also covers a CLI that
blocks because nobody drains its stderr. Of the output only turns are counted.
`fresh` and `used` are history variables: was the target on its list at some moment of
the execution, was it used when it was not.

### Answers, UsageLogs, Truncation

`Answers` takes over where the CLI of `TaskExecution` has ended well. An output is a
sequence of lines, each a message, the figures of a turn or something else, and the text
it is as a whole; a line may hold a character at which `splitlines` would split it, which
makes a message of Codex unreadable for a summary, not for an analysis. A summary whose
temporary directory cannot be removed fails ("leftover"). `AnalysisBuilt` waits for a call of `UsageLogs` and hands the summary to
`Truncation`; AI_AGENT_USAGE is two calls of `UsageLogs`, one of them in the validation,
where an exception costs the task its ACK ("died"). A log is a number of complete turns
and perhaps the beginning of one; the reader goes turn by turn. Claude Code's turns are
added, of Codex the last one counts, and the cutoff is by turn or by session, as in the
code. `floor` is a history variable: what the logs had when the scan began, less what was deleted
before its turn or could not be read. In `Truncation` a text is two increasing functions,
the bytes of its first characters as UTF-8 and within JSON; the loop of the cut, and the loop that looks
for the end of a character, go round step by step. `UsageSpec` and `TruncationSpec` are the two parts by themselves;
`AnswersCompose` proves that `Answers` implements both.

### ManagedLists

Two files, each with its list and what can be read of it: a writer empties the file, may
write it in two parts, and closes it. Windows are opened from the tray's menu, once per
window and as many at a time as the user likes, since the tray does not ask whether one is open. A
page is blank until the list has been handed to it (`ShowList`), and can be saved as it is. The
tray's start, its refresh thread and its menu follow `start_agent`, `refresh`,
`open_folders_window` and `quit_app`; a read that raises ends a start or a refresh there.
`overlapped`, `hurt`, `missed`, `untold` and `withheld` are history variables that name the
circumstances the properties except. What the file index makes of a list is left to
`FileIndex`, what the server hears to `AgentSession`.

### AgentSession

`pc` follows `_connection_loop` and `_connect_once` line by line; the three
assignments of `stop()` are three steps; the heartbeat thread wakes, looks at
`_state` and sends, in three steps, on the socket it was given; `resend_ready` takes
the socket, looks at the state, builds READY and sends, in four. A folder list is the
number of its last change, be it the end of a scan or a saved list. What TASKs do is left to `TaskDelivery`. `BackOff` has the
overflow of `1.0 * 2**attempt`, since the power is taken before `min`.

### Registration

`phase` is where `start_agent` and the runner's `start()` are, `moving` where a
migration from the keyring is. An identity is named by its device. Every request
may fail before or after the server acted, every write may be torn (`WriteBreaks`),
the file may be unreadable for once (`ReadFails`), the keyring may refuse to be read or
cleared (`KeyringFails`, `MigrateDeletes`), the process may end at any step (`End`). `StartFails` is what the nested handlers of
`start_agent` and `register` make of an exception. `Frozen` tells the packaged
application from the development mode.

### FileIndex

`sync` holds the two threads that run `sync_folders`; each `_TrackedFolder` object has
a number, with its status, its observer (`watch`), the events queued for it and the
file it is about to insert. A lock region is one step. `gap` is a history variable:
the files of a folder whose last change neither a scan nor an observer has to see,
because nobody was watching, because a scan under way may undo it, or because the scan
ended before it came to them. `Hidden` is the set of files below a name that begins with a
dot: `ListRoot` leaves them out as `file_index.py:163` does, the observers' handlers take
them like any other, as they do in the code. `failed` collects the objects at which
`sync_folders` ended with an exception (`SyncRaises`).

## 3. Runs

| Run | Result | Question | Bounds, states |
|---|---|---|---|
| `delivery_safety` | holds | exclusion, no second execution, confirmations are true, refinement of `TaskLedger` | 2 dispatches, 2 threads, 3 connections, 2 sends, 1 drop, 1 restart, 1 failed save; 5.2 M |
| `delivery_liveness` | holds | what is pending at READY is confirmed; without faults all is settled | as above with 1 send and no restart; 134 k |
| `delivery_late_result` | **violated** | a result that could not be sent goes out in the end | |
| `delivery_history` | **violated** | the history file holds what is cached | |
| `session` | holds | handshake order, end of the loop and its causes, backoff, folder changes | 2 connections, 1 counted attempt, 1 change; 1.05 M |
| `session_stale_ready` | **violated** | a change that was not sent is in the next READY | 1 connection, 1 change |
| `execution` | holds | complete success, no process left, no PROGRESS after RESULT but one, listed targets, the end of an execution | all 6 task types, the analysis with either CLI, 2 systems, 2 turns, 2 PROGRESS, 2 edits; 359 k |
| `file_index` | holds | table and disk agree, status settles, a save is followed | 1 folder, 2 files, 1 of them hidden, 2 objects, 2 saves, 2 changes; 527 k |
| `file_index_dropped` | **violated** | only listed folders are tracked and watched | 1 folder, 1 file |
| `registration` | holds | revocation, memory of the identity, migration, reconnection | 3 devices, 3 starts, 2 faults, 2 codes; 243 k |
| `managed_lists` | holds | lost folders, broken files, windows left behind, lists that are used and reported | 1 folder, 2 windows, 2 lists, 2 starts; 558 k |
| `answers` | holds | usage figures, the cut, no analysis lost | 2 logs, 2 turns, 2 calls, 2 providers, texts of up to 12 characters of 1 to 3 bytes, 1 to 6 in JSON; 1.45 M |

Why the bounds suffice. Each bound admits what its hazards need. Three connections:
one that is lost during an execution, one on which the late result is missed, one
more. Two dispatches and two threads: a second task waits behind the lock, two writers
meet at the file, and one thread's key is new to an iteration in progress. Two
sends: the original and its repetition. Two connections in `session`: an old heartbeat thread
beside a new connection. In `execution`, two PROGRESS messages: one before and one
after the RESULT, or two after it; two edits: a target goes and comes back. One failed save in `delivery_safety`: it may be the confirmation's or
the result's, before or after a restart. Two saves and two objects in `file_index`: a folder is
removed and added again while an earlier observer still works; two files, the second hidden: a
rename, from and to a name the scan passes over, beside a file it finds. With one folder, threads that work on different folders are not
met, but they share nothing except the lock, which every step respects, and
`IndexIsConsistent` is proved for any number. Three starts
in `registration`: migrate, run, come back. What the bounds cut off, the proofs below
cover for the safety properties they state. In `managed_lists` two windows meet on one list
or work on one each, and a folder that is or is not listed is all a loss needs; the tray may come back
while an older window is still open. In `answers` two logs suffice for one that is being read
and one that is not, two calls for one answered from the cache, or for the two of a usage
task. The limit of 14 bytes lies between the texts that fit and those that do
not, and some rests exceed it alone.

`CHECK_DEADLOCK FALSE` is in every configuration, for the systems may really stop: a
stopped runner, an index at rest, a registration that failed, and the bounds
themselves.

## 4. What the runs found

Each run marked "violated" states a sentence of the repository as a property, and TLC
returns a behaviour of the code that contradicts it (`findings` in `PROJECT.json`
quotes them).

1. `agent.py:602`: a result finished after a reconnection has passed its resend is
   sent to the old socket and to nobody else until the connection is lost once more.
2. `agent.py:287`: two threads save the history without a lock; the file can end
   up without a result.
3. `agent.py:211`: a folder change between the building of READY and the READY state
   is skipped and remembered as reported.
4. `tray_app.py:270`: the modification time is read after the list; a save in between
   is never noticed. A folder removed while it is scanned stays watched.
Others the models have and no run of its own shows; each is where a property of section 5
has its exception. The 1025th attempt in a row raises `OverflowError` and ends the
connection thread, where the README of the repository knows no end (`agent.py:362`;
`DelayOverflows` in `ReconnectsWithBackoff`). A refresh that fails for want of a network
removes the identity, where docs/MESSAGE_GUIDE.md has that only for a device the server
does not find (`agent.py:328`; the faults in `RestartReconnects`). A refused TASK leaves no
record, so a repetition is validated afresh and may run after the server has its
refusal (`agent.py:552`; `Validate` of `TaskDelivery`). The kill timer reaches the
Codex process only: a helper that has inherited its output keeps the reading loop, and
with it `_task_lock`, for as long as it lives (`code_adapters.py:249`; the `HeldOpen`
of `ExecutionEnds`). An undecodable line cancels the timer and leaves the process alone
(`code_adapters.py:263`; the exception in `NoSurvivor`). FILE_SEARCH does not look at
the list again when it is executed (`agent.py:732`; the exception in
`UsesListedTarget`), where the README of the repository says that every execution checks its boundary.
The scan of a folder passes over hidden files, its observer does not: a hidden file that was there
before is found only after it was touched (`file_index.py:163` against 55-70; the `gap` of
`IndexConsistent`). An error in the table or in `observer.start()` leaves a folder INDEXING and
the rest of the list to nobody (`file_index.py:172`; `failed` in `StatusSettles`). An identity file that
cannot be read is taken for none, and what is paired then is written over the identity
(`identity_store.py:111`; `unread` in `MigrationKeeps`). A history that cannot be saved ends the task thread
before its RESULT, which then waits for the next reconnection (`processed_task_store.py:30`,
`agent.py:601`; `unsaved` in `SettledWithoutFaults`, and, on the connection thread, gives up the
connection). A window saved before it shows its list
writes an empty one (`folders_window.html:133`, 191; `OnlyOverlapLoses`). A message of Codex with a
character such as U+2028 is split and lost to a summary, and a temporary directory that cannot be
removed fails a summary that was made (`summary_adapters.py:125`, 84, 149; the exceptions of
`AnswerArrives`).
Two windows of one list undo each other's changes (`folders_window.py:110`;
`OnlyOverlapLoses`). A second window of a kind is not ended with the tray
(`tray_app.py:442`; `QuitEndsWindows`). A refresh that fails at the project list forgets to
report a status it has already noticed (`tray_app.py:409`; `withheld` in `AgentIsTold`). A log that ends within a
character ends the validation of AI_AGENT_USAGE with an exception nobody catches, so the TASK gets no ACK
(`usage_adapters.py:98`; "died" in `Answers`). A usage call for seven days never finds its
cache entry (`usage_adapters.py:54`; `Hit`).

One passage of the repository is out of date: the README's lines 236-239 have project folders
read at the start only and edited without a window, while its lines 97-98, `tray_app.py` and the
tests apply them live, as `ManagedLists` does.

## 5. Properties that hold

`TaskDelivery`: `OneTaskAtATime`, `NotRunTwiceHere`, `AckedMeansDelivered`,
`RefinesLedger`, `PendingAtReadyIsConfirmed`, `SettledWithoutFaults`.
`AgentSession`: `HandshakeOrder`, `RevokedNeverReconnects`, `ReconnectsWithBackoff`,
`NoAuthAfterStop`, `StopEnds`, `ChangeReported`. `TaskExecution`: `UsesListedTarget`,
`SuccessIsComplete`, `NoSurvivor`, `AtMostOneLate`, `ExecutionEnds`. `FileIndex`: `IndexConsistent`,
`StatusSettles`, `EditIsFollowed`. `Registration`: `NoPairingOnceRevoked`,
`RunningIsRemembered`, `MigrationKeeps`, `RevokedStaysGone`, `RestartReconnects`. `ManagedLists`:
`OnlyOverlapLoses`, `WholeUnlessInterrupted`, `QuitEndsWindows`, `AgentIsTold`,
`SaveIsApplied`. `Answers` and its parts: `UsageIsBetween`, `CutToFit`, `AnswerArrives`. Each
module states its own in words beside the formula, and each has a mutant in `PROJECT.json`
that breaks it.

### Fairness

* `TaskDelivery`: weak fairness of the connection thread and of each task thread
  (they are threads of one interpreter; sends, file operations and executions return,
  the last under the condition that `ExecutionEnds` of `TaskExecution` states), and of `Notice`: the WebSocket
  library's keepalive and the heartbeats discover a dead connection. None for the
  server, the network or the process's end. A confirmation under way arrives because
  the server answers in the step that takes the RESULT.
* `TaskExecution`: the task thread, the ticker and the timer. All are threads; the time
  limits pass. None for the CLI, its helper, the user and the network.
* `AgentSession`: the connection thread, the tray's thread, and the rest of a `stop()`
  that was called. Nobody has to call it, and no connection has to succeed
  rather than fail.
* `Registration`: the start proceeds, and a runner whose token is good connects in
  the end (a bounded number of faults is the assumption).
* `ManagedLists`: the start of the tray and its refresh thread, which polls for ever and
  survives every exception. None for users and windows.
* `Answers`: the task thread. None for the CLIs, the logs and the server; a count ends
  since the logs are finite (`MaxTurns` bounds them).
* `FileIndex`: the start, the refresh thread (it polls), both synchronising threads,
  and each observer's thread. The user and the disk have no obligation.

## 6. Proofs

TLAPS checks every theorem from nothing with Z3, Zenon and LS4. They hold for any
sets of dispatches (finite), threads, devices and any bounds, from the assumptions
named in the modules: `DeliveryAssumption`, `SessionAssumption`,
`ExecutionAssumption`, `RegistrationAssumption`, `IndexAssumption`, `ListsAssumption`,
`UsageAssumption`, `AnswersAssumption`, `TruncationAssumption` (texts are increasing functions, the special values are no members, bounds are naturals).

| Theorem | States | Argument |
|---|---|---|
| `TypeCorrect` | `TaskDelivery!TypeOK` | inductive with `Working`: a thread past "free" has a dispatch |
| `TaskMutualExclusion` | `OneTaskAtATime` | inductive by itself: whoever is past the lock is its holder |
| `AckedDelivered` | `AckedMeansDelivered` | needs `Truth`: RESULT_ACKs still under way are true as well, and so are the texts being written and the file a restart will read |
| `NeverRunTwice` | `NotRunTwiceHere` | needs `Once`: what ran in this process is running, cached, or confirmed, aged and pruned, and of the last kind no TASK is under way |
| `KeepsLedger` | `RefinesLedger` | needs `Once`, `Unrun` (what is about to run or running has no cached result) and `Backed` (a history in the file, or on its way there, knows nothing the cache did not): each step is then one of the ledger's, a restart included, or leaves it as it is |
| `SessionTypeCorrect` | `AgentSession!TypeOK` | with `Anchored`: who refers to a connection refers to one that was made |
| `HandshakeInOrder` | `HandshakeOrder` | needs `Progress`: every connection but the newest is either past READY or closed for good, so an old thread that sees the new one's `_state` can do no harm |
| `NoAuthenticationAfterStop` | `NoAuthAfterStop` | needs `Ended`: a connection thread at `recv()` after `stop()` returned finds its socket closed |
| `RevokedStaysOff` | `RevokedNeverReconnects` | needs `Banned`: without an identity the stop is set and the connection loop is on its way out |
| `ReconnectsOnlyWithBackoff` | `ReconnectsWithBackoff` | needs `Progress`: the count falls only where READY is announced, on the newest connection |
| `ExecutionTypeCorrect` | `TaskExecution!TypeOK` | inductive by itself |
| `NothingSurvives` | `NoSurvivor` | needs `Staged`: whoever is past the process's end has seen it or killed it |
| `SuccessComplete` | `SuccessIsComplete` | needs `Counted`: what was written was read or is in the pipe, and nobody writes after its end |
| `ListedTargetUsed` | `UsesListedTarget` | needs `Looked`: the second look-up sees a list of the time of the execution |
| `OneLateProgress` | `AtMostOneLate` | needs `Quiet`: after the RESULT the ticker's event is set, so it ends after the send it is in |
| `RegistrationTypeCorrect`, `NeverPairsOnceRevoked` | `Registration!TypeOK`, `NoPairingOnceRevoked` | inductive together with `AtHand`: which identity is at hand in which phase |
| `Remembered` | `RunningIsRemembered` | on top of these |
| `MigrationLosesNothing` | `MigrationKeeps` | on top of these: `moving` tells which of the two places has it, and `AtHand` that nothing is written over a file but its own identity, or one that could not be read (`unread`) |
| `RevokedNeverReturns` | `RevokedStaysGone` | needs `ToldTrue`: a revoked device stays revoked, so none that is saved was told to be |
| `IndexTypeCorrect` | `FileIndex!TypeOK` | with `Anchored`: a thread or folder refers to an object of its own folder, and an observer that is not watching has nothing to do |
| `IndexIsConsistent` | `IndexConsistent` | needs `EndsTrue` (what a queue removes of the files that are there, it inserts again later), `Found` (a file without a row is scanned, reported or not yet INDEXED) and `Gone` (a row without a file is about to be removed, and so is one about to be inserted) |
| `ListsTypeCorrect` | `ManagedLists!TypeOK` | inductive by itself |
| `AgentTold` | `AgentIsTold` | needs `Pending`: a list that changed and was not told is, at every place of `refresh`, about to be compared, noticed or reported |
| `QuittingEndsWindows` | `QuitEndsWindows` | needs `Remembered`: a window alive is in the tray's handle, or was opened over, or the tray that opened it is still there |
| `NothingElseLoses` | `OnlyOverlapLoses` | needs `Informed`: a window that nobody overlapped knows what is in the file, unless it is saved blank |
| `FilesAtRest` | `WholeUnlessInterrupted` | needs `Orderly`: an unhurt list has one writer at most, and what is in the file is that writer's |
| `TruncationTypeCorrect` | `TruncationTypeOK` | the budget and the bytes stay within the summary |
| `SummaryCutToFit` | `CutToFit` | needs `Rejected` (the last budget was too long, so was everything above nine tenths of it), `NoneBetween` and `Longest` (no character ends between the bytes taken and the budget) |
| `UsageBetween` | `UsageIsBetween` of `UsageSpec` | needs `Early` (the floor was there at the beginning), `Floors` (what was there and is not counted is ahead of the reader, was deleted or could not be read), `Accounted` and `Reading` (what is counted was there, each turn once). A total is the size of a set of turns, so sums need no induction: a subset is not larger |
| `AnswersCompose` | `UsageSpec /\ TruncationSpec` | a step of `Answers` is a step of the part it calls, and leaves the other one alone |
| `AnswersTypeCorrect`, `FiguresAreBetween`, `AnswersAreCutToFit` | `Answers!TypeOK`, `UsageIsBetween`, `CutToFit` | from the theorems about the parts, by `AnswersCompose` |

`MigrationKeeps` and `Remembered` are about crashes: the process may end between any
two steps, and inside a write.

Every invariant and every action property of the passing runs is stated by a theorem. Liveness
under fairness is out of the prover's reach, so these stay with TLC:
`PendingAtReadyIsConfirmed`, `SettledWithoutFaults`, `StopEnds`, `ChangeReported`,
`ExecutionEnds`, `StatusSettles`, `EditIsFollowed`, `RestartReconnects`,
`SaveIsApplied`, `AnswerArrives`. What makes some of them true is a matter of safety, and that part
is proved, for any number of connections, threads, dispatches and changes:

| Theorem | Behind | States | Argument |
|---|---|---|---|
| `OnlyLateResultsAreMissed` | `PendingAtReadyIsConfirmed` | a pending result on a connection that is served is about to be resent, on its way, or its thread is about to send it, but for two cases: the thread sends it on the socket of an older connection, or ends because the history cannot be saved | each place a result is at has one step that leaves it, and that step puts it at another place. The first exception is finding 1, the second a failed save; there is no other hole |
| `OnlySkippedChangesAreLate` | `ChangeReported` | a change is in the READY of the connection, or the tray will notice it or has it in hand, but for one case: the tray sees the state before READY is announced | needs `Fresh` (one handshake per connection), `Versions` (nothing sent or noticed is newer than the list) and `Overtaken` (a tray that still has the socket of an older connection noticed its change before the READY of this one was built). The exception is finding 3 |
| `StoppingIsFinal` | `StopEnds` | after the first assignment of `stop()`, or without an identity, the flag stays set and every step of the connection thread takes something from a bound for its steps | a variant over `pc` |
| `EveryWaitIsTimed` | `ExecutionEnds` | whoever reads from Codex or waits for it has a timer that has yet to act, or one that has killed it | inductive with the type |
| `ExecutionAdvances` | `ExecutionEnds` | every step of the task thread takes something from a natural number | a variant over `tpc` and the turns that are left, with `Counted` |
| `NothingMissedWithoutFaults` | `SettledWithoutFaults` | without a lost connection, a restart and a failed save, a pending result is about to be sent by its thread or its RESULT_ACK is on its way | needs `Unbroken`: then the first connection serves for ever, every thread holds its socket, and nothing was there to be resent on it |
| `OnlyFaultsDivertIt` | `RestartReconnects` | a registered PC that starts stays on its way to a connection as the same device, and every step of the start leads closer; only a fault, the server, the end of the process or the age of the token divert it | a variant, `Distance`, over `phase` |
| `OnlyExceptionsStay` | `StatusSettles` | an object that is INDEXING has a thread at work on it, but for one case: `sync_folders` ended at it with an exception, of the table or of `observer.start()` | each step of a thread leaves its object at its next place or settles it; needs `Anchored` and `Grounded`. The exception is in `StatusSettles` as well |
| `OnlyExceptionsEndIt` | `EditIsFollowed` | once noticed, a saved list is followed to the end, and the folders tracked are then those of the list; only the next save and an exception of `sync_folders` end it | needs `InLine`: at every place of `sync_folders`, what is tracked and what is yet to be done make up the list |
| `SavesNoticed` | `SaveIsApplied` | the tray works with what is in the file, or has yet to see that the file changed, but for one case: the file was written between its load and its stat at the start | needs `Noting`: the start takes the time after the list. The exception is finding 4 |
| `CutEnds` | `AnswerArrives` | the loops of the cut end | a variant: each smaller budget has room for the rounds below it |
| `OnlyTextFails` | `AnswerArrives` | an analysis whose CLI ended well fails for its text only, never for its usage; a summary for its text or the directory it leaves over | inductive: `InHand` tells what the task has at each place of `Answers` |

The definitions these state (`Missed`, `Unreported`, `Timed`, `Ahead`, `Stuck`, `Follows`,
`Noticed`, `OnTheWayBack`, and the bounds `Remaining`, `Left` and `Distance`) are in the proof
modules, and no run checks them: TLC did so before they were proved, on the instances of section 3
(`OnlyExceptionsStay` and `OnlyExceptionsEndIt` on two folders with one file).

## 7. What the models assume

* The interpreter does not switch threads inside a dictionary comprehension,
  `json.dumps` of the cache or the insertion of a key. (A switch there would raise
  `RuntimeError`; where a loop sends or blocks between items, it is modelled.)
* Messages of one connection stay in order; a cut loses a suffix of what is under way.
* PROGRESS messages and the executions' contents are left out of `TaskDelivery`; they are
  in `TaskExecution`, which in turn knows one connection and no restart.
* A helper of the CLI holds its stdout and stderr both or neither. A ticker that waits
  ends within the two seconds of its join once its event is set.
* A folder keeps its id and its root path together; the windows guarantee it. A save
  of the folder list is atomic in `FileIndex`; `ManagedLists` has the torn ones.
* A `start()` that is repeated by `register()` starts one more `sync_folders` thread
  with the same list; the model has the one.
* `join(timeout=5)` of an observer is taken to wait long enough; `unlink` of the
  identity file is taken to succeed.
* In `ManagedLists` every write gives a file another modification time. (Two writes within
  the resolution of the clock, and one of them between a stat and its read, are not told apart by the code.)
* A turn costs one token in `UsageLogs`; the four kinds of tokens are summed in the same way.
  (A session of turns that cost nothing is counted by the code and adds no tokens; nothing that is
  checked relates the two figures.)
* An error of the database ends the thread of an observer as it ends `sync_folders`; the model
  has only the latter.
* The rest of a result is the same length for every answer, but for the usage figures.
* A clock out of step or a signature the server rejects is one of the failures of a refresh.
* TLC runs `Registration` with `Frozen = TRUE`; the proofs cover both values.

## 8. Not modelled

* Contents and formats: search results and their ranking, Unicode normalisation of file
  names, JSON and HTTP envelopes, which fields of a log line hold the figures, signatures.
* `update_check.py`, `_build_info.py`, `platform_info.py`, `resources.py`: constants,
  one request at the start, paths. No state that another component uses.
* `cli.py`: a development entry point for the same runner, without tray and retries.
* User interface: menus, windows, icons, notifications.

## 9. Plan

In order:

1. A composition of `AgentSession`, `FileIndex` and `ManagedLists`: a status that settles,
   or a list that is saved, is known to the server in the end.
2. `TaskDelivery` with a validation that raises, and the server's view of a TASK that gets no ACK.
