------------------------------- MODULE Answers -------------------------------
(***************************************************************************)
(* What a task of the AI tools answers, from the output of the CLI to the  *)
(* JSON that is sent: the results of code_adapters.py, summary_adapters.py *)
(* and usage_adapters.py and their way through _execute_task.              *)
(*                                                                         *)
(* CODE_ANALYSIS adds the usage of the last seven days to its result,      *)
(* TEXT_SUMMARY does not, AI_AGENT_USAGE has nothing else and asks twice,  *)
(* when the TASK is validated and when it is executed.  UsageLogs is the   *)
(* count of the usage and Truncation the cut of the summary.               *)
(***************************************************************************)
EXTENDS UsageLogs, Truncation, Sequences, FiniteSetsExt

CONSTANTS
    Outputs,    \* what the CLI may print, for each of Asking
    Base,       \* bytes of a result without its summary and without usage
    Figures     \* bytes of usage figures instead of null

VARIABLES
    task,       \* the task under way
    stage,      \* where it is
    out,        \* what the CLI has printed
    outcome     \* of the last task

answerVars == <<task, stage, out, outcome>>
vars == <<usageVars, cutVars, answerVars>>

Asking == {"analysis", "summary"}

\* The lines of an output: messages of the assistant with a text, the figures of
\* a turn, or anything else; whether it holds a character such as U+2028, at which
\* str.splitlines splits it; and the text an output is when taken as a whole.
Lines == [kind : {"message", "turn", "other"}, text : Texts, split : BOOLEAN]
IsOutput(o) == o.whole \in Texts /\ o.lines \in Seq(Lines)

ASSUME AnswersAssumption ==
    /\ Texts # {}
    /\ \A a \in Asking : \A o \in Outputs[a] : IsOutput(o)
    /\ Base \in Nat /\ Figures \in Nat

NoOutput == [lines |-> <<>>, whole |-> CHOOSE t \in Texts : TRUE]

TypeOK ==
    /\ UsageTypeOK /\ TruncationTypeOK
    /\ task \in Asking \cup {"none", "usage"}
    /\ stage \in {"idle", "validate", "usage", "summarise", "cut", "done"}
    /\ out \in Outputs["analysis"] \cup Outputs["summary"] \cup {NoOutput}
    /\ outcome \in {"none", "result", "failed", "leftover", "refused", "died"}

Init ==
    /\ UsageInit
    /\ text = NoOutput.whole /\ rest = 0 /\ tpc = "off" /\ budget = 0 /\ cut = 0
    /\ kept = text.size
    /\ task \in {"none", "summary"} /\ stage = "idle" /\ out = NoOutput /\ outcome = "none"

-----------------------------------------------------------------------------
(* The result of a CLI *)

\* Codex: the last message of the assistant (_parse_codex_event_line), and the
\* figures of the last turn that has some (_parse_codex_turn_usage).  A summary
\* takes the lines from splitlines, where the pieces of one are not JSON; an analysis
\* reads them from the pipe.
SplitLines == task = "summary" /\ provider = "CODEX"
Messages(o) == {i \in DOMAIN o.lines : o.lines[i].kind = "message" /\ ~(SplitLines /\ o.lines[i].split)}
TurnUsage(o) == {i \in DOMAIN o.lines : o.lines[i].kind = "turn"}
LastMessage(o) == o.lines[Max(Messages(o))].text

\* Claude Code: the text of the result, or its contents joined, is one message.
\* Without a message the output as a whole has to do.
SummaryOf(o) == IF Messages(o) = {} THEN o.whole ELSE LastMessage(o)

\* The bytes of the result around the summary: two fields may be figures or null.
RestOf(o, usage) ==
    Base + (IF TurnUsage(o) = {} THEN 0 ELSE Figures)
         + (IF usage.how = "value" THEN Figures ELSE 0)

\* A summary of Codex without a message is an error.
NoSummary(o) == provider = "CODEX" /\ Messages(o) = {}

-----------------------------------------------------------------------------
(* The tasks *)

\* AI_AGENT_USAGE: _validate_task collects the figures once to see whether there
\* are any.
BeginUsage ==
    /\ stage = "idle" /\ task # "summary" /\ BeginCall("all")
    /\ task' = "usage" /\ stage' = "validate" /\ outcome' = "none"
    /\ UNCHANGED <<cutVars, out>>

\* An exception of the validation is not caught: there is no ACK, and no RESULT.
UsageValidated ==
    /\ stage = "validate" /\ upc = "idle"
    /\ IF answer.how = "value" THEN BeginCall("all") /\ stage' = "usage" /\ UNCHANGED outcome
       ELSE /\ stage' = "idle"
            /\ outcome' = IF answer.how = "raised" THEN "died" ELSE "refused"
            /\ UNCHANGED usageVars
    /\ UNCHANGED <<cutVars, task, out>>

UsageReported ==
    /\ stage = "usage" /\ task = "usage" /\ upc = "idle" /\ stage' = "idle"
    /\ outcome' = IF answer.how = "raised" THEN "failed" ELSE "result"
    /\ UNCHANGED <<usageVars, cutVars, task, out>>

\* CODE_ANALYSIS: the CLI has ended well (TaskExecution), its usage is collected.
AnalysisPrinted ==
    /\ stage = "idle" /\ task # "summary" /\ BeginCall("week")
    /\ task' = "analysis" /\ stage' = "usage" /\ out' \in Outputs["analysis"]
    /\ outcome' = "none" /\ UNCHANGED cutVars

\* Faulty variant: what fails there fails the task.
UsageFailsAnalysis ==
    /\ stage = "usage" /\ task = "analysis" /\ upc = "idle"
    /\ IF answer.how = "raised"
       THEN stage' = "done" /\ outcome' = "failed" /\ UNCHANGED cutVars
       ELSE stage' = "cut" /\ Begin(SummaryOf(out), RestOf(out, answer)) /\ UNCHANGED outcome
    /\ UNCHANGED <<usageVars, task, out>>

\* _last_7_days_usage catches what goes wrong there.
AnalysisBuilt ==
    /\ stage = "usage" /\ task = "analysis" /\ upc = "idle" /\ stage' = "cut"
    /\ Begin(SummaryOf(out), RestOf(out, answer))
    /\ UNCHANGED <<usageVars, task, out, outcome>>

\* TEXT_SUMMARY: the CLI has ended well; usage is not asked for.  Nothing it does
\* depends on the tasks before, so it is looked at by itself.
SummaryPrinted ==
    /\ stage = "idle" /\ task = "summary" /\ stage' = "summarise"
    /\ out' \in Outputs["summary"]
    /\ UNCHANGED <<usageVars, cutVars, task, outcome>>

SummaryBuilt ==
    /\ stage = "summarise"
    /\ IF NoSummary(out) THEN stage' = "done" /\ outcome' = "failed" /\ UNCHANGED cutVars
       ELSE stage' = "cut" /\ Begin(SummaryOf(out), Base) /\ UNCHANGED outcome
    /\ UNCHANGED <<usageVars, task, out>>

\* The empty directory the CLI ran in cannot be removed: the exception goes to
\* _execute_task before the output has been looked at.
CleanUpFails ==
    /\ stage = "summarise" /\ stage' = "done" /\ outcome' = "leftover"
    /\ UNCHANGED <<usageVars, cutVars, task, out>>

\* The result goes back to _handle_task; an exception of the cut has been caught.
Answered ==
    /\ stage = "cut" /\ tpc \in Ended /\ stage' = "done"
    /\ outcome' = IF tpc = "raised" THEN "failed" ELSE "result"
    /\ UNCHANGED <<usageVars, cutVars, task, out>>

-----------------------------------------------------------------------------

Handle == \/ UsageValidated \/ UsageReported \/ AnalysisBuilt \/ SummaryBuilt \/ CleanUpFails
          \/ Answered
          \/ Collect /\ UNCHANGED <<cutVars, answerVars>>
          \/ Truncate /\ UNCHANGED <<usageVars, answerVars>>

\* The logs do not matter to a summary, nor to an analysis that has its figures.
LogsChange ==
    /\ task # "summary" /\ stage \in {"idle", "validate", "usage"}
    /\ Logs /\ UNCHANGED <<cutVars, answerVars>>

Next == BeginUsage \/ AnalysisPrinted \/ SummaryPrinted \/ Handle \/ LogsChange

\* The task thread runs; the CLIs and the server do as they like.
Spec == Init /\ [][Next]_vars /\ WF_vars(Handle)

-----------------------------------------------------------------------------
(* Properties *)

\* A task fails for a text that has no UTF-8 form, or a summary for want of one or
\* for the directory it leaves over, and nothing else: not for its usage.
FailsForText ==
    /\ outcome = "failed" =>
           ~SummaryOf(out).codable \/ (task = "summary" /\ NoSummary(out))
    /\ outcome = "leftover" => task = "summary"

\* The cut ends, and every analysis or summary the CLI has printed reaches the
\* server, however the count of the usage ends (code_adapters.py 52-59), unless its
\* text is at fault (one in which splitlines has found no message is, too,
\* summary_adapters.py 125) or the directory of a summary cannot be removed (84, 149).
AnswerArrives ==
    (stage \in {"usage", "summarise"} /\ task \in Asking) ~> (stage = "done" /\ FailsForText)
=============================================================================
