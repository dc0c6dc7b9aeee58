------------------------------ MODULE UsageLogs -------------------------------
(***************************************************************************)
(* The tokens spent with Claude Code or Codex, counted from the log files  *)
(* of their sessions while the CLIs go on writing them (usage_adapters.py).*)
(*                                                                         *)
(* A session is a file with one line per turn; a turn costs one token.     *)
(* Claude Code writes what a turn cost, Codex what the session has cost so *)
(* far.  The last line may be incomplete: not JSON yet, or cut within a    *)
(* character.  A call for the last seven days leaves out the turns before  *)
(* that (Claude Code), or the sessions that ended before (Codex).          *)
(***************************************************************************)
EXTENDS Integers, FiniteSets

CONSTANTS
    Sessions,   \* log files
    MaxTurns,   \* bound: turns of all sessions
    TTL,        \* _CACHE_TTL_S, in ticks
    MaxCalls,   \* bound: calls
    NoFile      \* what cur is between two files

ASSUME UsageAssumption ==
    /\ IsFiniteSet(Sessions) /\ Sessions # {} /\ NoFile \notin Sessions
    /\ MaxTurns \in Nat /\ TTL \in Nat /\ MaxCalls \in Nat

VARIABLES
    provider,
    file,       \* "new", "there", "gone" (deleted)
    turns,      \* complete lines of a file
    old,        \* turns of these before the last seven days
    last,       \* an incomplete last line: "none", "json", "char"
    root,       \* the directory of the log files exists
    entry,      \* what the cache has under the key without a date
    age,        \* of that entry, in ticks
    calls,
    mode,       \* the call under way: for all time ("all") or seven days ("week")
    upc,        \* where it is
    left,       \* files not visited yet; all of them if there is no directory
    cur, pos,   \* the file that is read, the lines read of it
    mine,       \* tokens of that file: added so far (Claude Code), last seen (Codex)
    sum,        \* [tokens, sessions] so far
    floor,      \* history: what every file had when the call began; 0 if it failed
    answer      \* of the last call

logVars   == <<provider, file, turns, old, last, root>>
cacheVars == <<entry, age>>
scanVars  == <<calls, mode, upc, left, cur, pos, mine, sum, floor, answer>>
usageVars == <<logVars, cacheVars, scanVars>>

Sum == [tokens : Nat, sessions : Nat]
Answer == [how : {"none", "null", "raised"}] \cup
          [how : {"value"}, sum : Sum, floor : [Sessions -> Nat], mode : {"all", "week"}]
Nothing == [how |-> "none"]
Null    == [how |-> "null"]
Raised  == [how |-> "raised"]

UsageTypeOK ==
    /\ provider \in {"CLAUDE_CODE", "CODEX"}
    /\ file \in [Sessions -> {"new", "there", "gone"}]
    /\ turns \in [Sessions -> 0..MaxTurns] /\ old \in [Sessions -> 0..MaxTurns]
    /\ last \in [Sessions -> {"none", "json", "char"}] /\ root \in BOOLEAN
    /\ entry \in Answer /\ age \in 0..TTL /\ calls \in 0..MaxCalls
    /\ mode \in {"all", "week"} /\ upc \in {"idle", "lookup", "visit", "read", "store"}
    /\ left \in SUBSET Sessions /\ cur \in Sessions \cup {NoFile}
    /\ pos \in 0..(MaxTurns + 1) /\ mine \in 0..MaxTurns
    /\ sum \in Sum /\ floor \in [Sessions -> Nat] /\ answer \in Answer

Zero == [tokens |-> 0, sessions |-> 0]
NoFloor == [s \in Sessions |-> 0]

UsageInit ==
    /\ provider \in {"CLAUDE_CODE", "CODEX"}
    /\ file = [s \in Sessions |-> "new"]
    /\ turns = [s \in Sessions |-> 0] /\ old = [s \in Sessions |-> 0]
    /\ last = [s \in Sessions |-> "none"] /\ root = FALSE
    /\ entry = Nothing /\ age = 0 /\ calls = 0
    /\ mode = "all" /\ upc = "idle" /\ left = {} /\ cur = NoFile
    /\ pos = 0 /\ mine = 0 /\ sum = Zero /\ floor = NoFloor /\ answer = Nothing

-----------------------------------------------------------------------------
(* The log files (external) *)

\* Tokens counted per session, one by one and all together.
Tokens(f) == UNION {{s} \X (1..f[s]) : s \in Sessions}
Total(f) == Cardinality(Tokens(f))

\* A CLI writes a line, in one piece or two; some lie before the last seven days.
WriteTurn(s) ==
    /\ file[s] # "gone" /\ Total(turns) < MaxTurns
    /\ file' = [file EXCEPT ![s] = "there"] /\ root' = TRUE
    /\ \/ /\ last[s] = "none" /\ \E p \in {"json", "char"} : last' = [last EXCEPT ![s] = p]
          /\ UNCHANGED <<turns, old>>
       \/ /\ last' = [last EXCEPT ![s] = "none"]
          /\ turns' = [turns EXCEPT ![s] = @ + 1]
          /\ old' \in {old} \cup (IF old[s] = turns[s] /\ calls = 0
                                  THEN {[old EXCEPT ![s] = @ + 1]} ELSE {})
    /\ UNCHANGED <<provider, cacheVars, scanVars>>

\* A CLI deletes a file; one that is being read can be read to its end.
DeleteLog(s) ==
    /\ file[s] = "there" /\ file' = [file EXCEPT ![s] = "gone"]
    /\ floor' = IF s \in left THEN [floor EXCEPT ![s] = 0] ELSE floor
    /\ UNCHANGED <<provider, turns, old, last, root, cacheVars,
                   calls, mode, upc, left, cur, pos, mine, sum, answer>>

Tick ==
    /\ age < TTL /\ age' = age + 1
    /\ UNCHANGED <<logVars, entry, scanVars>>

\* What a session counts for, in a call for everything or for the last seven days.
Worth(s, m, n) ==
    LET before == IF m = "week" THEN old[s] ELSE 0 IN
    IF n <= before THEN 0 ELSE IF provider = "CODEX" THEN n ELSE n - before

-----------------------------------------------------------------------------
(* A call: collect_claude_code_usage, collect_codex_usage and _cached *)

\* The locals go out of scope.
Return(a) == /\ upc' = "idle" /\ answer' = a /\ left' = {} /\ cur' = NoFile
             /\ pos' = 0 /\ mine' = 0 /\ sum' = Zero /\ floor' = NoFloor

BeginCall(m) ==
    /\ upc = "idle" /\ calls < MaxCalls
    /\ calls' = calls + 1 /\ mode' = m /\ upc' = "lookup" /\ answer' = Nothing
    /\ UNCHANGED <<logVars, cacheVars, left, cur, pos, mine, sum, floor>>

\* The key of a call with a date is new every time (_iso_utc_days_ago).
Hit == mode = "all" /\ entry # Nothing /\ age < TTL

LookUpCache ==
    /\ upc = "lookup"
    /\ IF Hit THEN upc' = "idle" /\ answer' = entry /\ UNCHANGED <<left, sum, floor>>
       ELSE /\ upc' = IF root THEN "visit" ELSE "store"
            /\ left' = Sessions /\ sum' = Zero
            /\ floor' = [s \in Sessions |->
                            IF file[s] = "there" THEN Worth(s, mode, turns[s]) ELSE 0]
            /\ UNCHANGED answer
    /\ UNCHANGED <<logVars, cacheVars, calls, mode, cur, pos, mine>>

\* The next file of rglob; one that cannot be opened is left out.
VisitFile ==
    /\ upc = "visit"
    /\ \E s \in left :
        /\ left' = left \ {s}
        /\ IF file[s] = "there" THEN upc' = "read" /\ cur' = s ELSE UNCHANGED <<upc, cur>>
    /\ UNCHANGED <<logVars, cacheVars, calls, mode, pos, mine, sum, floor, answer>>

AllVisited ==
    /\ upc = "visit" /\ left = {} /\ upc' = "store"
    /\ UNCHANGED <<logVars, cacheVars, calls, mode, left, cur, pos, mine, sum, floor, answer>>

\* Faulty variant: the figures of Codex are added up as well.
AddEveryTurn ==
    /\ upc = "read" /\ pos < turns[cur] /\ pos' = pos + 1
    /\ mine' = IF mode = "week" /\ pos' <= old[cur] THEN mine ELSE 1
    /\ sum' = IF mode = "week" /\ pos' <= old[cur] THEN sum
              ELSE [sum EXCEPT !.tokens = @ + (IF provider = "CODEX" THEN pos' ELSE 1)]
    /\ UNCHANGED <<logVars, cacheVars, calls, mode, upc, left, cur, floor, answer>>

\* A complete line: a turn of Claude Code is added unless it is too old, one of
\* Codex replaces the one before.
ReadTurn ==
    /\ upc = "read" /\ pos < turns[cur] /\ pos' = pos + 1
    /\ IF provider = "CODEX" THEN mine' = pos' /\ UNCHANGED sum
       ELSE LET worth == IF mode = "week" /\ pos' <= old[cur] THEN 0 ELSE 1 IN
            mine' = mine + worth /\ sum' = [sum EXCEPT !.tokens = @ + worth]
    /\ UNCHANGED <<logVars, cacheVars, calls, mode, upc, left, cur, floor, answer>>

\* An incomplete line that is not JSON is skipped, and so is what follows of it.
SkipLine ==
    /\ upc = "read" /\ pos = turns[cur] /\ last[cur] = "json" /\ pos' = pos + 1
    /\ UNCHANGED <<logVars, cacheVars, calls, mode, upc, left, cur, mine, sum, floor, answer>>

\* One that ends within a character raises UnicodeDecodeError, which is no OSError.
ReadRaises ==
    /\ upc = "read" /\ pos = turns[cur] /\ last[cur] = "char"
    /\ Return(Raised)
    /\ UNCHANGED <<logVars, cacheVars, calls, mode>>

EndFile == upc = "read" /\ upc' = "visit" /\ cur' = NoFile /\ pos' = 0 /\ mine' = 0

\* An OSError in the middle: what was added of the file stays, the session is
\* not counted; the last figure of Codex is not used.
ReadFails ==
    /\ EndFile /\ floor' = [floor EXCEPT ![cur] = 0]
    /\ UNCHANGED <<logVars, cacheVars, calls, mode, left, sum, answer>>

\* The end of a file: the session is counted if it had something to add; for Codex
\* this is the last figure, if it is not too old.
CloseFile ==
    LET counted == mine > 0 /\ (provider = "CODEX" /\ mode = "week" => mine > old[cur]) IN
    /\ EndFile /\ pos >= turns[cur] /\ (pos = turns[cur] => last[cur] = "none")
    /\ sum' = IF ~counted THEN sum
              ELSE [tokens |-> IF provider = "CODEX" THEN sum.tokens + mine ELSE sum.tokens,
                    sessions |-> sum.sessions + 1]
    /\ UNCHANGED <<logVars, cacheVars, calls, mode, left, floor, answer>>

\* The value, None without a directory, is stored under its key and returned.
Store ==
    /\ upc = "store"
    /\ Return(IF left = {}
              THEN [how |-> "value", sum |-> sum, floor |-> floor, mode |-> mode] ELSE Null)
    /\ IF mode = "all" THEN entry' = answer' /\ age' = 0 ELSE UNCHANGED cacheVars
    /\ UNCHANGED <<logVars, calls, mode>>

Collect == LookUpCache \/ VisitFile \/ AllVisited \/ ReadTurn \/ SkipLine \/ ReadRaises
           \/ ReadFails \/ CloseFile \/ Store
Logs == Tick \/ \E s \in Sessions : WriteTurn(s) \/ DeleteLog(s)

\* Calls one after another, at any time.
UsageNext == Collect \/ Logs \/ \E m \in {"all", "week"} : BeginCall(m)
UsageSpec == UsageInit /\ [][UsageNext]_usageVars

-----------------------------------------------------------------------------
(* Properties *)

\* A figure lies between what the logs said when its scan began and what they say
\* now, whichever way the files grew, were deleted or failed meanwhile, and for
\* Codex too, whose lines must not be added up (usage_adapters.py 77-139, 147-220);
\* so does one from the cache.
UsageIsBetween ==
    answer.how = "value" =>
        /\ Total(answer.floor) <= answer.sum.tokens
        /\ answer.sum.tokens <= Total([s \in Sessions |-> Worth(s, answer.mode, turns[s])])
        /\ answer.sum.sessions <= Cardinality(
               {s \in Sessions : Worth(s, answer.mode, turns[s]) > 0})
=============================================================================
