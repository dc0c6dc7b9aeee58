---------------------------- MODULE AnswersProofs ----------------------------
(***************************************************************************)
(* Proofs about Answers and UsageLogs, for any sessions, texts, outputs    *)
(* and limits, and any number of turns and calls.                          *)
(***************************************************************************)
EXTENDS Answers, TruncationProofs, FiniteSetTheorems

-----------------------------------------------------------------------------
(* Totals: a total is the size of a set, so what the theory of finite sets *)
(* says of sizes takes the place of an induction over the sessions.        *)

LEMMA TokensAre ==
    ASSUME NEW f \in [Sessions -> Nat]
    PROVE  \A s, k : <<s, k>> \in Tokens(f) <=> s \in Sessions /\ k \in 1..f[s]
BY DEF Tokens

LEMMA RowSize ==
    ASSUME NEW s, NEW T, IsFiniteSet(T)
    PROVE  IsFiniteSet({s} \X T) /\ Cardinality({s} \X T) = Cardinality(T)
<1>1. IsFiniteSet({s}) /\ Cardinality({s}) = 1
  BY FS_Singleton
<1>2. IsFiniteSet({s} \X T) /\ Cardinality({s} \X T) = Cardinality({s}) * Cardinality(T)
  BY <1>1, FS_Product
<1>3. Cardinality(T) \in Nat
  BY FS_CardinalityType
<1> QED
  BY <1>1, <1>2, <1>3

LEMMA RangeSize ==
    ASSUME NEW s, NEW a \in Nat, NEW b \in Nat
    PROVE  IsFiniteSet({s} \X (a..b)) /\ Cardinality({s} \X (a..b)) = IF a > b THEN 0 ELSE b - a + 1
<1>1. IsFiniteSet(a..b) /\ Cardinality(a..b) = IF a > b THEN 0 ELSE b - a + 1
  BY FS_Interval
<1> QED
  BY <1>1, RowSize

LEMMA TokensFinite ==
    ASSUME NEW f \in [Sessions -> Nat]
    PROVE  IsFiniteSet(Tokens(f)) /\ Total(f) \in Nat
<1> DEFINE g == [s \in Sessions |-> {s} \X (1..f[s])]
           G == {{s} \X (1..f[s]) : s \in Sessions}
<1>1. g \in Surjection(Sessions, G)
  BY DEF Surjection
<1>2. IsFiniteSet(G)
  BY <1>1, FS_Surjection, UsageAssumption
<1>3. \A s \in Sessions : IsFiniteSet({s} \X (1..f[s]))
  <2> TAKE s \in Sessions
  <2>1. f[s] \in Nat /\ 1 \in Nat
    OBVIOUS
  <2> QED
    BY <2>1, RangeSize
<1>4. IsFiniteSet(UNION G)
  BY <1>2, <1>3, FS_UNION
<1>5. IsFiniteSet(Tokens(f))
  BY <1>4 DEF Tokens
<1>6. Cardinality(Tokens(f)) \in Nat
  BY <1>5, FS_CardinalityType
<1> QED
  BY <1>5, <1>6 DEF Total

\* More of every session is more in all.
LEMMA TotalGrows ==
    ASSUME NEW f \in [Sessions -> Nat], NEW g \in [Sessions -> Nat], \A s \in Sessions : f[s] <= g[s]
    PROVE  Total(f) <= Total(g)
<1>1. Tokens(f) \subseteq Tokens(g)
  BY DEF Tokens
<1>2. IsFiniteSet(Tokens(g))
  BY TokensFinite
<1> QED
  BY <1>1, <1>2, FS_Subset DEF Total

\* One session has no more than all of them.
LEMMA TotalBounds ==
    ASSUME NEW f \in [Sessions -> Nat], NEW s \in Sessions
    PROVE  f[s] <= Total(f)
<1>1. IsFiniteSet({s} \X (1..f[s])) /\ Cardinality({s} \X (1..f[s])) = f[s]
  <2>1. f[s] \in Nat /\ 1 \in Nat
    OBVIOUS
  <2>2. Cardinality({s} \X (1..f[s])) = IF 1 > f[s] THEN 0 ELSE f[s] - 1 + 1
    BY <2>1, RangeSize
  <2>3. IsFiniteSet({s} \X (1..f[s]))
    BY <2>1, RangeSize
  <2> QED
    BY <2>1, <2>2, <2>3
<1>2. {s} \X (1..f[s]) \subseteq Tokens(f)
  BY DEF Tokens
<1>3. IsFiniteSet(Tokens(f))
  BY TokensFinite
<1>4. Cardinality({s} \X (1..f[s])) <= Cardinality(Tokens(f))
  BY <1>2, <1>3, FS_Subset
<1> QED
  BY <1>1, <1>4 DEF Total

\* A session gets n more.
LEMMA TotalAdds ==
    ASSUME NEW f \in [Sessions -> Nat], NEW s \in Sessions, NEW n \in Nat
    PROVE  Total([f EXCEPT ![s] = @ + n]) = Total(f) + n
<1> DEFINE g == [f EXCEPT ![s] = @ + n]
           more == {s} \X ((f[s] + 1)..(f[s] + n))
<1>1. f[s] \in Nat /\ g \in [Sessions -> Nat]
  OBVIOUS
<1>2. IsFiniteSet(more) /\ Cardinality(more) = n
  <2> DEFINE a == f[s] + 1
             b == f[s] + n
  <2>1. a \in Nat /\ b \in Nat /\ (IF a > b THEN 0 ELSE b - a + 1) = n
    BY <1>1
  <2> HIDE DEF a, b
  <2>2. IsFiniteSet({s} \X (a..b)) /\ Cardinality({s} \X (a..b)) = n
    BY <2>1, RangeSize
  <2> QED
    BY <2>2 DEF a, b
<1>3. Tokens(g) = Tokens(f) \cup more
  <2>1. \A t, k : <<t, k>> \in Tokens(g) <=> <<t, k>> \in Tokens(f) \cup more
    <3>1. \A t \in Sessions : g[t] = IF t = s THEN f[t] + n ELSE f[t]
      OBVIOUS
    <3>2. \A t, k : <<t, k>> \in more <=> t = s /\ k \in (f[s] + 1)..(f[s] + n)
      OBVIOUS
    <3> HIDE DEF g, more
    <3>3. \A t, k : <<t, k>> \in Tokens(g) <=> t \in Sessions /\ k \in 1..g[t]
      BY <1>1, TokensAre
    <3>4. \A t, k : <<t, k>> \in Tokens(f) <=> t \in Sessions /\ k \in 1..f[t]
      BY TokensAre
    <3>5. ASSUME NEW t, NEW k PROVE <<t, k>> \in Tokens(g) <=> <<t, k>> \in Tokens(f) \/ <<t, k>> \in more
      BY <1>1, <3>1, <3>2, <3>3, <3>4
    <3> QED
      BY <3>5
  <2>2. Tokens(g) \subseteq Sessions \X Nat /\ Tokens(f) \subseteq Sessions \X Nat /\ more \subseteq Sessions \X Nat
    BY <1>1 DEF Tokens
  <2> HIDE DEF g, more
  <2> QED
    BY <2>1, <2>2
<1>4. Tokens(f) \cap more = {}
  <2>1. \A t, k : <<t, k>> \in Tokens(f) => ~ (<<t, k>> \in more)
    BY <1>1, TokensAre
  <2>2. Tokens(f) \subseteq Sessions \X Nat
    BY <1>1 DEF Tokens
  <2> QED
    BY <2>1, <2>2
<1>5. IsFiniteSet(Tokens(f)) /\ Total(f) \in Nat
  BY TokensFinite
<1> HIDE DEF g, more
<1>6. Cardinality(Tokens(f) \cup more) = Cardinality(Tokens(f)) + Cardinality(more) - Cardinality(Tokens(f) \cap more)
  BY <1>2, <1>5, FS_Union
<1>7. Cardinality(Tokens(f) \cap more) = 0
  BY <1>4, FS_EmptySet
<1>8. Total(g) = Total(f) + n
  BY <1>2, <1>3, <1>5, <1>6, <1>7 DEF Total
<1> QED
  BY <1>8 DEF g

LEMMA TotalOfNothing == NoFloor \in [Sessions -> Nat] /\ Total(NoFloor) = 0
<1>1. Tokens(NoFloor) = {}
  BY DEF Tokens, NoFloor
<1> QED
  BY <1>1, FS_EmptySet DEF Total, NoFloor

-----------------------------------------------------------------------------
(* The inductive invariant of the count *)

\* Logs are read, and lines change their age, only before or after the first call.
Early == calls = 0 => upc = "idle" /\ answer = Nothing /\ entry = Nothing

\* What every session counts for now, and UsageIsBetween for a sum among such
\* figures, with the value in the cache too.
Worths(m) == [s \in Sessions |-> Worth(s, m, turns[s])]

Within(f, total, w) ==
    /\ Total(f) <= total.tokens /\ total.tokens <= Total(w)
    /\ total.sessions <= Cardinality({s \in Sessions : w[s] > 0})

Between(a) == a.how = "value" => Within(a.floor, a.sum, Worths(a.mode))

\* Outside a scan its locals are empty, and so are those of a file between two files.
Idle ==
    /\ upc \in {"idle", "lookup"} => left = {} /\ sum = Zero /\ floor = NoFloor
    /\ upc # "read" => cur = NoFile /\ pos = 0 /\ mine = 0

\* No file had more when the scan began than it has now; what can no longer be
\* visited had nothing.
Floors ==
    /\ \A s \in Sessions : floor[s] <= Worth(s, mode, turns[s])
    /\ \A s \in left : file[s] # "there" => floor[s] = 0

\* The sum is c[s] for every session s, of which those in K have been counted.
Account(c, K) ==
    /\ sum.tokens = Total(c) /\ sum.sessions = Cardinality(K)
    /\ \A s \in K : c[s] > 0 /\ s \notin left /\ s # cur
    /\ \A s \in Sessions : c[s] <= Worth(s, mode, turns[s])
    /\ \A s \in left : c[s] = 0
    /\ \A s \in Sessions \ left : s # cur => floor[s] <= c[s]
    /\ cur # NoFile => c[cur] = IF provider = "CODEX" THEN 0 ELSE mine

Accounted ==
    upc \in {"visit", "read", "store"} =>
        \E c \in [Sessions -> 0..MaxTurns], K \in SUBSET Sessions : Account(c, K)

\* Of the file that is read: what was taken of it lies in it, and has all of the
\* floor, or else every line up to here.
Reading ==
    upc = "read" =>
        LET seen == IF pos <= turns[cur] THEN pos ELSE turns[cur] IN
        /\ cur \in Sessions \ left /\ pos <= turns[cur] + 1
        /\ mine <= IF provider = "CODEX" THEN seen ELSE Worth(cur, mode, seen)
        /\ \/ floor[cur] <= IF provider = "CODEX" THEN Worth(cur, mode, mine) ELSE mine
           \/ pos <= turns[cur] /\ mine = IF provider = "CODEX" THEN pos ELSE Worth(cur, mode, pos)

UInv == /\ UsageTypeOK /\ Early /\ Between(answer) /\ Between(entry)
        /\ Idle /\ Floors /\ Accounted /\ Reading

-----------------------------------------------------------------------------
(* What a session counts for *)

LEMMA WorthFacts ==
    ASSUME UsageTypeOK, NEW s \in Sessions, NEW m, NEW n \in Nat
    PROVE  /\ Worth(s, m, n) \in 0..n
           /\ \A k \in Nat : n <= k => Worth(s, m, n) <= Worth(s, m, k)
<1> DEFINE before == IF m = "week" THEN old[s] ELSE 0
           W(k) == IF k <= before THEN 0 ELSE IF provider = "CODEX" THEN k ELSE k - before
<1>1. before \in Nat
  BY DEF UsageTypeOK
<1>2. \A k : Worth(s, m, k) = W(k)
  BY DEF Worth
<1> HIDE DEF before
<1>3. \A k \in Nat : W(k) \in 0..k
  BY <1>1
<1>4. \A k \in Nat : n <= k => W(n) <= W(k)
  BY <1>1
<1> HIDE DEF W
<1> QED
  BY <1>2, <1>3, <1>4

LEMMA WorthsType ==
    ASSUME UsageTypeOK, NEW m PROVE Worths(m) \in [Sessions -> 0..MaxTurns]
<1>1. ASSUME NEW s \in Sessions PROVE Worth(s, m, turns[s]) \in 0..MaxTurns
  <2>1. turns[s] \in 0..MaxTurns /\ turns[s] \in Nat /\ MaxTurns \in Nat
    BY UsageAssumption DEF UsageTypeOK
  <2>2. Worth(s, m, turns[s]) \in 0..turns[s]
    BY <2>1, WorthFacts
  <2> QED
    BY <2>1, <2>2
<1> QED
  BY <1>1 DEF Worths

\* A sum among some figures is one among greater figures.
LEMMA WithinGrows ==
    ASSUME NEW f \in [Sessions -> Nat], NEW total \in Sum, NEW v \in [Sessions -> Nat],
           NEW w \in [Sessions -> Nat], Within(f, total, v), \A s \in Sessions : v[s] <= w[s]
    PROVE  Within(f, total, w)
<1>1. Total(v) <= Total(w) /\ Total(v) \in Nat /\ Total(w) \in Nat
  BY TotalGrows, TokensFinite
<1>2. Cardinality({s \in Sessions : v[s] > 0}) <= Cardinality({s \in Sessions : w[s] > 0})
  <2>1. {s \in Sessions : v[s] > 0} \subseteq {s \in Sessions : w[s] > 0}
    OBVIOUS
  <2>2. IsFiniteSet({s \in Sessions : w[s] > 0})
    BY UsageAssumption, FS_Subset
  <2> QED
    BY <2>1, <2>2, FS_Subset
<1>3. Cardinality({s \in Sessions : v[s] > 0}) \in Nat /\ Cardinality({s \in Sessions : w[s] > 0}) \in Nat
  <2>1. IsFiniteSet({s \in Sessions : v[s] > 0}) /\ IsFiniteSet({s \in Sessions : w[s] > 0})
    BY UsageAssumption, FS_Subset
  <2> QED
    BY <2>1, FS_CardinalityType
<1>4. total.tokens \in Nat /\ total.sessions \in Nat
  BY DEF Sum
<1> QED
  BY <1>1, <1>2, <1>3, <1>4, TokensFinite DEF Within

\* Once there was a call, the logs only grow.
LEMMA LogsGrow ==
    ASSUME UsageTypeOK, UsageTypeOK', [UsageNext]_usageVars
    PROVE  /\ provider' = provider
           /\ calls # 0 => old' = old
           /\ \A s \in Sessions : turns[s] <= turns'[s] /\ turns[s] \in Nat /\ turns'[s] \in Nat
<1>1. \/ UNCHANGED logVars
      \/ \E s \in Sessions : WriteTurn(s)
      \/ UNCHANGED <<provider, turns, old>>
  BY DEF UsageNext, Collect, Logs, Tick, DeleteLog, LookUpCache, VisitFile, AllVisited, ReadTurn, SkipLine,
     ReadRaises, ReadFails, CloseFile, Store, BeginCall, usageVars
<1>2. ASSUME NEW s \in Sessions, WriteTurn(s)
      PROVE  provider' = provider /\ (calls # 0 => old' = old) /\ \A t \in Sessions : turns[t] <= turns'[t]
  BY <1>2 DEF WriteTurn, UsageTypeOK
<1> QED
  BY <1>1, <1>2 DEF UsageTypeOK, logVars

LEMMA WorthGrows ==
    ASSUME UsageTypeOK, UsageTypeOK', [UsageNext]_usageVars, calls # 0, NEW s \in Sessions, NEW m
    PROVE  /\ \A n : Worth(s, m, n)' = Worth(s, m, n)
           /\ Worths(m)[s] <= Worths(m)'[s]
<1>1. \A n : Worth(s, m, n)' = Worth(s, m, n)
  BY LogsGrow DEF Worth
<1>2. Worths(m)[s] = Worth(s, m, turns[s]) /\ Worths(m)'[s] = Worth(s, m, turns[s])'
  BY DEF Worths
<1>3. Worth(s, m, turns[s])' = Worth(s, m, turns'[s])
  BY LogsGrow DEF Worth
<1>4. turns[s] <= turns'[s] /\ turns[s] \in Nat /\ turns'[s] \in Nat
  BY LogsGrow
<1> QED
  BY <1>1, <1>2, <1>3, <1>4, WorthFacts

-----------------------------------------------------------------------------
(* The steps *)

\* No session has more turns than all together may have.
LEMMA WriteTurnType ==
    ASSUME UsageTypeOK, NEW s \in Sessions, WriteTurn(s) PROVE UsageTypeOK'
<1>1. turns \in [Sessions -> Nat] /\ turns[s] <= Total(turns) /\ Total(turns) \in Nat
  BY TotalBounds, TokensFinite DEF UsageTypeOK
<1>2. turns[s] \in Nat /\ turns[s] + 1 \in 0..MaxTurns
  BY <1>1, UsageAssumption DEF WriteTurn
<1>3. turns' \in [Sessions -> 0..MaxTurns] /\ old' \in [Sessions -> 0..MaxTurns]
  BY <1>2 DEF WriteTurn, UsageTypeOK
<1>4. last' \in [Sessions -> {"none", "json", "char"}] /\ file' \in [Sessions -> {"new", "there", "gone"}] /\ root'
  BY DEF WriteTurn, UsageTypeOK
<1> QED
  BY <1>3, <1>4 DEF WriteTurn, UsageTypeOK, cacheVars, scanVars

LEMMA ReadTurnType ==
    ASSUME UInv, ReadTurn PROVE UsageTypeOK' /\ Reading'
<1>1. /\ UsageTypeOK /\ upc = "read" /\ pos < turns[cur] /\ pos' = pos + 1 /\ cur \in Sessions
      /\ UNCHANGED <<provider, old, turns, mode, cur, left, floor, upc>>
  BY DEF UInv, Reading, ReadTurn, logVars
<1>2. pos \in Nat /\ turns[cur] \in 0..MaxTurns /\ old[cur] \in Nat /\ MaxTurns \in Nat /\ mine \in Nat
  BY <1>1, UsageAssumption DEF UsageTypeOK
<1>3. CASE provider = "CODEX"
  <2>1. mine' = pos' /\ sum' = sum /\ pos' \in 0..MaxTurns /\ mine <= pos
    BY <1>1, <1>2, <1>3 DEF ReadTurn, UInv, Reading
  <2>2. Worth(cur, mode, mine) <= Worth(cur, mode, mine')
    BY <1>1, <1>2, <2>1, WorthFacts
  <2>3. UsageTypeOK'
    <3>1. pos' \in 0..(MaxTurns + 1) /\ mine' \in 0..MaxTurns
      BY <1>2, <2>1
    <3> QED
      BY <1>1, <2>1, <3>1 DEF UsageTypeOK, ReadTurn, logVars, cacheVars
  <2>4. Worth(cur, mode, mine)' = Worth(cur, mode, mine')
    BY <1>1 DEF Worth
  <2>5. Worth(cur, mode, mine) \in Nat /\ Worth(cur, mode, mine') \in Nat /\ floor[cur] \in Nat
    BY <1>1, <1>2, <2>1, WorthFacts DEF UsageTypeOK
  <2>6. floor[cur] <= Worth(cur, mode, mine) \/ mine = pos
    BY <1>1, <1>3 DEF UInv, Reading
  <2>7. Reading'
    BY <1>1, <1>2, <1>3, <2>1, <2>2, <2>4, <2>5, <2>6 DEF Reading, UInv
  <2> QED
    BY <2>3, <2>7
<1>4. CASE provider # "CODEX"
  <2> DEFINE worth == IF mode = "week" /\ pos' <= old[cur] THEN 0 ELSE 1
  <2>1. mine' = mine + worth /\ sum' = [sum EXCEPT !.tokens = @ + worth] /\ worth \in 0..1
    BY <1>4 DEF ReadTurn
  <2>2. Worth(cur, mode, pos + 1) = Worth(cur, mode, pos) + worth
    BY <1>1, <1>2, <1>4 DEF Worth, UsageTypeOK
  <2>3. \A n : Worth(cur, mode, n)' = Worth(cur', mode', n)
    BY <1>1 DEF Worth
  <2> HIDE DEF worth
  <2>4. Worth(cur, mode, pos) \in Nat /\ Worth(cur, mode, pos + 1) \in 0..(pos + 1)
    BY <1>1, <1>2, WorthFacts
  <2>5. mine <= Worth(cur, mode, pos) /\ floor[cur] \in Nat
    BY <1>1, <1>2, <1>4 DEF UInv, Reading, UsageTypeOK
  <2>6. mine' <= Worth(cur, mode, pos') /\ mine' \in 0..MaxTurns
    BY <1>1, <1>2, <2>1, <2>2, <2>4, <2>5
  <2>7. sum' \in Sum
    BY <1>1, <2>1 DEF UsageTypeOK, Sum
  <2>8. UsageTypeOK'
    BY <1>1, <1>2, <2>6, <2>7 DEF UsageTypeOK, ReadTurn, logVars, cacheVars
  <2>9. floor[cur] <= mine \/ mine = Worth(cur, mode, pos)
    BY <1>1, <1>4 DEF UInv, Reading
  <2>10. floor[cur] <= mine' \/ mine' = Worth(cur, mode, pos')
    BY <1>1, <1>2, <2>1, <2>2, <2>4, <2>5, <2>9
  <2>11. Worth(cur, mode, pos)' = Worth(cur, mode, pos')
    BY <1>1 DEF Worth
  <2>12. Reading'
    BY <1>1, <1>2, <1>4, <2>6, <2>10, <2>11 DEF Reading, UInv
  <2> QED
    BY <2>8, <2>12
<1> QED
  BY <1>3, <1>4

LEMMA UsageTypeStep ==
    ASSUME UInv, [UsageNext]_usageVars PROVE UsageTypeOK'
<1>0. UsageTypeOK
  BY DEF UInv
<1>1. ASSUME NEW s \in Sessions, WriteTurn(s) \/ DeleteLog(s) PROVE UsageTypeOK'
  <2>1. CASE WriteTurn(s)
    BY <1>0, <2>1, WriteTurnType
  <2>2. CASE DeleteLog(s)
    BY <1>0, <2>2 DEF DeleteLog, UsageTypeOK, cacheVars
  <2> QED
    BY <1>1, <2>1, <2>2
<1>2. CASE Tick
  BY <1>0, <1>2, UsageAssumption DEF Tick, UsageTypeOK, logVars, scanVars
<1>3. ASSUME NEW m \in {"all", "week"}, BeginCall(m) PROVE UsageTypeOK'
  BY <1>0, <1>3, UsageAssumption DEF BeginCall, UsageTypeOK, logVars, cacheVars, Answer, Nothing
<1>4. CASE LookUpCache
  <2>1. \A s \in Sessions : turns[s] \in Nat /\ Worth(s, mode, turns[s]) \in Nat
    BY <1>0, WorthFacts DEF UsageTypeOK
  <2>2. floor' \in [Sessions -> Nat]
    BY <1>0, <1>4, <2>1 DEF LookUpCache, UsageTypeOK
  <2>3. sum' \in Sum /\ left' \in SUBSET Sessions /\ answer' \in Answer /\ upc' \in {"idle", "visit", "store"}
    BY <1>0, <1>4 DEF LookUpCache, UsageTypeOK, Zero, Sum
  <2> QED
    BY <1>0, <1>4, <2>2, <2>3 DEF LookUpCache, UsageTypeOK, logVars, cacheVars
<1>5. CASE VisitFile \/ AllVisited
  BY <1>0, <1>5 DEF VisitFile, AllVisited, UsageTypeOK, logVars, cacheVars
<1>6. CASE ReadTurn
  BY <1>6, ReadTurnType
<1>7. CASE SkipLine
  <2>1. cur \in Sessions
    BY <1>7 DEF UInv, Reading, SkipLine
  <2> QED
    <3>1. pos' \in 0..(MaxTurns + 1)
      BY <1>0, <1>7, <2>1, UsageAssumption DEF SkipLine, UsageTypeOK
    <3> QED
      BY <1>0, <1>7, <3>1 DEF SkipLine, UsageTypeOK, logVars, cacheVars
<1>8. CASE ReadRaises
  BY <1>0, <1>8, UsageAssumption
  DEF ReadRaises, Return, UsageTypeOK, logVars, cacheVars, Zero, Sum, NoFloor, Raised, Answer
<1>9. CASE ReadFails
  <2>1. floor' \in [Sessions -> Nat]
    BY <1>0, <1>9 DEF ReadFails, UsageTypeOK
  <2>2. pos' \in 0..(MaxTurns + 1) /\ mine' \in 0..MaxTurns
    BY <1>9, UsageAssumption DEF ReadFails, EndFile
  <2> QED
    BY <1>0, <1>9, <2>1, <2>2 DEF ReadFails, EndFile, UsageTypeOK, logVars, cacheVars
<1>10. CASE CloseFile
  <2>1. sum' \in Sum
    BY <1>0, <1>10 DEF CloseFile, UsageTypeOK, Sum
  <2> QED
    BY <1>0, <1>10, <2>1, UsageAssumption DEF CloseFile, EndFile, UsageTypeOK, logVars, cacheVars
<1>11. CASE Store
  <2>1. answer' \in Answer
    BY <1>0, <1>11 DEF Store, Return, UsageTypeOK, Answer, Null
  <2>2. entry' \in Answer /\ age' \in 0..TTL
    BY <1>0, <1>11, <2>1, UsageAssumption DEF Store, UsageTypeOK, cacheVars
  <2> QED
    BY <1>0, <1>11, <2>1, <2>2, UsageAssumption DEF Store, Return, UsageTypeOK, logVars, Zero, Sum, NoFloor
<1>12. CASE UNCHANGED usageVars
  BY <1>0, <1>12 DEF usageVars, logVars, cacheVars, scanVars, UsageTypeOK
<1> QED
  BY <1>1, <1>2, <1>3, <1>4, <1>5, <1>6, <1>7, <1>8, <1>9, <1>10, <1>11, <1>12 DEF UsageNext, Collect, Logs

LEMMA EarlyStep ==
    ASSUME UInv, [UsageNext]_usageVars PROVE Early'
<1>1. CASE upc = "idle"
  <2>1. UNCHANGED <<calls, upc, answer, entry>> \/ calls' = calls + 1
    BY <1>1 DEF UsageNext, Collect, Logs, Tick, WriteTurn, DeleteLog, LookUpCache, VisitFile, AllVisited, ReadTurn,
       SkipLine, ReadRaises, ReadFails, EndFile, CloseFile, Store, BeginCall, usageVars, scanVars, cacheVars
  <2> QED
    BY <2>1, UsageAssumption DEF Early, UInv, UsageTypeOK
<1>2. CASE upc # "idle"
  <2>1. calls' = calls
    BY <1>2 DEF UsageNext, Collect, Logs, Tick, WriteTurn, DeleteLog, LookUpCache, VisitFile, AllVisited, ReadTurn,
       SkipLine, ReadRaises, ReadFails, EndFile, CloseFile, Store, BeginCall, usageVars, scanVars, cacheVars
  <2> QED
    BY <1>2, <2>1 DEF Early, UInv
<1> QED
  BY <1>1, <1>2

LEMMA IdleStep ==
    ASSUME UInv, [UsageNext]_usageVars PROVE Idle'
<1>1. CASE Logs \/ UNCHANGED usageVars
  <2>1. UNCHANGED <<upc, left, sum, cur, pos, mine>> /\ (left = {} => floor' = floor)
    BY <1>1 DEF Logs, Tick, WriteTurn, DeleteLog, usageVars, scanVars
  <2> QED
    BY <2>1 DEF UInv, Idle
<1>2. CASE \E m \in {"all", "week"} : BeginCall(m)
  BY <1>2 DEF BeginCall, UInv, Idle
<1>3. CASE LookUpCache \/ VisitFile \/ AllVisited
  BY <1>3 DEF LookUpCache, VisitFile, AllVisited, UInv, Idle
<1>4. CASE ReadTurn \/ SkipLine
  BY <1>4 DEF ReadTurn, SkipLine, UInv, Idle
<1>5. CASE ReadRaises \/ Store
  BY <1>5 DEF ReadRaises, Store, Return, UInv, Idle
<1>6. CASE ReadFails \/ CloseFile
  BY <1>6 DEF ReadFails, CloseFile, EndFile, UInv, Idle
<1> QED
  BY <1>1, <1>2, <1>3, <1>4, <1>5, <1>6 DEF UsageNext, Collect

LEMMA ReadingStep ==
    ASSUME UInv, [UsageNext]_usageVars PROVE Reading'
<1>0. UsageTypeOK /\ UsageTypeOK'
  BY UsageTypeStep DEF UInv
<1> SUFFICES ASSUME upc' = "read" PROVE Reading'
  BY DEF Reading
<1>1. CASE VisitFile
  <2>1. CASE upc = "read"
    BY <1>1, <2>1 DEF VisitFile
  <2>2. CASE upc # "read"
    <3>1. /\ pos = 0 /\ mine = 0 /\ UNCHANGED <<pos, mine, turns, mode, floor, provider, old>>
          /\ cur' \in left /\ left' = left \ {cur'}
      BY <1>1, <2>2 DEF VisitFile, UInv, Idle, logVars
    <3>2. cur' \in Sessions /\ turns[cur'] \in Nat
      BY <1>0, <3>1 DEF UsageTypeOK
    <3>3. Worth(cur, mode, 0)' = 0
      BY <1>0, <3>1, <3>2 DEF Worth, UsageTypeOK
    <3>4. pos' = 0 /\ mine' = 0 /\ turns'[cur'] = turns[cur']
      BY <3>1
    <3> QED
      BY <1>0, <3>1, <3>2, <3>3, <3>4 DEF Reading
  <2> QED
    BY <2>1, <2>2
<1>2. CASE ReadTurn
  BY <1>2, ReadTurnType
<1>3. CASE SkipLine
  <2>1. /\ upc = "read" /\ pos = turns[cur] /\ pos' = pos + 1 /\ cur \in Sessions \ left /\ pos \in Nat
        /\ UNCHANGED <<provider, old, turns, mode, cur, left, floor, mine>>
    BY <1>0, <1>3 DEF SkipLine, UInv, Reading, logVars, UsageTypeOK
  <2>2. \A n : Worth(cur, mode, n)' = Worth(cur', mode', n)
    BY <2>1 DEF Worth
  <2>3. floor[cur] <= Worth(cur, mode, pos)
    BY <2>1 DEF UInv, Floors
  <2>4. floor[cur] <= IF provider = "CODEX" THEN Worth(cur, mode, mine) ELSE mine
    BY <2>1, <2>3 DEF UInv, Reading
  <2>5. mine <= IF provider = "CODEX" THEN turns[cur] ELSE Worth(cur, mode, turns[cur])
    BY <2>1 DEF UInv, Reading
  <2>6. Worth(cur, mode, mine)' = Worth(cur, mode, mine) /\ Worth(cur, mode, turns[cur])' = Worth(cur, mode, turns[cur])
    BY <2>1 DEF Worth
  <2>7. ~(pos' <= turns'[cur']) /\ pos' <= turns'[cur'] + 1
    BY <2>1
  <2> QED
    BY <2>1, <2>4, <2>5, <2>6, <2>7 DEF Reading
<1>4. CASE Logs \/ UNCHANGED usageVars
  <2>1. UNCHANGED <<upc, mode, cur, left, pos, mine, provider>> /\ upc = "read"
    BY <1>4 DEF Logs, Tick, WriteTurn, DeleteLog, logVars, scanVars, usageVars
  <2>2. cur \in Sessions \ left /\ pos \in Nat /\ mine \in Nat /\ pos <= turns[cur] + 1
    BY <1>0, <2>1 DEF UInv, Reading, UsageTypeOK
  <2>3. floor'[cur] = floor[cur]
    BY <1>0, <1>4, <2>1, <2>2 DEF Logs, Tick, WriteTurn, DeleteLog, scanVars, usageVars, UsageTypeOK
  <2>4. calls # 0
    BY <2>1 DEF UInv, Early
  <2>5. turns[cur] <= turns'[cur] /\ turns[cur] \in Nat /\ turns'[cur] \in Nat
    BY <1>0, <2>2, LogsGrow
  <2>6. \A n : Worth(cur, mode, n)' = Worth(cur, mode, n)
    <3>1. old' = old
      BY <1>0, <2>4, LogsGrow
    <3> QED
      BY <2>1, <3>1 DEF Worth
  <2> DEFINE seen  == IF pos <= turns[cur] THEN pos ELSE turns[cur]
             seen2 == IF pos <= turns'[cur] THEN pos ELSE turns'[cur]
  <2>7. seen \in Nat /\ seen2 \in Nat /\ seen <= seen2
    BY <2>2, <2>5
  <2>8. Worth(cur, mode, seen) <= Worth(cur, mode, seen2) /\ Worth(cur, mode, seen) \in Nat /\ Worth(cur, mode, seen2) \in Nat
    BY <1>0, <2>2, <2>7, WorthFacts
  <2>9. mine <= IF provider = "CODEX" THEN seen ELSE Worth(cur, mode, seen)
    BY <2>1 DEF UInv, Reading
  <2>10. mine <= IF provider = "CODEX" THEN seen2 ELSE Worth(cur, mode, seen2)
    <3> HIDE DEF seen, seen2
    <3> QED
      BY <2>2, <2>7, <2>8, <2>9
  <2>11. \/ floor[cur] <= IF provider = "CODEX" THEN Worth(cur, mode, mine) ELSE mine
         \/ pos <= turns'[cur] /\ mine = IF provider = "CODEX" THEN pos ELSE Worth(cur, mode, pos)
    BY <2>1, <2>2, <2>5 DEF UInv, Reading
  <2>12. /\ Worth(cur, mode, mine)' = Worth(cur, mode, mine) /\ Worth(cur, mode, pos)' = Worth(cur, mode, pos)
         /\ Worth(cur, mode, turns[cur])' = Worth(cur, mode, turns'[cur])
    BY <2>1, <2>6, LogsGrow, <1>0, <2>4 DEF Worth
  <2>13. pos <= turns'[cur] + 1
    BY <2>2, <2>5
  <2> QED
    BY <2>1, <2>2, <2>3, <2>10, <2>11, <2>12, <2>13 DEF Reading
<1>5. CASE LookUpCache \/ AllVisited \/ ReadRaises \/ ReadFails \/ CloseFile \/ Store
  BY <1>5 DEF LookUpCache, AllVisited, ReadRaises, ReadFails, CloseFile, Store, EndFile, Return
<1>6. CASE \E m \in {"all", "week"} : BeginCall(m)
  BY <1>6 DEF BeginCall
<1> QED
  BY <1>1, <1>2, <1>3, <1>4, <1>5, <1>6 DEF UsageNext, Collect

LEMMA FloorsStep ==
    ASSUME UInv, [UsageNext]_usageVars PROVE Floors'
<1>0. UsageTypeOK /\ UsageTypeOK'
  BY UsageTypeStep DEF UInv
<1>1. ASSUME floor' = NoFloor PROVE Floors'
  <2>1. ASSUME NEW s \in Sessions PROVE 0 <= Worth(s, mode, turns[s])'
    <3>1. turns'[s] \in Nat /\ old'[s] \in Nat
      BY <1>0 DEF UsageTypeOK
    <3> QED
      BY <3>1 DEF Worth
  <2> QED
    BY <1>0, <1>1, <2>1 DEF Floors, NoFloor, UsageTypeOK
\* No floor rises.
<1>2. ASSUME calls # 0, mode' = mode, left' \subseteq left, \A s \in Sessions : floor'[s] = floor[s] \/ floor'[s] = 0,
             \A s \in left' : file'[s] # "there" => file[s] # "there" \/ floor'[s] = 0
      PROVE  Floors'
  <2>1. ASSUME NEW s \in Sessions PROVE floor'[s] <= Worth(s, mode, turns[s])'
    <3>1. Worths(mode)[s] <= Worths(mode)'[s]
      BY <1>0, <1>2, WorthGrows
    <3>2. Worths(mode)[s] = Worth(s, mode, turns[s]) /\ Worths(mode)'[s] = Worth(s, mode, turns[s])'
      BY <1>2 DEF Worths
    <3>3. Worth(s, mode, turns[s]) \in Nat
      BY <1>0, WorthFacts DEF UsageTypeOK
    <3>4. Worth(s, mode, turns[s])' \in Nat
      <4>1. turns'[s] \in Nat /\ old'[s] \in Nat
        BY <1>0 DEF UsageTypeOK
      <4> QED
        BY <4>1 DEF Worth
    <3>5. floor[s] \in Nat /\ floor[s] <= Worth(s, mode, turns[s])
      BY <1>0 DEF UInv, Floors, UsageTypeOK
    <3> QED
      BY <1>2, <3>1, <3>2, <3>3, <3>4, <3>5
  <2>2. \A s \in left' : file'[s] # "there" => floor'[s] = 0
    BY <1>0, <1>2 DEF UInv, Floors, UsageTypeOK
  <2> QED
    BY <2>1, <2>2 DEF Floors
<1>3. CASE upc = "idle"
  <2>1. floor' = floor
    BY <1>3 DEF UInv, Idle, UsageNext, Collect, Logs, Tick, WriteTurn, DeleteLog, LookUpCache, VisitFile, AllVisited,
       ReadTurn, SkipLine, ReadRaises, ReadFails, EndFile, CloseFile, Store, BeginCall, usageVars, scanVars
  <2> QED
    BY <1>1, <1>3, <2>1 DEF UInv, Idle
<1>4. ASSUME upc # "idle" PROVE calls # 0
  BY <1>4 DEF UInv, Early
<1>5. CASE upc # "idle" /\ (Logs \/ UNCHANGED usageVars)
  <2>1. UNCHANGED <<mode, left>>
    BY <1>5 DEF Logs, Tick, WriteTurn, DeleteLog, scanVars, usageVars
  <2>2. CASE UNCHANGED <<floor, file>>
    BY <1>2, <1>4, <1>5, <2>1, <2>2
  <2>3. ASSUME NEW s \in Sessions, WriteTurn(s) PROVE Floors'
    BY <1>0, <1>2, <1>4, <1>5, <2>1, <2>3 DEF WriteTurn, scanVars, UsageTypeOK
  <2>4. ASSUME NEW s \in Sessions, DeleteLog(s) PROVE Floors'
    BY <1>0, <1>2, <1>4, <1>5, <2>1, <2>4 DEF DeleteLog, UsageTypeOK
  <2> QED
    BY <1>5, <2>2, <2>3, <2>4 DEF Logs, Tick, logVars, scanVars, usageVars
<1>6. CASE LookUpCache
  <2>1. CASE Hit
    BY <1>2, <1>4, <1>6, <2>1 DEF LookUpCache, logVars
  <2>2. CASE ~Hit
    <3>1. /\ floor' = [s \in Sessions |-> IF file[s] = "there" THEN Worth(s, mode, turns[s]) ELSE 0]
          /\ UNCHANGED <<provider, file, turns, old, mode>>
      BY <1>6, <2>2 DEF LookUpCache, logVars
    <3>2. ASSUME NEW s \in Sessions
          PROVE  Worth(s, mode, turns[s])' = Worth(s, mode, turns[s]) /\ Worth(s, mode, turns[s]) \in Nat
      <4>1. turns[s] \in Nat
        BY <1>0 DEF UsageTypeOK
      <4>2. Worth(s, mode, turns[s]) \in 0..turns[s]
        BY <1>0, <4>1, WorthFacts
      <4>3. Worth(s, mode, turns[s])' = Worth(s, mode, turns[s])
        BY <3>1 DEF Worth
      <4> QED
        BY <4>1, <4>2, <4>3
    <3> QED
      BY <1>0, <3>1, <3>2 DEF Floors, UsageTypeOK
  <2> QED
    BY <2>1, <2>2
<1>7. CASE VisitFile \/ AllVisited \/ ReadTurn \/ SkipLine \/ ReadFails \/ CloseFile
  <2>1. upc # "idle" /\ UNCHANGED <<mode, file>> /\ left' \subseteq left
    BY <1>7 DEF VisitFile, AllVisited, ReadTurn, SkipLine, ReadFails, EndFile, CloseFile, logVars
  <2>2. \A s \in Sessions : floor'[s] = floor[s] \/ floor'[s] = 0
    BY <1>0, <1>7 DEF VisitFile, AllVisited, ReadTurn, SkipLine, ReadFails, CloseFile, UsageTypeOK
  <2> QED
    BY <1>2, <1>4, <2>1, <2>2
<1>8. CASE ReadRaises \/ Store
  BY <1>1, <1>8 DEF ReadRaises, Store, Return
<1> QED
  BY <1>3, <1>5, <1>6, <1>7, <1>8 DEF UsageNext, Collect, BeginCall

\* The sum of a new scan is that of no turns at all.
LEMMA FreshAccount ==
    ASSUME UInv, LookUpCache, ~Hit PROVE Account(NoFloor, {})'
<1>1. sum' = Zero /\ left' = Sessions /\ cur' = NoFile /\ UNCHANGED <<provider, turns, old, mode>>
  BY DEF UInv, Idle, LookUpCache, logVars
<1>2. sum'.tokens = Total(NoFloor) /\ sum'.sessions = Cardinality({})
  BY <1>1, TotalOfNothing, FS_EmptySet DEF Zero
<1>3. ASSUME NEW s \in Sessions PROVE NoFloor[s] <= Worth(s, mode, turns[s])'
  <2>1. turns[s] \in Nat /\ UsageTypeOK
    BY DEF UInv, UsageTypeOK
  <2>2. Worth(s, mode, turns[s]) \in Nat
    BY <2>1, WorthFacts
  <2>3. Worth(s, mode, turns[s])' = Worth(s, mode, turns[s])
    BY <1>1 DEF Worth
  <2> QED
    BY <2>2, <2>3 DEF NoFloor
<1> QED
  BY <1>1, <1>2, <1>3 DEF Account, NoFloor

\* What c has of a session stays below what the session counts for.
LEMMA BelowStays ==
    ASSUME UInv, [UsageNext]_usageVars, upc # "idle", mode' = mode, NEW c \in [Sessions -> 0..MaxTurns],
           \A s \in Sessions : c[s] <= Worth(s, mode, turns[s])
    PROVE  \A s \in Sessions : c[s] <= Worth(s, mode, turns[s])'
<1> TAKE s \in Sessions
<1>1. UsageTypeOK /\ UsageTypeOK' /\ calls # 0
  BY UsageTypeStep DEF UInv, Early
<1>2. Worths(mode)[s] <= Worths(mode)'[s]
  BY <1>1, WorthGrows
<1>3. Worths(mode)[s] = Worth(s, mode, turns[s]) /\ Worths(mode)'[s] = Worth(s, mode, turns[s])'
  BY DEF Worths
<1>4. Worths(mode)[s] \in Nat /\ Worths(mode)'[s] \in Nat
  <2>1. turns'[s] \in Nat /\ old'[s] \in Nat /\ turns[s] \in Nat
    BY <1>1 DEF UsageTypeOK
  <2>2. Worth(s, mode, turns[s])' \in Nat
    BY <2>1 DEF Worth
  <2>3. Worth(s, mode, turns[s]) \in Nat
    BY <1>1, <2>1, WorthFacts
  <2> QED
    BY <1>3, <2>2, <2>3
<1>5. c[s] \in Nat
  BY UsageAssumption
<1> QED
  BY <1>2, <1>3, <1>4, <1>5

LEMMA ReadTurnAccount ==
    ASSUME UInv, ReadTurn, NEW c \in [Sessions -> 0..MaxTurns], NEW K \in SUBSET Sessions, Account(c, K)
    PROVE  \E d \in [Sessions -> 0..MaxTurns] : Account(d, K)'
<1>1. /\ upc = "read" /\ cur \in Sessions \ left /\ cur # NoFile /\ pos' = pos + 1
      /\ UNCHANGED <<provider, old, turns, mode, cur, left, floor>>
  BY UsageAssumption DEF UInv, Reading, ReadTurn, logVars
<1>2. \A s \in Sessions : c[s] \in Nat
  BY UsageAssumption
<1>3. \A s \in Sessions : Worth(s, mode, turns[s])' = Worth(s, mode, turns[s])
  BY <1>1 DEF Worth
<1>4. CASE provider = "CODEX"
  <2>1. UNCHANGED sum
    BY <1>4 DEF ReadTurn
  <2>2. Account(c, K)'
    BY <1>1, <1>3, <1>4, <2>1 DEF Account
  <2> QED
    BY <2>2
<1>5. CASE provider # "CODEX"
  <2> DEFINE worth == IF mode = "week" /\ pos' <= old[cur] THEN 0 ELSE 1
             d == [c EXCEPT ![cur] = @ + worth]
  <2>1. mine' = mine + worth /\ sum' = [sum EXCEPT !.tokens = @ + worth] /\ worth \in Nat
    BY <1>5 DEF ReadTurn
  <2> HIDE DEF worth
  <2>2. c[cur] = mine /\ mine \in Nat
    BY <1>1, <1>2, <1>5 DEF Account
  <2>3. \A s \in Sessions : d[s] = IF s = cur THEN mine' ELSE c[s]
    BY <1>1, <2>1, <2>2
  <2>4. mine' <= Worth(cur, mode, turns[cur]) /\ mine' \in 0..MaxTurns
    <3>1. UsageTypeOK' /\ Reading' /\ upc' = "read" /\ UsageTypeOK
      BY ReadTurnType DEF ReadTurn, UInv
    <3>2. pos' \in Nat /\ turns[cur] \in Nat
      BY <1>1, <3>1 DEF UsageTypeOK
    <3>3. pos' <= turns[cur]
      BY <3>1, <1>1, <3>2 DEF ReadTurn, UsageTypeOK
    <3>4. mine' <= Worth(cur, mode, pos)'
      BY <1>1, <1>5, <3>1, <3>3 DEF Reading
    <3>5. Worth(cur, mode, pos)' = Worth(cur, mode, pos')
      BY <1>1 DEF Worth
    <3>6. Worth(cur, mode, pos') <= Worth(cur, mode, turns[cur])
      BY <1>1, <3>1, <3>2, <3>3, WorthFacts
    <3>7. Worth(cur, mode, pos') \in Nat /\ Worth(cur, mode, turns[cur]) \in Nat /\ mine' \in 0..MaxTurns
      BY <1>1, <3>1, <3>2, WorthFacts DEF UsageTypeOK
    <3> QED
      BY <3>4, <3>5, <3>6, <3>7, UsageAssumption
  <2>5. d \in [Sessions -> 0..MaxTurns]
    BY <2>3, <2>4
  <2>6. Total(d) = Total(c) + worth
    <3>1. c \in [Sessions -> Nat]
      BY <1>2
    <3> QED
      BY <1>1, <2>1, <3>1, TotalAdds
  <2>7. sum'.tokens = Total(d) /\ sum'.sessions = Cardinality(K)
    <3>1. sum.tokens = Total(c) /\ sum.sessions = Cardinality(K) /\ sum \in Sum
      BY DEF Account, UInv, UsageTypeOK
    <3> QED
      BY <2>1, <2>6, <3>1 DEF Sum
  <2>8. \A s \in Sessions : s # cur => d[s] = c[s]
    BY <2>3
  <2>9. d[cur] = mine'
    BY <1>1, <2>3
  <2> HIDE DEF d
  <2>10. ASSUME NEW e, e = d PROVE Account(e, K)'
    <3>1. \A s \in K : e[s] > 0 /\ s \notin left' /\ s # cur'
      BY <1>1, <2>8, <2>10 DEF Account
    <3>2. \A s \in Sessions : e[s] <= Worth(s, mode, turns[s])'
      BY <1>1, <1>3, <2>4, <2>8, <2>9, <2>10 DEF Account
    <3>3. \A s \in left' : e[s] = 0
      BY <1>1, <2>8, <2>10 DEF Account, UInv, UsageTypeOK
    <3>4. \A s \in Sessions \ left' : s # cur' => floor'[s] <= e[s]
      BY <1>1, <2>8, <2>10 DEF Account
    <3> QED
      BY <1>1, <1>5, <2>7, <2>9, <2>10, <3>1, <3>2, <3>3, <3>4 DEF Account
  <2> QED
    BY <2>5, <2>10
<1> QED
  BY <1>4, <1>5

\* A counted session gets what was taken of it; one that is not had nothing.
LEMMA CloseFileAccount ==
    ASSUME UInv, CloseFile, NEW c \in [Sessions -> 0..MaxTurns], NEW K \in SUBSET Sessions, Account(c, K)
    PROVE  \E d \in [Sessions -> 0..MaxTurns], J \in SUBSET Sessions : Account(d, J)'
<1> DEFINE counted == mine > 0 /\ (provider = "CODEX" /\ mode = "week" => mine > old[cur])
           add == IF counted /\ provider = "CODEX" THEN mine ELSE 0
           have == IF provider = "CODEX" THEN Worth(cur, mode, mine) ELSE mine
           all == Worth(cur, mode, turns[cur])
           d == [c EXCEPT ![cur] = @ + add]
           J == IF counted THEN K \cup {cur} ELSE K
<1>1. /\ UsageTypeOK /\ upc = "read" /\ cur \in Sessions \ left /\ cur # NoFile /\ cur' = NoFile /\ pos >= turns[cur]
      /\ UNCHANGED <<provider, old, turns, mode, left, floor>>
  BY UsageAssumption DEF UInv, Reading, CloseFile, EndFile, logVars
<1>2. /\ mine \in Nat /\ turns[cur] \in Nat /\ old[cur] \in Nat /\ pos \in Nat /\ floor[cur] \in Nat
      /\ \A s \in Sessions : c[s] \in Nat
  BY <1>1, UsageAssumption DEF UsageTypeOK
<1>3. c[cur] = (IF provider = "CODEX" THEN 0 ELSE mine) /\ c[cur] \in Nat /\ add \in Nat
  BY <1>1, <1>2 DEF Account
<1>4. have \in Nat /\ all \in Nat /\ all <= MaxTurns
  <2>1. Worth(cur, mode, mine) \in Nat /\ all \in 0..turns[cur] /\ turns[cur] \in 0..MaxTurns
    BY <1>1, <1>2, WorthFacts DEF UsageTypeOK
  <2> QED
    BY <1>2, <2>1, UsageAssumption
\* The floor is reached where the last line has been read.
<1>5. floor[cur] <= have
  <2>1. floor[cur] <= all
    BY <1>1 DEF UInv, Floors
  <2>2. floor[cur] <= have \/ (pos = turns[cur] /\ mine = IF provider = "CODEX" THEN pos ELSE Worth(cur, mode, pos))
    BY <1>1, <1>2 DEF UInv, Reading
  <2>3. (pos = turns[cur] /\ mine = IF provider = "CODEX" THEN pos ELSE Worth(cur, mode, pos)) => have = all
    OBVIOUS
  <2> HIDE DEF have, all
  <2> QED
    BY <2>1, <2>2, <2>3
<1>6. have <= all
  <2>1. (IF pos <= turns[cur] THEN pos ELSE turns[cur]) = turns[cur]
    BY <1>1, <1>2
  <2>2. mine <= IF provider = "CODEX" THEN turns[cur] ELSE all
    BY <1>1, <2>1 DEF UInv, Reading
  <2>3. provider = "CODEX" => Worth(cur, mode, mine) <= all
    BY <1>1, <1>2, <2>2, WorthFacts
  <2> QED
    BY <2>2, <2>3
<1>7. have = IF counted THEN mine ELSE 0
  <2>1. provider = "CODEX" => Worth(cur, mode, mine) = IF counted THEN mine ELSE 0
    BY <1>2 DEF Worth
  <2> QED
    BY <1>1, <1>2, <2>1
<1>8. c[cur] + add = have
  BY <1>2, <1>3, <1>7
<1>9. sum' = IF counted THEN [tokens |-> sum.tokens + add, sessions |-> sum.sessions + 1] ELSE sum
  BY <1>1, <1>2 DEF CloseFile, UsageTypeOK, Sum
<1>10. ~counted => add = 0
  OBVIOUS
<1>11. counted => have > 0
  BY <1>2, <1>7
<1> HIDE DEF counted, add, have, all
<1>12. \A s \in Sessions : d[s] = IF s = cur THEN have ELSE c[s]
  BY <1>1, <1>8
<1>13. d \in [Sessions -> 0..MaxTurns]
  <2>1. have \in 0..MaxTurns
    BY <1>4, <1>6, UsageAssumption
  <2>2. d \in [Sessions -> UNION {0..MaxTurns}]
    BY <1>12, <2>1
  <2> QED
    BY <2>2
<1>14. Total(d) = Total(c) + add /\ Total(c) \in Nat
  <2>1. c \in [Sessions -> Nat]
    BY <1>2
  <2> QED
    BY <1>1, <1>3, <2>1, TotalAdds, TokensFinite
<1>15. Cardinality(J) = (IF counted THEN Cardinality(K) + 1 ELSE Cardinality(K)) /\ J \in SUBSET Sessions
  <2>1. cur \notin K /\ IsFiniteSet(K)
    BY UsageAssumption, FS_Subset DEF Account
  <2> QED
    BY <1>1, <2>1, FS_AddElement
<1>16. sum'.tokens = Total(d) /\ sum'.sessions = Cardinality(J)
  BY <1>9, <1>10, <1>14, <1>15 DEF Account
<1>17. \A s \in Sessions : Worth(s, mode, turns[s])' = Worth(s, mode, turns[s])
  BY <1>1 DEF Worth
<1>18. \A s \in Sessions : d[s] <= Worth(s, mode, turns[s])
  BY <1>6, <1>12 DEF Account, all
<1>19. \A s \in J : d[s] > 0 /\ s \notin left
  <2>1. \A s \in K : s # cur /\ c[s] > 0 /\ s \notin left /\ s \in Sessions
    BY DEF Account
  <2>2. \A s \in J : s \in K \/ (s = cur /\ counted)
    OBVIOUS
  <2> HIDE DEF d, J
  <2> QED
    BY <1>1, <1>11, <1>12, <2>1, <2>2
<1>20. \A s \in left : d[s] = 0
  BY <1>1, <1>12 DEF Account, UsageTypeOK
<1>21. \A s \in Sessions \ left : floor[s] <= d[s]
  BY <1>5, <1>12 DEF Account
<1> HIDE DEF d, J
<1>22. ASSUME NEW e, e = d, NEW I, I = J PROVE Account(e, I)'
  <2>1. \A s \in I : e[s] > 0 /\ s \notin left' /\ s # cur'
    BY <1>1, <1>15, <1>19, <1>22, UsageAssumption
  <2>2. \A s \in Sessions : e[s] <= Worth(s, mode, turns[s])'
    BY <1>17, <1>18, <1>22
  <2> QED
    BY <1>1, <1>16, <1>20, <1>21, <1>22, <2>1, <2>2 DEF Account
<1> QED
  BY <1>13, <1>15, <1>22

LEMMA AccountedStep ==
    ASSUME UInv, [UsageNext]_usageVars PROVE Accounted'
<1>0. UsageTypeOK /\ UsageTypeOK'
  BY UsageTypeStep DEF UInv
<1>1. CASE LookUpCache
  <2>1. CASE Hit
    BY <1>1, <2>1 DEF LookUpCache, Accounted
  <2>2. CASE ~Hit
    <3>1. NoFloor \in [Sessions -> 0..MaxTurns] /\ {} \in SUBSET Sessions
      BY UsageAssumption DEF NoFloor
    <3>2. \A c, K : c = NoFloor /\ K = {} => Account(c, K)'
      BY <1>1, <2>2, FreshAccount DEF Account, NoFloor
    <3> QED
      BY <3>1, <3>2 DEF Accounted
  <2> QED
    BY <2>1, <2>2
<1>2. CASE upc \in {"visit", "read", "store"}
  <2>1. PICK c \in [Sessions -> 0..MaxTurns], K \in SUBSET Sessions : Account(c, K)
    BY <1>2 DEF UInv, Accounted
  <2>2. ASSUME upc' \in {"visit", "read", "store"}, mode' = mode, UNCHANGED <<sum, provider>>, left' \subseteq left,
               \A s \in left \ left' : floor[s] = 0 \/ s = cur',
               \A s \in Sessions : floor'[s] = floor[s] \/ floor'[s] = 0,
               cur' # cur /\ cur # NoFile => floor'[cur] = 0,
               cur' = cur \/ cur' = NoFile \/ (cur = NoFile /\ cur' \in left \ left'),
               cur' = cur => mine' = mine, cur = NoFile /\ cur' # NoFile => mine' = 0
        PROVE  Accounted'
    <3>1. \A s \in Sessions : c[s] <= Worth(s, mode, turns[s])'
      <4>1. upc # "idle" /\ \A s \in Sessions : c[s] <= Worth(s, mode, turns[s])
        BY <1>2, <2>1 DEF Account
      <4> QED
        BY <2>2, <4>1, BelowStays
    <3>2. left \subseteq Sessions /\ \A s \in Sessions : c[s] \in Nat /\ floor[s] \in Nat
      BY <1>0, UsageAssumption DEF UsageTypeOK
    <3>3. \A s \in K : c[s] > 0 /\ s \notin left' /\ s # cur'
      BY <2>1, <2>2, UsageAssumption DEF Account
    <3>4. \A s \in left' : c[s] = 0
      BY <2>1, <2>2 DEF Account
    <3>5. ASSUME NEW s \in Sessions \ left', s # cur' PROVE floor'[s] <= c[s]
      <4>1. CASE s \in left
        BY <2>1, <2>2, <3>2, <3>5, <4>1 DEF Account
      <4>2. CASE s \notin left /\ s # cur
        BY <2>1, <2>2, <3>2, <3>5, <4>2 DEF Account
      <4>3. CASE s = cur
        BY <2>2, <3>2, <3>5, <4>3, UsageAssumption
      <4> QED
        BY <4>1, <4>2, <4>3
    <3>6. cur' # NoFile => c[cur'] = IF provider' = "CODEX" THEN 0 ELSE mine'
      BY <2>1, <2>2 DEF Account
    <3>7. Account(c, K)'
      BY <2>1, <2>2, <3>1, <3>3, <3>4, <3>5, <3>6 DEF Account
    <3> QED
      BY <3>7 DEF Accounted
  <2>3. CASE Logs \/ UNCHANGED usageVars
    <3>1. UNCHANGED <<upc, mode, sum, provider, left, cur, mine>>
      BY <2>3 DEF Logs, Tick, WriteTurn, DeleteLog, logVars, scanVars, usageVars
    <3>2. \A s \in Sessions : floor'[s] = floor[s] \/ floor'[s] = 0
      BY <1>0, <2>3 DEF Logs, Tick, WriteTurn, DeleteLog, scanVars, usageVars, UsageTypeOK
    <3> QED
      BY <1>2, <2>2, <3>1, <3>2
  <2>4. CASE VisitFile
    <3>1. cur = NoFile /\ mine = 0
      BY <2>4 DEF VisitFile, UInv, Idle
    <3>2. PICK s \in left :
            left' = left \ {s} /\ IF file[s] = "there" THEN upc' = "read" /\ cur' = s ELSE UNCHANGED <<upc, cur>>
      BY <2>4 DEF VisitFile
    <3>3. file[s] # "there" => floor[s] = 0
      BY <3>2 DEF UInv, Floors
    <3>4. UNCHANGED <<mode, sum, provider, floor, mine>>
      BY <2>4 DEF VisitFile, logVars
    <3> QED
      BY <1>2, <2>2, <3>1, <3>2, <3>3, <3>4, UsageAssumption
  <2>5. CASE AllVisited \/ SkipLine
    <3>1. UNCHANGED <<mode, sum, provider, floor, mine, cur, left>> /\ upc' \in {"visit", "read", "store"}
      BY <1>2, <2>5 DEF AllVisited, SkipLine, logVars
    <3> QED
      BY <2>2, <3>1
  <2>6. CASE ReadTurn
    BY <2>1, <2>6, ReadTurnAccount DEF Accounted
  <2>7. CASE ReadFails
    <3>1. cur \in Sessions /\ floor' = [floor EXCEPT ![cur] = 0] /\ cur' = NoFile /\ upc' = "visit"
          /\ UNCHANGED <<mode, sum, provider, left>>
      BY <2>7 DEF ReadFails, EndFile, UInv, Reading, logVars
    <3>2. \A s \in Sessions : floor'[s] = IF s = cur THEN 0 ELSE floor[s]
      BY <1>0, <3>1 DEF UsageTypeOK
    <3> QED
      BY <2>2, <3>1, <3>2, UsageAssumption
  <2>8. CASE CloseFile
    BY <2>1, <2>8, CloseFileAccount DEF Accounted
  <2>9. CASE ReadRaises \/ Store
    BY <2>9 DEF ReadRaises, Store, Return, Accounted
  <2> QED
    BY <1>1, <1>2, <2>3, <2>4, <2>5, <2>6, <2>7, <2>8, <2>9 DEF UsageNext, Collect, BeginCall
<1>3. CASE upc = "idle"
  <2>1. upc' \in {"idle", "lookup"}
    BY <1>3 DEF UsageNext, Collect, Logs, Tick, WriteTurn, DeleteLog, LookUpCache, VisitFile, AllVisited,
       ReadTurn, SkipLine, ReadRaises, ReadFails, EndFile, CloseFile, Store, BeginCall, usageVars, scanVars
  <2> QED
    BY <2>1 DEF Accounted
<1>4. CASE upc = "lookup" /\ ~LookUpCache
  <2>1. upc' = "lookup"
    BY <1>4 DEF UsageNext, Collect, Logs, Tick, WriteTurn, DeleteLog, VisitFile, AllVisited,
       ReadTurn, SkipLine, ReadRaises, ReadFails, EndFile, CloseFile, Store, BeginCall, usageVars, scanVars
  <2> QED
    BY <2>1 DEF Accounted
<1> QED
  BY <1>0, <1>1, <1>2, <1>3, <1>4 DEF UsageTypeOK

\* What is stored lies between the floors and what the logs say.
LEMMA StoreWithin ==
    ASSUME UInv, upc = "store", left = {} PROVE Within(floor, sum, Worths(mode))
<1>1. PICK c \in [Sessions -> 0..MaxTurns], K \in SUBSET Sessions : Account(c, K)
  BY DEF UInv, Accounted
<1>2. UsageTypeOK /\ cur = NoFile
  BY DEF UInv, Idle
<1>3. c \in [Sessions -> Nat] /\ floor \in [Sessions -> Nat] /\ Worths(mode) \in [Sessions -> Nat]
  <2>1. Worths(mode) \in [Sessions -> 0..MaxTurns]
    BY <1>2, WorthsType
  <2> QED
    BY <1>2, <2>1, UsageAssumption DEF UsageTypeOK
<1>4. \A s \in Sessions : floor[s] <= c[s] /\ c[s] <= Worths(mode)[s]
  BY <1>1, <1>2, UsageAssumption DEF Account, Worths
<1>5. Total(floor) <= Total(c) /\ Total(c) <= Total(Worths(mode))
  BY <1>3, <1>4, TotalGrows
<1>6. Cardinality(K) <= Cardinality({s \in Sessions : Worths(mode)[s] > 0})
  <2>1. \A s \in K : Worths(mode)[s] > 0
    BY <1>1, <1>3, <1>4 DEF Account
  <2>2. IsFiniteSet({s \in Sessions : Worths(mode)[s] > 0}) /\ K \subseteq {s \in Sessions : Worths(mode)[s] > 0}
    BY <2>1, UsageAssumption, FS_Subset
  <2> QED
    BY <2>2, FS_Subset
<1> QED
  BY <1>1, <1>5, <1>6 DEF Within, Account

LEMMA BetweenStep ==
    ASSUME UInv, [UsageNext]_usageVars PROVE Between(answer)' /\ Between(entry)'
<1>0. UsageTypeOK /\ UsageTypeOK'
  BY UsageTypeStep DEF UInv
<1>1. ASSUME NEW a \in Answer, Between(a), a.how = "value" => calls # 0 PROVE Between(a)'
  <2> SUFFICES ASSUME a.how = "value" PROVE Within(a.floor, a.sum, Worths(a.mode)')
    BY DEF Between
  <2>1. a.floor \in [Sessions -> Nat] /\ a.sum \in Sum
    BY DEF Answer
  <2>2. Worths(a.mode) \in [Sessions -> Nat]
    <3>1. Worths(a.mode) \in [Sessions -> 0..MaxTurns]
      BY <1>0, WorthsType
    <3> QED
      BY <3>1, UsageAssumption
  <2>3. Worths(a.mode)' \in [Sessions -> Nat]
    <3>1. \A s \in Sessions : turns'[s] \in Nat /\ old'[s] \in Nat
      BY <1>0 DEF UsageTypeOK
    <3> QED
      BY <3>1 DEF Worths, Worth
  <2>4. \A s \in Sessions : Worths(a.mode)[s] <= Worths(a.mode)'[s]
    BY <1>0, <1>1, WorthGrows
  <2> QED
    BY <1>1, <2>1, <2>2, <2>3, <2>4, WithinGrows DEF Between
<1>2. ASSUME NEW a, a.how # "value" PROVE Between(a)'
  BY <1>2 DEF Between
<1>3. ASSUME NEW a, a = answer \/ a = entry PROVE Between(a)'
  <2>1. a \in Answer /\ Between(a) /\ (a.how = "value" => calls # 0)
    BY <1>0, <1>3 DEF UInv, Early, UsageTypeOK, Nothing
  <2> QED
    BY <1>1, <2>1
<1>4. ASSUME Store, mode \in {"all", "week"}, NEW a, a = answer' PROVE Between(a)'
  <2>1. CASE left = {}
    <3>1. a = [how |-> "value", sum |-> sum, floor |-> floor, mode |-> mode] /\ UNCHANGED <<provider, turns, old>>
      BY <1>4, <2>1 DEF Store, Return, logVars
    <3>2. Worths(a.mode)' = Worths(mode)
      BY <3>1 DEF Worths, Worth
    <3>3. Within(a.floor, a.sum, Worths(a.mode)')
      BY <1>4, <2>1, <3>1, <3>2, StoreWithin DEF Store
    <3> QED
      BY <3>3 DEF Between
  <2>2. CASE left # {}
    BY <1>2, <1>4, <2>2 DEF Store, Return, Null
  <2> QED
    BY <2>1, <2>2
<1>5. ASSUME NEW a, a = answer' \/ a = entry' PROVE Between(a)'
  <2>1. CASE Store
    <3>1. a = answer' \/ a = entry
      BY <1>5, <2>1 DEF Store, cacheVars
    <3> QED
      BY <1>0, <1>3, <1>4, <2>1, <3>1 DEF UsageTypeOK
  <2>2. CASE ~Store
    <3>1. a = answer \/ a = entry \/ a.how # "value"
      BY <1>5, <2>2 DEF UsageNext, Collect, Logs, Tick, WriteTurn, DeleteLog, LookUpCache, VisitFile, AllVisited,
         ReadTurn, SkipLine, ReadRaises, ReadFails, CloseFile, BeginCall, usageVars, scanVars, cacheVars, Return,
         Nothing, Raised
    <3> QED
      BY <1>2, <1>3, <3>1
  <2> QED
    BY <2>1, <2>2
<1> QED
  BY <1>5 DEF Between

LEMMA UsageInductive == UsageSpec => []UInv
<1>1. UsageInit => UInv
  <2> SUFFICES ASSUME UsageInit PROVE UInv
    OBVIOUS
  <2>1. UsageTypeOK
    <3>1. Zero \in Sum /\ NoFloor \in [Sessions -> Nat] /\ Nothing \in Answer
      BY DEF Zero, Sum, NoFloor, Nothing, Answer
    <3>2. /\ 0 \in 0..MaxTurns /\ 0 \in 0..(MaxTurns + 1) /\ 0 \in 0..TTL /\ 0 \in 0..MaxCalls
      BY UsageAssumption
    <3> QED
      BY <3>1, <3>2 DEF UsageInit, UsageTypeOK
  <2>2. Early /\ Between(answer) /\ Between(entry) /\ Idle /\ Accounted /\ Reading
    BY DEF UsageInit, Early, Between, Nothing, Idle, Accounted, Reading
  <2>3. Floors
    <3>1. \A s \in Sessions : floor[s] <= Worth(s, mode, turns[s])
      BY DEF UsageInit, Worth, NoFloor
    <3> QED
      BY <3>1 DEF UsageInit, Floors
  <2> QED
    BY <2>1, <2>2, <2>3 DEF UInv
<1>2. UInv /\ [UsageNext]_usageVars => UInv'
  BY UsageTypeStep, EarlyStep, BetweenStep, IdleStep, FloorsStep, AccountedStep, ReadingStep DEF UInv
<1>3. QED
  BY <1>1, <1>2, PTL DEF UsageSpec

\* Whatever the CLIs write and delete meanwhile, wherever a line ends and a file
\* fails, a figure lies between what the logs said when its scan began and what
\* they say now, for both ways to count, from the cache too
\* (usage_adapters.py 77-139, 147-220).
THEOREM UsageBetween == UsageSpec => []UsageIsBetween
<1>1. Between(answer) => UsageIsBetween
  BY DEF Between, Within, Worths, UsageIsBetween
<1> QED
  BY <1>1, UsageInductive, PTL DEF UInv

-----------------------------------------------------------------------------
(* The answers: what becomes of the output of a CLI *)

\* A set of positions has a greatest one.
LEMMA GreatestPosition ==
    ASSUME NEW n \in Nat, NEW S \in SUBSET (1..n), S # {}
    PROVE  Max(S) \in S
<1> DEFINE T == {k \in Nat : \A i \in S : i <= k}
           R == OpToRel(<, Nat)
<1>1. n \in T
  OBVIOUS
<1>2. IsWellFoundedOn(R, Nat)
  BY NatLessThanWellFounded
<1>3. T \subseteq Nat /\ T # {}
  BY <1>1
<1>4. PICK k \in T : \A j \in T : ~(<<j, k>> \in R)
  <2> HIDE DEF T, R
  <2> QED
    BY <1>2, <1>3, WFMin
<1>5. \A j \in T : ~(j < k)
  BY <1>4 DEF OpToRel
<1>6. k \in S
  <2>1. ASSUME k \notin S PROVE FALSE
    <3>0. \A i \in S : i \in Nat /\ i > 0 /\ i <= k /\ i # k
      BY <2>1
    <3>1. k \in Nat /\ \A i \in S : i <= k - 1
      BY <3>0
    <3>2. k - 1 \in Nat
      <4>1. PICK i \in S : TRUE
        OBVIOUS
      <4> QED
        BY <3>0, <3>1, <4>1
    <3>3. k - 1 \in T /\ k - 1 < k
      BY <3>1, <3>2
    <3> QED
      BY <1>5, <3>3
  <2> QED
    BY <2>1
<1>7. \E x \in S : \A y \in S : x >= y
  BY <1>6
<1> QED
  BY <1>7 DEF Max

\* Whatever an output is like, its summary is a text.
LEMMA SummaryIsText ==
    ASSUME NEW o, IsOutput(o) PROVE SummaryOf(o) \in Texts
<1>1. CASE Messages(o) = {}
  BY <1>1 DEF SummaryOf, IsOutput
<1>2. CASE Messages(o) # {}
  <2>1. o.lines \in Seq(Lines) /\ Messages(o) \in SUBSET (1..Len(o.lines)) /\ Len(o.lines) \in Nat
    BY DEF IsOutput, Messages
  <2>2. Max(Messages(o)) \in 1..Len(o.lines)
    BY <1>2, <2>1, GreatestPosition
  <2>3. o.lines[Max(Messages(o))] \in Lines
    BY <2>1, <2>2
  <2> QED
    BY <1>2, <2>3 DEF SummaryOf, LastMessage, Lines
<1> QED
  BY <1>1, <1>2

LEMMA RestIsSize ==
    ASSUME NEW o, NEW a PROVE RestOf(o, a) \in Nat
BY AnswersAssumption DEF RestOf

LEMMA NoOutputIsOutput == IsOutput(NoOutput)
<1>1. (CHOOSE t \in Texts : TRUE) \in Texts
  BY AnswersAssumption
<1>2. <<>> \in Seq(Lines)
  OBVIOUS
<1> QED
  BY <1>1, <1>2 DEF IsOutput, NoOutput

-----------------------------------------------------------------------------
(* The invariant of the answers *)

\* What is being cut is the summary of the output at hand, and the cut has raised
\* only if it is at fault.
InHand ==
    /\ task \in Asking \cup {"none", "usage"}
    /\ stage \in {"idle", "validate", "usage", "summarise", "cut", "done"}
    /\ outcome \in {"none", "result", "failed", "leftover", "refused", "died"}
    /\ out \in Outputs["analysis"] \cup Outputs["summary"] \cup {NoOutput}
    /\ stage = "summarise" => task = "summary"
    /\ stage = "cut" => text = SummaryOf(out)
    /\ tpc = "raised" => ~text.codable
    /\ stage = "done" => FailsForText

\* Every output is one of those the assumption is about.
LEMMA OutIsOutput ==
    ASSUME out \in Outputs["analysis"] \cup Outputs["summary"] \cup {NoOutput}
    PROVE  IsOutput(out)
BY AnswersAssumption, NoOutputIsOutput DEF Asking

LEMMA InHandInit == Init => InHand
BY DEF Init, InHand, Asking

LEMMA InHandStep ==
    ASSUME InHand, [Next]_vars PROVE InHand'
<1>1. CASE BeginUsage
  BY <1>1 DEF BeginUsage, InHand, cutVars
<1>2. CASE AnalysisPrinted
  BY <1>2 DEF AnalysisPrinted, InHand, Asking, cutVars
<1>3. CASE SummaryPrinted
  BY <1>3 DEF SummaryPrinted, InHand, Asking, cutVars
<1>4. CASE UsageValidated
  BY <1>4 DEF UsageValidated, InHand, cutVars
<1>5. CASE UsageReported
  BY <1>5 DEF UsageReported, InHand, cutVars
<1>6. CASE AnalysisBuilt
  BY <1>6 DEF AnalysisBuilt, InHand, Begin, SummaryOf, LastMessage, Messages, SplitLines, usageVars, logVars
<1>7. CASE SummaryBuilt
  <2>1. task = task' /\ out' = out /\ provider' = provider
    BY <1>7 DEF SummaryBuilt, usageVars, logVars
  <2>2. SummaryOf(out)' = SummaryOf(out)
    BY <2>1 DEF SummaryOf, LastMessage, Messages, SplitLines
  <2>3. CASE NoSummary(out)
    <3>1. NoSummary(out)' /\ task' = "summary"
      BY <1>7, <2>1, <2>3 DEF SummaryBuilt, InHand, NoSummary, Messages, SplitLines
    <3> QED
      BY <1>7, <2>1, <2>3, <3>1 DEF SummaryBuilt, InHand, FailsForText, cutVars
  <2>4. CASE ~NoSummary(out)
    BY <1>7, <2>1, <2>2, <2>4 DEF SummaryBuilt, InHand, Begin
  <2> QED
    BY <2>3, <2>4
<1>8. CASE Answered
  <2>1. out' = out /\ text' = text /\ tpc' = tpc /\ provider' = provider /\ task' = task
    BY <1>8 DEF Answered, cutVars, usageVars, logVars
  <2>2. SummaryOf(out)' = SummaryOf(out)
    BY <2>1 DEF SummaryOf, LastMessage, Messages, SplitLines
  <2> QED
    BY <1>8, <2>1, <2>2 DEF Answered, InHand, FailsForText
<1>9. CASE (Collect \/ Logs) /\ UNCHANGED <<cutVars, answerVars>>
  <2>1. provider' = provider
    BY <1>9 DEF Collect, Logs, Tick, WriteTurn, DeleteLog, LookUpCache, VisitFile, AllVisited, ReadTurn, SkipLine,
       ReadRaises, ReadFails, CloseFile, Store, logVars
  <2>2. out' = out /\ UNCHANGED <<task, stage, outcome, text, tpc>>
    BY <1>9 DEF cutVars, answerVars
  <2>3. SummaryOf(out)' = SummaryOf(out) /\ NoSummary(out)' = NoSummary(out)
    BY <2>1, <2>2 DEF SummaryOf, LastMessage, Messages, SplitLines, NoSummary
  <2> QED
    BY <2>2, <2>3 DEF InHand, FailsForText
<1>10. CASE Truncate /\ UNCHANGED <<usageVars, answerVars>>
  <2>1. text' = text /\ UNCHANGED <<provider, task, stage, out, outcome>> /\ (tpc' = "raised" => ~text.codable)
    BY <1>10 DEF Truncate, Check, Shrink, Decode, Weigh, answerVars, usageVars, logVars
  <2>2. SummaryOf(out)' = SummaryOf(out) /\ NoSummary(out)' = NoSummary(out)
    BY <2>1 DEF SummaryOf, LastMessage, Messages, SplitLines, NoSummary
  <2> QED
    BY <2>1, <2>2 DEF InHand, FailsForText
<1>11. CASE CleanUpFails
  <2>1. UNCHANGED <<task, text, tpc>> /\ UNCHANGED out /\ stage' = "done" /\ outcome' = "leftover"
    BY <1>11 DEF CleanUpFails, cutVars
  <2> QED
    BY <1>11, <2>1 DEF CleanUpFails, InHand, FailsForText
<1>12. CASE UNCHANGED vars
  <2>1. UNCHANGED <<provider, task, stage, out, outcome, text, tpc>>
    BY <1>12 DEF vars, answerVars, cutVars, usageVars, logVars
  <2>2. SummaryOf(out)' = SummaryOf(out) /\ NoSummary(out)' = NoSummary(out)
    BY <2>1 DEF SummaryOf, LastMessage, Messages, SplitLines, NoSummary
  <2> QED
    BY <2>1, <2>2 DEF InHand, FailsForText
<1> QED
  BY <1>1, <1>2, <1>3, <1>4, <1>5, <1>6, <1>7, <1>8, <1>9, <1>10, <1>11, <1>12 DEF Next, Handle, LogsChange

LEMMA InHandAlways == Spec => []InHand
BY InHandInit, InHandStep, PTL DEF Spec

-----------------------------------------------------------------------------
(* Answers is made of UsageLogs and Truncation: it does nothing with their *)
(* variables that they would not do by themselves.                         *)

LEMMA StepOfUsage ==
    ASSUME [Next]_vars PROVE [UsageNext]_usageVars
BY DEF Next, Handle, LogsChange, BeginUsage, AnalysisPrinted, SummaryPrinted, UsageValidated, UsageReported,
   AnalysisBuilt, SummaryBuilt, CleanUpFails, Answered, UsageNext, vars

LEMMA StepOfTruncation ==
    ASSUME InHand, [Next]_vars PROVE [TruncationNext]_cutVars
<1>1. SummaryOf(out) \in Texts
  BY OutIsOutput, SummaryIsText DEF InHand
<1>2. CASE AnalysisBuilt
  BY <1>1, <1>2, RestIsSize DEF AnalysisBuilt, TruncationNext
<1>3. CASE SummaryBuilt
  BY <1>1, <1>3, AnswersAssumption DEF SummaryBuilt, TruncationNext
<1> QED
  BY <1>2, <1>3 DEF Next, Handle, LogsChange, BeginUsage, AnalysisPrinted, SummaryPrinted, UsageValidated,
     UsageReported, CleanUpFails, Answered, TruncationNext, vars

\* The usage is counted, and the summary cut, in Answers as each is by itself:
\* every step of a task is one of theirs or leaves them alone.
THEOREM AnswersCompose == Spec => UsageSpec /\ TruncationSpec
<1>1. Init => UsageInit /\ TruncationInit
  BY NoOutputIsOutput DEF Init, TruncationInit, IsOutput
<1> QED
  BY <1>1, InHandAlways, StepOfUsage, StepOfTruncation, PTL DEF Spec, UsageSpec, TruncationSpec

\* Every variable of Answers keeps its type, those of the count and of the cut
\* among them.
THEOREM AnswersTypeCorrect == Spec => []TypeOK
<1>1. InHand /\ UInv /\ TruncationTypeOK => TypeOK
  BY DEF InHand, UInv, TypeOK
<1> QED
  BY <1>1, AnswersCompose, InHandAlways, UsageInductive, TruncationTypeCorrect, PTL

\* The figures reported are ones the logs had (UsageBetween), whatever asks for them.
THEOREM FiguresAreBetween == Spec => []UsageIsBetween
BY AnswersCompose, UsageBetween, PTL

\* What any task sends is cut to fit.
THEOREM AnswersAreCutToFit == Spec => []CutToFit
BY AnswersCompose, SummaryCutToFit, PTL

\* An analysis or a summary that is over has failed only for its text, or a summary
\* for the directory it leaves over: never for its usage, and never for anything the
\* cut does with a text that can be encoded (code_adapters.py 52-59, agent.py 745-767).
THEOREM OnlyTextFails == Spec => [](stage = "done" => FailsForText)
<1>1. InHand => (stage = "done" => FailsForText)
  BY DEF InHand
<1> QED
  BY <1>1, InHandAlways, PTL
=============================================================================
