--------------------------- MODULE TruncationProofs ---------------------------
(* The cut of a summary, for every set of texts, every limit and every rest. *)
EXTENDS Truncation, TLAPS

-----------------------------------------------------------------------------
(* Nine tenths of a budget *)

\* A budget shrinks, unless there is none left; what a budget in between would
\* allow, more than nine tenths of the old one allow too.
LEMMA NineTenthsShrinks ==
    ASSUME NEW b \in Nat
    PROVE  /\ NineTenths(b) \in 0..b
           /\ b > 0 => NineTenths(b) < b
           /\ 9 * b < 10 * (NineTenths(b) + 1)
BY DEF NineTenths

-----------------------------------------------------------------------------
(* The inductive invariant *)

\* A candidate longer than the last one weighed was too long.
TooLong(k) == MarkedSize(k) > Limit

Rejected ==
    /\ tpc = "shrink" =>
         \A k \in 0..text.size : text.utf8[k] > budget => TooLong(k)
    /\ tpc \in {"decode", "weigh", "marked"} =>
         \A k \in 0..text.size : 9 * text.utf8[k] >= 10 * (budget + 1) => TooLong(k)

\* No character ends between the bytes left and the budget.
NoneBetween ==
    tpc = "decode" =>
        cut <= budget /\ \A k \in 0..text.size : text.utf8[k] <= budget => text.utf8[k] <= cut

\* kept is the longest prefix within the budget.
Longest ==
    tpc \in {"weigh", "marked"} =>
        /\ text.utf8[kept] <= budget
        /\ \A k \in 0..text.size : text.utf8[k] <= budget => k <= kept

\* A result is marked when it fits, or when nothing of the summary is left.
Marked == tpc = "marked" => budget = 0 \/ MarkedSize(kept) <= Limit
Whole  == tpc = "whole" => WholeSize <= Limit

IInv == TruncationTypeOK /\ Rejected /\ NoneBetween /\ Longest /\ Marked /\ Whole

\* What IsText says of the text at hand.
LEMMA TextFacts ==
    ASSUME TruncationTypeOK
    PROVE  /\ text.size \in Nat
           /\ text.utf8[0] = 0 /\ text.json[0] = 0
           /\ \A k \in 0..text.size : text.utf8[k] \in Nat /\ text.json[k] \in Nat
           /\ \A k, m \in 0..text.size :
                k < m => text.utf8[k] < text.utf8[m] /\ text.json[k] < text.json[m]
BY TruncationAssumption DEF TruncationTypeOK, IsText

LEMMA TypeStep ==
    ASSUME TruncationTypeOK, [TruncationNext]_cutVars
    PROVE  TruncationTypeOK'
<1> USE DEF TruncationTypeOK, Ended
<1>1. CASE Check
  BY <1>1, TextFacts DEF Check
<1>2. CASE Shrink
  <2>1. budget \in Nat /\ budget <= text.utf8[text.size] /\ text.utf8[text.size] \in Nat
    BY TextFacts
  <2>2. budget' \in 0..budget
    BY <1>2, <2>1, NineTenthsShrinks DEF Shrink
  <2>3. budget' \in 0..text.utf8[text.size]
    BY <2>1, <2>2
  <2>4. QED
    BY <1>2, <2>3 DEF Shrink
<1>3. CASE Decode
  BY <1>3, TextFacts DEF Decode
<1>4. CASE Weigh
  BY <1>4 DEF Weigh
<1>5. CASE \E t \in Texts, r \in Nat : Begin(t, r)
  BY <1>5, TruncationAssumption DEF Begin, IsText
<1>6. CASE UNCHANGED cutVars
  BY <1>6 DEF cutVars
<1>7. QED
  BY <1>1, <1>2, <1>3, <1>4, <1>5, <1>6 DEF TruncationNext, Truncate

\* A candidate is weighed and found too long, so are all that are longer; the
\* next budget passes over nothing but those.
LEMMA RejectedStep ==
    ASSUME IInv, [TruncationNext]_cutVars
    PROVE  Rejected'
<1>0. TruncationTypeOK
  BY DEF IInv
<1> USE DEF Rejected, TooLong, MarkedSize
<1>1. CASE Check
  <2>1. \A k \in 0..text.size : text.utf8[k] <= text.utf8[text.size]
    BY <1>0, TextFacts
  <2>2. QED
    BY <1>0, <1>1, <2>1, TextFacts DEF Check
<1>2. CASE Shrink
  <2>1. \A k \in 0..text.size : text.utf8[k] > budget => TooLong(k)
    BY <1>2 DEF Shrink, IInv
  <2>2. budget \in Nat /\ 9 * budget < 10 * (budget' + 1) /\ budget' \in Nat
    BY <1>0, <1>2, TextFacts, NineTenthsShrinks DEF Shrink, TruncationTypeOK
  <2>3. ASSUME NEW k \in 0..text.size, 9 * text.utf8[k] >= 10 * (budget' + 1)
        PROVE  TooLong(k)
    <3>1. text.utf8[k] \in Nat
      BY <1>0, TextFacts
    <3>2. text.utf8[k] > budget
      BY <2>2, <2>3, <3>1
    <3>3. QED
      BY <2>1, <3>2
  <2>4. tpc' = "decode" /\ text' = text /\ rest' = rest
    BY <1>2 DEF Shrink
  <2>5. QED
    BY <2>3, <2>4
<1>3. CASE Decode
  <2>1. tpc = "decode" /\ tpc' \in {"decode", "weigh"} /\ UNCHANGED <<text, rest, budget>>
    BY <1>3 DEF Decode
  <2>2. QED
    BY <2>1 DEF IInv
<1>4. CASE Weigh
  <2>1. tpc = "weigh" /\ UNCHANGED <<text, rest, budget, kept>>
    BY <1>4 DEF Weigh
  <2>2. CASE tpc' = "marked"
    BY <2>1, <2>2 DEF IInv
  <2>3. CASE tpc' = "shrink"
    <3>1. ASSUME NEW k \in 0..text.size, text.utf8[k] > budget
          PROVE  TooLong(k)
      <4>1. kept \in 0..text.size /\ text.utf8[kept] <= budget /\ budget \in Nat
        BY <1>0, <2>1, TextFacts DEF IInv, Longest, TruncationTypeOK
      <4>2. kept < k
        <5>1. kept # k /\ ~(k < kept)
          BY <1>0, <3>1, <4>1, TextFacts
        <5>2. QED
          BY <1>0, <4>1, <5>1, TextFacts
      <4>3. text.json[kept] < text.json[k] /\ text.json[kept] \in Nat /\ text.json[k] \in Nat
        BY <1>0, <4>1, <4>2, TextFacts
      <4>4. MarkedSize(kept) > Limit
        <5>1. ~(MarkedSize(kept) <= Limit)
          BY <1>4, <2>3 DEF Weigh
        <5>2. QED
          BY <1>0, <4>3, <5>1, TruncationAssumption DEF TruncationTypeOK
      <4>5. QED
        BY <1>0, <4>3, <4>4, TruncationAssumption DEF TruncationTypeOK
    <3>2. QED
      BY <2>1, <2>3, <3>1
  <2>4. QED
    BY <1>4, <2>2, <2>3 DEF Weigh
<1>5. CASE \E t \in Texts, r \in Nat : Begin(t, r)
  BY <1>5 DEF Begin
<1>6. CASE UNCHANGED cutVars
  BY <1>6 DEF cutVars, IInv
<1>7. QED
  BY <1>1, <1>2, <1>3, <1>4, <1>5, <1>6 DEF TruncationNext, Truncate

LEMMA NoneBetweenStep ==
    ASSUME IInv, [TruncationNext]_cutVars
    PROVE  NoneBetween'
<1>0. TruncationTypeOK
  BY DEF IInv
<1> USE DEF NoneBetween
<1>2. CASE Shrink
  BY <1>0, <1>2, TextFacts, NineTenthsShrinks DEF Shrink, TruncationTypeOK
<1>3. CASE Decode
  <2>1. tpc = "decode" /\ UNCHANGED <<text, rest, budget>>
    BY <1>3 DEF Decode
  <2>2. CASE \E k \in 0..text.size : text.utf8[k] = cut
    BY <1>3, <2>2 DEF Decode
  <2>3. CASE ~\E k \in 0..text.size : text.utf8[k] = cut
    <3>1. cut' = cut - 1
      BY <1>3, <2>3 DEF Decode
    <3>2. budget \in Nat /\ cut \in Nat
      BY <1>0, TextFacts DEF TruncationTypeOK
    <3>3. ASSUME NEW k \in 0..text.size, text.utf8[k] <= budget
          PROVE  text.utf8[k] <= cut'
      <4>1. text.utf8[k] <= cut /\ text.utf8[k] # cut /\ text.utf8[k] \in Nat
        BY <1>0, <2>1, <2>3, <3>3, TextFacts DEF IInv
      <4>2. QED
        BY <3>1, <3>2, <4>1
    <3>4. cut' <= budget
      BY <2>1, <3>1, <3>2 DEF IInv
    <3>5. QED
      BY <2>1, <3>3, <3>4
  <2>4. QED
    BY <2>2, <2>3
<1>4. CASE Weigh
  BY <1>4 DEF Weigh
<1>5. CASE Check \/ \E t \in Texts, r \in Nat : Begin(t, r)
  BY <1>5 DEF Check, Begin
<1>6. CASE UNCHANGED cutVars
  BY <1>6 DEF cutVars, IInv
<1>7. QED
  BY <1>2, <1>3, <1>4, <1>5, <1>6 DEF TruncationNext, Truncate

LEMMA LongestStep ==
    ASSUME IInv, [TruncationNext]_cutVars
    PROVE  Longest'
<1>0. TruncationTypeOK
  BY DEF IInv
<1> USE DEF Longest
<1>3. CASE Decode
  <2>1. CASE \E k \in 0..text.size : text.utf8[k] = cut
    <3>1. /\ tpc = "decode" /\ UNCHANGED <<text, budget>>
          /\ kept' \in 0..text.size /\ text.utf8[kept'] = cut
      BY <1>3, <2>1 DEF Decode
    <3>2. text.utf8[kept'] <= budget
      BY <3>1 DEF IInv, NoneBetween
    <3>3. ASSUME NEW k \in 0..text.size, text.utf8[k] <= budget
          PROVE  k <= kept'
      <4>1. text.utf8[k] <= text.utf8[kept']
        BY <3>1, <3>3 DEF IInv, NoneBetween
      <4>2. ~(kept' < k)
        BY <1>0, <3>1, <4>1, TextFacts
      <4>3. QED
        BY <1>0, <3>1, <4>2, TextFacts
    <3>4. QED
      BY <3>1, <3>2, <3>3
  <2>2. CASE ~\E k \in 0..text.size : text.utf8[k] = cut
    BY <1>3, <2>2 DEF Decode
  <2>3. QED
    BY <2>1, <2>2
<1>4. CASE Weigh
  BY <1>4 DEF Weigh, IInv
<1>5. CASE Check \/ Shrink \/ \E t \in Texts, r \in Nat : Begin(t, r)
  BY <1>5 DEF Check, Shrink, Begin
<1>6. CASE UNCHANGED cutVars
  BY <1>6 DEF cutVars, IInv
<1>7. QED
  BY <1>3, <1>4, <1>5, <1>6 DEF TruncationNext, Truncate

LEMMA VerdictStep ==
    ASSUME IInv, [TruncationNext]_cutVars
    PROVE  Marked' /\ Whole'
<1> USE DEF Marked, Whole, WholeSize, MarkedSize
<1>1. CASE Check
  BY <1>1 DEF Check, IInv
<1>2. CASE Shrink \/ Decode \/ \E t \in Texts, r \in Nat : Begin(t, r)
  BY <1>2 DEF Shrink, Decode, Begin
<1>4. CASE Weigh
  <2>1. budget \in Nat
    BY TextFacts DEF IInv, TruncationTypeOK
  <2>2. QED
    BY <1>4, <2>1 DEF Weigh
<1>6. CASE UNCHANGED cutVars
  BY <1>6 DEF cutVars, IInv
<1>7. QED
  BY <1>1, <1>2, <1>4, <1>6 DEF TruncationNext, Truncate

LEMMA Inductive == TruncationSpec => []IInv
<1>1. TruncationInit => IInv
  BY TruncationAssumption DEF TruncationInit, IInv, TruncationTypeOK, Ended, IsText, Rejected,
     NoneBetween, Longest, Marked, Whole
<1>2. IInv /\ [TruncationNext]_cutVars => IInv'
  BY TypeStep, RejectedStep, NoneBetweenStep, LongestStep, VerdictStep DEF IInv
<1>3. QED
  BY <1>1, <1>2, PTL DEF TruncationSpec

-----------------------------------------------------------------------------

\* Every local variable of the two functions keeps its type: the budget and the
\* bytes taken never leave the summary (agent.py 82-118).
THEOREM TruncationTypeCorrect == TruncationSpec => []TruncationTypeOK
BY Inductive, PTL DEF IInv

\* What is sent fits the server's column, ends with a whole character, and is not
\* shorter by more than a tenth than it had to be, whatever the characters take as
\* UTF-8 and within JSON (agent.py 67-74, 100-118).
THEOREM SummaryCutToFit == TruncationSpec => []CutToFit
<1>1. ASSUME IInv PROVE Fits
  <2>1. CASE tpc = "marked" /\ budget = 0
    <3>1. kept = 0
      <4>1. kept \in 0..text.size /\ text.utf8[kept] <= 0
        BY <1>1, <2>1 DEF IInv, Longest, TruncationTypeOK
      <4>2. ~(0 < kept)
        BY <1>1, <4>1, TextFacts DEF IInv
      <4>3. QED
        BY <1>1, <4>1, <4>2, TextFacts DEF IInv
    <3>2. text.json[kept] = 0
      BY <1>1, <3>1, TextFacts DEF IInv
    <3>3. QED
      BY <1>1, <2>1, <3>2, TruncationAssumption DEF IInv, Fits, MarkedSize, TruncationTypeOK
  <2>2. CASE ~(tpc = "marked" /\ budget = 0)
    BY <1>1, <2>2 DEF IInv, Fits, Marked, Whole
  <2>3. QED
    BY <2>1, <2>2
<1>2. ASSUME IInv PROVE NotTooShort
  BY <1>2 DEF IInv, Rejected, TooLong, NotTooShort
<1>3. ASSUME IInv PROVE WholeCharacters
  <2>1. \A k \in 0..text.size : text.utf8[k] \in Nat
    BY <1>3, TextFacts DEF IInv
  <2>2. budget \in Nat /\ kept \in 0..text.size /\ text.size \in Nat
    BY <1>3, TextFacts DEF IInv, TruncationTypeOK
  <2>3. QED
    BY <1>3, <2>1, <2>2 DEF IInv, Longest, WholeCharacters
<1>4. QED
  BY <1>1, <1>2, <1>3, Inductive, PTL DEF CutToFit

-----------------------------------------------------------------------------
(* The loops end *)

Bytes == text.utf8[text.size]

\* A bound for the steps that are left: at most Bytes + 4 for each smaller budget.
Left ==
    CASE tpc = "check"  -> (Bytes + 1) * (Bytes + 4)
      [] tpc = "shrink" -> IF budget = 0 THEN 3 ELSE budget * (Bytes + 4)
      [] tpc = "decode" -> budget * (Bytes + 4) + cut + 2
      [] tpc = "weigh"  -> budget * (Bytes + 4) + 1
      [] OTHER          -> 0

\* A smaller budget leaves room for the rounds that look for the end of a character.
LEMMA SmallerBudget ==
    ASSUME NEW B \in Nat, NEW b \in 0..B, NEW c \in Nat, c < b
    PROVE  c * (B + 4) + c + 2 < b * (B + 4)
<1>1. c * (B + 4) + (B + 4) = (c + 1) * (B + 4)
  OBVIOUS
<1>2. PICK d \in Nat : b = (c + 1) + d
  <2>1. b - (c + 1) \in Nat /\ b = (c + 1) + (b - (c + 1))
    OBVIOUS
  <2>2. QED
    BY <2>1
<1>3. b * (B + 4) = (c + 1) * (B + 4) + d * (B + 4)
  BY <1>2
<1>4. d * (B + 4) \in Nat /\ c * (B + 4) \in Nat /\ b * (B + 4) \in Nat
  BY <1>2
<1>5. c + 2 < B + 4
  OBVIOUS
<1> DEFINE x == c * (B + 4)  y == b * (B + 4)  z == d * (B + 4)  w == (c + 1) * (B + 4)
<1>6. x \in Nat /\ y \in Nat /\ z \in Nat /\ x + (B + 4) = w /\ y = w + z
  BY <1>1, <1>3, <1>4
<1> HIDE DEF x, y, z, w
<1>7. x + c + 2 < y
  BY <1>5, <1>6
<1>8. QED
  BY <1>7 DEF x, y

\* Whatever the texts and the limit, the loop of the cut and the loop that drops
\* bytes until the rest decodes both end: each step leaves fewer to go
\* (agent.py 82-97, 112-119).
THEOREM CutEnds == TruncationSpec => [](Left \in Nat) /\ [][Truncate => Left' < Left]_cutVars
<1>1. ASSUME IInv PROVE Bytes \in Nat /\ budget \in 0..Bytes /\ cut \in Nat
  BY <1>1, TextFacts DEF IInv, TruncationTypeOK, Bytes
<1>2. ASSUME IInv PROVE Left \in Nat
  <2>1. Bytes \in Nat /\ budget \in Nat /\ cut \in Nat
    BY <1>1, <1>2
  <2>2. (Bytes + 1) * (Bytes + 4) \in Nat /\ budget * (Bytes + 4) \in Nat
    BY <2>1
  <2> HIDE DEF Bytes
  <2>3. QED
    BY <2>1, <2>2 DEF Left
<1>3. ASSUME IInv, IInv', Truncate PROVE Left' < Left
  <2>1. Bytes \in Nat /\ budget \in 0..Bytes /\ budget' \in Nat /\ cut \in Nat /\ cut' \in Nat
    BY <1>1, <1>3, TextFacts DEF IInv, TruncationTypeOK
  <2>2. Bytes' = Bytes
    BY <1>3 DEF Truncate, Check, Shrink, Decode, Weigh, Bytes
  <2> DEFINE room == budget * (Bytes + 4)
  <2>3. room \in Nat
    BY <2>1
  <2>4. CASE Check
    <3>1. tpc = "check" /\ tpc' \in {"raised", "whole", "shrink"} /\ budget' = Bytes
      BY <2>4 DEF Check, Bytes
    <3>2. Left = (Bytes + 1) * (Bytes + 4)
      BY <3>1 DEF Left
    <3>3. Left' = 0 \/ (Left' = 3 /\ Bytes = 0) \/ Left' = Bytes * (Bytes + 4)
      BY <2>2, <3>1 DEF Left
    <3>4. (Bytes + 1) * (Bytes + 4) = Bytes * (Bytes + 4) + Bytes + 4 /\ Bytes * (Bytes + 4) \in Nat
      BY <2>1
    <3> HIDE DEF Bytes
    <3>5. QED
      BY <2>1, <3>2, <3>3, <3>4
  <2>5. CASE Shrink
    <3>1. tpc = "shrink" /\ tpc' = "decode" /\ budget' = NineTenths(budget) /\ cut' = budget'
      BY <2>5 DEF Shrink
    <3>2. Left' = budget' * (Bytes + 4) + budget' + 2
      BY <2>2, <3>1 DEF Left
    <3>3. CASE budget = 0
      <4>1. budget' = 0 /\ Left = 3
        BY <3>1, <3>3, NineTenthsShrinks DEF Left
      <4>2. QED
        BY <2>1, <3>2, <4>1
    <3>4. CASE budget # 0
      <4>1. budget' < budget
        BY <2>1, <3>1, <3>4, NineTenthsShrinks
      <4>2. budget' * (Bytes + 4) + budget' + 2 < budget * (Bytes + 4)
        BY <2>1, <4>1, SmallerBudget
      <4>3. Left = budget * (Bytes + 4)
        BY <3>1, <3>4 DEF Left
      <4>4. QED
        BY <3>2, <4>2, <4>3
    <3>5. QED
      BY <3>3, <3>4
  <2>6. CASE Decode
    <3>1. tpc = "decode" /\ budget' = budget
          /\ (tpc' = "weigh" \/ (tpc' = "decode" /\ cut' = cut - 1))
      BY <2>6 DEF Decode
    <3>2. Left = room + cut + 2 /\ (Left' = room + 1 \/ (Left' = room + cut' + 2 /\ cut' = cut - 1))
      BY <2>2, <3>1 DEF Left
    <3> HIDE DEF room
    <3>3. QED
      BY <2>1, <2>3, <3>2
  <2>7. CASE Weigh
    <3>1. tpc = "weigh" /\ budget' = budget
          /\ (tpc' = "marked" \/ (tpc' = "shrink" /\ budget # 0))
      BY <2>1, <2>7 DEF Weigh
    <3>2. Left = room + 1 /\ Left' \in {0, room}
      BY <2>2, <3>1 DEF Left
    <3> HIDE DEF room
    <3>3. QED
      BY <2>3, <3>2
  <2>8. QED
    BY <1>3, <2>4, <2>5, <2>6, <2>7 DEF Truncate
<1>4. QED
  BY <1>2, <1>3, Inductive, PTL
=============================================================================
