------------------------------ MODULE Truncation ------------------------------
(***************************************************************************)
(* A result whose JSON is longer than the server stores has its summary    *)
(* cut: _truncate_utf8 and _truncate_summary_field of agent.py.            *)
(*                                                                         *)
(* Of a text only lengths matter: utf8[k] and json[k] are the bytes of its *)
(* first k characters, as UTF-8 and within a JSON string, where quotes,    *)
(* newlines and control characters take more.  A text with half of a       *)
(* surrogate pair, which JSON can express, has no UTF-8 form at all.       *)
(***************************************************************************)
EXTENDS Integers

CONSTANTS
    Texts,      \* the summaries to be considered
    Limit,      \* RESULT_JSON_BYTE_LIMIT
    Marker,     \* bytes of RESULT_TRUNCATION_MARKER within JSON
    Flag        \* bytes of the field "truncated"

IsText(t) ==
    /\ t.size \in Nat /\ t.codable \in BOOLEAN
    /\ t.utf8 \in [0..t.size -> Nat] /\ t.utf8[0] = 0
    /\ t.json \in [0..t.size -> Nat] /\ t.json[0] = 0
    /\ \A k, m \in 0..t.size : k < m => t.utf8[k] < t.utf8[m] /\ t.json[k] < t.json[m]

ASSUME TruncationAssumption ==
    /\ \A t \in Texts : IsText(t)
    /\ Limit \in Nat /\ Marker \in Nat /\ Flag \in Nat

VARIABLES
    text,       \* result["summary"]
    rest,       \* bytes of the result's JSON without its summary
    tpc,        \* where the function is
    budget,     \* the local variable of _truncate_summary_field
    cut,        \* length of truncated, the local variable of _truncate_utf8
    kept        \* characters of the summary in the candidate

cutVars == <<text, rest, tpc, budget, cut, kept>>

Ended == {"off", "whole", "marked", "raised"}

TruncationTypeOK ==
    /\ text \in Texts /\ rest \in Nat
    /\ tpc \in Ended \cup {"check", "shrink", "decode", "weigh"}
    /\ budget \in 0..text.utf8[text.size] /\ cut \in 0..text.utf8[text.size]
    /\ kept \in 0..text.size

TruncationInit ==
    /\ text \in Texts /\ rest = 0 /\ tpc = "off"
    /\ budget = 0 /\ cut = 0 /\ kept = text.size

\* A result on its way to the server.
Begin(t, r) ==
    /\ tpc \in Ended /\ tpc' = "check"
    /\ text' = t /\ rest' = r /\ budget' = 0 /\ cut' = 0 /\ kept' = t.size

\* encoded_size of the result, and of a candidate with k characters of the summary
WholeSize == rest + text.json[text.size]
MarkedSize(k) == rest + Flag + text.json[k] + Marker

\* A result that fits is left alone.  encode() raises for half a surrogate pair.
Check ==
    /\ tpc = "check"
    /\ tpc' = IF ~text.codable THEN "raised"
              ELSE IF WholeSize <= Limit THEN "whole" ELSE "shrink"
    /\ budget' = text.utf8[text.size]
    /\ UNCHANGED <<text, rest, cut, kept>>

\* int(budget * 0.9)
NineTenths(b) == (9 * b) \div 10

\* The next budget; _truncate_utf8 takes that many bytes.
Shrink ==
    /\ tpc = "shrink"
    /\ budget' = NineTenths(budget)
    /\ cut' = budget' /\ tpc' = "decode"
    /\ UNCHANGED <<text, rest, kept>>

\* Faulty variant: the bytes run out where the first character needs more of them.
DecodeSomething ==
    /\ tpc = "decode"
    /\ IF \E k \in 1..text.size : text.utf8[k] = cut
       THEN /\ kept' \in {k \in 0..text.size : text.utf8[k] = cut}
            /\ tpc' = "weigh" /\ UNCHANGED cut
       ELSE cut' = cut - 1 /\ UNCHANGED <<tpc, kept>>
    /\ UNCHANGED <<text, rest, budget>>

\* The bytes are decoded if they end with a character, or one less is tried.
Decode ==
    /\ tpc = "decode"
    /\ IF \E k \in 0..text.size : text.utf8[k] = cut
       THEN /\ kept' \in {k \in 0..text.size : text.utf8[k] = cut}
            /\ tpc' = "weigh" /\ UNCHANGED cut
       ELSE cut' = cut - 1 /\ UNCHANGED <<tpc, kept>>
    /\ UNCHANGED <<text, rest, budget>>

\* Faulty variant: the candidate is weighed without its mark.
WeighUnmarked ==
    /\ tpc = "weigh"
    /\ tpc' = IF budget <= 0 \/ rest + text.json[kept] <= Limit THEN "marked" ELSE "shrink"
    /\ UNCHANGED <<text, rest, budget, cut, kept>>

Weigh ==
    /\ tpc = "weigh"
    /\ tpc' = IF budget <= 0 \/ MarkedSize(kept) <= Limit THEN "marked" ELSE "shrink"
    /\ UNCHANGED <<text, rest, budget, cut, kept>>

Truncate == Check \/ Shrink \/ Decode \/ Weigh

TruncationNext == Truncate \/ \E t \in Texts, r \in Nat : Begin(t, r)
TruncationSpec == TruncationInit /\ [][TruncationNext]_cutVars

-----------------------------------------------------------------------------
(* Properties *)

\* What is sent can be stored, unless the rest of the result is too long for it
\* (RESULT_JSON_BYTE_LIMIT, agent.py 67-74).
Fits ==
    /\ tpc = "whole" => WholeSize <= Limit
    /\ (tpc = "marked" /\ rest + Flag + Marker <= Limit) => MarkedSize(kept) <= Limit

\* No more is cut off than a tenth of what could have been kept: every longer
\* summary of nine tenths of its bytes beyond the budget is too long with its mark.
NotTooShort ==
    tpc = "marked" =>
        \A k \in 0..text.size :
            9 * text.utf8[k] >= 10 * (budget + 1) => MarkedSize(k) > Limit

\* What is kept is all that the last budget has room for, in whole characters.
WholeCharacters ==
    tpc = "marked" =>
        /\ text.utf8[kept] <= budget
        /\ \A k \in 0..text.size : k > kept => text.utf8[k] > budget

CutToFit == Fits /\ NotTooShort /\ WholeCharacters
=============================================================================
