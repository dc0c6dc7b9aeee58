------------------------------ MODULE MCAnswers ------------------------------
(* The instance of Answers that TLC checks: texts made of a few characters.  *)
EXTENDS Answers

\* Bytes as UTF-8 and within JSON: of a letter, a line break, a control
\* character, a Korean syllable; and of half of a surrogate pair.
Characters == {<<1, 1>>, <<1, 2>>, <<1, 6>>, <<3, 3>>}

\* The text of m characters c, then n characters d.
TextOf(m, c, n, d, good) ==
    [ size |-> m + n, codable |-> good,
      utf8 |-> [k \in 0..(m + n) |-> IF k <= m THEN k * c[1] ELSE m * c[1] + (k - m) * d[1]],
      json |-> [k \in 0..(m + n) |-> IF k <= m THEN k * c[2] ELSE m * c[2] + (k - m) * d[2]] ]

Halved  == TextOf(2, <<1, 1>>, 1, <<3, 6>>, FALSE)
Mixed   == {TextOf(m, c, n, d, TRUE) : c, d \in Characters, m \in {0, 2, 7}, n \in {0, 5}}
Short   == TextOf(1, <<1, 2>>, 1, <<3, 3>>, TRUE)
MCTexts == Mixed \cup {Halved, Short}

Empty == TextOf(0, <<1, 1>>, 0, <<1, 1>>, TRUE)
Long  == TextOf(7, <<1, 1>>, 5, <<3, 3>>, TRUE)
Line(k, t) == [kind |-> k, text |-> t, split |-> FALSE]
Say(t) == [lines |-> <<Line("message", t)>>, whole |-> Long]
Mute   == [lines |-> <<Line("other", Empty)>>, whole |-> Short]
Talk   == [lines |-> <<Line("message", Long), Line("turn", Empty), Line("message", Halved),
                       Line("turn", Empty), Line("message", Short)>>, whole |-> Halved]

Torn   == [lines |-> <<[Line("message", Long) EXCEPT !.split = TRUE]>>, whole |-> Short]
Half   == [lines |-> <<Line("message", Short)>> \o Torn.lines, whole |-> Halved]

MCOutputs == [a \in Asking |-> IF a = "summary" THEN {Say(t) : t \in MCTexts} \cup {Mute, Talk, Torn, Half}
                               ELSE {Say(Halved), Mute, Talk, Torn}]
=============================================================================
