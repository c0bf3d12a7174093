---------------------------- MODULE MCExtractors ----------------------------
(* Instances of Extractors for TLC.                                        *)
EXTENDS Extractors

\* "K" is the Kelvin sign, whose lower case is shorter, "S" a letter whose lower
\* case "s" is longer, "w" a wide letter; "D" stands for digits, "M" for a month
\* and a year.
WidthMC == [r \in {"A", "a", "p", ".", "w", "K", "k", "S", "s", "-", "D", "M", "$", "?"} |->
              CASE r \in {"K", "s", "?"} -> 3 [] r \in {"w", "S"} -> 2 [] OTHER -> 1]

LowerMC == [r \in DOMAIN WidthMC |->
              CASE r = "A" -> "a" [] r = "K" -> "k" [] r = "S" -> "s" [] OTHER -> r]

UpTo(n, runes) == UNION {[1..m -> runes] : m \in 0..n}

LettersMC == DOMAIN WidthMC \ {".", "-", "$", "?"}

\* All short texts, and longer ones around names and around dates.
TextsMC == {Bytes(x) : x \in
             UpTo(2, DOMAIN WidthMC \ {"?", "a", "k", "s"})
             \cup [1..4 -> {"A", "p", ".", "w"}]
             \cup [1..3 -> {"w", ".", "D", "M"}]
             \cup {x \o <<"D", "-", "D", ".", "M">> : x \in UpTo(2, {"w", ".", "D", "$"})}
             \cup {<<"D", "-", "M">>}
             \cup {<<x, ".", "A", "p">> : x \in {"K", "S", "w"}}}

\* "D.M" is a day, month and year, "D-D" an ISO date, "D-M" an impossible one.
UnrealMC   == {Bytes(<<"D", "-", "M">>)}
PatternsMC == [identifier |-> <<{Bytes(<<"D", "D">>)}, {Bytes(<<"D">>)}>>,
               money      |-> <<{Bytes(<<"$", "D">>)}>>,
               date       |-> <<{Bytes(<<"D", ".", "M">>)}, {Bytes(<<"D", "-", "D">>)} \cup UnrealMC>>]

\* A name and an alias of it.
GazetteerMC == <<[entry |-> 1, phrase |-> Bytes(<<"A", "p", ".">>)],
                 [entry |-> 1, phrase |-> Bytes(<<"A", "p">>)]>>

\* Up to two proposals, the same one twice, and none that exists.
AnswersMC == UpTo(2, {[about |-> 1, excerpt |-> Bytes(<<"p">>), from |-> 1, to |-> 2],
                      [about |-> 1, excerpt |-> <<>>, from |-> 4, to |-> 3]})
=============================================================================
