------------------------------- MODULE Masking -------------------------------
(***************************************************************************)
(* What redaction should do, stated without an order of replacement: the   *)
(* occurrences of the values a script was given, the longest one wherever  *)
(* one is inside another, stand masked by the markers of their names, and  *)
(* the rest of the text stands as it was.                                  *)
(***************************************************************************)
EXTENDS Secrets

\* The occurrence s, from s[1] to s[2], is one of the value of n.
IsOf(n, s, text, values) ==
    MatchAt(text, s[1], values[n]) /\ s[2] = s[1] + Len(values[n]) - 1

Spans(text, values) ==
    {s \in (1..Len(text)) \X (1..Len(text)) : \E n \in DOMAIN values : IsOf(n, s, text, values)}

Outermost(text, values) ==
    {s \in Spans(text, values) :
        ~\E t \in Spans(text, values) : t # s /\ t[1] <= s[1] /\ s[2] <= t[2]}

\* No two outermost occurrences share a character.
Separate(text, values) ==
    \A s, t \in Outermost(text, values) : s = t \/ s[2] < t[1] \/ t[2] < s[1]

\* Of the names that have this value, the one that goes first.
MarkOf(s, text, values) ==
    CHOOSE n \in DOMAIN values :
        /\ IsOf(n, s, text, values)
        /\ \A m \in DOMAIN values : IsOf(m, s, text, values) => Rank(n) <= Rank(m)

Masked(text, values) ==
    LET at(i) == CHOOSE s \in Outermost(text, values) : s[1] = i
        from[i \in 1..Len(text) + 1] ==
          IF i > Len(text) THEN <<>>
          ELSE IF \E s \in Outermost(text, values) : s[1] = i
               THEN Marker(MarkOf(at(i), text, values)) \o from[at(i)[2] + 1]
               ELSE <<text[i]>> \o from[i + 1]
    IN  from[1]

\* The value to hide of each name that has one.
HiddenBy == [n \in {m \in Names : \E v \in given[m] : Len(v) >= MinLength} |->
                CHOOSE v \in given[n] : Len(v) >= MinLength]

\* In a text whose outermost occurrences of given values do not run into each
\* other, and when no value can be part of a marker or of its borders, each of
\* them, a value inside a longer one included, is replaced as a whole by the
\* marker of its name, and nothing else is touched: no rest of a longer secret is
\* left behind, and no value that is short or was given only to an earlier run
\* makes holes in the log.
MasksWholeValues ==
    (\A v \in Hidden : Foreign(v)) =>
      /\ Separate(raw.cmd, HiddenBy) => shown.cmd = Masked(raw.cmd, HiddenBy)
      /\ \A s \in Streams :
           Separate(raw[s], HiddenBy) => shown[s] = Lines(Masked(raw[s], HiddenBy))
=============================================================================
