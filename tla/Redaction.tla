------------------------------ MODULE Redaction ------------------------------
(***************************************************************************)
(* Redaction of revealed secrets in what a command line shows and in what  *)
(* a command prints (quire-core/src/secret.rs), and the log file its       *)
(* output is written to (quire-core/src/ci/logs.rs).                       *)
(*                                                                         *)
(* A text is a sequence of characters (a byte each: lengths are counted in  *)
(* bytes), and so are the names of secrets, their values and the markers   *)
(* they are replaced by.                                                   *)
(***************************************************************************)
EXTENDS Naturals, SequencesExt, Sorting

CONSTANTS
    Chars,        \* the characters of texts and values
    NewLine,      \* the one that ends a line
    Return,       \* the one that belongs to a line end if it stands before it
    Opening,      \* "{{ "
    Closing,      \* " }}"
    NameOrder     \* the names of the secrets in their (string) order

Names == Range(NameOrder)

ASSUME LineEndAssumption == NewLine \in Chars /\ Return \in Chars \ {NewLine}
ASSUME MarkerAssumption == /\ Opening \in Seq(Chars) /\ Closing \in Seq(Chars)
                           /\ Len(Opening) >= 1
ASSUME NamesAssumption == /\ NameOrder \in Seq(Names) /\ IsInjective(NameOrder)
                          /\ Names \subseteq Seq(Chars)

-----------------------------------------------------------------------------

\* value stands in text from position i on.
MatchAt(text, i, value) ==
    /\ i + Len(value) <= Len(text) + 1
    /\ \A j \in 1..Len(value) : text[i + j - 1] = value[j]

Occurs(text, value) == \E i \in 1..Len(text) : MatchAt(text, i, value)

\* str::replace: the occurrences met from left to right, none overlapping the
\* one before it.  A value is never empty here.
Replace(text, value, mark) ==
    LET from[i \in 1..Len(text) + 1] ==
          IF i > Len(text) THEN <<>>
          ELSE IF MatchAt(text, i, value)
               THEN mark \o from[i + Len(value)]
               ELSE <<text[i]>> \o from[i + 1]
    IN  from[1]

Rank(name) == CHOOSE i \in DOMAIN NameOrder : NameOrder[i] = name

\* Mutant of Precedes: the shortest value comes first.
ShortestFirst(revealed, m, n) ==
    \/ Len(revealed[m]) < Len(revealed[n])
    \/ Len(revealed[m]) = Len(revealed[n]) /\ Rank(m) < Rank(n)

\* The longest value comes first; equal lengths go by name.
Precedes(revealed, m, n) ==
    \/ Len(revealed[m]) > Len(revealed[n])
    \/ Len(revealed[m]) = Len(revealed[n]) /\ Rank(m) < Rank(n)

\* SecretRegistry::entries.
Entries(revealed) ==
    Sorted(DOMAIN revealed, LAMBDA m, n : Precedes(revealed, m, n))

Marker(name) == Opening \o name \o Closing

\* redact: one value after the other, each over the text the one before left, the
\* markers in it included.
Redact(text, revealed) ==
    FoldLeft(LAMBDA t, n : Replace(t, revealed[n], Marker(n)), text, Entries(revealed))

\* str::lines: a line ends before its NewLine, or the Return in front of that; an
\* empty last line does not count.
Lines(text) ==
    LET starts == {i \in 1..Len(text) : i = 1 \/ text[i - 1] = NewLine}
        last(i) == CHOOSE j \in i - 1..Len(text) :
                      /\ NewLine \notin Range(SubSeq(text, i, j))
                      /\ j = Len(text) \/ text[j + 1] = NewLine
        cut(i, j) == j < Len(text) /\ j >= i /\ text[j] = Return
        end(i) == IF cut(i, last(i)) THEN last(i) - 1 ELSE last(i)
        order == Sorted(starts, <)
    IN  [k \in DOMAIN order |-> SubSeq(text, order[k], end(order[k]))]

\* Mutant of Logged: the lines are redacted one by one.
LoggedByLine(text, revealed) ==
    LET lines == Lines(text)
    IN  [k \in DOMAIN lines |-> Redact(lines[k], revealed)]

\* What reaches the log file of one stream: Runtime::sh redacts the text,
\* write_cri_log writes its lines.
Logged(text, revealed) == Lines(Redact(text, revealed))
=============================================================================
