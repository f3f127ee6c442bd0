------------------------------ MODULE MCSecrets ------------------------------
(***************************************************************************)
(* TLC instance of Secrets: two declared secrets, one in a file and one a  *)
(* literal, and a name the server does not know.  The contents overlap,    *)
(* contain one another, span lines, end in newlines, are too short, are    *)
(* spelled by a name or run into a marker; the outputs are all texts of up *)
(* to three characters and some longer ones, with both kinds of line ends. *)
(***************************************************************************)
EXTENDS Masking

InFile == <<"b">>
Literal == <<"a", "b">>
Unknown == <<"a">>
MCNameOrder == <<Unknown, Literal, InFile>>
MCDeclared == {InFile, Literal}
MCFiles == {InFile}
MCOpening == <<"{">>
MCClosing == <<"}">>
MCContents == {<<"a", "b">>, <<"b", "a", "a", "nl">>, <<"a", "nl", "b">>, <<"b", "}">>, <<"b", "nl">>}
MCCommands == {<<>>, <<"a", "b">>, <<"b", "a", "a", "b">>}
MCOutputs ==
    {[stdout |-> t, stderr |-> <<>>] : t \in BoundedSeq({"a", "b", "nl"}, 3)}
    \cup {[stdout |-> <<"b", "a", "b", "a", "a", "b">>,
           stderr |-> <<"a", "nl", "b", "nl", "a", "b">>],
          [stdout |-> <<"a", "b", "a", "a", "nl", "b">>,
           stderr |-> <<"b", "a", "a", "nl">>],
          [stdout |-> <<"a", "cr", "nl", "b", "cr">>,
           stderr |-> <<"a", "cr", "cr", "nl", "a", "nl", "b">>],
          [stdout |-> <<"b", "}", "a", "b">>,
           stderr |-> <<"a", "nl", "b", "a", "cr", "nl">>]}
=============================================================================
