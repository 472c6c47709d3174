--------------------------- MODULE ToolCallParserMC ---------------------------
(* Texts of a few pieces: prose, stray braces, fences, calls of every kind. *)
EXTENDS ToolCallParser

CONSTANT
    MaxPieces   \* a bound on the pieces of a text

Call(arguments) ==
    <<"{", "tool_call", "{", "name">> \o arguments \o <<"}", "}">>
Arguments(string) == <<"arguments", "{", "key", string, "}">>

TextPieces ==
    {<<"word">>, <<"{">>, <<"}">>, <<"fence">>, <<"{", "key">>,
     Call(<<>>), Call(Arguments("str{}")), Call(Arguments("str{")), Call(Arguments("str}")),
     Call(<<"arguments", "str">>), <<"{", "tool_call", "str">>,
     <<"{", "tool_call", "{", "}", "}">>, <<"{", "tool_call", "{", "name">>,
     <<"{", "key", "str", "tool_call", "{", "name", "}", "}">>}

PieceTexts == {FlattenSeq(p) : p \in UNION {[1..n -> TextPieces] : n \in 1..MaxPieces}}
===============================================================================
