---------------------------- MODULE ToolCallParser ----------------------------
(***************************************************************************)
(* parse_tool_call_json() of schemas.py: how a tool call is found in the   *)
(* text a model wrote.  A text that is one JSON object, fenced or not, is  *)
(* parsed as a whole; else each place where an object begins with          *)
(* "tool_call" is tried, its end found by counting braces.                 *)
(*                                                                         *)
(* A text is a sequence of tokens; blanks, commas and colons are left out. *)
(*   "{" "}"       braces outside strings                                  *)
(*   "tool_call", "arguments", "key"    the key of a member                *)
(*   "name"        a member "name" with a string that is not blank         *)
(*   "str", "str{}", "str{", "str}"     a string and the braces in it      *)
(*   "word"        prose                                                   *)
(*   "fence"       a line ``` or ```json                                   *)
(***************************************************************************)
EXTENDS Naturals, Sequences, SequencesExt, FiniteSetsExt

CONSTANT
    Texts       \* the texts a model may write, sequences of tokens

Keys == {"tool_call", "arguments", "key"}
Strings == {"str", "str{}", "str{", "str}"}
Tokens == {"{", "}", "name", "word", "fence"} \cup Keys \cup Strings

ASSUME TextsAssumption == Texts \subseteq Seq(Tokens)

VARIABLES
    text,       \* output_text
    pc,         \* the part of the function that runs
    matches,    \* the starts that are still to be tried
    start,      \* the one that is tried
    i,          \* the next token of the scan
    braceCount, \* brace_count
    result      \* the place of the "tool_call" returned, 0 for None

vars == <<text, pc, matches, start, i, braceCount, result>>

-----------------------------------------------------------------------------
(* json.loads(), of objects. *)

(* The state of a reader: the objects it is in, what it reads next. *)
Read(reader, token) ==
    CASE reader.next = "value" /\ token = "{" ->
           [depth |-> reader.depth + 1, next |-> "member"]
      [] reader.next = "value" /\ token \in Strings /\ reader.depth > 0 ->
           [reader EXCEPT !.next = "member"]
      [] reader.next = "member" /\ token = "name" -> reader
      [] reader.next = "member" /\ token \in Keys -> [reader EXCEPT !.next = "value"]
      [] reader.next = "member" /\ token = "}" ->
           [depth |-> reader.depth - 1,
            next |-> IF reader.depth = 1 THEN "end" ELSE "member"]
      [] OTHER -> [reader EXCEPT !.next = "error"]

(* The reader behind each token. *)
Reading(s) ==
    LET reader[n \in 0..Len(s)] ==
            IF n = 0 THEN [depth |-> 0, next |-> "value"] ELSE Read(reader[n - 1], s[n]) IN
    reader

IsObject(s) == Reading(s)[Len(s)].next = "end"

(* The objects open before position n. *)
Depth(s, n) ==
    Cardinality({j \in 1..(n - 1) : s[j] = "{"}) - Cardinality({j \in 1..(n - 1) : s[j] = "}"})

(* The places of the keys "tool_call" of an object. *)
CallKeys(s) == {n \in DOMAIN s : s[n] = "tool_call" /\ Depth(s, n) = 1}

(* The places of the members of the object that is the value of the key at n. *)
MembersOf(s, n) ==
    {k \in (n + 2)..Len(s) : /\ Depth(s, k) = 2
                             /\ \A j \in (n + 2)..k : Depth(s, j) >= 2}

-----------------------------------------------------------------------------
(* _extract_from_dict(): the last of the keys counts; its value and the     *)
(* arguments must be objects, and there must be a name.                     *)
ExtractFromDict(s) ==
    LET n == Max(CallKeys(s))
        members == MembersOf(s, n)
        arguments == {k \in members : s[k] = "arguments"} IN
    IF /\ s[n + 1] = "{"
       /\ \E k \in members : s[k] = "name"
       /\ arguments # {} => s[Max(arguments) + 1] = "{"
    THEN n ELSE 0

IsCallObject(s) == IsObject(s) /\ CallKeys(s) # {}

(* The first line, if a fence, and then the last, if one. *)
Unfenced(s) ==
    IF s = <<>> \/ Head(s) # "fence" THEN s
    ELSE IF Len(s) > 1 /\ Last(s) = "fence" THEN Tail(Front(s))
    ELSE Tail(s)

Offset(s) == IF Unfenced(s) = s THEN 0 ELSE 1

(* The place in the text of what was found at a place of a part of it. *)
Place(n, offset) == IF n = 0 THEN 0 ELSE n + offset

CallStarts(s) == {n \in 1..(Len(s) - 1) : s[n] = "{" /\ s[n + 1] = "tool_call"}

Init ==
    /\ text \in Texts
    /\ pc = "direct"
    /\ matches = {}
    /\ start = 0
    /\ i = 0
    /\ braceCount = 0
    /\ result = 0

ParseDirectly ==
    /\ pc = "direct"
    /\ IF IsCallObject(Unfenced(text))
       THEN /\ pc' = "returned"
            /\ result' = Place(ExtractFromDict(Unfenced(text)), Offset(text))
            /\ UNCHANGED matches
       ELSE /\ pc' = "matching"
            /\ matches' = CallStarts(text)
            /\ UNCHANGED result
    /\ UNCHANGED <<text, start, i, braceCount>>

(* The matches of the pattern, from the left. *)
TryMatch ==
    /\ pc = "matching" /\ matches # {}
    /\ pc' = "scanning"
    /\ start' = Min(matches)
    /\ i' = Min(matches)
    /\ matches' = matches \ {Min(matches)}
    /\ braceCount' = 0
    /\ UNCHANGED <<text, result>>

NoMatchLeft ==
    /\ pc = "matching" /\ matches = {}
    /\ pc' = "returned"
    /\ UNCHANGED <<text, matches, start, i, braceCount, result>>

Counted(token) ==
    CASE token \in {"{", "str{"} -> braceCount + 1
      [] token \in {"}", "str}"} -> braceCount - 1
      [] OTHER -> braceCount

(* The characters of a token.  The scan does not know strings. *)
ScanToken ==
    /\ pc = "scanning" /\ i <= Len(text)
    /\ braceCount' = Counted(text[i])
    /\ i' = i + 1
    /\ pc' = IF text[i] \in {"}", "str}"} /\ braceCount' = 0 THEN "snippet" ELSE "scanning"
    /\ UNCHANGED <<text, matches, start, result>>

(* Defect: an object without an end ends the search. *)
NoEndFound_Returns ==
    /\ pc = "scanning" /\ i > Len(text)
    /\ pc' = "returned"
    /\ UNCHANGED <<text, matches, start, i, braceCount, result>>

NoEndFound ==
    /\ pc = "scanning" /\ i > Len(text)
    /\ pc' = "matching"
    /\ UNCHANGED <<text, matches, start, i, braceCount, result>>

(* A snippet that ends inside a string is not JSON. *)
Snippet == SubSeq(text, start, i - 1)

(* The first snippet that is JSON decides, a tool call or not. *)
ParseSnippet ==
    /\ pc = "snippet"
    /\ IF Last(Snippet) = "}" /\ IsCallObject(Snippet)
       THEN /\ pc' = "returned"
            /\ result' = Place(ExtractFromDict(Snippet), start - 1)
       ELSE /\ pc' = "matching"
            /\ UNCHANGED result
    /\ UNCHANGED <<text, matches, start, i, braceCount>>

Returned == pc = "returned" /\ UNCHANGED vars

Next ==
    \/ ParseDirectly \/ TryMatch \/ NoMatchLeft \/ ScanToken \/ NoEndFound
    \/ ParseSnippet \/ Returned

Spec == Init /\ [][Next]_vars

-----------------------------------------------------------------------------
(* The objects of the text that begin with "tool_call", read as JSON. *)
CallObjects ==
    {o \in CallStarts(text) \X DOMAIN text : o[1] < o[2] /\ IsObject(SubSeq(text, o[1], o[2]))}

(* What is looked for: the text as a whole, or the first object that begins *)
(* with "tool_call".                                                        *)
Wanted ==
    IF IsCallObject(Unfenced(text))
    THEN Place(ExtractFromDict(Unfenced(text)), Offset(text))
    ELSE IF CallObjects = {} THEN 0
    ELSE LET first == CHOOSE o \in CallObjects : \A p \in CallObjects : o[1] <= p[1] IN
         Place(ExtractFromDict(SubSeq(text, first[1], first[2])), first[1] - 1)

(* Strings with a brace of their own. *)
OddStrings == {"str{", "str}"}

(* As long as no string holds a brace of its own, counting braces finds     *)
(* what reading JSON finds: the call of the first object that begins with   *)
(* "tool_call", whatever stands around it.  A reply that does as the system *)
(* prompt says, nothing but the call, fenced or not, is understood whatever *)
(* braces its strings hold.                                                 *)
FindsTheCall ==
    /\ pc = "returned"
    /\ IsCallObject(Unfenced(text)) \/ \A k \in DOMAIN text : text[k] \notin OddStrings
    => result = Wanted
===============================================================================
