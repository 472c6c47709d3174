---------------------------- MODULE BackendStream ----------------------------
(***************************************************************************)
(* One streamed completion of the model backend, read by stream_chat() of  *)
(* vllm_client.py: the bytes arrive in chunks cut anywhere, are put        *)
(* together again, cut into server-sent events, decoded, and yielded as    *)
(* fragments of thinking and of text.                                      *)
(*                                                                         *)
(* The backend's answer is a list of events.  What it puts on the wire is  *)
(* a sequence of symbols: a piece of an event, the prefix of a line, a     *)
(* line break.  stream_chat() is a generator: between two fragments, and   *)
(* while it waits for a chunk, the session may be cancelled.               *)
(***************************************************************************)
EXTENDS Naturals, Sequences, SequencesExt, FiniteSetsExt

CONSTANTS
    Kinds,      \* the kinds of event the backend may send
    MaxEvents   \* a bound on the events of one answer

ASSUME EventsAssumption ==
    /\ Kinds \subseteq {"content", "thinking", "both", "text", "usage", "multi",
                        "separated", "garbage", "scalar", "comment", "done"}
    /\ MaxEvents \in Nat

VARIABLES
    answer,     \* the events of the answer, in order
    style,      \* the backend's line breaks, "LF" or "CRLF"
    arriving,   \* the symbols not received yet
    buffer,     \* the symbols received and not yet cut into frames
    mode,       \* what stream_chat() does next, or how it ended
    held,       \* the text of the item whose thinking was yielded, or nothing
    out,        \* the fragments yielded
    cancelled   \* cancel_event.is_set()

vars == <<answer, style, arriving, buffer, mode, held, out, cancelled>>

-----------------------------------------------------------------------------
(* The backend (not part of this program). *)

Sym(name) == <<name, 0>>
LineFeed == Sym("LF")
Return == Sym("CR")
Separator == Sym("U+2028")  \* a character of a text that JSON need not escape
DataField == Sym("data:")
Colon == Sym(":")

Break(s) == IF s = "LF" THEN <<LineFeed>> ELSE <<Return, LineFeed>>

(* The lines of event i of kind k.  Those of one JSON value may be several. *)
Payload(k, i) ==
    CASE k = "multi" -> <<<<k, i>>, LineFeed, <<"rest", i>>>>
      [] k = "separated" -> <<<<k, i>>, Separator, <<"rest", i>>>>
      [] OTHER -> <<<<k, i>>>>

Encode(k, i, s) ==
    CASE k = "comment" -> <<Colon, <<k, i>>>> \o Break(s) \o Break(s)
      [] k = "multi" -> <<DataField, <<k, i>>>> \o Break(s)
                        \o <<DataField, <<"rest", i>>>> \o Break(s) \o Break(s)
      [] OTHER -> <<DataField>> \o Payload(k, i) \o Break(s) \o Break(s)

Wire(events, s) == FlattenSeq([i \in DOMAIN events |-> Encode(events[i], i, s)])

-----------------------------------------------------------------------------
(* _iter_sse_data(). *)

(* Defect: only line feeds are looked for. *)
FrameEnds_LF(b) ==
    {i \in 1..(Len(b) - 1) : b[i] = LineFeed /\ b[i + 1] = LineFeed}

(* Where a frame may end in the buffer. *)
FrameEnds(b) ==
    {i \in 1..(Len(b) - 1) : b[i] = LineFeed /\ b[i + 1] = LineFeed}
    \cup {i \in 1..(Len(b) - 3) : SubSeq(b, i, i + 3) = <<Return, LineFeed, Return, LineFeed>>}

HasFrame(b) == FrameEnds(b) # {}
FindFrameEnd(b) == Min(FrameEnds(b))

Frame(b) == SubSeq(b, 1, FindFrameEnd(b) - 1)
AfterFrame(b) ==
    LET e == FindFrameEnd(b) IN
    SubSeq(b, IF b[e] = Return THEN e + 4 ELSE e + 2, Len(b))

(* str.splitlines() breaks a line at U+2028 too. *)
LineBreaks == {LineFeed, Return, Separator}

(* The positions at which a line begins, and what a line holds. *)
LineStarts(f) == {i \in DOMAIN f : f[i] \notin LineBreaks /\ (i > 1 => f[i - 1] \in LineBreaks)}
Line(f, i) ==
    LET ends == {j \in i..Len(f) : f[j] \in LineBreaks} IN
    SubSeq(f, i, IF ends = {} THEN Len(f) ELSE Min(ends) - 1)

(* The data lines of a frame, joined by line feeds; comments and other      *)
(* fields are left out.  <<>> if there are none.                            *)
DataLines(f) == {i \in LineStarts(f) : f[i] = DataField}
Data(f, i) ==
    IF i \notin DataLines(f) THEN <<>>
    ELSE (IF \E j \in DataLines(f) : j < i THEN <<LineFeed>> ELSE <<>>) \o Tail(Line(f, i))
Item(f) == FlattenSeq([i \in DOMAIN f |-> Data(f, i)])

-----------------------------------------------------------------------------
(* json.loads() and _extract_fragment(). *)

IsJson(item) ==
    /\ item[1][1] # "garbage"
    /\ item = Payload(item[1][1], item[1][2])

Thinking(i) == <<"thinking", i>>
Content(i) == <<"content", i>>

(* The fragments of event i of kind k: reasoning_content, then content, or  *)
(* text where there is no content.                                          *)
ExtractFragment(k, i) ==
    CASE k = "thinking" -> <<Thinking(i)>>
      [] k = "both" -> <<Thinking(i), Content(i)>>
      [] k \in {"content", "text", "multi", "separated"} -> <<Content(i)>>
      [] OTHER -> <<>>

-----------------------------------------------------------------------------
Init ==
    /\ answer \in UNION {[1..n -> Kinds] : n \in 0..MaxEvents}
    /\ style \in {"LF", "CRLF"}
    /\ arriving = Wire(answer, style)
    /\ buffer = <<>>
    /\ mode = "connecting"
    /\ held = <<>>
    /\ out = <<>>
    /\ cancelled = FALSE

Source == <<answer, style, cancelled>>

Connected ==
    /\ mode = "connecting"
    /\ mode' = "reading"
    /\ UNCHANGED <<Source, arriving, buffer, held, out>>

(* Another status than 200, a timeout, a connection that breaks: an         *)
(* exception, also when the last symbol has come and the end of the body    *)
(* has not.                                                                 *)
TransportFails ==
    /\ mode = "connecting" \/ (mode = "reading" /\ ~HasFrame(buffer))
    /\ mode' = "failed"
    /\ UNCHANGED <<Source, arriving, buffer, held, out>>

(* Defect: the chunk is put before what is left of the buffer. *)
ReceiveChunk_Prepends ==
    /\ mode = "reading" /\ ~HasFrame(buffer)
    /\ \E n \in 1..Len(arriving) :
           /\ buffer' = SubSeq(arriving, 1, n) \o buffer
           /\ arriving' = SubSeq(arriving, n + 1, Len(arriving))
    /\ UNCHANGED <<Source, mode, held, out>>

(* The next chunk, of any length, when no frame is left in the buffer. *)
ReceiveChunk ==
    /\ mode = "reading" /\ ~HasFrame(buffer)
    /\ \E n \in 1..Len(arriving) :
           /\ buffer' = buffer \o SubSeq(arriving, 1, n)
           /\ arriving' = SubSeq(arriving, n + 1, Len(arriving))
    /\ UNCHANGED <<Source, mode, held, out>>

(* What a body may leave off its last event: nothing, the blank line, or    *)
(* the break of the last line too.  A body cut shorter than that is an      *)
(* error of the transport.                                                  *)
LeftOff == {<<>>, Break(style), Break(style) \o Break(style)}

(* What is left in the buffer is not read: a frame without its blank line. *)
EndOfBody ==
    /\ mode = "reading" /\ ~HasFrame(buffer)
    /\ arriving \in LeftOff
    /\ mode' = "returned"
    /\ UNCHANGED <<Source, arriving, buffer, held, out>>

(* What stream_chat() does with an item. *)
Yield(fragments) ==
    /\ mode' = IF Len(fragments) = 2 THEN "holding" ELSE "reading"
    /\ held' = IF Len(fragments) = 2 THEN Tail(fragments) ELSE <<>>
    /\ out' = IF fragments = <<>> THEN out ELSE Append(out, fragments[1])

Ends(how) == mode' = how /\ UNCHANGED <<held, out>>

(* Defect: cancel_event is not looked at. *)
TakeItem_IgnoresCancel(item) ==
    IF item = <<>> THEN Yield(<<>>)
    ELSE IF item[1][1] = "done" THEN Ends("returned")
    ELSE IF ~IsJson(item) THEN Yield(<<>>)
    ELSE IF item[1][1] = "scalar" THEN Ends("failed")
    ELSE Yield(ExtractFragment(item[1][1], item[1][2]))

(* Defect: a frame that cannot be read ends the stream. *)
TakeItem_GarbageEnds(item) ==
    IF item = <<>> THEN Yield(<<>>)
    ELSE IF cancelled THEN Ends("cancelled")
    ELSE IF item[1][1] = "done" \/ ~IsJson(item) THEN Ends("returned")
    ELSE IF item[1][1] = "scalar" THEN Ends("failed")
    ELSE Yield(ExtractFragment(item[1][1], item[1][2]))

(* An item that is JSON but no object raises AttributeError. *)
TakeItem(item) ==
    IF item = <<>> THEN Yield(<<>>)
    ELSE IF cancelled THEN Ends("cancelled")
    ELSE IF item[1][1] = "done" THEN Ends("returned")
    ELSE IF ~IsJson(item) THEN Yield(<<>>)
    ELSE IF item[1][1] = "scalar" THEN Ends("failed")
    ELSE Yield(ExtractFragment(item[1][1], item[1][2]))

(* The first frame of the buffer. *)
NextFrame ==
    /\ mode = "reading" /\ HasFrame(buffer)
    /\ buffer' = AfterFrame(buffer)
    /\ \E frame \in {Frame(buffer)} : \E item \in {Item(frame)} : TakeItem(item)
    /\ UNCHANGED <<Source, arriving>>

(* The text of the item whose thinking was yielded, cancelled or not. *)
YieldHeld ==
    /\ mode = "holding"
    /\ Yield(held)
    /\ UNCHANGED <<Source, arriving, buffer>>

Cancel ==
    /\ mode \in {"connecting", "reading", "holding"}
    /\ ~cancelled
    /\ cancelled' = TRUE
    /\ UNCHANGED <<answer, style, arriving, buffer, mode, held, out>>

Over == mode \in {"returned", "failed", "cancelled"}

BackendStep ==
    Connected \/ TransportFails \/ ReceiveChunk \/ EndOfBody \/ NextFrame \/ YieldHeld

-----------------------------------------------------------------------------
(* What the answer says, read without chunks, frames and lines: the         *)
(* fragments of its first n events, up to the one that says [DONE].  A text *)
(* with a separator in it is lost, and nothing else is.                     *)
SaidBy(i) ==
    IF answer[i] = "separated" \/ \E d \in 1..i : answer[d] = "done" THEN <<>>
    ELSE ExtractFragment(answer[i], i)
Said(n) == FlattenSeq([i \in 1..n |-> SaidBy(i)])

Received == Len(Wire(answer, style)) - Len(arriving)
EventsReceived ==
    Max({n \in 0..Len(answer) : Len(Wire(SubSeq(answer, 1, n), style)) <= Received})

(* The events that end in a blank line, in a body that has ended: all, or   *)
(* all but the last.                                                        *)
EventsEnded == IF arriving = <<>> THEN Len(answer) ELSE Len(answer) - 1

TypeOK ==
    /\ mode \in {"connecting", "reading", "holding", "returned", "failed", "cancelled"}
    /\ held # <<>> <=> mode = "holding"
    /\ cancelled \in BOOLEAN
    /\ mode = "cancelled" => cancelled
    /\ mode = "connecting" => out = <<>> /\ buffer = <<>>
    /\ IsSuffix(buffer \o arriving, Wire(answer, style))

(* Whatever the chunks, the fragments yielded are those of the answer, in   *)
(* order, none twice and none left out before another; a stream that ends   *)
(* without an exception has yielded the whole answer, but for a last event  *)
(* the backend sent without its blank line, which is dropped.               *)
YieldsTheAnswer ==
    /\ IsPrefix(out, Said(Len(answer)))
    /\ mode = "returned" => out = Said(EventsEnded)

(* Nothing that was received whole waits for the next chunk: while          *)
(* stream_chat() waits, all events whose last line break has arrived are    *)
(* yielded.                                                                 *)
NothingHeldBack ==
    mode = "reading" /\ ~HasFrame(buffer) => out = Said(EventsReceived)

(* After a cancel nothing more is yielded than the text of the item whose   *)
(* thinking was yielded before it.                                          *)
StopsAtCancel ==
    [][cancelled /\ out' # out => mode = "holding"]_vars
===============================================================================
