--------------------------- MODULE AgentLoopProofs ---------------------------
(* Theorems about the response session, for every max_steps and             *)
(* max_tool_calls: its types and rows, the order of the messages, the       *)
(* results of client tools, giving up after failures, the final status, and *)
(* the contract of its event stream.                                        *)
EXTENDS AgentLoopMC, SequenceTheorems, FiniteSetTheorems, TLAPS

PCs == StepOpen \cup CallOpen \cup Between

-----------------------------------------------------------------------------
(* The operations on a record keep it a record. *)

(* The fields of a record, and that a record is nothing else.               *)
LEMMA RecordFields ==
    ASSUME NEW r \in Records
    PROVE  /\ r.status \in Statuses
           /\ r.messages \in Seq(Kinds)
           /\ r.steps \in Seq(StepStatuses)
           /\ r.calls \in Seq(CallRows)
           /\ r = [status |-> r.status, messages |-> r.messages,
                   steps |-> r.steps, calls |-> r.calls]
  BY DEF Records

(* Writing the last element of a sequence, as the updates of the current    *)
(* step's and call's rows do.                                               *)
LEMMA ReplaceLast ==
    ASSUME NEW S, NEW s \in Seq(S), s # <<>>, NEW x \in S
    PROVE  /\ [s EXCEPT ![Len(s)] = x] \in Seq(S)
           /\ Len([s EXCEPT ![Len(s)] = x]) = Len(s)
           /\ [s EXCEPT ![Len(s)] = x] # <<>>
           /\ [s EXCEPT ![Len(s)] = x][Len(s)] = x
           /\ \A i \in 1..Len(s) : i # Len(s) => [s EXCEPT ![Len(s)] = x][i] = s[i]
  BY ExceptSeq, EmptySeq, LenProperties

(* start_response() keeps the record a record, with its rows.               *)
LEMMA StartResponseType ==
    ASSUME NEW r \in Records
    PROVE  /\ StartResponse(r) \in Records
           /\ StartResponse(r).status = "in_progress"
           /\ StartResponse(r).steps = r.steps
           /\ StartResponse(r).calls = r.calls
           /\ StartResponse(r).messages = <<"user">>
  <1>1. <<"user">> \in Seq(Kinds)
    BY DEF Kinds
  <1> QED BY <1>1, RecordFields DEF StartResponse, Records, Statuses

(* set_response_status() changes the status only.                           *)
LEMMA SetStatusType ==
    ASSUME NEW r \in Records, NEW s \in Statuses
    PROVE  /\ SetStatus(r, s) \in Records
           /\ SetStatus(r, s).status = s
           /\ SetStatus(r, s).steps = r.steps
           /\ SetStatus(r, s).calls = r.calls
           /\ SetStatus(r, s).messages = r.messages
  BY RecordFields DEF SetStatus, Records

(* append_message() changes the messages only.                              *)
LEMMA AppendMessageType ==
    ASSUME NEW r \in Records, NEW kind \in Kinds
    PROVE  /\ AppendMessage(r, kind) \in Records
           /\ AppendMessage(r, kind).status = r.status
           /\ AppendMessage(r, kind).steps = r.steps
           /\ AppendMessage(r, kind).calls = r.calls
           /\ AppendMessage(r, kind).messages = Append(r.messages, kind)
  BY RecordFields, AppendProperties DEF AppendMessage, Records

(* start_step() adds a row, so that a step exists.                          *)
LEMMA StartStepType ==
    ASSUME NEW r \in Records
    PROVE  /\ StartStep(r) \in Records
           /\ StartStep(r).status = r.status
           /\ StartStep(r).steps = Append(r.steps, "in_progress")
           /\ StartStep(r).steps # <<>>
           /\ StartStep(r).calls = r.calls
           /\ StartStep(r).messages = r.messages
  <1>1. /\ Append(r.steps, "in_progress") \in Seq(StepStatuses)
        /\ Append(r.steps, "in_progress") # <<>>
    BY RecordFields, AppendProperties DEF StepStatuses
  <1> QED BY <1>1, RecordFields DEF StartStep, Records

(* complete_step() writes the last step only.                               *)
LEMMA CompleteStepType ==
    ASSUME NEW r \in Records, r.steps # <<>>, NEW s \in StepStatuses
    PROVE  /\ CompleteStep(r, s) \in Records
           /\ CompleteStep(r, s).status = r.status
           /\ CompleteStep(r, s).steps = [r.steps EXCEPT ![Len(r.steps)] = s]
           /\ CompleteStep(r, s).steps # <<>>
           /\ CompleteStep(r, s).calls = r.calls
           /\ CompleteStep(r, s).messages = r.messages
  <1>1. /\ [r.steps EXCEPT ![Len(r.steps)] = s] \in Seq(StepStatuses)
        /\ [r.steps EXCEPT ![Len(r.steps)] = s] # <<>>
    BY RecordFields, ReplaceLast
  <1> QED BY <1>1, RecordFields DEF CompleteStep, Records

(* create_tool_call() adds a row, so that a call exists.                    *)
LEMMA CreateToolCallType ==
    ASSUME NEW r \in Records, NEW mode \in Modes
    PROVE  /\ CreateToolCall(r, mode) \in Records
           /\ CreateToolCall(r, mode).status = r.status
           /\ CreateToolCall(r, mode).steps = r.steps
           /\ CreateToolCall(r, mode).calls =
                Append(r.calls, [mode |-> mode, status |-> "in_progress", result |-> FALSE])
           /\ CreateToolCall(r, mode).calls # <<>>
           /\ CreateToolCall(r, mode).messages = r.messages
  <1> DEFINE row == [mode |-> mode, status |-> "in_progress", result |-> FALSE]
  <1>1. row \in CallRows
    BY DEF CallRows
  <1>2. CreateToolCall(r, mode) = [r EXCEPT !.calls = Append(r.calls, row)]
    BY RecordFields DEF CreateToolCall
  <1> HIDE DEF row
  <1>3. Append(r.calls, row) \in Seq(CallRows) /\ Append(r.calls, row) # <<>>
    BY <1>1, RecordFields, AppendProperties
  <1>4. /\ CreateToolCall(r, mode) \in Records
        /\ CreateToolCall(r, mode).status = r.status
        /\ CreateToolCall(r, mode).steps = r.steps
        /\ CreateToolCall(r, mode).calls = Append(r.calls, row)
        /\ CreateToolCall(r, mode).messages = r.messages
    BY <1>2, <1>3, RecordFields DEF Records
  <1> QED BY <1>3, <1>4 DEF row

(* The current call has a row.                                              *)
LEMMA LastCall ==
    ASSUME NEW r \in Records, r.calls # <<>>
    PROVE  r.calls[Len(r.calls)] \in CallRows
  BY RecordFields, EmptySeq, LenProperties, ElementOfSeq

(* complete_tool_call() writes the status of the last call only.            *)
LEMMA CompleteToolCallType ==
    ASSUME NEW r \in Records, r.calls # <<>>, NEW s \in {"completed", "failed"}
    PROVE  LET last == [r.calls[Len(r.calls)] EXCEPT !.status = s] IN
           /\ last \in CallRows
           /\ last.status = s
           /\ CompleteToolCall(r, s) \in Records
           /\ CompleteToolCall(r, s).status = r.status
           /\ CompleteToolCall(r, s).steps = r.steps
           /\ CompleteToolCall(r, s).calls = [r.calls EXCEPT ![Len(r.calls)] = last]
           /\ CompleteToolCall(r, s).calls # <<>>
           /\ CompleteToolCall(r, s).messages = r.messages
  <1> DEFINE last == [r.calls[Len(r.calls)] EXCEPT !.status = s]
  <1>1. last \in CallRows /\ last.status = s
    BY LastCall DEF CallRows
  <1>2. /\ [r.calls EXCEPT ![Len(r.calls)] = last] \in Seq(CallRows)
        /\ [r.calls EXCEPT ![Len(r.calls)] = last] # <<>>
    BY <1>1, RecordFields, ReplaceLast
  <1>3. CompleteToolCall(r, s) =
          [r EXCEPT !.calls = [r.calls EXCEPT ![Len(r.calls)] = last]]
    BY RecordFields DEF CompleteToolCall
  <1> HIDE DEF last
  <1> QED BY <1>1, <1>2, <1>3, RecordFields DEF Records, last

(* add_tool_result() writes the result of the last call only.               *)
LEMMA AddToolResultType ==
    ASSUME NEW r \in Records, r.calls # <<>>
    PROVE  LET last == [r.calls[Len(r.calls)] EXCEPT !.result = TRUE] IN
           /\ last \in CallRows
           /\ last.status = r.calls[Len(r.calls)].status
           /\ AddToolResult(r) \in Records
           /\ AddToolResult(r).status = r.status
           /\ AddToolResult(r).steps = r.steps
           /\ AddToolResult(r).calls = [r.calls EXCEPT ![Len(r.calls)] = last]
           /\ AddToolResult(r).calls # <<>>
           /\ AddToolResult(r).messages = r.messages
  <1> DEFINE last == [r.calls[Len(r.calls)] EXCEPT !.result = TRUE]
  <1>1. last \in CallRows /\ last.status = r.calls[Len(r.calls)].status
    BY LastCall DEF CallRows
  <1>2. /\ [r.calls EXCEPT ![Len(r.calls)] = last] \in Seq(CallRows)
        /\ [r.calls EXCEPT ![Len(r.calls)] = last] # <<>>
    BY <1>1, RecordFields, ReplaceLast
  <1>3. AddToolResult(r) =
          [r EXCEPT !.calls = [r.calls EXCEPT ![Len(r.calls)] = last]]
    BY RecordFields DEF AddToolResult
  <1> HIDE DEF last
  <1> QED BY <1>1, <1>2, <1>3, RecordFields DEF Records, last

-----------------------------------------------------------------------------
(* What a block does to the record, the events and pc. *)

(* A block ends with its last record at its next await, or with a store     *)
(* that has failed.                                                         *)
LEMMA BlockEffect ==
    ASSUME stored \in Records, events \in Seq(Events), storeFailed \in BOOLEAN,
           NEW partial \in SUBSET Records, NEW final \in Records,
           NEW e \in Events, NEW next,
           Block(partial, final, e, next)
    PROVE  /\ stored' \in Records
           /\ events' \in Seq(Events)
           /\ storeFailed' \in BOOLEAN
           /\ storeFailed => storeFailed'
           /\ \/ ~storeFailed' /\ stored' = final /\ pc' \in {next, "done"}
              \/ storeFailed /\ storeFailed' /\ stored' = final /\ pc' \in {next, "done"}
              \/ storeFailed' /\ pc' \in {"abort_error", "done"}
           /\ stored' \in {stored, final} \cup partial
  <1> DEFINE err == Event("error", "fatal")
  <1>1. err \in Events
    BY DEF Event, Events, EventTypes, EventInfos, Statuses
  <1>2. Append(events, e) \in Seq(Events) /\ Append(events, err) \in Seq(Events)
    BY <1>1, AppendProperties
  <1>3. CASE stored' = final /\ Emit(e, next) /\ UNCHANGED storeFailed
    BY <1>2, <1>3 DEF Emit
  <1>4. CASE /\ stored' \in {stored, final} \cup partial
             /\ Emit(Event("error", "fatal"), "abort_error")
             /\ storeFailed' = TRUE
    BY <1>2, <1>4 DEF Emit
  <1> QED BY <1>3, <1>4 DEF Block

(* A block that only emits keeps the record.                                *)
LEMMA SayEffect ==
    ASSUME events \in Seq(Events), NEW e \in Events, NEW next, Say(e, next)
    PROVE  /\ events' \in Seq(Events)
           /\ pc' \in {next, "done"}
           /\ stored' = stored
           /\ storeFailed' = storeFailed
  BY AppendProperties DEF Say, Emit

(* What _finalize_cancelled() leaves behind.                                *)
LEMMA FinalizeCancelledEffect ==
    ASSUME stored \in Records, events \in Seq(Events), storeFailed \in BOOLEAN,
           NEW r \in Records, FinalizeCancelled(r)
    PROVE  /\ stored' \in Records
           /\ events' \in Seq(Events)
           /\ storeFailed' \in BOOLEAN
           /\ storeFailed => storeFailed'
           /\ ~storeFailed' => stored' = SetStatus(r, "cancelled")
           /\ pc' \in {"terminal", "abort_error", "done"}
           /\ stored' \in {stored, r, SetStatus(r, "cancelled")}
  <1>1. SetStatus(r, "cancelled") \in Records
    BY SetStatusType DEF Statuses
  <1>2. Event("completed", "cancelled") \in Events
    BY DEF Event, Events, EventTypes, EventInfos, Statuses
  <1> QED BY <1>1, <1>2, BlockEffect DEF FinalizeCancelled

(* What _fail_response() leaves behind, when there is a current step.       *)
LEMMA FailResponseEffect ==
    ASSUME stored \in Records, events \in Seq(Events), storeFailed \in BOOLEAN,
           NEW r \in Records, r.steps # <<>>, FailResponse(r)
    PROVE  /\ stored' \in Records
           /\ events' \in Seq(Events)
           /\ storeFailed' \in BOOLEAN
           /\ storeFailed => storeFailed'
           /\ ~storeFailed' => stored' = CompleteStep(SetStatus(r, "failed"), "failed")
           /\ pc' \in {"fail_error", "abort_error", "done"}
           /\ stored' \in {stored, r, SetStatus(r, "failed"),
                           CompleteStep(SetStatus(r, "failed"), "failed")}
  <1> DEFINE failed == SetStatus(r, "failed")
  <1>1. failed \in Records /\ failed.steps # <<>>
    BY SetStatusType DEF Statuses
  <1>2. CompleteStep(failed, "failed") \in Records
    BY <1>1, CompleteStepType DEF StepStatuses
  <1>3. Event("error", "fatal") \in Events
    BY DEF Event, Events, EventTypes, EventInfos, Statuses
  <1>4. Block({r, failed}, CompleteStep(failed, "failed"),
              Event("error", "fatal"), "fail_error")
    BY DEF FailResponse
  <1> HIDE DEF failed
  <1>5. {r, failed} \in SUBSET Records
    BY <1>1
  <1>6. /\ stored' \in Records
        /\ events' \in Seq(Events)
        /\ storeFailed' \in BOOLEAN
        /\ storeFailed => storeFailed'
        /\ ~storeFailed' => stored' = CompleteStep(failed, "failed")
        /\ pc' \in {"fail_error", "abort_error", "done"}
        /\ stored' \in {stored, CompleteStep(failed, "failed")} \cup {r, failed}
    BY <1>2, <1>3, <1>4, <1>5, BlockEffect
  <1> QED BY <1>6 DEF failed

-----------------------------------------------------------------------------
(* The last resort for an exception that is not the store's.  The request   *)
(* goes out, or something raises where the output is asked for or read.     *)

SendsRequest ==
    /\ ResumesAt("step_created")
    /\ pc' = "streaming"
    /\ UNCHANGED <<stored, events, storeFailed, Locals, Outside>>

MayRemain ==
    {stored, AppendMessage(stored, "assistant")}
      \cup {CreateToolCall(AppendMessage(stored, "tool_call"), mode) : mode \in Modes}

Raises ==
    /\ pc \in {"step_created", "streaming"}
    /\ ResumesAt(pc)
    /\ LastResort(MayRemain)
    /\ UNCHANGED <<Locals, Outside>>

LEMMA RaisesCases ==
    ASSUME BeginStream \/ OutputRaises
    PROVE  SendsRequest \/ Raises
  BY DEF BeginStream, OutputRaises, SendsRequest, Raises, MayRemain, LastResort, ResumesAt

(* One message of the model, and with it the row of a call, may be added to *)
(* the record; nothing else of it changes.                                  *)
LEMMA RaisesEffect ==
    ASSUME stored \in Records, events \in Seq(Events), Raises
    PROVE  /\ stored' \in Records
           /\ stored'.status = stored.status
           /\ stored'.steps = stored.steps
           /\ stored'.messages \in {stored.messages} \cup
                {Append(stored.messages, k) : k \in {"assistant", "tool_call"}}
           /\ stored'.calls \in {stored.calls} \cup
                {Append(stored.calls, [mode |-> mode, status |-> "in_progress",
                                       result |-> FALSE]) : mode \in Modes}
           /\ events' \in Seq(Events)
           /\ \/ /\ sock = "open" /\ pc' = "abort_error"
                 /\ events' = Append(events, Event("error", "fatal"))
              \/ sock # "open" /\ pc' = "done" /\ events' = events
           /\ storeFailed' = storeFailed
  <1>1. /\ stored' \in MayRemain
        /\ Emit(Event("error", "fatal"), "abort_error")
        /\ storeFailed' = storeFailed
    BY DEF Raises, LastResort
  <1>2. Event("error", "fatal") \in Events
    BY DEF Event, Events, EventTypes, EventInfos, Statuses
  <1>3. Append(events, Event("error", "fatal")) \in Seq(Events)
    BY <1>2, AppendProperties
  <1>4. CASE stored' = stored
    BY <1>1, <1>3, <1>4 DEF Emit
  <1>5. ASSUME NEW k \in {"assistant", "tool_call"}
        PROVE  /\ AppendMessage(stored, k) \in Records
               /\ AppendMessage(stored, k).messages = Append(stored.messages, k)
               /\ AppendMessage(stored, k).calls = stored.calls
               /\ AppendMessage(stored, k).steps = stored.steps
               /\ AppendMessage(stored, k).status = stored.status
    BY AppendMessageType DEF Kinds
  <1>6. CASE stored' = AppendMessage(stored, "assistant")
    BY <1>1, <1>3, <1>5, <1>6 DEF Emit
  <1>7. ASSUME NEW mode \in Modes,
               stored' = CreateToolCall(AppendMessage(stored, "tool_call"), mode)
        PROVE  /\ stored' \in Records
               /\ stored'.messages = Append(stored.messages, "tool_call")
               /\ stored'.calls = Append(stored.calls,
                     [mode |-> mode, status |-> "in_progress", result |-> FALSE])
               /\ stored'.steps = stored.steps
               /\ stored'.status = stored.status
    <2> DEFINE r == AppendMessage(stored, "tool_call")
    <2>1. /\ r \in Records /\ r.messages = Append(stored.messages, "tool_call")
          /\ r.calls = stored.calls /\ r.steps = stored.steps /\ r.status = stored.status
      BY <1>5
    <2>2. stored' = CreateToolCall(r, mode)
      BY <1>7
    <2> HIDE DEF r
    <2>3. /\ CreateToolCall(r, mode) \in Records
          /\ CreateToolCall(r, mode).status = r.status
          /\ CreateToolCall(r, mode).steps = r.steps
          /\ CreateToolCall(r, mode).messages = r.messages
          /\ CreateToolCall(r, mode).calls =
               Append(r.calls, [mode |-> mode, status |-> "in_progress", result |-> FALSE])
      BY <2>1, CreateToolCallType
    <2> QED BY <2>1, <2>2, <2>3
  <1>8. CASE \E mode \in Modes :
               stored' = CreateToolCall(AppendMessage(stored, "tool_call"), mode)
    BY <1>1, <1>3, <1>7, <1>8 DEF Emit
  <1> QED BY <1>1, <1>4, <1>6, <1>8 DEF MayRemain

-----------------------------------------------------------------------------
(* Type correctness. *)

(* What the type invariant says of the record, the events and pc, and what  *)
(* is left for an action to show of them.                                   *)
CoreType ==
    /\ pc \in PCs
    /\ stored \in Records
    /\ events \in Seq(Events)
    /\ storeFailed \in BOOLEAN
    /\ pc \in StepOpen \cup CallOpen => stored.steps # <<>>
    /\ pc \in CallOpen => stored.calls # <<>>

RestType ==
    /\ sock \in {"open", "closed", "gone"}
    /\ cancelEvent \in BOOLEAN
    /\ taskCancelled \in BOOLEAN
    /\ future \in {"none", "pending", "result", "cancelled"}
    /\ accepted \in Seq(Nat)
    /\ schemaAttempts \in Nat
    /\ consecutiveErrors \in Nat

(* The type invariant in two parts, proved one after the other.             *)
LEMMA TypeParts == TypeOK <=> CoreType /\ RestType
  BY DEF TypeOK, CoreType, RestType, PCs

(* An event of a known type and content is an event.                        *)
LEMMA EventType ==
    ASSUME NEW type \in EventTypes, NEW info \in EventInfos
    PROVE  Event(type, info) \in Events
  BY DEF Event, Events

(* The events the code emits are events.                                    *)
LEMMA Literals ==
    /\ Event("created", "created") \in Events
    /\ Event("in_progress", "in_progress") \in Events
    /\ Event("step.created", "none") \in Events
    /\ Event("delta", "none") \in Events
    /\ \A s \in StepStatuses : Event("step.completed", s) \in Events
    /\ \A s \in Statuses : Event("completed", s) \in Events
    /\ \A m \in Modes : /\ Event("tool_call.created", m) \in Events
                        /\ Event("tool_call.completed", m) \in Events
                        /\ Event("tool_result.waiting", m) \in Events
                        /\ Event("tool_result.received", m) \in Events
    /\ Event("error", "fatal") \in Events
    /\ Event("error", "tool") \in Events
  <1>1. {"created", "in_progress", "none", "fatal", "tool"} \in SUBSET EventInfos
    BY DEF EventInfos, Statuses
  <1>2. /\ StepStatuses \in SUBSET EventInfos
        /\ Statuses \in SUBSET EventInfos
        /\ Modes \in SUBSET EventInfos
    BY DEF EventInfos
  <1>3. EventTypes = {"created", "in_progress", "step.created", "delta", "step.completed",
               "tool_call.created", "tool_call.completed", "tool_result.waiting",
               "tool_result.received", "error", "completed"}
    BY DEF EventTypes
  <1> QED BY <1>1, <1>2, <1>3, EventType

(* _fail_response() leaves a well-typed state.                              *)
LEMMA FailResponseType ==
    ASSUME CoreType, NEW r \in Records, r.steps # <<>>, FailResponse(r)
    PROVE  CoreType'
  BY FailResponseEffect DEF CoreType, PCs, StepOpen, CallOpen, Between

(* _finalize_cancelled() leaves a well-typed state.                         *)
LEMMA FinalizeCancelledType ==
    ASSUME CoreType, NEW r \in Records, FinalizeCancelled(r)
    PROVE  CoreType'
  BY FinalizeCancelledEffect DEF CoreType, PCs, StepOpen, CallOpen, Between

(* A block whose last record has the rows its next await needs. *)
LEMMA BlockType ==
    ASSUME CoreType, NEW partial \in SUBSET Records, NEW final \in Records,
           NEW e \in Events, NEW next \in PCs, Block(partial, final, e, next),
           next \in StepOpen \cup CallOpen => final.steps # <<>>,
           next \in CallOpen => final.calls # <<>>
    PROVE  CoreType'
  BY ZenonT(30), BlockEffect DEF CoreType, PCs, StepOpen, CallOpen, Between

(* An emit whose next await finds the rows it needs.                        *)
LEMMA SayType ==
    ASSUME CoreType, NEW e \in Events, NEW next \in PCs, Say(e, next),
           next \in StepOpen \cup CallOpen => stored.steps # <<>>,
           next \in CallOpen => stored.calls # <<>>
    PROVE  CoreType'
  BY SayEffect DEF CoreType, PCs, StepOpen, CallOpen, Between

(* The head of the loop leaves a well-typed state: a step exists where its  *)
(* id is used.                                                              *)
LEMMA LoopHeadType ==
    ASSUME CoreType, NEW r \in Records, LoopHead(r)
    PROVE  CoreType'
  <1> USE DEF PCs, StepOpen, CallOpen, Between
  <1>1. CASE /\ Len(r.steps) >= MaxSteps
             /\ Block({r}, SetStatus(r, "failed"), Event("error", "fatal"), "fail_error")
    <2>1. SetStatus(r, "failed") \in Records
      BY SetStatusType DEF Statuses
    <2> QED BY <1>1, <2>1, Literals, BlockType
  <1>2. CASE cancelEvent /\ FinalizeCancelled(r)
    BY <1>2, FinalizeCancelledType
  <1>3. CASE Block({r}, StartStep(r), Event("step.created", "none"), "step_created")
    <2>1. StartStep(r) \in Records /\ StartStep(r).steps # <<>>
      BY StartStepType
    <2> QED BY <1>3, <2>1, Literals, BlockType
  <1> QED BY <1>1, <1>2, <1>3 DEF LoopHead, MaxStepsExceeded

(* THE RECORD, THE EVENTS AND pc: one step per action.                      *)
LEMMA CoreTypeStep ==
    ASSUME TypeOK, [Next]_vars
    PROVE  CoreType'
  <1>1. CoreType
    BY TypeParts
  <1> USE DEF ResumesAt, PCs, StepOpen, CallOpen, Between
  <1>2. CASE Start
    BY <1>2, <1>1, Literals, StartResponseType, BlockType DEF Start, CoreType
  <1>3. CASE SayInProgress
    BY <1>3, <1>1, Literals, SayType DEF SayInProgress, CoreType, Modes, Statuses
  <1>4. CASE NextStep
    BY <1>4, <1>1, LoopHeadType DEF NextStep, CoreType
  <1>5. CASE SendsRequest
    BY <1>5, <1>1 DEF SendsRequest, CoreType, vars, Unsuspended, Aborting
  <1>6. CASE StreamCancelled
    BY <1>6, <1>1, FinalizeCancelledType DEF StreamCancelled, CoreType
  <1>7. CASE StreamFails
    BY <1>7, <1>1, FailResponseType DEF StreamFails, CoreType
  <1>8. ASSUME NEW mode \in Modes, OutputIsToolCall(mode) PROVE CoreType'
    <2> DEFINE r == AppendMessage(stored, "tool_call")
    <2>1. CASE FailResponse(stored)
      BY <1>8, <2>1, <1>1, FailResponseType DEF OutputIsToolCall, CoreType
    <2>2. CASE Block({r}, CreateToolCall(r, mode),
                     Event("tool_call.created", mode), "call_created")
      <3>1. r \in Records /\ r.steps = stored.steps
        BY <1>1, AppendMessageType DEF CoreType, Kinds
      <3> HIDE DEF r
      <3>2. /\ CreateToolCall(r, mode) \in Records
            /\ CreateToolCall(r, mode).steps = r.steps
            /\ CreateToolCall(r, mode).calls # <<>>
        BY <3>1, <1>8, CreateToolCallType DEF OutputIsToolCall
      <3> QED BY <1>8, <2>2, <3>1, <3>2, <1>1, Literals, BlockType
              DEF OutputIsToolCall, CoreType
    <2> QED BY <1>8, <2>1, <2>2 DEF OutputIsToolCall
  <1>9. CASE OutputIsAnswer
    <2> DEFINE r == AppendMessage(stored, "assistant")
    <2>1. r \in Records /\ r.steps = stored.steps /\ r.steps # <<>>
      BY <1>9, <1>1, AppendMessageType DEF OutputIsAnswer, CoreType, Kinds
    <2>2. Block({r}, CompleteStep(r, "completed"),
                Event("step.completed", "completed"), "step_final")
      BY <1>9 DEF OutputIsAnswer
    <2> HIDE DEF r
    <2>3. CompleteStep(r, "completed") \in Records /\ CompleteStep(r, "completed").steps # <<>>
      BY <2>1, CompleteStepType DEF StepStatuses
    <2> QED BY <2>1, <2>2, <2>3, <1>1, Literals, BlockType DEF StepStatuses
  <1>10. CASE OutputIsInvalid
    <2> DEFINE r == AppendMessage(stored, "assistant")
             repair == AppendMessage(r, "repair")
    <2>1. r \in Records /\ r.steps # <<>>
      BY <1>10, <1>1, AppendMessageType DEF OutputIsInvalid, CoreType, Kinds
    <2>2. repair \in Records /\ repair.steps # <<>>
      BY <2>1, AppendMessageType DEF Kinds
    <2>3. \/ Block({r, repair}, CompleteStep(repair, "schema_retry"),
                   Event("step.completed", "schema_retry"), "step_next")
          \/ FailResponse(r)
      BY <1>10 DEF OutputIsInvalid
    <2> HIDE DEF r, repair
    <2>4. CompleteStep(repair, "schema_retry") \in Records
      BY <2>2, CompleteStepType DEF StepStatuses
    <2>5. {r, repair} \in SUBSET Records
      BY <2>1, <2>2
    <2> QED BY <2>1, <2>3, <2>4, <2>5, <1>1, Literals, BlockType, FailResponseType
            DEF StepStatuses
  <1>11. CASE AnswerCompletes
    BY <1>11, <1>1, Literals, SetStatusType, BlockType
       DEF AnswerCompletes, FinalizeCompleted, CoreType, Statuses
  <1>12. CASE CallServerTool
    BY <1>12, <1>1, Literals, SayType DEF CallServerTool, CoreType, Modes, Statuses
  <1>13. CASE BeginServerTool
    BY <1>13, <1>1 DEF BeginServerTool, CoreType, vars, Unsuspended, Aborting
  <1>14. CASE ServerToolSucceeds
    <2> DEFINE r == AddToolResult(stored)
    <2>1. r \in Records /\ r.steps # <<>> /\ r.calls # <<>>
      BY <1>14, <1>1, AddToolResultType DEF ServerToolSucceeds, CoreType
    <2>2. Block({r}, CompleteToolCall(r, "completed"),
                Event("tool_result.received", "server"), "server_received")
      BY <1>14 DEF ServerToolSucceeds
    <2> HIDE DEF r
    <2>3. /\ CompleteToolCall(r, "completed") \in Records
          /\ CompleteToolCall(r, "completed").steps # <<>>
          /\ CompleteToolCall(r, "completed").calls # <<>>
      BY <2>1, CompleteToolCallType
    <2> QED BY <2>1, <2>2, <2>3, <1>1, Literals, BlockType DEF Modes
  <1>15. CASE ServerToolRaises
    <2>1. /\ CompleteToolCall(stored, "failed") \in Records
          /\ CompleteToolCall(stored, "failed").steps # <<>>
          /\ CompleteToolCall(stored, "failed").calls # <<>>
      BY <1>15, <1>1, CompleteToolCallType
      DEF ServerToolRaises, CoreType
    <2> QED BY <1>15, <2>1, <1>1, Literals, BlockType DEF ServerToolRaises
  <1>16. CASE ServerToolTimesOut
    <2>1. /\ CompleteToolCall(stored, "failed") \in Records
          /\ CompleteToolCall(stored, "failed").steps # <<>>
      BY <1>16, <1>1, CompleteToolCallType DEF ServerToolTimesOut, CoreType
    <2> QED BY <1>16, <2>1, <1>1, FailResponseType DEF ServerToolTimesOut
  <1>17. CASE SayServerCallCompleted
    BY <1>17, <1>1, Literals, SayType DEF SayServerCallCompleted, CoreType, Modes, Statuses
  <1>18. CASE EndServerCall
    <2> DEFINE r == AppendMessage(stored, "tool_result")
    <2>1. r \in Records /\ r.steps # <<>>
      BY <1>18, <1>1, AppendMessageType DEF EndServerCall, CoreType, Kinds, AppendToolResult
    <2>2. Block({r}, CompleteStep(r, "completed"),
                Event("step.completed", "completed"), "step_next")
      BY <1>18 DEF EndServerCall, AppendToolResult
    <2> HIDE DEF r
    <2>3. CompleteStep(r, "completed") \in Records
      BY <2>1, CompleteStepType DEF StepStatuses
    <2> QED BY <2>1, <2>2, <2>3, <1>1, Literals, BlockType DEF StepStatuses
  <1>19. CASE FeedErrorBack
    <2> DEFINE r == AppendMessage(stored, "tool_error")
    <2>1. r \in Records /\ r.steps # <<>>
      BY <1>19, <1>1, AppendMessageType DEF FeedErrorBack, CoreType, Kinds, AppendToolError
    <2>2. \/ Block({r}, CompleteStep(r, "tool_error_retry"),
                   Event("step.completed", "tool_error_retry"), "step_next")
          \/ FailResponse(r)
      BY <1>19 DEF FeedErrorBack, AppendToolError
    <2> HIDE DEF r
    <2>3. CompleteStep(r, "tool_error_retry") \in Records
      BY <2>1, CompleteStepType DEF StepStatuses
    <2> QED BY <2>1, <2>2, <2>3, <1>1, Literals, BlockType, FailResponseType
            DEF StepStatuses
  <1>20. CASE CallClientTool
    <2>1. /\ CompleteStep(stored, "waiting_tool") \in Records
          /\ CompleteStep(stored, "waiting_tool").steps # <<>>
          /\ CompleteStep(stored, "waiting_tool").calls # <<>>
      BY <1>20, <1>1, CompleteStepType
      DEF CallClientTool, CoreType, StepStatuses
    <2> QED BY <1>20, <2>1, <1>1, Literals, BlockType DEF CallClientTool, StepStatuses
  <1>21. CASE SayWaiting
    BY <1>21, <1>1, Literals, SayType DEF SayWaiting, CoreType, Modes, Statuses
  <1>22. CASE WaitForResult
    BY <1>22, <1>1 DEF WaitForResult, CoreType, vars, Unsuspended, Aborting
  <1>23. CASE ResultArrives
    <2> DEFINE r == AddToolResult(stored)
    <2>1. r \in Records /\ r.steps # <<>> /\ r.calls # <<>>
      BY <1>23, <1>1, AddToolResultType DEF ResultArrives, CoreType, EndWait
    <2>2. Block({r}, CompleteToolCall(r, "completed"),
                Event("tool_result.received", "client"), "client_received")
      BY <1>23 DEF ResultArrives, EndWait
    <2> HIDE DEF r
    <2>3. /\ CompleteToolCall(r, "completed") \in Records
          /\ CompleteToolCall(r, "completed").steps # <<>>
          /\ CompleteToolCall(r, "completed").calls # <<>>
      BY <2>1, CompleteToolCallType
    <2> QED BY <2>1, <2>2, <2>3, <1>1, Literals, BlockType DEF Modes
  <1>24. CASE NoResultArrives
    <2>1. /\ CompleteToolCall(stored, "failed") \in Records
          /\ CompleteToolCall(stored, "failed").steps # <<>>
      BY <1>24, <1>1, CompleteToolCallType DEF NoResultArrives, CoreType, EndWait
    <2> QED BY <1>24, <2>1, <1>1, FailResponseType, FinalizeCancelledType
            DEF NoResultArrives, CoreType, EndWait
  <1>25. CASE SayClientCallCompleted
    BY <1>25, <1>1, Literals, SayType DEF SayClientCallCompleted, CoreType, Modes, Statuses
  <1>26. CASE EndClientCall
    BY <1>26, <1>1, AppendMessageType, LoopHeadType DEF EndClientCall, CoreType, Kinds,
       AppendToolResult
  <1>27. CASE SayFailed
    BY <1>27, <1>1, Literals, SayType DEF SayFailed, CoreType, Modes, Statuses
  <1>28. CASE Return
    BY <1>28, <1>1 DEF Return, CoreType, vars, Unsuspended, Aborting
  <1>29. CASE SendFails
    BY <1>29, <1>1 DEF SendFails, CoreType, vars, Unsuspended, Aborting
  <1>30. CASE DeliverCancel
    BY <1>30, <1>1, SetStatusType DEF DeliverCancel, CoreType, Statuses, Aborting
  <1>31. CASE Fragment
    <2>1. CASE /\ events' = IF LastType = "delta" THEN events
                             ELSE Append(events, Event("delta", "none"))
               /\ UNCHANGED <<pc, stored, storeFailed>>
      BY <2>1, <1>1, Literals, AppendProperties DEF CoreType
    <2>2. CASE FailResponse(stored)
      BY <1>31, <2>2, <1>1, FailResponseType DEF Fragment, CoreType
    <2> QED BY <1>31, <2>1, <2>2 DEF Fragment
  <1>32. CASE CancelRequest
    BY <1>32, <1>1 DEF CancelRequest, CoreType, vars, Unsuspended, Aborting
  <1>33. ASSUME NEW k \in 1..Len(stored.calls), SubmitResult(k) PROVE CoreType'
    BY <1>33, <1>1 DEF SubmitResult, CoreType, vars, Unsuspended, Aborting
  <1>34. CASE SocketCloses
    BY <1>34, <1>1 DEF SocketCloses, CoreType, vars, Unsuspended, Aborting
  <1>35. CASE Disconnect
    BY <1>35, <1>1 DEF Disconnect, CoreType, vars, Unsuspended, Aborting
  <1>36. CASE Finished
    BY <1>36, <1>1 DEF Finished, CoreType, vars, Unsuspended, Aborting
  <1>37. CASE UNCHANGED vars
    BY <1>37, <1>1 DEF vars, CoreType
  <1>38. CASE Raises
    BY <1>38, <1>1, RaisesEffect DEF CoreType
  <1> QED
    BY <1>2, <1>3, <1>4, <1>5, <1>6, <1>7, <1>8, <1>9, <1>10, <1>11, <1>12, <1>13, <1>14,
       <1>15, <1>16, <1>17, <1>18, <1>19, <1>20, <1>21, <1>22, <1>23, <1>24, <1>25, <1>26,
       <1>27, <1>28, <1>29, <1>30, <1>31, <1>32, <1>33, <1>34, <1>35, <1>36, <1>37, <1>38,
       RaisesCases
    DEF Next, TaskStep, Environment

(* The other variables: each action that writes one writes a value of its   *)
(* type.                                                                    *)
(* THE OTHER VARIABLES: one step per action that writes them.               *)
LEMMA RestTypeStep ==
    ASSUME TypeOK, [Next]_vars
    PROVE  RestType'
  <1>1. RestType /\ stored \in Records
    BY TypeParts DEF CoreType
  <1> USE DEF RestType, Locals, Outside, ResumesAt
  <1>2. CASE EndServerCall
    <2>1. consecutiveErrors' \in Nat
      BY <1>2, <1>1 DEF EndServerCall, AppendToolResult
    <2> QED BY <1>2, <1>1, <2>1 DEF EndServerCall, AppendToolResult
  <1>3. CASE Start \/ SayInProgress \/ NextStep \/ SendsRequest \/ StreamCancelled \/ StreamFails
    BY <1>3, <1>1 DEF Start, SayInProgress, NextStep, SendsRequest, StreamCancelled, StreamFails
  <1>4. CASE OutputIsInvalid
    <2>1. schemaAttempts' \in Nat
      BY <1>4, <1>1 DEF OutputIsInvalid
    <2> QED BY <1>4, <1>1, <2>1 DEF OutputIsInvalid
  <1>5. CASE FeedErrorBack
    <2>1. consecutiveErrors' \in Nat
      BY <1>5, <1>1 DEF FeedErrorBack, AppendToolError
    <2> QED BY <1>5, <1>1, <2>1 DEF FeedErrorBack, AppendToolError
  <1>6. CASE OutputIsAnswer \/ AnswerCompletes \/ CallServerTool \/ BeginServerTool
    BY <1>6, <1>1 DEF OutputIsAnswer, AnswerCompletes, CallServerTool, BeginServerTool
  <1>7. CASE ServerToolSucceeds \/ ServerToolRaises \/ ServerToolTimesOut \/ SayServerCallCompleted
    BY <1>7, <1>1 DEF ServerToolSucceeds, ServerToolRaises, ServerToolTimesOut,
       SayServerCallCompleted
  <1>8. CASE CallClientTool \/ SayWaiting \/ WaitForResult \/ ResultArrives \/
             NoResultArrives \/ SayClientCallCompleted \/ EndClientCall
    BY <1>8, <1>1 DEF CallClientTool, SayWaiting, WaitForResult, ResultArrives,
       NoResultArrives, SayClientCallCompleted, EndClientCall, EndWait, AppendToolResult
  <1>9. CASE SayFailed \/ Return \/ SendFails \/ DeliverCancel \/ Fragment
    BY <1>9, <1>1 DEF SayFailed, Return, SendFails, DeliverCancel, Fragment
  <1>10. CASE CancelRequest \/ SocketCloses \/ Disconnect \/ Finished
    BY <1>10, <1>1 DEF CancelRequest, SocketCloses, Disconnect, Finished, CancelPending, vars
  <1>11. ASSUME NEW mode \in Modes, OutputIsToolCall(mode) PROVE RestType'
    BY <1>11, <1>1 DEF OutputIsToolCall
  <1>12. ASSUME NEW k \in 1..Len(stored.calls), SubmitResult(k) PROVE RestType'
    <2>1. k \in Nat
      BY <1>12, <1>1, RecordFields, LenProperties
    <2> QED BY <1>12, <1>1, <2>1, AppendProperties DEF SubmitResult
  <1>13. CASE UNCHANGED vars
    BY <1>13, <1>1 DEF vars
  <1>14. CASE Raises
    BY <1>14, <1>1 DEF Raises
  <1> QED
    BY <1>2, <1>3, <1>4, <1>5, <1>6, <1>7, <1>8, <1>9, <1>10, <1>11, <1>12, <1>13, <1>14,
       RaisesCases
    DEF Next, TaskStep, Environment

(* TYPE CORRECTNESS: the variables keep their types, and the current step   *)
(* and the current call exist wherever _run_inner() uses step_id and        *)
(* tool_call_id.                                                            *)
THEOREM TypeCorrect == Spec => []TypeOK
  <1>1. Init => TypeOK
    <2>1. NoRecord \in Records
      BY EmptySeq DEF NoRecord, Records, Statuses
    <2>2. <<>> \in Seq(Events) /\ <<>> \in Seq(Nat) /\ 0 \in Nat
      BY EmptySeq
    <2> QED BY <2>1, <2>2 DEF Init, TypeOK, StepOpen, CallOpen, Between
  <1>2. TypeOK /\ [Next]_vars => TypeOK'
    <2>1. ASSUME TypeOK, [Next]_vars PROVE CoreType' /\ RestType'
      BY <2>1, CoreTypeStep, RestTypeStep
    <2> QED BY <2>1 DEF TypeOK, CoreType, RestType, PCs
  <1> QED BY <1>1, <1>2, PTL DEF Spec

-----------------------------------------------------------------------------
(* Which rows are open. *)

(* When all rows are closed, the earlier ones are.                          *)
LEMMA ClosedIsEarlierClosed ==
    ASSUME NEW r
    PROVE  /\ StepsClosed(r) => EarlierStepsClosed(r)
           /\ CallsClosed(r) => EarlierCallsClosed(r)
  BY DEF StepsClosed, CallsClosed, EarlierStepsClosed, EarlierCallsClosed

(* Only the rows matter to whether they are closed.                         *)
LEMMA SameRows ==
    ASSUME NEW r, NEW q
    PROVE  /\ r.steps = q.steps => /\ StepsClosed(r) <=> StepsClosed(q)
                                  /\ EarlierStepsClosed(r) <=> EarlierStepsClosed(q)
           /\ r.calls = q.calls => /\ CallsClosed(r) <=> CallsClosed(q)
                                  /\ EarlierCallsClosed(r) <=> EarlierCallsClosed(q)
  BY DEF StepsClosed, CallsClosed, EarlierStepsClosed, EarlierCallsClosed

(* start_step() opens the last step's row; the earlier ones stay closed.    *)
LEMMA StartStepRows ==
    ASSUME NEW r \in Records, StepsClosed(r)
    PROVE  EarlierStepsClosed(StartStep(r))
  <1> DEFINE new == Append(r.steps, "in_progress")
  <1>1. r.steps \in Seq(StepStatuses) /\ "in_progress" \in StepStatuses
    BY RecordFields DEF StepStatuses
  <1>2. /\ Len(new) = Len(r.steps) + 1
        /\ \A n \in 1..Len(r.steps) : new[n] = r.steps[n]
        /\ Len(r.steps) \in Nat
    BY <1>1, AppendProperties, LenProperties
  <1> HIDE DEF new
  <1>3. \A n \in 1..Len(new) : n # Len(new) => new[n] # "in_progress"
    BY <1>2 DEF StepsClosed
  <1>4. StartStep(r).steps = new
    BY StartStepType DEF new
  <1> QED BY <1>3, <1>4 DEF EarlierStepsClosed

(* complete_step() closes the last step's row, and so all of them.          *)
LEMMA CompleteStepRows ==
    ASSUME NEW r \in Records, r.steps # <<>>, EarlierStepsClosed(r),
           NEW s \in StepStatuses, s # "in_progress"
    PROVE  StepsClosed(CompleteStep(r, s))
  <1> DEFINE new == [r.steps EXCEPT ![Len(r.steps)] = s]
  <1>1. /\ Len(new) = Len(r.steps)
        /\ new[Len(r.steps)] = s
        /\ \A n \in 1..Len(r.steps) : n # Len(r.steps) => new[n] = r.steps[n]
    BY RecordFields, ReplaceLast
  <1> HIDE DEF new
  <1>2. \A n \in 1..Len(new) : new[n] # "in_progress"
    BY <1>1 DEF EarlierStepsClosed
  <1>3. CompleteStep(r, s).steps = new
    BY CompleteStepType DEF new
  <1> QED BY <1>2, <1>3 DEF StepsClosed

(* create_tool_call() opens the last call's row; the earlier ones stay      *)
(* closed.                                                                  *)
LEMMA CreateToolCallRows ==
    ASSUME NEW r \in Records, NEW mode \in Modes, CallsClosed(r)
    PROVE  EarlierCallsClosed(CreateToolCall(r, mode))
  <1> DEFINE row == [mode |-> mode, status |-> "in_progress", result |-> FALSE]
             new == Append(r.calls, row)
  <1>1. row \in CallRows
    BY DEF CallRows
  <1>2. /\ Len(new) = Len(r.calls) + 1
        /\ \A n \in 1..Len(r.calls) : new[n] = r.calls[n]
        /\ Len(r.calls) \in Nat
    <2> HIDE DEF row
    <2> QED BY <1>1, RecordFields, AppendProperties, LenProperties
  <1>3. CreateToolCall(r, mode).calls = new
    BY CreateToolCallType
  <1> HIDE DEF row, new
  <1>4. \A n \in 1..Len(new) : n # Len(new) => new[n].status # "in_progress"
    BY <1>2 DEF CallsClosed
  <1> QED BY <1>3, <1>4 DEF EarlierCallsClosed

(* complete_tool_call() closes the last call's row, and so all of them.     *)
LEMMA CompleteToolCallRows ==
    ASSUME NEW r \in Records, r.calls # <<>>, EarlierCallsClosed(r),
           NEW s \in {"completed", "failed"}
    PROVE  CallsClosed(CompleteToolCall(r, s))
  <1> DEFINE last == [r.calls[Len(r.calls)] EXCEPT !.status = s]
             new == [r.calls EXCEPT ![Len(r.calls)] = last]
  <1>1. last \in CallRows /\ last.status = s /\ CompleteToolCall(r, s).calls = new
    BY CompleteToolCallType
  <1> HIDE DEF last
  <1>2. /\ Len(new) = Len(r.calls)
        /\ new[Len(r.calls)] = last
        /\ \A n \in 1..Len(r.calls) : n # Len(r.calls) => new[n] = r.calls[n]
    BY <1>1, RecordFields, ReplaceLast
  <1> HIDE DEF new
  <1>3. \A n \in 1..Len(new) : new[n].status # "in_progress"
    BY <1>1, <1>2 DEF EarlierCallsClosed
  <1> QED BY <1>1, <1>3 DEF CallsClosed

(* add_tool_result() opens and closes no row.                               *)
LEMMA AddToolResultRows ==
    ASSUME NEW r \in Records, r.calls # <<>>, EarlierCallsClosed(r)
    PROVE  EarlierCallsClosed(AddToolResult(r))
  <1> DEFINE last == [r.calls[Len(r.calls)] EXCEPT !.result = TRUE]
             new == [r.calls EXCEPT ![Len(r.calls)] = last]
  <1>1. last \in CallRows /\ AddToolResult(r).calls = new
    BY AddToolResultType
  <1> HIDE DEF last
  <1>2. /\ Len(new) = Len(r.calls)
        /\ \A n \in 1..Len(r.calls) : n # Len(r.calls) => new[n] = r.calls[n]
    BY <1>1, RecordFields, ReplaceLast
  <1> HIDE DEF new
  <1>3. \A n \in 1..Len(new) : n # Len(new) => new[n].status # "in_progress"
    BY <1>2 DEF EarlierCallsClosed
  <1> QED BY <1>1, <1>3 DEF EarlierCallsClosed

(* A block keeps the rows in order when its last record does at its next    *)
(* await; after a raise nothing is claimed.                                 *)
LEMMA BlockRows ==
    ASSUME CoreType, NEW partial \in SUBSET Records, NEW final \in Records,
           NEW e \in Events, NEW next, Block(partial, final, e, next),
           ~storeFailed => RowsAt(final, next)
    PROVE  RowsInv'
  <1>1. SUFFICES ASSUME ~storeFailed' PROVE RowsAt(stored', pc')
    BY DEF RowsInv, RowsAt, StepsClosed, CallsClosed, EarlierStepsClosed, EarlierCallsClosed
  <1>2. /\ ~storeFailed
        /\ stored' = final
        /\ pc' \in {next, "done"}
    BY <1>1, BlockEffect DEF CoreType
  <1> QED BY <1>2 DEF RowsAt, Ending

(* An emit keeps the rows; its next await must allow them.                  *)
LEMMA SayRows ==
    ASSUME CoreType, RowsInv, NEW e \in Events, NEW next, Say(e, next),
           ~storeFailed => RowsAt(stored, next)
    PROVE  RowsInv'
  <1>1. /\ stored' = stored
        /\ storeFailed' = storeFailed
        /\ pc' \in {next, "done"}
    BY SayEffect DEF CoreType
  <1>2. ~storeFailed => RowsAt(stored, pc')
    BY <1>1 DEF RowsAt, Ending
  <1> QED BY <1>1, <1>2 DEF RowsInv, RowsAt, StepsClosed, CallsClosed,
                          EarlierStepsClosed, EarlierCallsClosed

(* _fail_response() closes the current step; the calls must be closed       *)
(* before.                                                                  *)
LEMMA FailResponseRows ==
    ASSUME CoreType, NEW r \in Records, r.steps # <<>>, FailResponse(r),
           ~storeFailed => EarlierStepsClosed(r) /\ CallsClosed(r)
    PROVE  RowsInv'
  <1> DEFINE failed == SetStatus(r, "failed")
             final == CompleteStep(failed, "failed")
  <1>1. /\ failed \in Records
        /\ failed.steps = r.steps
        /\ failed.calls = r.calls
    BY SetStatusType DEF Statuses
  <1>2. Block({r, failed}, final, Event("error", "fatal"), "fail_error")
    BY DEF FailResponse
  <1> HIDE DEF failed
  <1>3. final \in Records /\ final.calls = r.calls
    BY <1>1, CompleteStepType DEF StepStatuses
  <1>4. ~storeFailed => EarlierStepsClosed(failed) /\ CallsClosed(final)
    BY <1>1, <1>3 DEF EarlierStepsClosed, CallsClosed
  <1>5. ~storeFailed => StepsClosed(final)
    BY <1>1, <1>4, CompleteStepRows DEF StepStatuses
  <1> HIDE DEF final
  <1>6. ~storeFailed => RowsAt(final, "fail_error")
    BY <1>4, <1>5 DEF RowsAt, Ending
  <1>7. {r, failed} \in SUBSET Records
    BY <1>1
  <1> QED BY <1>2, <1>3, <1>6, <1>7, BlockRows, Literals

(* _finalize_cancelled() sets a status that demands nothing of the rows.    *)
LEMMA FinalizeCancelledRows ==
    ASSUME CoreType, NEW r \in Records, FinalizeCancelled(r)
    PROVE  RowsInv'
  <1>1. /\ SetStatus(r, "cancelled") \in Records
        /\ SetStatus(r, "cancelled").status = "cancelled"
    BY SetStatusType DEF Statuses
  <1>2. RowsAt(SetStatus(r, "cancelled"), "terminal")
    BY <1>1 DEF RowsAt, Ending
  <1> QED BY <1>1, <1>2, BlockRows, Literals DEF FinalizeCancelled, Statuses

(* The head of the loop finds every row closed and opens one step at most.  *)
LEMMA LoopHeadRows ==
    ASSUME CoreType, NEW r \in Records, LoopHead(r),
           ~storeFailed => /\ StepsClosed(r) /\ CallsClosed(r)
                           /\ r.status \notin {"completed", "failed"}
    PROVE  RowsInv'
  <1>1. CASE Block({r}, SetStatus(r, "failed"), Event("error", "fatal"), "fail_error")
    <2> DEFINE final == SetStatus(r, "failed")
    <2>1. final \in Records /\ final.steps = r.steps /\ final.calls = r.calls
      BY SetStatusType DEF Statuses
    <2> HIDE DEF final
    <2>2. ~storeFailed => RowsAt(final, "fail_error")
      <3>1. ~storeFailed => StepsClosed(final) /\ CallsClosed(final)
        BY <2>1 DEF StepsClosed, CallsClosed
      <3> QED BY <3>1 DEF RowsAt, Ending
    <2> QED BY <1>1, <2>1, <2>2, BlockRows, Literals DEF final
  <1>2. CASE FinalizeCancelled(r)
    BY <1>2, FinalizeCancelledRows
  <1>3. CASE Block({r}, StartStep(r), Event("step.created", "none"), "step_created")
    <2> DEFINE final == StartStep(r)
    <2>1. final \in Records /\ final.calls = r.calls /\ final.status = r.status
      BY StartStepType
    <2>2. ~storeFailed => EarlierStepsClosed(final)
      BY StartStepRows
    <2> HIDE DEF final
    <2>3. ~storeFailed => RowsAt(final, "step_created")
      BY <2>1, <2>2, SameRows, ClosedIsEarlierClosed
      DEF RowsAt, Ending, StepOpenAt, CallOpenAt
    <2> QED BY <1>3, <2>1, <2>3, BlockRows, Literals DEF final
  <1> QED BY <1>1, <1>2, <1>3 DEF LoopHead, MaxStepsExceeded

(* A block that ends by closing the current step, with every call closed. *)
LEMMA CompleteStepBlock ==
    ASSUME CoreType, NEW partial \in SUBSET Records, NEW r \in Records, r.steps # <<>>,
           NEW s \in StepStatuses, s # "in_progress", NEW next,
           Block(partial, CompleteStep(r, s), Event("step.completed", s), next),
           ~storeFailed => /\ EarlierStepsClosed(r) /\ CallsClosed(r)
                           /\ r.status \notin {"completed", "failed"}
    PROVE  RowsInv'
  <1> DEFINE final == CompleteStep(r, s)
  <1>1. final \in Records /\ final.status = r.status /\ final.calls = r.calls
    BY CompleteStepType
  <1>2. ~storeFailed => StepsClosed(final)
    BY CompleteStepRows
  <1> HIDE DEF final
  <1>3. ~storeFailed => CallsClosed(final)
    BY <1>1 DEF CallsClosed
  <1>4. ~storeFailed => RowsAt(final, next)
    BY <1>1, <1>2, <1>3, ClosedIsEarlierClosed DEF RowsAt
  <1> QED BY <1>1, <1>4, BlockRows, Literals DEF final

(* A block that ends by closing the current call, at an await where the     *)
(* step is open or was closed before.                                       *)
LEMMA CompleteCallBlock ==
    ASSUME CoreType, NEW partial \in SUBSET Records, NEW r \in Records, r.calls # <<>>,
           NEW s \in {"completed", "failed"}, NEW e \in Events, NEW next,
           Block(partial, CompleteToolCall(r, s), e, next),
           ~storeFailed => /\ EarlierStepsClosed(r) /\ EarlierCallsClosed(r)
                           /\ next \in StepOpenAt \/ StepsClosed(r)
                           /\ r.status \notin {"completed", "failed"}
    PROVE  RowsInv'
  <1> DEFINE final == CompleteToolCall(r, s)
  <1>1. final \in Records /\ final.status = r.status /\ final.steps = r.steps
    BY CompleteToolCallType
  <1>2. ~storeFailed => CallsClosed(final)
    BY CompleteToolCallRows
  <1> HIDE DEF final
  <1>3. ~storeFailed => /\ EarlierStepsClosed(final)
                        /\ next \in StepOpenAt \/ StepsClosed(final)
    BY <1>1 DEF EarlierStepsClosed, StepsClosed
  <1>4. ~storeFailed => RowsAt(final, next)
    BY <1>1, <1>2, <1>3, ClosedIsEarlierClosed DEF RowsAt
  <1> QED BY <1>1, <1>4, BlockRows, Literals DEF final

(* append_message() opens and closes no row.                                *)
LEMMA AppendMessageRows ==
    ASSUME NEW r \in Records, NEW kind \in Kinds
    PROVE  /\ StepsClosed(AppendMessage(r, kind)) <=> StepsClosed(r)
           /\ CallsClosed(AppendMessage(r, kind)) <=> CallsClosed(r)
           /\ EarlierStepsClosed(AppendMessage(r, kind)) <=> EarlierStepsClosed(r)
           /\ EarlierCallsClosed(AppendMessage(r, kind)) <=> EarlierCallsClosed(r)
           /\ AppendMessage(r, kind).status = r.status
  BY AppendMessageType
  DEF StepsClosed, CallsClosed, EarlierStepsClosed, EarlierCallsClosed

(* THE ROWS: one step per action. *)
LEMMA RowsStep ==
    ASSUME TypeOK, RowsInv, [Next]_vars
    PROVE  RowsInv'
  <1>1. CoreType
    BY TypeParts
  <1>2. ~storeFailed => RowsAt(stored, pc)
    BY DEF RowsInv
  <1> USE DEF ResumesAt, StepOpen, CallOpen, Ending, StepOpenAt, CallOpenAt
  <1>3. CASE Start
    <2> DEFINE final == StartResponse(stored)
    <2>1. /\ final \in Records
          /\ final.status = "in_progress"
          /\ final.steps = stored.steps
          /\ final.calls = stored.calls
      BY <1>1, StartResponseType DEF CoreType
    <2> HIDE DEF final
    <2>2. ~storeFailed => StepsClosed(stored) /\ CallsClosed(stored)
      BY <1>3, <1>2 DEF Start, RowsAt
    <2>3. ~storeFailed => /\ StepsClosed(final) /\ CallsClosed(final)
                          /\ EarlierStepsClosed(final) /\ EarlierCallsClosed(final)
      BY <2>1, <2>2 DEF StepsClosed, CallsClosed, EarlierStepsClosed, EarlierCallsClosed
    <2>4. ~storeFailed => RowsAt(final, "created")
      BY <2>1, <2>3 DEF RowsAt
    <2> QED BY <1>3, <2>1, <2>4, <1>1, BlockRows, Literals DEF Start, final
  <1>4. CASE SayInProgress
    <2>1. ~storeFailed => RowsAt(stored, "in_progress")
      BY <1>4, <1>2 DEF SayInProgress, RowsAt
    <2> QED BY <1>4, <2>1, <1>1, Literals, SayRows DEF SayInProgress, Modes, Statuses
  <1>5. CASE CallServerTool
    <2>1. ~storeFailed => RowsAt(stored, "server_waiting")
      BY <1>5, <1>2 DEF CallServerTool, RowsAt
    <2> QED BY <1>5, <2>1, <1>1, Literals, SayRows DEF CallServerTool, Modes, Statuses
  <1>6. CASE SayServerCallCompleted
    <2>1. ~storeFailed => RowsAt(stored, "server_call_done")
      BY <1>6, <1>2 DEF SayServerCallCompleted, RowsAt
    <2> QED BY <1>6, <2>1, <1>1, Literals, SayRows DEF SayServerCallCompleted, Modes, Statuses
  <1>7. CASE SayWaiting
    <2>1. ~storeFailed => RowsAt(stored, "client_waiting")
      BY <1>7, <1>2 DEF SayWaiting, RowsAt
    <2> QED BY <1>7, <2>1, <1>1, Literals, SayRows DEF SayWaiting, Modes, Statuses
  <1>8. CASE SayClientCallCompleted
    <2>1. ~storeFailed => RowsAt(stored, "client_call_done")
      BY <1>8, <1>2 DEF SayClientCallCompleted, RowsAt
    <2> QED BY <1>8, <2>1, <1>1, Literals, SayRows DEF SayClientCallCompleted, Modes, Statuses
  <1>9. CASE SayFailed
    <2>1. ~storeFailed => RowsAt(stored, "terminal") /\ RowsAt(stored, "abort_terminal")
      BY <1>9, <1>2 DEF SayFailed, RowsAt
    <2> QED BY <1>9, <2>1, <1>1, Literals, SayRows DEF SayFailed, Statuses
  <1>10. CASE NextStep
    <2>1. ~storeFailed => /\ StepsClosed(stored) /\ CallsClosed(stored)
                          /\ stored.status \notin {"completed", "failed"}
      BY <1>10, <1>2 DEF NextStep, RowsAt
    <2> QED BY <1>10, <2>1, <1>1, LoopHeadRows DEF NextStep, CoreType
  <1>11. CASE EndClientCall
    <2> DEFINE r == AppendMessage(stored, "tool_result")
    <2>1. ~storeFailed => /\ StepsClosed(stored) /\ CallsClosed(stored)
                          /\ stored.status \notin {"completed", "failed"}
      BY <1>11, <1>2 DEF EndClientCall, RowsAt, AppendToolResult
    <2>2. r \in Records
      BY <1>1, AppendMessageType DEF CoreType, Kinds
    <2>3. ~storeFailed => /\ StepsClosed(r) /\ CallsClosed(r)
                          /\ r.status \notin {"completed", "failed"}
      BY <2>1, <1>1, AppendMessageRows DEF CoreType, Kinds
    <2>4. LoopHead(r)
      BY <1>11 DEF EndClientCall, AppendToolResult
    <2> HIDE DEF r
    <2> QED BY <2>2, <2>3, <2>4, <1>1, LoopHeadRows
  <1>12. CASE StreamCancelled
    BY <1>12, <1>1, FinalizeCancelledRows DEF StreamCancelled, CoreType
  <1>13. CASE StreamFails
    <2>1. ~storeFailed => EarlierStepsClosed(stored) /\ CallsClosed(stored)
      BY <1>13, <1>2 DEF StreamFails, RowsAt
    <2> QED BY <1>13, <2>1, <1>1, FailResponseRows DEF StreamFails, CoreType
  <1>14. CASE Fragment
    <2>1. CASE FailResponse(stored)
      <3>1. ~storeFailed => EarlierStepsClosed(stored) /\ CallsClosed(stored)
        BY <1>14, <1>2 DEF Fragment, RowsAt
      <3> QED BY <1>14, <2>1, <3>1, <1>1, FailResponseRows DEF Fragment, CoreType
    <2>2. CASE UNCHANGED <<pc, stored, storeFailed>>
      BY <2>2 DEF RowsInv, RowsAt, StepsClosed, CallsClosed, EarlierStepsClosed, EarlierCallsClosed
    <2> QED BY <1>14, <2>1, <2>2 DEF Fragment
  <1>15. ASSUME NEW mode \in Modes, OutputIsToolCall(mode) PROVE RowsInv'
    <2> DEFINE r == AppendMessage(stored, "tool_call")
               final == CreateToolCall(r, mode)
    <2>1. ~storeFailed => /\ EarlierStepsClosed(stored) /\ CallsClosed(stored)
                          /\ stored.status \notin {"completed", "failed"}
      BY <1>15, <1>2 DEF OutputIsToolCall, RowsAt
    <2>2. CASE FailResponse(stored)
      BY <1>15, <2>1, <2>2, <1>1, FailResponseRows DEF OutputIsToolCall, CoreType
    <2>3. CASE Block({r}, final, Event("tool_call.created", mode), "call_created")
      <3>1. r \in Records
        BY <1>1, AppendMessageType DEF CoreType, Kinds
      <3>2. ~storeFailed => /\ EarlierStepsClosed(r) /\ CallsClosed(r)
                            /\ r.status \notin {"completed", "failed"}
        BY <2>1, <1>1, AppendMessageRows DEF CoreType, Kinds
      <3> HIDE DEF r
      <3>3. final \in Records /\ final.status = r.status /\ final.steps = r.steps
        BY <1>15, <3>1, CreateToolCallType
      <3>4. ~storeFailed => EarlierCallsClosed(final)
        BY <1>15, <3>1, <3>2, CreateToolCallRows
      <3> HIDE DEF final
      <3>5. ~storeFailed => EarlierStepsClosed(final)
        BY <3>2, <3>3 DEF EarlierStepsClosed
      <3>6. ~storeFailed => RowsAt(final, "call_created")
        BY <3>2, <3>3, <3>4, <3>5 DEF RowsAt
      <3> QED BY <1>15, <2>3, <3>1, <3>3, <3>6, <1>1, BlockRows, Literals
    <2> QED BY <1>15, <2>2, <2>3 DEF OutputIsToolCall
  <1>16. CASE OutputIsAnswer
    <2> DEFINE r == AppendMessage(stored, "assistant")
    <2>1. r \in Records /\ r.steps # <<>>
      BY <1>16, <1>1, AppendMessageType DEF OutputIsAnswer, CoreType, Kinds
    <2>2. ~storeFailed => /\ EarlierStepsClosed(stored) /\ CallsClosed(stored)
                          /\ stored.status \notin {"completed", "failed"}
      BY <1>16, <1>2 DEF OutputIsAnswer, RowsAt
    <2>3. ~storeFailed => /\ EarlierStepsClosed(r) /\ CallsClosed(r)
                          /\ r.status \notin {"completed", "failed"}
      BY <2>2, <1>1, AppendMessageRows DEF CoreType, Kinds
    <2>4. Block({r}, CompleteStep(r, "completed"),
                Event("step.completed", "completed"), "step_final")
      BY <1>16 DEF OutputIsAnswer
    <2> HIDE DEF r
    <2> QED BY <2>1, <2>3, <2>4, <1>1, CompleteStepBlock DEF StepStatuses
  <1>17. CASE EndServerCall
    <2> DEFINE r == AppendMessage(stored, "tool_result")
    <2>1. r \in Records /\ r.steps # <<>>
      BY <1>17, <1>1, AppendMessageType DEF EndServerCall, CoreType, Kinds, AppendToolResult
    <2>2. ~storeFailed => /\ EarlierStepsClosed(stored) /\ CallsClosed(stored)
                          /\ stored.status \notin {"completed", "failed"}
      BY <1>17, <1>2 DEF EndServerCall, RowsAt, AppendToolResult
    <2>3. ~storeFailed => /\ EarlierStepsClosed(r) /\ CallsClosed(r)
                          /\ r.status \notin {"completed", "failed"}
      BY <2>2, <1>1, AppendMessageRows DEF CoreType, Kinds
    <2>4. Block({r}, CompleteStep(r, "completed"),
                Event("step.completed", "completed"), "step_next")
      BY <1>17 DEF EndServerCall, AppendToolResult
    <2> HIDE DEF r
    <2> QED BY <2>1, <2>3, <2>4, <1>1, CompleteStepBlock DEF StepStatuses
  <1>18. CASE FeedErrorBack
    <2> DEFINE r == AppendMessage(stored, "tool_error")
               final == CompleteStep(r, "tool_error_retry")
    <2>1. r \in Records /\ r.steps # <<>>
      BY <1>18, <1>1, AppendMessageType DEF FeedErrorBack, CoreType, Kinds, AppendToolError
    <2>2. ~storeFailed => /\ EarlierStepsClosed(stored) /\ CallsClosed(stored)
                          /\ stored.status \notin {"completed", "failed"}
      BY <1>18, <1>2 DEF FeedErrorBack, RowsAt, AppendToolError
    <2>3. ~storeFailed => /\ EarlierStepsClosed(r) /\ CallsClosed(r)
                          /\ r.status \notin {"completed", "failed"}
      BY <2>2, <1>1, AppendMessageRows DEF CoreType, Kinds
    <2>4. \/ Block({r}, final, Event("step.completed", "tool_error_retry"), "step_next")
          \/ FailResponse(r)
      BY <1>18 DEF FeedErrorBack, AppendToolError
    <2> HIDE DEF r
    <2>5. CASE FailResponse(r)
      BY <2>1, <2>3, <2>5, <1>1, FailResponseRows
    <2>6. CASE Block({r}, final, Event("step.completed", "tool_error_retry"), "step_next")
      BY <2>1, <2>3, <2>6, <1>1, CompleteStepBlock DEF StepStatuses
    <2> QED BY <2>4, <2>5, <2>6
  <1>19. CASE OutputIsInvalid
    <2> DEFINE r == AppendMessage(stored, "assistant")
               repair == AppendMessage(r, "repair")
               final == CompleteStep(repair, "schema_retry")
    <2>1. r \in Records /\ r.steps # <<>>
      BY <1>19, <1>1, AppendMessageType DEF OutputIsInvalid, CoreType, Kinds
    <2>2. ~storeFailed => /\ EarlierStepsClosed(stored) /\ CallsClosed(stored)
                          /\ stored.status \notin {"completed", "failed"}
      BY <1>19, <1>2 DEF OutputIsInvalid, RowsAt
    <2>3. ~storeFailed => /\ EarlierStepsClosed(r) /\ CallsClosed(r)
                          /\ r.status \notin {"completed", "failed"}
      BY <2>2, <1>1, AppendMessageRows DEF CoreType, Kinds
    <2>4. \/ Block({r, repair}, final, Event("step.completed", "schema_retry"), "step_next")
          \/ FailResponse(r)
      BY <1>19 DEF OutputIsInvalid
    <2> HIDE DEF r
    <2>5. CASE FailResponse(r)
      BY <2>1, <2>3, <2>5, <1>1, FailResponseRows
    <2>6. repair \in Records /\ repair.steps # <<>>
      BY <2>1, AppendMessageType DEF Kinds
    <2>7. ~storeFailed => /\ EarlierStepsClosed(repair) /\ CallsClosed(repair)
                          /\ repair.status \notin {"completed", "failed"}
      BY <2>1, <2>3, AppendMessageRows DEF Kinds
    <2> HIDE DEF repair
    <2>8. CASE Block({r, repair}, final, Event("step.completed", "schema_retry"), "step_next")
      <3>1. {r, repair} \in SUBSET Records
        BY <2>1, <2>6
      <3> QED BY <3>1, <2>6, <2>7, <2>8, <1>1, CompleteStepBlock DEF StepStatuses
    <2> QED BY <2>4, <2>5, <2>8
  <1>20. CASE AnswerCompletes
    <2> DEFINE final == SetStatus(stored, "completed")
    <2>1. final \in Records /\ final.steps = stored.steps /\ final.calls = stored.calls
      BY <1>1, SetStatusType DEF CoreType, Statuses
    <2>2. ~storeFailed => StepsClosed(stored) /\ CallsClosed(stored)
      BY <1>20, <1>2 DEF AnswerCompletes, RowsAt
    <2>3. Block({}, final, Event("completed", "completed"), "terminal")
      BY <1>20 DEF AnswerCompletes, FinalizeCompleted
    <2> HIDE DEF final
    <2>4. ~storeFailed => StepsClosed(final) /\ CallsClosed(final)
      BY <2>1, <2>2 DEF StepsClosed, CallsClosed
    <2>5. ~storeFailed => RowsAt(final, "terminal")
      BY <2>4 DEF RowsAt
    <2> QED BY <2>1, <2>3, <2>5, <1>1, BlockRows, Literals DEF Statuses
  <1>21. CASE ServerToolSucceeds
    <2> DEFINE r == AddToolResult(stored)
    <2>1. /\ r \in Records /\ r.calls # <<>>
          /\ r.steps = stored.steps /\ r.status = stored.status
      BY <1>21, <1>1, AddToolResultType DEF ServerToolSucceeds, CoreType
    <2>2. ~storeFailed => /\ EarlierStepsClosed(stored) /\ EarlierCallsClosed(stored)
                          /\ "server_received" \in StepOpenAt \/ StepsClosed(stored)
                          /\ stored.status \notin {"completed", "failed"}
      BY <1>21, <1>2 DEF ServerToolSucceeds, RowsAt
    <2>3. ~storeFailed => EarlierCallsClosed(r)
      BY <1>21, <2>2, <1>1, AddToolResultRows DEF ServerToolSucceeds, CoreType
    <2>4. Block({r}, CompleteToolCall(r, "completed"),
                Event("tool_result.received", "server"), "server_received")
      BY <1>21 DEF ServerToolSucceeds
    <2> HIDE DEF r
    <2>5. ~storeFailed => /\ EarlierStepsClosed(r)
                          /\ "server_received" \in StepOpenAt \/ StepsClosed(r)
      BY <2>1, <2>2 DEF EarlierStepsClosed, StepsClosed
    <2> QED BY <2>1, <2>2, <2>3, <2>4, <2>5, <1>1, CompleteCallBlock, Literals DEF Modes
  <1>22. CASE ResultArrives
    <2> DEFINE r == AddToolResult(stored)
    <2>1. /\ r \in Records /\ r.calls # <<>>
          /\ r.steps = stored.steps /\ r.status = stored.status
      BY <1>22, <1>1, AddToolResultType DEF ResultArrives, CoreType, EndWait
    <2>2. ~storeFailed => /\ EarlierStepsClosed(stored) /\ EarlierCallsClosed(stored)
                          /\ "client_received" \in StepOpenAt \/ StepsClosed(stored)
                          /\ stored.status \notin {"completed", "failed"}
      BY <1>22, <1>2 DEF ResultArrives, RowsAt, EndWait
    <2>3. ~storeFailed => EarlierCallsClosed(r)
      BY <1>22, <2>2, <1>1, AddToolResultRows DEF ResultArrives, CoreType, EndWait
    <2>4. Block({r}, CompleteToolCall(r, "completed"),
                Event("tool_result.received", "client"), "client_received")
      BY <1>22 DEF ResultArrives, EndWait
    <2> HIDE DEF r
    <2>5. ~storeFailed => /\ EarlierStepsClosed(r)
                          /\ "client_received" \in StepOpenAt \/ StepsClosed(r)
      BY <2>1, <2>2 DEF EarlierStepsClosed, StepsClosed
    <2> QED BY <2>1, <2>2, <2>3, <2>4, <2>5, <1>1, CompleteCallBlock, Literals DEF Modes
  <1>23. CASE ServerToolRaises
    <2>1. ~storeFailed => /\ EarlierStepsClosed(stored) /\ EarlierCallsClosed(stored)
                          /\ stored.status \notin {"completed", "failed"}
      BY <1>23, <1>2 DEF ServerToolRaises, RowsAt
    <2> QED BY <1>23, <2>1, <1>1, CompleteCallBlock, Literals DEF ServerToolRaises, CoreType
  <1>24. CASE ServerToolTimesOut
    <2> DEFINE r == CompleteToolCall(stored, "failed")
    <2>1. r \in Records /\ r.steps # <<>> /\ r.steps = stored.steps
      BY <1>24, <1>1, CompleteToolCallType DEF ServerToolTimesOut, CoreType
    <2>2. ~storeFailed => EarlierStepsClosed(stored) /\ EarlierCallsClosed(stored)
      BY <1>24, <1>2 DEF ServerToolTimesOut, RowsAt
    <2>3. ~storeFailed => CallsClosed(r)
      BY <1>24, <2>2, <1>1, CompleteToolCallRows DEF ServerToolTimesOut, CoreType
    <2>4. FailResponse(r)
      BY <1>24 DEF ServerToolTimesOut
    <2> HIDE DEF r
    <2>5. ~storeFailed => EarlierStepsClosed(r)
      BY <2>1, <2>2 DEF EarlierStepsClosed
    <2> QED BY <2>1, <2>3, <2>4, <2>5, <1>1, FailResponseRows
  <1>25. CASE NoResultArrives
    <2> DEFINE r == CompleteToolCall(stored, "failed")
    <2>1. r \in Records /\ r.steps # <<>> /\ r.steps = stored.steps
      BY <1>25, <1>1, CompleteToolCallType DEF NoResultArrives, CoreType, EndWait
    <2>2. ~storeFailed => EarlierStepsClosed(stored) /\ EarlierCallsClosed(stored)
      BY <1>25, <1>2 DEF NoResultArrives, RowsAt, EndWait
    <2>3. ~storeFailed => CallsClosed(r)
      BY <1>25, <2>2, <1>1, CompleteToolCallRows DEF NoResultArrives, CoreType, EndWait
    <2>4. FinalizeCancelled(stored) \/ FailResponse(r)
      BY <1>25 DEF NoResultArrives, EndWait
    <2> HIDE DEF r
    <2>5. ~storeFailed => EarlierStepsClosed(r)
      BY <2>1, <2>2 DEF EarlierStepsClosed
    <2> QED BY <2>1, <2>3, <2>4, <2>5, <1>1, FailResponseRows, FinalizeCancelledRows
            DEF CoreType
  <1>26. CASE CallClientTool
    <2> DEFINE final == CompleteStep(stored, "waiting_tool")
    <2>1. ~storeFailed => /\ EarlierStepsClosed(stored) /\ EarlierCallsClosed(stored)
                          /\ stored.status \notin {"completed", "failed"}
      BY <1>26, <1>2 DEF CallClientTool, RowsAt
    <2>2. final \in Records /\ final.status = stored.status /\ final.calls = stored.calls
      BY <1>26, <1>1, CompleteStepType DEF CallClientTool, CoreType, StepStatuses
    <2>3. ~storeFailed => StepsClosed(final)
      BY <1>26, <2>1, <1>1, CompleteStepRows DEF CallClientTool, CoreType, StepStatuses
    <2>4. Block({}, final, Event("step.completed", "waiting_tool"), "client_step")
      BY <1>26 DEF CallClientTool
    <2> HIDE DEF final
    <2>5. ~storeFailed => EarlierCallsClosed(final)
      BY <2>1, <2>2 DEF EarlierCallsClosed
    <2>6. ~storeFailed => RowsAt(final, "client_step")
      BY <2>1, <2>2, <2>3, <2>5, ClosedIsEarlierClosed DEF RowsAt
    <2> QED BY <2>2, <2>4, <2>6, <1>1, BlockRows, Literals DEF StepStatuses
  <1>27. CASE \/ SendsRequest \/ BeginServerTool \/ WaitForResult \/ Return \/ SendFails
             \/ CancelRequest \/ SocketCloses \/ Disconnect \/ Finished
    <2>1. stored' = stored /\ storeFailed' = storeFailed
      BY <1>27 DEF SendsRequest, BeginServerTool, WaitForResult, Return, SendFails,
         CancelRequest, SocketCloses, Disconnect, Finished, vars
    <2>2. ~storeFailed => RowsAt(stored, pc')
      BY <1>27, <1>2 DEF SendsRequest, BeginServerTool, WaitForResult, Return, SendFails,
         CancelRequest, SocketCloses, Disconnect, Finished, vars, RowsAt
    <2> QED BY <2>1, <2>2 DEF RowsInv, RowsAt, StepsClosed, CallsClosed, EarlierStepsClosed,
               EarlierCallsClosed
  <1>28. ASSUME NEW k \in 1..Len(stored.calls), SubmitResult(k) PROVE RowsInv'
    BY <1>28 DEF SubmitResult, RowsInv, RowsAt, StepsClosed, CallsClosed,
       EarlierStepsClosed, EarlierCallsClosed
  <1>29. CASE DeliverCancel
    <2>1. CASE UNCHANGED <<stored, storeFailed>>
      <3>1. ~storeFailed => RowsAt(stored, "done")
        BY <1>2 DEF RowsAt
      <3> QED BY <1>29, <2>1, <3>1 DEF DeliverCancel, RowsInv, RowsAt, StepsClosed,
                 CallsClosed, EarlierStepsClosed, EarlierCallsClosed
    <2>2. CASE storeFailed'
      BY <2>2 DEF RowsInv
    <2>3. CASE stored' = SetStatus(stored, "cancelled")
      <3>1. stored'.status = "cancelled"
        BY <2>3, <1>1, SetStatusType DEF CoreType, Statuses
      <3>2. pc' = "done"
        BY <1>29 DEF DeliverCancel
      <3>3. RowsAt(stored, pc)'
        BY <3>1, <3>2 DEF RowsAt
      <3> QED BY <3>3 DEF RowsInv
    <2> QED BY <1>29, <2>1, <2>2, <2>3 DEF DeliverCancel
  <1>30. CASE UNCHANGED vars
    BY <1>30 DEF vars, RowsInv, RowsAt, StepsClosed, CallsClosed, EarlierStepsClosed,
       EarlierCallsClosed
  <1>31. CASE Raises
    <2>1. /\ stored'.status = stored.status /\ storeFailed' = storeFailed
          /\ pc' \in Ending /\ pc \notin Ending
      BY <1>31, <1>1, RaisesEffect DEF Raises, CoreType, Ending
    <2>2. ~storeFailed => RowsAt(stored', pc')
      BY <2>1, <1>2 DEF RowsAt
    <2> QED BY <2>1, <2>2 DEF RowsInv, RowsAt, StepsClosed, CallsClosed, EarlierStepsClosed,
               EarlierCallsClosed
  <1> QED
    BY <1>3, <1>4, <1>5, <1>6, <1>7, <1>8, <1>9, <1>10, <1>11, <1>12, <1>13, <1>14, <1>15,
       <1>16, <1>17, <1>18, <1>19, <1>20, <1>21, <1>22, <1>23, <1>24, <1>25, <1>26, <1>27,
       <1>28, <1>29, <1>30, <1>31,
       RaisesCases
    DEF Next, TaskStep, Environment

(* THE INVARIANT BEHIND ROWSCLOSED: while a session works, only its current *)
(* step and its current call may be open.                                   *)
THEOREM RowsInvariant == Spec => []RowsInv
  <1>1. Init => RowsInv
    <2>1. NoRecord.steps = <<>> /\ NoRecord.calls = <<>> /\ NoRecord.status = "none"
      BY DEF NoRecord
    <2> QED BY <2>1 DEF Init, RowsInv, RowsAt, StepsClosed, CallsClosed,
                        EarlierStepsClosed, EarlierCallsClosed
  <1>2. TypeOK /\ RowsInv /\ [Next]_vars => RowsInv'
    BY RowsStep
  <1> QED BY <1>1, <1>2, TypeCorrect, PTL DEF Spec

(* NO OPEN ROWS: a response that _finalize_completed() or _fail_response()  *)
(* has ended leaves no step and no tool call "in_progress" in the store.    *)
THEOREM RowsAreClosed == Spec => []RowsClosed
  <1>1. RowsInv => RowsClosed
    BY DEF RowsInv, RowsAt, RowsClosed
  <1> QED BY <1>1, RowsInvariant, PTL

-----------------------------------------------------------------------------
(* No step after a cancel. *)

(* complete_step() adds no step.                                            *)
LEMMA StepsOfCompleteStep ==
    ASSUME NEW r \in Records, r.steps # <<>>, NEW s \in StepStatuses
    PROVE  Len(CompleteStep(r, s).steps) = Len(r.steps)
  <1> DEFINE new == [r.steps EXCEPT ![Len(r.steps)] = s]
  <1>1. Len(new) = Len(r.steps)
    BY RecordFields, ReplaceLast
  <1>2. CompleteStep(r, s).steps = new
    BY CompleteStepType
  <1> HIDE DEF new
  <1> QED BY <1>1, <1>2

(* Every record a block may leave behind has the steps of the one before.   *)
LEMMA BlockSteps ==
    ASSUME NEW partial, NEW final, NEW e, NEW next, Block(partial, final, e, next),
           Len(final.steps) = Len(stored.steps),
           \A r \in partial : Len(r.steps) = Len(stored.steps)
    PROVE  Len(stored'.steps) = Len(stored.steps)
  <1>1. stored' \in {stored, final} \cup partial
    BY DEF Block
  <1> QED BY <1>1

(* _fail_response() adds no step.                                           *)
LEMMA FailResponseSteps ==
    ASSUME NEW r \in Records, r.steps # <<>>, FailResponse(r),
           Len(r.steps) = Len(stored.steps)
    PROVE  Len(stored'.steps) = Len(stored.steps)
  <1> DEFINE failed == SetStatus(r, "failed")
  <1>1. failed \in Records /\ failed.steps = r.steps
    BY SetStatusType DEF Statuses
  <1>2. Block({r, failed}, CompleteStep(failed, "failed"),
              Event("error", "fatal"), "fail_error")
    BY DEF FailResponse
  <1> HIDE DEF failed
  <1>3. Len(CompleteStep(failed, "failed").steps) = Len(r.steps)
    BY <1>1, StepsOfCompleteStep DEF StepStatuses
  <1> QED BY <1>1, <1>2, <1>3, BlockSteps

(* _finalize_cancelled() adds no step.                                      *)
LEMMA FinalizeCancelledSteps ==
    ASSUME NEW r \in Records, FinalizeCancelled(r), Len(r.steps) = Len(stored.steps)
    PROVE  Len(stored'.steps) = Len(stored.steps)
  <1>1. SetStatus(r, "cancelled").steps = r.steps
    BY SetStatusType DEF Statuses
  <1> QED BY <1>1, BlockSteps DEF FinalizeCancelled

(* The head of the loop adds no step once cancel_event is set.              *)
LEMMA LoopHeadSteps ==
    ASSUME NEW r \in Records, LoopHead(r), cancelEvent, Len(r.steps) = Len(stored.steps)
    PROVE  Len(stored'.steps) = Len(stored.steps)
  <1>1. SetStatus(r, "failed").steps = r.steps
    BY SetStatusType DEF Statuses
  <1>2. CASE Block({r}, SetStatus(r, "failed"), Event("error", "fatal"), "fail_error")
    BY <1>1, <1>2, BlockSteps
  <1>3. CASE FinalizeCancelled(r)
    BY <1>3, FinalizeCancelledSteps
  <1> QED BY <1>2, <1>3 DEF LoopHead, MaxStepsExceeded

(* THE STEPS: one step per action that writes the record. *)
LEMMA StepsStep ==
    ASSUME TypeOK, cancelEvent, [Next]_vars
    PROVE  Len(stored'.steps) = Len(stored.steps)
  <1> DEFINE Same == Len(stored'.steps) = Len(stored.steps)
  <1>1. CoreType
    BY TypeParts
  <1>2. \A kind \in Kinds : /\ AppendMessage(stored, kind) \in Records
                           /\ AppendMessage(stored, kind).steps = stored.steps
    BY <1>1, AppendMessageType DEF CoreType
  <1> USE DEF ResumesAt, StepOpen, CallOpen
  <1>3. CASE Start
    <2>1. StartResponse(stored).steps = stored.steps
      BY <1>1, StartResponseType DEF CoreType
    <2> QED BY <1>3, <2>1, BlockSteps DEF Start
  <1>4. CASE NextStep
    BY <1>4, <1>1, LoopHeadSteps DEF NextStep, CoreType
  <1>5. CASE EndClientCall
    BY <1>5, <1>2, LoopHeadSteps DEF EndClientCall, Kinds, AppendToolResult
  <1>6. CASE StreamCancelled
    BY <1>6, <1>1, FinalizeCancelledSteps DEF StreamCancelled, CoreType
  <1>7. CASE StreamFails \/ Fragment
    BY <1>7, <1>1, FailResponseSteps DEF StreamFails, Fragment, CoreType
  <1>8. ASSUME NEW mode \in Modes, OutputIsToolCall(mode) PROVE Same
    <2> DEFINE r == AppendMessage(stored, "tool_call")
    <2>1. r \in Records /\ r.steps = stored.steps
      BY <1>2 DEF Kinds
    <2>2. CreateToolCall(r, mode).steps = r.steps
      BY <2>1, CreateToolCallType
    <2>3. \/ FailResponse(stored)
          \/ Block({r}, CreateToolCall(r, mode), Event("tool_call.created", mode),
                   "call_created")
      BY <1>8 DEF OutputIsToolCall
    <2> HIDE DEF r
    <2>4. stored.steps # <<>> /\ stored \in Records
      BY <1>8, <1>1 DEF OutputIsToolCall, CoreType
    <2> QED BY <2>1, <2>2, <2>3, <2>4, FailResponseSteps, BlockSteps
  <1>9. CASE OutputIsAnswer
    <2> DEFINE r == AppendMessage(stored, "assistant")
    <2>1. r \in Records /\ r.steps = stored.steps /\ r.steps # <<>>
      BY <1>9, <1>1, <1>2 DEF OutputIsAnswer, CoreType, Kinds
    <2>2. Len(CompleteStep(r, "completed").steps) = Len(r.steps)
      BY <2>1, StepsOfCompleteStep DEF StepStatuses
    <2>3. \/ Block({r}, CompleteStep(r, "completed"),
                   Event("step.completed", "completed"), "step_final")
          \/ FailResponse(r)
      BY <1>9 DEF OutputIsAnswer
    <2> HIDE DEF r
    <2> QED BY <2>1, <2>2, <2>3, BlockSteps, FailResponseSteps
  <1>10. CASE EndServerCall
    <2> DEFINE r == AppendMessage(stored, "tool_result")
    <2>1. r \in Records /\ r.steps = stored.steps /\ r.steps # <<>>
      BY <1>10, <1>1, <1>2 DEF EndServerCall, CoreType, Kinds, AppendToolResult
    <2>2. Len(CompleteStep(r, "completed").steps) = Len(r.steps)
      BY <2>1, StepsOfCompleteStep DEF StepStatuses
    <2>3. \/ Block({r}, CompleteStep(r, "completed"),
                   Event("step.completed", "completed"), "step_next")
          \/ FailResponse(r)
      BY <1>10 DEF EndServerCall, AppendToolResult
    <2> HIDE DEF r
    <2> QED BY <2>1, <2>2, <2>3, BlockSteps, FailResponseSteps
  <1>11. CASE FeedErrorBack
    <2> DEFINE r == AppendMessage(stored, "tool_error")
    <2>1. r \in Records /\ r.steps = stored.steps /\ r.steps # <<>>
      BY <1>11, <1>1, <1>2 DEF FeedErrorBack, CoreType, Kinds, AppendToolError
    <2>2. Len(CompleteStep(r, "tool_error_retry").steps) = Len(r.steps)
      BY <2>1, StepsOfCompleteStep DEF StepStatuses
    <2>3. \/ Block({r}, CompleteStep(r, "tool_error_retry"),
                   Event("step.completed", "tool_error_retry"), "step_next")
          \/ FailResponse(r)
      BY <1>11 DEF FeedErrorBack, AppendToolError
    <2> HIDE DEF r
    <2> QED BY <2>1, <2>2, <2>3, BlockSteps, FailResponseSteps
  <1>12. CASE OutputIsInvalid
    <2> DEFINE r == AppendMessage(stored, "assistant")
               repair == AppendMessage(r, "repair")
    <2>1. r \in Records /\ r.steps = stored.steps /\ r.steps # <<>>
      BY <1>12, <1>1, <1>2 DEF OutputIsInvalid, CoreType, Kinds
    <2>2. repair \in Records /\ repair.steps = r.steps
      BY <2>1, AppendMessageType DEF Kinds
    <2>3. \/ Block({r, repair}, CompleteStep(repair, "schema_retry"),
                   Event("step.completed", "schema_retry"), "step_next")
          \/ FailResponse(r)
      BY <1>12 DEF OutputIsInvalid
    <2> HIDE DEF r, repair
    <2>4. Len(CompleteStep(repair, "schema_retry").steps) = Len(r.steps)
      BY <2>1, <2>2, StepsOfCompleteStep DEF StepStatuses
    <2> QED BY <2>1, <2>2, <2>3, <2>4, BlockSteps, FailResponseSteps
  <1>13. CASE AnswerCompletes
    <2>1. SetStatus(stored, "completed").steps = stored.steps
      BY <1>1, SetStatusType DEF CoreType, Statuses
    <2> QED BY <1>13, <2>1, BlockSteps DEF AnswerCompletes, FinalizeCompleted
  <1>14. CASE ServerToolSucceeds
    <2> DEFINE r == AddToolResult(stored)
    <2>1. r \in Records /\ r.calls # <<>> /\ r.steps = stored.steps
      BY <1>14, <1>1, AddToolResultType DEF ServerToolSucceeds, CoreType
    <2>2. Block({r}, CompleteToolCall(r, "completed"),
                Event("tool_result.received", "server"), "server_received")
      BY <1>14 DEF ServerToolSucceeds
    <2> HIDE DEF r
    <2>3. CompleteToolCall(r, "completed").steps = r.steps
      BY <2>1, CompleteToolCallType
    <2> QED BY <2>1, <2>2, <2>3, BlockSteps
  <1>15. CASE ResultArrives
    <2> DEFINE r == AddToolResult(stored)
    <2>1. r \in Records /\ r.calls # <<>> /\ r.steps = stored.steps
      BY <1>15, <1>1, AddToolResultType DEF ResultArrives, CoreType, EndWait
    <2>2. Block({r}, CompleteToolCall(r, "completed"),
                Event("tool_result.received", "client"), "client_received")
      BY <1>15 DEF ResultArrives, EndWait
    <2> HIDE DEF r
    <2>3. CompleteToolCall(r, "completed").steps = r.steps
      BY <2>1, CompleteToolCallType
    <2> QED BY <2>1, <2>2, <2>3, BlockSteps
  <1>16. CASE ServerToolRaises \/ ServerToolTimesOut \/ NoResultArrives
    <2> DEFINE r == CompleteToolCall(stored, "failed")
    <2>1. /\ stored \in Records
          /\ r \in Records /\ r.steps # <<>> /\ r.steps = stored.steps
      BY <1>16, <1>1, CompleteToolCallType
      DEF ServerToolRaises, ServerToolTimesOut, NoResultArrives, CoreType, EndWait
    <2>2. \/ Block({}, r, Event("error", "tool"), "tool_error")
          \/ FailResponse(r)
          \/ FinalizeCancelled(stored)
      BY <1>16 DEF ServerToolRaises, ServerToolTimesOut, NoResultArrives, EndWait
    <2> HIDE DEF r
    <2> QED BY <2>1, <2>2, BlockSteps, FailResponseSteps, FinalizeCancelledSteps
  <1>17. CASE CallClientTool
    <2>1. Len(CompleteStep(stored, "waiting_tool").steps) = Len(stored.steps)
      BY <1>17, <1>1, StepsOfCompleteStep DEF CallClientTool, CoreType, StepStatuses
    <2> QED BY <1>17, <2>1, BlockSteps DEF CallClientTool
  <1>18. CASE DeliverCancel
    BY <1>18, <1>1, SetStatusType DEF DeliverCancel, CoreType, Statuses
  <1>19. CASE \/ SayInProgress \/ CallServerTool \/ SayServerCallCompleted \/ SayWaiting
             \/ SayClientCallCompleted \/ SayFailed \/ SendsRequest \/ BeginServerTool
             \/ WaitForResult \/ Return \/ SendFails \/ CancelRequest \/ SocketCloses
             \/ Disconnect \/ Finished
    BY <1>19 DEF SayInProgress, CallServerTool, SayServerCallCompleted, SayWaiting,
       SayClientCallCompleted, SayFailed, SendsRequest, BeginServerTool, WaitForResult,
       Return, SendFails, CancelRequest, SocketCloses, Disconnect, Finished, Say, vars
  <1>20. ASSUME NEW k \in 1..Len(stored.calls), SubmitResult(k) PROVE Same
    BY <1>20 DEF SubmitResult
  <1>21. CASE UNCHANGED vars
    BY <1>21 DEF vars
  <1>22. CASE Raises
    BY <1>22, <1>1, RaisesEffect DEF CoreType
  <1> QED
    BY <1>3, <1>4, <1>5, <1>6, <1>7, <1>8, <1>9, <1>10, <1>11, <1>12, <1>13, <1>14, <1>15,
       <1>16, <1>17, <1>18, <1>19, <1>20, <1>21, <1>22,
       RaisesCases
    DEF Next, TaskStep, Environment

(* CANCEL STOPS THE LOOP: after response.cancel no step begins, so the      *)
(* model is not called again, on any path through the loop.                 *)
THEOREM CancelStopsSteps == Spec => NoStepAfterCancel
  <1>1. TypeOK /\ [Next]_vars =>
          [cancelEvent => Len(stored'.steps) = Len(stored.steps)]_vars
    BY StepsStep
  <1> QED BY <1>1, TypeCorrect, PTL DEF Spec, NoStepAfterCancel

-----------------------------------------------------------------------------
(* The two ways a block goes: all its store calls succeed, or one raises.   *)
(* Either way the socket decides whether an event is sent.                  *)
LEMMA BlockCases ==
    ASSUME NEW partial, NEW final, NEW e, NEW next, Block(partial, final, e, next)
    PROVE  \/ /\ stored' = final
              /\ storeFailed' = storeFailed
              /\ \/ sock = "open" /\ pc' = next /\ events' = Append(events, e)
                 \/ sock # "open" /\ pc' = "done" /\ events' = events
           \/ /\ stored' \in {stored, final} \cup partial
              /\ storeFailed' = TRUE
              /\ \/ /\ sock = "open"
                    /\ pc' = "abort_error"
                    /\ events' = Append(events, Event("error", "fatal"))
                 \/ sock # "open" /\ pc' = "done" /\ events' = events
  BY DEF Block, Emit

(* An emit keeps the record.                                                *)
LEMMA SayCases ==
    ASSUME NEW e, NEW next, Say(e, next)
    PROVE  /\ stored' = stored /\ storeFailed' = storeFailed
           /\ \/ sock = "open" /\ pc' = next /\ events' = Append(events, e)
              \/ sock # "open" /\ pc' = "done" /\ events' = events
  BY DEF Say, Emit

-----------------------------------------------------------------------------
(* The order of the messages. *)

(* After an odd number comes an even one, and after an even one an odd one. *)
LEMMA NextIsEven ==
    ASSUME NEW n \in Nat
    PROVE  /\ n % 2 = 1 <=> (n + 1) % 2 = 0
           /\ n % 2 = 0 <=> (n + 1) % 2 = 1
           /\ n % 2 = 0 <=> ~(n % 2 = 1)
  OBVIOUS

ModelKinds == {"assistant", "tool_call"}

Alternate(m) == \A i \in 1..Len(m) : m[i] \in ModelKinds <=> i % 2 = 0

RolesOK(r) ==
    /\ Alternate(r.messages)
    /\ r.status = "completed" => r.messages[Len(r.messages)] = "assistant"

(* Whose message comes next is a matter of where the task is suspended: the *)
(* model's after an odd number of messages, the user's after an even one.   *)
ModelsTurn == {"created", "in_progress", "step_next", "step_created", "streaming"}
UsersTurn == CallOpen \cup {"step_final"}

RolesAt(r, at) ==
    /\ RolesOK(r)
    /\ at = "start" => r.messages = <<>>
    /\ at \in ModelsTurn => Len(r.messages) % 2 = 1
    /\ at \in UsersTurn => Len(r.messages) % 2 = 0
    /\ at = "step_final" => r.messages[Len(r.messages)] = "assistant"
    /\ at \notin Ending => r.status # "completed"

RolesInv == RolesAt(stored, pc)

(* append_message() of the role whose turn it is keeps the order.           *)
LEMMA AppendMessageRoles ==
    ASSUME NEW r \in Records, NEW kind \in Kinds, RolesOK(r), r.status # "completed",
           kind \in ModelKinds <=> Len(r.messages) % 2 = 1
    PROVE  /\ RolesOK(AppendMessage(r, kind))
           /\ AppendMessage(r, kind) \in Records
           /\ AppendMessage(r, kind).steps = r.steps
           /\ AppendMessage(r, kind).status # "completed"
           /\ Len(AppendMessage(r, kind).messages) = Len(r.messages) + 1
           /\ AppendMessage(r, kind).messages[Len(r.messages) + 1] = kind
  <1> DEFINE new == Append(r.messages, kind)
  <1>1. /\ AppendMessage(r, kind) \in Records
        /\ AppendMessage(r, kind).messages = new
        /\ AppendMessage(r, kind).status = r.status
        /\ AppendMessage(r, kind).steps = r.steps
    BY AppendMessageType
  <1>2. /\ Len(r.messages) \in Nat
        /\ Len(new) = Len(r.messages) + 1
        /\ \A i \in 1..Len(r.messages) : new[i] = r.messages[i]
        /\ new[Len(r.messages) + 1] = kind
    BY RecordFields, AppendProperties, LenProperties
  <1> HIDE DEF new
  <1>3. Alternate(new)
    <2> SUFFICES ASSUME NEW i \in 1..Len(new)
                 PROVE  new[i] \in ModelKinds <=> i % 2 = 0
      BY DEF Alternate
    <2>1. CASE i = Len(r.messages) + 1
      <3>1. Len(r.messages) % 2 = 1 <=> (Len(r.messages) + 1) % 2 = 0
        BY <1>2, NextIsEven
      <3>2. new[i] = kind
        BY <1>2, <2>1
      <3> QED BY <2>1, <3>1, <3>2
    <2>2. CASE i \in 1..Len(r.messages)
      BY <1>2, <2>2 DEF RolesOK, Alternate
    <2> QED BY <1>2, <2>1, <2>2
  <1> QED BY <1>1, <1>2, <1>3 DEF RolesOK

(* After a message of the user's role the model's turn comes, and the other *)
(* way round.                                                               *)
LEMMA UserMessageRoles ==
    ASSUME NEW r \in Records, NEW kind \in {"tool_result", "tool_error", "repair"},
           RolesOK(r), r.status # "completed", Len(r.messages) % 2 = 0
    PROVE  /\ RolesOK(AppendMessage(r, kind))
           /\ AppendMessage(r, kind) \in Records
           /\ AppendMessage(r, kind).steps = r.steps
           /\ RolesAt(AppendMessage(r, kind), "step_next")
  <1>1. kind \in Kinds /\ kind \notin ModelKinds
    BY DEF Kinds, ModelKinds
  <1>2. Len(r.messages) % 2 # 1
    <2>1. Len(r.messages) \in Nat
      BY RecordFields, LenProperties
    <2> QED BY <2>1, NextIsEven
  <1> DEFINE new == AppendMessage(r, kind)
  <1>3. /\ RolesOK(new) /\ new \in Records /\ new.steps = r.steps
        /\ new.status # "completed"
        /\ Len(new.messages) = Len(r.messages) + 1
    BY <1>1, <1>2, AppendMessageRoles
  <1>4. (Len(r.messages) + 1) % 2 = 1
    BY RecordFields, LenProperties, NextIsEven
  <1> HIDE DEF new
  <1>5. RolesAt(new, "step_next")
    BY <1>3, <1>4 DEF RolesAt, ModelsTurn, UsersTurn, CallOpen
  <1> QED BY <1>3, <1>5 DEF new

LEMMA ModelMessageRoles ==
    ASSUME NEW r \in Records, NEW kind \in ModelKinds,
           RolesOK(r), r.status # "completed", Len(r.messages) % 2 = 1
    PROVE  /\ RolesOK(AppendMessage(r, kind))
           /\ AppendMessage(r, kind) \in Records
           /\ AppendMessage(r, kind).steps = r.steps
           /\ AppendMessage(r, kind).status # "completed"
           /\ Len(AppendMessage(r, kind).messages) % 2 = 0
           /\ RolesAt(AppendMessage(r, kind), "call_created")
           /\ kind = "assistant" => RolesAt(AppendMessage(r, kind), "step_final")
  <1>1. kind \in Kinds
    BY DEF Kinds, ModelKinds
  <1> DEFINE new == AppendMessage(r, kind)
  <1>2. /\ RolesOK(new) /\ new \in Records /\ new.steps = r.steps
        /\ new.status # "completed"
        /\ Len(new.messages) = Len(r.messages) + 1
        /\ new.messages[Len(r.messages) + 1] = kind
    BY <1>1, AppendMessageRoles
  <1>3. (Len(r.messages) + 1) % 2 = 0
    BY RecordFields, LenProperties, NextIsEven
  <1> HIDE DEF new
  <1>4. /\ RolesAt(new, "call_created")
        /\ kind = "assistant" => RolesAt(new, "step_final")
    BY <1>2, <1>3 DEF RolesAt, ModelsTurn, UsersTurn, CallOpen
  <1> QED BY <1>2, <1>3, <1>4 DEF new

(* A block keeps the order when each of its records does.                   *)
LEMMA BlockRoles ==
    ASSUME RolesOK(stored), NEW partial, NEW final, NEW e, NEW next,
           Block(partial, final, e, next),
           \A r \in partial : RolesOK(r), RolesAt(final, next)
    PROVE  RolesInv'
  <1>1. RolesOK(final)
    BY DEF RolesAt
  <1>2. CASE stored' = final /\ pc' = next
    BY <1>2 DEF RolesInv, RolesAt, RolesOK, Alternate
  <1>3. CASE stored' \in {stored, final} \cup partial /\ pc' \in {"abort_error", "done"}
    <2>1. RolesOK(stored')
      BY <1>1, <1>3
    <2>2. RolesAt(stored', pc')
      BY <1>3, <2>1 DEF RolesAt, Ending, ModelsTurn, UsersTurn, CallOpen
    <2> QED BY <2>2 DEF RolesInv, RolesAt, RolesOK, Alternate
  <1> QED BY <1>2, <1>3, BlockCases

(* A status other than "completed" can be set of any record.                *)
LEMMA SetStatusRoles ==
    ASSUME NEW r \in Records, RolesOK(r), NEW s \in Statuses, s # "completed"
    PROVE  RolesOK(SetStatus(r, s))
  BY SetStatusType DEF RolesOK, Alternate

(* The end of a response without an answer demands nothing of the messages. *)
LEMMA EndingRoles ==
    ASSUME NEW r, RolesOK(r), NEW at \in Ending
    PROVE  RolesAt(r, at)
  BY DEF RolesAt, Ending, ModelsTurn, UsersTurn, CallOpen

(* _fail_response() keeps the order.                                        *)
LEMMA FailResponseRoles ==
    ASSUME RolesOK(stored), NEW r \in Records, r.steps # <<>>, RolesOK(r), FailResponse(r)
    PROVE  RolesInv'
  <1> DEFINE failed == SetStatus(r, "failed")
             final == CompleteStep(failed, "failed")
  <1>1. failed \in Records /\ failed.steps = r.steps /\ RolesOK(failed)
    BY SetStatusType, SetStatusRoles DEF Statuses
  <1>2. Block({r, failed}, final, Event("error", "fatal"), "fail_error")
    BY DEF FailResponse
  <1> HIDE DEF failed
  <1>3. final.messages = failed.messages /\ final.status = failed.status
    BY <1>1, CompleteStepType DEF StepStatuses
  <1> HIDE DEF final
  <1>4. RolesOK(final)
    BY <1>1, <1>3 DEF RolesOK, Alternate
  <1>5. RolesAt(final, "fail_error")
    BY <1>4, EndingRoles DEF Ending
  <1> QED BY <1>1, <1>2, <1>5, BlockRoles

(* _finalize_cancelled() keeps the order.                                   *)
LEMMA FinalizeCancelledRoles ==
    ASSUME RolesOK(stored), NEW r \in Records, RolesOK(r), FinalizeCancelled(r)
    PROVE  RolesInv'
  <1>1. RolesOK(SetStatus(r, "cancelled"))
    BY SetStatusRoles DEF Statuses
  <1>2. RolesAt(SetStatus(r, "cancelled"), "terminal")
    BY <1>1, EndingRoles DEF Ending
  <1> QED BY <1>2, BlockRoles DEF FinalizeCancelled

(* The head of the loop adds no message.                                    *)
LEMMA LoopHeadRoles ==
    ASSUME RolesOK(stored), NEW r \in Records, RolesAt(r, "step_next"), LoopHead(r)
    PROVE  RolesInv'
  <1>1. RolesOK(r)
    BY DEF RolesAt
  <1>2. CASE Block({r}, SetStatus(r, "failed"), Event("error", "fatal"), "fail_error")
    <2>1. RolesOK(SetStatus(r, "failed"))
      BY <1>1, SetStatusRoles DEF Statuses
    <2>2. RolesAt(SetStatus(r, "failed"), "fail_error")
      BY <2>1, EndingRoles DEF Ending
    <2> QED BY <1>1, <1>2, <2>2, BlockRoles
  <1>3. CASE FinalizeCancelled(r)
    BY <1>1, <1>3, FinalizeCancelledRoles
  <1>4. CASE Block({r}, StartStep(r), Event("step.created", "none"), "step_created")
    <2> DEFINE final == StartStep(r)
    <2>1. final.messages = r.messages /\ final.status = r.status
      BY StartStepType
    <2>2. Block({r}, final, Event("step.created", "none"), "step_created")
      BY <1>4
    <2> HIDE DEF final
    <2>3. RolesAt(final, "step_created")
      BY <2>1 DEF RolesAt, RolesOK, Alternate, ModelsTurn, UsersTurn, CallOpen, Ending
    <2>4. ASSUME NEW e, Block({r}, final, e, "step_created") PROVE RolesInv'
      BY <1>1, <2>3, <2>4, BlockRoles
    <2> QED BY <2>2, <2>4
  <1> QED BY <1>2, <1>3, <1>4 DEF LoopHead, MaxStepsExceeded

(* A row of the current step or call is written; no message is.             *)
LEMMA SameMessages ==
    ASSUME NEW r, NEW q, RolesOK(r), q.messages = r.messages, q.status = r.status
    PROVE  /\ RolesOK(q)
           /\ \A at : RolesAt(q, at) <=> RolesAt(r, at)
  BY DEF RolesOK, RolesAt, Alternate

(* THE MESSAGES: one step per action.                                       *)
LEMMA RolesStep ==
    ASSUME TypeOK, RolesInv, [Next]_vars
    PROVE  RolesInv'
  <1>1. CoreType
    BY TypeParts
  <1>2. RolesAt(stored, pc) /\ RolesOK(stored)
    BY DEF RolesInv, RolesAt
  <1> USE DEF ResumesAt, StepOpen, CallOpen, Ending, ModelsTurn, UsersTurn
  <1>3. CASE Start
    <2> DEFINE final == StartResponse(stored)
    <2>1. final.messages = <<"user">> /\ final.status = "in_progress"
      BY <1>1, StartResponseType DEF CoreType
    <2>2. Block({}, final, Event("created", "created"), "created")
      BY <1>3 DEF Start
    <2> HIDE DEF final
    <2>3. RolesAt(final, "created")
      BY <2>1 DEF RolesAt, RolesOK, Alternate, ModelKinds
    <2> QED BY <1>2, <2>2, <2>3, BlockRoles
  <1>4. CASE \/ SayInProgress \/ CallServerTool \/ SayServerCallCompleted \/ SayWaiting
            \/ SayClientCallCompleted \/ SayFailed
    <2>1. PICK e, next : Say(e, next) /\ RolesAt(stored, next)
      BY <1>4, <1>2
      DEF SayInProgress, CallServerTool, SayServerCallCompleted, SayWaiting,
          SayClientCallCompleted, SayFailed, RolesAt
    <2>2. stored' = stored /\ pc' \in {next, "done"}
      BY <2>1, SayCases
    <2>3. RolesAt(stored, pc')
      BY <1>2, <2>1, <2>2, EndingRoles
    <2> QED BY <2>2, <2>3 DEF RolesInv, RolesAt, RolesOK, Alternate
  <1>5. CASE NextStep
    <2>1. RolesAt(stored, "step_next")
      BY <1>5, <1>2 DEF NextStep, RolesAt
    <2> QED BY <1>5, <2>1, <1>1, <1>2, LoopHeadRoles DEF NextStep, CoreType
  <1>6. CASE EndClientCall
    <2> DEFINE r == AppendMessage(stored, "tool_result")
    <2>1. /\ stored.status # "completed"
          /\ Len(stored.messages) % 2 = 0
      BY <1>6, <1>2 DEF EndClientCall, RolesAt
    <2>2. r \in Records /\ RolesAt(r, "step_next")
      BY <1>1, <1>2, <2>1, UserMessageRoles DEF CoreType
    <2>3. LoopHead(r)
      BY <1>6 DEF EndClientCall, AppendToolResult
    <2> HIDE DEF r
    <2> QED BY <2>2, <2>3, <1>2, LoopHeadRoles
  <1>7. CASE StreamCancelled
    BY <1>7, <1>1, <1>2, FinalizeCancelledRoles DEF StreamCancelled, CoreType
  <1>8. CASE StreamFails
    BY <1>8, <1>1, <1>2, FailResponseRoles DEF StreamFails, CoreType
  <1>9. CASE Fragment
    <2>1. CASE FailResponse(stored)
      BY <1>9, <2>1, <1>1, <1>2, FailResponseRoles DEF Fragment, CoreType
    <2>2. CASE UNCHANGED <<pc, stored, storeFailed>>
      BY <2>2, <1>2 DEF RolesInv, RolesAt, RolesOK, Alternate
    <2> QED BY <1>9, <2>1, <2>2 DEF Fragment
  <1>10. ASSUME NEW mode \in Modes, OutputIsToolCall(mode) PROVE RolesInv'
    <2> DEFINE r == AppendMessage(stored, "tool_call")
               final == CreateToolCall(r, mode)
    <2>1. CASE FailResponse(stored)
      BY <1>10, <2>1, <1>1, <1>2, FailResponseRoles DEF OutputIsToolCall, CoreType
    <2>2. CASE Block({r}, final, Event("tool_call.created", mode), "call_created")
      <3>1. /\ stored.status # "completed"
            /\ Len(stored.messages) % 2 = 1
        BY <1>10, <1>2 DEF OutputIsToolCall, RolesAt
      <3>2. RolesOK(r) /\ r \in Records /\ RolesAt(r, "call_created")
        BY <1>1, <1>2, <3>1, ModelMessageRoles DEF CoreType, ModelKinds
      <3> HIDE DEF r
      <3>3. final.messages = r.messages /\ final.status = r.status
        BY <1>10, <3>2, CreateToolCallType
      <3> HIDE DEF final
      <3>4. RolesAt(final, "call_created")
        BY <3>2, <3>3, SameMessages
      <3> QED BY <1>2, <2>2, <3>2, <3>4, BlockRoles
    <2> QED BY <1>10, <2>1, <2>2 DEF OutputIsToolCall
  <1>11. CASE OutputIsAnswer
    <2> DEFINE r == AppendMessage(stored, "assistant")
               final == CompleteStep(r, "completed")
    <2>1. /\ stored.status # "completed"
          /\ Len(stored.messages) % 2 = 1
          /\ stored.steps # <<>>
      BY <1>11, <1>2, <1>1 DEF OutputIsAnswer, RolesAt, CoreType
    <2>2. RolesOK(r) /\ r \in Records /\ r.steps # <<>> /\ RolesAt(r, "step_final")
      BY <1>1, <1>2, <2>1, ModelMessageRoles DEF CoreType, ModelKinds
    <2>3. Block({r}, final, Event("step.completed", "completed"), "step_final")
      BY <1>11 DEF OutputIsAnswer
    <2> HIDE DEF r
    <2>4. final.messages = r.messages /\ final.status = r.status
      BY <2>2, CompleteStepType DEF StepStatuses
    <2> HIDE DEF final
    <2>5. RolesAt(final, "step_final")
      BY <2>2, <2>4, SameMessages
    <2> QED BY <1>2, <2>2, <2>3, <2>5, BlockRoles
  <1>12. CASE OutputIsInvalid
    <2> DEFINE r == AppendMessage(stored, "assistant")
               repair == AppendMessage(r, "repair")
               final == CompleteStep(repair, "schema_retry")
    <2>1. /\ stored.status # "completed"
          /\ Len(stored.messages) % 2 = 1
          /\ stored.steps # <<>>
      BY <1>12, <1>2, <1>1 DEF OutputIsInvalid, RolesAt, CoreType
    <2>2. /\ RolesOK(r) /\ r \in Records /\ r.status # "completed"
          /\ Len(r.messages) % 2 = 0
          /\ r.steps # <<>>
      BY <1>1, <1>2, <2>1, ModelMessageRoles DEF CoreType, ModelKinds
    <2>3. \/ Block({r, repair}, final, Event("step.completed", "schema_retry"), "step_next")
          \/ FailResponse(r)
      BY <1>12 DEF OutputIsInvalid
    <2> HIDE DEF r
    <2>4. /\ RolesOK(repair) /\ repair \in Records
          /\ repair.steps # <<>> /\ RolesAt(repair, "step_next")
      BY <2>2, UserMessageRoles
    <2> HIDE DEF repair
    <2>5. final.messages = repair.messages /\ final.status = repair.status
      BY <2>4, CompleteStepType DEF StepStatuses
    <2> HIDE DEF final
    <2>6. RolesAt(final, "step_next")
      BY <2>4, <2>5, SameMessages
    <2> QED BY <1>2, <2>2, <2>3, <2>4, <2>6, BlockRoles, FailResponseRoles
  <1>13. CASE AnswerCompletes
    <2> DEFINE final == SetStatus(stored, "completed")
    <2>1. final.messages = stored.messages /\ final.status = "completed"
      BY <1>1, SetStatusType DEF CoreType, Statuses
    <2>2. Block({}, final, Event("completed", "completed"), "terminal")
      BY <1>13 DEF AnswerCompletes, FinalizeCompleted
    <2>3. stored.messages[Len(stored.messages)] = "assistant"
      BY <1>13, <1>2 DEF AnswerCompletes, RolesAt
    <2> HIDE DEF final
    <2>4. RolesOK(final)
      BY <1>2, <2>1, <2>3 DEF RolesOK, Alternate
    <2>5. RolesAt(final, "terminal")
      BY <2>4, EndingRoles
    <2> QED BY <1>2, <2>2, <2>5, BlockRoles
  <1>14. CASE ServerToolSucceeds \/ ResultArrives
    <2> DEFINE r == AddToolResult(stored)
               final == CompleteToolCall(r, "completed")
    <2>1. /\ r \in Records /\ r.calls # <<>>
          /\ r.messages = stored.messages /\ r.status = stored.status
      BY <1>14, <1>1, AddToolResultType
      DEF ServerToolSucceeds, ResultArrives, EndWait, CoreType
    <2>2. \E e : \/ Block({r}, final, e, "server_received")
                 \/ Block({r}, final, e, "client_received")
      BY <1>14 DEF ServerToolSucceeds, ResultArrives, EndWait
    <2>3. RolesAt(stored, "server_received") /\ RolesAt(stored, "client_received")
      BY <1>14, <1>2 DEF ServerToolSucceeds, ResultArrives, EndWait, RolesAt
    <2> HIDE DEF r
    <2>4. final.messages = r.messages /\ final.status = r.status
      BY <2>1, CompleteToolCallType
    <2> HIDE DEF final
    <2>5. /\ RolesOK(r)
          /\ RolesAt(final, "server_received") /\ RolesAt(final, "client_received")
      BY <1>2, <2>1, <2>3, <2>4, SameMessages
    <2> QED BY <1>2, <2>2, <2>5, BlockRoles
  <1>15. CASE ServerToolRaises \/ ServerToolTimesOut \/ NoResultArrives
    <2> DEFINE r == CompleteToolCall(stored, "failed")
    <2>1. /\ r \in Records /\ r.steps # <<>> /\ stored \in Records
          /\ r.messages = stored.messages /\ r.status = stored.status
      BY <1>15, <1>1, CompleteToolCallType
      DEF ServerToolRaises, ServerToolTimesOut, NoResultArrives, EndWait, CoreType
    <2>2. \/ Block({}, r, Event("error", "tool"), "tool_error") /\ pc = "executing"
          \/ FailResponse(r)
          \/ FinalizeCancelled(stored)
      BY <1>15 DEF ServerToolRaises, ServerToolTimesOut, NoResultArrives, EndWait
    <2> HIDE DEF r
    <2>3. RolesOK(r)
      BY <1>2, <2>1, SameMessages
    <2>4. CASE Block({}, r, Event("error", "tool"), "tool_error") /\ pc = "executing"
      <3>1. RolesAt(stored, "tool_error")
        BY <2>4, <1>2 DEF RolesAt
      <3>2. RolesAt(r, "tool_error")
        BY <1>2, <2>1, <3>1, SameMessages
      <3> QED BY <1>2, <2>4, <3>2, BlockRoles
    <2> QED BY <1>2, <2>1, <2>2, <2>3, <2>4, FailResponseRoles, FinalizeCancelledRoles
  <1>16. CASE EndServerCall
    <2> DEFINE r == AppendMessage(stored, "tool_result")
               final == CompleteStep(r, "completed")
    <2>1. /\ stored.status # "completed"
          /\ Len(stored.messages) % 2 = 0
          /\ stored.steps # <<>>
      BY <1>16, <1>2, <1>1 DEF EndServerCall, RolesAt, CoreType
    <2>2. RolesOK(r) /\ r \in Records /\ r.steps # <<>> /\ RolesAt(r, "step_next")
      BY <1>1, <1>2, <2>1, UserMessageRoles DEF CoreType
    <2>3. Block({r}, final, Event("step.completed", "completed"), "step_next")
      BY <1>16 DEF EndServerCall, AppendToolResult
    <2> HIDE DEF r
    <2>4. final.messages = r.messages /\ final.status = r.status
      BY <2>2, CompleteStepType DEF StepStatuses
    <2> HIDE DEF final
    <2>5. RolesAt(final, "step_next")
      BY <2>2, <2>4, SameMessages
    <2> QED BY <1>2, <2>2, <2>3, <2>5, BlockRoles
  <1>17. CASE FeedErrorBack
    <2> DEFINE r == AppendMessage(stored, "tool_error")
               final == CompleteStep(r, "tool_error_retry")
    <2>1. /\ stored.status # "completed"
          /\ Len(stored.messages) % 2 = 0
          /\ stored.steps # <<>>
      BY <1>17, <1>2, <1>1 DEF FeedErrorBack, RolesAt, CoreType
    <2>2. RolesOK(r) /\ r \in Records /\ r.steps # <<>> /\ RolesAt(r, "step_next")
      BY <1>1, <1>2, <2>1, UserMessageRoles DEF CoreType
    <2>3. \/ Block({r}, final, Event("step.completed", "tool_error_retry"), "step_next")
          \/ FailResponse(r)
      BY <1>17 DEF FeedErrorBack, AppendToolError
    <2> HIDE DEF r
    <2>4. final.messages = r.messages /\ final.status = r.status
      BY <2>2, CompleteStepType DEF StepStatuses
    <2> HIDE DEF final
    <2>5. RolesAt(final, "step_next")
      BY <2>2, <2>4, SameMessages
    <2> QED BY <1>2, <2>2, <2>3, <2>5, BlockRoles, FailResponseRoles
  <1>18. CASE CallClientTool
    <2> DEFINE final == CompleteStep(stored, "waiting_tool")
    <2>1. RolesAt(stored, "client_step")
      BY <1>18, <1>2 DEF CallClientTool, RolesAt
    <2>2. final.messages = stored.messages /\ final.status = stored.status
      BY <1>18, <1>1, CompleteStepType DEF CallClientTool, CoreType, StepStatuses
    <2>3. Block({}, final, Event("step.completed", "waiting_tool"), "client_step")
      BY <1>18 DEF CallClientTool
    <2> HIDE DEF final
    <2>4. RolesAt(final, "client_step")
      BY <1>2, <2>1, <2>2, SameMessages
    <2> QED BY <1>2, <2>3, <2>4, BlockRoles
  <1>19. CASE DeliverCancel
    <2>1. stored' \in {stored, SetStatus(stored, "cancelled")} /\ pc' = "done"
      BY <1>19 DEF DeliverCancel
    <2>2. RolesOK(stored')
      BY <2>1, <1>1, <1>2, SetStatusRoles DEF CoreType, Statuses
    <2>3. RolesAt(stored', pc')
      BY <2>1, <2>2, EndingRoles
    <2> QED BY <2>3 DEF RolesInv, RolesAt, RolesOK, Alternate
  <1>20. CASE \/ SendsRequest \/ BeginServerTool \/ WaitForResult \/ Return \/ SendFails
             \/ CancelRequest \/ SocketCloses \/ Disconnect \/ Finished
    <2>1. stored' = stored /\ RolesAt(stored, pc')
      BY <1>20, <1>2 DEF SendsRequest, BeginServerTool, WaitForResult, Return, SendFails,
         CancelRequest, SocketCloses, Disconnect, Finished, vars, RolesAt
    <2> QED BY <2>1 DEF RolesInv, RolesAt, RolesOK, Alternate
  <1>21. ASSUME NEW k \in 1..Len(stored.calls), SubmitResult(k) PROVE RolesInv'
    BY <1>21, <1>2 DEF SubmitResult, RolesInv, RolesAt, RolesOK, Alternate
  <1>22. CASE UNCHANGED vars
    BY <1>22, <1>2 DEF vars, RolesInv, RolesAt, RolesOK, Alternate
  <1>23. CASE Raises
    <2>1. /\ RolesOK(stored) /\ stored.status # "completed"
          /\ Len(stored.messages) % 2 = 1
      BY <1>23, <1>2 DEF Raises, RolesAt, ModelsTurn, Ending
    <2>2. /\ stored'.status = stored.status /\ pc' \in Ending
          /\ stored'.messages \in {stored.messages} \cup
               {Append(stored.messages, k) : k \in ModelKinds}
      BY <1>23, <1>1, RaisesEffect DEF CoreType, Ending, ModelKinds
    <2>3. ASSUME NEW k \in ModelKinds
          PROVE  Alternate(Append(stored.messages, k))
      <3>1. stored \in Records /\ k \in Kinds
        BY <1>1 DEF CoreType, Kinds, ModelKinds
      <3>2. RolesOK(AppendMessage(stored, k))
        BY <2>1, <3>1, ModelMessageRoles
      <3>3. AppendMessage(stored, k).messages = Append(stored.messages, k)
        BY <3>1, AppendMessageType
      <3> QED BY <3>2, <3>3 DEF RolesOK
    <2>4. RolesOK(stored')
      BY <2>1, <2>2, <2>3 DEF RolesOK
    <2>5. RolesAt(stored', pc')
      BY <2>2, <2>4, EndingRoles
    <2> QED BY <2>5 DEF RolesInv, RolesAt, RolesOK, Alternate
  <1> QED
    BY <1>3, <1>4, <1>5, <1>6, <1>7, <1>8, <1>9, <1>10, <1>11, <1>12, <1>13, <1>14, <1>15,
       <1>16, <1>17, <1>18, <1>19, <1>20, <1>21, <1>22, <1>23,
       RaisesCases
    DEF Next, TaskStep, Environment

(* THE BACKEND'S HISTORY IS WELL FORMED: the messages a response adds       *)
(* alternate between the user's role and the model's, on every path through *)
(* tool calls, repairs, cancels and failures of the store, and a response   *)
(* is completed only by an answer.                                          *)
THEOREM RolesAreAlternate == Spec => []RolesAlternate
  <1>1. Init => RolesInv
    <2>1. NoRecord.messages = <<>> /\ NoRecord.status = "none" /\ Len(<<>>) = 0
      BY DEF NoRecord
    <2> QED BY <2>1 DEF Init, RolesInv, RolesAt, RolesOK, Alternate, ModelsTurn, UsersTurn,
                        CallOpen
  <1>2. TypeOK /\ RolesInv /\ [Next]_vars => RolesInv'
    BY RolesStep
  <1>3. RolesInv => RolesAlternate
    BY DEF RolesInv, RolesAt, RolesOK, Alternate, RolesAlternate, ModelKinds
  <1> QED BY <1>1, <1>2, <1>3, TypeCorrect, PTL DEF Spec

-----------------------------------------------------------------------------
(* Giving up after failures. *)

ServerPcs == {"server_waiting", "executing", "server_received", "server_call_done",
              "tool_error"}
ClientPcs == {"client_step", "client_waiting", "waiting", "client_received",
              "client_call_done"}

Current(r) == r.calls[Len(r.calls)]

(* The server calls up to the n-th that failed one after the other, the     *)
(* last of them included, are no more than c.                               *)
Counted(r, n, c) ==
    \A i \in 1..n : AllFailed(r, i, n) => Cardinality(ServerCalls(r, i, n)) <= c

(* consecutive_tool_errors counts them; the call in progress is not one of  *)
(* them yet.                                                                *)
CountAt(r, at, errors) ==
    /\ errors < MaxConsecutiveErrors
    /\ at \in ServerPcs => Current(r).mode = "server"
    /\ at \in ClientPcs => Current(r).mode = "client"
    /\ at \in {"server_received", "server_call_done"} => Current(r).status = "completed"
    /\ at \in CallOpen => Counted(r, Len(r.calls) - 1, errors)
    /\ at \notin CallOpen => Counted(r, Len(r.calls), errors)

CountInv == pc \notin Ending => CountAt(stored, pc, consecutiveErrors)

(* How an update of the current call's row relates the two records.         *)
OnlyCurrent(r, q) ==
    /\ Len(q.calls) = Len(r.calls)
    /\ \A k \in 1..Len(r.calls) : k # Len(r.calls) => q.calls[k] = r.calls[k]
    /\ Current(q).mode = Current(r).mode

(* complete_tool_call() and add_tool_result() touch the current call only.  *)
LEMMA CompleteToolCallCurrent ==
    ASSUME NEW r \in Records, r.calls # <<>>, NEW s \in {"completed", "failed"}
    PROVE  /\ OnlyCurrent(r, CompleteToolCall(r, s))
           /\ Current(CompleteToolCall(r, s)).status = s
           /\ Current(CompleteToolCall(r, s)).result = Current(r).result
  <1> DEFINE last == [r.calls[Len(r.calls)] EXCEPT !.status = s]
             new == [r.calls EXCEPT ![Len(r.calls)] = last]
  <1>1. /\ last \in CallRows /\ last.status = s
        /\ CompleteToolCall(r, s).calls = new
    BY CompleteToolCallType
  <1>2. last.mode = Current(r).mode /\ last.result = Current(r).result
    BY LastCall DEF CallRows, Current
  <1> HIDE DEF last
  <1>3. /\ Len(new) = Len(r.calls)
        /\ new[Len(r.calls)] = last
        /\ \A k \in 1..Len(r.calls) : k # Len(r.calls) => new[k] = r.calls[k]
    BY <1>1, RecordFields, ReplaceLast
  <1> HIDE DEF new
  <1> QED BY <1>1, <1>2, <1>3 DEF OnlyCurrent, Current

LEMMA AddToolResultCurrent ==
    ASSUME NEW r \in Records, r.calls # <<>>
    PROVE  /\ OnlyCurrent(r, AddToolResult(r))
           /\ Current(AddToolResult(r)).status = Current(r).status
  <1> DEFINE last == [r.calls[Len(r.calls)] EXCEPT !.result = TRUE]
             new == [r.calls EXCEPT ![Len(r.calls)] = last]
  <1>1. last \in CallRows /\ AddToolResult(r).calls = new
    BY AddToolResultType
  <1>2. last.mode = Current(r).mode /\ last.status = Current(r).status
    BY LastCall DEF CallRows, Current
  <1> HIDE DEF last
  <1>3. /\ Len(new) = Len(r.calls)
        /\ new[Len(r.calls)] = last
        /\ \A k \in 1..Len(r.calls) : k # Len(r.calls) => new[k] = r.calls[k]
    BY <1>1, RecordFields, ReplaceLast
  <1> HIDE DEF new
  <1> QED BY <1>1, <1>2, <1>3 DEF OnlyCurrent, Current

(* A call's row is a row, and the number of calls a number.                 *)
LEMMA CallsLen ==
    ASSUME NEW r \in Records
    PROVE  /\ Len(r.calls) \in Nat
           /\ r.calls # <<>> => Len(r.calls) \in Nat \ {0}
  BY RecordFields, LenProperties, EmptySeq

(* The count is one of the first n calls only.                              *)
LEMMA SameCounted ==
    ASSUME NEW r, NEW q, NEW n \in Int, NEW c,
           \A k \in 1..n : q.calls[k] = r.calls[k],
           Counted(r, n, c)
    PROVE  Counted(q, n, c)
  <1> SUFFICES ASSUME NEW i \in 1..n, AllFailed(q, i, n)
               PROVE  Cardinality(ServerCalls(q, i, n)) <= c
    BY DEF Counted
  <1>1. \A k \in i..n : q.calls[k] = r.calls[k]
    OBVIOUS
  <1>2. ServerCalls(q, i, n) = ServerCalls(r, i, n)
    BY <1>1 DEF ServerCalls
  <1>3. AllFailed(r, i, n)
    BY <1>1, <1>2 DEF AllFailed, ServerCalls
  <1> QED BY <1>2, <1>3 DEF Counted

(* Server calls are finitely many.                                          *)
LEMMA ServerCallsFinite ==
    ASSUME NEW r, NEW i \in Int, NEW n \in Int
    PROVE  /\ IsFiniteSet(ServerCalls(r, i, n))
           /\ Cardinality(ServerCalls(r, i, n)) \in Nat
  <1>1. IsFiniteSet(i..n)
    BY FS_Interval
  <1>2. ServerCalls(r, i, n) \in SUBSET (i..n)
    BY DEF ServerCalls
  <1> QED BY <1>1, <1>2, FS_Subset, FS_CardinalityType

(* A client call adds nothing to the count.                                 *)
LEMMA CountClientCall ==
    ASSUME NEW r, NEW n \in Nat \ {0}, NEW c \in Nat,
           r.calls[n].mode = "client", Counted(r, n - 1, c)
    PROVE  Counted(r, n, c)
  <1> SUFFICES ASSUME NEW i \in 1..n, AllFailed(r, i, n)
               PROVE  Cardinality(ServerCalls(r, i, n)) <= c
    BY DEF Counted
  <1>1. ServerCalls(r, i, n) = ServerCalls(r, i, n - 1)
    BY DEF ServerCalls
  <1>2. CASE i = n
    <2>1. ServerCalls(r, i, n) = {}
      BY <1>2 DEF ServerCalls
    <2> QED BY <2>1, FS_EmptySet
  <1>3. CASE i \in 1..(n - 1)
    <2>1. AllFailed(r, i, n - 1)
      BY <1>1 DEF AllFailed
    <2> QED BY <1>1, <1>3, <2>1 DEF Counted
  <1> QED BY <1>2, <1>3

(* Any further call adds at most one.                                       *)
LEMMA CountOneMore ==
    ASSUME NEW r, NEW n \in Nat \ {0}, NEW c \in Nat, Counted(r, n - 1, c)
    PROVE  Counted(r, n, c + 1)
  <1> SUFFICES ASSUME NEW i \in 1..n, AllFailed(r, i, n)
               PROVE  Cardinality(ServerCalls(r, i, n)) <= c + 1
    BY DEF Counted
  <1> DEFINE earlier == ServerCalls(r, i, n - 1)
  <1>1. IsFiniteSet(earlier) /\ Cardinality(earlier) \in Nat
    BY ServerCallsFinite
  <1>2. ServerCalls(r, i, n) \in SUBSET (earlier \cup {n})
    BY DEF ServerCalls
  <1>3. Cardinality(earlier) <= c
    <2>1. CASE i = n
      <3>1. earlier = {}
        BY <2>1 DEF ServerCalls
      <3> QED BY <3>1, FS_EmptySet
    <2>2. CASE i \in 1..(n - 1)
      <3>1. AllFailed(r, i, n - 1)
        BY DEF AllFailed, ServerCalls
      <3> QED BY <2>2, <3>1 DEF Counted
    <2> QED BY <2>1, <2>2
  <1> HIDE DEF earlier
  <1>4. IsFiniteSet(earlier \cup {n}) /\ Cardinality(earlier \cup {n}) <= c + 1
    BY <1>1, <1>3, FS_AddElement
  <1>5. Cardinality(ServerCalls(r, i, n)) <= Cardinality(earlier \cup {n})
    BY <1>2, <1>4, FS_Subset
  <1>6. /\ Cardinality(ServerCalls(r, i, n)) \in Nat
        /\ Cardinality(earlier \cup {n}) \in Nat
    BY <1>4, ServerCallsFinite, FS_CardinalityType
  <1> QED BY <1>4, <1>5, <1>6

(* A server call that succeeded ends every row of failures.                 *)
LEMMA CountReset ==
    ASSUME NEW r, NEW n \in Nat \ {0}, NEW c,
           r.calls[n].mode = "server", r.calls[n].status = "completed"
    PROVE  Counted(r, n, c)
  BY DEF Counted, AllFailed, ServerCalls

(* A record with the same calls has the same count.                         *)
LEMMA SameCalls ==
    ASSUME NEW r, NEW q, q.calls = r.calls
    PROVE  \A at, c : CountAt(q, at, c) <=> CountAt(r, at, c)
  BY DEF CountAt, Counted, AllFailed, ServerCalls, Current

(* Where the calls are as they were, only an await outside of a call, or    *)
(* inside of the same one, may follow.                                      *)
LEMMA BlockCount ==
    ASSUME NEW partial, NEW final, NEW e, NEW next, Block(partial, final, e, next),
           next \notin Ending => CountAt(final, next, consecutiveErrors')
    PROVE  CountInv'
  <1>1. CASE stored' = final /\ pc' = next
    BY <1>1 DEF CountInv, CountAt, Counted, AllFailed, ServerCalls, Current
  <1>2. CASE pc' \in {"abort_error", "done"}
    BY <1>2 DEF CountInv, Ending
  <1> QED BY <1>1, <1>2, BlockCases

(* Both ends of a response, and the head of the loop.                       *)
LEMMA FailResponseCount ==
    ASSUME NEW r, FailResponse(r)
    PROVE  CountInv'
  BY BlockCount DEF FailResponse, Ending

LEMMA FinalizeCancelledCount ==
    ASSUME NEW r, FinalizeCancelled(r)
    PROVE  CountInv'
  BY BlockCount DEF FinalizeCancelled, Ending

LEMMA LoopHeadCount ==
    ASSUME NEW r \in Records, CountAt(r, "step_next", consecutiveErrors'), LoopHead(r)
    PROVE  CountInv'
  <1>1. CASE Block({r}, SetStatus(r, "failed"), Event("error", "fatal"), "fail_error")
    BY <1>1, BlockCount DEF Ending
  <1>2. CASE FinalizeCancelled(r)
    BY <1>2, FinalizeCancelledCount
  <1>3. CASE Block({r}, StartStep(r), Event("step.created", "none"), "step_created")
    <2> DEFINE final == StartStep(r)
    <2>1. final.calls = r.calls
      BY StartStepType
    <2>2. Block({r}, final, Event("step.created", "none"), "step_created")
      BY <1>3
    <2> HIDE DEF final
    <2>3. CountAt(final, "step_next", consecutiveErrors')
      BY <2>1, SameCalls
    <2>4. CountAt(final, "step_created", consecutiveErrors')
      BY <2>3 DEF CountAt, ServerPcs, ClientPcs, CallOpen
    <2>5. ASSUME NEW e, Block({r}, final, e, "step_created") PROVE CountInv'
      BY <2>4, <2>5, BlockCount
    <2> QED BY <2>2, <2>5
  <1> QED BY <1>1, <1>2, <1>3 DEF LoopHead, MaxStepsExceeded

(* THE COUNT: one step per action.                                          *)
LEMMA CountStep ==
    ASSUME TypeOK, CountInv, [Next]_vars
    PROVE  CountInv'
  <1>1. CoreType /\ consecutiveErrors \in Nat
    BY TypeParts DEF RestType
  <1>2. pc \notin Ending => CountAt(stored, pc, consecutiveErrors)
    BY DEF CountInv
  <1>3. /\ Len(stored.calls) \in Nat
        /\ pc \in CallOpen => Len(stored.calls) \in Nat \ {0}
    BY <1>1, CallsLen DEF CoreType
  <1> USE DEF ResumesAt, StepOpen, CallOpen, Ending, ServerPcs, ClientPcs, Locals
  <1>4. CASE Start
    <2> DEFINE final == StartResponse(stored)
    <2>1. final.calls = stored.calls
      BY <1>1, StartResponseType DEF CoreType
    <2>2. /\ Block({}, final, Event("created", "created"), "created")
          /\ consecutiveErrors' = consecutiveErrors
      BY <1>4 DEF Start
    <2>3. CountAt(stored, "created", consecutiveErrors)
      BY <1>4, <1>2 DEF Start, CountAt
    <2> HIDE DEF final
    <2>4. CountAt(final, "created", consecutiveErrors)
      BY <2>1, <2>3, SameCalls
    <2> QED BY <2>2, <2>4, BlockCount
  <1>5. CASE \/ SayInProgress \/ CallServerTool \/ SayServerCallCompleted \/ SayWaiting
            \/ SayClientCallCompleted \/ SayFailed
    <2>1. PICK e, next : /\ Say(e, next)
                         /\ next \notin Ending => CountAt(stored, next, consecutiveErrors)
      BY <1>5, <1>2
      DEF SayInProgress, CallServerTool, SayServerCallCompleted, SayWaiting,
          SayClientCallCompleted, SayFailed, CountAt, CurrentMode, Current
    <2>2. stored' = stored /\ pc' \in {next, "done"}
      BY <2>1, SayCases
    <2>3. consecutiveErrors' = consecutiveErrors
      BY <1>5 DEF SayInProgress, CallServerTool, SayServerCallCompleted, SayWaiting,
          SayClientCallCompleted, SayFailed
    <2> QED BY <2>1, <2>2, <2>3
            DEF CountInv, CountAt, Counted, AllFailed, ServerCalls, Current
  <1>6. CASE NextStep
    <2>1. CountAt(stored, "step_next", consecutiveErrors')
      BY <1>6, <1>2 DEF NextStep, CountAt
    <2> QED BY <1>6, <2>1, <1>1, LoopHeadCount DEF NextStep, CoreType
  <1>7. CASE EndClientCall
    <2> DEFINE r == AppendMessage(stored, "tool_result")
    <2>1. CountAt(stored, "step_next", consecutiveErrors')
      <3>1. /\ stored.calls[Len(stored.calls)].mode = "client"
            /\ Counted(stored, Len(stored.calls) - 1, consecutiveErrors)
            /\ consecutiveErrors' = consecutiveErrors
            /\ consecutiveErrors < MaxConsecutiveErrors
        BY <1>7, <1>2 DEF EndClientCall, CountAt, Current
      <3>2. Counted(stored, Len(stored.calls), consecutiveErrors)
        BY <3>1, <1>1, <1>7, <1>3, CountClientCall DEF EndClientCall
      <3> QED BY <3>1, <3>2 DEF CountAt
    <2>2. r \in Records /\ r.calls = stored.calls
      BY <1>1, AppendMessageType DEF CoreType, Kinds
    <2>3. LoopHead(r)
      BY <1>7 DEF EndClientCall, AppendToolResult
    <2> HIDE DEF r
    <2>4. CountAt(r, "step_next", consecutiveErrors')
      BY <2>1, <2>2, SameCalls
    <2> QED BY <2>2, <2>3, <2>4, LoopHeadCount
  <1>8. CASE StreamCancelled
    BY <1>8, FinalizeCancelledCount DEF StreamCancelled
  <1>9. CASE StreamFails
    BY <1>9, FailResponseCount DEF StreamFails
  <1>10. CASE Fragment
    <2>1. CASE FailResponse(stored)
      BY <2>1, FailResponseCount
    <2>2. CASE UNCHANGED <<pc, stored, storeFailed>>
      BY <1>10, <2>2, <1>2
      DEF Fragment, CountInv, CountAt, Counted, AllFailed, ServerCalls, Current
    <2> QED BY <1>10, <2>1, <2>2 DEF Fragment
  <1>11. ASSUME NEW mode \in Modes, OutputIsToolCall(mode) PROVE CountInv'
    <2> DEFINE r == AppendMessage(stored, "tool_call")
               row == [mode |-> mode, status |-> "in_progress", result |-> FALSE]
               final == CreateToolCall(r, mode)
    <2>1. CASE FailResponse(stored)
      BY <2>1, FailResponseCount
    <2>2. CASE Block({r}, final, Event("tool_call.created", mode), "call_created")
      <3>1. r \in Records /\ r.calls = stored.calls
        BY <1>1, AppendMessageType DEF CoreType, Kinds
      <3> HIDE DEF r
      <3>2. final.calls = Append(stored.calls, row)
        BY <1>11, <3>1, CreateToolCallType
      <3>3. row \in CallRows
        BY <1>11 DEF CallRows
      <3> HIDE DEF final, row
      <3>4. /\ Len(final.calls) - 1 = Len(stored.calls)
            /\ \A k \in 1..Len(stored.calls) : final.calls[k] = stored.calls[k]
        BY <3>2, <3>3, <1>1, <1>3, RecordFields, AppendProperties DEF CoreType
      <3>5. /\ Counted(stored, Len(stored.calls), consecutiveErrors)
            /\ consecutiveErrors' = consecutiveErrors
            /\ consecutiveErrors < MaxConsecutiveErrors
        BY <1>11, <1>2 DEF OutputIsToolCall, CountAt
      <3>6. Counted(final, Len(stored.calls), consecutiveErrors)
        BY <3>4, <3>5, <1>3, SameCounted
      <3>7. CountAt(final, "call_created", consecutiveErrors')
        BY <3>4, <3>5, <3>6 DEF CountAt
      <3>8. ASSUME NEW e, Block({r}, final, e, "call_created") PROVE CountInv'
        BY <3>7, <3>8, BlockCount
      <3> QED BY <2>2, <3>8
    <2> QED BY <1>11, <2>1, <2>2 DEF OutputIsToolCall
  <1>12. CASE OutputIsAnswer
    <2> DEFINE r == AppendMessage(stored, "assistant")
               final == CompleteStep(r, "completed")
    <2>1. /\ CountAt(stored, "step_final", consecutiveErrors')
          /\ stored.steps # <<>>
      BY <1>12, <1>2, <1>1 DEF OutputIsAnswer, CountAt, CoreType
    <2>2. r \in Records /\ r.steps # <<>> /\ r.calls = stored.calls
      BY <1>1, <2>1, AppendMessageType DEF CoreType, Kinds
    <2>3. Block({r}, final, Event("step.completed", "completed"), "step_final")
      BY <1>12 DEF OutputIsAnswer
    <2> HIDE DEF r
    <2>4. final.calls = r.calls
      BY <2>2, CompleteStepType DEF StepStatuses
    <2> HIDE DEF final
    <2>5. CountAt(final, "step_final", consecutiveErrors')
      BY <2>1, <2>2, <2>4, SameCalls
    <2> QED BY <2>3, <2>5, BlockCount
  <1>13. CASE OutputIsInvalid
    <2> DEFINE r == AppendMessage(stored, "assistant")
               repair == AppendMessage(r, "repair")
               final == CompleteStep(repair, "schema_retry")
    <2>1. /\ CountAt(stored, "step_next", consecutiveErrors')
          /\ stored.steps # <<>>
      BY <1>13, <1>2, <1>1 DEF OutputIsInvalid, CountAt, CoreType
    <2>2. r \in Records /\ r.steps # <<>> /\ r.calls = stored.calls
      BY <1>1, <2>1, AppendMessageType DEF CoreType, Kinds
    <2>3. \/ Block({r, repair}, final, Event("step.completed", "schema_retry"), "step_next")
          \/ FailResponse(r)
      BY <1>13 DEF OutputIsInvalid
    <2> HIDE DEF r
    <2>4. repair \in Records /\ repair.steps # <<>> /\ repair.calls = r.calls
      BY <2>2, AppendMessageType DEF Kinds
    <2> HIDE DEF repair
    <2>5. final.calls = repair.calls
      BY <2>4, CompleteStepType DEF StepStatuses
    <2> HIDE DEF final
    <2>6. CountAt(final, "step_next", consecutiveErrors')
      BY <2>1, <2>2, <2>4, <2>5, SameCalls
    <2> QED BY <2>3, <2>6, BlockCount, FailResponseCount
  <1>14. CASE AnswerCompletes
    BY <1>14, BlockCount DEF AnswerCompletes, FinalizeCompleted
  <1>15. CASE ServerToolSucceeds \/ ResultArrives
    <2> DEFINE r == AddToolResult(stored)
               final == CompleteToolCall(r, "completed")
    <2>1. /\ r \in Records /\ r.calls # <<>>
          /\ OnlyCurrent(stored, r)
      BY <1>15, <1>1, AddToolResultType, AddToolResultCurrent
      DEF ServerToolSucceeds, ResultArrives, EndWait, CoreType
    <2>2. \E e : \/ Block({r}, final, e, "server_received") /\ pc = "executing"
                 \/ Block({r}, final, e, "client_received") /\ pc = "waiting"
      BY <1>15 DEF ServerToolSucceeds, ResultArrives, EndWait
    <2>3. /\ Counted(stored, Len(stored.calls) - 1, consecutiveErrors)
          /\ consecutiveErrors' = consecutiveErrors
          /\ consecutiveErrors < MaxConsecutiveErrors
          /\ pc = "executing" => Current(stored).mode = "server"
          /\ pc = "waiting" => Current(stored).mode = "client"
      BY <1>15, <1>2 DEF ServerToolSucceeds, ResultArrives, EndWait, CountAt
    <2> HIDE DEF r
    <2>4. OnlyCurrent(r, final) /\ Current(final).status = "completed"
      BY <2>1, CompleteToolCallCurrent
    <2> HIDE DEF final
    <2>5. /\ Len(final.calls) = Len(stored.calls)
          /\ \A k \in 1..(Len(stored.calls) - 1) : final.calls[k] = stored.calls[k]
          /\ Current(final).mode = Current(stored).mode
      BY <2>1, <2>4, <1>3 DEF OnlyCurrent
    <2>6. Counted(final, Len(final.calls) - 1, consecutiveErrors)
      BY <2>3, <2>5, <1>3, SameCounted
    <2>7. /\ pc = "executing" => CountAt(final, "server_received", consecutiveErrors')
          /\ pc = "waiting" => CountAt(final, "client_received", consecutiveErrors')
      BY <2>3, <2>4, <2>5, <2>6 DEF CountAt
    <2> QED BY <2>2, <2>7, BlockCount
  <1>16. CASE ServerToolRaises
    <2> DEFINE final == CompleteToolCall(stored, "failed")
    <2>1. OnlyCurrent(stored, final)
      BY <1>16, <1>1, CompleteToolCallCurrent DEF ServerToolRaises, CoreType
    <2>2. Block({}, final, Event("error", "tool"), "tool_error")
      BY <1>16 DEF ServerToolRaises
    <2>3. /\ Counted(stored, Len(stored.calls) - 1, consecutiveErrors)
          /\ consecutiveErrors' = consecutiveErrors
          /\ consecutiveErrors < MaxConsecutiveErrors
          /\ Current(stored).mode = "server"
      BY <1>16, <1>2 DEF ServerToolRaises, CountAt
    <2> HIDE DEF final
    <2>4. /\ Len(final.calls) = Len(stored.calls)
          /\ \A k \in 1..(Len(stored.calls) - 1) : final.calls[k] = stored.calls[k]
      BY <2>1, <1>3 DEF OnlyCurrent
    <2>5. Counted(final, Len(final.calls) - 1, consecutiveErrors)
      BY <2>3, <2>4, <1>3, SameCounted
    <2>6. CountAt(final, "tool_error", consecutiveErrors')
      BY <2>1, <2>3, <2>5 DEF CountAt, OnlyCurrent
    <2> QED BY <2>2, <2>6, BlockCount
  <1>17. CASE ServerToolTimesOut \/ NoResultArrives
    BY <1>17, FailResponseCount, FinalizeCancelledCount
    DEF ServerToolTimesOut, NoResultArrives
  <1>18. CASE EndServerCall
    <2> DEFINE r == AppendMessage(stored, "tool_result")
               final == CompleteStep(r, "completed")
    <2>1. r \in Records /\ r.steps # <<>> /\ r.calls = stored.calls
      BY <1>18, <1>1, AppendMessageType DEF EndServerCall, CoreType, Kinds
    <2>2. Block({r}, final, Event("step.completed", "completed"), "step_next")
      BY <1>18 DEF EndServerCall, AppendToolResult
    <2>3. /\ stored.calls[Len(stored.calls)].mode = "server"
          /\ stored.calls[Len(stored.calls)].status = "completed"
      BY <1>18, <1>2 DEF EndServerCall, CountAt, Current
    <2>4. Counted(stored, Len(stored.calls), 0)
      BY <1>18, <1>3, <2>3, CountReset DEF EndServerCall
    <2>5. CountAt(stored, "step_next", consecutiveErrors')
      BY <1>18, <2>4 DEF EndServerCall, CountAt, MaxConsecutiveErrors
    <2> HIDE DEF r
    <2>6. final.calls = r.calls
      BY <2>1, CompleteStepType DEF StepStatuses
    <2> HIDE DEF final
    <2>7. CountAt(final, "step_next", consecutiveErrors')
      BY <2>1, <2>5, <2>6, SameCalls
    <2> QED BY <2>2, <2>7, BlockCount
  <1>19. CASE FeedErrorBack
    <2> DEFINE r == AppendMessage(stored, "tool_error")
               final == CompleteStep(r, "tool_error_retry")
    <2>1. r \in Records /\ r.steps # <<>> /\ r.calls = stored.calls
      BY <1>19, <1>1, AppendMessageType DEF FeedErrorBack, CoreType, Kinds
    <2>2. CASE FailResponse(r)
      BY <2>2, FailResponseCount
    <2>3. CASE /\ consecutiveErrors' < MaxConsecutiveErrors
               /\ Block({r}, final, Event("step.completed", "tool_error_retry"), "step_next")
      <3>1. /\ Counted(stored, Len(stored.calls) - 1, consecutiveErrors)
            /\ consecutiveErrors' = consecutiveErrors + 1
        BY <1>19, <1>2 DEF FeedErrorBack, CountAt
      <3>2. Counted(stored, Len(stored.calls), consecutiveErrors')
        BY <1>19, <1>1, <1>3, <3>1, CountOneMore DEF FeedErrorBack
      <3>3. CountAt(stored, "step_next", consecutiveErrors')
        BY <2>3, <3>2 DEF CountAt
      <3> HIDE DEF r
      <3>4. final.calls = r.calls
        BY <2>1, CompleteStepType DEF StepStatuses
      <3> HIDE DEF final
      <3>5. CountAt(final, "step_next", consecutiveErrors')
        BY <2>1, <3>3, <3>4, SameCalls
      <3> QED BY <2>3, <3>5, BlockCount
    <2> QED BY <1>19, <2>2, <2>3 DEF FeedErrorBack, AppendToolError
  <1>20. CASE CallClientTool
    <2> DEFINE final == CompleteStep(stored, "waiting_tool")
    <2>1. CountAt(stored, "client_step", consecutiveErrors')
      BY <1>20, <1>2 DEF CallClientTool, CountAt, CurrentMode, Current
    <2>2. final.calls = stored.calls
      BY <1>20, <1>1, CompleteStepType DEF CallClientTool, CoreType, StepStatuses
    <2>3. Block({}, final, Event("step.completed", "waiting_tool"), "client_step")
      BY <1>20 DEF CallClientTool
    <2> HIDE DEF final
    <2>4. CountAt(final, "client_step", consecutiveErrors')
      BY <2>1, <2>2, SameCalls
    <2> QED BY <2>3, <2>4, BlockCount
  <1>21. CASE \/ SendsRequest \/ BeginServerTool \/ WaitForResult \/ Return \/ SendFails
             \/ DeliverCancel \/ CancelRequest \/ SocketCloses \/ Disconnect \/ Finished
    <2>1. pc' \notin Ending =>
            stored' = stored /\ CountAt(stored, pc', consecutiveErrors')
      BY <1>21, <1>2 DEF SendsRequest, BeginServerTool, WaitForResult, Return, SendFails,
         DeliverCancel, CancelRequest, SocketCloses, Disconnect, Finished, vars, CountAt
    <2> QED BY <2>1 DEF CountInv, CountAt, Counted, AllFailed, ServerCalls, Current
  <1>22. ASSUME NEW k \in 1..Len(stored.calls), SubmitResult(k) PROVE CountInv'
    BY <1>22, <1>2
    DEF SubmitResult, CountInv, CountAt, Counted, AllFailed, ServerCalls, Current
  <1>23. CASE UNCHANGED vars
    BY <1>23, <1>2 DEF vars, CountInv, CountAt, Counted, AllFailed, ServerCalls, Current
  <1>24. CASE Raises
    BY <1>24, <1>1, RaisesEffect DEF CoreType, CountInv, Ending
  <1> QED
    BY <1>4, <1>5, <1>6, <1>7, <1>8, <1>9, <1>10, <1>11, <1>12, <1>13, <1>14, <1>15, <1>16,
       <1>17, <1>18, <1>19, <1>20, <1>21, <1>22, <1>23, <1>24,
       RaisesCases
    DEF Next, TaskStep, Environment

(* consecutive_tool_errors bounds the failures in a row at every await of a *)
(* response that goes on.                                                   *)
THEOREM CountInvariant == Spec => []CountInv
  <1>1. Init => CountInv
    <2>1. NoRecord.calls = <<>> /\ Len(<<>>) = 0
      BY DEF NoRecord
    <2> QED BY <2>1 DEF Init, CountInv, CountAt, Counted, MaxConsecutiveErrors,
                        ServerPcs, ClientPcs, CallOpen
  <1> QED BY <1>1, CountStep, TypeCorrect, PTL DEF Spec

(* AGENT GIVES UP: after MAX_CONSECUTIVE_ERRORS failures of server tools    *)
(* with no success between them no further step begins, whatever client     *)
(* calls and repairs of the output lie between them.                        *)
THEOREM ThreeFailuresEnd == Spec => []GivesUp
  <1>1. TypeOK /\ CountInv => GivesUp
    <2> SUFFICES ASSUME TypeOK, CountInv, pc = "step_created", FailedThrice
                 PROVE  FALSE
      BY DEF GivesUp
    <2>1. /\ Counted(stored, Len(stored.calls), consecutiveErrors)
          /\ consecutiveErrors < MaxConsecutiveErrors
          /\ consecutiveErrors \in Nat
      BY DEF CountInv, CountAt, Ending, CallOpen, TypeOK
    <2>2. PICK i \in 1..Len(stored.calls) :
            /\ AllFailed(stored, i, Len(stored.calls))
            /\ Cardinality(ServerCalls(stored, i, Len(stored.calls))) >= MaxConsecutiveErrors
      BY DEF FailedThrice
    <2>3. Len(stored.calls) \in Nat
      BY CallsLen DEF TypeOK
    <2>4. Cardinality(ServerCalls(stored, i, Len(stored.calls))) \in Nat
      BY <2>3, ServerCallsFinite
    <2> QED BY <2>1, <2>2, <2>4 DEF Counted, MaxConsecutiveErrors
  <1> QED BY <1>1, CountInvariant, TypeCorrect, PTL

-----------------------------------------------------------------------------
(* What the client is told at the end. *)

(* Once the terminal event is sent the task only returns; a failure of the  *)
(* store is answered at once; a response is in progress while the session   *)
(* works, and after the last resort if the store has not failed; one that   *)
(* failed is stored so before its terminal event; and the task is cancelled *)
(* by the disconnect handler only.                                          *)
ToldInv ==
    /\ taskCancelled => sock = "gone"
    /\ storeFailed => pc \in Aborting \cup {"done"}
    /\ pc \notin Ending \cup {"start"} => stored.status = "in_progress"
    /\ pc \in Aborting => storeFailed \/ stored.status = "in_progress"
    /\ LastType = "completed" => pc \in {"terminal", "abort_terminal", "done"}
    /\ pc = "fail_error" => stored.status = "failed"
    /\ ToldIsStored

(* The last event after an emit that reached the client.                    *)
LEMMA LastAppended ==
    ASSUME events \in Seq(Events), NEW e, events' = Append(events, e)
    PROVE  LastType' = e.type /\ events'[Len(events')] = e
  <1>1. events' # <<>> /\ events'[Len(events')] = e
    OBVIOUS
  <1> QED BY <1>1 DEF LastType

(* A block whose event, when it is the terminal one, tells the stored       *)
(* status.                                                                  *)
LEMMA BlockTold ==
    ASSUME events \in Seq(Events), ToldInv,
           pc \notin Aborting \cup {"terminal", "done"}, ResumesAt(pc),
           UNCHANGED sock,
           NEW partial, NEW final, NEW e, NEW next, Block(partial, final, e, next),
           e.type = "completed" => next = "terminal" /\ final.status = e.info,
           next = "fail_error" => final.status = "failed",
           next \notin Ending => final.status = "in_progress",
           next \notin Aborting
    PROVE  ToldInv'
  <1>1. LastType # "completed" /\ ~storeFailed /\ ~taskCancelled'
    BY DEF ToldInv, Aborting, ResumesAt
  <1>2. CASE /\ sock = "open" /\ stored' = final /\ storeFailed' = storeFailed
             /\ pc' = next /\ events' = Append(events, e)
    <2>1. LastType' = e.type /\ events'[Len(events')] = e
      BY <1>2, LastAppended
    <2> QED BY <1>1, <1>2, <2>1 DEF ToldInv, ToldIsStored, Aborting, Ending
  <1>3. CASE sock # "open" /\ pc' = "done" /\ events' = events
    <2>1. LastType' = LastType
      BY <1>3 DEF LastType
    <2> QED BY <1>1, <1>3, <2>1 DEF ToldInv, ToldIsStored, Aborting, Ending
  <1>4. CASE /\ storeFailed' = TRUE /\ pc' = "abort_error"
             /\ events' = Append(events, Event("error", "fatal"))
    <2>1. LastType' = "error"
      BY <1>4, LastAppended DEF Event
    <2> QED BY <1>1, <1>4, <2>1 DEF ToldInv, ToldIsStored, Aborting, Ending
  <1> QED BY <1>2, <1>3, <1>4, BlockCases

(* An emit of any other event, and of the terminal one after a failure that *)
(* is stored.                                                               *)
LEMMA SayTold ==
    ASSUME events \in Seq(Events), ToldInv,
           pc \notin {"terminal", "abort_terminal", "done"}, ResumesAt(pc),
           UNCHANGED sock,
           NEW e, NEW next, Say(e, next),
           \/ e.type # "completed" /\ pc \notin Ending \cup {"start"}
                /\ next \notin Aborting \cup {"fail_error"}
           \/ pc = "fail_error" /\ e = Event("completed", "failed") /\ next = "terminal"
           \/ pc = "abort_error" /\ e = Event("completed", "failed")
                /\ next = "abort_terminal"
    PROVE  ToldInv'
  <1>1. LastType # "completed" /\ ~taskCancelled'
    BY DEF ToldInv, Aborting, ResumesAt
  <1>2. CASE /\ sock = "open" /\ stored' = stored /\ storeFailed' = storeFailed
             /\ pc' = next /\ events' = Append(events, e)
    <2>1. LastType' = e.type /\ events'[Len(events')] = e
      BY <1>2, LastAppended
    <2> QED BY <1>1, <1>2, <2>1 DEF ToldInv, ToldIsStored, Aborting, Ending, Event
  <1>3. CASE sock # "open" /\ pc' = "done" /\ events' = events
    <2>1. LastType' = LastType
      BY <1>3 DEF LastType
    <2> QED BY <1>1, <1>3, <2>1 DEF ToldInv, ToldIsStored, Aborting, Ending
  <1> QED BY <1>2, <1>3, SayCases

(* _fail_response() and _finalize_cancelled().                              *)
LEMMA FailResponseTold ==
    ASSUME events \in Seq(Events), ToldInv,
           pc \notin Aborting \cup {"terminal", "done"}, ResumesAt(pc), UNCHANGED sock,
           NEW r \in Records, r.steps # <<>>, FailResponse(r)
    PROVE  ToldInv'
  <1> DEFINE failed == SetStatus(r, "failed")
             final == CompleteStep(failed, "failed")
  <1>1. failed \in Records /\ failed.steps = r.steps /\ failed.status = "failed"
    BY SetStatusType DEF Statuses
  <1>2. Block({r, failed}, final, Event("error", "fatal"), "fail_error")
    BY DEF FailResponse
  <1> HIDE DEF failed
  <1>3. final.status = "failed"
    BY <1>1, CompleteStepType DEF StepStatuses
  <1>4. Event("error", "fatal").type # "completed"
    BY DEF Event
  <1> QED BY <1>2, <1>3, <1>4, BlockTold DEF Aborting, Ending

LEMMA FinalizeCancelledTold ==
    ASSUME events \in Seq(Events), ToldInv,
           pc \notin Aborting \cup {"terminal", "done"}, ResumesAt(pc), UNCHANGED sock,
           NEW r \in Records, FinalizeCancelled(r)
    PROVE  ToldInv'
  <1>1. SetStatus(r, "cancelled").status = "cancelled"
    BY SetStatusType DEF Statuses
  <1>2. Event("completed", "cancelled").info = "cancelled"
    BY DEF Event
  <1> QED BY <1>1, <1>2, BlockTold DEF FinalizeCancelled, Aborting, Ending

LEMMA LoopHeadTold ==
    ASSUME events \in Seq(Events), ToldInv,
           pc \notin Aborting \cup {"terminal", "done"}, ResumesAt(pc), UNCHANGED sock,
           NEW r \in Records, r.status = "in_progress", LoopHead(r)
    PROVE  ToldInv'
  <1>1. CASE MaxStepsExceeded(r)
    <2>1. SetStatus(r, "failed").status = "failed"
      BY SetStatusType DEF Statuses
    <2>2. Event("error", "fatal").type # "completed"
      BY DEF Event
    <2> QED BY <1>1, <2>1, <2>2, BlockTold DEF MaxStepsExceeded, Aborting, Ending
  <1>2. CASE FinalizeCancelled(r)
    BY <1>2, FinalizeCancelledTold
  <1>3. CASE Block({r}, StartStep(r), Event("step.created", "none"), "step_created")
    <2>1. PICK e : e.type # "completed" /\ Block({r}, StartStep(r), e, "step_created")
      BY <1>3 DEF Event
    <2>2. StartStep(r).status = "in_progress"
      BY StartStepType
    <2> QED BY <2>1, <2>2, BlockTold DEF Aborting
  <1> QED BY <1>1, <1>2, <1>3 DEF LoopHead

(* THE TERMINAL EVENT: one step per action.                                 *)
LEMMA ToldStep ==
    ASSUME TypeOK, ToldInv, [Next]_vars
    PROVE  ToldInv'
  <1>1. /\ stored \in Records /\ events \in Seq(Events)
        /\ pc \in StepOpen \cup CallOpen => stored.steps # <<>>
        /\ pc \in CallOpen => stored.calls # <<>>
        /\ pc \notin Ending \cup {"start"} => stored.status = "in_progress"
    BY DEF TypeOK, ToldInv
  <1> USE DEF StepOpen, CallOpen, Aborting, Locals, Outside
  <1>2. CASE \/ SayInProgress \/ CallServerTool \/ SayServerCallCompleted \/ SayWaiting
            \/ SayClientCallCompleted \/ SayFailed
    <2>1. ResumesAt(pc) /\ UNCHANGED sock
      BY <1>2 DEF SayInProgress, CallServerTool, SayServerCallCompleted, SayWaiting,
                  SayClientCallCompleted, SayFailed, ResumesAt
    <2>2. PICK e, next :
            /\ Say(e, next)
            /\ \/ e.type # "completed" /\ pc \notin Ending \cup {"start"}
                    /\ next \notin Aborting \cup {"fail_error"}
               \/ pc = "fail_error" /\ e = Event("completed", "failed") /\ next = "terminal"
               \/ pc = "abort_error" /\ e = Event("completed", "failed")
                    /\ next = "abort_terminal"
      BY <1>2 DEF SayInProgress, CallServerTool, SayServerCallCompleted, SayWaiting,
                  SayClientCallCompleted, SayFailed, ResumesAt, Event, Ending
    <2>3. pc \notin {"terminal", "abort_terminal", "done"}
      BY <1>2 DEF SayInProgress, CallServerTool, SayServerCallCompleted, SayWaiting,
                  SayClientCallCompleted, SayFailed, ResumesAt
    <2> QED BY <1>1, <2>1, <2>2, <2>3, SayTold
  <1>3. CASE NextStep \/ EndClientCall
    <2> DEFINE r == AppendMessage(stored, "tool_result")
    <2>1. r \in Records /\ r.status = stored.status
      BY <1>1, AppendMessageType DEF Kinds
    <2>2. /\ ResumesAt(pc) /\ UNCHANGED sock
          /\ pc \notin Ending \cup {"start"}
          /\ LoopHead(stored) \/ LoopHead(r)
      BY <1>3 DEF Ending, NextStep, EndClientCall, ResumesAt, AppendToolResult
    <2> HIDE DEF r
    <2> QED BY <1>1, <2>1, <2>2, LoopHeadTold DEF Ending
  <1>4. CASE StreamCancelled
    BY <1>1, <1>4, FinalizeCancelledTold DEF StreamCancelled, ResumesAt
  <1>5. CASE StreamFails
    BY <1>1, <1>5, FailResponseTold DEF StreamFails, ResumesAt
  <1>6. CASE Fragment
    <2>1. CASE FailResponse(stored)
      BY <1>1, <1>6, <2>1, FailResponseTold DEF Fragment, ResumesAt
    <2>2. CASE events' = events /\ UNCHANGED <<pc, stored, storeFailed>>
      BY <1>6, <2>2 DEF Fragment, ResumesAt, ToldInv, ToldIsStored, LastType
    <2>3. CASE events' = Append(events, Event("delta", "none"))
               /\ UNCHANGED <<pc, stored, storeFailed>>
      <3>1. PICK e : e.type = "delta" /\ events' = Append(events, e)
        BY <2>3 DEF Event
      <3>2. LastType' = "delta"
        BY <1>1, <3>1, LastAppended
      <3> QED BY <1>6, <2>3, <3>2 DEF Fragment, ResumesAt, ToldInv, ToldIsStored
    <2> QED BY <1>6, <2>1, <2>2, <2>3 DEF Fragment
  <1>7. CASE \/ Start \/ OutputIsAnswer \/ EndServerCall \/ CallClientTool
            \/ ServerToolSucceeds \/ ResultArrives \/ ServerToolRaises
    <2> DEFINE answer == AppendMessage(stored, "assistant")
               result == AppendMessage(stored, "tool_result")
               added == AddToolResult(stored)
    <2>1. /\ ResumesAt(pc) /\ UNCHANGED sock
          /\ pc \notin Aborting \cup {"terminal", "done"}
      BY <1>7 DEF Start, OutputIsAnswer, EndServerCall, CallClientTool, ServerToolSucceeds,
                  ResultArrives, EndWait, ServerToolRaises, ResumesAt
    <2>2. PICK partial, final, e, next :
            /\ Block(partial, final, e, next)
            /\ e.type # "completed"
            /\ next \notin Aborting \cup {"fail_error"}
            /\ \/ final = StartResponse(stored)
               \/ /\ pc \notin Ending \cup {"start"}
                  /\ \/ pc = "streaming" /\ final = CompleteStep(answer, "completed")
                     \/ pc = "server_call_done" /\ final = CompleteStep(result, "completed")
                     \/ pc = "call_created" /\ final = CompleteStep(stored, "waiting_tool")
                     \/ pc \in CallOpen /\ final = CompleteToolCall(added, "completed")
                     \/ pc \in CallOpen /\ final = CompleteToolCall(stored, "failed")
      BY <1>7 DEF Start, OutputIsAnswer, EndServerCall, CallClientTool, ServerToolSucceeds,
                  ResultArrives, EndWait, ServerToolRaises, Event, ResumesAt, Ending,
                  AppendToolResult
    <2>3. /\ answer \in Records /\ answer.status = stored.status
          /\ answer.steps = stored.steps
          /\ result \in Records /\ result.status = stored.status
          /\ result.steps = stored.steps
          /\ pc \in CallOpen => /\ added \in Records /\ added.status = stored.status
                               /\ added.calls # <<>>
      BY <1>1, AppendMessageType, AddToolResultType DEF Kinds
    <2>4. StartResponse(stored).status = "in_progress"
      BY <1>1, StartResponseType
    <2> HIDE DEF answer, result, added
    <2>5. final.status = "in_progress"
      <3>1. CASE final = StartResponse(stored)
        BY <3>1, <2>4
      <3>2. CASE pc = "streaming" /\ final = CompleteStep(answer, "completed")
        BY <1>1, <2>3, <3>2, CompleteStepType DEF StepStatuses, Ending
      <3>3. CASE pc = "server_call_done" /\ final = CompleteStep(result, "completed")
        BY <1>1, <2>3, <3>3, CompleteStepType DEF StepStatuses, Ending
      <3>4. CASE pc = "call_created" /\ final = CompleteStep(stored, "waiting_tool")
        BY <1>1, <2>3, <3>4, CompleteStepType DEF StepStatuses, Ending
      <3>5. CASE pc \in CallOpen /\ final = CompleteToolCall(added, "completed")
        BY <1>1, <2>3, <3>5, CompleteToolCallType DEF Ending
      <3>6. CASE pc \in CallOpen /\ final = CompleteToolCall(stored, "failed")
        BY <1>1, <2>3, <3>6, CompleteToolCallType DEF Ending
      <3> QED BY <2>2, <3>1, <3>2, <3>3, <3>4, <3>5, <3>6
    <2> QED BY <1>1, <2>1, <2>2, <2>5, BlockTold
  <1>8. ASSUME NEW mode \in Modes, OutputIsToolCall(mode) PROVE ToldInv'
    <2>1. /\ ResumesAt(pc) /\ UNCHANGED sock
          /\ pc \notin Aborting \cup {"terminal", "done"}
          /\ stored.steps # <<>>
      BY <1>1, <1>8 DEF OutputIsToolCall, ResumesAt
    <2>2. CASE FailResponse(stored)
      BY <1>1, <2>1, <2>2, FailResponseTold
    <2> DEFINE called == CreateToolCall(AppendMessage(stored, "tool_call"), mode)
    <2>3. called.status = "in_progress"
      <3>1. stored.status = "in_progress"
        BY <1>1, <1>8 DEF OutputIsToolCall, ResumesAt, Ending
      <3>2. /\ AppendMessage(stored, "tool_call") \in Records
            /\ AppendMessage(stored, "tool_call").status = stored.status
        BY <1>1, AppendMessageType DEF Kinds
      <3> QED BY <3>1, <3>2, CreateToolCallType
    <2> HIDE DEF called
    <2>4. CASE \E partial, e :
                 Block(partial, called, e, "call_created") /\ e.type # "completed"
      BY <1>1, <2>1, <2>3, <2>4, BlockTold
    <2> QED BY <1>8, <2>2, <2>4 DEF OutputIsToolCall, Event, called
  <1>9. CASE OutputIsInvalid \/ FeedErrorBack
    <2> DEFINE answer == AppendMessage(stored, "assistant")
               error == AppendMessage(stored, "tool_error")
    <2>1. /\ ResumesAt(pc) /\ UNCHANGED sock
          /\ pc \notin Aborting \cup {"terminal", "done"}
          /\ stored.steps # <<>>
      BY <1>1, <1>9 DEF OutputIsInvalid, FeedErrorBack, ResumesAt
    <2>2. /\ answer \in Records /\ answer.steps # <<>>
          /\ error \in Records /\ error.steps # <<>>
          /\ answer.status = stored.status /\ error.status = stored.status
      BY <1>1, <2>1, AppendMessageType DEF Kinds
    <2> HIDE DEF answer, error
    <2>3. /\ CompleteStep(AppendMessage(answer, "repair"), "schema_retry").status
               = stored.status
          /\ CompleteStep(error, "tool_error_retry").status = stored.status
      <3>1. /\ AppendMessage(answer, "repair") \in Records
            /\ AppendMessage(answer, "repair").steps # <<>>
            /\ AppendMessage(answer, "repair").status = stored.status
        BY <2>2, AppendMessageType DEF Kinds
      <3>2. {"schema_retry", "tool_error_retry"} \subseteq StepStatuses
        BY DEF StepStatuses
      <3> QED BY <2>2, <3>1, <3>2, CompleteStepType
    <2>4. stored.status = "in_progress"
      BY <1>1, <1>9 DEF OutputIsInvalid, FeedErrorBack, ResumesAt, Ending
    <2>5. \/ FailResponse(answer)
          \/ FailResponse(error)
          \/ \E partial, final, e, next :
               /\ Block(partial, final, e, next)
               /\ final \in {CompleteStep(AppendMessage(answer, "repair"), "schema_retry"),
                             CompleteStep(error, "tool_error_retry")}
               /\ e.type # "completed"
               /\ next \notin Aborting \cup {"fail_error"}
      BY <1>9 DEF OutputIsInvalid, FeedErrorBack, AppendToolError, Event, answer, error
    <2> QED BY <1>1, <2>1, <2>2, <2>3, <2>4, <2>5, FailResponseTold, BlockTold
  <1>10. CASE AnswerCompletes
    <2>1. SetStatus(stored, "completed").status = "completed"
      BY <1>1, SetStatusType DEF Statuses
    <2>2. Event("completed", "completed").info = "completed"
      BY DEF Event
    <2>3. /\ ResumesAt(pc) /\ UNCHANGED sock /\ pc = "step_final"
          /\ Block({}, SetStatus(stored, "completed"),
                   Event("completed", "completed"), "terminal")
      BY <1>10 DEF AnswerCompletes, FinalizeCompleted, ResumesAt
    <2> QED BY <1>1, <2>1, <2>2, <2>3, BlockTold DEF Ending
  <1>11. CASE ServerToolTimesOut \/ NoResultArrives
    <2> DEFINE r == CompleteToolCall(stored, "failed")
    <2>1. /\ ResumesAt(pc) /\ UNCHANGED sock
          /\ pc \in {"executing", "waiting"}
          /\ stored.steps # <<>> /\ stored.calls # <<>>
      BY <1>1, <1>11 DEF ServerToolTimesOut, NoResultArrives, EndWait, ResumesAt
    <2>2. r \in Records /\ r.steps # <<>>
      BY <1>1, <2>1, CompleteToolCallType
    <2>3. FailResponse(r) \/ FinalizeCancelled(stored)
      BY <1>11 DEF ServerToolTimesOut, NoResultArrives
    <2> HIDE DEF r
    <2> QED BY <1>1, <2>1, <2>2, <2>3, FailResponseTold, FinalizeCancelledTold
  <1>12. CASE DeliverCancel
    <2>1. sock = "gone" /\ UNCHANGED sock /\ pc' = "done" /\ ~taskCancelled'
      BY <1>12 DEF DeliverCancel, ToldInv
    <2> QED BY <2>1 DEF ToldInv, ToldIsStored, Ending
  <1>13. CASE SendsRequest \/ BeginServerTool \/ WaitForResult \/ Return \/ SendFails
    <2>1. /\ UNCHANGED <<stored, events, sock, storeFailed>>
          /\ taskCancelled' => taskCancelled
          /\ LastType' = LastType
          /\ pc' = "done" \/ pc' \in {"streaming", "executing", "waiting"}
          /\ pc \notin Ending \cup {"start"} \/ pc' = "done"
          /\ pc # "done"
      BY <1>13 DEF SendsRequest, BeginServerTool, WaitForResult, Return, SendFails, ResumesAt,
                   LastType, Unsuspended, Ending
    <2> QED BY <2>1 DEF ToldInv, ToldIsStored, Ending
  <1>14. CASE CancelRequest \/ SocketCloses \/ Disconnect
    <2>1. /\ UNCHANGED <<pc, stored, events, storeFailed>>
          /\ taskCancelled' => taskCancelled \/ sock' = "gone"
          /\ sock' = "open" => sock = "open"
          /\ sock = "gone" => sock' = "gone"
          /\ LastType' = LastType
      BY <1>14 DEF CancelRequest, SocketCloses, Disconnect, LastType
    <2> QED BY <2>1 DEF ToldInv, ToldIsStored
  <1>15. CASE Finished \/ UNCHANGED vars \/ \E k \in 1..Len(stored.calls) : SubmitResult(k)
    <2>1. /\ UNCHANGED <<pc, stored, events, storeFailed, taskCancelled, sock>>
          /\ LastType' = LastType
      BY <1>15 DEF Finished, SubmitResult, vars, LastType
    <2> QED BY <2>1 DEF ToldInv, ToldIsStored
  <1>16. CASE Raises
    <2>1. /\ ~taskCancelled /\ ~taskCancelled' /\ UNCHANGED sock
          /\ stored.status = "in_progress" /\ LastType # "completed"
      BY <1>1, <1>16 DEF Raises, ResumesAt, Ending, ToldInv
    <2>2. /\ stored'.status = "in_progress" /\ storeFailed' = storeFailed
          /\ \/ /\ sock = "open" /\ pc' = "abort_error"
                /\ events' = Append(events, Event("error", "fatal"))
             \/ sock # "open" /\ pc' = "done" /\ events' = events
      BY <1>1, <1>16, <2>1, RaisesEffect
    <2>3. LastType' # "completed"
      BY <1>1, <2>1, <2>2, LastAppended DEF Event, LastType
    <2> QED BY <1>16, <2>1, <2>2, <2>3 DEF ToldInv, ToldIsStored, Raises, Ending
  <1> QED
    BY <1>2, <1>3, <1>4, <1>5, <1>6, <1>7, <1>8, <1>9, <1>10, <1>11, <1>12, <1>13, <1>14,
       <1>15, <1>16, RaisesCases
    DEF Next, TaskStep, Environment

(* THE CLIENT IS TOLD WHAT IS STORED: the status in response.completed is   *)
(* the one a later reader of the store finds, for a client that stays       *)
(* connected and a store that works; but for a response run() says "failed" *)
(* of in its last resort, which stays in progress in the store.             *)
THEOREM ClientIsToldTheStoredStatus == Spec => []ToldIsStored
  <1>1. Init => ToldInv
    BY DEF Init, ToldInv, ToldIsStored, LastType, Aborting, Ending
  <1>2. ToldInv => ToldIsStored
    BY DEF ToldInv
  <1> QED BY <1>1, <1>2, ToldStep, TypeCorrect, PTL DEF Spec

-----------------------------------------------------------------------------
(* The results of client tools. *)

IsAccepted(k) == \E i \in 1..Len(accepted) : accepted[i] = k

Submitted(r) ==
    \A k \in 1..Len(r.calls) :
        r.calls[k].mode = "client" /\ r.calls[k].result => IsAccepted(k)

(* A submit is accepted while the session waits for the current call only,  *)
(* and once; a call is not accepted before the wait begins.                 *)
SubmitInv ==
    /\ \A i, j \in 1..Len(accepted) : i # j => accepted[i] # accepted[j]
    /\ \A i \in 1..Len(accepted) : accepted[i] <= Len(stored.calls)
    /\ future # "none" => pc = "waiting"
    /\ future = "result" => IsAccepted(Len(stored.calls))
    /\ pc \in {"call_created", "client_step", "client_waiting"} \/ future = "pending"
         => ~IsAccepted(Len(stored.calls))
    /\ Submitted(stored)

(* A record a block may leave behind.                                       *)
MayBeLeft(r) ==
    /\ Len(r.calls) \in Nat /\ Len(r.calls) >= Len(stored.calls)
    /\ Submitted(r)

(* A block leaves one of its records; the wait, if there was one, is over.  *)
LEMMA BlockSubmit ==
    ASSUME SubmitInv, stored \in Records, accepted \in Seq(Nat),
           UNCHANGED accepted, future' = "none",
           NEW partial, NEW final, NEW e, NEW next, Block(partial, final, e, next),
           \A r \in {final} \cup partial : MayBeLeft(r),
           next \in {"call_created", "client_step", "client_waiting"}
             => ~IsAccepted(Len(final.calls))
    PROVE  SubmitInv'
  <1>1. /\ Len(stored.calls) \in Nat /\ Len(accepted) \in Nat
        /\ \A i \in 1..Len(accepted) : accepted[i] \in Nat
    BY CallsLen, LenProperties, ElementOfSeq
  <1>2. stored' \in {stored, final} \cup partial
    BY BlockCases
  <1>3. /\ Len(stored'.calls) \in Nat /\ Len(stored'.calls) >= Len(stored.calls)
        /\ Submitted(stored')
    BY <1>1, <1>2 DEF MayBeLeft, SubmitInv
  <1>4. pc' \in {"call_created", "client_step", "client_waiting"}
          => ~IsAccepted(Len(stored'.calls))
    BY BlockCases
  <1>5. \A i \in 1..Len(accepted) : accepted[i] <= Len(stored'.calls)
    BY <1>1, <1>3 DEF SubmitInv
  <1> QED BY <1>3, <1>4, <1>5 DEF SubmitInv, Submitted, IsAccepted

(* A record with the calls of the stored one.                               *)
LEMMA SameCallsMayBeLeft ==
    ASSUME SubmitInv, stored \in Records, NEW r, r.calls = stored.calls
    PROVE  MayBeLeft(r)
  BY CallsLen DEF SubmitInv, MayBeLeft, Submitted

(* An update of the current call's row, unless it adds a client's result.   *)
LEMMA UpdateMayBeLeft ==
    ASSUME NEW r, NEW q, MayBeLeft(r), OnlyCurrent(r, q),
           \/ Current(q).result = Current(r).result
           \/ Current(r).mode # "client"
           \/ IsAccepted(Len(r.calls))
    PROVE  MayBeLeft(q)
  <1> SUFFICES ASSUME NEW k \in 1..Len(q.calls),
                      q.calls[k].mode = "client", q.calls[k].result
               PROVE  IsAccepted(k)
    BY DEF MayBeLeft, OnlyCurrent, Submitted
  <1>1. CASE k # Len(r.calls)
    BY <1>1 DEF MayBeLeft, Submitted, OnlyCurrent
  <1>2. CASE k = Len(r.calls)
    BY <1>2 DEF MayBeLeft, Submitted, OnlyCurrent, Current
  <1> QED BY <1>1, <1>2

(* The ends of a response keep the calls of their record.                   *)
LEMMA FailResponseSubmit ==
    ASSUME SubmitInv, stored \in Records, accepted \in Seq(Nat),
           UNCHANGED accepted, future' = "none",
           NEW r \in Records, r.steps # <<>>, MayBeLeft(r), FailResponse(r)
    PROVE  SubmitInv'
  <1> DEFINE failed == SetStatus(r, "failed")
             final == CompleteStep(failed, "failed")
  <1>1. failed \in Records /\ failed.steps = r.steps /\ failed.calls = r.calls
    BY SetStatusType DEF Statuses
  <1>2. Block({r, failed}, final, Event("error", "fatal"), "fail_error")
    BY DEF FailResponse
  <1> HIDE DEF failed
  <1>3. final.calls = failed.calls
    BY <1>1, CompleteStepType DEF StepStatuses
  <1> HIDE DEF final
  <1>4. \A q \in {final} \cup {r, failed} : MayBeLeft(q)
    BY <1>1, <1>3 DEF MayBeLeft, Submitted
  <1> QED BY <1>2, <1>4, BlockSubmit

LEMMA FinalizeCancelledSubmit ==
    ASSUME SubmitInv, stored \in Records, accepted \in Seq(Nat),
           UNCHANGED accepted, future' = "none",
           NEW r \in Records, MayBeLeft(r), FinalizeCancelled(r)
    PROVE  SubmitInv'
  <1>1. SetStatus(r, "cancelled").calls = r.calls
    BY SetStatusType DEF Statuses
  <1>2. \A q \in {SetStatus(r, "cancelled")} \cup {r} : MayBeLeft(q)
    BY <1>1 DEF MayBeLeft, Submitted
  <1> QED BY <1>2, BlockSubmit DEF FinalizeCancelled

LEMMA LoopHeadSubmit ==
    ASSUME SubmitInv, stored \in Records, accepted \in Seq(Nat),
           UNCHANGED accepted, future' = "none",
           NEW r \in Records, MayBeLeft(r), LoopHead(r)
    PROVE  SubmitInv'
  <1>1. CASE MaxStepsExceeded(r)
    <2>1. SetStatus(r, "failed").calls = r.calls
      BY SetStatusType DEF Statuses
    <2>2. \A q \in {SetStatus(r, "failed")} \cup {r} : MayBeLeft(q)
      BY <2>1 DEF MayBeLeft, Submitted
    <2> QED BY <1>1, <2>2, BlockSubmit DEF MaxStepsExceeded
  <1>2. CASE FinalizeCancelled(r)
    BY <1>2, FinalizeCancelledSubmit
  <1>3. CASE Block({r}, StartStep(r), Event("step.created", "none"), "step_created")
    <2>1. StartStep(r).calls = r.calls
      BY StartStepType
    <2>2. \A q \in {StartStep(r)} \cup {r} : MayBeLeft(q)
      BY <2>1 DEF MayBeLeft, Submitted
    <2>3. ASSUME NEW e, Block({r}, StartStep(r), e, "step_created") PROVE SubmitInv'
      BY <2>2, <2>3, BlockSubmit
    <2> QED BY <1>3, <2>3
  <1> QED BY <1>1, <1>2, <1>3 DEF LoopHead

(* THE SUBMITS: one step per action.                                        *)
LEMMA SubmitStep ==
    ASSUME TypeOK, CountInv, SubmitInv, [Next]_vars
    PROVE  SubmitInv'
  <1>1. /\ stored \in Records /\ accepted \in Seq(Nat)
        /\ pc \in StepOpen \cup CallOpen => stored.steps # <<>>
        /\ pc \in CallOpen => stored.calls # <<>>
        /\ Len(stored.calls) \in Nat
        /\ Len(accepted) \in Nat
    BY CallsLen, LenProperties DEF TypeOK
  <1>2. MayBeLeft(stored)
    BY <1>1, SameCallsMayBeLeft
  <1> USE DEF ResumesAt, StepOpen, CallOpen, Outside
  <1>3. CASE \/ SayInProgress \/ CallServerTool \/ SayServerCallCompleted \/ SayWaiting
            \/ SayClientCallCompleted \/ SayFailed
    <2>1. PICK e, next : /\ Say(e, next)
                         /\ next = "client_waiting" => pc = "client_step"
                         /\ next \notin {"call_created", "client_step", "waiting"}
      BY <1>3 DEF SayInProgress, CallServerTool, SayServerCallCompleted, SayWaiting,
                  SayClientCallCompleted, SayFailed
    <2>2. /\ stored' = stored /\ pc' \in {next, "done"}
          /\ UNCHANGED <<future, accepted>>
          /\ pc # "waiting"
      BY <1>3, <2>1, SayCases
      DEF SayInProgress, CallServerTool, SayServerCallCompleted, SayWaiting,
          SayClientCallCompleted, SayFailed
    <2> QED BY <2>1, <2>2 DEF SubmitInv, Submitted, IsAccepted
  <1>4. CASE NextStep \/ EndClientCall
    <2> DEFINE r == AppendMessage(stored, "tool_result")
    <2>1. r \in Records /\ r.calls = stored.calls
      BY <1>1, AppendMessageType DEF Kinds
    <2>2. /\ UNCHANGED accepted /\ future' = "none"
          /\ LoopHead(stored) \/ LoopHead(r)
      BY <1>4 DEF NextStep, EndClientCall, AppendToolResult, SubmitInv
    <2> HIDE DEF r
    <2>3. MayBeLeft(r)
      BY <1>1, <2>1, SameCallsMayBeLeft
    <2> QED BY <1>1, <1>2, <2>1, <2>2, <2>3, LoopHeadSubmit
  <1>5. CASE StreamCancelled \/ StreamFails
    <2>1. /\ UNCHANGED accepted /\ future' = "none" /\ stored.steps # <<>>
          /\ FinalizeCancelled(stored) \/ FailResponse(stored)
      BY <1>1, <1>5 DEF StreamCancelled, StreamFails, SubmitInv
    <2> QED BY <1>1, <1>2, <2>1, FailResponseSubmit, FinalizeCancelledSubmit
  <1>6. CASE Fragment
    <2>1. CASE FailResponse(stored)
      <3>1. UNCHANGED accepted /\ future' = "none" /\ stored.steps # <<>>
        BY <1>1, <1>6 DEF Fragment, SubmitInv
      <3> QED BY <1>1, <1>2, <2>1, <3>1, FailResponseSubmit
    <2>2. CASE UNCHANGED <<pc, stored, storeFailed>>
      BY <1>6, <2>2 DEF Fragment, SubmitInv, Submitted, IsAccepted
    <2> QED BY <1>6, <2>1, <2>2 DEF Fragment
  <1>7. ASSUME NEW mode \in Modes, OutputIsToolCall(mode) PROVE SubmitInv'
    <2> DEFINE r == AppendMessage(stored, "tool_call")
               row == [mode |-> mode, status |-> "in_progress", result |-> FALSE]
               final == CreateToolCall(r, mode)
    <2>1. UNCHANGED accepted /\ future' = "none" /\ stored.steps # <<>>
      BY <1>1, <1>7 DEF OutputIsToolCall, SubmitInv
    <2>2. CASE FailResponse(stored)
      BY <1>1, <1>2, <2>1, <2>2, FailResponseSubmit
    <2>3. CASE Block({r}, final, Event("tool_call.created", mode), "call_created")
      <3>1. r \in Records /\ r.calls = stored.calls
        BY <1>1, AppendMessageType DEF Kinds
      <3> HIDE DEF r
      <3>2. final.calls = Append(stored.calls, row)
        BY <1>7, <3>1, CreateToolCallType
      <3>3. row \in CallRows /\ row.result = FALSE
        BY <1>7 DEF CallRows
      <3> HIDE DEF final, row
      <3>4. /\ Len(final.calls) = Len(stored.calls) + 1
            /\ \A k \in 1..Len(stored.calls) : final.calls[k] = stored.calls[k]
            /\ final.calls[Len(stored.calls) + 1] = row
        BY <3>2, <3>3, <1>1, RecordFields, AppendProperties
      <3>5. MayBeLeft(final)
        <4> SUFFICES ASSUME NEW k \in 1..Len(final.calls),
                            final.calls[k].mode = "client", final.calls[k].result
                     PROVE  IsAccepted(k)
          BY <1>1, <3>4 DEF MayBeLeft, Submitted
        <4> QED BY SMTT(30), <1>1, <1>2, <3>3, <3>4 DEF MayBeLeft, Submitted
      <3>6. MayBeLeft(r)
        BY <1>1, <3>1, SameCallsMayBeLeft
      <3>7. ~IsAccepted(Len(final.calls))
        BY <1>1, <3>4, ElementOfSeq DEF SubmitInv, IsAccepted
      <3>8. ASSUME NEW e, Block({r}, final, e, "call_created") PROVE SubmitInv'
        <4>1. \A q \in {final} \cup {r} : MayBeLeft(q)
          BY <3>5, <3>6
        <4> QED BY <1>1, <2>1, <3>7, <3>8, <4>1, BlockSubmit
      <3> QED BY <2>3, <3>8
    <2> QED BY <1>7, <2>2, <2>3 DEF OutputIsToolCall
  <1>8. CASE Start \/ OutputIsAnswer \/ EndServerCall \/ AnswerCompletes
    <2> DEFINE answer == AppendMessage(stored, "assistant")
               result == AppendMessage(stored, "tool_result")
               final1 == CompleteStep(answer, "completed")
               final2 == CompleteStep(result, "completed")
    <2>1. /\ UNCHANGED accepted /\ future' = "none"
          /\ pc # "start" /\ pc # "step_final" => stored.steps # <<>>
      BY <1>1, <1>8 DEF Start, OutputIsAnswer, EndServerCall, AnswerCompletes, SubmitInv
    <2>2. /\ answer \in Records /\ answer.calls = stored.calls /\ answer.steps = stored.steps
          /\ result \in Records /\ result.calls = stored.calls /\ result.steps = stored.steps
      BY <1>1, AppendMessageType DEF Kinds
    <2>3. \/ \E e : Block({}, StartResponse(stored), e, "created")
          \/ \E e : Block({}, SetStatus(stored, "completed"), e, "terminal")
          \/ stored.steps # <<>> /\ \E e : Block({answer}, final1, e, "step_final")
          \/ stored.steps # <<>> /\ \E e : Block({result}, final2, e, "step_next")
      BY <1>1, <1>8 DEF Start, OutputIsAnswer, EndServerCall, AnswerCompletes, FinalizeCompleted,
                        AppendToolResult
    <2> HIDE DEF answer, result
    <2>4. /\ StartResponse(stored).calls = stored.calls
          /\ SetStatus(stored, "completed").calls = stored.calls
          /\ stored.steps # <<>> => final1.calls = stored.calls /\ final2.calls = stored.calls
      BY <1>1, <2>2, StartResponseType, SetStatusType, CompleteStepType
      DEF Statuses, StepStatuses
    <2> HIDE DEF final1, final2
    <2>5. PICK partial, final, e, next :
            /\ Block(partial, final, e, next)
            /\ \A q \in {final} \cup partial : q.calls = stored.calls
            /\ next \in {"created", "terminal", "step_final", "step_next"}
      BY <2>2, <2>3, <2>4
    <2>6. \A q \in {final} \cup partial : MayBeLeft(q)
      BY <1>1, <2>5, SameCallsMayBeLeft
    <2> QED BY <1>1, <2>1, <2>5, <2>6, BlockSubmit
  <1>9. CASE OutputIsInvalid
    <2> DEFINE r == AppendMessage(stored, "assistant")
               repair == AppendMessage(r, "repair")
               final == CompleteStep(repair, "schema_retry")
    <2>1. UNCHANGED accepted /\ future' = "none" /\ stored.steps # <<>>
      BY <1>1, <1>9 DEF OutputIsInvalid, SubmitInv
    <2>2. r \in Records /\ r.steps # <<>> /\ r.calls = stored.calls
      BY <1>1, <2>1, AppendMessageType DEF Kinds
    <2>3. \/ Block({r, repair}, final, Event("step.completed", "schema_retry"), "step_next")
          \/ FailResponse(r)
      BY <1>9 DEF OutputIsInvalid
    <2> HIDE DEF r
    <2>4. repair \in Records /\ repair.steps # <<>> /\ repair.calls = stored.calls
      BY <2>2, AppendMessageType DEF Kinds
    <2> HIDE DEF repair
    <2>5. final.calls = stored.calls
      BY <2>4, CompleteStepType DEF StepStatuses
    <2> HIDE DEF final
    <2>6. \A q \in {final} \cup {r, repair} : MayBeLeft(q)
      BY <1>1, <2>2, <2>4, <2>5, SameCallsMayBeLeft
    <2> QED BY <1>1, <2>1, <2>2, <2>3, <2>6, BlockSubmit, FailResponseSubmit
  <1>10. CASE FeedErrorBack
    <2> DEFINE r == AppendMessage(stored, "tool_error")
               final == CompleteStep(r, "tool_error_retry")
    <2>1. UNCHANGED accepted /\ future' = "none" /\ stored.steps # <<>>
      BY <1>1, <1>10 DEF FeedErrorBack, SubmitInv
    <2>2. r \in Records /\ r.steps # <<>> /\ r.calls = stored.calls
      BY <1>1, <2>1, AppendMessageType DEF Kinds
    <2>3. \/ Block({r}, final, Event("step.completed", "tool_error_retry"), "step_next")
          \/ FailResponse(r)
      BY <1>10 DEF FeedErrorBack, AppendToolError
    <2> HIDE DEF r
    <2>4. final.calls = stored.calls
      BY <2>2, CompleteStepType DEF StepStatuses
    <2> HIDE DEF final
    <2>5. \A q \in {final} \cup {r} : MayBeLeft(q)
      BY <1>1, <2>2, <2>4, SameCallsMayBeLeft
    <2> QED BY <1>1, <2>1, <2>2, <2>3, <2>5, BlockSubmit, FailResponseSubmit
  <1>11. CASE ServerToolSucceeds \/ ResultArrives
    <2> DEFINE r == AddToolResult(stored)
               final == CompleteToolCall(r, "completed")
    <2>1. /\ r \in Records /\ r.calls # <<>> /\ OnlyCurrent(stored, r)
      BY <1>11, <1>1, AddToolResultType, AddToolResultCurrent
      DEF ServerToolSucceeds, ResultArrives, EndWait
    <2>2. /\ UNCHANGED accepted /\ future' = "none"
          /\ Current(stored).mode # "client" \/ IsAccepted(Len(stored.calls))
      BY <1>11 DEF ServerToolSucceeds, ResultArrives, EndWait, SubmitInv, CountInv, CountAt,
                  ServerPcs, Ending
    <2>3. PICK e, next : /\ Block({r}, final, e, next)
                         /\ next \in {"server_received", "client_received"}
      BY <1>11 DEF ServerToolSucceeds, ResultArrives, EndWait
    <2> HIDE DEF r
    <2>4. OnlyCurrent(r, final) /\ Current(final).result = Current(r).result
      BY <2>1, CompleteToolCallCurrent
    <2> HIDE DEF final
    <2>5. MayBeLeft(r)
      BY <1>2, <2>1, <2>2, UpdateMayBeLeft
    <2>6. MayBeLeft(final)
      BY <2>4, <2>5, UpdateMayBeLeft
    <2>7. \A q \in {final} \cup {r} : MayBeLeft(q)
      BY <2>5, <2>6
    <2> QED BY <1>1, <2>2, <2>3, <2>7, BlockSubmit
  <1>12. CASE ServerToolRaises \/ ServerToolTimesOut \/ NoResultArrives
    <2> DEFINE r == CompleteToolCall(stored, "failed")
    <2>1. /\ r \in Records /\ r.steps # <<>>
          /\ OnlyCurrent(stored, r) /\ Current(r).result = Current(stored).result
      BY <1>12, <1>1, CompleteToolCallType, CompleteToolCallCurrent
      DEF ServerToolRaises, ServerToolTimesOut, NoResultArrives, EndWait
    <2>2. UNCHANGED accepted /\ future' = "none"
      BY <1>12 DEF ServerToolRaises, ServerToolTimesOut, NoResultArrives, EndWait, SubmitInv
    <2>3. \/ Block({}, r, Event("error", "tool"), "tool_error")
          \/ FailResponse(r)
          \/ FinalizeCancelled(stored)
      BY <1>12 DEF ServerToolRaises, ServerToolTimesOut, NoResultArrives
    <2> HIDE DEF r
    <2>4. MayBeLeft(r)
      BY <1>2, <2>1, UpdateMayBeLeft
    <2>5. CASE Block({}, r, Event("error", "tool"), "tool_error")
      BY <1>1, <2>2, <2>4, <2>5, BlockSubmit
    <2> QED BY <1>1, <1>2, <2>1, <2>2, <2>3, <2>4, <2>5,
               FailResponseSubmit, FinalizeCancelledSubmit
  <1>13. CASE CallClientTool
    <2> DEFINE final == CompleteStep(stored, "waiting_tool")
    <2>1. final.calls = stored.calls
      BY <1>13, <1>1, CompleteStepType DEF CallClientTool, StepStatuses
    <2>2. /\ Block({}, final, Event("step.completed", "waiting_tool"), "client_step")
          /\ UNCHANGED accepted /\ future' = "none"
          /\ ~IsAccepted(Len(stored.calls))
      BY <1>13 DEF CallClientTool, SubmitInv
    <2> HIDE DEF final
    <2>3. MayBeLeft(final)
      BY <1>1, <2>1, SameCallsMayBeLeft
    <2> QED BY <1>1, <2>1, <2>2, <2>3, BlockSubmit
  <1>14. CASE DeliverCancel
    <2>1. stored'.calls = stored.calls
      BY <1>1, <1>14, SetStatusType DEF DeliverCancel, Statuses
    <2>2. UNCHANGED accepted /\ future' = "none" /\ pc' = "done"
      BY <1>14 DEF DeliverCancel
    <2> QED BY <2>1, <2>2 DEF SubmitInv, Submitted, IsAccepted
  <1>15. CASE WaitForResult
    BY <1>15 DEF WaitForResult, SubmitInv, Submitted, IsAccepted
  <1>16. CASE \/ SendsRequest \/ BeginServerTool \/ Return \/ SendFails \/ CancelRequest
              \/ SocketCloses \/ Disconnect \/ Finished \/ UNCHANGED vars
    <2>1. /\ UNCHANGED <<stored, accepted>>
          /\ \/ future' = future
             \/ future = "pending" /\ future' = "cancelled"
          /\ \/ pc' = pc
             \/ pc # "waiting" /\ pc' \in {"streaming", "executing", "done"}
      BY <1>16 DEF SendsRequest, BeginServerTool, Return, SendFails, CancelRequest, SocketCloses,
                   Disconnect, Finished, vars, CancelPending, Unsuspended
    <2> QED BY <2>1 DEF SubmitInv, Submitted, IsAccepted
  <1>17. ASSUME NEW k \in 1..Len(stored.calls), SubmitResult(k) PROVE SubmitInv'
    <2>1. /\ UNCHANGED <<pc, stored>> /\ future' = "result" /\ future = "pending"
          /\ k = Len(stored.calls) /\ k \in Nat
          /\ accepted' = Append(accepted, k)
      BY <1>1, <1>17 DEF SubmitResult
    <2>2. /\ Len(accepted') = Len(accepted) + 1
          /\ \A i \in 1..Len(accepted) : accepted'[i] = accepted[i]
          /\ accepted'[Len(accepted) + 1] = k
      BY <1>1, <2>1, AppendProperties
    <2>3. ~IsAccepted(k) /\ pc = "waiting"
      BY <2>1 DEF SubmitInv
    <2>4. \A i, j \in 1..Len(accepted') : i # j => accepted'[i] # accepted'[j]
      <3> SUFFICES ASSUME NEW i \in 1..Len(accepted'), NEW j \in 1..Len(accepted'), i # j
                   PROVE  accepted'[i] # accepted'[j]
        OBVIOUS
      <3>1. CASE i = Len(accepted) + 1
        BY <1>1, <2>2, <2>3, <3>1 DEF IsAccepted
      <3>2. CASE j = Len(accepted) + 1
        BY <1>1, <2>2, <2>3, <3>2 DEF IsAccepted
      <3>3. CASE i \in 1..Len(accepted) /\ j \in 1..Len(accepted)
        BY <1>1, <2>2, <3>3 DEF SubmitInv
      <3> QED BY <1>1, <2>2, <3>1, <3>2, <3>3
    <2>5. \A i \in 1..Len(accepted') : accepted'[i] <= Len(stored'.calls)
      BY <1>1, <2>1, <2>2 DEF SubmitInv
    <2>6. /\ IsAccepted(k)'
          /\ \A q : IsAccepted(q) => IsAccepted(q)'
      BY <1>1, <2>2 DEF IsAccepted
    <2>7. Submitted(stored)'
      BY <1>2, <2>1, <2>6 DEF MayBeLeft, Submitted
    <2> QED BY <2>1, <2>3, <2>4, <2>5, <2>6, <2>7 DEF SubmitInv
  <1>18. CASE Raises
    <2>1. /\ UNCHANGED <<accepted, future>> /\ future = "none"
          /\ pc' \in {"abort_error", "done"}
      BY <1>1, <1>18, RaisesEffect DEF Raises, SubmitInv, TypeOK
    <2>2. /\ Len(stored'.calls) \in Nat /\ Len(stored'.calls) >= Len(stored.calls)
          /\ Submitted(stored')
      <3>1. CASE stored'.calls = stored.calls
        BY <1>1, <3>1 DEF SubmitInv, Submitted
      <3>2. \/ stored'.calls = stored.calls
            \/ \E mode \in Modes :
                 stored'.calls = Append(stored.calls, [mode |-> mode, status |-> "in_progress",
                                                       result |-> FALSE])
        BY <1>1, <1>18, RaisesEffect DEF TypeOK
      <3>3. ASSUME NEW row \in CallRows, ~row.result,
                   stored'.calls = Append(stored.calls, row)
            PROVE  /\ Len(stored'.calls) = Len(stored.calls) + 1
                   /\ Submitted(stored')
        <4>1. /\ Len(stored'.calls) = Len(stored.calls) + 1
              /\ \A k \in 1..Len(stored.calls) : stored'.calls[k] = stored.calls[k]
              /\ stored'.calls[Len(stored.calls) + 1] = row
          BY <3>3, <1>1, RecordFields, AppendProperties
        <4> QED BY SMTT(30), <1>1, <1>2, <3>3, <4>1 DEF MayBeLeft, Submitted
      <3>4. \A mode \in Modes :
              LET row == [mode |-> mode, status |-> "in_progress", result |-> FALSE] IN
              row \in CallRows /\ ~row.result
        BY DEF CallRows
      <3>5. CASE \E row \in CallRows : ~row.result /\ stored'.calls = Append(stored.calls, row)
        BY <1>1, <3>3, <3>5
      <3> QED BY <3>1, <3>2, <3>4, <3>5, <1>1
    <2>3. \A i \in 1..Len(accepted) : accepted[i] <= Len(stored'.calls)
      <3>1. \A i \in 1..Len(accepted) : accepted[i] \in Nat
        BY <1>1, ElementOfSeq
      <3> QED BY <1>1, <2>2, <3>1 DEF SubmitInv
    <2> QED BY <2>1, <2>2, <2>3 DEF SubmitInv, Submitted, IsAccepted
  <1> QED
    BY <1>3, <1>4, <1>5, <1>6, <1>7, <1>8, <1>9, <1>10, <1>11, <1>12, <1>13, <1>14, <1>15,
       <1>16, <1>17, <1>18,
       RaisesCases
    DEF Next, TaskStep, Environment

(* EVERY CLIENT RESULT WAS SUBMITTED: the row of a client call's result     *)
(* comes from the one submit that the receive loop accepted for that call,  *)
(* however cancels, disconnects, timeouts and store failures fall.          *)
THEOREM ClientResultsAreSubmitted == Spec => []ResultsAreSubmitted
  <1>1. Init => SubmitInv
    <2>1. NoRecord.calls = <<>> /\ Len(<<>>) = 0
      BY DEF NoRecord
    <2> QED BY <2>1 DEF Init, SubmitInv, Submitted, IsAccepted
  <1>2. SubmitInv => ResultsAreSubmitted
    BY DEF SubmitInv, Submitted, IsAccepted, ResultsAreSubmitted
  <1> QED BY <1>1, <1>2, SubmitStep, CountInvariant, TypeCorrect, PTL DEF Spec

-----------------------------------------------------------------------------
(* The response session implements the contract of its event stream, for    *)
(* every max_steps and max_tool_calls.                                      *)

(* The last event sent and the one before it.                               *)
Last == Stream!Recent(0)
Before == Stream!Recent(1)
StepsSent == Stream!Count("step.created")
CallsSent == Stream!Count("tool_call.created")

(* Where the task is suspended tells what was sent last: what an await      *)
(* waits for depends on how the events came to it.                          *)
LastAt(at, last, before, mode) ==
    /\ at = "start" => last.type = "none"
    /\ at = "created" => last.type = "created"
    /\ at = "in_progress" => last.type = "in_progress"
    /\ at = "step_created" => last.type = "step.created"
    /\ at = "streaming" => last.type \in {"step.created", "delta"}
    /\ at = "step_final" => /\ last.type = "step.completed" /\ last.info = "completed"
                            /\ before.type # "tool_call.completed"
    /\ at = "step_next" => /\ last.type = "step.completed"
                           /\ \/ last.info \in {"schema_retry", "tool_error_retry"}
                              \/ /\ last.info = "completed"
                                 /\ before.type = "tool_call.completed"
    /\ at = "call_created" => last.type = "tool_call.created" /\ last.info = mode
    /\ at = "client_step" => last.type = "step.completed" /\ last.info = "waiting_tool"
    /\ at \in {"server_waiting", "executing"} =>
         last.type = "tool_result.waiting" /\ last.info = "server"
    /\ at \in {"client_waiting", "waiting"} =>
         last.type = "tool_result.waiting" /\ last.info = "client"
    /\ at = "server_received" => last.type = "tool_result.received" /\ last.info = "server"
    /\ at = "client_received" => last.type = "tool_result.received" /\ last.info = "client"
    /\ at = "server_call_done" => last.type = "tool_call.completed" /\ last.info = "server"
    /\ at = "client_call_done" => last.type = "tool_call.completed" /\ last.info = "client"
    /\ at = "tool_error" => last.type = "error" /\ last.info = "tool"
    /\ at \in {"fail_error", "abort_error"} => last.type = "error" /\ last.info = "fatal"

(* Every step and every call the client knows of has a row.                 *)
StreamInv ==
    /\ LastAt(pc, Last, Before, CurrentMode)
    /\ pc \notin Ending => StepsSent <= Len(stored.steps) /\ CallsSent <= Len(stored.calls)

-----------------------------------------------------------------------------
(* The contract's state after an event. *)

(* The contract counts with the same cardinality.                           *)
LEMMA CountIsCardinality ==
    ASSUME NEW type
    PROVE  /\ Stream!Count(type) =
                Cardinality({i \in 1..Len(events) : events[i].type = type})
           /\ Stream!Count(type)' =
                Cardinality({i \in 1..Len(events') : events'[i].type = type})
  BY DEF Stream!Count, Stream!Cardinality, Cardinality

(* How many events of a type were sent is a number.                         *)
LEMMA CountIsNat ==
    ASSUME events \in Seq(Events), NEW type
    PROVE  Stream!Count(type) \in Nat
  <1> DEFINE sent == {i \in 1..Len(events) : events[i].type = type}
  <1>1. IsFiniteSet(1..Len(events))
    BY LenProperties, FS_Interval
  <1>2. sent \in SUBSET (1..Len(events))
    OBVIOUS
  <1>3. Cardinality(sent) \in Nat
    BY <1>1, <1>2, FS_Subset, FS_CardinalityType
  <1> QED BY <1>3, CountIsCardinality

(* An event sent is the last one, and adds to its type's count only.        *)
LEMMA AfterSend ==
    ASSUME events \in Seq(Events), NEW e, events' = Append(events, e)
    PROVE  /\ Last' = e
           /\ Before' = Last
           /\ StepsSent' <= StepsSent + (IF e.type = "step.created" THEN 1 ELSE 0)
           /\ CallsSent' <= CallsSent + (IF e.type = "tool_call.created" THEN 1 ELSE 0)
           /\ StepsSent \in Nat /\ CallsSent \in Nat
           /\ StepsSent' \in Nat /\ CallsSent' \in Nat
  <1>1. /\ Len(events) \in Nat
        /\ Len(events') = Len(events) + 1
        /\ \A i \in 1..Len(events) : events'[i] = events[i]
        /\ events'[Len(events) + 1] = e
    OBVIOUS
  <1>2. Last' = e /\ Before' = Last
    BY <1>1 DEF Last, Before, Stream!Recent, Stream!Event
  <1>3. ASSUME NEW type
        PROVE  /\ Stream!Count(type) \in Nat /\ Stream!Count(type)' \in Nat
               /\ Stream!Count(type)' <= Stream!Count(type) + (IF e.type = type THEN 1 ELSE 0)
    <2> DEFINE old == {i \in 1..Len(events) : events[i].type = type}
               new == {i \in 1..Len(events') : events'[i].type = type}
    <2>1. IsFiniteSet(old) /\ Cardinality(old) \in Nat
      <3>1. IsFiniteSet(1..Len(events))
        BY <1>1, FS_Interval
      <3>2. old \in SUBSET (1..Len(events))
        OBVIOUS
      <3> QED BY <3>1, <3>2, FS_Subset, FS_CardinalityType
    <2>2. IF e.type = type THEN new = old \cup {Len(events) + 1} ELSE new = old
      BY <1>1
    <2>3. Len(events) + 1 \notin old
      BY <1>1
    <2>4. Stream!Count(type) = Cardinality(old) /\ Stream!Count(type)' = Cardinality(new)
      BY CountIsCardinality
    <2> HIDE DEF old, new
    <2>5. Cardinality(old \cup {Len(events) + 1}) = Cardinality(old) + 1
      BY <2>1, <2>3, FS_AddElement
    <2>6. CASE e.type = type
      <3>1. new = old \cup {Len(events) + 1}
        BY <2>2, <2>6
      <3> QED BY <2>1, <2>4, <2>5, <2>6, <3>1
    <2>7. CASE e.type # type
      BY <2>1, <2>2, <2>4, <2>7
    <2> QED BY <2>6, <2>7
  <1> QED BY <1>2, <1>3 DEF StepsSent, CallsSent

(* Nothing sent, nothing changed.                                           *)
LEMMA SameEvents ==
    ASSUME events' = events
    PROVE  /\ Last' = Last /\ Before' = Before
           /\ StepsSent' = StepsSent /\ CallsSent' = CallsSent
  BY DEF Last, Before, StepsSent, CallsSent, Stream!Recent, Stream!Count

(* What the contract allows after each last event.                          *)
LEMMA AllowedAfter ==
    /\ Last.type = "none" =>
         Stream!Allowed = {Stream!Event("created", "created"), Stream!Error}
    /\ Last.type = "created" =>
         Stream!Allowed = {Stream!Event("in_progress", "in_progress")}
    /\ Last.type = "in_progress" =>
         Stream!Allowed = Stream!StepOrEnd
    /\ Last.type = "step.created" =>
         Stream!Allowed = Stream!Outputs \cup {Stream!Event("delta", "none")}
    /\ Last.type = "delta" =>
         Stream!Allowed = Stream!Outputs
    /\ Last.type = "step.completed" =>
         Stream!Allowed = Stream!AfterStep(Last.info)
    /\ Last.type = "error" =>
         Stream!Allowed = Stream!AfterError(Last.info)
    /\ Last.type = "completed" =>
         Stream!Allowed = {}
    /\ Last.type \in {"tool_call.created", "tool_result.waiting",
                    "tool_result.received", "tool_call.completed"} =>
         Stream!Allowed = Stream!AfterToolEvent(Last.type, Last.info)
  <1>1. ASSUME Last.type = "none"
        PROVE  Stream!Allowed = {Stream!Event("created", "created"), Stream!Error}
    BY <1>1 DEF Stream!Allowed, Last
  <1>2. ASSUME Last.type = "created"
        PROVE  Stream!Allowed = {Stream!Event("in_progress", "in_progress")}
    BY <1>2 DEF Stream!Allowed, Last
  <1>3. ASSUME Last.type = "in_progress"
        PROVE  Stream!Allowed = Stream!StepOrEnd
    BY <1>3 DEF Stream!Allowed, Last
  <1>4. ASSUME Last.type = "step.created"
        PROVE  Stream!Allowed = Stream!Outputs \cup {Stream!Event("delta", "none")}
    BY <1>4 DEF Stream!Allowed, Last
  <1>5. ASSUME Last.type = "delta"
        PROVE  Stream!Allowed = Stream!Outputs
    BY <1>5 DEF Stream!Allowed, Last
  <1>6. ASSUME Last.type = "step.completed"
        PROVE  Stream!Allowed = Stream!AfterStep(Last.info)
    BY <1>6 DEF Stream!Allowed, Last
  <1>7. ASSUME Last.type = "error"
        PROVE  Stream!Allowed = Stream!AfterError(Last.info)
    BY <1>7 DEF Stream!Allowed, Last
  <1>8. ASSUME Last.type = "completed"
        PROVE  Stream!Allowed = {}
    BY <1>8 DEF Stream!Allowed, Last
  <1>9. ASSUME Last.type \in {"tool_call.created", "tool_result.waiting",
                             "tool_result.received", "tool_call.completed"}
        PROVE  Stream!Allowed = Stream!AfterToolEvent(Last.type, Last.info)
    BY <1>9 DEF Stream!Allowed, Last
  <1> QED BY <1>1, <1>2, <1>3, <1>4, <1>5, <1>6, <1>7, <1>8, <1>9

-----------------------------------------------------------------------------
(* Steps of the contract. *)

MaySend(e) == e \in Stream!Allowed /\ Stream!WithinLimits(e)

(* A step of the session that is one of the contract, or none, and keeps    *)
(* the invariant.                                                           *)
Follows == StreamInv' /\ [Stream!Next]_events

(* The rows of r cover what was sent, and e.                                *)
RowsFor(r, e) ==
    /\ StepsSent + (IF e.type = "step.created" THEN 1 ELSE 0) <= Len(r.steps)
    /\ CallsSent + (IF e.type = "tool_call.created" THEN 1 ELSE 0) <= Len(r.calls)

ModeOf(r) == r.calls[Len(r.calls)].mode

(* Events other than these two are within the limits.                       *)
LEMMA UnlimitedEvent ==
    ASSUME NEW e \in Stream!Allowed, e.type \notin {"step.created", "tool_call.created"}
    PROVE  MaySend(e)
  BY DEF MaySend, Stream!WithinLimits

LEMMA ErrorIsError ==
    /\ Stream!Error = Event("error", "fatal")
    /\ Stream!Cancelled = Event("completed", "cancelled")
    /\ Stream!Error \in Stream!Allowed => MaySend(Event("error", "fatal"))
    /\ Stream!Cancelled \in Stream!Allowed => MaySend(Event("completed", "cancelled"))
  BY UnlimitedEvent DEF Stream!Error, Stream!Cancelled, Stream!Event, Event

(* An emit that reaches the client.                                         *)
LEMMA Sent ==
    ASSUME events \in Seq(Events), NEW e, MaySend(e), events' = Append(events, e),
           LastAt(pc', e, Last, CurrentMode'),
           pc' \notin Ending => stored' \in Records /\ RowsFor(stored', e)
    PROVE  Follows
  <1>1. Stream!Next
    BY DEF MaySend, Stream!Next, Stream!Send
  <1>2. LastAt(pc, Last, Before, CurrentMode)'
    BY AfterSend DEF LastAt
  <1>3. ASSUME pc' \notin Ending
        PROVE  StepsSent' <= Len(stored'.steps) /\ CallsSent' <= Len(stored'.calls)
    <2>1. Len(stored'.steps) \in Nat /\ Len(stored'.calls) \in Nat
      BY <1>3, RecordFields, LenProperties
    <2> QED BY <1>3, <2>1, AfterSend DEF RowsFor
  <1> QED BY <1>1, <1>2, <1>3 DEF Follows, StreamInv

(* The task ends, or nothing was sent.                                      *)
LEMMA NotSent ==
    ASSUME events' = events, pc' = "done"
    PROVE  Follows
  BY DEF Follows, StreamInv, LastAt, Ending

(* A block whose event, and whose error when the store fails, may be sent.  *)
LEMMA BlockFollows ==
    ASSUME events \in Seq(Events), NEW partial, NEW final \in Records, NEW e, NEW next,
           Block(partial, final, e, next),
           MaySend(e), Stream!Error \in Stream!Allowed,
           LastAt(next, e, Last, ModeOf(final)),
           next \notin Ending => RowsFor(final, e)
    PROVE  Follows
  <1>1. CASE stored' = final /\ sock = "open" /\ pc' = next /\ events' = Append(events, e)
    <2>1. CurrentMode' = ModeOf(final)
      BY <1>1 DEF CurrentMode, ModeOf
    <2> QED BY <1>1, <2>1, Sent
  <1>2. CASE sock # "open" /\ pc' = "done" /\ events' = events
    BY <1>2, NotSent
  <1>3. CASE pc' = "abort_error" /\ events' = Append(events, Event("error", "fatal"))
    <2>1. MaySend(Event("error", "fatal"))
      BY ErrorIsError
    <2>2. LastAt(pc', Event("error", "fatal"), Last, CurrentMode')
      BY <1>3 DEF LastAt, Event
    <2>3. pc' \in Ending
      BY <1>3 DEF Ending
    <2> QED BY <1>3, <2>1, <2>2, <2>3, Sent
  <1> QED BY <1>1, <1>2, <1>3, BlockCases

(* An emit whose event may be sent.                                         *)
LEMMA SayFollows ==
    ASSUME events \in Seq(Events), stored \in Records, NEW e, NEW next, Say(e, next),
           MaySend(e), LastAt(next, e, Last, CurrentMode),
           next \notin Ending => RowsFor(stored, e)
    PROVE  Follows
  <1>1. CASE stored' = stored /\ pc' = next /\ events' = Append(events, e)
    <2>1. CurrentMode' = CurrentMode
      BY <1>1 DEF CurrentMode
    <2> QED BY <1>1, <2>1, Sent
  <1>2. CASE pc' = "done" /\ events' = events
    BY <1>2, NotSent
  <1> QED BY <1>1, <1>2, SayCases

(* The ends of a response.                                                  *)
LEMMA FailResponseFollows ==
    ASSUME events \in Seq(Events), NEW r \in Records, r.steps # <<>>, FailResponse(r),
           Stream!Error \in Stream!Allowed
    PROVE  Follows
  <1> DEFINE failed == SetStatus(r, "failed")
             final == CompleteStep(failed, "failed")
  <1>1. failed \in Records /\ failed.steps # <<>>
    BY SetStatusType DEF Statuses
  <1>2. final \in Records
    BY <1>1, CompleteStepType DEF StepStatuses
  <1>3. Block({r, failed}, final, Event("error", "fatal"), "fail_error")
    BY DEF FailResponse
  <1> HIDE DEF final
  <1>4. LastAt("fail_error", Event("error", "fatal"), Last, ModeOf(final))
    BY DEF LastAt, Event
  <1>5. MaySend(Event("error", "fatal"))
    BY ErrorIsError
  <1> QED BY <1>2, <1>3, <1>4, <1>5, BlockFollows DEF Ending

LEMMA FinalizeCancelledFollows ==
    ASSUME events \in Seq(Events), NEW r \in Records, FinalizeCancelled(r),
           Stream!Error \in Stream!Allowed, Stream!Cancelled \in Stream!Allowed
    PROVE  Follows
  <1>1. SetStatus(r, "cancelled") \in Records
    BY SetStatusType DEF Statuses
  <1>2. LastAt("terminal", Event("completed", "cancelled"), Last,
               ModeOf(SetStatus(r, "cancelled")))
    BY DEF LastAt
  <1>3. MaySend(Event("completed", "cancelled"))
    BY ErrorIsError
  <1> QED BY <1>1, <1>2, <1>3, BlockFollows DEF FinalizeCancelled, Ending

(* The head of the loop, wherever a step or the end may come next.          *)
LEMMA LoopHeadFollows ==
    ASSUME events \in Seq(Events), NEW r \in Records, LoopHead(r),
           Stream!StepOrEnd \in SUBSET Stream!Allowed,
           StepsSent <= Len(r.steps), CallsSent <= Len(r.calls)
    PROVE  Follows
  <1>1. Stream!Error \in Stream!Allowed /\ Stream!Cancelled \in Stream!Allowed
    BY DEF Stream!StepOrEnd
  <1>2. CASE MaxStepsExceeded(r)
    <2>1. SetStatus(r, "failed") \in Records
      BY SetStatusType DEF Statuses
    <2>2. LastAt("fail_error", Event("error", "fatal"), Last, ModeOf(SetStatus(r, "failed")))
      BY DEF LastAt, Event
    <2>3. MaySend(Event("error", "fatal"))
      BY <1>1, ErrorIsError
    <2> QED BY <1>1, <1>2, <2>1, <2>2, <2>3, BlockFollows DEF MaxStepsExceeded, Ending
  <1>3. CASE FinalizeCancelled(r)
    BY <1>1, <1>3, FinalizeCancelledFollows
  <1>4. CASE /\ Len(r.steps) < MaxSteps
             /\ Block({r}, StartStep(r), Event("step.created", "none"), "step_created")
    <2> DEFINE final == StartStep(r)
    <2>1. PICK e : /\ e = Event("step.created", "none")
                   /\ Block({r}, final, e, "step_created")
      BY <1>4
    <2>2. e \in Stream!StepOrEnd /\ e.type = "step.created"
      BY <2>1 DEF Stream!StepOrEnd, Stream!Event, Event
    <2>3. Len(r.steps) \in Nat /\ StepsSent \in Nat
      BY RecordFields, LenProperties, CountIsNat DEF StepsSent
    <2>4. MaySend(e)
      BY <1>4, <2>2, <2>3, LimitsAssumption
      DEF MaySend, Stream!WithinLimits, StepsSent
    <2>5. /\ final \in Records
          /\ Len(final.steps) = Len(r.steps) + 1
          /\ final.calls = r.calls
      BY StartStepType, RecordFields, AppendProperties DEF StepStatuses
    <2> HIDE DEF final
    <2>6. RowsFor(final, e)
      <3>1. Len(r.calls) \in Nat /\ CallsSent \in Nat
        BY RecordFields, LenProperties, CountIsNat DEF CallsSent
      <3> QED BY <2>2, <2>3, <2>5, <3>1 DEF RowsFor
    <2>7. LastAt("step_created", e, Last, ModeOf(final))
      BY <2>2 DEF LastAt
    <2> QED BY <1>1, <2>1, <2>4, <2>5, <2>6, <2>7, BlockFollows
  <1> QED BY <1>2, <1>3, <1>4 DEF LoopHead

-----------------------------------------------------------------------------
(* The rows of a record with as many steps and calls cover the same events. *)
AsManyRows(r) ==
    /\ Len(r.steps) = Len(stored.steps) /\ Len(r.calls) = Len(stored.calls)

LEMMA RowsStillCover ==
    ASSUME events \in Seq(Events), NEW r \in Records, AsManyRows(r), NEW e,
           e.type \notin {"step.created", "tool_call.created"},
           StepsSent <= Len(stored.steps), CallsSent <= Len(stored.calls)
    PROVE  RowsFor(r, e)
  <1>1. StepsSent \in Nat /\ CallsSent \in Nat
    BY CountIsNat DEF StepsSent, CallsSent
  <1>2. Len(r.steps) \in Nat /\ Len(r.calls) \in Nat
    BY RecordFields, LenProperties
  <1> QED BY <1>1, <1>2 DEF RowsFor, AsManyRows

(* complete_step() adds no row.                                             *)
LEMMA CompleteStepRowsKept ==
    ASSUME NEW r \in Records, r.steps # <<>>, AsManyRows(r), NEW s \in StepStatuses
    PROVE  CompleteStep(r, s) \in Records /\ AsManyRows(CompleteStep(r, s))
  <1>1. /\ CompleteStep(r, s) \in Records
        /\ CompleteStep(r, s).steps = [r.steps EXCEPT ![Len(r.steps)] = s]
        /\ CompleteStep(r, s).calls = r.calls
    BY CompleteStepType
  <1>2. Len([r.steps EXCEPT ![Len(r.steps)] = s]) = Len(r.steps)
    BY RecordFields, ReplaceLast
  <1> QED BY <1>1, <1>2 DEF AsManyRows

(* append_message() neither.                                                *)
LEMMA AppendMessageRowsKept ==
    ASSUME NEW r \in Records, AsManyRows(r), NEW kind \in Kinds
    PROVE  /\ AppendMessage(r, kind) \in Records /\ AsManyRows(AppendMessage(r, kind))
           /\ AppendMessage(r, kind).steps = r.steps
           /\ AppendMessage(r, kind).calls = r.calls
  BY AppendMessageType DEF AsManyRows

(* A block at whose end as many rows are stored.                            *)
LEMMA KeptRowsFollow ==
    ASSUME events \in Seq(Events), NEW partial, NEW final \in Records, NEW e, NEW next,
           Block(partial, final, e, next), AsManyRows(final),
           e \in Stream!Allowed, Stream!Error \in Stream!Allowed,
           e.type \notin {"step.created", "tool_call.created"},
           LastAt(next, e, Last, ModeOf(final)),
           StepsSent <= Len(stored.steps), CallsSent <= Len(stored.calls)
    PROVE  Follows
  BY UnlimitedEvent, RowsStillCover, BlockFollows

(* THE STREAM: one step per action.                                         *)
LEMMA StreamStep ==
    ASSUME TypeOK, StreamInv, [Next]_vars
    PROVE  Follows
  <1>1. /\ stored \in Records /\ events \in Seq(Events) /\ AsManyRows(stored)
        /\ pc \in StepOpen \cup CallOpen => stored.steps # <<>>
        /\ pc \in CallOpen => stored.calls # <<>>
    BY DEF TypeOK, AsManyRows
  <1>2. LastAt(pc, Last, Before, CurrentMode)
    BY DEF StreamInv
  <1>3. pc \notin Ending => StepsSent <= Len(stored.steps) /\ CallsSent <= Len(stored.calls)
    BY DEF StreamInv
  <1> USE DEF ResumesAt, StepOpen, CallOpen, Ending
  <1>4. /\ pc \in {"in_progress", "step_next", "client_call_done"}
             => Stream!StepOrEnd \in SUBSET Stream!Allowed
        /\ pc = "streaming" => Stream!Outputs \in SUBSET Stream!Allowed
    <2>1. CASE pc = "in_progress"
      BY <2>1, <1>2, AllowedAfter DEF LastAt
    <2>2. CASE pc = "step_next"
      BY <2>2, <1>2, AllowedAfter DEF LastAt, Stream!AfterStep, Before
    <2>3. CASE pc = "client_call_done"
      BY <2>3, <1>2, AllowedAfter DEF LastAt, Stream!AfterToolEvent
    <2>4. CASE pc = "streaming"
      BY <2>4, <1>2, AllowedAfter DEF LastAt
    <2> QED BY <2>1, <2>2, <2>3, <2>4
  <1>5. pc \in {"start", "in_progress", "step_next", "streaming", "step_final", "executing",
                "server_call_done", "tool_error", "waiting", "client_call_done"}
          => Stream!Error \in Stream!Allowed
    <2>1. CASE pc \in {"in_progress", "step_next", "client_call_done", "streaming"}
      BY <2>1, <1>4 DEF Stream!StepOrEnd, Stream!Outputs
    <2>2. CASE pc = "start"
      BY <2>2, <1>2, AllowedAfter DEF LastAt
    <2>3. CASE pc = "step_final"
      BY <2>3, <1>2, AllowedAfter DEF LastAt, Stream!AfterStep, Before
    <2>4. CASE pc \in {"executing", "waiting", "server_call_done"}
      BY <2>4, <1>2, AllowedAfter DEF LastAt, Stream!AfterToolEvent
    <2>5. CASE pc = "tool_error"
      BY <2>5, <1>2, AllowedAfter DEF LastAt, Stream!AfterError
    <2> QED BY <2>1, <2>2, <2>3, <2>4, <2>5
  <1>6. CASE Start
    <2> DEFINE final == StartResponse(stored)
               e == Event("created", "created")
    <2>1. final \in Records /\ AsManyRows(final)
      BY <1>1, StartResponseType DEF AsManyRows
    <2>2. Block({}, final, e, "created") /\ pc = "start"
      BY <1>6 DEF Start
    <2>3. /\ e \in Stream!Allowed
          /\ e.type = "created"
      BY <2>2, <1>2, AllowedAfter DEF LastAt, Stream!Event, Event
    <2> HIDE DEF final, e
    <2>4. LastAt("created", e, Last, ModeOf(final))
      BY <2>3 DEF LastAt
    <2> QED BY <1>1, <1>3, <1>5, <2>1, <2>2, <2>3, <2>4, KeptRowsFollow
  <1>7. CASE \/ SayInProgress \/ CallServerTool \/ SayServerCallCompleted \/ SayWaiting
            \/ SayClientCallCompleted \/ SayFailed
    <2>1. PICK e, next :
            /\ Say(e, next) /\ LastAt(next, e, Last, CurrentMode)
            /\ e.type \notin {"step.created", "tool_call.created"}
            /\ e \in Stream!Allowed
            /\ pc \notin Ending \/ next \in Ending
      <3>1. CASE SayInProgress
        BY <3>1, <1>2, AllowedAfter DEF SayInProgress, LastAt, Event, Stream!Event
      <3>2. CASE CallServerTool
        BY <3>2, <1>2, AllowedAfter
        DEF CallServerTool, LastAt, Event, Stream!Event, Stream!AfterToolEvent
      <3>3. CASE SayServerCallCompleted
        BY <3>3, <1>2, AllowedAfter
        DEF SayServerCallCompleted, LastAt, Event, Stream!Event, Stream!AfterToolEvent
      <3>4. CASE SayWaiting
        BY <3>4, <1>2, AllowedAfter
        DEF SayWaiting, LastAt, Event, Stream!Event, Stream!AfterStep
      <3>5. CASE SayClientCallCompleted
        BY <3>5, <1>2, AllowedAfter
        DEF SayClientCallCompleted, LastAt, Event, Stream!Event, Stream!AfterToolEvent
      <3>6. CASE SayFailed
        BY <3>6, <1>2, AllowedAfter
        DEF SayFailed, LastAt, Event, Stream!Event, Stream!AfterError
      <3> QED BY <1>7, <3>1, <3>2, <3>3, <3>4, <3>5, <3>6
    <2>2. next \notin Ending => RowsFor(stored, e)
      BY <1>1, <1>3, <2>1, RowsStillCover
    <2> QED BY <1>1, <2>1, <2>2, UnlimitedEvent, SayFollows
  <1>8. CASE NextStep \/ EndClientCall
    <2> DEFINE r == AppendMessage(stored, "tool_result")
    <2>1. r \in Records /\ AsManyRows(r)
      BY <1>1, AppendMessageRowsKept DEF Kinds
    <2>2. /\ pc \in {"in_progress", "step_next", "client_call_done"}
          /\ LoopHead(stored) \/ LoopHead(r)
      BY <1>8 DEF NextStep, EndClientCall, AppendToolResult
    <2> HIDE DEF r
    <2> QED BY <1>1, <1>3, <1>4, <2>1, <2>2, LoopHeadFollows DEF AsManyRows
  <1>9. CASE StreamCancelled \/ StreamFails
    <2>1. pc = "streaming" /\ stored.steps # <<>>
      BY <1>1, <1>9 DEF StreamCancelled, StreamFails
    <2>2. Stream!Error \in Stream!Allowed /\ Stream!Cancelled \in Stream!Allowed
      BY <1>4, <2>1 DEF Stream!Outputs
    <2> QED BY <1>1, <1>9, <2>1, <2>2, FinalizeCancelledFollows, FailResponseFollows
            DEF StreamCancelled, StreamFails
  <1>10. CASE Fragment
    <2>1. pc = "streaming" /\ stored.steps # <<>>
      BY <1>1, <1>10 DEF Fragment
    <2>2. CASE FailResponse(stored)
      BY <1>1, <1>5, <2>1, <2>2, FailResponseFollows
    <2>3. CASE events' = events /\ UNCHANGED <<pc, stored>>
      BY <1>2, <1>3, <2>3, SameEvents DEF Follows, StreamInv, LastAt, CurrentMode
    <2>4. CASE /\ LastType # "delta" /\ UNCHANGED <<pc, stored>>
               /\ events' = Append(events, Event("delta", "none"))
      <3>1. PICK e : e = Event("delta", "none") /\ events' = Append(events, e)
        BY <2>4
      <3>2. Last.type = LastType \/ events = <<>>
        BY <1>1 DEF Last, LastType, Stream!Recent
      <3>3. Last.type = "step.created"
        <4>1. Last.type \in {"step.created", "delta"}
          BY <2>1, <1>2 DEF LastAt
        <4>2. events # <<>>
          BY <4>1 DEF Last, Stream!Recent, Stream!Event
        <4> QED BY <2>4, <3>2, <4>1, <4>2
      <3>4. e \in Stream!Allowed /\ e.type = "delta"
        BY <3>1, <3>3, AllowedAfter DEF Event, Stream!Event
      <3>5. MaySend(e) /\ LastAt(pc', e, Last, CurrentMode')
        BY <2>1, <2>4, <3>4, UnlimitedEvent DEF LastAt
      <3>6. RowsFor(stored, e)
        BY <1>1, <1>3, <2>1, <3>4, RowsStillCover
      <3> QED BY <1>1, <2>4, <3>1, <3>5, <3>6, Sent
    <2> QED BY <1>10, <2>2, <2>3, <2>4 DEF Fragment
  <1>11. ASSUME NEW mode \in Modes, OutputIsToolCall(mode) PROVE Follows
    <2> DEFINE r == AppendMessage(stored, "tool_call")
               row == [mode |-> mode, status |-> "in_progress", result |-> FALSE]
               final == CreateToolCall(r, mode)
    <2>1. pc = "streaming" /\ stored.steps # <<>>
      BY <1>1, <1>11 DEF OutputIsToolCall
    <2>2. CASE FailResponse(stored)
      BY <1>1, <1>5, <2>1, <2>2, FailResponseFollows
    <2>3. CASE /\ Len(stored.calls) < MaxToolCalls
               /\ Block({r}, final, Event("tool_call.created", mode), "call_created")
      <3>1. PICK e : /\ e = Event("tool_call.created", mode)
                     /\ Block({r}, final, e, "call_created")
        BY <2>3
      <3>2. r \in Records /\ r.calls = stored.calls /\ r.steps = stored.steps
        BY <1>1, AppendMessageType DEF Kinds
      <3> HIDE DEF r
      <3>3. /\ final \in Records
            /\ final.calls = Append(stored.calls, row)
            /\ final.steps = stored.steps
        BY <1>11, <3>2, CreateToolCallType
      <3>4. row \in CallRows /\ row.mode = mode
        BY <1>11 DEF CallRows
      <3> HIDE DEF final, row
      <3>5. /\ Len(stored.calls) \in Nat /\ Len(stored.steps) \in Nat
            /\ Len(final.calls) = Len(stored.calls) + 1
            /\ ModeOf(final) = mode
        BY <1>1, <3>3, <3>4, RecordFields, LenProperties, AppendProperties DEF ModeOf
      <3>6. StepsSent \in Nat /\ CallsSent \in Nat
        BY <1>1, CountIsNat DEF StepsSent, CallsSent
      <3>7. e \in Stream!Outputs /\ e.type = "tool_call.created" /\ e.info = mode
        BY <1>11, <3>1 DEF Stream!Outputs, Stream!Event, Event, Modes
      <3>8. CallsSent < MaxToolCalls
        BY <1>3, <2>1, <2>3, <3>5, <3>6, LimitsAssumption
      <3>9. MaySend(e)
        BY <1>4, <2>1, <3>7, <3>8 DEF MaySend, Stream!WithinLimits, CallsSent
      <3>10. RowsFor(final, e)
        BY <1>3, <2>1, <3>3, <3>5, <3>6, <3>7 DEF RowsFor
      <3>11. LastAt("call_created", e, Last, ModeOf(final))
        BY <3>5, <3>7 DEF LastAt
      <3> QED BY <1>1, <1>5, <2>1, <3>1, <3>3, <3>9, <3>10, <3>11, BlockFollows
    <2> QED BY <1>11, <2>2, <2>3 DEF OutputIsToolCall
  <1>12. CASE OutputIsAnswer
    <2> DEFINE r == AppendMessage(stored, "assistant")
               final == CompleteStep(r, "completed")
               e == Event("step.completed", "completed")
    <2>1. pc = "streaming" /\ stored.steps # <<>>
      BY <1>1, <1>12 DEF OutputIsAnswer
    <2>2. r \in Records /\ AsManyRows(r) /\ r.steps # <<>>
      BY <1>1, <2>1, AppendMessageRowsKept DEF Kinds
    <2>3. Block({r}, final, e, "step_final")
      BY <1>12 DEF OutputIsAnswer
    <2> HIDE DEF r
    <2>4. final \in Records /\ AsManyRows(final)
      BY <2>2, CompleteStepRowsKept DEF StepStatuses
    <2>5. e \in Stream!Outputs /\ e.type = "step.completed" /\ e.info = "completed"
      BY DEF Stream!Outputs, Stream!Event, Event
    <2>6. Last.type # "tool_call.completed"
      BY <2>1, <1>2 DEF LastAt
    <2> HIDE DEF final, e
    <2>7. LastAt("step_final", e, Last, ModeOf(final))
      BY <2>5, <2>6 DEF LastAt
    <2> QED BY <1>1, <1>3, <1>4, <1>5, <2>1, <2>3, <2>4, <2>5, <2>7, KeptRowsFollow
  <1>13. CASE OutputIsInvalid
    <2> DEFINE r == AppendMessage(stored, "assistant")
               repair == AppendMessage(r, "repair")
               final == CompleteStep(repair, "schema_retry")
               e == Event("step.completed", "schema_retry")
    <2>1. pc = "streaming" /\ stored.steps # <<>>
      BY <1>1, <1>13 DEF OutputIsInvalid
    <2>2. r \in Records /\ AsManyRows(r) /\ r.steps # <<>>
      BY <1>1, <2>1, AppendMessageRowsKept DEF Kinds
    <2>3. FailResponse(r) \/ Block({r, repair}, final, e, "step_next")
      BY <1>13 DEF OutputIsInvalid
    <2> HIDE DEF r
    <2>4. repair \in Records /\ AsManyRows(repair) /\ repair.steps # <<>>
      BY <2>2, AppendMessageRowsKept DEF Kinds
    <2> HIDE DEF repair
    <2>5. final \in Records /\ AsManyRows(final)
      BY <2>4, CompleteStepRowsKept DEF StepStatuses
    <2>6. e \in Stream!Outputs /\ e.type = "step.completed" /\ e.info = "schema_retry"
      BY DEF Stream!Outputs, Stream!Event, Event
    <2> HIDE DEF final, e
    <2>7. LastAt("step_next", e, Last, ModeOf(final))
      BY <2>6 DEF LastAt
    <2>8. CASE FailResponse(r)
      BY <1>1, <1>5, <2>1, <2>2, <2>8, FailResponseFollows
    <2>9. CASE Block({r, repair}, final, e, "step_next")
      BY <1>1, <1>3, <1>4, <1>5, <2>1, <2>5, <2>6, <2>7, <2>9, KeptRowsFollow
    <2> QED BY <2>3, <2>8, <2>9
  <1>14. CASE AnswerCompletes
    <2> DEFINE final == SetStatus(stored, "completed")
               e == Event("completed", "completed")
    <2>1. pc = "step_final" /\ Block({}, final, e, "terminal")
      BY <1>14 DEF AnswerCompletes, FinalizeCompleted
    <2>2. final \in Records /\ AsManyRows(final)
      BY <1>1, SetStatusType DEF Statuses, AsManyRows
    <2>3. e \in Stream!Allowed /\ e.type = "completed"
      BY <1>2, <2>1, AllowedAfter DEF LastAt, Stream!AfterStep, Before, Stream!Event, Event
    <2> HIDE DEF final, e
    <2>4. LastAt("terminal", e, Last, ModeOf(final))
      BY DEF LastAt
    <2> QED BY <1>1, <1>3, <1>5, <2>1, <2>2, <2>3, <2>4, KeptRowsFollow
  <1>15. CASE ServerToolSucceeds \/ ResultArrives
    <2> DEFINE r == AddToolResult(stored)
               final == CompleteToolCall(r, "completed")
    <2>1. /\ pc \in {"executing", "waiting"}
          /\ r \in Records /\ r.calls # <<>> /\ r.steps = stored.steps
          /\ OnlyCurrent(stored, r)
      BY <1>15, <1>1, AddToolResultType, AddToolResultCurrent
      DEF ServerToolSucceeds, ResultArrives, EndWait
    <2>2. PICK e, next :
            /\ Block({r}, final, e, next)
            /\ \/ /\ pc = "executing" /\ next = "server_received"
                  /\ e = Event("tool_result.received", "server")
               \/ /\ pc = "waiting" /\ next = "client_received"
                  /\ e = Event("tool_result.received", "client")
      BY <1>15 DEF ServerToolSucceeds, ResultArrives, EndWait
    <2> HIDE DEF r
    <2>3. /\ final \in Records /\ final.steps = r.steps
          /\ OnlyCurrent(r, final)
      BY <2>1, CompleteToolCallType, CompleteToolCallCurrent
    <2> HIDE DEF final
    <2>4. AsManyRows(final)
      BY <2>1, <2>3 DEF AsManyRows, OnlyCurrent
    <2>5. e \in Stream!Allowed /\ e.type = "tool_result.received"
      BY <1>2, <2>2, AllowedAfter DEF LastAt, Stream!AfterToolEvent, Stream!Event, Event
    <2>6. LastAt(next, e, Last, ModeOf(final))
      BY <2>2 DEF LastAt, Event
    <2> QED BY <1>1, <1>3, <1>5, <2>1, <2>2, <2>3, <2>4, <2>5, <2>6, KeptRowsFollow
  <1>16. CASE ServerToolRaises \/ ServerToolTimesOut \/ NoResultArrives
    <2> DEFINE r == CompleteToolCall(stored, "failed")
    <2>1. /\ pc \in {"executing", "waiting"}
          /\ r \in Records /\ r.steps = stored.steps /\ r.steps # <<>>
          /\ OnlyCurrent(stored, r)
      BY <1>16, <1>1, CompleteToolCallType, CompleteToolCallCurrent
      DEF ServerToolRaises, ServerToolTimesOut, NoResultArrives, EndWait
    <2>2. \/ pc = "executing" /\ Block({}, r, Event("error", "tool"), "tool_error")
          \/ FailResponse(r)
          \/ pc = "waiting" /\ FinalizeCancelled(stored)
      BY <1>16 DEF ServerToolRaises, ServerToolTimesOut, NoResultArrives, EndWait
    <2> HIDE DEF r
    <2>3. CASE pc = "executing" /\ Block({}, r, Event("error", "tool"), "tool_error")
      <3>1. AsManyRows(r)
        BY <2>1 DEF AsManyRows, OnlyCurrent
      <3>2. Event("error", "tool") \in Stream!Allowed /\ Event("error", "tool").type = "error"
        BY <1>2, <2>3, AllowedAfter DEF LastAt, Stream!AfterToolEvent, Stream!Event, Event
      <3>3. LastAt("tool_error", Event("error", "tool"), Last, ModeOf(r))
        BY DEF LastAt, Event
      <3> QED BY <1>1, <1>3, <1>5, <2>1, <2>3, <3>1, <3>2, <3>3, KeptRowsFollow
    <2>4. CASE FailResponse(r)
      BY <1>1, <1>5, <2>1, <2>4, FailResponseFollows
    <2>5. CASE pc = "waiting" /\ FinalizeCancelled(stored)
      <3>1. Stream!Cancelled \in Stream!Allowed
        BY <1>2, <2>5, AllowedAfter DEF LastAt, Stream!AfterToolEvent
      <3> QED BY <1>1, <1>5, <2>5, <3>1, FinalizeCancelledFollows
    <2> QED BY <2>2, <2>3, <2>4, <2>5
  <1>17. CASE EndServerCall
    <2> DEFINE r == AppendMessage(stored, "tool_result")
               final == CompleteStep(r, "completed")
               e == Event("step.completed", "completed")
    <2>1. pc = "server_call_done" /\ stored.steps # <<>>
      BY <1>1, <1>17 DEF EndServerCall
    <2>2. r \in Records /\ AsManyRows(r) /\ r.steps # <<>>
      BY <1>1, <2>1, AppendMessageRowsKept DEF Kinds
    <2>3. Block({r}, final, e, "step_next")
      BY <1>17 DEF EndServerCall, AppendToolResult
    <2> HIDE DEF r
    <2>4. final \in Records /\ AsManyRows(final)
      BY <2>2, CompleteStepRowsKept DEF StepStatuses
    <2>5. e \in Stream!Allowed /\ e.type = "step.completed" /\ e.info = "completed"
      BY <1>2, <2>1, AllowedAfter DEF LastAt, Stream!AfterToolEvent, Stream!Event, Event
    <2>6. Last.type = "tool_call.completed"
      BY <2>1, <1>2 DEF LastAt
    <2> HIDE DEF final, e
    <2>7. LastAt("step_next", e, Last, ModeOf(final))
      BY <2>5, <2>6 DEF LastAt
    <2> QED BY <1>1, <1>3, <1>5, <2>1, <2>3, <2>4, <2>5, <2>7, KeptRowsFollow
  <1>18. CASE FeedErrorBack
    <2> DEFINE r == AppendMessage(stored, "tool_error")
               final == CompleteStep(r, "tool_error_retry")
               e == Event("step.completed", "tool_error_retry")
    <2>1. pc = "tool_error" /\ stored.steps # <<>>
      BY <1>1, <1>18 DEF FeedErrorBack
    <2>2. r \in Records /\ AsManyRows(r) /\ r.steps # <<>>
      BY <1>1, <2>1, AppendMessageRowsKept DEF Kinds
    <2>3. FailResponse(r) \/ Block({r}, final, e, "step_next")
      BY <1>18 DEF FeedErrorBack, AppendToolError
    <2> HIDE DEF r
    <2>4. final \in Records /\ AsManyRows(final)
      BY <2>2, CompleteStepRowsKept DEF StepStatuses
    <2>5. /\ e \in Stream!Allowed
          /\ e.type = "step.completed" /\ e.info = "tool_error_retry"
      BY <1>2, <2>1, AllowedAfter DEF LastAt, Stream!AfterError, Stream!Event, Event
    <2> HIDE DEF final, e
    <2>6. LastAt("step_next", e, Last, ModeOf(final))
      BY <2>5 DEF LastAt
    <2>7. CASE FailResponse(r)
      BY <1>1, <1>5, <2>1, <2>2, <2>7, FailResponseFollows
    <2>8. CASE Block({r}, final, e, "step_next")
      BY <1>1, <1>3, <1>5, <2>1, <2>4, <2>5, <2>6, <2>8, KeptRowsFollow
    <2> QED BY <2>3, <2>7, <2>8
  <1>19. CASE CallClientTool
    <2> DEFINE final == CompleteStep(stored, "waiting_tool")
               e == Event("step.completed", "waiting_tool")
    <2>1. /\ pc = "call_created" /\ CurrentMode = "client" /\ stored.steps # <<>>
          /\ Block({}, final, e, "client_step")
      BY <1>1, <1>19 DEF CallClientTool
    <2>2. final \in Records /\ AsManyRows(final)
      BY <1>1, <2>1, CompleteStepRowsKept DEF StepStatuses
    <2>3. /\ e \in Stream!Allowed /\ Stream!Error \in Stream!Allowed
          /\ e.type = "step.completed" /\ e.info = "waiting_tool"
      BY <1>2, <2>1, AllowedAfter DEF LastAt, Stream!AfterToolEvent, Stream!Event, Event
    <2> HIDE DEF final, e
    <2>4. LastAt("client_step", e, Last, ModeOf(final))
      BY <2>3 DEF LastAt
    <2> QED BY <1>1, <1>3, <2>1, <2>2, <2>3, <2>4, KeptRowsFollow
  <1>20. CASE Return \/ SendFails \/ DeliverCancel
    BY <1>20, NotSent DEF Return, SendFails, DeliverCancel
  <1>21. CASE \/ SendsRequest \/ BeginServerTool \/ WaitForResult \/ CancelRequest
              \/ SocketCloses \/ Disconnect \/ Finished \/ UNCHANGED vars
              \/ \E k \in 1..Len(stored.calls) : SubmitResult(k)
    <2>1. /\ UNCHANGED <<stored, events>>
          /\ \/ pc' = pc
             \/ pc = "step_created" /\ pc' = "streaming"
             \/ pc = "server_waiting" /\ pc' = "executing"
             \/ pc = "client_waiting" /\ pc' = "waiting"
      BY <1>21 DEF SendsRequest, BeginServerTool, WaitForResult, CancelRequest,
                   SocketCloses, Disconnect, Finished, vars, SubmitResult
    <2>2. CurrentMode' = CurrentMode
      BY <2>1 DEF CurrentMode
    <2>3. LastAt(pc', Last, Before, CurrentMode)
      BY <1>2, <2>1 DEF LastAt
    <2>4. LastAt(pc, Last, Before, CurrentMode)'
      BY <2>1, <2>2, <2>3, SameEvents DEF LastAt
    <2> QED BY <1>3, <2>1, <2>4, SameEvents DEF Follows, StreamInv
  <1>22. CASE Raises
    <2>1. Stream!Error \in Stream!Allowed
      BY <1>22, <1>2, AllowedAfter DEF Raises, LastAt, Stream!Outputs
    <2>2. CASE pc' = "abort_error" /\ events' = Append(events, Event("error", "fatal"))
      <3>1. MaySend(Event("error", "fatal"))
        BY <2>1, ErrorIsError
      <3>2. LastAt(pc', Event("error", "fatal"), Last, CurrentMode')
        BY <2>2 DEF LastAt, Event
      <3> QED BY <1>1, <2>2, <3>1, <3>2, Sent DEF Ending
    <2> QED BY <1>22, <1>1, <2>2, NotSent, RaisesEffect
  <1> QED
    BY <1>6, <1>7, <1>8, <1>9, <1>10, <1>11, <1>12, <1>13, <1>14, <1>15, <1>16, <1>17, <1>18,
       <1>19, <1>20, <1>21, <1>22,
       RaisesCases
    DEF Next, TaskStep, Environment

(* THE SESSION IMPLEMENTS THE STREAM CONTRACT: on every path, with any      *)
(* cancel, disconnect, timeout or failure of the store, the events a client *)
(* receives are in the order of README.md's event table and within the      *)
(* limits of the settings.                                                  *)
THEOREM StreamContractHolds == Spec => StreamContract
  <1>1. Init => StreamInv /\ Stream!Init
    <2>1. ASSUME Init PROVE LastAt(pc, Last, Before, CurrentMode)
      BY <2>1 DEF Init, LastAt, Last, Stream!Recent, Stream!Event
    <2>2. ASSUME Init PROVE StepsSent <= Len(stored.steps) /\ CallsSent <= Len(stored.calls)
      <3>1. ASSUME NEW type PROVE Stream!Count(type) = 0
        <4>1. {i \in 1..Len(events) : events[i].type = type} = {}
          BY <2>2 DEF Init
        <4> QED BY <4>1, CountIsCardinality, FS_EmptySet
      <3> QED BY <2>2, <3>1 DEF StepsSent, CallsSent, Init, NoRecord
    <2> QED BY <2>1, <2>2 DEF StreamInv, Init, Stream!Init
  <1>2. TypeOK /\ StreamInv /\ [Next]_vars => StreamInv' /\ [Stream!Next]_events
    BY StreamStep DEF Follows
  <1> QED BY <1>1, <1>2, TypeCorrect, PTL DEF Spec, StreamContract, Stream!Spec
==============================================================================
