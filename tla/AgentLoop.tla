------------------------------ MODULE AgentLoop ------------------------------
(***************************************************************************)
(* One response session of the gateway: agent_loop.py.                     *)
(*                                                                         *)
(* ActiveResponseSession.run() is an asyncio task.  It runs without        *)
(* interruption from one await that may suspend to the next one, so an     *)
(* action of this module is the whole block of code between two of them,   *)
(* every store call and every early return included.  What can suspend is  *)
(*   - emit(), under back-pressure or on the connection's send_lock;       *)
(*   - the iteration over vllm_client.stream_chat();                       *)
(*   - asyncio.wait_for() on a server tool or on the client's result.      *)
(* The store's coroutines never suspend: their lock is not contended and   *)
(* SQLite is called synchronously.                                         *)
(*                                                                         *)
(* pc names the await the task is suspended in.  Between two blocks the    *)
(* other actors step: the connection's receive loop (cancel(),             *)
(* submit_tool_result(), the disconnect handler), the peer and the timers. *)
(***************************************************************************)
EXTENDS Naturals, Sequences, FiniteSets

CONSTANTS
    MaxSteps,       \* settings.max_steps
    MaxToolCalls    \* settings.max_tool_calls

ASSUME LimitsAssumption == MaxSteps \in Nat /\ MaxToolCalls \in Nat

MaxConsecutiveErrors == 3
MaxSchemaAttempts == 2

VARIABLES
    pc,                 \* the await the task is suspended in
    stored,             \* the response's record in the store
    events,             \* the events handed to the connection, in order
    sock,               \* "open", "closed" (sends raise), "gone" (disconnect handled)
    cancelEvent,        \* cancel_event.is_set()
    taskCancelled,      \* task.cancel() was called, CancelledError not yet thrown
    future,             \* _pending_tool_result
    accepted,           \* ids of the tool calls whose submit was accepted, in order
    schemaAttempts,     \* schema_attempts
    consecutiveErrors,  \* consecutive_tool_errors
    storeFailed         \* a call of the store has raised

vars == <<pc, stored, events, sock, cancelEvent, taskCancelled, future,
          accepted, schemaAttempts, consecutiveErrors, storeFailed>>

-----------------------------------------------------------------------------
(* The response's record: the status, the messages this response appends to *)
(* its thread, the rows of its steps and of its tool calls.  The id of a    *)
(* step or of a call is its position.                                       *)

Modes == {"client", "server"}
Kinds == {"user", "assistant", "tool_call", "tool_result", "tool_error", "repair"}
Statuses == {"none", "in_progress", "completed", "cancelled", "failed"}
StepStatuses == {"in_progress", "completed", "waiting_tool", "schema_retry",
                 "tool_error_retry", "failed"}
CallRows == [mode : Modes,
             status : {"in_progress", "completed", "failed"},
             result : BOOLEAN]
Records == [status : Statuses,
            messages : Seq(Kinds),
            steps : Seq(StepStatuses),
            calls : Seq(CallRows)]

NoRecord == [status |-> "none", messages |-> <<>>, steps |-> <<>>, calls |-> <<>>]

StartResponse(r) == [r EXCEPT !.status = "in_progress", !.messages = <<"user">>]
SetStatus(r, s) == [r EXCEPT !.status = s]
AppendMessage(r, kind) == [r EXCEPT !.messages = Append(@, kind)]
StartStep(r) == [r EXCEPT !.steps = Append(@, "in_progress")]
CompleteStep(r, s) == [r EXCEPT !.steps[Len(r.steps)] = s]
(* Defect: the row of the call is not inserted. *)
CreateToolCall_Forgotten(r, mode) == r

CreateToolCall(r, mode) ==
    [r EXCEPT !.calls = Append(@, [mode |-> mode, status |-> "in_progress",
                                   result |-> FALSE])]
CompleteToolCall(r, s) == [r EXCEPT !.calls[Len(r.calls)].status = s]
AddToolResult(r) == [r EXCEPT !.calls[Len(r.calls)].result = TRUE]

-----------------------------------------------------------------------------
(* Events.  info is the status, or the mode of the tool call, the event     *)
(* carries.  The two delta events are one, and a run of them is one event.  *)

Event(type, info) == [type |-> type, info |-> info]

EventTypes == {"created", "in_progress", "step.created", "delta", "step.completed",
               "tool_call.created", "tool_call.completed", "tool_result.waiting",
               "tool_result.received", "error", "completed"}
EventInfos == Modes \cup Statuses \cup StepStatuses \cup {"created", "fatal", "tool"}
Events == [type : EventTypes, info : EventInfos]

LastType == IF events = <<>> THEN "none" ELSE events[Len(events)].type

(* emit() appends to the connection while the socket is open; afterwards it *)
(* raises, and run() swallows the two emits of its last resort: the task    *)
(* ends with the record as it is.                                           *)
Emit(e, next) ==
    /\ events' = IF sock = "open" THEN Append(events, e) ELSE events
    /\ pc' = IF sock = "open" THEN next ELSE "done"

(* Defect: run() does not answer when the store raises. *)
Block_NoLastResort(partial, final, e, next) ==
    \/ stored' = final /\ Emit(e, next) /\ UNCHANGED storeFailed
    \/ /\ stored' \in {stored, final} \cup partial
       /\ pc' = "done"
       /\ storeFailed' = TRUE
       /\ UNCHANGED events

(* A block that calls the store and then emits.  partial are the records    *)
(* between its calls, final the one after the last.  Each call may raise;   *)
(* memory and database may then differ, and the record is either of them.   *)
(* run() answers with an error and a "failed" response.completed.           *)
Block(partial, final, e, next) ==
    \/ /\ stored' = final
       /\ Emit(e, next)
       /\ UNCHANGED storeFailed
    \/ /\ stored' \in {stored, final} \cup partial
       /\ Emit(Event("error", "fatal"), "abort_error")
       /\ storeFailed' = TRUE

(* A block that only emits. *)
Say(e, next) == Emit(e, next) /\ UNCHANGED <<stored, storeFailed>>

(* An exception that is not the store's: run() answers in the same way, and *)
(* the record stays as one of those in left.                                *)
LastResort(left) ==
    /\ stored' \in left
    /\ Emit(Event("error", "fatal"), "abort_error")
    /\ UNCHANGED storeFailed

(* The task runs from await p on.  A CancelledError would be thrown there   *)
(* instead, except that wait_for() (Python 3.11) returns the answer of an   *)
(* awaitable that is already done.                                          *)
ResumesAt(p) ==
    /\ pc = p
    /\ taskCancelled => p \in {"executing", "waiting"}
    /\ taskCancelled' = FALSE

Locals == <<schemaAttempts, consecutiveErrors>>
Outside == <<sock, cancelEvent, future, accepted>>

FinalizeCompleted ==
    Block({}, SetStatus(stored, "completed"),
          Event("completed", "completed"), "terminal")

(* Defect: the client is told, the store is not. *)
FinalizeCancelled_NotStored(r) ==
    Block({}, r, Event("completed", "cancelled"), "terminal")

FinalizeCancelled(r) ==
    Block({r}, SetStatus(r, "cancelled"),
          Event("completed", "cancelled"), "terminal")

(* Defect: the step's row is not closed. *)
FailResponse_KeepsStep(r) ==
    Block({r}, SetStatus(r, "failed"), Event("error", "fatal"), "fail_error")

(* _fail_response() for the current step. *)
FailResponse(r) ==
    LET failed == SetStatus(r, "failed") IN
    Block({r, failed}, CompleteStep(failed, "failed"),
          Event("error", "fatal"), "fail_error")

(* _fail_response() without a step: the loop has used up max_steps. *)
MaxStepsExceeded(r) ==
    Block({r}, SetStatus(r, "failed"), Event("error", "fatal"), "fail_error")

(* Defect: cancel_event is only looked at by the stream. *)
LoopHead_IgnoresCancel(r) ==
    IF Len(r.steps) >= MaxSteps
    THEN MaxStepsExceeded(r)
    ELSE Block({r}, StartStep(r), Event("step.created", "none"), "step_created")

(* The head of the while loop; r is the record when the task gets there. *)
LoopHead(r) ==
    \/ /\ Len(r.steps) >= MaxSteps
       /\ MaxStepsExceeded(r)
    \/ /\ Len(r.steps) < MaxSteps
       /\ cancelEvent
       /\ FinalizeCancelled(r)
    \/ /\ Len(r.steps) < MaxSteps
       /\ ~cancelEvent
       /\ Block({r}, StartStep(r), Event("step.created", "none"), "step_created")

-----------------------------------------------------------------------------
Init ==
    /\ pc = "start"
    /\ stored = NoRecord
    /\ events = <<>>
    /\ sock = "open"
    /\ cancelEvent = FALSE
    /\ taskCancelled = FALSE
    /\ future = "none"
    /\ accepted = <<>>
    /\ schemaAttempts = 0
    /\ consecutiveErrors = 0
    /\ storeFailed = FALSE

(* The task's first block: start_response(), response.created. *)
Start ==
    /\ ResumesAt("start")
    /\ Block({}, StartResponse(stored), Event("created", "created"), "created")
    /\ UNCHANGED <<Locals, Outside>>

SayInProgress ==
    /\ ResumesAt("created")
    /\ Say(Event("in_progress", "in_progress"), "in_progress")
    /\ UNCHANGED <<Locals, Outside>>

(* The loop begins, or goes on after a step that ended without an answer. *)
NextStep ==
    /\ ResumesAt("in_progress") \/ ResumesAt("step_next")
    /\ LoopHead(stored)
    /\ UNCHANGED <<Locals, Outside>>

(* response.step.created is sent: the request to the backend goes out.      *)
(* build_system_message() raises when a tool's parameters, which the client *)
(* sends and nobody checks, are not what it expects.                        *)
BeginStream ==
    /\ ResumesAt("step_created")
    /\ \/ pc' = "streaming" /\ UNCHANGED <<stored, events, storeFailed>>
       \/ LastResort({stored})
    /\ UNCHANGED <<Locals, Outside>>

(* stream_chat() tests cancel_event on each data item, so after a cancel    *)
(* only the text of the item whose thinking is being sent can follow.       *)
MayYield == cancelEvent => LastType = "delta"

(* A thinking or text fragment arrives.  When an emit raises, the handler   *)
(* of the stream fails the response.                                        *)
Fragment ==
    /\ ResumesAt("streaming")
    /\ MayYield
    /\ \/ /\ sock = "open"
          /\ events' = IF LastType = "delta" THEN events
                       ELSE Append(events, Event("delta", "none"))
          /\ UNCHANGED <<pc, stored, storeFailed>>
       \/ /\ sock # "open"
          /\ FailResponse(stored)
    /\ UNCHANGED <<Locals, Outside>>

(* stream_chat() finds cancel_event set on a data item. *)
StreamCancelled ==
    /\ ResumesAt("streaming")
    /\ cancelEvent
    /\ FinalizeCancelled(stored)
    /\ UNCHANGED <<Locals, Outside>>

(* The backend answers with an error, times out or sends a frame that       *)
(* cannot be read.                                                          *)
StreamFails ==
    /\ ResumesAt("streaming")
    /\ FailResponse(stored)
    /\ UNCHANGED <<Locals, Outside>>

(* Defect: one call more than max_tool_calls. *)
OutputIsToolCall_OffByOne(mode) ==
    /\ ResumesAt("streaming")
    /\ LastType = "delta"
    /\ IF Len(stored.calls) > MaxToolCalls
       THEN FailResponse(stored)
       ELSE LET r == AppendMessage(stored, "tool_call") IN
            Block({r}, CreateToolCall(r, mode),
                  Event("tool_call.created", mode), "call_created")
    /\ UNCHANGED <<Locals, Outside>>

(* The output, which is not empty, is a call of a tool the request offers.  *)
(* Like the other ends of the stream it ignores cancel_event.               *)
OutputIsToolCall(mode) ==
    /\ ResumesAt("streaming")
    /\ LastType = "delta"
    /\ \/ /\ Len(stored.calls) >= MaxToolCalls
          /\ FailResponse(stored)
       \/ /\ Len(stored.calls) < MaxToolCalls
          /\ LET r == AppendMessage(stored, "tool_call") IN
             Block({r}, CreateToolCall(r, mode),
                   Event("tool_call.created", mode), "call_created")
    /\ UNCHANGED <<Locals, Outside>>

(* The output is the answer: there is no response_format, or it matches. *)
OutputIsAnswer ==
    /\ ResumesAt("streaming")
    /\ LET r == AppendMessage(stored, "assistant") IN
       Block({r}, CompleteStep(r, "completed"),
             Event("step.completed", "completed"), "step_final")
    /\ UNCHANGED <<Locals, Outside>>

(* Defect: the retry goes out without REPAIR_PROMPT. *)
OutputIsInvalid_NoPrompt ==
    /\ ResumesAt("streaming")
    /\ schemaAttempts' = schemaAttempts + 1
    /\ LET r == AppendMessage(stored, "assistant") IN
       IF schemaAttempts' <= MaxSchemaAttempts
       THEN Block({r}, CompleteStep(r, "schema_retry"),
                  Event("step.completed", "schema_retry"), "step_next")
       ELSE FailResponse(r)
    /\ UNCHANGED <<consecutiveErrors, Outside>>

(* The output does not match the request's response_format. *)
OutputIsInvalid ==
    /\ ResumesAt("streaming")
    /\ schemaAttempts' = schemaAttempts + 1
    /\ LET r == AppendMessage(stored, "assistant")
           repair == AppendMessage(r, "repair") IN
       \/ /\ schemaAttempts' <= MaxSchemaAttempts
          /\ Block({r, repair}, CompleteStep(repair, "schema_retry"),
                   Event("step.completed", "schema_retry"), "step_next")
       \/ /\ schemaAttempts' > MaxSchemaAttempts
          /\ FailResponse(r)
    /\ UNCHANGED <<consecutiveErrors, Outside>>

(* What is done with the output raises: json.loads() on numbers or brackets *)
(* without end; validate() when the client's schema is not one, which is    *)
(* after the answer was appended; the emit of a call whose arguments hold a *)
(* lone surrogate, after its row was inserted.                              *)
OutputRaises ==
    /\ ResumesAt("streaming")
    /\ LastType = "delta"
    /\ \/ LastResort({stored, AppendMessage(stored, "assistant")})
       \/ /\ Len(stored.calls) < MaxToolCalls
          /\ \E mode \in Modes :
               LastResort({CreateToolCall(AppendMessage(stored, "tool_call"), mode)})
    /\ UNCHANGED <<Locals, Outside>>

AnswerCompletes ==
    /\ ResumesAt("step_final")
    /\ FinalizeCompleted
    /\ UNCHANGED <<Locals, Outside>>

-----------------------------------------------------------------------------
(* Server tools: _execute_server_tool().  The model is told what a tool     *)
(* returned, or how it failed, in a message of the user's role.             *)

AppendToolResult(r) == AppendMessage(r, "tool_result")
AppendToolError(r) == AppendMessage(r, "tool_error")

CurrentMode == stored.calls[Len(stored.calls)].mode

CallServerTool ==
    /\ ResumesAt("call_created")
    /\ CurrentMode = "server"
    /\ Say(Event("tool_result.waiting", "server"), "server_waiting")
    /\ UNCHANGED <<Locals, Outside>>

BeginServerTool ==
    /\ ResumesAt("server_waiting")
    /\ pc' = "executing"
    /\ UNCHANGED <<stored, events, storeFailed, Locals, Outside>>

ServerToolSucceeds ==
    /\ ResumesAt("executing")
    /\ LET r == AddToolResult(stored) IN
       Block({r}, CompleteToolCall(r, "completed"),
             Event("tool_result.received", "server"), "server_received")
    /\ UNCHANGED <<Locals, Outside>>

ServerToolRaises ==
    /\ ResumesAt("executing")
    /\ Block({}, CompleteToolCall(stored, "failed"),
             Event("error", "tool"), "tool_error")
    /\ UNCHANGED <<Locals, Outside>>

(* The handler is synchronous, so wait_for()'s timer never fires while it   *)
(* runs; the branch is taken when the handler itself raises TimeoutError.   *)
ServerToolTimesOut ==
    /\ ResumesAt("executing")
    /\ LET r == CompleteToolCall(stored, "failed") IN FailResponse(r)
    /\ UNCHANGED <<Locals, Outside>>

SayServerCallCompleted ==
    /\ ResumesAt("server_received")
    /\ Say(Event("tool_call.completed", "server"), "server_call_done")
    /\ UNCHANGED <<Locals, Outside>>

EndServerCall ==
    /\ ResumesAt("server_call_done")
    /\ consecutiveErrors' = 0
    /\ LET r == AppendToolResult(stored) IN
       Block({r}, CompleteStep(r, "completed"),
             Event("step.completed", "completed"), "step_next")
    /\ UNCHANGED <<schemaAttempts, Outside>>

(* Defect: gives up one failure late. *)
FeedErrorBack_OffByOne ==
    /\ ResumesAt("tool_error")
    /\ consecutiveErrors' = consecutiveErrors + 1
    /\ LET r == AppendToolError(stored) IN
       IF consecutiveErrors' > MaxConsecutiveErrors
       THEN FailResponse(r)
       ELSE Block({r}, CompleteStep(r, "tool_error_retry"),
                  Event("step.completed", "tool_error_retry"), "step_next")
    /\ UNCHANGED <<schemaAttempts, Outside>>

FeedErrorBack ==
    /\ ResumesAt("tool_error")
    /\ consecutiveErrors' = consecutiveErrors + 1
    /\ LET r == AppendToolError(stored) IN
       \/ /\ consecutiveErrors' >= MaxConsecutiveErrors
          /\ FailResponse(r)
       \/ /\ consecutiveErrors' < MaxConsecutiveErrors
          /\ Block({r}, CompleteStep(r, "tool_error_retry"),
                   Event("step.completed", "tool_error_retry"), "step_next")
    /\ UNCHANGED <<schemaAttempts, Outside>>

-----------------------------------------------------------------------------
(* Client tools: the step ends, and the session waits for the client. *)

CallClientTool ==
    /\ ResumesAt("call_created")
    /\ CurrentMode = "client"
    /\ Block({}, CompleteStep(stored, "waiting_tool"),
             Event("step.completed", "waiting_tool"), "client_step")
    /\ UNCHANGED <<Locals, Outside>>

SayWaiting ==
    /\ ResumesAt("client_step")
    /\ Say(Event("tool_result.waiting", "client"), "client_waiting")
    /\ UNCHANGED <<Locals, Outside>>

(* _wait_for_tool_result() registers a new future. *)
WaitForResult ==
    /\ ResumesAt("client_waiting")
    /\ pc' = "waiting"
    /\ future' = "pending"
    /\ UNCHANGED <<stored, events, storeFailed, Locals, sock, cancelEvent, accepted>>

(* The wait is over, however it ended: the future is forgotten. *)
EndWait == ResumesAt("waiting") /\ future' = "none"

ResultArrives ==
    /\ EndWait
    /\ future = "result"
    /\ LET r == AddToolResult(stored) IN
       Block({r}, CompleteToolCall(r, "completed"),
             Event("tool_result.received", "client"), "client_received")
    /\ UNCHANGED <<Locals, sock, cancelEvent, accepted>>

(* Defect: the wait has no timer. *)
NoResultArrives_NoTimer ==
    /\ EndWait
    /\ future = "cancelled"
    /\ FinalizeCancelled(stored)
    /\ UNCHANGED <<Locals, sock, cancelEvent, accepted>>

(* wait_for() ends without a result: the future was cancelled, or the timer *)
(* fired.  A timer that fires in the loop iteration in which a submit is    *)
(* accepted may win (Python 3.12) or lose (3.11).                           *)
NoResultArrives ==
    /\ EndWait
    /\ \/ cancelEvent /\ FinalizeCancelled(stored)
       \/ ~cancelEvent /\ FailResponse(CompleteToolCall(stored, "failed"))
    /\ UNCHANGED <<Locals, sock, cancelEvent, accepted>>

SayClientCallCompleted ==
    /\ ResumesAt("client_received")
    /\ Say(Event("tool_call.completed", "client"), "client_call_done")
    /\ UNCHANGED <<Locals, Outside>>

EndClientCall ==
    /\ ResumesAt("client_call_done")
    /\ LoopHead(AppendToolResult(stored))
    /\ UNCHANGED <<Locals, Outside>>

-----------------------------------------------------------------------------
(* The end of the task. *)

(* After the error of _fail_response(), or of the last resort: the terminal *)
(* event.                                                                   *)
SayFailed ==
    /\ \/ ResumesAt("fail_error")
          /\ Say(Event("completed", "failed"), "terminal")
       \/ ResumesAt("abort_error")
          /\ Say(Event("completed", "failed"), "abort_terminal")
    /\ UNCHANGED <<Locals, Outside>>

Return ==
    /\ ResumesAt("terminal") \/ ResumesAt("abort_terminal")
    /\ pc' = "done"
    /\ UNCHANGED <<stored, events, storeFailed, Locals, Outside>>

Unsuspended == {"start", "streaming", "executing", "waiting", "done"}
Aborting == {"abort_error", "abort_terminal"}

(* The emit the task is suspended in raises: the socket is closed. *)
SendFails ==
    /\ pc \notin Unsuspended \cup Aborting
    /\ sock # "open"
    /\ ~taskCancelled
    /\ pc' = "done"
    /\ UNCHANGED <<stored, events, storeFailed, taskCancelled, Locals, Outside>>

(* CancelledError is thrown where the task is suspended.  Before the first  *)
(* block nothing of run() executes; in the last resort nothing catches it;  *)
(* everywhere else some handler runs _finalize_cancelled(), whose emit      *)
(* raises because the socket is closed.                                     *)
DeliverCancel ==
    /\ taskCancelled
    /\ taskCancelled' = FALSE
    /\ pc' = "done"
    /\ future' = "none"
    /\ \/ /\ pc \in {"start"} \cup Aborting
          /\ UNCHANGED <<stored, storeFailed>>
       \/ /\ pc \notin {"start"} \cup Aborting
          /\ \/ /\ stored' = SetStatus(stored, "cancelled")
                /\ UNCHANGED storeFailed
             \/ /\ stored' \in {stored, SetStatus(stored, "cancelled")}
                /\ storeFailed' = TRUE
    /\ UNCHANGED <<events, Locals, sock, cancelEvent, accepted>>

-----------------------------------------------------------------------------
(* The connection and the peer. *)

CancelPending == IF future = "pending" THEN "cancelled" ELSE future

(* response.cancel: cancel() sets the event and cancels a pending future. *)
CancelRequest ==
    /\ pc # "done"
    /\ cancelEvent' = TRUE
    /\ future' = CancelPending
    /\ UNCHANGED <<pc, stored, events, sock, taskCancelled, accepted, Locals, storeFailed>>

(* Defect: a second submit is accepted before the session resumes. *)
SubmitResult_Twice(k) ==
    /\ k = Len(stored.calls)
    /\ future \in {"pending", "result"}
    /\ future' = "result"
    /\ accepted' = Append(accepted, k)
    /\ Len(accepted) < 2 * MaxToolCalls
    /\ UNCHANGED <<pc, stored, events, sock, cancelEvent, taskCancelled, Locals, storeFailed>>

(* tool_result.submit for call k; any other submit is refused and changes   *)
(* nothing here.                                                            *)
SubmitResult(k) ==
    /\ k = Len(stored.calls)
    /\ future = "pending"
    /\ future' = "result"
    /\ accepted' = Append(accepted, k)
    /\ UNCHANGED <<pc, stored, events, sock, cancelEvent, taskCancelled, Locals, storeFailed>>

(* The transport is closed; sends raise from now on. *)
SocketCloses ==
    /\ pc # "done"
    /\ sock = "open"
    /\ sock' = "closed"
    /\ UNCHANGED <<pc, stored, events, cancelEvent, taskCancelled, future, accepted,
                   Locals, storeFailed>>

(* The receive loop's WebSocketDisconnect handler. *)
Disconnect ==
    /\ pc # "done"
    /\ sock # "gone"
    /\ sock' = "gone"
    /\ cancelEvent' = TRUE
    /\ future' = CancelPending
    /\ taskCancelled' = TRUE
    /\ UNCHANGED <<pc, stored, events, accepted, Locals, storeFailed>>

-----------------------------------------------------------------------------
TaskStep ==
    \/ Start \/ SayInProgress \/ NextStep \/ BeginStream
    \/ StreamCancelled \/ StreamFails
    \/ \E mode \in Modes : OutputIsToolCall(mode)
    \/ OutputIsAnswer \/ OutputIsInvalid \/ OutputRaises \/ AnswerCompletes
    \/ CallServerTool \/ BeginServerTool \/ ServerToolSucceeds \/ ServerToolRaises
    \/ ServerToolTimesOut \/ SayServerCallCompleted \/ EndServerCall \/ FeedErrorBack
    \/ CallClientTool \/ SayWaiting \/ WaitForResult \/ ResultArrives
    \/ NoResultArrives \/ SayClientCallCompleted \/ EndClientCall
    \/ SayFailed \/ Return \/ SendFails \/ DeliverCancel

Environment ==
    \/ Fragment
    \/ CancelRequest
    \/ \E k \in 1..Len(stored.calls) : SubmitResult(k)
    \/ SocketCloses
    \/ Disconnect

(* The session object outlives its task. *)
Finished == pc = "done" /\ UNCHANGED vars

Next == TaskStep \/ Environment \/ Finished

Spec == Init /\ [][Next]_vars

(* The task is in an emit to a client that is connected: send_json() has no *)
(* timeout, and returns when the client has read enough.  While the stream  *)
(* is read that is the emit of a delta.                                     *)
HeldByClient ==
    /\ sock = "open"
    /\ \/ pc \notin Unsuspended
       \/ pc = "streaming" /\ LastType = "delta"

(* The event loop runs a task that is ready, a stream of the backend ends   *)
(* and a timer fires.  A client need not read, answer or close.             *)
FairSpec == Spec /\ WF_vars(TaskStep /\ ~HeldByClient)

-----------------------------------------------------------------------------
(* Properties. *)

(* Types; and the positions Len(stored.steps) and Len(stored.calls), which  *)
(* stand for step_id and tool_call_id, exist wherever the code uses them.   *)
StepOpen == {"step_created", "streaming", "step_final"}
CallOpen == {"call_created", "server_waiting", "executing", "server_received",
             "server_call_done", "tool_error", "client_step", "client_waiting",
             "waiting", "client_received", "client_call_done"}
Between == {"start", "created", "in_progress", "step_next", "fail_error",
            "terminal", "abort_error", "abort_terminal", "done"}

TypeOK ==
    /\ pc \in StepOpen \cup CallOpen \cup Between
    /\ stored \in Records
    /\ events \in Seq(Events)
    /\ sock \in {"open", "closed", "gone"}
    /\ cancelEvent \in BOOLEAN
    /\ taskCancelled \in BOOLEAN
    /\ future \in {"none", "pending", "result", "cancelled"}
    /\ accepted \in Seq(Nat)
    /\ schemaAttempts \in Nat
    /\ consecutiveErrors \in Nat
    /\ storeFailed \in BOOLEAN
    /\ pc \in StepOpen \cup CallOpen => stored.steps # <<>>
    /\ pc \in CallOpen => stored.calls # <<>>

(* The status the client is told in response.completed is the one the store *)
(* keeps, as long as the client is there and the store works.  Only the     *)
(* last resort of run() tells "failed" of a response that stays in progress *)
(* (after it pc is not at the await behind the other final events), and     *)
(* never of one that has another end.                                       *)
ToldIsStored ==
    sock = "open" /\ ~storeFailed /\ LastType = "completed" =>
        \/ stored.status = events[Len(events)].info
        \/ /\ events[Len(events)].info = "failed"
           /\ stored.status = "in_progress"
           /\ pc # "terminal"

(* A response that is completed or failed leaves no step and no tool call   *)
(* in progress behind, whichever of the early returns of _run_inner() ended *)
(* it.                                                                      *)
StepsClosed(r) == \A n \in 1..Len(r.steps) : r.steps[n] # "in_progress"
CallsClosed(r) == \A k \in 1..Len(r.calls) : r.calls[k].status # "in_progress"

RowsClosed ==
    stored.status \in {"completed", "failed"} /\ ~storeFailed =>
        StepsClosed(stored) /\ CallsClosed(stored)

(* Why RowsClosed is kept by every step: while the session works, only the  *)
(* row of the current step and the row of the current call may be open, and *)
(* each is closed before the task gets to the awaits listed.                *)
EarlierStepsClosed(r) ==
    \A n \in 1..Len(r.steps) : n # Len(r.steps) => r.steps[n] # "in_progress"
EarlierCallsClosed(r) ==
    \A k \in 1..Len(r.calls) : k # Len(r.calls) => r.calls[k].status # "in_progress"

Ending == {"fail_error", "terminal", "abort_error", "abort_terminal", "done"}
StepOpenAt == {"step_created", "streaming", "call_created", "server_waiting", "executing",
               "server_received", "server_call_done", "tool_error"}
CallOpenAt == {"call_created", "server_waiting", "executing", "client_step",
               "client_waiting", "waiting"}

RowsAt(r, at) ==
    /\ at \notin Ending => /\ r.status \notin {"completed", "failed"}
                          /\ EarlierStepsClosed(r)
                          /\ EarlierCallsClosed(r)
    /\ at \notin Ending \cup StepOpenAt => StepsClosed(r)
    /\ at \notin Ending \cup CallOpenAt => CallsClosed(r)
    /\ r.status \in {"completed", "failed"} => StepsClosed(r) /\ CallsClosed(r)

RowsInv == ~storeFailed => RowsAt(stored, pc)

(* The backend is never sent two messages of one role in a row by a         *)
(* response: its messages alternate from the user's input on, and it is     *)
(* completed only by an answer of the model.                                *)
RolesAlternate ==
    /\ \A i \in 1..Len(stored.messages) :
         (stored.messages[i] \in {"assistant", "tool_call"}) <=> (i % 2 = 0)
    /\ stored.status = "completed" =>
         stored.messages[Len(stored.messages)] = "assistant"

(* A tool result row of a client call comes from a submit the receive loop  *)
(* accepted for that very call, and no call has two.                        *)
ResultsAreSubmitted ==
    /\ \A i, j \in 1..Len(accepted) : i # j => accepted[i] # accepted[j]
    /\ \A k \in 1..Len(stored.calls) :
         stored.calls[k].mode = "client" /\ stored.calls[k].result =>
            \E i \in 1..Len(accepted) : accepted[i] = k

(* Three server tool calls that failed one after the other are not followed *)
(* by another step, whatever client calls and repairs lie between them.     *)
ServerCalls(r, i, n) == {k \in i..n : r.calls[k].mode = "server"}
AllFailed(r, i, n) == \A k \in ServerCalls(r, i, n) : r.calls[k].status = "failed"

FailedThrice ==
    LET n == Len(stored.calls) IN
    \E i \in 1..n : /\ AllFailed(stored, i, n)
                    /\ Cardinality(ServerCalls(stored, i, n)) >= MaxConsecutiveErrors

GivesUp == FailedThrice => pc # "step_created"

(* Once cancel_event is set no further step begins: the model is not called *)
(* again for a cancelled response.                                          *)
NoStepAfterCancel ==
    [][cancelEvent => Len(stored'.steps) = Len(stored.steps)]_vars

(* Every session ends, whatever the tools and the store do and whether the  *)
(* client answers or not: only a client that stays connected and stops      *)
(* reading for ever keeps one.                                              *)
Terminates == <>(pc = "done") \/ <>[]HeldByClient

(* A client that stays connected and reads is told the end of its response, *)
(* also when the store or another call of run() raises ("avoid hanging      *)
(* clients", _emit_terminal_failure_no_store()).                            *)
ClientIsAnswered ==
    [](sock = "open") => <>(LastType = "completed") \/ <>[]HeldByClient

-----------------------------------------------------------------------------
(* Statements the code does not keep. *)

(* README.md: "response.completed | Response finished (status: completed,   *)
(* cancelled, or failed)".  A finished response stays as it finished.       *)
FinishedStaysFinished ==
    [][stored.status \in {"completed", "failed"} => stored'.status = stored.status]_vars

(* README.md: "response.cancel | Cancel the active response".  A response   *)
(* that was cancelled does not wait for a tool result.                      *)
CancelledDoesNotWait == ~(cancelEvent /\ future = "pending")
=============================================================================
