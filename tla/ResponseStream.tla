---------------------------- MODULE ResponseStream ----------------------------
(***************************************************************************)
(* What one response promises its client: the order of the events on the   *)
(* WebSocket.  This is the contract of the event table of README.md and of *)
(* the clients in ui/index.html and scripts/test_ws_client.py, stated      *)
(* without any state of the session behind it: the next event is one the   *)
(* events already sent allow.                                              *)
(***************************************************************************)
EXTENDS Naturals, Sequences, FiniteSets

CONSTANTS MaxSteps, MaxToolCalls

VARIABLE wire   \* the events sent for the response, in order

Event(type, info) == [type |-> type, info |-> info]

Count(type) == Cardinality({i \in 1..Len(wire) : wire[i].type = type})

(* The event n places before the end, or one of type "none". *)
Recent(n) ==
    IF n < Len(wire) THEN wire[Len(wire) - n] ELSE Event("none", "none")

Cancelled == Event("completed", "cancelled")
Error == Event("error", "fatal")

(* A new step, or the end instead of one. *)
StepOrEnd == {Event("step.created", "none"), Cancelled, Error}

(* What may follow the output of the model. *)
Outputs ==
    {Event("tool_call.created", "client"), Event("tool_call.created", "server"),
     Event("step.completed", "completed"), Event("step.completed", "schema_retry"),
     Cancelled, Error}

(* The two events of a tool call that is answered, and what each side adds. *)
AfterToolEvent(type, mode) ==
    CASE type = "tool_call.created" ->
           {IF mode = "client" THEN Event("step.completed", "waiting_tool")
                               ELSE Event("tool_result.waiting", mode), Error}
      [] type = "tool_result.waiting" ->
           {Event("tool_result.received", mode), Error,
            IF mode = "client" THEN Cancelled ELSE Event("error", "tool")}
      [] type = "tool_result.received" ->
           {Event("tool_call.completed", mode)}
      [] type = "tool_call.completed" ->
           IF mode = "client" THEN StepOrEnd
                              ELSE {Event("step.completed", "completed"), Error}

AfterStep(status) ==
    CASE status = "waiting_tool" -> {Event("tool_result.waiting", "client")}
      [] status \in {"schema_retry", "tool_error_retry"} -> StepOrEnd
      [] status = "completed" ->
           IF Recent(1).type = "tool_call.completed"
           THEN StepOrEnd
           ELSE {Event("completed", "completed"), Error}

AfterError(kind) ==
    IF kind = "tool" THEN {Event("step.completed", "tool_error_retry"), Error}
                     ELSE {Event("completed", "failed")}

Allowed ==
    LET last == Recent(0) IN
    CASE last.type = "none" -> {Event("created", "created"), Error}
      [] last.type = "created" -> {Event("in_progress", "in_progress")}
      [] last.type = "in_progress" -> StepOrEnd
      [] last.type = "step.created" -> Outputs \cup {Event("delta", "none")}
      [] last.type = "delta" -> Outputs
      [] last.type = "step.completed" -> AfterStep(last.info)
      [] last.type = "error" -> AfterError(last.info)
      [] last.type = "completed" -> {}
      [] OTHER -> AfterToolEvent(last.type, last.info)

(* max_steps and max_tool_calls bound what one response sends. *)
WithinLimits(e) ==
    /\ e.type = "step.created" => Count("step.created") < MaxSteps
    /\ e.type = "tool_call.created" => Count("tool_call.created") < MaxToolCalls

Init == wire = <<>>

Send(e) ==
    /\ e \in Allowed
    /\ WithinLimits(e)
    /\ wire' = Append(wire, e)

Next == \E e \in Allowed : Send(e)

Spec == Init /\ [][Next]_wire
===============================================================================
