------------------------------ MODULE EventLoop ------------------------------
(***************************************************************************)
(* Tool calls of several responses and commands of the UI's terminal on    *)
(* the one event loop of the gateway, and the time they take.              *)
(*                                                                         *)
(* The handler of a server tool is a plain function, and terminal_exec()   *)
(* runs its command with subprocess.run(): from the call to the return     *)
(* nothing else runs on the loop, no timer fires and no message is read.   *)
(* A client tool call waits in asyncio.wait_for() for a tool_result.submit,*)
(* which the loop first reads from the socket and, an iteration later, the *)
(* receive loop handles.  A timer that has expired fires in the iteration  *)
(* in which the message is read.                                           *)
(* What else is done on the loop (a write to the database, the listing of  *)
(* a directory) is taken to need no time.                                  *)
(***************************************************************************)
EXTENDS Naturals, FiniteSets

CONSTANTS
    Calls,          \* tool calls, each of a response of its own, and commands
    Timeouts,       \* the timeout_seconds a call may have
    Durations,      \* how long a server tool or a command may take
    HandlerLimit,   \* the limit of shell_exec's own and of a command, 30 s
    MaxTime         \* a bound on the clock

ASSUME TimeAssumption ==
    /\ IsFiniteSet(Calls)
    /\ Timeouts \subseteq Nat \ {0} /\ Durations \subseteq Nat
    /\ HandlerLimit \in Nat /\ MaxTime \in Nat

VARIABLES
    now,
    kind,       \* of a tool: "client", or run here, "bounded" in time (shell_exec)
                \* or "unbounded"; or a "terminal" command
    timeout,    \* timeout_seconds
    state,      \* how far the call is, or how it ended
    began,      \* when the wait, or the handler, began
    timer,      \* when the timer of wait_for() fires
    returns,    \* when the handler returns
    answer,     \* the tool_result.submit of the client
    arrived     \* when it reached the gateway's socket

vars == <<now, kind, timeout, state, began, timer, returns, answer, arrived>>
fixed == <<kind, timeout>>

Kinds == {"client", "bounded", "unbounded", "terminal"}

(* The handler or the command that has the loop, if any. *)
Running == {c \in Calls : state[c] = "running"}
LoopIsFree == Running = {}

Init ==
    /\ now = 0
    /\ kind \in [Calls -> Kinds]
    /\ timeout \in [Calls -> Timeouts]
    /\ state = [c \in Calls |-> "ready"]
    /\ began = [c \in Calls |-> 0]
    /\ timer = [c \in Calls |-> 0]
    /\ returns = [c \in Calls |-> 0]
    /\ answer = [c \in Calls |-> "none"]
    /\ arrived = [c \in Calls |-> 0]

-----------------------------------------------------------------------------
(* Defect: a call begins while the handler of another runs. *)
Begin_Anytime(c, to) ==
    /\ state[c] = "ready"
    /\ state' = [state EXCEPT ![c] = to]
    /\ began' = [began EXCEPT ![c] = now]

(* The session's task runs up to the wait, or into the handler. *)
Begin(c, to) ==
    /\ LoopIsFree
    /\ state[c] = "ready"
    /\ state' = [state EXCEPT ![c] = to]
    /\ began' = [began EXCEPT ![c] = now]

(* Defect: the time of the wait is counted from the start of the program. *)
WaitForClient_Absolute(c) ==
    /\ kind[c] = "client"
    /\ Begin(c, "waiting")
    /\ timer' = [timer EXCEPT ![c] = timeout[c]]
    /\ UNCHANGED <<now, fixed, returns, answer, arrived>>

(* _wait_for_tool_result() registers the future and begins to wait. *)
WaitForClient(c) ==
    /\ kind[c] = "client"
    /\ Begin(c, "waiting")
    /\ timer' = [timer EXCEPT ![c] = now + timeout[c]]
    /\ UNCHANGED <<now, fixed, returns, answer, arrived>>

(* Defect: a tool has no limit of its own. *)
RunHandler_NoLimit(c, d) ==
    /\ kind[c] \in {"bounded", "unbounded"}
    /\ Begin(c, "running")
    /\ timer' = [timer EXCEPT ![c] = now + timeout[c]]
    /\ returns' = [returns EXCEPT ![c] = now + d]
    /\ UNCHANGED <<now, fixed, answer, arrived>>

TimeTaken(c, d) ==
    IF kind[c] \in {"bounded", "terminal"} /\ d > HandlerLimit THEN HandlerLimit ELSE d

(* execute_server_tool() calls the handler: shell_exec ends at its own      *)
(* limit, the others when they are done (the 15 s of http_get bound each    *)
(* wait for data, not their sum).                                           *)
RunHandler(c, d) ==
    /\ kind[c] \in {"bounded", "unbounded"}
    /\ Begin(c, "running")
    /\ timer' = [timer EXCEPT ![c] = now + timeout[c]]
    /\ returns' = [returns EXCEPT ![c] = now + TimeTaken(c, d)]
    /\ UNCHANGED <<now, fixed, answer, arrived>>

(* terminal_exec(): a command that takes too long is killed. *)
RunCommand(c, d) ==
    /\ kind[c] = "terminal"
    /\ Begin(c, "running")
    /\ returns' = [returns EXCEPT ![c] = now + TimeTaken(c, d)]
    /\ UNCHANGED <<now, fixed, timer, answer, arrived>>

(* A tool that is no server tool, has no handler, is not on the allowlist   *)
(* or is disabled; a request of the terminal without a command.             *)
RefuseTool(c) ==
    /\ kind[c] # "client"
    /\ Begin(c, "failed")
    /\ UNCHANGED <<now, fixed, timer, returns, answer, arrived>>

(* The handler has its result, or its limit has passed.  The coroutine ends *)
(* in the step of the loop in which it began, so that wait_for() returns    *)
(* its result whatever the timer.                                           *)
HandlerReturns(c) ==
    /\ state[c] = "running" /\ now = returns[c]
    /\ \E end \in {"succeeded", "failed"} : state' = [state EXCEPT ![c] = end]
    /\ UNCHANGED <<now, fixed, began, timer, returns, answer, arrived>>

(* The client answers a call that waits, or has waited. *)
Answer(c) ==
    /\ kind[c] = "client" /\ state[c] # "ready" /\ answer[c] = "none"
    /\ answer' = [answer EXCEPT ![c] = "arrived"]
    /\ arrived' = [arrived EXCEPT ![c] = now]
    /\ UNCHANGED <<now, fixed, state, began, timer, returns>>

Arrived == {c \in Calls : answer[c] = "arrived"}
Expired == {c \in Calls : state[c] = "waiting" /\ timer[c] <= now}

(* One iteration of the loop: what has arrived is read, expired timers fire *)
(* and the calls fail with "Timed out waiting for tool result".             *)
Iterate ==
    /\ LoopIsFree
    /\ Arrived \cup Expired # {}
    /\ answer' = [c \in Calls |-> IF c \in Arrived THEN "read" ELSE answer[c]]
    /\ state' = [c \in Calls |-> IF c \in Expired THEN "timed_out" ELSE state[c]]
    /\ UNCHANGED <<now, fixed, began, timer, returns, arrived>>

(* The receive loop handles what was read: submit_tool_result().            *)
Submit(c) ==
    /\ LoopIsFree
    /\ answer[c] = "read"
    /\ answer' = [answer EXCEPT ![c] = "handled"]
    /\ state' = IF state[c] = "waiting" THEN [state EXCEPT ![c] = "succeeded"] ELSE state
    /\ UNCHANGED <<now, fixed, began, timer, returns, arrived>>

(* A free loop does at once what there is to do. *)
NothingToDo == Arrived \cup Expired = {} /\ \A c \in Calls : answer[c] # "read"

Tick ==
    /\ now < MaxTime
    /\ IF LoopIsFree THEN NothingToDo ELSE \A c \in Running : now < returns[c]
    /\ now' = now + 1
    /\ UNCHANGED <<fixed, state, began, timer, returns, answer, arrived>>

CallStep ==
    \E c \in Calls :
        \/ WaitForClient(c) \/ RefuseTool(c)
        \/ \E d \in Durations : RunHandler(c, d) \/ RunCommand(c, d)
        \/ HandlerReturns(c) \/ Answer(c) \/ Submit(c)

Rest == now = MaxTime /\ UNCHANGED vars

Next == CallStep \/ Iterate \/ Tick \/ Rest

Spec == Init /\ [][Next]_vars

-----------------------------------------------------------------------------
(* What runs on the loop: server tools and commands of the terminal.        *)
ServerCalls == {c \in Calls : kind[c] # "client"}
Deadline(c) == began[c] + timeout[c]

(* A handler or a command had the loop from time t to the next tick. *)
HeldAt(t) == \E c \in ServerCalls : began[c] <= t /\ t < returns[c]

(* Types.  One handler or command at most has the loop; none outlives its   *)
(* return.                                                                  *)
TypeOK ==
    /\ now \in 0..MaxTime
    /\ kind \in [Calls -> Kinds]
    /\ timeout \in [Calls -> Timeouts]
    /\ state \in [Calls -> {"ready", "running", "waiting", "succeeded", "failed", "timed_out"}]
    /\ began \in [Calls -> 0..now] /\ arrived \in [Calls -> 0..now]
    /\ timer \in [Calls -> Nat] /\ returns \in [Calls -> Nat]
    /\ answer \in [Calls -> {"none", "arrived", "read", "handled"}]
    /\ \A c \in Running : now <= returns[c] /\ c \in ServerCalls
    /\ \A c, d \in Running : c = d

(* What LostOnlyToHandlers rests on.  While an answer lies in the socket of *)
(* a call that waits, handlers or commands have the loop.                   *)
AnswersInv ==
    \A c \in Calls :
        /\ state[c] = "ready" => answer[c] = "none" /\ returns[c] = 0
        /\ state[c] = "waiting" => /\ answer[c] # "handled"
                                   /\ timer[c] = Deadline(c)
        /\ state[c] = "waiting" /\ answer[c] # "none" =>
              \A t \in arrived[c]..(now - 1) : HeldAt(t)
        /\ state[c] = "timed_out" => Deadline(c) <= now

(* A call whose answer arrived in time and that timed out all the same did  *)
(* so because handlers of other calls, or commands of the terminal, had the *)
(* loop without a break from the arrival to the deadline.                   *)
LostOnlyToHandlers ==
    \A c \in Calls :
        state[c] = "timed_out" /\ answer[c] # "none" =>
            \A t \in arrived[c]..(Deadline(c) - 1) : HeldAt(t)

(* However the tools of other responses and the terminal hold the loop, a   *)
(* call waits no longer past its timeout than their limits add up to, when  *)
(* each has one.                                                            *)
LatenessIsBounded ==
    \A c \in Calls :
        state[c] = "waiting" /\ (\A s \in Calls : kind[s] # "unbounded") =>
            now <= Deadline(c) + HandlerLimit * Cardinality(ServerCalls)
===============================================================================
