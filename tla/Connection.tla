------------------------------ MODULE Connection ------------------------------
(***************************************************************************)
(* One WebSocket connection: responses_socket() of main.py.                *)
(*                                                                         *)
(* The receive loop handles one message at a time.  Between two awaits it  *)
(* runs without interruption; it is suspended in receive_text(), in the    *)
(* send of an error, or, after a disconnect, in `await active_task`.  The  *)
(* sessions it starts are tasks of their own (module AgentLoop); here one  *)
(* is only running or done.  A task is done() as soon as its coroutine has *)
(* returned, but its done-callback, which clears active_session and        *)
(* active_task, runs in a later iteration of the event loop.               *)
(***************************************************************************)
EXTENDS Naturals, FiniteSets

CONSTANT MaxSessions    \* a bound on the response.create messages of a run

ASSUME SessionsAssumption == MaxSessions \in Nat

Sessions == 1..MaxSessions

VARIABLES
    loop,       \* where the receive loop is suspended, or how it ended
    active,     \* active_session and active_task, always set together; 0 is None
    awaited,    \* the task the disconnect handler awaits
    task,       \* the task of each session
    cancelled,  \* the sessions whose cancel() was called
    killed,     \* the sessions whose task.cancel() was called
    raced       \* a create was handled between the end of the active task and
                \* its done-callback

vars == <<loop, active, awaited, task, cancelled, killed, raced>>

Running == {i \in Sessions : task[i] = "running"}
Done(i) == task[i] \in {"finished", "over"}

Init ==
    /\ loop = "accepting"
    /\ active = 0
    /\ awaited = 0
    /\ task = [i \in Sessions |-> "none"]
    /\ cancelled = {}
    /\ killed = {}
    /\ raced = FALSE

-----------------------------------------------------------------------------
(* The receive loop. *)

(* _authorized() and accept(). *)
Accept ==
    /\ loop = "accepting"
    /\ loop' = "receiving"
    /\ UNCHANGED <<active, awaited, task, cancelled, killed, raced>>

RejectUnauthorized ==
    /\ loop = "accepting"
    /\ loop' = "closed"
    /\ UNCHANGED <<active, awaited, task, cancelled, killed, raced>>

(* send_error(), which may suspend. *)
Reply ==
    /\ loop' = "replying"
    /\ UNCHANGED <<active, awaited, task, cancelled, killed, raced>>

(* The rate limit, invalid JSON, an unknown type, a field that is refused.  *)
Refuse == loop = "receiving" /\ Reply

Busy == active # 0 /\ ~Done(active)

(* Defect: the busy check looks for a session that was cancelled only. *)
Create_NotBusy(i) ==
    /\ loop = "receiving"
    /\ Busy => active \in cancelled
    /\ task[i] = "none"
    /\ \A j \in Sessions : j < i => task[j] # "none"
    /\ task' = [task EXCEPT ![i] = "running"]
    /\ active' = i
    /\ raced' = (raced \/ (active # 0 /\ ~Busy))
    /\ UNCHANGED <<loop, awaited, cancelled, killed>>

(* response.create: a session is started unless one is active.              *)
CreateRefused == loop = "receiving" /\ Busy /\ Reply

Create(i) ==
    /\ loop = "receiving"
    /\ ~Busy
    /\ task[i] = "none"
    /\ \A j \in Sessions : j < i => task[j] # "none"
    /\ task' = [task EXCEPT ![i] = "running"]
    /\ active' = i
    /\ raced' = (raced \/ active # 0)
    /\ UNCHANGED <<loop, awaited, cancelled, killed>>

(* response.cancel for the response target, or for any when it names none.  *)
CancelRefused(target) ==
    /\ loop = "receiving"
    /\ active = 0 \/ target \notin {0, active}
    /\ Reply

Cancel(target) ==
    /\ loop = "receiving"
    /\ active # 0
    /\ target \in {0, active}
    /\ cancelled' = cancelled \cup {active}
    /\ UNCHANGED <<loop, active, awaited, task, killed, raced>>

(* tool_result.submit with no session, with a field that is refused, or for *)
(* another call than the session waits for.  One that is taken changes the  *)
(* session only (SubmitResult of AgentLoop).                                *)
SubmitRefused == loop = "receiving" /\ Reply

(* The error is sent. *)
ReplySent ==
    /\ loop = "replying"
    /\ loop' = "receiving"
    /\ UNCHANGED <<active, awaited, task, cancelled, killed, raced>>

(* A payload the loop does not expect (JSON that is not an object), or a    *)
(* send after a session's send has found the socket closed, raises past the *)
(* handler of WebSocketDisconnect: the loop ends, the session is left.      *)
LoopBreaks ==
    /\ loop \in {"receiving", "replying"}
    /\ loop' = "broken"
    /\ UNCHANGED <<active, awaited, task, cancelled, killed, raced>>

(* Defect: the handler cancels the session, not its task. *)
Disconnect_KeepsTask ==
    /\ loop \in {"receiving", "replying"}
    /\ cancelled' = IF active = 0 THEN cancelled ELSE cancelled \cup {active}
    /\ loop' = IF Busy THEN "closing" ELSE "closed"
    /\ awaited' = IF Busy THEN active ELSE 0
    /\ UNCHANGED <<active, task, killed, raced>>

(* WebSocketDisconnect is raised by receive_text() or by the send.          *)
Disconnect ==
    /\ loop \in {"receiving", "replying"}
    /\ cancelled' = IF active = 0 THEN cancelled ELSE cancelled \cup {active}
    /\ killed' = IF Busy THEN killed \cup {active} ELSE killed
    /\ loop' = IF Busy THEN "closing" ELSE "closed"
    /\ awaited' = IF Busy THEN active ELSE 0
    /\ UNCHANGED <<active, task, raced>>

(* Defect: the handler does not wait for the task it cancelled. *)
HandlerReturns_AtOnce ==
    /\ loop = "closing"
    /\ loop' = "closed"
    /\ UNCHANGED <<active, awaited, task, cancelled, killed, raced>>

HandlerReturns ==
    /\ loop = "closing"
    /\ Done(awaited)
    /\ loop' = "closed"
    /\ UNCHANGED <<active, awaited, task, cancelled, killed, raced>>

-----------------------------------------------------------------------------
(* The tasks. *)

(* run() returns or raises. *)
SessionEnds(i) ==
    /\ task[i] = "running"
    /\ task' = [task EXCEPT ![i] = "finished"]
    /\ UNCHANGED <<loop, active, awaited, cancelled, killed, raced>>

(* Defect: the session that has ended stays active. *)
TaskDone_KeepsActive(i) ==
    /\ task[i] = "finished"
    /\ task' = [task EXCEPT ![i] = "over"]
    /\ UNCHANGED <<loop, active, awaited, cancelled, killed, raced>>

(* on_task_done(): clears whatever session is active. *)
TaskDone(i) ==
    /\ task[i] = "finished"
    /\ task' = [task EXCEPT ![i] = "over"]
    /\ active' = 0
    /\ UNCHANGED <<loop, awaited, cancelled, killed, raced>>

LoopStep ==
    \/ Accept \/ RejectUnauthorized \/ Refuse \/ CreateRefused \/ SubmitRefused
    \/ \E i \in Sessions : Create(i)
    \/ \E target \in Sessions \cup {0} : CancelRefused(target) \/ Cancel(target)
    \/ ReplySent \/ LoopBreaks \/ Disconnect \/ HandlerReturns

TaskStep == \E i \in Sessions : SessionEnds(i) \/ TaskDone(i)

(* The connection is closed and its sessions are over. *)
Finished ==
    /\ loop \in {"closed", "broken"}
    /\ \A i \in Sessions : task[i] \in {"none", "over"}
    /\ UNCHANGED vars

Next == LoopStep \/ TaskStep \/ Finished

Spec == Init /\ [][Next]_vars

(* A task whose task.cancel() was called ends: AgentLoop's DeliverCancel is *)
(* its next step.  Callbacks run, and the handler resumes.  A session that  *)
(* is not cancelled may run for as long as it likes.                        *)
Fairness ==
    /\ WF_vars(HandlerReturns)
    /\ \A i \in Sessions : /\ WF_vars(i \in killed /\ SessionEnds(i))
                           /\ WF_vars(TaskDone(i))

FairSpec == Spec /\ Fairness

-----------------------------------------------------------------------------
(* Types.  A session that is active was started.                            *)
TypeOK ==
    /\ loop \in {"accepting", "receiving", "replying", "closing", "closed", "broken"}
    /\ active \in Sessions \cup {0}
    /\ awaited \in Sessions \cup {0}
    /\ task \in [Sessions -> {"none", "running", "finished", "over"}]
    /\ cancelled \in SUBSET Sessions
    /\ killed \in SUBSET Sessions
    /\ raced \in BOOLEAN
    /\ loop = "closing" => awaited # 0
    /\ active # 0 => task[active] \in {"running", "finished"}

(* A session that runs, or whose callback is still to run, is the active    *)
(* one, so that cancel, submit and the disconnect handler reach it, unless  *)
(* a create was handled before the done-callback of the session before.     *)
RunningIsActive ==
    ~raced => \A i \in Sessions : task[i] \in {"running", "finished"} => i = active

(* When the disconnect handler has returned no session of the connection    *)
(* runs on; while it waits only the session it waits for does.              *)
RunsWhenClosing == loop = "closing" /\ ~raced => Running \subseteq {awaited}

NothingRunsAfterClose == loop = "closed" /\ ~raced => Running = {}

(* The disconnect handler does not hang in `await active_task`.             *)
CloseReturns == loop = "closing" ~> loop = "closed"

(* main.py: "A response is already in progress on this connection".  There  *)
(* is never a second one.                                                   *)
OneResponseInProgress == \A i, j \in Running : i = j
=============================================================================
