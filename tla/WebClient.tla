------------------------------ MODULE WebClient ------------------------------
(***************************************************************************)
(* The web client of ui/index.html and the gateway it talks to, over one   *)
(* FIFO channel in each direction per WebSocket.                           *)
(*                                                                         *)
(* The client knows of the gateway what its events tell it, and events     *)
(* carry no request: the client takes the next response.completed for the  *)
(* end of the message it sent last.  A response is numbered like the       *)
(* message that asks for it.  Of the gateway the session's milestones are  *)
(* modelled; its inside is AgentLoop, the receive loop's races Connection. *)
(***************************************************************************)
EXTENDS Naturals, Sequences

CONSTANTS
    MaxMessages,    \* a bound on the messages the user sends
    MaxSockets,     \* a bound on the WebSockets opened
    MaxCancels      \* a bound on the clicks on the cancel button

ASSUME ClientAssumption ==
    MaxMessages \in Nat /\ MaxSockets \in Nat \ {0} /\ MaxCancels \in Nat

Messages == 1..MaxMessages
Sockets == 1..MaxSockets

VARIABLES
    socket,         \* ws, the last one opened
    ready,          \* the readyState of each socket, and "none"
    isStreaming,
    lastResponseId, \* 0 is null
    body,           \* the message whose answer currentMsgBody shows, or 0
    shown,          \* the responses whose text each answer shows
    log,            \* the messages sent: socket, thread, previous_response_id
    thread,         \* the messages sent before New Thread was clicked
    cancels,        \* how often cancel was clicked
    replaced,       \* a socket was replaced before it had closed
    up, down,       \* what each socket carries to and from the gateway
    session,        \* the response in progress on each connection, or 0
    phase,          \* how far it is
    started,        \* the responses that were started
    unannounced,    \* those of them that failed before response.created
    refused         \* the messages that were answered with an error

clientVars == <<socket, ready, isStreaming, lastResponseId, body, shown, log, thread, cancels,
                replaced>>
serverVars == <<session, phase, started, unannounced, refused>>
vars == <<clientVars, up, down, serverVars>>

Note(type, id) == [type |-> type, id |-> id]

(* A cancel; `at' is the answer that is streaming at the click.             *)
CancelNote(id) == [type |-> "cancel", id |-> id, at |-> body]

Init ==
    /\ socket = 1
    /\ ready = [c \in Sockets |-> IF c = 1 THEN "connecting" ELSE "none"]
    /\ isStreaming = FALSE
    /\ lastResponseId = 0
    /\ body = 0
    /\ shown = [r \in Messages |-> {}]
    /\ log = <<>>
    /\ thread = 0
    /\ cancels = 0
    /\ replaced = FALSE
    /\ up = [c \in Sockets |-> <<>>]
    /\ down = [c \in Sockets |-> <<>>]
    /\ session = [c \in Sockets |-> 0]
    /\ phase = [c \in Sockets |-> "none"]
    /\ started = {}
    /\ unannounced = {}
    /\ refused = {}

-----------------------------------------------------------------------------
(* The user. *)

(* sendMessage(), startStreaming(), addAssistantMessage().                  *)
Send(c) ==
    LET r == Len(log) + 1 IN
    /\ r \in Messages
    /\ log' = Append(log, [socket |-> c, thread |-> thread, previous |-> lastResponseId])
    /\ up' = [up EXCEPT ![c] = Append(@, Note("create", r))]
    /\ isStreaming' = TRUE
    /\ body' = r
    /\ UNCHANGED <<socket, ready, lastResponseId, shown, thread, cancels, replaced, down, serverVars>>

(* Defect: a message may be sent while an answer is streaming. *)
SendMessage_Always == ready[socket] = "open" /\ Send(socket)

SendMessage == ready[socket] = "open" /\ ~isStreaming /\ Send(socket)

(* cancelResponse(): the button is there while an answer is streaming.      *)
CancelResponse ==
    /\ isStreaming
    /\ ready[socket] = "open" /\ lastResponseId # 0
    /\ cancels < MaxCancels
    /\ cancels' = cancels + 1
    /\ up' = [up EXCEPT ![socket] = Append(@, CancelNote(lastResponseId))]
    /\ UNCHANGED <<socket, ready, isStreaming, lastResponseId, body, shown, log, thread,
                   replaced, down, serverVars>>

(* Defect: the next message still continues the old thread. *)
NewThread_KeepsResponse ==
    /\ thread = 0
    /\ thread' = Len(log)
    /\ UNCHANGED <<socket, ready, isStreaming, lastResponseId, body, shown, log, cancels,
                   replaced, up, down, serverVars>>

(* newThread(); it matters once in a run.  Nothing is cancelled.            *)
NewThread ==
    /\ thread = 0
    /\ lastResponseId' = 0
    /\ thread' = Len(log)
    /\ UNCHANGED <<socket, ready, isStreaming, body, shown, log, cancels, replaced,
                   up, down, serverVars>>

Opened(old) ==
    /\ socket < MaxSockets
    /\ socket' = socket + 1
    /\ ready' = [ready EXCEPT ![socket] = old, ![socket + 1] = "connecting"]
    /\ UNCHANGED <<isStreaming, lastResponseId, body, shown, log, thread, cancels,
                   up, down, serverVars>>

(* connect(): a socket that is open is closed first, one that is not keeps  *)
(* its handlers.                                                            *)
Replace ==
    /\ ready[socket] # "closed"
    /\ replaced' = TRUE
    /\ Opened(IF ready[socket] = "open" THEN "closing" ELSE ready[socket])

Reconnect == ready[socket] = "closed" /\ Opened("closed") /\ UNCHANGED replaced

-----------------------------------------------------------------------------
(* The sockets. *)

SocketOpens(c) ==
    /\ ready[c] = "connecting"
    /\ ready' = [ready EXCEPT ![c] = "open"]
    /\ UNCHANGED <<socket, isStreaming, lastResponseId, body, shown, log, thread, cancels,
                   replaced, up, down, serverVars>>

(* Defect: the answer that is streaming keeps its cursor. *)
EndStreaming_KeepsBody == isStreaming' = FALSE /\ UNCHANGED body

EndStreaming == isStreaming' = FALSE /\ body' = 0

(* Defect: onclose leaves the answer streaming. *)
SocketCloses_StaysStreaming(c) ==
    /\ ready[c] \in {"connecting", "open", "closing"}
    /\ ready' = [ready EXCEPT ![c] = "closed"]
    /\ down' = [down EXCEPT ![c] = <<>>]
    /\ UNCHANGED <<socket, isStreaming, lastResponseId, body, shown, log, thread, cancels,
                   replaced, up, serverVars>>

(* onclose, of any socket: the connection was closed, or was lost.          *)
SocketCloses(c) ==
    /\ ready[c] \in {"connecting", "open", "closing"}
    /\ ready' = [ready EXCEPT ![c] = "closed"]
    /\ IF isStreaming THEN EndStreaming ELSE UNCHANGED <<isStreaming, body>>
    /\ down' = [down EXCEPT ![c] = <<>>]
    /\ UNCHANGED <<socket, lastResponseId, shown, log, thread, cancels, replaced, up,
                   serverVars>>

(* A delta is added to the answer that is streaming, if any.                *)
Display(r) ==
    /\ shown' = IF body = 0 THEN shown ELSE [shown EXCEPT ![body] = @ \cup {r}]
    /\ UNCHANGED <<isStreaming, lastResponseId, body>>

Created(r) ==
    /\ lastResponseId' = r
    /\ UNCHANGED <<isStreaming, body, shown>>

Completed == EndStreaming /\ UNCHANGED <<lastResponseId, shown>>

(* handleEvent(): an error is only displayed. *)
HandleEvent(e) ==
    CASE e.type = "created" -> Created(e.id)
      [] e.type = "delta" -> Display(e.id)
      [] e.type = "completed" -> Completed
      [] e.type = "error" -> UNCHANGED <<isStreaming, lastResponseId, body, shown>>

(* onmessage, of any socket that is open. *)
ReceiveEvent(c) ==
    /\ ready[c] = "open" /\ down[c] # <<>>
    /\ HandleEvent(Head(down[c]))
    /\ down' = [down EXCEPT ![c] = Tail(@)]
    /\ UNCHANGED <<socket, ready, log, thread, cancels, replaced, up, serverVars>>

-----------------------------------------------------------------------------
(* The gateway. *)

(* What is sent to a socket that is not open is not seen.                   *)
Emit(c, e) == down' = IF ready[c] = "open" THEN [down EXCEPT ![c] = Append(@, e)] ELSE down

Take(c, type) ==
    /\ up[c] # <<>> /\ Head(up[c]).type = type
    /\ up' = [up EXCEPT ![c] = Tail(@)]

(* send_error(), for the message of number r or a cancel (0).               *)
SendError(c, r) ==
    /\ Emit(c, Note("error", r))
    /\ refused' = refused \cup ({r} \ {0})
    /\ UNCHANGED <<clientVars, session, phase, started, unannounced>>

(* The rate limit, or a field that is refused. *)
Refuse(c) ==
    /\ \/ Take(c, "create") /\ SendError(c, Head(up[c]).id)
       \/ Take(c, "cancel") /\ SendError(c, 0)

Busy(c) ==
    /\ Take(c, "create") /\ session[c] # 0
    /\ SendError(c, Head(up[c]).id)

Create(c) ==
    /\ Take(c, "create") /\ session[c] = 0
    /\ session' = [session EXCEPT ![c] = Head(up[c]).id]
    /\ phase' = [phase EXCEPT ![c] = "started"]
    /\ started' = started \cup {Head(up[c]).id}
    /\ UNCHANGED <<clientVars, down, unannounced, refused>>

(* A session knows its response_id before response.created is sent.         *)
Cancel(c) ==
    /\ Take(c, "cancel") /\ session[c] # 0 /\ session[c] = Head(up[c]).id
    /\ UNCHANGED <<clientVars, down, serverVars>>

CancelRefused(c) ==
    /\ Take(c, "cancel") /\ session[c] # Head(up[c]).id
    /\ SendError(c, 0)

Advance(c, from, to, type) ==
    /\ phase[c] \in from
    /\ phase' = [phase EXCEPT ![c] = to]
    /\ Emit(c, Note(type, session[c]))
    /\ UNCHANGED <<clientVars, up, session, started, refused>>

SayCreated(c) == Advance(c, {"started"}, "created", "created") /\ UNCHANGED unannounced
SayDelta(c) == Advance(c, {"created"}, "spoken", "delta") /\ UNCHANGED unannounced

(* The session fails, as it may before it has said anything: then its       *)
(* response.completed comes without a response.created.                     *)
SayError(c) ==
    /\ Advance(c, {"started", "created", "spoken"}, "failing", "error")
    /\ unannounced' = unannounced \cup (IF phase[c] = "started" THEN {session[c]} ELSE {})

SayCompleted(c) ==
    Advance(c, {"created", "spoken", "failing"}, "ending", "completed") /\ UNCHANGED unannounced

(* The emit of response.completed returns, and the task is done.            *)
TaskDone(c) ==
    /\ phase[c] = "ending"
    /\ phase' = [phase EXCEPT ![c] = "none"]
    /\ session' = [session EXCEPT ![c] = 0]
    /\ UNCHANGED <<clientVars, up, down, started, unannounced, refused>>

(* WebSocketDisconnect: the session is cancelled, what was sent is lost.    *)
Disconnect(c) ==
    /\ ready[c] \in {"closing", "closed"}
    /\ session[c] # 0 \/ up[c] # <<>>
    /\ up' = [up EXCEPT ![c] = <<>>]
    /\ session' = [session EXCEPT ![c] = 0]
    /\ phase' = [phase EXCEPT ![c] = "none"]
    /\ UNCHANGED <<clientVars, down, started, unannounced, refused>>

UserStep == SendMessage \/ CancelResponse \/ NewThread \/ Replace \/ Reconnect

ServerStep(c) ==
    \/ Busy(c) \/ Create(c) \/ Cancel(c) \/ CancelRefused(c) \/ Refuse(c)
    \/ SayCreated(c) \/ SayDelta(c) \/ SayError(c) \/ SayCompleted(c)
    \/ TaskDone(c) \/ Disconnect(c)

(* The user may leave it at that. *)
Rest == (\A c \in Sockets : session[c] = 0 /\ up[c] = <<>>) /\ UNCHANGED vars

Next ==
    \/ UserStep
    \/ \E c \in Sockets :
           SocketOpens(c) \/ SocketCloses(c) \/ ReceiveEvent(c) \/ ServerStep(c)
    \/ Rest

Spec == Init /\ [][Next]_vars

(* As long as a message or an event can arrive, a session can go on (it     *)
(* ends, since the page reads its socket: Terminates of AgentLoop) or a     *)
(* socket the client closes can close, one of them does.  Nothing of the    *)
(* user.                                                                    *)
Fairness ==
    WF_vars(\E c \in Sockets : \/ ReceiveEvent(c) \/ ServerStep(c)
                               \/ ready[c] = "closing" /\ SocketCloses(c))

FairSpec == Spec /\ Fairness

-----------------------------------------------------------------------------
(* Types; the client streams if and only if there is an answer to fill.     *)
TypeOK ==
    /\ socket \in Sockets
    /\ ready \in [Sockets -> {"none", "connecting", "open", "closing", "closed"}]
    /\ isStreaming <=> body # 0
    /\ lastResponseId \in started \cup {0}
    /\ refused \subseteq Messages /\ refused \cap started = {} /\ unannounced \subseteq started
    /\ \A c \in Sockets : session[c] # 0 <=> phase[c] # "none"

(* The text of a response is shown under the message that asked for it,     *)
(* although deltas are displayed without a look at their response_id.       *)
(* Here and below, as long as no socket was replaced before it had closed:  *)
(* its onclose ends the answer that streams on the next one.                *)
ShownWhereAsked == ~replaced => \A r \in Messages : shown[r] \subseteq {r}

(* A message continues the newest response of its thread: the ones it       *)
(* passes over were on another connection, which was lost, or failed before *)
(* they were announced.  After New Thread it continues no response of the   *)
(* old thread, but for the one that was asked for last before the click:    *)
(* when it is announced after the click it still becomes the one to         *)
(* continue (FreshThread).                                                  *)
ContinuesTheLast ==
    ~replaced => \A r \in 1..Len(log) :
        /\ \A s \in started \ unannounced :
             log[r].previous < s /\ s < r /\ log[s].thread = log[r].thread =>
                 log[s].socket # log[r].socket
        /\ log[r].previous # 0 => log[r].previous >= log[r].thread

(* The client sends no message before the answer to the one before has      *)
(* ended: only in the moment between response.completed and the end of the  *)
(* task is one refused as busy.                                             *)
BusyOnlyAtTheEnd ==
    [][~replaced => \A c \in Sockets : Busy(c) => phase[c] = "ending"]_vars

(* A cancel that is taken cancels the answer the user saw streaming at the  *)
(* click, although the client sends the id of the last response it knows:   *)
(* when that is the one before, its task is all but done.                   *)
CancelHitsItsAnswer ==
    [][~replaced => \A c \in Sockets :
          Cancel(c) => session[c] = Head(up[c]).at \/ phase[c] = "ending"]_vars

(* "Click the New Thread button to start a fresh conversation": a message   *)
(* sent after the click continues nothing that was asked before it.         *)
FreshThread ==
    \A r \in 1..Len(log) : log[r].previous # 0 => log[r].previous > log[r].thread

(* An answer that streams comes to its end, or its socket closes, unless    *)
(* the gateway refused the message.                                         *)
StreamingEnds == []<>(~isStreaming \/ body \in refused)
===============================================================================
