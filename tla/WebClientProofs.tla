---------------------------- MODULE WebClientProofs ----------------------------
(***************************************************************************)
(* Proofs about the page and the gateway it talks to, for any number of    *)
(* messages, sockets and cancels.                                          *)
(*                                                                         *)
(* The page and the gateway agree although no event names the request it   *)
(* answers, because one message at most is under way: while no answer      *)
(* streams nothing of one is in the channels (Resting), and while one does *)
(* all that is in them belongs to it, in its order (Streaming).  A         *)
(* response that fails before response.created stays unknown to the page:  *)
(* it is not Due.  The picture holds as long as no socket was replaced     *)
(* before it had closed (Page under ~replaced).                            *)
(***************************************************************************)
EXTENDS WebClient, TLAPS

-----------------------------------------------------------------------------
(* The inductive invariant. *)

Phases == {"none", "started", "created", "spoken", "failing", "ending"}
CreateNotes == [type : {"create"}, id : Messages]
CancelNotes == [type : {"cancel"}, id : Messages, at : Messages]
Requests == CreateNotes \cup CancelNotes
EventNotes == [type : {"created", "delta", "completed", "error"}, id : 0..MaxMessages]
Entries == [socket : Sockets, thread : 0..MaxMessages, previous : 0..MaxMessages]

Types ==
    /\ socket \in Sockets
    /\ ready \in [Sockets -> {"none", "connecting", "open", "closing", "closed"}]
    /\ isStreaming \in BOOLEAN /\ replaced \in BOOLEAN
    /\ lastResponseId \in 0..MaxMessages /\ body \in 0..MaxMessages
    /\ shown \in [Messages -> SUBSET Messages]
    /\ log \in Seq(Entries) /\ Len(log) <= MaxMessages
    /\ thread \in 0..Len(log)
    /\ up \in [Sockets -> Seq(Requests)]
    /\ down \in [Sockets -> Seq(EventNotes)]
    /\ session \in [Sockets -> 0..MaxMessages]
    /\ phase \in [Sockets -> Phases]
    /\ started \subseteq 1..Len(log) /\ refused \subseteq 1..Len(log)

(* The messages that wait in a socket, and the events that are no errors. *)
Creates(c) == {i \in 1..Len(up[c]) : up[c][i].type = "create"}
Cancels(c) == {i \in 1..Len(up[c]) : up[c][i].type = "cancel"}
Main(c) == {i \in 1..Len(down[c]) : down[c][i].type # "error"}

(* A message that waits is new; a cancel and an event name a response that  *)
(* was started.                                                             *)
Named(c) ==
    /\ \A i \in Creates(c) : /\ up[c][i].id \in 1..Len(log)
                             /\ log[up[c][i].id].socket = c
                             /\ up[c][i].id \notin started \cup refused
    /\ \A i, j \in Creates(c) : up[c][i].id = up[c][j].id => i = j
    /\ \A i \in Cancels(c) : up[c][i].id \in started
    /\ \A i \in Main(c) : down[c][i].id \in started
    /\ session[c] \in started \cup {0}
    /\ session[c] = 0 <=> phase[c] = "none"

Known ==
    /\ isStreaming <=> body # 0
    /\ lastResponseId \in started \cup {0}
    /\ refused \cap started = {} /\ unannounced \subseteq started
    /\ \A c \in Sockets : Named(c)

(* The session of c, if any, has said all it says. *)
Free(c) == session[c] = 0 \/ phase[c] = "ending"

(* One message waits at most, the last one of its socket, and only for the  *)
(* end of a task.                                                           *)
OneWaits(c) ==
    /\ \A i, j \in Creates(c) : i = j
    /\ Creates(c) # {} => Free(c)
    /\ \A i \in Creates(c), r \in 1..Len(log) : log[r].socket = c => r <= up[c][i].id

CancelsMeanIt(c) ==
    \A i \in Cancels(c) :
        up[c][i].at = up[c][i].id \/ session[c] # up[c][i].id \/ phase[c] = "ending"

OneSocket ==
    /\ \A c \in Sockets :
           /\ c < socket => ready[c] = "closed"
           /\ c > socket => ready[c] = "none"
           /\ ready[c] \in {"none", "connecting"} => up[c] = <<>> /\ session[c] = 0
           /\ ready[c] # "open" => down[c] = <<>>
    /\ ready[socket] \in {"connecting", "open", "closed"}
    /\ \A r \in 1..Len(log) :
           log[r].socket <= socket /\ (ready[socket] = "connecting" => log[r].socket # socket)
    /\ isStreaming => ready[socket] = "open"

(* Nothing of an answer is under way while none streams. *)
Resting(c) == Main(c) = {} /\ Creates(c) = {} /\ Free(c)

(* The responses that were announced, or may still be. *)
Due == started \ unannounced

(* All that is under way is the answer to the last message, in its order.   *)
Streaming(c) ==
    /\ body = Len(log) /\ log[body].socket = c
    /\ \A i \in Main(c) : down[c][i].id = body
    /\ \A i \in Creates(c) : up[c][i].id = body
    /\ Creates(c) # {} => Main(c) = {}
    /\ ~Free(c) => session[c] = body /\ \A i \in Main(c) : down[c][i].type # "completed"
    /\ \A i, j \in Main(c) : down[c][i].type = "completed" => j <= i
    /\ body \in Due /\ log[body].thread = thread =>
           \/ lastResponseId = body
           \/ \E i \in Main(c) : down[c][i].type = "created"
           \/ session[c] = body /\ phase[c] = "started"

(* The page knows the newest response of its thread and socket, but for the *)
(* one that streams and those that were never announced.                    *)
Newest ==
    \A x \in Due :
        log[x].socket = socket /\ log[x].thread = thread /\ x # body => x <= lastResponseId

Page ==
    /\ OneSocket
    /\ \A c \in Sockets : OneWaits(c) /\ CancelsMeanIt(c)
    /\ ready[socket] = "open" => /\ Newest
                                 /\ ~isStreaming => Resting(socket)
                                 /\ isStreaming => Streaming(socket)
    /\ lastResponseId # 0 => lastResponseId >= thread
    /\ thread = 0 => \A r \in 1..Len(log) : log[r].thread = 0
    /\ \A r \in Messages : shown[r] \subseteq {r}
    /\ ContinuesTheLast

ClientInv == Types /\ Known /\ (~replaced => Page)

-----------------------------------------------------------------------------
(* Queues. *)

(* The queue b is what is left of a. *)
Behind(b, a) ==
    \E k \in Nat : \A i \in 1..Len(b) : i + k \in 1..Len(a) /\ b[i] = a[i + k]

LEMMA SameIsBehind ==
  ASSUME NEW a, NEW b, b = a, Len(a) \in Nat
  PROVE  Behind(b, a)
  <1>1. \A i \in 1..Len(b) : i + 0 \in 1..Len(a) /\ b[i] = a[i + 0]
    OBVIOUS
  <1> QED BY <1>1 DEF Behind

LEMMA NothingIsBehind ==
  ASSUME NEW a, NEW b, b = <<>>
  PROVE  Behind(b, a)
  <1>1. \A i \in 1..Len(b) : i + 0 \in 1..Len(a) /\ b[i] = a[i + 0]
    OBVIOUS
  <1> QED BY <1>1 DEF Behind

LEMMA RequestsTaken ==
  ASSUME NEW q \in Seq(Requests), q # <<>>
  PROVE  /\ Tail(q) \in Seq(Requests) /\ Len(Tail(q)) = Len(q) - 1
         /\ Head(q) = q[1] /\ Head(q) \in Requests /\ 1 \in 1..Len(q)
         /\ \A i \in 1..Len(Tail(q)) : i + 1 \in 1..Len(q) /\ Tail(q)[i] = q[i + 1]
         /\ Behind(Tail(q), q)
  <1>1. /\ Tail(q) \in Seq(Requests) /\ Len(Tail(q)) = Len(q) - 1
        /\ Head(q) = q[1] /\ Head(q) \in Requests /\ 1 \in 1..Len(q)
    OBVIOUS
  <1>2. \A i \in 1..Len(Tail(q)) : i + 1 \in 1..Len(q) /\ Tail(q)[i] = q[i + 1]
    OBVIOUS
  <1> QED BY <1>1, <1>2 DEF Behind

LEMMA EventsTaken ==
  ASSUME NEW q \in Seq(EventNotes), q # <<>>
  PROVE  /\ Tail(q) \in Seq(EventNotes) /\ Len(Tail(q)) = Len(q) - 1
         /\ Head(q) = q[1] /\ Head(q) \in EventNotes /\ 1 \in 1..Len(q)
         /\ \A i \in 1..Len(Tail(q)) : i + 1 \in 1..Len(q) /\ Tail(q)[i] = q[i + 1]
         /\ Behind(Tail(q), q)
  <1>1. /\ Tail(q) \in Seq(EventNotes) /\ Len(Tail(q)) = Len(q) - 1
        /\ Head(q) = q[1] /\ Head(q) \in EventNotes /\ 1 \in 1..Len(q)
    OBVIOUS
  <1>2. \A i \in 1..Len(Tail(q)) : i + 1 \in 1..Len(q) /\ Tail(q)[i] = q[i + 1]
    OBVIOUS
  <1> QED BY <1>1, <1>2 DEF Behind

LEMMA RequestAdded ==
  ASSUME NEW q \in Seq(Requests), NEW x \in Requests
  PROVE  /\ Append(q, x) \in Seq(Requests) /\ Len(Append(q, x)) = Len(q) + 1
         /\ Append(q, x)[Len(q) + 1] = x
         /\ \A i \in 1..Len(q) : Append(q, x)[i] = q[i]
         /\ \A i \in 1..Len(Append(q, x)) : i \in 1..Len(q) \/ i = Len(q) + 1
  OBVIOUS

LEMMA EventAdded ==
  ASSUME NEW q \in Seq(EventNotes), NEW x \in EventNotes
  PROVE  /\ Append(q, x) \in Seq(EventNotes) /\ Len(Append(q, x)) = Len(q) + 1
         /\ Append(q, x)[Len(q) + 1] = x
         /\ \A i \in 1..Len(q) : Append(q, x)[i] = q[i]
         /\ \A i \in 1..Len(Append(q, x)) : i \in 1..Len(q) \/ i = Len(q) + 1
  OBVIOUS

LEMMA EntryAdded ==
  ASSUME NEW q \in Seq(Entries), NEW x \in Entries
  PROVE  /\ Append(q, x) \in Seq(Entries) /\ Len(Append(q, x)) = Len(q) + 1
         /\ Append(q, x)[Len(q) + 1] = x
         /\ \A i \in 1..Len(q) : Append(q, x)[i] = q[i]
         /\ 1..Len(q) \subseteq 1..Len(Append(q, x))
         /\ \A i \in 1..Len(Append(q, x)) : i \in 1..Len(q) \/ i = Len(q) + 1
  OBVIOUS

-----------------------------------------------------------------------------
(* What the steps of the gateway do. *)

(* The page has nothing to do with it, and only the socket c has.           *)
Only(c) ==
    /\ UNCHANGED clientVars
    /\ up' \in [Sockets -> Seq(Requests)] /\ down' \in [Sockets -> Seq(EventNotes)]
    /\ session' \in [Sockets -> 0..MaxMessages] /\ phase' \in [Sockets -> Phases]
    /\ \A e \in Sockets \ {c} : /\ up'[e] = up[e] /\ down'[e] = down[e]
                               /\ session'[e] = session[e] /\ phase'[e] = phase[e]

(* The event x is sent to c, or lost. *)
Sent(c, x) ==
    IF ready[c] = "open" THEN down'[c] = Append(down[c], x) ELSE down'[c] = down[c]

Taken(c) == up[c] # <<>> /\ up'[c] = Tail(up[c])

(* A request is taken and may be answered with an error. *)
Consumes(c) ==
    /\ Only(c) /\ Taken(c)
    /\ down'[c] = down[c] \/ \E id \in 0..MaxMessages : Sent(c, Note("error", id))
    /\ \/ refused' = refused
       \/ Head(up[c]).type = "create" /\ refused' = refused \cup {Head(up[c]).id}
    /\ session'[c] = session[c] /\ phase'[c] = phase[c]
    /\ started' = started /\ unannounced' = unannounced

LEMMA EmitSends ==
  ASSUME Types, NEW c \in Sockets, NEW x \in EventNotes, Emit(c, x)
  PROVE  /\ down' \in [Sockets -> Seq(EventNotes)]
         /\ \A e \in Sockets \ {c} : down'[e] = down[e]
         /\ Sent(c, x)
  <1>1. Append(down[c], x) \in Seq(EventNotes)
    BY EventAdded DEF Types
  <1> QED BY <1>1 DEF Types, Emit, Sent

LEMMA TakeTakes ==
  ASSUME Types, NEW c \in Sockets, NEW type, Take(c, type)
  PROVE  /\ up' \in [Sockets -> Seq(Requests)]
         /\ \A e \in Sockets \ {c} : up'[e] = up[e]
         /\ Taken(c)
         /\ Head(up[c]) = up[c][1] /\ 1 \in 1..Len(up[c])
         /\ Head(up[c]) \in Requests /\ Head(up[c]).type = type
         /\ Head(up[c]).id \in Messages
  <1>1. up[c] \in Seq(Requests) /\ up[c] # <<>>
    BY DEF Types, Take
  <1>2. /\ Tail(up[c]) \in Seq(Requests) /\ Head(up[c]) \in Requests
        /\ Head(up[c]) = up[c][1] /\ 1 \in 1..Len(up[c])
    BY <1>1, RequestsTaken
  <1>3. Head(up[c]).id \in Messages
    BY <1>2 DEF Requests, CreateNotes, CancelNotes
  <1> QED BY <1>1, <1>2, <1>3 DEF Types, Take, Taken

LEMMA ConsumingSteps ==
  ASSUME Types, NEW c \in Sockets,
         Busy(c) \/ Cancel(c) \/ CancelRefused(c) \/ Refuse(c)
  PROVE  Consumes(c)
  <1>1. \A id \in 0..MaxMessages : Note("error", id) \in EventNotes
    BY DEF Note, EventNotes
  <1>2. ASSUME NEW id \in 0..MaxMessages, SendError(c, id), NEW type, Take(c, type),
               id # 0 => type = "create" /\ id = Head(up[c]).id
        PROVE  Consumes(c)
    <2>1. /\ down' \in [Sockets -> Seq(EventNotes)]
          /\ \A e \in Sockets \ {c} : down'[e] = down[e]
          /\ Sent(c, Note("error", id))
      BY <1>1, <1>2, EmitSends DEF SendError
    <2>2. /\ up' \in [Sockets -> Seq(Requests)]
          /\ \A e \in Sockets \ {c} : up'[e] = up[e]
          /\ Taken(c) /\ Head(up[c]).type = type
      BY <1>2, TakeTakes
    <2>3. \/ refused' = refused
          \/ Head(up[c]).type = "create" /\ refused' = refused \cup {Head(up[c]).id}
      BY <1>2, <2>2 DEF SendError
    <2>4. Only(c)
      BY <1>2, <2>1, <2>2 DEF SendError, Only, Types
    <2> QED BY <1>2, <2>1, <2>2, <2>3, <2>4 DEF Consumes, SendError
  <1>3. CASE Take(c, "create") /\ SendError(c, Head(up[c]).id)
    <2>1. Head(up[c]).id \in 0..MaxMessages
      BY <1>3, TakeTakes, ClientAssumption DEF Messages
    <2> QED BY <1>2, <1>3, <2>1
  <1>4. CASE Take(c, "cancel") /\ SendError(c, 0)
    <2>1. 0 \in 0..MaxMessages
      BY ClientAssumption
    <2> QED BY <1>2, <1>4, <2>1
  <1>5. CASE Cancel(c)
    <2>1. Take(c, "cancel") /\ UNCHANGED <<clientVars, down, serverVars>>
      BY <1>5 DEF Cancel
    <2>2. Only(c) /\ Taken(c)
      BY <2>1, TakeTakes DEF Only, Types, serverVars
    <2> QED BY <2>1, <2>2 DEF Consumes, serverVars
  <1> QED BY <1>3, <1>4, <1>5 DEF Busy, CancelRefused, Refuse

(* A session is started with the request taken. *)
Starts(c) ==
    /\ Only(c) /\ Taken(c)
    /\ Head(up[c]).type = "create" /\ Head(up[c]).id \in Messages
    /\ session[c] = 0 /\ session'[c] = Head(up[c]).id
    /\ phase'[c] = "started"
    /\ started' = started \cup {Head(up[c]).id} /\ unannounced' = unannounced
    /\ down'[c] = down[c] /\ refused' = refused

LEMMA CreateStarts ==
  ASSUME Types, NEW c \in Sockets, Create(c)
  PROVE  Starts(c)
  <1>1. Take(c, "create") /\ session[c] = 0 /\ UNCHANGED <<clientVars, down, unannounced, refused>>
    BY DEF Create
  <1>2. /\ up' \in [Sockets -> Seq(Requests)]
        /\ \A e \in Sockets \ {c} : up'[e] = up[e]
        /\ Taken(c) /\ Head(up[c]).type = "create" /\ Head(up[c]).id \in Messages
    BY <1>1, TakeTakes
  <1>3. Head(up[c]).id \in 0..MaxMessages
    BY <1>2, ClientAssumption DEF Messages
  <1>4. /\ session' \in [Sockets -> 0..MaxMessages] /\ session'[c] = Head(up[c]).id
        /\ phase' \in [Sockets -> Phases] /\ phase'[c] = "started"
        /\ \A e \in Sockets \ {c} : session'[e] = session[e] /\ phase'[e] = phase[e]
    BY <1>3 DEF Create, Types, Phases
  <1>5. started' = started \cup {Head(up[c]).id}
    BY DEF Create
  <1> QED BY <1>1, <1>2, <1>4, <1>5 DEF Only, Starts, Types

(* A session says the event of the type, on its way from one phase to       *)
(* another.  Before response.created it may only fail.                      *)
Says(c, type) ==
    /\ Only(c)
    /\ up'[c] = up[c]
    /\ phase[c] \in {"started", "created", "spoken", "failing"}
    /\ phase'[c] = CASE type = "created" -> "created"
                     [] type = "delta" -> "spoken"
                     [] type = "error" -> "failing"
                     [] type = "completed" -> "ending"
    /\ phase[c] = "started" => type \in {"created", "error"}
    /\ session'[c] = session[c]
    /\ Sent(c, Note(type, session[c]))
    /\ started' = started /\ refused' = refused
    /\ unannounced' = IF type = "error" /\ phase[c] = "started"
                         THEN unannounced \cup {session[c]} ELSE unannounced

Said == {"created", "delta", "error", "completed"}

LEMMA SayingSteps ==
  ASSUME Types, NEW c \in Sockets,
         SayCreated(c) \/ SayDelta(c) \/ SayError(c) \/ SayCompleted(c)
  PROVE  \E type \in Said : Says(c, type)
  <1>1. ASSUME NEW type \in Said,
               NEW from, NEW to \in Phases, Advance(c, from, to, type)
        PROVE  /\ Only(c) /\ up'[c] = up[c] /\ phase'[c] = to /\ session'[c] = session[c]
               /\ Sent(c, Note(type, session[c])) /\ started' = started /\ refused' = refused
               /\ phase[c] \in from
    <2>1. Note(type, session[c]) \in EventNotes
      BY DEF Note, EventNotes, Types, Said
    <2>2. /\ down' \in [Sockets -> Seq(EventNotes)]
          /\ \A e \in Sockets \ {c} : down'[e] = down[e]
          /\ Sent(c, Note(type, session[c]))
      BY <1>1, <2>1, EmitSends DEF Advance
    <2> QED BY <1>1, <2>2 DEF Advance, Only, Types
  <1>2. CASE SayCreated(c)
    <2>1. Says(c, "created")
      BY <1>1, <1>2 DEF SayCreated, Says, Phases, Said
    <2> QED BY <2>1 DEF Said
  <1>3. CASE SayDelta(c)
    <2>1. Says(c, "delta")
      BY <1>1, <1>3 DEF SayDelta, Says, Phases, Said
    <2> QED BY <2>1 DEF Said
  <1>4. CASE SayCompleted(c)
    <2>1. Says(c, "completed")
      BY <1>1, <1>4 DEF SayCompleted, Says, Phases, Said
    <2> QED BY <2>1 DEF Said
  <1>5. CASE SayError(c)
    <2>1. Advance(c, {"started", "created", "spoken"}, "failing", "error")
      BY <1>5 DEF SayError
    <2>2. unannounced' = IF phase[c] = "started" THEN unannounced \cup {session[c]}
                                                  ELSE unannounced
      BY <1>5 DEF SayError
    <2>3. Says(c, "error")
      BY <1>1, <2>1, <2>2 DEF Says, Phases, Said
    <2> QED BY <2>3 DEF Said
  <1> QED BY <1>2, <1>3, <1>4, <1>5

(* The session is over, and the requests are, if the socket is. *)
EndsSession(c) ==
    /\ Only(c)
    /\ up'[c] = up[c] \/ up'[c] = <<>>
    /\ down'[c] = down[c]
    /\ session'[c] = 0 /\ phase'[c] = "none"
    /\ started' = started /\ unannounced' = unannounced /\ refused' = refused
    /\ ready[c] \in {"closing", "closed"} \/ phase[c] = "ending"

LEMMA EndingSteps ==
  ASSUME Types, NEW c \in Sockets, TaskDone(c) \/ Disconnect(c)
  PROVE  EndsSession(c)
  <1>1. 0 \in 0..MaxMessages /\ <<>> \in Seq(Requests)
    BY ClientAssumption
  <1>2. CASE TaskDone(c)
    BY <1>1, <1>2 DEF TaskDone, EndsSession, Only, Types, Phases
  <1>3. CASE Disconnect(c)
    BY <1>1, <1>3 DEF Disconnect, EndsSession, Only, Types, Phases
  <1> QED BY <1>2, <1>3


-----------------------------------------------------------------------------
(* The types, and what is known of the requests and events under way.       *)

LEMMA Notes ==
  ASSUME Types, NEW c \in Sockets
  PROVE  /\ up[c] \in Seq(Requests) /\ Len(up[c]) \in Nat
         /\ \A i \in 1..Len(up[c]) : up[c][i] \in Requests /\ up[c][i].id \in Messages
         /\ down[c] \in Seq(EventNotes) /\ Len(down[c]) \in Nat
         /\ \A i \in 1..Len(down[c]) : down[c][i] \in EventNotes
         /\ session[c] \in 0..MaxMessages /\ phase[c] \in Phases
         /\ Len(log) \in Nat /\ Len(log) <= MaxMessages
         /\ \A r \in 1..Len(log) : log[r] \in Entries /\ r \in Messages
         /\ socket \in Sockets
  <1>1. /\ up[c] \in Seq(Requests) /\ down[c] \in Seq(EventNotes) /\ log \in Seq(Entries)
        /\ session[c] \in 0..MaxMessages /\ phase[c] \in Phases /\ socket \in Sockets
        /\ Len(log) <= MaxMessages
    BY DEF Types
  <1>2. \A i \in 1..Len(up[c]) : up[c][i] \in Requests
    BY <1>1
  <1>3. \A i \in 1..Len(up[c]) : up[c][i].id \in Messages
    BY <1>2 DEF Requests, CreateNotes, CancelNotes
  <1>4. \A r \in 1..Len(log) : log[r] \in Entries /\ r \in Messages
    BY <1>1, ClientAssumption DEF Messages
  <1> QED BY <1>1, <1>2, <1>3, <1>4

(* Requests that are left behind are still what they were. *)
LEMMA NamedStays ==
  ASSUME Types, NEW e \in Sockets, Named(e),
         Behind(up'[e], up[e]), started \subseteq started', Len(up'[e]) \in Nat,
         \A r \in 1..Len(log) : r \in 1..Len(log') /\ log'[r] = log[r],
         \A i \in Creates(e)' : up'[e][i].id \notin started' \cup refused',
         \A i \in Main(e)' : down'[e][i].id \in started',
         session'[e] \in started' \cup {0},
         session'[e] = 0 <=> phase'[e] = "none"
  PROVE  Named(e)'
  <1>1. PICK k \in Nat :
           \A i \in 1..Len(up'[e]) : i + k \in 1..Len(up[e]) /\ up'[e][i] = up[e][i + k]
    BY DEF Behind
  <1>2. ASSUME NEW i \in Creates(e)'
        PROVE  /\ i + k \in Creates(e) /\ up'[e][i] = up[e][i + k] /\ i \in Nat
               /\ up'[e][i].id \in 1..Len(log) /\ log[up'[e][i].id].socket = e
    <2>1. i \in 1..Len(up'[e]) /\ up'[e][i].type = "create"
      BY DEF Creates
    <2>2. i + k \in Creates(e) /\ up'[e][i] = up[e][i + k]
      BY <1>1, <2>1 DEF Creates
    <2>3. up[e][i + k].id \in 1..Len(log) /\ log[up[e][i + k].id].socket = e
      BY <2>2 DEF Named
    <2> QED BY <2>1, <2>2, <2>3
  <1>3. \A i \in Creates(e)' : up'[e][i].id \in 1..Len(log') /\ log'[up'[e][i].id].socket = e
    <2> SUFFICES ASSUME NEW i \in Creates(e)'
                 PROVE  up'[e][i].id \in 1..Len(log') /\ log'[up'[e][i].id].socket = e
      OBVIOUS
    <2>1. up'[e][i].id \in 1..Len(log) /\ log[up'[e][i].id].socket = e
      BY <1>2
    <2> QED BY <2>1
  <1>4. ASSUME NEW i \in Creates(e)', NEW j \in Creates(e)', up'[e][i].id = up'[e][j].id
        PROVE  i = j
    <2>1. /\ i + k \in Creates(e) /\ j + k \in Creates(e) /\ i \in Nat /\ j \in Nat
          /\ up[e][i + k].id = up[e][j + k].id
      BY <1>2, <1>4
    <2>2. i + k = j + k
      BY <2>1 DEF Named
    <2> QED BY <2>1, <2>2
  <1>5. \A i \in Cancels(e)' : up'[e][i].id \in started'
    <2> SUFFICES ASSUME NEW i \in Cancels(e)' PROVE up'[e][i].id \in started'
      OBVIOUS
    <2>1. i \in 1..Len(up'[e]) /\ up'[e][i].type = "cancel"
      BY DEF Cancels
    <2>2. i + k \in Cancels(e) /\ up'[e][i] = up[e][i + k]
      BY <1>1, <2>1 DEF Cancels
    <2> QED BY <2>2 DEF Named
  <1> QED BY <1>3, <1>4, <1>5 DEF Named

(* A step that leaves the socket e alone. *)
Apart(e) ==
    /\ up'[e] = up[e] /\ down'[e] = down[e]
    /\ session'[e] = session[e] /\ phase'[e] = phase[e]

LEMMA NamedApart ==
  ASSUME Types, NEW e \in Sockets, Named(e), Apart(e), started \subseteq started',
         \A r \in 1..Len(log) : r \in 1..Len(log') /\ log'[r] = log[r],
         \A i \in Creates(e) : up[e][i].id \notin started' \cup refused'
  PROVE  Named(e)'
  <1>1. Creates(e)' = Creates(e) /\ Main(e)' = Main(e)
    BY DEF Creates, Main, Apart
  <1>2. Behind(up'[e], up[e]) /\ Len(up'[e]) \in Nat
    BY Notes, SameIsBehind DEF Apart
  <1> QED BY <1>1, <1>2, NamedStays DEF Apart, Named

(* What is taken from a queue, and what is left, with the events of Sent(). *)
LEMMA TakenFacts ==
  ASSUME Types, NEW c \in Sockets, Taken(c)
  PROVE  /\ Behind(up'[c], up[c]) /\ Len(up'[c]) \in Nat
         /\ Head(up[c]) = up[c][1] /\ 1 \in 1..Len(up[c])
         /\ Head(up[c]).type = "create" => 1 \in Creates(c)
         /\ Head(up[c]).type = "cancel" => 1 \in Cancels(c)
         /\ \A i \in Creates(c)' : i + 1 \in Creates(c) /\ i + 1 # 1
                                   /\ up'[c][i] = up[c][i + 1]
         /\ \A i \in Cancels(c)' : i + 1 \in Cancels(c) /\ up'[c][i] = up[c][i + 1]
  <1>1. up[c] \in Seq(Requests) /\ up[c] # <<>> /\ up'[c] = Tail(up[c])
    BY Notes DEF Taken
  <1>2. /\ Tail(up[c]) \in Seq(Requests)
        /\ Head(up[c]) = up[c][1] /\ 1 \in 1..Len(up[c])
        /\ \A i \in 1..Len(Tail(up[c])) : i + 1 \in 1..Len(up[c]) /\ Tail(up[c])[i] = up[c][i + 1]
        /\ Behind(Tail(up[c]), up[c])
    BY <1>1, RequestsTaken
  <1>3. Len(up'[c]) \in Nat
    BY <1>1, <1>2
  <1>4. \A i \in 1..Len(up'[c]) : i \in Nat /\ i + 1 # 1
    BY <1>3
  <1> QED BY <1>1, <1>2, <1>3, <1>4 DEF Creates, Cancels

LEMMA SentFacts ==
  ASSUME Types, NEW c \in Sockets, NEW x \in EventNotes, Sent(c, x)
  PROVE  /\ \A i \in Main(c)' :
                \/ i \in Main(c) /\ down'[c][i] = down[c][i]
                \/ i = Len(down[c]) + 1 /\ down'[c][i] = x /\ x.type # "error"
                   /\ ready[c] = "open"
         /\ \A i \in Main(c) : i \in Main(c)' /\ down'[c][i] = down[c][i]
         /\ ready[c] = "open" /\ x.type # "error" =>
                Len(down[c]) + 1 \in Main(c)' /\ down'[c][Len(down[c]) + 1] = x
         /\ \A i \in Main(c) : i <= Len(down[c])
  <1>1. down[c] \in Seq(EventNotes) /\ Len(down[c]) \in Nat
    BY Notes
  <1>2. CASE ready[c] = "open"
    <2>1. down'[c] = Append(down[c], x)
      BY <1>2 DEF Sent
    <2>2. /\ Len(down'[c]) = Len(down[c]) + 1
          /\ down'[c][Len(down[c]) + 1] = x
          /\ \A i \in 1..Len(down[c]) : down'[c][i] = down[c][i]
          /\ \A i \in 1..Len(down'[c]) : i \in 1..Len(down[c]) \/ i = Len(down[c]) + 1
      BY <1>1, <2>1, EventAdded
    <2>3. /\ \A i \in 1..Len(down[c]) : i \in 1..Len(down'[c])
          /\ Len(down[c]) + 1 \in 1..Len(down'[c])
      BY <1>1, <2>2
    <2> QED BY <1>1, <1>2, <2>2, <2>3 DEF Main
  <1>3. CASE ready[c] # "open"
    BY <1>1, <1>3 DEF Sent, Main
  <1> QED BY <1>2, <1>3

LEMMA ErrorSent ==
  ASSUME Types, NEW c \in Sockets,
         down'[c] = down[c] \/ \E id \in 0..MaxMessages : Sent(c, Note("error", id))
  PROVE  Main(c)' = Main(c) /\ \A i \in Main(c) : down'[c][i] = down[c][i]
  <1>1. CASE down'[c] = down[c]
    BY <1>1 DEF Main
  <1>2. ASSUME NEW id \in 0..MaxMessages, Sent(c, Note("error", id))
        PROVE  Main(c)' = Main(c) /\ \A i \in Main(c) : down'[c][i] = down[c][i]
    <2>1. Note("error", id) \in EventNotes /\ Note("error", id).type = "error"
      BY DEF Note, EventNotes
    <2>2. PICK x \in EventNotes : x = Note("error", id) /\ x.type = "error"
      BY <2>1
    <2>3. Sent(c, x)
      BY <1>2, <2>2
    <2>4. /\ \A i \in Main(c)' : i \in Main(c)
          /\ \A i \in Main(c) : i \in Main(c)' /\ down'[c][i] = down[c][i]
      BY <2>2, <2>3, SentFacts
    <2> QED BY <2>4
  <1> QED BY <1>1, <1>2

(* The steps of the gateway keep the types, and what is known. *)
LEMMA ServerTypes ==
  ASSUME Types, Known, NEW c \in Sockets, Only(c),
         started' \subseteq 1..Len(log), refused' \subseteq 1..Len(log)
  PROVE  Types'
  BY DEF Types, Only, clientVars

LEMMA ConsumesKnown ==
  ASSUME Types, Known, NEW c \in Sockets, Consumes(c)
  PROVE  Types' /\ Known'
  <1>1. Only(c) /\ Taken(c) /\ started' = started
    BY DEF Consumes
  <1>2. Head(up[c]).type = "create" =>
           /\ Head(up[c]).id \in 1..Len(log) /\ log[Head(up[c]).id].socket = c
           /\ Head(up[c]).id \notin started
           /\ \A i \in Creates(c)' : up'[c][i].id # Head(up[c]).id
    BY <1>1, TakenFacts DEF Known, Named
  <1>3. refused' \subseteq 1..Len(log) /\ refused' \cap started = {}
    BY <1>2 DEF Consumes, Types, Known
  <1>4. Types'
    BY <1>1, <1>3, ServerTypes DEF Types
  <1>5. Named(c)'
    <2>1. Main(c)' = Main(c) /\ \A i \in Main(c) : down'[c][i] = down[c][i]
      BY ErrorSent DEF Consumes
    <2>2. \A i \in Creates(c)' : up'[c][i].id \notin started \cup refused'
      BY <1>1, <1>2, TakenFacts DEF Known, Named, Consumes
    <2>3. \A i \in Main(c)' : down'[c][i].id \in started'
      BY <1>1, <2>1 DEF Known, Named
    <2>4. Behind(up'[c], up[c]) /\ Len(up'[c]) \in Nat
      BY <1>1, TakenFacts
    <2>5. \A i \in Creates(c)' : up'[c][i].id \notin started' \cup refused'
      BY <1>1, <2>2
    <2>6. /\ Named(c) /\ started \subseteq started'
          /\ \A r \in 1..Len(log) : r \in 1..Len(log') /\ log'[r] = log[r]
      BY <1>1 DEF Known, Only, clientVars
    <2>7. session'[c] \in started' \cup {0} /\ (session'[c] = 0 <=> phase'[c] = "none")
      BY <1>1 DEF Known, Named, Consumes
    <2> QED BY <2>3, <2>4, <2>5, <2>6, <2>7, NamedStays
  <1>6. ASSUME NEW e \in Sockets, e # c PROVE Named(e)'
    <2>1. \A i \in Creates(e) : up[e][i].id \notin started \cup refused'
      BY <1>2, <1>6 DEF Known, Named, Consumes
    <2> QED BY <1>1, <1>6, <2>1, NamedApart DEF Known, Apart, Only, clientVars
  <1> QED BY <1>1, <1>3, <1>4, <1>5, <1>6 DEF Known, Only, clientVars, Consumes

LEMMA StartsKnown ==
  ASSUME Types, Known, NEW c \in Sockets, Starts(c)
  PROVE  Types' /\ Known'
  <1>1. PICK r : r = Head(up[c]).id
    OBVIOUS
  <1>2. Only(c) /\ Taken(c) /\ started' = started \cup {r} /\ refused' = refused
        /\ session'[c] = r /\ r # 0
    BY <1>1, ClientAssumption DEF Starts, Messages
  <1>3. /\ r \in 1..Len(log) /\ log[r].socket = c
        /\ r \notin started \cup refused
        /\ \A i \in Creates(c)' : up'[c][i].id # r
    BY <1>1, <1>2, TakenFacts DEF Known, Named, Starts
  <1>4. Types'
    BY <1>2, <1>3, ServerTypes DEF Types
  <1>5. Named(c)'
    <2>1. Main(c)' = Main(c)
      BY DEF Starts, Main
    <2>2. \A i \in Creates(c)' : up'[c][i].id \notin started' \cup refused'
      BY <1>2, <1>3, TakenFacts DEF Known, Named
    <2>3. \A i \in Main(c)' : down'[c][i].id \in started'
      BY <1>2, <2>1 DEF Known, Named, Starts
    <2>4. Behind(up'[c], up[c]) /\ Len(up'[c]) \in Nat
      BY <1>2, TakenFacts
    <2>5. /\ Named(c) /\ started \subseteq started'
          /\ \A q \in 1..Len(log) : q \in 1..Len(log') /\ log'[q] = log[q]
      BY <1>2 DEF Known, Only, clientVars
    <2>6. session'[c] \in started' \cup {0} /\ (session'[c] = 0 <=> phase'[c] = "none")
      BY <1>2 DEF Known, Named, Starts
    <2> QED BY <2>2, <2>3, <2>4, <2>5, <2>6, NamedStays
  <1>6. ASSUME NEW e \in Sockets, e # c PROVE Named(e)'
    <2>1. \A i \in Creates(e) : up[e][i].id \notin started' \cup refused'
      BY <1>2, <1>3, <1>6 DEF Known, Named
    <2> QED BY <1>2, <1>6, <2>1, NamedApart DEF Known, Apart, Only, clientVars
  <1> QED BY <1>2, <1>3, <1>4, <1>5, <1>6 DEF Known, Only, clientVars, Starts

LEMMA SaysKnown ==
  ASSUME Types, Known, NEW c \in Sockets, NEW type \in Said,
         Says(c, type)
  PROVE  Types' /\ Known'
  <1>1. Only(c) /\ up'[c] = up[c] /\ started' = started /\ refused' = refused
        /\ session'[c] = session[c] /\ phase'[c] # "none" /\ phase[c] # "none"
    BY DEF Says, Said
  <1>2. Types'
    BY <1>1, ServerTypes DEF Types
  <1>3. Named(c)'
    <2>1. Note(type, session[c]) \in EventNotes /\ Note(type, session[c]).id = session[c]
      BY Notes DEF Note, EventNotes, Said
    <2>2. session[c] \in started
      BY <1>1 DEF Known, Named
    <2>3. \A i \in Main(c)' : down'[c][i].id \in started
      BY <2>1, <2>2, SentFacts DEF Says, Known, Named
    <2>4. Creates(c)' = Creates(c)
      BY <1>1 DEF Creates
    <2>5. Behind(up'[c], up[c]) /\ Len(up'[c]) \in Nat
      BY <1>1, Notes, SameIsBehind
    <2>6. \A i \in Creates(c)' : up'[c][i].id \notin started' \cup refused'
      BY <1>1, <2>4 DEF Known, Named
    <2>7. \A i \in Main(c)' : down'[c][i].id \in started'
      BY <1>1, <2>3
    <2>8. /\ Named(c) /\ started \subseteq started'
          /\ \A r \in 1..Len(log) : r \in 1..Len(log') /\ log'[r] = log[r]
      BY <1>1 DEF Known, Only, clientVars
    <2>9. session'[c] \in started' \cup {0} /\ (session'[c] = 0 <=> phase'[c] = "none")
      BY <1>1 DEF Known, Named
    <2> QED BY <2>5, <2>6, <2>7, <2>8, <2>9, NamedStays
  <1>4. ASSUME NEW e \in Sockets, e # c PROVE Named(e)'
    BY <1>1, <1>4, NamedApart DEF Known, Named, Apart, Only, clientVars
  <1>5. unannounced' \subseteq started'
    BY <1>1 DEF Says, Known, Named
  <1> QED BY <1>1, <1>2, <1>3, <1>4, <1>5 DEF Known, Only, clientVars

LEMMA EndsKnown ==
  ASSUME Types, Known, NEW c \in Sockets, EndsSession(c)
  PROVE  Types' /\ Known'
  <1>1. Only(c) /\ started' = started /\ refused' = refused
    BY DEF EndsSession
  <1>2. Types'
    BY <1>1, ServerTypes DEF Types
  <1>3. Named(c)'
    <2>1. Behind(up'[c], up[c]) /\ Len(up'[c]) \in Nat
      BY Notes, SameIsBehind, NothingIsBehind DEF EndsSession
    <2>2. Main(c)' = Main(c)
      BY DEF EndsSession, Main
    <2>3. \/ Creates(c)' = Creates(c) /\ up'[c] = up[c]
          \/ Creates(c)' = {}
      BY DEF EndsSession, Creates
    <2>4. \A i \in Main(c)' : down'[c][i].id \in started'
      BY <1>1, <2>2 DEF Known, Named, EndsSession
    <2>5. \A i \in Creates(c)' : up'[c][i].id \notin started' \cup refused'
      BY <1>1, <2>3 DEF Known, Named
    <2>6. /\ Named(c) /\ started \subseteq started'
          /\ \A r \in 1..Len(log) : r \in 1..Len(log') /\ log'[r] = log[r]
      BY <1>1 DEF Known, Only, clientVars
    <2>7. session'[c] \in started' \cup {0} /\ (session'[c] = 0 <=> phase'[c] = "none")
      BY <1>1 DEF Known, Named, EndsSession
    <2> QED BY <2>1, <2>4, <2>5, <2>6, <2>7, NamedStays
  <1>4. ASSUME NEW e \in Sockets, e # c PROVE Named(e)'
    BY <1>1, <1>4, NamedApart DEF Known, Named, Apart, Only, clientVars
  <1> QED BY <1>1, <1>2, <1>3, <1>4 DEF Known, Only, clientVars, EndsSession

-----------------------------------------------------------------------------
(* What the steps of the page do. *)

(* A request is added to those that c carries. *)
LEMMA AddedFacts ==
  ASSUME Types, NEW c \in Sockets, NEW x \in Requests, up'[c] = Append(up[c], x)
  PROVE  /\ \A i \in Creates(c)' :
                \/ i \in Creates(c) /\ up'[c][i] = up[c][i]
                \/ i = Len(up[c]) + 1 /\ up'[c][i] = x /\ x.type = "create"
         /\ \A i \in Cancels(c)' :
                \/ i \in Cancels(c) /\ up'[c][i] = up[c][i]
                \/ i = Len(up[c]) + 1 /\ up'[c][i] = x /\ x.type = "cancel"
         /\ \A i \in Creates(c) : i \in Creates(c)' /\ up'[c][i] = up[c][i]
         /\ x.type = "create" => Len(up[c]) + 1 \in Creates(c)'
         /\ up'[c] \in Seq(Requests)
  <1>1. up[c] \in Seq(Requests) /\ Len(up[c]) \in Nat
    BY Notes
  <1>2. /\ Len(up'[c]) = Len(up[c]) + 1
        /\ up'[c][Len(up[c]) + 1] = x
        /\ \A i \in 1..Len(up[c]) : up'[c][i] = up[c][i]
        /\ \A i \in 1..Len(up'[c]) : i \in 1..Len(up[c]) \/ i = Len(up[c]) + 1
        /\ up'[c] \in Seq(Requests)
    BY <1>1, RequestAdded
  <1>3. /\ \A i \in 1..Len(up[c]) : i \in 1..Len(up'[c])
        /\ Len(up[c]) + 1 \in 1..Len(up'[c])
    BY <1>1, <1>2
  <1> QED BY <1>2, <1>3 DEF Creates, Cancels

(* The first event of c is taken. *)
Heard(c) == down[c] # <<>> /\ down'[c] = Tail(down[c])

LEMMA HeardFacts ==
  ASSUME Types, NEW c \in Sockets, Heard(c)
  PROVE  /\ Head(down[c]) = down[c][1] /\ Head(down[c]) \in EventNotes
         /\ Head(down[c]).type # "error" => 1 \in Main(c)
         /\ \A i \in Main(c)' : i \in Nat /\ i + 1 \in Main(c) /\ i + 1 # 1
                                /\ down'[c][i] = down[c][i + 1]
         /\ \A i \in Main(c) : i # 1 => /\ i - 1 \in Main(c)'
                                        /\ down'[c][i - 1] = down[c][i]
         /\ 1 \in Main(c) => Head(down[c]).type # "error"
         /\ down'[c] \in Seq(EventNotes)
  <1>1. down[c] \in Seq(EventNotes) /\ down[c] # <<>> /\ down'[c] = Tail(down[c])
    BY Notes DEF Heard
  <1>2. /\ down'[c] \in Seq(EventNotes) /\ Len(down'[c]) = Len(down[c]) - 1
        /\ Head(down[c]) = down[c][1] /\ Head(down[c]) \in EventNotes /\ 1 \in 1..Len(down[c])
        /\ \A i \in 1..Len(down'[c]) : i + 1 \in 1..Len(down[c]) /\ down'[c][i] = down[c][i + 1]
    BY <1>1, EventsTaken
  <1>3. Len(down[c]) \in Nat
    BY <1>1
  <1>4. \A i \in 1..Len(down'[c]) : i \in Nat /\ i + 1 # 1
    BY <1>2, <1>3
  <1>5. ASSUME NEW i \in 1..Len(down[c]), i # 1
        PROVE  i - 1 \in 1..Len(down'[c]) /\ down'[c][i - 1] = down[c][i]
    <2>1. i - 1 \in 1..Len(down'[c]) /\ (i - 1) + 1 = i
      BY <1>2, <1>3, <1>5
    <2> QED BY <1>2, <2>1
  <1> QED BY <1>2, <1>4, <1>5 DEF Main

(* The session and the socket of every connection are what they were. *)
LEMMA NamedOf ==
  ASSUME Types, NEW e \in Sockets, Named(e), up'[e] = up[e],
         UNCHANGED serverVars,
         \A r \in 1..Len(log) : r \in 1..Len(log') /\ log'[r] = log[r],
         \A i \in Main(e)' : down'[e][i].id \in started
  PROVE  Named(e)'
  <1>1. Creates(e)' = Creates(e)
    BY DEF Creates
  <1>2. Behind(up'[e], up[e]) /\ Len(up'[e]) \in Nat
    BY Notes, SameIsBehind
  <1>3. /\ session'[e] = session[e] /\ phase'[e] = phase[e]
        /\ started' = started /\ refused' = refused
    BY DEF serverVars
  <1>4. \A i \in Creates(e)' : up'[e][i].id \notin started' \cup refused'
    BY <1>1, <1>3 DEF Named
  <1>5. session'[e] \in started' \cup {0} /\ (session'[e] = 0 <=> phase'[e] = "none")
    BY <1>3 DEF Named
  <1>6. \A i \in Main(e)' : down'[e][i].id \in started'
    BY <1>3
  <1>7. started \subseteq started'
    BY <1>3
  <1> QED BY <1>2, <1>4, <1>5, <1>6, <1>7, NamedStays

LEMMA SendFacts ==
  ASSUME Types, NEW r, r = Len(log) + 1, Send(socket)
  PROVE  /\ r \in Messages /\ r \in 0..MaxMessages /\ r # 0
         /\ log' \in Seq(Entries) /\ Len(log') = r /\ r \in 1..Len(log')
         /\ log'[r].socket = socket /\ log'[r].thread = thread
         /\ log'[r].previous = lastResponseId
         /\ \A s \in 1..Len(log) : s \in 1..Len(log') /\ log'[s] = log[s] /\ s < r
         /\ \A s \in 1..Len(log') : s \in 1..Len(log) \/ s = r
         /\ up' \in [Sockets -> Seq(Requests)]
         /\ \A e \in Sockets \ {socket} : up'[e] = up[e]
         /\ \E x \in Requests : /\ up'[socket] = Append(up[socket], x)
                                /\ x.type = "create" /\ x.id = r
         /\ isStreaming' = TRUE /\ body' = r
         /\ UNCHANGED <<socket, ready, lastResponseId, shown, thread, cancels, replaced, down,
                        serverVars>>
  <1>1. /\ r \in Messages
        /\ log' = Append(log, [socket |-> socket, thread |-> thread, previous |-> lastResponseId])
        /\ up' = [up EXCEPT ![socket] = Append(@, Note("create", r))]
        /\ isStreaming' = TRUE /\ body' = r
        /\ UNCHANGED <<socket, ready, lastResponseId, shown, thread, cancels, replaced, down,
                       serverVars>>
    BY DEF Send
  <1>2. /\ [socket |-> socket, thread |-> thread, previous |-> lastResponseId] \in Entries
        /\ log \in Seq(Entries) /\ Len(log) \in Nat
    BY ClientAssumption DEF Types, Entries
  <1>3. PICK x \in Entries :
          x = [socket |-> socket, thread |-> thread, previous |-> lastResponseId]
    BY <1>2
  <1>4. x.socket = socket /\ x.thread = thread /\ x.previous = lastResponseId
    BY <1>3
  <1>5. log' = Append(log, x)
    BY <1>1, <1>3
  <1>6. /\ log' \in Seq(Entries) /\ Len(log') = Len(log) + 1
        /\ log'[Len(log) + 1] = x
        /\ \A i \in 1..Len(log) : log'[i] = log[i]
        /\ \A i \in 1..Len(log') : i \in 1..Len(log) \/ i = Len(log) + 1
    BY <1>2, <1>5, EntryAdded
  <1>7. /\ \A s \in 1..Len(log) : s \in 1..Len(log') /\ s < r
        /\ r \in 1..Len(log')
    BY <1>2, <1>6
  <1>8. Note("create", r) \in Requests
    BY <1>1 DEF Note, Requests, CreateNotes
  <1>9. PICK n \in Requests : n = Note("create", r)
    BY <1>8
  <1>10. n.type = "create" /\ n.id = r
    BY <1>9 DEF Note
  <1>11. up' = [up EXCEPT ![socket] = Append(@, n)]
    BY <1>1, <1>9
  <1>12. /\ up \in [Sockets -> Seq(Requests)] /\ socket \in Sockets
         /\ Append(up[socket], n) \in Seq(Requests)
    BY RequestAdded DEF Types
  <1>13. /\ up' \in [Sockets -> Seq(Requests)]
         /\ \A e \in Sockets \ {socket} : up'[e] = up[e]
         /\ up'[socket] = Append(up[socket], n)
    BY <1>11, <1>12
  <1>14. r \in 0..MaxMessages /\ r # 0
    BY <1>1, ClientAssumption DEF Messages
  <1> QED BY <1>1, <1>4, <1>6, <1>7, <1>10, <1>13, <1>14

LEMMA SendKnown ==
  ASSUME Types, Known, Send(socket)
  PROVE  Types' /\ Known'
  <1>1. PICK r : r = Len(log) + 1
    OBVIOUS
  <1>2. /\ r \in Messages /\ r \in 0..MaxMessages /\ r # 0
        /\ log' \in Seq(Entries) /\ Len(log') = r /\ r \in 1..Len(log')
        /\ log'[r].socket = socket
        /\ \A s \in 1..Len(log) : s \in 1..Len(log') /\ log'[s] = log[s] /\ s < r
        /\ up' \in [Sockets -> Seq(Requests)]
        /\ \A e \in Sockets \ {socket} : up'[e] = up[e]
        /\ isStreaming' = TRUE /\ body' = r
        /\ UNCHANGED <<socket, ready, lastResponseId, shown, thread, cancels, replaced, down,
                       serverVars>>
    BY <1>1, SendFacts
  <1>3. PICK x \in Requests : /\ up'[socket] = Append(up[socket], x)
                              /\ x.type = "create" /\ x.id = r
    BY <1>1, SendFacts
  <1>4. Len(log') <= MaxMessages
    BY <1>2 DEF Messages
  <1>5. started' \subseteq 1..Len(log') /\ refused' \subseteq 1..Len(log')
    BY <1>2 DEF Types, serverVars
  <1>6. thread' \in 0..Len(log')
    BY <1>1, <1>2 DEF Types
  <1>7. Types'
    BY <1>2, <1>4, <1>5, <1>6 DEF Types, serverVars
  <1>8. PICK c \in Sockets : c = socket /\ socket' = c /\ Named(c)
    BY <1>2 DEF Types, Known
  <1>9. r \notin started \cup refused /\ \A i \in Creates(c) : up[c][i].id # r
    BY <1>1, <1>2, <1>8 DEF Types, Named
  <1>10. Named(c)'
    <2>1. up'[c] = Append(up[c], x)
      BY <1>3, <1>8
    <2>2. \A i \in Creates(c)' :
             \/ i \in Creates(c) /\ up'[c][i] = up[c][i]
             \/ i = Len(up[c]) + 1 /\ up'[c][i] = x
      BY <2>1, AddedFacts
    <2>3. \A i \in Cancels(c)' : i \in Cancels(c) /\ up'[c][i] = up[c][i]
      BY <1>3, <2>1, AddedFacts
    <2>4. /\ Main(c)' = Main(c) /\ down' = down
          /\ session' = session /\ phase' = phase /\ started' = started /\ refused' = refused
      BY <1>2 DEF Main, serverVars
    <2>5. ASSUME NEW i \in Creates(c)'
          PROVE  /\ up'[c][i].id \in 1..Len(log') /\ log'[up'[c][i].id].socket = c
                 /\ up'[c][i].id \notin started' \cup refused'
      <3>1. CASE i \in Creates(c) /\ up'[c][i] = up[c][i]
        <4>1. /\ up[c][i].id \in 1..Len(log) /\ log[up[c][i].id].socket = c
              /\ up[c][i].id \notin started \cup refused
          BY <1>8, <3>1 DEF Named
        <4> QED BY <1>2, <2>4, <3>1, <4>1
      <3>2. CASE up'[c][i] = x
        BY <1>2, <1>3, <1>8, <1>9, <2>4, <3>2
      <3> QED BY <2>2, <2>5, <3>1, <3>2
    <2>6. ASSUME NEW i \in Creates(c)', NEW j \in Creates(c)', up'[c][i].id = up'[c][j].id
          PROVE  i = j
      BY SMTT(30), <1>3, <1>8, <1>9, <2>2, <2>6 DEF Named
    <2>7. \A i \in Cancels(c)' : up'[c][i].id \in started'
      BY <1>8, <2>3, <2>4 DEF Named
    <2>8. /\ \A i \in Main(c)' : down'[c][i].id \in started'
          /\ session'[c] \in started' \cup {0}
          /\ session'[c] = 0 <=> phase'[c] = "none"
      BY <1>8, <2>4 DEF Named
    <2> QED BY <2>5, <2>6, <2>7, <2>8 DEF Named
  <1>11. ASSUME NEW e \in Sockets, e # c PROVE Named(e)'
    <2>1. Main(e)' = Main(e)
      BY <1>2 DEF Main
    <2>2. \A i \in Main(e)' : down'[e][i].id \in started
      BY <1>2, <1>11, <2>1 DEF Known, Named
    <2>3. /\ Named(e) /\ up'[e] = up[e] /\ UNCHANGED serverVars
          /\ \A s \in 1..Len(log) : s \in 1..Len(log') /\ log'[s] = log[s]
      BY <1>2, <1>8, <1>11 DEF Known
    <2> QED BY <2>2, <2>3, NamedOf
  <1> QED BY <1>2, <1>7, <1>8, <1>10, <1>11 DEF Known, serverVars

(* What the click on cancel sends names the last response the page knows.   *)
LEMMA CancelFacts ==
  ASSUME Types, Known, CancelResponse
  PROVE  /\ isStreaming /\ ready[socket] = "open" /\ lastResponseId # 0
         /\ up' \in [Sockets -> Seq(Requests)]
         /\ \A e \in Sockets \ {socket} : up'[e] = up[e]
         /\ \E x \in Requests : /\ up'[socket] = Append(up[socket], x)
                                /\ x.type = "cancel" /\ x.id = lastResponseId /\ x.at = body
         /\ UNCHANGED <<socket, ready, isStreaming, lastResponseId, body, shown, log, thread,
                        replaced, down, serverVars>>
  <1>1. /\ isStreaming /\ ready[socket] = "open" /\ lastResponseId # 0
        /\ up' = [up EXCEPT ![socket] = Append(@, CancelNote(lastResponseId))]
        /\ UNCHANGED <<socket, ready, isStreaming, lastResponseId, body, shown, log, thread,
                       replaced, down, serverVars>>
    BY DEF CancelResponse
  <1>2. lastResponseId \in Messages /\ body \in Messages
    BY <1>1, ClientAssumption DEF Types, Known, Messages
  <1>3. CancelNote(lastResponseId) \in Requests
    BY <1>2 DEF CancelNote, Requests, CancelNotes
  <1>4. PICK n \in Requests : n = CancelNote(lastResponseId)
    BY <1>3
  <1>5. n.type = "cancel" /\ n.id = lastResponseId /\ n.at = body
    BY <1>4 DEF CancelNote
  <1>6. up' = [up EXCEPT ![socket] = Append(@, n)]
    BY <1>1, <1>4
  <1>7. /\ up \in [Sockets -> Seq(Requests)] /\ socket \in Sockets
        /\ Append(up[socket], n) \in Seq(Requests)
    BY RequestAdded DEF Types
  <1>8. /\ up' \in [Sockets -> Seq(Requests)]
        /\ \A e \in Sockets \ {socket} : up'[e] = up[e]
        /\ up'[socket] = Append(up[socket], n)
    BY <1>6, <1>7
  <1> QED BY <1>1, <1>5, <1>8

LEMMA CancelKnown ==
  ASSUME Types, Known, CancelResponse
  PROVE  Types' /\ Known'
  <1>1. /\ up' \in [Sockets -> Seq(Requests)] /\ lastResponseId # 0
        /\ \A e \in Sockets \ {socket} : up'[e] = up[e]
        /\ UNCHANGED <<socket, ready, isStreaming, lastResponseId, body, shown, log, thread,
                       replaced, down, serverVars>>
    BY CancelFacts
  <1>2. PICK x \in Requests : /\ up'[socket] = Append(up[socket], x)
                              /\ x.type = "cancel" /\ x.id = lastResponseId
    BY CancelFacts
  <1>3. Types'
    BY <1>1 DEF Types, serverVars
  <1>4. PICK c \in Sockets : c = socket /\ socket' = c /\ Named(c)
    BY <1>1 DEF Types, Known
  <1>5. Named(c)'
    <2>1. up'[c] = Append(up[c], x)
      BY <1>2, <1>4
    <2>2. \A i \in Cancels(c)' :
             \/ i \in Cancels(c) /\ up'[c][i] = up[c][i]
             \/ i = Len(up[c]) + 1 /\ up'[c][i] = x
      BY ZenonT(30), <2>1, AddedFacts
    <2>3. \A i \in Creates(c)' : i \in Creates(c) /\ up'[c][i] = up[c][i]
      BY <1>2, <2>1, AddedFacts
    <2>4. /\ Main(c)' = Main(c) /\ down' = down /\ log' = log
          /\ session' = session /\ phase' = phase /\ started' = started /\ refused' = refused
      BY <1>1 DEF Main, serverVars
    <2>5. \A i \in Cancels(c)' : up'[c][i].id \in started'
      BY <1>1, <1>2, <1>4, <2>2, <2>4 DEF Named, Known
    <2>6. ASSUME NEW i \in Creates(c)'
          PROVE  /\ up'[c][i].id \in 1..Len(log') /\ log'[up'[c][i].id].socket = c
                 /\ up'[c][i].id \notin started' \cup refused'
      BY <1>4, <2>3, <2>4 DEF Named
    <2>7. ASSUME NEW i \in Creates(c)', NEW j \in Creates(c)', up'[c][i].id = up'[c][j].id
          PROVE  i = j
      BY <1>4, <2>3, <2>7 DEF Named
    <2>8. /\ \A i \in Main(c)' : down'[c][i].id \in started'
          /\ session'[c] \in started' \cup {0}
          /\ session'[c] = 0 <=> phase'[c] = "none"
      BY <1>4, <2>4 DEF Named
    <2> QED BY <2>5, <2>6, <2>7, <2>8 DEF Named
  <1>6. ASSUME NEW e \in Sockets, e # c PROVE Named(e)'
    <2>1. Main(e)' = Main(e)
      BY <1>1 DEF Main
    <2>2. \A i \in Main(e)' : down'[e][i].id \in started
      BY <1>1, <2>1 DEF Known, Named
    <2>3. /\ Named(e) /\ up'[e] = up[e] /\ UNCHANGED serverVars
          /\ \A s \in 1..Len(log) : s \in 1..Len(log') /\ log'[s] = log[s]
      BY <1>1, <1>4, <1>6 DEF Known
    <2> QED BY <2>2, <2>3, NamedOf
  <1> QED BY <1>1, <1>3, <1>5, <1>6 DEF Known, serverVars

(* The page alone moves: neither the gateway nor what is under way.         *)
Still ==
    /\ UNCHANGED <<log, up, down, serverVars>>

LEMMA StillNamed ==
  ASSUME Types, Known, Still
  PROVE  \A c \in Sockets : Named(c)'
  <1> SUFFICES ASSUME NEW c \in Sockets PROVE Named(c)'
    OBVIOUS
  <1>1. Main(c)' = Main(c)
    BY DEF Still, Main
  <1>2. \A i \in Main(c)' : down'[c][i].id \in started
    BY <1>1 DEF Known, Named, Still
  <1>3. /\ Named(c) /\ up'[c] = up[c] /\ UNCHANGED serverVars
        /\ \A s \in 1..Len(log) : s \in 1..Len(log') /\ log'[s] = log[s]
    BY DEF Known, Still
  <1> QED BY <1>2, <1>3, NamedOf

LEMMA StillKnown ==
  ASSUME Types, Known, NewThread \/ Replace \/ Reconnect \/ (\E c \in Sockets : SocketOpens(c))
  PROVE  Types' /\ Known'
  <1>1. CASE NewThread
    <2>1. Still /\ UNCHANGED <<socket, ready, isStreaming, body, shown, cancels, replaced>>
          /\ lastResponseId' = 0 /\ thread' = Len(log)
      BY <1>1 DEF NewThread, Still
    <2>2. Types'
      BY <2>1, ClientAssumption DEF Types, Still, serverVars
    <2>3. isStreaming' <=> body' # 0
      BY <2>1 DEF Known
    <2> QED BY <2>1, <2>2, <2>3, StillNamed DEF Known, Still, serverVars
  <1>2. ASSUME NEW old \in {"closing", "connecting", "closed", "none"}, Opened(old),
               replaced' \in BOOLEAN
        PROVE  Types' /\ Known'
    <2>1. Still /\ UNCHANGED <<isStreaming, lastResponseId, body, shown, thread, cancels>>
          /\ socket < MaxSockets /\ socket' = socket + 1
          /\ ready' = [ready EXCEPT ![socket] = old, ![socket + 1] = "connecting"]
      BY <1>2 DEF Opened, Still
    <2>2. socket' \in Sockets
      BY <2>1, ClientAssumption DEF Types, Sockets
    <2>3. ready' \in [Sockets -> {"none", "connecting", "open", "closing", "closed"}]
      BY <2>1 DEF Types
    <2>4. Types'
      BY <1>2, <2>1, <2>2, <2>3 DEF Types, Still, serverVars
    <2>5. isStreaming' <=> body' # 0
      BY <2>1 DEF Known
    <2> QED BY <2>1, <2>4, <2>5, StillNamed DEF Known, Still, serverVars
  <1>3. CASE Replace
    <2>1. (IF ready[socket] = "open" THEN "closing" ELSE ready[socket])
             \in {"closing", "connecting", "closed", "none"}
      BY DEF Types
    <2> QED BY <1>2, <1>3, <2>1 DEF Replace
  <1>4. CASE Reconnect
    BY <1>2, <1>4 DEF Reconnect, Types
  <1>5. ASSUME NEW c \in Sockets, SocketOpens(c) PROVE Types' /\ Known'
    <2>1. Still /\ UNCHANGED <<socket, isStreaming, lastResponseId, body, shown, thread,
                               cancels, replaced>>
          /\ ready' = [ready EXCEPT ![c] = "open"]
      BY <1>5 DEF SocketOpens, Still
    <2>2. Types'
      BY <2>1 DEF Types, Still, serverVars
    <2>3. isStreaming' <=> body' # 0
      BY <2>1 DEF Known
    <2> QED BY <2>1, <2>2, <2>3, StillNamed DEF Known, Still, serverVars
  <1> QED BY <1>1, <1>3, <1>4, <1>5

(* onclose: what was on its way to the page is lost. *)
LEMMA ClosesFacts ==
  ASSUME Types, Known, NEW c \in Sockets, SocketCloses(c)
  PROVE  /\ ready[c] \in {"connecting", "open", "closing"}
         /\ ready' \in [Sockets -> {"none", "connecting", "open", "closing", "closed"}]
         /\ ready'[c] = "closed" /\ \A e \in Sockets \ {c} : ready'[e] = ready[e]
         /\ down' \in [Sockets -> Seq(EventNotes)]
         /\ down'[c] = <<>> /\ \A e \in Sockets \ {c} : down'[e] = down[e]
         /\ isStreaming' = FALSE /\ body' = 0
         /\ UNCHANGED <<socket, lastResponseId, shown, log, thread, cancels, replaced, up,
                        serverVars>>
  <1>1. <<>> \in Seq(EventNotes)
    OBVIOUS
  <1>2. /\ ready' = [ready EXCEPT ![c] = "closed"] /\ down' = [down EXCEPT ![c] = <<>>]
        /\ ready[c] \in {"connecting", "open", "closing"}
        /\ UNCHANGED <<socket, lastResponseId, shown, log, thread, cancels, replaced, up,
                        serverVars>>
    BY DEF SocketCloses
  <1>3. isStreaming' = FALSE /\ body' = 0
    BY DEF SocketCloses, EndStreaming, Types, Known
  <1> QED BY <1>1, <1>2, <1>3 DEF Types

LEMMA ClosesKnown ==
  ASSUME Types, Known, NEW c \in Sockets, SocketCloses(c)
  PROVE  Types' /\ Known'
  <1>1. /\ ready' \in [Sockets -> {"none", "connecting", "open", "closing", "closed"}]
        /\ down' \in [Sockets -> Seq(EventNotes)]
        /\ down'[c] = <<>> /\ \A e \in Sockets \ {c} : down'[e] = down[e]
        /\ isStreaming' = FALSE /\ body' = 0
        /\ UNCHANGED <<socket, lastResponseId, shown, log, thread, cancels, replaced, up,
                        serverVars>>
    BY ClosesFacts
  <1>2. Types'
    <2>1. isStreaming' \in BOOLEAN
      BY <1>1
    <2>2. body' = 0 /\ 0 \in 0..MaxMessages
      BY <1>1, ClientAssumption
    <2> QED BY <1>1, <2>1, <2>2 DEF Types, serverVars
  <1>3. ASSUME NEW e \in Sockets PROVE Named(e)'
    <2>1. CASE e = c
      <3>1. Main(e)' = {}
        BY <1>1, <2>1 DEF Main
      <3>2. /\ Named(e) /\ up'[e] = up[e] /\ UNCHANGED serverVars
            /\ \A s \in 1..Len(log) : s \in 1..Len(log') /\ log'[s] = log[s]
            /\ \A i \in Main(e)' : down'[e][i].id \in started
        BY <1>1, <3>1 DEF Known
      <3> QED BY <3>2, NamedOf
    <2>2. CASE e # c
      <3>1. Main(e)' = Main(e)
        BY <1>1, <2>2 DEF Main
      <3>2. /\ Named(e) /\ up'[e] = up[e] /\ UNCHANGED serverVars
            /\ \A s \in 1..Len(log) : s \in 1..Len(log') /\ log'[s] = log[s]
        BY <1>1 DEF Known
      <3>3. \A i \in Main(e)' : down'[e][i].id \in started
        BY <1>1, <2>2, <3>1, <3>2 DEF Named
      <3> QED BY <3>2, <3>3, NamedOf
    <2> QED BY <2>1, <2>2
  <1> QED BY <1>1, <1>2, <1>3 DEF Known, serverVars

(* An event is taken and handled. *)
LEMMA ReceiveFacts ==
  ASSUME Types, NEW c \in Sockets, ReceiveEvent(c), NEW x, x = Head(down[c])
  PROVE  /\ ready[c] = "open" /\ Heard(c) /\ x \in EventNotes /\ HandleEvent(x)
         /\ down' \in [Sockets -> Seq(EventNotes)]
         /\ \A e \in Sockets \ {c} : down'[e] = down[e]
         /\ UNCHANGED <<socket, ready, log, thread, cancels, replaced, up, serverVars>>
  <1>1. /\ ready[c] = "open" /\ down[c] # <<>> /\ HandleEvent(x)
        /\ down' = [down EXCEPT ![c] = Tail(@)]
        /\ UNCHANGED <<socket, ready, log, thread, cancels, replaced, up, serverVars>>
    BY DEF ReceiveEvent
  <1>2. /\ down[c] \in Seq(EventNotes) /\ Tail(down[c]) \in Seq(EventNotes)
        /\ x \in EventNotes
    BY <1>1, Notes, EventsTaken
  <1> QED BY <1>1, <1>2 DEF Types, Heard

LEMMA ReceiveKnown ==
  ASSUME Types, Known, NEW c \in Sockets, ReceiveEvent(c)
  PROVE  Types' /\ Known'
  <1>1. PICK x : x = Head(down[c])
    OBVIOUS
  <1>2. /\ ready[c] = "open" /\ Heard(c) /\ x \in EventNotes /\ HandleEvent(x)
        /\ down' \in [Sockets -> Seq(EventNotes)]
        /\ \A e \in Sockets \ {c} : down'[e] = down[e]
        /\ UNCHANGED <<socket, ready, log, thread, cancels, replaced, up, serverVars>>
    BY <1>1, ReceiveFacts
  <1>3. x.type # "error" => x.id \in started
    BY <1>1, <1>2, HeardFacts DEF Known, Named
  <1>4. /\ isStreaming' \in BOOLEAN /\ (isStreaming' <=> body' # 0)
        /\ lastResponseId' \in 0..MaxMessages /\ lastResponseId' \in started \cup {0}
        /\ body' \in 0..MaxMessages /\ shown' \in [Messages -> SUBSET Messages]
    <2>1. /\ isStreaming \in BOOLEAN /\ (isStreaming <=> body # 0)
          /\ lastResponseId \in 0..MaxMessages /\ lastResponseId \in started \cup {0}
          /\ body \in 0..MaxMessages /\ shown \in [Messages -> SUBSET Messages]
          /\ \A r \in started : r \in Messages /\ r \in 0..MaxMessages
          /\ 0 \in 0..MaxMessages
      BY Notes, ClientAssumption DEF Types, Known, Messages
    <2>2. CASE x.type = "created"
      BY <1>2, <1>3, <2>1, <2>2 DEF HandleEvent, Created
    <2>3. CASE x.type = "delta"
      BY <1>2, <1>3, <2>1, <2>3 DEF HandleEvent, Display
    <2>4. CASE x.type = "completed"
      BY <1>2, <2>1, <2>4 DEF HandleEvent, Completed, EndStreaming
    <2>5. CASE x.type = "error"
      BY <1>2, <2>1, <2>5 DEF HandleEvent
    <2> QED BY <1>2, <2>2, <2>3, <2>4, <2>5 DEF EventNotes
  <1>5. Types'
    BY <1>2, <1>4 DEF Types, serverVars
  <1>6. ASSUME NEW e \in Sockets PROVE Named(e)'
    <2>1. \A i \in Main(e)' : down'[e][i].id \in started
      <3>1. CASE e = c
        BY <1>2, <3>1, HeardFacts DEF Known, Named
      <3>2. CASE e # c
        <4>1. down'[e] = down[e] /\ Main(e)' = Main(e) /\ Named(e)
          BY <1>2, <3>2 DEF Known, Main
        <4> QED BY <4>1 DEF Named
      <3> QED BY <3>1, <3>2
    <2>2. /\ Named(e) /\ up'[e] = up[e] /\ UNCHANGED serverVars
          /\ \A s \in 1..Len(log) : s \in 1..Len(log') /\ log'[s] = log[s]
      BY <1>2 DEF Known
    <2> QED BY <2>1, <2>2, NamedOf
  <1> QED BY <1>2, <1>4, <1>5, <1>6 DEF Known, serverVars

LEMMA StutterKnown ==
  ASSUME Types, Known, UNCHANGED vars
  PROVE  Types' /\ Known'
  <1>1. Still /\ UNCHANGED clientVars
    BY DEF vars, clientVars, Still
  <1>2. Types'
    BY <1>1 DEF Types, Still, clientVars, serverVars
  <1> QED BY <1>1, <1>2, StillNamed DEF Known, Still, clientVars, serverVars

LEMMA InitKnown == Init => Types /\ Known
  <1> SUFFICES ASSUME Init PROVE Types /\ Known
    OBVIOUS
  <1>1. <<>> \in Seq(Requests) /\ <<>> \in Seq(EventNotes) /\ <<>> \in Seq(Entries)
    OBVIOUS
  <1>2. Types
    <2>1. 0 \in 0..MaxMessages /\ 1 \in Sockets /\ Len(log) = 0 /\ log \in Seq(Entries)
          /\ 0 <= MaxMessages
      BY <1>1, ClientAssumption DEF Init, Sockets
    <2>2. /\ ready \in [Sockets -> {"none", "connecting", "open", "closing", "closed"}]
          /\ shown \in [Messages -> SUBSET Messages]
          /\ session \in [Sockets -> 0..MaxMessages]
          /\ phase \in [Sockets -> Phases]
      BY <2>1 DEF Init, Phases
    <2>3. up \in [Sockets -> Seq(Requests)] /\ down \in [Sockets -> Seq(EventNotes)]
      BY <1>1 DEF Init
    <2>4. /\ socket \in Sockets /\ thread \in 0..Len(log) /\ Len(log) <= MaxMessages
          /\ lastResponseId \in 0..MaxMessages /\ body \in 0..MaxMessages
          /\ started \subseteq 1..Len(log) /\ refused \subseteq 1..Len(log)
      BY <2>1 DEF Init
    <2>5. isStreaming \in BOOLEAN /\ replaced \in BOOLEAN
      BY DEF Init
    <2> QED BY <2>1, <2>2, <2>3, <2>4, <2>5 DEF Types
  <1>3. ASSUME NEW c \in Sockets PROVE Named(c)
    BY <1>3 DEF Init, Named, Creates, Cancels, Main
  <1> QED BY <1>2, <1>3 DEF Init, Known

LEMMA NextKnown ==
  ASSUME Types, Known, [Next]_vars
  PROVE  Types' /\ Known'
  <1>1. CASE UserStep
    <2>1. CASE SendMessage
      BY <2>1, SendKnown DEF SendMessage
    <2>2. CASE CancelResponse
      BY <2>2, CancelKnown
    <2> QED BY <1>1, <2>1, <2>2, StillKnown DEF UserStep
  <1>2. ASSUME NEW c \in Sockets, ServerStep(c) PROVE Types' /\ Known'
    <2>1. CASE Busy(c) \/ Cancel(c) \/ CancelRefused(c) \/ Refuse(c)
      BY <2>1, ConsumingSteps, ConsumesKnown
    <2>2. CASE Create(c)
      BY <2>2, CreateStarts, StartsKnown
    <2>3. CASE SayCreated(c) \/ SayDelta(c) \/ SayError(c) \/ SayCompleted(c)
      <3>1. PICK type \in Said : Says(c, type)
        BY <2>3, SayingSteps
      <3> QED BY <3>1, SaysKnown
    <2>4. CASE TaskDone(c) \/ Disconnect(c)
      BY <2>4, EndingSteps, EndsKnown
    <2> QED BY <1>2, <2>1, <2>2, <2>3, <2>4 DEF ServerStep
  <1>3. ASSUME NEW c \in Sockets, SocketOpens(c) \/ SocketCloses(c) \/ ReceiveEvent(c)
        PROVE  Types' /\ Known'
    BY <1>3, StillKnown, ClosesKnown, ReceiveKnown
  <1>4. CASE UNCHANGED vars
    BY <1>4, StutterKnown
  <1> QED BY <1>1, <1>2, <1>3, <1>4 DEF Next, Rest

(* The client's types, and its picture of the gateway: it streams if and    *)
(* only if there is an answer to fill, and the last response it knows was   *)
(* started.                                                                 *)
THEOREM TypesOfTheClient == Spec => []TypeOK
  <1>1. Types /\ Known /\ [Next]_vars => Types' /\ Known'
    BY NextKnown
  <1>2. Types /\ Known => TypeOK
    <2> SUFFICES ASSUME Types, Known PROVE TypeOK
      OBVIOUS
    <2>1. refused \subseteq Messages
      BY Notes, ClientAssumption DEF Types, Messages
    <2>2. \A c \in Sockets : session[c] # 0 <=> phase[c] # "none"
      BY DEF Known, Named
    <2> QED BY <2>1, <2>2 DEF Types, Known, TypeOK
  <1> QED BY <1>1, <1>2, InitKnown, PTL DEF Spec

-----------------------------------------------------------------------------
(* The steps of the gateway keep the page's picture. *)

(* A connection on which something happens was opened. *)
LEMMA Acting ==
  ASSUME Types, Page, NEW c \in Sockets, up[c] # <<>> \/ session[c] # 0
  PROVE  /\ ready[c] \notin {"none", "connecting"}
         /\ ready[c] = "open" => c = socket
  <1>1. ready[c] \notin {"none", "connecting"}
    BY DEF Page, OneSocket
  <1>2. ready[c] = "open" => c = socket
    <2>1. c \in Nat /\ socket \in Nat
      BY ClientAssumption DEF Types, Sockets
    <2>2. ready[c] = "open" => ~(c < socket) /\ ~(c > socket)
      BY DEF Page, OneSocket
    <2> QED BY <2>1, <2>2
  <1> QED BY <1>1, <1>2

(* The messages sent on c. *)
Of(c) == {r \in 1..Len(log) : log[r].socket = c}

LEMMA ServerPage ==
  ASSUME Types, Known, ~replaced, Page, NEW c \in Sockets, Only(c),
         ready[c] \notin {"none", "connecting"},
         ready[c] = "open" \/ down'[c] = down[c],
         Due' \subseteq Due \cup Of(c),
         OneWaits(c)', CancelsMeanIt(c)', ContinuesTheLast',
         c = socket /\ ready[c] = "open" =>
             Newest' /\ (~isStreaming => Resting(c)') /\ (isStreaming => Streaming(c)')
  PROVE  Page'
  <1>1. UNCHANGED clientVars
    BY DEF Only
  <1>2. OneSocket'
    <2>1. ASSUME NEW e \in Sockets
          PROVE  /\ ready[e] \in {"none", "connecting"} => up'[e] = <<>> /\ session'[e] = 0
                 /\ ready[e] # "open" => down'[e] = <<>>
      BY DEF Only, Page, OneSocket
    <2> QED BY <1>1, <2>1 DEF clientVars, Page, OneSocket
  <1>3. ASSUME NEW e \in Sockets, e # c PROVE OneWaits(e)' /\ CancelsMeanIt(e)'
    <2>1. Creates(e)' = Creates(e) /\ Cancels(e)' = Cancels(e) /\ (Free(e)' <=> Free(e))
      BY <1>3 DEF Only, Creates, Cancels, Free
    <2>2. OneWaits(e)'
      <3>1. OneWaits(e) /\ log' = log /\ up'[e] = up[e]
        BY <1>1, <1>3 DEF Only, Page, clientVars
      <3> QED BY <2>1, <3>1 DEF OneWaits
    <2>3. CancelsMeanIt(e)'
      BY <1>1, <1>3, <2>1 DEF Only, Page, CancelsMeanIt, clientVars
    <2> QED BY <2>2, <2>3
  <1>4. PICK k \in Sockets : k = socket /\ k = socket'
    BY <1>1 DEF clientVars, Types
  <1>5. ASSUME ready[k] = "open"
        PROVE  Newest' /\ (~isStreaming => Resting(k)') /\ (isStreaming => Streaming(k)')
    <2>1. CASE k = c
      BY <1>4, <1>5, <2>1
    <2>2. CASE k # c
      <3>1. /\ Main(k)' = Main(k) /\ Creates(k)' = Creates(k) /\ (Free(k)' <=> Free(k))
            /\ up'[k] = up[k] /\ down'[k] = down[k]
            /\ session'[k] = session[k] /\ phase'[k] = phase[k]
        BY <2>2 DEF Only, Main, Creates, Free
      <3>2. Newest /\ (~isStreaming => Resting(k)) /\ (isStreaming => Streaming(k))
        BY <1>4, <1>5 DEF Page
      <3>3. Newest'
        <4>1. \A x \in Due' : log[x].socket = socket => x \in Due
          BY <1>4, <2>2 DEF Of
        <4> QED BY <1>1, <3>2, <4>1 DEF Newest, clientVars
      <3>4. ~isStreaming => Resting(k)'
        BY <3>1, <3>2 DEF Resting
      <3>5. ASSUME isStreaming PROVE Streaming(k)'
        <4>1. Streaming(k) /\ body' = body /\ log' = log /\ thread' = thread
              /\ lastResponseId' = lastResponseId
          BY <1>1, <3>2, <3>5 DEF clientVars
        <4>2. body \in Due' => body \in Due
          BY <1>4, <2>2, <4>1 DEF Streaming, Of
        <4> QED BY <3>1, <4>1, <4>2 DEF Streaming
      <3> QED BY <3>3, <3>4, <3>5
    <2> QED BY <2>1, <2>2
  <1>6. ready'[k] = "open" =>
          Newest' /\ (~isStreaming' => Resting(k)') /\ (isStreaming' => Streaming(k)')
    BY <1>1, <1>5 DEF clientVars
  <1>7. /\ lastResponseId' # 0 => lastResponseId' >= thread'
        /\ thread' = 0 => \A r \in 1..Len(log') : log'[r].thread = 0
        /\ \A r \in Messages : shown'[r] \subseteq {r}
    BY <1>1 DEF clientVars, Page
  <1>8. \A e \in Sockets : OneWaits(e)' /\ CancelsMeanIt(e)'
    BY <1>3
  <1> QED BY <1>2, <1>4, <1>6, <1>7, <1>8 DEF Page

LEMMA ConsumesPage ==
  ASSUME Types, Known, ~replaced, Page, NEW c \in Sockets, Consumes(c)
  PROVE  Page'
  <1>1. /\ Only(c) /\ Taken(c) /\ Due' = Due /\ UNCHANGED clientVars
        /\ session'[c] = session[c] /\ phase'[c] = phase[c]
    BY DEF Consumes, Only, Due
  <1>2. up[c] # <<>>
    BY <1>1 DEF Taken
  <1>3. ready[c] \notin {"none", "connecting"}
    BY <1>2, Acting
  <1>4. /\ \A i \in Creates(c)' : i + 1 \in Creates(c) /\ i \in Nat /\ up'[c][i] = up[c][i + 1]
        /\ \A i \in Cancels(c)' : i + 1 \in Cancels(c) /\ up'[c][i] = up[c][i + 1]
    BY <1>1, TakenFacts DEF Creates
  <1>5. Main(c)' = Main(c) /\ \A i \in Main(c) : down'[c][i] = down[c][i]
    BY ErrorSent DEF Consumes
  <1>6. Free(c)' <=> Free(c)
    BY <1>1 DEF Free
  <1>7. OneWaits(c)'
    <2>1. ASSUME NEW i \in Creates(c)', NEW j \in Creates(c)' PROVE i = j
      <3>1. i + 1 = j + 1 /\ i \in Nat /\ j \in Nat
        BY <1>4 DEF Page, OneWaits
      <3> QED BY <3>1
    <2>2. Creates(c)' # {} => Free(c)'
      BY <1>4, <1>6 DEF Page, OneWaits
    <2>3. \A i \in Creates(c)', r \in 1..Len(log) : log[r].socket = c => r <= up'[c][i].id
      BY <1>4 DEF Page, OneWaits
    <2> QED BY <1>1, <2>1, <2>2, <2>3 DEF OneWaits, clientVars
  <1>8. CancelsMeanIt(c)'
    BY <1>1, <1>4 DEF Page, CancelsMeanIt
  <1>9. ContinuesTheLast'
    BY <1>1 DEF Page, ContinuesTheLast, Due, clientVars
  <1>10. ready[c] = "open" \/ down'[c] = down[c]
    BY DEF Consumes, Sent
  <1>11. ASSUME c = socket, ready[c] = "open"
         PROVE  Newest' /\ (~isStreaming => Resting(c)') /\ (isStreaming => Streaming(c)')
    <2>1. Newest /\ (~isStreaming => Resting(c)) /\ (isStreaming => Streaming(c))
      BY <1>11 DEF Page
    <2>2. Newest'
      BY <1>1, <2>1 DEF Newest, clientVars
    <2>3. ~isStreaming => Resting(c)'
      BY <1>4, <1>5, <1>6, <2>1 DEF Resting
    <2>4. ASSUME isStreaming PROVE Streaming(c)'
      <3>1. Streaming(c) /\ body' = body /\ log' = log /\ thread' = thread
            /\ lastResponseId' = lastResponseId /\ Due' = Due
        BY <1>1, <2>1, <2>4 DEF clientVars
      <3> QED BY <1>1, <1>4, <1>5, <1>6, <3>1 DEF Streaming
    <2> QED BY <2>2, <2>3, <2>4
  <1>12. Due' \subseteq Due \cup Of(c)
    BY <1>1
  <1> QED BY <1>1, <1>3, <1>7, <1>8, <1>9, <1>10, <1>11, <1>12, ServerPage

LEMMA StartsPage ==
  ASSUME Types, Known, ~replaced, Page, NEW c \in Sockets, Starts(c)
  PROVE  Page'
  <1>1. PICK r : r = Head(up[c]).id
    OBVIOUS
  <1>2. /\ Only(c) /\ Taken(c) /\ started' = started \cup {r} /\ UNCHANGED clientVars
        /\ Due' \subseteq Due \cup {r}
        /\ session[c] = 0 /\ session'[c] = r /\ phase'[c] = "started" /\ down'[c] = down[c]
        /\ Head(up[c]).type = "create"
    BY <1>1 DEF Starts, Only, Due
  <1>3. up[c] # <<>>
    BY <1>2 DEF Taken
  <1>4. ready[c] \notin {"none", "connecting"}
    BY <1>3, Acting
  <1>5. /\ 1 \in Creates(c) /\ up[c][1].id = r
        /\ \A i \in Creates(c)' : i + 1 \in Creates(c) /\ i + 1 # 1
        /\ \A i \in Cancels(c)' : i + 1 \in Cancels(c) /\ up'[c][i] = up[c][i + 1]
    BY <1>1, <1>2, TakenFacts
  <1>6. /\ r \in 1..Len(log) /\ log[r].socket = c /\ r \notin started
        /\ \A s \in 1..Len(log) : log[s].socket = c => s <= r
    BY <1>5 DEF Known, Named, Page, OneWaits
  <1>7. Creates(c)' = {}
    BY <1>5 DEF Page, OneWaits
  <1>8. OneWaits(c)'
    BY <1>7 DEF OneWaits
  <1>9. CancelsMeanIt(c)'
    <2>1. \A i \in Cancels(c)' : up'[c][i].id # r
      BY <1>5, <1>6 DEF Known, Named
    <2> QED BY <1>2, <2>1 DEF CancelsMeanIt
  <1>10. ContinuesTheLast'
    <2>1. log' = log /\ replaced' = replaced
      BY <1>2 DEF clientVars
    <2>2. ASSUME NEW q \in 1..Len(log), NEW s \in Due',
                 log[q].previous < s, s < q, log[s].thread = log[q].thread
          PROVE  log[s].socket # log[q].socket
      <3>1. CASE s \in Due
        BY <2>2, <3>1 DEF Page, ContinuesTheLast, Due
      <3>2. CASE s = r
        <4>1. Len(log) \in Nat
          BY Notes
        <4>2. log[q].socket = c => q <= r
          BY <1>6
        <4>3. ~(q <= r)
          BY <1>6, <2>2, <3>2, <4>1
        <4> QED BY <1>6, <3>2, <4>2, <4>3
      <3> QED BY <1>2, <2>2, <3>1, <3>2
    <2>3. \A q \in 1..Len(log) : log[q].previous # 0 => log[q].previous >= log[q].thread
      BY DEF Page, ContinuesTheLast, Due
    <2> QED BY <2>1, <2>2, <2>3 DEF ContinuesTheLast, Due
  <1>11. ASSUME c = socket, ready[c] = "open"
         PROVE  Newest' /\ (~isStreaming => Resting(c)') /\ (isStreaming => Streaming(c)')
    <2>1. Newest /\ ~Resting(c) /\ (~isStreaming => Resting(c)) /\ (isStreaming => Streaming(c))
      BY <1>5, <1>11 DEF Page, Resting
    <2>2. Streaming(c) /\ isStreaming /\ body = r /\ Main(c) = {}
      BY <1>5, <2>1 DEF Streaming
    <2>3. /\ body' = body /\ log' = log /\ thread' = thread /\ socket' = socket
          /\ lastResponseId' = lastResponseId
      BY <1>2 DEF clientVars
    <2>4. Newest'
      BY <1>2, <2>1, <2>2, <2>3 DEF Newest
    <2>5. Main(c)' = {}
      BY <1>2, <2>2 DEF Main
    <2>6. Streaming(c)'
      BY <1>2, <1>7, <2>2, <2>3, <2>5 DEF Streaming
    <2> QED BY <2>2, <2>4, <2>6
  <1>12. Due' \subseteq Due \cup Of(c)
    BY <1>2, <1>6 DEF Of
  <1>13. ready[c] = "open" \/ down'[c] = down[c]
    BY <1>2
  <1> QED BY <1>2, <1>4, <1>8, <1>9, <1>10, <1>11, <1>12, <1>13, ServerPage

LEMMA SaysPage ==
  ASSUME Types, Known, ~replaced, Page, NEW c \in Sockets,
         NEW type \in Said, Says(c, type)
  PROVE  Page'
  <1>1. /\ Only(c) /\ up'[c] = up[c] /\ Due' \subseteq Due /\ UNCHANGED clientVars
        /\ session'[c] = session[c] /\ phase[c] \notin {"none", "ending"}
        /\ phase'[c] # "none" /\ Sent(c, Note(type, session[c]))
        /\ phase'[c] = "ending" <=> type = "completed"
        /\ phase[c] = "started" => type = "created" \/ session[c] \notin Due'
    BY DEF Says, Only, Said, Due
  <1>2. session[c] # 0 /\ ~Free(c)
    BY <1>1 DEF Known, Named, Free
  <1>3. ready[c] \notin {"none", "connecting"}
    BY <1>2, Acting
  <1>4. Creates(c)' = {} /\ Cancels(c)' = Cancels(c)
    BY <1>1, <1>2 DEF Page, OneWaits, Creates, Cancels
  <1>5. OneWaits(c)'
    BY <1>4 DEF OneWaits
  <1>6. CancelsMeanIt(c)'
    BY <1>1, <1>4 DEF Page, CancelsMeanIt
  <1>7. ContinuesTheLast'
    BY <1>1 DEF Page, ContinuesTheLast, Due, clientVars
  <1>8. ready[c] = "open" \/ down'[c] = down[c]
    BY <1>1 DEF Sent
  <1>9. ASSUME c = socket, ready[c] = "open"
        PROVE  Newest' /\ (~isStreaming => Resting(c)') /\ (isStreaming => Streaming(c)')
    <2>1. Newest /\ isStreaming /\ Streaming(c)
      BY <1>2, <1>9 DEF Page, Resting
    <2>2. session[c] = body /\ \A i \in Main(c) : down[c][i].type # "completed"
      BY <1>2, <2>1 DEF Streaming
    <2>3. /\ body' = body /\ log' = log /\ thread' = thread /\ socket' = socket
          /\ lastResponseId' = lastResponseId
      BY <1>1 DEF clientVars
    <2>4. Newest'
      BY <1>1, <2>1, <2>3 DEF Newest
    <2>5. PICK x \in EventNotes : x = Note(type, session[c]) /\ x.type = type /\ x.id = body
      <3>1. Note(type, session[c]) \in EventNotes
        BY Notes DEF Note, EventNotes, Said
      <3>2. Note(type, session[c]).type = type /\ Note(type, session[c]).id = session[c]
        BY DEF Note
      <3> QED BY <2>2, <3>1, <3>2
    <2>6. Sent(c, x)
      BY <1>1, <2>5
    <2>7. /\ \A i \in Main(c)' :
                \/ i \in Main(c) /\ down'[c][i] = down[c][i] /\ i <= Len(down[c])
                \/ i = Len(down[c]) + 1 /\ down'[c][i] = x
          /\ \A i \in Main(c) : i \in Main(c)' /\ down'[c][i] = down[c][i]
          /\ type # "error" => Len(down[c]) + 1 \in Main(c)' /\ down'[c][Len(down[c]) + 1] = x
      BY <1>9, <2>5, <2>6, SentFacts
    <2>8. Streaming(c)'
      <3>1. \A i \in Main(c)' : down'[c][i].id = body'
        BY <2>1, <2>3, <2>5, <2>7 DEF Streaming
      <3>2. ~Free(c)' => /\ session'[c] = body'
                        /\ \A i \in Main(c)' : down'[c][i].type # "completed"
        BY <1>1, <2>2, <2>3, <2>5, <2>7 DEF Free
      <3>3. ASSUME NEW i \in Main(c)', NEW j \in Main(c)', down'[c][i].type = "completed"
            PROVE  j <= i
        <4>1. i = Len(down[c]) + 1
          BY <2>2, <2>7, <3>3
        <4>2. j <= Len(down[c]) \/ j = Len(down[c]) + 1
          BY <2>7
        <4>3. Len(down[c]) \in Nat /\ j \in Nat
          BY Notes DEF Main
        <4> QED BY <4>1, <4>2, <4>3
      <3>4. body' \in Due' /\ log'[body'].thread = thread' =>
               lastResponseId' = body' \/ \E i \in Main(c)' : down'[c][i].type = "created"
        <4>1. CASE lastResponseId = body
          BY <2>3, <4>1
        <4>2. CASE \E i \in Main(c) : down[c][i].type = "created"
          BY <2>7, <4>2
        <4>3. CASE phase[c] = "started"
          BY <1>1, <2>2, <2>3, <2>5, <2>7, <4>3
        <4> QED BY <1>1, <2>1, <2>3, <4>1, <4>2, <4>3 DEF Streaming
      <3>5. body' = Len(log') /\ log'[body'].socket = c
        BY <2>1, <2>3 DEF Streaming
      <3> QED BY <1>4, <3>1, <3>2, <3>3, <3>4, <3>5 DEF Streaming
    <2> QED BY <2>1, <2>4, <2>8
  <1>10. Due' \subseteq Due \cup Of(c)
    BY <1>1
  <1> QED BY <1>1, <1>3, <1>5, <1>6, <1>7, <1>8, <1>9, <1>10, ServerPage

LEMMA EndsPage ==
  ASSUME Types, Known, ~replaced, Page, NEW c \in Sockets, EndsSession(c),
         up[c] # <<>> \/ session[c] # 0
  PROVE  Page'
  <1>1. /\ Only(c) /\ Due' = Due /\ UNCHANGED clientVars
        /\ session'[c] = 0 /\ down'[c] = down[c]
    BY DEF EndsSession, Only, Due
  <1>2. ready[c] \notin {"none", "connecting"}
    BY Acting
  <1>3. /\ Free(c)' /\ Main(c)' = Main(c)
    BY <1>1 DEF Free, Main
  <1>4. /\ \A i \in Creates(c)' : i \in Creates(c) /\ up'[c][i] = up[c][i]
        /\ \A i \in Cancels(c)' : i \in Cancels(c) /\ up'[c][i] = up[c][i]
    BY DEF EndsSession, Creates, Cancels
  <1>5. OneWaits(c)'
    BY <1>1, <1>3, <1>4 DEF Page, OneWaits, clientVars
  <1>6. CancelsMeanIt(c)'
    <2>1. \A i \in Cancels(c) : up[c][i].id # 0
      BY Notes, ClientAssumption DEF Cancels, Messages
    <2>2. \A i \in Cancels(c)' : up'[c][i].id # 0
      BY <1>4, <2>1
    <2> QED BY <1>1, <2>2 DEF CancelsMeanIt
  <1>7. ContinuesTheLast'
    BY <1>1 DEF Page, ContinuesTheLast, Due, clientVars
  <1>8. ASSUME c = socket, ready[c] = "open"
        PROVE  Newest' /\ (~isStreaming => Resting(c)') /\ (isStreaming => Streaming(c)')
    <2>1. phase[c] = "ending"
      BY <1>8 DEF EndsSession
    <2>2. Newest /\ (~isStreaming => Resting(c)) /\ (isStreaming => Streaming(c))
      BY <1>8 DEF Page
    <2>3. /\ body' = body /\ log' = log /\ thread' = thread /\ socket' = socket
          /\ lastResponseId' = lastResponseId
      BY <1>1 DEF clientVars
    <2>4. Newest'
      BY <1>1, <2>2, <2>3 DEF Newest
    <2>5. ~isStreaming => Resting(c)'
      BY <1>3, <1>4, <2>2 DEF Resting
    <2>6. isStreaming => Streaming(c)'
      BY <1>1, <1>3, <1>4, <2>1, <2>2, <2>3 DEF Streaming
    <2> QED BY <2>4, <2>5, <2>6
  <1>9. /\ Due' \subseteq Due \cup Of(c)
        /\ ready[c] = "open" \/ down'[c] = down[c]
    BY <1>1
  <1> QED BY <1>1, <1>2, <1>5, <1>6, <1>7, <1>8, <1>9, ServerPage

-----------------------------------------------------------------------------
(* The steps of the page keep its picture. *)

(* Sockets whose channels and sessions a step leaves as they are. *)
LEMMA QueuesStay ==
  ASSUME Types, Page, NEW e \in Sockets, up'[e] = up[e], UNCHANGED <<log, serverVars>>
  PROVE  OneWaits(e)' /\ CancelsMeanIt(e)'
  <1>1. /\ Creates(e)' = Creates(e) /\ Cancels(e)' = Cancels(e) /\ (Free(e)' <=> Free(e))
        /\ OneWaits(e) /\ CancelsMeanIt(e)
        /\ session' = session /\ phase' = phase /\ log' = log
    BY DEF Creates, Cancels, Free, serverVars, Page
  <1>2. OneWaits(e)'
    BY <1>1 DEF OneWaits
  <1>3. CancelsMeanIt(e)'
    BY <1>1 DEF CancelsMeanIt
  <1> QED BY <1>2, <1>3

LEMMA SendPage ==
  ASSUME Types, Known, ~replaced, Page, SendMessage
  PROVE  Page'
  <1>1. PICK r : r = Len(log) + 1
    OBVIOUS
  <1>2. Send(socket) /\ ready[socket] = "open" /\ ~isStreaming
    BY DEF SendMessage
  <1>3. /\ r \in Messages /\ r # 0 /\ r \in Nat
        /\ log' \in Seq(Entries) /\ Len(log') = r /\ r \in 1..Len(log')
        /\ log'[r].socket = socket /\ log'[r].thread = thread
        /\ log'[r].previous = lastResponseId
        /\ \A s \in 1..Len(log) : s \in 1..Len(log') /\ log'[s] = log[s] /\ s < r
        /\ \A s \in 1..Len(log') : s \in 1..Len(log) \/ s = r
        /\ \A e \in Sockets \ {socket} : up'[e] = up[e]
        /\ isStreaming' = TRUE /\ body' = r
        /\ UNCHANGED <<socket, ready, lastResponseId, shown, thread, replaced, down,
                       serverVars>>
    <2>1. r \in Messages
      BY <1>1, <1>2, SendFacts
    <2>2. r \in Nat
      BY <2>1 DEF Messages
    <2> QED BY <1>1, <1>2, <2>1, <2>2, SendFacts
  <1>4. PICK k \in Sockets : k = socket /\ k = socket'
    BY <1>3 DEF Types
  <1>5. PICK x \in Requests : up'[k] = Append(up[k], x) /\ x.type = "create" /\ x.id = r
    BY <1>1, <1>2, <1>4, SendFacts
  <1>6. /\ Newest /\ Main(k) = {} /\ Creates(k) = {} /\ Free(k)
    BY <1>2, <1>4 DEF Page, Resting
  <1>7. /\ Creates(k)' = {Len(up[k]) + 1} /\ up'[k][Len(up[k]) + 1].id = r
        /\ \A i \in Cancels(k)' : i \in Cancels(k) /\ up'[k][i] = up[k][i]
    <2>1. up'[k] = Append(up[k], x)
      BY <1>5
    <2>2. /\ \A i \in Creates(k)' :
                \/ i \in Creates(k) /\ up'[k][i] = up[k][i]
                \/ i = Len(up[k]) + 1 /\ up'[k][i] = x /\ x.type = "create"
          /\ \A i \in Cancels(k)' :
                \/ i \in Cancels(k) /\ up'[k][i] = up[k][i]
                \/ i = Len(up[k]) + 1 /\ up'[k][i] = x /\ x.type = "cancel"
          /\ x.type = "create" => Len(up[k]) + 1 \in Creates(k)'
      BY <2>1, AddedFacts
    <2>3. Creates(k)' = {Len(up[k]) + 1}
      BY <1>5, <1>6, <2>2
    <2>4. up'[k][Len(up[k]) + 1].id = r
      BY <1>5, <1>6, <2>2, <2>3
    <2> QED BY <1>5, <2>2, <2>3, <2>4
  <1>8. /\ session' = session /\ phase' = phase /\ Due' = Due /\ down' = down
        /\ Main(k)' = {} /\ Free(k)'
    BY <1>3, <1>6 DEF serverVars, Due, Main, Free
  <1>9. body = 0 /\ r \notin Due /\ \A s \in Due : s \in 1..Len(log) /\ s # 0
    BY <1>2, <1>3, Notes DEF Known, Types, Due
  <1>10. OneSocket'
    <2>1. /\ \A c \in Sockets : ready[c] \in {"none", "connecting"} => up'[c] = <<>>
      BY <1>2, <1>3, <1>4 DEF Page, OneSocket
    <2>2. \A q \in 1..Len(log') : log'[q].socket <= socket
      BY <1>3, <1>4, ClientAssumption DEF Page, OneSocket, Sockets
    <2>3. \A q \in 1..Len(log') : ready[socket] = "connecting" => log'[q].socket # socket
      BY <1>2
    <2>4. \A c \in Sockets :
             /\ c < socket => ready[c] = "closed"
             /\ c > socket => ready[c] = "none"
             /\ ready[c] \in {"none", "connecting"} => session[c] = 0
             /\ ready[c] # "open" => down[c] = <<>>
      BY DEF Page, OneSocket
    <2>5. socket' = socket /\ ready' = ready
      BY <1>3
    <2> QED BY <1>2, <1>8, <2>1, <2>2, <2>3, <2>4, <2>5 DEF OneSocket
  <1>11. ASSUME NEW e \in Sockets PROVE OneWaits(e)' /\ CancelsMeanIt(e)'
    <2>1. CASE e = k
      <3>1. \A q \in 1..Len(log') : q <= r
        BY <1>3
      <3>2. OneWaits(k)'
        BY <1>7, <1>8, <3>1 DEF OneWaits
      <3>3. CancelsMeanIt(k)'
        BY <1>7, <1>8 DEF Page, CancelsMeanIt
      <3> QED BY <2>1, <3>2, <3>3
    <2>2. CASE e # k
      <3>1. up'[e] = up[e] /\ OneWaits(e) /\ CancelsMeanIt(e)
        BY <1>3, <1>4, <2>2 DEF Page
      <3>2. Creates(e)' = Creates(e) /\ Cancels(e)' = Cancels(e) /\ (Free(e)' <=> Free(e))
        BY <1>8, <3>1 DEF Creates, Cancels, Free
      <3>3. \A i \in Creates(e), q \in 1..Len(log') : log'[q].socket = e => q <= up[e][i].id
        BY <1>3, <1>4, <2>2, <3>1 DEF OneWaits
      <3>4. OneWaits(e)'
        BY <3>1, <3>2, <3>3 DEF OneWaits
      <3>5. CancelsMeanIt(e)'
        BY <1>8, <3>1, <3>2 DEF CancelsMeanIt
      <3> QED BY <3>4, <3>5
    <2> QED BY <2>1, <2>2
  <1>12. Newest'
    BY <1>3, <1>6, <1>8, <1>9 DEF Newest
  <1>13. Streaming(k)'
    BY <1>3, <1>4, <1>7, <1>8, <1>9 DEF Streaming
  <1>14. ContinuesTheLast'
    <2>1. ASSUME NEW q \in 1..Len(log'), NEW s \in Due,
                 log'[q].previous < s, s < q, log'[s].thread = log'[q].thread
          PROVE  log'[s].socket # log'[q].socket
      <3>1. s \in 1..Len(log) /\ log'[s] = log[s]
        BY <1>3, <1>9
      <3>2. CASE q \in 1..Len(log)
        <4>1. log'[q] = log[q]
          BY <1>3, <3>2
        <4> QED BY <2>1, <3>1, <3>2, <4>1 DEF Page, ContinuesTheLast, Due
      <3>3. CASE q = r
        <4>1. lastResponseId < s /\ log[s].thread = thread
          BY <1>3, <2>1, <3>1, <3>3
        <4>2. ~(s <= lastResponseId)
          BY <3>1, <4>1, Notes DEF Types
        <4>3. log[s].socket # socket
          BY <1>6, <1>9, <4>1, <4>2 DEF Newest
        <4> QED BY <1>3, <3>1, <3>3, <4>3
      <3> QED BY <1>3, <3>2, <3>3
    <2>2. ASSUME NEW q \in 1..Len(log'), log'[q].previous # 0
          PROVE  log'[q].previous >= log'[q].thread
      <3>1. CASE q \in 1..Len(log)
        BY <1>3, <2>2, <3>1 DEF Page, ContinuesTheLast, Due
      <3>2. CASE q = r
        BY <1>3, <2>2, <3>2 DEF Page
      <3> QED BY <1>3, <3>1, <3>2
    <2> QED BY <1>8, <2>1, <2>2 DEF ContinuesTheLast, Due
  <1>15. /\ lastResponseId' # 0 => lastResponseId' >= thread'
         /\ thread' = 0 => \A q \in 1..Len(log') : log'[q].thread = 0
         /\ \A q \in Messages : shown'[q] \subseteq {q}
    BY <1>3 DEF Page
  <1> QED BY <1>3, <1>4, <1>10, <1>11, <1>12, <1>13, <1>14, <1>15 DEF Page

LEMMA CancelPage ==
  ASSUME Types, Known, ~replaced, Page, CancelResponse
  PROVE  Page'
  <1>1. /\ isStreaming /\ ready[socket] = "open" /\ lastResponseId # 0
        /\ \A e \in Sockets \ {socket} : up'[e] = up[e]
        /\ UNCHANGED <<socket, ready, isStreaming, lastResponseId, body, shown, log, thread,
                       replaced, down, serverVars>>
    BY CancelFacts
  <1>2. PICK k \in Sockets : k = socket /\ k = socket'
    BY <1>1 DEF Types
  <1>3. PICK x \in Requests : /\ up'[k] = Append(up[k], x)
                              /\ x.type = "cancel" /\ x.id = lastResponseId /\ x.at = body
    BY <1>2, CancelFacts
  <1>4. /\ \A i \in Creates(k)' : i \in Creates(k) /\ up'[k][i] = up[k][i]
        /\ \A i \in Creates(k) : i \in Creates(k)'
        /\ \A i \in Cancels(k)' : \/ i \in Cancels(k) /\ up'[k][i] = up[k][i]
                                  \/ up'[k][i] = x
    <2>1. up'[k] = Append(up[k], x)
      BY <1>3
    <2>2. /\ \A i \in Creates(k)' :
                \/ i \in Creates(k) /\ up'[k][i] = up[k][i]
                \/ i = Len(up[k]) + 1 /\ up'[k][i] = x /\ x.type = "create"
          /\ \A i \in Cancels(k)' :
                \/ i \in Cancels(k) /\ up'[k][i] = up[k][i]
                \/ i = Len(up[k]) + 1 /\ up'[k][i] = x /\ x.type = "cancel"
          /\ \A i \in Creates(k) : i \in Creates(k)' /\ up'[k][i] = up[k][i]
      BY <2>1, AddedFacts
    <2> QED BY <1>3, <2>2
  <1>5. /\ session' = session /\ phase' = phase /\ Due' = Due /\ down' = down
        /\ Main(k)' = Main(k) /\ (Free(k)' <=> Free(k)) /\ log' = log
    BY <1>1 DEF serverVars, Due, Main, Free
  <1>6. Streaming(k) /\ Newest /\ OneWaits(k) /\ CancelsMeanIt(k)
    BY <1>1, <1>2 DEF Page
  <1>7. OneSocket'
    <2>1. \A c \in Sockets : ready[c] \in {"none", "connecting"} => up'[c] = <<>>
      BY <1>1, <1>2 DEF Page, OneSocket
    <2> QED BY <1>1, <1>5, <2>1 DEF Page, OneSocket
  <1>8. OneWaits(k)'
    BY <1>4, <1>5, <1>6 DEF OneWaits
  <1>9. CancelsMeanIt(k)'
    <2>1. \/ x.at = x.id \/ session[k] # x.id \/ phase[k] = "ending"
      BY <1>1, <1>3, <1>6 DEF Streaming, Free
    <2> QED BY <1>4, <1>5, <1>6, <2>1 DEF CancelsMeanIt
  <1>10. ASSUME NEW e \in Sockets, e # k PROVE OneWaits(e)' /\ CancelsMeanIt(e)'
    <2>1. up'[e] = up[e] /\ UNCHANGED <<log, serverVars>>
      BY <1>1, <1>2, <1>10
    <2> QED BY <2>1, QueuesStay
  <1>11. Newest'
    BY <1>1, <1>5, <1>6 DEF Newest
  <1>12. Streaming(k)'
    BY <1>1, <1>4, <1>5, <1>6 DEF Streaming
  <1>13. ContinuesTheLast'
    BY <1>1, <1>5 DEF Page, ContinuesTheLast, Due
  <1>14. /\ lastResponseId' # 0 => lastResponseId' >= thread'
         /\ thread' = 0 => \A q \in 1..Len(log') : log'[q].thread = 0
         /\ \A q \in Messages : shown'[q] \subseteq {q}
    BY <1>1 DEF Page
  <1> QED BY <1>1, <1>2, <1>7, <1>8, <1>9, <1>10, <1>11, <1>12, <1>13, <1>14 DEF Page

LEMMA NewThreadPage ==
  ASSUME Types, Known, ~replaced, Page, NewThread
  PROVE  Page'
  <1>1. /\ thread = 0 /\ lastResponseId' = 0 /\ thread' = Len(log)
        /\ UNCHANGED <<socket, ready, isStreaming, body, shown, log, replaced,
                       up, down, serverVars>>
    BY DEF NewThread
  <1>2. /\ session' = session /\ phase' = phase /\ Due' = Due /\ down' = down
        /\ up' = up /\ log' = log /\ socket' = socket /\ ready' = ready
    BY <1>1 DEF serverVars, Due
  <1>3. \A s \in 1..Len(log) : log[s].thread # Len(log)
    <2> SUFFICES ASSUME NEW s \in 1..Len(log) PROVE log[s].thread # Len(log)
      OBVIOUS
    <2>1. log[s].thread = 0
      BY <1>1 DEF Page
    <2>2. Len(log) # 0
      BY Notes DEF Types
    <2> QED BY <2>1, <2>2
  <1>4. \A s \in Due : log[s].thread # thread'
    BY <1>1, <1>3 DEF Types, Due
  <1>5. Newest'
    BY <1>2, <1>4 DEF Newest
  <1>6. OneSocket'
    BY <1>1, <1>2 DEF Page, OneSocket
  <1>7. \A e \in Sockets : OneWaits(e)' /\ CancelsMeanIt(e)'
    BY <1>1, QueuesStay
  <1>8. PICK k \in Sockets : k = socket /\ k = socket'
    BY <1>2 DEF Types
  <1>9. /\ Main(k)' = Main(k) /\ Creates(k)' = Creates(k) /\ (Free(k)' <=> Free(k))
    BY <1>2 DEF Main, Creates, Free
  <1>10. ASSUME Resting(k) PROVE Resting(k)'
    BY <1>9, <1>10 DEF Resting
  <1>11. ASSUME Streaming(k) PROVE Streaming(k)'
    <2>1. body' = body /\ (body \in Due => log[body].thread # thread')
      BY <1>1, <1>4
    <2> QED BY <1>2, <1>9, <1>11, <2>1 DEF Streaming
  <1>12. /\ ContinuesTheLast'
         /\ thread' = 0 => \A q \in 1..Len(log') : log'[q].thread = 0
         /\ \A q \in Messages : shown'[q] \subseteq {q}
    BY <1>1, <1>2 DEF Page, ContinuesTheLast, Due
  <1> QED BY <1>1, <1>5, <1>6, <1>7, <1>8, <1>10, <1>11, <1>12 DEF Page

LEMMA ReconnectPage ==
  ASSUME Types, Known, ~replaced, Page, Reconnect
  PROVE  Page'
  <1>1. /\ ready[socket] = "closed" /\ socket < MaxSockets /\ socket' = socket + 1
        /\ ready' = [ready EXCEPT ![socket] = "closed", ![socket + 1] = "connecting"]
        /\ UNCHANGED <<isStreaming, lastResponseId, body, shown, log, thread, replaced,
                       up, down, serverVars>>
    BY DEF Reconnect, Opened
  <1>2. /\ session' = session /\ phase' = phase /\ Due' = Due /\ down' = down
        /\ up' = up /\ log' = log
    BY <1>1 DEF serverVars, Due
  <1>3. /\ socket \in Nat /\ socket + 1 \in Sockets /\ \A c \in Sockets : c \in Nat
    BY <1>1, ClientAssumption DEF Types, Sockets
  <1>4. /\ ready'[socket + 1] = "connecting"
        /\ \A c \in Sockets : c # socket + 1 => ready'[c] = ready[c]
    BY <1>1, <1>3 DEF Types
  <1>5. OneSocket'
    <2>1. ASSUME NEW c \in Sockets
          PROVE  /\ c < socket + 1 => ready'[c] = "closed"
                 /\ c > socket + 1 => ready'[c] = "none"
                 /\ ready'[c] \in {"none", "connecting"} => up'[c] = <<>> /\ session'[c] = 0
                 /\ ready'[c] # "open" => down'[c] = <<>>
      <3>1. CASE c = socket + 1
        <4>1. ready[c] = "none"
          BY <1>3, <3>1 DEF Page, OneSocket
        <4> QED BY <1>2, <1>3, <1>4, <3>1, <4>1 DEF Page, OneSocket
      <3>2. CASE c # socket + 1
        <4>1. (c < socket + 1 => c < socket \/ c = socket) /\ (c > socket + 1 => c > socket)
          BY <1>3, <3>2
        <4>2. ready'[c] = ready[c]
          BY <1>4, <3>2
        <4> QED BY <1>1, <1>2, <4>1, <4>2 DEF Page, OneSocket
      <3> QED BY <3>1, <3>2
    <2>2. ASSUME NEW q \in 1..Len(log)
          PROVE  log[q].socket <= socket + 1 /\ log[q].socket # socket + 1
      <3>1. log[q].socket \in Nat /\ log[q].socket <= socket
        BY <1>3, Notes DEF Page, OneSocket, Entries
      <3> QED BY <1>3, <3>1
    <2>3. ~isStreaming
      BY <1>1 DEF Page, OneSocket
    <2> QED BY <1>1, <1>2, <1>4, <2>1, <2>2, <2>3 DEF OneSocket
  <1>6. \A e \in Sockets : OneWaits(e)' /\ CancelsMeanIt(e)'
    BY <1>1, QueuesStay
  <1>7. ready'[socket'] # "open"
    BY <1>1, <1>4
  <1>8. /\ ContinuesTheLast'
        /\ lastResponseId' # 0 => lastResponseId' >= thread'
        /\ thread' = 0 => \A q \in 1..Len(log') : log'[q].thread = 0
        /\ \A q \in Messages : shown'[q] \subseteq {q}
    BY <1>1, <1>2 DEF Page, ContinuesTheLast, Due
  <1> QED BY <1>5, <1>6, <1>7, <1>8 DEF Page

LEMMA OpensPage ==
  ASSUME Types, Known, ~replaced, Page, NEW c \in Sockets, SocketOpens(c)
  PROVE  Page'
  <1>1. /\ ready[c] = "connecting" /\ ready' = [ready EXCEPT ![c] = "open"]
        /\ UNCHANGED <<socket, isStreaming, lastResponseId, body, shown, log, thread, replaced,
                       up, down, serverVars>>
    BY DEF SocketOpens
  <1>2. /\ session' = session /\ phase' = phase /\ Due' = Due /\ down' = down
        /\ up' = up /\ log' = log /\ socket' = socket
    BY <1>1 DEF serverVars, Due
  <1>3. c = socket
    <2>1. c \in Nat /\ socket \in Nat
      BY ClientAssumption DEF Types, Sockets
    <2>2. ~(c < socket) /\ ~(c > socket)
      BY <1>1 DEF Page, OneSocket
    <2> QED BY <2>1, <2>2
  <1>4. /\ up[c] = <<>> /\ session[c] = 0 /\ down[c] = <<>> /\ ~isStreaming
        /\ \A q \in 1..Len(log) : log[q].socket # c
    BY <1>1, <1>3 DEF Page, OneSocket
  <1>5. ready'[c] = "open" /\ \A e \in Sockets \ {c} : ready'[e] = ready[e]
    BY <1>1 DEF Types
  <1>6. OneSocket'
    <2>1. c \in Nat
      BY ClientAssumption DEF Sockets
    <2>2. ASSUME NEW e \in Sockets
          PROVE  /\ e < c => ready'[e] = "closed"
                 /\ e > c => ready'[e] = "none"
                 /\ ready'[e] \in {"none", "connecting"} => up'[e] = <<>> /\ session'[e] = 0
                 /\ ready'[e] # "open" => down'[e] = <<>>
      <3>1. CASE e = c
        BY <1>5, <2>1, <3>1
      <3>2. CASE e # c
        BY <1>2, <1>3, <1>5, <3>2 DEF Page, OneSocket
      <3> QED BY <3>1, <3>2
    <2> QED BY <1>2, <1>3, <1>5, <2>2 DEF Page, OneSocket
  <1>7. \A e \in Sockets : OneWaits(e)' /\ CancelsMeanIt(e)'
    BY <1>1, QueuesStay
  <1>8. Newest'
    BY <1>2, <1>3, <1>4 DEF Newest, Types, Due
  <1>9. Resting(c)'
    BY <1>2, <1>4 DEF Resting, Main, Creates, Free
  <1>10. /\ ContinuesTheLast'
         /\ lastResponseId' # 0 => lastResponseId' >= thread'
         /\ thread' = 0 => \A q \in 1..Len(log') : log'[q].thread = 0
         /\ \A q \in Messages : shown'[q] \subseteq {q}
    BY <1>1, <1>2 DEF Page, ContinuesTheLast, Due
  <1> QED BY <1>1, <1>2, <1>3, <1>4, <1>6, <1>7, <1>8, <1>9, <1>10 DEF Page

LEMMA ClosesPage ==
  ASSUME Types, Known, ~replaced, Page, NEW c \in Sockets, SocketCloses(c)
  PROVE  Page'
  <1>1. /\ ready[c] \in {"connecting", "open", "closing"}
        /\ ready'[c] = "closed" /\ \A e \in Sockets \ {c} : ready'[e] = ready[e]
        /\ down'[c] = <<>> /\ \A e \in Sockets \ {c} : down'[e] = down[e]
        /\ isStreaming' = FALSE
        /\ UNCHANGED <<socket, lastResponseId, shown, log, thread, replaced, up, serverVars>>
    BY ClosesFacts
  <1>2. /\ session' = session /\ phase' = phase /\ Due' = Due
        /\ up' = up /\ log' = log /\ socket' = socket
    BY <1>1 DEF serverVars, Due
  <1>3. c = socket
    <2>1. c \in Nat /\ socket \in Nat
      BY ClientAssumption DEF Types, Sockets
    <2>2. ~(c < socket) /\ ~(c > socket)
      BY <1>1 DEF Page, OneSocket
    <2> QED BY <2>1, <2>2
  <1>4. OneSocket'
    <2>1. c \in Nat
      BY ClientAssumption DEF Sockets
    <2>2. ASSUME NEW e \in Sockets
          PROVE  /\ e < c => ready'[e] = "closed"
                 /\ e > c => ready'[e] = "none"
                 /\ ready'[e] \in {"none", "connecting"} => up'[e] = <<>> /\ session'[e] = 0
                 /\ ready'[e] # "open" => down'[e] = <<>>
      <3>1. CASE e = c
        BY <1>1, <2>1, <3>1
      <3>2. CASE e # c
        BY <1>1, <1>2, <1>3, <3>2 DEF Page, OneSocket
      <3> QED BY <3>1, <3>2
    <2> QED BY <1>1, <1>2, <1>3, <2>2 DEF Page, OneSocket
  <1>5. \A e \in Sockets : OneWaits(e)' /\ CancelsMeanIt(e)'
    BY <1>1, QueuesStay
  <1>6. /\ ContinuesTheLast'
        /\ lastResponseId' # 0 => lastResponseId' >= thread'
        /\ thread' = 0 => \A q \in 1..Len(log') : log'[q].thread = 0
        /\ \A q \in Messages : shown'[q] \subseteq {q}
    BY <1>1, <1>2 DEF Page, ContinuesTheLast, Due
  <1> QED BY <1>1, <1>2, <1>3, <1>4, <1>5, <1>6 DEF Page

(* What an event does to a page that streams. *)
LEMMA ReceivePage ==
  ASSUME Types, Known, ~replaced, Page, NEW c \in Sockets, ReceiveEvent(c)
  PROVE  Page'
  <1>1. PICK x : x = Head(down[c])
    OBVIOUS
  <1>2. /\ ready[c] = "open" /\ Heard(c) /\ x \in EventNotes /\ HandleEvent(x)
        /\ \A e \in Sockets \ {c} : down'[e] = down[e]
        /\ UNCHANGED <<socket, ready, log, thread, replaced, up, serverVars>>
    BY <1>1, ReceiveFacts
  <1>3. /\ session' = session /\ phase' = phase /\ Due' = Due
        /\ up' = up /\ log' = log /\ socket' = socket /\ ready' = ready /\ thread' = thread
    BY <1>2 DEF serverVars, Due
  <1>4. c = socket
    <2>1. c \in Nat /\ socket \in Nat
      BY ClientAssumption DEF Types, Sockets
    <2>2. ~(c < socket) /\ ~(c > socket)
      BY <1>2 DEF Page, OneSocket
    <2> QED BY <2>1, <2>2
  <1>5. /\ Newest /\ (~isStreaming => Resting(c)) /\ (isStreaming => Streaming(c))
    BY <1>2, <1>4 DEF Page
  <1>6. /\ x = down[c][1] /\ (x.type # "error" => 1 \in Main(c))
        /\ \A i \in Main(c)' : i \in Nat /\ i + 1 \in Main(c) /\ i + 1 # 1
                               /\ down'[c][i] = down[c][i + 1]
        /\ \A i \in Main(c) : i # 1 => /\ i - 1 \in Main(c)'
                                       /\ down'[c][i - 1] = down[c][i]
        /\ 1 \in Main(c) => x.type # "error"
    BY <1>1, <1>2, HeardFacts
  <1>7. x.type # "error" => Streaming(c) /\ isStreaming /\ x.id = body /\ Creates(c) = {}
    BY <1>5, <1>6 DEF Resting, Streaming
  <1>8. OneSocket' <=> (isStreaming' => ready[socket] = "open")
    <2>1. \A e \in Sockets : ready[e] # "open" => down'[e] = <<>>
      BY <1>2 DEF Page, OneSocket
    <2> QED BY <1>3, <2>1 DEF Page, OneSocket
  <1>9. OneSocket'
    BY <1>2, <1>4, <1>8
  <1>10. \A e \in Sockets : OneWaits(e)' /\ CancelsMeanIt(e)'
    BY <1>2, QueuesStay
  <1>11. /\ ContinuesTheLast'
         /\ thread' = 0 => \A q \in 1..Len(log') : log'[q].thread = 0
    BY <1>3, <1>2 DEF Page, ContinuesTheLast, Due
  <1>12. /\ Creates(c)' = Creates(c) /\ (Free(c)' <=> Free(c))
    BY <1>3 DEF Creates, Free
  <1>13. ASSUME isStreaming, body' = body, x.type # "completed",
                \/ lastResponseId' = body
                \/ lastResponseId' = lastResponseId /\ x.type # "created"
         PROVE  Streaming(c)'
    <2>1. Streaming(c)
      BY <1>5, <1>13
    <2>2. /\ \A i \in Main(c)' : down'[c][i].id = body
          /\ ~Free(c) => \A i \in Main(c)' : down'[c][i].type # "completed"
      BY <1>6, <2>1 DEF Streaming
    <2>3. ASSUME NEW i \in Main(c)', NEW j \in Main(c)', down'[c][i].type = "completed"
          PROVE  j <= i
      <3>1. j + 1 <= i + 1 /\ i \in Nat /\ j \in Nat
        BY <1>6, <2>1, <2>3 DEF Streaming
      <3> QED BY <3>1
    <2>4. Main(c)' # {} => Main(c) # {}
      BY <1>6
    <2>5. (\E i \in Main(c) : down[c][i].type = "created") /\ x.type # "created" =>
             \E i \in Main(c)' : down'[c][i].type = "created"
      BY <1>6
    <2>6. body \in Due /\ log[body].thread = thread =>
             \/ lastResponseId' = body
             \/ \E i \in Main(c)' : down'[c][i].type = "created"
             \/ session[c] = body /\ phase[c] = "started"
      BY <1>13, <2>1, <2>5 DEF Streaming
    <2> QED BY <1>3, <1>12, <1>13, <2>1, <2>2, <2>3, <2>4, <2>6 DEF Streaming
  <1>14. CASE x.type = "created"
    <2>1. lastResponseId' = body /\ UNCHANGED <<isStreaming, body, shown>>
      BY <1>2, <1>7, <1>14 DEF HandleEvent, Created
    <2>2. body = Len(log)
      BY <1>7, <1>14 DEF Streaming
    <2>3. Newest'
      <3>1. \A q \in Due : q <= Len(log)
        BY Notes DEF Types, Due
      <3> QED BY <1>3, <2>1, <2>2, <3>1 DEF Newest
    <2>4. Streaming(c)' /\ isStreaming'
      BY <1>7, <1>13, <1>14, <2>1
    <2>5. lastResponseId' >= thread'
      BY <1>3, <2>1, <2>2, Notes DEF Types
    <2> QED BY <1>3, <1>4, <1>9, <1>10, <1>11, <2>1, <2>3, <2>4, <2>5 DEF Page
  <1>15. CASE x.type = "delta"
    <2>1. /\ shown' = IF body = 0 THEN shown ELSE [shown EXCEPT ![body] = @ \cup {body}]
          /\ UNCHANGED <<isStreaming, lastResponseId, body>>
      BY <1>2, <1>7, <1>15 DEF HandleEvent, Display
    <2>2. \A q \in Messages : shown'[q] \subseteq {q}
      BY <2>1 DEF Page, Types
    <2>3. Newest'
      BY <1>3, <1>5, <2>1 DEF Newest
    <2>4. Streaming(c)' /\ isStreaming'
      BY <1>7, <1>13, <1>15, <2>1
    <2>5. lastResponseId' # 0 => lastResponseId' >= thread'
      BY <1>3, <2>1 DEF Page
    <2> QED BY <1>3, <1>4, <1>9, <1>10, <1>11, <2>2, <2>3, <2>4, <2>5 DEF Page
  <1>16. CASE x.type = "completed"
    <2>1. isStreaming' = FALSE /\ body' = 0 /\ UNCHANGED <<lastResponseId, shown>>
      BY <1>2, <1>16 DEF HandleEvent, Completed, EndStreaming
    <2>2. Streaming(c) /\ 1 \in Main(c) /\ down[c][1].type = "completed"
      BY <1>6, <1>7, <1>16
    <2>3. Free(c) /\ \A i \in Main(c) : i <= 1
      BY <2>2 DEF Streaming
    <2>4. Main(c)' = {}
      <3>1. ASSUME NEW i \in Main(c)' PROVE FALSE
        <4>1. i \in Nat /\ i + 1 <= 1 /\ i + 1 # 1
          BY <1>6, <2>3
        <4> QED BY <4>1
      <3> QED BY <3>1
    <2>5. Resting(c)'
      BY <1>7, <1>12, <1>16, <2>3, <2>4 DEF Resting
    <2>6. body \in Due /\ log[body].thread = thread => lastResponseId = body
      <3>1. \A i \in Main(c) : i = 1
        BY <2>3 DEF Main
      <3>2. body \in started
        BY <1>6, <1>7, <2>2 DEF Known, Named
      <3>3. phase[c] # "started" \/ session[c] # body
        BY <2>3, <3>2, Notes, ClientAssumption DEF Free, Types
      <3> QED BY <2>2, <3>1, <3>2, <3>3 DEF Streaming
    <2>7. Newest'
      <3>1. \A q \in Due : q <= q
        BY Notes DEF Types, Due
      <3> QED BY <1>3, <1>5, <2>1, <2>6, <3>1 DEF Newest
    <2>8. /\ lastResponseId' # 0 => lastResponseId' >= thread'
          /\ \A q \in Messages : shown'[q] \subseteq {q}
      BY <1>3, <2>1 DEF Page
    <2> QED BY <1>3, <1>4, <1>9, <1>10, <1>11, <2>1, <2>5, <2>7, <2>8 DEF Page
  <1>17. CASE x.type = "error"
    <2>1. UNCHANGED <<isStreaming, lastResponseId, body, shown>>
      BY <1>2, <1>17 DEF HandleEvent
    <2>2. Newest'
      BY <1>3, <1>5, <2>1 DEF Newest
    <2>3. isStreaming => Streaming(c)'
      BY <1>13, <1>17, <2>1
    <2>4. ~isStreaming => Resting(c)'
      BY <1>5, <1>6, <1>12 DEF Resting
    <2>5. /\ lastResponseId' # 0 => lastResponseId' >= thread'
          /\ \A q \in Messages : shown'[q] \subseteq {q}
      BY <1>3, <2>1 DEF Page
    <2> QED BY <1>3, <1>4, <1>9, <1>10, <1>11, <2>1, <2>2, <2>3, <2>4, <2>5 DEF Page
  <1> QED BY <1>2, <1>14, <1>15, <1>16, <1>17 DEF EventNotes

-----------------------------------------------------------------------------
(* The invariant, and what follows from it. *)

LEMMA InitPage == Init => Page
  <1> SUFFICES ASSUME Init PROVE Page
    OBVIOUS
  <1>1. Len(log) = 0 /\ socket = 1 /\ 1 \in Sockets
    BY ClientAssumption DEF Init, Sockets
  <1>2. \A c \in Sockets : /\ ready[c] = IF c = 1 THEN "connecting" ELSE "none"
                           /\ up[c] = <<>> /\ down[c] = <<>> /\ session[c] = 0
    BY DEF Init
  <1>3. OneSocket
    <2>1. \A c \in Sockets : c \in Nat /\ ~(c < 1) /\ (c > 1 => c # 1)
      BY ClientAssumption DEF Sockets
    <2>2. ~isStreaming
      BY DEF Init
    <2> QED BY <1>1, <1>2, <2>1, <2>2 DEF OneSocket
  <1>4. \A c \in Sockets : OneWaits(c) /\ CancelsMeanIt(c)
    BY <1>2 DEF OneWaits, CancelsMeanIt, Creates, Cancels
  <1>5. ready[socket] # "open"
    BY <1>1, <1>2
  <1>6. ContinuesTheLast
    BY <1>1 DEF ContinuesTheLast
  <1>7. lastResponseId = 0 /\ \A r \in Messages : shown[r] \subseteq {r}
    BY DEF Init
  <1> QED BY <1>1, <1>3, <1>4, <1>5, <1>6, <1>7 DEF Page

LEMMA NextPage ==
  ASSUME Types, Known, ~replaced => Page, [Next]_vars, ~replaced'
  PROVE  Page'
  <1>1. CASE UserStep
    <2>1. SendMessage \/ CancelResponse \/ NewThread \/ Reconnect => ~replaced
      BY DEF SendMessage, Send, CancelResponse, NewThread, Reconnect
    <2>2. ~Replace
      BY DEF Replace
    <2> QED BY <1>1, <2>1, <2>2, SendPage, CancelPage, NewThreadPage, ReconnectPage DEF UserStep
  <1>2. ASSUME NEW c \in Sockets, ServerStep(c) PROVE Page'
    <2>1. CASE Busy(c) \/ Cancel(c) \/ CancelRefused(c) \/ Refuse(c)
      <3>1. Consumes(c)
        BY <2>1, ConsumingSteps
      <3>2. ~replaced
        BY <3>1 DEF Consumes, Only, clientVars
      <3> QED BY <3>1, <3>2, ConsumesPage
    <2>2. CASE Create(c)
      <3>1. Starts(c)
        BY <2>2, CreateStarts
      <3>2. ~replaced
        BY <3>1 DEF Starts, Only, clientVars
      <3> QED BY <3>1, <3>2, StartsPage
    <2>3. CASE SayCreated(c) \/ SayDelta(c) \/ SayError(c) \/ SayCompleted(c)
      <3>1. PICK type \in Said : Says(c, type)
        BY <2>3, SayingSteps
      <3>2. ~replaced
        BY <3>1 DEF Says, Only, clientVars
      <3> QED BY <3>1, <3>2, SaysPage
    <2>4. CASE TaskDone(c) \/ Disconnect(c)
      <3>1. EndsSession(c)
        BY <2>4, EndingSteps
      <3>2. ~replaced
        BY <3>1 DEF EndsSession, Only, clientVars
      <3>3. up[c] # <<>> \/ session[c] # 0
        BY <2>4 DEF TaskDone, Disconnect, Known, Named
      <3> QED BY <3>1, <3>2, <3>3, EndsPage
    <2> QED BY <1>2, <2>1, <2>2, <2>3, <2>4 DEF ServerStep
  <1>3. ASSUME NEW c \in Sockets, SocketOpens(c) \/ SocketCloses(c) \/ ReceiveEvent(c)
        PROVE  Page'
    <2>1. ~replaced
      BY <1>3 DEF SocketOpens, SocketCloses, ReceiveEvent
    <2> QED BY <1>3, <2>1, OpensPage, ClosesPage, ReceivePage
  <1>4. CASE UNCHANGED vars
    <2>1. UNCHANGED <<clientVars, up, down, serverVars>>
      BY <1>4 DEF vars
    <2>2. Page
      BY <2>1 DEF clientVars
    <2> QED BY <2>1, <2>2
          DEF clientVars, serverVars, Page, OneSocket, OneWaits, CancelsMeanIt, Newest,
              Due, Resting, Streaming, ContinuesTheLast, Creates, Cancels, Main, Free
  <1> QED BY <1>1, <1>2, <1>3, <1>4 DEF Next, Rest

(* As long as no socket was replaced before it had closed: while no answer  *)
(* streams, no event of one but errors is on its way; while one streams,    *)
(* every other event on its way is its own, in the order it was sent.       *)
THEOREM ClientInvariant == Spec => []ClientInv
  <1>1. Init => ClientInv
    BY InitKnown, InitPage DEF ClientInv
  <1>2. ClientInv /\ [Next]_vars => ClientInv'
    <2> SUFFICES ASSUME ClientInv, [Next]_vars PROVE ClientInv'
      OBVIOUS
    <2>1. Types /\ Known /\ (~replaced => Page)
      BY DEF ClientInv
    <2>2. Types' /\ Known'
      BY <2>1, NextKnown
    <2>3. ASSUME ~replaced' PROVE Page'
      BY <2>1, <2>3, NextPage
    <2> QED BY <2>2, <2>3 DEF ClientInv
  <1> QED BY <1>1, <1>2, PTL DEF Spec

(* As long as no socket was replaced before it had closed, the text of a    *)
(* response is shown under the message that asked for it.                   *)
THEOREM AnswersAreInPlace == Spec => []ShownWhereAsked
  <1>1. ClientInv => ShownWhereAsked
    BY DEF ClientInv, Page, ShownWhereAsked
  <1> QED BY <1>1, ClientInvariant, PTL

(* As long as no socket was replaced before it had closed, a message        *)
(* continues the newest response of its thread among those that were asked  *)
(* for on its socket and were announced, or still may be; and no response   *)
(* of the thread before New Thread but the one asked for last.              *)
THEOREM ThreadsContinue == Spec => []ContinuesTheLast
  <1>1. ClientInv => ContinuesTheLast
    BY DEF ClientInv, Page, ContinuesTheLast
  <1> QED BY <1>1, ClientInvariant, PTL

(* As long as no socket was replaced before it had closed, a message is     *)
(* refused as busy only after the events of the response before it have     *)
(* been sent.                                                               *)
THEOREM BusyIsTheEnd == Spec => BusyOnlyAtTheEnd
  <1>1. ASSUME ClientInv, ~replaced, NEW c \in Sockets, Busy(c)
        PROVE  phase[c] = "ending"
    <2>1. Types /\ Page
      BY <1>1 DEF ClientInv
    <2>2. Take(c, "create") /\ session[c] # 0
      BY <1>1 DEF Busy
    <2>3. 1 \in 1..Len(up[c]) /\ up[c][1].type = "create"
      BY <2>1, <2>2, TakeTakes
    <2>4. Creates(c) # {}
      BY <2>3 DEF Creates
    <2> QED BY <2>1, <2>2, <2>4 DEF Page, OneWaits, Free
  <1>2. ClientInv => (~replaced => \A c \in Sockets : Busy(c) => phase[c] = "ending")
    BY <1>1
  <1> QED BY <1>2, ClientInvariant, PTL DEF BusyOnlyAtTheEnd

(* As long as no socket was replaced before it had closed, a cancel that is *)
(* taken cancels the answer the user saw streaming, or one whose events     *)
(* have all been sent.                                                      *)
THEOREM CancelHits == Spec => CancelHitsItsAnswer
  <1>1. ASSUME ClientInv, ~replaced, NEW c \in Sockets, Cancel(c)
        PROVE  session[c] = Head(up[c]).at \/ phase[c] = "ending"
    <2>1. Types /\ Page
      BY <1>1 DEF ClientInv
    <2>2. Take(c, "cancel") /\ session[c] = Head(up[c]).id
      BY <1>1 DEF Cancel
    <2>3. /\ 1 \in 1..Len(up[c]) /\ Head(up[c]) = up[c][1] /\ up[c][1].type = "cancel"
      BY <2>1, <2>2, TakeTakes
    <2>4. 1 \in Cancels(c)
      BY <2>3 DEF Cancels
    <2> QED BY <2>1, <2>2, <2>3, <2>4 DEF Page, CancelsMeanIt
  <1>2. ClientInv =>
           (~replaced => \A c \in Sockets :
              Cancel(c) => session[c] = Head(up[c]).at \/ phase[c] = "ending")
    BY <1>1
  <1> QED BY <1>2, ClientInvariant, PTL DEF CancelHitsItsAnswer
===============================================================================
