------------------------------ MODULE StateStore ------------------------------
(***************************************************************************)
(* The store of all responses: state_store.py over persistence.py.         *)
(*                                                                         *)
(* Every call changes memory first and then makes its writes to SQLite,    *)
(* one transaction each.  Nothing in a call suspends, so while one has     *)
(* writes left (todo) no other call begins; but the process may die        *)
(* between two of them, and each may raise.  Python's sqlite3 begins a     *)
(* transaction by itself: when it is the commit that raises, the           *)
(* transaction may stay open, and the next commit of any call commits it   *)
(* with its own write.  `seen` is what the connection would read, `rows`   *)
(* what is committed.                                                      *)
(*                                                                         *)
(* A session (module AgentLoop) is here only the order of its calls.       *)
(***************************************************************************)
EXTENDS Naturals, Sequences, FiniteSets, TLC

CONSTANTS
    NumResponses,   \* a bound on the responses of a run
    MaxMessages,    \* a bound on the messages one response adds to its thread
    ToolUsers,      \* the responses that may take a step with a tool call
    MaxFailures,    \* a bound on the writes that raise
    MaxCrashes      \* a bound on the deaths of the process

ASSUME BoundsAssumption ==
    /\ NumResponses \in Nat /\ MaxMessages \in Nat \ {0} /\ ToolUsers \subseteq Nat
    /\ MaxFailures \in Nat /\ MaxCrashes \in Nat

(* A response's id is its position in the order of creation.  The id of a   *)
(* thread is the id of the response it begins with.                         *)
Ids == 1..NumResponses

VARIABLES
    up,         \* the process runs and has loaded the database
    memory,     \* StateStore._responses
    rows,       \* the committed tables
    seen,       \* the tables with the writes of the open transaction
    todo,       \* the writes the store call in progress has still to make
    session,    \* how far the session of each response is
    told,       \* the last status sent for each response
    broken,     \* the responses one of whose writes has raised
    inherited,  \* history: what was stored of each one's parent when it began
    crashes

vars == <<up, memory, rows, seen, todo, session, told, broken, inherited, crashes>>

-----------------------------------------------------------------------------
(* Records.  A message is named by the response that added it and by its    *)
(* place among that response's own: odd ones are of the user's role, even   *)
(* ones the assistant's (module AgentLoop, RolesAlternate).                 *)

Message(r, n) == [by |-> r, n |-> n]
Role(msg) == IF msg.n % 2 = 1 THEN "user" ELSE "assistant"

Final == {"completed", "cancelled", "failed"}
NoRecord == [status |-> "none"]
NoTables == [threads |-> {},
             responses |-> [r \in Ids |-> NoRecord],
             messages |-> [r \in Ids |-> <<>>],
             steps |-> [r \in Ids |-> "none"],
             calls |-> [r \in Ids |-> "none"],
             results |-> {}]

(* The writes of persistence.py.  r is the response a row belongs to.  A    *)
(* row of steps or tool_calls is its status.                                *)
InsertThread(t, r) == [op |-> "thread", r |-> r, val |-> t]
InsertResponse(t, r, p) ==
    [op |-> "response", r |-> r,
     val |-> [thread |-> t, parent |-> p, status |-> "in_progress"]]
UpdateResponse(r, status) == [op |-> "status", r |-> r, val |-> status]
InsertMessage(r, seq, msg) ==
    [op |-> "message", r |-> r, val |-> [seq |-> seq, msg |-> msg]]
InsertStep(r) == [op |-> "step", r |-> r, val |-> "in_progress"]
UpdateStep(r) == [op |-> "step_status", r |-> r, val |-> "completed"]
InsertToolCall(r) == [op |-> "call", r |-> r, val |-> "in_progress"]
UpdateToolCall(r) == [op |-> "call_status", r |-> r, val |-> "completed"]
InsertToolResult(r) == [op |-> "result", r |-> r, val |-> "output"]

Apply(db, w) ==
    CASE w.op = "thread" -> [db EXCEPT !.threads = @ \cup {w.val}]
      [] w.op = "response" -> [db EXCEPT !.responses[w.r] = w.val]
      [] w.op = "status" -> [db EXCEPT !.responses[w.r].status = w.val]
      [] w.op = "message" -> [db EXCEPT !.messages[w.r] = Append(@, w.val)]
      [] w.op \in {"step", "step_status"} -> [db EXCEPT !.steps[w.r] = w.val]
      [] w.op \in {"call", "call_status"} -> [db EXCEPT !.calls[w.r] = w.val]
      [] w.op = "result" -> [db EXCEPT !.results = @ \cup {w.r}]

(* The foreign keys of the schema, which PRAGMA foreign_keys=ON enforces.   *)
(* The parent of a response is not one of them.                             *)
ReferencesExist(db, w) ==
    LET response == db.responses[w.r] # NoRecord IN
    CASE w.op = "response" -> w.val.thread \in db.threads
      [] w.op \in {"message", "step"} -> response
      [] w.op = "call" -> response /\ db.steps[w.r] # "none"
      [] w.op = "result" -> response /\ db.calls[w.r] # "none"
      [] OTHER -> TRUE

(* The record a response's row and its ordered message rows make.           *)
Loaded(row, msgs) ==
    [thread |-> row.thread, parent |-> row.parent, status |-> row.status,
     messages |-> [i \in 1..Len(msgs) |-> msgs[i].msg],
     next |-> Len(msgs) + 1]

(* ORDER BY seq of rows that were inserted in any order.                    *)
InOrder(msgs) == \A i \in 1..Len(msgs) - 1 : msgs[i].seq < msgs[i + 1].seq
Sorted(msgs) == SortSeq(msgs, LAMBDA a, b : a.seq < b.seq)
OrderBySeq(msgs) == IF InOrder(msgs) THEN msgs ELSE Sorted(msgs)

(* Defect: the newest message comes first. *)
Load_Descending(db, r) ==
    IF db.responses[r] = NoRecord
    THEN NoRecord
    ELSE Loaded(db.responses[r], SortSeq(db.messages[r], LAMBDA a, b : a.seq > b.seq))

(* load_state() and initialize(): the record of r.  Steps and tool calls    *)
(* are never read back.                                                     *)
Load(db, r) ==
    IF db.responses[r] = NoRecord
    THEN NoRecord
    ELSE Loaded(db.responses[r], OrderBySeq(db.messages[r]))

(* How many messages of a record the response r itself has added.           *)
Own(record, r) == Cardinality({i \in 1..Len(record.messages) : record.messages[i].by = r})
Idle == up /\ todo = <<>>

-----------------------------------------------------------------------------
Init ==
    /\ up = TRUE
    /\ memory = [r \in Ids |-> NoRecord]
    /\ rows = NoTables
    /\ seen = NoTables
    /\ todo = <<>>
    /\ session = [r \in Ids |-> "none"]
    /\ told = [r \in Ids |-> "none"]
    /\ broken = {}
    /\ inherited = [r \in Ids |-> NoRecord]
    /\ crashes = 0

Outside == <<up, rows, seen, broken, crashes>>

(* resolve_previous_response(): a response of any status is found. *)
Found(p) == p # 0 /\ memory[p] # NoRecord
(* Defect: only the last exchange is carried over. *)
BaseMessages_Short(p) == IF Found(p) THEN SubSeq(memory[p].messages, 2, Len(memory[p].messages)) ELSE <<>>

BaseMessages(p) == IF Found(p) THEN memory[p].messages ELSE <<>>
ThreadOf(r, p) == IF Found(p) THEN memory[p].thread ELSE r

(* The thread and the messages the database has now of p, which r continues.*)
Inherit(r, p) ==
    inherited' = [inherited EXCEPT ![r] =
        IF p = 0 \/ Load(rows, p) = NoRecord
        THEN NoRecord
        ELSE [thread |-> Load(rows, p).thread, messages |-> Load(rows, p).messages]]

(* Defect: the response is inserted before its thread. *)
StartResponse_ResponseFirst(r, p) ==
    /\ Idle
    /\ session[r] = "none"
    /\ \A q \in Ids : q < r => session[q] # "none"
    /\ p # 0 => told[p] # "none"
    /\ LET thread == ThreadOf(r, p)
           full == Append(BaseMessages(p), Message(r, 1)) IN
       /\ memory' = [memory EXCEPT ![r] =
              [thread |-> thread, parent |-> p, status |-> "in_progress",
               messages |-> full, next |-> Len(full) + 1]]
       /\ todo' = <<InsertResponse(thread, r, p), InsertThread(thread, r)>>
                  \o [i \in DOMAIN full |-> InsertMessage(r, i, full[i])]
    /\ session' = [session EXCEPT ![r] = "starting"]
    /\ Inherit(r, p)
    /\ UNCHANGED <<Outside, told>>

(* Defect: response.created is sent before the rows are written. *)
StartResponse_ToldFirst(r, p) ==
    /\ Idle
    /\ session[r] = "none"
    /\ \A q \in Ids : q < r => session[q] # "none"
    /\ p # 0 => told[p] # "none"
    /\ LET thread == ThreadOf(r, p)
           full == Append(BaseMessages(p), Message(r, 1)) IN
       /\ memory' = [memory EXCEPT ![r] =
              [thread |-> thread, parent |-> p, status |-> "in_progress",
               messages |-> full, next |-> Len(full) + 1]]
       /\ todo' = <<InsertThread(thread, r), InsertResponse(thread, r, p)>>
                  \o [i \in DOMAIN full |-> InsertMessage(r, i, full[i])]
    /\ session' = [session EXCEPT ![r] = "starting"]
    /\ Inherit(r, p)
    /\ told' = [told EXCEPT ![r] = "created"]
    /\ UNCHANGED Outside

(* The first block of a session: previous_response_id p (0 for none), of    *)
(* any response whose id was ever sent to a client, is resolved, and the    *)
(* response started with a copy of its messages and the user's input.       *)
StartResponse(r, p) ==
    /\ Idle
    /\ session[r] = "none"
    /\ \A q \in Ids : q < r => session[q] # "none"
    /\ p # 0 => told[p] # "none"
    /\ LET thread == ThreadOf(r, p)
           full == Append(BaseMessages(p), Message(r, 1)) IN
       /\ memory' = [memory EXCEPT ![r] =
              [thread |-> thread, parent |-> p, status |-> "in_progress",
               messages |-> full, next |-> Len(full) + 1]]
       /\ todo' = <<InsertThread(thread, r), InsertResponse(thread, r, p)>>
                  \o [i \in DOMAIN full |-> InsertMessage(r, i, full[i])]
    /\ session' = [session EXCEPT ![r] = "starting"]
    /\ Inherit(r, p)
    /\ UNCHANGED <<Outside, told>>

(* response.created is sent. *)
TellCreated(r) ==
    /\ Idle
    /\ session[r] = "starting"
    /\ told' = [told EXCEPT ![r] = "created"]
    /\ session' = [session EXCEPT ![r] = "running"]
    /\ UNCHANGED <<Outside, inherited, memory, todo>>

(* Defect: the counter of positions is not advanced. *)
AppendMessage_SameSeq(r) ==
    /\ Idle
    /\ session[r] = "running"
    /\ Own(memory[r], r) < MaxMessages
    /\ LET msg == Message(r, Own(memory[r], r) + 1) IN
       /\ memory' = [memory EXCEPT ![r].messages = Append(@, msg)]
       /\ todo' = <<InsertMessage(r, memory[r].next, msg)>>
    /\ UNCHANGED <<Outside, inherited, session, told>>

(* append_message(). *)
AppendMessage(r) ==
    /\ Idle
    /\ session[r] = "running"
    /\ Own(memory[r], r) < MaxMessages
    /\ LET msg == Message(r, Own(memory[r], r) + 1) IN
       /\ memory' = [memory EXCEPT ![r].messages = Append(@, msg), ![r].next = @ + 1]
       /\ todo' = <<InsertMessage(r, memory[r].next, msg)>>
    /\ UNCHANGED <<Outside, inherited, session, told>>

-----------------------------------------------------------------------------
(* Steps and tool calls live in the database only. *)

WriteRow(w) ==
    /\ Idle
    /\ todo' = <<w>>
    /\ UNCHANGED <<Outside, inherited, memory, session, told>>

StartStep(r) ==
    /\ r \in ToolUsers /\ session[r] = "running"
    /\ seen.steps[r] = "none"
    /\ WriteRow(InsertStep(r))

CompleteStep(r) ==
    /\ session[r] \in {"running", "finished"}
    /\ seen.steps[r] = "in_progress"
    /\ WriteRow(UpdateStep(r))

CreateToolCall(r) ==
    /\ session[r] = "running"
    /\ seen.steps[r] = "in_progress" /\ seen.calls[r] = "none"
    /\ WriteRow(InsertToolCall(r))

CompleteToolCall(r) ==
    /\ session[r] = "running"
    /\ seen.calls[r] = "in_progress"
    /\ WriteRow(UpdateToolCall(r))

AddToolResult(r) ==
    /\ session[r] = "running"
    /\ seen.calls[r] = "in_progress" /\ r \notin seen.results
    /\ WriteRow(InsertToolResult(r))

-----------------------------------------------------------------------------
(* The end of a response. *)

SetResponseStatus(r, status) ==
    /\ Idle
    /\ memory' = [memory EXCEPT ![r].status = status]
    /\ todo' = <<UpdateResponse(r, status)>>
    /\ UNCHANGED <<Outside, inherited, told>>

(* A response completes with an answer of the model; it may be cancelled or *)
(* fail at any time.                                                        *)
Finish(r, status) ==
    /\ session[r] = "running"
    /\ status = "completed" => Own(memory[r], r) % 2 = 0
    /\ SetResponseStatus(r, status)
    /\ session' = [session EXCEPT ![r] = "finished"]

(* response.completed is sent. *)
TellFinal(r) ==
    /\ Idle
    /\ session[r] = "finished"
    /\ told' = [told EXCEPT ![r] = memory[r].status]
    /\ session' = [session EXCEPT ![r] = "telling"]
    /\ UNCHANGED <<Outside, inherited, memory, todo>>

(* Another exception than a write's reaches run() while the response is     *)
(* worked on: "failed" is told without the store, unless the send raises.   *)
SessionRaises(r) ==
    /\ Idle
    /\ session[r] = "running"
    /\ session' = [session EXCEPT ![r] = "ended"]
    /\ told' \in {told, [told EXCEPT ![r] = "failed"]}
    /\ UNCHANGED <<Outside, inherited, memory, todo>>

(* run(): the disconnect handler's CancelledError, thrown while a session   *)
(* is suspended, stores "cancelled"; the client is gone.                    *)
Disconnect(r) ==
    /\ session[r] \in {"starting", "running", "finished", "telling"}
    /\ SetResponseStatus(r, "cancelled")
    /\ session' = [session EXCEPT ![r] = "ended"]

-----------------------------------------------------------------------------
(* SQLite and the process. *)

WriteCommits ==
    /\ todo # <<>>
    /\ ReferencesExist(seen, Head(todo))
    /\ seen' = Apply(seen, Head(todo))
    /\ rows' = seen'
    /\ todo' = Tail(todo)
    /\ UNCHANGED <<up, memory, session, told, broken, inherited, crashes>>

(* Defect: the session goes on after a write that raised. *)
WriteRaises_Swallowed ==
    /\ todo # <<>>
    /\ Cardinality(broken) < MaxFailures
    /\ seen' \in {seen, Apply(seen, Head(todo)), rows}
    /\ todo' = Tail(todo)
    /\ UNCHANGED <<up, rows, memory, session, told, broken, inherited, crashes>>

(* The write raises: its statement, or the commit, whose transaction then   *)
(* stays open or is rolled back.  The exception ends the session; run()     *)
(* says "failed" without the store, unless the client is gone.              *)
WriteRaises ==
    /\ todo # <<>>
    /\ Cardinality(broken) < MaxFailures
    /\ LET r == Head(todo).r IN
       /\ seen' \in {seen, Apply(seen, Head(todo)), rows}
       /\ broken' = broken \cup {r}
       /\ session' = [session EXCEPT ![r] = "ended"]
       /\ told' \in IF session[r] = "ended" THEN {told}
                    ELSE {told, [told EXCEPT ![r] = "failed"]}
    /\ todo' = <<>>
    /\ UNCHANGED <<up, rows, memory, inherited, crashes>>

(* The process dies, or is shut down. *)
Crash ==
    /\ up
    /\ crashes < MaxCrashes
    /\ crashes' = crashes + 1
    /\ up' = FALSE
    /\ memory' = [r \in Ids |-> NoRecord]
    /\ seen' = rows
    /\ todo' = <<>>
    /\ session' = [r \in Ids |-> IF session[r] = "none" THEN "none" ELSE "ended"]
    /\ UNCHANGED <<rows, told, broken, inherited>>

(* Defect: the position handed out next is the last one in use. *)
Initialize_LastInUse ==
    /\ ~up
    /\ up' = TRUE
    /\ memory' = [r \in Ids |-> IF Load(rows, r) = NoRecord THEN NoRecord
                              ELSE [Load(rows, r) EXCEPT !.next = @ - 1]]
    /\ UNCHANGED <<rows, seen, todo, session, told, broken, inherited, crashes>>

(* initialize(), at the start of the process. *)
Initialize ==
    /\ ~up
    /\ up' = TRUE
    /\ memory' = [r \in Ids |-> Load(rows, r)]
    /\ UNCHANGED <<rows, seen, todo, session, told, broken, inherited, crashes>>

(* No call need come. *)
Quiet == Idle /\ UNCHANGED vars

SessionStep(r) ==
    \/ \E p \in 0..(r - 1) : StartResponse(r, p)
    \/ TellCreated(r) \/ AppendMessage(r)
    \/ StartStep(r) \/ CompleteStep(r)
    \/ CreateToolCall(r) \/ CompleteToolCall(r) \/ AddToolResult(r)
    \/ \E status \in Final : Finish(r, status)
    \/ TellFinal(r) \/ SessionRaises(r) \/ Disconnect(r)

Next ==
    \/ \E r \in Ids : SessionStep(r)
    \/ WriteCommits \/ WriteRaises \/ Crash \/ Initialize \/ Quiet

Spec == Init /\ [][Next]_vars

-----------------------------------------------------------------------------
(* Properties. *)

Messages == [by : Ids, n : 1..MaxMessages]
Statuses == Final \cup {"in_progress"}
Records ==
    [thread : Ids, parent : 0..NumResponses, status : Statuses,
     messages : Seq(Messages), next : Nat]
Tables ==
    [threads : SUBSET Ids,
     responses : [Ids -> [thread : Ids, parent : 0..NumResponses, status : Statuses]
                           \cup {NoRecord}],
     messages : [Ids -> Seq([seq : Nat, msg : Messages])],
     steps : [Ids -> {"none", "in_progress", "completed"}],
     calls : [Ids -> {"none", "in_progress", "completed"}],
     results : SUBSET Ids]

(* Types; a process that is down keeps nothing; the position a response     *)
(* hands out next is the one after its last message.                        *)
TypeOK ==
    /\ up \in BOOLEAN
    /\ memory \in [Ids -> Records \cup {NoRecord}]
    /\ \A r \in Ids : memory[r] # NoRecord =>
           memory[r].next = Len(memory[r].messages) + 1
    /\ rows \in Tables /\ seen \in Tables
    /\ session \in [Ids -> {"none", "starting", "running", "finished", "telling", "ended"}]
    /\ told \in [Ids -> Final \cup {"none", "created"}]
    /\ broken \subseteq Ids
    /\ inherited \in [Ids -> [thread : Ids, messages : Seq(Messages)] \cup {NoRecord}]
    /\ ~up => todo = <<>> /\ seen = rows

(* What a client was told is durable.  A response it was told of is kept    *)
(* whole, and is found when the client continues it, whenever the process   *)
(* dies: a start_response() cut short by a crash was never announced.  The  *)
(* final status it was told is the stored one, but that the disconnect      *)
(* handler may put "cancelled" in its place, and that after an exception in *)
(* run() a response that is told "failed" stays in progress.                *)
ToldIsDurable ==
    \A r \in Ids : told[r] # "none" /\ r \notin broken =>
        /\ rows.responses[r] # NoRecord
        /\ Own(Load(rows, r), r) > 0
        /\ up => Found(r)
        /\ told[r] \in Final =>
               \/ rows.responses[r].status \in {told[r], "cancelled"}
               \/ told[r] = "failed" /\ rows.responses[r].status = "in_progress"

(* Between two calls of the store memory and the database agree on every    *)
(* response none of whose writes has raised, whatever happened to others:   *)
(* a restart changes nothing for it.                                        *)
MemoryIsDatabase ==
    Idle => \A r \in Ids \ broken : memory[r] = Load(rows, r)

(* The messages of a response have the positions 1, 2, ... without a gap or *)
(* a repetition, so ORDER BY seq is the order in which they were appended   *)
(* and len(messages) + 1 is free, even after writes that raised and crashes.*)
PositionsInOrder ==
    \A r \in Ids : \A i \in DOMAIN rows.messages[r] : rows.messages[r][i].seq = i

(* No insert meets a missing row of another table, so no foreign key makes  *)
(* a call raise, also when a transaction is left open or rolled back.       *)
InsertsFindTheirReferences ==
    todo # <<>> => ReferencesExist(seen, Head(todo))

(* A response that continues another one carries the whole history its      *)
(* parent had then, in the parent's thread, and after it only messages of   *)
(* its own; also as the database has it after crashes and writes that       *)
(* raised, if none was its own or its parent's.  A parent its client was    *)
(* told of is always found; a response without one has a thread of its own. *)
Continues(child, parent, r) ==
    LET base == IF parent = NoRecord THEN <<>> ELSE parent.messages IN
    /\ child.thread = IF parent = NoRecord THEN r ELSE parent.thread
    /\ Len(base) < Len(child.messages)
    /\ \A i \in 1..Len(child.messages) :
         IF i <= Len(base) THEN child.messages[i] = base[i] ELSE child.messages[i].by = r

ChildExtendsParent ==
    \A r \in Ids : told[r] # "none" /\ r \notin broken =>
        LET child == Load(rows, r) IN
        child.parent \notin broken =>
            /\ child.parent = 0 <=> inherited[r] = NoRecord
            /\ Continues(child, inherited[r], r)

(* What the database holds of a response, as load_state() would return it,  *)
(* is an append-only history, whatever fails and whenever the process dies. *)
History == INSTANCE ResponseHistory WITH records <- [r \in Ids |-> Load(rows, r)]

KeepsHistory == History!Spec
===============================================================================
