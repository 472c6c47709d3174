# Syncra gateway: a TLA+ model

Syncra (this repository) is a WebSocket gateway in front of an
OpenAI-compatible language model backend. A client sends `response.create`;
the gateway runs an agent loop (model, tool call, tool result, model, ...)
against the backend, streams events back, and keeps the conversation in memory
and in SQLite. This directory holds TLA+ modules that model the gateway's
control, TLC configurations that check them on small instances, and proofs that
the TLA+ proof system TLAPS checks for every value of the limits.

## Inventory

| Part | Source | State | Operations | Hard because | Correct when | Module |
|:--|:--|:--|:--|:--|:--|:--|
| Agent loop, one per response | `agent_loop.py` | the await it is in, `cancel_event`, the pending future, three counters | `run`, `cancel`, `submit_tool_result` | cancel, disconnect, timers, submits and store failures at every await; a dozen early returns | every path ends with one final event, closes its rows, keeps the order of events and messages; a cancel stops it | AgentLoop |
| Event protocol | emit sites of `agent_loop.py`; readers in `ui/index.html`, `scripts/` | events sent so far | one event | twenty emit sites on as many paths | each event is one the earlier ones allow | ResponseStream |
| Connection | `main.py` `responses_socket` | `active_session`, `active_task`, `send_lock` | create, submit, cancel, disconnect, done-callback | the loop, the tasks and their callbacks interleave; the loop may end by an exception | one response at a time; nothing runs after a close; the close does not hang | Connection |
| State store | `state_store.py` | responses by id, their messages | nine calls | memory is changed before the database; continuation of any earlier response | memory and database agree; a child carries its parent's history | StateStore |
| Persistence | `persistence.py` | SQLite rows | one commit per call, `load_state` | a crash between two commits; responses in progress at a crash | a restart restores what was told to clients | StateStore, ResponseHistory |
| Rate limiter | `main.py` `RateLimiter` | a window of times per address | `allow` | wall clock, boundary of the window | at most the limit in any window | RateLimiter |
| Backend client | `vllm_client.py` | the SSE buffer | `stream_chat` | frames split over chunks, cancel between items, ends and errors | the fragments are the backend's, in order | BackendStream |
| Tool call parser, prompts, validation | `schemas.py` | none | pure functions | brace matching in model output | finds the call a reference definition finds | ToolCallParser |
| Tool registry and tools | `tools/` | registered tools | `resolve_tools`, `execute_server_tool` | synchronous handlers block the event loop | policy is applied to every call | EventLoop, AgentLoop |
| Web client | `ui/index.html` | `isStreaming`, `lastResponseId`, `ws` | send, cancel, new thread, one handler per event | its state is behind the gateway's | streaming ends whenever the response does | WebClient |
| REST endpoints, SSE proxy | `main.py` | none; of chat/completions the reply so far | files, terminal, models, config, chat/completions | the backend may fail after half of a reply was sent | "stop" means the whole answer | HttpProxy; EventLoop (terminal) |
| Configuration, scripts, capture, service files | `config.py`, `scripts/`, `capture/`, `systemd/` | none | - | - | - | - |

How they interact: the connection's receive loop starts a session as an asyncio
task and calls `cancel()` and `submit_tool_result()` on it; the session calls
the store and the backend client and hands its events to the connection under
`send_lock`. A disconnect cancels the session's task and waits for it; the
task's done-callback clears the connection's two variables. All of it runs on
one event loop: there is no preemption, only the awaits that really suspend.
The hazards this brings are listed, each at its line, in `PROJECT.json`.

## What is modelled

### AgentLoop: one response session

`ActiveResponseSession` of `agent_loop.py`, with the calls it makes on the store.

*Granularity.* An action is the code between two awaits that may suspend. Those
are an `emit` (back-pressure of the socket, or `send_lock`), the iteration over
`stream_chat()`, and the two `asyncio.wait_for()`. The store's coroutines never
suspend: its lock is never held across an await, and SQLite is called
synchronously. So `pc` names the emit (or iteration, or wait) the task is
suspended in, and each action does everything up to the next one: store calls,
counters, early returns, and the event it emits last.

| `pc` | suspended in |
|:--|:--|
| `start`, `created`, `in_progress` | not begun; the emits of `response.created` and `response.in_progress` |
| `step_created`, `streaming` | the emit of `response.step.created`; the iteration over the stream and the deltas it emits |
| `call_created` | the emit of `response.tool_call.created` |
| `server_waiting`, `executing`, `server_received`, `server_call_done`, `tool_error` | `_execute_server_tool()` |
| `client_step`, `client_waiting`, `waiting`, `client_received`, `client_call_done` | the client branch of the loop and `_wait_for_tool_result()` |
| `step_next`, `step_final` | `response.step.completed` of a step that is followed by another, or by the answer's end |
| `fail_error`, `terminal` | the two events of `_fail_response()`, or the one of the finalizers |
| `abort_error`, `abort_terminal`, `done` | `_emit_terminal_failure_no_store()`; the task has ended |

*State.* `stored` is the response's record: its status, the messages the
response appends, the rows of its steps and of its tool calls, as they are in
memory and database. `events` is what was handed to the socket. `sock`,
`cancelEvent`, `taskCancelled`, `future` and `accepted` are what other actors
share with the session.

*Failure.* Every store call may raise (`Block`): the block then ends between two
of its calls and `run()` answers through the path without the store. Memory and
database may then differ; the record is either. The same path is taken while the
store works (`LastResort`) when `build_system_message()` raises on the
parameters of a client's tool (`BeginStream`), or when what is done with the
output raises (`OutputRaises`): `validate()` on a schema that is none,
`json.loads()` on a number or a nesting too long, an event that cannot be
encoded. Every emit raises once the socket is closed. `DeliverCancel` is the
`CancelledError` of the disconnect handler's `task.cancel()`, at whatever await
the task is in; a `wait_for()` whose awaitable is already done may return its
answer instead. In the loop iteration in which a submit is accepted and the
timer fires, either wins, as it differs between Python versions.

*Abstractions.* A message is its kind (`user`, `assistant`, `tool_call`,
`tool_result`, `tool_error`, `repair`). Thinking and text deltas are one event,
and a run of them is one. Model output is what the code makes of it: a call of a
tool on offer (which needs some output), an answer that is acceptable, one that
is not. `_fail_response("Response state vanished")` is left out: the store never
removes a response. The messages of a continued response precede the ones
modelled here; StateStore has them. The time a block takes is EventLoop's.

### ResponseStream: the contract of the events

The events one response may send, as a specification with the events sent as
its only variable: `Allowed` is what may follow them, `WithinLimits` the two
limits. `AgentLoopMC` instantiates it with `wire <- events` and states
`StreamContract == Stream!Spec`: every behaviour of the session is one of the
contract, step by step.

### Connection: the receive loop

`responses_socket()` of `main.py` for any number of `response.create`. `active`
stands for `active_session` and `active_task`, which are set and cleared
together. A task is first `finished` (`done()` is true) and only then `over`
(its done-callback has run), and the loop may handle a message in between.
`Accept` and `RejectUnauthorized` begin the connection. `Disconnect` and
`HandlerReturns` are the two halves of the disconnect handler around `await
active_task`. `LoopBreaks` is an exception that no handler catches. `raced` is a
history variable: a create was handled between the end of a task and its
callback. A session is only running or ended; the inside of one is AgentLoop.
`tool_result.submit` leaves the connection's state alone: its refusals are
`SubmitRefused`, its effect is AgentLoop's `SubmitResult`.

### StateStore, ResponseHistory: memory, database, restarts

`state_store.py` over `persistence.py`, for several responses that may continue
each other. Each call changes `memory` first and leaves in `todo` the writes it
makes, one transaction each; `WriteCommits` makes the first of them. No call
suspends, so no other begins while `todo` is not empty, but the process may die
(`Crash`) between two writes and each write may raise (`WriteRaises`). sqlite3
opens a transaction with the statement; when it is the commit that raises, the
transaction may stay open and the next commit of *any* call commits it too:
`seen` is what the one connection reads, `rows` what is committed. `Load` is
`load_state()` (`OrderBySeq` is its `ORDER BY seq`), `Initialize` the restart.
Of a session only the order of its calls is kept, and `told` what its client was
told: after an exception outside the store (`SessionRaises`) that is "failed",
with nothing stored. `inherited` is history: the thread and messages the
database had of a response's parent when the response began.

ResponseHistory is the abstract store: a record per response, created once,
whose messages only grow, whose status becomes final once and may only be
replaced by `cancelled` (finding 1). `KeepsHistory` says that what
`load_state()` would return implements it, with `records <- [r \in Ids |->
Load(rows, r)]`, through failures and crashes.

### RateLimiter

`allow()` with the queue of each address. `granted` is history: every time at
which a message was admitted; `setBack` tells that the wall clock ran backwards
once. The loop that empties the queue stops at the first time inside the window
(`Expired`), which matters once the clock was set back.

### BackendStream, HttpProxy: the backend's stream and its two readers

BackendStream is `stream_chat()` and `_iter_sse_data()`: the backend's answer is
a list of events of ten kinds (text, thinking, both in one, the `text` of a
completion, JSON over two data lines, a text that holds a line separator, data
that is no JSON, JSON that is no object, a comment, `[DONE]`), written out as
symbols with either line break. `ReceiveChunk` cuts the symbols anywhere, also
inside the four characters of a frame's end; the transport may fail at any time;
and the body may end without the last event's blank line (`LeftOff`), in which
case the code drops that event (`EventsEnded`). `Said` is the reference: the
answer's fragments without chunks, frames and lines.

HttpProxy puts its two callers on top: a session, which may be cancelled, and
`chat_completions()`, whose reply is streamed or sent whole. It extends
BackendStream and so shares its variables; `Relay` hands each fragment on.

### ToolCallParser

`parse_tool_call_json()` as the code runs: the text as a whole, then each place
where an object begins with `"tool_call"`, its end found by counting braces.
A text is a sequence of tokens (a brace, a key, a string and the braces in it,
a word, a fence), one of `Texts`; ToolCallParserMC gives the run those made of
a few pieces. `Wanted` is the reference: the first such object a JSON reader
finds.

### WebClient: the page and the gateway

The chat of `ui/index.html` with the gateway at the other end of two FIFO
channels per socket. The client's `isStreaming` and `lastResponseId` follow the
gateway's events, which carry no request. Of the gateway there is the busy
check, the cancel's check of `response_id`, and a session's milestones;
AgentLoop and Connection have the rest. A session may fail before
`response.created` (`SayError`): its error and `response.completed` come alone,
and it is `unannounced`. `body`, `shown`, `log`, `thread` and the
`at` of a cancel relate what the page does to what the user meant. `replaced`
tells that the user clicked Connect while the socket before was not closed yet.

### EventLoop: time

Tool calls of several responses on the one event loop, and commands of the
terminal. The handler of a server tool is a plain function, and `terminal_exec()`
runs its command with `subprocess.run()`: while either runs nothing else does.
The model has the two iterations it takes from a message in the socket to its
handling and the timers that fire in between. Of what else is done on the loop
(writes to the database, files listed or read) it takes the time to be none.

## Runs

| Run | Bounds | Checks | Shows |
|:--|:--|:--|:--|
| `AgentLoop_calls` | 4 steps, 3 calls | `TypeOK`, `ToldIsStored`, `RowsClosed`, `RolesAlternate`, `ResultsAreSubmitted`, `GivesUp`, `NoStepAfterCancel`, `StreamContract`, `Terminates`, `ClientIsAnswered` | the session is correct with cancels, disconnects, timeouts, submits, store failures and other exceptions at every await |
| `Connection` | 3 creates | `TypeOK`, `RunningIsActive`, `NothingRunsAfterClose`, `CloseReturns` | which session is active, and that a close stops it |
| `StateStore` | 2 responses, 3 messages each, one with a tool call, 1 failed write, 2 crashes | `TypeOK`, `ToldIsDurable`, `MemoryIsDatabase`, `PositionsInOrder`, `InsertsFindTheirReferences`, `ChildExtendsParent`, `KeepsHistory` | what a client was told survives; no write breaks a reference; the database is an append-only history |
| `RateLimiter` | 2 addresses, limit 2, window 2, clock up to 5 | `TypeOK`, `AtMostLimit`, `RefusedIsFull` | the limit is kept while the clock runs on; after it was set back a refusal still needs a message dated in the window or in the future |
| `HttpProxy` | answers of 2 events, 10 kinds | `ProxyTypeOK`, `YieldsTheAnswer`, `NothingHeldBack`, `OutcomeIsTrue`, `StopsAtCancel`, `RequestEnds` | no fragment is lost, doubled or held back however the stream is cut, but that of an unfinished last event; a request has one outcome |
| `ToolCallParser` | texts of 3 pieces out of 14 | `FindsTheCall` | counting braces finds what reading JSON finds |
| `WebClient` | 3 messages, 2 sockets, 1 cancel, 1 New Thread | `TypeOK`, `ShownWhereAsked`, `ContinuesTheLast`, `BusyOnlyAtTheEnd`, `CancelHitsItsAnswer`, `StreamingEnds` | the page's idea of the response in progress is right where it matters, and an answer that streams ends |
| `EventLoop` | 3 calls or commands, timeouts 1-2, handlers up to 2 and 1 where limited, clock up to 4 | `TypeOK`, `LostOnlyToHandlers`, `LatenessIsBounded` | which answers are lost to a server tool or a command, how late a timeout may fire |
| `AgentLoop_finished` | 2 steps, 1 call | `FinishedStaysFinished` (violated) | see Findings |
| `AgentLoop_cancelwait` | 2 steps, 1 call | `CancelledDoesNotWait` (violated) | see Findings |
| `Connection_one` | 3 creates | `OneResponseInProgress` (violated) | see Findings |
| `WebClient_newthread` | 2 messages, 1 socket | `FreshThread` (violated) | see Findings |

*Bounds.* The limits of AgentLoop are the program's own settings, so its runs
are complete for those settings, with no state constraint. Four steps with three
calls reach every action: calls that are answered or fail, three failures and
room for a step after them, a refused fourth call, two repairs and the refused
third attempt, and the end at `max_steps`. The repair and error limits (2 and 3)
are the code's; `schemaAttempts` and `consecutiveErrors` are bounded by
`MaxSteps`. Three creates are what the connection needs for one session that
ends, one that starts in the window before its callback, and one that passes the
busy check afterwards. In StateStore two responses give a parent and a child or
two sessions whose writes share a transaction, three messages a user's, an
answer and one more, two crashes a restart whose work is cut short again; one
response uses a tool, so that the other's writes meet its rows. RateLimiter: two
addresses for independence, a limit of 2 for a first and a last of a full
window, a clock that spans two windows. HttpProxy: two events are a frame and
the rest of the buffer behind it; every kind and every cut occurs.
ToolCallParser: three pieces are a call between others, two candidates before
it, or a fence around it. WebClient: a third message is the one sent after a
wrong second; one reconnection. EventLoop: a waiting call and two handlers in a
row that hold the loop past its timer; `HandlerLimit` is shorter than the
longest duration, so that a limit that is missing shows within the clock's
bound.

*Fairness.* `FairSpec` of AgentLoop assumes weak fairness of the task's own
steps: the event loop runs a task that is ready, the backend's stream ends (it
generates at most `max_tokens`, and a silent one meets the HTTP client's read
timeout), and the timers fire. `Fragment`, the arrival of a delta, is not among
those steps: no delta need ever arrive. The client need not answer, cancel,
close or read. `send_json()` has no timeout, so a step of the task is assumed
only while it is not `HeldByClient`, in an emit to a client that is connected.
`Terminates` therefore says that a session ends unless a client that stays
connected stops reading for ever, which the code does let keep it;
`ClientIsAnswered` has the same exception. `FairSpec` of Connection assumes that
callbacks run, that the handler resumes when its task is done, and that a task
with `task.cancel()` called ends, which is what AgentLoop's `Terminates` and
`DeliverCancel` say of it (its socket is gone, so that no emit waits); a session
that is not cancelled may run for ever. `FairProxySpec` assumes that a request's
own steps happen: the backend's next chunk comes, its stream ends, or the read
timeout raises, and that sends to its client return. `FairSpec` of WebClient
assumes one weak fairness for all that is not the user's: while a message or an
event can arrive on an open socket, a session can go on, or a socket the page
closes can close, one of them happens. A session has an end (`Terminates`; the
page reads its socket). Nothing is assumed of the user, and not that a lost
connection is noticed. The other specifications are checked for safety only.

*Deadlock* is checked in every run. Where a component may rest (a session that
is done, a store nobody calls, a reply that is over) an action that changes
nothing says so, under the condition of that rest.

The strengthenings of the proofs (`RowsInv`, `RolesInv`, `CountInv`, `ToldInv`,
`SubmitInv`, `StreamInv`, `StoreInv`, `QueueInv`, `AnswersInv`, `LateInv`,
`ClientInv`, `ProxyInv`, `ParserInv`) are invariants too; they are proved rather
than run.

*Mutants.* Next to a definition stand one or more forms of it with a plausible
defect (a comment "Defect:" and a name such as `FailResponse_KeepsStep`). Put in
the definition's place each makes one property of a run fail.

## Findings

Four statements the repository makes of itself do not hold of the code.

1. **A finished response may become a cancelled one.** README: "Response
   finished (status: `completed`, `cancelled`, or `failed`)". The status is
   stored before the last events are sent; a disconnect while one is being sent
   cancels the task, and `run()` (agent_loop.py:91-92) stores `cancelled` and an
   empty answer over it.
2. **A cancel may be overlooked until the tool timeout.** README:
   "`response.cancel`: Cancel the active response". `cancel()`
   (agent_loop.py:72-75) cancels the pending future only if there is one. A
   cancel while `tool_call.created`, `step.completed` or `tool_result.waiting`
   is being sent is recorded in `cancel_event`, which is not looked at before
   the wait begins.
3. **"A response is already in progress on this connection"**
   (main.py:394). `on_task_done()` clears whichever session is active. A create
   handled between the end of one session and its callback is forgotten when the
   callback runs, and a third create is then accepted next to it.
4. **"Click the ✦ button to start a fresh conversation"** (README, line 262)
   `newThread()` (index.html:1977) does not stop the response in progress. When
   its `response.created` comes after the click (line 1445) the next message
   continues it, and with it the old thread. `ContinuesTheLast` says that it is
   the only response of the old thread to be continued so.

### Other departures

Met while modelling, and modelled as the code has them; no run is about them.
The condition in a property that leaves one out is named.

- `frame.splitlines()` (vllm_client.py:123) breaks a line at U+2028, U+2029 and
  U+0085 too, which JSON need not escape: an event with one in its text is cut,
  is no JSON and is skipped without a word. `Said` leaves out exactly those
  events, so the properties of HttpProxy say that no other is lost.
- The proxy (main.py:234, 286) passes thinking on as content, with the prefix
  that is meant for the agent loop (vllm_client.py:96).
- The brace count (schemas.py:223) includes braces in strings: with prose around
  it, a call with an unbalanced brace in a string is missed, or a later one is
  returned. `FindsTheCall` leaves such texts out, but not a reply that is nothing
  but the call.
- The page's cancel (index.html:1655) names the last response it knows. Before
  `response.created` arrives that is the one before: the cancel is refused and
  the response runs on, against README's "the model stops immediately".
  `CancelHitsItsAnswer` says that it at least ends no other.
- `run()` (agent_loop.py:94-104) takes the "last-resort path" of line 701 ("when
  persistence/state updates fail") after any exception, also while the store
  works: `build_system_message()` (194, schemas.py:277-281) and `validate()` (626,
  which raises `SchemaError`) raise on tools and formats that the client sent and
  nobody checked. The client is told `failed`; the stored status stays
  `in_progress`. `ToldIsStored` says that a connected client is told no
  other false status while the store works.
- "Tool failed 3 times in a row. Giving up." (agent_loop.py:315) The count is
  reset by a server tool that succeeds, but not by a client tool, so the failures
  need not be in a row. `GivesUp` says that three in a row always end it.
- A last event without its blank line is dropped (vllm_client.py:107-114), and
  the reply still ends in "stop": `YieldsTheAnswer` and `OutcomeIsTrue` say
  `EventsEnded`.
- The comment at schemas.py:213 says that an object "contains" `"tool_call"`; the
  pattern, and `Wanted`, need it to begin with it.
- A client that stays connected and stops reading keeps its session
  (main.py:510); `Terminates` says `HeldByClient`.
- `onclose` of a socket that was replaced before it had closed (index.html:1424)
  ends the streaming on the new one; the client properties say `~replaced`.
- An error reply (index.html:1573) does not end the streaming: a message that is
  refused leaves the input blocked. `StreamingEnds` says `body \in refused`.
- A server tool is called synchronously (agent_loop.py:508): its timer cannot
  fire while it runs, so that a tool that takes longer than `timeout_seconds`
  succeeds (line 514), and another call's answer that arrived in time may be
  discarded as timed out. A command of the terminal (main.py:168) holds the loop
  in the same way. `LostOnlyToHandlers` says that nothing else loses one.
- The rate limit (main.py:381) counts cancels and submits like creates.

## Proofs

Eight modules hold theorems that TLAPS checks, for all values of the constants
that satisfy the named assumptions:

| Module | About | Theorems |
|:--|:--|:--|
| `AgentLoopProofs` | one session, its record, and what its client is told | `TypeCorrect`, `RowsInvariant`, `RowsAreClosed`, `CancelStopsSteps`, `RolesAreAlternate`, `CountInvariant`, `ThreeFailuresEnd`, `ClientIsToldTheStoredStatus`, `ClientResultsAreSubmitted`, `StreamContractHolds` |
| `ConnectionProofs` | one connection | `TypeCorrect`, `RunningSessionIsActive`, `CloseStopsSessions` |
| `StateStoreProofs` | memory and database | `TypesOfTheStore`, `PositionsAreInOrder`, `ReferencesAreFound`, `RestartChangesNothing`, `ToldIsKept`, `ChildCarriesItsParent`, `HistoryIsKept` |
| `RateLimiterProofs` | the limiter | `TypeCorrect`, `QueueIsWindow`, `LimitHolds`, `RefusalIsJustified` |
| `EventLoopProofs` | tool calls on the event loop | `TypeCorrect`, `AnswersInvariant`, `LossNeedsHandler`, `LatenessBounded` |
| `WebClientProofs` | the page and the gateway | `TypesOfTheClient`, `ClientInvariant`, `AnswersAreInPlace`, `ThreadsContinue`, `BusyIsTheEnd`, `CancelHits` |
| `HttpProxyProofs` | the backend's stream and its two readers | `StreamInvariant`, `FragmentsAreTheAnswer`, `NothingWaits`, `CancelStopsTheStream`, `ProxyInvariant`, `RepliesAreTrue`, `ProxyTypes` |
| `ToolCallParserProofs` | the parser | `ParserInvariant`, `CallsAreFound` |

*Assumptions.* Limits, times and bounds are natural numbers, the rate limit any
integer, addresses any set, tool calls any finite set (`LatenessIsBounded` counts
them), a response may add a message, there is a first socket, the backend's
events are of the kinds that are modelled, and a model writes sequences of
tokens: `LimitsAssumption`, `SessionsAssumption`, `BoundsAssumption`,
`LimiterAssumption`, `TimeAssumption`, `ClientAssumption`, `EventsAssumption`,
`TextsAssumption`. Nothing else is assumed.

### The session

- `TypeCorrect`: `Spec => []TypeOK`. Besides the types, `TypeOK` says
  that the current step and call exist at the awaits where the code uses
  `step_id` and `tool_call_id`, which is what makes it inductive. The lemmas on
  the store's calls say what each keeps of the record's type, and
  the lemma on `Block` reduces a block to its final record and the records
  between its calls.
- `RowsInvariant`: `Spec => []RowsInv`, and from it `RowsAreClosed`:
  `Spec => []RowsClosed`. `RowsClosed` (a completed or failed response has no
  open row) is not inductive: a step that sets the status must find the rows
  closed already. `RowsInv` says which rows may be open at which await: while
  the session works only the last step's and the last call's, and each only at
  the awaits of `StepOpenAt` and `CallOpenAt`. The proof goes action by action:
  each block's final record satisfies `RowsAt` at the await the block leads to.
- `CancelStopsSteps`: `Spec => NoStepAfterCancel`, an action property. Only
  `LoopHead` starts a step, and only under `~cancelEvent`; every other block
  keeps the number of steps.
- `RolesAreAlternate`: whose message comes next is a matter of the await.
  `RolesInv` says that the number of messages is odd at the awaits of
  `ModelsTurn` and even at those of `UsersTurn`; at every other the next message
  is never appended.
- `ThreeFailuresEnd`: `CountInv` ties `consecutive_errors` to the record. No row
  of failed server calls that ends at the last call (before the last one, while
  it is in progress) is longer than the count. A call that succeeds resets the
  count and ends all rows; client calls and repairs do neither.
- `ClientIsToldTheStoredStatus`: `ToldInv`. Between the write of the status and
  the last emit a session can only end; what may still change the record are a
  cancelled task, whose socket is gone, and the path without a store after a
  failed write. When that path is taken with a store that works the record is
  still in progress, and "failed" is told of it: the one exception `ToldIsStored`
  names, and only of a response that has no other end.
- `ClientResultsAreSubmitted`: `SubmitInv`. A future with a result is that of
  the last call, and that call has been accepted; a call whose future is pending,
  or not made yet, has not.
- `StreamContractHolds`: `Spec => StreamContract`, the refinement. `StreamInv`
  gives for each await the last event sent, and no more steps and calls sent than
  the record has rows, so that the limits of the loop bound the events.

### The connection

`RunningSessionIsActive` and `CloseStopsSessions` are the two invariants of the
connection; `RunsWhenClosing` (while the handler waits only the awaited session
runs) is the strengthening that makes `NothingRunsAfterClose` inductive.

### The store

All seven theorems rest on `StoreInv`, which says where a call that is cut short
leaves the tables, whatever has failed and however often the process died:

- `Writing`: `todo` is one of the lists a call leaves, from where its writes
  have come to. `start_response()` is filling the tables with the record that is
  in memory (`Filling`), a finish is setting its status, the others add one row.
- `Synced`: the transaction that a failed commit left open (the difference
  between `seen` and `rows`) holds nothing of a response none of whose writes
  has raised: `seen` and `rows` have the same rows for it.
- `Matching`: every such response but the one being written is in memory what
  it is in the tables.

`InPlace` (positions are 1, 2, ... in `seen` and in `rows`) is what makes `Load`
return the messages as they were appended, because rows in order are not
reordered by `ORDER BY seq`. `RestartChangesNothing` is `Matching` when nothing
is left to write; `ReferencesAreFound` is that the first write of each list
finds the row that `Filling`, or the session's own progress, says is there.
`ToldIsKept` rests on `ToldIsStored(r)`: a client is told when nothing is left
to write, and what is in `seen` then is in `rows` by `Synced`.
`ChildCarriesItsParent` is `RowsCarry`: the rows of a response begin with what
`inherited` says its parent had, all of it, and go on with its own. It needs the
same of memory (`MemoryCarries`), where a child is made of what memory has of
its parent; by `Matching` that is what the database has of it. `HistoryIsKept`:
a commit may publish what several responses have waiting, and each of them has
only grown (`Grown`), so the step is one of ResponseHistory, which lets all
responses grow at once.

### The limiter, the event loop

- `LimitHolds`: `Spec => []AtMostLimit` of the limiter, and `RefusalIsJustified`
  and `TypeCorrect` from the same invariant. `AtMostLimit` is about all times
  ever admitted and the code keeps only a queue; `QueueInv` (`QueueIsWindow`)
  connects them: the queue is the end of what was admitted, and what is no longer
  in it has left the window. Once the clock was set back only `QueueIsAdmitted`
  is left of that, which is what the first half of `RefusedIsFull` needs: a
  refusal then shows a time in the queue that is not too old, and may be one in
  the future.
  `DropKeepsEnd`, `AppendKeepsEnd` and `AppendKeepsSpread` are the three facts on
  sequences it rests on.
- `LossNeedsHandler`: `Spec => []LostOnlyToHandlers` of the event loop. The
  strengthening `AnswersInv` (`AnswersInvariant`) follows an answer from its
  arrival: as long as its call waits and it is not handled, a handler or a command
  of the terminal has had the loop at every tick since. `TypeCorrect` gives it
  that one at most runs and none outlives its return.
- `LatenessBounded`: `Spec => []LatenessIsBounded`. `LateInv` lets the bound
  grow with the handlers and commands that have ended (`Ended`): while the loop
  is free the time is within it, and a handler that runs began within it and
  returns within its limit.

### The page

The page and the gateway agree although no event names the request it answers.
`ClientInv` says why. While no answer streams, nothing of one is in the two
channels (`Resting`); while one streams, all that is in them belongs to it and
comes in its order (errors apart), and a message that waits for the gateway
waits for the end of a task that has said all it says (`Streaming`, `OneWaits`).
So the next `response.completed` is that of the message sent last, also when it
failed unannounced; `response.created` names it, if it is `Due` (started, and
not unannounced); and a cancel names what the user saw (`CancelsMeanIt`).
`Known` is what holds without a condition, and carries `TypesOfTheClient`; the
rest (`Page`) holds as long as no socket was replaced before it had closed, as
the properties say, and is lost in the step that does so. Four effects cover the
gateway's ten actions (`Consumes`, `Starts`, `Says`, `EndsSession`), each proved
of its actions once.

### The backend's stream and the proxy

What the stream yields does not depend on the chunks. `StreamInv` says that for
some j the first j events have been taken, that the buffer and what still arrives
are together the rest of the wire (`Taken`), and that what was yielded, with the
text that is held, is what those j events say. `HeadFrame` is the step: there is
a frame in the buffer if and only if the next event is in it whole, and the frame
is then that event and nothing else, for either line break. That an event has no
end of a frame inside is `Solid`; that its data lines give its JSON back, and a
text with a line separator in it none, is a case for each form an event takes.
`FragmentsAreTheAnswer` and `NothingWaits` follow from `StreamInv`. For the first,
`LeftOffIsShort` says that a body that stops short of its last blank line stops
in the last event, so that the events taken are `EventsEnded`.
`RepliesAreTrue` adds `ProxyInv`: a reply in progress holds what was yielded, one
that has ended an `Ending`, the fragments and one outcome that is true of them.

`Wire`, `Said` and `Item` concatenate sequences of any length with `FlattenSeq`,
so that the proofs need an induction. The library's induction theorems take an
operator; `SetInduction`, proved from the well-foundedness of `<`, takes a set
instead. `ConcatsExist` and the lemmas after it derive from it what `FlattenSeq`
returns, and that a longer list of events has a wire that begins with the
shorter's.

### The parser

`CallsAreFound` compares a scan that counts braces with a reader of JSON that
knows strings and members. `Agrees` ties the two: from the start of an object on,
the count is the depth of the reader, until the reader is at an error; and the
object ends at the token at which the count is zero again (`CountedReads`), after
which the reader is at its end or at an error and stays there (`Stopped`,
`NoneEndsLater`). So a snippet is the one part from its start that may be an
object. `ParserInv` adds that a start tried in vain begins no object (`Tried`),
and since the starts are tried from the left the first that is one decides. The
reader is a recursive function; `InductionTo` is the induction over its texts.

### Only model-checked

The liveness properties `Terminates`, `ClientIsAnswered`, `CloseReturns`,
`RequestEnds` and `StreamingEnds`: the prover has no rule for fairness and ENABLED
here. Every invariant and every other action property that a passing run checks is
proved. That the four statements of Findings are violated is shown by TLC, whose
counterexamples need no proof.

## Plan

Done: AgentLoop with ResponseStream, Connection, StateStore with
ResponseHistory, RateLimiter, BackendStream with HttpProxy, ToolCallParser,
WebClient, EventLoop, and the eight proof modules. What is left:

- **Gateway**: Connection composed with sessions of AgentLoop, two responses on
  one connection: their events never interleave as long as no create raced, and a
  submit reaches the session whose call it names.

## Not modelled

The endpoints for files, terminal, models and config hold no state (the time a
command of the terminal takes is EventLoop's). What tools do to files, processes
and the network is I/O; the models have their outcomes and the time they take.
Field validation, prompts and log lines are data no property depends on; of the
page, the file explorer, terminal, voice and metrics. The store's crash is the
death of the process: a loss of power, after which WAL with `synchronous=NORMAL`
may lose commits, and an `initialize()` that fails are left out. In the
backend's stream, lines of one event end all in LF or all in CRLF; a body that
ends without `[DONE]` counts as a whole answer, and so do one cut off by the
backend's `finish_reason` and one that holds an error event, as they do in the
code. `config.py`, `scripts/`, `capture/` and the service files hold no state;
`capture/node_modules` is third-party code.
