--------------------------- MODULE StateStoreProofs ---------------------------
(***************************************************************************)
(* Proofs about the store: for any number of responses, messages, failed   *)
(* writes and crashes, the invariants of StateStore.tla hold and the       *)
(* database keeps an append-only history (ResponseHistory.tla).            *)
(*                                                                         *)
(* The inductive invariant StoreInv says where a call that is cut short    *)
(* leaves the tables: how far the writes of the call in progress have come *)
(* (Writing), that the open transaction holds nothing of a response none   *)
(* of whose writes has raised (Synced), and that every other such response *)
(* is in memory as it is in the tables (Matching).  MemoryCarries and      *)
(* RowsCarry say that a response has the history it inherited: the record  *)
(* of a session at work, and the rows of every response a client knows.    *)
(***************************************************************************)
EXTENDS StateStoreMC, FiniteSetTheorems, TLAPS

-----------------------------------------------------------------------------
(* The inductive invariant. *)

ResponseRows == [thread : Ids, parent : 0..NumResponses, status : Statuses]
MessageRows == [seq : Nat, msg : Messages]
MessageRow(seq, msg) == [seq |-> seq, msg |-> msg]
Writes ==
    [op : {"thread", "response", "status", "message",
           "step", "step_status", "call", "call_status", "result"},
     r : Ids,
     val : Ids \cup ResponseRows \cup Statuses \cup MessageRows \cup {"output"}]

(* The tables db hold the response r with the record m but for its status,  *)
(* and the first n of its messages.                                         *)
HoldsUpTo(m, db, r, n) ==
    /\ m # NoRecord
    /\ db.responses[r] # NoRecord
    /\ db.responses[r].thread = m.thread
    /\ db.responses[r].parent = m.parent
    /\ Len(db.messages[r]) = n
    /\ n <= Len(m.messages)
    /\ \A i \in 1..n : db.messages[r][i].msg = m.messages[i]

Holds(m, db, r) ==
    /\ HoldsUpTo(m, db, r, Len(m.messages))
    /\ db.responses[r].status = m.status

(* Nothing is known of r, here and there, or the same is. *)
Agrees(m, db, r) ==
    \/ m = NoRecord /\ db.responses[r] = NoRecord
    \/ Holds(m, db, r)

(* Message rows stand at their positions, below a row of responses. *)
InPlace(db, r) ==
    /\ \A i \in 1..Len(db.messages[r]) : db.messages[r][i].seq = i
    /\ db.responses[r] = NoRecord => db.messages[r] = <<>>
    /\ db.responses[r] # NoRecord => db.responses[r].parent < r

SameRows(a, b, r) == a.responses[r] = b.responses[r] /\ a.messages[r] = b.messages[r]

Synced == \A r \in Ids \ broken : SameRows(rows, seen, r)

(* The writes of start_response(), of which append_message() makes one. *)
StartWrite(r, j) ==
    IF j = 1 THEN InsertThread(memory[r].thread, r)
    ELSE IF j = 2 THEN InsertResponse(memory[r].thread, r, memory[r].parent)
    ELSE InsertMessage(r, j - 2, memory[r].messages[j - 2])

(* The last writes of start_response() are left, the others are in db. *)
Filling(r, db, left) ==
    LET done == Len(memory[r].messages) + 2 - Len(left) IN
    /\ session[r] \in {"starting", "running"}
    /\ memory[r] # NoRecord
    /\ memory[r].status = "in_progress"
    /\ Len(left) <= Len(memory[r].messages) + 2
    /\ \A k \in 1..Len(left) : left[k] = StartWrite(r, done + k)
    /\ done < 2 => db.responses[r] = NoRecord
    /\ done = 1 => memory[r].thread \in db.threads
    /\ done >= 2 => /\ HoldsUpTo(memory[r], db, r, done - 2)
                    /\ db.responses[r].status = "in_progress"

(* A status is left, which may not replace a final one but for a client     *)
(* that is gone.                                                            *)
SettingStatus(r, db, left) ==
    /\ left = <<UpdateResponse(r, memory[r].status)>>
    /\ HoldsUpTo(memory[r], db, r, Len(memory[r].messages))
    /\ \/ memory[r].status = "cancelled"
       \/ session[r] = "finished" /\ db.responses[r].status = "in_progress"

(* A row of steps, tool_calls or tool_results is left. *)
Recording(r, db, left) ==
    /\ \E w \in {InsertStep(r), UpdateStep(r), InsertToolCall(r), UpdateToolCall(r),
                 InsertToolResult(r)} :
           left = <<w>> /\ ReferencesExist(db, w)
    /\ Holds(memory[r], db, r)

Writing ==
    todo # <<>> =>
        LET r == Head(todo).r IN
        /\ r \in Ids \ broken
        /\ \/ Filling(r, seen, todo)
           \/ SettingStatus(r, seen, todo)
           \/ Recording(r, seen, todo)

Matching ==
    up => \A r \in Ids \ broken :
        (todo # <<>> => Head(todo).r # r) => Agrees(memory[r], seen, r)

(* The record m of r is one that continues what r inherited, unless a write *)
(* of its parent has raised.                                                *)
Histories == [thread : Ids, messages : Seq(Messages)]

Carries(r, m) ==
    m.parent \notin broken =>
        /\ m.parent = 0 <=> inherited[r] = NoRecord
        /\ Continues(m, inherited[r], r)

MemoryCarries(r) ==
    memory[r] # NoRecord =>
        /\ memory[r].parent < r
        /\ session[r] # "ended" => Carries(r, memory[r])

RowsCarry(r) == told[r] # "none" /\ r \notin broken => Carries(r, Load(seen, r))

(* What a holds of r has only grown in b. *)
Grown(a, b, r) ==
    a.responses[r] # NoRecord =>
        /\ b.responses[r] # NoRecord
        /\ b.responses[r].thread = a.responses[r].thread
        /\ b.responses[r].parent = a.responses[r].parent
        /\ Len(a.messages[r]) <= Len(b.messages[r])
        /\ \A i \in 1..Len(a.messages[r]) : b.messages[r][i] = a.messages[r][i]
        /\ \/ b.responses[r].status = a.responses[r].status
           \/ a.responses[r].status \notin Final
           \/ b.responses[r].status = "cancelled"

HasOwn(m, r) == \E i \in 1..Len(m.messages) : m.messages[i].by = r

SessionOK(r) ==
    /\ r \in broken => session[r] = "ended"
    /\ ~up => session[r] \in {"none", "ended"} /\ memory[r] = NoRecord
    /\ session[r] = "none" =>
           /\ memory[r] = NoRecord
           /\ seen.responses[r] = NoRecord
           /\ told[r] = "none"
    /\ session[r] \in {"starting", "running", "finished", "telling"} =>
           memory[r] # NoRecord /\ HasOwn(memory[r], r)
    /\ session[r] \in {"starting", "running"} => memory[r].status = "in_progress"
    /\ session[r] = "finished" => memory[r].status \in Final

(* The final status told of r is the stored one, but for the exceptions     *)
(* ToldIsDurable makes.                                                     *)
StatusIsTold(r, status) ==
    told[r] \in Final =>
        \/ status \in {told[r], "cancelled"}
        \/ told[r] = "failed" /\ status = "in_progress"

(* What was told of r is in the tables. *)
ToldIsStored(r) ==
    /\ told[r] # "none" /\ r \notin broken =>
           /\ session[r] # "starting"
           /\ seen.responses[r] # NoRecord
           /\ \E i \in 1..Len(seen.messages[r]) : seen.messages[r][i].msg.by = r
    /\ told[r] \in Final /\ r \notin broken =>
           /\ session[r] \in {"telling", "ended"}
           /\ StatusIsTold(r, seen.responses[r].status)

StoreInv ==
    /\ TypeOK
    /\ todo \in Seq(Writes)
    /\ Synced
    /\ Writing
    /\ Matching
    /\ \A r \in Ids :
           /\ InPlace(rows, r) /\ InPlace(seen, r)
           /\ MemoryCarries(r)
           /\ RowsCarry(r)
           /\ Grown(rows, seen, r)
           /\ SessionOK(r)
           /\ ToldIsStored(r)

-----------------------------------------------------------------------------
(* Records and rows. *)

LEMMA IdsAreNaturals == Ids \subseteq Nat
  BY BoundsAssumption DEF Ids

LEMMA RecordsAreNone ==
    /\ \A m \in Records : m # NoRecord
    /\ \A row \in ResponseRows : row # NoRecord
    /\ \A history \in Histories : history # NoRecord
  <1>1. /\ \A m \in Records : m # NoRecord
        /\ \A row \in ResponseRows : row # NoRecord
    BY DEF Records, ResponseRows, NoRecord, Statuses, Final
  <1>2. \A history \in Histories : history # NoRecord
    BY DEF Histories, NoRecord
  <1> QED
    BY <1>1, <1>2

LEMMA TablesTypes ==
    ASSUME NEW db \in Tables, NEW r \in Ids
    PROVE  /\ db.threads \subseteq Ids
           /\ db.responses[r] \in ResponseRows \cup {NoRecord}
           /\ db.responses[r] # NoRecord => db.responses[r] \in ResponseRows
           /\ db.messages[r] \in Seq(MessageRows)
  BY DEF Tables, ResponseRows, MessageRows

(* Own() counts something just when there is something to count. *)
LEMMA OwnType ==
    ASSUME NEW m, Len(m.messages) \in Nat, NEW r
    PROVE  /\ Own(m, r) \in Nat
           /\ HasOwn(m, r) <=> Own(m, r) > 0
  <1> DEFINE I == {i \in 1..Len(m.messages) : m.messages[i].by = r}
  <1>1. IsFiniteSet(1..Len(m.messages))
    BY FS_Interval
  <1>2. IsFiniteSet(I)
    BY <1>1, FS_Subset
  <1>3. Cardinality(I) \in Nat
    BY <1>2, FS_CardinalityType
  <1>4. Cardinality(I) = 0 <=> I = {}
    BY <1>2, FS_EmptySet
  <1>5. HasOwn(m, r) <=> I # {}
    BY DEF HasOwn
  <1> QED
    BY <1>3, <1>4, <1>5 DEF Own

(* Rows in place are loaded as they stand. *)
LEMMA LoadInPlace ==
    ASSUME NEW db \in Tables, NEW r \in Ids, InPlace(db, r), db.responses[r] # NoRecord
    PROVE  Load(db, r) = Loaded(db.responses[r], db.messages[r])
  <1>1. db.messages[r] \in Seq(MessageRows)
    BY TablesTypes
  <1>2. InOrder(db.messages[r])
    BY <1>1 DEF InOrder, InPlace
  <1> QED
    BY <1>2 DEF Load, OrderBySeq

LEMMA LoadedHistory ==
    ASSUME NEW row, NEW other, NEW msgs,
           row.thread = other.thread, row.parent = other.parent
    PROVE  /\ Loaded(row, msgs).thread = Loaded(other, msgs).thread
           /\ Loaded(row, msgs).parent = Loaded(other, msgs).parent
           /\ Loaded(row, msgs).messages = Loaded(other, msgs).messages
  <1>1. PICK ms : ms = [i \in 1..Len(msgs) |-> msgs[i].msg]
    OBVIOUS
  <1>2. /\ Loaded(row, msgs) =
               [thread |-> row.thread, parent |-> row.parent,
                status |-> row.status, messages |-> ms, next |-> Len(msgs) + 1]
        /\ Loaded(other, msgs) =
               [thread |-> other.thread, parent |-> other.parent,
                status |-> other.status, messages |-> ms, next |-> Len(msgs) + 1]
    BY <1>1 DEF Loaded
  <1> QED
    BY <1>2

LEMMA LoadedFields ==
    ASSUME NEW row \in ResponseRows, NEW msgs \in Seq(MessageRows)
    PROVE  /\ Loaded(row, msgs) \in Records
           /\ Loaded(row, msgs).thread = row.thread
           /\ Loaded(row, msgs).parent = row.parent
           /\ Loaded(row, msgs).status = row.status
           /\ Len(Loaded(row, msgs).messages) = Len(msgs)
           /\ \A i \in 1..Len(msgs) : Loaded(row, msgs).messages[i] = msgs[i].msg
           /\ Loaded(row, msgs).next = Len(msgs) + 1
  <1> DEFINE ms == [i \in 1..Len(msgs) |-> msgs[i].msg]
  <1>1. Len(msgs) \in Nat /\ \A i \in 1..Len(msgs) : msgs[i].msg \in Messages
    <2>1. Len(msgs) \in Nat /\ \A i \in 1..Len(msgs) : msgs[i] \in MessageRows
      OBVIOUS
    <2> QED
      BY <2>1 DEF MessageRows
  <1>2. ms \in Seq(Messages) /\ Len(ms) = Len(msgs)
    BY <1>1
  <1> HIDE DEF ms
  <1>3. Loaded(row, msgs) = [thread |-> row.thread, parent |-> row.parent,
                            status |-> row.status, messages |-> ms, next |-> Len(msgs) + 1]
    BY DEF Loaded, ms
  <1>4. \A i \in 1..Len(msgs) : ms[i] = msgs[i].msg
    BY DEF ms
  <1> QED
    BY <1>1, <1>2, <1>3, <1>4 DEF Records, ResponseRows

(* What load_state() and initialize() make of the rows of r. *)
LEMMA LoadFields ==
    ASSUME NEW db \in Tables, NEW r \in Ids, InPlace(db, r)
    PROVE  /\ Load(db, r) \in Records \cup {NoRecord}
           /\ Load(db, r) = NoRecord <=> db.responses[r] = NoRecord
           /\ db.responses[r] # NoRecord =>
                /\ Load(db, r) \in Records
                /\ Load(db, r).thread = db.responses[r].thread
                /\ Load(db, r).parent = db.responses[r].parent
                /\ Load(db, r).status = db.responses[r].status
                /\ Len(Load(db, r).messages) = Len(db.messages[r])
                /\ \A i \in 1..Len(db.messages[r]) :
                      Load(db, r).messages[i] = db.messages[r][i].msg
                /\ Load(db, r).next = Len(Load(db, r).messages) + 1
  <1>1. CASE db.responses[r] = NoRecord
    BY <1>1 DEF Load
  <1>2. CASE db.responses[r] # NoRecord
    <2>1. db.responses[r] \in ResponseRows /\ db.messages[r] \in Seq(MessageRows)
      BY <1>2, TablesTypes
    <2>2. Load(db, r) = Loaded(db.responses[r], db.messages[r])
      BY <1>2, LoadInPlace
    <2> QED
      BY <1>2, <2>1, <2>2, LoadedFields, RecordsAreNone
  <1> QED
    BY <1>1, <1>2

(* A loaded record agrees with the rows. *)
LEMMA LoadedAgrees ==
    ASSUME NEW db \in Tables, NEW r \in Ids, InPlace(db, r)
    PROVE  Agrees(Load(db, r), db, r)
  <1>1. db.messages[r] \in Seq(MessageRows)
    BY TablesTypes
  <1> QED
    BY <1>1, LoadFields, RecordsAreNone DEF Agrees, Holds, HoldsUpTo

(* A record that agrees with the rows is the one that would be loaded. *)
LEMMA AgreesIsLoaded ==
    ASSUME NEW db \in Tables, NEW r \in Ids, InPlace(db, r),
           NEW m \in Records \cup {NoRecord}, m # NoRecord => m.next = Len(m.messages) + 1,
           Agrees(m, db, r)
    PROVE  m = Load(db, r)
  <1>1. CASE m = NoRecord
    BY <1>1, LoadFields DEF Agrees, Holds, HoldsUpTo
  <1>2. CASE m # NoRecord
    <2>1. Holds(m, db, r) /\ m \in Records
      BY <1>2 DEF Agrees
    <2>2. db.responses[r] # NoRecord
      BY <2>1 DEF Holds, HoldsUpTo
    <2> DEFINE l == Load(db, r)
    <2>3. /\ l \in Records
          /\ l.thread = m.thread /\ l.parent = m.parent /\ l.status = m.status
          /\ Len(l.messages) = Len(m.messages)
          /\ \A i \in 1..Len(m.messages) : l.messages[i] = m.messages[i]
          /\ l.next = m.next
      <3>1. /\ l \in Records
            /\ l.thread = db.responses[r].thread
            /\ l.parent = db.responses[r].parent
            /\ l.status = db.responses[r].status
            /\ Len(l.messages) = Len(db.messages[r])
            /\ \A i \in 1..Len(db.messages[r]) : l.messages[i] = db.messages[r][i].msg
            /\ l.next = Len(l.messages) + 1
        BY <2>2, LoadFields
      <3> HIDE DEF l
      <3> QED
        BY <1>2, <2>1, <3>1 DEF Holds, HoldsUpTo
    <2> HIDE DEF l
    <2>4. l.messages \in Seq(Messages) /\ m.messages \in Seq(Messages)
      BY <2>1, <2>3 DEF Records
    <2>5. l.messages = m.messages
      BY <2>3, <2>4
    <2>6. l = m
      BY <2>1, <2>3, <2>5 DEF Records
    <2> QED
      BY <2>6 DEF l
  <1> QED
    BY <1>1, <1>2

-----------------------------------------------------------------------------
(* What each write does to the tables. *)

LEMMA ThreadsChange ==
    ASSUME NEW db \in Tables, NEW threads \in SUBSET Ids
    PROVE  LET new == [db EXCEPT !.threads = threads] IN
           /\ new \in Tables
           /\ new.threads = threads
           /\ \A q \in Ids : SameRows(db, new, q)
  <1> DEFINE responses == [Ids -> ResponseRows \cup {NoRecord}]
             messages == [Ids -> Seq(MessageRows)]
             marks == [Ids -> {"none", "in_progress", "completed"}]
  <1>1. Tables = [threads : SUBSET Ids, responses : responses, messages : messages,
                  steps : marks, calls : marks, results : SUBSET Ids]
    BY DEF Tables, ResponseRows, MessageRows
  <1> HIDE DEF responses, messages, marks
  <1> QED
    BY <1>1 DEF SameRows

LEMMA ResultsChange ==
    ASSUME NEW db \in Tables, NEW results \in SUBSET Ids
    PROVE  LET new == [db EXCEPT !.results = results] IN
           /\ new \in Tables
           /\ \A q \in Ids : SameRows(db, new, q)
  <1> DEFINE responses == [Ids -> ResponseRows \cup {NoRecord}]
             messages == [Ids -> Seq(MessageRows)]
             marks == [Ids -> {"none", "in_progress", "completed"}]
  <1>1. Tables = [threads : SUBSET Ids, responses : responses, messages : messages,
                  steps : marks, calls : marks, results : SUBSET Ids]
    BY DEF Tables, ResponseRows, MessageRows
  <1> HIDE DEF responses, messages, marks
  <1> QED
    BY <1>1 DEF SameRows

LEMMA StepsChange ==
    ASSUME NEW db \in Tables,
           NEW changed \in [Ids -> {"none", "in_progress", "completed"}]
    PROVE  LET new == [db EXCEPT !.steps = changed] IN
           /\ new \in Tables
           /\ \A q \in Ids : SameRows(db, new, q)
  <1> DEFINE responses == [Ids -> ResponseRows \cup {NoRecord}]
             messages == [Ids -> Seq(MessageRows)]
             marks == [Ids -> {"none", "in_progress", "completed"}]
  <1>1. Tables = [threads : SUBSET Ids, responses : responses, messages : messages,
                  steps : marks, calls : marks, results : SUBSET Ids]
    BY DEF Tables, ResponseRows, MessageRows
  <1> HIDE DEF responses, messages
  <1> QED
    BY <1>1 DEF SameRows

LEMMA CallsChange ==
    ASSUME NEW db \in Tables,
           NEW changed \in [Ids -> {"none", "in_progress", "completed"}]
    PROVE  LET new == [db EXCEPT !.calls = changed] IN
           /\ new \in Tables
           /\ \A q \in Ids : SameRows(db, new, q)
  <1> DEFINE responses == [Ids -> ResponseRows \cup {NoRecord}]
             messages == [Ids -> Seq(MessageRows)]
             marks == [Ids -> {"none", "in_progress", "completed"}]
  <1>1. Tables = [threads : SUBSET Ids, responses : responses, messages : messages,
                  steps : marks, calls : marks, results : SUBSET Ids]
    BY DEF Tables, ResponseRows, MessageRows
  <1> HIDE DEF responses, messages
  <1> QED
    BY <1>1 DEF SameRows

LEMMA ThreadIsInserted ==
    ASSUME NEW db \in Tables, NEW r \in Ids, NEW t \in Ids
    PROVE  LET new == Apply(db, InsertThread(t, r)) IN
           /\ new \in Tables
           /\ t \in new.threads
           /\ \A q \in Ids : SameRows(db, new, q)
  <1>1. Apply(db, InsertThread(t, r)) = [db EXCEPT !.threads = @ \cup {t}]
    BY DEF Apply, InsertThread
  <1>2. db.threads \cup {t} \in SUBSET Ids
    BY TablesTypes
  <1> QED
    BY <1>1, <1>2, ThreadsChange

LEMMA ResponseIsInserted ==
    ASSUME NEW db \in Tables, NEW r \in Ids, NEW t \in Ids, NEW p \in 0..NumResponses
    PROVE  LET new == Apply(db, InsertResponse(t, r, p)) IN
           /\ new \in Tables
           /\ new.threads = db.threads
           /\ new.messages = db.messages
           /\ new.responses[r] = [thread |-> t, parent |-> p, status |-> "in_progress"]
           /\ new.responses[r] # NoRecord
           /\ \A q \in Ids \ {r} : SameRows(db, new, q)
  <1> DEFINE row == [thread |-> t, parent |-> p, status |-> "in_progress"]
  <1>1. Apply(db, InsertResponse(t, r, p)) = [db EXCEPT !.responses[r] = row]
    BY DEF Apply, InsertResponse
  <1>2. row \in ResponseRows
    BY DEF ResponseRows, Statuses
  <1>3. row # NoRecord
    BY <1>2, RecordsAreNone
  <1> HIDE DEF row
  <1>4. db.responses \in [Ids -> ResponseRows \cup {NoRecord}]
    BY DEF Tables, ResponseRows
  <1>5. [db EXCEPT !.responses[r] = row] \in Tables
    BY <1>2, <1>4 DEF Tables, ResponseRows
  <1>6. [db EXCEPT !.responses[r] = row].responses = [db.responses EXCEPT ![r] = row]
    BY DEF Tables
  <1>7. /\ [db EXCEPT !.responses[r] = row].threads = db.threads
        /\ [db EXCEPT !.responses[r] = row].messages = db.messages
    BY DEF Tables
  <1>8. Apply(db, InsertResponse(t, r, p)).responses[r] = row
    BY <1>1, <1>4, <1>6
  <1> QED
    BY <1>1, <1>3, <1>4, <1>5, <1>6, <1>7, <1>8 DEF SameRows, row

LEMMA StatusIsSet ==
    ASSUME NEW db \in Tables, NEW r \in Ids, db.responses[r] # NoRecord, NEW st \in Statuses
    PROVE  LET new == Apply(db, UpdateResponse(r, st)) IN
           /\ new \in Tables
           /\ new.messages = db.messages
           /\ new.responses[r] # NoRecord
           /\ new.responses[r].thread = db.responses[r].thread
           /\ new.responses[r].parent = db.responses[r].parent
           /\ new.responses[r].status = st
           /\ \A q \in Ids \ {r} : SameRows(db, new, q)
  <1> DEFINE row == [db.responses[r] EXCEPT !.status = st]
  <1>1. Apply(db, UpdateResponse(r, st)) = [db EXCEPT !.responses[r].status = st]
    BY DEF Apply, UpdateResponse
  <1>2. db.responses[r] \in ResponseRows
    BY TablesTypes
  <1>3. /\ row \in ResponseRows
        /\ row.thread = db.responses[r].thread
        /\ row.parent = db.responses[r].parent
        /\ row.status = st
    BY <1>2 DEF ResponseRows
  <1>4. row # NoRecord
    BY <1>3, RecordsAreNone
  <1>5. Apply(db, UpdateResponse(r, st)) = [db EXCEPT !.responses[r] = row]
    BY <1>1
  <1> HIDE DEF row
  <1>6. db.responses \in [Ids -> ResponseRows \cup {NoRecord}]
    BY DEF Tables, ResponseRows
  <1>7. [db EXCEPT !.responses[r] = row] \in Tables
    BY <1>3, <1>6 DEF Tables, ResponseRows
  <1>8. /\ [db EXCEPT !.responses[r] = row].responses = [db.responses EXCEPT ![r] = row]
        /\ [db EXCEPT !.responses[r] = row].messages = db.messages
    BY DEF Tables
  <1>9. Apply(db, UpdateResponse(r, st)).responses[r] = row
    BY <1>5, <1>6, <1>8
  <1> QED
    BY <1>3, <1>4, <1>5, <1>6, <1>7, <1>8, <1>9 DEF SameRows

LEMMA MessageIsInserted ==
    ASSUME NEW db \in Tables, NEW r \in Ids, NEW seq \in Nat, NEW msg \in Messages
    PROVE  LET new == Apply(db, InsertMessage(r, seq, msg)) IN
           /\ new \in Tables
           /\ new.responses = db.responses
           /\ new.messages[r] = Append(db.messages[r], MessageRow(seq, msg))
           /\ \A q \in Ids \ {r} : SameRows(db, new, q)
  <1> DEFINE row == MessageRow(seq, msg)
             rows1 == Append(db.messages[r], row)
  <1>1. Apply(db, InsertMessage(r, seq, msg)) = [db EXCEPT !.messages[r] = rows1]
    BY DEF Apply, InsertMessage, MessageRow
  <1>2. db.messages[r] \in Seq(MessageRows) /\ row \in MessageRows
    BY TablesTypes DEF MessageRows, MessageRow
  <1>3. rows1 \in Seq(MessageRows)
    BY <1>2
  <1> HIDE DEF rows1
  <1>4. db.messages \in [Ids -> Seq(MessageRows)]
    BY DEF Tables, MessageRows
  <1>5. [db EXCEPT !.messages[r] = rows1] \in Tables
    BY <1>3, <1>4 DEF Tables, MessageRows
  <1>6. /\ [db EXCEPT !.messages[r] = rows1].messages = [db.messages EXCEPT ![r] = rows1]
        /\ [db EXCEPT !.messages[r] = rows1].responses = db.responses
    BY DEF Tables
  <1>7. Apply(db, InsertMessage(r, seq, msg)).messages[r] = rows1
    BY <1>1, <1>4, <1>6
  <1> QED
    BY <1>1, <1>4, <1>5, <1>6, <1>7 DEF SameRows, rows1

LEMMA RowIsRecorded ==
    ASSUME NEW db \in Tables, NEW r \in Ids,
           NEW w \in {InsertStep(r), UpdateStep(r), InsertToolCall(r), UpdateToolCall(r),
                      InsertToolResult(r)}
    PROVE  /\ Apply(db, w) \in Tables
           /\ \A q \in Ids : SameRows(db, Apply(db, w), q)
  <1>1. CASE w \in {InsertStep(r), UpdateStep(r)}
    <2>1. PICK st \in {"in_progress", "completed"} : w.op \in {"step", "step_status"} /\ w.val = st /\ w.r = r
      BY <1>1 DEF InsertStep, UpdateStep
    <2>2. [db.steps EXCEPT ![r] = st] \in [Ids -> {"none", "in_progress", "completed"}]
      BY DEF Tables
    <2>3. Apply(db, w) = [db EXCEPT !.steps = [db.steps EXCEPT ![r] = st]]
      BY <2>1 DEF Apply
    <2>4. PICK changed \in [Ids -> {"none", "in_progress", "completed"}] :
              Apply(db, w) = [db EXCEPT !.steps = changed]
      BY <2>2, <2>3
    <2> QED
      BY <2>4, StepsChange
  <1>2. CASE w \in {InsertToolCall(r), UpdateToolCall(r)}
    <2>1. PICK st \in {"in_progress", "completed"} : w.op \in {"call", "call_status"} /\ w.val = st /\ w.r = r
      BY <1>2 DEF InsertToolCall, UpdateToolCall
    <2>2. [db.calls EXCEPT ![r] = st] \in [Ids -> {"none", "in_progress", "completed"}]
      BY DEF Tables
    <2>3. Apply(db, w) = [db EXCEPT !.calls = [db.calls EXCEPT ![r] = st]]
      BY <2>1 DEF Apply
    <2>4. PICK changed \in [Ids -> {"none", "in_progress", "completed"}] :
              Apply(db, w) = [db EXCEPT !.calls = changed]
      BY <2>2, <2>3
    <2> QED
      BY <2>4, CallsChange
  <1>3. CASE w = InsertToolResult(r)
    <2>1. Apply(db, w) = [db EXCEPT !.results = @ \cup {r}]
      BY <1>3 DEF Apply, InsertToolResult
    <2>2. db.results \cup {r} \in SUBSET Ids
      BY DEF Tables
    <2> QED
      BY <2>1, <2>2, ResultsChange
  <1> QED
    BY <1>1, <1>2, <1>3

-----------------------------------------------------------------------------
(* The write at the head of the call in progress. *)

LEMMA InvFacts ==
    ASSUME StoreInv, NEW r \in Ids
    PROVE  /\ rows \in Tables /\ seen \in Tables
           /\ memory[r] \in Records \cup {NoRecord}
           /\ memory[r] # NoRecord =>
                /\ memory[r] \in Records
                /\ memory[r].messages \in Seq(Messages)
                /\ Len(memory[r].messages) \in Nat
                /\ memory[r].next = Len(memory[r].messages) + 1
           /\ InPlace(rows, r) /\ InPlace(seen, r)
           /\ MemoryCarries(r)
           /\ RowsCarry(r)
           /\ Grown(rows, seen, r)
           /\ SessionOK(r)
           /\ ToldIsStored(r)
           /\ r \notin broken => SameRows(rows, seen, r)
           /\ inherited[r] \in Histories \cup {NoRecord}
  <1>1. memory[r] \in Records => memory[r].messages \in Seq(Messages)
    BY DEF Records
  <1>2. memory[r] \in Records \cup {NoRecord}
    BY DEF StoreInv, TypeOK
  <1>3. inherited[r] \in Histories \cup {NoRecord}
    BY DEF StoreInv, TypeOK, Histories
  <1> QED
    BY <1>1, <1>2, <1>3 DEF StoreInv, TypeOK, Synced

LEMMA TodoFacts ==
    ASSUME StoreInv, todo # <<>>
    PROVE  /\ todo \in Seq(Writes)
           /\ Len(todo) \in Nat \ {0}
           /\ Head(todo) = todo[1]
           /\ Head(todo).r \in Ids \ broken
           /\ up
           /\ Tail(todo) \in Seq(Writes)
           /\ Len(Tail(todo)) = Len(todo) - 1
           /\ Tail(todo) = <<>> <=> Len(todo) = 1
           /\ \A k \in 1..Len(todo) - 1 : Tail(todo)[k] = todo[k + 1]
           /\ Tail(todo) # <<>> => Head(Tail(todo)) = todo[2] /\ Len(todo) >= 2
  <1>1. todo \in Seq(Writes) /\ todo # <<>>
    BY DEF StoreInv
  <1>2. Head(todo).r \in Ids \ broken
    BY DEF StoreInv, Writing
  <1>3. up
    BY DEF StoreInv, TypeOK
  <1>4. Len(todo) \in Nat \ {0} /\ Head(todo) = todo[1]
    BY <1>1
  <1>5. /\ Tail(todo) \in Seq(Writes)
        /\ Len(Tail(todo)) = Len(todo) - 1
        /\ \A k \in 1..Len(todo) - 1 : Tail(todo)[k] = todo[k + 1]
    BY <1>1
  <1>6. Tail(todo) = <<>> <=> Len(Tail(todo)) = 0
    BY <1>5
  <1>7. Tail(todo) # <<>> => Head(Tail(todo)) = Tail(todo)[1]
    BY <1>5
  <1>8. Tail(todo) # <<>> => Len(todo) >= 2 /\ 1 \in 1..Len(todo) - 1
    BY <1>4, <1>5, <1>6
  <1> QED
    BY <1>1, <1>2, <1>3, <1>4, <1>5, <1>6, <1>7, <1>8

LEMMA OneWriteLeft ==
    ASSUME NEW w
    PROVE  Head(<<w>>) = w /\ Tail(<<w>>) = <<>> /\ Len(<<w>>) = 1
  OBVIOUS

LEMMA StartWritesAreOfR ==
    ASSUME NEW r, NEW j
    PROVE  StartWrite(r, j).r = r
  BY DEF StartWrite, InsertThread, InsertResponse, InsertMessage

LEMMA FillingShape ==
    ASSUME StoreInv, todo # <<>>, NEW r \in Ids, Filling(r, seen, todo)
    PROVE  /\ Len(memory[r].messages) \in Nat
           /\ Len(todo) \in 1..(Len(memory[r].messages) + 2)
           /\ Head(todo) = StartWrite(r, Len(memory[r].messages) + 3 - Len(todo))
           /\ \A k \in 1..Len(Tail(todo)) : Tail(todo)[k] =
                StartWrite(r, Len(memory[r].messages) + 2 - Len(Tail(todo)) + k)
           /\ Tail(todo) # <<>> => Head(Tail(todo)).r = r
  <1>1. memory[r] # NoRecord
    BY DEF Filling
  <1>2. Len(memory[r].messages) \in Nat
    BY <1>1, InvFacts
  <1> DEFINE N == Len(memory[r].messages)
             L == Len(todo)
  <1>3. L \in 1..(N + 2) /\ \A k \in 1..L : todo[k] = StartWrite(r, N + 2 - L + k)
    BY <1>2, TodoFacts DEF Filling
  <1> HIDE DEF N
  <1>4. N \in Nat /\ L \in Nat
    BY <1>2, <1>3 DEF N
  <1>5. Head(todo) = StartWrite(r, N + 3 - L)
    <2>1. N + 2 - L + 1 = N + 3 - L
      BY <1>4
    <2> QED
      BY <1>3, <2>1, TodoFacts
  <1>6. ASSUME NEW k \in 1..Len(Tail(todo))
        PROVE  Tail(todo)[k] = StartWrite(r, N + 2 - Len(Tail(todo)) + k)
    <2>1. Len(Tail(todo)) = L - 1 /\ k + 1 \in 1..L /\ Tail(todo)[k] = todo[k + 1]
      BY <1>4, TodoFacts
    <2>2. N + 2 - L + (k + 1) = N + 2 - Len(Tail(todo)) + k
      BY <1>4, <2>1
    <2> QED
      BY <1>3, <2>1, <2>2
  <1>7. Tail(todo) # <<>> => Head(Tail(todo)).r = r
    <2>1. Tail(todo) # <<>> => 2 \in 1..L /\ Head(Tail(todo)) = todo[2]
      BY <1>4, TodoFacts
    <2> QED
      BY <1>3, <2>1, StartWritesAreOfR
  <1> QED
    BY <1>2, <1>3, <1>5, <1>6, <1>7 DEF N

(* The write of the response r makes the tables db of those seen. *)
Wrote(r, db) ==
    /\ db \in Tables
    /\ \A q \in Ids \ {r} : SameRows(seen, db, q)
    /\ InPlace(db, r)
    /\ Grown(seen, db, r)
    /\ told[r] # "none" => Carries(r, Load(db, r))
    /\ StatusIsTold(r, db.responses[r].status)
    /\ Tail(todo) = <<>> => Agrees(memory[r], db, r)
    /\ Tail(todo) # <<>> => Head(Tail(todo)).r = r /\ Filling(r, db, Tail(todo))

(* When the write at the head is done, the next one is at the head. *)
LEMMA FillingGoesOn ==
    ASSUME StoreInv, todo # <<>>, NEW r \in Ids, Filling(r, seen, todo),
           NEW done \in Nat,
           done = Len(memory[r].messages) + 2 - Len(Tail(todo)),
           NEW db,
           done < 2 => db.responses[r] = NoRecord,
           done = 1 => memory[r].thread \in db.threads,
           done >= 2 => /\ HoldsUpTo(memory[r], db, r, done - 2)
                        /\ db.responses[r].status = "in_progress"
    PROVE  Tail(todo) # <<>> => Head(Tail(todo)).r = r /\ Filling(r, db, Tail(todo))
  <1>1. /\ session[r] \in {"starting", "running"}
        /\ memory[r] # NoRecord
        /\ memory[r].status = "in_progress"
    BY DEF Filling
  <1>2. /\ Len(memory[r].messages) \in Nat
        /\ \A k \in 1..Len(Tail(todo)) : Tail(todo)[k] = StartWrite(r, done + k)
        /\ Tail(todo) # <<>> => Head(Tail(todo)).r = r
    BY FillingShape
  <1>3. Len(Tail(todo)) <= Len(memory[r].messages) + 2
    <2>1. Len(todo) \in Nat /\ Len(Tail(todo)) = Len(todo) - 1
      BY TodoFacts
    <2>2. Len(todo) <= Len(memory[r].messages) + 2
      BY <1>2, <2>1 DEF Filling
    <2>3. ASSUME NEW L \in Nat, NEW T, T = L - 1, NEW N \in Nat, L <= N + 2
          PROVE  T <= N + 2
      BY <2>3
    <2> QED
      BY <1>2, <2>1, <2>2, <2>3
  <1> QED
    BY <1>1, <1>2, <1>3 DEF Filling

(* start_response() writes the thread, then the response, then its messages *)
(* one by one; append_message() writes one message.                         *)
LEMMA ThreadIsWritten ==
    ASSUME StoreInv, todo # <<>>, NEW r \in Ids, r \notin broken, Filling(r, seen, todo),
           Len(todo) = Len(memory[r].messages) + 2
    PROVE  /\ ReferencesExist(seen, Head(todo))
           /\ Wrote(r, Apply(seen, Head(todo)))
  <1> DEFINE N == Len(memory[r].messages)
             db == Apply(seen, Head(todo))
  <1>1. memory[r] # NoRecord /\ seen \in Tables
    BY InvFacts DEF Filling
  <1>2. N \in Nat /\ memory[r] \in Records
    BY <1>1, InvFacts
  <1>3. memory[r].thread \in Ids
    BY <1>2 DEF Records
  <1>4. Head(todo) = InsertThread(memory[r].thread, r)
    <2>1. N + 3 - Len(todo) = 1
      BY <1>2
    <2>2. Head(todo) = StartWrite(r, 1)
      BY <2>1, FillingShape
    <2> QED
      BY <2>2 DEF StartWrite
  <1>5. /\ db \in Tables
        /\ memory[r].thread \in db.threads
        /\ \A q \in Ids : SameRows(seen, db, q)
    BY <1>1, <1>3, <1>4, ThreadIsInserted
  <1>6. ReferencesExist(seen, Head(todo))
    BY <1>4 DEF ReferencesExist, InsertThread
  <1>7. seen.responses[r] = NoRecord /\ db.responses[r] = NoRecord
    <2>1. seen.responses[r] = NoRecord
      BY <1>2 DEF Filling
    <2> QED
      BY <2>1, <1>5 DEF SameRows
  <1>8. Len(Tail(todo)) = N + 1 /\ Tail(todo) # <<>>
    BY <1>2, TodoFacts
  <1>9. Filling(r, db, Tail(todo)) /\ Head(Tail(todo)).r = r
    <2>1. N + 2 - Len(Tail(todo)) = 1
      BY <1>2, <1>8
    <2> HIDE DEF db
    <2>2. 1 \in Nat /\ 1 < 2 /\ ~(1 >= 2)
      OBVIOUS
    <2> HIDE DEF N
    <2>3. 1 = Len(memory[r].messages) + 2 - Len(Tail(todo))
      BY <2>1 DEF N
    <2> QED
      BY <1>5, <1>7, <1>8, <2>2, <2>3, FillingGoesOn
  <1>10. InPlace(db, r) /\ Grown(seen, db, r)
    BY <1>5, <1>7, InvFacts DEF InPlace, Grown, SameRows
  <1>11. told[r] = "none" /\ StatusIsTold(r, db.responses[r].status)
    BY <1>7, InvFacts DEF ToldIsStored, StatusIsTold, Final
  <1> HIDE DEF db
  <1>12. Wrote(r, db)
    BY <1>5, <1>8, <1>9, <1>10, <1>11 DEF Wrote
  <1> QED
    BY <1>6, <1>12 DEF db

LEMMA ResponseIsWritten ==
    ASSUME StoreInv, todo # <<>>, NEW r \in Ids, r \notin broken, Filling(r, seen, todo),
           Len(todo) = Len(memory[r].messages) + 1
    PROVE  /\ ReferencesExist(seen, Head(todo))
           /\ Wrote(r, Apply(seen, Head(todo)))
  <1> DEFINE N == Len(memory[r].messages)
             db == Apply(seen, Head(todo))
  <1>1. memory[r] # NoRecord /\ seen \in Tables
    BY InvFacts DEF Filling
  <1>2. N \in Nat /\ memory[r] \in Records /\ memory[r].messages \in Seq(Messages)
    BY <1>1, InvFacts
  <1>3. memory[r].thread \in Ids /\ memory[r].parent \in 0..NumResponses
    BY <1>2 DEF Records
  <1>4. Head(todo) = InsertResponse(memory[r].thread, r, memory[r].parent)
    <2>1. N + 3 - Len(todo) = 2
      BY <1>2
    <2>2. Head(todo) = StartWrite(r, 2)
      BY <2>1, FillingShape
    <2> QED
      BY <2>2 DEF StartWrite
  <1>5. /\ db \in Tables
        /\ db.messages = seen.messages
        /\ db.responses[r] = [thread |-> memory[r].thread, parent |-> memory[r].parent,
                              status |-> "in_progress"]
        /\ db.responses[r] # NoRecord
        /\ \A q \in Ids \ {r} : SameRows(seen, db, q)
    BY <1>1, <1>3, <1>4, ResponseIsInserted
  <1>6. seen.responses[r] = NoRecord /\ memory[r].thread \in seen.threads
    BY <1>2 DEF Filling
  <1>7. ReferencesExist(seen, Head(todo))
    BY <1>4, <1>6 DEF ReferencesExist, InsertResponse
  <1>8. db.messages[r] = <<>>
    BY <1>5, <1>6, InvFacts DEF InPlace
  <1>9. memory[r].parent < r /\ memory[r].status = "in_progress"
    BY <1>1, InvFacts DEF MemoryCarries, Filling
  <1>10. Len(Tail(todo)) = N
    BY <1>2, TodoFacts
  <1> HIDE DEF db
  <1>11. InPlace(db, r) /\ Grown(seen, db, r)
    BY <1>5, <1>6, <1>8, <1>9 DEF InPlace, Grown
  <1>12. HoldsUpTo(memory[r], db, r, 0)
    BY <1>1, <1>2, <1>5, <1>8 DEF HoldsUpTo
  <1>13. Tail(todo) = <<>> => Agrees(memory[r], db, r)
    <2> SUFFICES ASSUME Tail(todo) = <<>> PROVE N = 0
      BY <1>5, <1>9, <1>12 DEF Agrees, Holds
    <2> QED
      BY <1>10
  <1>14. Tail(todo) # <<>> => Head(Tail(todo)).r = r /\ Filling(r, db, Tail(todo))
    <2>1. PICK done \in Nat : done = 2
      OBVIOUS
    <2>2. done = Len(memory[r].messages) + 2 - Len(Tail(todo)) /\ done - 2 = 0
      BY <1>2, <1>10, <2>1
    <2>3. done >= 2 /\ ~(done < 2) /\ done # 1
      BY <2>1
    <2>4. HoldsUpTo(memory[r], db, r, done - 2)
      BY <1>12, <2>2
    <2>5. db.responses[r].status = "in_progress"
      BY <1>5
    <2> QED
      BY <2>2, <2>3, <2>4, <2>5, FillingGoesOn
  <1>15. told[r] = "none" /\ StatusIsTold(r, db.responses[r].status)
    BY <1>6, InvFacts DEF ToldIsStored, StatusIsTold, Final
  <1>16. Wrote(r, db)
    BY <1>5, <1>11, <1>13, <1>14, <1>15 DEF Wrote
  <1> QED
    BY <1>7, <1>16 DEF db

LEMMA AppendFacts ==
    ASSUME NEW seq \in Seq(MessageRows), NEW e \in MessageRows
    PROVE  /\ Len(Append(seq, e)) = Len(seq) + 1
           /\ \A i \in 1..Len(seq) : Append(seq, e)[i] = seq[i]
           /\ Append(seq, e)[Len(seq) + 1] = e
  OBVIOUS

LEMMA FillingState ==
    ASSUME NEW r, NEW db, NEW left, Filling(r, db, left),
           Len(memory[r].messages) \in Nat, Len(left) \in Nat,
           NEW done \in Nat, done = Len(memory[r].messages) + 2 - Len(left)
    PROVE  /\ session[r] \in {"starting", "running"}
           /\ memory[r] # NoRecord
           /\ memory[r].status = "in_progress"
           /\ done >= 2 => /\ HoldsUpTo(memory[r], db, r, done - 2)
                           /\ db.responses[r].status = "in_progress"
  BY DEF Filling

(* The next message of the record m is inserted. *)
LEMMA MessageExtends ==
    ASSUME NEW old \in Tables, NEW r \in Ids, NEW m \in Records, NEW k \in Nat,
           HoldsUpTo(m, old, r, k), InPlace(old, r), k + 1 <= Len(m.messages)
    PROVE  LET new == Apply(old, InsertMessage(r, k + 1, m.messages[k + 1])) IN
           /\ new \in Tables
           /\ new.responses = old.responses
           /\ \A q \in Ids \ {r} : SameRows(old, new, q)
           /\ HoldsUpTo(m, new, r, k + 1)
           /\ InPlace(new, r)
           /\ Grown(old, new, r)
  <1> DEFINE msg == m.messages[k + 1]
             row == MessageRow(k + 1, msg)
             new == Apply(old, InsertMessage(r, k + 1, msg))
  <1>1. msg \in Messages
    BY DEF Records
  <1>2. row \in MessageRows /\ row.seq = k + 1 /\ row.msg = msg
    BY <1>1 DEF MessageRows, MessageRow
  <1>3. /\ new \in Tables
        /\ new.responses = old.responses
        /\ new.messages[r] = Append(old.messages[r], row)
        /\ \A q \in Ids \ {r} : SameRows(old, new, q)
    BY SMTT(30), <1>1, MessageIsInserted
  <1> HIDE DEF row, new
  <1>4. old.messages[r] \in Seq(MessageRows) /\ Len(old.messages[r]) = k
    BY TablesTypes DEF HoldsUpTo
  <1>5. /\ Len(new.messages[r]) = k + 1
        /\ \A i \in 1..k : new.messages[r][i] = old.messages[r][i]
        /\ new.messages[r][k + 1] = row
    BY <1>2, <1>3, <1>4, AppendFacts
  <1> HIDE DEF msg
  <1>6. ASSUME NEW i \in 1..(k + 1)
        PROVE  new.messages[r][i].msg = m.messages[i] /\ new.messages[r][i].seq = i
    <2>1. CASE i = k + 1
      BY <1>2, <1>5, <2>1 DEF msg
    <2>2. CASE i \in 1..k
      BY <1>4, <1>5, <2>2 DEF HoldsUpTo, InPlace
    <2> QED
      BY <2>1, <2>2
  <1>7. HoldsUpTo(m, new, r, k + 1)
    BY <1>3, <1>5, <1>6 DEF HoldsUpTo
  <1>8. InPlace(new, r)
    BY <1>3, <1>5, <1>6 DEF HoldsUpTo, InPlace
  <1>9. Grown(old, new, r)
    BY <1>3, <1>4, <1>5 DEF Grown
  <1> QED
    BY <1>3, <1>7, <1>8, <1>9 DEF new, msg

(* What a record must have only rests on its thread, parent and messages.   *)
LEMMA CarriesByHistory ==
    ASSUME NEW r, NEW a, NEW b, a.thread = b.thread, a.parent = b.parent,
           a.messages = b.messages, Carries(r, a)
    PROVE  Carries(r, b)
  BY DEF Carries, Continues

(* Rows that hold more of a record that continues what r inherited than a   *)
(* record that already did.                                                 *)
LEMMA CarriesMore ==
    ASSUME StoreInv, NEW r \in Ids, NEW db \in Tables, InPlace(db, r),
           NEW m \in Records, NEW k \in Nat, HoldsUpTo(m, db, r, k), Carries(r, m),
           NEW old \in Records, old.parent = m.parent, Carries(r, old),
           Len(old.messages) <= k
    PROVE  Carries(r, Load(db, r))
  <1>1. db.responses[r] # NoRecord
    BY DEF HoldsUpTo
  <1>2. PICK new : new = Load(db, r)
    OBVIOUS
  <1>3. /\ new.thread = m.thread /\ new.parent = m.parent
        /\ Len(new.messages) = k
        /\ k <= Len(m.messages)
        /\ \A i \in 1..k : new.messages[i] = m.messages[i]
    BY <1>1, <1>2, LoadFields DEF HoldsUpTo
  <1>4. PICK base : base = IF inherited[r] = NoRecord THEN <<>> ELSE inherited[r].messages
    OBVIOUS
  <1>5. Len(base) \in Nat
    BY <1>4, InvFacts DEF Histories
  <1>6. Len(m.messages) \in Nat /\ Len(old.messages) \in Nat
    BY DEF Records
  <1> SUFFICES ASSUME m.parent \notin broken
               PROVE  /\ new.parent = 0 <=> inherited[r] = NoRecord
                      /\ Continues(new, inherited[r], r)
    BY <1>2, <1>3 DEF Carries
  <1>7. /\ m.parent = 0 <=> inherited[r] = NoRecord
        /\ m.thread = IF inherited[r] = NoRecord THEN r ELSE inherited[r].thread
        /\ Len(base) < Len(old.messages)
        /\ \A i \in 1..Len(m.messages) :
               IF i <= Len(base) THEN m.messages[i] = base[i] ELSE m.messages[i].by = r
    BY <1>4 DEF Carries, Continues
  <1>8. Len(base) < k
    BY <1>5, <1>6, <1>7
  <1>9. \A i \in 1..k : i \in 1..Len(m.messages)
    BY <1>3, <1>6
  <1>10. \A i \in 1..k :
            IF i <= Len(base) THEN new.messages[i] = base[i] ELSE new.messages[i].by = r
    BY <1>3, <1>7, <1>9
  <1> QED
    BY <1>3, <1>4, <1>7, <1>8, <1>10 DEF Continues

LEMMA Counting ==
    ASSUME NEW N \in Nat, NEW L \in Nat \ {0}, L <= N
    PROVE  \E k \in Nat :
               /\ k + 1 <= N
               /\ k + 2 = N + 2 - L
               /\ k + 2 >= 2 /\ (k + 2) - 2 = k
               /\ N + 3 - L = k + 3 /\ (k + 3) - 2 = k + 1 /\ k + 3 # 1 /\ k + 3 # 2
               /\ k + 3 = N + 2 - (L - 1)
               /\ k + 3 >= 2 /\ ~(k + 3 < 2) /\ (k + 3) \in Nat
               /\ L = 1 => k + 1 = N
  <1>1. N - L \in Nat
    OBVIOUS
  <1> QED
    BY <1>1

(* start_response() or append_message() inserts a message. *)
LEMMA MessageIsWritten ==
    ASSUME StoreInv, todo # <<>>, NEW r \in Ids, r \notin broken, r = Head(todo).r,
           Filling(r, seen, todo),
           Len(todo) <= Len(memory[r].messages)
    PROVE  /\ ReferencesExist(seen, Head(todo))
           /\ Wrote(r, Apply(seen, Head(todo)))
  <1>1. memory[r] # NoRecord /\ memory[r].status = "in_progress" /\ told[r] \notin Final
    BY InvFacts DEF Filling, ToldIsStored
  <1>2. /\ seen \in Tables
        /\ memory[r] \in Records
        /\ Len(memory[r].messages) \in Nat
        /\ InPlace(seen, r)
    BY <1>1, InvFacts
  <1>3. Len(todo) \in Nat \ {0}
    BY TodoFacts
  <1>4. PICK k \in Nat :
            /\ k + 1 <= Len(memory[r].messages)
            /\ k + 2 = Len(memory[r].messages) + 2 - Len(todo)
            /\ k + 2 >= 2 /\ (k + 2) - 2 = k
            /\ Len(memory[r].messages) + 3 - Len(todo) = k + 3
            /\ (k + 3) - 2 = k + 1 /\ k + 3 # 1 /\ k + 3 # 2
            /\ k + 3 = Len(memory[r].messages) + 2 - (Len(todo) - 1)
            /\ k + 3 >= 2 /\ ~(k + 3 < 2) /\ (k + 3) \in Nat
            /\ Len(todo) = 1 => k + 1 = Len(memory[r].messages)
    BY <1>2, <1>3, Counting
  <1>5. Head(todo) = InsertMessage(r, k + 1, memory[r].messages[k + 1])
    <2>1. Head(todo) = StartWrite(r, k + 3)
      BY <1>4, FillingShape
    <2> QED
      BY <1>4, <2>1 DEF StartWrite
  <1>6. HoldsUpTo(memory[r], seen, r, k) /\ seen.responses[r].status = "in_progress"
    <2>1. (k + 2) \in Nat
      OBVIOUS
    <2> QED
      BY <1>2, <1>3, <1>4, <2>1, FillingState
  <1>7. ReferencesExist(seen, Head(todo))
    BY <1>5, <1>6 DEF ReferencesExist, InsertMessage, HoldsUpTo
  <1> DEFINE db == Apply(seen, Head(todo))
  <1>8. /\ db \in Tables
        /\ db.responses = seen.responses
        /\ \A q \in Ids \ {r} : SameRows(seen, db, q)
        /\ HoldsUpTo(memory[r], db, r, k + 1)
        /\ InPlace(db, r)
        /\ Grown(seen, db, r)
    BY SMTT(30), <1>2, <1>4, <1>5, <1>6, MessageExtends
  <1> HIDE DEF db
  <1>9. ASSUME told[r] # "none"
        PROVE  Carries(r, Load(db, r))
    <2>1. session[r] = "running"
      BY <1>9, InvFacts DEF ToldIsStored, Filling
    <2>2. Carries(r, memory[r]) /\ Carries(r, Load(seen, r))
      BY <1>1, <1>9, <2>1, InvFacts DEF MemoryCarries, RowsCarry
    <2>3. /\ Load(seen, r) \in Records
          /\ Load(seen, r).parent = memory[r].parent
          /\ Len(Load(seen, r).messages) = k
      BY <1>2, <1>6, LoadFields DEF HoldsUpTo
    <2>4. k + 1 \in Nat /\ k <= k + 1
      OBVIOUS
    <2> QED
      BY <1>2, <1>8, <2>2, <2>3, <2>4, CarriesMore
  <1>10. db.responses[r].status = "in_progress"
    BY <1>6, <1>8
  <1>11. Tail(todo) = <<>> => Agrees(memory[r], db, r)
    BY <1>1, <1>4, <1>8, <1>10, TodoFacts DEF Agrees, Holds
  <1>12. Tail(todo) # <<>> => Head(Tail(todo)).r = r /\ Filling(r, db, Tail(todo))
    <2>1. k + 3 = Len(memory[r].messages) + 2 - Len(Tail(todo))
      BY <1>4, TodoFacts
    <2> QED
      BY <1>4, <1>8, <1>10, <2>1, FillingGoesOn
  <1>13. Wrote(r, db)
    BY <1>1, <1>8, <1>9, <1>11, <1>12 DEF Wrote, StatusIsTold
  <1> QED
    BY <1>7, <1>13 DEF db

LEMMA StatusIsWritten ==
    ASSUME StoreInv, todo # <<>>, NEW r \in Ids, r \notin broken, r = Head(todo).r,
           SettingStatus(r, seen, todo)
    PROVE  /\ ReferencesExist(seen, Head(todo))
           /\ Wrote(r, Apply(seen, Head(todo)))
  <1> DEFINE st == memory[r].status
             db == Apply(seen, Head(todo))
  <1>1. /\ memory[r] # NoRecord
        /\ seen.responses[r] # NoRecord
        /\ HoldsUpTo(memory[r], seen, r, Len(memory[r].messages))
    BY DEF SettingStatus, HoldsUpTo
  <1>2. /\ memory[r] \in Records /\ seen \in Tables
        /\ Len(memory[r].messages) \in Nat
        /\ InPlace(seen, r) /\ ToldIsStored(r)
    BY <1>1, InvFacts
  <1>3. st \in Statuses
    BY <1>2 DEF Records
  <1>4. Head(todo) = UpdateResponse(r, st) /\ Tail(todo) = <<>>
    <2>1. PICK w : w = UpdateResponse(r, st) /\ todo = <<w>>
      BY DEF SettingStatus
    <2>2. Head(todo) = w /\ Tail(todo) = <<>>
      BY <2>1, OneWriteLeft
    <2> QED
      BY <2>1, <2>2
  <1>5. ReferencesExist(seen, Head(todo))
    BY <1>4 DEF ReferencesExist, UpdateResponse
  <1>6. /\ db \in Tables
        /\ db.messages = seen.messages
        /\ db.responses[r] # NoRecord
        /\ db.responses[r].thread = seen.responses[r].thread
        /\ db.responses[r].parent = seen.responses[r].parent
        /\ db.responses[r].status = st
        /\ \A q \in Ids \ {r} : SameRows(seen, db, q)
    BY <1>1, <1>2, <1>3, <1>4, StatusIsSet
  <1> HIDE DEF db
  <1>7. HoldsUpTo(memory[r], db, r, Len(memory[r].messages))
    BY <1>1, <1>6 DEF HoldsUpTo
  <1>8. told[r] # "none" => Carries(r, Load(db, r))
    <2>1. InPlace(db, r)
      BY <1>1, <1>2, <1>6 DEF InPlace
    <2>2. /\ Load(db, r) = Loaded(db.responses[r], db.messages[r])
          /\ Load(seen, r) = Loaded(seen.responses[r], seen.messages[r])
      BY <1>1, <1>2, <1>6, <2>1, LoadInPlace
    <2>3. /\ Load(seen, r).thread = Load(db, r).thread
          /\ Load(seen, r).parent = Load(db, r).parent
          /\ Load(seen, r).messages = Load(db, r).messages
      <3>1. db.messages[r] = seen.messages[r]
        BY <1>6
      <3> QED
        BY <1>6, <2>2, <3>1, LoadedHistory
    <2>4. told[r] # "none" => Carries(r, Load(seen, r))
      BY InvFacts DEF RowsCarry
    <2> QED
      BY <2>3, <2>4, CarriesByHistory
  <1>9. \/ st = "cancelled"
        \/ session[r] = "finished" /\ seen.responses[r].status = "in_progress"
    BY DEF SettingStatus
  <1>10. seen.messages[r] \in Seq(MessageRows) /\ Len(seen.messages[r]) \in Nat
    BY <1>2, TablesTypes
  <1>11. InPlace(db, r) /\ Grown(seen, db, r)
    <2>1. InPlace(db, r)
      <3>1. InPlace(seen, r) /\ seen.responses[r] # NoRecord
        BY <1>1, <1>2
      <3> QED
        BY <1>6, <3>1 DEF InPlace
    <2>2. \/ db.responses[r].status = "cancelled"
          \/ seen.responses[r].status \notin Final
      BY <1>6, <1>9 DEF Final
    <2>3. Len(seen.messages[r]) <= Len(db.messages[r])
      BY <1>6, <1>10
    <2> QED
      BY <1>6, <2>1, <2>2, <2>3 DEF Grown
  <1>12. StatusIsTold(r, db.responses[r].status)
    BY <1>2, <1>6, <1>9 DEF ToldIsStored, StatusIsTold
  <1>13. Agrees(memory[r], db, r)
    BY <1>6, <1>7 DEF Agrees, Holds
  <1>14. Wrote(r, db)
    BY <1>4, <1>6, <1>8, <1>11, <1>12, <1>13 DEF Wrote
  <1> QED
    BY <1>5, <1>14 DEF db

LEMMA RowIsWritten ==
    ASSUME StoreInv, todo # <<>>, NEW r \in Ids, r \notin broken, r = Head(todo).r,
           Recording(r, seen, todo)
    PROVE  /\ ReferencesExist(seen, Head(todo))
           /\ Wrote(r, Apply(seen, Head(todo)))
  <1> DEFINE db == Apply(seen, Head(todo))
  <1>1. PICK w \in {InsertStep(r), UpdateStep(r), InsertToolCall(r), UpdateToolCall(r),
                    InsertToolResult(r)} : todo = <<w>> /\ ReferencesExist(seen, w)
    BY DEF Recording
  <1>2. Head(todo) = w /\ Tail(todo) = <<>>
    BY <1>1
  <1>3. Holds(memory[r], seen, r)
    BY DEF Recording
  <1>4. /\ seen \in Tables
        /\ InPlace(seen, r) /\ ToldIsStored(r) /\ RowsCarry(r)
    BY InvFacts
  <1>5. db \in Tables /\ \A q \in Ids : SameRows(seen, db, q)
    BY <1>2, <1>4, RowIsRecorded
  <1> HIDE DEF db
  <1>6. Agrees(memory[r], db, r)
    BY <1>3, <1>5 DEF Agrees, Holds, HoldsUpTo, SameRows
  <1>7. seen.messages[r] \in Seq(MessageRows) /\ Len(seen.messages[r]) \in Nat
    BY <1>4, TablesTypes
  <1>8. InPlace(db, r) /\ Grown(seen, db, r)
    <2>1. db.messages[r] = seen.messages[r] /\ db.responses[r] = seen.responses[r]
      BY <1>5 DEF SameRows
    <2>2. InPlace(db, r)
      BY <1>4, <2>1 DEF InPlace
    <2>3. Len(seen.messages[r]) <= Len(db.messages[r])
      BY <1>7, <2>1
    <2> QED
      BY <2>1, <2>2, <2>3 DEF Grown
  <1>9. told[r] # "none" => Carries(r, Load(db, r))
    <2>1. Load(db, r) = Load(seen, r)
      BY <1>5 DEF SameRows, Load
    <2> QED
      BY <1>4, <2>1 DEF RowsCarry
  <1>10. StatusIsTold(r, db.responses[r].status)
    BY <1>4, <1>5 DEF ToldIsStored, StatusIsTold, SameRows, Final
  <1>11. Wrote(r, db)
    BY <1>2, <1>5, <1>6, <1>8, <1>9, <1>10 DEF Wrote
  <1> QED
    BY <1>1, <1>2, <1>11 DEF db

(* The write at the head finds the rows it refers to, and keeps the tables  *)
(* in order.                                                                *)
LEMMA WriteEffect ==
    ASSUME StoreInv, todo # <<>>
    PROVE  /\ ReferencesExist(seen, Head(todo))
           /\ Wrote(Head(todo).r, Apply(seen, Head(todo)))
  <1> DEFINE r == Head(todo).r
  <1>1. r \in Ids /\ r \notin broken
    BY TodoFacts
  <1>2. CASE Filling(r, seen, todo)
    <2>1. Len(todo) \in 1..(Len(memory[r].messages) + 2) /\ Len(memory[r].messages) \in Nat
      BY <1>1, <1>2, FillingShape
    <2>2. \A N \in Nat : \A L \in 1..(N + 2) : L = N + 2 \/ L = N + 1 \/ L <= N
      OBVIOUS
    <2>3. \/ Len(todo) = Len(memory[r].messages) + 2
          \/ Len(todo) = Len(memory[r].messages) + 1
          \/ Len(todo) <= Len(memory[r].messages)
      BY <2>1, <2>2
    <2> QED
      BY <1>1, <1>2, <2>3, ThreadIsWritten, ResponseIsWritten, MessageIsWritten
  <1>3. CASE SettingStatus(r, seen, todo)
    BY <1>1, <1>3, StatusIsWritten
  <1>4. CASE Recording(r, seen, todo)
    BY <1>1, <1>4, RowIsWritten
  <1> QED
    BY <1>2, <1>3, <1>4 DEF StoreInv, Writing

-----------------------------------------------------------------------------
(* Steps of SQLite and of the process. *)

LEMMA WriterHasRecord ==
    ASSUME StoreInv, todo # <<>>
    PROVE  memory[Head(todo).r] # NoRecord /\ session[Head(todo).r] # "none"
  <1> DEFINE r == Head(todo).r
  <1>1. r \in Ids
    BY TodoFacts
  <1>2. memory[r] # NoRecord
    BY DEF StoreInv, Writing, Filling, SettingStatus, Recording, Holds, HoldsUpTo
  <1> QED
    BY <1>1, <1>2, InvFacts DEF SessionOK

LEMMA GrownFromSame ==
    ASSUME NEW a \in Tables, NEW b \in Tables, NEW r \in Ids, SameRows(a, b, r)
    PROVE  Grown(a, b, r)
  <1>1. Len(a.messages[r]) \in Nat
    BY TablesTypes
  <1> QED
    BY <1>1 DEF SameRows, Grown

(* What a write leaves of every response. *)
LEMMA TablesAfterWrite ==
    ASSUME StoreInv, todo # <<>>, NEW db, Wrote(Head(todo).r, db), NEW q \in Ids
    PROVE  /\ InPlace(db, q)
           /\ Grown(rows, db, q)
           /\ q # Head(todo).r => SameRows(seen, db, q)
  <1> DEFINE r == Head(todo).r
  <1>1. r \in Ids /\ r \notin broken
    BY TodoFacts
  <1>2. /\ rows \in Tables /\ seen \in Tables
        /\ InPlace(seen, q) /\ Grown(rows, seen, q)
    BY InvFacts
  <1>3. /\ db \in Tables
        /\ q # r => SameRows(seen, db, q)
        /\ InPlace(db, r) /\ Grown(seen, db, r)
    BY DEF Wrote
  <1> HIDE DEF r
  <1>4. InPlace(db, q)
    BY <1>2, <1>3 DEF InPlace, SameRows
  <1>5. Grown(rows, db, q)
    <2>1. CASE q = r
      <3>1. SameRows(rows, seen, r)
        BY <1>1, InvFacts
      <3> QED
        BY <1>3, <2>1, <3>1 DEF Grown, SameRows
    <2>2. CASE q # r
      BY <1>2, <1>3, <2>2 DEF Grown, SameRows
    <2> QED
      BY <2>1, <2>2
  <1> QED
    BY <1>3, <1>4, <1>5 DEF r

(* The rows of a response loaded after a write that is not its own. *)
LEMMA SameRowsSameRecord ==
    ASSUME NEW a, NEW b, NEW r, SameRows(a, b, r)
    PROVE  Load(a, r) = Load(b, r)
  BY DEF SameRows, Load

LEMMA CommitStep ==
    ASSUME StoreInv, WriteCommits
    PROVE  StoreInv'
  <1>1. /\ todo # <<>>
        /\ seen' = Apply(seen, Head(todo)) /\ rows' = seen'
        /\ todo' = Tail(todo)
        /\ UNCHANGED <<up, memory, session, told, broken, inherited, crashes>>
    BY DEF WriteCommits
  <1>2. PICK r \in Ids : r = Head(todo).r
    BY <1>1, TodoFacts
  <1>3. Wrote(r, seen')
    BY <1>2, <1>1, WriteEffect
  <1>4. r \notin broken /\ up /\ Tail(todo) \in Seq(Writes)
    BY <1>2, <1>1, TodoFacts
  <1>5. seen' \in Tables /\ rows' \in Tables
    BY <1>1, <1>3 DEF Wrote
  <1>6. \A q \in Ids : /\ InPlace(seen', q)
                       /\ q # r => SameRows(seen, seen', q)
    BY <1>2, <1>1, <1>3, TablesAfterWrite
  <1>7. memory[r] # NoRecord /\ session[r] # "none"
    BY <1>2, <1>1, WriterHasRecord
  <1>8. TypeOK'
    BY <1>1, <1>4, <1>5 DEF StoreInv, TypeOK
  <1>9. todo' \in Seq(Writes) /\ Synced'
    BY <1>1, <1>4 DEF Synced, SameRows
  <1>10. Writing'
    <2>1. ASSUME todo' # <<>>
          PROVE  Head(todo').r = r /\ Filling(r, seen, todo)'
      <3>1. Head(todo').r = r /\ Filling(r, seen', todo')
        BY <1>1, <1>3, <2>1 DEF Wrote
      <3>2. Filling(r, seen', todo') => Filling(r, seen, todo)'
        BY <1>1 DEF Filling, StartWrite
      <3> QED
        BY <3>1, <3>2
    <2> QED
      BY <1>1, <1>4, <2>1 DEF Writing
  <1>11. Matching'
    <2> SUFFICES ASSUME NEW q \in Ids \ broken, todo' # <<>> => Head(todo').r # q
                 PROVE  Agrees(memory[q], seen', q)
      BY <1>1 DEF Matching
    <2>1. CASE q = r
      BY <1>1, <1>3, <2>1 DEF Wrote
    <2>2. CASE q # r
      <3>1. Agrees(memory[q], seen, q)
        BY <1>2, <1>1, <1>4, <2>2 DEF StoreInv, Matching
      <3> QED
        BY <1>6, <2>2, <3>1 DEF Agrees, Holds, HoldsUpTo, SameRows
    <2> QED
      BY <2>1, <2>2
  <1>12. ASSUME NEW q \in Ids
         PROVE  /\ InPlace(rows, q)' /\ InPlace(seen, q)'
                /\ RowsCarry(q)'
                /\ Grown(rows, seen, q)'
    <2>1. SameRows(rows', seen', q)
      BY <1>1 DEF SameRows
    <2>2. Grown(rows', seen', q)
      BY <1>5, <2>1, GrownFromSame
    <2>3. told[q] # "none" /\ q \notin broken => Carries(q, Load(seen', q))
      <3>1. CASE q = r
        BY <1>3, <3>1 DEF Wrote
      <3>2. CASE q # r
        <4>1. Load(seen, q) = Load(seen', q)
          BY <1>6, <3>2, SameRowsSameRecord
        <4> QED
          BY <4>1, InvFacts DEF RowsCarry
      <3> QED
        BY <3>1, <3>2
    <2>4. RowsCarry(q)'
      BY <1>1, <2>3 DEF RowsCarry, Carries
    <2>5. InPlace(seen, q)' /\ InPlace(rows, q)'
      BY <1>1, <1>6 DEF InPlace
    <2> QED
      BY <2>2, <2>3, <2>4, <2>5 DEF Grown
  <1>13. ASSUME NEW q \in Ids
         PROVE  MemoryCarries(q)' /\ SessionOK(q)'
    <2>1. MemoryCarries(q) /\ SessionOK(q)
      BY InvFacts
    <2>2. MemoryCarries(q)'
      BY <1>1, <2>1 DEF MemoryCarries, Carries
    <2>3. session[q] = "none" => seen'.responses[q] = NoRecord
      BY <1>6, <1>7, <2>1 DEF SessionOK, SameRows
    <2> QED
      BY <1>1, <2>1, <2>2, <2>3 DEF SessionOK
  <1>14. ASSUME NEW q \in Ids
         PROVE  ToldIsStored(q)'
    <2>1. ToldIsStored(q)
      BY InvFacts
    <2>2. CASE q = r
      <3>1. Len(seen.messages[r]) \in Nat /\ Len(seen'.messages[r]) \in Nat
        BY <1>4, <1>5, InvFacts, TablesTypes
      <3>2. Grown(seen, seen', r)
        BY <1>3 DEF Wrote
      <3>3. StatusIsTold(r, seen'.responses[r].status)
        BY <1>3 DEF Wrote
      <3>4. ASSUME told[r] # "none"
            PROVE  /\ session[r] # "starting"
                   /\ seen'.responses[r] # NoRecord
                   /\ \E i \in 1..Len(seen'.messages[r]) : seen'.messages[r][i].msg.by = r
        <4>1. /\ session[r] # "starting"
              /\ seen.responses[r] # NoRecord
          BY <1>4, <2>1, <2>2, <3>4 DEF ToldIsStored
        <4>2. PICK i \in 1..Len(seen.messages[r]) : seen.messages[r][i].msg.by = r
          BY <1>4, <2>1, <2>2, <3>4 DEF ToldIsStored
        <4>3. seen'.messages[r][i] = seen.messages[r][i]
          BY <3>2, <4>1 DEF Grown
        <4>4. i \in 1..Len(seen'.messages[r])
          BY <3>1, <3>2, <4>1 DEF Grown
        <4> QED
          BY <3>2, <4>1, <4>2, <4>3, <4>4 DEF Grown
      <3> QED
        BY <1>1, <2>1, <2>2, <3>3, <3>4 DEF ToldIsStored, StatusIsTold
    <2>3. CASE q # r
      BY <1>1, <1>6, <2>1, <2>3 DEF ToldIsStored, StatusIsTold, SameRows
    <2> QED
      BY <2>2, <2>3
  <1> QED
    BY <1>8, <1>9, <1>10, <1>11, <1>12, <1>13, <1>14 DEF StoreInv

LEMMA RaiseStep ==
    ASSUME StoreInv, WriteRaises
    PROVE  StoreInv'
  <1>1. PICK r \in Ids : r = Head(todo).r
    BY TodoFacts DEF WriteRaises
  <1>2. /\ todo # <<>>
        /\ seen' \in {seen, Apply(seen, Head(todo)), rows}
        /\ broken' = broken \cup {r}
        /\ session' = [session EXCEPT ![r] = "ended"]
        /\ told' \in {told, [told EXCEPT ![r] = "failed"]}
        /\ todo' = <<>>
        /\ UNCHANGED <<up, rows, memory, inherited, crashes>>
    BY <1>1 DEF WriteRaises
  <1>3. Wrote(r, Apply(seen, Head(todo)))
    BY <1>1, <1>2, WriteEffect
  <1>4. up /\ rows \in Tables /\ seen \in Tables
    BY <1>1, <1>2, TodoFacts, InvFacts
  <1>5. seen' \in Tables
    BY <1>2, <1>3, <1>4 DEF Wrote
  <1>6. ASSUME NEW q \in Ids
        PROVE  /\ InPlace(seen', q) /\ Grown(rows, seen', q)
               /\ q \notin broken' => SameRows(seen, seen', q)
    <2>1. CASE seen' = seen
      BY <1>2, <2>1, InvFacts DEF SameRows
    <2>2. CASE seen' = Apply(seen, Head(todo))
      BY <1>1, <1>2, <1>3, <2>2, TablesAfterWrite
    <2>3. CASE seen' = rows
      <3>1. SameRows(rows, rows, q)
        BY DEF SameRows
      <3>2. Grown(rows, rows, q)
        BY <1>4, <3>1, GrownFromSame
      <3>3. q \notin broken' => SameRows(seen, rows, q)
        BY <1>2, InvFacts DEF SameRows
      <3> QED
        BY <2>3, <3>2, <3>3, InvFacts
    <2> QED
      BY <1>2, <2>1, <2>2, <2>3
  <1>7. TypeOK'
    <2>1. /\ session \in [Ids -> {"none", "starting", "running", "finished", "telling", "ended"}]
          /\ told \in [Ids -> Final \cup {"none", "created"}]
          /\ broken \subseteq Ids
      BY DEF StoreInv, TypeOK
    <2>2. /\ session' \in [Ids -> {"none", "starting", "running", "finished", "telling", "ended"}]
          /\ told' \in [Ids -> Final \cup {"none", "created"}]
          /\ broken' \subseteq Ids
      BY <1>2, <2>1 DEF Final
    <2> QED
      BY <1>2, <1>4, <1>5, <2>2 DEF StoreInv, TypeOK
  <1>8. todo' \in Seq(Writes) /\ Writing'
    BY <1>2 DEF Writing
  <1>9. Synced'
    <2> SUFFICES ASSUME NEW q \in Ids, q \notin broken'
                 PROVE  SameRows(rows', seen', q)
      BY DEF Synced, SameRows
    <2>1. SameRows(rows, seen, q)
      BY <1>2, InvFacts
    <2> QED
      BY <1>2, <1>6, <2>1 DEF SameRows
  <1>10. Matching'
    <2> SUFFICES ASSUME NEW q \in Ids, q \notin broken'
                 PROVE  Agrees(memory[q], seen', q)
      BY <1>2 DEF Matching
    <2>1. Agrees(memory[q], seen, q)
      BY <1>1, <1>2, <1>4 DEF StoreInv, Matching
    <2> QED
      BY <1>6, <2>1 DEF Agrees, Holds, HoldsUpTo, SameRows
  <1>11. ASSUME NEW q \in Ids
         PROVE  /\ InPlace(rows, q)' /\ InPlace(seen, q)'
                /\ RowsCarry(q)'
                /\ Grown(rows, seen, q)'
    <2>1. InPlace(rows, q)' /\ InPlace(seen, q)'
      BY <1>2, <1>6, InvFacts DEF InPlace
    <2>2. RowsCarry(q)'
      <3> SUFFICES ASSUME told'[q] # "none", q \notin broken'
                   PROVE  Carries(q, Load(seen, q))'
        BY DEF RowsCarry
      <3>1. told'[q] = told[q] /\ q \notin broken
        <4>1. q # r /\ q \notin broken
          BY <1>2
        <4>2. told \in [Ids -> Final \cup {"none", "created"}]
          BY DEF StoreInv, TypeOK
        <4> QED
          BY <1>2, <4>1, <4>2
      <3>2. Load(seen, q) = Load(seen', q)
        BY <1>6, SameRowsSameRecord
      <3>3. Carries(q, Load(seen, q))
        BY <3>1, InvFacts DEF RowsCarry
      <3> QED
        BY <1>2, <3>2, <3>3 DEF Carries
    <2>3. Grown(rows, seen, q)'
      BY <1>2, <1>6 DEF Grown
    <2> QED
      BY <2>1, <2>2, <2>3
  <1>12. ASSUME NEW q \in Ids
         PROVE  MemoryCarries(q)' /\ SessionOK(q)' /\ ToldIsStored(q)'
    <2>1. MemoryCarries(q) /\ SessionOK(q) /\ ToldIsStored(q)
      BY InvFacts
    <2>2. MemoryCarries(q)'
      <3>1. session'[q] # "ended" => session[q] # "ended"
        BY <1>2 DEF StoreInv, TypeOK
      <3> QED
        BY <1>2, <2>1, <3>1 DEF MemoryCarries, Carries
    <2>3. CASE q = r
      <3>1. session'[q] = "ended" /\ q \in broken'
        BY <1>2, <2>3 DEF StoreInv, TypeOK
      <3> QED
        BY <1>2, <1>4, <2>2, <3>1 DEF SessionOK, ToldIsStored
    <2>4. CASE q # r
      <3>1. session'[q] = session[q] /\ told'[q] = told[q] /\ (q \in broken' <=> q \in broken)
        BY <1>2, <2>4 DEF StoreInv, TypeOK
      <3>2. q \notin broken => SameRows(seen, seen', q)
        BY <1>6, <3>1
      <3>3. SessionOK(q)'
        BY <1>2, <2>1, <3>1, <3>2 DEF SessionOK, HasOwn, SameRows
      <3>4. ToldIsStored(q)'
        BY <1>2, <2>1, <3>1, <3>2 DEF ToldIsStored, StatusIsTold, SameRows
      <3> QED
        BY <2>2, <3>3, <3>4
    <2> QED
      BY <2>3, <2>4
  <1> QED
    BY <1>7, <1>8, <1>9, <1>10, <1>11, <1>12 DEF StoreInv

LEMMA CrashStep ==
    ASSUME StoreInv, Crash
    PROVE  StoreInv'
  <1>1. /\ up' = FALSE
        /\ memory' = [q \in Ids |-> NoRecord]
        /\ seen' = rows /\ rows' = rows
        /\ todo' = <<>>
        /\ session' = [q \in Ids |-> IF session[q] = "none" THEN "none" ELSE "ended"]
        /\ UNCHANGED <<told, broken, inherited>>
    BY DEF Crash
  <1>2. TypeOK'
    BY <1>1 DEF StoreInv, TypeOK
  <1>3. todo' \in Seq(Writes) /\ Writing' /\ Matching'
    BY <1>1 DEF Writing, Matching
  <1>4. Synced'
    BY <1>1 DEF Synced, SameRows
  <1>5. ASSUME NEW q \in Ids
        PROVE  /\ InPlace(rows, q)' /\ InPlace(seen, q)'
               /\ MemoryCarries(q)'
               /\ RowsCarry(q)'
               /\ Grown(rows, seen, q)'
               /\ SessionOK(q)'
               /\ ToldIsStored(q)'
    <2>1. /\ InPlace(rows, q) /\ RowsCarry(q) /\ SessionOK(q) /\ ToldIsStored(q)
          /\ q \notin broken => SameRows(rows, seen, q)
          /\ rows \in Tables
      BY InvFacts
    <2>2. InPlace(rows, q)' /\ InPlace(seen, q)'
      BY <1>1, <2>1 DEF InPlace
    <2>3. MemoryCarries(q)'
      BY <1>1 DEF MemoryCarries
    <2>4. RowsCarry(q)'
      <3>1. q \notin broken => Load(rows, q) = Load(seen, q)
        BY <2>1, SameRowsSameRecord
      <3> QED
        BY <1>1, <2>1, <3>1 DEF RowsCarry, Carries
    <2>5. Grown(rows, seen, q)'
      <3>1. SameRows(rows, rows, q)
        BY DEF SameRows
      <3>2. Grown(rows, rows, q)
        BY <2>1, <3>1, GrownFromSame
      <3> QED
        BY <1>1, <3>2 DEF Grown
    <2>6. session'[q] = IF session[q] = "none" THEN "none" ELSE "ended"
      BY <1>1
    <2>7. SessionOK(q)'
      BY <1>1, <2>1, <2>6 DEF SessionOK, SameRows
    <2>8. ToldIsStored(q)'
      BY <1>1, <2>1, <2>6 DEF SessionOK, ToldIsStored, StatusIsTold, SameRows, Final
    <2> QED
      BY <2>2, <2>3, <2>4, <2>5, <2>7, <2>8
  <1> QED
    BY <1>2, <1>3, <1>4, <1>5 DEF StoreInv

LEMMA InitializeStep ==
    ASSUME StoreInv, Initialize
    PROVE  StoreInv'
  <1>1. /\ ~up /\ up' = TRUE
        /\ memory' = [q \in Ids |-> Load(rows, q)]
        /\ UNCHANGED <<rows, seen, todo, session, told, broken, inherited>>
    BY DEF Initialize
  <1>2. todo = <<>> /\ seen = rows
    BY <1>1 DEF StoreInv, TypeOK
  <1>3. \A q \in Ids : memory'[q] = Load(rows, q)
    BY <1>1
  <1>4. \A q \in Ids :
           /\ memory'[q] \in Records \cup {NoRecord}
           /\ memory'[q] = NoRecord <=> rows.responses[q] = NoRecord
           /\ memory'[q] # NoRecord =>
                /\ memory'[q].next = Len(memory'[q].messages) + 1
                /\ memory'[q].parent = rows.responses[q].parent
           /\ Agrees(memory'[q], rows, q)
    BY <1>3, InvFacts, LoadFields, LoadedAgrees
  <1>5. TypeOK'
    <2>1. memory' \in [Ids -> Records \cup {NoRecord}]
      BY <1>1, <1>3, <1>4
    <2> QED
      BY <1>1, <1>2, <1>4, <2>1 DEF StoreInv, TypeOK
  <1>6. todo' \in Seq(Writes) /\ Writing'
    BY <1>1, <1>2 DEF Writing
  <1>7. Synced'
    BY <1>1, <1>2 DEF Synced, SameRows
  <1>8. Matching'
    BY <1>1, <1>2, <1>4 DEF Matching
  <1>9. ASSUME NEW q \in Ids
        PROVE  /\ InPlace(rows, q)' /\ InPlace(seen, q)'
               /\ MemoryCarries(q)'
               /\ RowsCarry(q)'
               /\ Grown(rows, seen, q)'
               /\ SessionOK(q)'
               /\ ToldIsStored(q)'
    <2>1. /\ InPlace(rows, q) /\ RowsCarry(q) /\ SessionOK(q) /\ ToldIsStored(q)
          /\ Grown(rows, seen, q)
          /\ rows \in Tables
      BY InvFacts
    <2>2. InPlace(rows, q)' /\ InPlace(seen, q)'
      BY <1>1, <1>2, <2>1 DEF InPlace
    <2>3. MemoryCarries(q)'
      <3> SUFFICES ASSUME memory'[q] # NoRecord
                   PROVE  /\ memory'[q].parent < q
                          /\ session'[q] = "ended"
        BY <1>1 DEF MemoryCarries
      <3>1. rows.responses[q] # NoRecord /\ memory'[q].parent = rows.responses[q].parent
        BY <1>4
      <3>2. memory'[q].parent < q
        BY <2>1, <3>1 DEF InPlace
      <3>3. session[q] = "ended"
        BY <1>1, <1>2, <2>1, <3>1 DEF SessionOK
      <3> QED
        BY <1>1, <3>2, <3>3
    <2>4. RowsCarry(q)'
      BY <1>1, <2>1 DEF RowsCarry, Carries
    <2>5. Grown(rows, seen, q)'
      BY <1>1, <2>1 DEF Grown
    <2>6. SessionOK(q)'
      BY <1>1, <1>2, <1>4, <2>1 DEF SessionOK
    <2>7. ToldIsStored(q)'
      BY <1>1, <2>1 DEF ToldIsStored, StatusIsTold
    <2> QED
      BY <2>2, <2>3, <2>4, <2>5, <2>6, <2>7
  <1> QED
    BY <1>5, <1>6, <1>7, <1>8, <1>9 DEF StoreInv

-----------------------------------------------------------------------------
(* Steps of a session: calls of the store, between which nothing is left to *)
(* write.                                                                   *)

Sessions == {"none", "starting", "running", "finished", "telling", "ended"}

(* A call about r: the tables stay, other responses stay, and what r has of *)
(* a record stays.                                                          *)
CallOf(r) ==
    /\ Idle
    /\ UNCHANGED Outside
    /\ memory' \in [Ids -> Records \cup {NoRecord}]
    /\ session' \in [Ids -> Sessions]
    /\ told' \in [Ids -> Final \cup {"none", "created"}]
    /\ inherited' \in [Ids -> Histories \cup {NoRecord}]
    /\ \A q \in Ids \ {r} :
          /\ memory'[q] = memory[q] /\ session'[q] = session[q] /\ told'[q] = told[q]
          /\ inherited'[q] = inherited[q]
    /\ memory'[r] # NoRecord
    /\ memory'[r].next = Len(memory'[r].messages) + 1
    /\ memory[r] # NoRecord =>
          /\ memory'[r].thread = memory[r].thread
          /\ Len(memory[r].messages) <= Len(memory'[r].messages)
          /\ \A i \in 1..Len(memory[r].messages) :
                memory'[r].messages[i] = memory[r].messages[i]

LEMMA CallStep ==
    ASSUME StoreInv, NEW r \in Ids, r \notin broken, CallOf(r),
           todo' \in Seq(Writes), Writing',
           todo' = <<>> => Agrees(memory'[r], seen, r),
           todo' # <<>> => Head(todo').r = r,
           MemoryCarries(r)', RowsCarry(r)', SessionOK(r)', ToldIsStored(r)'
    PROVE  StoreInv'
  <1>1. up /\ todo = <<>> /\ up' = up /\ rows' = rows /\ seen' = seen /\ broken' = broken
    BY DEF CallOf, Outside, Idle
  <1>2. TypeOK'
    <2>1. \A q \in Ids : memory'[q] # NoRecord => memory'[q].next = Len(memory'[q].messages) + 1
      <3> SUFFICES ASSUME NEW q \in Ids, memory'[q] # NoRecord
                   PROVE  memory'[q].next = Len(memory'[q].messages) + 1
        OBVIOUS
      <3>1. CASE q = r
        BY <3>1 DEF CallOf
      <3>2. CASE q # r
        <4>1. memory'[q] = memory[q]
          BY <3>2 DEF CallOf
        <4> QED
          BY <4>1, InvFacts
      <3> QED
        BY <3>1, <3>2
    <2>2. /\ up \in BOOLEAN /\ rows \in Tables /\ seen \in Tables /\ broken \subseteq Ids
      BY DEF StoreInv, TypeOK
    <2>3. /\ memory' \in [Ids -> Records \cup {NoRecord}]
          /\ session' \in [Ids -> {"none", "starting", "running", "finished", "telling", "ended"}]
          /\ told' \in [Ids -> Final \cup {"none", "created"}]
      BY DEF CallOf, Sessions
    <2>4. inherited' \in [Ids -> [thread : Ids, messages : Seq(Messages)] \cup {NoRecord}]
      BY DEF CallOf, Histories
    <2> QED
      BY <1>1, <2>1, <2>2, <2>3, <2>4 DEF TypeOK
  <1>3. Synced'
    BY <1>1 DEF StoreInv, Synced, SameRows
  <1>4. Matching'
    <2> SUFFICES ASSUME NEW q \in Ids \ broken, todo' # <<>> => Head(todo').r # q
                 PROVE  Agrees(memory'[q], seen, q)
      BY <1>1 DEF Matching
    <2>1. CASE q = r
      BY <2>1
    <2>2. CASE q # r
      <3>1. Agrees(memory[q], seen, q)
        BY <1>1 DEF StoreInv, Matching
      <3>2. memory'[q] = memory[q]
        BY <2>2 DEF CallOf
      <3> QED
        BY <3>1, <3>2
    <2> QED
      BY <2>1, <2>2
  <1>5. ASSUME NEW q \in Ids
        PROVE  /\ InPlace(rows, q)' /\ InPlace(seen, q)'
               /\ RowsCarry(q)'
               /\ Grown(rows, seen, q)'
    <2>1. /\ InPlace(rows, q) /\ InPlace(seen, q)
          /\ Grown(rows, seen, q)
      BY InvFacts
    <2>2. CASE q = r
      BY <1>1, <2>1, <2>2 DEF InPlace, Grown
    <2>3. CASE q # r
      <3>1. told'[q] = told[q] /\ inherited'[q] = inherited[q]
        BY <2>3 DEF CallOf
      <3>2. RowsCarry(q)'
        BY <1>1, <3>1, InvFacts DEF RowsCarry, Carries
      <3> QED
        BY <1>1, <2>1, <3>2 DEF InPlace, Grown
    <2> QED
      BY <2>2, <2>3
  <1>6. ASSUME NEW q \in Ids, q # r
        PROVE  MemoryCarries(q)'
    <2>1. /\ memory'[q] = memory[q] /\ session'[q] = session[q]
          /\ inherited'[q] = inherited[q]
      BY <1>6 DEF CallOf
    <2> QED
      BY <1>1, <2>1, InvFacts DEF MemoryCarries, Carries
  <1>7. ASSUME NEW q \in Ids, q # r
        PROVE  SessionOK(q)' /\ ToldIsStored(q)'
    <2>1. memory'[q] = memory[q] /\ session'[q] = session[q] /\ told'[q] = told[q]
      BY <1>7 DEF CallOf
    <2>2. SessionOK(q) /\ ToldIsStored(q)
      BY InvFacts
    <2> QED
      BY <1>1, <2>1, <2>2 DEF SessionOK, HasOwn, ToldIsStored, StatusIsTold
  <1> QED
    BY <1>2, <1>3, <1>4, <1>5, <1>6, <1>7 DEF StoreInv

(* Between two calls a session's record is the one the tables hold. *)
LEMMA IdleSession ==
    ASSUME StoreInv, Idle, NEW r \in Ids,
           session[r] \in {"starting", "running", "finished", "telling"}
    PROVE  /\ up /\ todo = <<>> /\ r \notin broken
           /\ memory[r] # NoRecord /\ memory[r] \in Records
           /\ Holds(memory[r], seen, r)
           /\ HasOwn(memory[r], r)
           /\ Len(memory[r].messages) \in Nat
           /\ memory[r].messages \in Seq(Messages)
           /\ memory[r].next = Len(memory[r].messages) + 1
  <1>1. up /\ todo = <<>>
    BY DEF Idle
  <1>2. r \notin broken /\ memory[r] # NoRecord /\ HasOwn(memory[r], r)
    BY InvFacts DEF SessionOK
  <1>3. Agrees(memory[r], seen, r)
    BY <1>1, <1>2 DEF StoreInv, Matching
  <1> QED
    BY <1>1, <1>2, <1>3, InvFacts DEF Agrees

LEMMA TypesOfCalls ==
    ASSUME StoreInv
    PROVE  /\ memory \in [Ids -> Records \cup {NoRecord}]
           /\ session \in [Ids -> Sessions]
           /\ told \in [Ids -> Final \cup {"none", "created"}]
           /\ inherited \in [Ids -> Histories \cup {NoRecord}]
  BY DEF StoreInv, TypeOK, Sessions, Histories

(* A call that leaves the records alone. *)
LEMMA CallWithoutRecord ==
    ASSUME StoreInv, NEW r \in Ids, Idle, UNCHANGED Outside, UNCHANGED memory,
           UNCHANGED inherited,
           session[r] \in {"starting", "running", "finished", "telling"},
           session' \in [Ids -> Sessions],
           told' \in [Ids -> Final \cup {"none", "created"}],
           \A q \in Ids \ {r} : session'[q] = session[q] /\ told'[q] = told[q],
           todo' \in Seq(Writes), Writing', todo' # <<>> => Head(todo').r = r,
           SessionOK(r)', ToldIsStored(r)'
    PROVE  StoreInv'
  <1>1. /\ r \notin broken
        /\ memory[r] # NoRecord
        /\ Agrees(memory[r], seen, r)
        /\ Len(memory[r].messages) \in Nat
        /\ memory[r].next = Len(memory[r].messages) + 1
    BY IdleSession DEF Agrees
  <1>2. CallOf(r)
    BY <1>1, TypesOfCalls DEF CallOf
  <1>3. MemoryCarries(r) /\ broken' = broken /\ seen' = seen
    BY InvFacts DEF Outside
  <1>4. Carries(r, memory[r])
    BY <1>1, <1>3 DEF MemoryCarries
  <1>5. MemoryCarries(r)'
    BY <1>3, <1>4 DEF MemoryCarries, Carries
  <1>6. RowsCarry(r)'
    <2>1. memory[r] = Load(seen, r)
      BY <1>1, InvFacts, AgreesIsLoaded
    <2>2. Carries(r, Load(seen, r))
      BY <1>4, <2>1
    <2> QED
      BY <1>3, <2>2 DEF RowsCarry, Carries
  <1> QED
    BY <1>1, <1>2, <1>5, <1>6, CallStep

LEMMA WritesTypes ==
    ASSUME NEW r \in Ids
    PROVE  /\ \A t \in Ids : InsertThread(t, r) \in Writes
           /\ \A t \in Ids : \A p \in 0..NumResponses : InsertResponse(t, r, p) \in Writes
           /\ \A st \in Statuses : UpdateResponse(r, st) \in Writes
           /\ \A n \in Nat : \A msg \in Messages : InsertMessage(r, n, msg) \in Writes
           /\ \A w \in {InsertStep(r), UpdateStep(r), InsertToolCall(r), UpdateToolCall(r),
                        InsertToolResult(r)} : w \in Writes /\ w.r = r
           /\ \A st : UpdateResponse(r, st).r = r
           /\ \A n, msg : InsertMessage(r, n, msg).r = r
  <1>1. \A t \in Ids : InsertThread(t, r) \in Writes
    BY DEF Writes, InsertThread
  <1>2. \A t \in Ids : \A p \in 0..NumResponses : InsertResponse(t, r, p) \in Writes
    <2> SUFFICES ASSUME NEW t \in Ids, NEW p \in 0..NumResponses
                 PROVE  InsertResponse(t, r, p) \in Writes
      OBVIOUS
    <2>1. [thread |-> t, parent |-> p, status |-> "in_progress"] \in ResponseRows
      BY DEF ResponseRows, Statuses
    <2> QED
      BY <2>1 DEF Writes, InsertResponse
  <1>3. \A st \in Statuses : UpdateResponse(r, st) \in Writes
    BY DEF Writes, UpdateResponse
  <1>4. \A n \in Nat : \A msg \in Messages : InsertMessage(r, n, msg) \in Writes
    <2> SUFFICES ASSUME NEW n \in Nat, NEW msg \in Messages
                 PROVE  InsertMessage(r, n, msg) \in Writes
      OBVIOUS
    <2>1. [seq |-> n, msg |-> msg] \in MessageRows
      BY DEF MessageRows
    <2> QED
      BY <2>1 DEF Writes, InsertMessage
  <1>5. \A w \in {InsertStep(r), UpdateStep(r), InsertToolCall(r), UpdateToolCall(r),
                  InsertToolResult(r)} : w \in Writes /\ w.r = r
    <2>1. "in_progress" \in Statuses /\ "completed" \in Statuses
      BY DEF Statuses, Final
    <2> QED
      BY <2>1 DEF Writes, InsertStep, UpdateStep, InsertToolCall, UpdateToolCall, InsertToolResult
  <1>6. (\A st : UpdateResponse(r, st).r = r) /\ (\A n, msg : InsertMessage(r, n, msg).r = r)
    BY DEF UpdateResponse, InsertMessage
  <1> QED
    BY <1>1, <1>2, <1>3, <1>4, <1>5, <1>6

(* response.created, response.completed, and an exception that is not a     *)
(* write's: the store is not touched.                                       *)
LEMMA TellStep ==
    ASSUME StoreInv, NEW r \in Ids, TellCreated(r) \/ TellFinal(r) \/ SessionRaises(r)
    PROVE  StoreInv'
  <1>1. /\ Idle
        /\ UNCHANGED Outside /\ UNCHANGED memory /\ UNCHANGED inherited /\ todo' = todo
        /\ session[r] \in {"starting", "running", "finished"}
    BY DEF TellCreated, TellFinal, SessionRaises
  <1>2. /\ r \notin broken /\ up /\ todo = <<>>
        /\ memory[r] # NoRecord /\ memory[r] \in Records
        /\ Holds(memory[r], seen, r) /\ HasOwn(memory[r], r)
    BY <1>1, IdleSession
  <1>3. SessionOK(r) /\ ToldIsStored(r)
    BY InvFacts
  <1>4. /\ \/ session[r] = "starting" /\ session'[r] = "running" /\ told'[r] = "created"
           \/ /\ session[r] = "finished" /\ session'[r] = "telling"
              /\ told'[r] = memory[r].status /\ memory[r].status \in Final
           \/ /\ session[r] = "running" /\ session'[r] = "ended"
              /\ told'[r] \in {told[r], "failed"} /\ told[r] \notin Final
              /\ memory[r].status = "in_progress"
        /\ \A q \in Ids \ {r} : session'[q] = session[q] /\ told'[q] = told[q]
        /\ session' \in [Ids -> Sessions]
        /\ told' \in [Ids -> Final \cup {"none", "created"}]
    <2>1. CASE TellCreated(r) \/ TellFinal(r)
      BY <1>3, <2>1, TypesOfCalls DEF TellCreated, TellFinal, SessionOK, Sessions
    <2>2. CASE SessionRaises(r)
      <3>1. /\ session[r] = "running" /\ session' = [session EXCEPT ![r] = "ended"]
            /\ told' \in {told, [told EXCEPT ![r] = "failed"]}
            /\ memory[r].status = "in_progress" /\ told[r] \notin Final
        BY <1>2, <1>3, <2>2 DEF SessionRaises, SessionOK, ToldIsStored
      <3>2. "failed" \in Final /\ "ended" \in Sessions
        BY DEF Final, Sessions
      <3> QED
        BY <3>1, <3>2, TypesOfCalls
    <2> QED
      BY <2>1, <2>2
  <1>5. todo' \in Seq(Writes) /\ Writing' /\ todo' = <<>>
    BY <1>1, <1>2 DEF StoreInv, Writing
  <1>6. SessionOK(r)'
    BY <1>1, <1>2, <1>3, <1>4 DEF SessionOK, Outside, HasOwn
  <1>7. ToldIsStored(r)'
    <2>1. /\ seen.responses[r] # NoRecord
          /\ seen.responses[r].status = memory[r].status
          /\ Len(seen.messages[r]) = Len(memory[r].messages)
          /\ \A i \in 1..Len(memory[r].messages) :
                seen.messages[r][i].msg = memory[r].messages[i]
      BY <1>2 DEF Holds, HoldsUpTo
    <2>2. \E i \in 1..Len(seen.messages[r]) : seen.messages[r][i].msg.by = r
      BY <1>2, <2>1 DEF HasOwn
    <2>3. seen' = seen /\ broken' = broken
      BY <1>1 DEF Outside
    <2> QED
      BY <1>4, <2>1, <2>2, <2>3 DEF ToldIsStored, StatusIsTold, Final
  <1> QED
    BY <1>1, <1>4, <1>5, <1>6, <1>7, CallWithoutRecord

(* Steps, tool calls and their results. *)
LEMMA RecordStep ==
    ASSUME StoreInv, NEW r \in Ids,
           \/ StartStep(r) \/ CompleteStep(r)
           \/ CreateToolCall(r) \/ CompleteToolCall(r) \/ AddToolResult(r)
    PROVE  StoreInv'
  <1>1. PICK w \in {InsertStep(r), UpdateStep(r), InsertToolCall(r), UpdateToolCall(r),
                    InsertToolResult(r)} :
            /\ WriteRow(w)
            /\ session[r] \in {"running", "finished"}
            /\ w = InsertToolCall(r) => seen.steps[r] # "none"
            /\ w = InsertToolResult(r) => seen.calls[r] # "none"
    <2>1. CASE StartStep(r)
      BY <2>1 DEF StartStep, InsertStep, InsertToolCall, InsertToolResult
    <2>2. CASE CompleteStep(r)
      BY <2>2 DEF CompleteStep, UpdateStep, InsertToolCall, InsertToolResult
    <2>3. CASE CreateToolCall(r)
      BY <2>3 DEF CreateToolCall, InsertToolCall, InsertToolResult
    <2>4. CASE CompleteToolCall(r)
      BY <2>4 DEF CompleteToolCall, UpdateToolCall, InsertToolCall, InsertToolResult
    <2>5. CASE AddToolResult(r)
      BY <2>5 DEF AddToolResult, InsertToolCall, InsertToolResult
    <2> QED
      BY <2>1, <2>2, <2>3, <2>4, <2>5
  <1>2. /\ Idle /\ todo' = <<w>>
        /\ UNCHANGED Outside /\ UNCHANGED memory /\ UNCHANGED inherited
        /\ session' = session /\ told' = told
    BY <1>1 DEF WriteRow
  <1>3. /\ r \notin broken
        /\ memory[r] # NoRecord
        /\ Holds(memory[r], seen, r)
    BY <1>1, <1>2, IdleSession
  <1>4. w \in Writes /\ w.r = r
    BY WritesTypes
  <1>5. todo' \in Seq(Writes) /\ todo' # <<>> /\ Head(todo').r = r
    BY <1>2, <1>4
  <1>6. ReferencesExist(seen, w)
    <2>1. seen.responses[r] # NoRecord
      BY <1>3 DEF Holds, HoldsUpTo
    <2>2. CASE w = InsertStep(r)
      BY <2>1, <2>2 DEF InsertStep, ReferencesExist
    <2>3. CASE w = UpdateStep(r)
      BY <2>3 DEF UpdateStep, ReferencesExist
    <2>4. CASE w = InsertToolCall(r)
      BY <1>1, <2>1, <2>4 DEF InsertToolCall, ReferencesExist
    <2>5. CASE w = UpdateToolCall(r)
      BY <2>5 DEF UpdateToolCall, ReferencesExist
    <2>6. CASE w = InsertToolResult(r)
      BY <1>1, <2>1, <2>6 DEF InsertToolResult, ReferencesExist
    <2> QED
      BY <2>2, <2>3, <2>4, <2>5, <2>6
  <1>7. Recording(r, seen, todo)'
    <2>1. seen' = seen /\ memory' = memory
      BY <1>2 DEF Outside
    <2>2. Recording(r, seen', todo')
      BY <1>2, <1>3, <1>6, <2>1 DEF Recording
    <2> QED
      BY <2>1, <2>2 DEF Recording
  <1>8. Writing'
    BY <1>2, <1>3, <1>5, <1>7 DEF Writing, Outside
  <1>9. SessionOK(r)' /\ ToldIsStored(r)'
    <2>1. SessionOK(r) /\ ToldIsStored(r)
      BY InvFacts
    <2> QED
      BY <1>2, <2>1 DEF SessionOK, HasOwn, ToldIsStored, StatusIsTold, Outside
  <1> QED
    BY <1>1, <1>2, <1>5, <1>8, <1>9, TypesOfCalls, CallWithoutRecord

(* The end of a response, and the disconnect handler. *)
LEMMA StatusStep ==
    ASSUME StoreInv, NEW r \in Ids, NEW st \in Final,
           \/ Finish(r, st)
           \/ st = "cancelled" /\ Disconnect(r)
    PROVE  StoreInv'
  <1>1. /\ Idle
        /\ memory' = [memory EXCEPT ![r].status = st]
        /\ todo' = <<UpdateResponse(r, st)>>
        /\ UNCHANGED Outside /\ told' = told /\ inherited' = inherited
        /\ session[r] \in {"starting", "running", "finished", "telling"}
        /\ \/ session[r] = "running" /\ session' = [session EXCEPT ![r] = "finished"]
           \/ st = "cancelled" /\ session' = [session EXCEPT ![r] = "ended"]
    BY DEF Finish, Disconnect, SetResponseStatus
  <1>2. /\ r \notin broken /\ up /\ todo = <<>>
        /\ memory[r] # NoRecord /\ memory[r] \in Records
        /\ Holds(memory[r], seen, r) /\ HasOwn(memory[r], r)
        /\ memory[r].next = Len(memory[r].messages) + 1
    BY <1>1, IdleSession
  <1>3. SessionOK(r) /\ ToldIsStored(r) /\ MemoryCarries(r)
    BY InvFacts
  <1>4. st \in Statuses
    BY DEF Statuses
  <1> DEFINE m == [memory[r] EXCEPT !.status = st]
  <1>5. /\ m \in Records
        /\ m.status = st
        /\ m.thread = memory[r].thread /\ m.parent = memory[r].parent
        /\ m.messages = memory[r].messages /\ m.next = memory[r].next
    BY <1>2, <1>4 DEF Records
  <1>6. memory' = [memory EXCEPT ![r] = m]
    BY <1>1
  <1>7. m # NoRecord
    BY <1>5, RecordsAreNone
  <1> HIDE DEF m
  <1>8. /\ memory' \in [Ids -> Records \cup {NoRecord}]
        /\ memory'[r] = m
        /\ \A q \in Ids \ {r} : memory'[q] = memory[q]
    BY <1>5, <1>6, TypesOfCalls
  <1>9. /\ session' \in [Ids -> Sessions]
        /\ told' \in [Ids -> Final \cup {"none", "created"}]
        /\ \A q \in Ids \ {r} : session'[q] = session[q] /\ told'[q] = told[q]
        /\ \/ session[r] = "running" /\ session'[r] = "finished"
           \/ st = "cancelled" /\ session'[r] = "ended"
    BY <1>1, TypesOfCalls DEF Sessions
  <1>10. CallOf(r)
    <2>1. Len(m.messages) \in Nat
      BY <1>5 DEF Records
    <2> QED
      BY <1>1, <1>2, <1>5, <1>7, <1>8, <1>9, <2>1, TypesOfCalls DEF CallOf
  <1>11. MemoryCarries(r)'
    <2>1. broken' = broken /\ memory[r].parent < r /\ Carries(r, memory[r])
      BY <1>1, <1>2, <1>3 DEF Outside, MemoryCarries
    <2>2. Carries(r, m)
      BY <1>5, <2>1, CarriesByHistory
    <2> QED
      BY <1>1, <1>5, <1>8, <2>1, <2>2 DEF MemoryCarries, Carries
  <1>12. todo' \in Seq(Writes) /\ todo' # <<>> /\ Head(todo').r = r
    <2>1. UpdateResponse(r, st) \in Writes /\ UpdateResponse(r, st).r = r
      BY <1>4, WritesTypes
    <2> QED
      BY <1>1, <2>1
  <1>13. SettingStatus(r, seen, todo)'
    <2>1. seen' = seen
      BY <1>1 DEF Outside
    <2>2. HoldsUpTo(m, seen, r, Len(m.messages))
      BY <1>2, <1>5, <1>7 DEF Holds, HoldsUpTo
    <2>3. session[r] = "running" => seen.responses[r].status = "in_progress"
      BY <1>2, <1>3 DEF SessionOK, Holds
    <2> QED
      BY <1>1, <1>5, <1>8, <1>9, <2>1, <2>2, <2>3 DEF SettingStatus
  <1>14. Writing'
    BY <1>1, <1>2, <1>12, <1>13 DEF Writing, Outside
  <1>15. SessionOK(r)'
    BY <1>1, <1>2, <1>3, <1>5, <1>7, <1>8, <1>9 DEF SessionOK, HasOwn, Outside
  <1>16. ToldIsStored(r)'
    BY <1>1, <1>2, <1>3, <1>9 DEF ToldIsStored, StatusIsTold, Outside
  <1>17. RowsCarry(r)'
    BY <1>1, InvFacts DEF RowsCarry, Carries, Outside
  <1> QED
    BY <1>2, <1>10, <1>11, <1>12, <1>14, <1>15, <1>16, <1>17, CallStep

LEMMA RecordExtended ==
    ASSUME NEW m \in Records, NEW full \in Seq(Messages)
    PROVE  LET new == [m EXCEPT !.messages = full, !.next = @ + 1] IN
           /\ new \in Records
           /\ new.thread = m.thread /\ new.parent = m.parent
           /\ new.status = m.status
           /\ new.messages = full
           /\ new.next = m.next + 1
  <1> DEFINE lists == Seq(Messages)
  <1>1. Records = [thread : Ids, parent : 0..NumResponses, status : Statuses,
                   messages : lists, next : Nat]
    BY DEF Records
  <1>2. full \in lists
    OBVIOUS
  <1> HIDE DEF lists
  <1>3. PICK next \in Nat : next = m.next + 1
    BY <1>1
  <1> DEFINE one == [m EXCEPT !.messages = full]
             two == [one EXCEPT !.next = next]
  <1>4. /\ one \in Records /\ one.thread = m.thread /\ one.parent = m.parent
        /\ one.status = m.status /\ one.messages = full
    BY <1>1, <1>2
  <1>5. [m EXCEPT !.messages = full, !.next = @ + 1] = two
    BY <1>3
  <1> HIDE DEF one
  <1>6. /\ two \in Records /\ two.thread = one.thread /\ two.parent = one.parent
        /\ two.status = one.status /\ two.messages = one.messages /\ two.next = next
    BY <1>1, <1>4
  <1> QED
    BY <1>3, <1>4, <1>5, <1>6

(* append_message(). *)
LEMMA AppendStep ==
    ASSUME StoreInv, NEW r \in Ids, AppendMessage(r)
    PROVE  StoreInv'
  <1> DEFINE msg == Message(r, Own(memory[r], r) + 1)
             m == [memory[r] EXCEPT !.messages = Append(@, msg), !.next = @ + 1]
  <1>1. /\ Idle
        /\ session[r] = "running"
        /\ Own(memory[r], r) < MaxMessages
        /\ memory' = [memory EXCEPT ![r] = m]
        /\ todo' = <<InsertMessage(r, memory[r].next, msg)>>
        /\ UNCHANGED Outside /\ told' = told /\ session' = session /\ inherited' = inherited
    BY DEF AppendMessage
  <1>2. /\ r \notin broken /\ up /\ todo = <<>>
        /\ memory[r] # NoRecord /\ memory[r] \in Records
        /\ Holds(memory[r], seen, r)
        /\ HasOwn(memory[r], r)
        /\ Len(memory[r].messages) \in Nat
        /\ memory[r].messages \in Seq(Messages)
        /\ memory[r].next = Len(memory[r].messages) + 1
    BY <1>1, IdleSession
  <1>3. SessionOK(r) /\ ToldIsStored(r) /\ MemoryCarries(r)
    BY InvFacts
  <1>4. msg \in Messages /\ msg.by = r
    <2>1. Own(memory[r], r) \in Nat /\ MaxMessages \in Nat
      BY <1>2, OwnType, BoundsAssumption
    <2>2. Own(memory[r], r) + 1 \in 1..MaxMessages
      BY <1>1, <2>1
    <2> QED
      BY <2>2 DEF Messages, Message
  <1> HIDE DEF msg
  <1>5. PICK N \in Nat : N = Len(memory[r].messages)
    BY <1>2
  <1>6. /\ Append(memory[r].messages, msg) \in Seq(Messages)
        /\ Len(Append(memory[r].messages, msg)) = N + 1
        /\ \A i \in 1..N : Append(memory[r].messages, msg)[i] = memory[r].messages[i]
        /\ Append(memory[r].messages, msg)[N + 1] = msg
    BY <1>2, <1>4, <1>5
  <1>7. /\ m \in Records
        /\ m.thread = memory[r].thread /\ m.parent = memory[r].parent
        /\ m.status = memory[r].status
        /\ m.messages = Append(memory[r].messages, msg)
        /\ m.next = memory[r].next + 1
    BY <1>2, <1>6, RecordExtended
  <1> HIDE DEF m
  <1>8. /\ m # NoRecord
        /\ Len(m.messages) = N + 1
        /\ \A i \in 1..N : m.messages[i] = memory[r].messages[i]
        /\ m.messages[N + 1] = msg
        /\ m.next = Len(m.messages) + 1
    BY <1>2, <1>5, <1>6, <1>7, RecordsAreNone
  <1>9. /\ memory' \in [Ids -> Records \cup {NoRecord}]
        /\ memory'[r] = m
        /\ \A q \in Ids \ {r} : memory'[q] = memory[q]
    BY <1>1, <1>7, TypesOfCalls
  <1>10. CallOf(r)
    <2>1. memory'[r].next = Len(memory'[r].messages) + 1 /\ memory'[r] # NoRecord
      BY <1>8, <1>9
    <2>2. /\ memory'[r].thread = memory[r].thread
          /\ Len(memory[r].messages) <= Len(memory'[r].messages)
          /\ \A i \in 1..Len(memory[r].messages) :
                memory'[r].messages[i] = memory[r].messages[i]
      BY <1>5, <1>7, <1>8, <1>9
    <2>3. session' \in [Ids -> Sessions] /\ told' \in [Ids -> Final \cup {"none", "created"}]
      BY <1>1, TypesOfCalls
    <2> QED
      BY <1>1, <1>9, <2>1, <2>2, <2>3, TypesOfCalls DEF CallOf
  <1>11. MemoryCarries(r)'
    <2>1. broken' = broken /\ memory[r].parent < r /\ Carries(r, memory[r])
      BY <1>1, <1>2, <1>3 DEF Outside, MemoryCarries
    <2>2. PICK base : base = IF inherited[r] = NoRecord THEN <<>> ELSE inherited[r].messages
      OBVIOUS
    <2>3. Len(base) \in Nat
      BY <2>2, InvFacts DEF Histories
    <2> SUFFICES ASSUME m.parent \notin broken
                 PROVE  /\ m.parent = 0 <=> inherited[r] = NoRecord
                        /\ Continues(m, inherited[r], r)
      BY <1>1, <1>7, <1>9, <2>1 DEF MemoryCarries, Carries
    <2>4. /\ m.parent = 0 <=> inherited[r] = NoRecord
          /\ m.thread = IF inherited[r] = NoRecord THEN r ELSE inherited[r].thread
          /\ Len(base) < N
          /\ \A i \in 1..N : IF i <= Len(base) THEN memory[r].messages[i] = base[i]
                                               ELSE memory[r].messages[i].by = r
      BY <1>5, <1>7, <2>1, <2>2 DEF Carries, Continues
    <2>5. Len(base) < N + 1 /\ ~(N + 1 <= Len(base))
      BY <2>3, <2>4
    <2>6. ASSUME NEW i \in 1..(N + 1)
          PROVE  IF i <= Len(base) THEN m.messages[i] = base[i] ELSE m.messages[i].by = r
      <3>1. CASE i = N + 1
        BY <1>4, <1>8, <2>5, <3>1
      <3>2. CASE i \in 1..N
        BY <1>8, <2>4, <3>2
      <3> QED
        BY <3>1, <3>2
    <2> QED
      BY <1>8, <2>2, <2>4, <2>5, <2>6 DEF Continues
  <1>12. todo' \in Seq(Writes) /\ todo' # <<>> /\ Head(todo').r = r
    <2>1. InsertMessage(r, memory[r].next, msg) \in Writes
          /\ InsertMessage(r, memory[r].next, msg).r = r
      BY <1>2, <1>4, WritesTypes
    <2> QED
      BY <1>1, <2>1
  <1>13. Filling(r, seen, todo)'
    <2>1. seen' = seen /\ session'[r] = "running"
      BY <1>1 DEF Outside
    <2>2. m.status = "in_progress" /\ seen.responses[r].status = "in_progress"
      BY <1>1, <1>2, <1>3, <1>7 DEF SessionOK, Holds
    <2>3. HoldsUpTo(m, seen, r, N)
      <3>1. N <= N + 1
        OBVIOUS
      <3> QED
        BY <1>2, <1>5, <1>7, <1>8, <3>1 DEF Holds, HoldsUpTo
    <2>4. /\ Len(todo') = 1
          /\ todo'[1] = InsertMessage(r, N + 1, msg)
      BY <1>1, <1>2, <1>5
    <2>5. PICK done \in Nat : /\ done = N + 2
                              /\ done = Len(memory'[r].messages) + 2 - Len(todo')
                              /\ done - 2 = N /\ ~(done < 2) /\ done # 1
                              /\ (done + 1) - 2 = N + 1 /\ done + 1 # 1 /\ done + 1 # 2
                              /\ Len(todo') <= Len(memory'[r].messages) + 2
      BY <1>8, <1>9, <2>4
    <2>6. todo'[1] = StartWrite(r, done + 1)'
      BY <1>8, <1>9, <2>4, <2>5 DEF StartWrite
    <2>7. \A k \in 1..Len(todo') : todo'[k] = StartWrite(r, done + k)'
      BY <2>4, <2>6
    <2> QED
      BY <1>8, <1>9, <2>1, <2>2, <2>3, <2>5, <2>7 DEF Filling
  <1>14. Writing'
    BY <1>1, <1>2, <1>12, <1>13 DEF Writing, Outside
  <1>15. SessionOK(r)'
    <2>1. HasOwn(m, r)
      BY <1>4, <1>8 DEF HasOwn
    <2> QED
      BY <1>1, <1>2, <1>3, <1>7, <1>8, <1>9, <2>1 DEF SessionOK, HasOwn, Outside
  <1>16. ToldIsStored(r)'
    BY <1>1, <1>2, <1>3 DEF ToldIsStored, StatusIsTold, Outside
  <1>17. RowsCarry(r)'
    BY <1>1, InvFacts DEF RowsCarry, Carries, Outside
  <1> QED
    BY <1>2, <1>10, <1>11, <1>12, <1>14, <1>15, <1>16, <1>17, CallStep

(* What start_response() makes of the response it continues. *)
LEMMA BaseFacts ==
    ASSUME StoreInv, NEW r \in Ids, NEW p \in 0..(r - 1)
    PROVE  /\ p \in 0..NumResponses /\ p < r /\ p # r /\ (p # 0 => p \in Ids)
           /\ ThreadOf(r, p) \in Ids
           /\ BaseMessages(p) \in Seq(Messages)
           /\ BaseMessages(p) # <<>> =>
                 /\ p \in Ids
                 /\ memory[p] # NoRecord
                 /\ memory[p].thread = ThreadOf(r, p)
                 /\ memory[p].messages = BaseMessages(p)
  <1>1. p \in 0..NumResponses /\ p < r /\ p # r /\ (p # 0 => p \in Ids)
    BY BoundsAssumption DEF Ids
  <1>2. CASE Found(p)
    <2>1. p \in Ids /\ memory[p] # NoRecord
      BY <1>1, <1>2 DEF Found
    <2>2. memory[p] \in Records /\ memory[p].messages \in Seq(Messages)
      BY <2>1, InvFacts
    <2>3. memory[p].thread \in Ids
      BY <2>2 DEF Records
    <2> QED
      BY <1>1, <1>2, <2>1, <2>2, <2>3 DEF ThreadOf, BaseMessages
  <1>3. CASE ~Found(p)
    BY <1>1, <1>3 DEF ThreadOf, BaseMessages
  <1> QED
    BY <1>2, <1>3

LEMMA TwoAndTheRest ==
    ASSUME NEW a \in Writes, NEW b \in Writes, NEW rest \in Seq(Writes)
    PROVE  /\ <<a, b>> \o rest \in Seq(Writes)
           /\ Len(<<a, b>> \o rest) = Len(rest) + 2
           /\ (<<a, b>> \o rest)[1] = a
           /\ (<<a, b>> \o rest)[2] = b
           /\ \A k \in 3..(Len(rest) + 2) : (<<a, b>> \o rest)[k] = rest[k - 2]
  <1>1. <<a, b>> \o rest \in Seq(Writes)
    OBVIOUS
  <1>2. Len(<<a, b>> \o rest) = Len(rest) + 2
    OBVIOUS
  <1>3. (<<a, b>> \o rest)[1] = a /\ (<<a, b>> \o rest)[2] = b
    OBVIOUS
  <1>4. \A k \in 3..(Len(rest) + 2) : (<<a, b>> \o rest)[k] = rest[k - 2]
    OBVIOUS
  <1> QED
    BY <1>1, <1>2, <1>3, <1>4

(* The writes of start_response(), in their order. *)
StartWrites(r, t, p, full) ==
    <<InsertThread(t, r), InsertResponse(t, r, p)>>
        \o [i \in DOMAIN full |-> InsertMessage(r, i, full[i])]

LEMMA StartWritesInOrder ==
    ASSUME NEW r \in Ids, NEW t \in Ids, NEW p \in 0..NumResponses,
           NEW full \in Seq(Messages)
    PROVE  /\ StartWrites(r, t, p, full) \in Seq(Writes)
           /\ Len(StartWrites(r, t, p, full)) = Len(full) + 2
           /\ StartWrites(r, t, p, full)[1] = InsertThread(t, r)
           /\ StartWrites(r, t, p, full)[2] = InsertResponse(t, r, p)
           /\ \A k \in 3..(Len(full) + 2) :
                 StartWrites(r, t, p, full)[k] = InsertMessage(r, k - 2, full[k - 2])
  <1>1. PICK N \in Nat : N = Len(full) /\ DOMAIN full = 1..N
    OBVIOUS
  <1>2. \A i \in 1..N : full[i] \in Messages
    BY <1>1
  <1>3. \A i \in 1..N : InsertMessage(r, i, full[i]) \in Writes
    BY <1>2, WritesTypes
  <1>4. PICK rest : rest = [i \in 1..N |-> InsertMessage(r, i, full[i])]
    OBVIOUS
  <1>5. rest \in Seq(Writes) /\ Len(rest) = N
    BY <1>3, <1>4
  <1>6. \A i \in 1..N : rest[i] = InsertMessage(r, i, full[i])
    BY <1>4
  <1>7. StartWrites(r, t, p, full) = <<InsertThread(t, r), InsertResponse(t, r, p)>> \o rest
    BY <1>1, <1>4 DEF StartWrites
  <1>8. InsertThread(t, r) \in Writes /\ InsertResponse(t, r, p) \in Writes
    BY WritesTypes
  <1>9. \A k \in 3..(N + 2) : k - 2 \in 1..N
    OBVIOUS
  <1> QED
    BY <1>1, <1>5, <1>6, <1>7, <1>8, <1>9, TwoAndTheRest

(* What the database has of the response that r continues. *)
LEMMA InheritFacts ==
    ASSUME StoreInv, NEW r \in Ids, NEW p \in 0..NumResponses, Inherit(r, p)
    PROVE  /\ inherited' \in [Ids -> Histories \cup {NoRecord}]
           /\ \A q \in Ids \ {r} : inherited'[q] = inherited[q]
           /\ p = 0 => inherited'[r] = NoRecord
           /\ p # 0 /\ Load(rows, p) # NoRecord =>
                  inherited'[r] = [thread |-> Load(rows, p).thread,
                                   messages |-> Load(rows, p).messages]
  <1>1. PICK history :
            /\ history = IF p = 0 \/ Load(rows, p) = NoRecord
                         THEN NoRecord
                         ELSE [thread |-> Load(rows, p).thread,
                               messages |-> Load(rows, p).messages]
            /\ inherited' = [inherited EXCEPT ![r] = history]
    BY DEF Inherit
  <1>2. history \in Histories \cup {NoRecord}
    <2>1. CASE p = 0 \/ Load(rows, p) = NoRecord
      BY <1>1, <2>1
    <2>2. CASE p # 0 /\ Load(rows, p) # NoRecord
      <3>1. p \in Ids
        BY <2>2 DEF Ids
      <3>2. Load(rows, p) \in Records
        BY <2>2, <3>1, InvFacts, LoadFields
      <3> QED
        BY <1>1, <2>2, <3>2 DEF Records, Histories
    <2> QED
      BY <2>1, <2>2
  <1>3. inherited \in [Ids -> Histories \cup {NoRecord}]
    BY TypesOfCalls
  <1>4. /\ inherited' \in [Ids -> Histories \cup {NoRecord}]
        /\ inherited'[r] = history
        /\ \A q \in Ids \ {r} : inherited'[q] = inherited[q]
    BY <1>1, <1>2, <1>3
  <1> QED
    BY <1>1, <1>4

(* Between two calls memory has what the database has, and all of it that   *)
(* was told.                                                                *)
LEMMA ToldIsFound ==
    ASSUME StoreInv, Idle, NEW p \in Ids, p \notin broken, told[p] # "none"
    PROVE  memory[p] = Load(rows, p) /\ memory[p] \in Records
  <1>1. Agrees(memory[p], seen, p)
    BY DEF StoreInv, Matching, Idle
  <1>2. SameRows(rows, seen, p) /\ seen.responses[p] # NoRecord
    BY InvFacts DEF ToldIsStored
  <1>3. Agrees(memory[p], rows, p) /\ memory[p] # NoRecord
    BY <1>1, <1>2 DEF Agrees, Holds, HoldsUpTo, SameRows
  <1> QED
    BY <1>3, InvFacts, AgreesIsLoaded

LEMMA StartStepOfSession ==
    ASSUME StoreInv, NEW r \in Ids, NEW p \in 0..(r - 1), StartResponse(r, p)
    PROVE  StoreInv'
  <1> DEFINE thread == ThreadOf(r, p)
             base == BaseMessages(p)
             own == Message(r, 1)
             full == Append(base, own)
             m == [thread |-> thread, parent |-> p, status |-> "in_progress",
                   messages |-> full, next |-> Len(full) + 1]
  <1>1. /\ Idle
        /\ session[r] = "none"
        /\ memory' = [memory EXCEPT ![r] = m]
        /\ todo' = <<InsertThread(thread, r), InsertResponse(thread, r, p)>>
                   \o [i \in DOMAIN full |-> InsertMessage(r, i, full[i])]
        /\ session' = [session EXCEPT ![r] = "starting"]
        /\ p # 0 => told[p] # "none"
        /\ Inherit(r, p)
        /\ UNCHANGED Outside /\ told' = told
    BY DEF StartResponse
  <1>2. /\ p \in 0..NumResponses /\ p < r /\ p # r
        /\ thread \in Ids
        /\ base \in Seq(Messages)
        /\ base # <<>> => /\ p \in Ids
                          /\ memory[p] # NoRecord
                          /\ memory[p].thread = thread
                          /\ memory[p].messages = base
    BY BaseFacts
  <1>3. SessionOK(r)
    BY InvFacts
  <1>4. /\ up /\ todo = <<>> /\ r \notin broken
        /\ memory[r] = NoRecord
        /\ seen.responses[r] = NoRecord
        /\ told[r] = "none"
    BY <1>1, <1>3 DEF Idle, SessionOK
  <1>5. own \in Messages /\ own.by = r
    BY BoundsAssumption DEF Messages, Message
  <1> HIDE DEF thread, base, own
  <1>6. PICK N \in Nat : N = Len(base)
    BY <1>2
  <1>7. /\ full \in Seq(Messages)
        /\ Len(full) = N + 1
        /\ \A i \in 1..N : full[i] = base[i]
        /\ full[N + 1] = own
    BY <1>2, <1>5, <1>6
  <1> HIDE DEF full
  <1>8. /\ m \in Records
        /\ m.thread = thread /\ m.parent = p /\ m.status = "in_progress"
        /\ m.messages = full /\ m.next = Len(full) + 1
    BY <1>2, <1>7 DEF Records, Statuses
  <1> HIDE DEF m
  <1>9. m # NoRecord
    BY <1>8, RecordsAreNone
  <1>10. /\ memory' \in [Ids -> Records \cup {NoRecord}]
         /\ memory'[r] = m
         /\ \A q \in Ids \ {r} : memory'[q] = memory[q]
         /\ session' \in [Ids -> Sessions]
         /\ session'[r] = "starting"
         /\ \A q \in Ids \ {r} : session'[q] = session[q]
    BY <1>1, <1>8, TypesOfCalls DEF Sessions
  <1>11. /\ inherited' \in [Ids -> Histories \cup {NoRecord}]
         /\ \A q \in Ids \ {r} : inherited'[q] = inherited[q]
         /\ p = 0 => inherited'[r] = NoRecord
         /\ p # 0 /\ Load(rows, p) # NoRecord =>
                inherited'[r] = [thread |-> Load(rows, p).thread,
                                 messages |-> Load(rows, p).messages]
    BY <1>1, <1>2, InheritFacts
  <1>12. CallOf(r)
    BY <1>1, <1>4, <1>8, <1>9, <1>10, <1>11, TypesOfCalls DEF CallOf
  <1>13. MemoryCarries(r)'
    <2> SUFFICES ASSUME p \notin broken
                 PROVE  /\ p = 0 <=> inherited'[r] = NoRecord
                        /\ Continues(m, inherited'[r], r)
      BY <1>1, <1>2, <1>8, <1>10 DEF MemoryCarries, Carries, Outside
    <2>1. /\ p = 0 <=> inherited'[r] = NoRecord
          /\ thread = IF inherited'[r] = NoRecord THEN r ELSE inherited'[r].thread
          /\ base = IF inherited'[r] = NoRecord THEN <<>> ELSE inherited'[r].messages
      <3>1. CASE p = 0
        BY <1>11, <3>1 DEF thread, base, ThreadOf, BaseMessages, Found
      <3>2. CASE p # 0
        <4>1. p \in Ids
          BY <3>2, BaseFacts
        <4>2. memory[p] = Load(rows, p) /\ memory[p] \in Records
          BY <1>1, <1>4, <3>2, <4>1, ToldIsFound
        <4>3. Found(p) /\ Load(rows, p) # NoRecord
          BY <3>2, <4>2, RecordsAreNone DEF Found
        <4>4. /\ inherited'[r] = [thread |-> memory[p].thread, messages |-> memory[p].messages]
              /\ inherited'[r].thread = memory[p].thread
              /\ inherited'[r].messages = memory[p].messages
          BY <1>11, <3>2, <4>2, <4>3
        <4>5. inherited'[r] # NoRecord
          BY <4>4 DEF NoRecord
        <4> QED
          BY <3>2, <4>3, <4>4, <4>5 DEF thread, base, ThreadOf, BaseMessages
      <3> QED
        BY <3>1, <3>2
    <2>2. ASSUME NEW i \in 1..(N + 1)
          PROVE  IF i <= N THEN full[i] = base[i] ELSE full[i].by = r
      <3>1. CASE i = N + 1
        BY <1>5, <1>7, <3>1
      <3>2. CASE i \in 1..N
        BY <1>7, <3>2
      <3> QED
        BY <3>1, <3>2
    <2>3. N < N + 1
      OBVIOUS
    <2> QED
      BY <1>6, <1>7, <1>8, <2>1, <2>2, <2>3 DEF Continues
  <1>14. /\ todo' \in Seq(Writes)
         /\ Len(todo') = N + 3
         /\ todo'[1] = InsertThread(thread, r)
         /\ todo'[2] = InsertResponse(thread, r, p)
         /\ \A k \in 3..(N + 3) : todo'[k] = InsertMessage(r, k - 2, full[k - 2])
    <2>1. todo' = StartWrites(r, thread, p, full)
      BY <1>1 DEF StartWrites
    <2>2. Len(full) + 2 = N + 3
      BY <1>7
    <2>3. PICK ws : ws = StartWrites(r, thread, p, full)
      OBVIOUS
    <2>4. /\ ws \in Seq(Writes)
          /\ Len(ws) = Len(full) + 2
          /\ ws[1] = InsertThread(thread, r)
          /\ ws[2] = InsertResponse(thread, r, p)
          /\ \A k \in 3..(Len(full) + 2) : ws[k] = InsertMessage(r, k - 2, full[k - 2])
      BY ZenonT(30), <1>2, <1>7, <2>3, StartWritesInOrder
    <2>5. todo' = ws
      BY <2>1, <2>3
    <2> QED
      BY <2>2, <2>4, <2>5
  <1>15. todo' # <<>> /\ Head(todo').r = r
    <2>1. todo' # <<>>
      BY <1>14
    <2>2. Head(todo') = InsertThread(thread, r)
      BY <1>14, <2>1
    <2> QED
      BY <2>1, <2>2 DEF InsertThread
  <1>16. Filling(r, seen, todo)'
    <2>1. seen' = seen
      BY <1>1 DEF Outside
    <2>2. Len(todo') = Len(memory'[r].messages) + 2
      BY <1>7, <1>8, <1>10, <1>14
    <2>3. PICK done \in Nat : /\ done = 0
                              /\ done = Len(memory'[r].messages) + 2 - Len(todo')
                              /\ done < 2 /\ done # 1 /\ ~(done >= 2)
      BY <1>14, <2>2
    <2>4. ASSUME NEW k \in 1..Len(todo')
          PROVE  todo'[k] = StartWrite(r, done + k)'
      <3>1. done + k = k
        BY <1>14, <2>3
      <3>2. CASE k = 1
        BY <1>8, <1>10, <1>14, <3>1, <3>2 DEF StartWrite
      <3>3. CASE k = 2
        BY <1>8, <1>10, <1>14, <3>1, <3>3 DEF StartWrite
      <3>4. CASE k \in 3..(N + 3)
        BY <1>8, <1>10, <1>14, <3>1, <3>4 DEF StartWrite
      <3> QED
        BY <1>14, <3>2, <3>3, <3>4
    <2>5. Len(todo') <= Len(memory'[r].messages) + 2
      BY <1>14, <2>2
    <2> QED
      BY <1>4, <1>8, <1>9, <1>10, <2>1, <2>3, <2>4, <2>5 DEF Filling
  <1>17. Writing'
    BY <1>1, <1>4, <1>15, <1>16 DEF Writing, Outside
  <1>18. SessionOK(r)'
    <2>1. HasOwn(m, r)
      BY <1>5, <1>7, <1>8 DEF HasOwn
    <2> QED
      BY <1>1, <1>4, <1>8, <1>9, <1>10, <2>1 DEF SessionOK, HasOwn, Outside
  <1>19. ToldIsStored(r)' /\ RowsCarry(r)'
    BY <1>1, <1>4 DEF ToldIsStored, RowsCarry, Outside, Final
  <1> QED
    BY <1>4, <1>12, <1>13, <1>14, <1>15, <1>17, <1>18, <1>19, CallStep

-----------------------------------------------------------------------------
(* The invariant. *)

LEMMA InitInv == Init => StoreInv
  <1> SUFFICES ASSUME Init PROVE StoreInv
    OBVIOUS
  <1>1. NoTables \in Tables
    BY DEF NoTables, Tables
  <1>2. /\ up = TRUE /\ rows = NoTables /\ seen = NoTables /\ todo = <<>> /\ broken = {}
        /\ memory = [r \in Ids |-> NoRecord]
        /\ session = [r \in Ids |-> "none"]
        /\ told = [r \in Ids |-> "none"]
        /\ inherited = [r \in Ids |-> NoRecord]
    BY DEF Init
  <1>3. TypeOK
    BY <1>1, <1>2 DEF TypeOK
  <1>4. todo \in Seq(Writes) /\ Writing /\ Synced
    BY <1>2 DEF Writing, Synced, SameRows
  <1>5. \A r \in Ids : /\ memory[r] = NoRecord /\ session[r] = "none" /\ told[r] = "none"
                       /\ seen.responses[r] = NoRecord /\ rows.responses[r] = NoRecord
                       /\ seen.messages[r] = <<>> /\ rows.messages[r] = <<>>
    BY <1>2 DEF NoTables
  <1>6. Matching
    BY <1>5 DEF Matching, Agrees
  <1>7. ASSUME NEW r \in Ids
        PROVE  /\ InPlace(rows, r) /\ InPlace(seen, r)
               /\ MemoryCarries(r)
               /\ RowsCarry(r)
               /\ Grown(rows, seen, r)
               /\ SessionOK(r)
               /\ ToldIsStored(r)
    BY <1>2, <1>5 DEF InPlace, MemoryCarries, RowsCarry, Grown, SessionOK, ToldIsStored, Final
  <1> QED
    BY <1>3, <1>4, <1>6, <1>7 DEF StoreInv

LEMMA UnchangedInv ==
    ASSUME StoreInv, UNCHANGED vars
    PROVE  StoreInv'
  <1>1. /\ up' = up /\ memory' = memory /\ rows' = rows /\ seen' = seen /\ todo' = todo
        /\ session' = session /\ told' = told /\ broken' = broken
        /\ inherited' = inherited
    BY DEF vars
  <1>2. TypeOK' /\ todo' \in Seq(Writes) /\ Synced'
    BY <1>1 DEF StoreInv, TypeOK, Synced, SameRows
  <1>3. Writing' /\ Matching'
    BY <1>1 DEF StoreInv, Writing, Matching, Filling, StartWrite, SettingStatus, Recording
  <1>4. ASSUME NEW r \in Ids
        PROVE  /\ InPlace(rows, r)' /\ InPlace(seen, r)'
               /\ MemoryCarries(r)'
               /\ RowsCarry(r)'
               /\ Grown(rows, seen, r)'
               /\ SessionOK(r)'
               /\ ToldIsStored(r)'
    <2>1. InPlace(rows, r)' /\ InPlace(seen, r)'
      BY <1>1, InvFacts DEF InPlace
    <2>2. MemoryCarries(r)' /\ SessionOK(r)' /\ ToldIsStored(r)'
      BY <1>1, InvFacts
      DEF MemoryCarries, Carries, SessionOK, HasOwn, ToldIsStored, StatusIsTold
    <2>3. RowsCarry(r)'
      BY <1>1, InvFacts DEF RowsCarry, Carries
    <2>4. Grown(rows, seen, r)'
      BY <1>1, InvFacts DEF Grown
    <2> QED
      BY <2>1, <2>2, <2>3, <2>4
  <1> QED
    BY <1>2, <1>3, <1>4 DEF StoreInv

LEMMA NextInv ==
    ASSUME StoreInv, [Next]_vars
    PROVE  StoreInv'
  <1>1. ASSUME NEW r \in Ids, SessionStep(r)
        PROVE  StoreInv'
    <2>1. ASSUME NEW p \in 0..(r - 1), StartResponse(r, p) PROVE StoreInv'
      BY <2>1, StartStepOfSession
    <2>2. CASE TellCreated(r) \/ TellFinal(r) \/ SessionRaises(r)
      BY <2>2, TellStep
    <2>3. CASE AppendMessage(r)
      BY <2>3, AppendStep
    <2>4. CASE \/ StartStep(r) \/ CompleteStep(r)
               \/ CreateToolCall(r) \/ CompleteToolCall(r) \/ AddToolResult(r)
      BY <2>4, RecordStep
    <2>5. ASSUME NEW status \in Final, Finish(r, status) PROVE StoreInv'
      BY <2>5, StatusStep
    <2>6. CASE Disconnect(r)
      BY <2>6, StatusStep DEF Final
    <2> QED
      BY <1>1, <2>1, <2>2, <2>3, <2>4, <2>5, <2>6 DEF SessionStep
  <1>2. CASE WriteCommits
    BY <1>2, CommitStep
  <1>3. CASE WriteRaises
    BY <1>3, RaiseStep
  <1>4. CASE Crash
    BY <1>4, CrashStep
  <1>5. CASE Initialize
    BY <1>5, InitializeStep
  <1>6. CASE Quiet \/ UNCHANGED vars
    BY <1>6, UnchangedInv DEF Quiet
  <1> QED
    BY <1>1, <1>2, <1>3, <1>4, <1>5, <1>6 DEF Next

LEMMA StoreInvariant == Spec => []StoreInv
  <1>1. Init => StoreInv
    BY InitInv
  <1>2. StoreInv /\ [Next]_vars => StoreInv'
    BY NextInv
  <1> QED
    BY <1>1, <1>2, PTL DEF Spec


-----------------------------------------------------------------------------
(* What the runs check, for every number of responses, messages, failures   *)
(* and crashes.                                                             *)

(* THE TYPES OF THE STORE: memory holds records whose next position is the  *)
(* one after their last message, and a process that is down holds nothing   *)
(* (state_store.py, ResponseRecord; persistence.py, SCHEMA).                *)
THEOREM TypesOfTheStore == Spec => []TypeOK
  <1>1. StoreInv => TypeOK
    BY DEF StoreInv
  <1> QED
    BY <1>1, StoreInvariant, PTL

(* POSITIONS ARE IN ORDER: the message rows of a response are numbered 1,   *)
(* 2, ... as they were appended, after any failed write and any crash       *)
(* (append_message(), and initialize()'s len(messages) + 1).                *)
THEOREM PositionsAreInOrder == Spec => []PositionsInOrder
  <1>1. StoreInv => PositionsInOrder
    <2> SUFFICES ASSUME StoreInv, NEW r \in Ids, NEW i \in DOMAIN rows.messages[r]
                 PROVE  rows.messages[r][i].seq = i
      BY DEF PositionsInOrder
    <2>1. rows.messages[r] \in Seq(MessageRows) /\ InPlace(rows, r)
      BY InvFacts, TablesTypes
    <2>2. i \in 1..Len(rows.messages[r])
      BY <2>1
    <2> QED
      BY <2>1, <2>2 DEF InPlace
  <1> QED
    BY <1>1, StoreInvariant, PTL

(* EVERY INSERT FINDS ITS REFERENCES: whichever transaction was left open   *)
(* or rolled back before, the next write meets no missing row of a table    *)
(* it refers to (persistence.py, PRAGMA foreign_keys=ON).                   *)
THEOREM ReferencesAreFound == Spec => []InsertsFindTheirReferences
  <1>1. StoreInv => InsertsFindTheirReferences
    BY WriteEffect DEF InsertsFindTheirReferences
  <1> QED
    BY <1>1, StoreInvariant, PTL

(* MEMORY IS THE DATABASE: between two calls, what load_state() would       *)
(* return of a response none of whose writes has raised is what memory      *)
(* holds of it, so that a restart changes nothing for it.                   *)
THEOREM RestartChangesNothing == Spec => []MemoryIsDatabase
  <1>1. StoreInv => MemoryIsDatabase
    <2> SUFFICES ASSUME StoreInv, Idle, NEW r \in Ids \ broken
                 PROVE  memory[r] = Load(rows, r)
      BY DEF MemoryIsDatabase
    <2>1. Agrees(memory[r], seen, r)
      BY DEF StoreInv, Matching, Idle
    <2>2. SameRows(rows, seen, r)
      BY InvFacts
    <2>3. Agrees(memory[r], rows, r)
      BY <2>1, <2>2 DEF Agrees, Holds, HoldsUpTo, SameRows
    <2>4. /\ rows \in Tables /\ InPlace(rows, r)
          /\ memory[r] \in Records \cup {NoRecord}
          /\ memory[r] # NoRecord => memory[r].next = Len(memory[r].messages) + 1
      BY InvFacts
    <2> QED
      BY <2>3, <2>4, AgreesIsLoaded
  <1> QED
    BY <1>1, StoreInvariant, PTL

(* WHAT A CLIENT WAS TOLD IS DURABLE: a response it was told of is          *)
(* committed with a message of its own and is found when it is continued,   *)
(* if none of its own writes has raised; the final status it was told is    *)
(* the stored one, unless the disconnect handler of run() put "cancelled"   *)
(* in its place, or run() said "failed" of an exception outside the store   *)
(* and left the response in progress.                                       *)
THEOREM ToldIsKept == Spec => []ToldIsDurable
  <1>1. StoreInv => ToldIsDurable
    <2> SUFFICES ASSUME StoreInv, NEW r \in Ids, told[r] # "none", r \notin broken
                 PROVE  /\ rows.responses[r] # NoRecord
                        /\ Own(Load(rows, r), r) > 0
                        /\ up => Found(r)
                        /\ StatusIsTold(r, rows.responses[r].status)
      BY DEF ToldIsDurable, StatusIsTold
    <2>1. /\ rows \in Tables /\ InPlace(rows, r)
          /\ ToldIsStored(r)
          /\ rows.responses[r] = seen.responses[r] /\ rows.messages[r] = seen.messages[r]
      BY InvFacts DEF SameRows
    <2>2. rows.responses[r] # NoRecord
      BY <2>1 DEF ToldIsStored
    <2>3. StatusIsTold(r, rows.responses[r].status)
      BY <2>1 DEF ToldIsStored, StatusIsTold
    <2>4. Own(Load(rows, r), r) > 0
      <3>1. PICK i \in 1..Len(rows.messages[r]) : rows.messages[r][i].msg.by = r
        BY <2>1 DEF ToldIsStored
      <3>2. rows.messages[r] \in Seq(MessageRows)
        BY <2>1, TablesTypes
      <3>3. PICK m : m = Load(rows, r)
        OBVIOUS
      <3>4. /\ Len(m.messages) = Len(rows.messages[r])
            /\ m.messages[i] = rows.messages[r][i].msg
        BY <2>1, <2>2, <3>3, LoadFields
      <3>5. HasOwn(m, r)
        BY <3>1, <3>4 DEF HasOwn
      <3>6. Len(m.messages) \in Nat
        BY <3>2, <3>4
      <3> QED
        BY <3>3, <3>5, <3>6, OwnType
    <2>5. ASSUME up PROVE Found(r)
      <3>1. r # 0
        BY DEF Ids
      <3>2. memory[r] # NoRecord
        <4>1. CASE todo # <<>> /\ Head(todo).r = r
          BY <4>1, WriterHasRecord
        <4>2. CASE ~(todo # <<>> /\ Head(todo).r = r)
          <5>1. Agrees(memory[r], seen, r)
            BY <2>5, <4>2 DEF StoreInv, Matching
          <5> QED
            BY <2>1, <2>2, <5>1 DEF Agrees, Holds, HoldsUpTo
        <4> QED
          BY <4>1, <4>2
      <3> QED
        BY <3>1, <3>2 DEF Found
    <2> QED
      BY <2>2, <2>3, <2>4, <2>5
  <1> QED
    BY <1>1, StoreInvariant, PTL

(* A CHILD CARRIES ITS PARENT: the rows of a response a client was told of  *)
(* hold, in the thread of its parent, all the messages the parent had when  *)
(* the response began, and after them at least one message, all its own; a  *)
(* response without a parent has a thread of its own, and its own messages. *)
(* This is so as any crash leaves the database, if no write of the two has  *)
(* raised (start_response(), resolve_previous_response(), initialize()).    *)
THEOREM ChildCarriesItsParent == Spec => []ChildExtendsParent
  <1>1. StoreInv => ChildExtendsParent
    <2> SUFFICES ASSUME StoreInv, NEW r \in Ids, told[r] # "none", r \notin broken,
                        NEW child, child = Load(rows, r), child.parent \notin broken
                 PROVE  /\ child.parent = 0 <=> inherited[r] = NoRecord
                        /\ Continues(child, inherited[r], r)
      BY DEF ChildExtendsParent
    <2>1. Load(rows, r) = Load(seen, r)
      BY InvFacts, SameRowsSameRecord
    <2>2. Carries(r, Load(seen, r))
      BY InvFacts DEF RowsCarry
    <2> QED
      BY <2>1, <2>2 DEF Carries
  <1> QED
    BY <1>1, StoreInvariant, PTL

-----------------------------------------------------------------------------
(* The tables implement the append-only history. *)

(* Rows that have only grown are loaded as a record that has. *)
LEMMA GrownRowsGrowTheRecord ==
    ASSUME NEW a \in Tables, NEW b \in Tables, NEW r \in Ids,
           InPlace(a, r), InPlace(b, r), Grown(a, b, r), Load(a, r) # NoRecord
    PROVE  /\ Load(b, r) # NoRecord
           /\ Load(b, r).thread = Load(a, r).thread
           /\ Load(b, r).parent = Load(a, r).parent
           /\ History!Extends(Load(b, r).messages, Load(a, r).messages)
           /\ \/ Load(b, r).status = Load(a, r).status
              \/ Load(a, r).status \notin Final
              \/ Load(b, r).status = "cancelled"
  <1>1. a.responses[r] # NoRecord
    BY LoadFields
  <1>2. PICK m : m = Load(a, r)
    OBVIOUS
  <1>3. PICK n : n = Load(b, r)
    OBVIOUS
  <1>4. /\ m.thread = a.responses[r].thread /\ m.parent = a.responses[r].parent
        /\ m.status = a.responses[r].status
        /\ Len(m.messages) = Len(a.messages[r])
        /\ \A i \in 1..Len(a.messages[r]) : m.messages[i] = a.messages[r][i].msg
    BY <1>1, <1>2, LoadFields
  <1>5. b.responses[r] # NoRecord
    BY <1>1 DEF Grown
  <1>6. /\ n # NoRecord
        /\ n.thread = b.responses[r].thread /\ n.parent = b.responses[r].parent
        /\ n.status = b.responses[r].status
        /\ Len(n.messages) = Len(b.messages[r])
        /\ \A i \in 1..Len(b.messages[r]) : n.messages[i] = b.messages[r][i].msg
    BY <1>3, <1>5, LoadFields
  <1>7. a.messages[r] \in Seq(MessageRows) /\ b.messages[r] \in Seq(MessageRows)
    BY TablesTypes
  <1>8. /\ Len(a.messages[r]) <= Len(b.messages[r])
        /\ \A i \in 1..Len(a.messages[r]) : b.messages[r][i] = a.messages[r][i]
    BY <1>1 DEF Grown
  <1>9. \A i \in 1..Len(a.messages[r]) : i \in 1..Len(b.messages[r])
    BY <1>7, <1>8
  <1>10. History!Extends(n.messages, m.messages)
    <2>1. Len(m.messages) <= Len(n.messages)
      BY <1>4, <1>6, <1>8
    <2>2. ASSUME NEW i \in 1..Len(a.messages[r])
          PROVE  n.messages[i] = m.messages[i]
      <3>1. n.messages[i] = b.messages[r][i].msg
        BY <1>6, <1>9
      <3>2. m.messages[i] = a.messages[r][i].msg /\ b.messages[r][i] = a.messages[r][i]
        BY <1>4, <1>8
      <3> QED
        BY <3>1, <3>2
    <2> QED
      BY <1>4, <2>1, <2>2 DEF History!Extends
  <1> QED
    BY <1>1, <1>2, <1>3, <1>4, <1>6, <1>10 DEF Grown

(* Every step keeps or grows what the tables hold of each response. *)
LEMMA TablesOnlyGrow ==
    ASSUME StoreInv, [Next]_vars, NEW r \in Ids
    PROVE  \/ Load(rows, r)' = Load(rows, r)
           \/ Grown(rows, rows', r)
  <1>1. CASE WriteCommits
    <2>1. todo # <<>> /\ rows' = Apply(seen, Head(todo))
      BY <1>1 DEF WriteCommits
    <2>2. Wrote(Head(todo).r, rows')
      BY <2>1, WriteEffect
    <2> QED
      BY <2>1, <2>2, TablesAfterWrite
  <1>2. CASE ~WriteCommits
    <2>1. rows' = rows
      BY <1>2 DEF Next, vars, SessionStep, StartResponse, TellCreated, AppendMessage,
         StartStep, CompleteStep, CreateToolCall, CompleteToolCall, AddToolResult, WriteRow,
         Finish, SetResponseStatus, TellFinal, SessionRaises, Disconnect, Outside, WriteRaises, Crash,
         Initialize, Quiet
    <2>2. Load(rows', r) = Load(rows, r)
      BY <2>1
    <2> QED
      BY <2>2
  <1> QED
    BY <1>1, <1>2

(* THE DATABASE KEEPS AN APPEND-ONLY HISTORY: whatever write raises and     *)
(* whenever the process dies, what load_state() would return of a response  *)
(* is created once, keeps its place in its thread, is only added to, and    *)
(* its final status gives way to "cancelled" alone (README.md, "History     *)
(* lives server-side").                                                     *)
THEOREM HistoryIsKept == Spec => KeepsHistory
  <1>1. Init => History!Init
    <2> SUFFICES ASSUME Init PROVE [r \in Ids |-> Load(rows, r)] = [r \in Ids |-> NoRecord]
      BY DEF History!Init
    <2>1. ASSUME NEW r \in Ids PROVE Load(rows, r) = NoRecord
      BY DEF Init, NoTables, Load
    <2> QED
      BY <2>1
  <1>2. ASSUME StoreInv, StoreInv', [Next]_vars
        PROVE  History!Next
    <2> SUFFICES ASSUME NEW r \in Ids, Load(rows, r)' # Load(rows, r)
                 PROVE  History!Create(r) \/ History!Grow(r)
      BY DEF History!Next
    <2>1. Grown(rows, rows', r)
      BY <1>2, TablesOnlyGrow
    <2>2. rows \in Tables /\ rows' \in Tables
      BY <1>2 DEF StoreInv, TypeOK
    <2>3. InPlace(rows, r) /\ InPlace(rows', r)
      BY <1>2 DEF StoreInv, InPlace
    <2>4. CASE Load(rows, r) = NoRecord
      BY <2>4 DEF History!Create
    <2>5. CASE Load(rows, r) # NoRecord
      BY <2>1, <2>2, <2>3, <2>5, GrownRowsGrowTheRecord
      DEF History!Grow, History!Extends, History!Final, Final
    <2> QED
      BY <2>4, <2>5
  <1> QED
    BY <1>1, <1>2, StoreInvariant, PTL DEF Spec, KeepsHistory, History!Spec
===============================================================================
