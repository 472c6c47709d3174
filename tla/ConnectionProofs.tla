--------------------------- MODULE ConnectionProofs ---------------------------
(* Theorems about a connection, for any number of responses.                *)
EXTENDS Connection, TLAPS

(* TYPE CORRECTNESS: in particular active_session is never a session whose  *)
(* done-callback has run.                                                   *)
THEOREM TypeCorrect == Spec => []TypeOK
  <1> USE DEF Sessions, Busy, Done
  <1>1. Init => TypeOK
    BY DEF Init, TypeOK
  <1>2. TypeOK /\ [Next]_vars => TypeOK'
    <2> SUFFICES ASSUME TypeOK, [Next]_vars PROVE TypeOK'
      OBVIOUS
    <2> USE DEF TypeOK
    <2>1. CASE Accept \/ RejectUnauthorized \/ Refuse \/ CreateRefused \/ SubmitRefused
      BY <2>1 DEF Accept, RejectUnauthorized, Refuse, CreateRefused, SubmitRefused, Reply
    <2>2. ASSUME NEW i \in Sessions, Create(i) PROVE TypeOK'
      BY <2>2 DEF Create
    <2>3. ASSUME NEW target \in Sessions \cup {0}, CancelRefused(target) \/ Cancel(target)
          PROVE  TypeOK'
      BY <2>3 DEF CancelRefused, Cancel, Reply
    <2>4. CASE ReplySent \/ LoopBreaks
      BY <2>4 DEF ReplySent, LoopBreaks
    <2>5. CASE Disconnect
      BY <2>5 DEF Disconnect
    <2>6. CASE HandlerReturns
      BY <2>6 DEF HandlerReturns
    <2>7. ASSUME NEW i \in Sessions, SessionEnds(i) PROVE TypeOK'
      BY <2>7 DEF SessionEnds
    <2>8. ASSUME NEW i \in Sessions, TaskDone(i) PROVE TypeOK'
      BY <2>8 DEF TaskDone
    <2>9. CASE Finished \/ UNCHANGED vars
      BY <2>9 DEF Finished, vars
    <2> QED
      BY <2>1, <2>2, <2>3, <2>4, <2>5, <2>6, <2>7, <2>8, <2>9 DEF Next, LoopStep, TaskStep
  <1> QED BY <1>1, <1>2, PTL DEF Spec

(* THE RUNNING SESSION IS THE ACTIVE ONE, so cancel, submit and the         *)
(* disconnect handler reach it, unless a create raced with on_task_done().  *)
THEOREM RunningSessionIsActive == Spec => []RunningIsActive
  <1> USE DEF Sessions, Busy, Done
  <1>1. Init => RunningIsActive
    BY DEF Init, RunningIsActive
  <1>2. TypeOK /\ RunningIsActive /\ [Next]_vars => RunningIsActive'
    <2> SUFFICES ASSUME TypeOK, RunningIsActive, [Next]_vars PROVE RunningIsActive'
      OBVIOUS
    <2> USE DEF RunningIsActive
    <2>1. ASSUME NEW i \in Sessions, Create(i) PROVE RunningIsActive'
      <3> SUFFICES ASSUME ~raced', NEW j \in Sessions, task'[j] \in {"running", "finished"}
                   PROVE  j = i
        BY <2>1 DEF Create
      <3>1. ~raced /\ active = 0
        BY <2>1 DEF Create, TypeOK
      <3>2. \A k \in Sessions : task[k] \notin {"running", "finished"}
        BY <3>1, SessionsAssumption
      <3>3. j # i => task'[j] = task[j]
        BY <2>1 DEF Create, TypeOK
      <3> QED BY <3>2, <3>3
    <2>2. ASSUME NEW i \in Sessions, SessionEnds(i) PROVE RunningIsActive'
      BY <2>2 DEF SessionEnds, TypeOK
    <2>3. ASSUME NEW i \in Sessions, TaskDone(i) PROVE RunningIsActive'
      BY <2>3 DEF TaskDone, TypeOK
    <2>4. CASE UNCHANGED <<active, task, raced>>
      BY <2>4
    <2>5. ASSUME NEW target \in Sessions \cup {0}, CancelRefused(target) \/ Cancel(target)
          PROVE  UNCHANGED <<active, task, raced>>
      BY <2>5 DEF CancelRefused, Cancel, Reply
    <2>6. CASE \/ Accept \/ RejectUnauthorized \/ SubmitRefused
               \/ Refuse \/ CreateRefused \/ ReplySent \/ LoopBreaks \/ Disconnect
               \/ HandlerReturns \/ Finished \/ UNCHANGED vars
      BY <2>4, <2>6 DEF Accept, RejectUnauthorized, SubmitRefused,
                        Refuse, CreateRefused, Reply, ReplySent, LoopBreaks, Disconnect,
                        HandlerReturns, Finished, vars
    <2> QED BY <2>1, <2>2, <2>3, <2>4, <2>5, <2>6 DEF Next, LoopStep, TaskStep
  <1> QED BY <1>1, <1>2, TypeCorrect, PTL DEF Spec

(* NOTHING RUNS ON: when the disconnect handler has returned, no session of *)
(* the connection is running, unless a create raced with on_task_done().    *)
THEOREM CloseStopsSessions == Spec => []NothingRunsAfterClose
  <1> DEFINE RunsNothingYet == loop = "accepting" => Running = {}
             Inv == RunsNothingYet /\ RunsWhenClosing /\ NothingRunsAfterClose
  <1> USE DEF Sessions, Busy, Done, Running
  <1>1. Init => Inv
    BY DEF Init, RunsWhenClosing, NothingRunsAfterClose
  <1>2. TypeOK /\ RunningIsActive /\ Inv /\ [Next]_vars => Inv'
    <2> SUFFICES ASSUME TypeOK, RunningIsActive, Inv, [Next]_vars PROVE Inv'
      OBVIOUS
    <2> USE DEF RunsWhenClosing, NothingRunsAfterClose
    <2>1. ASSUME NEW i \in Sessions, Create(i) PROVE Inv'
      BY <2>1 DEF Create
    <2>2. ASSUME NEW i \in Sessions, SessionEnds(i) \/ TaskDone(i) PROVE Inv'
      BY <2>2 DEF SessionEnds, TaskDone, TypeOK
    <2>3. CASE Disconnect
      BY <2>3 DEF Disconnect, RunningIsActive, TypeOK
    <2>4. CASE HandlerReturns
      BY <2>4 DEF HandlerReturns
    <2>5. ASSUME NEW target \in Sessions \cup {0}, CancelRefused(target) \/ Cancel(target)
          PROVE  Inv'
      BY <2>5 DEF CancelRefused, Cancel, Reply
    <2>6. CASE \/ Accept \/ RejectUnauthorized \/ SubmitRefused
               \/ Refuse \/ CreateRefused \/ ReplySent \/ LoopBreaks \/ Finished
               \/ UNCHANGED vars
      BY <2>6 DEF Accept, RejectUnauthorized, SubmitRefused,
                        Refuse, CreateRefused, Reply, ReplySent, LoopBreaks, Finished, vars
    <2> QED BY <2>1, <2>2, <2>3, <2>4, <2>5, <2>6 DEF Next, LoopStep, TaskStep
  <1>3. Inv => NothingRunsAfterClose
    OBVIOUS
  <1> QED BY <1>1, <1>2, <1>3, TypeCorrect, RunningSessionIsActive, PTL DEF Spec
===============================================================================
