---------------------------- MODULE EventLoopProofs ----------------------------
(* Theorems about tool calls on the event loop, for any number of calls, any *)
(* timeouts and any durations.                                               *)
EXTENDS EventLoop, FiniteSetTheorems, TLAPS

(* The kinds of call and what a duration becomes. *)
LEMMA TimeTakenType == \A c \in Calls, d \in Durations : TimeTaken(c, d) \in Nat
  BY TimeAssumption DEF TimeTaken

(* The times of a call are natural numbers, and so is the time a timer is   *)
(* set to.                                                                   *)
LEMMA TimesAreNat ==
  ASSUME TypeOK, NEW c \in Calls
  PROVE  /\ now \in Nat /\ timeout[c] \in Nat /\ began[c] \in Nat /\ arrived[c] \in Nat
         /\ now + timeout[c] \in Nat /\ Deadline(c) \in Nat
  <1>1. timeout[c] \in Timeouts /\ Timeouts \subseteq Nat
    BY TimeAssumption DEF TypeOK
  <1>2. timeout[c] \in Nat
    BY <1>1
  <1>3. now \in Nat
    BY TimeAssumption DEF TypeOK
  <1>4. began[c] \in 0..now /\ arrived[c] \in 0..now
    BY DEF TypeOK
  <1> QED BY <1>2, <1>3, <1>4 DEF Deadline

(* TYPE CORRECTNESS: at most one handler or command has the loop, and it     *)
(* does not outlive its return.                                              *)
THEOREM TypeCorrect == Spec => []TypeOK
  <1> USE TimeAssumption DEF TypeOK, Kinds, ServerCalls, Running, LoopIsFree, fixed
  <1>1. Init => TypeOK
    BY DEF Init
  <1>2. TypeOK /\ [Next]_vars => TypeOK'
    <2> SUFFICES ASSUME TypeOK, [Next]_vars PROVE TypeOK'
      OBVIOUS
    <2>1. ASSUME NEW c \in Calls, WaitForClient(c) PROVE TypeOK'
      <3>1. now + timeout[c] \in Nat
        BY TimesAreNat
      <3>2. Running' = Running
        BY <2>1 DEF WaitForClient, Begin
      <3> QED BY <2>1, <3>1, <3>2 DEF WaitForClient, Begin
    <2>2. ASSUME NEW c \in Calls, NEW d \in Durations, RunHandler(c, d) \/ RunCommand(c, d)
          PROVE  TypeOK'
      <3>1. now + TimeTaken(c, d) \in Nat /\ now <= now + TimeTaken(c, d)
        BY TimeTakenType
      <3>4. now + timeout[c] \in Nat
        BY TimesAreNat
      <3>2. returns'[c] = now + TimeTaken(c, d) /\ state'[c] = "running" /\ kind[c] # "client"
        BY <2>2 DEF RunHandler, RunCommand, Begin
      <3>3. Running' = {c}
        BY <2>2 DEF RunHandler, RunCommand, Begin
      <3>5. timer' \in [Calls -> Nat] /\ returns' \in [Calls -> Nat]
        BY <2>2, <3>1, <3>4 DEF RunHandler, RunCommand
      <3>6. UNCHANGED <<now, kind, timeout, answer, arrived>>
        BY <2>2 DEF RunHandler, RunCommand
      <3>7. /\ began' \in [Calls -> 0..now]
            /\ state' \in [Calls -> {"ready", "running", "waiting", "succeeded", "failed", "timed_out"}]
        BY <2>2 DEF RunHandler, RunCommand, Begin
      <3> QED BY <3>1, <3>2, <3>3, <3>5, <3>6, <3>7
    <2>3. ASSUME NEW c \in Calls, RefuseTool(c) PROVE TypeOK'
      BY <2>3 DEF RefuseTool, Begin
    <2>4. ASSUME NEW c \in Calls, HandlerReturns(c) PROVE TypeOK'
      BY <2>4 DEF HandlerReturns
    <2>5. ASSUME NEW c \in Calls, Answer(c) PROVE TypeOK'
      BY <2>5 DEF Answer
    <2>6. ASSUME NEW c \in Calls, Submit(c) PROVE TypeOK'
      BY <2>6 DEF Submit
    <2>7. CASE Iterate
      BY <2>7 DEF Iterate, Expired, Arrived
    <2>8. CASE Tick
      <3>1. now' = now + 1 /\ now < MaxTime /\ Running' = Running
        BY <2>8 DEF Tick
      <3>2. \A c \in Running : now < returns[c]
        BY <2>8 DEF Tick
      <3>3. 0..now \subseteq 0..(now + 1)
        OBVIOUS
      <3>4. \A c \in Running' : now' <= returns'[c] /\ c \in ServerCalls'
        BY <2>8, <3>1, <3>2 DEF Tick
      <3> QED BY <2>8, <3>1, <3>3, <3>4 DEF Tick
    <2>9. CASE Rest \/ UNCHANGED vars
      BY <2>9 DEF Rest, vars
    <2> QED BY <2>1, <2>2, <2>3, <2>4, <2>5, <2>6, <2>7, <2>8, <2>9 DEF Next, CallStep
  <1> QED BY <1>1, <1>2, PTL DEF Spec

(* A handler that had the loop at a time had it then for ever after.        *)
LEMMA HeldStays ==
  ASSUME TypeOK, AnswersInv, [Next]_vars, NEW t \in Nat, HeldAt(t)
  PROVE  HeldAt(t)'
  <1> USE TimeAssumption DEF TypeOK
  <1>1. PICK s \in ServerCalls : began[s] <= t /\ t < returns[s]
    BY DEF HeldAt
  <1>2. state[s] # "ready"
    BY <1>1 DEF AnswersInv, ServerCalls
  <1> DEFINE Kept == began'[s] = began[s] /\ returns'[s] = returns[s] /\ kind' = kind
  <1>3. Kept
    <2>1. ASSUME NEW c \in Calls, NEW to, Begin(c, to) PROVE began'[s] = began[s] /\ c # s
      BY <1>2, <2>1 DEF Begin, ServerCalls
    <2>2. ASSUME NEW c \in Calls, WaitForClient(c) \/ RefuseTool(c) PROVE Kept
      BY <2>1, <2>2 DEF WaitForClient, RefuseTool, fixed
    <2>3. ASSUME NEW c \in Calls, NEW d \in Durations, RunHandler(c, d) \/ RunCommand(c, d)
          PROVE  Kept
      BY <2>1, <2>3 DEF RunHandler, RunCommand, fixed, ServerCalls
    <2>4. ASSUME NEW c \in Calls, HandlerReturns(c) \/ Answer(c) \/ Submit(c) PROVE Kept
      BY <2>4 DEF HandlerReturns, Answer, Submit, fixed
    <2>5. CASE Iterate \/ Tick \/ Rest \/ UNCHANGED vars
      BY <2>5 DEF Iterate, Tick, Rest, vars, fixed
    <2> QED BY <2>2, <2>3, <2>4, <2>5 DEF Next, CallStep
  <1> QED BY <1>1, <1>3 DEF HeldAt, ServerCalls

(* The answers of one call, kept by a step that does not touch the call. *)
CallInv(c) ==
    /\ state[c] = "ready" => answer[c] = "none" /\ returns[c] = 0
    /\ state[c] = "waiting" => /\ answer[c] # "handled"
                               /\ timer[c] = Deadline(c)
    /\ state[c] = "waiting" /\ answer[c] # "none" =>
          \A t \in arrived[c]..(now - 1) : HeldAt(t)
    /\ state[c] = "timed_out" => Deadline(c) <= now

(* A call none of whose variables change in a step, at the same time. *)
Untouched(e) ==
    /\ state'[e] = state[e] /\ answer'[e] = answer[e] /\ returns'[e] = returns[e]
    /\ timer'[e] = timer[e] /\ arrived'[e] = arrived[e] /\ began'[e] = began[e]
    /\ timeout' = timeout /\ now' = now

(* What holds of a call holds of it still after a step of another call.     *)
LEMMA UntouchedStays ==
  ASSUME TypeOK, AnswersInv, [Next]_vars, NEW e \in Calls, Untouched(e)
  PROVE  CallInv(e)'
  <1>1. CallInv(e)
    BY DEF AnswersInv, CallInv
  <1>2. Deadline(e)' = Deadline(e)
    BY DEF Untouched, Deadline
  <1>3. \A t \in arrived[e]..(now - 1) : t \in Nat /\ (HeldAt(t) => HeldAt(t)')
    BY HeldStays DEF TypeOK
  <1> QED BY <1>1, <1>2, <1>3 DEF CallInv, Untouched

(* AN UNHANDLED ANSWER MEANS A HELD LOOP: while an answer lies unhandled for *)
(* a call that waits, handlers of server tools and commands of the terminal  *)
(* have had the loop ever since it arrived.                                  *)
THEOREM AnswersInvariant == Spec => []AnswersInv
  <1>1. Init => AnswersInv
    BY DEF Init, AnswersInv
  <1>2. TypeOK /\ TypeOK' /\ AnswersInv /\ [Next]_vars => AnswersInv'
    <2> SUFFICES ASSUME TypeOK, TypeOK', AnswersInv, [Next]_vars, NEW e \in Calls
                 PROVE  CallInv(e)'
      BY DEF AnswersInv, CallInv
    <2> USE TimeAssumption
    <2>0. CallInv(e)
      BY DEF AnswersInv, CallInv
    <2>1. ASSUME NEW c \in Calls, WaitForClient(c) PROVE CallInv(e)'
      <3>1. CASE e = c
        BY <2>0, <2>1, <3>1 DEF WaitForClient, Begin, CallInv, Deadline, TypeOK, fixed
      <3>2. CASE e # c
        BY <2>1, <3>2, UntouchedStays DEF WaitForClient, Begin, Untouched, TypeOK, fixed
      <3> QED BY <3>1, <3>2
    <2>2. ASSUME NEW c \in Calls, NEW d \in Durations, RunHandler(c, d) \/ RunCommand(c, d)
          PROVE  CallInv(e)'
      <3>1. CASE e = c
        BY <2>2, <3>1 DEF RunHandler, RunCommand, Begin, CallInv, TypeOK
      <3>2. CASE e # c
        BY <2>2, <3>2, UntouchedStays DEF RunHandler, RunCommand, Begin, Untouched, TypeOK, fixed
      <3> QED BY <3>1, <3>2
    <2>3. ASSUME NEW c \in Calls, RefuseTool(c) PROVE CallInv(e)'
      <3>1. CASE e = c
        BY <2>3, <3>1 DEF RefuseTool, Begin, CallInv, TypeOK
      <3>2. CASE e # c
        BY <2>3, <3>2, UntouchedStays DEF RefuseTool, Begin, Untouched, TypeOK, fixed
      <3> QED BY <3>1, <3>2
    <2>4. ASSUME NEW c \in Calls, HandlerReturns(c) PROVE CallInv(e)'
      <3>1. CASE e = c
        BY <2>4, <3>1 DEF HandlerReturns, CallInv, TypeOK
      <3>2. CASE e # c
        BY <2>4, <3>2, UntouchedStays DEF HandlerReturns, Untouched, TypeOK, fixed
      <3> QED BY <3>1, <3>2
    <2>5. ASSUME NEW c \in Calls, Answer(c) PROVE CallInv(e)'
      <3>1. CASE e = c
        <4>1. arrived'[c]..(now' - 1) = {}
          BY <2>5 DEF Answer, TypeOK
        <4>2. Deadline(c)' = Deadline(c)
          BY <2>5 DEF Answer, Deadline, fixed
        <4> QED BY <2>0, <2>5, <3>1, <4>1, <4>2 DEF Answer, CallInv, TypeOK
      <3>2. CASE e # c
        BY <2>5, <3>2, UntouchedStays DEF Answer, Untouched, TypeOK, fixed
      <3> QED BY <3>1, <3>2
    <2>6. ASSUME NEW c \in Calls, Submit(c) PROVE CallInv(e)'
      <3>1. CASE e = c
        <4>1. Deadline(c)' = Deadline(c)
          BY <2>6 DEF Submit, Deadline, fixed
        <4> QED BY <2>0, <2>6, <3>1, <4>1 DEF Submit, CallInv, TypeOK
      <3>2. CASE e # c
        BY <2>6, <3>2, UntouchedStays DEF Submit, Untouched, TypeOK, fixed
      <3> QED BY <3>1, <3>2
    <2>7. CASE Iterate
      <3>1. Deadline(e)' = Deadline(e) /\ now' = now /\ arrived' = arrived
        BY <2>7 DEF Iterate, Deadline, fixed
      <3>2. \A t \in arrived[e]..(now - 1) : t \in Nat /\ (HeldAt(t) => HeldAt(t)')
        BY HeldStays DEF TypeOK
      <3>3. /\ answer'[e] = IF answer[e] = "arrived" THEN "read" ELSE answer[e]
            /\ state'[e] = IF state[e] = "waiting" /\ timer[e] <= now THEN "timed_out" ELSE state[e]
            /\ timer' = timer /\ returns' = returns
        BY <2>7 DEF Iterate, Arrived, Expired
      <3> QED BY <2>0, <3>1, <3>2, <3>3 DEF CallInv
    <2>8. CASE Tick
      <3>1. /\ Deadline(e)' = Deadline(e) /\ now' = now + 1
            /\ state' = state /\ timer' = timer /\ returns' = returns
            /\ answer' = answer /\ arrived' = arrived
        BY <2>8 DEF Tick, Deadline, fixed
      <3>2. \A t \in arrived[e]..(now - 1) : t \in Nat /\ (HeldAt(t) => HeldAt(t)')
        BY HeldStays DEF TypeOK
      <3>3. ASSUME state[e] = "waiting", answer[e] # "none", NEW t \in Nat, t = now
            PROVE  HeldAt(t)'
        <4>1. ~LoopIsFree
          BY <2>0, <2>8, <3>3 DEF Tick, NothingToDo, Arrived, CallInv, TypeOK
        <4>2. PICK s \in Running : s \in ServerCalls /\ now < returns[s]
          BY <2>8, <4>1 DEF Tick, LoopIsFree, TypeOK
        <4>3. began[s] <= t /\ t < returns[s]
          BY <3>3, <4>2 DEF TypeOK, Running
        <4>4. HeldAt(t)
          BY <4>2, <4>3 DEF HeldAt
        <4> QED BY <4>4, HeldStays
      <3>4. now \in Nat /\ arrived[e] \in Nat /\ Deadline(e) \in Nat
        BY TimesAreNat
      <3>5. /\ now + 1 - 1 = now
            /\ \A t \in arrived[e]..now : t = now \/ t \in arrived[e]..(now - 1)
            /\ Deadline(e) <= now => Deadline(e) <= now + 1
        BY <3>4
      <3>6. /\ (state[e] = "ready" => answer[e] = "none" /\ returns[e] = 0)'
            /\ (state[e] = "waiting" => answer[e] # "handled" /\ timer[e] = Deadline(e))'
            /\ (state[e] = "timed_out" => Deadline(e) <= now)'
        BY <2>0, <3>1, <3>5 DEF CallInv
      <3>7. ASSUME (state[e] = "waiting" /\ answer[e] # "none")', NEW t \in arrived'[e]..(now' - 1)
            PROVE  HeldAt(t)'
        <4>1. state[e] = "waiting" /\ answer[e] # "none" /\ t \in arrived[e]..now
          <5>1. t \in arrived[e]..(now + 1 - 1)
            BY <3>1, <3>4, <3>7
          <5> QED BY <3>1, <3>5, <3>7, <5>1
        <4>2. CASE t = now
          BY <3>3, <3>4, <4>1, <4>2
        <4>3. CASE t \in arrived[e]..(now - 1)
          BY <2>0, <3>2, <4>1, <4>3 DEF CallInv
        <4> QED BY <3>5, <4>1, <4>2, <4>3
      <3> QED BY <3>6, <3>7 DEF CallInv
    <2>9. CASE Rest \/ UNCHANGED vars
      BY <2>9, UntouchedStays DEF Rest, vars, Untouched
    <2> QED BY <2>1, <2>2, <2>3, <2>4, <2>5, <2>6, <2>7, <2>8, <2>9 DEF Next, CallStep
  <1> QED BY <1>1, <1>2, TypeCorrect, PTL DEF Spec

(* AN ANSWER IN TIME IS LOST ONLY TO HANDLERS: a call that timed out with an *)
(* answer sent before its deadline did so because server tools, or commands  *)
(* of the terminal (terminal_exec()), had the loop without a break from the  *)
(* arrival of the answer to the deadline.                                    *)
THEOREM LossNeedsHandler == Spec => []LostOnlyToHandlers
  <1>1. Init => LostOnlyToHandlers
    BY DEF Init, LostOnlyToHandlers
  <1>2. TypeOK /\ AnswersInv /\ LostOnlyToHandlers /\ [Next]_vars => LostOnlyToHandlers'
    <2> SUFFICES ASSUME TypeOK, AnswersInv, LostOnlyToHandlers, [Next]_vars, NEW e \in Calls,
                        (state[e] = "timed_out" /\ answer[e] # "none")'
                 PROVE  (\A t \in arrived[e]..(Deadline(e) - 1) : HeldAt(t))'
      BY DEF LostOnlyToHandlers
    <2> USE TimeAssumption
    <2> DEFINE Before == arrived[e]..(Deadline(e) - 1)
               After  == arrived'[e]..(Deadline(e)' - 1)
    <2>1. CASE Iterate /\ state[e] = "waiting"
      <3>1. answer[e] # "none" /\ timer[e] <= now
        BY <2>1 DEF Iterate, Arrived, Expired, TypeOK
      <3>2. Deadline(e) <= now /\ \A t \in arrived[e]..(now - 1) : HeldAt(t)
        BY <2>1, <3>1 DEF AnswersInv
      <3>3. After = Before
        BY <2>1 DEF Iterate, Deadline, fixed
      <3>4. \A t \in Before : t \in Nat /\ t \in arrived[e]..(now - 1)
        BY <3>2, TimesAreNat
      <3> QED BY <3>2, <3>3, <3>4, HeldStays
    <2>2. CASE \E c \in Calls : Answer(c) /\ c = e
      <3>1. state[e] = "timed_out" /\ arrived'[e] = now /\ Deadline(e)' = Deadline(e)
        BY <2>2 DEF Answer, TypeOK, Deadline, fixed
      <3>2. Deadline(e) <= now
        BY <3>1 DEF AnswersInv
      <3>3. After = {}
        BY <3>1, <3>2, TimesAreNat
      <3> QED BY <3>3
    <2>3. CASE ~(Iterate /\ state[e] = "waiting") /\ ~(\E c \in Calls : Answer(c) /\ c = e)
      <3>1. /\ state[e] = "timed_out" /\ answer[e] # "none"
            /\ arrived'[e] = arrived[e] /\ began'[e] = began[e] /\ timeout' = timeout
        <4> DEFINE Same == /\ state[e] = "timed_out" /\ answer[e] # "none"
                           /\ arrived'[e] = arrived[e] /\ began'[e] = began[e]
                           /\ timeout' = timeout
        <4>1. ASSUME NEW c \in Calls, NEW d \in Durations,
                     WaitForClient(c) \/ RunHandler(c, d) \/ RunCommand(c, d) \/ RefuseTool(c)
              PROVE  Same
          BY <4>1 DEF WaitForClient, RunHandler, RunCommand, RefuseTool, Begin, TypeOK, fixed
        <4>2. ASSUME NEW c \in Calls, WaitForClient(c) \/ RefuseTool(c) PROVE Same
          BY <4>2 DEF WaitForClient, RefuseTool, Begin, TypeOK, fixed
        <4>3. ASSUME NEW c \in Calls, HandlerReturns(c) \/ Submit(c) PROVE Same
          BY <4>3 DEF HandlerReturns, Submit, TypeOK, fixed, AnswersInv
        <4>4. ASSUME NEW c \in Calls, Answer(c) PROVE Same
          BY <2>3, <4>4 DEF Answer, TypeOK, fixed
        <4>5. CASE Iterate
          BY <2>3, <4>5 DEF Iterate, Arrived, Expired, TypeOK, fixed
        <4>6. CASE Tick \/ Rest \/ UNCHANGED vars
          BY <4>6 DEF Tick, Rest, vars, fixed
        <4> QED BY <4>1, <4>2, <4>3, <4>4, <4>5, <4>6 DEF Next, CallStep
      <3>2. After = Before /\ \A t \in Before : HeldAt(t)
        BY <3>1 DEF Deadline, LostOnlyToHandlers
      <3>3. \A t \in Before : t \in Nat
        BY TimesAreNat
      <3> QED BY <3>2, <3>3, HeldStays
    <2> QED BY <2>1, <2>2, <2>3
  <1> QED BY <1>1, <1>2, TypeCorrect, AnswersInvariant, PTL DEF Spec

-----------------------------------------------------------------------------
(* How late a timer may fire. *)

(* The server tools and commands that have had their turn. *)
Ended == {s \in ServerCalls : state[s] \notin {"ready", "running"}}

Latest(c) == Deadline(c) + HandlerLimit * Cardinality(Ended)

(* With the loop free a call that waits is past its deadline by the turns   *)
(* taken so far at most; the turn in progress began no later.               *)
LateInv ==
    (\A s \in Calls : kind[s] # "unbounded") =>
        /\ \A s \in Running : returns[s] <= began[s] + HandlerLimit
        /\ \A c \in Calls : state[c] = "waiting" =>
               /\ LoopIsFree => now <= Latest(c)
               /\ \A s \in Running : began[s] <= Latest(c)

LEMMA ProductGrows ==
  ASSUME NEW h \in Nat, NEW a \in Nat, NEW b \in Nat, a <= b
  PROVE  h * a <= h * b /\ h * (a + 1) = h * a + h /\ h * a \in Nat
  <1>1. PICK d \in Nat : b = a + d
    <2>1. b - a \in Nat /\ b = a + (b - a)
      OBVIOUS
    <2> QED BY <2>1
  <1>2. h * b = h * a + h * d
    BY <1>1
  <1>3. h * a \in Nat /\ h * d \in Nat
    OBVIOUS
  <1> QED BY <1>2, <1>3

(* The turns taken are finitely many. *)
LEMMA EndedIsFinite ==
  /\ IsFiniteSet(ServerCalls) /\ IsFiniteSet(Ended)
  /\ Cardinality(ServerCalls) \in Nat /\ Cardinality(Ended) \in Nat
  /\ Cardinality(Ended) <= Cardinality(ServerCalls)
  <1>1. ServerCalls \subseteq Calls /\ Ended \subseteq ServerCalls
    BY DEF ServerCalls, Ended
  <1> QED BY <1>1, TimeAssumption, FS_Subset, FS_CardinalityType

(* A turn that is over raises what the others are allowed. *)
LEMMA LatestGrows ==
  ASSUME TypeOK, TypeOK', NEW c \in Calls, Ended \subseteq Ended', Deadline(c)' = Deadline(c)
  PROVE  /\ Latest(c) \in Nat /\ Latest(c)' \in Nat
         /\ Latest(c) <= Latest(c)'
         /\ \A s \in Ended' \ Ended : Latest(c) + HandlerLimit <= Latest(c)'
  <1> DEFINE a == Cardinality(Ended)
             b == Cardinality(Ended')
  <1>1. IsFiniteSet(Ended') /\ b \in Nat
    <2>1. Ended' \subseteq Calls
      BY DEF Ended, ServerCalls
    <2> QED BY <2>1, TimeAssumption, FS_Subset, FS_CardinalityType
  <1>2. IsFiniteSet(Ended) /\ a \in Nat
    BY EndedIsFinite
  <1>3. a <= b
    BY <1>1, FS_Subset
  <1>4. ASSUME NEW s \in Ended' \ Ended PROVE a + 1 <= b
    <2>1. Cardinality(Ended \cup {s}) = a + 1
      BY <1>2, <1>4, FS_AddElement
    <2>2. Ended \cup {s} \subseteq Ended'
      BY <1>4
    <2> QED BY <1>1, <2>1, <2>2, FS_Subset
  <1>5. Deadline(c) \in Nat /\ HandlerLimit \in Nat
    BY TimesAreNat, TimeAssumption
  <1> HIDE DEF a, b
  <1>6. /\ HandlerLimit * a <= HandlerLimit * b
        /\ HandlerLimit * (a + 1) = HandlerLimit * a + HandlerLimit
        /\ HandlerLimit * a \in Nat /\ HandlerLimit * b \in Nat
    BY <1>1, <1>2, <1>3, <1>5, ProductGrows
  <1>7. ASSUME NEW s \in Ended' \ Ended
        PROVE  HandlerLimit * a + HandlerLimit <= HandlerLimit * b
    BY <1>1, <1>2, <1>4, <1>5, <1>6, <1>7, ProductGrows
  <1>8. /\ Latest(c) = Deadline(c) + HandlerLimit * a
        /\ Latest(c)' = Deadline(c) + HandlerLimit * b
    BY DEF Latest, a, b
  <1> QED BY <1>5, <1>6, <1>7, <1>8

(* TIMEOUTS ARE LATE BY THE LIMITS AT MOST: when every server tool has a     *)
(* limit of its own, as every command of the terminal has, a call waits no   *)
(* longer past its timeout_seconds than those limits add up to               *)
(* (_wait_for_tool_result(); shell_exec.py; terminal_exec()).                *)
THEOREM LatenessBounded == Spec => []LatenessIsBounded
  <1>1. Init => LateInv
    BY DEF Init, LateInv, Running
  <1>2. ASSUME TypeOK, TypeOK', AnswersInv, LateInv, [Next]_vars,
               \A s \in Calls : kind'[s] # "unbounded"
        PROVE  LateInv'
    <2>1. kind' = kind /\ \A s \in Calls : kind[s] # "unbounded"
      BY <1>2 DEF Next, CallStep, WaitForClient, RunHandler, RunCommand, RefuseTool, HandlerReturns,
         Answer, Submit, Iterate, Tick, Rest, vars, fixed
    <2>2. /\ \A s \in Running : returns[s] <= began[s] + HandlerLimit
          /\ \A c \in Calls : state[c] = "waiting" =>
                 /\ LoopIsFree => now <= Latest(c)
                 /\ \A s \in Running : began[s] <= Latest(c)
      BY <1>2, <2>1 DEF LateInv
    <2> DEFINE Kept(c) == state[c] = "waiting" /\ Deadline(c)' = Deadline(c)
               Goal == /\ \A s \in Running' : returns'[s] <= began'[s] + HandlerLimit
                       /\ \A c \in Calls : state'[c] = "waiting" =>
                              /\ LoopIsFree' => now' <= Latest(c)'
                              /\ \A s \in Running' : began'[s] <= Latest(c)'
    <2> SUFFICES Goal
      BY DEF LateInv
    <2>3. ASSUME NEW c \in Calls, WaitForClient(c) PROVE Goal
      <3>1. Running' = {} /\ Running = {} /\ now' = now /\ LoopIsFree
        BY <2>3 DEF WaitForClient, Begin, LoopIsFree, Running
      <3>2. Ended \subseteq Ended'
        BY <1>2, <2>3 DEF WaitForClient, Begin, Ended, ServerCalls, TypeOK, fixed
      <3>3. ASSUME NEW e \in Calls, state'[e] = "waiting" PROVE now <= Latest(e)'
        <4>1. CASE e = c
          <5>1. Deadline(e)' = now + timeout[e]
            BY <1>2, <2>3, <4>1 DEF WaitForClient, Begin, Deadline, TypeOK, fixed
          <5>2. Cardinality(Ended') \in Nat
            <6>1. Ended' \subseteq Calls
              BY DEF Ended, ServerCalls
            <6> QED BY <6>1, TimeAssumption, FS_Subset, FS_CardinalityType
          <5>3. HandlerLimit * Cardinality(Ended') \in Nat
            BY <5>2, TimeAssumption, ProductGrows
          <5> QED BY <1>2, <5>1, <5>3, TimesAreNat DEF Latest
        <4>2. CASE e # c
          <5>1. Kept(e)
            BY <1>2, <2>3, <3>3, <4>2 DEF WaitForClient, Begin, Deadline, TypeOK, fixed
          <5>2. now <= Latest(e) /\ Latest(e) <= Latest(e)' /\ Latest(e) \in Nat /\ Latest(e)' \in Nat
            BY <1>2, <2>2, <3>1, <3>2, <5>1, LatestGrows
          <5> QED BY <1>2, <5>2, TimesAreNat
        <4> QED BY <4>1, <4>2
      <3> QED BY <3>1, <3>3
    <2>4. ASSUME NEW c \in Calls, NEW d \in Durations, RunHandler(c, d) \/ RunCommand(c, d)
          PROVE  Goal
      <3>1. Running' = {c} /\ now' = now /\ LoopIsFree
        BY <1>2, <2>4 DEF RunHandler, RunCommand, Begin, LoopIsFree, Running, TypeOK
      <3>2. Ended \subseteq Ended'
        BY <1>2, <2>4 DEF RunHandler, RunCommand, Begin, Ended, ServerCalls, TypeOK, fixed
      <3>3. began'[c] = now /\ returns'[c] = now + TimeTaken(c, d)
        BY <1>2, <2>4 DEF RunHandler, RunCommand, Begin, TypeOK
      <3>4. TimeTaken(c, d) <= HandlerLimit
        <4>1. kind[c] \in {"bounded", "terminal"}
          BY <1>2, <2>1, <2>4 DEF RunHandler, RunCommand, TypeOK, Kinds
        <4> QED BY <4>1, TimeAssumption DEF TimeTaken
      <3>5. returns'[c] <= began'[c] + HandlerLimit
        BY <1>2, <3>3, <3>4, TimeTakenType, TimesAreNat, TimeAssumption
      <3>6. ASSUME NEW e \in Calls, state'[e] = "waiting" PROVE now <= Latest(e)'
        <4>1. Kept(e)
          BY <1>2, <2>4, <3>6 DEF RunHandler, RunCommand, Begin, Deadline, TypeOK, fixed
        <4>2. now <= Latest(e) /\ Latest(e) <= Latest(e)' /\ Latest(e) \in Nat /\ Latest(e)' \in Nat
          BY <1>2, <2>2, <3>1, <3>2, <4>1, LatestGrows
        <4> QED BY <1>2, <4>2, TimesAreNat
      <3>7. ~LoopIsFree'
        BY <3>1 DEF LoopIsFree
      <3> QED BY <3>1, <3>3, <3>5, <3>6, <3>7
    <2>5. ASSUME NEW c \in Calls, HandlerReturns(c) PROVE Goal
      <3>1. /\ c \in Running /\ Running' = {} /\ now' = now /\ now = returns[c]
            /\ c \in ServerCalls /\ c \notin Ended
        BY <1>2, <2>5 DEF HandlerReturns, Running, TypeOK, Ended
      <3>2. Ended \subseteq Ended' /\ c \in Ended'
        BY <1>2, <2>5, <3>1 DEF HandlerReturns, Ended, ServerCalls, TypeOK, fixed
      <3>3. ASSUME NEW e \in Calls, state'[e] = "waiting" PROVE now <= Latest(e)'
        <4>1. Kept(e)
          BY <1>2, <2>5, <3>3 DEF HandlerReturns, Deadline, TypeOK, fixed
        <4>2. /\ Latest(e) + HandlerLimit <= Latest(e)' /\ Latest(e) \in Nat /\ Latest(e)' \in Nat
          BY <1>2, <3>1, <3>2, <4>1, LatestGrows
        <4>3. began[c] <= Latest(e) /\ returns[c] <= began[c] + HandlerLimit
          BY <2>2, <3>1, <4>1
        <4>4. began[c] \in Nat /\ now \in Nat /\ HandlerLimit \in Nat
          BY <1>2, TimesAreNat, TimeAssumption
        <4> QED BY <3>1, <4>2, <4>3, <4>4
      <3> QED BY <3>1, <3>3
    <2>6. CASE Tick
      <3>1. /\ now' = now + 1 /\ Running' = Running /\ Ended' = Ended
            /\ UNCHANGED <<state, began, returns, timer>>
            /\ \A e \in Calls : Deadline(e)' = Deadline(e) /\ Latest(e)' = Latest(e)
        BY <2>6 DEF Tick, Running, Ended, ServerCalls, Deadline, Latest, fixed
      <3>2. ASSUME NEW e \in Calls, state'[e] = "waiting", LoopIsFree' PROVE now' <= Latest(e)'
        <4>1. LoopIsFree /\ state[e] = "waiting"
          BY <3>1, <3>2 DEF LoopIsFree
        <4>2. e \notin Expired
          BY <2>6, <4>1 DEF Tick, NothingToDo
        <4>3. ~(Deadline(e) <= now)
          BY <1>2, <4>1, <4>2 DEF Expired, AnswersInv
        <4>4. HandlerLimit * Cardinality(Ended) \in Nat
          BY EndedIsFinite, TimeAssumption, ProductGrows
        <4>5. now + 1 <= Deadline(e)
          BY <1>2, <4>3, TimesAreNat
        <4>6. now + 1 <= Latest(e)
          BY <1>2, <4>4, <4>5, TimesAreNat DEF Latest
        <4> QED BY <3>1, <4>6
      <3> QED BY <2>2, <3>1, <3>2
    <2>7. CASE \/ \E c \in Calls : RefuseTool(c) \/ Answer(c) \/ Submit(c)
               \/ Iterate \/ Rest \/ UNCHANGED vars
      <3>1. /\ now' = now /\ UNCHANGED returns
            /\ Running' = Running /\ (\A s \in Running : began'[s] = began[s])
        BY <1>2, <2>7 DEF RefuseTool, Begin, Answer, Submit, Iterate, Rest, vars, Running, TypeOK,
           Expired
      <3>2. Ended \subseteq Ended'
        BY <1>2, <2>1, <2>7 DEF RefuseTool, Begin, Answer, Submit, Iterate, Rest, vars, Ended,
           ServerCalls, TypeOK, Expired
      <3>3. ASSUME NEW e \in Calls, state'[e] = "waiting" PROVE Kept(e)
        BY <1>2, <2>7, <3>3 DEF RefuseTool, Begin, Answer, Submit, Iterate, Rest, vars, Deadline,
           TypeOK, Expired, fixed
      <3>4. ASSUME NEW e \in Calls, state'[e] = "waiting"
            PROVE  /\ LoopIsFree' => now' <= Latest(e)'
                   /\ \A s \in Running' : began'[s] <= Latest(e)'
        <4>1. Latest(e) <= Latest(e)' /\ Latest(e) \in Nat /\ Latest(e)' \in Nat
          BY <1>2, <3>2, <3>3, <3>4, LatestGrows
        <4>2. \A s \in Running : began[s] \in Nat /\ s \in Calls
          BY <1>2, TimesAreNat DEF Running
        <4>3. now \in Nat
          BY <1>2, TimesAreNat
        <4>4. /\ LoopIsFree => now <= Latest(e)
              /\ \A s \in Running : began[s] <= Latest(e)
          BY <2>2, <3>3, <3>4
        <4>5. LoopIsFree' = LoopIsFree
          BY <3>1 DEF LoopIsFree
        <4> QED BY <3>1, <4>1, <4>2, <4>3, <4>4, <4>5
      <3> QED BY <2>2, <3>1, <3>4
    <2> QED BY <1>2, <2>3, <2>4, <2>5, <2>6, <2>7 DEF Next, CallStep
  <1>3. ASSUME TypeOK, LateInv PROVE LatenessIsBounded
    <2> SUFFICES ASSUME NEW c \in Calls, state[c] = "waiting", \A s \in Calls : kind[s] # "unbounded"
                 PROVE  now <= Deadline(c) + HandlerLimit * Cardinality(ServerCalls)
      BY DEF LatenessIsBounded
    <2> DEFINE a == Cardinality(Ended)
               b == Cardinality(ServerCalls)
    <2>1. a \in Nat /\ b \in Nat /\ a <= b /\ now \in Nat /\ Deadline(c) \in Nat /\ HandlerLimit \in Nat
      BY <1>3, EndedIsFinite, TimesAreNat, TimeAssumption
    <2>2. CASE LoopIsFree
      <3>1. now <= Deadline(c) + HandlerLimit * a
        BY <1>3, <2>2 DEF LateInv, Latest
      <3> HIDE DEF a, b
      <3>2. HandlerLimit * a <= HandlerLimit * b /\ HandlerLimit * a \in Nat /\ HandlerLimit * b \in Nat
        BY <2>1, ProductGrows
      <3>3. now <= Deadline(c) + HandlerLimit * b
        BY <2>1, <3>1, <3>2
      <3> QED BY <3>3 DEF b
    <2>3. CASE ~LoopIsFree
      <3>1. PICK s \in Running : s \in ServerCalls /\ now <= returns[s] /\ s \notin Ended
        BY <1>3, <2>3 DEF LoopIsFree, TypeOK, Running, Ended
      <3>2. returns[s] <= began[s] + HandlerLimit /\ began[s] <= Deadline(c) + HandlerLimit * a
        BY <1>3 DEF LateInv, Latest
      <3>3. began[s] \in Nat /\ returns[s] \in Nat
        BY <1>3, TimesAreNat DEF Running, TypeOK
      <3>4. a + 1 <= b
        <4>1. Cardinality(Ended \cup {s}) = a + 1
          BY <3>1, EndedIsFinite, FS_AddElement
        <4>2. Ended \cup {s} \subseteq ServerCalls
          BY <3>1 DEF Ended
        <4> QED BY <4>1, <4>2, EndedIsFinite, FS_Subset
      <3> HIDE DEF a, b
      <3>5. /\ HandlerLimit * (a + 1) <= HandlerLimit * b
            /\ HandlerLimit * (a + 1) = HandlerLimit * a + HandlerLimit
            /\ HandlerLimit * a \in Nat /\ HandlerLimit * b \in Nat
        BY <2>1, <3>4, ProductGrows
      <3>6. now <= Deadline(c) + HandlerLimit * b
        BY <2>1, <3>1, <3>2, <3>3, <3>5
      <3> QED BY <3>6 DEF b
    <2> QED BY <2>2, <2>3
  <1>4. TypeOK /\ TypeOK' /\ AnswersInv /\ LateInv /\ [Next]_vars => LateInv'
    BY <1>2 DEF LateInv
  <1> QED BY <1>1, <1>3, <1>4, TypeCorrect, AnswersInvariant, PTL DEF Spec
===============================================================================
