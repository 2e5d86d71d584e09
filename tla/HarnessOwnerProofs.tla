------------------------- MODULE HarnessOwnerProofs -------------------------
(***************************************************************************)
(* The safety of HarnessOwner, proved for any number of calls, Starts and  *)
(* Closes.                                                                 *)
(*                                                                         *)
(* The properties are not inductive: what h.stopped promises depends on    *)
(* what own() still holds at each stage of its unwinding, and that the     *)
(* channels are closed once depends on which Close won the closed flag.    *)
(* IInv adds both.                                                         *)
(***************************************************************************)
EXTENDS HarnessOwner, TLAPS

\* own() runs from the Start that was let through until it has closed h.stopped.
OwnerLifetime ==
  /\ (owner = "none") <=> ~started
  /\ (requests = "nil") <=> ~started
  /\ stopped <=> owner = "exited"
  /\ (cur # None) <=> owner = "job"

\* What own() still holds at each stage.
Holding ==
  /\ engine = "open" => owner \in {"install", "boot", "serve", "job",
                                   "shutdown", "closeEngine"}
  /\ bridge = "open" => owner \in {"boot", "serve", "job", "shutdown",
                                   "closeEngine", "closeBridge"}
  /\ owner \in {"closeEvents", "closeStopped", "exited"} => base = "cancelled"
  /\ owner \in {"closeStopped", "exited"} => ~eventsOpen
  /\ ~eventsOpen => \/ owner \in {"closeStopped", "exited"}
                    \/ closed /\ ~started

\* The Close that set the flag is the only one that closes a channel.
OneCloser ==
  /\ requests = "closed" => closed
  /\ \A k \in Closes :
       /\ close[k] # "new" => closed
       /\ close[k] = "closeEvents" => ~started /\ eventsOpen
       /\ close[k] = "closeRequests" => requests = "open"
  /\ \A k, l \in Closes :
       /\ close[k] \in {"closeEvents", "closeRequests"}
       /\ close[l] \in {"closeEvents", "closeRequests"}
       => k = l

\* A call that was handed over is running or answered, never both.
Answers ==
  /\ \A c \in Calls : call[c] = "waiting" => cur = c \/ reply[c] # "empty"
  /\ \A c \in Calls :
       reply[c] # "empty" => call[c] \in {"waiting", "done"} /\ cur # c

\* A call was told something when, and only when, it has returned.
Told == \A c \in Calls : outcome[c] = "none" <=> call[c] # "done"

IInv ==
  /\ Told
  /\ TypeOK
  /\ OwnerLifetime
  /\ Holding
  /\ OneCloser
  /\ Answers
  /\ ChannelsClosedOnce
  /\ RunningJobHasOwner

USE DEF flags, channels, world, methods, calls, place, env, notCall, notClose,
        notOwn

LEMMA InitIInv == Init => IInv
<1> SUFFICES ASSUME Init PROVE IInv
  OBVIOUS
<1> USE ConstantsOK DEF Init
<1>1. TypeOK BY DEF TypeOK, OwnerAt, Outcomes, Panics
<1>2. OwnerLifetime BY DEF OwnerLifetime
<1>3. Holding BY DEF Holding
<1>4. OneCloser BY DEF OneCloser
<1>5. Answers BY DEF Answers
<1>6. ChannelsClosedOnce /\ RunningJobHasOwner /\ Told
  BY DEF ChannelsClosedOnce, RunningJobHasOwner, Told
<1>7. QED BY <1>1, <1>2, <1>3, <1>4, <1>5, <1>6 DEF IInv

LEMMA StartKeeps ==
  ASSUME IInv, panic = "none", NEW s \in Starts, StartBegin(s) \/ StartReturn(s)
  PROVE  IInv'
<1> USE ConstantsOK DEF IInv, TypeOK, OwnerLifetime, Holding, OneCloser,
     Told, Answers, ChannelsClosedOnce, RunningJobHasOwner, OwnerAt, Outcomes, Panics
<1>1. CASE StartBegin(s)
  <2>1. CASE Refused  BY <1>1, <2>1 DEF StartBegin
  <2>2. CASE ~Refused
    <3>1. /\ ~closed /\ ~started /\ started' = TRUE
          /\ requests' = "open" /\ owner' = "engine"
          /\ start' = [start EXCEPT ![s] = "waiting"]
          /\ UNCHANGED <<closed, stopped, startErr, eventsOpen, cur, world,
                         close, calls, reply, env, panic>>
      BY <1>1, <2>2 DEF StartBegin, Refused
    <3>2. TypeOK' BY <3>1
    <3>3. OwnerLifetime' /\ Holding' BY <3>1
    <3>4. OneCloser' BY <3>1
    <3>5. Answers' /\ ChannelsClosedOnce' /\ RunningJobHasOwner' /\ Told' BY <3>1
    <3>6. QED BY <3>2, <3>3, <3>4, <3>5
  <2>3. QED BY <2>1, <2>2
<1>2. CASE StartReturn(s)    BY <1>2 DEF StartReturn
<1>3. QED BY <1>1, <1>2

LEMMA CallKeeps ==
  ASSUME IInv, panic = "none", NEW c \in Calls,
         CheckFlags(c) \/ ParkInSend(c) \/ SendOnClosed(c) \/ GiveUp(c) \/ TakeReply(c)
  PROVE  IInv'
<1> USE ConstantsOK DEF IInv, TypeOK, OwnerLifetime, Holding, OneCloser,
     Told, Answers, ChannelsClosedOnce, RunningJobHasOwner, OwnerAt, Outcomes, Panics
<1>1. CASE CheckFlags(c)   BY <1>1 DEF CheckFlags, Return
<1>2. CASE ParkInSend(c)   BY <1>2 DEF ParkInSend
<1>3. CASE SendOnClosed(c)
  <2>1. TypeOK' BY ZenonT(60), <1>3 DEF SendOnClosed
  <2>2. OwnerLifetime' /\ Holding' BY <1>3 DEF SendOnClosed
  <2>3. OneCloser' /\ Answers' /\ Told' BY <1>3 DEF SendOnClosed
  <2>4. ChannelsClosedOnce' /\ RunningJobHasOwner' BY <1>3 DEF SendOnClosed
  <2>5. QED BY <2>1, <2>2, <2>3, <2>4
<1>4. CASE GiveUp(c)       BY <1>4 DEF GiveUp, Return
<1>5. CASE TakeReply(c)    BY <1>5 DEF TakeReply, Return
<1>6. QED BY <1>1, <1>2, <1>3, <1>4, <1>5

\* What a Close does to the calls, the answers and the owner: nothing.
LEMMA CloseLeaves ==
  ASSUME IInv, NEW k \in Closes,
         CloseBegin(k) \/ CloseUnstarted(k) \/ CloseRequests(k) \/ CloseReturn(k)
  PROVE  /\ UNCHANGED notClose
         /\ Answers' /\ RunningJobHasOwner' /\ Told'
<1>1. UNCHANGED notClose
  BY DEF CloseBegin, CloseUnstarted, CloseRequests, CloseReturn
<1>2. QED BY <1>1 DEF IInv, Answers, RunningJobHasOwner, Told

LEMMA CloseKeeps ==
  ASSUME IInv, panic = "none", NEW k \in Closes,
         CloseBegin(k) \/ CloseUnstarted(k) \/ CloseRequests(k) \/ CloseReturn(k)
  PROVE  IInv'
<1>1. UNCHANGED notClose /\ Answers' /\ RunningJobHasOwner' /\ Told'
  BY CloseLeaves
<1>2. CASE CloseBegin(k)
  <2>1. closed' = TRUE /\ UNCHANGED <<started, channels, panic>>
    BY <1>2 DEF CloseBegin
  <2>2. close' \in [Closes -> {"new", "closeEvents", "closeRequests", "waiting",
                              "done", "doneAlready"}]
    BY <1>2 DEF CloseBegin, IInv, TypeOK
  <2>3. TypeOK' BY <1>1, <2>1, <2>2 DEF IInv, TypeOK
  <2>4. OwnerLifetime' /\ Holding' /\ ChannelsClosedOnce'
    BY <1>1, <2>1 DEF IInv, OwnerLifetime, Holding, ChannelsClosedOnce
  <2>5. OneCloser'
    <3>1. CASE closed
      <4>1. close' = [close EXCEPT ![k] = "doneAlready"]
        BY <1>2, <3>1 DEF CloseBegin
      <4>2. QED BY <2>1, <3>1, <4>1 DEF IInv, TypeOK, OneCloser
    <3>2. CASE ~closed
      <4>1. \A l \in Closes : close[l] = "new"
        BY <3>2 DEF IInv, OneCloser
      <4>2. \A l \in Closes : l # k => close'[l] = "new"
        BY <1>2, <4>1 DEF CloseBegin, IInv, TypeOK
      <4>3. close'[k] = IF started THEN "closeRequests" ELSE "closeEvents"
        BY <1>2, <3>2 DEF CloseBegin, IInv, TypeOK
      <4>4. /\ started => requests = "open"
            /\ ~started => eventsOpen
        <5>1. requests # "closed" BY <3>2 DEF IInv, OneCloser
        <5>2. started => requests = "open"
          BY <5>1 DEF IInv, TypeOK, OwnerLifetime
        <5>3. ~started => eventsOpen
          BY <3>2 DEF IInv, TypeOK, OwnerLifetime, Holding
        <5>4. QED BY <5>2, <5>3
      <4>5. QED BY <2>1, <4>2, <4>3, <4>4 DEF IInv, OneCloser
    <3>3. QED BY <3>1, <3>2
  <2>6. QED BY <1>1, <2>3, <2>4, <2>5 DEF IInv
<1>3. CASE CloseUnstarted(k)
  <2>1. close[k] = "closeEvents" /\ closed /\ ~started /\ eventsOpen
    BY <1>3 DEF CloseUnstarted, IInv, OneCloser
  <2>2. /\ eventsOpen' = FALSE
        /\ close' = [close EXCEPT ![k] = "done"]
        /\ UNCHANGED <<flags, requests, stopped, startErr, panic>>
    BY <1>3, <2>1 DEF CloseUnstarted, ShutEvents
  <2>3. TypeOK' BY ZenonT(60), <1>1, <2>2 DEF IInv, TypeOK
  <2>4. OwnerLifetime' /\ Holding' /\ ChannelsClosedOnce'
    BY <1>1, <2>1, <2>2 DEF IInv, OwnerLifetime, Holding, ChannelsClosedOnce
  <2>5. \A l \in Closes : close'[l] = IF l = k THEN "done" ELSE close[l]
    BY <2>2 DEF IInv, TypeOK
  <2>6. OneCloser'
    BY <2>1, <2>2, <2>5 DEF IInv, OneCloser
  <2>7. QED BY <1>1, <2>3, <2>4, <2>6 DEF IInv
<1>4. CASE CloseRequests(k)
  <2>1. close[k] = "closeRequests" /\ closed /\ requests = "open"
    BY <1>4 DEF CloseRequests, IInv, OneCloser
  <2>2. /\ requests' = "closed"
        /\ close' = [close EXCEPT ![k] = "waiting"]
        /\ panic' \in {panic, "send on closed requests"}
        /\ UNCHANGED <<flags, stopped, startErr, eventsOpen>>
    BY <1>4, <2>1 DEF CloseRequests
  <2>3. TypeOK'
    <3>1. panic' \in Panics BY <2>2 DEF IInv, TypeOK, Panics
    <3>2. close' \in [Closes -> {"new", "closeEvents", "closeRequests",
                                "waiting", "done", "doneAlready"}]
      BY <2>2 DEF IInv, TypeOK
    <3>3. QED BY ZenonT(60), <1>1, <2>2, <3>1, <3>2 DEF IInv, TypeOK
  <2>4. OwnerLifetime' /\ Holding' /\ ChannelsClosedOnce'
    BY <1>1, <2>1, <2>2 DEF IInv, OwnerLifetime, Holding, ChannelsClosedOnce
  <2>5. \A l \in Closes : close'[l] = IF l = k THEN "waiting" ELSE close[l]
    BY <2>2 DEF IInv, TypeOK
  <2>6. \A l \in Closes \ {k} : close[l] \notin {"closeEvents", "closeRequests"}
    BY <2>1 DEF IInv, OneCloser
  <2>7. OneCloser'
    <3>1. \A l \in Closes :
            close'[l] \notin {"closeEvents", "closeRequests"}
      BY <2>5, <2>6
    <3>2. \A l \in Closes : close'[l] # "new" => closed'
      BY <2>1, <2>2
    <3>3. QED BY <2>1, <2>2, <3>1, <3>2 DEF OneCloser
  <2>8. QED BY <1>1, <2>3, <2>4, <2>7 DEF IInv
<1>5. CASE CloseReturn(k)
  <2>1. /\ close' = [close EXCEPT ![k] = "done"] /\ close[k] = "waiting"
        /\ UNCHANGED <<flags, channels, panic>>
    BY <1>5 DEF CloseReturn
  <2>2. TypeOK' BY <1>1, <2>1 DEF IInv, TypeOK
  <2>3. OwnerLifetime' /\ Holding' /\ ChannelsClosedOnce'
    BY <1>1, <2>1 DEF IInv, OwnerLifetime, Holding, ChannelsClosedOnce
  <2>4. OneCloser' BY <2>1 DEF IInv, TypeOK, OneCloser
  <2>5. QED BY <1>1, <2>2, <2>3, <2>4 DEF IInv
<1>6. QED BY <1>2, <1>3, <1>4, <1>5

\* The six stages of the unwinding, spelt out.
LEMMA UnwindStages ==
  ASSUME Unwind
  PROVE  /\ owner \in {"shutdown", "closeEngine", "closeBridge", "cancelBase",
                       "closeEvents", "closeStopped"}
         /\ owner = "shutdown" => owner' = "closeEngine"
         /\ owner = "closeEngine" => owner' = "closeBridge"
         /\ owner = "closeBridge" => owner' = "cancelBase"
         /\ owner = "cancelBase" => owner' = "closeEvents"
         /\ owner = "closeEvents" => owner' = "closeStopped"
         /\ owner = "closeStopped" => owner' = "exited"
BY DEF Unwind, Deferred

LEMMA UnwindKeeps ==
  ASSUME IInv, panic = "none", Unwind
  PROVE  IInv'
<1>1. TypeOK'
  <2>1. owner' \in OwnerAt BY UnwindStages DEF OwnerAt
  <2>2. /\ engine' \in {"none", "open", "closed"}
        /\ bridge' \in {"none", "open", "closed"}
        /\ base' \in {"none", "live", "cancelled"}
        /\ stopped' \in BOOLEAN
    BY DEF Unwind, IInv, TypeOK
  <2>3. eventsOpen' \in BOOLEAN /\ panic' \in Panics
    BY DEF Unwind, ShutEvents, IInv, TypeOK, Panics
  <2>4. UNCHANGED <<notOwn, requests, startErr, cur, reply>>
    BY DEF Unwind
  <2>5. QED BY <2>1, <2>2, <2>3, <2>4 DEF IInv, TypeOK
<1>2. OwnerLifetime'
  BY UnwindStages DEF Unwind, IInv, TypeOK, OwnerLifetime
<1>3. Holding'
  <2>1. CASE owner = "closeEvents"
    BY <2>1, UnwindStages DEF Unwind, ShutEvents, IInv, TypeOK, OwnerLifetime, Holding
  <2>2. CASE owner # "closeEvents"
    BY <2>2, UnwindStages DEF Unwind, IInv, TypeOK, OwnerLifetime, Holding
  <2>3. QED BY <2>1, <2>2
<1>4. OneCloser'
  BY UnwindStages DEF Unwind, ShutEvents, IInv, OwnerLifetime, OneCloser
<1>5. Answers'
  BY DEF Unwind, IInv, Answers
<1>6. ChannelsClosedOnce'
  BY UnwindStages DEF Unwind, ShutEvents, IInv, OwnerLifetime, Holding,
     ChannelsClosedOnce
<1>7. RunningJobHasOwner' /\ Told'
  BY DEF Unwind, IInv, RunningJobHasOwner, Told
<1>8. QED BY <1>1, <1>2, <1>3, <1>4, <1>5, <1>6, <1>7 DEF IInv

\* Every step of own().
OwnerStep == NewEngine \/ Install \/ Bootstrap \/ Unwind \/ FinishJob \/ RangeEnds
             \/ \E c \in Calls : Receive(c)

LEMMA OwnerKeeps ==
  ASSUME IInv, panic = "none", OwnerStep
  PROVE  IInv'
<1> USE ConstantsOK DEF IInv, TypeOK, OwnerLifetime, Holding, OneCloser,
     Told, Answers, ChannelsClosedOnce, RunningJobHasOwner, OwnerAt, Outcomes, Panics
<1>1. CASE NewEngine BY <1>1 DEF NewEngine, Verdict
<1>2. CASE Install   BY <1>2 DEF Install, Verdict
<1>3. CASE Bootstrap BY <1>3 DEF Bootstrap, Verdict
<1>4. ASSUME NEW c \in Calls, Receive(c) PROVE IInv'
  BY <1>4 DEF Receive, Parked
<1>5. CASE FinishJob BY <1>5 DEF FinishJob, ReplyRoom, JobReturns, Answer
<1>6. CASE RangeEnds BY <1>6 DEF RangeEnds
<1>7. CASE Unwind    BY <1>7, UnwindKeeps
<1>8. QED BY <1>1, <1>2, <1>3, <1>4, <1>5, <1>6, <1>7 DEF OwnerStep

LEMMA WorldKeeps ==
  ASSUME IInv, panic = "none",
         \/ StartTool
         \/ emit
         \/ \E c \in Calls : ToolReturns(c)
         \/ \E x \in Calls \cup Starts : Cancel(x)
  PROVE  IInv'
<1> USE ConstantsOK DEF IInv, TypeOK, OwnerLifetime, Holding, OneCloser,
     Told, Answers, ChannelsClosedOnce, RunningJobHasOwner, OwnerAt, Outcomes, Panics
<1>1. CASE StartTool BY <1>1 DEF StartTool
<1>2. CASE emit
  <2>1. TypeOK' BY ZenonT(60), <1>2 DEF emit
  <2>2. OwnerLifetime' /\ Holding' BY <1>2 DEF emit
  <2>3. OneCloser' /\ Answers' /\ Told' BY <1>2 DEF emit
  <2>4. ChannelsClosedOnce' /\ RunningJobHasOwner' BY <1>2 DEF emit
  <2>5. QED BY <2>1, <2>2, <2>3, <2>4
<1>3. ASSUME NEW c \in Calls, ToolReturns(c) PROVE IInv' BY <1>3 DEF ToolReturns
<1>4. ASSUME NEW x \in Calls \cup Starts, Cancel(x) PROVE IInv'
  BY <1>4 DEF Cancel
<1>5. QED BY <1>1, <1>2, <1>3, <1>4

\* The inductive invariant holds of every behaviour of own() and its callers.
THEOREM Inductive == Spec => []IInv
<1>1. IInv /\ [Next]_vars => IInv'
  <2>1. CASE UNCHANGED vars
    <3>1. IInv => TypeOK' BY <2>1 DEF vars, IInv, TypeOK
    <3>2. IInv => OwnerLifetime' /\ Holding'
      BY <2>1 DEF vars, IInv, OwnerLifetime, Holding
    <3>3. IInv => OneCloser' /\ Answers'
      BY <2>1 DEF vars, IInv, OneCloser, Told, Answers
    <3>4. IInv => ChannelsClosedOnce' /\ RunningJobHasOwner' /\ Told'
      BY <2>1 DEF vars, IInv, ChannelsClosedOnce, RunningJobHasOwner, Told
    <3>5. QED BY <3>1, <3>2, <3>3, <3>4 DEF IInv
  <2>2. ASSUME IInv, Next, Alive PROVE IInv'
    BY <2>1, <2>2, StartKeeps, CallKeeps, CloseKeeps, OwnerKeeps, WorldKeeps
       DEF Next, Alive, OwnerStep
  <2>3. QED BY <2>1, <2>2 DEF Next, Over, Alive
<1>2. QED BY InitIInv, <1>1, PTL DEF Spec

\* Every variable of the owner keeps its type.
THEOREM TypeCorrect == Spec => []TypeOK
<1>1. IInv => TypeOK BY DEF IInv
<1>2. QED BY Inductive, <1>1, PTL

\* Waiting for h.stopped is waiting for everything own() holds.
THEOREM ReleasedWhenStopped == Spec => []StoppedMeansReleased
<1>1. IInv => StoppedMeansReleased
  BY DEF IInv, TypeOK, OwnerLifetime, Holding, StoppedMeansReleased
<1>2. QED BY Inductive, <1>1, PTL

\* A job own() accepted is answered before own() stops.
THEOREM Drained == Spec => []DrainedBeforeStop
<1>1. IInv => DrainedBeforeStop
  BY ConstantsOK DEF IInv, TypeOK, OwnerLifetime, Answers, DrainedBeforeStop
<1>2. QED BY Inductive, <1>1, PTL

\* No order of Start, Close and own()'s exit closes a channel twice, or sends
\* an event on the closed stream.
THEOREM ClosedOnce == Spec => []ChannelsClosedOnce
<1>1. IInv => ChannelsClosedOnce BY DEF IInv
<1>2. QED BY Inductive, <1>1, PTL

\* A running job's caller is waiting for it, or gave up on its own context.
THEOREM JobHasOwner == Spec => []RunningJobHasOwner
<1>1. IInv => RunningJobHasOwner BY DEF IInv
<1>2. QED BY Inductive, <1>1, PTL

-----------------------------------------------------------------------------
(* The refinement: every step of own() and its callers is a step of        *)
(* SerialJobs or leaves its variables alone.                               *)

jobVars == <<cur, reply, outcome, stopped>>

LEMMA StutterRefines ==
  ASSUME UNCHANGED jobVars
  PROVE  UNCHANGED Jobs!vars
BY DEF jobVars, Jobs!vars, JobOf, AnswerOf

\* A call's answer is changed by returning, and only then.
LEMMA TellRefines ==
  ASSUME IInv, NEW c \in Calls, call[c] # "done",
         NEW o \in Outcomes \ {"none"}, outcome' = [outcome EXCEPT ![c] = o],
         UNCHANGED <<cur, stopped>>,
         \A d \in Calls : JobOf(d)' = JobOf(d),
         NEW a \in {"result", "refused", "abandoned"},
         a = "result" <=> o \in {"ok", "error"},
         a = "abandoned" <=> o = "ctx",
         a = "result" => JobOf(c) = "done",
         a = "refused" => JobOf(c) # "running"
  PROVE  Jobs!Tell(c, a)
<1>1. outcome[c] = "none" BY DEF IInv, Told
<1>2. \A d \in Calls : AnswerOf(d)' = IF d = c THEN a ELSE AnswerOf(d)
  BY DEF IInv, TypeOK, AnswerOf, Outcomes
<1>3. AnswerOf(c) = "none" BY <1>1 DEF AnswerOf
<1>4. [d \in Calls |-> AnswerOf(d)]' = [[d \in Calls |-> AnswerOf(d)] EXCEPT ![c] = a]
  BY <1>2
<1>5. QED BY <1>3, <1>4 DEF Jobs!Tell

LEMMA ReturnRefines ==
  ASSUME IInv, NEW c \in Calls,
         CheckFlags(c) \/ GiveUp(c) \/ TakeReply(c)
  PROVE  [Jobs!Next]_Jobs!vars
<1> DEFINE tells == \E a \in {"result", "refused", "abandoned"} : Jobs!Tell(c, a)
<1>1. CASE CheckFlags(c)
  <2>1. call[c] = "new" /\ JobOf(c) = "new"
    BY <1>1, ConstantsOK DEF CheckFlags, IInv, TypeOK, Answers, RunningJobHasOwner, Told, JobOf
  <2>2. UNCHANGED <<cur, reply, stopped>> BY <1>1 DEF CheckFlags
  <2>3. CASE UNCHANGED outcome BY <2>2, <2>3, StutterRefines DEF jobVars
  <2>4. ASSUME NEW o \in {"errClosed", "notStarted"}, Return(c, o) PROVE tells
    <3>1. outcome' = [outcome EXCEPT ![c] = o] BY <2>4 DEF Return
    <3>2. \A d \in Calls : JobOf(d)' = JobOf(d)
      BY <2>1, <2>2, <3>1 DEF JobOf, IInv, TypeOK
    <3>3. Jobs!Tell(c, "refused")
      BY <2>1, <2>2, <3>1, <3>2, TellRefines DEF Outcomes
    <3>4. QED BY <3>3
  <2>5. QED BY <1>1, <2>3, <2>4 DEF CheckFlags, Jobs!Next
<1>2. CASE GiveUp(c)
  <2>1. call[c] # "done" BY <1>2 DEF GiveUp
  <2>2. UNCHANGED <<cur, reply, stopped>> BY <1>2 DEF GiveUp
  <2>3. ASSUME NEW o \in {"errClosed", "ctx"}, Return(c, o),
               o = "errClosed" => stopped
        PROVE  tells
    <3>1. outcome' = [outcome EXCEPT ![c] = o] BY <2>3 DEF Return
    <3>2. \A d \in Calls : JobOf(d)' = JobOf(d)
      BY <2>1, <2>2, <2>3, <3>1 DEF JobOf, IInv, TypeOK, Told
    <3>3. CASE o = "ctx"
      <4>1. Jobs!Tell(c, "abandoned")
        BY <2>1, <2>2, <3>1, <3>2, <3>3, TellRefines DEF Outcomes
      <4>2. QED BY <4>1
    <3>4. CASE o = "errClosed"
      <4>1. JobOf(c) # "running"
        BY <2>3, <3>4, ConstantsOK DEF IInv, OwnerLifetime, JobOf
      <4>2. Jobs!Tell(c, "refused")
        BY <2>1, <2>2, <3>1, <3>2, <3>4, <4>1, TellRefines DEF Outcomes
      <4>3. QED BY <4>2
    <3>5. QED BY <3>3, <3>4
  <2>4. QED BY <1>2, <2>3 DEF GiveUp, Jobs!Next
<1>3. CASE TakeReply(c)
  <2>1. /\ call[c] = "waiting" /\ reply[c] \in {"ok", "error"}
        /\ outcome' = [outcome EXCEPT ![c] = reply[c]]
        /\ reply' = [reply EXCEPT ![c] = "empty"]
        /\ UNCHANGED <<cur, stopped>>
    BY <1>3 DEF TakeReply, Return, IInv, TypeOK
  <2>2. JobOf(c) = "done" BY <2>1 DEF JobOf, IInv, Answers
  <2>3. \A d \in Calls : JobOf(d)' = JobOf(d)
    BY <2>1, <2>2 DEF JobOf, IInv, TypeOK
  <2>4. Jobs!Tell(c, "result")
    BY <2>1, <2>2, <2>3, TellRefines DEF Outcomes
  <2>5. QED BY <2>4 DEF Jobs!Next
<1>4. QED BY <1>1, <1>2, <1>3

LEMMA ReceiveRefines ==
  ASSUME IInv, NEW c \in Calls, Receive(c)
  PROVE  Jobs!Run(c)
<1>1. cur = None /\ ~stopped /\ reply[c] = "empty" /\ outcome[c] = "none"
  BY ConstantsOK DEF Receive, Parked, IInv, TypeOK, OwnerLifetime, Answers, Told
<1>2. \A d \in Calls : JobOf(d)' = IF d = c THEN "running" ELSE JobOf(d)
  BY <1>1, ConstantsOK DEF Receive, JobOf
<1>3. JobOf(c) = "new" /\ AnswerOf(c) = "none"
  BY <1>1, ConstantsOK DEF JobOf, AnswerOf
<1>4. \A d \in Calls : JobOf(d) # "running"
  BY <1>1, ConstantsOK DEF JobOf
<1>5. \A d \in Calls : AnswerOf(d)' = AnswerOf(d) BY DEF Receive, AnswerOf
<1>6. QED BY <1>1, <1>2, <1>3, <1>4, <1>5 DEF Receive, Jobs!Run, Jobs!Idle

LEMMA FinishRefines ==
  ASSUME IInv, FinishJob
  PROVE  \E c \in Calls : Jobs!Finish(c)
<1>1. cur \in Calls
  BY DEF FinishJob, IInv, TypeOK, OwnerLifetime
<1>2. \A d \in Calls : JobOf(d)' = IF d = cur THEN "done" ELSE JobOf(d)
  BY <1>1, ConstantsOK DEF FinishJob, Answer, JobOf, IInv, TypeOK
<1>3. JobOf(cur) = "running" BY DEF JobOf
<1>4. \A d \in Calls : AnswerOf(d)' = AnswerOf(d) BY DEF FinishJob, AnswerOf
<1>5. Jobs!Finish(cur)
  BY <1>1, <1>2, <1>3, <1>4 DEF Jobs!Finish, FinishJob
<1>6. QED BY <1>1, <1>5

LEMMA UnwindRefines ==
  ASSUME IInv, Unwind
  PROVE  [Jobs!Next]_Jobs!vars
<1>1. UNCHANGED <<cur, reply, outcome>> BY DEF Unwind
<1>2. CASE owner # "closeStopped"
  <2>1. stopped' = stopped BY <1>2 DEF Unwind, IInv, TypeOK
  <2>2. QED BY <1>1, <2>1, StutterRefines DEF jobVars
<1>3. CASE owner = "closeStopped"
  <2>1. ~stopped /\ stopped' /\ cur = None
    BY <1>3, ConstantsOK DEF Unwind, IInv, TypeOK, OwnerLifetime
  <2>2. \A d \in Calls : JobOf(d) # "running" BY <2>1, ConstantsOK DEF JobOf
  <2>3. \A d \in Calls : JobOf(d)' = JobOf(d) /\ AnswerOf(d)' = AnswerOf(d)
    BY <1>1 DEF JobOf, AnswerOf
  <2>4. Jobs!Stop
    BY <2>1, <2>2, <2>3 DEF Jobs!Stop, Jobs!Idle
  <2>5. QED BY <2>4 DEF Jobs!Next
<1>4. QED BY <1>2, <1>3

\* own(), submit, Start and Close implement SerialJobs.
THEOREM Refinement == Spec => ImplementsSerialJobs
<1>1. Init => Jobs!Init
  BY ConstantsOK DEF Init, Jobs!Init, JobOf, AnswerOf
<1>2. IInv /\ [Next]_vars => [Jobs!Next]_Jobs!vars
  <2> SUFFICES ASSUME IInv, [Next]_vars PROVE [Jobs!Next]_Jobs!vars
    OBVIOUS
  <2>1. CASE UNCHANGED vars BY <2>1, StutterRefines DEF vars, jobVars
  <2>2. ASSUME NEW c \in Calls,
               CheckFlags(c) \/ GiveUp(c) \/ TakeReply(c)
        PROVE  [Jobs!Next]_Jobs!vars
    BY <2>2, ReturnRefines
  <2>3. ASSUME NEW c \in Calls, Receive(c) PROVE [Jobs!Next]_Jobs!vars
    BY <2>3, ReceiveRefines DEF Jobs!Next
  <2>4. CASE FinishJob BY <2>4, FinishRefines DEF Jobs!Next
  <2>5. CASE Unwind BY <2>5, UnwindRefines
  <2>6. CASE UNCHANGED jobVars BY <2>6, StutterRefines
  <2>7. ASSUME NEW c \in Calls,
               ParkInSend(c) \/ SendOnClosed(c) \/ ToolReturns(c)
        PROVE  UNCHANGED jobVars
    BY <2>7 DEF ParkInSend, SendOnClosed, ToolReturns, jobVars
  <2>8. ASSUME NEW s \in Starts, StartBegin(s) \/ StartReturn(s)
        PROVE  UNCHANGED jobVars
    BY <2>8 DEF StartBegin, StartReturn, jobVars
  <2>9. ASSUME NEW k \in Closes,
               CloseBegin(k) \/ CloseUnstarted(k) \/ CloseRequests(k) \/ CloseReturn(k)
        PROVE  UNCHANGED jobVars
    BY <2>9 DEF CloseBegin, CloseUnstarted, CloseRequests, CloseReturn, jobVars
  <2>10. ASSUME NewEngine \/ Install \/ Bootstrap \/ StartTool \/ emit \/ RangeEnds
         PROVE  UNCHANGED jobVars
    BY <2>10 DEF NewEngine, Install, Bootstrap, StartTool, emit, RangeEnds, jobVars
  <2>11. ASSUME NEW x \in Calls \cup Starts, Cancel(x) PROVE UNCHANGED jobVars
    BY <2>11 DEF Cancel, jobVars
  <2>12. QED
    BY <2>1, <2>2, <2>3, <2>4, <2>5, <2>6, <2>7, <2>8, <2>9, <2>10, <2>11
       DEF Next
<1>3. QED BY <1>1, <1>2, Inductive, PTL DEF Spec, ImplementsSerialJobs, Jobs!Spec
-----------------------------------------------------------------------------
(* Nobody waits in vain.  Start's verdict is safe because only one Start    *)
(* was let through: two of them would share one verdict, and the second     *)
(* would wait for an owner that is past its boot.                           *)

Booting == owner \in {"engine", "install", "boot"}

Awaited ==
  /\ \A s, t \in Starts : start[s] = "waiting" /\ start[t] = "waiting" => s = t
  /\ \A s \in Starts :
       start[s] = "waiting" => started /\ (startErr # "empty" \/ Booting)
  /\ \A k \in Closes : close[k] = "waiting" => requests = "closed"

LEMMA StartAwaits ==
  ASSUME IInv, Awaited, NEW s \in Starts, StartBegin(s) \/ StartReturn(s)
  PROVE  Awaited'
<1> USE DEF IInv, TypeOK, OwnerLifetime, Awaited, Booting
<1>1. CASE StartBegin(s)
  <2>1. CASE ~Refused
    <3>1. /\ requests = "nil" /\ owner' = "engine" /\ started' = TRUE
          /\ UNCHANGED <<startErr, close>>
          /\ start' = [start EXCEPT ![s] = "waiting"]
      BY <1>1, <2>1 DEF StartBegin, Refused
    <3>2. \A t \in Starts : start[t] # "waiting"
      BY <2>1 DEF Refused
    <3>3. \A k \in Closes : close[k] # "waiting" BY <3>1
    <3>4. QED BY <3>1, <3>2, <3>3
  <2>2. CASE Refused
    <3>1. /\ UNCHANGED <<started, requests, owner, startErr, close>>
          /\ start' = [start EXCEPT ![s] = "done"]
      BY <1>1, <2>2 DEF StartBegin
    <3>2. QED BY <3>1
  <2>3. QED BY <2>1, <2>2
<1>2. CASE StartReturn(s)
  <2>1. /\ start[s] = "waiting" /\ start' = [start EXCEPT ![s] = "done"]
        /\ UNCHANGED <<started, requests, owner, close>>
    BY <1>2 DEF StartReturn
  <2>2. \A t \in Starts : start'[t] # "waiting" BY <2>1
  <2>3. QED BY <2>1, <2>2
<1>3. QED BY <1>1, <1>2

LEMMA CloseAwaits ==
  ASSUME IInv, Awaited, NEW k \in Closes,
         CloseBegin(k) \/ CloseUnstarted(k) \/ CloseRequests(k) \/ CloseReturn(k)
  PROVE  Awaited'
<1>1. UNCHANGED <<owner, start, started, startErr>>
  BY DEF CloseBegin, CloseUnstarted, CloseRequests, CloseReturn
<1>2. \A l \in Closes : close'[l] = "waiting" => requests' = "closed"
  <2>1. CASE CloseRequests(k) BY <2>1 DEF CloseRequests
  <2>2. CASE CloseBegin(k) BY <2>2 DEF CloseBegin, IInv, TypeOK, Awaited
  <2>3. CASE CloseUnstarted(k) BY <2>3 DEF CloseUnstarted, IInv, TypeOK, Awaited
  <2>4. CASE CloseReturn(k) BY <2>4 DEF CloseReturn, IInv, TypeOK, Awaited
  <2>5. QED BY <2>1, <2>2, <2>3, <2>4
<1>3. QED BY <1>1, <1>2 DEF Awaited, Booting

\* Each of the ways out of boot leaves its verdict behind.
LEMMA OwnerAwaits ==
  ASSUME IInv, Awaited, OwnerStep
  PROVE  Awaited'
<1>1. UNCHANGED <<start, started, close, requests>>
  BY DEF OwnerStep, NewEngine, Install, Bootstrap, Unwind, FinishJob, RangeEnds, Receive
<1>2. startErr # "empty" \/ Booting => startErr' # "empty" \/ Booting'
  <2>1. CASE NewEngine BY <2>1 DEF NewEngine, Verdict, Booting
  <2>2. CASE Install BY <2>2 DEF Install, Verdict, Booting
  <2>3. CASE Bootstrap BY <2>3 DEF Bootstrap, Verdict, Booting
  <2>4. CASE Unwind BY <2>4, UnwindStages DEF Unwind, Booting
  <2>5. CASE FinishJob \/ RangeEnds \/ \E c \in Calls : Receive(c)
    BY <2>5 DEF FinishJob, RangeEnds, Receive, Booting
  <2>6. QED BY <2>1, <2>2, <2>3, <2>4, <2>5 DEF OwnerStep
<1>3. QED BY <1>1, <1>2 DEF Awaited

\* What everybody else does leaves the verdict and the waiting alone.
LEMMA OthersAwait ==
  ASSUME Awaited, UNCHANGED <<start, started, startErr, owner, close, requests>>
  PROVE  Awaited'
BY DEF Awaited, Booting

LEMMA NextAwaits ==
  ASSUME IInv, Awaited, [Next]_vars
  PROVE  Awaited'
<1> DEFINE seen == <<start, started, startErr, owner, close, requests>>
<1>1. ASSUME NEW c \in Calls,
             \/ CheckFlags(c) \/ ParkInSend(c) \/ SendOnClosed(c)
             \/ GiveUp(c) \/ TakeReply(c) \/ ToolReturns(c)
      PROVE  UNCHANGED seen
  BY <1>1 DEF CheckFlags, ParkInSend, SendOnClosed, GiveUp, TakeReply, ToolReturns
<1>2. ASSUME StartTool \/ emit PROVE UNCHANGED seen
  BY <1>2 DEF StartTool, emit
<1>3. ASSUME NEW x \in Calls \cup Starts, Cancel(x) PROVE UNCHANGED seen
  BY <1>3 DEF Cancel
<1>4. ASSUME UNCHANGED vars PROVE UNCHANGED seen
  BY <1>4 DEF vars
<1>5. CASE UNCHANGED seen BY <1>5, OthersAwait
<1>6. QED
  BY <1>1, <1>2, <1>3, <1>4, <1>5, StartAwaits, CloseAwaits, OwnerAwaits
     DEF Next, OwnerStep

\* Whoever waits on own() waits for something it has done or has still to do.
THEOREM NobodyIsForgotten == Spec => []NobodyWaitsInVain
<1>1. Init => Awaited BY DEF Init, Awaited
<1>2. IInv /\ Awaited /\ [Next]_vars => Awaited' BY NextAwaits
<1>3. IInv /\ Awaited => NobodyWaitsInVain
  BY ConstantsOK DEF IInv, TypeOK, OwnerLifetime, Answers, Awaited, Booting,
     NobodyWaitsInVain
<1>4. QED BY Inductive, <1>1, <1>2, <1>3, PTL DEF Spec
=============================================================================
