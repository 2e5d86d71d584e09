--------------------------- MODULE InProcessProofs ---------------------------
(***************************************************************************)
(* What the in-process carrier keeps for any number of runs and sessions,  *)
(* any capacity of the event channel and any number of events.             *)
(*                                                                         *)
(* Its turns are those of Turns (Refines), so what TurnsProofs shows holds *)
(* here too.  The order of events is not inductive by itself: it rests on  *)
(* what the channel and fanOut still hold being younger than everything a  *)
(* sink was given (Wire), copies of one event counted in turn.             *)
(***************************************************************************)
EXTENDS InProcess, TurnsProofs, SequenceTheorems, FiniteSetTheorems

Holding == fan.at \in {"look", "call"}

Ordered(q) == \A i, j \in 1..Len(q) : i < j => Before(q[i], q[j])

\* Events on their way are in order, and younger than those that arrived.
Queued ==
  /\ Ordered(events)
  /\ \A i \in 1..Len(events) : events[i].n <= emitted
Held ==
  Holding => /\ fan.event.n <= emitted
             /\ \A i \in 1..Len(events) : Before(fan.event, events[i])
Arrived ==
  \A r \in Runs : \A k \in 1..Len(got[r]) :
    /\ got[r][k].n <= emitted
    /\ Holding => Before(got[r][k], fan.event)
    /\ \A i \in 1..Len(events) : Before(got[r][k], events[i])
Apart ==
  \A r, u \in Runs : r # u =>
    \A i \in 1..Len(got[r]), j \in 1..Len(got[u]) :
      <<got[r][i].n, got[r][i].copy>> # <<got[u][j].n, got[u][j].copy>>
Given == \A r \in Runs : Ordered(got[r])

Wire == Queued /\ Held /\ Arrived /\ Apart /\ Given

\* Prompt and ReadResult run under the session's lock.
Locked ==
  \A r \in Runs :
    at[r] \in {"prompt", "hooked", "inside", "unhook", "read"} =>
      lock[SessionOf[r]] = r

\* Close waited for fanOut.
Gone == closing = "closed" => fan.at = "exited"

-----------------------------------------------------------------------------
(* Emit: the channel keeps what it had and takes younger events.           *)

LEMMA Numbers ==
  ASSUME NEW q \in Seq(Event), NEW i \in 1..Len(q)
  PROVE  q[i] \in Event /\ q[i].n \in Nat /\ q[i].copy \in Nat
<1>1. q[i] \in Event BY ElementOfSeq
<1>2. \A e \in Event : e.n \in Nat /\ e.copy \in Nat BY DEF Event
<1>3. QED BY <1>1, <1>2

\* What is Before another is another.
LEMMA BeforeDiffers ==
  ASSUME NEW e \in Event, NEW f \in Event, Before(e, f)
  PROVE  <<e.n, e.copy>> # <<f.n, f.copy>>
BY DEF Before, Event

LEMMA CopiesAreEvents ==
  ASSUME TypeOK, emitted \in Nat, NEW s \in Sessions, NEW kind \in {"chunk", "end"}
  PROVE  /\ Copies(s, kind) \in Seq(Event) /\ Len(Copies(s, kind)) \in Nat
         /\ Copies(s, kind) # <<>> => Subscribers(s) # {}
         /\ Len(Copies(s, kind)) = Cardinality(Subscribers(s))
         /\ \A i \in 1..Len(Copies(s, kind)) :
              /\ Copies(s, kind)[i].n = emitted + 1 /\ Copies(s, kind)[i].copy = i
              /\ Copies(s, kind)[i].session = s
<1> DEFINE c == Cardinality(Subscribers(s))
           E(i) == [session |-> s, kind |-> kind, n |-> emitted + 1, copy |-> i]
<1>1. c \in Nat /\ (Subscribers(s) = {} => c = 0)
  <2>1. Subscribers(s) \in SUBSET Runs BY DEF Subscribers
  <2>2. IsFiniteSet(Subscribers(s)) BY <2>1, FS_Subset, InProcessConstants
  <2>3. QED BY <2>2, FS_CardinalityType, FS_EmptySet
<1>2. Copies(s, kind) = [i \in 1..c |-> E(i)]
  BY DEF Copies
<1> HIDE DEF c
<1>3. \A i \in 1..c : E(i) \in Event
  BY <1>1 DEF Event
<1> HIDE DEF E
<1>4. Copies(s, kind) \in [1..c -> Event]
  BY <1>2, <1>3
<1>5. Copies(s, kind) \in Seq(Event) /\ Len(Copies(s, kind)) = c
  BY <1>1, <1>4
<1>6. \A i \in 1..c : Copies(s, kind)[i] = E(i)
  BY <1>2
<1>7. \A i \in 1..c : /\ Copies(s, kind)[i].n = emitted + 1 /\ Copies(s, kind)[i].copy = i
                      /\ Copies(s, kind)[i].session = s
  <2>1. \A i \in 1..c : E(i).n = emitted + 1 /\ E(i).copy = i /\ E(i).session = s BY DEF E
  <2>2. QED BY <1>6, <2>1
<1>8. Copies(s, kind) # <<>> => Subscribers(s) # {}
  <2>1. c = 0 => Copies(s, kind) = <<>> BY <1>5, EmptySeq
  <2>2. QED BY <1>1, <2>1
<1>9. QED BY <1>1, <1>5, <1>7, <1>8 DEF c

LEMMA KeptProperties ==
  ASSUME NEW q \in Seq(Event)
  PROVE  /\ Kept(q) \in Seq(Event)
         /\ Len(Kept(q)) <= Capacity /\ Len(Kept(q)) <= Len(q)
         /\ \A i \in 1..Len(Kept(q)) : Kept(q)[i] = q[i]
<1> DEFINE m == IF Len(q) < Capacity THEN Len(q) ELSE Capacity
<1>1. Len(q) \in Nat BY LenProperties
<1>2. m \in Nat /\ m <= Len(q) /\ m <= Capacity BY <1>1, InProcessConstants
<1>3. \A i \in 1..m : q[i] \in Event BY <1>1, <1>2, ElementOfSeq
<1>4. Kept(q) = SubSeq(q, 1, m) BY DEF Kept
<1> HIDE DEF m
<1>5. /\ SubSeq(q, 1, m) \in Seq(Event)
      /\ Len(SubSeq(q, 1, m)) = m
      /\ \A i \in 1..m : SubSeq(q, 1, m)[i] = q[i]
  BY <1>2, <1>3, SubSeqProperties
<1>6. QED BY <1>2, <1>4, <1>5

\* What Emit adds has a number of its own, younger than all before it.
LEMMA EmitAdds ==
  ASSUME InProcessTypeOK, NEW s \in Sessions, NEW kind \in {"chunk", "end"}, Emit(s, kind)
  PROVE  /\ emitted' \in Nat /\ emitted <= emitted'
         /\ events' \in Seq(Event) /\ Len(events') \in Nat /\ Len(events') <= Capacity
         /\ \A i \in 1..Len(events') :
              \/ i \in 1..Len(events) /\ events'[i] = events[i]
              \/ /\ i > Len(events) /\ emitted < emitted'
                 /\ events'[i].n = emitted' /\ events'[i].copy = i - Len(events)
                 /\ events'[i].session = s
                 /\ events'[i].copy <= Cardinality(Subscribers(s))
<1> DEFINE c == Copies(s, kind)
           q == events \o c
<1>1. /\ c \in Seq(Event) /\ Len(c) \in Nat
      /\ c # <<>> => Subscribers(s) # {}
      /\ Len(c) = Cardinality(Subscribers(s))
      /\ \A i \in 1..Len(c) : c[i].n = emitted + 1 /\ c[i].copy = i /\ c[i].session = s
  BY CopiesAreEvents DEF InProcessTypeOK
<1>2. events \in Seq(Event) /\ Len(events) \in Nat /\ emitted \in Nat
  BY LenProperties DEF InProcessTypeOK
<1>3. /\ events' = Kept(q)
      /\ emitted' = IF Subscribers(s) = {} THEN emitted ELSE emitted + 1
  BY DEF Emit
<1> HIDE DEF c
<1>4. /\ q \in Seq(Event) /\ Len(q) = Len(events) + Len(c)
      /\ \A i \in 1..Len(q) : q[i] = IF i <= Len(events) THEN events[i]
                                      ELSE c[i - Len(events)]
  <2>1. q \in Seq(Event) /\ Len(q) = Len(events) + Len(c)
    BY <1>1, <1>2, ConcatProperties
  <2>2. \A i \in 1..Len(events) + Len(c) :
          q[i] = IF i <= Len(events) THEN events[i] ELSE c[i - Len(events)]
    BY <1>1, <1>2, ConcatProperties, Zenon
  <2>3. QED BY <2>1, <2>2
<1> HIDE DEF q
<1>5. /\ events' \in Seq(Event) /\ Len(events') <= Capacity
      /\ Len(events') \in Nat /\ Len(events') <= Len(q)
      /\ \A i \in 1..Len(events') : events'[i] = q[i]
  BY <1>3, <1>4, KeptProperties, LenProperties
<1>6. ASSUME NEW i \in 1..Len(events'), ~(i <= Len(events))
      PROVE  /\ i > Len(events) /\ emitted < emitted'
             /\ events'[i].n = emitted' /\ events'[i].copy = i - Len(events)
             /\ events'[i].session = s
             /\ events'[i].copy <= Cardinality(Subscribers(s))
  <2>1. i - Len(events) \in 1..Len(c) /\ i \in 1..Len(q)
    BY <1>1, <1>2, <1>4, <1>5, <1>6
  <2>2. events'[i] = c[i - Len(events)] BY <1>4, <1>5, <1>6, <2>1
  <2>3. Subscribers(s) # {}
    <3>1. c # <<>> BY <1>1, <2>1, EmptySeq
    <3>2. QED BY <1>1, <3>1
  <2>4. emitted' = emitted + 1 BY <1>3, <2>3
  <2>5. /\ events'[i].n = emitted + 1 /\ events'[i].copy = i - Len(events)
        /\ events'[i].session = s /\ i - Len(events) <= Cardinality(Subscribers(s))
    BY <1>1, <2>1, <2>2
  <2>6. QED BY <1>2, <1>5, <1>6, <2>4, <2>5
<1>7. ASSUME NEW i \in 1..Len(events'), i <= Len(events)
      PROVE  i \in 1..Len(events) /\ events'[i] = events[i]
  BY <1>1, <1>2, <1>4, <1>5, <1>7
<1>8. emitted' \in Nat /\ emitted <= emitted' BY <1>2, <1>3
<1>9. QED BY <1>5, <1>6, <1>7, <1>8

LEMMA EmitKeeps ==
  ASSUME InProcessTypeOK, Wire, NEW s \in Sessions,
         NEW kind \in {"chunk", "end"}, Emit(s, kind), UNCHANGED <<fan, got>>
  PROVE  Wire' /\ emitted' \in Nat /\ events' \in Seq(Event) /\ Len(events') <= Capacity
<1> DEFINE Old(i) == i \in 1..Len(events) /\ events'[i] = events[i]
           New(i) == /\ i > Len(events) /\ emitted < emitted'
                     /\ events'[i].n = emitted' /\ events'[i].copy = i - Len(events)
<1>1. /\ emitted' \in Nat /\ emitted <= emitted' /\ emitted \in Nat
      /\ events' \in Seq(Event) /\ Len(events') \in Nat /\ Len(events') <= Capacity
      /\ events \in Seq(Event) /\ Len(events) \in Nat
      /\ \A i \in 1..Len(events') : Old(i) \/ New(i)
  BY EmitAdds, LenProperties DEF InProcessTypeOK
<1>2. \A i \in 1..Len(events) : events[i].n \in Nat
  BY <1>1, Numbers
\* Whatever was there is Before what is new.
<1>3. ASSUME NEW e, e.n \in Nat, e.n <= emitted,
             NEW j \in 1..Len(events'), New(j)
      PROVE  Before(e, events'[j])
  BY <1>1, <1>3 DEF Before
<1>4. Queued'
  <2>1. \A i \in 1..Len(events') : events'[i].n <= emitted'
    <3> SUFFICES ASSUME NEW i \in 1..Len(events') PROVE events'[i].n <= emitted'
      OBVIOUS
    <3>1. CASE Old(i)
      <4>1. events[i].n <= emitted BY <3>1 DEF Wire, Queued
      <4>2. QED BY <1>1, <1>2, <3>1, <4>1
    <3>2. CASE New(i) BY <1>1, <3>2
    <3>3. QED BY <1>1, <3>1, <3>2
  <2>2. ASSUME NEW i \in 1..Len(events'), NEW j \in 1..Len(events'), i < j
        PROVE  Before(events'[i], events'[j])
    <3>1. CASE Old(j)
      <4>1. Old(i) BY <1>1, <2>2, <3>1
      <4>2. QED BY <2>2, <3>1, <4>1 DEF Wire, Queued, Ordered
    <3>2. CASE Old(i) /\ New(j)
      <4>1. events[i].n <= emitted BY <3>2 DEF Wire, Queued
      <4>2. QED BY <1>2, <1>3, <3>2, <4>1
    <3>3. CASE New(i) /\ New(j)
      BY <1>1, <2>2, <3>3 DEF Before
    <3>4. QED BY <1>1, <3>1, <3>2, <3>3
  <2>3. QED BY <2>1, <2>2 DEF Queued, Ordered
<1>5. Held'
  <2> SUFFICES ASSUME Holding' PROVE Held'
    BY DEF Held
  <2>1. fan.event.n \in Nat BY DEF InProcessTypeOK, Event, Holding
  <2>2. fan.event.n <= emitted /\ \A i \in 1..Len(events) : Before(fan.event, events[i])
    BY DEF Wire, Held, Holding
  <2>3. fan.event.n <= emitted'
    BY <1>1, <2>1, <2>2
  <2>4. ASSUME NEW i \in 1..Len(events') PROVE Before(fan.event, events'[i])
    BY <1>1, <1>3, <2>1, <2>2
  <2>5. QED BY <2>3, <2>4 DEF Held
<1>6. Arrived'
  <2> SUFFICES ASSUME NEW r \in Runs, NEW k \in 1..Len(got[r])
               PROVE  /\ got[r][k].n <= emitted'
                      /\ Holding => Before(got[r][k], fan.event)
                      /\ \A i \in 1..Len(events') : Before(got[r][k], events'[i])
    BY DEF Arrived, Holding
  <2>1. got[r][k].n \in Nat
    <3>1. got[r] \in Seq(Event) BY DEF InProcessTypeOK
    <3>2. QED BY <3>1, Numbers
  <2>2. /\ got[r][k].n <= emitted
        /\ Holding => Before(got[r][k], fan.event)
        /\ \A i \in 1..Len(events) : Before(got[r][k], events[i])
    BY DEF Wire, Arrived
  <2>3. got[r][k].n <= emitted'
    BY <1>1, <2>1, <2>2
  <2>4. ASSUME NEW i \in 1..Len(events') PROVE Before(got[r][k], events'[i])
    BY <1>1, <1>3, <2>1, <2>2
  <2>5. QED BY <2>2, <2>3, <2>4
<1>7. Apart' BY DEF Wire, Apart
<1>8. Given' BY DEF Wire, Given, Ordered
<1>9. QED BY <1>1, <1>4, <1>5, <1>6, <1>7, <1>8 DEF Wire
-----------------------------------------------------------------------------
(* The carrier adds no step to the turns beneath it.                       *)

\* The steps of InProcessNext, by who takes them.
Caller(r) == \/ Enter(r) \/ Acquire(r) \/ Hook(r) \/ HarnessRun(r)
             \/ RunReturns(r) \/ Unhook(r) \/ ReadResult(r)
Beneath ==
  \/ \E r \in Runs : EndContext(r) \/ Begin(r) \/ Answer(r) \/ Runner(r)
  \/ \E s \in Sessions : StartTurn(s) \/ StartFails(s) \/ EndFails(s) \/ GoIdle(s)
Fans   == FanReceive \/ FanLook \/ FanCall \/ SinkReturns \/ FanExit
Closes == CloseFlag \/ CloseHarness \/ CloseRequests \/ OwnerStops \/ CloseReturns

LEMMA Cases ==
  ASSUME [InProcessNext]_vars
  PROVE  \/ \E r \in Runs : Caller(r)
         \/ Beneath /\ UNCHANGED carrier
         \/ \E s \in Sessions : Chunk(s) \/ TurnEnds(s)
         \/ Fans
         \/ Closes
         \/ UNCHANGED vars
<1>1. CASE InProcessStep
  BY <1>1 DEF InProcessStep, InWorld, Caller, Beneath, Fans, Closes
<1>2. CASE UNCHANGED vars BY <1>2
<1>3. QED BY <1>1, <1>2 DEF InProcessNext, Alive

LEMMA StepsAreTurns == [InProcessNext]_vars => [Next]_turnVars
<1> SUFFICES ASSUME [InProcessNext]_vars PROVE [Next]_turnVars
  OBVIOUS
<1>1. CASE \E r \in Runs : Caller(r)
  BY <1>1 DEF Caller, Enter, Acquire, Hook, Unhook, ReadResult, HarnessRun, RunReturns,
              RunGives, Next
<1>2. CASE Beneath
  BY <1>2 DEF Beneath, Runner, Next, World
<1>3. CASE \E s \in Sessions : Chunk(s)
  BY <1>3 DEF Chunk
<1>4. CASE \E s \in Sessions : TurnEnds(s)
  BY <1>4 DEF TurnEnds, Next, World
<1>5. CASE Fans
  BY <1>5 DEF Fans, FanReceive, FanLook, FanCall, SinkReturns, FanExit
<1>6. CASE Closes
  BY <1>6 DEF Closes, CloseFlag, CloseHarness, CloseRequests, OwnerStops, CloseReturns, Close
<1>7. CASE UNCHANGED vars
  BY <1>7 DEF vars
<1>8. QED
  BY <1>1, <1>2, <1>3, <1>4, <1>5, <1>6, <1>7, Cases

\* Under inProcess.Prompt and Session.Run the turns are those of harness.go and
\* boot.js: what is shown of Turns holds of every run of the carrier.
THEOREM Refines == InProcessSpec => Spec
<1>1. InProcessInit => Init
  BY DEF InProcessInit
<1>2. QED BY <1>1, StepsAreTurns, PTL DEF InProcessSpec, Spec

-----------------------------------------------------------------------------
RunTypes ==
  /\ at \in [Runs -> {"new", "lock", "prompt", "hooked", "inside", "unhook",
                      "read", "done"}]
  /\ result \in [Runs -> Results]
  /\ lock \in [Sessions -> Runs \cup {None}]
  /\ sink \in Runs \cup {None}

StreamTypes ==
  /\ got \in [Runs -> Seq(Event)]
  /\ emitted \in Nat
  /\ events \in Seq(Event) /\ Len(events) <= Capacity
  /\ fan \in [at : {"receive", "look", "call", "sink", "exited"},
              event : Event \cup {None}, to : Runs \cup {None}]
  /\ fan.at \in {"look", "call"} => fan.event \in Event
  /\ fan.at = "call" => fan.to \in Runs
  /\ closing \in {"open", "flagged", "closing", "stopping", "stopped", "closed",
                  "crashed"}

CarrierInv == RunTypes /\ StreamTypes /\ Wire /\ Locked /\ Gone

LEMMA Typed == InProcessTypeOK <=> TypeOK /\ RunTypes /\ StreamTypes
BY DEF InProcessTypeOK, RunTypes, StreamTypes

LEMMA InitCarrier == InProcessInit => CarrierInv
<1> SUFFICES ASSUME InProcessInit PROVE CarrierInv
  OBVIOUS
<1> USE InProcessConstants, TurnsConstants DEF InProcessInit, Receiving
<1>1. RunTypes BY DEF RunTypes, Results
<1>2. StreamTypes BY DEF StreamTypes
<1>3. Wire
  BY DEF Wire, Queued, Ordered, Held, Holding, Arrived, Apart, Given
<1>4. Locked /\ Gone BY DEF Locked, Gone
<1>5. QED BY <1>1, <1>2, <1>3, <1>4 DEF CarrierInv

\* Steps that touch neither the events nor fanOut nor Close.
Still == UNCHANGED <<got, stream, fan, closing>>
LEMMA StillKeeps ==
  ASSUME CarrierInv, Still
  PROVE  StreamTypes' /\ Wire' /\ Gone'
<1> USE DEF CarrierInv, Still, stream
<1>1. StreamTypes' BY DEF StreamTypes
<1>2. Queued' BY DEF Wire, Queued, Ordered
<1>3. Held' BY DEF Wire, Held, Holding
<1>4. Arrived' BY DEF Wire, Arrived, Holding
<1>5. Apart' /\ Given' BY DEF Wire, Apart, Given, Ordered
<1>6. Gone' BY DEF Gone
<1>7. QED BY <1>1, <1>2, <1>3, <1>4, <1>5, <1>6 DEF Wire

\* Steps that leave the callers where they are.
LEMMA RunsKeep ==
  ASSUME CarrierInv, UNCHANGED <<runs, sink>>
  PROVE  RunTypes' /\ Locked'
BY DEF CarrierInv, runs, RunTypes, Locked

LEMMA CallerStep ==
  ASSUME CarrierInv, NEW r \in Runs, Caller(r)
  PROVE  RunTypes' /\ Locked' /\ Still
<1> USE TurnsConstants DEF CarrierInv, RunTypes, Locked, Move, Still, stream
<1>1. CASE Enter(r) BY <1>1 DEF Enter, Results
<1>2. CASE Acquire(r) BY <1>2 DEF Acquire
<1>3. CASE Hook(r) BY <1>3 DEF Hook
<1>4. CASE HarnessRun(r)
  <2>1. PICK to \in {"inside", "unhook"} :
          /\ Move(r, "hooked", to)
          /\ result' = result \/ result' = [result EXCEPT ![r] = "runtime closed"]
          /\ UNCHANGED <<got, lock, sink, stream, fan, closing>>
    BY <1>4 DEF HarnessRun
  <2>2. RunTypes' BY <2>1 DEF Results
  <2>3. Locked' BY <2>1
  <2>4. QED BY <2>1, <2>2, <2>3
<1>5. CASE RunReturns(r)
  <2>1. PICK o \in Results : RunGives(r, o)
    <3>1. ResultOf(answer'[r]) \in Results BY DEF ResultOf, Results
    <3>2. QED BY <1>5, <3>1 DEF RunReturns, Results
  <2>2. QED BY <2>1 DEF RunGives
<1>6. CASE Unhook(r) BY <1>6 DEF Unhook
<1>7. CASE ReadResult(r) BY <1>7 DEF ReadResult
<1>8. QED BY <1>1, <1>2, <1>3, <1>4, <1>5, <1>6, <1>7 DEF Caller

LEMMA EmitStep ==
  ASSUME CarrierInv, TypeOK, NEW s \in Sessions,
         Chunk(s) \/ TurnEnds(s)
  PROVE  CarrierInv'
<1>1. PICK kind \in {"chunk", "end"} :
        Emit(s, kind) /\ UNCHANGED <<runs, got, sink, fan, closing>>
  BY DEF Chunk, TurnEnds
<1>2. /\ Wire' /\ emitted' \in Nat
      /\ events' \in Seq(Event) /\ Len(events') <= Capacity
  BY <1>1, Typed, EmitKeeps DEF CarrierInv
<1>3. StreamTypes' BY <1>1, <1>2 DEF CarrierInv, StreamTypes
<1>4. RunTypes' /\ Locked' BY <1>1, RunsKeep
<1>5. Gone' BY <1>1 DEF CarrierInv, Gone
<1>6. QED BY <1>2, <1>3, <1>4, <1>5 DEF CarrierInv

LEMMA ReceiveStep ==
  ASSUME CarrierInv, FanReceive
  PROVE  CarrierInv'
<1> DEFINE n == Len(events)
<1>1. /\ fan.at = "receive" /\ events # <<>>
      /\ fan' = [at |-> "look", event |-> Head(events), to |-> None]
      /\ events' = Tail(events)
      /\ UNCHANGED <<runs, got, sink, emitted, closing>>
  BY DEF FanReceive
<1>2. events \in Seq(Event) /\ n \in Nat /\ n > 0
  BY <1>1, LenProperties, EmptySeq DEF CarrierInv, StreamTypes
<1>3. /\ Head(events) = events[1] /\ Head(events) \in Event
      /\ events' \in Seq(Event) /\ Len(events') = n - 1
      /\ \A i \in 1..Len(events') : events'[i] = events[i + 1]
  BY <1>1, <1>2, HeadTailProperties
<1>4. StreamTypes'
  BY <1>1, <1>2, <1>3, InProcessConstants DEF CarrierInv, StreamTypes
<1>5. \A i \in 1..Len(events') : i + 1 \in 1..n
  BY <1>2, <1>3
<1>6. Queued'
  <2>1. Ordered(events) /\ \A i \in 1..n : events[i].n <= emitted
    BY DEF CarrierInv, Wire, Queued
  <2>2. \A i, j \in 1..Len(events') : i < j => Before(events'[i], events'[j])
    BY <1>2, <1>3, <1>5, <2>1 DEF Ordered
  <2>3. QED BY <1>1, <1>3, <1>5, <2>1, <2>2 DEF Queued, Ordered
<1>7. Held'
  <2>1. Ordered(events) /\ events[1].n <= emitted
    BY <1>2 DEF CarrierInv, Wire, Queued
  <2>2. \A i \in 1..Len(events') : Before(events[1], events'[i])
    BY <1>2, <1>3, <1>5, <2>1 DEF Ordered
  <2>3. QED BY <1>1, <1>3, <2>1, <2>2 DEF Held
<1>8. Arrived'
  <2>1. \A r \in Runs : \A k \in 1..Len(got[r]) :
          got[r][k].n <= emitted /\ \A i \in 1..n : Before(got[r][k], events[i])
    BY DEF CarrierInv, Wire, Arrived
  <2>2. QED BY <1>1, <1>2, <1>3, <1>5, <2>1 DEF Arrived
<1>9. Apart' /\ Given' BY <1>1 DEF CarrierInv, Wire, Apart, Given, Ordered
<1>10. RunTypes' /\ Locked' BY <1>1, RunsKeep
<1>11. Gone' BY <1>1 DEF CarrierInv, Gone
<1>12. QED BY <1>4, <1>6, <1>7, <1>8, <1>9, <1>10, <1>11 DEF CarrierInv, Wire

LEMMA LookStep ==
  ASSUME CarrierInv, FanLook
  PROVE  CarrierInv'
<1> USE DEF CarrierInv, FanLook, Receiving, stream
<1>1. StreamTypes' BY DEF StreamTypes, RunTypes
<1>2. RunTypes' /\ Locked' BY RunsKeep
<1>3. Holding /\ (Holding' => fan'.event = fan.event)
  BY DEF Holding, StreamTypes
<1>4. Queued' BY DEF Wire, Queued, Ordered
<1>5. Held' BY <1>3 DEF Wire, Held
<1>6. Arrived' BY <1>3 DEF Wire, Arrived
<1>7. Apart' /\ Given' BY DEF Wire, Apart, Given, Ordered
<1>8. Gone' BY DEF Gone
<1>9. QED BY <1>1, <1>2, <1>4, <1>5, <1>6, <1>7, <1>8 DEF Wire

LEMMA CallStep ==
  ASSUME CarrierInv, FanCall
  PROVE  CarrierInv'
<1> DEFINE u == fan.to
           e == fan.event
           m == Len(got[u])
<1>1. /\ fan.at = "call" /\ fan' = [Receiving EXCEPT !.at = "sink"]
      /\ got' = [got EXCEPT ![u] = Append(@, e)]
      /\ UNCHANGED <<runs, sink, stream, closing>>
  BY DEF FanCall
<1>2. /\ u \in Runs /\ e \in Event /\ got[u] \in Seq(Event) /\ m \in Nat
      /\ Holding
  BY <1>1, LenProperties DEF CarrierInv, StreamTypes, Holding
<1>3. /\ got'[u] \in Seq(Event) /\ Len(got'[u]) = m + 1
      /\ \A k \in 1..m : got'[u][k] = got[u][k]
      /\ got'[u][m + 1] = e
  BY <1>1, <1>2, AppendProperties DEF CarrierInv, StreamTypes
<1>4. \A r \in Runs \ {u} : got'[r] = got[r]
  BY <1>1 DEF CarrierInv, StreamTypes
<1>5. StreamTypes'
  <2>1. got' \in [Runs -> Seq(Event)]
    BY <1>1, <1>2, <1>3, <1>4 DEF CarrierInv, StreamTypes
  <2>2. QED BY <1>1, <2>1 DEF CarrierInv, StreamTypes, Receiving, stream
<1>6. Queued' BY <1>1 DEF CarrierInv, Wire, Queued, Ordered, stream
<1>7. ~Holding' BY <1>1 DEF Holding, Receiving
<1>8. Held' BY <1>7 DEF Held
<1>9. /\ e.n <= emitted /\ \A i \in 1..Len(events) : Before(e, events[i])
      /\ \A r \in Runs : \A k \in 1..Len(got[r]) :
           /\ got[r][k].n <= emitted /\ Before(got[r][k], e)
           /\ \A i \in 1..Len(events) : Before(got[r][k], events[i])
  BY <1>2 DEF CarrierInv, Wire, Held, Arrived
\* What a sink has now, it had, or it is the event fanOut gave it.
<1>10. \A r \in Runs : \A k \in 1..Len(got'[r]) :
         \/ k \in 1..Len(got[r]) /\ got'[r][k] = got[r][k]
         \/ r = u /\ k = m + 1 /\ got'[r][k] = e
  BY <1>2, <1>3, <1>4
<1>11. Arrived'
  <2>1. \A r \in Runs : \A k \in 1..Len(got'[r]) :
          /\ got'[r][k].n <= emitted
          /\ \A i \in 1..Len(events) : Before(got'[r][k], events[i])
    BY <1>9, <1>10
  <2>2. QED BY <1>1, <1>7, <2>1 DEF Arrived, stream
<1>12. \A r \in Runs : \A k \in 1..Len(got[r]) : got[r][k] \in Event
  BY Numbers DEF CarrierInv, StreamTypes
<1>13. \A r \in Runs : \A k \in 1..Len(got[r]) :
         <<got[r][k].n, got[r][k].copy>> # <<e.n, e.copy>>
  BY <1>2, <1>9, <1>12, BeforeDiffers
<1>14. Apart'
  <2> SUFFICES ASSUME NEW r \in Runs, NEW v \in Runs, r # v,
                      NEW i \in 1..Len(got'[r]), NEW j \in 1..Len(got'[v])
               PROVE  <<got'[r][i].n, got'[r][i].copy>> # <<got'[v][j].n, got'[v][j].copy>>
    BY DEF Apart
  <2>1. CASE i \in 1..Len(got[r]) /\ j \in 1..Len(got[v])
              /\ got'[r][i] = got[r][i] /\ got'[v][j] = got[v][j]
    BY <2>1 DEF CarrierInv, Wire, Apart
  <2>2. CASE i \in 1..Len(got[r]) /\ got'[r][i] = got[r][i] /\ got'[v][j] = e
    BY <1>13, <2>2
  <2>3. CASE got'[r][i] = e /\ j \in 1..Len(got[v]) /\ got'[v][j] = got[v][j]
    BY <1>13, <2>3
  <2>4. QED BY <1>10, <2>1, <2>2, <2>3
<1>15. Given'
  <2> SUFFICES ASSUME NEW r \in Runs, NEW i \in 1..Len(got'[r]),
                      NEW j \in 1..Len(got'[r]), i < j
               PROVE  Before(got'[r][i], got'[r][j])
    BY DEF Given, Ordered
  <2>1. CASE j \in 1..Len(got[r]) /\ got'[r][j] = got[r][j]
              /\ i \in 1..Len(got[r]) /\ got'[r][i] = got[r][i]
    BY <2>1 DEF CarrierInv, Wire, Given, Ordered
  <2>2. CASE got'[r][j] = e /\ i \in 1..Len(got[r]) /\ got'[r][i] = got[r][i]
    BY <1>9, <2>2
  <2>3. CASE r = u /\ i = m + 1
    BY <1>2, <1>3, <2>3
  <2>4. QED BY <1>10, <2>1, <2>2, <2>3
<1>16. RunTypes' /\ Locked' BY <1>1, RunsKeep
<1>17. Gone' BY <1>1 DEF CarrierInv, Gone
<1>18. QED
  BY <1>5, <1>6, <1>8, <1>11, <1>14, <1>15, <1>16, <1>17 DEF CarrierInv, Wire

LEMMA ExitStep ==
  ASSUME CarrierInv, FanExit \/ SinkReturns
  PROVE  CarrierInv'
<1> USE DEF CarrierInv, FanExit, SinkReturns, Receiving, stream
<1>1. StreamTypes' BY DEF StreamTypes
<1>2. RunTypes' /\ Locked' BY RunsKeep
<1>3. ~Holding' BY DEF Holding
<1>4. Queued' BY DEF Wire, Queued, Ordered
<1>5. Held' BY <1>3 DEF Held
<1>6. Arrived' BY <1>3 DEF Wire, Arrived
<1>7. Apart' /\ Given' BY DEF Wire, Apart, Given, Ordered
<1>8. Gone' BY DEF Gone
<1>9. QED BY <1>1, <1>2, <1>4, <1>5, <1>6, <1>7, <1>8 DEF Wire

LEMMA CloseStep ==
  ASSUME CarrierInv, Closes
  PROVE  CarrierInv'
<1>1. /\ UNCHANGED <<runs, got, sink, stream, fan>>
      /\ closing' \in {"flagged", "closing", "stopping", "stopped", "closed", "crashed"}
      /\ closing' = "closed" => fan.at = "exited"
  BY DEF Closes, CloseFlag, CloseHarness, CloseRequests, OwnerStops, CloseReturns, Close
<1> USE <1>1 DEF CarrierInv, stream
<1>2. StreamTypes' BY DEF StreamTypes
<1>3. RunTypes' /\ Locked' BY RunsKeep
<1>4. Queued' BY DEF Wire, Queued, Ordered
<1>5. Held' BY DEF Wire, Held, Holding
<1>6. Arrived' BY DEF Wire, Arrived, Holding
<1>7. Apart' /\ Given' BY DEF Wire, Apart, Given, Ordered
<1>8. Gone' BY DEF Gone
<1>9. QED BY <1>2, <1>3, <1>4, <1>5, <1>6, <1>7, <1>8 DEF Wire

-----------------------------------------------------------------------------
LEMMA WorldStep ==
  ASSUME CarrierInv, UNCHANGED carrier
  PROVE  CarrierInv'
<1>1. Still /\ UNCHANGED <<runs, sink>> BY DEF carrier, Still, stream
<1>2. QED BY <1>1, StillKeeps, RunsKeep DEF CarrierInv

LEMMA CarrierStep == CarrierInv /\ TypeOK /\ [InProcessNext]_vars => CarrierInv'
<1> SUFFICES ASSUME CarrierInv, TypeOK, [InProcessNext]_vars PROVE CarrierInv'
  OBVIOUS
<1>1. CASE \E r \in Runs : Caller(r)
  BY <1>1, CallerStep, StillKeeps DEF CarrierInv
<1>2. CASE UNCHANGED carrier
  BY <1>2, WorldStep
<1>3. CASE \E s \in Sessions : Chunk(s) \/ TurnEnds(s)
  BY <1>3, EmitStep
<1>4. CASE Fans
  BY <1>4, ReceiveStep, LookStep, CallStep, ExitStep DEF Fans
<1>5. CASE Closes
  BY <1>5, CloseStep
<1>6. QED
  BY <1>1, <1>2, <1>3, <1>4, <1>5, Cases DEF vars

\* The inductive invariant of inprocess.go, under sdk.go and over Turns.
THEOREM CarrierInductive == InProcessSpec => [](CarrierInv /\ TypeOK)
<1>1. InProcessSpec => []TypeOK
  BY Refines, TypeCorrect, PTL
<1>2. QED BY <1>1, InitCarrier, CarrierStep, PTL DEF InProcessSpec

\* The channel never holds more than its capacity, and fanOut calls a sink only
\* with an event and a run that set it (inprocess.go, fanOut).
THEOREM InProcessTypeCorrect == InProcessSpec => []InProcessTypeOK
<1>1. CarrierInv /\ TypeOK => InProcessTypeOK
  BY Typed DEF CarrierInv
<1>2. QED BY <1>1, CarrierInductive, PTL

-----------------------------------------------------------------------------
(* Several copies of one event.                                            *)

\* A run() that goes on and is not the owner's job was left alone: its context
\* ended.
Abandoned ==
  \A r \in Runs : js[r] \in {"stat", "create", "found", "waiting"} =>
    job = r \/ r \in ctxDone

\* An event that is a second copy is of a session with a run among gone.
Explained(e, gone) == e.copy > 1 => \E u \in gone : SessionOf[u] = e.session
Doubles ==
  /\ \A i \in 1..Len(events) : Explained(events[i], ctxDone)
  /\ Holding => Explained(fan.event, ctxDone)
  /\ \A r \in Runs : \A k \in 1..Len(got[r]) : Explained(got[r][k], ctxDone)

LEMMA AbandonedKeeps ==
  ASSUME IInv, Abandoned, [Next]_turnVars
  PROVE  Abandoned' /\ ctxDone \subseteq ctxDone'
<1>1. js \in [Runs -> Settled \cup {"none", "stat", "create", "found", "waiting"}]
  BY DEF IInv, TypeOK
<1> USE TurnsConstants DEF Abandoned
<1>2. CASE \E r \in Runs : Submit(r) \/ GiveUp(r) \/ Return(r)
  BY <1>2 DEF Submit, GiveUp, Return
<1>3. CASE \E r \in Runs : EndContext(r) BY <1>3 DEF EndContext
<1>4. CASE \E r \in Runs : Begin(r)
  BY <1>1, <1>4 DEF Begin
<1>5. CASE \E r \in Runs : Answer(r)
  BY <1>5 DEF Answer, Settled, Kinds
<1>6. CASE \E r \in Runs : Stat(r) \/ Open(r) \/ DeliverFails(r)
  BY <1>1, <1>6 DEF Stat, Open, DeliverFails, Step
<1>7. CASE \E r \in Runs : Deliver(r)
  BY <1>1, <1>7 DEF Deliver, Step
<1>8. CASE \E s \in Sessions : GoIdle(s)
  <2>1. PICK s \in Sessions : GoIdle(s) BY <1>8
  <2>2. \A r \in Runs : Outcome(r) \in Kinds BY DEF Outcome, IInv, TypeOK, Kinds
  <2>3. \A r \in Runs : js'[r] = js[r] \/ js'[r] \in Kinds
    BY <2>1, <2>2 DEF GoIdle
  <2>4. UNCHANGED <<job, ctxDone>> BY <2>1 DEF GoIdle
  <2>5. QED BY <2>3, <2>4 DEF Kinds
<1>9. CASE \E s \in Sessions : \/ StartTurn(s) \/ StartFails(s) \/ ClaimFails(s)
                              \/ EndFails(s) \/ \E kind \in Kinds : EndTurn(s, kind)
  BY <1>9 DEF StartTurn, StartFails, ClaimFails, EndFails, EndTurn
<1>10. CASE UNCHANGED turnVars BY <1>10 DEF turnVars
<1>11. QED
  BY <1>2, <1>3, <1>4, <1>5, <1>6, <1>7, <1>8, <1>9, <1>10 DEF Next, World

\* Two run()s of a session that wait at once: one of them is not the job.
LEMMA TwoWait ==
  ASSUME TypeOK, Abandoned, NEW s \in Sessions, Cardinality(Subscribers(s)) > 1
  PROVE  \E u \in ctxDone : SessionOf[u] = s
<1> SUFFICES ASSUME \A u \in ctxDone : SessionOf[u] # s PROVE FALSE
  OBVIOUS
<1>1. \A u \in Subscribers(s) : u = job
  BY DEF Subscribers, Abandoned
<1>2. Subscribers(s) \in SUBSET {job} BY <1>1
<1>3. IsFiniteSet({job}) /\ Cardinality({job}) = 1 BY FS_Singleton
<1>4. Cardinality(Subscribers(s)) <= 1 BY <1>2, <1>3, FS_Subset
<1>5. Cardinality(Subscribers(s)) \in Nat BY <1>2, <1>3, FS_Subset, FS_CardinalityType
<1>6. QED BY <1>4, <1>5

\* What was explained stays so.
LEMMA StaysExplained ==
  ASSUME NEW e, NEW S, NEW T, S \subseteq T, Explained(e, S)
  PROVE  Explained(e, T)
BY DEF Explained

LEMMA DoublesKeep ==
  ASSUME CarrierInv, IInv, Abandoned, Doubles, [InProcessNext]_vars
  PROVE  Abandoned' /\ Doubles'
<1>1. Abandoned' /\ ctxDone \subseteq ctxDone'
  BY StepsAreTurns, AbandonedKeeps
<1>2. ASSUME UNCHANGED <<events, fan, got>> PROVE Doubles'
  BY <1>1, <1>2, StaysExplained DEF Doubles, Holding
<1>3. CASE \E s \in Sessions : Chunk(s) \/ TurnEnds(s)
  <2>1. PICK s \in Sessions, kind \in {"chunk", "end"} : Emit(s, kind) /\ UNCHANGED <<fan, got>>
    BY <1>3 DEF Chunk, TurnEnds
  <2>2. InProcessTypeOK BY Typed DEF CarrierInv, IInv
  <2>3. \A i \in 1..Len(events') :
          \/ i \in 1..Len(events) /\ events'[i] = events[i]
          \/ /\ events'[i].session = s /\ events'[i].copy \in Nat
             /\ events'[i].copy <= Cardinality(Subscribers(s))
    <3>1. events \in Seq(Event) /\ events' \in Seq(Event) BY <2>1, <2>2, EmitAdds DEF InProcessTypeOK
    <3>2. \A i \in 1..Len(events') : events'[i].copy \in Nat BY <3>1, Numbers
    <3>3. QED BY <2>1, <2>2, <3>2, EmitAdds
  <2>4. Cardinality(Subscribers(s)) \in Nat
    <3>1. Subscribers(s) \in SUBSET Runs BY DEF Subscribers
    <3>2. QED BY <3>1, FS_Subset, FS_CardinalityType, InProcessConstants
  <2>5. \A i \in 1..Len(events') : Explained(events'[i], ctxDone)
    <3> SUFFICES ASSUME NEW i \in 1..Len(events') PROVE Explained(events'[i], ctxDone)
      OBVIOUS
    <3>1. CASE i \in 1..Len(events) /\ events'[i] = events[i]
      BY <3>1 DEF Doubles
    <3>2. CASE events'[i].session = s /\ events'[i].copy \in Nat
                /\ events'[i].copy <= Cardinality(Subscribers(s))
      <4>1. events'[i].copy > 1 => \E u \in ctxDone : SessionOf[u] = s
        BY <2>4, <3>2, TwoWait DEF IInv
      <4>2. QED BY <3>2, <4>1 DEF Explained
    <3>3. QED BY <2>3, <3>1, <3>2
  <2>6. QED BY <1>1, <2>1, <2>5, StaysExplained DEF Doubles, Holding
<1>4. CASE FanReceive
  <2>1. events \in Seq(Event) /\ events # <<>> BY <1>4 DEF CarrierInv, StreamTypes, FanReceive
  <2>2. /\ Head(events) = events[1] /\ Len(events) \in Nat /\ Len(events) > 0
        /\ Len(Tail(events)) = Len(events) - 1
        /\ \A i \in 1..Len(Tail(events)) : Tail(events)[i] = events[i + 1]
    BY <2>1, LenProperties, EmptySeq, HeadTailProperties
  <2>3. /\ fan'.event = events[1] /\ events' = Tail(events) /\ got' = got
    BY <1>4, <2>2 DEF FanReceive
  <2>4. /\ Explained(events[1], ctxDone)
        /\ \A i \in 1..Len(Tail(events)) : Explained(Tail(events)[i], ctxDone)
    BY <2>2 DEF Doubles
  <2>5. QED BY <1>1, <2>3, <2>4, StaysExplained DEF Doubles
<1>5. CASE FanLook
  <2>1. UNCHANGED <<events, got>> /\ Holding /\ (Holding' => fan'.event = fan.event)
    BY <1>5 DEF FanLook, Receiving, Holding, stream, CarrierInv, StreamTypes
  <2>2. QED BY <1>1, <2>1, StaysExplained DEF Doubles
<1>6. CASE FanCall
  <2>1. /\ UNCHANGED events /\ ~Holding' /\ Explained(fan.event, ctxDone)
        /\ fan.to \in Runs /\ got \in [Runs -> Seq(Event)]
        /\ got' = [got EXCEPT ![fan.to] = Append(@, fan.event)] /\ fan.event \in Event
    BY <1>6 DEF FanCall, Receiving, Holding, stream, CarrierInv, StreamTypes, Doubles
  <2>2. \A r \in Runs : \A k \in 1..Len(got'[r]) :
          \/ k \in 1..Len(got[r]) /\ got'[r][k] = got[r][k]
          \/ got'[r][k] = fan.event
    <3> SUFFICES ASSUME NEW r \in Runs, NEW k \in 1..Len(got'[r])
                 PROVE  \/ k \in 1..Len(got[r]) /\ got'[r][k] = got[r][k]
                        \/ got'[r][k] = fan.event
      OBVIOUS
    <3>1. CASE r = fan.to
      <4>1. got[r] \in Seq(Event) /\ got'[r] = Append(got[r], fan.event) BY <2>1, <3>1
      <4>2. QED BY <2>1, <4>1, AppendProperties, LenProperties
    <3>2. CASE r # fan.to BY <2>1, <3>2
    <3>3. QED BY <3>1, <3>2
  <2>3. \A r \in Runs : \A k \in 1..Len(got'[r]) : Explained(got'[r][k], ctxDone)
    BY <2>1, <2>2 DEF Doubles
  <2>4. QED BY <1>1, <2>1, <2>3, StaysExplained DEF Doubles
<1>7. CASE SinkReturns \/ FanExit
  <2>1. UNCHANGED <<events, got>> /\ ~Holding'
    BY <1>7 DEF SinkReturns, FanExit, Receiving, Holding, stream
  <2>2. QED BY <1>1, <2>1, StaysExplained DEF Doubles
<1>8. CASE \E r \in Runs : Caller(r)
  BY <1>1, <1>2, <1>8, CallerStep DEF Still, stream
<1>9. CASE Closes
  BY <1>1, <1>2, <1>9 DEF Closes, CloseFlag, CloseHarness, CloseRequests, OwnerStops, CloseReturns, Close,
                    stream
<1>10. CASE UNCHANGED carrier
  BY <1>1, <1>2, <1>10 DEF carrier, stream
<1>11. QED
  BY <1>1, <1>3, <1>4, <1>5, <1>6, <1>7, <1>8, <1>9, <1>10, Cases DEF Fans, vars

LEMMA DoublesInductive == InProcessSpec => [](CarrierInv /\ Abandoned /\ Doubles)
<1>1. InProcessInit => Abandoned /\ Doubles
  BY DEF InProcessInit, Init, Abandoned, Doubles, Holding, Receiving
<1>2. InProcessSpec => []IInv BY Refines, Inductive, PTL
<1>3. QED BY <1>1, <1>2, DoublesKeep, CarrierInductive, PTL DEF InProcessSpec

\* Each sink is given events in the order they were emitted, no copy of one
\* twice or to two sinks, and two copies of one event only in a session a run
\* of which was cancelled: whatever is dropped at the full channel
\* (harness.go:412), and though each run() that waits has a forwarder of its
\* own (boot.js, forwardEvents).
THEOREM WireOrder == InProcessSpec => []InWireOrder
<1>1. CarrierInv /\ Doubles => InWireOrder
  <2> SUFFICES ASSUME CarrierInv, Doubles PROVE InWireOrder
    OBVIOUS
  <2>1. \A r \in Runs : got[r] \in Seq(Event) /\ DOMAIN got[r] = 1..Len(got[r])
    BY LenProperties DEF CarrierInv, StreamTypes
  <2>2. \A r \in Runs : \A i, j \in DOMAIN got[r] : i < j => Before(got[r][i], got[r][j])
    BY <2>1 DEF CarrierInv, Wire, Given, Ordered
  <2>3. \A r, u \in Runs : r # u =>
          \A i \in DOMAIN got[r] : \A j \in DOMAIN got[u] :
            <<got[r][i].n, got[r][i].copy>> # <<got[u][j].n, got[u][j].copy>>
    BY <2>1 DEF CarrierInv, Wire, Apart
\* Of two copies the later one is not the first.
  <2>4. ASSUME NEW r \in Runs, NEW i \in DOMAIN got[r], NEW j \in DOMAIN got[r],
               i < j, got[r][i].n = got[r][j].n
        PROVE  \E u \in ctxDone : SessionOf[u] = got[r][j].session
    <3>1. Before(got[r][i], got[r][j]) BY <2>2, <2>4
    <3>2. got[r][i] \in Event /\ got[r][j] \in Event BY <2>1, ElementOfSeq
    <3>3. /\ got[r][i].n \in Nat
          /\ got[r][i].copy \in Nat \ {0} /\ got[r][j].copy \in Nat \ {0}
      BY <3>2 DEF Event
    <3>4. got[r][j].copy > 1 BY <2>4, <3>1, <3>3 DEF Before
    <3>5. Explained(got[r][j], ctxDone) BY <2>1 DEF Doubles
    <3>6. QED BY <3>4, <3>5 DEF Explained
  <2>5. QED BY <2>2, <2>3, <2>4 DEF InWireOrder
<1>2. QED BY <1>1, DoublesInductive, PTL

\* Nothing is heard after Close: fanOut has exited by then (inprocess.go, Close).
THEOREM Silent == InProcessSpec => SilentAfterClose
<1>1. CarrierInv /\ TypeOK /\ [InProcessNext]_vars =>
        [closing = "closed" => UNCHANGED got]_vars
  <2> SUFFICES ASSUME CarrierInv, InProcessNext, closing = "closed"
               PROVE  UNCHANGED got
    BY DEF vars, carrier
  <2>1. fan.at = "exited" BY DEF CarrierInv, Gone
  <2>2. ~FanCall BY <2>1 DEF FanCall
  <2>3. CASE \E r \in Runs : Caller(r)
    BY <2>3 DEF Caller, Enter, Acquire, Hook, HarnessRun, RunReturns, RunGives, Unhook, ReadResult
  <2>4. CASE Fans \/ Closes
    BY <2>2, <2>4 DEF Fans, FanReceive, FanLook, SinkReturns, FanExit, Closes, CloseFlag,
       CloseHarness, CloseRequests, OwnerStops, CloseReturns, Close
  <2>5. CASE \E s \in Sessions : Chunk(s) \/ TurnEnds(s)
    BY <2>5 DEF Chunk, TurnEnds
  <2>6. QED BY <2>3, <2>4, <2>5, Cases DEF vars, carrier
<1>2. QED BY <1>1, CarrierInductive, PTL DEF InProcessSpec, SilentAfterClose

-----------------------------------------------------------------------------
(* With one session, its lock serialises the setting of the one sink.      *)

Hooked == \A r \in Runs : at[r] \in {"hooked", "inside", "unhook"} => sink = r

\* While a run is inside, its session's events go to it, for any number of runs
\* of a harness with one session (inprocess.go, Prompt and fanOut).
THEOREM EventsReachTheirRun ==
  ASSUME \A r, u \in Runs : SessionOf[r] = SessionOf[u]
  PROVE  InProcessSpec => ReachesItsRun
<1>1. InProcessInit => Hooked
  BY DEF InProcessInit, Hooked
<1>2. CarrierInv /\ Hooked /\ [InProcessNext]_vars => Hooked'
  <2> SUFFICES ASSUME CarrierInv, Hooked, [InProcessNext]_vars PROVE Hooked'
    OBVIOUS
  <2> USE TurnsConstants DEF CarrierInv, RunTypes, Locked, Hooked, Move
  <2>1. ASSUME NEW r \in Runs, Hook(r) PROVE Hooked'
    BY <2>1 DEF Hook
  <2>2. ASSUME NEW r \in Runs, Unhook(r) PROVE Hooked'
    BY <2>2 DEF Unhook
  <2>3. ASSUME NEW r \in Runs,
               Enter(r) \/ Acquire(r) \/ HarnessRun(r) \/ RunReturns(r) \/ ReadResult(r)
        PROVE  Hooked'
    BY <2>3 DEF Enter, Acquire, HarnessRun, RunReturns, RunGives, ReadResult
  <2>4. CASE UNCHANGED <<runs, sink>>
    BY <2>4 DEF runs
  <2>5. CASE Fans \/ Closes
    <3>1. UNCHANGED <<runs, sink>>
      BY <2>5 DEF Fans, FanReceive, FanLook, FanCall, SinkReturns, FanExit, Closes, CloseFlag,
         CloseHarness, CloseRequests, OwnerStops, CloseReturns, Close
    <3>2. QED BY <2>4, <3>1
  <2>6. CASE \E s \in Sessions : Chunk(s) \/ TurnEnds(s)
    BY <2>4, <2>6 DEF Chunk, TurnEnds
  <2>7. QED
    BY <2>1, <2>2, <2>3, <2>4, <2>5, <2>6, Cases DEF Caller, vars, carrier
<1>3. CarrierInv /\ Hooked /\ [InProcessNext]_vars =>
        [fan.at = "look" /\ fan' # fan =>
           \A r \in Runs :
             at[r] = "inside" /\ SessionOf[r] = fan.event.session =>
               fan'.to = r]_vars
  <2> SUFFICES ASSUME CarrierInv, Hooked, InProcessNext, fan.at = "look", fan' # fan,
                      NEW r \in Runs, at[r] = "inside"
               PROVE  fan'.to = r
    BY DEF vars, carrier
  <2>1. FanLook
    <3>1. CASE \E q \in Runs : Caller(q)
      BY <3>1 DEF Caller, Enter, Acquire, Hook, HarnessRun, RunReturns, RunGives, Unhook, ReadResult
    <3>2. CASE Fans \/ Closes
      BY <3>2 DEF Fans, FanReceive, FanCall, SinkReturns, FanExit, Closes, CloseFlag,
         CloseHarness, CloseRequests, OwnerStops, CloseReturns, Close
    <3>3. CASE \E s \in Sessions : Chunk(s) \/ TurnEnds(s)
      BY <3>3 DEF Chunk, TurnEnds
    <3>4. QED BY <3>1, <3>2, <3>3, Cases DEF vars, carrier
  <2>2. sink = r /\ r # None BY TurnsConstants DEF Hooked
  <2>3. QED BY <2>1, <2>2 DEF FanLook, CarrierInv, StreamTypes
<1>4. QED BY <1>1, <1>2, <1>3, CarrierInductive, PTL DEF InProcessSpec, ReachesItsRun
-----------------------------------------------------------------------------
(* The carrier's promise.  That a Prompt which succeeds had its message     *)
(* received rests on where a run is in the carrier and in the turns beneath *)
(* at once: it has no run() before it called harness.Run, and what it was   *)
(* told is what its run() settled with.                                     *)

Unsubmitted ==
  \A r \in Runs :
    /\ at[r] \in {"new", "lock", "prompt", "hooked"} => call[r] = "new"
    /\ result[r] = "sdk.ErrClosed" => at[r] = "done" /\ call[r] = "new"
SinkIsSet == sink # None => at[sink] \in {"hooked", "inside", "unhook"}
ToldTruly ==
  \A r \in Runs : /\ reply[r] \in Settled => js[r] = reply[r]
                  /\ result[r] = "ok" => js[r] \in {"completed", "blocked"}
Drained ==
  /\ closing \in {"stopping", "stopped", "closed"} => \A r \in Runs : call[r] # "queued"
  /\ closing \in {"stopped", "closed"} => job = None

PromptInv == Unsubmitted /\ SinkIsSet /\ ToldTruly /\ Drained

LEMMA CallerPrompt ==
  ASSUME CarrierInv, IInv, PromptInv, NEW r \in Runs, Caller(r)
  PROVE  PromptInv'
<1> USE TurnsConstants DEF Move
<1>1. /\ at \in [Runs -> {"new", "lock", "prompt", "hooked", "inside", "unhook", "read", "done"}]
      /\ result \in [Runs -> Results]
      /\ call \in [Runs -> {"new", "queued", "waiting", "returned"}]
      /\ answer \in [Runs -> Replies \cup {"none"}]
      /\ sink \in Runs \cup {None}
  BY DEF CarrierInv, RunTypes, StreamTypes, IInv, TypeOK
<1>2. CASE Enter(r) \/ Acquire(r) \/ ReadResult(r)
  <2>1. /\ UNCHANGED <<ctxDone, call, answer, reply, job, js, sink, closing>>
        /\ \E from \in {"new", "lock", "read"}, to \in {"lock", "prompt", "done"} :
             /\ Move(r, from, to) /\ (to # "done" => from # "read")
             /\ \/ result' = result
                \/ from = "new" /\ to = "done" /\ result' = [result EXCEPT ![r] = "sdk.ErrClosed"]
    BY <1>2 DEF Enter, Acquire, ReadResult, turnVars, callers
  <2>2. Unsubmitted' BY <1>1, <2>1 DEF PromptInv, Unsubmitted
  <2>3. SinkIsSet' BY <1>1, <2>1 DEF PromptInv, SinkIsSet
  <2>4. ToldTruly' BY <1>1, <2>1 DEF PromptInv, ToldTruly
  <2>5. Drained' BY <2>1 DEF PromptInv, Drained
  <2>6. QED BY <2>2, <2>3, <2>4, <2>5 DEF PromptInv
<1>3. CASE Hook(r) \/ Unhook(r)
  <2>1. /\ UNCHANGED <<call, reply, job, js, result, closing>>
        /\ \/ at[r] = "prompt" /\ at' = [at EXCEPT ![r] = "hooked"] /\ sink' = r
           \/ at[r] = "unhook" /\ at' = [at EXCEPT ![r] = "read"] /\ sink' = None
    BY <1>3 DEF Hook, Unhook, turnVars, callers
  <2>2. Unsubmitted' BY <1>1, <2>1 DEF PromptInv, Unsubmitted
  <2>3. SinkIsSet' BY <1>1, <2>1 DEF SinkIsSet
  <2>4. ToldTruly' BY <2>1 DEF PromptInv, ToldTruly
  <2>5. Drained' BY <2>1 DEF PromptInv, Drained
  <2>6. QED BY <2>2, <2>3, <2>4, <2>5 DEF PromptInv
<1>4. CASE HarnessRun(r)
  <2>1. /\ UNCHANGED <<reply, job, js, sink, closing>> /\ at[r] = "hooked"
        /\ \/ /\ closing \in {"open", "flagged"} /\ at' = [at EXCEPT ![r] = "inside"]
              /\ call' = [call EXCEPT ![r] = "queued"] /\ result' = result
           \/ /\ at' = [at EXCEPT ![r] = "unhook"] /\ UNCHANGED call
              /\ result' = [result EXCEPT ![r] = "runtime closed"]
    BY <1>4 DEF HarnessRun, Submit, turnVars, callers
  <2>2. Unsubmitted'
    <3>1. /\ at'[r] \in {"inside", "unhook"} /\ result'[r] # "sdk.ErrClosed"
          /\ \A q \in Runs \ {r} : /\ at'[q] = at[q] /\ result'[q] = result[q]
                                  /\ call'[q] = call[q]
      BY <1>1, <2>1 DEF PromptInv, Unsubmitted
    <3>2. QED BY <3>1 DEF PromptInv, Unsubmitted
  <2>3. SinkIsSet' BY <1>1, <2>1 DEF PromptInv, SinkIsSet
  <2>4. ToldTruly' BY <1>1, <2>1 DEF PromptInv, ToldTruly
  <2>5. Drained' BY <2>1 DEF PromptInv, Drained
  <2>6. QED BY <2>2, <2>3, <2>4, <2>5 DEF PromptInv
<1>5. CASE RunReturns(r)
  <2>1. PICK o : RunGives(r, o) /\ o \in {ResultOf(answer'[r]), "runtime closed"}
    BY <1>5 DEF RunReturns
  <2>2. /\ UNCHANGED <<reply, job, js, sink, closing>> /\ at[r] = "inside"
        /\ at' = [at EXCEPT ![r] = "unhook"] /\ call' = [call EXCEPT ![r] = "returned"]
        /\ result' = [result EXCEPT ![r] = o]
        /\ answer'[r] = "ctx" \/ answer'[r] = reply[r]
    BY <1>1, <2>1 DEF RunGives, Return, GiveUp
  <2>3. Unsubmitted'
    <3>1. o # "sdk.ErrClosed" BY <2>1 DEF ResultOf
    <3>2. QED BY <1>1, <2>2, <3>1 DEF PromptInv, Unsubmitted
  <2>4. SinkIsSet' BY <1>1, <2>2 DEF PromptInv, SinkIsSet
  <2>5. ToldTruly'
    <3>1. o = "ok" => reply[r] \in {"completed", "blocked"} /\ js[r] = reply[r]
      BY <2>1, <2>2 DEF ResultOf, PromptInv, ToldTruly, Settled, Kinds
    <3>2. QED BY <1>1, <2>2, <3>1 DEF PromptInv, ToldTruly
  <2>6. Drained' BY <1>1, <2>2 DEF PromptInv, Drained
  <2>7. QED BY <2>3, <2>4, <2>5, <2>6 DEF PromptInv
<1>6. QED BY <1>2, <1>3, <1>4, <1>5 DEF Caller

\* Steps of the turns beneath that are no caller's.
LEMMA WorldPrompt ==
  ASSUME CarrierInv, IInv, PromptInv, UNCHANGED <<at, result, sink, closing>>,
         \/ Beneath
         \/ \E s \in Sessions : ClaimFails(s) \/ \E kind \in Kinds : EndTurn(s, kind)
         \/ UNCHANGED turnVars
  PROVE  PromptInv'
<1>1. /\ call \in [Runs -> {"new", "queued", "waiting", "returned"}]
      /\ reply \in [Runs -> Replies \cup {"none"}]
      /\ js \in [Runs -> Settled \cup {"none", "stat", "create", "found", "waiting"}]
  BY DEF IInv, TypeOK
<1>2. SinkIsSet' BY DEF PromptInv, SinkIsSet
\* What such a step does to a call, to the job and to a settled run().
<1>3. /\ \A r \in Runs : js[r] \in Settled => js'[r] = js[r]
      /\ \/ UNCHANGED <<call, job>>
         \/ \E r \in Runs : call[r] = "queued" /\ call' = [call EXCEPT ![r] = "waiting"]
         \/ job' = None /\ UNCHANGED call
      /\ \A r \in Runs : reply'[r] \in Settled => reply'[r] = reply[r] \/ reply'[r] = js[r]
  <2>1. CASE \E r \in Runs : Runner(r)
    <3>1. UNCHANGED <<call, job, reply>>
      BY <2>1 DEF Runner, Stat, Open, Deliver, DeliverFails, callers
    <3>2. \A r \in Runs : js[r] \in Settled => js'[r] = js[r]
      BY <1>1, <2>1 DEF Runner, Stat, Open, Deliver, DeliverFails, Step, Settled, Kinds
    <3>3. QED BY <3>1, <3>2
  <2>2. CASE \E r \in Runs : Begin(r)
    <3>1. PICK r \in Runs : Begin(r) BY <2>2
    <3>2. /\ UNCHANGED reply /\ call[r] = "queued" /\ js[r] = "none"
          /\ call' = [call EXCEPT ![r] = "waiting"]
          /\ \A q \in Runs \ {r} : js'[q] = js[q]
      BY <1>1, <3>1 DEF Begin, IInv, Unbegun
    <3>3. QED BY <3>2 DEF Settled, Kinds
  <2>3. CASE \E r \in Runs : Answer(r)
    BY <1>1, <2>3 DEF Answer, callers, Settled, Kinds
  <2>4. CASE \E s \in Sessions : GoIdle(s)
    <3>1. \A r \in Runs : js[r] # "waiting" => js'[r] = js[r]
      BY <2>4 DEF GoIdle, Subscribers
    <3>2. UNCHANGED <<call, job, reply>> BY <2>4 DEF GoIdle, callers
    <3>3. QED BY <3>1, <3>2 DEF Settled, Kinds
  <2>5. CASE \/ \E r \in Runs : EndContext(r)
             \/ \E s \in Sessions : \/ StartTurn(s) \/ StartFails(s) \/ ClaimFails(s)
                                    \/ EndFails(s) \/ \E kind \in Kinds : EndTurn(s, kind)
             \/ UNCHANGED turnVars
    <3>1. UNCHANGED <<call, job, reply, js>>
      BY <2>5 DEF EndContext, StartTurn, StartFails, ClaimFails, EndFails, EndTurn, turnVars,
                  callers
    <3>2. QED BY <3>1
  <2>6. QED BY <2>1, <2>2, <2>3, <2>4, <2>5 DEF Beneath
<1>4. Unsubmitted' BY <1>1, <1>3 DEF PromptInv, Unsubmitted
<1>5. Drained' BY <1>1, <1>3 DEF PromptInv, Drained
<1>6. ToldTruly'
  <2>1. \A r \in Runs : result[r] = "ok" => js'[r] \in {"completed", "blocked"}
    BY <1>3 DEF PromptInv, ToldTruly, Settled, Kinds
  <2>2. QED BY <1>3, <2>1 DEF PromptInv, ToldTruly
<1>7. QED BY <1>2, <1>4, <1>5, <1>6 DEF PromptInv

LEMMA PromptStep ==
  ASSUME CarrierInv, IInv, PromptInv, [InProcessNext]_vars
  PROVE  PromptInv'
<1>1. CASE \E r \in Runs : Caller(r)
  BY <1>1, CallerPrompt
<1>2. CASE Beneath /\ UNCHANGED carrier
  BY <1>2, WorldPrompt DEF carrier, runs
<1>3. CASE \E s \in Sessions : Chunk(s) \/ TurnEnds(s)
  BY <1>3, WorldPrompt DEF Chunk, TurnEnds, runs
<1>4. CASE Fans
  BY <1>4, WorldPrompt DEF Fans, FanReceive, FanLook, FanCall, SinkReturns, FanExit, runs
<1>5. CASE Closes
  <2>1. UNCHANGED <<at, result, sink, call, reply, job, js>>
    BY <1>5 DEF Closes, CloseFlag, CloseHarness, CloseRequests, OwnerStops, CloseReturns, Close,
                turnVars, callers, runs
  <2>2. /\ closing' \in {"stopping", "stopped", "closed"} =>
             closing \in {"stopping", "stopped"} \/ \A r \in Runs : call[r] # "queued"
        /\ closing' \in {"stopped", "closed"} => closing = "stopped" \/ job = None
    BY <1>5 DEF Closes, CloseFlag, CloseHarness, CloseRequests, OwnerStops, CloseReturns, Close,
                Parked
  <2>3. QED BY <2>1, <2>2 DEF PromptInv, Unsubmitted, SinkIsSet, ToldTruly, Drained
<1>6. CASE UNCHANGED vars
  BY <1>6, WorldPrompt DEF vars, carrier, runs
<1>7. QED BY <1>1, <1>2, <1>3, <1>4, <1>5, <1>6, Cases

LEMMA PromptInductive == InProcessSpec => [](CarrierInv /\ IInv /\ PromptInv)
<1>1. InProcessInit => PromptInv
  BY DEF InProcessInit, Init, PromptInv, Unsubmitted, SinkIsSet, ToldTruly, Drained, Settled, Kinds
<1>2. InProcessSpec => []IInv BY Refines, Inductive, PTL
<1>3. QED BY <1>1, <1>2, PromptStep, CarrierInductive, PTL DEF InProcessSpec
-----------------------------------------------------------------------------
(* Every step of the callers, of fanOut, of Close and of the harness is a   *)
(* step of Carrier or changes nothing Carrier sees.                         *)

Calls  == [r \in Runs |-> CallOf(r)]
Works  == [r \in Runs |-> WorkOf(r)]
Givens == [r \in Runs |-> [i \in DOMAIN got[r] |-> got[r][i].n]]
Hand   == IF fan.at = "call" THEN fan.to ELSE None
Shut   == closing = "closed"

LEMMA InitPromise == InProcessInit => Promise!Init
<1> SUFFICES ASSUME InProcessInit PROVE Promise!Init
  OBVIOUS
<1> USE TurnsConstants DEF InProcessInit, Receiving
<1>1. \A r \in Runs : CallOf(r) = "new" /\ WorkOf(r) = "none"
  BY DEF CallOf, WorkOf, Kinds, Init
<1>2. Givens = [r \in Runs |-> <<>>]
  <2>1. \A r \in Runs : [i \in DOMAIN got[r] |-> got[r][i].n] = <<>>
    <3> TAKE r \in Runs
    <3>1. DOMAIN got[r] = {} OBVIOUS
    <3>2. [i \in {} |-> got[r][i].n] = <<>> OBVIOUS
    <3>3. QED BY <3>1, <3>2
  <2>2. QED BY <2>1 DEF Givens
<1>3. emitted = 0 /\ ~Shut /\ Hand = None BY DEF Shut, Hand
<1>4. QED BY <1>1, <1>2, <1>3 DEF Promise!Init, Givens, Shut, Hand

\* Steps Carrier does not see.
LEMMA Unseen ==
  ASSUME UNCHANGED <<got, emitted, fan, Shut>>,
         \A r \in Runs : CallOf(r)' = CallOf(r) /\ WorkOf(r)' = WorkOf(r)
  PROVE  UNCHANGED Promise!vars
<1>1. UNCHANGED <<Calls, Works, Givens, Hand>> BY DEF Calls, Works, Givens, Hand
<1>2. QED BY <1>1 DEF Promise!vars, Calls, Works, Givens, Hand, Shut

\* A run's call, and the sink's setting and clearing around it.
LEMMA CallerPromise ==
  ASSUME CarrierInv, IInv, PromptInv, NEW r \in Runs, Caller(r)
  PROVE  [Promise!Next]_(Promise!vars)
<1>1. /\ at \in [Runs -> {"new", "lock", "prompt", "hooked", "inside", "unhook", "read", "done"}]
      /\ result \in [Runs -> Results]
      /\ at[r] # "done" => result[r] # "sdk.ErrClosed"
  BY DEF CarrierInv, RunTypes, PromptInv, Unsubmitted
<1>2. /\ UNCHANGED <<got, emitted, fan, closing, js>>
      /\ UNCHANGED <<Works, Givens, Hand, Shut>>
  <2>1. UNCHANGED <<got, emitted, fan, closing, js>>
    BY DEF Caller, Enter, Acquire, Hook, HarnessRun, RunReturns, RunGives, Unhook, ReadResult, turnVars,
           stream, Submit, Return, GiveUp
  <2>2. QED BY <2>1 DEF Works, WorkOf, Givens, Hand, Shut
<1>3. \A q \in Runs \ {r} : at'[q] = at[q] /\ result'[q] = result[q]
  BY <1>1 DEF Caller, Enter, Acquire, Hook, HarnessRun, RunReturns, RunGives, Unhook, ReadResult, Move
<1>4. \A q \in Runs \ {r} : CallOf(q)' = CallOf(q)
  BY <1>3 DEF CallOf
<1>5. CASE Hook(r)
  <2>1. CallOf(r) = "new" /\ CallOf(r)' = "called"
    BY <1>1, <1>5 DEF Hook, Move, CallOf
  <2>2. Calls[r] = "new" /\ Calls' = [Calls EXCEPT ![r] = "called"]
    BY <1>4, <2>1 DEF Calls
  <2>3. Promise!Call(r)
    BY <1>2, <2>2 DEF Promise!Call, Calls, Works, Givens, Hand, Shut
  <2>4. QED BY <2>3 DEF Promise!Next
<1>6. CASE Unhook(r)
  <2>1. /\ at[r] = "unhook" /\ at'[r] = "read" /\ result' = result
    BY <1>1, <1>6 DEF Unhook, Move
  <2> DEFINE o == IF result[r] = "ok" THEN "ok" ELSE "error"
  <2>2. CallOf(r) = "called" /\ CallOf(r)' = o
    BY <1>1, <2>1 DEF CallOf
  <2>3. o = "ok" => WorkOf(r) = "idle"
    BY DEF PromptInv, ToldTruly, WorkOf, Kinds
  <2> HIDE DEF o
  <2>4. Calls[r] = "called" /\ Calls' = [Calls EXCEPT ![r] = o]
    BY <1>4, <2>2 DEF Calls
  <2>5. o = "ok" => Works[r] = "idle" BY <2>3 DEF Works
  <2>6. Promise!Return(r, o)
    BY <1>2, <2>4, <2>5 DEF Promise!Return, Calls, Works, Givens, Hand, Shut
  <2>7. o \in Promise!Returns BY DEF o, Promise!Returns
  <2>8. QED BY <2>6, <2>7 DEF Promise!Next
<1>7. CASE ~Hook(r) /\ ~Unhook(r)
  <2>1. CallOf(r)' = CallOf(r)
    <3>1. CASE Enter(r) \/ Acquire(r)
      BY <1>1, <3>1 DEF Enter, Acquire, Move, CallOf
    <3>2. CASE HarnessRun(r) \/ RunReturns(r)
      BY <1>1, <3>2 DEF HarnessRun, RunReturns, RunGives, Move, CallOf
    <3>3. CASE ReadResult(r)
      BY <1>1, <3>3 DEF ReadResult, Move, CallOf
    <3>4. QED BY <1>7, <3>1, <3>2, <3>3 DEF Caller
  <2>2. \A q \in Runs : WorkOf(q)' = WorkOf(q) BY <1>2 DEF WorkOf
  <2>3. QED BY <1>2, <1>4, <2>1, <2>2, Unseen
<1>8. QED BY <1>5, <1>6, <1>7

\* A step of the event loop: a prompt is queued, an agent goes idle, or events
\* are emitted.  None of it happens once Close has returned.
LEMMA LoopPromise ==
  ASSUME CarrierInv, IInv, PromptInv,
         UNCHANGED <<at, result, got, fan, closing, emitted>>, Beneath
  PROVE  [Promise!Next]_(Promise!vars)
<1>1. /\ js \in [Runs -> Settled \cup {"none", "stat", "create", "found", "waiting"}]
      /\ emitted \in Nat
  BY DEF IInv, TypeOK, CarrierInv, StreamTypes
<1>2. \A r \in Runs : CallOf(r)' = CallOf(r) BY DEF CallOf
<1>3. UNCHANGED <<Calls, Givens, Hand, Shut>> BY <1>2 DEF Calls, Givens, Hand, Shut
<1>4. CASE \E r \in Runs : Deliver(r)
  <2>1. PICK r \in Runs : Deliver(r) BY <1>4
  <2>2. /\ js[r] = "found" /\ js' = [js EXCEPT ![r] = "waiting"] /\ job # None
    BY <2>1 DEF Deliver, Step, Pumped
  <2>3. ~Shut BY <2>2 DEF PromptInv, Drained, Shut
  <2>4. WorkOf(r) = "none" /\ WorkOf(r)' = "received"
    BY <1>1, <2>2 DEF WorkOf, Kinds
  <2>5. \A q \in Runs \ {r} : WorkOf(q)' = WorkOf(q)
    BY <1>1, <2>2 DEF WorkOf
  <2>6. Works[r] = "none" /\ Works' = [Works EXCEPT ![r] = "received"]
    BY <2>4, <2>5 DEF Works
  <2>7. Calls[r] # "new"
    <3>1. call[r] # "new" BY <2>2 DEF IInv, Unbegun
    <3>2. /\ at[r] \notin {"new", "lock", "prompt", "hooked"}
          /\ result[r] # "sdk.ErrClosed"
      BY <3>1 DEF PromptInv, Unsubmitted
    <3>3. at[r] \in {"inside", "unhook", "read", "done"}
      BY <3>2 DEF CarrierInv, RunTypes
    <3>4. CallOf(r) # "new" BY <3>2, <3>3 DEF CallOf
    <3>5. QED BY <3>4 DEF Calls
  <2>8. Promise!Receive(r)
    BY <1>1, <1>3, <2>3, <2>6, <2>7
    DEF Promise!Receive, Promise!Sends, Calls, Works, Givens, Hand, Shut
  <2>9. QED BY <2>8 DEF Promise!Next
<1>5. CASE \E s \in Sessions : GoIdle(s)
  <2>1. PICK s \in Sessions : GoIdle(s) BY <1>5
  <2>2. /\ job # None
        /\ js' = [r \in Runs |-> IF r \in Subscribers(s) THEN Outcome(r) ELSE js[r]]
    BY <2>1 DEF GoIdle, Pumped
  <2>3. ~Shut BY <2>2 DEF PromptInv, Drained, Shut
  <2>4. \A r \in Runs : Outcome(r) \in Kinds BY DEF Outcome, IInv, TypeOK, Kinds
  <2>5. Works' = [r \in Runs |-> IF SessionOf[r] = s /\ Works[r] = "received"
                                 THEN "idle" ELSE Works[r]]
    <3>1. ASSUME NEW r \in Runs
          PROVE  WorkOf(r)' = IF SessionOf[r] = s /\ WorkOf(r) = "received"
                              THEN "idle" ELSE WorkOf(r)
      <4>1. "waiting" \notin Kinds BY DEF Kinds
      <4>2. CASE r \in Subscribers(s)
        <5>1. js[r] = "waiting" /\ SessionOf[r] = s /\ js'[r] = Outcome(r)
          BY <2>2, <4>2 DEF Subscribers
        <5>2. WorkOf(r) = "received" /\ WorkOf(r)' = "idle"
          BY <2>4, <4>1, <5>1 DEF WorkOf
        <5>3. QED BY <5>1, <5>2
      <4>3. CASE r \notin Subscribers(s)
        <5>1. js'[r] = js[r] /\ ~(js[r] = "waiting" /\ SessionOf[r] = s)
          BY <2>2, <4>3 DEF Subscribers
        <5>2. WorkOf(r)' = WorkOf(r) BY <5>1 DEF WorkOf
        <5>3. WorkOf(r) = "received" => js[r] = "waiting" BY DEF WorkOf
        <5>4. QED BY <5>1, <5>2, <5>3
      <4>4. QED BY <4>2, <4>3
    <3>2. QED BY <3>1 DEF Works
  <2>6. Promise!GoIdle(s)
    BY <1>1, <1>3, <2>3, <2>5 DEF Promise!GoIdle, Promise!Sends, Calls, Works, Givens, Hand, Shut
  <2>7. QED BY <2>6 DEF Promise!Next
<1>6. CASE ~(\E r \in Runs : Deliver(r)) /\ ~(\E s \in Sessions : GoIdle(s))
  <2>1. \A q \in Runs : js'[q] = js[q] \/ {js[q], js'[q]} \cap (Kinds \cup {"waiting"}) = {}
    <3>1. CASE \E r \in Runs : EndContext(r) \/ Answer(r)
      BY <3>1 DEF EndContext, Answer
    <3>2. CASE \E r \in Runs : Stat(r) \/ Open(r) \/ DeliverFails(r)
      BY <1>1, <3>2 DEF Stat, Open, DeliverFails, Step, Kinds
    <3>3. CASE \E r \in Runs : Begin(r)
      BY <1>1, <3>3 DEF Begin, IInv, Unbegun, Kinds
    <3>4. CASE \E s \in Sessions : StartTurn(s) \/ StartFails(s) \/ EndFails(s)
      BY <3>4 DEF StartTurn, StartFails, EndFails
    <3>5. QED BY <1>6, <3>1, <3>2, <3>3, <3>4 DEF Beneath, Runner
  <2>2. \A q \in Runs : WorkOf(q)' = WorkOf(q)
    BY <2>1 DEF WorkOf
  <2>3. QED BY <1>2, <1>3, <2>2, Unseen
<1>7. QED BY <1>4, <1>5, <1>6

\* A turn's events, and its end, are notifications the harness sends.
LEMMA EmitPromise ==
  ASSUME CarrierInv, IInv, PromptInv, NEW s \in Sessions, Chunk(s) \/ TurnEnds(s)
  PROVE  [Promise!Next]_(Promise!vars)
<1>1. PICK kind \in {"chunk", "end"} :
        Emit(s, kind) /\ job # None /\ UNCHANGED <<at, result, js, got, fan, closing>>
  BY DEF Chunk, TurnEnds, EndTurn, ClaimFails, Opening, Pumped, runs, turnVars
<1>2. emitted' \in Nat /\ emitted' >= emitted
  <2>1. InProcessTypeOK BY Typed DEF CarrierInv, IInv
  <2>2. emitted' \in Nat /\ emitted <= emitted' BY <1>1, <2>1, EmitAdds
  <2>3. QED BY <2>2 DEF CarrierInv, StreamTypes
<1>3. ~Shut BY <1>1 DEF PromptInv, Drained, Shut
<1>4. \A r \in Runs : CallOf(r)' = CallOf(r) BY <1>1 DEF CallOf
<1>5. UNCHANGED <<Calls, Works, Givens, Hand, Shut>>
  BY <1>1, <1>4 DEF Calls, Works, WorkOf, Givens, Hand, Shut
<1>6. Promise!Send
  BY <1>2, <1>3, <1>5 DEF Promise!Send, Promise!Sends, Calls, Works, Givens, Hand, Shut
<1>7. QED BY <1>6 DEF Promise!Next

\* The numbers of a sequence of events.
LEMMA GivenNumbers ==
  ASSUME NEW g \in Seq(Event), NEW e \in Event
  PROVE  LET num == [i \in DOMAIN g |-> g[i].n]
             h   == Append(g, e) IN
         /\ num \in Seq(Nat) /\ Len(num) = Len(g)
         /\ [i \in DOMAIN h |-> h[i].n] = Append(num, e.n)
<1> DEFINE num == [i \in DOMAIN g |-> g[i].n]
           h   == Append(g, e)
<1> PICK k \in Nat : k = Len(g) OBVIOUS
<1>1. /\ DOMAIN g = 1..k /\ DOMAIN h = 1..k + 1
      /\ h[k + 1] = e /\ \A i \in 1..k : h[i] = g[i]
  OBVIOUS
<1>2. e.n \in Nat /\ \A i \in 1..k : g[i].n \in Nat
  <2>1. \A i \in 1..k : g[i] \in Event BY <1>1
  <2>2. QED BY <2>1 DEF Event
<1>3. num \in [1..k -> Nat] BY <1>1, <1>2
<1>4. num \in Seq(Nat) /\ Len(num) = k BY <1>3
<1> DEFINE t == Append(num, e.n)
<1>5. /\ t \in [1..k + 1 -> Nat] /\ t[k + 1] = e.n /\ \A i \in 1..k : t[i] = num[i]
  <2> HIDE DEF num
  <2>1. t \in Seq(Nat) /\ Len(t) = k + 1 BY <1>2, <1>4
  <2>2. t[k + 1] = e.n /\ \A i \in 1..k : t[i] = num[i] BY <1>2, <1>4
  <2> HIDE DEF t
  <2>3. t \in [1..k + 1 -> Nat] BY <2>1
  <2>4. QED BY <2>2, <2>3
<1>6. \A i \in 1..k + 1 : t[i] = h[i].n
  <2>1. \A i \in 1..k : t[i] = h[i].n BY <1>1, <1>5
  <2>2. \A i \in 1..k + 1 : i \in 1..k \/ i = k + 1 OBVIOUS
  <2>3. QED BY <1>1, <1>5, <2>1, <2>2
<1>7. [i \in DOMAIN h |-> h[i].n] = t
  <2> HIDE DEF t, h
  <2>1. QED BY <1>1, <1>5, <1>6
<1>8. QED BY <1>4, <1>7

\* The sink fanOut picked is given an event no older than its last.
LEMMA FanGives ==
  ASSUME CarrierInv, FanCall, NEW p \in Runs, p = fan.to
  PROVE  Promise!Gives(p)
<1> DEFINE e == fan.event
           g == got[p]
<1>1. /\ p \in Runs /\ e \in Event /\ g \in Seq(Event) /\ got \in [Runs -> Seq(Event)]
      /\ emitted \in Nat /\ Holding /\ fan.at = "call"
      /\ got' = [got EXCEPT ![p] = Append(g, e)]
  BY DEF CarrierInv, StreamTypes, FanCall, Holding
<1>2. e.n \in 0..emitted
  <2>1. e.n \in Nat BY <1>1 DEF Event
  <2>2. e.n <= emitted BY <1>1 DEF CarrierInv, Wire, Held
  <2>3. QED BY <1>1, <2>1, <2>2
<1>3. Givens[p] = [i \in DOMAIN g |-> g[i].n] BY <1>1 DEF Givens
<1>4. Givens[p] \in Seq(Nat) /\ Len(Givens[p]) = Len(g)
  BY <1>1, <1>3, GivenNumbers
<1>5. Givens[p] # <<>> => \/ Givens[p][Len(Givens[p])] < e.n
                         \/ Givens[p][Len(Givens[p])] = e.n
  <2> SUFFICES ASSUME Givens[p] # <<>>
               PROVE  \/ Givens[p][Len(Givens[p])] < e.n
                      \/ Givens[p][Len(Givens[p])] = e.n
    OBVIOUS
  <2>1. Len(g) \in 1..Len(g)
    <3>1. Len(Givens[p]) # 0
      <4> DEFINE t == Givens[p]
      <4> HIDE DEF t
      <4>1. t \in Seq(Nat) /\ t # <<>> BY <1>4 DEF t
      <4>2. Len(t) # 0 BY <4>1
      <4>3. QED BY <4>2 DEF t
    <3>2. QED BY <1>1, <1>4, <3>1
  <2>2. g[Len(g)].n < e.n \/ g[Len(g)].n = e.n
    BY <1>1, <2>1 DEF CarrierInv, Wire, Arrived, Before
  <2>3. Len(g) \in DOMAIN g BY <1>1, <2>1
  <2>4. QED BY <1>3, <1>4, <2>2, <2>3
<1>6. Givens' = [Givens EXCEPT ![p] = Append(Givens[p], e.n)]
  <2>1. Givens'[p] = Append(Givens[p], e.n)
    <3>1. got'[p] = Append(g, e) BY <1>1
    <3>2. Givens'[p] = [i \in DOMAIN Append(g, e) |-> Append(g, e)[i].n]
      BY <1>1, <3>1 DEF Givens
    <3>3. QED BY <1>1, <1>3, <3>2, GivenNumbers
  <2>2. \A q \in Runs \ {p} : got'[q] = got[q] BY <1>1
  <2>3. \A q \in Runs \ {p} : Givens'[q] = Givens[q] BY <2>2 DEF Givens
  <2>4. Givens = [q \in Runs |-> Givens[q]] /\ Givens' = [q \in Runs |-> Givens'[q]]
    BY DEF Givens
  <2>5. QED BY <1>1, <2>1, <2>3, <2>4
<1>7. QED BY <1>2, <1>5, <1>6 DEF Promise!Gives, Promise!Younger, Givens

LEMMA FanPromise ==
  ASSUME CarrierInv, PromptInv, Fans
  PROVE  [Promise!Next]_(Promise!vars)
<1> USE TurnsConstants
<1>1. /\ UNCHANGED <<at, result, js, emitted, closing>>
      /\ UNCHANGED <<Calls, Works, Shut>>
  <2>1. UNCHANGED <<at, result, js, emitted, closing>>
    BY DEF Fans, FanReceive, FanLook, FanCall, SinkReturns, FanExit, turnVars, runs, stream
  <2>2. QED BY <2>1 DEF Calls, CallOf, Works, WorkOf, Shut
<1>2. fan \in [at : {"receive", "look", "call", "sink", "exited"},
               event : Event \cup {None}, to : Runs \cup {None}]
  BY DEF CarrierInv, StreamTypes
<1>3. CASE FanReceive \/ FanExit \/ SinkReturns \/ (FanLook /\ sink = None)
  <2>1. fan.at # "call" /\ fan'.at # "call" /\ UNCHANGED got
    BY <1>2, <1>3 DEF FanReceive, FanExit, SinkReturns, FanLook, Receiving
  <2>2. UNCHANGED <<Givens, Hand>> BY <2>1 DEF Givens, Hand
  <2>3. QED BY <1>1, <2>2 DEF Promise!vars, Calls, Works, Givens, Hand, Shut
<1>4. CASE FanLook /\ sink # None
  <2>1. /\ fan.at = "look" /\ fan'.at = "call" /\ fan'.to = sink /\ UNCHANGED got
        /\ sink \in Runs
    BY <1>2, <1>4 DEF FanLook, CarrierInv, RunTypes
  <2>2. UNCHANGED Givens /\ Hand = None /\ Hand' = sink BY <2>1 DEF Givens, Hand
  <2>3. Calls[sink] = "called"
    BY <1>4, <2>1 DEF PromptInv, SinkIsSet, Calls, CallOf
  <2>4. Promise!Pick(sink)
    BY <1>1, <2>2, <2>3 DEF Promise!Pick, Calls, Works, Givens, Hand, Shut
  <2>5. QED BY <2>1, <2>4 DEF Promise!Next
<1>5. CASE FanCall
  <2>1. fan.at = "call" /\ fan'.at = "sink" /\ fan.to \in Runs
    BY <1>5 DEF FanCall, Receiving, CarrierInv, StreamTypes
  <2>2. PICK r \in Runs : r = fan.to BY <2>1
  <2>3. Hand = r /\ Hand' = None BY <2>1, <2>2 DEF Hand
  <2>4. Promise!Gives(r) BY <1>5, <2>2, FanGives
  <2>5. Promise!Notify(r)
    BY <1>1, <2>3, <2>4 DEF Promise!Notify, Calls, Works, Hand, Shut
  <2>6. QED BY <2>5 DEF Promise!Next
<1>6. QED BY <1>3, <1>4, <1>5 DEF Fans

LEMMA StepPromise ==
  ASSUME CarrierInv, IInv, PromptInv, [InProcessNext]_vars
  PROVE  [Promise!Next]_(Promise!vars)
<1>1. CASE \E r \in Runs : Caller(r)
  BY <1>1, CallerPromise
<1>2. CASE Beneath /\ UNCHANGED carrier
  BY <1>2, LoopPromise DEF carrier, runs, stream
<1>3. CASE \E s \in Sessions : Chunk(s) \/ TurnEnds(s)
  BY <1>3, EmitPromise
<1>4. CASE Fans
  BY <1>4, FanPromise
<1>5. CASE Closes \/ UNCHANGED vars
  <2>1. UNCHANGED <<at, result, js, got, emitted, fan>>
    BY <1>5 DEF Closes, CloseFlag, CloseHarness, CloseRequests, OwnerStops, CloseReturns, Close,
                turnVars, runs, stream, vars, carrier
  <2>2. Shut' = Shut \/ Shut'
    BY <1>5 DEF Closes, CloseFlag, CloseHarness, CloseRequests, OwnerStops, CloseReturns, Close,
                Shut, vars, carrier
  <2>3. \A r \in Runs : CallOf(r)' = CallOf(r) /\ WorkOf(r)' = WorkOf(r)
    BY <2>1 DEF CallOf, WorkOf
  <2>4. CASE Shut' = Shut BY <2>1, <2>3, <2>4, Unseen
  <2>5. CASE Shut'
    <3>1. UNCHANGED <<Calls, Works, Givens, Hand>>
      BY <2>1, <2>3 DEF Calls, Works, Givens, Hand
    <3>2. Promise!Close
      BY <2>1, <2>5, <3>1 DEF Promise!Close, Calls, Works, Givens, Hand, Shut
    <3>3. QED BY <3>2 DEF Promise!Next
  <2>6. QED BY <2>2, <2>4, <2>5
<1>6. QED BY <1>1, <1>2, <1>3, <1>4, <1>5, Cases

\* sdk/inprocess.go implements sdk.Carrier: with the queue of turns, run()'s
\* promise, the bounded channel and fanOut between them, Prompt succeeds only
\* after the agent went idle with its message received, a sink is picked only
\* while its Prompt is on and given events in order, and the harness does
\* nothing any more after Close.
THEOREM InProcessIsACarrier == InProcessSpec => ImplementsCarrier
<1>1. CarrierInv /\ IInv /\ PromptInv /\ [InProcessNext]_vars
        => [Promise!Next]_(Promise!vars)
  BY StepPromise
<1>2. QED
  BY <1>1, InitPromise, PromptInductive, PTL
  DEF InProcessSpec, ImplementsCarrier, Promise!Spec
=============================================================================
