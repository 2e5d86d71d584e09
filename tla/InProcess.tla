------------------------------ MODULE InProcess ------------------------------
(***************************************************************************)
(* sdk/inprocess.go, the carrier that runs the harness in this program,    *)
(* under Session.Run and Harness.Close of sdk/sdk.go and over the turns of *)
(* Turns.  One goroutine, fanOut, reads the harness's bounded event        *)
(* channel and calls whichever sink is set; Prompt sets the sink, runs the *)
(* turn and clears it.  Nothing ties the two together: that is what this   *)
(* module is about.                                                        *)
(*                                                                         *)
(* Each run() that waits has a forwarder of its own, so an event of the    *)
(* session is sent once for every one of them: an abandoned run() is one.  *)
(* A call still parked on the channel of requests when Close closes it     *)
(* ends the process (HarnessOwner, SafeFromAnyGoroutine).                  *)
(***************************************************************************)
EXTENDS Turns, FiniteSets, Naturals

CONSTANTS
  Capacity,   \* of the harness's event channel (256 in the code)
  MaxEvents   \* bound: no chunk is emitted after this many events

ASSUME InProcessConstants ==
  /\ Capacity \in Nat \ {0} /\ MaxEvents \in Nat
  /\ IsFiniteSet(Runs)

VARIABLES
  at,        \* where each Session.Run is
  result,    \* what each Session.Run returned
  seen,      \* the events its result describes
  got,       \* the notifications its sink was called with
  lock,      \* Harness.sessions: the run that holds each session's mutex
  sink,      \* p.sink, as the run that set it
  events,    \* h.events
  emitted,   \* how many events the sessions emitted (numbers them)
  fan,       \* where fanOut is, the event it holds, the sink it read
  closing    \* how far Harness.Close is

runs    == <<at, result, lock>>
stream  == <<events, emitted>>
carrier == <<runs, seen, got, sink, stream, fan, closing>>
vars == <<turnVars, carrier>>

Results  == {"none", "ok", "failed", "ctx", "sdk.ErrClosed", "runtime closed"}
Receiving == [at |-> "receive", event |-> None, to |-> None]

\* What one forwarder sends: the copy-th copy of the n-th event.
Event == [session : Sessions, kind : {"chunk", "end"}, n : Nat, copy : Nat \ {0}]

InProcessTypeOK ==
  /\ TypeOK
  /\ at \in [Runs -> {"new", "lock", "prompt", "hooked", "inside", "unhook",
                      "read", "done"}]
  /\ result \in [Runs -> Results]
  /\ lock \in [Sessions -> Runs \cup {None}]
  /\ sink \in Runs \cup {None}
  /\ got \in [Runs -> Seq(Event)]
  /\ emitted \in Nat
  /\ events \in Seq(Event) /\ Len(events) <= Capacity
  /\ fan \in [at : {"receive", "look", "call", "sink", "exited"},
              event : Event \cup {None}, to : Runs \cup {None}]
  /\ fan.at \in {"look", "call"} => fan.event \in Event
  /\ fan.at = "call" => fan.to \in Runs
  /\ closing \in {"open", "flagged", "closing", "stopping", "stopped", "closed",
                  "crashed"}

InProcessInit ==
  /\ Init
  /\ at = [r \in Runs |-> "new"]
  /\ result = [r \in Runs |-> "none"]
  /\ seen = [r \in Runs |-> <<>>]
  /\ got = [r \in Runs |-> <<>>]
  /\ lock = [s \in Sessions |-> None]
  /\ sink = None
  /\ events = <<>>
  /\ emitted = 0
  /\ fan = Receiving
  /\ closing = "open"

-----------------------------------------------------------------------------
(* Session.Run.                                                            *)

Move(r, from, to) == at[r] = from /\ at' = [at EXCEPT ![r] = to]

\* h.closed is read here, under h.mu, and not again once the lock is had.
Enter(r) ==
  /\ \/ /\ closing # "open"
        /\ Move(r, "new", "done")
        /\ result' = [result EXCEPT ![r] = "sdk.ErrClosed"]
     \/ /\ closing = "open"
        /\ Move(r, "new", "lock")
        /\ UNCHANGED result
  /\ UNCHANGED <<turnVars, seen, got, lock, sink, stream, fan, closing>>

WithoutLock(r) ==   \* mutant: runs of one session are not serialised
  /\ Move(r, "lock", "prompt")
  /\ lock' = [lock EXCEPT ![SessionOf[r]] = r]
  /\ UNCHANGED <<turnVars, result, seen, got, sink, stream, fan, closing>>
Acquire(r) ==
  /\ Move(r, "lock", "prompt")
  /\ lock[SessionOf[r]] = None
  /\ lock' = [lock EXCEPT ![SessionOf[r]] = r]
  /\ UNCHANGED <<turnVars, result, seen, got, sink, stream, fan, closing>>

\* FinalResponse, FinishReason and TurnError read the session's own events.
OwnEvents(r) == SelectSeq(got[r], LAMBDA e : e.session = SessionOf[r])

KeepsTheLock(r) ==    \* mutant: the lock is not released
  /\ Move(r, "read", "done")
  /\ seen' = [seen EXCEPT ![r] = OwnEvents(r)]
  /\ UNCHANGED <<turnVars, result, got, lock, sink, stream, fan, closing>>
ReadResult(r) ==
  /\ Move(r, "read", "done")
  /\ seen' = [seen EXCEPT ![r] = OwnEvents(r)]
  /\ lock' = [lock EXCEPT ![SessionOf[r]] = None]
  /\ UNCHANGED <<turnVars, result, got, sink, stream, fan, closing>>

-----------------------------------------------------------------------------
(* inProcess.Prompt.                                                       *)

Hook(r) ==
  /\ Move(r, "prompt", "hooked")
  /\ sink' = r
  /\ UNCHANGED <<turnVars, result, seen, got, lock, stream, fan, closing>>

HarnessRun(r) ==
  /\ \/ /\ closing \in {"open", "flagged"}
        /\ Move(r, "hooked", "inside")
        /\ Submit(r)
        /\ UNCHANGED result
     \/ /\ closing \notin {"open", "flagged"}
        /\ Move(r, "hooked", "unhook")
        /\ result' = [result EXCEPT ![r] = "runtime closed"]
        /\ UNCHANGED turnVars
  /\ UNCHANGED <<seen, got, lock, sink, stream, fan, closing>>

\* A failed turn rejects run()'s promise, and so harness.Run returns an error.
ResultOf(reply_) ==
  CASE reply_ = "ctx" -> "ctx"
    [] reply_ \in {"completed", "blocked"} -> "ok"
    [] OTHER -> "failed"

\* Once the owner has stopped, the select in submit may take h.stopped.
RunGives(r, o) ==
  /\ Return(r) \/ GiveUp(r)
  /\ Move(r, "inside", "unhook")
  /\ result' = [result EXCEPT ![r] = o]
  /\ UNCHANGED <<seen, got, lock, sink, stream, fan, closing>>
DrainsFirst(r) ==   \* mutant: it returns when fanOut has nothing more to give
  /\ events = <<>> /\ fan.at = "receive"
  /\ RunGives(r, ResultOf(answer'[r]))
RunReturns(r) ==
  \/ RunGives(r, ResultOf(answer'[r]))
  \/ closing \in {"stopped", "closed"} /\ RunGives(r, "runtime closed")

LeavesTheSink(r) ==   \* mutant: the sink is not cleared
  /\ Move(r, "unhook", "read")
  /\ UNCHANGED <<turnVars, result, seen, got, lock, sink, stream, fan, closing>>
\* The deferred function clears the sink, whoever set it.
Unhook(r) ==
  /\ Move(r, "unhook", "read")
  /\ sink' = None
  /\ UNCHANGED <<turnVars, result, seen, got, lock, stream, fan, closing>>

-----------------------------------------------------------------------------
(* The harness: __dshEmit, emit and the world behind them.                 *)

\* Every subscribed run() of the session forwards the event; what finds the
\* channel full is dropped.
Copies(s, kind) ==
  [i \in 1..Cardinality(Subscribers(s)) |->
     [session |-> s, kind |-> kind, n |-> emitted + 1, copy |-> i]]

Kept(queue) ==
  SubSeq(queue, 1, IF Len(queue) < Capacity THEN Len(queue) ELSE Capacity)

\* Nothing is sent, and no event numbered, when nobody is subscribed.
Emit(s, kind) ==
  /\ events' = Kept(events \o Copies(s, kind))
  /\ emitted' = IF Subscribers(s) = {} THEN emitted ELSE emitted + 1

\* A turn streams: assistant/chunk and the other events before turn/end.
Chunk(s) ==
  /\ Pumped
  /\ serving[s] # None
  /\ emitted < MaxEvents
  /\ Emit(s, "chunk")
  /\ UNCHANGED <<turnVars, runs, seen, got, sink, fan, closing>>

\* turn/end, of a turn that served a message or could not claim one.
TurnEnds(s) ==
  /\ (\E kind \in Kinds : EndTurn(s, kind)) \/ ClaimFails(s)
  /\ Emit(s, "end")
  /\ UNCHANGED <<runs, seen, got, sink, fan, closing>>

InWorld(A) == A /\ UNCHANGED carrier

-----------------------------------------------------------------------------
(* fanOut.                                                                 *)

ChannelClosed == closing = "stopped"

FanReceive ==
  /\ fan.at = "receive"
  /\ events # <<>>
  /\ fan' = [at |-> "look", event |-> Head(events), to |-> None]
  /\ events' = Tail(events)
  /\ UNCHANGED <<turnVars, runs, seen, got, sink, emitted, closing>>

\* The sink is read under the lock and called after it is released.
FanLook ==
  /\ fan.at = "look"
  /\ fan' = IF sink = None THEN Receiving
            ELSE [fan EXCEPT !.at = "call", !.to = sink]
  /\ UNCHANGED <<turnVars, runs, seen, got, sink, stream, closing>>

\* The sink appends the event and calls the caller's functions, which may
\* never return.
CallAgain ==   \* mutant: the event is not given up after the call
  /\ fan.at = "call"
  /\ Len(got[fan.to]) <= MaxEvents
  /\ got' = [got EXCEPT ![fan.to] = Append(@, fan.event)]
  /\ fan' = [fan EXCEPT !.at = "look"]
  /\ UNCHANGED <<turnVars, runs, seen, sink, stream, closing>>
FanCall ==
  /\ fan.at = "call"
  /\ got' = [got EXCEPT ![fan.to] = Append(@, fan.event)]
  /\ fan' = [Receiving EXCEPT !.at = "sink"]
  /\ UNCHANGED <<turnVars, runs, seen, sink, stream, closing>>

SinkReturns ==
  /\ fan.at = "sink"
  /\ fan' = Receiving
  /\ UNCHANGED <<turnVars, runs, seen, got, sink, stream, closing>>

FanExit ==
  /\ fan.at = "receive"
  /\ events = <<>>
  /\ ChannelClosed
  /\ fan' = [Receiving EXCEPT !.at = "exited"]
  /\ UNCHANGED <<turnVars, runs, seen, got, sink, stream, closing>>

-----------------------------------------------------------------------------
(* Harness.Close, inProcess.Close and the harness's own Close.             *)

Close(from, to) ==
  /\ closing = from
  /\ closing' = to
  /\ UNCHANGED <<turnVars, runs, seen, got, sink, stream, fan>>

CloseFlag    == Close("open", "flagged")       \* sdk.Harness.closed
CloseHarness == Close("flagged", "closing")    \* harness.closed

\* close(h.requests) makes the send of a call that is parked on it panic.
Parked == \E r \in Runs : call[r] = "queued"
CloseRequests == Close("closing", IF Parked THEN "crashed" ELSE "stopping")

OwnerStops == job = None /\ Close("stopping", "stopped")

CloseAtOnce == Close("stopped", "closed")   \* mutant: <-p.done left out
CloseReturns ==
  /\ Close("stopped", "closed")
  /\ fan.at = "exited"

-----------------------------------------------------------------------------
Crashed == closing = "crashed"
Over == Crashed \/ (closing = "closed" /\ \A r \in Runs : at[r] = "done")

\* A process that panicked does nothing any more.
Alive(A) == ~Crashed /\ A

InProcessStep ==
  \/ \E r \in Runs : Enter(r)
  \/ \E r \in Runs : Acquire(r)
  \/ \E r \in Runs : Hook(r)
  \/ \E r \in Runs : HarnessRun(r)
  \/ \E r \in Runs : RunReturns(r)
  \/ \E r \in Runs : Unhook(r)
  \/ \E r \in Runs : ReadResult(r)
  \/ \E r \in Runs : InWorld(EndContext(r))
  \/ \E r \in Runs : InWorld(Begin(r))
  \/ \E r \in Runs : InWorld(Answer(r))
  \/ \E r \in Runs : InWorld(Runner(r))
  \/ \E s \in Sessions : InWorld(StartTurn(s))
  \/ \E s \in Sessions : InWorld(StartFails(s))
  \/ \E s \in Sessions : InWorld(EndFails(s))
  \/ \E s \in Sessions : InWorld(GoIdle(s))
  \/ \E s \in Sessions : Chunk(s)
  \/ \E s \in Sessions : TurnEnds(s)
  \/ FanReceive
  \/ FanLook
  \/ FanCall
  \/ SinkReturns
  \/ FanExit
  \/ CloseFlag
  \/ CloseHarness
  \/ CloseRequests
  \/ OwnerStops
  \/ CloseReturns

InProcessNext == Alive(InProcessStep) \/ (Over /\ UNCHANGED vars)

InProcessSpec == InProcessInit /\ [][InProcessNext]_vars

\* What a goroutine of the program does by itself, and what the event loop does.
Go ==
  \/ \E r \in Runs : \/ Acquire(r) \/ Hook(r) \/ HarnessRun(r) \/ RunReturns(r)
                    \/ Unhook(r) \/ ReadResult(r)
  \/ FanReceive \/ FanLook \/ FanCall \/ FanExit
  \/ CloseHarness \/ CloseRequests \/ OwnerStops \/ CloseReturns
Loop ==
  \/ \E r \in Runs : InWorld(Begin(r) \/ Answer(r) \/ Runner(r))
  \/ \E s \in Sessions : \/ InWorld(StartTurn(s) \/ StartFails(s) \/ GoIdle(s))
                        \/ (ClaimFails(s) /\ TurnEnds(s))

\* Goroutines and the event loop keep going.  No step is taken for ever (every
\* run, event and close is over after so many), so fairness to all of them
\* together is fairness to each, to whoever waits for a mutex too.  That a turn
\* or the caller's function ends is nowhere assumed.
InProcessFairness == WF_vars(Alive(Go)) /\ WF_vars(Alive(Loop))

InProcessFairSpec == InProcessSpec /\ InProcessFairness

-----------------------------------------------------------------------------
(* Safety.                                                                 *)

\* sdk.go, RunResult: "in wire order".  Each run's sink is given what was
\* emitted in the order it was emitted, and no copy of an event is given to a
\* sink twice or to two sinks, though the sink is set, cleared and read with
\* nothing in common with the turn.  A sink is given two copies of ONE event
\* only when a run of that session was cancelled: its run() forwards until the
\* session is idle (boot.js, forwardEvents, which sees to it that one run()
\* forwards nothing twice).
Before(e, f) == e.n < f.n \/ (e.n = f.n /\ e.copy < f.copy)
InWireOrder ==
  \A r \in Runs :
    /\ \A i, j \in DOMAIN got[r] : i < j =>
         /\ Before(got[r][i], got[r][j])
         /\ got[r][i].n = got[r][j].n =>
              \E u \in ctxDone : SessionOf[u] = got[r][j].session
    /\ \A u \in Runs \ {r} : \A i \in DOMAIN got[r] : \A j \in DOMAIN got[u] :
         <<got[r][i].n, got[r][i].copy>> # <<got[u][j].n, got[u][j].copy>>

\* inprocess.go, Close: "no notification arrives after Close returns".
SilentAfterClose == [][closing = "closed" => UNCHANGED got]_vars

\* While a run of a session is inside the harness, fanOut gives the session's
\* events to that run: so the runs of ONE session never lose an event to each
\* other's setting and clearing of the one sink.  (carrier.Prompt: "having
\* called sink for every notification it saw on the way".)
ReachesItsRun ==
  [][fan.at = "look" /\ fan' # fan =>
       \A r \in Runs :
         at[r] = "inside" /\ SessionOf[r] = fan.event.session =>
           fan'.to = r]_vars

(* The carrier's promise.  A Session.Run that finds the harness closed never
   calls Prompt.                                                           *)

CallOf(r) ==
  CASE at[r] \in {"hooked", "inside", "unhook"} -> "called"
    [] at[r] \in {"read", "done"} /\ result[r] # "sdk.ErrClosed" ->
         IF result[r] = "ok" THEN "ok" ELSE "error"
    [] OTHER -> "new"
WorkOf(r) == CASE js[r] = "waiting" -> "received"
               [] js[r] \in Kinds   -> "idle"
               [] OTHER             -> "none"
Promise == INSTANCE Carrier
             WITH Prompts <- Runs,
                  Once <- FALSE,
                  call <- [r \in Runs |-> CallOf(r)],
                  work <- [r \in Runs |-> WorkOf(r)],
                  given <- [r \in Runs |-> [i \in DOMAIN got[r] |-> got[r][i].n]],
                  sent <- emitted,
                  hand <- IF fan.at = "call" THEN fan.to ELSE None,
                  over <- closing = "closed"

\* sdk.go, Carrier: with the queue of turns, run()'s promise and fanOut between
\* them, a Prompt that succeeds has had its message received and the agent go
\* idle after it, and no sink is picked that was not set by a Prompt still on.
ImplementsCarrier == Promise!Spec

(* Liveness.                                                               *)

\* What the environment owes, where a property says so: a turn ends while some
\* job pumps the loop, and the caller's function returns.
TurnsEnd    == \A s \in Sessions : []<>(serving[s] = None \/ ~Pumped)
SinkReturned == []<>(fan.at # "sink")

\* Every Session.Run that was entered returns if turns end, and so does Close
\* if the caller's functions return too, whatever is closed or cancelled in
\* between; unless Close found a call parked on the channel it closes.  (Each
\* is made once, so "none is left in the middle" says it of every one.)
CallersReturn ==
  TurnsEnd =>
    /\ <>[](Crashed \/ \A r \in Runs : at[r] \in {"new", "done"})
    /\ SinkReturned => <>[](Crashed \/ closing \in {"open", "closed"})

\* A Session.Run that has its lock and whose context ended returns, even if no
\* turn ever ends, fanOut hangs in a function of the caller's, and Close with it.
CancelledRunReturns ==
  <>[](Crashed \/ \A r \in ctxDone : at[r] \in {"new", "lock", "done"})

(* What the documentation says.                                            *)

=============================================================================
