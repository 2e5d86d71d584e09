---------------------------- MODULE HarnessOwner ----------------------------
(***************************************************************************)
(* internal/runtime/harness.go: the goroutine that owns the JavaScript     *)
(* world, and the exported methods that hand it work from any goroutine.   *)
(*                                                                         *)
(* A critical section under h.mu contains no blocking operation, so each   *)
(* is one step.  Everything after the unlock is a step of its own: that is *)
(* where Start, submit and Close can overtake one another.                 *)
(*                                                                         *)
(* The JavaScript world is abstracted to what these methods can tell of    *)
(* it: whether it is open, which job it is running, whether that job waits *)
(* for a Go tool, and that it emits events.                                *)
(***************************************************************************)
CONSTANTS
  Calls,       \* the calls to submit: every Run and every Tools
  Starts,      \* the calls to Start
  Closes,      \* the calls to Close
  None,        \* no call
  HasPlugins   \* does the configuration name Go plugins?

ASSUME ConstantsOK ==
  /\ None \notin Calls
  /\ HasPlugins \in BOOLEAN

VARIABLES
  started, closed,   \* h.started and h.closed, guarded by h.mu
  requests,          \* h.requests, an unbuffered channel
  stopped,           \* has h.stopped been closed?
  startErr,          \* h.startErr, a channel of capacity 1
  eventsOpen,        \* is h.events still open?
  owner,             \* where own() is
  cur,               \* the call whose job own() is running
  engine, bridge,    \* the two things own() opens and closes
  base,              \* the context every Go plugin's work derives from
  start,             \* where each Start is
  close,             \* where each Close is
  call,              \* where each submit is
  outcome,           \* what each submit returned
  reply,             \* req.reply of each call, a channel of capacity 1
  ctxDone,           \* contexts of Start and submit that have ended
  tool,              \* the goroutine of the Go tool each call's turn started
  panic              \* the runtime panic that ended the process, if any

flags    == <<started, closed>>
channels == <<requests, stopped, startErr, eventsOpen>>
world    == <<engine, bridge, base>>
methods  == <<start, close, call, outcome>>
calls    == <<call, outcome>>
place    == <<owner, cur>>
env      == <<ctxDone, tool>>
notCall  == <<flags, channels, place, world, start, close, env>>
notClose == <<place, world, start, calls, reply, env>>
notOwn   == <<flags, methods, env>>
vars == <<flags, channels, place, world, methods, reply, env, panic>>

OwnerAt   == {"none", "engine", "install", "boot", "serve", "job", "shutdown",
              "closeEngine", "closeBridge", "cancelBase", "closeEvents",
              "closeStopped", "exited"}
Outcomes  == {"none", "ok", "error", "errClosed", "notStarted", "ctx"}
Panics    == {"none", "send on closed requests", "close of closed requests",
              "send on closed events", "close of closed events"}

TypeOK ==
  /\ started \in BOOLEAN
  /\ closed \in BOOLEAN
  /\ requests \in {"nil", "open", "closed"}
  /\ stopped \in BOOLEAN
  /\ startErr \in {"empty", "ok", "error"}
  /\ eventsOpen \in BOOLEAN
  /\ owner \in OwnerAt
  /\ cur \in Calls \cup {None}
  /\ engine \in {"none", "open", "closed"}
  /\ bridge \in {"none", "open", "closed"}
  /\ base \in {"none", "live", "cancelled"}
  /\ start \in [Starts -> {"new", "waiting", "done"}]
  /\ close \in [Closes -> {"new", "closeEvents", "closeRequests", "waiting",
                           "done", "doneAlready"}]
  /\ call \in [Calls -> {"new", "checked", "sending", "waiting", "done"}]
  /\ outcome \in [Calls -> Outcomes]
  /\ reply \in [Calls -> {"empty", "ok", "error"}]
  /\ ctxDone \in SUBSET (Calls \cup Starts)
  /\ tool \in [Calls -> {"none", "running", "returned"}]
  /\ panic \in Panics

Init ==
  /\ started = FALSE
  /\ closed = FALSE
  /\ requests = "nil"
  /\ stopped = FALSE
  /\ startErr = "empty"
  /\ eventsOpen = TRUE
  /\ owner = "none"
  /\ cur = None
  /\ engine = "none"
  /\ bridge = "none"
  /\ base = "none"
  /\ start = [s \in Starts |-> "new"]
  /\ close = [k \in Closes |-> "new"]
  /\ call = [c \in Calls |-> "new"]
  /\ outcome = [c \in Calls |-> "none"]
  /\ reply = [c \in Calls |-> "empty"]
  /\ ctxDone = {}
  /\ tool = [c \in Calls |-> "none"]
  /\ panic = "none"

-----------------------------------------------------------------------------
(* Start.  A second Start, or one after Close, is refused under the lock.  *)

RefusedOnlyTwice == started   \* mutant: a closed harness can be started
Refused == closed \/ started

StartBegin(s) ==
  /\ start[s] = "new"
  /\ \/ /\ Refused
        /\ start' = [start EXCEPT ![s] = "done"]
        /\ UNCHANGED <<started, requests, owner>>
     \/ /\ ~Refused
        /\ started' = TRUE
        /\ requests' = "open"
        /\ owner' = "engine"
        /\ start' = [start EXCEPT ![s] = "waiting"]
  /\ UNCHANGED <<closed, stopped, startErr, eventsOpen, cur, world, close,
                 calls, reply, env, panic>>

\* The select at the end of Start: own()'s verdict, or the caller's context.
StartReturn(s) ==
  /\ start[s] = "waiting"
  /\ \/ /\ startErr # "empty"
        /\ startErr' = "empty"
     \/ /\ s \in ctxDone
        /\ UNCHANGED startErr
  /\ start' = [start EXCEPT ![s] = "done"]
  /\ UNCHANGED <<flags, requests, stopped, eventsOpen, place, world, close,
                 calls, reply, env, panic>>

-----------------------------------------------------------------------------
(* submit, which Run and Tools go through.                                 *)

Return(c, o) ==
  /\ call' = [call EXCEPT ![c] = "done"]
  /\ outcome' = [outcome EXCEPT ![c] = o]

\* The two flags are read under the lock and used after it is released.
CheckFlags(c) ==
  /\ call[c] = "new"
  /\ \/ closed /\ Return(c, "errClosed")
     \/ ~closed /\ ~started /\ Return(c, "notStarted")
     \/ /\ ~closed /\ started
        /\ call' = [call EXCEPT ![c] = "checked"]
        /\ UNCHANGED outcome
  /\ UNCHANGED <<notCall, reply, panic>>

\* Go parks the goroutine in the select only when no case is ready; once one
\* becomes ready the goroutine is committed to it.
Parked(c) == call[c] = "sending" /\ c \notin ctxDone /\ ~stopped

ParkInSend(c) ==
  /\ call[c] = "checked"
  /\ c \notin ctxDone /\ ~stopped /\ requests = "open"
  /\ call' = [call EXCEPT ![c] = "sending"]
  /\ UNCHANGED <<notCall, outcome, reply, panic>>

\* A select that arrives at a closed channel may choose its send: a panic.
SendOnClosed(c) ==
  /\ call[c] = "checked" /\ requests = "closed"
  /\ panic' = "send on closed requests"
  /\ UNCHANGED <<notCall, calls, reply>>

GiveUpOnceClosed(c) ==   \* mutant: gives up on the flag, not on the exit
  /\ call[c] \in {"checked", "sending", "waiting"}
  /\ closed /\ Return(c, "errClosed")
  /\ UNCHANGED <<notCall, reply, panic>>

GiveUp(c) ==
  /\ call[c] \in {"checked", "sending", "waiting"}
  /\ \/ stopped /\ Return(c, "errClosed")
     \/ c \in ctxDone /\ Return(c, "ctx")
  /\ UNCHANGED <<notCall, reply, panic>>

TakeReply(c) ==
  /\ call[c] = "waiting" /\ reply[c] # "empty"
  /\ Return(c, reply[c])
  /\ reply' = [reply EXCEPT ![c] = "empty"]
  /\ UNCHANGED <<notCall, panic>>

-----------------------------------------------------------------------------
(* Close.                                                                  *)

CloseBegin(k) ==
  /\ close[k] = "new"
  /\ closed' = TRUE
  /\ close' = [close EXCEPT ![k] = IF closed THEN "doneAlready"
                                   ELSE IF started THEN "closeRequests"
                                   ELSE "closeEvents"]
  /\ UNCHANGED <<notClose, started, channels, panic>>

\* close(h.events): by Close on a harness that never started, or by own().
ShutEvents ==
  /\ eventsOpen' = FALSE
  /\ panic' = IF eventsOpen THEN panic ELSE "close of closed events"

CloseUnstarted(k) ==
  /\ close[k] = "closeEvents"
  /\ ShutEvents
  /\ close' = [close EXCEPT ![k] = "done"]
  /\ UNCHANGED <<notClose, flags, requests, stopped, startErr>>

\* Closing a channel wakes every goroutine parked in a send on it, and each
\* of them panics.
CloseRequests(k) ==
  /\ close[k] = "closeRequests"
  /\ requests' = "closed"
  /\ close' = [close EXCEPT ![k] = "waiting"]
  /\ panic' = IF requests = "closed" THEN "close of closed requests"
              ELSE IF \E c \in Calls : Parked(c) THEN "send on closed requests"
              ELSE panic
  /\ UNCHANGED <<notClose, flags, stopped, startErr, eventsOpen>>

CloseReturn(k) ==
  /\ close[k] = "waiting" /\ stopped
  /\ close' = [close EXCEPT ![k] = "done"]
  /\ UNCHANGED <<notClose, flags, channels, panic>>

-----------------------------------------------------------------------------
(* own: boot.  Each stage reports its failure on startErr and unwinds.     *)

SilentFailure(v) == startErr' = IF v = "ok" THEN v ELSE startErr   \* mutant
Verdict(v) == startErr' = v

NewEngine ==
  /\ owner = "engine"
  /\ base' = "live"
  /\ \/ engine' = "open" /\ owner' = "install" /\ UNCHANGED startErr
     \/ Verdict("error") /\ owner' = "closeBridge" /\ UNCHANGED engine
  /\ UNCHANGED <<notOwn, requests, stopped, eventsOpen, cur, bridge, reply, panic>>

Install ==
  /\ owner = "install"
  /\ \/ /\ bridge' = IF HasPlugins THEN "open" ELSE bridge
        /\ owner' = "boot"
        /\ UNCHANGED startErr
     \/ \* installBridge comes before the options script: either can fail
        /\ bridge' \in IF HasPlugins THEN {"none", "open"} ELSE {bridge}
        /\ Verdict("error")
        /\ owner' = "closeEngine"
  /\ UNCHANGED <<notOwn, requests, stopped, eventsOpen, cur, engine, base, reply, panic>>

Bootstrap ==
  /\ owner = "boot"
  /\ \/ Verdict("ok") /\ owner' = "serve"
     \/ Verdict("error") /\ owner' = "closeEngine"
  /\ UNCHANGED <<notOwn, requests, stopped, eventsOpen, cur, world, reply, panic>>

-----------------------------------------------------------------------------
(* own: the serving loop, for req := range h.requests.                     *)

Receive(c) ==
  /\ owner = "serve" /\ requests = "open" /\ Parked(c)
  /\ owner' = "job"
  /\ cur' = c
  /\ call' = [call EXCEPT ![c] = "waiting"]
  /\ UNCHANGED <<flags, channels, world, start, close, outcome, reply, env,
                 panic>>

\* A turn calls a Go tool: a goroutine of its own, outside the engine.
StartTool ==
  /\ owner = "job" /\ HasPlugins /\ tool[cur] = "none"
  /\ tool' = [tool EXCEPT ![cur] = "running"]
  /\ UNCHANGED <<flags, channels, place, world, methods, reply, ctxDone, panic>>

ToolReturns(c) ==
  /\ tool[c] = "running"
  /\ tool' = [tool EXCEPT ![c] = "returned"]
  /\ UNCHANGED <<flags, channels, place, world, methods, reply, ctxDone, panic>>

\* __dshEmit runs wherever JavaScript runs; the send never blocks.
emit ==
  /\ owner \in {"boot", "job", "shutdown"}
  /\ panic' = IF eventsOpen THEN panic ELSE "send on closed events"
  /\ UNCHANGED <<notOwn, channels, place, world, reply>>

UnbufferedRoom(c) == call[c] = "waiting"   \* mutant: make(chan replyMessage)
ReplyRoom(c) == reply[c] = "empty"

\* A turn waits for its tool, unless its own context has ended: AwaitContext
\* gives up then, and the job returns an error.
AwaitWithoutContext(c, v) == tool[c] # "running"   \* mutant: Await
JobReturns(c, v) == \/ tool[c] # "running"
                    \/ c \in ctxDone /\ v = "error"

Answer(c, v) == reply' = [reply EXCEPT ![c] = v]

FinishJob ==
  /\ owner = "job"
  /\ ReplyRoom(cur)
  /\ \E v \in {"ok", "error"} : JobReturns(cur, v) /\ Answer(cur, v)
  /\ cur' = None
  /\ owner' = "serve"
  /\ UNCHANGED <<notOwn, channels, world, panic>>

RangeEnds ==
  /\ owner = "serve" /\ requests = "closed"
  /\ owner' = "shutdown"
  /\ UNCHANGED <<notOwn, channels, cur, world, reply, panic>>

-----------------------------------------------------------------------------
(* own: shutdown, bounded by its five-second timeout, then the deferred    *)
(* calls, last registered first.                                           *)

StoppedTooEarly ==   \* mutant: close(h.stopped) deferred after close(h.events)
  [shutdown |-> "closeEngine", closeEngine |-> "closeBridge",
   closeBridge |-> "cancelBase", cancelBase |-> "closeStopped",
   closeStopped |-> "closeEvents", closeEvents |-> "exited"]
Deferred ==
  [shutdown |-> "closeEngine", closeEngine |-> "closeBridge",
   closeBridge |-> "cancelBase", cancelBase |-> "closeEvents",
   closeEvents |-> "closeStopped", closeStopped |-> "exited"]

Unwind ==
  /\ owner \in DOMAIN Deferred
  /\ owner' = Deferred[owner]
  /\ engine' = IF owner = "closeEngine" THEN "closed" ELSE engine
  /\ bridge' = IF owner = "closeBridge" /\ bridge = "open" THEN "closed"
               ELSE bridge
  /\ base' = IF owner = "cancelBase" THEN "cancelled" ELSE base
  /\ IF owner = "closeEvents" THEN ShutEvents ELSE UNCHANGED <<eventsOpen, panic>>
  /\ stopped' = (stopped \/ owner = "closeStopped")
  /\ UNCHANGED <<notOwn, requests, startErr, cur, reply>>

-----------------------------------------------------------------------------
(* The environment: contexts end.                                          *)

Cancel(x) ==
  /\ x \notin ctxDone
  /\ ctxDone' = ctxDone \cup {x}
  /\ UNCHANGED <<flags, channels, place, world, methods, reply, tool, panic>>

-----------------------------------------------------------------------------
Alive == panic = "none"   \* an unrecovered panic ends every goroutine

\* The program is over when it has panicked, or when every method has returned.
Over ==
  \/ panic # "none"
  \/ /\ \A c \in Calls : call[c] = "done" /\ tool[c] # "running"
     /\ \A k \in Closes : close[k] \in {"done", "doneAlready"}
     /\ \A s \in Starts : start[s] = "done"
     /\ owner \in {"none", "exited"}

Next ==
  \/ \E s \in Starts : \/ Alive /\ StartBegin(s)
                       \/ Alive /\ StartReturn(s)
  \/ \E c \in Calls : \/ Alive /\ CheckFlags(c)
                      \/ Alive /\ ParkInSend(c)
                      \/ Alive /\ SendOnClosed(c)
                      \/ Alive /\ GiveUp(c)
                      \/ Alive /\ TakeReply(c)
                      \/ Alive /\ Receive(c)
                      \/ Alive /\ ToolReturns(c)
  \/ \E k \in Closes : \/ Alive /\ CloseBegin(k)
                       \/ Alive /\ CloseUnstarted(k)
                       \/ Alive /\ CloseRequests(k)
                       \/ Alive /\ CloseReturn(k)
  \/ Alive /\ NewEngine
  \/ Alive /\ Install
  \/ Alive /\ Bootstrap
  \/ Alive /\ StartTool
  \/ Alive /\ emit
  \/ Alive /\ FinishJob
  \/ Alive /\ RangeEnds
  \/ Alive /\ Unwind
  \/ \E x \in Calls \cup Starts : Alive /\ Cancel(x)
  \/ Over /\ UNCHANGED vars

Spec == Init /\ [][Next]_vars

(***************************************************************************)
(* Fairness.  The Go scheduler runs every goroutine that can run, so the   *)
(* methods and own() are weakly fair where they depend on nobody else; and *)
(* AwaitContext ends a job whose context has ended.  Boot waits for the    *)
(* plugins' Apply, a turn for its provider, bridge.close() for the         *)
(* plugins' disposers: that these end is not promised, nor that anybody    *)
(* calls a method, ends a context, reads the events or returns from a tool.*)
(***************************************************************************)
Disposing == owner = "closeBridge" /\ bridge = "open"
Owner == \/ NewEngine \/ Install \/ RangeEnds
         \/ ~Disposing /\ Unwind
         \/ cur \in ctxDone /\ FinishJob
         \/ \E c \in Calls : Receive(c)
Submit(c) == ParkInSend(c) \/ SendOnClosed(c) \/ GiveUp(c) \/ TakeReply(c)
Shut(k) == CloseUnstarted(k) \/ CloseRequests(k) \/ CloseReturn(k)

Fairness ==
  /\ WF_vars(Alive /\ Owner)
  /\ \A s \in Starts : WF_vars(Alive /\ StartReturn(s))
  /\ \A c \in Calls : WF_vars(Alive /\ Submit(c))
  /\ \A k \in Closes : WF_vars(Alive /\ Shut(k))

FairSpec == Spec /\ Fairness

-----------------------------------------------------------------------------
(* What holds of every behaviour.                                          *)

\* Waiting for h.stopped is waiting for everything own() holds: by the time it
\* is closed no job runs, the engine and the bridge are closed, the plugins'
\* context is cancelled and the event stream has ended, however boot went.
StoppedMeansReleased ==
  stopped => /\ cur = None
             /\ engine # "open" /\ bridge # "open"
             /\ base = "cancelled"
             /\ ~eventsOpen

\* A job own() accepted is answered before own() stops: a caller still in its
\* second select then finds its answer in the reply channel, whichever of the
\* ready cases the select goes on to choose.
DrainedBeforeStop ==
  stopped => \A c \in Calls : call[c] = "waiting" => reply[c] # "empty"

\* Whatever the order of Start, Close and own()'s exit, h.requests and h.events
\* are each closed at most once, and no event is sent after the close.  (The
\* send on h.requests is another matter: SafeFromAnyGoroutine.)
ChannelsClosedOnce ==
  panic \notin {"close of closed requests", "close of closed events",
                "send on closed events"}

\* The job own() is running has its caller waiting, or lost it to its context
\* and to nothing else: a call refused with errClosed is not running, so its
\* caller may give back whatever the job would have used.
RunningJobHasOwner ==
  cur # None => \/ call[cur] = "waiting"
                \/ call[cur] = "done" /\ outcome[cur] = "ctx" /\ cur \in ctxDone

\* Whoever waits on own() waits for something it has done or has still to do,
\* and own() itself never waits for a caller: a Start for its verdict, a call
\* for its job, a Close for a loop that will find h.requests closed; and the
\* reply of the running job goes into an empty channel, taken or not.
NobodyWaitsInVain ==
  /\ \A s \in Starts : start[s] = "waiting" =>
       startErr # "empty" \/ owner \in {"engine", "install", "boot"}
  /\ \A c \in Calls : call[c] = "waiting" => cur = c \/ reply[c] # "empty"
  /\ \A k \in Closes : close[k] = "waiting" => owner # "none" /\ requests = "closed"
  /\ cur # None => reply[cur] = "empty"

-----------------------------------------------------------------------------
(* own() and submit implement SerialJobs.  A job is done once its answer is *)
(* in the reply channel or has been taken from it.                         *)

JobOf(c) == IF cur = c THEN "running"
            ELSE IF reply[c] # "empty" \/ outcome[c] \in {"ok", "error"} THEN "done"
            ELSE "new"
AnswerOf(c) == CASE outcome[c] = "none"             -> "none"
                 [] outcome[c] \in {"ok", "error"} -> "result"
                 [] outcome[c] = "ctx"              -> "abandoned"
                 [] OTHER                           -> "refused"

Jobs == INSTANCE SerialJobs
          WITH job <- [c \in Calls |-> JobOf(c)],
               answer <- [c \in Calls |-> AnswerOf(c)],
               open <- ~stopped

\* Whatever the interleaving, callers see SerialJobs: one job at a time, at
\* most once each, and no answer that contradicts what the job is doing.
ImplementsSerialJobs == Jobs!Spec

-----------------------------------------------------------------------------
(* What happens in the end.                                                *)

Panicked == ~Alive

\* A turn whose context ended leaves the engine, even with a Go tool that
\* never returns: the next call is not held up by an abandoned one.
CancelledJobEnds ==
  \A c \in Calls : (cur = c /\ c \in ctxDone) ~> (cur # c \/ Panicked)

\* What is asked of the world: the plugins' Apply, and so boot, comes to an end;
\* a turn ends once it waits for no tool; tools return, whatever happens to
\* their context; disposers return.
BootEnds         == WF_vars(Alive /\ Bootstrap)
TurnsEnd         == WF_vars(Alive /\ FinishJob)
ToolsReturn      == \A c \in Calls : tool[c] = "running" ~> tool[c] = "returned"
DisposersReturn  == WF_vars(Alive /\ Unwind)

\* Whoever waits on own() comes back.  If boot ends, a Start has its verdict,
\* whatever turns, tools and disposers do: each of the four ways through boot
\* sends exactly one.  If turns end and tools return as well, so does every call
\* that reached own(), abandoned calls before it notwithstanding (nobody
\* receives their answers); and so, if disposers return, does every Close.
CallersReturn ==
  BootEnds =>
    /\ \A s \in Starts : start[s] = "waiting" ~> (start[s] = "done" \/ Panicked)
    /\ TurnsEnd /\ ToolsReturn =>
         \A c \in Calls :
           call[c] = "waiting" ~> (call[c] = "done" \/ Panicked)
    /\ TurnsEnd /\ ToolsReturn /\ DisposersReturn =>
         /\ \A c \in Calls :
              call[c] = "sending" ~> (call[c] = "done" \/ Panicked)
         /\ \A k \in Closes :
              close[k] \notin {"new", "doneAlready"} ~> (close[k] = "done" \/ Panicked)

-----------------------------------------------------------------------------
(* What the comments say and the code does not do.                         *)

\* harness.go:10 "Every method here is safe to call from any goroutine": no
\* order of calls ends the process.
SafeFromAnyGoroutine == ~Panicked

\* The context Execute was given: bridge.callContext hands out h.base.
ToolContextEnded == base = "cancelled"

\* plugin.go:106 "The context is cancelled when the harness closes": a tool
\* running while Close waits is told to stop.
ClosingCancelsTools ==
  \A c \in Calls :
    (closed /\ tool[c] = "running")
      ~> (ToolContextEnded \/ tool[c] = "returned" \/ Panicked)
=============================================================================
