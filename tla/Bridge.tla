-------------------------------- MODULE Bridge --------------------------------
(***************************************************************************)
(* internal/runtime/bridge.go and plugin.go with js/bridge.js: Go plugins  *)
(* in the JavaScript world.  Three kinds of goroutine meet here: the one   *)
(* that owns the world and runs every step of JavaScript; those of the     *)
(* plugins (Apply, and workers a plugin starts), which cross over with     *)
(* perform; and one for each unmount, which runs the Go disposers.  When   *)
(* the harness closes, the owner itself runs what disposers are left.      *)
(*                                                                         *)
(* A critical section under b.mu is one step.  Tool calls, the other way   *)
(* over the bridge, are in HarnessOwner.                                   *)
(***************************************************************************)
EXTENDS Naturals, Sequences, SequencesExt

CONSTANTS
  Mounts,         \* each apply() of a Go component, with its context's handle
  Effects,        \* calls of Context.Effect, made by Apply
  Workers,        \* other calls of perform, from a goroutine of the plugin
  MountOf,        \* the mount of each call
  MaxDisposers,   \* bound: calls of OnDispose
  Close, None,    \* the owner as a runner of disposers; nobody
  Teardown        \* the Go teardown in cordis's list

Calls == Effects \cup Workers

ASSUME BridgeConstants ==
  /\ Effects \cap Workers = {}
  /\ MountOf \in [Calls -> Mounts]
  /\ MaxDisposers \in Nat
  /\ Close \notin Mounts
  /\ Teardown \notin Calls
  /\ None \notin Mounts \X (1 .. MaxDisposers)

VARIABLES
  own,        \* where the owning goroutine is: the world, or closing it
  fiber,      \* the component's life in cordis, of each mount
  tracked,    \* cordis's list of the mount's effects
  reverted,   \* inverses that ran
  callbacks,  \* b.callbacks: effects whose inverse JavaScript can reach
  disposers,  \* b.disposers of each mount; a disposer is <<mount, number>>
  count,      \* how many were registered, of all: numbers them in order
  left, now,  \* what each runner of disposers still has to run, and is running
  ran,        \* the disposers run
  todo,       \* the owners close() has still to go through
  early,      \* disposers registered when it took them
  at,         \* where each call of perform is
  js,         \* and where its operation is in the world
  posted,     \* operations posted to the owner
  waiters,    \* b.waiters
  answer      \* the answer channel of each call, of capacity 1

life     == <<fiber, tracked, reverted>>
lists    == <<disposers, count>>
running  == <<left, now, ran>>
closing  == <<todo, early>>
crossing == <<at, js, posted, waiters, answer>>
vars == <<own, life, callbacks, lists, running, closing, crossing>>

Runners == Mounts \cup {Close}
closed  == own \in {"disposing", "closed"}   \* b.closed
done    == own = "closed"                    \* b.done is closed
World   == own = "world"                     \* JavaScript can run

Disposers == Mounts \X (1 .. MaxDisposers)

TypeOK ==
  /\ own \in {"world", "engineClosed", "disposing", "closed"}
  /\ fiber \in [Mounts -> {"new", "applying", "applied", "failed", "active",
                           "unloading", "dispose", "running", "disposed",
                           "released"}]
  /\ tracked \in [Mounts -> Seq(Effects \cup {Teardown})]
  /\ callbacks \subseteq Effects /\ reverted \subseteq Effects
  /\ disposers \in [Mounts -> SUBSET Disposers] /\ count \in 0 .. MaxDisposers
  /\ left \in [Runners -> SUBSET Disposers]
  /\ now \in [Runners -> Disposers \cup {None}]
  /\ ran \subseteq Disposers /\ early \subseteq Disposers /\ todo \subseteq Mounts
  /\ at \in [Calls -> {"new", "post", "select", "returned"}]
  /\ js \in [Calls -> {"none", "posted", "pending", "settled", "failed"}]
  /\ posted \in Seq(Calls)
  /\ waiters \subseteq Calls
  /\ answer \in [Calls -> {"empty", "ok", "error"}]

Init ==
  /\ own = "world"
  /\ fiber = [m \in Mounts |-> "new"]
  /\ tracked = [m \in Mounts |-> <<>>]
  /\ reverted = {} /\ callbacks = {}
  /\ disposers = [m \in Mounts |-> {}]
  /\ count = 0
  /\ left = [x \in Runners |-> {}]
  /\ now = [x \in Runners |-> None]
  /\ ran = {}
  /\ todo = {} /\ early = {}
  /\ at = [c \in Calls |-> "new"]
  /\ js = [c \in Calls |-> "none"]
  /\ posted = <<>>
  /\ waiters = {}
  /\ answer = [c \in Calls |-> "empty"]

-----------------------------------------------------------------------------
(* A component mounts: apply() in bridge.js, then __dshGoApply.            *)

Life(m, from, to) == fiber[m] = from /\ fiber' = [fiber EXCEPT ![m] = to]

\* The Go teardown is the first effect tracked, so the last one reverted.
Mount(m) ==
  /\ World
  /\ Life(m, "new", "applying")
  /\ tracked' = [tracked EXCEPT ![m] = <<Teardown>>]
  /\ UNCHANGED <<own, reverted, callbacks, lists, running, closing, crossing>>

InCall(c) == at[c] \in {"post", "select"}

ApplyReturns(m) ==
  /\ \A c \in Effects : MountOf[c] = m => ~InCall(c)
  /\ Life(m, "applying", "applied") \/ Life(m, "applying", "failed")
  /\ UNCHANGED <<own, tracked, reverted, callbacks, lists, running, closing, crossing>>

\* cordis waits for apply's promise; a component that failed is unloaded.
Loaded(m) ==
  /\ World
  /\ Life(m, "applied", "active") \/ Life(m, "failed", "unloading")
  /\ UNCHANGED <<own, tracked, reverted, callbacks, lists, running, closing, crossing>>

\* OnDispose, from any goroutine of the plugin, at any time.
OnDispose(m) ==
  /\ fiber[m] # "new"
  /\ count < MaxDisposers
  /\ count' = count + 1
  /\ disposers' = [disposers EXCEPT ![m] = @ \cup {<<m, count + 1>>}]
  /\ UNCHANGED <<own, life, callbacks, running, closing, crossing>>

-----------------------------------------------------------------------------
(* A component unmounts: cordis reverts its effects, last tracked first.   *)

Unload(m) ==
  /\ World
  /\ Life(m, "active", "unloading")
  /\ UNCHANGED <<own, tracked, reverted, callbacks, lists, running, closing, crossing>>

RevertFirst(m, e) ==   \* mutant: the list is a queue
  /\ tracked[m] # <<>> /\ e = Head(tracked[m])
  /\ tracked' = [tracked EXCEPT ![m] = Tail(@)]
RevertLast(m, e) ==
  /\ tracked[m] # <<>> /\ e = Last(tracked[m])
  /\ tracked' = [tracked EXCEPT ![m] = Front(@)]

\* An inverse is a synchronous Go callback, if it is still there; the Go
\* teardown starts a goroutine.
Revert(m) ==
  /\ World
  /\ fiber[m] \in {"unloading", "dispose", "running", "disposed"}
  /\ \/ /\ RevertLast(m, Teardown)
        /\ fiber' = [fiber EXCEPT ![m] = "dispose"]
        /\ UNCHANGED reverted
     \/ \E c \in Effects :
          /\ RevertLast(m, c)
          /\ reverted' = reverted \cup ({c} \cap callbacks)
          /\ UNCHANGED fiber
  /\ UNCHANGED <<own, callbacks, lists, running, closing, crossing>>

-----------------------------------------------------------------------------
(* dispose(owner), by the goroutine of an unmount or by close().           *)

Owned(m) == {c \in Effects : MountOf[c] = m}
Free(x)  == left[x] = {} /\ now[x] = None

\* Under the lock: the list is taken and forgotten, and the callbacks with it.
KeepList(x, m) ==   \* mutant: the list is copied and stays
  /\ left' = [left EXCEPT ![x] = disposers[m]]
  /\ UNCHANGED disposers
  /\ callbacks' = callbacks \ Owned(m)
TakeList(x, m) ==
  /\ left' = [left EXCEPT ![x] = disposers[m]]
  /\ disposers' = [disposers EXCEPT ![m] = {}]
  /\ callbacks' = callbacks \ Owned(m)

\* The last registered comes first.
IsNext(d, list) == \A e \in list : e[2] <= d[2]

RunDisposer(x) ==
  /\ now[x] = None
  /\ \E d \in left[x] :
       /\ IsNext(d, left[x])
       /\ now' = [now EXCEPT ![x] = d]
       /\ left' = [left EXCEPT ![x] = @ \ {d}]
       /\ ran' = ran \cup {d}
  /\ UNCHANGED <<own, life, callbacks, lists, closing, crossing>>

\* A disposer returns, or panics, which is the same to the ones left.
DisposerReturns(x) ==
  /\ now[x] # None
  /\ now' = [now EXCEPT ![x] = None]
  /\ UNCHANGED <<own, life, callbacks, lists, left, ran, closing, crossing>>

DisposeGoroutine(m) ==
  /\ Life(m, "dispose", "running")
  /\ TakeList(m, m)
  /\ UNCHANGED <<own, tracked, reverted, count, now, ran, closing, crossing>>

DisposeEnds(m) ==
  /\ Free(m)
  /\ Life(m, "running", "disposed")
  /\ UNCHANGED <<own, tracked, reverted, callbacks, lists, running, closing, crossing>>

\* The promise of __dshGoDispose has resolved: bridge.js lets go of the handle.
Release(m) ==
  /\ World
  /\ Life(m, "disposed", "released")
  /\ UNCHANGED <<own, tracked, reverted, callbacks, lists, running, closing, crossing>>

-----------------------------------------------------------------------------
(* perform.                                                                *)

Goto(c, from, to) == at[c] = from /\ at' = [at EXCEPT ![c] = to]

\* Who may call: Apply for its effects, a worker once the component mounts.
May(c) ==
  LET m == MountOf[c] IN
  IF c \in Effects THEN fiber[m] = "applying" ELSE fiber[m] # "new"

Enter(c) ==
  /\ May(c)
  /\ callbacks' = callbacks \cup ({c} \cap Effects)
  /\ \/ closed /\ Goto(c, "new", "returned") /\ UNCHANGED waiters
     \/ ~closed /\ Goto(c, "new", "post") /\ waiters' = waiters \cup {c}
  /\ UNCHANGED <<own, life, lists, running, closing, js, posted, answer>>

Post(c) ==
  /\ \/ /\ World
        /\ Goto(c, "post", "select")
        /\ posted' = Append(posted, c)
        /\ js' = [js EXCEPT ![c] = "posted"]
        /\ UNCHANGED waiters
     \/ /\ ~World
        /\ Goto(c, "post", "returned")
        /\ waiters' = waiters \ {c}
        /\ UNCHANGED <<posted, js>>
  /\ UNCHANGED <<own, life, callbacks, lists, running, closing, answer>>

\* The select at the end of perform.
DeafToDone(c) ==   \* mutant: no case for b.done
  /\ answer[c] # "empty"
  /\ Goto(c, "select", "returned")
  /\ answer' = [answer EXCEPT ![c] = "empty"]
  /\ UNCHANGED <<own, life, callbacks, lists, running, closing, js, posted, waiters>>
Return(c) ==
  /\ Goto(c, "select", "returned")
  /\ \/ answer[c] # "empty" /\ answer' = [answer EXCEPT ![c] = "empty"]
     \/ done /\ UNCHANGED answer
  /\ UNCHANGED <<own, life, callbacks, lists, running, closing, js, posted, waiters>>

-----------------------------------------------------------------------------
(* The world's half of it.                                                 *)

\* __dshGoSettle and fail: the waiter is forgotten, then sent to.
Unheard(c, v) ==       \* mutant: the waiter is forgotten and not sent to
  /\ waiters' = waiters \ {c}
  /\ UNCHANGED answer
Settle(c, v) ==
  /\ answer' = IF c \in waiters THEN [answer EXCEPT ![c] = v] ELSE answer
  /\ waiters' = waiters \ {c}

\* perform in bridge.js: the result may be a promise, for now or for ever.
\* An effect is tracked at once, and answered.
RunOperation ==
  /\ World
  /\ posted # <<>>
  /\ LET c == Head(posted) IN
     /\ js' = [js EXCEPT ![c] = "pending"]
     /\ tracked' = IF c \in Effects THEN [tracked EXCEPT ![MountOf[c]] = Append(@, c)]
                                    ELSE tracked
  /\ posted' = Tail(posted)
  /\ UNCHANGED <<own, fiber, reverted, callbacks, lists, running, closing,
                 at, waiters, answer>>

Answer(c) ==
  /\ World
  /\ js[c] = "pending"
  /\ js' = [js EXCEPT ![c] = "settled"]
  /\ \E v \in {"ok", "error"} : Settle(c, v)
  /\ UNCHANGED <<own, life, callbacks, lists, running, closing, at, posted>>

\* The call of perform failed after it had settled, its engine interrupted.
Fail(c) ==
  /\ World
  /\ js[c] = "settled"
  /\ js' = [js EXCEPT ![c] = "failed"]
  /\ Settle(c, "error")
  /\ UNCHANGED <<own, life, callbacks, lists, running, closing, at, posted>>

-----------------------------------------------------------------------------
(* The owner leaves the world, unmounted or not (shutdown has a time limit), *)
(* and closes the engine and then the bridge.                              *)

EngineCloses ==
  /\ World
  /\ own' = "engineClosed"
  /\ UNCHANGED <<life, callbacks, lists, running, closing, crossing>>

OnlyActive(m) == disposers[m] # {} /\ fiber[m] = "active"   \* mutant
HasDisposers(m) == disposers[m] # {}

BridgeCloses ==
  /\ own = "engineClosed"
  /\ own' = "disposing"
  /\ todo' = {m \in Mounts : HasDisposers(m)}
  /\ early' = UNION {disposers[m] : m \in Mounts}
  /\ UNCHANGED <<life, callbacks, lists, running, crossing>>

Backstop(m) ==
  /\ own = "disposing"
  /\ m \in todo
  /\ Free(Close)
  /\ todo' = todo \ {m}
  /\ TakeList(Close, m)
  /\ UNCHANGED <<own, life, count, now, ran, early, crossing>>

CloseDone ==
  /\ own = "disposing"
  /\ todo = {}
  /\ Free(Close)
  /\ own' = "closed"
  /\ UNCHANGED <<life, callbacks, lists, running, closing, crossing>>

-----------------------------------------------------------------------------
\* The bridge is closed and no goroutine is left in it.
Over ==
  /\ done
  /\ \A c \in Calls : ~InCall(c)
  /\ \A x \in Runners : Free(x)

Next ==
  \/ \E m \in Mounts : Mount(m)
  \/ \E m \in Mounts : ApplyReturns(m)
  \/ \E m \in Mounts : Loaded(m)
  \/ \E m \in Mounts : OnDispose(m)
  \/ \E m \in Mounts : Unload(m)
  \/ \E m \in Mounts : Revert(m)
  \/ \E m \in Mounts : DisposeGoroutine(m)
  \/ \E m \in Mounts : DisposeEnds(m)
  \/ \E m \in Mounts : Release(m)
  \/ \E x \in Runners : RunDisposer(x)
  \/ \E x \in Runners : DisposerReturns(x)
  \/ \E c \in Calls : Enter(c)
  \/ \E c \in Calls : Post(c)
  \/ \E c \in Calls : Return(c)
  \/ RunOperation
  \/ \E c \in Calls : Answer(c)
  \/ \E c \in Calls : Fail(c)
  \/ EngineCloses
  \/ BridgeCloses
  \/ \E m \in Mounts : Backstop(m)
  \/ CloseDone
  \/ Over /\ UNCHANGED vars

Spec == Init /\ [][Next]_vars

\* Goroutines that can run do, and the owner goes on with what it began.
\* Of a plugin one thing is asked, that its disposers return; and nothing of
\* the promises of the world, or of when the harness is closed.
Fairness ==
  /\ WF_vars(BridgeCloses \/ CloseDone \/ \E m \in Mounts : Backstop(m))
  /\ \A x \in Runners : WF_vars(RunDisposer(x)) /\ WF_vars(DisposerReturns(x))
  /\ \A c \in Calls : WF_vars(Post(c) \/ Return(c))
  /\ \A m \in Mounts : WF_vars(DisposeGoroutine(m) \/ DisposeEnds(m))

FairSpec == Spec /\ Fairness

-----------------------------------------------------------------------------
(* Safety.                                                                 *)

\* The owner never blocks on an answer: a token that still has its waiter has
\* an empty channel, however often the operation is settled or failed.
WaiterUnanswered == \A c \in waiters : answer[c] = "empty"

\* bridge.go, perform: a call that waits has its answer in the channel, or its
\* operation is still posted or pending and will find the call's waiter.  So
\* nothing is lost between the two maps and the two sides; what may never come
\* is the end of the world's promise, and then close() wakes the call.
AnswerToCome ==
  \A c \in Calls : at[c] = "select" /\ answer[c] = "empty" =>
    /\ c \in waiters
    /\ js[c] = "pending" \/ \E i \in DOMAIN posted : posted[i] = c

\* perform, settle and fail: the two sides agree on who is still to be answered.
CallsAreAnswered == WaiterUnanswered /\ AnswerToCome

\* bridge.go, close: "dispose forgets what it ran, so a component taken down
\* properly is not taken down twice", even when an unmount and the close meet.
DisposedOnce ==
  [][\A x \in Runners : now[x] = None /\ now'[x] # None => now'[x] \notin ran]_vars

\* OnDispose runs "after every effect has been reverted", and no inverse is
\* called when the unmount has forgotten it: the Go teardown of a component
\* begins when every effect that Apply installed was reverted.  (The backstop
\* of close() runs when there is no world left to revert anything.)
RevertedBeforeDisposers ==
  \A m \in Mounts : fiber[m] \in {"running", "disposed", "released"} =>
    \A c \in Owned(m) : js[c] \in {"pending", "settled", "failed"} => c \in reverted

\* close() is a backstop for "the components the tree did not get to unmount":
\* when it is over, whatever was registered when it began has been run, or is
\* being run by the goroutine of an unmount that took it first.
NothingForgotten ==
  done => \A d \in early : d \in ran \/ \E m \in Mounts : d \in left[m]

(* Liveness.                                                               *)

\* bridge.go: "close wakes everything waiting on an answer that is no longer
\* coming".  It does so after the disposers: one that waits for such a wait to
\* end, as OnDispose's comment invites ("waiting for a worker"), never returns,
\* and neither does close: hence the fairness of DisposerReturns.
CloseWakes == closed ~> \A c \in Calls : ~InCall(c)
=============================================================================
