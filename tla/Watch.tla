-------------------------------- MODULE Watch --------------------------------
(***************************************************************************)
(* nodecompat/watch.go with js/node/fs.js (the emitter face of fs.watch)   *)
(* and fs_promises.js (the async iterator built on it).  Each watcher has  *)
(* a pump, a goroutine that buffers what fsnotify reports; one timer of    *)
(* the script's thread collects all buffers.  The timer is unref'd, so it  *)
(* does not keep the event loop alive, unless an iterator holds it; and    *)
(* own() turns the loop only at boot and inside a job.                     *)
(*                                                                         *)
(* Every emitter is assumed to have an 'error' listener.                   *)
(***************************************************************************)
EXTENDS Naturals, FiniteSets

CONSTANTS Watchers,
          Iterators,    \* those that are iterated over
          Limit,        \* watchEventBufferLimit
          MaxEvents     \* bound: events of one watcher

ASSUME WatchConstants ==
  /\ Iterators \subseteq Watchers
  /\ Limit \in Nat \ {0} /\ MaxEvents \in Nat

VARIABLES
  notify,    \* watchers whose fsnotify watcher is open
  table,     \* c.watchers
  pumping,   \* watchers whose pump runs
  pending,   \* how many events each has buffered
  err,       \* watchers with an error to report
  timer,     \* pollTimer: off, unref'd or ref'd
  live,      \* liveWatchers
  fate,      \* of each FSWatcher: not made, on, ended by an error, closed
  holds,     \* pollHolds
  gen,       \* where each generator is
  queue,     \* events its 'change' listener has queued
  fired,     \* watchers whose signal has fired
  made, handed,  \* events of each, and those its consumer has been given
  turning,   \* own() boots or has a job in hand: the loop is being turned
  gone       \* c.closed: the script's thread has ended

buffers == <<notify, table, pumping, pending, err>>
poll    == <<timer, live, fate, holds>>
iter    == <<gen, queue, handed>>
watchVars == <<buffers, poll, iter, fired, made, turning, gone>>

WatchTypeOK ==
  /\ notify \subseteq Watchers /\ table \subseteq Watchers
  /\ pumping \subseteq Watchers /\ err \subseteq Watchers
  /\ live \subseteq Watchers /\ fired \subseteq Watchers
  /\ pending \in [Watchers -> 0..Limit] /\ queue \in [Watchers -> Nat]
  /\ made \in [Watchers -> Nat] /\ handed \in [Watchers -> Nat]
  /\ timer \in {"off", "unref", "ref"} /\ holds \in Nat
  /\ fate \in [Watchers -> {"new", "on", "failed", "closed"}]
  /\ gen \in [Watchers -> {"none", "wait", "body", "exited", "left"}]
  /\ turning \in BOOLEAN /\ gone \in BOOLEAN

WatchStart(isGone) ==
  /\ notify = {} /\ table = {} /\ pumping = {} /\ err = {} /\ live = {}
  /\ fired = {} /\ timer = "off" /\ holds = 0
  /\ turning = FALSE /\ gone = isGone
  /\ fate = [w \in Watchers |-> "new"]
  /\ gen = [w \in Watchers |-> "none"]
  /\ pending = [w \in Watchers |-> 0]
  /\ queue = [w \in Watchers |-> 0]
  /\ made = [w \in Watchers |-> 0]
  /\ handed = [w \in Watchers |-> 0]

-----------------------------------------------------------------------------
(* The timer.                                                              *)

Idly(n) == IF n = 0 THEN "unref" ELSE "ref"

\* startPolling, stopPolling, and a hold taken or released.
Started        == IF timer = "off" THEN Idly(holds) ELSE timer
Stopped(alive) == IF alive = {} THEN "off" ELSE timer
Unheld(t, n)   == t   \* mutant: a hold does not ref the timer
Held(t, n)     == IF t = "off" THEN "off" ELSE Idly(n)

\* watchClose, and FSWatcher.close or the end of its generator around it.
Release(w) ==
  /\ live' = live \ {w}
  /\ table' = table \ {w}
  /\ notify' = IF w \in table THEN notify \ {w} ELSE notify
  /\ pumping' = IF w \in table THEN pumping \ {w} ELSE pumping

-----------------------------------------------------------------------------
(* The script's thread, which runs only while own() turns its loop: from   *)
(* the start of the boot, of a job or of shutdown() to the end of it.      *)

StartTurning ==
  /\ ~turning /\ ~gone
  /\ turning' = TRUE
  /\ UNCHANGED <<buffers, poll, iter, fired, made, gone>>
StopTurning ==
  /\ turning
  /\ turning' = FALSE
  /\ UNCHANGED <<buffers, poll, iter, fired, made, gone>>

Looping == turning /\ ~gone

\* new FSWatcher.  An iterator takes its hold next, before it looks at its
\* signal.
Open(w) ==
  /\ Looping /\ fate[w] = "new" /\ w \notin fired
  /\ fate' = [fate EXCEPT ![w] = "on"]
  /\ notify' = notify \cup {w} /\ table' = table \cup {w}
  /\ pumping' = pumping \cup {w} /\ live' = live \cup {w}
  /\ IF w \in Iterators
     THEN /\ holds' = holds + 1
          /\ gen' = [gen EXCEPT ![w] = "wait"]
          /\ timer' = Held(Started, holds + 1)
     ELSE /\ timer' = Started
          /\ UNCHANGED <<holds, gen>>
  /\ UNCHANGED <<pending, err, queue, handed, fired, made, turning, gone>>

\* The signal has fired: opened and closed again, with the hold left behind.
OpenFired(w) ==
  /\ Looping /\ fate[w] = "new" /\ w \in fired
  /\ fate' = [fate EXCEPT ![w] = "closed"]
  /\ IF w \in Iterators
     THEN /\ holds' = holds + 1
          /\ timer' = Held(timer, holds + 1)
          /\ gen' = [gen EXCEPT ![w] = "exited"]
     ELSE UNCHANGED <<holds, timer, gen>>
  /\ UNCHANGED <<buffers, live, queue, handed, fired, made, turning, gone>>

\* close(), by the script or by its signal.
EndWatch(w) ==
  /\ fate[w] = "on"
  /\ fate' = [fate EXCEPT ![w] = "closed"]
  /\ Release(w)
  /\ timer' = Stopped(live')
  /\ UNCHANGED <<pending, err, holds, iter, made, turning, gone>>
Close(w) == Looping /\ EndWatch(w) /\ UNCHANGED fired
Fire(w) ==
  /\ Looping /\ w \notin fired
  /\ fired' = fired \cup {w}
  /\ \/ EndWatch(w)
     \/ fate[w] # "on" /\ UNCHANGED <<buffers, poll, iter, made, turning, gone>>

\* collect: every buffer is drained, the events are delivered, and then the
\* error, which ends the watch.  (A report that a watch ended without an error
\* needs a pump whose channels close while its watcher is still in the table;
\* whoever closes them takes it out first.)
Reported == [w \in Watchers |-> IF w \in table \cap live THEN pending[w] ELSE 0]
Collect ==
  LET told == err \cap table IN
  /\ Looping /\ timer # "off"
  /\ pending' = [w \in Watchers |-> IF w \in table THEN 0 ELSE pending[w]]
  /\ err' = err \ table
  /\ table' = table \ told
  /\ live' = live \ told
  /\ timer' = Stopped(live')
  /\ fate' = [w \in Watchers |-> IF w \in told \cap live THEN "failed" ELSE fate[w]]
  /\ queue' = [w \in Watchers |-> IF w \in Iterators THEN queue[w] + Reported[w] ELSE 0]
  /\ handed' = [w \in Watchers |-> IF w \in Iterators THEN handed[w]
                                   ELSE handed[w] + Reported[w]]
  /\ UNCHANGED <<notify, pumping, holds, gen, fired, made, turning, gone>>

\* The generator: the next of its queue, or its end once the queue is empty;
\* and a consumer that comes back for more.
Take(w) ==
  /\ Looping /\ gen[w] = "wait" /\ queue[w] > 0
  /\ queue' = [queue EXCEPT ![w] = @ - 1]
  /\ handed' = [handed EXCEPT ![w] = @ + 1]
  /\ gen' = [gen EXCEPT ![w] = "body"]
  /\ UNCHANGED <<buffers, poll, fired, made, turning, gone>>
Again(w) ==
  /\ Looping /\ gen[w] = "body"
  /\ gen' = [gen EXCEPT ![w] = "wait"]
  /\ UNCHANGED <<buffers, poll, queue, handed, fired, made, turning, gone>>

\* finally: the hold is released, the watcher closed.
Finally(w, how) ==
  /\ gen' = [gen EXCEPT ![w] = how]
  /\ holds' = holds - 1
  /\ IF fate[w] = "on"
     THEN fate' = [fate EXCEPT ![w] = "closed"] /\ Release(w)
     ELSE UNCHANGED <<fate, live, table, notify, pumping>>
  /\ timer' = IF live' = {} THEN "off" ELSE Held(timer, holds - 1)
  /\ UNCHANGED <<pending, err, queue, handed, fired, made, turning, gone>>
AtItsEnd(w)  == gen[w] = "wait" /\ queue[w] = 0 /\ fate[w] # "on"
Finish(w)    == Looping /\ AtItsEnd(w) /\ Finally(w, "exited")
LeaveLoop(w) == Looping /\ gen[w] = "body" /\ Finally(w, "left")

-----------------------------------------------------------------------------
(* The pump, and Compat.Close.                                             *)

\* A full buffer becomes an error.
DropQuietly(w) ==   \* mutant: and a full buffer just drops
  /\ pending' = [pending EXCEPT ![w] = IF @ = Limit THEN @ ELSE @ + 1]
  /\ UNCHANGED err
Buffer(w) ==
  IF pending[w] = Limit
  THEN err' = err \cup {w} /\ pending' = [pending EXCEPT ![w] = 0]
  ELSE pending' = [pending EXCEPT ![w] = @ + 1] /\ UNCHANGED err

Emit(w) ==
  /\ w \in pumping /\ made[w] < MaxEvents
  /\ made' = [made EXCEPT ![w] = @ + 1]
  /\ Buffer(w)
  /\ UNCHANGED <<notify, table, pumping, poll, iter, fired, turning, gone>>

\* fsnotify reports an error, which ends the pump.
Break(w) ==
  /\ w \in pumping
  /\ pumping' = pumping \ {w}
  /\ err' = err \cup {w}
  /\ UNCHANGED <<notify, table, pending, poll, iter, fired, made, turning, gone>>

\* Mutant: Close clears the table and closes nothing.
OnlyClear == notify
AllClosed == notify \ table
CloseWatchers ==
  /\ ~gone /\ ~turning
  /\ gone' = TRUE
  /\ notify' = AllClosed
  /\ pumping' = pumping \ table
  /\ table' = {}
  /\ UNCHANGED <<pending, err, poll, iter, fired, made, turning>>

WatchNext ==
  \/ StartTurning \/ StopTurning
  \/ \E w \in Watchers : Open(w)
  \/ \E w \in Watchers : OpenFired(w)
  \/ \E w \in Watchers : Close(w)
  \/ \E w \in Watchers : Fire(w)
  \/ Collect
  \/ \E w \in Watchers : Take(w)
  \/ \E w \in Watchers : Again(w)
  \/ \E w \in Watchers : Finish(w)
  \/ \E w \in Watchers : LeaveLoop(w)
  \/ \E w \in Watchers : Emit(w)
  \/ \E w \in Watchers : Break(w)
  \/ CloseWatchers

WatchInit == WatchStart(FALSE)
WatchSpec == WatchInit /\ [][WatchNext]_watchVars

\* While own() turns the loop, a ref'd timer keeps it alive and fires; an
\* unref'd one fires only if something else does.  Between jobs nothing runs,
\* and no job need ever come.
WatchFairness ==
  /\ WF_watchVars(timer = "ref" /\ Collect)
  /\ \A w \in Watchers : WF_watchVars(Take(w) \/ Finish(w))
WatchFair == WatchSpec /\ WatchFairness

-----------------------------------------------------------------------------
\* watch.go:46: an overflow is reported "so the script can rescan rather than
\* quietly believing it saw everything".  An event that is neither delivered
\* nor on its way has an error on its way, or delivered after all that was
\* delivered before, unless the script closed the watcher.
GapIsTold ==
  \A w \in Watchers :
    made[w] # handed[w] + queue[w] + pending[w] =>
      w \in err \/ fate[w] \in {"failed", "closed"} \/ gone

\* An error ends an iterator only after it yielded all it was given.
ErrorComesLast ==
  \A w \in Iterators :
    gen[w] = "exited" => queue[w] = 0

\* There is a timer while there are watchers, and it keeps the loop alive
\* whenever an iterator waits for an event that can still come.
PollHeld ==
  /\ timer = "off" <=> live = {}
  /\ \A w \in Iterators : gen[w] = "wait" /\ w \in live => timer = "ref"

\* Only a watcher that failed keeps its fsnotify watcher when nobody can
\* close it any more (watch.go:179 drops it from the table, fs.js:327 does not
\* close it), and Compat.Close closes all the others.
OnlyFailedLinger ==
  /\ notify \subseteq table \cup {w \in Watchers : fate[w] = "failed"}
  /\ gone => table = {}

\* watch.go:20-25: "events are delivered promptly during a turn, and between
\* turns [...] the buffer simply waits".  What there is for an iterator that
\* waits is given to it in the turn in hand, if that does not end first.
IteratorServed ==
  \A w \in Iterators :
    gen[w] = "wait" /\ turning /\ (pending[w] > 0 \/ w \in err)
      ~> gen[w] # "wait" \/ ~turning

\* fs.js:253: "A watcher must never be the reason a run does not finish", and
\* fs_promises.js:152: the hold is "Released in the finally below, on every
\* exit".  The timer keeps the loop alive only for an iterator in its loop.
EmittersNeverHold ==
  timer = "ref" => \E w \in Iterators : gen[w] \in {"wait", "body"}
=============================================================================
