----------------------------- MODULE WatchProofs -----------------------------
(***************************************************************************)
(* What Watch keeps for any set of watchers and any size of buffer.  The   *)
(* heart of it is a count: the holds taken and not released are at least   *)
(* as many as the iterators in their loops (more, when one left its hold   *)
(* behind), so the timer an iterator waits for stays ref'd.                *)
(***************************************************************************)
EXTENDS Watch, FiniteSetTheorems, TLAPS

InLoop == {w \in Watchers : gen[w] \in {"wait", "body"}}
Counted == IsFiniteSet(InLoop) /\ Cardinality(InLoop) <= holds

\* The timer runs for the live watchers, as the holds say.
Timed ==
  /\ live = {} => timer = "off"
  /\ live # {} => timer = Idly(holds)

\* A watcher is live while it is on, and then in the table, until Close.
Tabled ==
  /\ live = {w \in Watchers : fate[w] = "on"}
  /\ table = IF gone THEN {} ELSE live
  /\ notify \subseteq table \cup {w \in Watchers : fate[w] = "failed"}

\* Of one watcher: a queue is an iterator's, it is given nothing before its
\* watch is on, and nothing is left in it when it is out of its loop.
Queued(w) ==
  /\ w \notin Iterators => queue[w] = 0 /\ gen[w] = "none"
  /\ fate[w] = "new" => queue[w] = 0 /\ gen[w] = "none"
  /\ gen[w] = "exited" => queue[w] = 0 /\ fate[w] # "on"

Told(w) ==
  made[w] # handed[w] + queue[w] + pending[w] =>
    w \in err \/ fate[w] \in {"failed", "closed"} \/ gone

Each == \A w \in Watchers : Queued(w) /\ Told(w)
WInv == WatchTypeOK /\ Counted /\ Timed /\ Tabled /\ Each

-----------------------------------------------------------------------------
LEMMA InitWInv == ASSUME NEW b \in BOOLEAN, WatchStart(b) PROVE WInv
<1> USE DEF WatchStart
<1>1. WatchTypeOK
  <2>1. 0 \in 0..Limit BY WatchConstants
  <2>2. pending \in [Watchers -> 0..Limit] BY <2>1
  <2>3. QED BY <2>2 DEF WatchTypeOK
<1>2. InLoop = {} BY DEF InLoop
<1>3. Counted BY <1>2, FS_EmptySet DEF Counted
<1>4. Timed /\ Tabled BY DEF Timed, Tabled
<1>5. Each BY DEF Each, Queued, Told
<1>6. QED BY <1>1, <1>3, <1>4, <1>5 DEF WInv

\* Whoever is in its loop has a hold to release.
LEMMA Holder ==
  ASSUME Counted, holds \in Nat, NEW w \in InLoop
  PROVE  holds >= 1 /\ Cardinality(InLoop \ {w}) <= holds - 1
<1>1. Cardinality(InLoop \ {w}) = Cardinality(InLoop) - 1 /\ IsFiniteSet(InLoop \ {w})
  BY FS_RemoveElement DEF Counted
<1>2. Cardinality(InLoop) \in Nat /\ Cardinality(InLoop \ {w}) \in Nat
  BY <1>1, FS_CardinalityType DEF Counted
<1>3. QED BY <1>1, <1>2 DEF Counted

LEMMA WatchTypeKeeps == WatchTypeOK /\ Counted /\ [WatchNext]_watchVars => WatchTypeOK'
<1> SUFFICES ASSUME WatchTypeOK, Counted, [WatchNext]_watchVars PROVE WatchTypeOK'
  OBVIOUS
<1> USE WatchConstants DEF WatchTypeOK, Idly, Held, Started, Stopped
<1>1. ASSUME NEW w \in Watchers, Open(w) PROVE WatchTypeOK' BY <1>1 DEF Open
<1>2. ASSUME NEW w \in Watchers, OpenFired(w) PROVE WatchTypeOK' BY <1>2 DEF OpenFired, buffers
<1>3. ASSUME NEW w \in Watchers, Close(w) PROVE WatchTypeOK'
  BY <1>3 DEF Close, EndWatch, Release, iter
<1>4. ASSUME NEW w \in Watchers, Fire(w) PROVE WatchTypeOK'
  BY <1>4 DEF Fire, EndWatch, Release, iter, buffers, poll
<1>5. Collect => WatchTypeOK'
  <2> SUFFICES ASSUME Collect PROVE WatchTypeOK'
    OBVIOUS
  <2> USE DEF Collect
  <2>1. Reported \in [Watchers -> Nat] BY DEF Reported
  <2>2. pending' \in [Watchers -> 0..Limit] OBVIOUS
  <2>3. queue' \in [Watchers -> Nat] /\ handed' \in [Watchers -> Nat] BY <2>1
  <2>4. fate' \in [Watchers -> {"new", "on", "failed", "closed"}] OBVIOUS
  <2>5. timer' \in {"off", "unref", "ref"} OBVIOUS
  <2>6. QED BY <2>2, <2>3, <2>4, <2>5
<1>6. ASSUME NEW w \in Watchers, Take(w) \/ Again(w) PROVE WatchTypeOK'
  BY <1>6 DEF Take, Again, buffers, poll
<1>7. ASSUME NEW w \in Watchers, NEW how \in {"exited", "left"}, w \in InLoop, Finally(w, how),
             gone' = gone
      PROVE  WatchTypeOK'
  <2>1. holds \in Nat OBVIOUS
  <2>2. holds >= 1 BY <1>7, <2>1, Holder
  <2>3. holds' \in Nat BY <1>7, <2>1, <2>2 DEF Finally
  <2>4. QED BY <1>7, <2>3 DEF Finally, Release
<1>8. ASSUME NEW w \in Watchers, Finish(w) \/ LeaveLoop(w) PROVE WatchTypeOK'
  BY <1>7, <1>8 DEF Finish, LeaveLoop, AtItsEnd, InLoop, Finally
<1>9. ASSUME NEW w \in Watchers, Emit(w) PROVE WatchTypeOK'
  BY <1>9 DEF Emit, Buffer, poll, iter
<1>10. ASSUME NEW w \in Watchers, Break(w) PROVE WatchTypeOK' BY <1>10 DEF Break, poll, iter
<1>11. CloseWatchers => WatchTypeOK' BY DEF CloseWatchers, AllClosed, poll, iter
<1>12. StartTurning \/ StopTurning => WatchTypeOK'
  BY DEF StartTurning, StopTurning, buffers, poll, iter
<1>13. UNCHANGED watchVars => WatchTypeOK' BY DEF watchVars, buffers, poll, iter
<1>14. QED
  BY <1>1, <1>2, <1>3, <1>4, <1>5, <1>6, <1>8, <1>9, <1>10, <1>11, <1>12, <1>13 DEF WatchNext

LEMMA CountKeeps == WatchTypeOK /\ Counted /\ [WatchNext]_watchVars => Counted'
<1> SUFFICES ASSUME WatchTypeOK, Counted, [WatchNext]_watchVars PROVE Counted'
  OBVIOUS
<1>1. ASSUME holds' = holds, InLoop' = InLoop PROVE Counted' BY <1>1 DEF Counted
<1>2. ASSUME NEW w \in Watchers, Open(w) PROVE Counted'
  <2>1. CASE w \notin Iterators BY <1>1, <1>2, <2>1 DEF Open, InLoop
  <2>2. CASE w \in Iterators
    <3>1. InLoop' = InLoop \cup {w} /\ holds' = holds + 1
      BY <1>2, <2>2 DEF Open, InLoop, WatchTypeOK
    <3>2. IsFiniteSet(InLoop') /\ Cardinality(InLoop') <= Cardinality(InLoop) + 1
      BY <3>1, FS_AddElement, FS_CardinalityType DEF Counted
    <3>3. Cardinality(InLoop) \in Nat /\ Cardinality(InLoop') \in Nat
      BY <3>2, FS_CardinalityType DEF Counted
    <3>4. QED BY <3>1, <3>2, <3>3 DEF Counted, WatchTypeOK
  <2>3. QED BY <2>1, <2>2
<1>3. ASSUME NEW w \in Watchers, OpenFired(w) PROVE Counted'
  <2>1. InLoop' \subseteq InLoop /\ holds' \in {holds, holds + 1}
    BY <1>3 DEF OpenFired, InLoop, WatchTypeOK
  <2>2. IsFiniteSet(InLoop') /\ Cardinality(InLoop') <= Cardinality(InLoop)
    BY <2>1, FS_Subset DEF Counted
  <2>3. Cardinality(InLoop) \in Nat /\ Cardinality(InLoop') \in Nat
    BY <2>2, FS_CardinalityType DEF Counted
  <2>4. QED BY <2>1, <2>2, <2>3 DEF Counted, WatchTypeOK
<1>4. ASSUME NEW w \in Watchers, NEW how \in {"exited", "left"}, w \in InLoop, Finally(w, how)
      PROVE  Counted'
  <2>1. InLoop' = InLoop \ {w} /\ holds' = holds - 1
    BY <1>4 DEF Finally, InLoop, WatchTypeOK
  <2>2. holds >= 1 /\ Cardinality(InLoop \ {w}) <= holds - 1
    BY <1>4, Holder DEF WatchTypeOK
  <2>3. IsFiniteSet(InLoop \ {w}) BY FS_RemoveElement DEF Counted
  <2>4. QED BY <2>1, <2>2, <2>3 DEF Counted
<1>5. ASSUME NEW w \in Watchers, Finish(w) \/ LeaveLoop(w) PROVE Counted'
  BY <1>4, <1>5 DEF Finish, LeaveLoop, AtItsEnd, InLoop
<1>6. ASSUME NEW w \in Watchers, Take(w) \/ Again(w) PROVE Counted'
  BY <1>1, <1>6 DEF Take, Again, poll, InLoop, WatchTypeOK
<1>7. ASSUME NEW w \in Watchers, Close(w) \/ Fire(w) PROVE Counted'
  BY <1>1, <1>7 DEF Close, Fire, EndWatch, poll, iter, InLoop
<1>8. ASSUME NEW w \in Watchers, Emit(w) \/ Break(w) PROVE Counted'
  BY <1>1, <1>8 DEF Emit, Break, poll, iter, InLoop
<1>9. Collect => Counted' BY <1>1 DEF Collect, InLoop
<1>10. CloseWatchers => Counted' BY <1>1 DEF CloseWatchers, poll, iter, InLoop
<1>11. StartTurning \/ StopTurning => Counted'
  BY <1>1 DEF StartTurning, StopTurning, poll, iter, InLoop
<1>12. UNCHANGED watchVars => Counted' BY <1>1 DEF watchVars, poll, iter, InLoop
<1>13. QED BY <1>2, <1>3, <1>5, <1>6, <1>7, <1>8, <1>9, <1>10, <1>11, <1>12 DEF WatchNext

LEMMA PollKeeps ==
  WatchTypeOK /\ Counted /\ Timed /\ Tabled /\ [WatchNext]_watchVars => Timed' /\ Tabled'
<1> SUFFICES ASSUME WatchTypeOK, Counted, Timed, Tabled, [WatchNext]_watchVars
             PROVE  Timed' /\ Tabled'
  OBVIOUS
<1> USE DEF WatchTypeOK, Timed, Tabled, Idly, Held, Started, Stopped, Looping
<1>1. ASSUME NEW w \in Watchers, Open(w) PROVE Timed' /\ Tabled'
  <2>1. live' = live \cup {w} /\ live' # {} BY <1>1 DEF Open
  <2>2. Timed' BY <1>1, <2>1 DEF Open
  <2>3. Tabled' BY <1>1, <2>1 DEF Open
  <2>4. QED BY <2>2, <2>3
<1>2. ASSUME NEW w \in Watchers, OpenFired(w) PROVE Timed' /\ Tabled'
  <2>1. Timed' BY <1>2 DEF OpenFired, buffers
  <2>2. Tabled' BY <1>2 DEF OpenFired, buffers
  <2>3. QED BY <2>1, <2>2
<1>3. ASSUME NEW w \in Watchers, EndWatch(w), gone' = FALSE, ~gone PROVE Timed' /\ Tabled'
  <2>1. Timed' BY <1>3 DEF EndWatch, Release
  <2>2. Tabled' BY <1>3 DEF EndWatch, Release
  <2>3. QED BY <2>1, <2>2
<1>4. ASSUME NEW w \in Watchers, Close(w) \/ Fire(w) PROVE Timed' /\ Tabled'
  <2>1. ~gone BY <1>4 DEF Close, Fire
  <2>2. CASE EndWatch(w) BY <1>3, <2>1, <2>2 DEF EndWatch
  <2>3. CASE UNCHANGED <<buffers, poll, iter, made, turning, gone>> BY <2>3 DEF buffers, poll
  <2>4. QED BY <1>4, <2>2, <2>3 DEF Close, Fire
<1>5. Collect => Timed' /\ Tabled'
  <2> SUFFICES ASSUME Collect PROVE Timed' /\ Tabled'
    OBVIOUS
  <2>1. ~gone' /\ live' = live \ (err \cap table) /\ table' = table \ (err \cap table)
    BY DEF Collect
  <2>2. \A w \in Watchers :
          fate'[w] = IF w \in err \cap table \cap live THEN "failed" ELSE fate[w]
    BY DEF Collect
  <2>3. Timed' BY DEF Collect
  <2>4. notify' = notify BY DEF Collect
  <2>5. (live = {w \in Watchers : fate[w] = "on"})' BY <2>1, <2>2
  <2>6. (table = IF gone THEN {} ELSE live)' BY <2>1 DEF Collect
  <2>7. (notify \subseteq table \cup {w \in Watchers : fate[w] = "failed"})'
    BY <2>1, <2>2, <2>4 DEF Collect
  <2>8. Tabled' BY <2>5, <2>6, <2>7
  <2>9. QED BY <2>3, <2>8
<1>6. ASSUME NEW w \in Watchers, Finish(w) \/ LeaveLoop(w) PROVE Timed' /\ Tabled'
  <2>1. PICK how \in {"exited", "left"} : Finally(w, how)
    BY <1>6 DEF Finish, LeaveLoop
  <2>2. ~gone /\ ~gone' BY <1>6, <2>1 DEF Finish, LeaveLoop, Finally
  <2>3. Timed' BY <2>1 DEF Finally, Release
  <2>4. CASE fate[w] = "on"
    <3>1. live' = live \ {w} /\ table' = table \ {w} /\ notify' = notify \ {w}
      BY <2>1, <2>2, <2>4 DEF Finally, Release
    <3>2. \A v \in Watchers : fate'[v] = IF v = w THEN "closed" ELSE fate[v]
      BY <2>1, <2>4 DEF Finally
    <3>3. (live = {v \in Watchers : fate[v] = "on"})' BY <3>1, <3>2
    <3>4. (notify \subseteq table \cup {v \in Watchers : fate[v] = "failed"})'
      BY <2>4, <3>1, <3>2
    <3>5. QED BY <2>2, <2>3, <3>1, <3>3, <3>4
  <2>5. CASE fate[w] # "on" BY <2>1, <2>2, <2>3, <2>5 DEF Finally
  <2>6. QED BY <2>4, <2>5
<1>7. ASSUME NEW w \in Watchers, Take(w) \/ Again(w) PROVE Timed' /\ Tabled'
  BY <1>7 DEF Take, Again, poll, buffers
<1>8. ASSUME NEW w \in Watchers, Emit(w) \/ Break(w) PROVE Timed' /\ Tabled'
  BY <1>8 DEF Emit, Break, poll
<1>9. CloseWatchers => Timed' /\ Tabled' BY DEF CloseWatchers, AllClosed, poll
<1>10. StartTurning \/ StopTurning => Timed' /\ Tabled'
  BY DEF StartTurning, StopTurning, poll, buffers
<1>11. UNCHANGED watchVars => Timed' /\ Tabled' BY DEF watchVars, poll, buffers
<1>12. QED BY <1>1, <1>2, <1>4, <1>5, <1>6, <1>7, <1>8, <1>9, <1>10, <1>11 DEF WatchNext

LEMMA EachKeeps ==
  WatchTypeOK /\ Tabled /\ Each /\ [WatchNext]_watchVars => Each'
<1> SUFFICES ASSUME WatchTypeOK, Tabled, Each, [WatchNext]_watchVars,
                    NEW v \in Watchers
             PROVE  Queued(v)' /\ Told(v)'
  BY DEF Each
<1>0. Queued(v) /\ Told(v) BY DEF Each
<1> USE DEF WatchTypeOK, Queued, Told, Looping
<1>1. ASSUME NEW w \in Watchers, Open(w) PROVE Queued(v)' /\ Told(v)' BY <1>0, <1>1 DEF Open
<1>2. ASSUME NEW w \in Watchers, OpenFired(w) PROVE Queued(v)' /\ Told(v)'
  BY <1>0, <1>2 DEF OpenFired, buffers
<1>3. ASSUME NEW w \in Watchers, Close(w) \/ Fire(w) PROVE Queued(v)' /\ Told(v)'
  BY <1>0, <1>3 DEF Close, Fire, EndWatch, buffers, poll, iter
<1>4. Collect => Queued(v)' /\ Told(v)'
  <2> SUFFICES ASSUME Collect PROVE Queued(v)' /\ Told(v)'
    OBVIOUS
  <2>1. ~gone /\ ~gone' /\ table = live /\ (v \in live <=> fate[v] = "on")
    BY DEF Collect, Tabled
  <2>2. made' = made /\ gen' = gen BY DEF Collect
  <2>3. Reported[v] = IF v \in live THEN pending[v] ELSE 0 BY <2>1 DEF Reported
  <2>4. pending'[v] = IF v \in live THEN 0 ELSE pending[v] BY <2>1 DEF Collect
  <2>5. v \in err' <=> v \in err /\ v \notin live BY <2>1 DEF Collect
  <2>6. fate'[v] = IF v \in err /\ v \in live THEN "failed" ELSE fate[v]
    BY <2>1 DEF Collect
  <2>7. /\ queue'[v] = IF v \in Iterators THEN queue[v] + Reported[v] ELSE 0
        /\ handed'[v] = IF v \in Iterators THEN handed[v] ELSE handed[v] + Reported[v]
    BY DEF Collect
  <2>8. /\ made[v] \in Nat /\ handed[v] \in Nat /\ queue[v] \in Nat /\ pending[v] \in Nat
    BY WatchConstants
  <2>9. handed'[v] + queue'[v] + pending'[v] = handed[v] + queue[v] + pending[v]
    BY <1>0, <2>3, <2>4, <2>7, <2>8
  <2>10. Told(v)' BY <1>0, <2>1, <2>2, <2>5, <2>6, <2>9
  <2>11. Queued(v)' BY <1>0, <2>1, <2>2, <2>3, <2>6, <2>7, <2>8
  <2>12. QED BY <2>10, <2>11
<1>5. ASSUME NEW w \in Watchers, Take(w) PROVE Queued(v)' /\ Told(v)'
  BY <1>0, <1>5, WatchConstants DEF Take, buffers, poll
<1>6. ASSUME NEW w \in Watchers, Again(w) PROVE Queued(v)' /\ Told(v)'
  BY <1>0, <1>6 DEF Again, buffers, poll
<1>7. ASSUME NEW w \in Watchers, Finish(w) \/ LeaveLoop(w) PROVE Queued(v)' /\ Told(v)'
  BY <1>0, <1>7 DEF Finish, LeaveLoop, AtItsEnd, Finally
<1>8. ASSUME NEW w \in Watchers, Emit(w) PROVE Queued(v)' /\ Told(v)'
  <2>1. Queued(v)' BY <1>0, <1>8 DEF Emit, poll, iter
  <2>2. CASE pending[w] = Limit
    BY <1>0, <1>8, <2>2, WatchConstants DEF Emit, Buffer, poll, iter
  <2>3. CASE pending[w] # Limit
    BY <1>0, <1>8, <2>3, WatchConstants DEF Emit, Buffer, poll, iter
  <2>4. QED BY <2>1, <2>2, <2>3
<1>9. ASSUME NEW w \in Watchers, Break(w) PROVE Queued(v)' /\ Told(v)'
  BY <1>0, <1>9 DEF Break, poll, iter
<1>10. CloseWatchers => Queued(v)' /\ Told(v)' BY <1>0 DEF CloseWatchers, poll, iter
<1>11. StartTurning \/ StopTurning => Queued(v)' /\ Told(v)'
  BY <1>0 DEF StartTurning, StopTurning, buffers, poll, iter
<1>12. UNCHANGED watchVars => Queued(v)' /\ Told(v)'
  BY <1>0 DEF watchVars, buffers, poll, iter
<1>13. QED
  BY <1>1, <1>2, <1>3, <1>4, <1>5, <1>6, <1>7, <1>8, <1>9, <1>10, <1>11, <1>12 DEF WatchNext

-----------------------------------------------------------------------------
LEMMA WatchKeeps == WInv /\ [WatchNext]_watchVars => WInv'
BY WatchTypeKeeps, CountKeeps, PollKeeps, EachKeeps DEF WInv

\* The timer runs and is ref'd while an iterator waits: its hold is counted.
LEMMA Refd == WInv => PollHeld
<1> SUFFICES ASSUME WInv PROVE PollHeld
  OBVIOUS
<1>1. timer = "off" <=> live = {} BY DEF WInv, Timed, Idly
<1>2. ASSUME NEW w \in Iterators, gen[w] = "wait", w \in live PROVE timer = "ref"
  <2>1. w \in InLoop BY <1>2, WatchConstants DEF InLoop
  <2>2. holds >= 1 BY <2>1, Holder DEF WInv, WatchTypeOK
  <2>3. QED BY <1>2, <2>2 DEF WInv, WatchTypeOK, Timed, Idly
<1>3. QED BY <1>1, <1>2 DEF PollHeld

\* What the inductive invariant says of events, errors and fsnotify watchers.
LEMMA WatchGives == WInv => GapIsTold /\ ErrorComesLast /\ OnlyFailedLinger
<1>1. WInv => GapIsTold BY DEF WInv, Each, Told, GapIsTold
<1>2. WInv => ErrorComesLast
  BY WatchConstants DEF WInv, Each, Queued, ErrorComesLast
<1>3. WInv => OnlyFailedLinger BY DEF WInv, Tabled, OnlyFailedLinger
<1>4. QED BY <1>1, <1>2, <1>3

\* The inductive invariant of file watching.
THEOREM WatchInductive == WatchSpec => []WInv
<1>1. WatchInit => WInv BY InitWInv DEF WatchInit
<1>2. QED BY <1>1, WatchKeeps, PTL DEF WatchSpec

\* nodecompat/watch.go and fs.js: every variable keeps its type; the count of
\* holds never goes below zero.
THEOREM WatchTypeCorrect == WatchSpec => []WatchTypeOK
<1>1. WInv => WatchTypeOK BY DEF WInv
<1>2. QED BY <1>1, WatchInductive, PTL
=============================================================================
