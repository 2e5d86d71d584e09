---------------------------- MODULE BridgeProofs ----------------------------
(***************************************************************************)
(* The safety of Bridge, proved for any number of mounts, effects, workers *)
(* and disposers.                                                          *)
(*                                                                         *)
(* The inductive invariant has three parts, for the three things that meet *)
(* in the bridge: Crossing, where a call of perform and its operation are; *)
(* Tracking, that the Go teardown is the first effect cordis tracked, that *)
(* every effect of Apply follows it until it is reverted, and that its     *)
(* inverse is in b.callbacks until then; and Disposal, that a disposer is  *)
(* in one list, or with one runner, or has run.                            *)
(***************************************************************************)
EXTENDS Bridge, SequenceTheorems, TLAPS

Begun == {"pending", "settled", "failed"}   \* the operation has run

\* A call is answered by its own operation, and only while it has a waiter.
Crossing ==
  /\ \A c \in Calls : at[c] = "new" =>
       c \notin waiters /\ answer[c] = "empty" /\ js[c] = "none"
  /\ \A c \in Calls : at[c] = "post" => answer[c] = "empty" /\ js[c] = "none"
  /\ \A c \in waiters : answer[c] = "empty"
  /\ \A c \in Calls : answer[c] # "empty" => js[c] \in {"settled", "failed"}
  /\ World => \A c \in Calls : at[c] = "returned" => js[c] \in {"settled", "failed"}
  /\ \A i \in DOMAIN posted : js[posted[i]] = "posted"
  /\ \A i, j \in DOMAIN posted : i # j => posted[i] # posted[j]

Mounted == {"applying", "applied", "failed", "active", "unloading"}
TornDown == {"dispose", "running", "disposed", "released"}

Tracking ==
  /\ \A c \in Effects : fiber[MountOf[c]] = "new" => at[c] = "new"
  /\ \A c \in Effects : fiber[MountOf[c]] \notin {"new", "applying"} => ~InCall(c)
  /\ \A m \in Mounts : fiber[m] \in Mounted =>
       /\ tracked[m] # <<>>
       /\ tracked[m][1] = Teardown
       /\ \A i \in DOMAIN tracked[m] : i # 1 => tracked[m][i] \in Effects
  /\ \A m \in Mounts : fiber[m] \notin Mounted => tracked[m] = <<>>
  /\ \A m \in Mounts : \A i \in DOMAIN tracked[m] : tracked[m][i] \in Effects =>
       MountOf[tracked[m][i]] = m /\ js[tracked[m][i]] \in Begun
  /\ \A c \in Effects : js[c] \in Begun =>
       \/ c \in reverted
       \/ \E i \in DOMAIN tracked[MountOf[c]] : tracked[MountOf[c]][i] = c
  /\ World => \A c \in Effects :
       at[c] # "new" /\ fiber[MountOf[c]] \in Mounted => c \in callbacks

\* A disposer is in its mount's list, or with one runner, or has run.
Disposal ==
  /\ \A m \in Mounts : \A d \in disposers[m] : d[1] = m /\ d[2] <= count /\ d \notin ran
  /\ \A x \in Runners : \A d \in left[x] : d[2] <= count /\ d \notin ran
  /\ \A x \in Runners, m \in Mounts : left[x] \cap disposers[m] = {}
  /\ \A x, y \in Runners : x # y => left[x] \cap left[y] = {}
  /\ \A d \in ran : d[2] <= count
  /\ \A m \in Mounts : fiber[m] # "running" => Free(m)
  /\ ~closed => Free(Close)

\* What close() found registered is not lost.
Kept ==
  closed => \A d \in early :
    \/ d \in ran
    \/ \E x \in Runners : d \in left[x]
    \/ \E m \in todo : d \in disposers[m]

IInv == TypeOK /\ Crossing /\ Tracking /\ Disposal /\ Kept

USE DEF life, lists, running, closing, crossing, World, closed, done, Runners

LEMMA InitIInv == Init => IInv
<1> SUFFICES ASSUME Init PROVE IInv
  OBVIOUS
<1>1. tracked \in [Mounts -> Seq(Effects \cup {Teardown})] /\ posted \in Seq(Calls)
  BY DEF Init
<1>2. TypeOK BY <1>1, BridgeConstants DEF Init, TypeOK
<1>3. Crossing BY DEF Init, Crossing
<1>4. Tracking BY BridgeConstants DEF Init, Tracking, Begun, Mounted, Calls, InCall
<1>5. Disposal BY DEF Init, Disposal, Free
<1>6. Kept BY DEF Init, Kept
<1>7. QED BY <1>2, <1>3, <1>4, <1>5, <1>6 DEF IInv

-----------------------------------------------------------------------------
(* What each part depends on.                                              *)

LEMMA CrossingFrame ==
  ASSUME Crossing, UNCHANGED crossing, own' = own \/ own' # "world"
  PROVE  Crossing'
BY DEF Crossing

LEMMA TrackingFrame ==
  ASSUME Tracking, UNCHANGED <<life, at, js>>,
         (own' = own /\ callbacks' = callbacks) \/ own' # "world"
  PROVE  Tracking'
BY DEF Tracking, InCall

LEMMA DisposalFrame ==
  ASSUME Disposal, Kept,
         UNCHANGED <<disposers, count, running, closing>>,
         closed' = closed,
         \A m \in Mounts : fiber'[m] = "running" <=> fiber[m] = "running"
  PROVE  Disposal' /\ Kept'
<1>1. Disposal' BY DEF Disposal, Free
<1>2. Kept' BY DEF Kept
<1>3. QED BY <1>1, <1>2

-----------------------------------------------------------------------------
(* A component's life.                                                     *)

FiberAt == {"new", "applying", "applied", "failed", "active", "unloading",
            "dispose", "running", "disposed", "released"}

LEMMA LifeMoves ==
  ASSUME TypeOK, NEW m \in Mounts, NEW a, NEW b \in FiberAt, Life(m, a, b)
  PROVE  /\ fiber[m] = a /\ fiber'[m] = b
         /\ \A n \in Mounts : n # m => fiber'[n] = fiber[n]
         /\ fiber' \in [Mounts -> FiberAt]
BY DEF Life, TypeOK, FiberAt

LEMMA MountKeeps ==
  ASSUME IInv, NEW m \in Mounts, Mount(m)
  PROVE  IInv'
<1>1. /\ fiber[m] = "new" /\ fiber'[m] = "applying"
      /\ \A n \in Mounts : n # m => fiber'[n] = fiber[n]
      /\ fiber' \in [Mounts -> FiberAt]
  BY LifeMoves DEF Mount, IInv, FiberAt
<1>2. /\ tracked'[m] = <<Teardown>>
      /\ \A n \in Mounts : n # m => tracked'[n] = tracked[n]
      /\ tracked' \in [Mounts -> Seq(Effects \cup {Teardown})]
  <2>1. <<Teardown>> \in Seq(Effects \cup {Teardown}) OBVIOUS
  <2>2. QED BY <2>1 DEF Mount, IInv, TypeOK
<1>3. /\ UNCHANGED <<own, callbacks, reverted>>
      /\ UNCHANGED <<disposers, count>> /\ UNCHANGED running
      /\ UNCHANGED closing /\ UNCHANGED crossing
  BY DEF Mount
<1>4. TypeOK' BY <1>1, <1>2, <1>3 DEF IInv, TypeOK, FiberAt
<1>5. Crossing' BY <1>3, CrossingFrame DEF IInv
<1>6. Tracking'
  <2>1. \A c \in Effects : MountOf[c] \in Mounts
    BY BridgeConstants DEF Calls
  <2>2. \A c \in Effects : MountOf[c] = m => at[c] = "new" /\ js[c] = "none"
    BY <1>1 DEF IInv, Tracking, Crossing, Calls
  <2>3. /\ \A c \in Effects : fiber'[MountOf[c]] = "new" => at'[c] = "new"
        /\ \A c \in Effects : fiber'[MountOf[c]] \notin {"new", "applying"} => ~InCall(c)'
    BY <1>1, <1>3, <2>1 DEF IInv, Tracking, InCall
  <2>4. \A n \in Mounts : fiber'[n] \in Mounted =>
          /\ tracked'[n] # <<>>
          /\ tracked'[n][1] = Teardown
          /\ \A i \in DOMAIN tracked'[n] : i # 1 => tracked'[n][i] \in Effects
    <3>1. /\ tracked'[m] # <<>> /\ tracked'[m][1] = Teardown
          /\ \A i \in DOMAIN tracked'[m] : i = 1
      BY <1>2
    <3>2. QED BY <1>1, <1>2, <3>1 DEF IInv, Tracking
  <2>5. \A n \in Mounts : fiber'[n] \notin Mounted => tracked'[n] = <<>>
    BY <1>1, <1>2 DEF IInv, Tracking, Mounted
  <2>6. \A n \in Mounts : \A i \in DOMAIN tracked'[n] : tracked'[n][i] \in Effects =>
          MountOf[tracked'[n][i]] = n /\ js'[tracked'[n][i]] \in Begun
    <3>1. Teardown \notin Effects BY BridgeConstants DEF Calls
    <3>2. \A i \in DOMAIN tracked'[m] : tracked'[m][i] = Teardown BY <1>2
    <3>3. QED BY <1>2, <1>3, <3>1, <3>2 DEF IInv, Tracking
  <2>7. \A c \in Effects : js'[c] \in Begun =>
          \/ c \in reverted'
          \/ \E i \in DOMAIN tracked'[MountOf[c]] : tracked'[MountOf[c]][i] = c
    BY <1>2, <1>3, <2>1, <2>2 DEF IInv, Tracking, Begun
  <2>8. World' => \A c \in Effects :
          at'[c] # "new" /\ fiber'[MountOf[c]] \in Mounted => c \in callbacks'
    BY <1>1, <1>3, <2>1, <2>2 DEF IInv, Tracking
  <2>9. QED BY <2>3, <2>4, <2>5, <2>6, <2>7, <2>8 DEF Tracking
<1>7. \A n \in Mounts : fiber'[n] = "running" <=> fiber[n] = "running"
  BY <1>1
<1>8. Disposal' /\ Kept' BY <1>3, <1>7, DisposalFrame DEF IInv
<1>9. QED BY <1>4, <1>5, <1>6, <1>8 DEF IInv

\* The steps that change nothing but the stage a component is at.
LEMMA StageKeeps ==
  ASSUME IInv, NEW m \in Mounts,
         ApplyReturns(m) \/ Loaded(m) \/ Unload(m) \/ DisposeEnds(m) \/ Release(m)
  PROVE  IInv'
<1>1. /\ UNCHANGED <<own, tracked, reverted, callbacks>>
      /\ UNCHANGED <<disposers, count>> /\ UNCHANGED running
      /\ UNCHANGED closing /\ UNCHANGED crossing
  BY DEF ApplyReturns, Loaded, Unload, DisposeEnds, Release
<1>2. PICK b \in FiberAt \ {"new", "applying", "running"} :
        /\ fiber'[m] = b
        /\ fiber[m] # "new"
        /\ b \in Mounted <=> fiber[m] \in Mounted
        /\ fiber[m] = "running" => Free(m)
        /\ fiber[m] = "applying" => \A c \in Effects : MountOf[c] = m => ~InCall(c)
        /\ \A n \in Mounts : n # m => fiber'[n] = fiber[n]
        /\ fiber' \in [Mounts -> FiberAt]
  <2>1. CASE ApplyReturns(m)
    <3>1. Life(m, "applying", "applied") \/ Life(m, "applying", "failed")
      BY <2>1 DEF ApplyReturns
    <3>2. \A c \in Effects : MountOf[c] = m => ~InCall(c)
      BY <2>1 DEF ApplyReturns
    <3>3. QED BY <3>1, <3>2, LifeMoves DEF IInv, FiberAt, Mounted
  <2>2. CASE Loaded(m) BY <2>2, LifeMoves DEF Loaded, IInv, FiberAt, Mounted
  <2>3. CASE Unload(m) BY <2>3, LifeMoves DEF Unload, IInv, FiberAt, Mounted
  <2>4. CASE DisposeEnds(m) BY <2>4, LifeMoves DEF DisposeEnds, IInv, FiberAt, Mounted
  <2>5. CASE Release(m) BY <2>5, LifeMoves DEF Release, IInv, FiberAt, Mounted
  <2>6. QED BY <2>1, <2>2, <2>3, <2>4, <2>5
<1>3. TypeOK' BY <1>1, <1>2 DEF IInv, TypeOK, FiberAt
<1>4. Crossing' BY <1>1, CrossingFrame DEF IInv
<1>5. Tracking'
  <2>1. \A c \in Effects : MountOf[c] \in Mounts
    BY BridgeConstants DEF Calls
  <2>2. \A n \in Mounts : fiber'[n] \in Mounted <=> fiber[n] \in Mounted
    BY <1>2
  <2>3. \A c \in Effects : fiber'[MountOf[c]] = "new" => at'[c] = "new"
    BY <1>1, <1>2, <2>1 DEF IInv, Tracking
  <2>4. \A c \in Effects : fiber'[MountOf[c]] \notin {"new", "applying"} => ~InCall(c)'
    BY <1>1, <1>2, <2>1 DEF IInv, Tracking, InCall
  <2>5. QED BY <1>1, <2>1, <2>2, <2>3, <2>4 DEF IInv, Tracking
<1>6. Disposal'
  <2>1. \A n \in Mounts : fiber'[n] # "running" => Free(n)'
    BY <1>1, <1>2 DEF IInv, Disposal, Free
  <2>2. QED BY <1>1, <2>1 DEF IInv, Disposal, Free
<1>7. Kept' BY <1>1 DEF IInv, Kept
<1>8. QED BY <1>3, <1>4, <1>5, <1>6, <1>7 DEF IInv

\* cordis reverts the last effect it tracked; the Go teardown comes last.
LEMMA RevertKeeps ==
  ASSUME IInv, NEW m \in Mounts, Revert(m)
  PROVE  IInv'
<1> DEFINE t == tracked[m]
           n == Len(t)
           e == t[n]
<1>1. /\ own = "world" /\ t # <<>>
      /\ tracked' = [tracked EXCEPT ![m] = Front(t)]
      /\ UNCHANGED <<own, callbacks>>
      /\ UNCHANGED <<disposers, count>> /\ UNCHANGED running
      /\ UNCHANGED closing /\ UNCHANGED crossing
  BY DEF Revert, RevertLast
<1>2. /\ \/ /\ e = Teardown
            /\ fiber' = [fiber EXCEPT ![m] = "dispose"]
            /\ reverted' = reverted
         \/ /\ e \in Effects
            /\ reverted' = reverted \cup ({e} \cap callbacks)
            /\ fiber' = fiber
      /\ fiber[m] \in {"unloading", "dispose", "running", "disposed"}
  BY DEF Revert, RevertLast, Last
<1>3. /\ t \in Seq(Effects \cup {Teardown}) /\ n \in Nat \ {0}
      /\ DOMAIN t = 1 .. n
  BY <1>1 DEF IInv, TypeOK
<1>4. /\ Front(t) \in Seq(Effects \cup {Teardown})
      /\ Len(Front(t)) = n - 1
      /\ DOMAIN Front(t) = 1 .. n - 1
      /\ \A i \in 1 .. n - 1 : Front(t)[i] = t[i]
  <2>1. \A i \in 1 .. n - 1 : t[i] \in Effects \cup {Teardown} BY <1>3
  <2>2. /\ Front(t) \in Seq(Effects \cup {Teardown})
        /\ Len(Front(t)) = n - 1
        /\ \A i \in 1 .. n - 1 : Front(t)[i] = t[i]
    <3>1. 1 \in Int /\ n - 1 \in Int /\ (n - 1) - 1 + 1 = n - 1 BY <1>3
    <3>2. /\ SubSeq(t, 1, n - 1) \in Seq(Effects \cup {Teardown})
          /\ Len(SubSeq(t, 1, n - 1)) = IF 1 <= n - 1 THEN (n - 1) - 1 + 1 ELSE 0
          /\ \A i \in 1 .. (n - 1) - 1 + 1 : SubSeq(t, 1, n - 1)[i] = t[1 + i - 1]
      BY <2>1, <3>1, SubSeqProperties
    <3>3. QED BY <1>3, <3>1, <3>2 DEF Front
  <2>3. QED BY <2>2
<1>5. fiber[m] = "unloading" /\ fiber[m] \in Mounted
  BY <1>1, <1>2 DEF IInv, Tracking, Mounted
<1>6. /\ tracked'[m] = Front(t)
      /\ \A k \in Mounts : k # m => tracked'[k] = tracked[k]
      /\ tracked' \in [Mounts -> Seq(Effects \cup {Teardown})]
  BY <1>1, <1>4 DEF IInv, TypeOK
<1>7. TypeOK'
  <2>1. fiber' \in [Mounts -> FiberAt] BY <1>2 DEF IInv, TypeOK, FiberAt
  <2>2. reverted' \subseteq Effects BY <1>2 DEF IInv, TypeOK
  <2>3. QED BY <1>1, <1>6, <2>1, <2>2 DEF IInv, TypeOK, FiberAt
<1>8. Crossing' BY <1>1, CrossingFrame DEF IInv
<1>9. Teardown \notin Effects /\ \A c \in Effects : MountOf[c] \in Mounts
  BY BridgeConstants DEF Calls
<1>10. /\ t[1] = Teardown
       /\ \A i \in DOMAIN t : i # 1 => t[i] \in Effects
  BY <1>5 DEF IInv, Tracking
\* An effect that is reverted has its inverse still: its call was begun.
<1>11. \A c \in Effects : js[c] \in Begun =>
         \/ c \in reverted'
         \/ \E i \in DOMAIN tracked'[MountOf[c]] : tracked'[MountOf[c]][i] = c
  <2>1. ASSUME NEW c \in Effects, js[c] \in Begun, c \notin reverted
        PROVE  \/ c \in reverted'
               \/ \E i \in DOMAIN tracked'[MountOf[c]] : tracked'[MountOf[c]][i] = c
    <3>1. PICK i \in DOMAIN tracked[MountOf[c]] : tracked[MountOf[c]][i] = c
      BY <2>1 DEF IInv, Tracking
    <3>2. CASE MountOf[c] # m BY <1>6, <1>9, <3>1, <3>2
    <3>3. CASE MountOf[c] = m /\ i # n
      BY <1>3, <1>4, <1>6, <3>1, <3>3
    <3>4. CASE MountOf[c] = m /\ i = n
      <4>1. at[c] # "new"
        BY <2>1 DEF IInv, Crossing, Begun, Calls
      <4>2. c \in callbacks
        BY <1>1, <1>5, <3>4, <4>1 DEF IInv, Tracking
      <4>3. e = c BY <3>1, <3>4
      <4>4. QED BY <1>2, <1>9, <4>2, <4>3
    <3>5. QED BY <3>2, <3>3, <3>4
  <2>2. reverted \subseteq reverted' BY <1>2
  <2>3. QED BY <2>1, <2>2
<1>12. \A k \in Mounts : \A i \in DOMAIN tracked'[k] : tracked'[k][i] \in Effects =>
         MountOf[tracked'[k][i]] = k /\ js'[tracked'[k][i]] \in Begun
  <2>1. \A i \in DOMAIN tracked'[m] : i \in DOMAIN t /\ tracked'[m][i] = t[i]
    BY <1>3, <1>4, <1>6
  <2>2. QED BY <1>1, <1>6, <2>1 DEF IInv, Tracking
<1>13. \A c \in Effects : /\ at'[c] = at[c] /\ js'[c] = js[c]
                          /\ InCall(c)' = InCall(c)
  BY <1>1 DEF InCall
<1>14. Tracking'
  <2>1. CASE e = Teardown
    <3>1. n = 1
      <4>1. n \in DOMAIN t BY <1>3
      <4>2. t[n] \notin Effects BY <1>9, <2>1
      <4>3. QED BY <1>10, <4>1, <4>2
    <3>2. tracked'[m] = <<>> BY <1>4, <1>6, <3>1
    <3>3. /\ fiber'[m] = "dispose"
          /\ \A k \in Mounts : k # m => fiber'[k] = fiber[k]
      BY <1>2, <1>9, <2>1 DEF IInv, TypeOK
    <3>4. /\ \A c \in Effects : fiber'[MountOf[c]] = "new" => at'[c] = "new"
          /\ \A c \in Effects : fiber'[MountOf[c]] \notin {"new", "applying"} => ~InCall(c)'
      BY <1>5, <1>9, <1>13, <3>3 DEF IInv, Tracking
    <3>5. \A k \in Mounts : fiber'[k] \in Mounted =>
            /\ tracked'[k] # <<>>
            /\ tracked'[k][1] = Teardown
            /\ \A i \in DOMAIN tracked'[k] : i # 1 => tracked'[k][i] \in Effects
      BY <1>6, <3>3 DEF IInv, Tracking, Mounted
    <3>6. \A k \in Mounts : fiber'[k] \notin Mounted => tracked'[k] = <<>>
      BY <1>6, <3>2, <3>3 DEF IInv, Tracking
    <3>7. World' => \A c \in Effects :
            at'[c] # "new" /\ fiber'[MountOf[c]] \in Mounted => c \in callbacks'
      BY <1>1, <1>9, <1>13, <3>3 DEF IInv, Tracking, Mounted
    <3>8. QED BY <1>11, <1>12, <1>13, <3>4, <3>5, <3>6, <3>7 DEF Tracking
  <2>2. CASE e \in Effects
    <3>1. fiber' = fiber BY <1>2, <1>9, <2>2
    <3>2. n # 1 BY <1>9, <1>10, <2>2
    <3>3. \A k \in Mounts : fiber'[k] \in Mounted =>
            /\ tracked'[k] # <<>>
            /\ tracked'[k][1] = Teardown
            /\ \A i \in DOMAIN tracked'[k] : i # 1 => tracked'[k][i] \in Effects
      <4>1. tracked'[m] # <<>> /\ tracked'[m][1] = Teardown
        <5> HIDE DEF n
        <5>1. 1 \in 1 .. n - 1 /\ n - 1 # 0 BY <1>3, <3>2
        <5>2. Front(t)[1] = t[1] BY <1>4, <5>1
        <5>3. Len(Front(t)) # 0 BY <1>4, <5>1
        <5>4. Front(t) # <<>> BY <5>3
        <5>5. QED BY <1>6, <1>10, <5>2, <5>4
      <4>2. \A i \in DOMAIN tracked'[m] : i # 1 => tracked'[m][i] \in Effects
        BY SMTT(30), <1>3, <1>4, <1>6, <1>10
      <4>3. QED BY <1>6, <3>1, <4>1, <4>2 DEF IInv, Tracking
    <3>4. \A k \in Mounts : fiber'[k] \notin Mounted => tracked'[k] = <<>>
      BY <1>5, <1>6, <3>1 DEF IInv, Tracking
    <3>5. /\ \A c \in Effects : fiber'[MountOf[c]] = "new" => at'[c] = "new"
          /\ \A c \in Effects : fiber'[MountOf[c]] \notin {"new", "applying"} => ~InCall(c)'
      BY <1>13, <3>1 DEF IInv, Tracking
    <3>6. World' => \A c \in Effects :
            at'[c] # "new" /\ fiber'[MountOf[c]] \in Mounted => c \in callbacks'
      BY <1>1, <1>13, <3>1 DEF IInv, Tracking
    <3>7. QED BY <1>11, <1>12, <1>13, <3>3, <3>4, <3>5, <3>6 DEF Tracking
  <2>3. QED BY <1>2, <2>1, <2>2
<1>15. \A k \in Mounts : fiber'[k] = "running" <=> fiber[k] = "running"
  BY <1>2, <1>5 DEF IInv, TypeOK
<1>16. Disposal' /\ Kept' BY <1>1, <1>15, DisposalFrame DEF IInv
<1>17. QED BY <1>7, <1>8, <1>14, <1>16 DEF IInv

-----------------------------------------------------------------------------
(* Disposers.                                                              *)

LEMMA OnDisposeKeeps ==
  ASSUME IInv, NEW m \in Mounts, OnDispose(m)
  PROVE  IInv'
<1> DEFINE d == <<m, count + 1>>
<1>1. /\ count' = count + 1 /\ count \in Nat /\ d \in Disposers
      /\ UNCHANGED <<own, fiber, tracked, reverted, callbacks>>
      /\ UNCHANGED running /\ UNCHANGED closing /\ UNCHANGED crossing
  BY BridgeConstants DEF OnDispose, IInv, TypeOK, Disposers
<1>2. /\ disposers'[m] = disposers[m] \cup {d}
      /\ \A n \in Mounts : n # m => disposers'[n] = disposers[n]
      /\ disposers' \in [Mounts -> SUBSET Disposers]
  BY <1>1 DEF OnDispose, IInv, TypeOK
<1>3. TypeOK'
  <2>1. count' \in 0 .. MaxDisposers
    BY <1>1, BridgeConstants DEF OnDispose, IInv, TypeOK
  <2>2. QED BY <1>1, <1>2, <2>1 DEF IInv, TypeOK
<1>4. Crossing' BY <1>1, CrossingFrame DEF IInv
<1>5. Tracking' BY <1>1, TrackingFrame DEF IInv
<1>6. /\ \A x \in Runners : \A e \in left[x] : e[2] \in Nat /\ e[2] <= count
      /\ \A e \in ran : e[2] \in Nat /\ e[2] <= count
      /\ \A n \in Mounts : \A e \in disposers[n] : e[2] \in Nat /\ e[2] <= count
  BY DEF IInv, TypeOK, Disposal, Disposers
<1>7. d[1] = m /\ d[2] = count + 1 OBVIOUS
<1>8. d \notin ran /\ \A x \in Runners : d \notin left[x]
  BY <1>1, <1>6, <1>7
<1> HIDE DEF d
<1>9. Disposal'
  <2>1. \A n \in Mounts : \A e \in disposers'[n] :
          e[1] = n /\ e[2] <= count' /\ e \notin ran'
    BY <1>1, <1>2, <1>6, <1>7, <1>8 DEF IInv, Disposal
  <2>2. /\ \A x \in Runners : \A e \in left'[x] : e[2] <= count' /\ e \notin ran'
        /\ \A e \in ran' : e[2] <= count'
    BY <1>1, <1>6 DEF IInv, Disposal
  <2>3. \A x \in Runners, n \in Mounts : left'[x] \cap disposers'[n] = {}
    BY <1>1, <1>2, <1>8 DEF IInv, Disposal
  <2>4. QED BY <1>1, <2>1, <2>2, <2>3 DEF IInv, Disposal, Free
<1>10. Kept'
  <2>1. \A n \in todo : n \in Mounts /\ disposers[n] \subseteq disposers'[n]
    BY <1>2 DEF IInv, TypeOK
  <2>2. QED BY <1>1, <2>1 DEF IInv, Kept
<1>11. QED BY <1>3, <1>4, <1>5, <1>9, <1>10 DEF IInv

LEMMA RunDisposerKeeps ==
  ASSUME IInv, NEW x \in Runners, RunDisposer(x)
  PROVE  /\ IInv'
         /\ \A y \in Runners : now[y] = None /\ now'[y] # None => now'[y] \notin ran
<1>1. PICK d \in left[x] :
        /\ IsNext(d, left[x])
        /\ now' = [now EXCEPT ![x] = d]
        /\ left' = [left EXCEPT ![x] = left[x] \ {d}]
        /\ ran' = ran \cup {d}
  BY DEF RunDisposer
<1>2. /\ now[x] = None
      /\ UNCHANGED <<own, fiber, tracked, reverted, callbacks>>
      /\ UNCHANGED <<disposers, count, todo, early>> /\ UNCHANGED crossing
  BY DEF RunDisposer
<1>3. d \in Disposers BY <1>1 DEF IInv, TypeOK
<1>4. /\ now'[x] = d /\ left'[x] = left[x] \ {d}
      /\ \A y \in Runners : y # x => now'[y] = now[y] /\ left'[y] = left[y]
      /\ now' \in [Runners -> Disposers \cup {None}]
      /\ left' \in [Runners -> SUBSET Disposers]
  BY <1>1, <1>3 DEF IInv, TypeOK
<1>5. TypeOK' BY <1>1, <1>2, <1>3, <1>4 DEF IInv, TypeOK
<1>6. Crossing' BY <1>2, CrossingFrame DEF IInv
<1>7. Tracking' BY <1>2, TrackingFrame DEF IInv
<1>8. /\ d \notin ran /\ d[2] <= count
      /\ \A n \in Mounts : d \notin disposers[n]
      /\ \A y \in Runners : y # x => d \notin left[y]
  BY <1>1 DEF IInv, Disposal
<1>9. Disposal'
  <2>1. /\ \A n \in Mounts : \A e \in disposers'[n] :
             e[1] = n /\ e[2] <= count' /\ e \notin ran'
        /\ \A e \in ran' : e[2] <= count'
    BY <1>1, <1>2, <1>8 DEF IInv, Disposal
  <2>2. \A y \in Runners : \A e \in left'[y] : e[2] <= count' /\ e \notin ran'
    BY <1>1, <1>2, <1>4, <1>8 DEF IInv, Disposal
  <2>3. /\ \A y \in Runners, n \in Mounts : left'[y] \cap disposers'[n] = {}
        /\ \A y, z \in Runners : y # z => left'[y] \cap left'[z] = {}
    BY <1>2, <1>4 DEF IInv, Disposal
  <2>4. ~Free(x) BY <1>1 DEF Free
  <2>5. \A y \in Runners : Free(y) => Free(y)'
    BY <1>4, <2>4 DEF Free
  <2>6. QED BY <1>2, <2>1, <2>2, <2>3, <2>5 DEF IInv, Disposal
<1>10. Kept'
  <2>1. \A e : (\E y \in Runners : e \in left[y]) =>
                 e \in ran' \/ \E y \in Runners : e \in left'[y]
    BY <1>1, <1>4
  <2>2. QED BY <1>1, <1>2, <2>1 DEF IInv, Kept
<1>11. \A y \in Runners : now[y] = None /\ now'[y] # None => now'[y] \notin ran
  BY <1>4, <1>8
<1>12. QED BY <1>5, <1>6, <1>7, <1>9, <1>10, <1>11 DEF IInv

LEMMA DisposerReturnsKeeps ==
  ASSUME IInv, NEW x \in Runners, DisposerReturns(x)
  PROVE  IInv'
<1>1. /\ UNCHANGED <<own, fiber, tracked, reverted, callbacks>>
      /\ UNCHANGED <<disposers, count, left, ran, todo, early>> /\ UNCHANGED crossing
  BY DEF DisposerReturns
<1>2. /\ now[x] # None /\ now'[x] = None
      /\ \A y \in Runners : y # x => now'[y] = now[y]
      /\ now' \in [Runners -> Disposers \cup {None}]
  BY DEF DisposerReturns, IInv, TypeOK
<1>3. TypeOK' BY <1>1, <1>2 DEF IInv, TypeOK
<1>4. Crossing' BY <1>1, CrossingFrame DEF IInv
<1>5. Tracking' BY <1>1, TrackingFrame DEF IInv
<1>6. \A y \in Runners : Free(y) => Free(y)' BY <1>1, <1>2 DEF Free
<1>7. Disposal' BY <1>1, <1>6 DEF IInv, Disposal
<1>8. Kept' BY <1>1, <1>2 DEF IInv, Kept
<1>9. QED BY <1>3, <1>4, <1>5, <1>7, <1>8 DEF IInv

\* Taking a list: what both the goroutine of an unmount and close() do.
LEMMA TakeListMoves ==
  ASSUME IInv, NEW m \in Mounts, NEW x \in Runners, TakeList(x, m), Free(x),
         UNCHANGED <<count, now, ran>>
  PROVE  /\ left'[x] = disposers[m] /\ disposers'[m] = {}
         /\ \A y \in Runners : y # x => left'[y] = left[y]
         /\ \A n \in Mounts : n # m => disposers'[n] = disposers[n]
         /\ left' \in [Runners -> SUBSET Disposers]
         /\ disposers' \in [Mounts -> SUBSET Disposers]
         /\ callbacks' = callbacks \ Owned(m)
         /\ \A n \in Mounts : \A d \in disposers'[n] : d[1] = n /\ d[2] <= count' /\ d \notin ran'
         /\ \A y \in Runners : \A d \in left'[y] : d[2] <= count' /\ d \notin ran'
         /\ \A y \in Runners, n \in Mounts : left'[y] \cap disposers'[n] = {}
         /\ \A y, z \in Runners : y # z => left'[y] \cap left'[z] = {}
         /\ \A d \in ran' : d[2] <= count'
         /\ \A y \in Runners : y # x /\ Free(y) => Free(y)'
<1>1. /\ left'[x] = disposers[m] /\ disposers'[m] = {}
      /\ \A y \in Runners : y # x => left'[y] = left[y]
      /\ \A n \in Mounts : n # m => disposers'[n] = disposers[n]
      /\ left' \in [Runners -> SUBSET Disposers]
      /\ disposers' \in [Mounts -> SUBSET Disposers]
      /\ callbacks' = callbacks \ Owned(m)
  BY DEF TakeList, IInv, TypeOK
<1>2. /\ \A n \in Mounts : \A d \in disposers'[n] : d[1] = n /\ d[2] <= count' /\ d \notin ran'
      /\ \A y \in Runners : \A d \in left'[y] : d[2] <= count' /\ d \notin ran'
      /\ \A d \in ran' : d[2] <= count'
  BY <1>1 DEF IInv, Disposal
<1>3. \A n \in Mounts : n # m => disposers[m] \cap disposers[n] = {}
  BY DEF IInv, Disposal
<1>4. \A y \in Runners, n \in Mounts : left'[y] \cap disposers'[n] = {}
  BY <1>1, <1>3 DEF IInv, Disposal
<1>5. \A y, z \in Runners : y # z => left'[y] \cap left'[z] = {}
  BY <1>1 DEF IInv, Disposal
<1>6. \A y \in Runners : y # x /\ Free(y) => Free(y)' BY <1>1 DEF Free
<1>7. QED BY <1>1, <1>2, <1>4, <1>5, <1>6

LEMMA DisposeGoroutineKeeps ==
  ASSUME IInv, NEW m \in Mounts, DisposeGoroutine(m)
  PROVE  IInv'
<1>1. /\ fiber[m] = "dispose" /\ fiber'[m] = "running"
      /\ \A n \in Mounts : n # m => fiber'[n] = fiber[n]
      /\ fiber' \in [Mounts -> FiberAt]
  BY LifeMoves DEF DisposeGoroutine, IInv, FiberAt
<1>2. /\ UNCHANGED <<own, tracked, reverted, count, now, ran, todo, early>>
      /\ UNCHANGED crossing /\ TakeList(m, m)
  BY DEF DisposeGoroutine
<1>3. Free(m) /\ m \in Runners BY <1>1 DEF IInv, Disposal
<1>4. /\ left'[m] = disposers[m] /\ disposers'[m] = {}
      /\ \A y \in Runners : y # m => left'[y] = left[y]
      /\ \A n \in Mounts : n # m => disposers'[n] = disposers[n]
      /\ left' \in [Runners -> SUBSET Disposers]
      /\ disposers' \in [Mounts -> SUBSET Disposers]
      /\ callbacks' = callbacks \ Owned(m)
      /\ \A y \in Runners : y # m /\ Free(y) => Free(y)'
  BY ZenonT(60), <1>2, <1>3, TakeListMoves
<1>5. TypeOK' BY <1>1, <1>2, <1>4 DEF IInv, TypeOK, FiberAt
<1>6. Crossing' BY <1>2, CrossingFrame DEF IInv
<1>7. Tracking'
  <2>1. \A c \in Effects : MountOf[c] \in Mounts /\ InCall(c)' = InCall(c)
    BY <1>2, BridgeConstants DEF Calls, InCall
  <2>2. \A n \in Mounts : /\ fiber'[n] \in Mounted <=> fiber[n] \in Mounted
                          /\ fiber'[n] = "new" => fiber[n] = "new"
                          /\ fiber'[n] \notin {"new", "applying"} =>
                                fiber[n] \notin {"new", "applying"}
    BY <1>1 DEF Mounted
  <2>3. World' => \A c \in Effects :
          at'[c] # "new" /\ fiber'[MountOf[c]] \in Mounted => c \in callbacks'
    <3>1. \A c \in Effects : fiber[MountOf[c]] \in Mounted => c \notin Owned(m)
      BY <1>1 DEF Owned, Mounted
    <3>2. QED BY <1>2, <1>4, <2>1, <2>2, <3>1 DEF IInv, Tracking
  <2>4. QED BY <1>2, <2>1, <2>2, <2>3 DEF IInv, Tracking
<1>8. Disposal'
  <2>1. \A n \in Mounts : fiber'[n] # "running" => Free(n)'
    BY <1>1, <1>4 DEF IInv, Disposal
  <2>2. Close # m BY BridgeConstants
  <2>3. ~closed' => Free(Close)' BY <1>2, <1>4, <2>2 DEF IInv, Disposal
  <2>4. QED BY <1>2, <1>3, <2>1, <2>3, TakeListMoves DEF Disposal
<1>9. Kept'
  <2>1. \A n \in Mounts : disposers[n] \subseteq disposers'[n] \cup left'[m]
    BY <1>4
  <2>2. \A y \in Runners : left[y] \subseteq left'[y]
    BY <1>3, <1>4 DEF Free
  <2>3. todo \subseteq Mounts BY DEF IInv, TypeOK
  <2>4. QED BY <1>2, <1>3, <2>1, <2>2, <2>3 DEF IInv, Kept
<1>10. QED BY <1>4, <1>5, <1>6, <1>7, <1>8, <1>9 DEF IInv

LEMMA BackstopKeeps ==
  ASSUME IInv, NEW m \in Mounts, Backstop(m)
  PROVE  IInv'
<1>1. /\ own = "disposing" /\ m \in todo /\ todo' = todo \ {m} /\ TakeList(Close, m)
      /\ UNCHANGED <<own, fiber, tracked, reverted, count, now, ran, early>>
      /\ UNCHANGED crossing
  BY DEF Backstop
<1>2. Free(Close) /\ Close \in Runners /\ Close \notin Mounts
  BY BridgeConstants DEF Backstop
<1>3. /\ left'[Close] = disposers[m] /\ disposers'[m] = {}
      /\ \A y \in Runners : y # Close => left'[y] = left[y]
      /\ \A n \in Mounts : n # m => disposers'[n] = disposers[n]
      /\ left' \in [Runners -> SUBSET Disposers]
      /\ disposers' \in [Mounts -> SUBSET Disposers]
      /\ callbacks' = callbacks \ Owned(m)
      /\ \A y \in Runners : y # Close /\ Free(y) => Free(y)'
  BY <1>1, <1>2, TakeListMoves
<1>4. TypeOK' BY <1>1, <1>3 DEF IInv, TypeOK
<1>5. Crossing' BY <1>1, CrossingFrame DEF IInv
<1>6. Tracking' BY <1>1, TrackingFrame DEF IInv
<1>7. Disposal'
  <2>1. \A n \in Mounts : fiber'[n] # "running" => Free(n)'
    BY <1>1, <1>2, <1>3 DEF IInv, Disposal
  <2>2. closed' BY <1>1
  <2>3. QED BY <1>1, <1>2, <2>1, <2>2, TakeListMoves DEF Disposal
<1>8. Kept'
  <2>1. \A n \in todo : \A d \in disposers[n] :
          d \in left'[Close] \/ (n \in todo' /\ d \in disposers'[n])
    <3>1. \A n \in todo : n \in Mounts BY DEF IInv, TypeOK
    <3>2. \A n \in todo : n = m \/ (n \in todo' /\ disposers'[n] = disposers[n])
      BY <1>1, <1>3, <3>1
    <3>3. QED BY <1>3, <3>2
  <2>2. \A y \in Runners : left[y] \subseteq left'[y]
    BY <1>2, <1>3 DEF Free
  <2>3. QED BY <1>1, <1>2, <2>1, <2>2 DEF IInv, Kept
<1>9. QED BY <1>3, <1>4, <1>5, <1>6, <1>7, <1>8 DEF IInv

LEMMA ClosingKeeps ==
  ASSUME IInv, EngineCloses \/ BridgeCloses \/ CloseDone
  PROVE  IInv'
<1>1. /\ UNCHANGED <<fiber, tracked, reverted, callbacks, disposers, count>>
      /\ UNCHANGED running /\ UNCHANGED crossing
      /\ own' \in {"engineClosed", "disposing", "closed"}
  BY DEF EngineCloses, BridgeCloses, CloseDone
<1>2. Crossing' BY <1>1, CrossingFrame DEF IInv
<1>3. Tracking' BY <1>1, TrackingFrame DEF IInv
<1>4. CASE EngineCloses \/ CloseDone
  <2>1. UNCHANGED closing /\ closed' = closed BY <1>4 DEF EngineCloses, CloseDone
  <2>2. TypeOK' BY <1>1, <2>1 DEF IInv, TypeOK
  <2>3. Disposal' /\ Kept' BY <1>1, <2>1, DisposalFrame DEF IInv
  <2>4. QED BY <1>2, <1>3, <2>2, <2>3 DEF IInv
<1>5. CASE BridgeCloses
  <2>1. /\ todo' = {m \in Mounts : disposers[m] # {}}
        /\ early' = UNION {disposers[m] : m \in Mounts}
        /\ own' = "disposing"
    BY <1>5 DEF BridgeCloses, HasDisposers
  <2>2. todo' \subseteq Mounts /\ early' \subseteq Disposers
    BY <2>1 DEF IInv, TypeOK
  <2>3. TypeOK' BY <1>1, <2>2 DEF IInv, TypeOK
  <2>4. Disposal' BY <1>1, <2>1 DEF IInv, Disposal, Free
  <2>5. Kept' BY <1>1, <2>1 DEF Kept
  <2>6. QED BY <1>2, <1>3, <2>3, <2>4, <2>5 DEF IInv
<1>6. QED BY <1>4, <1>5

-----------------------------------------------------------------------------
(* Calls of perform.                                                       *)

CallAt == {"new", "post", "select", "returned"}

LEMMA EnterKeeps ==
  ASSUME IInv, NEW c \in Calls, Enter(c)
  PROVE  IInv'
<1>1. /\ UNCHANGED <<own, fiber, tracked, reverted, disposers, count>>
      /\ UNCHANGED running /\ UNCHANGED closing /\ UNCHANGED <<js, posted, answer>>
      /\ at[c] = "new" /\ callbacks' = callbacks \cup ({c} \cap Effects)
  BY DEF Enter, Goto
<1>2. PICK b \in {"post", "returned"} :
        /\ at' = [at EXCEPT ![c] = b]
        /\ b = "returned" => closed /\ waiters' = waiters
        /\ b = "post" => waiters' = waiters \cup {c}
  BY DEF Enter, Goto
<1>3. /\ at'[c] = b /\ \A k \in Calls : k # c => at'[k] = at[k]
      /\ at' \in [Calls -> CallAt]
  BY <1>2 DEF IInv, TypeOK, CallAt
<1>4. c \notin waiters /\ answer[c] = "empty" /\ js[c] = "none"
  BY <1>1 DEF IInv, Crossing
<1>5. TypeOK'
  <2>1. waiters' \subseteq Calls BY <1>2 DEF IInv, TypeOK
  <2>2. callbacks' \subseteq Effects BY <1>1 DEF IInv, TypeOK
  <2>3. QED BY <1>1, <1>3, <2>1, <2>2 DEF IInv, TypeOK, CallAt
<1>6. Crossing'
  <2>1. /\ \A k \in Calls : at'[k] = "new" =>
             k \notin waiters' /\ answer'[k] = "empty" /\ js'[k] = "none"
        /\ \A k \in Calls : at'[k] = "post" => answer'[k] = "empty" /\ js'[k] = "none"
        /\ \A k \in waiters' : answer'[k] = "empty"
    BY <1>1, <1>2, <1>3, <1>4 DEF IInv, Crossing
  <2>2. World' => \A k \in Calls : at'[k] = "returned" => js'[k] \in {"settled", "failed"}
    BY <1>1, <1>2, <1>3 DEF IInv, Crossing
  <2>3. QED BY <1>1, <2>1, <2>2 DEF IInv, Crossing
<1>7. Tracking'
  <2>1. May(c) BY DEF Enter
  <2>2. \A k \in Effects : k # c => InCall(k)' = InCall(k) /\ at'[k] = at[k]
    BY <1>3 DEF InCall, Calls
  <2>3. c \in Effects => fiber[MountOf[c]] = "applying" /\ c \in callbacks'
    BY <1>1, <2>1 DEF May
  <2>4. callbacks \subseteq callbacks' BY <1>1
  <2>5. QED BY <1>1, <2>2, <2>3, <2>4 DEF IInv, Tracking
<1>8. Disposal' /\ Kept' BY <1>1, DisposalFrame DEF IInv
<1>9. QED BY <1>5, <1>6, <1>7, <1>8 DEF IInv

LEMMA PostKeeps ==
  ASSUME IInv, NEW c \in Calls, Post(c)
  PROVE  IInv'
<1>1. /\ UNCHANGED <<own, fiber, tracked, reverted, callbacks, disposers, count>>
      /\ UNCHANGED running /\ UNCHANGED closing /\ UNCHANGED answer
      /\ at[c] = "post" /\ answer[c] = "empty" /\ js[c] = "none"
  BY DEF Post, Goto, IInv, Crossing
<1>2. Disposal' /\ Kept' BY <1>1, DisposalFrame DEF IInv
<1>3. \A k \in Effects : k \in Calls BY DEF Calls
<1>4. CASE World
  <2>1. /\ at' = [at EXCEPT ![c] = "select"]
        /\ posted' = Append(posted, c)
        /\ js' = [js EXCEPT ![c] = "posted"]
        /\ waiters' = waiters
    BY <1>4 DEF Post, Goto
  <2>2. /\ at'[c] = "select" /\ js'[c] = "posted"
        /\ \A k \in Calls : k # c => at'[k] = at[k] /\ js'[k] = js[k]
        /\ at' \in [Calls -> CallAt]
        /\ js' \in [Calls -> {"none", "posted", "pending", "settled", "failed"}]
    BY <2>1 DEF IInv, TypeOK, CallAt
  <2>3. posted \in Seq(Calls) BY DEF IInv, TypeOK
  <2>4. /\ posted' \in Seq(Calls)
        /\ Len(posted) \in Nat
        /\ DOMAIN posted = 1 .. Len(posted)
        /\ DOMAIN posted' = 1 .. Len(posted) + 1
        /\ \A i \in DOMAIN posted : posted'[i] = posted[i] /\ posted[i] \in Calls
        /\ posted'[Len(posted) + 1] = c
    BY <2>1, <2>3
  <2>5. TypeOK' BY <1>1, <2>1, <2>2, <2>4 DEF IInv, TypeOK, CallAt
  <2>6. \A i \in DOMAIN posted : posted[i] # c
    BY <1>1 DEF IInv, Crossing
  <2>7. Crossing'
    <3>1. \A i \in DOMAIN posted' : js'[posted'[i]] = "posted"
      BY <2>2, <2>4, <2>6 DEF IInv, Crossing
    <3>2. \A i, j \in DOMAIN posted' : i # j => posted'[i] # posted'[j]
      <4>1. \A i \in DOMAIN posted' : i \in DOMAIN posted \/ i = Len(posted) + 1
        BY <2>4
      <4>2. \A i, j \in DOMAIN posted : i # j => posted[i] # posted[j]
        BY DEF IInv, Crossing
      <4>3. QED BY <2>4, <2>6, <4>1, <4>2
    <3>3. QED BY <1>1, <2>1, <2>2, <3>1, <3>2 DEF IInv, Crossing
  <2>8. Tracking'
    <3>1. \A k \in Effects : /\ InCall(k)' = InCall(k)
                             /\ at'[k] = "new" <=> at[k] = "new"
                             /\ js'[k] \in Begun <=> js[k] \in Begun
      BY <1>1, <1>3, <2>2 DEF InCall, Begun
    <3>2. QED BY <1>1, <3>1 DEF IInv, Tracking
  <2>9. QED BY <1>2, <2>5, <2>7, <2>8 DEF IInv
<1>5. CASE ~World
  <2>1. /\ at' = [at EXCEPT ![c] = "returned"]
        /\ waiters' = waiters \ {c}
        /\ UNCHANGED <<posted, js>>
    BY <1>5 DEF Post, Goto
  <2>2. /\ at'[c] = "returned" /\ \A k \in Calls : k # c => at'[k] = at[k]
        /\ at' \in [Calls -> CallAt]
    BY <2>1 DEF IInv, TypeOK, CallAt
  <2>3. TypeOK' BY <1>1, <2>1, <2>2 DEF IInv, TypeOK, CallAt
  <2>4. Crossing' BY <1>1, <1>5, <2>1, <2>2 DEF IInv, Crossing
  <2>5. Tracking'
    <3>1. \A k \in Effects : /\ InCall(k)' => InCall(k)
                             /\ at'[k] = "new" <=> at[k] = "new"
      BY <1>1, <1>3, <2>2 DEF InCall
    <3>2. QED BY <1>1, <2>1, <3>1 DEF IInv, Tracking
  <2>6. QED BY <1>2, <2>3, <2>4, <2>5 DEF IInv
<1>6. QED BY <1>4, <1>5

LEMMA ReturnKeeps ==
  ASSUME IInv, NEW c \in Calls, Return(c)
  PROVE  IInv'
<1>1. /\ UNCHANGED <<own, fiber, tracked, reverted, callbacks, disposers, count>>
      /\ UNCHANGED running /\ UNCHANGED closing
      /\ UNCHANGED <<js, posted, waiters>>
      /\ at[c] = "select" /\ at' = [at EXCEPT ![c] = "returned"]
  BY DEF Return, Goto
<1>2. \/ answer[c] # "empty" /\ answer' = [answer EXCEPT ![c] = "empty"]
      \/ done /\ answer' = answer
  BY DEF Return
<1>3. /\ at'[c] = "returned" /\ \A k \in Calls : k # c => at'[k] = at[k]
      /\ at' \in [Calls -> CallAt]
  BY <1>1 DEF IInv, TypeOK, CallAt
<1>4. /\ \A k \in Calls : answer'[k] = answer[k] \/ answer'[k] = "empty"
      /\ answer' \in [Calls -> {"empty", "ok", "error"}]
  BY <1>2 DEF IInv, TypeOK
<1>5. World => js[c] \in {"settled", "failed"}
  BY <1>2 DEF IInv, Crossing
<1>6. TypeOK' BY <1>1, <1>3, <1>4 DEF IInv, TypeOK, CallAt
<1>7. Crossing'
  <2>1. waiters \subseteq Calls BY DEF IInv, TypeOK
  <2>2. QED BY <1>1, <1>3, <1>4, <1>5, <2>1 DEF IInv, Crossing
<1>8. Tracking'
  <2>1. \A k \in Effects : /\ InCall(k)' => InCall(k)
                           /\ at'[k] = "new" <=> at[k] = "new"
    BY <1>1, <1>3 DEF InCall, Calls
  <2>2. QED BY <1>1, <2>1 DEF IInv, Tracking
<1>9. Disposal' /\ Kept' BY <1>1, DisposalFrame DEF IInv
<1>10. QED BY <1>6, <1>7, <1>8, <1>9 DEF IInv

\* An effect is tracked while its Apply is still in the call: the component is
\* mounted, and its teardown is behind it in the list.
LEMMA RunOperationKeeps ==
  ASSUME IInv, RunOperation
  PROVE  IInv'
<1> DEFINE c == posted[1]
           m == MountOf[c]
<1>1. /\ own = "world" /\ posted # <<>> /\ posted \in Seq(Calls)
      /\ UNCHANGED <<own, fiber, reverted, callbacks, disposers, count>>
      /\ UNCHANGED running /\ UNCHANGED closing
      /\ UNCHANGED <<at, waiters, answer>>
  BY DEF RunOperation, IInv, TypeOK
<1>2. /\ Head(posted) = c /\ c \in Calls /\ 1 \in DOMAIN posted
      /\ Tail(posted) \in Seq(Calls)
      /\ \A i \in DOMAIN Tail(posted) : /\ i + 1 \in DOMAIN posted /\ i + 1 # 1
                                        /\ i \in Nat
                                        /\ Tail(posted)[i] = posted[i + 1]
                                        /\ posted[i + 1] \in Calls
  BY <1>1
<1>3. m \in Mounts BY <1>2, BridgeConstants
<1>4. /\ js' = [js EXCEPT ![c] = "pending"] /\ posted' = Tail(posted)
      /\ c \in Effects => tracked' = [tracked EXCEPT ![m] = Append(tracked[m], c)]
      /\ c \notin Effects => tracked' = tracked
  BY <1>2 DEF RunOperation
<1>5. /\ js'[c] = "pending" /\ \A k \in Calls : k # c => js'[k] = js[k]
      /\ js' \in [Calls -> {"none", "posted", "pending", "settled", "failed"}]
  BY <1>2, <1>4 DEF IInv, TypeOK
<1>6. js[c] = "posted" BY <1>2 DEF IInv, Crossing
<1>7. at[c] = "select"
  <2>1. at[c] \in CallAt BY <1>2 DEF IInv, TypeOK, CallAt
  <2>2. QED BY <1>1, <1>2, <1>6, <2>1 DEF IInv, Crossing, CallAt
<1>8. c \in Effects => fiber[m] = "applying"
  BY <1>3, <1>7 DEF IInv, Tracking, InCall
<1>9. tracked[m] \in Seq(Effects \cup {Teardown}) BY <1>3 DEF IInv, TypeOK
<1> HIDE DEF c, m
<1>10. c \in Effects =>
         /\ Append(tracked[m], c) \in Seq(Effects \cup {Teardown})
         /\ Len(tracked[m]) \in Nat
         /\ DOMAIN tracked[m] = 1 .. Len(tracked[m])
         /\ DOMAIN Append(tracked[m], c) = 1 .. Len(tracked[m]) + 1
         /\ \A i \in DOMAIN tracked[m] : Append(tracked[m], c)[i] = tracked[m][i]
         /\ Append(tracked[m], c)[Len(tracked[m]) + 1] = c
         /\ Append(tracked[m], c) # <<>>
  BY <1>9
<1>11. /\ c \in Effects => tracked'[m] = Append(tracked[m], c)
       /\ \A n \in Mounts : n # m => tracked'[n] = tracked[n]
       /\ tracked' \in [Mounts -> Seq(Effects \cup {Teardown})]
  BY <1>3, <1>4, <1>10 DEF IInv, TypeOK
<1>12. TypeOK' BY <1>1, <1>2, <1>4, <1>5, <1>11 DEF IInv, TypeOK
<1>13. Crossing'
  <2>1. \A i \in DOMAIN posted' : posted'[i] # c
    BY <1>2, <1>4 DEF IInv, Crossing, c
  <2>2. \A i \in DOMAIN posted' : js'[posted'[i]] = "posted"
    BY <1>2, <1>4, <1>5, <2>1 DEF IInv, Crossing
  <2>3. \A i, j \in DOMAIN posted' : i # j => posted'[i] # posted'[j]
    <3>1. \A i, j \in DOMAIN posted' : i # j => i + 1 # j + 1 BY <1>2, <1>4
    <3>2. QED BY <1>2, <1>4, <3>1 DEF IInv, Crossing
  <2>4. QED BY <1>1, <1>5, <1>6, <1>7, <2>2, <2>3 DEF IInv, Crossing
<1>14. Tracking'
  <2>1. \A k \in Effects : /\ k \in Calls /\ MountOf[k] \in Mounts
                           /\ InCall(k)' = InCall(k) /\ at'[k] = at[k]
    BY <1>1, BridgeConstants DEF Calls, InCall
  <2>2. \A k \in Effects : js[k] \in Begun => js'[k] \in Begun
    BY <1>5, <2>1 DEF Begun
  <2>3. \A n \in Mounts : fiber'[n] \in Mounted =>
          /\ tracked'[n] # <<>>
          /\ tracked'[n][1] = Teardown
          /\ \A i \in DOMAIN tracked'[n] : i # 1 => tracked'[n][i] \in Effects
    <3>1. CASE c \notin Effects BY <1>1, <1>4, <3>1 DEF IInv, Tracking
    <3>2. CASE c \in Effects
      <4>1. /\ tracked[m] # <<>> /\ tracked[m][1] = Teardown
            /\ \A i \in DOMAIN tracked[m] : i # 1 => tracked[m][i] \in Effects
        BY <1>3, <1>8, <3>2 DEF IInv, Tracking, Mounted
      <4>2. 1 \in DOMAIN tracked[m] BY <1>9, <4>1
      <4>3. tracked'[m] # <<>> /\ tracked'[m][1] = Teardown
        BY <1>10, <1>11, <3>2, <4>1, <4>2
      <4>4. \A i \in DOMAIN tracked'[m] : i # 1 => tracked'[m][i] \in Effects
        BY SMTT(30), <1>10, <1>11, <3>2, <4>1
      <4>5. QED BY <1>1, <1>11, <4>3, <4>4 DEF IInv, Tracking
    <3>3. QED BY <3>1, <3>2
  <2>4. \A n \in Mounts : fiber'[n] \notin Mounted => tracked'[n] = <<>>
    BY <1>1, <1>4, <1>8, <1>11 DEF IInv, Tracking, Mounted
  <2>5. \A n \in Mounts : \A i \in DOMAIN tracked'[n] : tracked'[n][i] \in Effects =>
          MountOf[tracked'[n][i]] = n /\ js'[tracked'[n][i]] \in Begun
    <3>1. CASE c \notin Effects BY <1>4, <2>2, <3>1 DEF IInv, Tracking
    <3>2. CASE c \in Effects
      <4>1. ASSUME NEW i \in DOMAIN tracked'[m], tracked'[m][i] \in Effects
            PROVE  MountOf[tracked'[m][i]] = m /\ js'[tracked'[m][i]] \in Begun
        <5>1. CASE i = Len(tracked[m]) + 1
          <6>1. tracked'[m][i] = c BY <1>10, <1>11, <3>2, <5>1
          <6>2. MountOf[c] = m BY DEF m
          <6>3. QED BY <1>5, <6>1, <6>2 DEF Begun
        <5>2. CASE i # Len(tracked[m]) + 1
          <6>1. i \in DOMAIN tracked[m] /\ tracked'[m][i] = tracked[m][i]
            BY <1>10, <1>11, <3>2, <4>1, <5>2
          <6>2. QED BY <1>3, <2>2, <4>1, <6>1 DEF IInv, Tracking
        <5>3. QED BY <5>1, <5>2
      <4>2. QED BY <1>11, <2>2, <4>1 DEF IInv, Tracking
    <3>3. QED BY <3>1, <3>2
  <2>6. \A k \in Effects : js'[k] \in Begun =>
          \/ k \in reverted'
          \/ \E i \in DOMAIN tracked'[MountOf[k]] : tracked'[MountOf[k]][i] = k
    <3>1. ASSUME NEW k \in Effects, js'[k] \in Begun, k \notin reverted
          PROVE  \E i \in DOMAIN tracked'[MountOf[k]] : tracked'[MountOf[k]][i] = k
      <4>1. CASE k = c
        <5>1. Len(tracked[m]) + 1 \in DOMAIN tracked'[m]
          BY <1>10, <1>11, <3>1, <4>1
        <5>2. MountOf[k] = m BY <4>1 DEF m
        <5>3. QED BY <1>10, <1>11, <3>1, <4>1, <5>1, <5>2
      <4>2. CASE k # c
        <5>1. js[k] \in Begun BY <1>5, <2>1, <3>1, <4>2
        <5>2. PICK i \in DOMAIN tracked[MountOf[k]] : tracked[MountOf[k]][i] = k
          BY <3>1, <5>1 DEF IInv, Tracking
        <5>3. CASE MountOf[k] = m /\ c \in Effects
          <6>1. i \in DOMAIN tracked'[m] /\ tracked'[m][i] = tracked[m][i]
            BY <1>10, <1>11, <5>2, <5>3
          <6>2. QED BY <5>2, <5>3, <6>1
        <5>4. CASE ~(MountOf[k] = m /\ c \in Effects)
          BY <1>4, <1>11, <2>1, <5>2, <5>4
        <5>5. QED BY <5>3, <5>4
      <4>3. QED BY <4>1, <4>2
    <3>2. QED BY <1>1, <3>1
  <2>7. QED BY <1>1, <2>1, <2>3, <2>4, <2>5, <2>6 DEF IInv, Tracking
<1>15. Disposal' /\ Kept' BY <1>1, DisposalFrame DEF IInv
<1>16. QED BY <1>12, <1>13, <1>14, <1>15 DEF IInv

LEMMA SettleKeeps ==
  ASSUME IInv, NEW c \in Calls, Answer(c) \/ Fail(c)
  PROVE  IInv'
<1>1. /\ UNCHANGED <<own, fiber, tracked, reverted, callbacks, disposers, count>>
      /\ UNCHANGED running /\ UNCHANGED closing /\ UNCHANGED <<at, posted>>
      /\ js[c] \in {"pending", "settled"}
  BY DEF Answer, Fail
<1>2. PICK b \in {"settled", "failed"}, v \in {"ok", "error"} :
        js' = [js EXCEPT ![c] = b] /\ Settle(c, v)
  BY DEF Answer, Fail
<1>3. /\ js'[c] = b /\ \A k \in Calls : k # c => js'[k] = js[k]
      /\ js' \in [Calls -> {"none", "posted", "pending", "settled", "failed"}]
  BY <1>2 DEF IInv, TypeOK
<1>4. /\ waiters' = waiters \ {c}
      /\ \A k \in Calls : k # c => answer'[k] = answer[k]
      /\ c \notin waiters => answer' = answer
      /\ answer' \in [Calls -> {"empty", "ok", "error"}]
  BY <1>2 DEF Settle, IInv, TypeOK
<1>5. TypeOK' BY <1>1, <1>3, <1>4 DEF IInv, TypeOK
<1>6. Crossing'
  <2>1. \A i \in DOMAIN posted : posted[i] \in Calls /\ posted[i] # c
    BY <1>1 DEF IInv, TypeOK, Crossing
  <2>2. at[c] \notin {"new", "post"} BY <1>1 DEF IInv, Crossing
  <2>3. waiters \subseteq Calls BY DEF IInv, TypeOK
  <2>4. QED BY <1>1, <1>3, <1>4, <2>1, <2>2, <2>3 DEF IInv, Crossing
<1>7. Tracking'
  <2>1. \A k \in Effects : /\ k \in Calls /\ InCall(k)' = InCall(k)
                           /\ js'[k] \in Begun <=> js[k] \in Begun
    BY <1>1, <1>3 DEF InCall, Calls, Begun
  <2>2. QED BY <1>1, <2>1 DEF IInv, Tracking
<1>8. Disposal' /\ Kept' BY <1>1, DisposalFrame DEF IInv
<1>9. QED BY <1>5, <1>6, <1>7, <1>8 DEF IInv

-----------------------------------------------------------------------------
(* The theorems.                                                           *)

\* The inductive invariant holds of every behaviour of the owner, the plugins
\* and the goroutines of the unmounts.
THEOREM Inductive == Spec => []IInv
<1>1. IInv /\ [Next]_vars => IInv'
  <2> SUFFICES ASSUME IInv, [Next]_vars PROVE IInv'
    OBVIOUS
  <2>1. CASE \E m \in Mounts : \/ Mount(m) \/ Revert(m)
                               \/ ApplyReturns(m) \/ Loaded(m) \/ Unload(m)
                               \/ DisposeEnds(m) \/ Release(m)
    BY <2>1, MountKeeps, RevertKeeps, StageKeeps
  <2>2. CASE \E m \in Mounts : OnDispose(m) \/ DisposeGoroutine(m) \/ Backstop(m)
    BY <2>2, OnDisposeKeeps, DisposeGoroutineKeeps, BackstopKeeps
  <2>3. CASE \E x \in Runners : RunDisposer(x) \/ DisposerReturns(x)
    BY <2>3, RunDisposerKeeps, DisposerReturnsKeeps
  <2>4. CASE \E c \in Calls : Enter(c) \/ Post(c) \/ Return(c) \/ Answer(c) \/ Fail(c)
    BY <2>4, EnterKeeps, PostKeeps, ReturnKeeps, SettleKeeps
  <2>5. CASE RunOperation BY <2>5, RunOperationKeeps
  <2>6. CASE EngineCloses \/ BridgeCloses \/ CloseDone BY <2>6, ClosingKeeps
  <2>7. CASE UNCHANGED vars
    <3>1. /\ UNCHANGED <<own, fiber, tracked, reverted, callbacks, disposers, count>>
          /\ UNCHANGED running /\ UNCHANGED closing /\ UNCHANGED crossing
      BY <2>7 DEF vars
    <3>2. TypeOK' BY <3>1 DEF IInv, TypeOK
    <3>3. Crossing' /\ Tracking' BY <3>1, CrossingFrame, TrackingFrame DEF IInv
    <3>4. Disposal' /\ Kept' BY <3>1, DisposalFrame DEF IInv
    <3>5. QED BY <3>2, <3>3, <3>4 DEF IInv
  <2>8. QED BY <2>1, <2>2, <2>3, <2>4, <2>5, <2>6, <2>7 DEF Next
<1>2. QED BY InitIInv, <1>1, PTL DEF Spec

\* Every variable of the bridge keeps its type.
THEOREM TypeCorrect == Spec => []TypeOK
<1>1. IInv => TypeOK BY DEF IInv
<1>2. QED BY Inductive, <1>1, PTL

\* The owner never blocks on an answer, however often it is given.
THEOREM NeverBlocksOwner == Spec => []WaiterUnanswered
<1>1. IInv => WaiterUnanswered BY DEF IInv, Crossing, WaiterUnanswered
<1>2. QED BY Inductive, <1>1, PTL

\* The Go teardown of a component begins when its effects were reverted.
THEOREM EffectsFirst == Spec => []RevertedBeforeDisposers
<1>1. ASSUME IInv PROVE RevertedBeforeDisposers
  <2>1. ASSUME NEW m \in Mounts, fiber[m] \in {"running", "disposed", "released"},
               NEW c \in Owned(m), js[c] \in Begun
        PROVE  c \in reverted
    <3>1. c \in Effects /\ MountOf[c] = m BY DEF Owned
    <3>2. tracked[m] = <<>> BY <1>1, <2>1 DEF IInv, Tracking, Mounted
    <3>3. DOMAIN tracked[m] = {} BY <3>2
    <3>4. QED BY <1>1, <2>1, <3>1, <3>3 DEF IInv, Tracking
  <2>2. QED BY <2>1 DEF RevertedBeforeDisposers, Begun
<1>2. QED BY Inductive, <1>1, PTL

\* Whoever takes a disposer takes one that nobody ran.
THEOREM NeverDisposedTwice == Spec => DisposedOnce
<1> DEFINE Fresh == \A x \in Runners :
                      now[x] = None /\ now'[x] # None => now'[x] \notin ran
<1>1. ASSUME IInv, [Next]_vars PROVE Fresh
  <2>1. CASE \E x \in Runners : RunDisposer(x)
    BY <1>1, <2>1, RunDisposerKeeps
  <2>2. CASE \E x \in Runners : DisposerReturns(x)
    <3>1. \A x \in Runners : now'[x] = now[x] \/ now'[x] = None
      BY <1>1, <2>2 DEF DisposerReturns, IInv, TypeOK
    <3>2. QED BY <3>1
  <2>3. CASE \E m \in Mounts : \/ Mount(m) \/ ApplyReturns(m) \/ Loaded(m)
                               \/ OnDispose(m) \/ Unload(m) \/ Revert(m)
                               \/ DisposeGoroutine(m) \/ DisposeEnds(m)
                               \/ Release(m) \/ Backstop(m)
    <3>1. now' = now
      BY <2>3 DEF Mount, ApplyReturns, Loaded, OnDispose, Unload, Revert,
                  DisposeGoroutine, DisposeEnds, Release, Backstop
    <3>2. QED BY <3>1
  <2>4. CASE \E c \in Calls : Enter(c) \/ Post(c) \/ Return(c) \/ Answer(c) \/ Fail(c)
    <3>1. now' = now BY <2>4 DEF Enter, Post, Return, Answer, Fail
    <3>2. QED BY <3>1
  <2>5. CASE \/ RunOperation \/ EngineCloses \/ BridgeCloses \/ CloseDone
             \/ UNCHANGED vars
    <3>1. now' = now
      BY <2>5 DEF RunOperation, EngineCloses, BridgeCloses, CloseDone, vars
    <3>2. QED BY <3>1
  <2>6. QED BY <1>1, <2>1, <2>2, <2>3, <2>4, <2>5 DEF Next
<1>2. QED BY Inductive, <1>1, PTL DEF Spec, DisposedOnce

\* When close() is over it holds no disposer and has none to go through.
AtRest == done => todo = {} /\ Free(Close)

LEMMA RestInvariant == Spec => []AtRest
<1>1. Init => AtRest BY DEF Init, AtRest
<1>2. ASSUME IInv, AtRest, [Next]_vars PROVE AtRest'
  <2> USE DEF AtRest, Free
  <2>1. CASE \E x \in Runners : RunDisposer(x) \/ DisposerReturns(x)
    BY <1>2, <2>1 DEF RunDisposer, DisposerReturns, IInv, TypeOK
  <2>2. CASE \E m \in Mounts : DisposeGoroutine(m)
    BY <1>2, <2>2, BridgeConstants DEF DisposeGoroutine, TakeList, IInv, TypeOK
  <2>3. CASE BridgeCloses \/ EngineCloses \/ CloseDone
    BY <1>2, <2>3 DEF BridgeCloses, EngineCloses, CloseDone
  <2>4. CASE \E m \in Mounts : Backstop(m) BY <1>2, <2>4 DEF Backstop
  <2>5. CASE \E m \in Mounts : \/ Mount(m) \/ ApplyReturns(m) \/ Loaded(m)
                               \/ OnDispose(m) \/ Unload(m) \/ Revert(m)
                               \/ DisposeEnds(m) \/ Release(m)
    <3>1. UNCHANGED <<own, todo, left, now>>
      BY <2>5 DEF Mount, ApplyReturns, Loaded, OnDispose, Unload, Revert,
                  DisposeEnds, Release
    <3>2. QED BY <1>2, <3>1
  <2>6. CASE \/ \E c \in Calls : \/ Enter(c) \/ Post(c) \/ Return(c)
                                 \/ Answer(c) \/ Fail(c)
             \/ RunOperation \/ UNCHANGED vars
    <3>1. UNCHANGED <<own, todo, left, now>>
      BY <2>6 DEF Enter, Post, Return, Answer, Fail, RunOperation, vars
    <3>2. QED BY <1>2, <3>1
  <2>7. QED BY <1>2, <2>1, <2>2, <2>3, <2>4, <2>5, <2>6 DEF Next
<1>3. QED BY Inductive, <1>1, <1>2, PTL DEF Spec

\* What was registered when close() took the disposers has been run when it is
\* over, or is the business of an unmount that took it first.
THEOREM Backstopped == Spec => []NothingForgotten
<1>1. IInv /\ AtRest => NothingForgotten
  BY DEF IInv, Kept, AtRest, Free, NothingForgotten
<1>2. QED BY Inductive, RestInvariant, <1>1, PTL
-----------------------------------------------------------------------------
(* No answer is lost between the two maps and the two sides.               *)

Posted(c) == \E i \in DOMAIN posted : posted[i] = c

\* A call has its waiter before its operation is posted.
InHand ==
  /\ AnswerToCome
  /\ \A c \in Calls : at[c] = "post" => c \in waiters

LEMMA HandFrame ==
  ASSUME InHand, UNCHANGED crossing
  PROVE  InHand'
BY DEF InHand, AnswerToCome

LEMMA EnterHands ==
  ASSUME IInv, InHand, NEW c \in Calls, Enter(c)
  PROVE  InHand'
<1>1. /\ UNCHANGED <<js, posted, answer>> /\ waiters \subseteq waiters'
      /\ \A k \in Calls : k # c => at'[k] = at[k]
      /\ at'[c] = "returned" \/ (at'[c] = "post" /\ c \in waiters')
  BY DEF Enter, Goto, IInv, TypeOK
<1>2. QED BY <1>1 DEF InHand, AnswerToCome

LEMMA PostHands ==
  ASSUME IInv, InHand, NEW c \in Calls, Post(c)
  PROVE  InHand'
<1>1. /\ UNCHANGED answer /\ at[c] = "post" /\ c \in waiters
      /\ \A k \in Calls : k # c => at'[k] = at[k]
  BY DEF Post, Goto, InHand, IInv, TypeOK
<1>2. CASE World
  <2>1. /\ posted' = Append(posted, c) /\ waiters' = waiters
        /\ \A k \in Calls : k # c => js'[k] = js[k]
        /\ at'[c] = "select"
    BY <1>2 DEF Post, Goto, IInv, TypeOK
  <2>2. \A k \in Calls : Posted(k) => Posted(k)'
    <3>1. posted \in Seq(Calls) BY DEF IInv, TypeOK
    <3>2. \A i \in DOMAIN posted : i \in DOMAIN posted' /\ posted'[i] = posted[i]
      BY <2>1, <3>1
    <3>3. QED BY <3>2 DEF Posted
  <2>3. Posted(c)'
    <3>1. posted \in Seq(Calls) BY DEF IInv, TypeOK
    <3>2. Len(posted) + 1 \in DOMAIN posted' /\ posted'[Len(posted) + 1] = c
      BY <2>1, <3>1
    <3>3. QED BY <3>2 DEF Posted
  <2>4. QED BY <1>1, <2>1, <2>2, <2>3 DEF InHand, AnswerToCome, Posted
<1>3. CASE ~World
  <2>1. /\ UNCHANGED <<posted, js>> /\ waiters' = waiters \ {c}
        /\ at'[c] = "returned"
    BY <1>3 DEF Post, Goto, IInv, TypeOK
  <2>2. QED BY <1>1, <2>1 DEF InHand, AnswerToCome
<1>4. QED BY <1>2, <1>3

LEMMA ReturnHands ==
  ASSUME IInv, InHand, NEW c \in Calls, Return(c)
  PROVE  InHand'
<1>1. /\ UNCHANGED <<js, posted, waiters>> /\ at'[c] = "returned"
      /\ \A k \in Calls : k # c => at'[k] = at[k] /\ answer'[k] = answer[k]
  BY DEF Return, Goto, IInv, TypeOK
<1>2. QED BY <1>1 DEF InHand, AnswerToCome

\* The operation that runs leaves the list and is pending; the others move up.
LEMMA RunOperationHands ==
  ASSUME IInv, InHand, RunOperation
  PROVE  InHand'
<1> DEFINE c == Head(posted)
<1>1. /\ UNCHANGED <<at, waiters, answer>>
      /\ posted # <<>> /\ posted \in Seq(Calls) /\ posted' = Tail(posted)
      /\ js' = [js EXCEPT ![c] = "pending"]
  BY DEF RunOperation, IInv, TypeOK
<1>2. c \in Calls /\ posted[1] = c BY <1>1
<1>3. js'[c] = "pending" /\ \A k \in Calls : k # c => js'[k] = js[k]
  BY <1>1, <1>2 DEF IInv, TypeOK
<1>4. ASSUME NEW k \in Calls, k # c, Posted(k) PROVE Posted(k)'
  <2>1. PICK i \in DOMAIN posted : posted[i] = k BY <1>4 DEF Posted
  <2>2. i # 1 BY <1>2, <1>4, <2>1
  <2>3. i - 1 \in DOMAIN Tail(posted) /\ Tail(posted)[i - 1] = posted[i]
    BY <1>1, <2>1, <2>2
  <2>4. QED BY <1>1, <2>1, <2>3 DEF Posted
<1>5. QED BY <1>1, <1>3, <1>4 DEF InHand, AnswerToCome, Posted

\* Whoever is forgotten is sent to.
LEMMA SettleHands ==
  ASSUME IInv, InHand, NEW c \in Calls, Answer(c) \/ Fail(c)
  PROVE  InHand'
<1>1. UNCHANGED <<at, posted>> /\ js[c] \in {"pending", "settled"}
  BY DEF Answer, Fail
<1>2. PICK v \in {"ok", "error"} : Settle(c, v) BY DEF Answer, Fail
<1>3. \A k \in Calls : k # c => js'[k] = js[k] BY DEF Answer, Fail, IInv, TypeOK
<1>4. /\ waiters' = waiters \ {c}
      /\ \A k \in Calls : k # c => answer'[k] = answer[k]
      /\ c \in waiters => answer'[c] # "empty"
      /\ c \notin waiters => answer'[c] = answer[c]
  BY <1>2 DEF Settle, IInv, TypeOK
<1>5. at[c] # "post" BY <1>1 DEF IInv, Crossing
<1>6. QED BY <1>1, <1>3, <1>4, <1>5 DEF InHand, AnswerToCome

\* A call that waits in perform has its answer, or has it coming, once.
THEOREM NoAnswerIsLost == Spec => []CallsAreAnswered
<1>1. Init => InHand BY DEF Init, InHand, AnswerToCome
<1>2. ASSUME IInv, InHand, [Next]_vars PROVE InHand'
  <2>1. CASE \E c \in Calls : Enter(c) \/ Post(c) \/ Return(c) \/ Answer(c) \/ Fail(c)
    BY <1>2, <2>1, EnterHands, PostHands, ReturnHands, SettleHands
  <2>2. CASE RunOperation BY <1>2, <2>2, RunOperationHands
  <2>3. CASE UNCHANGED crossing BY <1>2, <2>3, HandFrame
  <2>4. ASSUME NEW m \in Mounts,
               \/ Mount(m) \/ ApplyReturns(m) \/ Loaded(m) \/ OnDispose(m)
               \/ Unload(m) \/ Revert(m) \/ DisposeGoroutine(m)
               \/ DisposeEnds(m) \/ Release(m) \/ Backstop(m)
        PROVE  UNCHANGED crossing
    BY <2>4 DEF Mount, ApplyReturns, Loaded, OnDispose, Unload, Revert,
                DisposeGoroutine, DisposeEnds, Release, Backstop
  <2>5. ASSUME NEW x \in Runners, RunDisposer(x) \/ DisposerReturns(x)
        PROVE  UNCHANGED crossing
    BY <2>5 DEF RunDisposer, DisposerReturns
  <2>6. ASSUME EngineCloses \/ BridgeCloses \/ CloseDone \/ UNCHANGED vars
        PROVE  UNCHANGED crossing
    BY <2>6 DEF EngineCloses, BridgeCloses, CloseDone, vars
  <2>7. QED BY <1>2, <2>1, <2>2, <2>3, <2>4, <2>5, <2>6 DEF Next
<1>3. IInv /\ InHand => CallsAreAnswered
  BY DEF IInv, Crossing, WaiterUnanswered, InHand, CallsAreAnswered
<1>4. QED BY Inductive, <1>1, <1>2, <1>3, PTL DEF Spec
=============================================================================
