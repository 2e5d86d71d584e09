----------------------------- MODULE TurnsProofs -----------------------------
(***************************************************************************)
(* The safety of Turns, proved for any number of runs and sessions.        *)
(*                                                                         *)
(* None of the properties is inductive.  What a run() reports rests on     *)
(* where the prompt of a run that still waits may be, whatever turns of    *)
(* other runs end meanwhile (Somewhere), and on what the driver does after *)
(* the turn that served it (Owed); that a prompt is served once depends on *)
(* every place it may be in (InOnePlace).                                  *)
(***************************************************************************)
EXTENDS Turns, Integers, TLAPS

Sent == Kinds \cup {"waiting"}

Recorded(r, u) == \E kind \in Kinds : <<r, kind>> \in record[u]

\* Where the agent loop keeps a prompt, and that it got there by Deliver.
InOnePlace ==
  /\ \A s \in Sessions : \A i \in DOMAIN inbox[s] :
       /\ SessionOf[inbox[s][i]] = s
       /\ js[inbox[s][i]] \in Sent
       /\ inbox[s][i] # serving[s]
       /\ \A u \in Runs : ~Recorded(inbox[s][i], u)
       /\ \A j \in DOMAIN inbox[s] : i # j => inbox[s][i] # inbox[s][j]
  /\ \A s \in Sessions : serving[s] # None =>
       /\ SessionOf[serving[s]] = s
       /\ js[serving[s]] \in Sent
  /\ \A u, r \in Runs : Recorded(r, u) => js[r] \in Sent

\* The prompt of a run that waits is pending, being served, or recorded,
\* unless an append failed.
Somewhere ==
  \A r \in Runs : js[r] = "waiting" /\ SessionOf[r] \in Steady =>
    \/ Recorded(r, r)
    \/ serving[SessionOf[r]] = r
    \/ \E i \in DOMAIN inbox[SessionOf[r]] : inbox[SessionOf[r]][i] = r

\* An agent that runs has work, one that does not serves nobody, and a run
\* that waits keeps it from being idle.
AtWork ==
  /\ \A s \in Sessions : phase[s] = "running" => serving[s] # None \/ inbox[s] # <<>>
  /\ \A s \in Sessions : phase[s] # "running" => serving[s] = None
  /\ \A r \in Runs : js[r] = "waiting" => phase[SessionOf[r]] # "idle"

\* A call the owning goroutine has not taken has no run().
Unbegun == \A r \in Runs : call[r] \in {"new", "queued"} => js[r] = "none"

\* A run() records nothing before it delivers, and no turn without its kind.
Heard ==
  \A r \in Runs : /\ js[r] \notin Sent => record[r] = {} /\ ended[r] = "none"
                  /\ record[r] # {} => ended[r] # "none"

\* What the next idle will tell a run that waits: its own turn's failure, once
\* that is recorded; and if the log is steady, success only if it is its own.
Failures == Kinds \ {"completed"}
Owed ==
  \A r \in Runs : js[r] = "waiting" =>
    /\ \A kind \in Failures : <<r, kind>> \in record[r] =>
         phase[SessionOf[r]] = "leaving" /\ ended[r] = kind
    /\ (/\ SessionOf[r] \in Steady
        /\ phase[SessionOf[r]] = "leaving"
        /\ ended[r] = "completed") => <<r, "completed">> \in record[r]

IInv ==
  /\ TypeOK /\ Unbegun /\ InOnePlace /\ Somewhere /\ AtWork /\ Heard /\ Owed
  /\ OutcomeIsOwn

LEMMA InitIInv == Init => IInv
<1> SUFFICES ASSUME Init PROVE IInv
  OBVIOUS
<1>1. TypeOK BY TurnsConstants DEF Init, TypeOK, Settled, Kinds, Replies
<1>2. InOnePlace BY DEF Init, InOnePlace, Recorded
<1>3. Somewhere /\ OutcomeIsOwn /\ Owed
  BY DEF Init, Somewhere, OutcomeIsOwn, Owed, Kinds
<1>4. AtWork BY TurnsConstants DEF Init, AtWork
<1>5. Unbegun /\ Heard BY DEF Init, Unbegun, Heard
<1>6. QED BY <1>1, <1>2, <1>3, <1>4, <1>5 DEF IInv

\* Steps that leave the agent alone, and every run() that has delivered.
Undisturbed ==
  /\ UNCHANGED loop
  /\ \A r \in Runs : js[r] \in Sent \/ js'[r] \in Sent => js'[r] = js[r]

LEMMA UndisturbedKeeps ==
  ASSUME IInv, Undisturbed
  PROVE  InOnePlace' /\ Somewhere' /\ AtWork' /\ Heard' /\ Owed' /\ OutcomeIsOwn'
<1> USE DEF Undisturbed, loop, heard, IInv, Sent, Kinds
<1>1. InOnePlace'
  <2>1. \A s \in Sessions : \A i \in DOMAIN inbox[s] : inbox[s][i] \in Runs
    BY DEF TypeOK
  <2>2. \A s \in Sessions : serving[s] \in Runs \cup {None}
    BY DEF TypeOK
  <2>3. \A r, u \in Runs : Recorded(r, u)' = Recorded(r, u) BY DEF Recorded
  <2>4. QED BY <2>1, <2>2, <2>3 DEF InOnePlace
<1>2. Somewhere'
  <2>1. \A r \in Runs : Recorded(r, r)' = Recorded(r, r) BY DEF Recorded
  <2>2. QED BY <2>1 DEF Somewhere
<1>3. AtWork' BY DEF AtWork
<1>4. Heard' BY DEF Heard
<1>5. Owed' BY DEF Owed
<1>6. OutcomeIsOwn' BY DEF OutcomeIsOwn
<1>7. QED BY <1>1, <1>2, <1>3, <1>4, <1>5, <1>6

LEMMA CallerKeeps ==
  ASSUME IInv, NEW r \in Runs,
         Submit(r) \/ GiveUp(r) \/ Return(r) \/ EndContext(r) \/ Answer(r)
  PROVE  IInv'
<1>1. UNCHANGED <<js, loop>>
  BY DEF Submit, GiveUp, Return, EndContext, Answer, loop, heard
<1>2. TypeOK'
  <2>1. CASE Submit(r) BY <2>1 DEF Submit, IInv, TypeOK, loop, heard
  <2>2. CASE GiveUp(r) BY <2>2 DEF GiveUp, IInv, TypeOK, loop, heard, Replies
  <2>3. CASE Return(r) BY <2>3 DEF Return, IInv, TypeOK, loop, heard, Replies
  <2>4. CASE EndContext(r) BY <2>4 DEF EndContext, IInv, TypeOK, loop, heard, callers
  <2>5. CASE Answer(r) BY <2>5 DEF Answer, IInv, TypeOK, loop, heard, callers, Replies
  <2>6. QED BY <2>1, <2>2, <2>3, <2>4, <2>5
<1>3. Unbegun'
  BY <1>1 DEF Submit, GiveUp, Return, EndContext, Answer, callers, IInv, TypeOK, Unbegun
<1>4. Undisturbed BY <1>1 DEF Undisturbed
<1>5. QED BY <1>2, <1>3, <1>4, UndisturbedKeeps DEF IInv

\* run() before it delivers: nothing of its prompt is anywhere.
JsAt == Settled \cup {"none", "stat", "create", "found", "waiting"}

LEMMA EarlyKeeps ==
  ASSUME IInv, NEW r \in Runs, Begin(r) \/ Stat(r) \/ Open(r) \/ DeliverFails(r)
  PROVE  IInv'
<1> USE DEF Settled, Kinds, Sent, JsAt
<1>1. CASE Begin(r)
  <2>1. PICK v \in {"found", "stat"} : js' = [js EXCEPT ![r] = v]
    BY <1>1 DEF Begin
  <2>2. TypeOK' BY <1>1, <2>1 DEF Begin, IInv, TypeOK, loop, heard
  <2>3. Unbegun' BY <1>1, <2>1 DEF Begin, IInv, TypeOK, Unbegun
  <2>4. js[r] = "none" BY <1>1 DEF Begin, IInv, Unbegun
  <2>5. Undisturbed
    BY <1>1, <2>1, <2>4 DEF Undisturbed, Begin, IInv, TypeOK
  <2>6. QED BY <2>2, <2>3, <2>5, UndisturbedKeeps DEF IInv
<1>2. CASE Stat(r)
  <2>1. PICK v \in {"create", "refused"} : js' = [js EXCEPT ![r] = v]
    BY <1>2 DEF Stat, Step
  <2>2. /\ UNCHANGED <<ctxDone, call, answer, reply, job, agents, loop>>
        /\ js[r] = "stat"
    BY <1>2 DEF Stat, Step, callers
  <2>3. js' \in [Runs -> JsAt] BY <2>1 DEF IInv, TypeOK
  <2>4. TypeOK' BY <2>2, <2>3 DEF IInv, TypeOK, loop, heard
  <2>5. Unbegun' BY <2>1, <2>2 DEF IInv, TypeOK, Unbegun
  <2>6. Undisturbed BY <2>1, <2>2 DEF Undisturbed, IInv, TypeOK
  <2>7. QED BY <2>4, <2>5, <2>6, UndisturbedKeeps DEF IInv
<1>3. CASE Open(r)
  <2>1. PICK v \in {"found", "refused"} : js' = [js EXCEPT ![r] = v]
    BY <1>3 DEF Open, Step
  <2>2. /\ UNCHANGED <<ctxDone, call, answer, reply, job, loop>>
        /\ js[r] = "create"
    BY <1>3 DEF Open, Step, callers
  <2>3. js' \in [Runs -> JsAt] BY <2>1 DEF IInv, TypeOK
  <2>4. agents' \in SUBSET Sessions
    BY <1>3, TurnsConstants DEF Open, IInv, TypeOK
  <2>5. TypeOK' BY <2>2, <2>3, <2>4 DEF IInv, TypeOK, loop, heard
  <2>6. Unbegun' BY <2>1, <2>2 DEF IInv, TypeOK, Unbegun
  <2>7. Undisturbed BY <2>1, <2>2 DEF Undisturbed, IInv, TypeOK
  <2>8. QED BY <2>5, <2>6, <2>7, UndisturbedKeeps DEF IInv
<1>4. CASE DeliverFails(r)
  <2>1. /\ js' = [js EXCEPT ![r] = "refused"] /\ js[r] = "found"
        /\ UNCHANGED <<ctxDone, call, answer, reply, job, agents, loop>>
    BY <1>4 DEF DeliverFails, Step, callers
  <2>2. js' \in [Runs -> JsAt] BY <2>1 DEF IInv, TypeOK
  <2>3. TypeOK' BY <2>1, <2>2 DEF IInv, TypeOK, loop, heard
  <2>4. Unbegun' BY <2>1 DEF IInv, TypeOK, Unbegun
  <2>5. Undisturbed BY <2>1 DEF Undisturbed, IInv, TypeOK
  <2>6. QED BY <2>3, <2>4, <2>5, UndisturbedKeeps DEF IInv
<1>5. QED BY <1>1, <1>2, <1>3, <1>4

\* The prompt arrives at the end of the inbox, and nowhere else.
LEMMA DeliverKeeps ==
  ASSUME IInv, NEW r \in Runs, Deliver(r)
  PROVE  IInv'
<1> DEFINE t == SessionOf[r]
<1> USE TurnsConstants DEF Settled, Kinds, Sent, JsAt
<1>1. /\ js[r] = "found"
      /\ js' = [js EXCEPT ![r] = "waiting"]
      /\ inbox' = [inbox EXCEPT ![t] = Append(inbox[t], r)]
      /\ phase' = [phase EXCEPT ![t] = IF phase[t] = "idle" THEN "running" ELSE phase[t]]
      /\ UNCHANGED <<ctxDone, call, answer, reply, job, agents, serving, record, ended>>
      /\ t \in Sessions
  BY DEF Deliver, Step, callers, heard
<1>2. Append(inbox[t], r) \in Seq(Runs) BY <1>1 DEF IInv, TypeOK
<1>3. TypeOK'
  <2>1. js' \in [Runs -> JsAt] BY <1>1 DEF IInv, TypeOK
  <2>2. inbox' \in [Sessions -> Seq(Runs)] BY <1>1, <1>2 DEF IInv, TypeOK
  <2>3. phase' \in [Sessions -> {"idle", "running", "leaving"}]
    BY <1>1 DEF IInv, TypeOK
  <2>4. QED BY <1>1, <2>1, <2>2, <2>3 DEF IInv, TypeOK
<1>4. Unbegun' BY <1>1 DEF IInv, TypeOK, Unbegun
<1>5. /\ \A q \in Runs : js'[q] = IF q = r THEN "waiting" ELSE js[q]
      /\ \A s \in Sessions : s # t => inbox'[s] = inbox[s] /\ phase'[s] = phase[s]
      /\ phase'[t] # "idle"
      /\ \/ phase'[t] = phase[t]
         \/ phase[t] = "idle" /\ phase'[t] = "running"
  BY <1>1 DEF IInv, TypeOK
<1>6. /\ inbox'[t] = Append(inbox[t], r) /\ inbox[t] \in Seq(Runs)
  BY <1>1 DEF IInv, TypeOK
<1>7. /\ inbox'[t] # <<>>
      /\ Len(inbox'[t]) = Len(inbox[t]) + 1
      /\ DOMAIN inbox[t] = 1 .. Len(inbox[t]) /\ DOMAIN inbox'[t] = 1 .. Len(inbox[t]) + 1
      /\ \A i \in DOMAIN inbox[t] : inbox'[t][i] = inbox[t][i]
      /\ inbox'[t][Len(inbox[t]) + 1] = r
      /\ Len(inbox[t]) \in Nat
  BY <1>6
<1>8. /\ \A s \in Sessions : \A i \in DOMAIN inbox[s] : inbox[s][i] # r
      /\ \A s \in Sessions : serving[s] # r
      /\ \A u \in Runs : ~Recorded(r, u)
      /\ \A q, u \in Runs : Recorded(q, u)' = Recorded(q, u)
  <2>1. \A q, u \in Runs : Recorded(q, u)' = Recorded(q, u) BY <1>1 DEF Recorded
  <2>2. QED BY <1>1, <2>1 DEF IInv, InOnePlace
<1>9. InOnePlace'
  <2>1. ASSUME NEW s \in Sessions, NEW i \in DOMAIN inbox'[s]
        PROVE  /\ SessionOf[inbox'[s][i]] = s
               /\ js'[inbox'[s][i]] \in Sent
               /\ inbox'[s][i] # serving'[s]
               /\ \A u \in Runs : ~Recorded(inbox'[s][i], u)
               /\ \A j \in DOMAIN inbox'[s] : i # j => inbox'[s][i] # inbox'[s][j]
    <3>1. \A k \in DOMAIN inbox[s] : inbox[s][k] \in Runs BY DEF IInv, TypeOK
    <3>2. CASE s # t BY <1>1, <1>5, <2>1, <3>1, <3>2 DEF IInv, InOnePlace
    <3>3. CASE s = t
      <4>1. CASE i = Len(inbox[t]) + 1
        <5>1. inbox'[s][i] = r BY <1>7, <3>3, <4>1
        <5>2. \A j \in DOMAIN inbox'[s] : j # i => j \in DOMAIN inbox[s]
          BY <1>7, <3>3, <4>1
        <5>3. QED BY <1>1, <1>5, <1>7, <1>8, <3>3, <5>1, <5>2
      <4>2. CASE i # Len(inbox[t]) + 1
        <5>1. i \in DOMAIN inbox[s] /\ inbox'[s][i] = inbox[s][i]
          BY <1>7, <3>3, <4>2, <2>1
        <5>2. \A j \in DOMAIN inbox'[s] :
                 \/ j \in DOMAIN inbox[s] /\ inbox'[s][j] = inbox[s][j]
                 \/ inbox'[s][j] = r
          BY <1>7, <3>3
        <5>3. inbox[s][i] # r BY <1>8, <5>1
        <5>4. \A j \in DOMAIN inbox'[s] : i # j => inbox'[s][i] # inbox'[s][j]
          BY <5>1, <5>2, <5>3 DEF IInv, InOnePlace
        <5>5. js'[inbox[s][i]] \in Sent
          BY <1>5, <3>1, <5>1, <5>3 DEF IInv, InOnePlace
        <5>6. QED BY <1>1, <5>1, <5>4, <5>5 DEF IInv, InOnePlace
      <4>3. QED BY <4>1, <4>2
    <3>4. QED BY <3>2, <3>3
  <2>2. \A s \in Sessions : serving'[s] # None =>
          SessionOf[serving'[s]] = s /\ js'[serving'[s]] \in Sent
    BY <1>1, <1>5 DEF IInv, TypeOK, InOnePlace
  <2>3. \A u, q \in Runs : Recorded(q, u) => js'[q] \in Sent
    BY <1>1, <1>5 DEF IInv, InOnePlace
  <2>4. \A s \in Sessions : \A i \in DOMAIN inbox'[s] : inbox'[s][i] \in Runs
    BY <1>3 DEF TypeOK
  <2>5. QED BY <1>8, <2>1, <2>2, <2>3, <2>4 DEF InOnePlace
<1>10. Somewhere'
  <2>1. ASSUME NEW q \in Runs, js'[q] = "waiting", SessionOf[q] \in Steady
        PROVE  \/ Recorded(q, q)'
               \/ serving'[SessionOf[q]] = q
               \/ \E i \in DOMAIN inbox'[SessionOf[q]] : inbox'[SessionOf[q]][i] = q
    <3>1. CASE q = r BY <1>7, <3>1
    <3>2. CASE q # r
      <4>1. js[q] = "waiting" BY <1>5, <2>1, <3>2
      <4>2. \A i \in DOMAIN inbox[SessionOf[q]] :
              i \in DOMAIN inbox'[SessionOf[q]]
              /\ inbox'[SessionOf[q]][i] = inbox[SessionOf[q]][i]
        BY <1>5, <1>7
      <4>3. QED BY <1>1, <1>8, <2>1, <4>1, <4>2 DEF IInv, Somewhere
    <3>3. QED BY <3>1, <3>2
  <2>2. QED BY <2>1 DEF Somewhere
<1>11. AtWork' BY <1>1, <1>5, <1>7 DEF IInv, AtWork, TypeOK
<1>12. OutcomeIsOwn' BY <1>1, <1>5 DEF IInv, OutcomeIsOwn
<1>13. Heard' BY <1>1, <1>5 DEF IInv, Heard
<1>14. Owed'
  <2>1. record[r] = {} /\ ended[r] = "none" BY <1>1 DEF IInv, Heard
  <2>2. \A q \in Runs \ {r} : js'[q] = "waiting" =>
          /\ js[q] = "waiting" /\ SessionOf[q] \in Sessions
          /\ phase'[SessionOf[q]] = phase[SessionOf[q]]
    BY <1>5 DEF IInv, AtWork
  <2>3. QED BY <1>1, <2>1, <2>2 DEF IInv, Owed
<1>15. QED BY <1>3, <1>4, <1>9, <1>10, <1>11, <1>12, <1>13, <1>14 DEF IInv

\* The head of the inbox moves to the turn that serves it.
LEMMA StartTurnKeeps ==
  ASSUME IInv, NEW t \in Sessions, StartTurn(t)
  PROVE  IInv'
<1> DEFINE n == Len(inbox[t])
           h == inbox[t][1]
<1> USE TurnsConstants DEF Sent, Kinds
<1>1. /\ phase[t] = "running" /\ serving[t] = None /\ inbox[t] # <<>>
      /\ inbox[t] \in Seq(Runs)
      /\ UNCHANGED <<ctxDone, call, answer, reply, job, js, agents, phase, record, ended>>
  BY DEF StartTurn, Opening, callers, heard, IInv, TypeOK
<1>2. /\ n \in Nat \ {0}
      /\ DOMAIN inbox[t] = 1 .. n
      /\ Head(inbox[t]) = h /\ h \in Runs /\ 1 \in DOMAIN inbox[t]
      /\ Tail(inbox[t]) \in Seq(Runs)
      /\ DOMAIN Tail(inbox[t]) = 1 .. n - 1
      /\ \A i \in 1 .. n - 1 : Tail(inbox[t])[i] = inbox[t][i + 1]
  BY <1>1
<1>3. serving' = [serving EXCEPT ![t] = h] /\ inbox' = [inbox EXCEPT ![t] = Tail(inbox[t])]
  BY <1>2 DEF StartTurn
<1>4. /\ \A s \in Sessions : s # t => inbox'[s] = inbox[s] /\ serving'[s] = serving[s]
      /\ inbox'[t] = Tail(inbox[t]) /\ serving'[t] = h
      /\ \A q, u \in Runs : Recorded(q, u)' = Recorded(q, u)
  BY <1>1, <1>3 DEF IInv, TypeOK, Recorded
<1>5. TypeOK'
  <2>1. inbox' \in [Sessions -> Seq(Runs)] BY <1>2, <1>3 DEF IInv, TypeOK
  <2>2. serving' \in [Sessions -> Runs \cup {None}] BY <1>2, <1>3 DEF IInv, TypeOK
  <2>3. QED BY <1>1, <2>1, <2>2 DEF IInv, TypeOK
<1>6. Unbegun' /\ Heard' /\ Owed' /\ OutcomeIsOwn'
  BY <1>1 DEF IInv, Unbegun, Heard, Owed, OutcomeIsOwn
<1>7. \A i \in DOMAIN inbox'[t] :
        /\ i + 1 \in DOMAIN inbox[t] /\ i + 1 # 1
        /\ inbox'[t][i] = inbox[t][i + 1]
        /\ i \in Nat
  BY <1>2, <1>4
<1>8. InOnePlace'
  <2>1. ASSUME NEW s \in Sessions, NEW i \in DOMAIN inbox'[s]
        PROVE  /\ SessionOf[inbox'[s][i]] = s
               /\ js'[inbox'[s][i]] \in Sent
               /\ inbox'[s][i] # serving'[s]
               /\ \A u \in Runs : ~Recorded(inbox'[s][i], u)
               /\ \A j \in DOMAIN inbox'[s] : i # j => inbox'[s][i] # inbox'[s][j]
    <3>1. CASE s # t BY <1>1, <1>4, <3>1 DEF IInv, InOnePlace
    <3>2. CASE s = t
      <4>1. \A j \in DOMAIN inbox'[s] : i # j => i + 1 # j + 1
        BY <1>7, <3>2
      <4>2. /\ i + 1 \in DOMAIN inbox[t] /\ inbox'[s][i] = inbox[t][i + 1]
            /\ inbox[t][i + 1] # inbox[t][1]
        BY <1>2, <1>7, <3>2 DEF IInv, InOnePlace
      <4>3. \A j \in DOMAIN inbox'[s] : i # j => inbox'[s][i] # inbox'[s][j]
        BY <1>7, <3>2, <4>1, <4>2 DEF IInv, InOnePlace
      <4>4. /\ SessionOf[inbox[t][i + 1]] = t
            /\ js[inbox[t][i + 1]] \in Sent
            /\ \A u \in Runs : ~Recorded(inbox[t][i + 1], u)
        BY <4>2 DEF IInv, InOnePlace
      <4>5. QED BY <1>1, <1>4, <3>2, <4>2, <4>3, <4>4
    <3>3. QED BY <3>1, <3>2
  <2>2. \A s \in Sessions : serving'[s] # None =>
          SessionOf[serving'[s]] = s /\ js'[serving'[s]] \in Sent
    BY <1>1, <1>2, <1>4 DEF IInv, InOnePlace
  <2>3. \A u, r \in Runs : Recorded(r, u) => js'[r] \in Sent
    BY <1>1 DEF IInv, InOnePlace
  <2>4. \A s \in Sessions : \A i \in DOMAIN inbox'[s] : inbox'[s][i] \in Runs
    BY <1>5 DEF TypeOK
  <2>5. QED BY <1>4, <2>1, <2>2, <2>3, <2>4 DEF InOnePlace
<1>9. Somewhere'
  <2>1. ASSUME NEW r \in Runs, js'[r] = "waiting", SessionOf[r] \in Steady
        PROVE  \/ Recorded(r, r)
               \/ serving'[SessionOf[r]] = r
               \/ \E i \in DOMAIN inbox'[SessionOf[r]] : inbox'[SessionOf[r]][i] = r
    <3>1. SessionOf[r] \in Sessions /\ js[r] = "waiting" BY <1>1, <2>1
    <3>2. CASE SessionOf[r] # t
      BY <1>1, <1>4, <2>1, <3>1, <3>2 DEF IInv, Somewhere
    <3>3. CASE SessionOf[r] = t
      <4>1. serving[t] # r BY <1>1
      <4>2. Recorded(r, r) \/ \E i \in DOMAIN inbox[t] : inbox[t][i] = r
        BY <2>1, <3>1, <3>3, <4>1 DEF IInv, Somewhere
      <4>3. ASSUME NEW i \in DOMAIN inbox[t], inbox[t][i] = r
            PROVE  serving'[t] = r \/ \E j \in DOMAIN inbox'[t] : inbox'[t][j] = r
        <5>1. CASE i = 1 BY <1>4, <4>3, <5>1
        <5>2. CASE i # 1
          <6>1. i - 1 \in 1 .. n - 1 /\ (i - 1) + 1 = i BY <1>2, <5>2
          <6>2. i - 1 \in DOMAIN inbox'[t] BY <1>2, <1>4, <6>1
          <6>3. inbox'[t][i - 1] = r BY <1>7, <4>3, <6>1, <6>2
          <6>4. QED BY <6>2, <6>3
        <5>3. QED BY <5>1, <5>2
      <4>4. QED BY <3>3, <4>2, <4>3
    <3>4. QED BY <3>2, <3>3
  <2>2. QED BY <1>4, <2>1 DEF Somewhere
<1>10. AtWork'
  <2>1. serving'[t] # None BY <1>2, <1>4
  <2>2. QED BY <1>1, <1>4, <2>1 DEF IInv, AtWork
<1>11. QED BY <1>5, <1>6, <1>8, <1>9, <1>10 DEF IInv

\* While the driver runs, no run that waits has had its own failure recorded.
LEMMA NoneFailed ==
  ASSUME IInv, NEW t \in Sessions, phase[t] = "running",
         NEW r \in Runs, js[r] = "waiting", SessionOf[r] = t, NEW kind \in Failures
  PROVE  <<r, kind>> \notin record[r]
BY DEF IInv, Owed

\* A turn that cannot start, or whose end cannot be recorded: the driver of a
\* session whose log is not steady leaves.
LEMMA FailsKeep ==
  ASSUME IInv, NEW t \in Sessions, StartFails(t) \/ ClaimFails(t) \/ EndFails(t)
  PROVE  IInv'
<1> USE TurnsConstants DEF Kinds
<1>1. /\ t \notin Steady
      /\ phase' = [phase EXCEPT ![t] = "leaving"]
      /\ serving' = [serving EXCEPT ![t] = None]
      /\ \/ UNCHANGED ended
         \/ ended' = [r \in Runs |-> IF r \in Subscribers(t) THEN "error" ELSE ended[r]]
      /\ UNCHANGED <<ctxDone, call, answer, reply, job, js, agents, inbox, record>>
  <2>1. CASE StartFails(t) \/ ClaimFails(t)
    <3>1. serving[t] = None /\ serving' = serving
      BY <2>1 DEF StartFails, ClaimFails, Opening
    <3>2. serving' = [serving EXCEPT ![t] = None] BY <3>1 DEF IInv, TypeOK
    <3>3. QED BY <2>1, <3>2 DEF StartFails, ClaimFails, Leave, callers, heard
  <2>2. CASE EndFails(t) BY <2>2 DEF EndFails, Leave, callers, heard
  <2>3. QED BY <2>1, <2>2
<1>2. phase[t] = "running"
  BY DEF StartFails, ClaimFails, EndFails, Opening, IInv, AtWork
<1>3. /\ \A s \in Sessions \ {t} : serving'[s] = serving[s] /\ phase'[s] = phase[s]
      /\ serving'[t] = None /\ phase'[t] = "leaving"
      /\ \A r \in Runs : \/ ended'[r] = ended[r]
                         \/ js[r] = "waiting" /\ SessionOf[r] = t /\ ended'[r] = "error"
      /\ \A r, u \in Runs : Recorded(r, u)' = Recorded(r, u)
  BY <1>1 DEF IInv, TypeOK, Recorded, Subscribers
<1>4. TypeOK'
  <2>1. serving' \in [Sessions -> Runs \cup {None}] BY <1>1 DEF IInv, TypeOK
  <2>2. phase' \in [Sessions -> {"idle", "running", "leaving"}] BY <1>1 DEF IInv, TypeOK
  <2>3. ended' \in [Runs -> Kinds \cup {"none"}] BY <1>1 DEF IInv, TypeOK
  <2>4. QED BY <1>1, <2>1, <2>2, <2>3 DEF IInv, TypeOK
<1>5. Unbegun' BY <1>1 DEF IInv, Unbegun
<1>6. InOnePlace'
  <2>1. \A s \in Sessions : \A i \in DOMAIN inbox[s] : inbox[s][i] \in Runs
    BY DEF IInv, TypeOK
  <2>2. \A s \in Sessions : serving'[s] = serving[s] \/ serving'[s] = None
    BY <1>3
  <2>3. QED BY <1>1, <1>3, <2>1, <2>2 DEF IInv, InOnePlace
<1>7. Somewhere'
  <2>1. \A r \in Runs : SessionOf[r] \in Steady =>
          serving'[SessionOf[r]] = serving[SessionOf[r]]
    BY <1>1, <1>3
  <2>2. QED BY <1>1, <1>3, <2>1 DEF IInv, Somewhere
<1>8. AtWork' BY <1>1, <1>3 DEF IInv, AtWork
<1>9. Heard' BY <1>1, <1>3 DEF IInv, Heard, Sent
<1>10. Owed'
  <2>1. ASSUME NEW r \in Runs, js[r] = "waiting"
        PROVE  /\ \A kind \in Failures : <<r, kind>> \in record[r] =>
                    phase'[SessionOf[r]] = "leaving" /\ ended'[r] = kind
               /\ (/\ SessionOf[r] \in Steady
                   /\ phase'[SessionOf[r]] = "leaving"
                   /\ ended'[r] = "completed") => <<r, "completed">> \in record[r]
    <3>1. CASE SessionOf[r] = t BY <1>1, <1>2, <2>1, <3>1, NoneFailed
    <3>2. CASE SessionOf[r] # t BY <1>3, <2>1, <3>2 DEF IInv, Owed
    <3>3. QED BY <3>1, <3>2
  <2>2. QED BY <1>1, <2>1 DEF Owed
<1>11. OutcomeIsOwn' BY <1>1 DEF IInv, OutcomeIsOwn
<1>12. QED BY <1>4, <1>5, <1>6, <1>7, <1>8, <1>9, <1>10, <1>11 DEF IInv

\* The prompt a turn served is recorded by every run() that waits, and by no
\* other.
LEMMA EndTurnKeeps ==
  ASSUME IInv, NEW t \in Sessions, NEW kind \in Kinds, EndTurn(t, kind)
  PROVE  IInv'
<1> DEFINE m == serving[t]
<1> USE TurnsConstants
<1>1. /\ m # None /\ m \in Runs /\ phase[t] = "running"
      /\ serving' = [serving EXCEPT ![t] = None]
      /\ UNCHANGED <<ctxDone, call, answer, reply, job, js, agents, inbox>>
  BY DEF EndTurn, callers, IInv, TypeOK, AtWork
<1>2. \A r \in Runs :
        /\ r \in Subscribers(t) =>
             record'[r] = record[r] \cup {<<m, kind>>} /\ ended'[r] = kind
        /\ r \notin Subscribers(t) => record'[r] = record[r] /\ ended'[r] = ended[r]
        /\ r \in Subscribers(t) <=> SessionOf[r] = t /\ js[r] = "waiting"
  BY DEF EndTurn, Subscribers
<1>3. /\ \A s \in Sessions \ {t} : serving'[s] = serving[s] /\ phase'[s] = phase[s]
      /\ serving'[t] = None
      /\ \/ (Leaves(t, kind) \/ t \notin Steady) /\ phase'[t] = "leaving"
         \/ ~Leaves(t, kind) /\ phase'[t] = "running"
  <2>1. phase \in [Sessions -> {"idle", "running", "leaving"}]
        /\ serving \in [Sessions -> Runs \cup {None}]
    BY DEF IInv, TypeOK
  <2>2. QED BY <1>1, <2>1 DEF EndTurn, Leave
<1>4. TypeOK'
  <2>1. serving' \in [Sessions -> Runs \cup {None}] BY <1>1 DEF IInv, TypeOK
  <2>2. phase' \in [Sessions -> {"idle", "running", "leaving"}]
    BY DEF EndTurn, Leave, IInv, TypeOK
  <2>3. record' \in [Runs -> SUBSET (Runs \X Kinds)]
    <3>1. record' = [r \in Runs |-> IF r \in Subscribers(t)
                                    THEN record[r] \cup {<<m, kind>>} ELSE record[r]]
      BY DEF EndTurn
    <3>2. <<m, kind>> \in Runs \X Kinds BY <1>1
    <3>3. QED BY <3>1, <3>2 DEF IInv, TypeOK
  <2>4. ended' \in [Runs -> Kinds \cup {"none"}]
    BY DEF EndTurn, IInv, TypeOK
  <2>5. QED BY <1>1, <2>1, <2>2, <2>3, <2>4 DEF IInv, TypeOK
<1>5. Unbegun' BY <1>1 DEF IInv, Unbegun
<1>6. \A r, u \in Runs : /\ Recorded(r, u)' => Recorded(r, u) \/ r = m
                         /\ Recorded(r, u) => Recorded(r, u)'
  <2> SUFFICES ASSUME NEW r \in Runs, NEW u \in Runs
               PROVE  /\ Recorded(r, u)' => Recorded(r, u) \/ r = m
                      /\ Recorded(r, u) => Recorded(r, u)'
    OBVIOUS
  <2>1. \/ record'[u] = record[u]
        \/ record'[u] = record[u] \cup {<<m, kind>>}
    BY <1>2
  <2>2. \A k \in Kinds : <<r, k>> \in record'[u] => <<r, k>> \in record[u] \/ r = m
    BY <2>1
  <2>3. QED BY <2>1, <2>2 DEF Recorded
<1>7. InOnePlace'
  <2>1. ASSUME NEW s \in Sessions, NEW i \in DOMAIN inbox[s]
        PROVE  /\ SessionOf[inbox[s][i]] = s
               /\ js[inbox[s][i]] \in Sent
               /\ inbox[s][i] # serving'[s]
               /\ \A u \in Runs, k \in Kinds : <<inbox[s][i], k>> \notin record'[u]
               /\ \A j \in DOMAIN inbox[s] : i # j => inbox[s][i] # inbox[s][j]
    <3>1. inbox[s][i] \in Runs BY DEF IInv, TypeOK
    <3>2. /\ SessionOf[inbox[s][i]] = s /\ js[inbox[s][i]] \in Sent
          /\ inbox[s][i] # serving[s]
          /\ \A u \in Runs : ~Recorded(inbox[s][i], u)
          /\ \A j \in DOMAIN inbox[s] : i # j => inbox[s][i] # inbox[s][j]
      BY <2>1 DEF IInv, InOnePlace
    <3>3. inbox[s][i] # m BY <1>1, <3>2 DEF IInv, InOnePlace
    <3>4. \A u \in Runs, k \in Kinds : <<inbox[s][i], k>> \notin record'[u]
      <4>1. \A x \in Runs : (\A u \in Runs : ~Recorded(x, u)) /\ x # m =>
              \A u \in Runs, k \in Kinds : <<x, k>> \notin record'[u]
        BY <1>6 DEF Recorded
      <4>2. QED BY <3>1, <3>2, <3>3, <4>1
    <3>5. QED BY <1>3, <3>1, <3>2, <3>4
  <2>2. \A s \in Sessions : serving'[s] # None =>
          SessionOf[serving'[s]] = s /\ js[serving'[s]] \in Sent
    BY <1>3 DEF IInv, InOnePlace
  <2>3. \A u, r \in Runs : Recorded(r, u)' => js[r] \in Sent
    BY <1>1, <1>6 DEF IInv, InOnePlace
  <2>4. \A s \in Sessions : \A i \in DOMAIN inbox'[s] : \A u \in Runs :
          ~Recorded(inbox[s][i], u)'
    BY <1>1, <2>1 DEF Recorded
  <2>5. QED BY <1>1, <2>1, <2>2, <2>3, <2>4 DEF InOnePlace
<1>8. Somewhere'
  <2>1. ASSUME NEW r \in Runs, js[r] = "waiting", SessionOf[r] \in Steady
        PROVE  \/ Recorded(r, r)'
               \/ serving'[SessionOf[r]] = r
               \/ \E i \in DOMAIN inbox[SessionOf[r]] : inbox[SessionOf[r]][i] = r
    <3>1. SessionOf[r] = t /\ m = r => Recorded(r, r)' BY <1>2, <2>1 DEF Recorded
    <3>2. \/ Recorded(r, r)
          \/ serving[SessionOf[r]] = r
          \/ \E i \in DOMAIN inbox[SessionOf[r]] : inbox[SessionOf[r]][i] = r
      BY <2>1 DEF IInv, Somewhere
    <3>3. QED BY <1>3, <1>6, <3>1, <3>2
  <2>2. QED BY <1>1, <2>1 DEF Somewhere
<1>9. AtWork' BY <1>1, <1>3 DEF IInv, AtWork, Leaves
<1>10. Heard'
  <2>1. kind # "none" BY DEF Kinds
  <2>2. QED BY <1>1, <1>2, <2>1 DEF IInv, Heard, Sent
<1>11. Owed'
  <2>1. ASSUME NEW r \in Runs, js[r] = "waiting"
        PROVE  /\ \A k \in Failures : <<r, k>> \in record'[r] =>
                    phase'[SessionOf[r]] = "leaving" /\ ended'[r] = k
               /\ (/\ SessionOf[r] \in Steady
                   /\ phase'[SessionOf[r]] = "leaving"
                   /\ ended'[r] = "completed") => <<r, "completed">> \in record'[r]
    <3>1. CASE SessionOf[r] # t BY <1>2, <1>3, <2>1, <3>1 DEF IInv, Owed
    <3>2. CASE SessionOf[r] = t
      <4>1. /\ record'[r] = record[r] \cup {<<m, kind>>} /\ ended'[r] = kind
            /\ \A k \in Failures : <<r, k>> \notin record[r]
        BY <1>1, <1>2, <2>1, <3>2, NoneFailed
      <4>2. ASSUME NEW k \in Failures, <<r, k>> \in record'[r]
            PROVE  phase'[t] = "leaving" /\ ended'[r] = k
        <5>1. k = kind /\ kind # "completed" BY <4>1, <4>2 DEF Failures
        <5>2. QED BY <1>3, <4>1, <5>1 DEF Leaves
      <4>3. ASSUME t \in Steady, phase'[t] = "leaving", ended'[r] = "completed"
            PROVE  <<r, "completed">> \in record'[r]
        <5>1. kind = "completed" /\ inbox[t] = <<>>
          BY <1>3, <4>1, <4>3 DEF Leaves
        <5>2. ~\E i \in DOMAIN inbox[t] : inbox[t][i] = r
          <6>1. DOMAIN inbox[t] = {} BY <5>1
          <6>2. QED BY <6>1
        <5>3. Recorded(r, r) \/ m = r
          BY <2>1, <3>2, <4>3, <5>2 DEF IInv, Somewhere
        <5>4. CASE Recorded(r, r)
          <6>1. PICK k \in Kinds : <<r, k>> \in record[r] BY <5>4 DEF Recorded
          <6>2. k = "completed" BY <4>1, <6>1 DEF Failures
          <6>3. QED BY <4>1, <6>1, <6>2
        <5>5. QED BY <4>1, <5>1, <5>3, <5>4
      <4>4. QED BY <3>2, <4>2, <4>3
    <3>3. QED BY <3>1, <3>2
  <2>2. QED BY <1>1, <2>1 DEF Owed
<1>12. OutcomeIsOwn'
  <2>1. \A r \in Runs : js[r] \in Kinds => record'[r] = record[r]
    BY <1>2 DEF Kinds
  <2>2. QED BY <1>1, <2>1 DEF IInv, OutcomeIsOwn
<1>13. QED BY <1>4, <1>5, <1>7, <1>8, <1>9, <1>10, <1>11, <1>12 DEF IInv

\* The idle settles every run() of the session that waits, with what Owed says.
LEMMA GoIdleKeeps ==
  ASSUME IInv, NEW t \in Sessions, GoIdle(t)
  PROVE  IInv'
<1> USE TurnsConstants
<1>1. /\ phase[t] = "leaving"
      /\ phase' = [phase EXCEPT ![t] = "idle"]
      /\ UNCHANGED <<ctxDone, call, answer, reply, job, agents, inbox, serving, record, ended>>
  BY DEF GoIdle, callers, heard
<1>2. \A r \in Runs :
        \/ js'[r] = js[r] /\ ~(js[r] = "waiting" /\ SessionOf[r] = t)
        \/ js[r] = "waiting" /\ SessionOf[r] = t /\ js'[r] = Outcome(r)
  BY DEF GoIdle, Subscribers
<1>3. \A r \in Runs : Outcome(r) \in Kinds
  BY DEF Outcome, IInv, TypeOK, Kinds
<1>4. \A s \in Sessions : phase'[s] = IF s = t THEN "idle" ELSE phase[s]
  BY <1>1 DEF IInv, TypeOK
<1>5. TypeOK'
  <2>1. js' \in [Runs -> JsAt]
    <3>1. js' = [r \in Runs |-> IF r \in Subscribers(t) THEN Outcome(r) ELSE js[r]]
      BY DEF GoIdle
    <3>2. \A r \in Runs : js[r] \in JsAt BY DEF IInv, TypeOK, JsAt
    <3>3. \A r \in Runs : Outcome(r) \in JsAt BY <1>3 DEF JsAt, Settled
    <3>4. QED BY <3>1, <3>2, <3>3
  <2>2. phase' \in [Sessions -> {"idle", "running", "leaving"}]
    BY <1>1 DEF IInv, TypeOK
  <2>3. QED BY <1>1, <2>1, <2>2 DEF IInv, TypeOK, JsAt
<1>6. Unbegun' BY <1>1, <1>2 DEF IInv, Unbegun
<1>7. \A r \in Runs : /\ js'[r] \in Sent <=> js[r] \in Sent
                      /\ js'[r] = "waiting" => js[r] = "waiting" /\ SessionOf[r] # t
  <2>1. "waiting" \notin Kinds BY DEF Kinds
  <2>2. QED BY <1>2, <1>3, <2>1 DEF Sent
<1>8. \A r, u \in Runs : Recorded(r, u)' = Recorded(r, u) BY <1>1 DEF Recorded
<1>9. InOnePlace'
  <2>1. \A s \in Sessions : /\ \A i \in DOMAIN inbox[s] : inbox[s][i] \in Runs
                            /\ serving[s] \in Runs \cup {None}
    BY DEF IInv, TypeOK
  <2>2. QED BY <1>1, <1>7, <1>8, <2>1 DEF IInv, InOnePlace
<1>10. Somewhere' BY <1>1, <1>7, <1>8 DEF IInv, Somewhere
<1>11. AtWork' BY <1>1, <1>4, <1>7 DEF IInv, AtWork
<1>12. Heard' BY <1>1, <1>7 DEF IInv, Heard
<1>13. Owed' BY <1>1, <1>4, <1>7 DEF IInv, Owed
<1>14. OutcomeIsOwn'
  <2>1. ASSUME NEW r \in Runs, js'[r] \in Kinds
        PROVE  /\ \A kind \in Failures : <<r, kind>> \in record[r] => js'[r] = kind
               /\ SessionOf[r] \in Steady /\ js'[r] = "completed" /\ record[r] # {} =>
                    <<r, "completed">> \in record[r]
    <3>1. CASE js'[r] = js[r]
      BY <2>1, <3>1 DEF IInv, OutcomeIsOwn, Failures
    <3>2. CASE js[r] = "waiting" /\ SessionOf[r] = t /\ js'[r] = Outcome(r)
      <4>1. record[r] # {} => js'[r] = ended[r]
        BY <3>2 DEF Outcome, IInv, Heard
      <4>2. QED BY <1>1, <3>2, <4>1 DEF IInv, Owed
    <3>3. QED BY <1>2, <3>1, <3>2
  <2>2. QED BY <1>1, <2>1 DEF OutcomeIsOwn, Failures
<1>15. QED BY <1>5, <1>6, <1>9, <1>10, <1>11, <1>12, <1>13, <1>14 DEF IInv
\* The inductive invariant holds of every behaviour of the callers, the owning
\* goroutine, run() and the agents.
THEOREM Inductive == Spec => []IInv
<1>1. IInv /\ [Next]_turnVars => IInv'
  <2> SUFFICES ASSUME IInv, [Next]_turnVars PROVE IInv'
    OBVIOUS
  <2>1. CASE \E r \in Runs : Submit(r) \/ GiveUp(r) \/ Return(r)
                             \/ EndContext(r) \/ Answer(r)
    BY <2>1, CallerKeeps
  <2>2. CASE \E r \in Runs : Begin(r) \/ Stat(r) \/ Open(r) \/ DeliverFails(r)
    BY <2>2, EarlyKeeps
  <2>3. CASE \E r \in Runs : Deliver(r)
    BY <2>3, DeliverKeeps
  <2>4. CASE \E s \in Sessions : StartTurn(s)
    BY <2>4, StartTurnKeeps
  <2>5. CASE \E s \in Sessions, kind \in Kinds : EndTurn(s, kind)
    BY <2>5, EndTurnKeeps
  <2>6. CASE \E s \in Sessions : StartFails(s) \/ ClaimFails(s) \/ EndFails(s)
    BY <2>6, FailsKeep
  <2>7. CASE \E s \in Sessions : GoIdle(s)
    BY <2>7, GoIdleKeeps
  <2>8. CASE UNCHANGED turnVars
    <3>1. Undisturbed BY <2>8 DEF turnVars, Undisturbed, loop, heard
    <3>2. TypeOK' /\ Unbegun'
      BY <2>8 DEF turnVars, loop, heard, callers, IInv, TypeOK, Unbegun
    <3>3. QED BY <3>1, <3>2, UndisturbedKeeps DEF IInv
  <2>9. QED
    BY <2>1, <2>2, <2>3, <2>4, <2>5, <2>6, <2>7, <2>8 DEF Next, World
<1>2. QED BY InitIInv, <1>1, PTL DEF Spec

\* Every variable of a turn keeps its type.
THEOREM TypeCorrect == Spec => []TypeOK
<1>1. IInv => TypeOK BY DEF IInv
<1>2. QED BY Inductive, <1>1, PTL

\* What run() reports is never better than what became of its own prompt.
THEOREM OwnOutcome == Spec => []OutcomeIsOwn
<1>1. IInv => OutcomeIsOwn BY DEF IInv
<1>2. QED BY Inductive, <1>1, PTL

\* No run waits for the idle of an agent that has nothing to do.
THEOREM NeverWaitsOnIdle == Spec => []WaiterHasWork
<1>1. IInv => WaiterHasWork
  BY TurnsConstants DEF IInv, TypeOK, AtWork, WaiterHasWork
<1>2. QED BY Inductive, <1>1, PTL

\* A prompt that is served, or was, is pending nowhere.
THEOREM NeverServedTwice == Spec => []ServedOnce
<1>1. IInv => ServedOnce
  <2> SUFFICES ASSUME IInv, NEW r \in Runs, NEW s \in Sessions, r \in Pending(s)
               PROVE  /\ s = SessionOf[r] /\ serving[s] # r
                      /\ \A u \in Runs, kind \in Kinds : <<r, kind>> \notin record[u]
    BY DEF ServedOnce
  <2>1. PICK i \in DOMAIN inbox[s] : r = inbox[s][i] BY DEF Pending
  <2>2. /\ s = SessionOf[r] /\ serving[s] # r
        /\ \A u \in Runs : ~Recorded(r, u)
    BY <2>1 DEF IInv, InOnePlace
  <2>3. QED BY <2>2 DEF Recorded
<1>2. QED BY Inductive, <1>1, PTL
-----------------------------------------------------------------------------
(* turn() runs the jobs of SerialJobs.  Where a call is says what it can    *)
(* have been told: its answer comes out of req.reply, which is filled when  *)
(* its turn() is over, and its turn() began run().                          *)

Told ==
  \A r \in Runs :
    /\ call[r] \in {"new", "queued"} => reply[r] = "none" /\ job # r
    /\ call[r] # "returned" => answer[r] = "none"
    /\ call[r] = "returned" => answer[r] # "none"
    /\ reply[r] # "none" => job # r
    /\ job = r \/ reply[r] \in Settled => js[r] # "none"

LEMMA ToldKeeps ==
  ASSUME IInv, Told, [Next]_turnVars
  PROVE  Told'
<1> USE TurnsConstants
<1>1. /\ call \in [Runs -> {"new", "queued", "waiting", "returned"}]
      /\ answer \in [Runs -> Replies \cup {"none"}]
      /\ reply \in [Runs -> Replies \cup {"none"}]
      /\ job \in Runs \cup {None}
      /\ js \in [Runs -> Settled \cup {"none", "stat", "create", "found", "waiting"}]
  BY DEF IInv, TypeOK
<1>2. "none" \notin Replies BY DEF Replies, Settled, Kinds
<1>3. CASE \E r \in Runs : Submit(r) \/ GiveUp(r)
  BY <1>1, <1>3 DEF Submit, GiveUp, Told
<1>4. CASE \E r \in Runs : Return(r)
  BY <1>1, <1>4 DEF Return, Told
<1>5. CASE \E r \in Runs : Begin(r)
  BY <1>1, <1>5 DEF Begin, Told
<1>6. CASE \E r \in Runs : Answer(r)
  BY <1>1, <1>6 DEF Answer, Told, Settled, Kinds, callers
<1>7. CASE /\ UNCHANGED <<call, answer, reply, job>>
           /\ \A r \in Runs : js[r] # "none" => js'[r] # "none"
  BY <1>7 DEF Told
<1>8. QED
  <2>1. ASSUME NEW r \in Runs, Stat(r) \/ Open(r) \/ Deliver(r) \/ DeliverFails(r)
        PROVE  /\ UNCHANGED <<call, answer, reply, job>>
               /\ \A u \in Runs : js[u] # "none" => js'[u] # "none"
    BY <1>1, <2>1 DEF Stat, Open, Deliver, DeliverFails, Step, callers
  <2>2. ASSUME NEW s \in Sessions, GoIdle(s)
        PROVE  /\ UNCHANGED <<call, answer, reply, job>>
               /\ \A u \in Runs : js[u] # "none" => js'[u] # "none"
    BY <2>2 DEF GoIdle, Outcome, callers
  <2>3. CASE \E r \in Runs : EndContext(r) BY <1>7, <2>3 DEF EndContext, callers
  <2>4. ASSUME NEW s \in Sessions,
               \/ StartTurn(s) \/ StartFails(s) \/ ClaimFails(s) \/ EndFails(s)
               \/ \E kind \in Kinds : EndTurn(s, kind)
        PROVE  UNCHANGED <<call, answer, reply, job, js>>
    BY <2>4 DEF StartTurn, StartFails, ClaimFails, EndFails, EndTurn, callers
  <2>5. CASE UNCHANGED turnVars BY <1>7, <2>5 DEF turnVars, callers
  <2>6. QED
    BY <1>3, <1>4, <1>5, <1>6, <1>7, <2>1, <2>2, <2>3, <2>4, <2>5 DEF Next, World

LEMMA ToldInductive == Spec => [](IInv /\ Told)
<1>1. Init => Told
  <2> SUFFICES ASSUME Init PROVE Told
    OBVIOUS
  <2>1. \A r \in Runs : /\ call[r] = "new" /\ answer[r] = "none" /\ reply[r] = "none"
                        /\ job # r
    BY TurnsConstants DEF Init
  <2>2. QED BY <2>1 DEF Told, Settled, Kinds
<1>2. QED BY <1>1, ToldKeeps, Inductive, PTL DEF Spec

\* What one call is told changes the abstract answer of that call alone.
LEMMA TellsJobs ==
  ASSUME IInv, Told, NEW r \in Runs, NEW a, UNCHANGED <<js, job>>,
         call[r] # "returned", answer' = [answer EXCEPT ![r] = a],
         \/ a = "ctx"
         \/ a \in Settled /\ a = reply[r]
  PROVE  \E t \in {"result", "abandoned"} : Jobs!Tell(r, t)
<1> DEFINE t == IF a = "ctx" THEN "abandoned" ELSE "result"
           J == [q \in Runs |-> JobOf(q)]
           A == [q \in Runs |-> AnswerOf(q)]
<1>1. answer \in [Runs -> Replies \cup {"none"}] /\ answer[r] = "none"
  BY DEF IInv, TypeOK, Told
<1>2. J' = J BY DEF JobOf
<1>3. "ctx" \notin Settled /\ "none" \notin Settled BY DEF Settled, Kinds
<1>4. A[r] = "none" /\ A' = [A EXCEPT ![r] = t]
  <2>1. AnswerOf(r) = "none" /\ AnswerOf(r)' = t BY <1>1, <1>3 DEF AnswerOf
  <2>2. \A q \in Runs \ {r} : AnswerOf(q)' = AnswerOf(q) BY <1>1 DEF AnswerOf
  <2>3. QED BY <2>1, <2>2
<1>5. t = "result" => J[r] = "done"
  BY <1>3 DEF Told, JobOf, Replies
<1>6. t \in {"result", "abandoned"} OBVIOUS
<1> HIDE DEF t
<1>7. Jobs!Tell(r, t) BY <1>2, <1>4, <1>5, <1>6 DEF Jobs!Tell
<1>8. QED BY <1>6, <1>7

LEMMA NextJobs ==
  ASSUME IInv, Told, [Next]_turnVars
  PROVE  [Jobs!Next]_(Jobs!vars)
<1> USE TurnsConstants
<1> DEFINE J == [q \in Runs |-> JobOf(q)]
           A == [q \in Runs |-> AnswerOf(q)]
<1>1. /\ reply \in [Runs -> Replies \cup {"none"}]
      /\ job \in Runs \cup {None}
      /\ js \in [Runs -> Settled \cup {"none", "stat", "create", "found", "waiting"}]
  BY DEF IInv, TypeOK
<1>2. CASE UNCHANGED <<answer, job>> /\ \A r \in Runs : js[r] = "none" <=> js'[r] = "none"
  <2>1. \A r \in Runs : JobOf(r)' = JobOf(r) /\ AnswerOf(r)' = AnswerOf(r)
    BY <1>2 DEF JobOf, AnswerOf
  <2>2. J' = J /\ A' = A BY <2>1
  <2>3. QED BY <2>2 DEF Jobs!vars
<1>3. CASE \E r \in Runs : GiveUp(r) \/ Return(r)
  <2>1. PICK r \in Runs : GiveUp(r) \/ Return(r) BY <1>3
  <2>2. /\ UNCHANGED <<js, job, reply>> /\ call[r] # "returned"
    BY <2>1 DEF GiveUp, Return
  <2>3. PICK a : /\ answer' = [answer EXCEPT ![r] = a]
                 /\ a = "ctx" \/ (a = reply[r] /\ a # "none")
    BY <2>1 DEF GiveUp, Return
  <2>4. a = "ctx" \/ (a \in Settled /\ a = reply[r]) BY <1>1, <2>3 DEF Replies
  <2>5. \E t \in {"result", "abandoned"} : Jobs!Tell(r, t)
    BY <2>2, <2>3, <2>4, TellsJobs
  <2>6. QED BY <2>5 DEF Jobs!Next
<1>4. CASE \E r \in Runs : Begin(r)
  <2>1. PICK r \in Runs : Begin(r) BY <1>4
  <2>2. /\ job = None /\ job' = r /\ js[r] = "none" /\ js'[r] # "none" /\ answer' = answer
        /\ \A q \in Runs \ {r} : js'[q] = js[q]
    BY <1>1, <2>1 DEF Begin, IInv, Unbegun
  <2>3. /\ JobOf(r) = "new" /\ JobOf(r)' = "running" /\ AnswerOf(r) = "none"
    BY <2>1, <2>2 DEF JobOf, AnswerOf, Begin, Told
  <2>4. \A q \in Runs : JobOf(q) # "running" BY <2>2 DEF JobOf
  <2>5. \A q \in Runs \ {r} : JobOf(q)' = JobOf(q) BY <2>2 DEF JobOf
  <2>6. J[r] = "new" /\ A[r] = "none" /\ J' = [J EXCEPT ![r] = "running"]
    BY <2>3, <2>5
  <2>7. A' = A BY <2>2 DEF AnswerOf
  <2>8. \A q \in Runs : J[q] # "running" BY <2>4
  <2>9. Jobs!Run(r) BY <2>6, <2>7, <2>8 DEF Jobs!Run, Jobs!Idle
  <2>10. QED BY <2>9 DEF Jobs!Next
<1>5. CASE \E r \in Runs : Answer(r)
  <2>1. PICK r \in Runs : Answer(r) BY <1>5
  <2>2. job = r /\ job' = None /\ UNCHANGED <<js, answer>> /\ js[r] # "none"
    BY <2>1 DEF Answer, callers, Told
  <2>3. JobOf(r) = "running" /\ JobOf(r)' = "done" BY <2>2 DEF JobOf
  <2>4. \A q \in Runs \ {r} : JobOf(q)' = JobOf(q) BY <2>2 DEF JobOf
  <2>5. J[r] = "running" /\ J' = [J EXCEPT ![r] = "done"] BY <2>3, <2>4
  <2>6. A' = A BY <2>2 DEF AnswerOf
  <2>7. Jobs!Finish(r) BY <2>5, <2>6 DEF Jobs!Finish
  <2>8. QED BY <2>7 DEF Jobs!Next
<1>6. QED
  <2>1. ASSUME NEW r \in Runs, Stat(r) \/ Open(r) \/ Deliver(r) \/ DeliverFails(r)
        PROVE  /\ UNCHANGED <<answer, job>>
               /\ \A u \in Runs : js[u] = "none" <=> js'[u] = "none"
    BY <1>1, <2>1 DEF Stat, Open, Deliver, DeliverFails, Step, callers
  <2>2. ASSUME NEW s \in Sessions, GoIdle(s)
        PROVE  /\ UNCHANGED <<answer, job>>
               /\ \A u \in Runs : js[u] = "none" <=> js'[u] = "none"
    BY <2>2 DEF GoIdle, Outcome, callers, Subscribers
  <2>3. CASE \E r \in Runs : EndContext(r) \/ Submit(r)
    BY <1>2, <2>3 DEF EndContext, Submit, callers
  <2>4. ASSUME NEW s \in Sessions,
               \/ StartTurn(s) \/ StartFails(s) \/ ClaimFails(s) \/ EndFails(s)
               \/ \E kind \in Kinds : EndTurn(s, kind)
        PROVE  UNCHANGED <<call, answer, reply, job, js>>
    BY <2>4 DEF StartTurn, StartFails, ClaimFails, EndFails, EndTurn, callers
  <2>5. CASE UNCHANGED turnVars BY <1>2, <2>5 DEF turnVars, callers
  <2>6. QED BY <1>2, <1>3, <1>4, <1>5, <2>1, <2>2, <2>3, <2>4, <2>5 DEF Next, World

\* harness.turn keeps SerialJobs' promise, for any number of runs and sessions.
THEOREM TurnsAreSerialJobs == Spec => ImplementsSerialJobs
<1>1. Init => Jobs!Init
  <2> SUFFICES ASSUME Init PROVE Jobs!Init
    OBVIOUS
  <2>1. \A r \in Runs : js[r] = "none" /\ answer[r] = "none" BY DEF Init
  <2>2. \A r \in Runs : JobOf(r) = "new" BY <2>1 DEF JobOf
  <2>3. ASSUME NEW r \in Runs PROVE AnswerOf(r) = "none"
    <3>1. answer[r] = "none" BY <2>1
    <3>2. QED BY <3>1 DEF AnswerOf, Settled, Kinds
  <2>4. QED BY <2>2, <2>3 DEF Jobs!Init
<1>2. IInv /\ Told /\ [Next]_turnVars => [Jobs!Next]_(Jobs!vars) BY NextJobs
<1>3. QED BY <1>1, <1>2, ToldInductive, PTL DEF Spec, ImplementsSerialJobs, Jobs!Spec
=============================================================================
