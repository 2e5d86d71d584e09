---------------------------- MODULE JsonRpcProofs ----------------------------
(***************************************************************************)
(* The safety of JsonRpc, proved for any number of prompts and sessions,   *)
(* any traffic and any order of the executable's lines.                    *)
(*                                                                         *)
(* That a prompt is given its interval, whole, is not inductive: it needs  *)
(* where the notices that are not yet given are.  Between what a prompt    *)
(* was given last and what the executable sends next there is one unbroken *)
(* run of numbers: its queue, then the notice in readLoop's hands, then    *)
(* the wire (InStep).                                                      *)
(***************************************************************************)
EXTENDS JsonRpc, Integers, TLAPS

Responses == [kind : {"response"}, of : Callers, body : Bodies]
Notices   == [kind : {"receipt", "idle", "event"}, of : Prompts \cup Sessions, n : Nat]
Lines     == Responses \cup Notices
Readers   == [at : {"read", "send", "push", "signal", "ended"}, msg : Lines \cup {None},
              hooks : SUBSET Prompts, to : Prompts \cup {None}]

Types ==
  /\ TypeOK
  /\ wire \in Seq(Lines) /\ reader \in Readers
  /\ items \in [Prompts -> Seq(Notices)] /\ got \in [Prompts -> Seq(Notices)]
  /\ sent \in Nat /\ answers \in [Callers -> Nat]
  /\ reader.at = "send" => reader.msg \in Responses
  /\ reader.at \in {"push", "signal"} => reader.msg \in Notices
  /\ reader.at = "signal" => reader.to \in Prompts

\* A prompt is hooked from before its request is written until it returns, and
\* nothing was queued for it before.
Hooked ==
  /\ \A p \in Prompts : at[p] \notin {"new", "done"} <=> p \in listeners
  /\ \A p \in Prompts : at[p] = "new" =>
       /\ p \notin open /\ items[p] = <<>> /\ p \notin reader.hooks
       /\ reader.at = "signal" => reader.to # p
  /\ \A p \in Prompts : outcome[p] # "none" => at[p] = "done"

\* A prompt has been given something exactly when it has seen its receipt; and
\* none that waits has been given an idle of its session.
Opens ==
  \A p \in Prompts :
    /\ p \in open <=> got[p] # <<>>
    /\ p \in listeners => \A i \in DOMAIN got[p] : ~IsIdle(got[p][i], p)

\* The notices on the wire are those numbered l + 1 to sent, in order.
OnWire(i) == i \in DOMAIN wire /\ wire[i].kind # "response"
Numbered(l) ==
  /\ \A m \in l + 1..sent : \E i \in DOMAIN wire : OnWire(i) /\ wire[i].n = m
  /\ \A i \in DOMAIN wire : OnWire(i) => wire[i].n \in l + 1..sent
  /\ \A i, j \in DOMAIN wire : OnWire(i) /\ OnWire(j) /\ i < j => wire[i].n < wire[j].n

\* The last number that is in a prompt's queue, or would be if it had room for
\* what it was given; l is the last number read.
Delivering == reader.at \in {"push", "signal"}
Due(p, l)  == IF Delivering /\ p \in reader.hooks THEN l - 1 ELSE l
Window(p, l) ==
  /\ \A i \in DOMAIN items[p] : items[p][i].n = Due(p, l) - Len(items[p]) + i
  /\ p \in open => got[p][Len(got[p])].n = Due(p, l) - Len(items[p])

InStep ==
  \E l \in 0..sent :
    /\ Numbered(l)
    /\ Delivering => reader.msg.n = l
    /\ \A p \in listeners : Window(p, l)

IInv == Types /\ Hooked /\ NoLostWakeup /\ Opens /\ IntervalExact /\ InStep

LEMMA InitIInv == Init => IInv
<1> SUFFICES ASSUME Init PROVE IInv
  OBVIOUS
<1> USE JsonRpcConstants DEF Callers
<1>1. Types
  <2>1. TypeOK BY DEF Init, TypeOK, Outcomes, Idle
  <2>2. reader \in Readers BY DEF Init, Readers, Idle
  <2>3. QED BY <2>1, <2>2 DEF Init, Types, Idle
<1>2. Hooked BY DEF Init, Hooked, Idle
<1>3. NoLostWakeup BY DEF Init, NoLostWakeup
<1>4. Opens BY DEF Init, Opens
<1>5. IntervalExact BY DEF Init, IntervalExact
<1>6. InStep
  <2>1. Numbered(0) BY DEF Init, Numbered, OnWire
  <2>2. ~Delivering /\ listeners = {} BY DEF Init, Delivering, Idle
  <2>3. 0 \in 0..sent BY DEF Init
  <2>4. QED BY <2>1, <2>2, <2>3 DEF InStep
<1>7. QED BY <1>1, <1>2, <1>3, <1>4, <1>5, <1>6 DEF IInv

-----------------------------------------------------------------------------
\* Steps that touch neither the wire nor the queues, and hook nobody.
LEMMA QuietKeeps ==
  ASSUME IInv, UNCHANGED <<wire, sent, reader, items, got, open>>,
         listeners' \subseteq listeners,
         \A p \in Prompts : outcome'[p] = "ok" => outcome[p] = "ok"
  PROVE  Opens' /\ IntervalExact' /\ InStep'
<1>1. Opens' BY DEF IInv, Opens
<1>2. IntervalExact' BY DEF IInv, IntervalExact
<1>3. InStep'
  <2>1. PICK l \in 0..sent :
          /\ Numbered(l)
          /\ Delivering => reader.msg.n = l
          /\ \A p \in listeners : Window(p, l)
    BY DEF IInv, InStep
  <2>2. Numbered(l)' BY <2>1 DEF Numbered, OnWire
  <2>3. Delivering' => reader'.msg.n = l BY <2>1 DEF Delivering
  <2>4. \A p \in listeners' : Window(p, l)' BY <2>1 DEF Window, Due, Delivering
  <2>5. QED BY <2>2, <2>3, <2>4 DEF InStep
<1>4. QED BY <1>1, <1>2, <1>3

\* call, and what else a caller does that gives it no notice.
LEMMA ReturnTypes ==
  ASSUME Types, NEW c \in Callers, NEW from, NEW o \in Outcomes, Return(c, from, o)
  PROVE  /\ at' \in [Callers -> {"new", "register", "write", "select", "interval",
                                "wait", "done"}]
         /\ outcome' \in [Callers -> Outcomes]
         /\ pending' \subseteq Callers /\ listeners' \subseteq Prompts
  BY DEF Types, TypeOK, Return, Goto

LEMMA ReturnHooked ==
  ASSUME Types, Hooked, NEW c \in Callers, NEW from, NEW o, Return(c, from, o),
         from # "new", UNCHANGED <<open, items, reader>>
  PROVE  /\ Hooked'
         /\ listeners' \subseteq listeners
         /\ \A p \in Prompts \ {c} : outcome'[p] = outcome[p] /\ at'[p] = at[p]
         /\ outcome'[c] = o /\ at'[c] = "done"
<1> USE DEF Callers
<1>1. /\ at' = [at EXCEPT ![c] = "done"] /\ at[c] = from
      /\ outcome' = [outcome EXCEPT ![c] = o]
      /\ listeners' = listeners \ {c}
  BY DEF Return, Goto
<1>2. Hooked' BY <1>1 DEF Hooked, Types, TypeOK
<1>3. QED BY <1>1, <1>2 DEF Types, TypeOK

CallStep(c) == Register(c) \/ Write(c) \/ Respond(c) \/ StopWaiting(c)

LEMMA CallTypes ==
  ASSUME Types, NEW c \in Callers, CallStep(c)
  PROVE  Types'
<1> USE DEF Callers
<1> DEFINE Ats == {"new", "register", "write", "select", "interval", "wait", "done"}
           Says == {"empty", "ok", "error", "bad"}
<1>1. /\ at' \in [Callers -> Ats] /\ outcome' \in [Callers -> Outcomes]
      /\ pending' \subseteq Callers /\ listeners' \subseteq Prompts
  <2>1. CASE \E from \in {"register", "write", "select"}, o \in Outcomes : Return(c, from, o)
    BY <2>1, ReturnTypes
  <2>2. CASE \E from, to \in Ats : Goto(c, from, to) /\ outcome' = outcome
               /\ pending' \subseteq pending \cup {c} /\ listeners' = listeners
    BY <2>2 DEF Goto, Types, TypeOK
  <2>3. CASE Register(c) BY <2>3, <2>1, <2>2 DEF Register, Outcomes
  <2>4. CASE Write(c) BY <2>4, <2>1, <2>2 DEF Write, Outcomes, table
  <2>5. CASE Respond(c) BY <2>5, <2>1, <2>2 DEF Respond, Outcomes
  <2>6. CASE StopWaiting(c) BY <2>6, <2>1 DEF StopWaiting, Outcomes
  <2>7. QED BY <2>3, <2>4, <2>5, <2>6 DEF CallStep
<1>2. reply' \in [Callers -> Says]
  <2>1. reply \in [Callers -> Says] BY DEF Types, TypeOK
  <2>2. reply' = reply \/ reply' = [reply EXCEPT ![c] = "empty"]
    BY DEF CallStep, Register, Write, Respond, StopWaiting
  <2>3. QED BY <2>1, <2>2
<1>3. requests' \subseteq Callers
  BY DEF CallStep, Register, Write, Respond, StopWaiting, server, Types, TypeOK
<1>4. UNCHANGED <<ctxDone, open, items, signal, got, reader, readDone, closed, closing,
                  stdin, alive, wire, answers, received, busy, rested, sent>>
  BY DEF CallStep, Register, Write, Respond, StopWaiting, queues, reading, shut, server
<1>5. TypeOK' BY <1>1, <1>2, <1>3, <1>4 DEF Types, TypeOK
<1>6. QED BY <1>4, <1>5 DEF Types

LEMMA CallKeeps ==
  ASSUME IInv, NEW c \in Callers, CallStep(c)
  PROVE  IInv'
<1> USE DEF Callers
<1>1. Types' BY CallTypes DEF IInv
<1>2. UNCHANGED <<wire, sent, reader, items, signal, got, open>>
  BY DEF CallStep, Register, Write, Respond, StopWaiting, queues, reading, server
<1>3. CASE \E from \in {"register", "write", "select"}, o \in Outcomes :
             Return(c, from, o) /\ (c \in Prompts => o # "ok")
  <2>1. PICK from \in {"register", "write", "select"}, o \in Outcomes :
          Return(c, from, o) /\ (c \in Prompts => o # "ok")
    BY <1>3
  <2>2. /\ Hooked' /\ listeners' \subseteq listeners
        /\ \A p \in Prompts \ {c} : outcome'[p] = outcome[p] /\ at'[p] = at[p]
        /\ outcome'[c] = o /\ at'[c] = "done"
    BY <2>1, <1>2, ReturnHooked DEF IInv
  <2>3. NoLostWakeup' BY <2>2, <1>2 DEF NoLostWakeup, IInv
  <2>4. \A p \in Prompts : outcome'[p] = "ok" => outcome[p] = "ok" BY <2>1, <2>2
  <2>5. QED BY <1>1, <1>2, <2>2, <2>3, <2>4, QuietKeeps DEF IInv
<1>4. CASE \E from \in {"register", "write", "select"}, to \in {"write", "select", "interval"} :
             Goto(c, from, to) /\ UNCHANGED <<outcome, listeners>>
  <2>1. PICK from \in {"register", "write", "select"}, to \in {"write", "select", "interval"} :
          Goto(c, from, to) /\ UNCHANGED <<outcome, listeners>>
    BY <1>4
  <2>2. at[c] = from /\ at' = [at EXCEPT ![c] = to] BY <2>1 DEF Goto
  <2>3. Hooked' BY <1>2, <2>1, <2>2 DEF Hooked, IInv, Types, TypeOK
  <2>4. NoLostWakeup' BY <1>2, <2>2 DEF NoLostWakeup, IInv, Types, TypeOK
  <2>5. QED BY <1>1, <1>2, <2>1, <2>3, <2>4, QuietKeeps DEF IInv
<1>5. QED
  <2>1. CASE Register(c) BY <2>1, <1>3, <1>4 DEF Register, Outcomes
  <2>2. CASE Write(c) BY <2>2, <1>3, <1>4 DEF Write, Outcomes, table
  <2>3. CASE Respond(c) BY <2>3, <1>3, <1>4, JsonRpcConstants DEF Respond, Outcomes
  <2>4. CASE StopWaiting(c) BY <2>4, <1>3 DEF StopWaiting, Outcomes
  <2>5. QED BY <2>1, <2>2, <2>3, <2>4 DEF CallStep

\* What closes, ends or stops without touching a prompt's notices.
ShutStep ==
  \/ CloseBegin \/ CloseStdin \/ Kill \/ CloseReturn \/ Exit
  \/ \E c \in Callers : EndContext(c)

LEMMA ShutKeeps ==
  ASSUME IInv, ShutStep
  PROVE  IInv'
<1>1. UNCHANGED <<at, outcome, table, reply, queues, open, got, reading, wire, requests,
                  answers, received, busy, rested, sent>>
  BY DEF ShutStep, CloseBegin, CloseStdin, Kill, CloseReturn, Exit, EndContext, client,
         caller, server
<1>2. /\ ctxDone' \subseteq Callers
      /\ closed' \in BOOLEAN /\ stdin' \in BOOLEAN /\ alive' \in BOOLEAN
      /\ closing' \in {"open", "flagged", "waiting", "killing", "closed"}
  BY DEF IInv, Types, TypeOK, ShutStep, CloseBegin, CloseStdin, Kill, CloseReturn, Exit,
         EndContext, client, shut, server
<1>3. Types'
  <2>1. TypeOK' BY <1>1, <1>2 DEF IInv, Types, TypeOK, table, queues, reading
  <2>2. QED BY <1>1, <2>1 DEF IInv, Types, queues, reading
<1>4. Hooked' BY <1>1 DEF IInv, Hooked, table, queues, reading
<1>5. NoLostWakeup' BY <1>1 DEF IInv, NoLostWakeup, queues, reading
<1>6. QED BY <1>1, <1>3, <1>4, <1>5, QuietKeeps DEF IInv, table, queues, reading

-----------------------------------------------------------------------------
\* Prompt's interval.

LEMMA ListenKeeps ==
  ASSUME IInv, NEW p \in Prompts, Listen(p)
  PROVE  IInv'
<1> USE DEF Callers
<1>1. /\ at[p] = "new" /\ at' = [at EXCEPT ![p] = "register"]
      /\ listeners' = listeners \cup {p}
      /\ UNCHANGED <<outcome, ctxDone, pending, reply, items, signal, open, got, reader,
                     readDone, closed, closing, stdin, alive, wire, requests, answers,
                     received, busy, rested, sent>>
  BY DEF Listen, Goto, queues, reading, shut, server
<1>2. Types'
  <2>1. at' \in [Callers -> {"new", "register", "write", "select", "interval", "wait", "done"}]
    BY <1>1 DEF IInv, Types, TypeOK
  <2>2. TypeOK' BY <1>1, <2>1 DEF IInv, Types, TypeOK
  <2>3. QED BY <1>1, <2>2 DEF IInv, Types
<1>3. \A q \in Callers : at'[q] = IF q = p THEN "register" ELSE at[q]
  BY <1>1 DEF IInv, Types, TypeOK
<1>4. Hooked' BY <1>1, <1>3 DEF IInv, Hooked
<1>5. NoLostWakeup' BY <1>1, <1>3 DEF IInv, NoLostWakeup
<1>6. IntervalExact' BY <1>1 DEF IInv, IntervalExact
<1>7. p \notin open /\ items[p] = <<>> /\ got[p] = <<>>
  BY <1>1 DEF IInv, Hooked, Opens
<1>8. Opens' BY <1>1, <1>7 DEF IInv, Opens
<1>9. InStep'
  <2>1. PICK l \in 0..sent :
          /\ Numbered(l)
          /\ Delivering => reader.msg.n = l
          /\ \A q \in listeners : Window(q, l)
    BY DEF IInv, InStep
  <2>2. Numbered(l)' BY <1>1, <2>1 DEF Numbered, OnWire
  <2>3. Delivering' => reader'.msg.n = l BY <1>1, <2>1 DEF Delivering
  <2>4. Window(p, l)' BY <1>1, <1>7 DEF Window
  <2>5. \A q \in listeners : Window(q, l)' BY <1>1, <2>1 DEF Window, Due, Delivering
  <2>6. QED BY <1>1, <2>2, <2>3, <2>4, <2>5 DEF InStep
<1>10. QED BY <1>2, <1>4, <1>5, <1>6, <1>8, <1>9 DEF IInv

LEMMA WaitKeeps ==
  ASSUME IInv, NEW p \in Prompts, NoItem(p) \/ Wake(p)
  PROVE  IInv'
<1> USE DEF Callers
<1>1. /\ \/ at[p] = "interval" /\ at' = [at EXCEPT ![p] = "wait"] /\ signal' = signal
            /\ items[p] = <<>>
         \/ /\ at[p] = "wait" /\ at' = [at EXCEPT ![p] = "interval"]
            /\ signal' = [signal EXCEPT ![p] = FALSE]
      /\ UNCHANGED <<outcome, ctxDone, pending, listeners, reply, items, open, got, reader,
                     readDone, closed, closing, stdin, alive, wire, requests, answers,
                     received, busy, rested, sent>>
  BY DEF NoItem, Wake, Goto, table, queues, reading, shut, server
<1>2. /\ \A q \in Callers \ {p} : at'[q] = at[q]
      /\ at[p] \in {"interval", "wait"} /\ at'[p] \in {"interval", "wait"}
      /\ at'[p] = "wait" => items[p] = <<>>
      /\ \A q \in Prompts \ {p} : signal'[q] = signal[q]
  BY <1>1 DEF IInv, Types, TypeOK
<1>3. Types'
  <2>1. /\ at' \in [Callers -> {"new", "register", "write", "select", "interval", "wait", "done"}]
        /\ signal' \in [Prompts -> BOOLEAN]
    BY <1>1 DEF IInv, Types, TypeOK
  <2>2. TypeOK' BY <1>1, <2>1 DEF IInv, Types, TypeOK
  <2>3. QED BY <1>1, <2>2 DEF IInv, Types
<1>4. Hooked' BY <1>1, <1>2 DEF IInv, Hooked
<1>5. NoLostWakeup' BY <1>1, <1>2 DEF IInv, NoLostWakeup
<1>6. QED BY <1>1, <1>3, <1>4, <1>5, QuietKeeps DEF IInv

LEMMA IntervalCtxKeeps ==
  ASSUME IInv, NEW p \in Prompts, IntervalCtx(p)
  PROVE  IInv'
<1> USE DEF Callers
<1>1. /\ Return(p, "wait", "ctx")
      /\ UNCHANGED <<ctxDone, reply, items, signal, open, got, reader, readDone, closed,
                     closing, stdin, alive, wire, requests, answers, received, busy, rested, sent>>
  BY DEF IntervalCtx, queues, reading, shut, server
<1>2. Types'
  <2>1. TypeOK' BY <1>1, ReturnTypes DEF IInv, Types, TypeOK, Outcomes
  <2>2. QED BY <1>1, <2>1 DEF IInv, Types
<1>3. /\ Hooked' /\ listeners' \subseteq listeners
      /\ \A q \in Prompts \ {p} : outcome'[q] = outcome[q] /\ at'[q] = at[q]
      /\ outcome'[p] = "ctx" /\ at'[p] = "done"
  BY <1>1, ReturnHooked DEF IInv
<1>4. NoLostWakeup' BY <1>1, <1>3 DEF IInv, NoLostWakeup
<1>5. QED BY <1>1, <1>2, <1>3, <1>4, QuietKeeps DEF IInv

-----------------------------------------------------------------------------
\* readLoop.

\* The notice at the head of the wire is the next number.
LEMMA HeadIsNext ==
  ASSUME wire \in Seq(Lines), sent \in Nat, NEW l \in 0..sent, Numbered(l), wire # <<>>,
         wire' = Tail(wire), sent' = sent
  PROVE  /\ Message \in Lines
         /\ Message.kind = "response" => Numbered(l)'
         /\ Message.kind # "response" =>
              Message \in Notices /\ Message.n = l + 1 /\ l + 1 \in 0..sent /\ Numbered(l + 1)'
<1>1. /\ wire[1] = Message /\ 1 \in DOMAIN wire /\ Message \in Lines
      /\ DOMAIN wire' = 1..Len(wire) - 1 /\ DOMAIN wire = 1..Len(wire)
      /\ Len(wire) \in Nat \ {0}
      /\ \A i \in 1..Len(wire) - 1 : wire'[i] = wire[i + 1]
  BY DEF Message
<1>2. \A i \in DOMAIN wire : OnWire(i) => wire[i].n \in Int
  BY DEF Numbered
<1>3. CASE Message.kind = "response"
  <2>1. \A i \in DOMAIN wire : OnWire(i) => i - 1 \in DOMAIN wire' /\ wire'[i - 1] = wire[i]
    BY <1>1, <1>3 DEF OnWire
  <2>2. \A m \in l + 1..sent : \E i \in DOMAIN wire' : OnWire(i)' /\ wire'[i].n = m
    <3>1. TAKE m \in l + 1..sent
    <3>2. PICK i \in DOMAIN wire : OnWire(i) /\ wire[i].n = m BY DEF Numbered
    <3>3. OnWire(i - 1)' BY <3>2, <2>1 DEF OnWire
    <3>4. QED BY <3>2, <3>3, <2>1
  <2>3. \A i \in DOMAIN wire' : OnWire(i)' => OnWire(i + 1) /\ i + 1 \in DOMAIN wire /\ wire'[i] = wire[i + 1]
    BY <1>1 DEF OnWire
  <2>4. /\ \A i \in DOMAIN wire' : OnWire(i)' => wire'[i].n \in l + 1..sent
        /\ \A i, j \in DOMAIN wire' : OnWire(i)' /\ OnWire(j)' /\ i < j => wire'[i].n < wire'[j].n
    BY <2>3, <1>1 DEF Numbered
  <2>5. Numbered(l)' BY <2>2, <2>4 DEF Numbered
  <2>6. QED BY <1>1, <1>3, <2>5
<1>4. CASE Message.kind # "response"
  <2>1. OnWire(1) /\ Message \in Notices BY <1>1, <1>4 DEF OnWire, Lines, Responses
  <2>2. Message.n \in l + 1..sent BY <1>1, <2>1 DEF Numbered
  <2>3. \A i \in DOMAIN wire : OnWire(i) /\ i # 1 => Message.n < wire[i].n
    <3>1. TAKE i \in DOMAIN wire
    <3>2. HAVE OnWire(i) /\ i # 1
    <3>3. 1 < i BY <1>1, <3>2
    <3>4. wire[1].n < wire[i].n BY <1>1, <2>1, <3>2, <3>3 DEF Numbered
    <3>5. QED BY <1>1, <3>4
  <2>4. Message.n = l + 1
    <3>1. PICK i \in DOMAIN wire : OnWire(i) /\ wire[i].n = l + 1 BY <2>2 DEF Numbered
    <3>2. QED BY <1>1, <2>2, <2>3, <3>1
  <2>5. \A m \in l + 2..sent : \E i \in DOMAIN wire' : OnWire(i)' /\ wire'[i].n = m
    <3>1. TAKE m \in l + 2..sent
    <3>2. PICK i \in DOMAIN wire : OnWire(i) /\ wire[i].n = m BY DEF Numbered
    <3>3. i # 1 BY <1>1, <2>4, <3>2
    <3>4. i - 1 \in DOMAIN wire' /\ wire'[i - 1] = wire[i] BY <1>1, <3>3
    <3>5. OnWire(i - 1)' BY <3>2, <3>4 DEF OnWire
    <3>6. QED BY <3>2, <3>4, <3>5
  <2>6. \A i \in DOMAIN wire' : OnWire(i)' => OnWire(i + 1) /\ i + 1 \in DOMAIN wire /\ wire'[i] = wire[i + 1] /\ i + 1 # 1
    BY <1>1 DEF OnWire
  <2>7. \A i \in DOMAIN wire' : OnWire(i)' => wire'[i].n \in l + 2..sent
    <3>1. TAKE i \in DOMAIN wire'
    <3>2. HAVE OnWire(i)'
    <3>3. wire[i + 1].n \in l + 1..sent /\ l + 1 < wire[i + 1].n
      BY <2>3, <2>4, <2>6, <3>2 DEF Numbered
    <3>4. QED BY <2>6, <3>2, <3>3
  <2>8. \A i, j \in DOMAIN wire' : OnWire(i)' /\ OnWire(j)' /\ i < j => wire'[i].n < wire'[j].n
    <3>1. TAKE i, j \in DOMAIN wire'
    <3>2. HAVE OnWire(i)' /\ OnWire(j)' /\ i < j
    <3>3. i + 1 < j + 1 BY <1>1, <3>2
    <3>4. wire[i + 1].n < wire[j + 1].n BY <2>6, <3>2, <3>3 DEF Numbered
    <3>5. QED BY <2>6, <3>2, <3>4
  <2>9. l + 1 + 1 = l + 2 /\ l + 1 \in 0..sent BY <2>2, <2>4
  <2>10. Numbered(l + 1)' BY <2>5, <2>7, <2>8, <2>9 DEF Numbered
  <2>11. QED BY <1>1, <1>4, <2>1, <2>4, <2>9, <2>10
<1>5. QED BY <1>3, <1>4

LEMMA ReadLineKeeps ==
  ASSUME IInv, ReadLine
  PROVE  IInv'
<1> USE DEF Callers
<1>1. /\ reader.at = "read" /\ wire # <<>> /\ wire' = Tail(wire)
      /\ UNCHANGED <<at, outcome, ctxDone, pending, listeners, reply, items, signal, open,
                     got, readDone, closed, closing, stdin, alive, requests, answers,
                     received, busy, rested, sent>>
  BY DEF ReadLine, caller, table, queues, shut
<1>2. PICK l \in 0..sent :
        /\ Numbered(l)
        /\ Delivering => reader.msg.n = l
        /\ \A p \in listeners : Window(p, l)
  BY DEF IInv, InStep
<1>3. /\ Message \in Lines
      /\ Message.kind = "response" => Numbered(l)' /\ Message \in Responses
      /\ Message.kind # "response" =>
           Message \in Notices /\ Message.n = l + 1 /\ l + 1 \in 0..sent /\ Numbered(l + 1)'
  BY <1>1, <1>2, HeadIsNext DEF IInv, Types, Lines, Notices
<1>4. \/ reader' = Idle
      \/ /\ Message.kind = "response"
         /\ reader' = [at |-> "send", msg |-> Message, hooks |-> {}, to |-> None]
      \/ /\ Message.kind # "response"
         /\ reader' = [at |-> "push", msg |-> Message, hooks |-> listeners, to |-> None]
  BY DEF ReadLine, Idle
<1>5. \/ reader'.at = "read" /\ reader'.hooks = {}
      \/ /\ reader'.at = "send" /\ reader'.msg = Message /\ Message.kind = "response"
         /\ reader'.hooks = {}
      \/ /\ reader'.at = "push" /\ reader'.msg = Message /\ Message.kind # "response"
         /\ reader'.hooks = listeners
  BY <1>4 DEF Idle
<1>6. Types'
  <2>1. reader' \in Readers
    BY <1>3, <1>4 DEF Idle, Readers, IInv, Types, TypeOK
  <2>2. TypeOK' BY <1>1, <1>5 DEF IInv, Types, TypeOK
  <2>3. wire' \in Seq(Lines) BY <1>1 DEF IInv, Types
  <2>4. /\ reader'.at = "send" => reader'.msg \in Responses
        /\ reader'.at \in {"push", "signal"} => reader'.msg \in Notices
        /\ reader'.at # "signal"
    BY <1>3, <1>5
  <2>5. QED BY <1>1, <2>1, <2>2, <2>3, <2>4 DEF IInv, Types
<1>7. Hooked' BY <1>1, <1>5 DEF IInv, Hooked
<1>8. NoLostWakeup' BY <1>1 DEF IInv, NoLostWakeup
<1>9. Opens' /\ IntervalExact' BY <1>1 DEF IInv, Opens, IntervalExact
<1>10. InStep'
  <2>1. ~Delivering BY <1>1 DEF Delivering
  <2>2. CASE Message.kind = "response"
    <3>1. ~Delivering' BY <1>5, <2>2 DEF Delivering
    <3>2. \A p \in listeners' : Window(p, l)' BY <1>1, <1>2, <2>1, <3>1 DEF Window, Due
    <3>3. QED BY <1>1, <1>3, <2>2, <3>1, <3>2 DEF InStep
  <2>3. CASE Message.kind # "response"
    <3>1. Delivering' => reader'.msg.n = l + 1 /\ reader'.hooks = listeners
      BY <1>3, <1>5, <2>3 DEF Delivering
    <3>2. ~Delivering' => listeners = {}
      <4>1. ~Delivering' => reader'.at = "read" BY <1>5, <2>3 DEF Delivering
      <4>2. QED BY <4>1, <2>3 DEF ReadLine, Idle
    <3>3. \A p \in listeners' : Due(p, l + 1)' = Due(p, l)
      BY <1>1, <2>1, <3>1, <3>2 DEF Due
    <3>4. \A p \in listeners' : Window(p, l + 1)' BY <1>1, <1>2, <3>3 DEF Window
    <3>5. QED BY <1>1, <1>3, <2>3, <3>1, <3>4 DEF InStep
  <2>4. QED BY <2>2, <2>3
<1>11. QED BY <1>6, <1>7, <1>8, <1>9, <1>10 DEF IInv

\* Steps of the reader between two notices.
LEMMA Unread ==
  ASSUME IInv, UNCHANGED <<wire, sent, listeners, items, got, open, outcome>>,
         ~Delivering, ~Delivering'
  PROVE  Opens' /\ IntervalExact' /\ InStep'
<1>1. Opens' BY DEF IInv, Opens
<1>2. IntervalExact' BY DEF IInv, IntervalExact
<1>3. PICK l \in 0..sent : Numbered(l) /\ \A p \in listeners : Window(p, l)
  BY DEF IInv, InStep
<1>4. Numbered(l)' BY <1>3 DEF Numbered, OnWire
<1>5. \A p \in listeners' : Window(p, l)' BY <1>3 DEF Window, Due
<1>6. InStep' BY <1>4, <1>5 DEF InStep
<1>7. QED BY <1>1, <1>2, <1>6

LEMMA SendReplyKeeps ==
  ASSUME IInv, SendReply
  PROVE  IInv'
<1> USE DEF Callers
<1>1. /\ reader.at = "send" /\ reader' = Idle
      /\ reply' = [reply EXCEPT ![reader.msg.of] = reader.msg.body]
      /\ UNCHANGED <<at, outcome, ctxDone, pending, listeners, items, signal, open, got,
                     readDone, closed, closing, stdin, alive, wire, requests, answers,
                     received, busy, rested, sent>>
  BY DEF SendReply, Send, caller, table, queues, shut, server
<1>2. reader' \in Readers /\ reader'.at = "read" /\ reader'.hooks = {}
  BY <1>1 DEF Idle, Readers
<1>3. Types'
  <2>1. reader.msg.of \in Callers /\ reader.msg.body \in {"ok", "error", "bad"}
    BY <1>1, JsonRpcConstants DEF IInv, Types, Responses
  <2>2. reply' \in [Callers -> {"empty", "ok", "error", "bad"}]
    BY <1>1, <2>1 DEF IInv, Types, TypeOK
  <2>3. TypeOK' BY <1>1, <1>2, <2>2 DEF IInv, Types, TypeOK
  <2>4. QED BY <1>1, <1>2, <2>3 DEF IInv, Types
<1>4. Hooked' BY <1>1, <1>2 DEF IInv, Hooked
<1>5. NoLostWakeup' BY <1>1 DEF IInv, NoLostWakeup
<1>6. QED BY <1>1, <1>2, <1>3, <1>4, <1>5, Unread DEF IInv, Delivering

LEMMA ReadEndsKeeps ==
  ASSUME IInv, ReadEnds
  PROVE  IInv'
<1> USE DEF Callers
<1>1. /\ reader.at = "read" /\ readDone' = TRUE
      /\ reader' = [at |-> "ended", msg |-> None, hooks |-> {}, to |-> None]
      /\ UNCHANGED <<at, outcome, ctxDone, pending, listeners, reply, items, signal, open,
                     got, closed, closing, stdin, alive, wire, requests, answers,
                     received, busy, rested, sent>>
  BY DEF ReadEnds, Idle, caller, table, queues, shut, server
<1>2. reader' \in Readers /\ reader'.at = "ended" /\ reader'.hooks = {}
  BY <1>1 DEF Readers
<1>3. Types'
  <2>1. TypeOK' BY <1>1, <1>2 DEF IInv, Types, TypeOK
  <2>2. QED BY <1>1, <1>2, <2>1 DEF IInv, Types
<1>4. Hooked' BY <1>1, <1>2 DEF IInv, Hooked
<1>5. NoLostWakeup' BY <1>1 DEF IInv, NoLostWakeup
<1>6. QED BY <1>1, <1>2, <1>3, <1>4, <1>5, Unread DEF IInv, Delivering

LEMMA PushKeeps ==
  ASSUME IInv, NEW p \in Prompts, Push(p)
  PROVE  IInv'
<1> USE DEF Callers
<1> DEFINE n == reader.msg
<1>1. /\ reader.at = "push" /\ p \in reader.hooks
      /\ items' = [items EXCEPT ![p] = Append(items[p], n)]
      /\ reader' = [reader EXCEPT !.at = "signal", !.hooks = reader.hooks \ {p}, !.to = p]
      /\ UNCHANGED <<at, outcome, ctxDone, pending, listeners, reply, signal, open, got,
                     readDone, closed, closing, stdin, alive, wire, requests, answers,
                     received, busy, rested, sent>>
  BY DEF Push, Enqueue, caller, table, shut, server
<1>2. /\ reader' \in Readers /\ reader'.at = "signal" /\ reader'.to = p
      /\ reader'.hooks = reader.hooks \ {p} /\ reader'.msg = n /\ n \in Notices
  BY <1>1 DEF IInv, Types, Readers
<1>3. /\ items[p] \in Seq(Notices) /\ items'[p] = Append(items[p], n)
      /\ items' \in [Prompts -> Seq(Notices)]
      /\ \A q \in Prompts \ {p} : items'[q] = items[q]
  BY <1>1, <1>2 DEF IInv, Types
<1>4. Types'
  <2>1. TypeOK' BY <1>1, <1>2 DEF IInv, Types, TypeOK
  <2>2. QED BY <1>1, <1>2, <1>3, <2>1 DEF IInv, Types
<1>5. Hooked' BY <1>1, <1>2, <1>3 DEF IInv, Hooked
<1>6. NoLostWakeup' BY <1>1, <1>2, <1>3 DEF IInv, NoLostWakeup
<1>7. Opens' /\ IntervalExact' BY <1>1 DEF IInv, Opens, IntervalExact
<1>8. InStep'
  <2>1. PICK l \in 0..sent :
          /\ Numbered(l)
          /\ Delivering => reader.msg.n = l
          /\ \A q \in listeners : Window(q, l)
    BY DEF IInv, InStep
  <2>2. Delivering /\ Delivering' /\ n.n = l /\ l \in Int BY <1>1, <1>2, <2>1 DEF Delivering
  <2>3. Numbered(l)' BY <1>1, <2>1 DEF Numbered, OnWire
  <2>4. \A q \in listeners : Window(q, l)'
    <3>1. TAKE q \in listeners
    <3>2. Window(q, l) /\ q \in Prompts BY <2>1 DEF IInv, Types, TypeOK
    <3>3. CASE q # p
      <4>1. Due(q, l)' = Due(q, l) /\ items'[q] = items[q]
        BY <1>2, <1>3, <2>2, <3>2, <3>3 DEF Due
      <4>2. QED BY <1>1, <3>2, <4>1 DEF Window
    <3>4. CASE q = p
      <4>1. Due(p, l) = l - 1 /\ Due(p, l)' = l BY <1>1, <1>2, <2>2 DEF Due
      <4>2. /\ Len(items'[p]) = Len(items[p]) + 1 /\ Len(items[p]) \in Nat
            /\ DOMAIN items'[p] = 1..Len(items[p]) + 1 /\ DOMAIN items[p] = 1..Len(items[p])
            /\ \A i \in 1..Len(items[p]) : items'[p][i] = items[p][i]
            /\ items'[p][Len(items[p]) + 1] = n
        BY <1>3
      <4>3. \A i \in DOMAIN items'[p] : items'[p][i].n = l - Len(items'[p]) + i
        <5>1. TAKE i \in DOMAIN items'[p]
        <5>2. CASE i = Len(items[p]) + 1 BY <2>2, <4>2, <5>2
        <5>3. CASE i \in DOMAIN items[p]
          <6>1. items[p][i].n = Due(p, l) - Len(items[p]) + i
            BY <3>2, <3>4, <5>3 DEF Window
          <6>2. items'[p][i].n = l - 1 - Len(items[p]) + i BY <4>1, <4>2, <5>3, <6>1
          <6>3. \A k \in Nat : i \in Int => l - 1 - k + i = l - (k + 1) + i BY <2>2
          <6>4. i \in Int BY <4>2, <5>3
          <6>5. QED BY <4>2, <6>2, <6>3, <6>4
        <5>4. QED BY <4>2, <5>2, <5>3
      <4>4. p \in open' => got'[p][Len(got'[p])].n = l - Len(items'[p])
        BY <1>1, <2>2, <3>2, <3>4, <4>1, <4>2 DEF Window
      <4>5. QED BY <3>4, <4>1, <4>3, <4>4 DEF Window
    <3>5. QED BY <3>3, <3>4
  <2>5. QED BY <1>1, <1>2, <2>2, <2>3, <2>4 DEF InStep
<1>9. QED BY <1>4, <1>5, <1>6, <1>7, <1>8 DEF IInv

LEMMA SignalKeeps ==
  ASSUME IInv, Signal
  PROVE  IInv'
<1> USE DEF Callers
<1>1. /\ reader.at = "signal" /\ signal' = [signal EXCEPT ![reader.to] = TRUE]
      /\ \/ /\ reader.hooks = {}
            /\ reader' = [at |-> "read", msg |-> None, hooks |-> {}, to |-> None]
         \/ reader.hooks # {} /\ reader' = [reader EXCEPT !.at = "push"]
      /\ UNCHANGED <<at, outcome, ctxDone, pending, listeners, reply, items, open, got,
                     readDone, closed, closing, stdin, alive, wire, requests, answers,
                     received, busy, rested, sent>>
  BY DEF Signal, Signalled, Idle, caller, table, shut, server
<1>2. /\ reader' \in Readers /\ reader.to \in Prompts
      /\ reader'.hooks = reader.hooks
      /\ reader'.at \in {"read", "push"}
      /\ reader'.at = "read" => reader.hooks = {}
      /\ reader'.at = "push" => reader'.msg = reader.msg /\ reader.msg \in Notices
  <2>1. reader \in Readers /\ reader.msg \in Notices /\ reader.to \in Prompts
    BY <1>1 DEF IInv, Types
  <2>2. CASE reader' = [at |-> "read", msg |-> None, hooks |-> {}, to |-> None]
    BY <1>1, <2>1, <2>2 DEF Readers
  <2>3. CASE reader' = [reader EXCEPT !.at = "push"]
    BY <1>1, <2>1, <2>3 DEF Readers
  <2>4. QED BY <1>1, <2>2, <2>3
<1>3. /\ signal' \in [Prompts -> BOOLEAN]
      /\ \A p \in Prompts : signal'[p] = (signal[p] \/ p = reader.to)
  BY <1>1, <1>2 DEF IInv, Types, TypeOK
<1>4. Types'
  <2>1. TypeOK' BY <1>1, <1>2, <1>3 DEF IInv, Types, TypeOK
  <2>2. QED BY <1>1, <1>2, <2>1 DEF IInv, Types
<1>5. Hooked' BY <1>1, <1>2 DEF IInv, Hooked
<1>6. NoLostWakeup' BY <1>1, <1>2, <1>3 DEF IInv, NoLostWakeup
<1>7. Opens' /\ IntervalExact' BY <1>1 DEF IInv, Opens, IntervalExact
<1>8. InStep'
  <2>1. PICK l \in 0..sent :
          /\ Numbered(l)
          /\ Delivering => reader.msg.n = l
          /\ \A q \in listeners : Window(q, l)
    BY DEF IInv, InStep
  <2>2. Numbered(l)' BY <1>1, <2>1 DEF Numbered, OnWire
  <2>3. Delivering' => reader'.msg.n = l BY <1>1, <1>2, <2>1 DEF Delivering
  <2>4. \A q \in listeners : Due(q, l)' = Due(q, l) BY <1>1, <1>2 DEF Due, Delivering
  <2>5. \A q \in listeners' : Window(q, l)' BY <1>1, <2>1, <2>4 DEF Window
  <2>6. QED BY <1>1, <2>2, <2>3, <2>5 DEF InStep
<1>9. QED BY <1>4, <1>5, <1>6, <1>7, <1>8 DEF IInv

-----------------------------------------------------------------------------
\* A prompt takes the first item of its queue.

LEMMA TakeKeeps ==
  ASSUME IInv, NEW p \in Prompts, NEW from \in {"interval", "wait"}, Take(p, from),
         UNCHANGED <<ctxDone, reply, signal, reading, shut, server>>
  PROVE  IInv'
<1> USE DEF Callers
<1> DEFINE n == Head(items[p])
           k == Len(items[p])
           g == Len(got[p])
           Skips == p \notin open /\ ~IsReceipt(n, p)
<1>1. /\ at[p] = from /\ items[p] # <<>>
      /\ items' = [items EXCEPT ![p] = Tail(items[p])]
      /\ UNCHANGED <<ctxDone, reply, signal, reader, readDone, closed, closing, stdin, alive,
                     wire, requests, answers, received, busy, rested, sent>>
  BY DEF Take, Goto, Return, reading, shut, server
<1>2. \/ /\ at' = [at EXCEPT ![p] = "interval"]
         /\ UNCHANGED <<outcome, pending, listeners>>
      \/ /\ at' = [at EXCEPT ![p] = "done"] /\ outcome' = [outcome EXCEPT ![p] = "ok"]
         /\ pending' = pending \ {p} /\ listeners' = listeners \ {p}
         /\ IsIdle(n, p) /\ ~Skips
  BY DEF Take, Goto, Return, table
<1>3. \/ Skips /\ UNCHANGED <<open, got>>
      \/ /\ ~Skips /\ open' = open \cup {p} /\ got' = [got EXCEPT ![p] = Append(got[p], n)]
         /\ p \in listeners' => ~IsIdle(n, p)
  BY DEF Take, Goto, Return, table
<1>4. /\ items[p] \in Seq(Notices) /\ n \in Notices /\ n = items[p][1]
      /\ items' \in [Prompts -> Seq(Notices)]
      /\ items'[p] = Tail(items[p]) /\ \A q \in Prompts \ {p} : items'[q] = items[q]
  <2>1. items \in [Prompts -> Seq(Notices)] /\ items[p] \in Seq(Notices)
    BY DEF IInv, Types
  <2>2. n \in Notices /\ n = items[p][1] /\ Tail(items[p]) \in Seq(Notices)
    BY <1>1, <2>1
  <2>3. QED BY <1>1, <2>1, <2>2
<1>5. /\ k \in Nat \ {0} /\ DOMAIN items[p] = 1..k
      /\ Len(items'[p]) = k - 1 /\ DOMAIN items'[p] = 1..k - 1
      /\ \A i \in 1..k - 1 : items'[p][i] = items[p][i + 1]
  BY <1>1, <1>4
<1>6. /\ got[p] \in Seq(Notices) /\ g \in Nat /\ DOMAIN got[p] = 1..g
      /\ got' \in [Prompts -> Seq(Notices)] /\ open' \subseteq Prompts
      /\ \A q \in Prompts \ {p} : got'[q] = got[q] /\ (q \in open' <=> q \in open)
      /\ ~Skips => /\ p \in open' /\ got'[p] = Append(got[p], n)
                   /\ Len(got'[p]) = g + 1 /\ DOMAIN got'[p] = 1..g + 1
                   /\ got'[p][g + 1] = n /\ \A i \in 1..g : got'[p][i] = got[p][i]
      /\ Skips => p \notin open' /\ got'[p] = got[p] /\ got[p] = <<>>
  <2>1. got \in [Prompts -> Seq(Notices)] /\ open \subseteq Prompts
    BY DEF IInv, Types, TypeOK
  <2>2. got[p] \in Seq(Notices) /\ g \in Nat /\ DOMAIN got[p] = 1..g BY <2>1
  <2>3. CASE Skips
    BY <1>3, <2>1, <2>2, <2>3 DEF IInv, Opens
  <2>4. CASE ~Skips
    <3>1. open' = open \cup {p} /\ got' = [got EXCEPT ![p] = Append(got[p], n)]
      BY <1>3, <2>4
    <3>2. Append(got[p], n) \in Seq(Notices) BY <1>4, <2>2
    <3>3. got'[p] = Append(got[p], n) BY <3>1, <2>1
    <3>4. Len(got'[p]) = g + 1 /\ DOMAIN got'[p] = 1..g + 1 /\ got'[p][g + 1] = n
          /\ \A i \in 1..g : got'[p][i] = got[p][i]
      BY <3>3, <2>2, <1>4
    <3>5. QED BY <2>1, <2>2, <2>4, <3>1, <3>2, <3>3, <3>4
  <2>5. QED BY <2>3, <2>4
<1>7. /\ \A q \in Callers \ {p} : at'[q] = at[q] /\ outcome'[q] = outcome[q]
      /\ \A q \in Prompts \ {p} : q \in listeners' <=> q \in listeners
      /\ \/ at'[p] = "interval" /\ outcome'[p] = outcome[p] /\ listeners' = listeners
         \/ at'[p] = "done" /\ outcome'[p] = "ok" /\ p \notin listeners' /\ IsIdle(n, p) /\ ~Skips
  BY <1>2 DEF IInv, Types, TypeOK
<1>8. p \in listeners /\ outcome[p] = "none" BY <1>1 DEF IInv, Hooked
<1>9. Types'
  <2>1. /\ at' \in [Callers -> {"new", "register", "write", "select", "interval", "wait", "done"}]
        /\ outcome' \in [Callers -> Outcomes]
        /\ pending' \subseteq Callers /\ listeners' \subseteq Prompts
    BY ZenonT(60), <1>2 DEF IInv, Types, TypeOK, Outcomes
  <2>2. TypeOK' BY <1>1, <1>6, <2>1 DEF IInv, Types, TypeOK
  <2>3. QED BY <1>1, <1>4, <1>6, <2>2 DEF IInv, Types
<1>10. Hooked'
  <2>1. \A q \in Prompts : at'[q] = "new" => q # p /\ at[q] = "new" BY <1>7
  <2>2. \A q \in Prompts : at'[q] \notin {"new", "done"} <=> q \in listeners'
    BY <1>7, <1>8 DEF IInv, Hooked
  <2>3. \A q \in Prompts : outcome'[q] # "none" => at'[q] = "done"
    BY <1>7, <1>8 DEF IInv, Hooked
  <2>4. QED BY <1>1, <1>4, <1>6, <2>1, <2>2, <2>3 DEF IInv, Hooked
<1>11. NoLostWakeup' BY <1>1, <1>4, <1>7 DEF IInv, NoLostWakeup
<1>12. Opens'
  <2>1. \A q \in Prompts \ {p} : /\ q \in open' <=> got'[q] # <<>>
                                 /\ q \in listeners' => \A i \in DOMAIN got'[q] : ~IsIdle(got'[q][i], q)
    BY <1>6, <1>7 DEF IInv, Opens
  <2>2. p \in open' <=> got'[p] # <<>> BY <1>6
  <2>3. p \in listeners' => \A i \in DOMAIN got'[p] : ~IsIdle(got'[p][i], p)
    <3>1. \A i \in 1..g : ~IsIdle(got[p][i], p) BY <1>6, <1>8 DEF IInv, Opens
    <3>2. QED BY <1>3, <1>6, <3>1
  <2>4. \A q \in Prompts : /\ q \in open' <=> got'[q] # <<>>
                           /\ q \in listeners' => \A i \in DOMAIN got'[q] : ~IsIdle(got'[q][i], q)
    <3>1. TAKE q \in Prompts
    <3>2. CASE q = p BY <3>2, <2>2, <2>3
    <3>3. CASE q # p BY <3>3, <2>1
    <3>4. QED BY <3>2, <3>3
  <2>5. QED BY <2>4 DEF Opens, IsIdle
<1>13. PICK l \in 0..sent :
        /\ Numbered(l)
        /\ Delivering => reader.msg.n = l
        /\ \A q \in listeners : Window(q, l)
  BY DEF IInv, InStep
<1>14. /\ \A q \in Prompts : Due(q, l)' = Due(q, l)
       /\ Due(p, l) \in Int
  BY <1>1, <1>13 DEF Due, Delivering
<1>15. n.n = Due(p, l) - k + 1 /\ (p \in open => got[p][g].n = Due(p, l) - k)
  BY <1>4, <1>5, <1>8, <1>13 DEF Window
<1>16. IntervalExact'
  <2>1. \A q \in Prompts \ {p} : got'[q] = got[q] /\ outcome'[q] = outcome[q] BY <1>6, <1>7
  <2>2. CASE Skips
    <3>1. got'[p] = <<>> BY <1>6, <2>2
    <3>2. QED BY <2>1, <3>1 DEF IInv, IntervalExact
  <2>3. CASE ~Skips
    <3>1. IsReceipt(got'[p][1], p)
      <4>1. CASE p \in open
        <5>1. got[p] # <<>> BY <4>1 DEF IInv, Opens
        <5>2. IsReceipt(got[p][1], p) BY <5>1 DEF IInv, IntervalExact
        <5>3. 1 \in 1..g BY <1>6, <5>1
        <5>4. QED BY <1>6, <2>3, <5>2, <5>3
      <4>2. CASE p \notin open
        <5>1. got[p] = <<>> BY <4>2 DEF IInv, Opens
        <5>2. g = 0 BY <5>1
        <5>3. QED BY <1>6, <2>3, <4>2, <5>2
      <4>3. QED BY <4>1, <4>2
    <3>2. \A i \in 1..g : got'[p][i + 1].n = got'[p][i].n + 1 /\ ~IsIdle(got'[p][i], p)
      <4>1. TAKE i \in 1..g
      <4>2. ~IsIdle(got[p][i], p) BY <1>6, <1>8 DEF IInv, Opens
      <4>3. got[p] # <<>> /\ p \in open BY <1>6 DEF IInv, Opens
      <4>4. CASE i = g
        <5>1. got'[p][i] = got[p][g] /\ got'[p][i + 1] = n BY <1>6, <2>3, <4>4
        <5>2. got[p][g].n = Due(p, l) - k /\ n.n = Due(p, l) - k + 1 BY <1>15, <4>3
        <5>3. Due(p, l) - k + 1 = got[p][g].n + 1 BY <1>5, <1>14, <5>2
        <5>4. QED BY <4>2, <4>4, <5>1, <5>2, <5>3
      <4>5. CASE i \in 1..g - 1
        <5>1. got[p][i + 1].n = got[p][i].n + 1 BY <4>3, <4>5, <1>6 DEF IInv, IntervalExact
        <5>2. i + 1 \in 1..g BY <4>5, <1>6
        <5>3. got'[p][i + 1] = got[p][i + 1] /\ got'[p][i] = got[p][i] BY <1>6, <2>3, <5>2
        <5>4. QED BY <4>2, <5>1, <5>3
      <4>6. QED BY <1>6, <4>4, <4>5
    <3>3. outcome'[p] = "ok" => IsIdle(got'[p][g + 1], p)
      BY <1>6, <1>7, <1>8, <2>3
    <3>4. \A q \in Prompts \ {p} : got'[q] # <<>> =>
            /\ IsReceipt(got'[q][1], q)
            /\ \A i \in 1..Len(got'[q]) - 1 : /\ got'[q][i + 1].n = got'[q][i].n + 1
                                              /\ ~IsIdle(got'[q][i], q)
            /\ outcome'[q] = "ok" => IsIdle(got'[q][Len(got'[q])], q)
      BY <2>1 DEF IInv, IntervalExact
    <3>5. Len(got'[p]) = g + 1 /\ g + 1 - 1 = g BY <1>6, <2>3
    <3>6. /\ IsReceipt(got'[p][1], p)
          /\ \A i \in 1..Len(got'[p]) - 1 : /\ got'[p][i + 1].n = got'[p][i].n + 1
                                            /\ ~IsIdle(got'[p][i], p)
          /\ outcome'[p] = "ok" => IsIdle(got'[p][Len(got'[p])], p)
      BY <3>1, <3>2, <3>3, <3>5
    <3>7. \A q \in Prompts : got'[q] # <<>> =>
            /\ IsReceipt(got'[q][1], q)
            /\ \A i \in 1..Len(got'[q]) - 1 : /\ got'[q][i + 1].n = got'[q][i].n + 1
                                              /\ ~IsIdle(got'[q][i], q)
            /\ outcome'[q] = "ok" => IsIdle(got'[q][Len(got'[q])], q)
      <4>1. TAKE q \in Prompts
      <4>2. CASE q = p BY <3>6, <4>2
      <4>3. CASE q # p BY <3>4, <4>3
      <4>4. QED BY <4>2, <4>3
    <3>8. QED BY <3>7 DEF IntervalExact, IsReceipt, IsIdle
  <2>4. QED BY <2>2, <2>3
<1>17. InStep'
  <2>1. Numbered(l)' BY <1>1, <1>13 DEF Numbered, OnWire
  <2>2. Delivering' => reader'.msg.n = l BY <1>1, <1>13 DEF Delivering
  <2>3. \A q \in listeners' \ {p} : Window(q, l)'
    <3>1. TAKE q \in listeners' \ {p}
    <3>2. q \in listeners /\ q \in Prompts \ {p} BY <1>7, <1>9 DEF Types, TypeOK
    <3>3. items'[q] = items[q] /\ got'[q] = got[q] /\ (q \in open' <=> q \in open)
          /\ Due(q, l)' = Due(q, l)
      BY <1>4, <1>6, <1>14, <3>2
    <3>4. Window(q, l) BY <1>13, <3>2
    <3>5. QED BY <3>3, <3>4 DEF Window
  <2>4. \A i \in DOMAIN items'[p] : items'[p][i].n = Due(p, l) - Len(items'[p]) + i
    <3>1. TAKE i \in DOMAIN items'[p]
    <3>2. i \in 1..k - 1 /\ i + 1 \in 1..k /\ items'[p][i] = items[p][i + 1] BY <1>5
    <3>3. items[p][i + 1].n = Due(p, l) - k + (i + 1) BY <1>5, <1>8, <1>13, <3>2 DEF Window
    <3>4. Due(p, l) - k + (i + 1) = Due(p, l) - (k - 1) + i BY SMTT(30), <1>5, <1>14, <3>2
    <3>5. QED BY <1>5, <3>2, <3>3, <3>4
  <2>5. p \in open' => got'[p][Len(got'[p])].n = Due(p, l) - Len(items'[p])
    <3>1. CASE Skips BY <1>6, <3>1
    <3>2. CASE ~Skips
      <4>1. got'[p][Len(got'[p])] = n BY <1>6, <3>2
      <4>2. Due(p, l) - k + 1 = Due(p, l) - (k - 1) BY <1>5, <1>14
      <4>3. QED BY <1>5, <1>15, <4>1, <4>2
    <3>3. QED BY <3>1, <3>2
  <2>6. Window(p, l)' BY <1>14, <2>4, <2>5 DEF Window
  <2>7. QED BY <1>1, <2>1, <2>2, <2>3, <2>6 DEF InStep
<1>18. QED BY <1>9, <1>10, <1>11, <1>12, <1>16, <1>17 DEF IInv

LEMMA DrainKeeps ==
  ASSUME IInv, NEW p \in Prompts, Drain(p)
  PROVE  IInv'
<1> USE DEF Callers
<1>1. UNCHANGED <<ctxDone, reply, signal, reading, shut, server>> BY DEF Drain
<1>2. CASE Take(p, "wait") BY <1>1, <1>2, TakeKeeps
<1>3. CASE Return(p, "wait", "ErrTransport") /\ UNCHANGED <<items, open, got>>
  <2>1. UNCHANGED <<ctxDone, reply, items, signal, open, got, reader, readDone, closed,
                    closing, stdin, alive, wire, requests, answers, received, busy, rested, sent>>
    BY <1>1, <1>3 DEF reading, shut, server
  <2>2. Types'
    <3>1. TypeOK' BY <1>3, <2>1, ReturnTypes DEF IInv, Types, TypeOK, Outcomes
    <3>2. QED BY <2>1, <3>1 DEF IInv, Types
  <2>3. /\ Hooked' /\ listeners' \subseteq listeners
        /\ \A q \in Prompts \ {p} : outcome'[q] = outcome[q] /\ at'[q] = at[q]
        /\ outcome'[p] = "ErrTransport" /\ at'[p] = "done"
    BY <1>3, <2>1, ReturnHooked DEF IInv
  <2>4. NoLostWakeup' BY <2>1, <2>3 DEF IInv, NoLostWakeup
  <2>5. QED BY <2>1, <2>2, <2>3, <2>4, QuietKeeps DEF IInv
<1>4. QED BY <1>2, <1>3 DEF Drain

-----------------------------------------------------------------------------
\* The executable writes a line.

LEMMA Written ==
  ASSUME wire \in Seq(Lines), sent \in Nat, NEW l \in 0..sent, Numbered(l),
         NEW m \in Lines, wire' = Append(wire, m),
         \/ m.kind = "response" /\ sent' = sent
         \/ m.kind # "response" /\ m.n = sent + 1 /\ sent' = sent + 1
  PROVE  l \in 0..sent' /\ Numbered(l)'
<1> PICK k \in Nat : k = Len(wire) OBVIOUS
<1>1. /\ k \in Nat /\ DOMAIN wire = 1..k /\ DOMAIN wire' = 1..k + 1
      /\ wire'[k + 1] = m /\ \A i \in 1..k : wire'[i] = wire[i]
  OBVIOUS
<1>2. \A i \in 1..k : OnWire(i)' <=> OnWire(i) BY <1>1 DEF OnWire
<1>3. OnWire(k + 1)' <=> m.kind # "response" BY <1>1 DEF OnWire
<1>4. l \in 0..sent' OBVIOUS
<1>5. \A j \in l + 1..sent' : \E i \in DOMAIN wire' : OnWire(i)' /\ wire'[i].n = j
  <2>1. TAKE j \in l + 1..sent'
  <2>2. CASE j \in l + 1..sent
    <3>1. PICK i \in DOMAIN wire : OnWire(i) /\ wire[i].n = j BY <2>2 DEF Numbered
    <3>2. QED BY <1>1, <1>2, <3>1
  <2>3. CASE j \notin l + 1..sent
    <3>1. m.kind # "response" /\ j = m.n BY <2>3
    <3>2. QED BY <1>1, <1>3, <3>1
  <2>4. QED BY <2>2, <2>3
<1>6. \A i \in DOMAIN wire' : OnWire(i)' => wire'[i].n \in l + 1..sent'
  <2>1. TAKE i \in DOMAIN wire'
  <2>2. HAVE OnWire(i)'
  <2>3. CASE i \in 1..k
    <3>1. wire[i].n \in l + 1..sent BY <1>1, <1>2, <2>2, <2>3 DEF Numbered
    <3>2. QED BY <1>1, <2>3, <3>1
  <2>4. CASE i = k + 1 BY <1>1, <1>3, <2>2, <2>4
  <2>5. QED BY <1>1, <2>3, <2>4
<1>7. \A i, j \in DOMAIN wire' : OnWire(i)' /\ OnWire(j)' /\ i < j => wire'[i].n < wire'[j].n
  <2>1. TAKE i, j \in DOMAIN wire'
  <2>2. HAVE OnWire(i)' /\ OnWire(j)' /\ i < j
  <2>3. i \in 1..k BY <1>1, <2>2
  <2>4. CASE j \in 1..k
    <3>1. wire[i].n < wire[j].n BY <1>1, <1>2, <2>2, <2>3, <2>4 DEF Numbered
    <3>2. QED BY <1>1, <2>3, <2>4, <3>1
  <2>5. CASE j = k + 1
    <3>1. wire[i].n \in l + 1..sent BY <1>1, <1>2, <2>2, <2>3 DEF Numbered
    <3>2. wire'[j].n = sent + 1 BY <1>1, <1>3, <2>2, <2>5
    <3>3. wire'[i].n = wire[i].n BY <1>1, <2>3
    <3>4. QED BY <3>1, <3>2, <3>3
  <2>6. QED BY <1>1, <2>4, <2>5
<1>8. QED BY <1>4, <1>5, <1>6, <1>7 DEF Numbered

ServerStep ==
  \/ \E c \in Callers, body \in Bodies : Answer(c, body)
  \/ \E p \in Prompts : Receipt(p)
  \/ \E s \in Sessions : Rest(s) \/ Chatter(s)

LEMMA ServerKeeps ==
  ASSUME IInv, ServerStep
  PROVE  IInv'
<1> USE DEF Callers
<1> DEFINE Frame ==
             UNCHANGED <<at, outcome, ctxDone, pending, listeners, reply, items, signal, open,
                         got, reader, readDone, closed, closing, stdin, alive, requests>>
           Kept == /\ Frame /\ received' \subseteq Prompts /\ busy' \subseteq Sessions
                    /\ rested' \subseteq Prompts
                    /\ answers' \in [Callers -> Nat]
<1>1. Kept
  <2>1. /\ received \subseteq Prompts /\ busy \subseteq Sessions /\ rested \subseteq Prompts
        /\ answers \in [Callers -> Nat] /\ \A p \in Prompts : SessionOf[p] \in Sessions
    BY JsonRpcConstants DEF IInv, Types, TypeOK
  <2>2. ASSUME NEW c \in Callers, NEW body \in Bodies, Answer(c, body)
        PROVE  Kept
    BY <2>1, <2>2 DEF Answer, client, caller, table, queues, reading, shut
  <2>3. ASSUME NEW kind, NEW of, Notify(kind, of)
        PROVE  Frame /\ answers' = answers
    BY <2>3 DEF Notify, client, caller, table, queues, reading, shut
  <2>4. ASSUME NEW p \in Prompts, Receipt(p) PROVE Kept
    <3>1. Frame /\ answers' = answers BY <2>3, <2>4 DEF Receipt
    <3>2. QED BY <2>1, <2>4, <3>1 DEF Receipt
  <2>5. ASSUME NEW s \in Sessions, Rest(s) \/ Chatter(s) PROVE Kept
    <3>1. Frame /\ answers' = answers BY <2>3, <2>5 DEF Rest, Chatter
    <3>2. QED BY <2>1, <2>5, <3>1 DEF Rest, Chatter
  <2>6. QED BY <2>2, <2>4, <2>5 DEF ServerStep
<1>3. PICK m \in Lines :
        /\ wire' = Append(wire, m)
        /\ \/ m.kind = "response" /\ sent' = sent
           \/ m.kind # "response" /\ m.n = sent + 1 /\ sent' = sent + 1
  <2> sent \in Nat BY DEF IInv, Types
  <2>1. CASE \E c \in Callers, body \in Bodies : Answer(c, body)
    <3>1. PICK c \in Callers, body \in Bodies : Answer(c, body) BY <2>1
    <3>2. [kind |-> "response", of |-> c, body |-> body] \in Lines
      BY DEF Lines, Responses
    <3>3. QED BY <3>1, <3>2 DEF Answer
  <2>2. CASE \E kind \in {"receipt", "idle", "event"}, of \in Prompts \cup Sessions :
               Notify(kind, of)
    <3>1. PICK kind \in {"receipt", "idle", "event"}, of \in Prompts \cup Sessions :
            Notify(kind, of)
      BY <2>2
    <3>2. [kind |-> kind, of |-> of, n |-> sent + 1] \in Lines
      BY DEF Lines, Notices
    <3>3. QED BY <3>1, <3>2 DEF Notify
  <2>3. QED BY <2>1, <2>2 DEF ServerStep, Receipt, Rest, Chatter
<1>4. wire' \in Seq(Lines) /\ sent' \in Nat BY <1>3 DEF IInv, Types
<1>5. Types'
  <2>1. TypeOK' BY <1>1 DEF IInv, Types, TypeOK
  <2>2. QED BY <1>1, <1>4, <2>1 DEF IInv, Types
<1>6. Hooked' BY <1>1 DEF IInv, Hooked
<1>7. NoLostWakeup' BY <1>1 DEF IInv, NoLostWakeup
<1>8. Opens' /\ IntervalExact' BY <1>1 DEF IInv, Opens, IntervalExact
<1>9. InStep'
  <2>1. PICK l \in 0..sent :
          /\ Numbered(l)
          /\ Delivering => reader.msg.n = l
          /\ \A q \in listeners : Window(q, l)
    BY DEF IInv, InStep
  <2>2. l \in 0..sent' /\ Numbered(l)' BY <1>3, <2>1, Written DEF IInv, Types
  <2>3. Delivering' => reader'.msg.n = l BY <1>1, <2>1 DEF Delivering
  <2>4. \A q \in listeners' : Window(q, l)' BY <1>1, <2>1 DEF Window, Due, Delivering
  <2>5. QED BY <2>2, <2>3, <2>4 DEF InStep
<1>10. QED BY <1>5, <1>6, <1>7, <1>8, <1>9 DEF IInv

-----------------------------------------------------------------------------
LEMMA NextKeeps == IInv /\ [Next]_vars => IInv'
<1> SUFFICES ASSUME IInv, [Next]_vars PROVE IInv'
  OBVIOUS
<1>1. CASE UNCHANGED vars
  <2>1. UNCHANGED <<at, outcome, ctxDone, pending, listeners, reply, items, signal, open,
                    got, reader, readDone, closed, closing, stdin, alive, wire, requests,
                    answers, received, busy, rested, sent>>
    BY <1>1 DEF vars, caller, table, queues, reading, shut, server
  <2>2. Types' BY <2>1 DEF IInv, Types, TypeOK
  <2>3. Hooked' BY <2>1 DEF IInv, Hooked
  <2>4. NoLostWakeup' BY <2>1 DEF IInv, NoLostWakeup
  <2>5. QED BY <2>1, <2>2, <2>3, <2>4, QuietKeeps DEF IInv
<1>2. CASE \E c \in Callers : CallStep(c) BY <1>2, CallKeeps
<1>3. CASE \E p \in Prompts : Listen(p) BY <1>3, ListenKeeps
<1>4. CASE \E p \in Prompts : NextItem(p) BY <1>4, TakeKeeps DEF NextItem
<1>5. CASE \E p \in Prompts : NoItem(p) \/ Wake(p) BY <1>5, WaitKeeps
<1>6. CASE \E p \in Prompts : Drain(p) BY <1>6, DrainKeeps
<1>7. CASE \E p \in Prompts : IntervalCtx(p) BY <1>7, IntervalCtxKeeps
<1>8. CASE ReadLine \/ SendReply \/ Signal \/ ReadEnds
  BY <1>8, ReadLineKeeps, SendReplyKeeps, SignalKeeps, ReadEndsKeeps
<1>9. CASE \E p \in Prompts : Push(p) BY <1>9, PushKeeps
<1>10. CASE ShutStep BY <1>10, ShutKeeps
<1>11. CASE ServerStep BY <1>11, ServerKeeps
<1>12. QED
  BY <1>1, <1>2, <1>3, <1>4, <1>5, <1>6, <1>7, <1>8, <1>9, <1>10, <1>11
  DEF Next, CallStep, ShutStep, ServerStep

LEMMA Inductive == Spec => []IInv
BY InitIInv, NextKeeps, PTL DEF Spec

\* sdk/jsonrpc.go: every variable of the carrier keeps its type.
THEOREM TypeCorrect == Spec => []TypeOK
<1>1. IInv => TypeOK BY DEF IInv, Types
<1>2. QED BY <1>1, Inductive, PTL

\* The interval rule of Prompt: from its own receipt to the first idle of its
\* session, with nothing left out.
THEOREM Intervals == Spec => []IntervalExact
<1>1. IInv => IntervalExact BY DEF IInv
<1>2. QED BY <1>1, Inductive, PTL

\* notificationQueue: nobody sleeps on a queue with something in it.
THEOREM Wakeups == Spec => []NoLostWakeup
<1>1. IInv => NoLostWakeup BY DEF IInv
<1>2. QED BY <1>1, Inductive, PTL

-----------------------------------------------------------------------------
\* The answer to a request that was answered once is on the wire, in readLoop's
\* hands, in the channel or taken: it is in one place.
AnswerAt(i) == i \in DOMAIN wire /\ wire[i].kind = "response"
OneAnswer ==
  /\ \A c \in Callers : reply[c] # "empty" => answers[c] > 0
  /\ \A i \in DOMAIN wire : AnswerAt(i) =>
       /\ answers[wire[i].of] > 0
       /\ answers[wire[i].of] = 1 =>
            /\ reply[wire[i].of] = "empty"
            /\ reader.at = "send" => reader.msg.of # wire[i].of
            /\ \A j \in DOMAIN wire : AnswerAt(j) /\ wire[j].of = wire[i].of => j = i
  /\ reader.at = "send" =>
       answers[reader.msg.of] > 0 /\ (answers[reader.msg.of] = 1 => reply[reader.msg.of] = "empty")

LEMMA AnswerKeeps ==
  ASSUME Types, OneAnswer, NEW c \in Callers, NEW body \in Bodies, Answer(c, body)
  PROVE  OneAnswer'
<1> PICK k \in Nat : k = Len(wire) BY DEF Types
<1> DEFINE m == [kind |-> "response", of |-> c, body |-> body]
<1>1. /\ answers' = [answers EXCEPT ![c] = answers[c] + 1] /\ wire' = Append(wire, m)
      /\ UNCHANGED <<reply, reader>>
      /\ answers \in [Callers -> Nat] /\ wire \in Seq(Lines)
  BY DEF Answer, client, reading, Types
<1>2. /\ DOMAIN wire = 1..k /\ DOMAIN wire' = 1..k + 1
      /\ wire'[k + 1] = m /\ \A i \in 1..k : wire'[i] = wire[i]
  BY <1>1 DEF Lines, Responses
<1>3. /\ answers'[c] > 0
      /\ \A d \in Callers \ {c} : answers'[d] = answers[d]
      /\ answers'[c] = 1 => ~(answers[c] > 0)
  BY <1>1
<1>4. answers'[c] = 1 =>
        /\ reply[c] = "empty" /\ \A i \in 1..k : AnswerAt(i) => wire[i].of # c
        /\ reader.at = "send" => reader.msg.of # c
  BY <1>2, <1>3 DEF OneAnswer
<1>5. \A i \in 1..k : AnswerAt(i)' => AnswerAt(i) /\ wire[i].of \in Callers
  <2>1. \A i \in 1..k : wire[i] \in Lines BY <1>1, <1>2
  <2>2. QED BY <1>2, <2>1 DEF AnswerAt, Lines, Responses, Notices
<1>6. reader.at = "send" => reader.msg.of \in Callers BY DEF Types, Responses
<1>7. \A i \in 1..k : AnswerAt(i)' =>
        /\ answers'[wire'[i].of] > 0
        /\ answers'[wire'[i].of] = 1 =>
             /\ reply'[wire'[i].of] = "empty"
             /\ reader'.at = "send" => reader'.msg.of # wire'[i].of
             /\ wire'[i].of # c
             /\ \A j \in 1..k : AnswerAt(j)' /\ wire'[j].of = wire'[i].of => j = i
  <2>1. TAKE i \in 1..k
  <2>2. HAVE AnswerAt(i)'
  <2> DEFINE d == wire[i].of
  <2>3. AnswerAt(i) /\ wire'[i] = wire[i] /\ d \in Callers /\ i \in DOMAIN wire
    BY <1>2, <1>5, <2>2
  <2>4. answers'[d] > 0
    <3>1. answers[d] > 0 BY <2>3 DEF OneAnswer
    <3>2. QED BY <1>3, <2>3, <3>1
  <2>5. ASSUME answers'[d] = 1
        PROVE  /\ reply'[d] = "empty" /\ d # c
               /\ reader'.at = "send" => reader'.msg.of # d
               /\ \A j \in 1..k : AnswerAt(j)' /\ wire'[j].of = d => j = i
    <3>1. d # c BY <1>2, <1>4, <2>3, <2>5
    <3>2. answers[d] = 1 BY <1>3, <2>3, <2>5, <3>1
    <3>3. reply[d] = "empty" /\ (reader.at = "send" => reader.msg.of # d)
      BY <2>3, <3>2 DEF OneAnswer
    <3>4. \A j \in 1..k : AnswerAt(j)' /\ wire'[j].of = d => j = i
      <4>1. TAKE j \in 1..k
      <4>2. HAVE AnswerAt(j)' /\ wire'[j].of = d
      <4>3. AnswerAt(j) /\ wire[j].of = d /\ j \in DOMAIN wire
        BY <1>2, <1>5, <4>2
      <4>4. QED BY <2>3, <3>2, <4>3 DEF OneAnswer
    <3>5. QED BY <1>1, <3>1, <3>3, <3>4
  <2> HIDE DEF d
  <2>6. wire'[i].of = d BY <2>3 DEF d
  <2>7. QED BY <2>4, <2>5, <2>6
<1>8. \A i \in DOMAIN wire' : AnswerAt(i)' =>
        /\ answers'[wire'[i].of] > 0
        /\ answers'[wire'[i].of] = 1 =>
             /\ reply'[wire'[i].of] = "empty"
             /\ reader'.at = "send" => reader'.msg.of # wire'[i].of
             /\ \A j \in DOMAIN wire' : AnswerAt(j)' /\ wire'[j].of = wire'[i].of => j = i
  <2>1. wire'[k + 1].of = c BY <1>2
  <2>2. \A i \in 1..k + 1 : i \in 1..k \/ i = k + 1 OBVIOUS
  <2>3. answers'[c] = 1 => \A j \in 1..k : AnswerAt(j)' => wire'[j].of # c
    BY <1>2, <1>4, <1>5
  <2>4. TAKE i \in DOMAIN wire'
  <2>5. HAVE AnswerAt(i)'
  <2>6. CASE i = k + 1
    <3>1. answers'[wire'[i].of] > 0 BY <1>3, <2>1, <2>6
    <3>2. answers'[c] = 1 =>
            /\ reply'[c] = "empty"
            /\ reader'.at = "send" => reader'.msg.of # c
            /\ \A j \in DOMAIN wire' : AnswerAt(j)' /\ wire'[j].of = c => j = i
      BY <1>1, <1>2, <1>4, <2>2, <2>3, <2>6
    <3>3. QED BY <2>1, <2>6, <3>1, <3>2
  <2>7. CASE i \in 1..k
    <3>1. /\ answers'[wire'[i].of] > 0
          /\ answers'[wire'[i].of] = 1 =>
               /\ reply'[wire'[i].of] = "empty"
               /\ reader'.at = "send" => reader'.msg.of # wire'[i].of
               /\ wire'[i].of # c
               /\ \A j \in 1..k : AnswerAt(j)' /\ wire'[j].of = wire'[i].of => j = i
      BY <1>7, <2>5, <2>7
    <3>2. \A j \in DOMAIN wire' : j \in 1..k \/ wire'[j].of = c BY <1>2, <2>1, <2>2
    <3>3. QED BY <3>1, <3>2
  <2>8. QED BY <1>2, <2>2, <2>6, <2>7
<1>9. /\ \A d \in Callers : reply'[d] # "empty" => answers'[d] > 0
      /\ reader'.at = "send" =>
           answers'[reader'.msg.of] > 0
             /\ (answers'[reader'.msg.of] = 1 => reply'[reader'.msg.of] = "empty")
  <2>1. \A d \in Callers : answers[d] > 0 => answers'[d] > 0 BY <1>3
  <2>2. ASSUME reader.at = "send"
        PROVE  /\ answers'[reader.msg.of] > 0
               /\ answers'[reader.msg.of] = 1 => reply[reader.msg.of] = "empty"
    <3>1. reader.msg.of \in Callers /\ answers[reader.msg.of] > 0
      BY <1>6, <2>2 DEF OneAnswer
    <3>2. CASE reader.msg.of = c BY <1>3, <1>4, <2>2, <3>2
    <3>3. CASE reader.msg.of # c
      <4>1. answers'[reader.msg.of] = answers[reader.msg.of] BY <1>3, <3>1, <3>3
      <4>2. answers'[reader.msg.of] = 1 => answers[reader.msg.of] = 1 BY <1>1, <4>1
      <4>3. QED BY <2>2, <3>1, <4>1, <4>2 DEF OneAnswer
    <3>4. QED BY <3>2, <3>3
  <2>3. QED BY <1>1, <2>1, <2>2 DEF OneAnswer
<1>10. QED BY <1>8, <1>9 DEF OneAnswer

LEMMA OneAnswerKeeps ==
  ASSUME Types, OneAnswer, [Next]_vars
  PROVE  OneAnswer'
<1> USE DEF Callers
<1>1. CASE UNCHANGED <<answers, wire, reply, reader>>
  BY <1>1 DEF OneAnswer, AnswerAt
<1>2. CASE \E c \in Callers, body \in Bodies : Answer(c, body) BY <1>2, AnswerKeeps
<1>3. CASE \E c \in Callers : Respond(c)
  <2>1. PICK c \in Callers : Respond(c) BY <1>3
  <2>2. /\ reply' = [reply EXCEPT ![c] = "empty"] /\ UNCHANGED <<answers, wire, reader>>
        /\ reply \in [Callers -> {"empty", "ok", "error", "bad"}]
    BY <2>1 DEF Respond, reading, server, Types, TypeOK
  <2>3. \A d : reply[d] = "empty" => reply'[d] = "empty" \/ d \notin Callers BY <2>2
  <2>4. \A i \in DOMAIN wire : AnswerAt(i) => wire[i].of \in Callers
    <3>1. \A i \in DOMAIN wire : wire[i] \in Lines BY DEF Types
    <3>2. QED BY <3>1 DEF AnswerAt, Lines, Responses, Notices
  <2>5. reader.at = "send" => reader.msg.of \in Callers BY DEF Types, Responses
  <2>6. QED BY <2>2, <2>3, <2>4, <2>5 DEF OneAnswer, AnswerAt
<1>4. CASE ReadLine
  <2>1. /\ reader.at = "read" /\ wire # <<>> /\ wire' = Tail(wire)
        /\ UNCHANGED <<reply, answers>> /\ wire \in Seq(Lines)
        /\ reader'.at = "send" => reader'.msg = Message /\ Message.kind = "response"
    BY <1>4 DEF ReadLine, Types, Idle
  <2> PICK k \in Nat \ {0} : k = Len(wire) BY <2>1
  <2>2. /\ DOMAIN wire = 1..k /\ DOMAIN wire' = 1..k - 1 /\ wire[1] = Message
        /\ \A i \in 1..k - 1 : i + 1 \in 1..k /\ i + 1 # 1 /\ wire'[i] = wire[i + 1]
    BY <2>1 DEF Message
  <2>3. \A i \in 1..k - 1 : AnswerAt(i)' => AnswerAt(i + 1) BY <2>2 DEF AnswerAt
  <2>4. reader'.at = "send" => AnswerAt(1) BY <2>1, <2>2 DEF AnswerAt
  <2>5. \A d : answers'[d] = 1 <=> answers[d] = 1 BY <2>1
  <2>6. \A i \in DOMAIN wire' : AnswerAt(i)' =>
          /\ answers'[wire'[i].of] > 0
          /\ answers'[wire'[i].of] = 1 =>
               /\ reply'[wire'[i].of] = "empty"
               /\ reader'.at = "send" => reader'.msg.of # wire'[i].of
               /\ \A j \in DOMAIN wire' : AnswerAt(j)' /\ wire'[j].of = wire'[i].of => j = i
    <3>1. TAKE i \in DOMAIN wire'
    <3>2. HAVE AnswerAt(i)'
    <3>3. AnswerAt(i + 1) /\ wire'[i] = wire[i + 1] /\ i + 1 \in DOMAIN wire /\ i + 1 # 1
      BY <2>2, <2>3, <3>2
    <3>4. answers'[wire'[i].of] > 0
      BY <2>1, <3>3 DEF OneAnswer
    <3>5. SUFFICES ASSUME answers'[wire'[i].of] = 1
                   PROVE  /\ reply'[wire'[i].of] = "empty"
                          /\ reader'.at = "send" => reader'.msg.of # wire'[i].of
                          /\ \A j \in DOMAIN wire' :
                               AnswerAt(j)' /\ wire'[j].of = wire'[i].of => j = i
      BY <3>4
    <3>6. answers[wire[i + 1].of] = 1 BY <2>5, <3>3, <3>5
    <3>7. reply'[wire'[i].of] = "empty" BY <2>1, <3>3, <3>6 DEF OneAnswer
    <3>8. \A j \in DOMAIN wire : AnswerAt(j) /\ wire[j].of = wire[i + 1].of => j = i + 1
      BY <3>3, <3>6 DEF OneAnswer
    <3>9. reader'.at = "send" => reader'.msg.of # wire'[i].of
      BY <2>1, <2>2, <2>4, <3>3, <3>8
    <3>10. \A j \in DOMAIN wire' : AnswerAt(j)' /\ wire'[j].of = wire'[i].of => j = i
      <4>1. TAKE j \in DOMAIN wire'
      <4>2. HAVE AnswerAt(j)' /\ wire'[j].of = wire'[i].of
      <4>3. AnswerAt(j + 1) /\ wire'[j] = wire[j + 1] /\ j + 1 \in DOMAIN wire
        BY <2>2, <2>3, <4>2
      <4>4. j + 1 = i + 1 BY <3>3, <3>8, <4>2, <4>3
      <4>5. QED BY <2>2, <4>4
    <3>11. QED BY <3>7, <3>9, <3>10
  <2>7. reader'.at = "send" =>
          answers'[reader'.msg.of] > 0
            /\ (answers'[reader'.msg.of] = 1 => reply'[reader'.msg.of] = "empty")
    BY <2>1, <2>2, <2>4, <2>5 DEF OneAnswer
  <2>8. QED BY <2>1, <2>6, <2>7 DEF OneAnswer
<1>5. CASE SendReply
  <2>1. /\ reader.at = "send" /\ reader'.at = "read" /\ UNCHANGED <<answers, wire>>
        /\ reply' = [reply EXCEPT ![reader.msg.of] = reader.msg.body]
        /\ reader.msg.of \in Callers
        /\ reply \in [Callers -> {"empty", "ok", "error", "bad"}]
    BY <1>5 DEF SendReply, Send, Idle, server, Types, TypeOK, Responses
  <2>2. \A d : d # reader.msg.of => reply'[d] = reply[d] \/ d \notin Callers BY <2>1
  <2>3. \A i \in DOMAIN wire : AnswerAt(i) => wire[i].of \in Callers
    <3>1. \A i \in DOMAIN wire : wire[i] \in Lines BY DEF Types
    <3>2. QED BY <3>1 DEF AnswerAt, Lines, Responses, Notices
  <2>4. QED BY <2>1, <2>2, <2>3 DEF OneAnswer, AnswerAt
<1>6. CASE \E p \in Prompts : Push(p)
  BY <1>6 DEF Push, server, Types, Readers, OneAnswer, AnswerAt
<1>7. CASE Signal
  BY <1>7 DEF Signal, Idle, server, Types, Readers, OneAnswer, AnswerAt
<1>8. CASE ReadEnds
  BY <1>8 DEF ReadEnds, Idle, server, OneAnswer, AnswerAt
<1>9. CASE \E kind \in {"receipt", "idle", "event"}, of \in Prompts \cup Sessions : Notify(kind, of)
  <2>1. PICK kind \in {"receipt", "idle", "event"}, of \in Prompts \cup Sessions :
          Notify(kind, of)
    BY <1>9
  <2> PICK k \in Nat : k = Len(wire) BY DEF Types
  <2> DEFINE m == [kind |-> kind, of |-> of, n |-> sent + 1]
  <2>2. /\ wire' = Append(wire, m) /\ UNCHANGED <<reply, answers, reader>>
        /\ wire \in Seq(Lines)
    BY <2>1 DEF Notify, client, reading, Types
  <2>3. /\ DOMAIN wire = 1..k /\ DOMAIN wire' = 1..k + 1
        /\ wire'[k + 1] = m /\ \A i \in 1..k : wire'[i] = wire[i]
    BY <2>2
  <2>4. \A i \in DOMAIN wire' : AnswerAt(i)' => i \in 1..k /\ AnswerAt(i)
    BY <2>1, <2>3 DEF AnswerAt
  <2>5. QED BY <2>2, <2>3, <2>4 DEF OneAnswer
<1>10. QED
  <2>1. CASE \E p \in Prompts : Receipt(p) BY <2>1, <1>9 DEF Receipt
  <2>2. CASE \E s \in Sessions : Rest(s) \/ Chatter(s) BY <2>2, <1>9 DEF Rest, Chatter
  <2>3. CASE \E p \in Prompts : Listen(p) \/ NextItem(p) \/ NoItem(p) \/ Wake(p) \/ Drain(p)
                                \/ IntervalCtx(p)
    BY <2>3, <1>1 DEF Listen, NextItem, NoItem, Wake, Drain, IntervalCtx, reading, server
  <2>4. CASE \E c \in Callers : Register(c) \/ Write(c) \/ StopWaiting(c) \/ EndContext(c)
    BY <2>4, <1>1 DEF Register, Write, StopWaiting, EndContext, reading, server
  <2>5. CASE CloseBegin \/ CloseStdin \/ Kill \/ CloseReturn \/ Exit
    BY <2>5, <1>1 DEF CloseBegin, CloseStdin, Kill, CloseReturn, Exit, client, reading, server
  <2>6. CASE UNCHANGED vars BY <2>6, <1>1 DEF vars, reading, server
  <2>7. QED
    BY <2>1, <2>2, <2>3, <2>4, <2>5, <2>6, <1>2, <1>3, <1>4, <1>5, <1>6, <1>7, <1>8 DEF Next

-----------------------------------------------------------------------------
\* Who readLoop waits for.  A call is registered while it writes and waits, its
\* request can be answered once it was written, and it is its own context that
\* takes it away with its response unread: readDone is closed by readLoop.
Awaiting ==
  /\ \A c \in Callers : outcome[c] # "none" => at[c] = "done"
  /\ \A c \in pending : at[c] \in {"write", "select"}
  /\ \A c \in requests : at[c] \notin {"new", "register", "write"}
  /\ \A c \in Callers : answers[c] > 0 => c \in requests
  /\ readDone => reader.at = "ended"
  /\ reader.at = "send" =>
       LET c == reader.msg.of IN at[c] = "select" \/ outcome[c] = "ctx" \/ reply[c] = "empty"

LEMMA ReturnAwaits ==
  ASSUME Types, Awaiting, NEW c \in Callers,
         NEW from \in {"register", "write", "select", "interval", "wait"}, NEW o \in Outcomes,
         Return(c, from, o), UNCHANGED <<requests, answers, readDone, reader>>,
         \A d \in Callers : reply[d] = "empty" => reply'[d] = "empty",
         reader.at = "send" /\ reader.msg.of = c /\ from = "select" =>
           o = "ctx" \/ reply'[c] = "empty"
  PROVE  Awaiting'
<1>1. /\ at[c] = from /\ at'[c] = "done" /\ outcome'[c] = o
      /\ \A d \in Callers \ {c} : at'[d] = at[d] /\ outcome'[d] = outcome[d]
      /\ pending' = pending \ {c} /\ pending \subseteq Callers /\ requests \subseteq Callers
  BY DEF Return, Goto, Types, TypeOK
<1>2. reader.at = "send" => reader.msg.of \in Callers BY DEF Types, Responses
<1>3. outcome[c] = "none" BY <1>1 DEF Awaiting
<1>4. reader'.at = "send" =>
        LET d == reader'.msg.of IN at'[d] = "select" \/ outcome'[d] = "ctx" \/ reply'[d] = "empty"
  BY <1>1, <1>2, <1>3 DEF Awaiting
<1>5. QED BY <1>1, <1>4 DEF Awaiting

LEMMA MoveAwaits ==
  ASSUME Types, Awaiting, NEW c \in Callers, NEW from, NEW to, Goto(c, from, to),
         <<from, to>> \in {<<"new", "register">>, <<"register", "write">>, <<"write", "select">>,
                            <<"select", "interval">>, <<"interval", "wait">>,
                            <<"wait", "interval">>, <<"interval", "interval">>},
         pending' = IF from = "register" THEN pending \cup {c}
                    ELSE IF from = "select" THEN pending \ {c} ELSE pending,
         requests' = IF from = "write" THEN requests \cup {c} ELSE requests,
         UNCHANGED <<outcome, answers, readDone, reader>>,
         \A d \in Callers : reply[d] = "empty" => reply'[d] = "empty",
         from = "select" => reply'[c] = "empty"
  PROVE  Awaiting'
<1>1. /\ at[c] = from /\ at'[c] = to
      /\ \A d \in Callers \ {c} : at'[d] = at[d]
      /\ pending \subseteq Callers /\ requests \subseteq Callers
  BY DEF Goto, Types, TypeOK
<1>2. reader.at = "send" => reader.msg.of \in Callers BY DEF Types, Responses
<1>3. QED BY <1>1, <1>2 DEF Awaiting

LEMMA CallAwaits ==
  ASSUME Types, Awaiting, NEW c \in Callers, CallStep(c)
  PROVE  Awaiting'
<1> DEFINE Froms == {"register", "write", "select", "interval", "wait"}
<1>1. /\ UNCHANGED <<answers, readDone, reader>>
      /\ reply' = reply \/ reply' = [reply EXCEPT ![c] = "empty"]
      /\ reply \in [Callers -> {"empty", "ok", "error", "bad"}]
  BY DEF CallStep, Register, Write, Respond, StopWaiting, reading, server, Types, TypeOK
<1>2. \A d \in Callers : reply[d] = "empty" => reply'[d] = "empty" BY <1>1
<1>3. CASE Register(c)
  <2>1. requests' = requests BY <1>3 DEF Register, server
  <2>2. CASE Return(c, "register", "ErrClosed")
    BY <1>1, <1>2, <2>1, <2>2, ReturnAwaits DEF Outcomes
  <2>3. CASE Goto(c, "register", "write") /\ pending' = pending \cup {c} /\ outcome' = outcome
    BY <1>1, <1>2, <2>1, <2>3, MoveAwaits
  <2>4. QED BY <1>3, <2>2, <2>3 DEF Register
<1>4. CASE Write(c)
  <2>1. CASE Return(c, "write", "ErrTransport") /\ requests' = requests
    BY <1>1, <1>2, <2>1, ReturnAwaits DEF Outcomes
  <2>2. CASE /\ Goto(c, "write", "select") /\ requests' = requests \cup {c}
             /\ UNCHANGED <<outcome, pending>>
    BY <1>1, <1>2, <2>2, MoveAwaits
  <2>3. QED BY <1>4, <2>1, <2>2 DEF Write, table
<1>5. CASE Respond(c)
  <2>1. reply'[c] = "empty" /\ requests' = requests BY <1>1, <1>5 DEF Respond, server
  <2>2. CASE \E o \in Outcomes : Return(c, "select", o)
    BY <1>1, <1>2, <2>1, <2>2, ReturnAwaits
  <2>3. CASE Goto(c, "select", "interval") /\ pending' = pending \ {c} /\ outcome' = outcome
    BY <1>1, <1>2, <2>1, <2>3, MoveAwaits
  <2>4. QED BY <1>5, <2>2, <2>3 DEF Respond, Outcomes
<1>6. CASE StopWaiting(c)
  <2>1. requests' = requests BY <1>6 DEF StopWaiting, server
  <2>2. CASE Return(c, "select", "ctx")
    BY <1>1, <1>2, <2>1, <2>2, ReturnAwaits DEF Outcomes
  <2>3. CASE readDone /\ Return(c, "select", "ErrTransport")
    <3>1. reader.at # "send" BY <2>3 DEF Awaiting
    <3>2. QED BY <1>1, <1>2, <2>1, <2>3, <3>1, ReturnAwaits DEF Outcomes
  <2>4. QED BY <1>6, <2>2, <2>3 DEF StopWaiting
<1>7. QED BY <1>3, <1>4, <1>5, <1>6 DEF CallStep

LEMMA IntervalAwaits ==
  ASSUME Types, Awaiting, NEW p \in Prompts, Listen(p) \/ Interval(p)
  PROVE  Awaiting'
<1>1. p \in Callers BY DEF Callers
<1>2. UNCHANGED <<answers, requests, readDone, reader, reply>>
  BY DEF Listen, Interval, NextItem, NoItem, Wake, Drain, IntervalCtx, reading, server
<1>3. ASSUME NEW from \in {"interval", "wait"}, NEW o \in Outcomes, Return(p, from, o)
      PROVE  Awaiting'
  BY <1>1, <1>2, <1>3, ReturnAwaits
<1>4. ASSUME NEW from, NEW to, Goto(p, from, to), UNCHANGED <<outcome, pending>>,
             <<from, to>> \in {<<"new", "register">>, <<"interval", "wait">>,
                                <<"wait", "interval">>, <<"interval", "interval">>}
      PROVE  Awaiting'
  BY <1>1, <1>2, <1>4, MoveAwaits
<1>5. CASE Listen(p) BY <1>4, <1>5 DEF Listen
<1>6. CASE NoItem(p) \/ Wake(p) BY <1>4, <1>6 DEF NoItem, Wake, table
<1>7. ASSUME NEW from \in {"interval", "wait"}, Take(p, from) PROVE Awaiting'
  BY <1>3, <1>4, <1>7 DEF Take, table, Outcomes
<1>8. CASE NextItem(p) \/ Drain(p)
  BY <1>3, <1>7, <1>8 DEF NextItem, Drain, Outcomes
<1>9. CASE IntervalCtx(p) BY <1>3, <1>9 DEF IntervalCtx, Outcomes
<1>10. QED BY <1>5, <1>6, <1>8, <1>9 DEF Interval

LEMMA ReaderAwaits ==
  ASSUME Types, Awaiting, OneAnswer,
         ReadLine \/ SendReply \/ Signal \/ ReadEnds \/ \E p \in Prompts : Push(p)
  PROVE  Awaiting'
<1>1. UNCHANGED <<at, outcome, pending, requests, answers>>
  BY DEF ReadLine, SendReply, Send, Signal, ReadEnds, Push, caller, table, server
<1>2. CASE ReadLine
  <2>1. /\ reader.at = "read" /\ UNCHANGED <<readDone, reply>>
        /\ reader'.at = "send" =>
             reader'.msg = Message /\ Message.of \in pending /\ Message.kind = "response"
    BY <1>2 DEF ReadLine, Idle
  <2>2. reader'.at = "send" => at[Message.of] = "select"
    <3>1. SUFFICES ASSUME reader'.at = "send" PROVE at[Message.of] = "select"
      OBVIOUS
    <3>2. 1 \in DOMAIN wire /\ wire[1] = Message /\ AnswerAt(1)
      BY <1>2, <2>1, <3>1 DEF ReadLine, Message, Types, AnswerAt
    <3>3. answers[Message.of] > 0 BY <3>2 DEF OneAnswer
    <3>4. Message.of \in Callers BY <2>1, <3>1 DEF Types, TypeOK
    <3>5. QED BY <2>1, <3>1, <3>3, <3>4 DEF Awaiting
  <2>3. readDone' => FALSE BY <2>1 DEF Awaiting
  <2>4. QED BY <1>1, <2>1, <2>2, <2>3 DEF Awaiting
<1>3. CASE SendReply \/ Signal \/ \E p \in Prompts : Push(p)
  <2>1. reader'.at # "send" /\ reader.at # "ended" /\ UNCHANGED readDone
    <3>1. reader \in Readers BY DEF Types
    <3>2. CASE SendReply BY <3>2 DEF SendReply, Send, Idle
    <3>3. CASE Signal BY <3>1, <3>3 DEF Signal, Idle, Readers
    <3>4. CASE \E p \in Prompts : Push(p) BY <3>1, <3>4 DEF Push, Readers
    <3>5. QED BY <1>3, <3>2, <3>3, <3>4
  <2>2. QED BY <1>1, <2>1 DEF Awaiting
<1>4. CASE ReadEnds
  <2>1. reader'.at = "ended" BY <1>4 DEF ReadEnds, Idle
  <2>2. QED BY <1>1, <2>1 DEF Awaiting
<1>5. QED BY <1>2, <1>3, <1>4

LEMMA NextAwaits ==
  ASSUME Types, Awaiting, OneAnswer, [Next]_vars
  PROVE  Awaiting'
<1>1. CASE UNCHANGED <<at, outcome, pending, requests, answers, readDone, reader, reply>>
  BY <1>1 DEF Awaiting
<1>2. CASE \E c \in Callers : CallStep(c) BY <1>2, CallAwaits
<1>3. CASE \E p \in Prompts : Listen(p) \/ Interval(p) BY <1>3, IntervalAwaits
<1>4. CASE ReadLine \/ SendReply \/ Signal \/ ReadEnds \/ \E p \in Prompts : Push(p)
  BY <1>4, ReaderAwaits
<1>5. CASE \E c \in Callers, body \in Bodies : Answer(c, body)
  <2>1. PICK c \in Callers, body \in Bodies : Answer(c, body) BY <1>5
  <2>2. /\ c \in requests /\ answers' = [answers EXCEPT ![c] = answers[c] + 1]
        /\ answers \in [Callers -> Nat]
        /\ UNCHANGED <<at, outcome, pending, requests, readDone, reader, reply>>
    BY <2>1 DEF Answer, client, caller, table, reading, Types
  <2>3. \A d \in Callers : answers'[d] > 0 => d \in requests BY <2>2 DEF Awaiting
  <2>4. QED BY <2>2, <2>3 DEF Awaiting
<1>6. CASE \/ CloseBegin \/ CloseStdin \/ Kill \/ CloseReturn \/ Exit
           \/ \E c \in Callers : EndContext(c)
           \/ \E p \in Prompts : Receipt(p)
           \/ \E s \in Sessions : Rest(s) \/ Chatter(s)
           \/ UNCHANGED vars
  BY <1>1, <1>6
  DEF CloseBegin, CloseStdin, Kill, CloseReturn, Exit, EndContext, Receipt, Rest, Chatter,
      Notify, vars, client, caller, table, reading, server
<1>7. QED
  BY <1>2, <1>3, <1>4, <1>5, <1>6 DEF Next, CallStep, Interval

\* jsonrpc.go:383, reply <- &message: readLoop waits in it only for a call that
\* is about to take the first of two responses, or that left it in the channel
\* when its context ended; never because of a request that was answered once.
THEOREM OnlyARepeatBlocks == Spec => []StuckByARepeat
<1>1. Init => OneAnswer /\ Awaiting
  BY DEF Init, OneAnswer, AnswerAt, Awaiting, Idle
<1>2. IInv /\ OneAnswer /\ Awaiting /\ [Next]_vars => OneAnswer' /\ Awaiting'
  BY OneAnswerKeeps, NextAwaits DEF IInv
<1>3. IInv /\ OneAnswer /\ Awaiting => StuckByARepeat
  <2>1. SUFFICES ASSUME IInv, OneAnswer, Awaiting, reader.at = "send",
                        reply[reader.msg.of] # "empty"
                 PROVE  /\ at[reader.msg.of] = "select" \/ outcome[reader.msg.of] = "ctx"
                        /\ answers[reader.msg.of] > 1
    BY DEF StuckByARepeat
  <2>2. reader.msg.of \in Callers BY <2>1 DEF IInv, Types, Responses
  <2>3. answers[reader.msg.of] \in Nat
    <3>1. answers \in [Callers -> Nat] BY <2>1 DEF IInv, Types
    <3>2. QED BY <2>2, <3>1
  <2>4. answers[reader.msg.of] > 0 /\ answers[reader.msg.of] # 1 BY <2>1 DEF OneAnswer
  <2>5. QED BY <2>1, <2>3, <2>4 DEF Awaiting
<1>4. QED BY <1>1, <1>2, <1>3, Inductive, PTL DEF Spec
-----------------------------------------------------------------------------
(* Where the end of a prompt's interval is.  EndIsAhead is not inductive    *)
(* either: the idle must come after the receipt in all that is ahead, for   *)
(* what comes before the receipt is skipped.  And as long as the agent has  *)
(* not gone idle with the message received, every idle ahead comes before   *)
(* the receipt, so that none of them can end the interval.                  *)

Asked ==
  /\ \A p \in Prompts : at[p] \in {"new", "register", "write"} => p \notin requests
  /\ received \subseteq requests /\ rested \subseteq received
  /\ closing = "closed" => ~alive

NoReceiptYet ==
  \A p \in Prompts \ received : p \notin open /\ \A m \in Ahead(p) : ~IsReceipt(m, p)

ReceiptAhead ==
  \A p \in received \cap listeners : p \in open \/ \E m \in Ahead(p) : IsReceipt(m, p)

IdleLast ==
  \A p \in rested \cap listeners :
    \E e \in Ahead(p) : /\ IsIdle(e, p)
                        /\ \A m \in Ahead(p) : IsReceipt(m, p) => m.n < e.n

IdleEarly ==
  \A p \in listeners \ rested :
    \A e \in Ahead(p) : IsIdle(e, p) =>
      p \notin open /\ \A m \in Ahead(p) : IsReceipt(m, p) => e.n < m.n

Placed == NoReceiptYet /\ ReceiptAhead /\ IdleLast /\ IdleEarly

EndInv == IInv /\ Asked /\ Placed

-----------------------------------------------------------------------------
\* Notices are taken from the front, in the order of their numbers.
LEMMA AheadTypes ==
  ASSUME Types, NEW p \in Prompts
  PROVE  Ahead(p) \subseteq Notices
<1>1. ToSet(items[p]) \subseteq Notices BY DEF Types, ToSet
<1>2. HandedTo(p) => reader.msg \in Notices BY DEF Types, HandedTo
<1>3. \A m \in ToSet(wire) : m.kind # "response" => m \in Notices
  BY DEF Types, ToSet, Lines, Responses
<1>4. QED BY <1>1, <1>2, <1>3 DEF Ahead

LEMMA AheadOrder ==
  ASSUME IInv, NEW p \in listeners, NEW m \in Ahead(p)
  PROVE  /\ m.n \in Nat /\ m.n <= sent
         /\ items[p] # <<>> => m = Head(items[p]) \/ Head(items[p]).n < m.n
<1>1. /\ p \in Prompts /\ items[p] \in Seq(Notices) /\ sent \in Nat /\ wire \in Seq(Lines)
      /\ m \in Notices
  BY AheadTypes DEF IInv, Types, TypeOK
<1>2. PICK l \in 0..sent :
        /\ Numbered(l)
        /\ Delivering => reader.msg.n = l
        /\ Window(p, l)
  BY DEF IInv, InStep
<1>3. m.n \in Nat BY <1>1 DEF Notices
<1>4. /\ Due(p, l) \in Int /\ Due(p, l) <= l
      /\ HandedTo(p) => reader.msg.n = l /\ Due(p, l) = l - 1
  BY <1>2 DEF Due, HandedTo, Delivering
<1> DEFINE k == Len(items[p])
<1>5. /\ k \in Nat /\ DOMAIN items[p] = 1..k
      /\ items[p] # <<>> => k > 0 /\ Head(items[p]) = items[p][1] /\ items[p][1].n = Due(p, l) - k + 1
  BY <1>1, <1>2 DEF Window
<1>6. CASE m \in ToSet(items[p])
  <2>1. PICK i \in 1..k : m = items[p][i] BY <1>5, <1>6 DEF ToSet
  <2>2. m.n = Due(p, l) - k + i BY <1>2, <1>5, <2>1 DEF Window
  <2>3. items[p] # <<>> /\ (i = 1 \/ Due(p, l) - k + 1 < Due(p, l) - k + i)
    BY <1>4, <1>5, <2>1
  <2>4. Due(p, l) - k + i <= sent BY <1>1, <1>2, <1>4, <1>5, <2>1
  <2>5. QED BY <1>3, <1>5, <2>1, <2>2, <2>3, <2>4
<1>7. CASE HandedTo(p) /\ m = reader.msg
  <2>1. m.n = l /\ l \in Nat /\ l <= sent BY <1>2, <1>4, <1>7
  <2>2. items[p] # <<>> => Due(p, l) - k + 1 < l BY <1>4, <1>5, <1>7, <2>1
  <2>3. QED BY <1>5, <2>1, <2>2
<1>8. CASE m \in ToSet(wire) /\ m.kind # "response"
  <2>1. PICK i \in DOMAIN wire : m = wire[i] BY <1>8 DEF ToSet
  <2>2. m.n \in l + 1..sent BY <1>2, <1>8, <2>1 DEF Numbered, OnWire
  <2>3. items[p] # <<>> => Due(p, l) - k + 1 < m.n BY <1>2, <1>4, <1>5, <2>2
  <2>4. QED BY <1>3, <1>5, <2>2, <2>3
<1>9. QED BY <1>6, <1>7, <1>8 DEF Ahead

LEMMA TakenOff ==
  ASSUME NEW S, NEW s \in Seq(S), s # <<>>
  PROVE  ToSet(s) = {Head(s)} \cup ToSet(Tail(s))
<1>1. /\ Len(s) \in Nat \ {0} /\ DOMAIN s = 1..Len(s) /\ Head(s) = s[1]
      /\ DOMAIN Tail(s) = 1..Len(s) - 1
      /\ \A i \in 1..Len(s) - 1 : Tail(s)[i] = s[i + 1]
  OBVIOUS
<1>2. ASSUME NEW i \in DOMAIN s PROVE s[i] = Head(s) \/ s[i] \in ToSet(Tail(s))
  <2>1. i = 1 \/ (i - 1 \in DOMAIN Tail(s) /\ Tail(s)[i - 1] = s[i]) BY <1>1
  <2>2. QED BY <1>1, <2>1 DEF ToSet
<1>3. ASSUME NEW i \in DOMAIN Tail(s) PROVE Tail(s)[i] \in ToSet(s)
  <2>1. i + 1 \in DOMAIN s /\ Tail(s)[i] = s[i + 1] BY <1>1
  <2>2. QED BY <2>1 DEF ToSet
<1>4. Head(s) \in ToSet(s) BY <1>1 DEF ToSet
<1>5. QED BY <1>2, <1>3, <1>4 DEF ToSet

LEMMA PutOn ==
  ASSUME NEW S, NEW s \in Seq(S), NEW e \in S
  PROVE  ToSet(Append(s, e)) = ToSet(s) \cup {e}
<1> DEFINE t == Append(s, e)
<1>1. /\ Len(s) \in Nat /\ DOMAIN s = 1..Len(s) /\ DOMAIN t = 1..Len(s) + 1
      /\ t[Len(s) + 1] = e /\ \A i \in 1..Len(s) : t[i] = s[i]
  OBVIOUS
<1> HIDE DEF t
<1>2. ToSet(t) \subseteq ToSet(s) \cup {e} BY <1>1 DEF ToSet
<1>3. ToSet(s) \subseteq ToSet(t) BY <1>1 DEF ToSet
<1>4. e \in ToSet(t) BY <1>1 DEF ToSet
<1>5. QED BY <1>2, <1>3, <1>4 DEF t
-----------------------------------------------------------------------------
\* What is ahead of a prompt moves as one: readLoop and the queues neither add
\* to it nor, while the prompt is hooked, lose any of it.
LEMMA AheadStays ==
  ASSUME UNCHANGED <<wire, items, reader>>, NEW p
  PROVE  Ahead(p)' = Ahead(p)
BY DEF Ahead, HandedTo

LEMMA AheadReadLine ==
  ASSUME Types, ReadLine, NEW p \in Prompts
  PROVE  Ahead(p)' \subseteq Ahead(p) /\ (p \in listeners => Ahead(p)' = Ahead(p))
<1>1. /\ reader.at = "read" /\ items' = items /\ wire # <<>> /\ wire' = Tail(wire)
      /\ ToSet(wire) = {Message} \cup ToSet(wire')
  BY TakenOff DEF ReadLine, queues, Types, Message
<1>2. /\ ~HandedTo(p)
      /\ HandedTo(p)' => reader'.msg = Message /\ Message.kind # "response"
      /\ p \in listeners /\ Message.kind # "response" => HandedTo(p)' /\ reader'.msg = Message
  BY <1>1 DEF ReadLine, HandedTo, Idle
<1>3. Ahead(p) = ToSet(items[p]) \cup {m \in ToSet(wire) : m.kind # "response"}
  BY <1>2 DEF Ahead
<1>4. Ahead(p)' = ToSet(items[p]) \cup {m \in {reader'.msg} : HandedTo(p)'}
                    \cup {m \in ToSet(wire') : m.kind # "response"}
  BY <1>1 DEF Ahead
<1>5. QED BY <1>1, <1>2, <1>3, <1>4

LEMMA AheadReads ==
  ASSUME SendReply \/ ReadEnds, NEW p \in Prompts
  PROVE  Ahead(p)' = Ahead(p)
<1>1. /\ UNCHANGED <<items, wire>> /\ reader.at \in {"send", "read"}
      /\ reader'.at \in {"read", "ended"}
  BY DEF SendReply, Send, ReadEnds, Idle, queues, server
<1>2. QED BY <1>1 DEF Ahead, HandedTo

LEMMA AheadSignal ==
  ASSUME Types, Signal, NEW p \in Prompts
  PROVE  Ahead(p)' = Ahead(p)
<1>1. /\ UNCHANGED <<items, wire>> /\ reader.at = "signal" /\ reader \in Readers
      /\ \/ reader.hooks = {} /\ reader'.at = "read"
         \/ reader'.at = "push" /\ reader'.hooks = reader.hooks /\ reader'.msg = reader.msg
  BY DEF Signal, Idle, server, Types, Readers
<1>2. HandedTo(p)' <=> HandedTo(p) BY <1>1 DEF HandedTo
<1>3. HandedTo(p) => reader'.msg = reader.msg BY <1>1 DEF HandedTo
<1>4. QED BY <1>1, <1>2, <1>3 DEF Ahead

LEMMA AheadPush ==
  ASSUME Types, NEW q \in Prompts, Push(q), NEW p \in Prompts
  PROVE  Ahead(p)' = Ahead(p)
<1>1. /\ wire' = wire /\ reader.at = "push" /\ q \in reader.hooks /\ reader.msg \in Notices
      /\ items \in [Prompts -> Seq(Notices)]
      /\ items' = [items EXCEPT ![q] = Append(items[q], reader.msg)]
      /\ reader'.at = "signal" /\ reader'.hooks = reader.hooks \ {q}
      /\ reader'.msg = reader.msg
  BY DEF Push, Enqueue, server, Types, Readers
<1>2. CASE p = q
  <2>1. ToSet(items'[p]) = ToSet(items[p]) \cup {reader.msg} BY <1>1, <1>2, PutOn
  <2>2. HandedTo(p) /\ ~HandedTo(p)' BY <1>1, <1>2 DEF HandedTo
  <2>3. QED BY <1>1, <2>1, <2>2 DEF Ahead
<1>3. CASE p # q
  <2>1. items'[p] = items[p] /\ (HandedTo(p)' <=> HandedTo(p)) BY <1>1, <1>3 DEF HandedTo
  <2>2. QED BY <1>1, <2>1 DEF Ahead
<1>4. QED BY <1>2, <1>3

LEMMA AheadTake ==
  ASSUME Types, NEW q \in Prompts, NEW from, Take(q, from), UNCHANGED <<reader, wire>>,
         NEW p \in Prompts
  PROVE  /\ p # q => Ahead(p)' = Ahead(p)
         /\ p = q => Ahead(p) = {Head(items[p])} \cup Ahead(p)'
<1>1. /\ items \in [Prompts -> Seq(Notices)] /\ items[q] # <<>>
      /\ items' = [items EXCEPT ![q] = Tail(items[q])]
  BY DEF Take, Types
<1>2. HandedTo(p)' <=> HandedTo(p) BY DEF HandedTo
<1>3. CASE p = q
  <2>1. items'[p] = Tail(items[p]) BY <1>1, <1>3
  <2>2. ToSet(items[p]) = {Head(items[p])} \cup ToSet(items'[p])
    BY <1>1, <1>3, <2>1, TakenOff
  <2>3. QED BY <1>2, <1>3, <2>2 DEF Ahead
<1>4. CASE p # q
  <2>1. items'[p] = items[p] BY <1>1, <1>4
  <2>2. QED BY <1>2, <1>4, <2>1 DEF Ahead
<1>5. QED BY <1>3, <1>4

LEMMA AheadNotify ==
  ASSUME Types, NEW kind \in {"receipt", "idle", "event"}, NEW of \in Prompts \cup Sessions,
         Notify(kind, of), NEW p \in Prompts
  PROVE  Ahead(p)' = Ahead(p) \cup {[kind |-> kind, of |-> of, n |-> sent + 1]}
<1> DEFINE m == [kind |-> kind, of |-> of, n |-> sent + 1]
<1>1. /\ wire' = Append(wire, m) /\ wire \in Seq(Lines) /\ m \in Lines
      /\ UNCHANGED <<items, reader>> /\ m.kind # "response"
  BY DEF Notify, client, queues, reading, Types, Lines, Notices
<1>2. ToSet(wire') = ToSet(wire) \cup {m} BY <1>1, PutOn
<1>3. HandedTo(p)' <=> HandedTo(p) BY <1>1 DEF HandedTo
<1>4. QED BY <1>1, <1>2, <1>3 DEF Ahead

LEMMA AheadAnswer ==
  ASSUME Types, NEW c \in Callers, NEW body \in Bodies, Answer(c, body), NEW p \in Prompts
  PROVE  Ahead(p)' = Ahead(p)
<1> DEFINE m == [kind |-> "response", of |-> c, body |-> body]
<1>1. /\ wire' = Append(wire, m) /\ wire \in Seq(Lines) /\ m \in Lines
      /\ UNCHANGED <<items, reader>> /\ m.kind = "response"
  BY DEF Answer, client, queues, reading, Types, Lines, Responses
<1>2. ToSet(wire') = ToSet(wire) \cup {m} BY <1>1, PutOn
<1>3. HandedTo(p)' <=> HandedTo(p) BY <1>1 DEF HandedTo
<1>4. QED BY <1>1, <1>2, <1>3 DEF Ahead
-----------------------------------------------------------------------------
LEMMA PlacedMoves ==
  ASSUME Asked, Placed, UNCHANGED <<received, rested, open>>,
         \A p \in Prompts : Ahead(p)' \subseteq Ahead(p),
         \A p \in listeners' : \/ p \in listeners /\ Ahead(p)' = Ahead(p)
                               \/ p \in Prompts \ received
  PROVE  Placed'
<1>1. NoReceiptYet' BY DEF Placed, NoReceiptYet, IsReceipt
<1>2. ReceiptAhead' BY DEF Placed, ReceiptAhead, IsReceipt
<1>3. IdleLast' BY DEF Asked, Placed, IdleLast, IsReceipt, IsIdle
<1>4. IdleEarly'
  <2>1. ASSUME NEW p \in listeners' \ rested, NEW e \in Ahead(p)', IsIdle(e, p)
        PROVE  p \notin open /\ \A m \in Ahead(p)' : IsReceipt(m, p) => e.n < m.n
    <3>1. CASE p \in listeners /\ Ahead(p)' = Ahead(p)
      BY <2>1, <3>1 DEF Placed, IdleEarly
    <3>2. CASE p \in Prompts \ received
      BY <2>1, <3>2 DEF Placed, NoReceiptYet
    <3>3. QED BY <3>1, <3>2
  <2>2. QED BY <2>1 DEF IdleEarly, IsReceipt, IsIdle
<1>5. QED BY <1>1, <1>2, <1>3, <1>4 DEF Placed

LEMMA PlacedTake ==
  ASSUME IInv, Asked, Placed, NEW p \in Prompts, NEW from \in {"interval", "wait"},
         Take(p, from), UNCHANGED <<reader, wire, received, rested>>
  PROVE  Placed'
<1> DEFINE n == Head(items[p])
           Skips == p \notin open /\ ~IsReceipt(n, p)
<1>1. /\ \A q \in Prompts \ {p} : Ahead(q)' = Ahead(q) /\ (q \in open' <=> q \in open)
      /\ Ahead(p) = {n} \cup Ahead(p)'
      /\ p \in open' <=> ~Skips
      /\ listeners' \subseteq listeners /\ listeners \subseteq Prompts
      /\ p \in listeners' /\ ~Skips => ~IsIdle(n, p)
  BY AheadTake DEF IInv, Types, TypeOK, Take, Return, table
<1>2. p \in listeners /\ items[p] # <<>> BY DEF Take, Goto, Return, IInv, Hooked
<1>3. \A m \in Ahead(p)' : m.n \in Nat /\ (m = n \/ n.n < m.n)
  BY <1>1, <1>2, AheadOrder
<1>4. n \in Notices /\ n.n \in Nat
  <2>1. n \in Ahead(p) BY <1>1
  <2>2. QED BY <2>1, AheadTypes DEF IInv, Notices
<1>5. IsIdle(n, p) => ~IsReceipt(n, p) BY DEF IsIdle, IsReceipt
<1>6. p \notin received => Skips BY <1>1 DEF Placed, NoReceiptYet
<1>7. NoReceiptYet' BY <1>1, <1>6 DEF Placed, NoReceiptYet, IsReceipt
<1>8. ReceiptAhead'
  <2>1. p \in received /\ p \notin open' => \E m \in Ahead(p)' : IsReceipt(m, p)
    BY <1>1, <1>2 DEF Placed, ReceiptAhead
  <2>2. QED BY <1>1, <2>1 DEF Placed, ReceiptAhead, IsReceipt
<1>9. IdleLast'
  <2>1. ASSUME p \in rested, p \in listeners'
        PROVE  \E e \in Ahead(p)' : /\ IsIdle(e, p)
                                    /\ \A m \in Ahead(p)' : IsReceipt(m, p) => m.n < e.n
    <3>1. PICK e \in Ahead(p) : /\ IsIdle(e, p)
                                /\ \A m \in Ahead(p) : IsReceipt(m, p) => m.n < e.n
      BY <1>2, <2>1 DEF Placed, IdleLast
    <3>2. e # n
      <4>1. CASE Skips
        <5>1. PICK m \in Ahead(p) : IsReceipt(m, p)
          BY <1>2, <2>1, <4>1 DEF Asked, Placed, ReceiptAhead
        <5>2. m # n /\ m \in Ahead(p)' BY <1>1, <4>1, <5>1
        <5>3. n.n < m.n /\ m.n < e.n /\ m.n \in Nat BY <1>3, <3>1, <5>1, <5>2
        <5>4. QED BY <1>4, <5>3
      <4>2. CASE ~Skips BY <1>1, <2>1, <3>1, <4>2
      <4>3. QED BY <4>1, <4>2
    <3>3. QED BY <1>1, <3>1, <3>2
  <2>2. QED BY <1>1, <2>1 DEF Placed, IdleLast, IsReceipt, IsIdle
<1>10. IdleEarly'
  <2>1. ASSUME p \in listeners', p \notin rested, NEW e \in Ahead(p)', IsIdle(e, p)
        PROVE  p \notin open' /\ \A m \in Ahead(p)' : IsReceipt(m, p) => e.n < m.n
    <3>1. p \notin open /\ \A m \in Ahead(p) : IsReceipt(m, p) => e.n < m.n
      BY <1>1, <2>1 DEF Placed, IdleEarly
    <3>2. ~IsReceipt(n, p)
      <4>1. SUFFICES ASSUME IsReceipt(n, p) PROVE FALSE OBVIOUS
      <4>2. e.n < n.n BY <1>1, <3>1, <4>1
      <4>3. e # n /\ e.n \in Nat /\ n.n < e.n BY <1>3, <1>4, <2>1, <4>2
      <4>4. QED BY <1>4, <4>2, <4>3
    <3>3. QED BY <1>1, <3>1, <3>2
  <2>2. QED BY <1>1, <2>1 DEF Placed, IdleEarly, IsReceipt, IsIdle
<1>11. QED BY <1>7, <1>8, <1>9, <1>10 DEF Placed

LEMMA PlacedReceipt ==
  ASSUME IInv, Asked, Placed, NEW q \in Prompts, Receipt(q)
  PROVE  Placed'
<1> DEFINE r == [kind |-> "receipt", of |-> q, n |-> sent + 1]
<1>1. /\ q \notin received /\ received' = received \cup {q}
      /\ UNCHANGED <<rested, open, listeners>> /\ listeners \subseteq Prompts
      /\ sent \in Nat
  BY DEF Receipt, Notify, client, table, IInv, Types, TypeOK
<1>2. \A p \in Prompts : Ahead(p)' = Ahead(p) \cup {r}
  BY AheadNotify DEF Receipt, IInv, Types
<1>3. \A p : ~IsIdle(r, p) /\ (IsReceipt(r, p) <=> p = q) BY DEF IsIdle, IsReceipt
<1>4. q \notin rested /\ q \notin open BY <1>1 DEF Asked, Placed, NoReceiptYet
<1>5. NoReceiptYet' BY <1>1, <1>2, <1>3 DEF Placed, NoReceiptYet, IsReceipt
<1>6. ReceiptAhead' BY <1>1, <1>2, <1>3 DEF Placed, ReceiptAhead, IsReceipt
<1>7. IdleLast'
  <2>1. ASSUME NEW p \in rested, p \in listeners
        PROVE  \E e \in Ahead(p)' : /\ IsIdle(e, p)
                                    /\ \A m \in Ahead(p)' : IsReceipt(m, p) => m.n < e.n
    BY <1>1, <1>2, <1>3, <1>4, <2>1 DEF Placed, IdleLast
  <2>2. QED BY <1>1, <2>1 DEF IdleLast, IsReceipt, IsIdle
<1>8. IdleEarly'
  <2>1. ASSUME NEW p \in listeners \ rested, NEW e \in Ahead(p)', IsIdle(e, p)
        PROVE  p \notin open /\ \A m \in Ahead(p)' : IsReceipt(m, p) => e.n < m.n
    <3>1. e \in Ahead(p) BY <1>1, <1>2, <1>3, <2>1
    <3>2. p \notin open /\ \A m \in Ahead(p) : IsReceipt(m, p) => e.n < m.n
      BY <2>1, <3>1 DEF Placed, IdleEarly
    <3>3. e.n < sent + 1 BY <1>1, <3>1, AheadOrder
    <3>4. QED BY <1>1, <1>2, <3>2, <3>3
  <2>2. QED BY <1>1, <2>1 DEF IdleEarly, IsReceipt, IsIdle
<1>9. QED BY <1>5, <1>6, <1>7, <1>8 DEF Placed

LEMMA PlacedRest ==
  ASSUME IInv, Asked, Placed, NEW s \in Sessions, Rest(s)
  PROVE  Placed'
<1> DEFINE i == [kind |-> "idle", of |-> s, n |-> sent + 1]
<1>1. /\ rested' = rested \cup {p \in received : SessionOf[p] = s}
      /\ UNCHANGED <<received, open, listeners>> /\ listeners \subseteq Prompts
      /\ sent \in Nat
  BY DEF Rest, Notify, client, table, IInv, Types, TypeOK
<1>2. \A p \in Prompts : Ahead(p)' = Ahead(p) \cup {i}
  BY AheadNotify DEF Rest, IInv, Types
<1>3. \A p : ~IsReceipt(i, p) /\ (IsIdle(i, p) <=> SessionOf[p] = s) BY DEF IsIdle, IsReceipt
<1>4. NoReceiptYet' BY <1>1, <1>2, <1>3 DEF Placed, NoReceiptYet, IsReceipt
<1>5. ReceiptAhead' BY <1>1, <1>2, <1>3 DEF Placed, ReceiptAhead, IsReceipt
<1>6. IdleLast'
  <2>1. ASSUME NEW p \in rested', p \in listeners
        PROVE  \E e \in Ahead(p)' : /\ IsIdle(e, p)
                                    /\ \A m \in Ahead(p)' : IsReceipt(m, p) => m.n < e.n
    <3>1. CASE p \in rested
      BY <1>1, <1>2, <1>3, <2>1, <3>1 DEF Placed, IdleLast
    <3>2. CASE SessionOf[p] = s
      <4>1. \A m \in Ahead(p) : m.n < i.n BY <1>1, <2>1, AheadOrder
      <4>2. QED BY <1>1, <1>2, <1>3, <2>1, <3>2, <4>1
    <3>3. QED BY <1>1, <2>1, <3>1, <3>2
  <2>2. QED BY <1>1, <2>1 DEF IdleLast, IsReceipt, IsIdle
<1>7. IdleEarly'
  <2>1. ASSUME NEW p \in listeners \ rested', NEW e \in Ahead(p)', IsIdle(e, p)
        PROVE  p \notin open /\ \A m \in Ahead(p)' : IsReceipt(m, p) => e.n < m.n
    <3>1. CASE e \in Ahead(p)
      BY <1>1, <1>2, <1>3, <2>1, <3>1 DEF Placed, IdleEarly
    <3>2. CASE e = i
      <4>1. p \in Prompts \ received BY <1>1, <1>3, <2>1, <3>2
      <4>2. QED BY <1>2, <1>3, <4>1 DEF Placed, NoReceiptYet
    <3>3. QED BY <1>1, <1>2, <2>1, <3>1, <3>2
  <2>2. QED BY <1>1, <2>1 DEF IdleEarly, IsReceipt, IsIdle
<1>8. QED BY <1>4, <1>5, <1>6, <1>7 DEF Placed

LEMMA PlacedChatter ==
  ASSUME IInv, Asked, Placed, NEW s \in Sessions, Chatter(s)
  PROVE  Placed'
<1> DEFINE v == [kind |-> "event", of |-> s, n |-> sent + 1]
<1>1. UNCHANGED <<received, rested, open, listeners>> /\ listeners \subseteq Prompts
  BY DEF Chatter, Notify, client, table, IInv, Types, TypeOK
<1>2. \A p \in Prompts : Ahead(p)' = Ahead(p) \cup {v}
  BY AheadNotify DEF Chatter, IInv, Types
<1>3. \A p : ~IsReceipt(v, p) /\ ~IsIdle(v, p) BY DEF IsIdle, IsReceipt
<1>4. NoReceiptYet' BY <1>1, <1>2, <1>3 DEF Placed, NoReceiptYet, IsReceipt
<1>5. ReceiptAhead' BY <1>1, <1>2, <1>3 DEF Placed, ReceiptAhead, IsReceipt
<1>6. IdleLast' BY <1>1, <1>2, <1>3 DEF Placed, IdleLast, IsReceipt, IsIdle
<1>7. IdleEarly' BY <1>1, <1>2, <1>3 DEF Placed, IdleEarly, IsReceipt, IsIdle
<1>8. QED BY <1>4, <1>5, <1>6, <1>7 DEF Placed
LEMMA AskedKeeps ==
  ASSUME IInv, Asked, [Next]_vars
  PROVE  Asked'
<1> USE DEF Callers
<1>1. at \in [Callers -> {"new", "register", "write", "select", "interval", "wait", "done"}]
  BY DEF IInv, Types, TypeOK
<1>2. CASE /\ UNCHANGED <<requests, received, rested, alive, closing>>
           /\ \A p \in Prompts : at'[p] \in {"new", "register", "write"} =>
                                   at[p] \in {"new", "register", "write"}
  BY <1>2 DEF Asked
<1>3. CASE \E c \in Callers : CallStep(c)
  <2>1. PICK c \in Callers : CallStep(c) BY <1>3
  <2>2. UNCHANGED <<received, rested, alive, closing>>
    BY <2>1 DEF CallStep, Register, Write, Respond, StopWaiting, server, shut
  <2>3. CASE Write(c) /\ requests' = requests \cup {c} /\ Goto(c, "write", "select")
    BY <1>1, <2>2, <2>3 DEF Asked, Goto
  <2>4. CASE requests' = requests
    <3>1. \E from \in {"register", "write", "select"}, to \in {"write", "select", "interval", "done"} :
            Goto(c, from, to) /\ (to = "write" => from = "register")
      BY <2>1, <2>4 DEF CallStep, Register, Write, Respond, StopWaiting, Return
    <3>2. QED BY <1>1, <2>2, <2>4, <3>1, <1>2 DEF Goto
  <2>5. QED BY <2>1, <2>3, <2>4 DEF CallStep, Register, Write, Respond, StopWaiting, server
<1>4. CASE \E p \in Prompts : Listen(p)
  BY <1>1, <1>2, <1>4 DEF Listen, Goto, server, shut
<1>5. CASE \E p \in Prompts : NextItem(p) \/ NoItem(p) \/ Wake(p) \/ Drain(p) \/ IntervalCtx(p)
  <2>1. PICK p \in Prompts : NextItem(p) \/ NoItem(p) \/ Wake(p) \/ Drain(p) \/ IntervalCtx(p)
    BY <1>5
  <2>2. UNCHANGED <<requests, received, rested, alive, closing>>
    BY <2>1 DEF NextItem, NoItem, Wake, Drain, IntervalCtx, server, shut
  <2>3. \E from, to \in {"interval", "wait", "done"} : Goto(p, from, to)
    BY <2>1 DEF NextItem, NoItem, Wake, Drain, IntervalCtx, Take, Return
  <2>4. QED BY <1>1, <1>2, <2>2, <2>3 DEF Goto
<1>6. CASE ReadLine \/ SendReply \/ Signal \/ ReadEnds \/ \E p \in Prompts : Push(p)
  BY <1>2, <1>6 DEF ReadLine, SendReply, Send, Signal, ReadEnds, Push, caller, server, shut
<1>7. CASE ShutStep
  <2>1. UNCHANGED <<at, requests, received, rested>>
    BY <1>7 DEF ShutStep, CloseBegin, CloseStdin, Kill, CloseReturn, Exit, EndContext, client,
                caller, server
  <2>2. closing' = "closed" => ~alive'
    BY <1>7 DEF ShutStep, CloseBegin, CloseStdin, Kill, CloseReturn, Exit, EndContext, client,
                server, shut, Asked
  <2>3. QED BY <2>1, <2>2 DEF Asked
<1>8. CASE ServerStep
  <2>1. UNCHANGED <<at, requests, alive, closing>>
    BY <1>8 DEF ServerStep, Answer, Receipt, Rest, Chatter, Notify, client, caller, shut
  <2>2. received' \subseteq requests /\ rested' \subseteq received'
    BY <1>8 DEF ServerStep, Answer, Receipt, Rest, Chatter, Asked
  <2>3. QED BY <2>1, <2>2 DEF Asked
<1>9. CASE UNCHANGED vars BY <1>2, <1>9 DEF vars, caller, server, shut
<1>10. QED
  BY <1>3, <1>4, <1>5, <1>6, <1>7, <1>8, <1>9 DEF Next, CallStep, ShutStep, ServerStep

LEMMA PlacedKeeps ==
  ASSUME EndInv, [Next]_vars
  PROVE  Placed'
<1> USE DEF Callers, EndInv
<1>1. Types /\ listeners \subseteq Prompts BY DEF IInv, Types, TypeOK
<1>2. CASE UNCHANGED <<received, rested, open, wire, items, reader>> /\ listeners' \subseteq listeners
  BY <1>1, <1>2, AheadStays, PlacedMoves
<1>3. CASE \E c \in Callers : CallStep(c)
  <2>1. PICK c \in Callers : CallStep(c) BY <1>3
  <2>2. listeners' \subseteq listeners
    BY <2>1 DEF CallStep, Register, Write, Respond, StopWaiting, Return, table
  <2>3. QED
    BY <1>2, <2>1, <2>2
    DEF CallStep, Register, Write, Respond, StopWaiting, queues, reading, server
<1>4. CASE \E p \in Prompts : Listen(p)
  <2>1. PICK p \in Prompts : Listen(p) BY <1>4
  <2>2. /\ listeners' = listeners \cup {p} /\ at[p] = "new"
        /\ UNCHANGED <<received, rested, open, wire, items, reader>>
    BY <2>1 DEF Listen, Goto, queues, reading, server
  <2>3. p \notin received BY <2>2 DEF Asked
  <2>4. QED BY <1>1, <2>2, <2>3, AheadStays, PlacedMoves
<1>5. CASE \E p \in Prompts : NoItem(p) \/ Wake(p) \/ IntervalCtx(p)
  BY <1>2, <1>5 DEF NoItem, Wake, IntervalCtx, Return, table, queues, reading, server
<1>6. CASE \E p \in Prompts : NextItem(p)
  BY <1>6, PlacedTake DEF NextItem, reading, server
<1>7. CASE \E p \in Prompts : Drain(p)
  <2>1. PICK p \in Prompts : Drain(p) BY <1>7
  <2>2. CASE Take(p, "wait") BY <2>1, <2>2, PlacedTake DEF Drain, reading, server
  <2>3. CASE Return(p, "wait", "ErrTransport") /\ UNCHANGED <<items, open, got>>
    BY <1>2, <2>1, <2>3 DEF Drain, Return, reading, server
  <2>4. QED BY <2>1, <2>2, <2>3 DEF Drain
<1>8. CASE ReadLine \/ SendReply \/ Signal \/ ReadEnds \/ \E p \in Prompts : Push(p)
  <2>1. UNCHANGED <<received, rested, open, listeners>>
    BY <1>8 DEF ReadLine, SendReply, Send, Signal, ReadEnds, Push, table, server
  <2>2. \A p \in Prompts : /\ Ahead(p)' \subseteq Ahead(p)
                           /\ p \in listeners => Ahead(p)' = Ahead(p)
    BY <1>1, <1>8, AheadReadLine, AheadReads, AheadSignal, AheadPush
  <2>3. QED BY <1>1, <2>1, <2>2, PlacedMoves
<1>9. CASE ShutStep
  BY <1>2, <1>9 DEF ShutStep, CloseBegin, CloseStdin, Kill, CloseReturn, Exit, EndContext,
                    client, table, queues, reading, server
<1>10. CASE \E c \in Callers, body \in Bodies : Answer(c, body)
  <2>1. PICK c \in Callers, body \in Bodies : Answer(c, body) BY <1>10
  <2>2. UNCHANGED <<received, rested, open, listeners>> BY <2>1 DEF Answer, client, table
  <2>3. \A p \in Prompts : Ahead(p)' = Ahead(p) BY <1>1, <2>1, AheadAnswer
  <2>4. QED BY <1>1, <2>2, <2>3, PlacedMoves
<1>11. CASE \E p \in Prompts : Receipt(p) BY <1>11, PlacedReceipt
<1>12. CASE \E s \in Sessions : Rest(s) BY <1>12, PlacedRest
<1>13. CASE \E s \in Sessions : Chatter(s) BY <1>13, PlacedChatter
<1>14. CASE UNCHANGED vars
  BY <1>2, <1>14 DEF vars, table, queues, reading, server
<1>15. QED
  BY <1>3, <1>4, <1>5, <1>6, <1>7, <1>8, <1>9, <1>10, <1>11, <1>12, <1>13, <1>14
  DEF Next, CallStep, ShutStep

LEMMA EndInductive == Spec => []EndInv
<1>1. Init => Asked /\ Placed
  BY DEF Init, Callers, Asked, Placed, NoReceiptYet, ReceiptAhead, IdleLast, IdleEarly, Ahead,
         ToSet, HandedTo, Idle
<1>2. Init => EndInv BY <1>1, InitIInv DEF EndInv
<1>3. EndInv /\ [Next]_vars => EndInv'
  BY NextKeeps, AskedKeeps, PlacedKeeps DEF EndInv
<1>4. QED BY <1>2, <1>3, PTL DEF Spec

\* jsonrpc.go, Prompt: nothing that arrives before the response is lost.  Once
\* the agent has gone idle with the prompt's message received, the receipt and,
\* after it, that idle are still ahead of the waiting prompt, in its queue, in
\* readLoop's hands or on the wire.
THEOREM EndComes == Spec => []EndIsAhead
<1>1. ASSUME EndInv PROVE EndIsAhead
  <2>1. ASSUME NEW p \in rested, at[p] \in {"select", "interval", "wait"}
        PROVE  \E n \in Ahead(p) :
                 /\ IsIdle(n, p)
                 /\ p \in open \/ \E m \in Ahead(p) : IsReceipt(m, p) /\ m.n < n.n
    <3>1. p \in listeners /\ p \in received
      BY <1>1, <2>1 DEF EndInv, IInv, Types, TypeOK, Hooked, Asked
    <3>2. PICK e \in Ahead(p) : /\ IsIdle(e, p)
                                /\ \A m \in Ahead(p) : IsReceipt(m, p) => m.n < e.n
      BY <1>1, <2>1, <3>1 DEF EndInv, Placed, IdleLast
    <3>3. p \in open \/ \E m \in Ahead(p) : IsReceipt(m, p)
      BY <1>1, <3>1 DEF EndInv, Placed, ReceiptAhead
    <3>4. QED BY <3>2, <3>3
  <2>2. QED BY <2>1 DEF EndIsAhead
<1>2. QED BY <1>1, EndInductive, PTL
-----------------------------------------------------------------------------
(* The carrier's promise.  Every step of the three goroutines, of Close and *)
(* of the executable is a step of Carrier or changes nothing Carrier sees.  *)

Calls  == [p \in Prompts |-> CallOf(p)]
Works  == [p \in Prompts |-> WorkOf(p)]
Givens == [p \in Prompts |-> [i \in DOMAIN got[p] |-> got[p][i].n]]
IsOver == closing = "closed"

LEMMA InitPromise == Init => Promise!Init
<1> SUFFICES ASSUME Init PROVE Promise!Init
  OBVIOUS
<1> USE JsonRpcConstants DEF Callers
<1>1. \A p \in Prompts : CallOf(p) = "new" /\ WorkOf(p) = "none"
  BY DEF Init, CallOf, WorkOf
<1>2. Givens = [p \in Prompts |-> <<>>]
  <2>1. \A p \in Prompts : [i \in DOMAIN got[p] |-> got[p][i].n] = <<>> BY DEF Init
  <2>2. QED BY <2>1 DEF Givens
<1>3. sent = 0 /\ closing # "closed" BY DEF Init
<1>4. QED BY <1>1, <1>2, <1>3 DEF Promise!Init, Givens

\* A return of a prompt that is not a success.
LEMMA FailsPromise ==
  ASSUME Types, NEW p \in Prompts, NEW from, NEW o, Return(p, from, o), o # "ok",
         from \notin {"new", "done"},
         UNCHANGED <<got, received, rested, sent, closing>>
  PROVE  Promise!Return(p, "error")
<1> USE DEF Callers
<1>1. /\ at[p] = from /\ at' = [at EXCEPT ![p] = "done"]
      /\ outcome' = [outcome EXCEPT ![p] = o]
      /\ at \in [Callers -> {"new", "register", "write", "select", "interval", "wait", "done"}]
      /\ outcome \in [Callers -> Outcomes]
  BY DEF Return, Goto, Types, TypeOK
<1>2. Calls[p] = "called" /\ Calls' = [Calls EXCEPT ![p] = "error"]
  <2>1. CallOf(p) = "called" /\ CallOf(p)' = "error" BY <1>1 DEF CallOf
  <2>2. \A q \in Prompts \ {p} : CallOf(q)' = CallOf(q) BY <1>1 DEF CallOf
  <2>3. QED BY <2>1, <2>2 DEF Calls
<1>3. UNCHANGED <<Works, Givens>> BY DEF Works, WorkOf, Givens
<1>4. QED BY <1>2, <1>3 DEF Promise!Return, Calls, Works, Givens
\* Steps Carrier does not see.
LEMMA Unseen ==
  ASSUME UNCHANGED <<got, received, rested, sent, IsOver>>,
         \A p \in Prompts : CallOf(p)' = CallOf(p)
  PROVE  UNCHANGED Promise!vars
<1>1. UNCHANGED <<Calls, Works, Givens>> BY DEF Calls, Works, WorkOf, Givens
<1>2. QED BY <1>1 DEF Promise!vars, Calls, Works, Givens, IsOver

LEMMA MovesUnseen ==
  ASSUME Types, NEW p \in Callers, NEW from, NEW to, Goto(p, from, to),
         {from, to} \cap {"new", "done"} = {},
         UNCHANGED <<outcome, got, received, rested, sent, closing>>
  PROVE  UNCHANGED Promise!vars
<1>1. at[p] = from /\ at' = [at EXCEPT ![p] = to] /\ \A q \in Prompts : q \in DOMAIN at
  BY DEF Goto, Types, TypeOK, Callers
<1>2. \A q \in Prompts : CallOf(q)' = CallOf(q) BY <1>1 DEF CallOf
<1>3. QED BY <1>2, Unseen DEF IsOver

LEMMA CallPromise ==
  ASSUME Types, NEW c \in Callers, CallStep(c)
  PROVE  [Promise!Next]_(Promise!vars)
<1> USE DEF Callers
<1>1. UNCHANGED <<got, received, rested, sent, closing>>
  BY DEF CallStep, Register, Write, Respond, StopWaiting, server, shut
<1>2. CASE \E from \in {"register", "write", "select"}, o \in Outcomes :
             Return(c, from, o) /\ (c \in Prompts => o # "ok")
  <2>1. PICK from \in {"register", "write", "select"}, o \in Outcomes :
          Return(c, from, o) /\ (c \in Prompts => o # "ok")
    BY <1>2
  <2>2. CASE c \in Prompts
    <3>1. Promise!Return(c, "error") BY <1>1, <2>1, <2>2, FailsPromise
    <3>2. QED BY <2>2, <3>1 DEF Promise!Next, Promise!Returns
  <2>3. CASE c \notin Prompts
    <3>1. \A p \in Prompts : at'[p] = at[p] /\ outcome'[p] = outcome[p]
      BY <2>1, <2>3 DEF Return, Goto, Types, TypeOK
    <3>2. \A p \in Prompts : CallOf(p)' = CallOf(p) BY <3>1 DEF CallOf
    <3>3. QED BY <1>1, <3>2, Unseen DEF IsOver
  <2>4. QED BY <2>2, <2>3
<1>3. CASE \E from \in {"register", "write", "select"}, to \in {"write", "select", "interval"} :
             Goto(c, from, to) /\ outcome' = outcome
  BY <1>1, <1>3, MovesUnseen
<1>4. QED
  <2>1. CASE Register(c) BY <2>1, <1>2, <1>3 DEF Register, Outcomes
  <2>2. CASE Write(c) BY <2>2, <1>2, <1>3 DEF Write, Outcomes
  <2>3. CASE Respond(c) BY <2>3, <1>2, <1>3, JsonRpcConstants DEF Respond, Outcomes
  <2>4. CASE StopWaiting(c) BY <2>4, <1>2 DEF StopWaiting, Outcomes
  <2>5. QED BY <2>1, <2>2, <2>3, <2>4 DEF CallStep

LEMMA ListenPromise ==
  ASSUME Types, NEW p \in Prompts, Listen(p)
  PROVE  Promise!Call(p)
<1>1. /\ at[p] = "new" /\ at' = [at EXCEPT ![p] = "register"]
      /\ UNCHANGED <<outcome, got, received, rested, sent, closing>>
      /\ \A q \in Prompts : q \in DOMAIN at
  BY DEF Listen, Goto, shut, server, Types, TypeOK, Callers
<1>2. Calls[p] = "new" /\ Calls' = [Calls EXCEPT ![p] = "called"]
  <2>1. CallOf(p) = "new" /\ CallOf(p)' = "called" BY <1>1 DEF CallOf
  <2>2. \A q \in Prompts \ {p} : CallOf(q)' = CallOf(q) BY <1>1 DEF CallOf
  <2>3. QED BY <2>1, <2>2 DEF Calls
<1>3. UNCHANGED <<Works, Givens>> BY <1>1 DEF Works, WorkOf, Givens
<1>4. QED BY <1>1, <1>2, <1>3 DEF Promise!Call, Calls, Works, Givens

\* The numbers of a sequence of notices.
LEMMA Numbers ==
  ASSUME NEW g \in Seq(Notices), NEW n \in Notices
  PROVE  LET num == [i \in DOMAIN g |-> g[i].n]
             h   == Append(g, n) IN
         /\ num \in Seq(Nat) /\ Len(num) = Len(g)
         /\ [i \in DOMAIN h |-> h[i].n] = Append(num, n.n)
<1> DEFINE num == [i \in DOMAIN g |-> g[i].n]
           h   == Append(g, n)
<1> PICK k \in Nat : k = Len(g) OBVIOUS
<1>1. /\ DOMAIN g = 1..k /\ DOMAIN h = 1..k + 1
      /\ h[k + 1] = n /\ \A i \in 1..k : h[i] = g[i]
  OBVIOUS
<1>2. n.n \in Nat /\ \A i \in 1..k : g[i].n \in Nat
  <2>1. \A i \in 1..k : g[i] \in Notices BY <1>1
  <2>2. QED BY <2>1 DEF Notices
<1>3. num \in [1..k -> Nat] BY <1>1, <1>2
<1>4. num \in Seq(Nat) /\ Len(num) = k BY <1>3
<1> DEFINE t == Append(num, n.n)
<1>5. /\ t \in [1..k + 1 -> Nat] /\ t[k + 1] = n.n /\ \A i \in 1..k : t[i] = num[i]
  <2> HIDE DEF num
  <2>1. t \in Seq(Nat) /\ Len(t) = k + 1 BY <1>2, <1>4
  <2>2. t[k + 1] = n.n /\ \A i \in 1..k : t[i] = num[i] BY <1>2, <1>4
  <2> HIDE DEF t
  <2>3. t \in [1..k + 1 -> Nat] BY <2>1
  <2>4. QED BY <2>2, <2>3
<1>6. \A i \in 1..k + 1 : t[i] = h[i].n
  <2>1. \A i \in 1..k : t[i] = h[i].n BY <1>1, <1>5
  <2>2. \A i \in 1..k + 1 : i \in 1..k \/ i = k + 1 OBVIOUS
  <2>3. QED BY <1>1, <1>5, <2>1, <2>2
<1>7. [i \in DOMAIN h |-> h[i].n] = t
  <2> HIDE DEF t, h
  <2>1. QED BY <1>1, <1>5, <1>6
<1>8. QED BY <1>4, <1>7

\* What a prompt is given next is younger than what it was given last.
LEMMA GivesNext ==
  ASSUME IInv, NEW p \in listeners, items[p] # <<>>, UNCHANGED sent,
         got' = [got EXCEPT ![p] = Append(got[p], Head(items[p]))]
  PROVE  Promise!Gives(p)
<1> DEFINE n == Head(items[p])
           g == got[p]
<1>1. /\ p \in Prompts /\ got \in [Prompts -> Seq(Notices)] /\ items[p] \in Seq(Notices)
      /\ n \in Notices /\ g \in Seq(Notices) /\ sent \in Nat
  BY DEF IInv, Types, TypeOK
<1>2. /\ n \in Ahead(p) /\ n.n \in 0..sent
  <2>1. n \in ToSet(items[p])
    <3>1. n = items[p][1] /\ 1 \in DOMAIN items[p] BY <1>1
    <3>2. QED BY <3>1 DEF ToSet
  <2>2. n \in Ahead(p) BY <2>1 DEF Ahead
  <2>3. QED BY <1>1, <2>2, AheadOrder
<1>3. g # <<>> => Givens[p][Len(Givens[p])] < n.n
  <2>1. SUFFICES ASSUME g # <<>> PROVE Givens[p][Len(Givens[p])] < n.n
    OBVIOUS
  <2>2. PICK l \in 0..sent : Window(p, l) BY DEF IInv, InStep
  <2>3. p \in open BY <1>1, <2>1 DEF IInv, Opens
  <2>4. Due(p, l) \in Int BY <1>1, <2>2 DEF Due
  <2>5. /\ Len(items[p]) \in Nat /\ 1 \in DOMAIN items[p] /\ n = items[p][1] BY <1>1
  <2>6. g[Len(g)].n = Due(p, l) - Len(items[p]) /\ n.n = Due(p, l) - Len(items[p]) + 1
    BY <2>2, <2>3, <2>5 DEF Window
  <2>7. Len(g) \in DOMAIN g BY <1>1, <2>1
  <2>8. Givens[p] = [i \in DOMAIN g |-> g[i].n] BY <1>1 DEF Givens
  <2>9. Len(Givens[p]) = Len(g) BY <1>1, <2>8, Numbers
  <2>10. Givens[p][Len(Givens[p])] = g[Len(g)].n BY <2>7, <2>8, <2>9
  <2>11. QED BY <2>4, <2>5, <2>6, <2>10
<1>4. Givens' = [Givens EXCEPT ![p] = Append(Givens[p], n.n)]
  <2>1. Givens'[p] = Append(Givens[p], n.n)
    <3>1. got'[p] = Append(g, n) BY <1>1
    <3>2. Givens'[p] = [i \in DOMAIN Append(g, n) |-> Append(g, n)[i].n]
      BY <1>1, <3>1 DEF Givens
    <3>3. Givens[p] = [i \in DOMAIN g |-> g[i].n] BY <1>1 DEF Givens
    <3>4. QED BY <1>1, <3>2, <3>3, Numbers
  <2>2. \A q \in Prompts \ {p} : got'[q] = got[q] BY <1>1
  <2>3. QED BY <1>1, <2>1, <2>2 DEF Givens
<1>5. g = <<>> => Givens[p] = <<>>
  <2>1. g = <<>> => Givens[p] = [i \in {} |-> g[i].n] BY <1>1 DEF Givens
  <2>2. [i \in {} |-> g[i].n] = <<>> OBVIOUS
  <2>3. QED BY <2>1, <2>2
<1>6. QED BY <1>2, <1>3, <1>4, <1>5 DEF Promise!Gives, Promise!Younger, Givens
\* An item taken is skipped, given, or given as the end of the interval; and
\* it ends no interval before the agent was idle with the message received.
LEMMA TakePromise ==
  ASSUME EndInv, NEW p \in Prompts, NEW from \in {"interval", "wait"}, Take(p, from),
         UNCHANGED <<received, rested, sent, closing>>
  PROVE  [Promise!Next]_(Promise!vars)
<1> USE DEF Callers, EndInv
<1> DEFINE n == Head(items[p])
<1>1. /\ at \in [Callers -> {"new", "register", "write", "select", "interval", "wait", "done"}]
      /\ outcome \in [Callers -> Outcomes] /\ at[p] = from /\ items[p] # <<>>
      /\ p \in listeners
  BY DEF Take, Goto, Return, IInv, Types, TypeOK, Hooked
<1>2. CASE p \notin open /\ ~IsReceipt(n, p)
  <2>1. Goto(p, from, "interval") /\ UNCHANGED <<outcome, got>>
    BY <1>2 DEF Take
  <2>2. UNCHANGED Promise!vars BY <2>1, MovesUnseen DEF IInv
  <2>3. QED BY <2>2
<1>3. CASE p \in open \/ IsReceipt(n, p)
  <2>1. got' = [got EXCEPT ![p] = Append(got[p], n)] BY <1>3 DEF Take
  <2>2. Promise!Gives(p) BY <1>1, <2>1, GivesNext
  <2>3. UNCHANGED Works BY DEF Works, WorkOf
  <2>4. CASE ~IsIdle(n, p)
    <3>1. at' = [at EXCEPT ![p] = "interval"] /\ UNCHANGED outcome
      BY <1>1, <1>3, <2>4 DEF Take, Goto
    <3>2. \A q \in Prompts : CallOf(q)' = CallOf(q) BY <1>1, <3>1 DEF CallOf
    <3>3. Calls' = Calls /\ Calls[p] = "called"
      BY <1>1, <3>2 DEF Calls, CallOf
    <3>4. Promise!Notify(p)
      BY <2>2, <2>3, <3>3 DEF Promise!Notify, Calls, Works
    <3>5. QED BY <3>4 DEF Promise!Next
  <2>5. CASE IsIdle(n, p)
    <3>1. /\ at' = [at EXCEPT ![p] = "done"] /\ outcome' = [outcome EXCEPT ![p] = "ok"]
      BY <1>1, <1>3, <2>5 DEF Take, Goto, Return
    <3>2. p \in rested
      <4>1. p \in open BY <1>3, <2>5 DEF IsIdle, IsReceipt
      <4>2. n \in Ahead(p) BY AheadTake, <1>1, AheadOrder DEF Ahead, ToSet, IInv, Types
      <4>3. QED BY <1>1, <2>5, <4>1, <4>2 DEF Placed, IdleEarly
    <3>3. Calls[p] = "called" /\ Calls' = [Calls EXCEPT ![p] = "ok"]
      <4>1. CallOf(p) = "called" /\ CallOf(p)' = "ok" BY <1>1, <3>1 DEF CallOf
      <4>2. \A q \in Prompts \ {p} : CallOf(q)' = CallOf(q) BY <1>1, <3>1 DEF CallOf
      <4>3. QED BY <4>1, <4>2 DEF Calls
    <3>4. Works[p] = "idle" BY <3>2 DEF Works, WorkOf
    <3>5. Promise!Return(p, "ok")
      BY <2>2, <2>3, <3>3, <3>4 DEF Promise!Return, Calls, Works
    <3>6. QED BY <3>5 DEF Promise!Next, Promise!Returns
  <2>6. QED BY <2>4, <2>5
<1>4. QED BY <1>2, <1>3

LEMMA ServerPromise ==
  ASSUME EndInv, ServerStep
  PROVE  [Promise!Next]_(Promise!vars)
<1> USE DEF EndInv
<1>1. /\ UNCHANGED <<at, outcome, got, closing, requests>> /\ alive
      /\ Calls' = Calls /\ Givens' = Givens /\ closing # "closed"
  <2>1. UNCHANGED <<at, outcome, got, closing, requests>> /\ alive
    BY DEF ServerStep, Answer, Receipt, Rest, Chatter, Notify, client, caller, shut
  <2>2. QED BY <2>1 DEF Calls, CallOf, Givens, Asked
<1>2. sent \in Nat BY DEF IInv, Types
<1>3. CASE \E c \in Callers, body \in Bodies : Answer(c, body)
  <2>1. UNCHANGED <<received, rested, sent>> BY <1>3 DEF Answer
  <2>2. \A p \in Prompts : CallOf(p)' = CallOf(p) BY <1>1 DEF CallOf
  <2>3. QED BY <1>1, <2>1, <2>2, Unseen DEF IsOver
<1>4. CASE \E p \in Prompts : Receipt(p)
  <2>1. PICK p \in Prompts : Receipt(p) BY <1>4
  <2>2. /\ p \in requests /\ p \notin received /\ received' = received \cup {p}
        /\ rested' = rested /\ sent' = sent + 1
    BY <2>1 DEF Receipt, Notify
  <2>3. p \notin rested /\ at[p] # "new" BY <2>2 DEF Asked
  <2>4. Works[p] = "none" /\ Works' = [Works EXCEPT ![p] = "received"]
    <3>1. WorkOf(p) = "none" /\ WorkOf(p)' = "received" BY <2>2, <2>3 DEF WorkOf
    <3>2. \A q \in Prompts \ {p} : WorkOf(q)' = WorkOf(q) BY <2>2 DEF WorkOf
    <3>3. QED BY <3>1, <3>2 DEF Works
  <2>5. Calls[p] # "new" BY <2>3 DEF Calls, CallOf
  <2>6. Promise!Receive(p)
    BY <1>1, <1>2, <2>2, <2>4, <2>5 DEF Promise!Receive, Promise!Sends, Calls, Works, Givens
  <2>7. QED BY <2>6 DEF Promise!Next
<1>5. CASE \E s \in Sessions : Rest(s)
  <2>1. PICK s \in Sessions : Rest(s) BY <1>5
  <2>2. /\ rested' = rested \cup {p \in received : SessionOf[p] = s}
        /\ received' = received /\ sent' = sent + 1
    BY <2>1 DEF Rest, Notify
  <2>3. Works' = [p \in Prompts |-> IF SessionOf[p] = s /\ Works[p] = "received"
                                    THEN "idle" ELSE Works[p]]
    BY <2>2 DEF Works, WorkOf
  <2>4. Promise!GoIdle(s)
    BY <1>1, <1>2, <2>2, <2>3 DEF Promise!GoIdle, Promise!Sends, Calls, Works, Givens
  <2>5. QED BY <2>4 DEF Promise!Next
<1>6. CASE \E s \in Sessions : Chatter(s)
  <2>1. UNCHANGED <<received, rested>> /\ sent' = sent + 1 BY <1>6 DEF Chatter, Notify
  <2>2. Works' = Works BY <2>1 DEF Works, WorkOf
  <2>3. Promise!Send
    BY <1>1, <1>2, <2>1, <2>2 DEF Promise!Send, Promise!Sends, Calls, Works, Givens
  <2>4. QED BY <2>3 DEF Promise!Next
<1>7. QED BY <1>3, <1>4, <1>5, <1>6 DEF ServerStep

LEMMA NextPromise ==
  ASSUME EndInv, [Next]_vars
  PROVE  [Promise!Next]_(Promise!vars)
<1> USE DEF EndInv
<1>1. Types BY DEF IInv
<1>2. CASE UNCHANGED <<at, outcome, got, received, rested, sent, IsOver>>
  <2>1. \A p \in Prompts : CallOf(p)' = CallOf(p) BY <1>2 DEF CallOf
  <2>2. QED BY <1>2, <2>1, Unseen
<1>3. CASE \E c \in Callers : CallStep(c) BY <1>1, <1>3, CallPromise
<1>4. CASE \E p \in Prompts : Listen(p)
  <2>1. \E p \in Prompts : Promise!Call(p) BY <1>1, <1>4, ListenPromise
  <2>2. QED BY <2>1 DEF Promise!Next
<1>5. CASE \E p \in Prompts : NextItem(p)
  BY <1>5, TakePromise DEF NextItem, server, shut
<1>6. CASE \E p \in Prompts : NoItem(p) \/ Wake(p)
  <2>1. PICK p \in Prompts : NoItem(p) \/ Wake(p) BY <1>6
  <2>2. \E from, to \in {"interval", "wait"} : Goto(p, from, to)
    BY <2>1 DEF NoItem, Wake
  <2>3. UNCHANGED <<outcome, got, received, rested, sent, closing>>
    BY <2>1 DEF NoItem, Wake, server, shut
  <2>4. QED BY <1>1, <2>2, <2>3, MovesUnseen DEF Callers
<1>7. CASE \E p \in Prompts : IntervalCtx(p) \/ (Drain(p) /\ ~Take(p, "wait"))
  <2>1. PICK p \in Prompts : IntervalCtx(p) \/ (Drain(p) /\ ~Take(p, "wait")) BY <1>7
  <2>2. /\ \E o \in {"ctx", "ErrTransport"} : Return(p, "wait", o)
        /\ UNCHANGED <<got, received, rested, sent, closing>>
    BY <2>1 DEF IntervalCtx, Drain, server, shut
  <2>3. Promise!Return(p, "error") BY <1>1, <2>2, FailsPromise
  <2>4. QED BY <2>3 DEF Promise!Next, Promise!Returns
<1>8. CASE \E p \in Prompts : Drain(p) /\ Take(p, "wait")
  BY <1>8, TakePromise DEF Drain, server, shut
<1>9. CASE ReadLine \/ SendReply \/ Signal \/ ReadEnds \/ \E p \in Prompts : Push(p)
  BY <1>2, <1>9 DEF ReadLine, SendReply, Send, Signal, ReadEnds, Push, caller, server, shut, IsOver
<1>10. CASE CloseReturn
  <2>1. UNCHANGED <<at, outcome, got, received, rested, sent>> /\ IsOver'
    BY <1>10 DEF CloseReturn, caller, server, IsOver
  <2>2. UNCHANGED <<Calls, Works, Givens>> BY <2>1 DEF Calls, CallOf, Works, WorkOf, Givens
  <2>3. Promise!Close BY <2>1, <2>2 DEF Promise!Close, Calls, Works, Givens, IsOver
  <2>4. QED BY <2>3 DEF Promise!Next
<1>11. CASE CloseBegin \/ CloseStdin \/ Kill \/ Exit \/ \E c \in Callers : EndContext(c)
  BY <1>2, <1>11 DEF CloseBegin, CloseStdin, Kill, Exit, EndContext, client, caller, server,
                     shut, IsOver
<1>12. CASE ServerStep BY <1>12, ServerPromise
<1>13. CASE UNCHANGED vars BY <1>2, <1>13 DEF vars, caller, server, shut, IsOver
<1>14. QED
  BY <1>3, <1>4, <1>5, <1>6, <1>7, <1>8, <1>9, <1>10, <1>11, <1>12, <1>13
  DEF Next, CallStep, ServerStep

\* sdk/jsonrpc.go implements sdk.Carrier: whatever the interleaving of the
\* goroutines and the traffic on the pipes, Prompt succeeds only after the agent
\* went idle with its message received, gives its sink the notifications in
\* order, calls no sink after it returned, and nothing is done after Close.
THEOREM JsonRpcIsACarrier == Spec => ImplementsCarrier
<1>1. EndInv /\ [Next]_vars => [Promise!Next]_(Promise!vars) BY NextPromise
<1>2. QED BY <1>1, InitPromise, EndInductive, PTL DEF Spec, ImplementsCarrier, Promise!Spec
=============================================================================
