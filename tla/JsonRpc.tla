------------------------------- MODULE JsonRpc -------------------------------
(***************************************************************************)
(* sdk/jsonrpc.go: the carrier that drives a harness executable over its   *)
(* stdin and stdout.  Prompts call from goroutines of their own; readLoop  *)
(* is the one reader of stdout; the executable (external: how the code     *)
(* uses it) answers requests, reports the durable receipt of a message and *)
(* the idle of a session, in orders the code does not control, and may     *)
(* exit at any moment.                                                     *)
(*                                                                         *)
(* Start's handshake is one more call, made by Opener.                     *)
(***************************************************************************)
EXTENDS Sequences, Naturals, FiniteSets, SequencesExt

CONSTANTS
  Prompts, Opener, Sessions,
  SessionOf,     \* the session of each prompt
  None,
  MaxChatter,    \* bound: notifications about other work
  Repeated,      \* callers whose request may be answered more than once,
  MaxAnswers,    \* and how often
  Bodies         \* what a response may say

Callers == Prompts \cup {Opener}

ASSUME JsonRpcConstants ==
  /\ Opener \notin Prompts
  /\ None \notin Callers
  /\ SessionOf \in [Prompts -> Sessions]
  /\ MaxChatter \in Nat
  /\ Repeated \subseteq Callers /\ MaxAnswers \in Nat \ {0}
  /\ Bodies \subseteq {"ok", "error", "bad"}

VARIABLES
  at, outcome,   \* where each caller is, and what it returned
  ctxDone,       \* callers whose context has ended
  pending,       \* c.pending: the ids waiting for a response
  reply,         \* the response channel of each call, of capacity 1
  listeners,     \* c.listeners: the prompts whose queue is hooked
  items, signal, \* each prompt's notificationQueue
  open,          \* prompts that have seen their own receipt
  got,           \* the notifications each prompt gave its sink
  reader,        \* readLoop: where it is, the message, the hooks left to call
  readDone,      \* has c.readDone been closed?
  closed,        \* c.closed
  closing,       \* how far Close is
  stdin,         \* is c.stdin open?
  \* the executable
  alive, wire,   \* is it running; the lines it wrote and nobody read yet
  requests,      \* requests it has read
  answers,       \* how many responses it has sent to each
  received,      \* prompts whose receipt it has sent
  busy,          \* sessions at work since their last idle
  rested,        \* prompts whose session went idle after their receipt (recorded
                 \* for the properties)
  sent           \* how many notifications it has sent (numbers them)

caller  == <<at, outcome>>
table   == <<pending, listeners>>
queues  == <<items, signal>>
reading == <<reader, readDone>>
shut    == <<closed, closing, stdin>>
server  == <<alive, wire, requests, answers, received, busy, rested, sent>>
vars == <<caller, ctxDone, table, reply, queues, open, got, reading, shut, server>>

Outcomes == {"none", "ok", "rpcError", "ErrProtocol", "ErrClosed", "ErrTransport", "ctx"}
Idle     == [at |-> "read", msg |-> None, hooks |-> {}, to |-> None]

TypeOK ==
  /\ at \in [Callers -> {"new", "register", "write", "select", "interval",
                         "wait", "done"}]
  /\ outcome \in [Callers -> Outcomes]
  /\ ctxDone \subseteq Callers /\ pending \subseteq Callers
  /\ listeners \subseteq Prompts /\ open \subseteq Prompts
  /\ reply \in [Callers -> {"empty", "ok", "error", "bad"}]
  /\ signal \in [Prompts -> BOOLEAN]
  /\ reader.at \in {"read", "send", "push", "signal", "ended"}
  /\ reader.hooks \subseteq Prompts
  /\ readDone \in BOOLEAN /\ closed \in BOOLEAN
  /\ closing \in {"open", "flagged", "waiting", "killing", "closed"}
  /\ stdin \in BOOLEAN /\ alive \in BOOLEAN
  /\ requests \subseteq Callers /\ received \subseteq Prompts
  /\ busy \subseteq Sessions /\ rested \subseteq Prompts

\* A session may be at work on a message whose caller has left.
Init ==
  /\ at = [c \in Callers |-> IF c = Opener THEN "register" ELSE "new"]
  /\ outcome = [c \in Callers |-> "none"]
  /\ ctxDone = {} /\ pending = {} /\ listeners = {} /\ open = {}
  /\ reply = [c \in Callers |-> "empty"]
  /\ items = [p \in Prompts |-> <<>>]
  /\ signal = [p \in Prompts |-> FALSE]
  /\ got = [p \in Prompts |-> <<>>]
  /\ reader = Idle
  /\ readDone = FALSE /\ closed = FALSE
  /\ closing = "open"
  /\ stdin = TRUE /\ alive = TRUE
  /\ wire = <<>>
  /\ requests = {} /\ received = {} /\ rested = {}
  /\ busy \in SUBSET Sessions
  /\ answers = [c \in Callers |-> 0]
  /\ sent = 0

-----------------------------------------------------------------------------
(* call, which Start and Prompt go through.                                *)

Goto(c, from, to) == at[c] = from /\ at' = [at EXCEPT ![c] = to]

\* A return runs the deferred functions: the id and the hook are forgotten.
Return(c, from, o) ==
  /\ Goto(c, from, "done")
  /\ outcome' = [outcome EXCEPT ![c] = o]
  /\ pending' = pending \ {c}
  /\ listeners' = listeners \ {c}

\* Prompt hooks its queue before it sends anything.
Unhooked(p) ==   \* mutant: the hook is forgotten
  /\ outcome[Opener] = "ok"
  /\ Goto(p, "new", "register")
  /\ UNCHANGED <<outcome, ctxDone, table, reply, queues, open, got, reading,
                 shut, server>>
Listen(p) ==
  /\ outcome[Opener] = "ok"
  /\ Goto(p, "new", "register")
  /\ listeners' = listeners \cup {p}
  /\ UNCHANGED <<outcome, ctxDone, pending, reply, queues, open, got, reading,
                 shut, server>>

Register(c) ==
  /\ \/ closed /\ Return(c, "register", "ErrClosed")
     \/ /\ ~closed
        /\ Goto(c, "register", "write")
        /\ pending' = pending \cup {c}
        /\ UNCHANGED <<outcome, listeners>>
  /\ UNCHANGED <<ctxDone, reply, queues, open, got, reading, shut, server>>

\* A write to a runtime that does not read its stdin does not return, and holds
\* the mutex the other writes wait for, until the pipe breaks.
Broken == ~stdin \/ ~alive
Write(c) ==
  /\ \/ /\ ~Broken
        /\ Goto(c, "write", "select")
        /\ requests' = requests \cup {c}
        /\ UNCHANGED <<outcome, table>>
     \/ /\ Broken
        /\ Return(c, "write", "ErrTransport")
        /\ UNCHANGED requests
  /\ UNCHANGED <<ctxDone, reply, queues, open, got, reading, shut, alive, wire,
                 answers, received, busy, rested, sent>>

\* The select of call.  A response starts a prompt's interval.
Respond(c) ==
  /\ reply[c] # "empty"
  /\ reply' = [reply EXCEPT ![c] = "empty"]
  /\ \/ reply[c] = "error" /\ Return(c, "select", "rpcError")
     \/ reply[c] = "bad" /\ c # Opener /\ Return(c, "select", "ErrProtocol")
     \/ reply[c] # "error" /\ c = Opener /\ Return(c, "select", "ok")
     \/ /\ reply[c] = "ok" /\ c # Opener
        /\ Goto(c, "select", "interval")
        /\ pending' = pending \ {c}
        /\ UNCHANGED <<outcome, listeners>>
  /\ UNCHANGED <<ctxDone, queues, open, got, reading, shut, server>>

DeafToTheTransport(c) ==   \* mutant: the select has no readDone case
  /\ c \in ctxDone /\ Return(c, "select", "ctx")
  /\ UNCHANGED <<ctxDone, reply, queues, open, got, reading, shut, server>>
StopWaiting(c) ==
  /\ \/ c \in ctxDone /\ Return(c, "select", "ctx")
     \/ readDone /\ Return(c, "select", "ErrTransport")
  /\ UNCHANGED <<ctxDone, reply, queues, open, got, reading, shut, server>>

-----------------------------------------------------------------------------
(* Prompt's interval, and notificationQueue.next.                          *)

AnyEvent(n, p) == n.kind # "idle"   \* mutant: anything is a receipt
IsReceipt(n, p) == n.kind = "receipt" /\ n.of = p
IsIdle(n, p)    == n.kind = "idle" /\ n.of = SessionOf[p]

\* Take the first item: skip it, give it to the sink, or end with it.
Take(p, from) ==
  LET n == Head(items[p]) IN
  /\ items[p] # <<>>
  /\ items' = [items EXCEPT ![p] = Tail(@)]
  /\ \/ /\ p \notin open /\ ~IsReceipt(n, p)
        /\ Goto(p, from, "interval")
        /\ UNCHANGED <<outcome, table, open, got>>
     \/ /\ p \in open \/ IsReceipt(n, p)
        /\ open' = open \cup {p}
        /\ got' = [got EXCEPT ![p] = Append(@, n)]
        /\ \/ IsIdle(n, p) /\ Return(p, from, "ok")
           \/ /\ ~IsIdle(n, p)
              /\ Goto(p, from, "interval")
              /\ UNCHANGED <<outcome, table>>

NextItem(p) ==
  /\ Take(p, "interval")
  /\ UNCHANGED <<ctxDone, reply, signal, reading, shut, server>>

NoItem(p) ==
  /\ items[p] = <<>>
  /\ Goto(p, "interval", "wait")
  /\ UNCHANGED <<outcome, ctxDone, table, reply, queues, open, got, reading,
                 shut, server>>

Wake(p) ==
  /\ signal[p]
  /\ signal' = [signal EXCEPT ![p] = FALSE]
  /\ Goto(p, "wait", "interval")
  /\ UNCHANGED <<outcome, ctxDone, table, reply, items, open, got, reading,
                 shut, server>>

\* The transport is gone: one more item if there is one, else the error.
Drain(p) ==
  /\ readDone
  /\ \/ Take(p, "wait")
     \/ /\ items[p] = <<>>
        /\ Return(p, "wait", "ErrTransport")
        /\ UNCHANGED <<items, open, got>>
  /\ UNCHANGED <<ctxDone, reply, signal, reading, shut, server>>

IntervalCtx(p) ==
  /\ p \in ctxDone
  /\ Return(p, "wait", "ctx")
  /\ UNCHANGED <<ctxDone, reply, queues, open, got, reading, shut, server>>

-----------------------------------------------------------------------------
(* readLoop and dispatch.                                                  *)

Message == Head(wire)
ReadLine ==
  /\ reader.at = "read"
  /\ wire # <<>>
  /\ wire' = Tail(wire)
  /\ reader' =
       IF Message.kind = "response"
       THEN IF Message.of \in pending
            THEN [Idle EXCEPT !.at = "send", !.msg = Message] ELSE Idle
       ELSE IF listeners # {}
            THEN [Idle EXCEPT !.at = "push", !.msg = Message, !.hooks = listeners]
            ELSE Idle
  /\ UNCHANGED <<caller, ctxDone, table, reply, queues, open, got, readDone, shut,
                 alive, requests, answers, received, busy, rested, sent>>

\* reply <- &message blocks while an earlier response is in the channel.
Send(body, next) ==
  LET c == reader.msg.of IN
  /\ reader.at = "send"
  /\ reply[c] = "empty"
  /\ reply' = [reply EXCEPT ![c] = body]
  /\ reader' = next
  /\ UNCHANGED <<caller, ctxDone, table, queues, open, got, readDone, shut, server>>

\* Mutants: the kind of the message for its body; a message sent twice.
SendAgain == Send(reader.msg.body, reader)
SendReply == Send(reader.msg.body, Idle)

\* push appends under the queue's mutex, then signals without blocking.
DropOnFull(p, n) ==   \* mutant: a bounded queue
  items' = IF items[p] = <<>> THEN [items EXCEPT ![p] = <<n>>] ELSE items
Enqueue(p, n) == items' = [items EXCEPT ![p] = Append(@, n)]

Push(p) ==
  /\ reader.at = "push"
  /\ p \in reader.hooks
  /\ Enqueue(p, reader.msg)
  /\ reader' = [reader EXCEPT !.at = "signal", !.hooks = @ \ {p}, !.to = p]
  /\ UNCHANGED <<caller, ctxDone, table, reply, signal, open, got, readDone, shut,
                 server>>

LostSignal == signal   \* mutant: push does not signal
Signalled == [signal EXCEPT ![reader.to] = TRUE]

Signal ==
  /\ reader.at = "signal"
  /\ signal' = Signalled
  /\ reader' = IF reader.hooks = {} THEN Idle
               ELSE [reader EXCEPT !.at = "push"]
  /\ UNCHANGED <<caller, ctxDone, table, reply, items, open, got, readDone, shut,
                 server>>

\* End of file; Wait, in Close, closes the pipe once the process has exited,
\* read or not.
ReadEnds ==
  /\ reader.at = "read"
  /\ ~alive
  /\ wire = <<>> \/ closing = "closed"
  /\ reader' = [Idle EXCEPT !.at = "ended"]
  /\ readDone' = TRUE
  /\ UNCHANGED <<caller, ctxDone, table, reply, queues, open, got, shut, server>>

-----------------------------------------------------------------------------
(* Close; a failed Start closes as well.                                   *)

CloseBegin ==
  /\ closing = "open"
  /\ outcome[Opener] # "none"
  /\ closed' = TRUE
  /\ closing' = "flagged"
  /\ UNCHANGED <<caller, ctxDone, table, reply, queues, open, got, reading,
                 stdin, server>>

CloseStdin ==
  /\ closing = "flagged"
  /\ stdin' = FALSE
  /\ closing' = "waiting"
  /\ UNCHANGED <<caller, ctxDone, table, reply, queues, open, got, reading,
                 closed, server>>

\* The runtime exits, or is killed after two seconds.
WaitForEver == FALSE    \* mutant: no Kill
Kill ==
  /\ closing = "waiting"
  /\ alive' = FALSE
  /\ closing' = "killing"
  /\ UNCHANGED <<caller, ctxDone, table, reply, queues, open, got, reading,
                 closed, stdin, wire, requests, answers, received, busy, rested,
                 sent>>

CloseReturn ==
  /\ closing \in {"waiting", "killing"}
  /\ ~alive
  /\ closing' = "closed"
  /\ UNCHANGED <<caller, ctxDone, table, reply, queues, open, got, reading,
                 closed, stdin, server>>

-----------------------------------------------------------------------------
(* The executable and the callers' contexts.                               *)

client == <<caller, ctxDone, table, reply, queues, open, got, reading, shut>>

Answer(c, body) ==
  /\ alive /\ c \in requests
  /\ answers[c] < IF c \in Repeated THEN MaxAnswers ELSE 1
  /\ answers' = [answers EXCEPT ![c] = @ + 1]
  /\ wire' = Append(wire, [kind |-> "response", of |-> c, body |-> body])
  /\ UNCHANGED <<client, alive, requests, received, busy, rested, sent>>

Notify(kind, of) ==
  /\ alive
  /\ wire' = Append(wire, [kind |-> kind, of |-> of, n |-> sent + 1])
  /\ sent' = sent + 1
  /\ UNCHANGED <<client, alive, requests, answers>>

\* The receipt may come before the response that says what it is for.
Receipt(p) ==
  /\ p \in requests /\ p \notin received
  /\ Notify("receipt", p)
  /\ received' = received \cup {p}
  /\ busy' = busy \cup {SessionOf[p]}
  /\ UNCHANGED rested

Rest(s) ==
  /\ s \in busy
  /\ Notify("idle", s)
  /\ busy' = busy \ {s}
  /\ rested' = rested \cup {p \in received : SessionOf[p] = s}
  /\ UNCHANGED received

Chatter(s) ==
  /\ s \in busy
  /\ sent < MaxChatter
  /\ Notify("event", s)
  /\ UNCHANGED <<busy, received, rested>>

Exit ==
  /\ alive
  /\ alive' = FALSE
  /\ UNCHANGED <<client, wire, requests, answers, received, busy, rested, sent>>

EndContext(c) ==
  /\ at[c] # "done"
  /\ c \notin ctxDone
  /\ ctxDone' = ctxDone \cup {c}
  /\ UNCHANGED <<caller, table, reply, queues, open, got, reading, shut, server>>

-----------------------------------------------------------------------------
\* readLoop waits for a channel that nobody will empty.
Stuck ==
  /\ reader.at = "send"
  /\ reply[reader.msg.of] # "empty"
  /\ at[reader.msg.of] = "done"

Over ==
  /\ closing = "closed"
  /\ reader.at = "ended" \/ Stuck
  /\ \A c \in Callers : at[c] = "done" \/ (at[c] = "new" /\ outcome[Opener] # "ok")

Interval(p) == NextItem(p) \/ NoItem(p) \/ Wake(p) \/ Drain(p) \/ IntervalCtx(p)

Next ==
  \/ \E p \in Prompts : Listen(p)
  \/ \E c \in Callers : Register(c)
  \/ \E c \in Callers : Write(c)
  \/ \E c \in Callers : Respond(c)
  \/ \E c \in Callers : StopWaiting(c)
  \/ \E p \in Prompts : NextItem(p)
  \/ \E p \in Prompts : NoItem(p)
  \/ \E p \in Prompts : Wake(p)
  \/ \E p \in Prompts : Drain(p)
  \/ \E p \in Prompts : IntervalCtx(p)
  \/ ReadLine
  \/ SendReply
  \/ \E p \in Prompts : Push(p)
  \/ Signal
  \/ ReadEnds
  \/ CloseBegin
  \/ CloseStdin
  \/ Kill
  \/ CloseReturn
  \/ \E c \in Callers, body \in Bodies : Answer(c, body)
  \/ \E p \in Prompts : Receipt(p)
  \/ \E s \in Sessions : Rest(s)
  \/ \E s \in Sessions : Chatter(s)
  \/ Exit
  \/ \E c \in Callers : EndContext(c)
  \/ Over /\ UNCHANGED vars

Spec == Init /\ [][Next]_vars

\* The steps of the program's own goroutines: those in a call (a write into a
\* broken pipe fails, a select takes a case that is ready), readLoop, and Close,
\* which kills what does not exit.
Own ==
  \/ \E c \in Callers : Register(c) \/ (Broken /\ Write(c)) \/ Respond(c) \/ StopWaiting(c)
  \/ \E p \in Prompts : Interval(p) \/ Push(p)
  \/ ReadLine \/ SendReply \/ Signal \/ ReadEnds
  \/ CloseStdin \/ Kill \/ CloseReturn

\* They keep going.  No step is taken for ever (every call, line and Close is
\* over after so many), so fairness to all of them together is fairness to each.
\* Nothing is assumed of the executable, not even that it reads.
Fairness == WF_vars(Own)

FairSpec == Spec /\ Fairness

-----------------------------------------------------------------------------
(* Safety.                                                                 *)

\* The interval rule: what a prompt gives its sink starts with the receipt of
\* its own message, leaves nothing out that the runtime sent from there on,
\* and ends with the first idle of its session.
IntervalExact ==
  \A p \in Prompts : got[p] # <<>> =>
    LET last == Len(got[p]) IN
    /\ IsReceipt(got[p][1], p)
    /\ \A i \in 1..last - 1 : /\ got[p][i + 1].n = got[p][i].n + 1
                             /\ ~IsIdle(got[p][i], p)
    /\ outcome[p] = "ok" => IsIdle(got[p][last], p)

\* notificationQueue: a prompt does not sleep on a queue with something in it.
NoLostWakeup ==
  \A p \in Prompts : at[p] = "wait" /\ items[p] # <<>> =>
    signal[p] \/ (reader.at = "signal" /\ reader.to = p)

\* readLoop hands a response to a channel of capacity one and waits while it is
\* full.  The call that left it full is still there to empty it; or its context
\* ended with the response unread, and the runtime had sent it another one: that
\* is the one way in which readLoop can be stuck for good, and every other call
\* with it.
StuckByARepeat ==
  reader.at = "send" /\ reply[reader.msg.of] # "empty" =>
    LET c == reader.msg.of IN
    /\ at[c] = "select" \/ outcome[c] = "ctx"
    /\ answers[c] > 1

\* What is on its way to a prompt: its queue, what readLoop is handing out, the
\* notices on the wire.  (Their numbers are their order, by IntervalExact.)
HandedTo(p) == reader.at \in {"push", "signal"} /\ p \in reader.hooks
Ahead(p) ==
  ToSet(items[p]) \cup {m \in {reader.msg} : HandedTo(p)}
    \cup {m \in ToSet(wire) : m.kind # "response"}

\* jsonrpc.go:178: "Dropping that one notification loses the start of the
\* interval, so the idle that ends it is never reached".  While a prompt
\* whose work is done waits, the idle that ends its interval is ahead of it, and
\* so is its receipt, before that idle, if it has not seen it.
EndIsAhead ==
  \A p \in rested :
    at[p] \in {"select", "interval", "wait"} /\ closing # "closed" =>
      \E n \in Ahead(p) :
        /\ IsIdle(n, p)
        /\ p \in open \/ \E m \in Ahead(p) : IsReceipt(m, p) /\ m.n < n.n

(* The carrier's promise.  What Prompt returns is "ok" or one of its errors. *)

CallOf(p) == CASE at[p] = "new"  -> "new"
               [] at[p] = "done" -> IF outcome[p] = "ok" THEN "ok" ELSE "error"
               [] OTHER          -> "called"
WorkOf(p) == IF p \in rested THEN "idle"
             ELSE IF p \in received THEN "received" ELSE "none"
Promise == INSTANCE Carrier
             WITH Once <- TRUE,
                  call <- [p \in Prompts |-> CallOf(p)],
                  work <- [p \in Prompts |-> WorkOf(p)],
                  given <- [p \in Prompts |-> [i \in DOMAIN got[p] |-> got[p][i].n]],
                  hand <- None,
                  over <- closing = "closed"

\* sdk.go, Carrier: the three goroutines of jsonrpc.go and the two pipes
\* between them and the executable keep what Carrier promises, and call no
\* sink of a prompt that has returned.
ImplementsCarrier == Promise!Spec

(* Liveness.  Every call, and Close, is made once: "none is left" says it of
   each one.                                                               *)

\* Once the runtime has done all of a prompt's work and said so, the prompt
\* returns, in whatever order response, receipt and idle were written; unless
\* readLoop is stuck behind a repeated response (StuckByARepeat).
WorkDone(p) ==
  /\ answers[p] > 0 /\ p \in rested
  /\ alive /\ closing = "open"
PromptsReturn ==
  <>[](Stuck \/ \A p \in Prompts : WorkDone(p) => at[p] = "done")

\* errors.go: "ErrTransportClosed reports that the runtime went away ... while
\* there was still work outstanding."  When the runtime has exited, every
\* caller with work outstanding returns, with the same exception: it is
\* readLoop that finds out, for all who wait.
ExitEndsCalls ==
  <>[](Stuck \/ alive \/ \A c \in Callers : at[c] \in {"new", "done"})

\* Close returns whatever the runtime does with its stdin.
CloseReturns == <>[](closing \in {"open", "closed"})
=============================================================================
