-------------------------------- MODULE Turns --------------------------------
(***************************************************************************)
(* A turn, from harness.turn in internal/runtime/harness.go, through run() *)
(* in internal/runtime/js/boot.js, to the agent loop of the bundled        *)
(* harness (internal/bundle/modules/deepseek-ai__dsh-agent-loop.mjs).      *)
(*                                                                         *)
(* The owning goroutine runs one job at a time, and JavaScript advances    *)
(* only inside a job: turn() pumps the event loop while it awaits run()'s  *)
(* promise.  When the caller's context ends, turn() stops awaiting; run(), *)
(* its subscriptions and the agent's turn stay behind in the JavaScript    *)
(* world, and the next job, of whichever session, pumps them on.           *)
(*                                                                         *)
(* The queue in front of the jobs is SerialJobs, shown in HarnessOwner.    *)
(***************************************************************************)
EXTENDS Sequences

CONSTANTS
  Runs,       \* the calls to Run; each delivers one message
  Sessions,
  SessionOf,  \* the session of each run
  Answers,    \* sessions whose provider is certain to end every turn
  Steady,     \* sessions whose log takes every append, and whose prompts no
              \* pre-step hook swallows
  Impatient,  \* bound: the runs whose context may end
  None

ASSUME TurnsConstants ==
  /\ None \notin Runs
  /\ SessionOf \in [Runs -> Sessions]
  /\ Answers \subseteq Sessions
  /\ Steady \subseteq Sessions
  /\ Impatient \subseteq Runs

VARIABLES
  ctxDone,   \* runs whose context has ended
  call,      \* where each call to Run is
  answer,    \* what each call to Run returned
  reply,     \* req.reply of each run, a channel of capacity 1
  job,       \* the run whose turn() the owning goroutine is in
  js,        \* where run() is; an outcome once its promise has settled
  agents,    \* sessions in boot.js's map of agents
  phase,     \* the agent's phase, of each session
  inbox,     \* the agent's queue of next-turn messages
  serving,   \* the message the agent's current turn claimed
  record,    \* the turns that ended within each run's interval, as
             \* <<message, kind>>
  ended      \* how the last of them ended

callers == <<call, answer>>
heard   == <<record, ended>>
loop    == <<phase, inbox, serving, heard>>
turnVars == <<ctxDone, callers, reply, job, js, agents, loop>>

Kinds   == {"completed", "blocked", "error"}   \* how a turn ends
Settled == Kinds \cup {"refused"}              \* how run()'s promise settles
Replies == Settled \cup {"ctx"}

TypeOK ==
  /\ ctxDone \in SUBSET Runs
  /\ call \in [Runs -> {"new", "queued", "waiting", "returned"}]
  /\ answer \in [Runs -> Replies \cup {"none"}]
  /\ reply \in [Runs -> Replies \cup {"none"}]
  /\ job \in Runs \cup {None}
  /\ js \in [Runs -> Settled \cup {"none", "stat", "create", "found", "waiting"}]
  /\ agents \in SUBSET Sessions
  /\ phase \in [Sessions -> {"idle", "running", "leaving"}]
  /\ inbox \in [Sessions -> Seq(Runs)]
  /\ serving \in [Sessions -> Runs \cup {None}]
  /\ record \in [Runs -> SUBSET (Runs \X Kinds)]
  /\ ended \in [Runs -> Kinds \cup {"none"}]

Init ==
  /\ ctxDone = {}
  /\ call = [r \in Runs |-> "new"]
  /\ answer = [r \in Runs |-> "none"]
  /\ reply = [r \in Runs |-> "none"]
  /\ job = None
  /\ js = [r \in Runs |-> "none"]
  /\ agents = {}
  /\ phase = [s \in Sessions |-> "idle"]
  /\ inbox = [s \in Sessions |-> <<>>]
  /\ serving = [s \in Sessions |-> None]
  /\ record = [r \in Runs |-> {}]
  /\ ended = [r \in Runs |-> "none"]

-----------------------------------------------------------------------------
(* The caller: harness.Run, through submit.                                *)

Submit(r) ==
  /\ call[r] = "new"
  /\ call' = [call EXCEPT ![r] = "queued"]
  /\ UNCHANGED <<ctxDone, answer, reply, job, js, agents, loop>>

QueueWithoutContext(r) == FALSE  \* mutant: only the owner ends the wait
\* The context ends while the call is still waiting for the owning goroutine.
GiveUp(r) ==
  /\ call[r] = "queued"
  /\ r \in ctxDone
  /\ call' = [call EXCEPT ![r] = "returned"]
  /\ answer' = [answer EXCEPT ![r] = "ctx"]
  /\ UNCHANGED <<ctxDone, reply, job, js, agents, loop>>

Return(r) ==
  /\ call[r] = "waiting"
  /\ call' = [call EXCEPT ![r] = "returned"]
  /\ \/ /\ reply[r] # "none"
        /\ answer' = [answer EXCEPT ![r] = reply[r]]
     \/ /\ r \in ctxDone
        /\ answer' = [answer EXCEPT ![r] = "ctx"]
  /\ UNCHANGED <<ctxDone, reply, job, js, agents, loop>>

\* A context that ends after its run has returned changes nothing.
EndContext(r) ==
  /\ r \in Impatient \ ctxDone
  /\ call[r] # "returned"
  /\ ctxDone' = ctxDone \cup {r}
  /\ UNCHANGED <<callers, reply, job, js, agents, loop>>

-----------------------------------------------------------------------------
(* The owning goroutine: turn().                                           *)

TakeBetween(r) ==   \* mutant: a job is taken while another one pumps the loop
  /\ call[r] = "queued"
  /\ call' = [call EXCEPT ![r] = "waiting"]
  /\ job' = r
  /\ js' = [js EXCEPT ![r] = IF SessionOf[r] \in agents THEN "found" ELSE "stat"]
  /\ UNCHANGED <<ctxDone, answer, reply, agents, loop>>
\* begin() calls run(), which looks for the session's agent before it awaits.
Begin(r) ==
  /\ job = None
  /\ call[r] = "queued"
  /\ call' = [call EXCEPT ![r] = "waiting"]
  /\ job' = r
  /\ js' = [js EXCEPT ![r] = IF SessionOf[r] \in agents THEN "found" ELSE "stat"]
  /\ UNCHANGED <<ctxDone, answer, reply, agents, loop>>

\* The promise settled, or AwaitContext gave up on it.
Answer(r) ==
  /\ job = r
  /\ job' = None
  /\ \/ /\ js[r] \in Settled
        /\ reply' = [reply EXCEPT ![r] = js[r]]
     \/ /\ r \in ctxDone
        /\ reply' = [reply EXCEPT ![r] = "ctx"]
  /\ UNCHANGED <<ctxDone, callers, js, agents, loop>>

-----------------------------------------------------------------------------
(* run() in boot.js.  Each step happens while some job pumps the loop.     *)

Pumped == job # None

Step(r, from, to) ==
  /\ Pumped
  /\ js[r] = from
  /\ js' = [js EXCEPT ![r] = to]

\* isStored: the answer decides between resume and create, which are alike
\* here; or the persistence backend throws.  Nothing marks the session as
\* being opened, so a second run() of it may get here as well.
Stat(r) ==
  /\ Step(r, "stat", "create") \/ Step(r, "stat", "refused")
  /\ UNCHANGED <<ctxDone, callers, reply, job, agents, loop>>

\* resume or create: the first of them publishes the agent.  It fails when
\* another one has the session already, or by itself.
Open(r) ==
  /\ \/ /\ SessionOf[r] \notin agents
        /\ Step(r, "create", "found")
        /\ agents' = agents \cup {SessionOf[r]}
     \/ /\ Step(r, "create", "refused")
        /\ UNCHANGED agents
  /\ UNCHANGED <<ctxDone, callers, reply, job, loop>>

\* run() subscribes, then queues the message; queueing it wakes an idle agent,
\* and no other: not one whose driver is on its way out.
WithoutWaking(r) ==    \* mutant: the message is queued and the agent not woken
  /\ Step(r, "found", "waiting")
  /\ inbox' = [inbox EXCEPT ![SessionOf[r]] = Append(@, r)]
  /\ UNCHANGED <<ctxDone, callers, reply, job, agents, phase, serving, heard>>
Deliver(r) ==
  /\ Step(r, "found", "waiting")
  /\ inbox' = [inbox EXCEPT ![SessionOf[r]] = Append(@, r)]
  /\ phase' = [phase EXCEPT ![SessionOf[r]] = IF @ = "idle" THEN "running" ELSE @]
  /\ UNCHANGED <<ctxDone, callers, reply, job, agents, serving, heard>>

\* The inbox is a projection of the log: the append of the message may throw.
DeliverFails(r) ==
  /\ SessionOf[r] \notin Steady
  /\ Step(r, "found", "refused")
  /\ UNCHANGED <<ctxDone, callers, reply, job, agents, loop>>

-----------------------------------------------------------------------------
(* The agent loop: kick() and turn().  Between two turns serving is None.   *)

Subscribers(s) == {r \in Runs : SessionOf[r] = s /\ js[r] = "waiting"}

\* turn() was called, by wakeDriver or by the while of kick().
Opening(s) ==
  /\ Pumped
  /\ phase[s] = "running"
  /\ serving[s] = None
  /\ inbox[s] # <<>>

Leave(s) == phase' = [phase EXCEPT ![s] = "leaving"]

\* turn/start is appended and the first pending message claimed.
PeekOnly(s) ==   \* mutant: the message is read and not claimed
  /\ Opening(s)
  /\ serving' = [serving EXCEPT ![s] = Head(inbox[s])]
  /\ UNCHANGED <<ctxDone, callers, reply, job, js, agents, phase, inbox, heard>>
StartTurn(s) ==
  /\ Opening(s)
  /\ serving' = [serving EXCEPT ![s] = Head(inbox[s])]
  /\ inbox' = [inbox EXCEPT ![s] = Tail(@)]
  /\ UNCHANGED <<ctxDone, callers, reply, job, js, agents, phase, heard>>

\* append(turn/start) throws: no turn/end, and the driver leaves.
StartFails(s) ==
  /\ s \notin Steady
  /\ Opening(s)
  /\ Leave(s)
  /\ UNCHANGED <<ctxDone, callers, reply, job, js, agents, inbox, serving, heard>>

\* The append of the claim throws: the turn ends in an error with the message
\* still pending.
ClaimFails(s) ==
  /\ s \notin Steady
  /\ Opening(s)
  /\ Leave(s)
  /\ ended' = [r \in Runs |-> IF r \in Subscribers(s) THEN "error" ELSE ended[r]]
  /\ UNCHANGED <<ctxDone, callers, reply, job, js, agents, inbox, serving, record>>

\* A turn that completed is followed by the next one when a message is
\* pending; one that failed or was blocked leaves the loop, pending or not.
LeavesAlways(s, kind) == TRUE   \* mutant: pending messages are not looked at
Leaves(s, kind) == kind # "completed" \/ inbox[s] = <<>>

\* Every subscribed run() records the end of the turn.  A prompt that a hook
\* swallowed completes its turn at step 0, and that one leaves the loop too.
EndTurn(s, kind) ==
  /\ Pumped
  /\ serving[s] # None
  /\ serving' = [serving EXCEPT ![s] = None]
  /\ record' = [r \in Runs |-> IF r \in Subscribers(s)
                               THEN record[r] \cup {<<serving[s], kind>>}
                               ELSE record[r]]
  /\ ended' = [r \in Runs |-> IF r \in Subscribers(s) THEN kind ELSE ended[r]]
  /\ \/ (Leaves(s, kind) \/ s \notin Steady) /\ Leave(s)
     \/ ~Leaves(s, kind) /\ UNCHANGED phase
  /\ UNCHANGED <<ctxDone, callers, reply, job, js, agents, inbox>>

\* append(turn/end) throws: the turn is over and nobody was told.
EndFails(s) ==
  /\ s \notin Steady
  /\ Pumped
  /\ serving[s] # None
  /\ serving' = [serving EXCEPT ![s] = None]
  /\ Leave(s)
  /\ UNCHANGED <<ctxDone, callers, reply, job, js, agents, inbox, heard>>

\* kick() sets the phase, some microtasks after turn() decided to leave: what
\* was queued in between is not looked at.  Each run() that waits settles with
\* the outcome of the last turn it recorded, and with "completed" when it
\* recorded none (turnOutcome).
Outcome(r) == IF ended[r] = "none" THEN "completed" ELSE ended[r]
GoIdle(s) ==
  /\ Pumped
  /\ phase[s] = "leaving"
  /\ phase' = [phase EXCEPT ![s] = "idle"]
  /\ js' = [r \in Runs |-> IF r \in Subscribers(s) THEN Outcome(r) ELSE js[r]]
  /\ UNCHANGED <<ctxDone, callers, reply, job, agents, inbox, serving, heard>>

-----------------------------------------------------------------------------
AllReturned == \A r \in Runs : call[r] = "returned"

World ==
  \/ \E r \in Runs : Stat(r)
  \/ \E r \in Runs : Open(r)
  \/ \E r \in Runs : Deliver(r)
  \/ \E r \in Runs : DeliverFails(r)
  \/ \E s \in Sessions : StartTurn(s)
  \/ \E s \in Sessions : StartFails(s)
  \/ \E s \in Sessions : ClaimFails(s)
  \/ \E s \in Sessions, kind \in Kinds : EndTurn(s, kind)
  \/ \E s \in Sessions : EndFails(s)
  \/ \E s \in Sessions : GoIdle(s)

Next ==
  \/ \E r \in Runs : Submit(r)
  \/ \E r \in Runs : GiveUp(r)
  \/ \E r \in Runs : Return(r)
  \/ \E r \in Runs : EndContext(r)
  \/ \E r \in Runs : Begin(r)
  \/ \E r \in Runs : Answer(r)
  \/ World
  \/ AllReturned /\ UNCHANGED turnVars

Spec == Init /\ [][Next]_turnVars

Runner(r) == Stat(r) \/ Open(r) \/ Deliver(r) \/ DeliverFails(r)
Driver(s) == StartTurn(s) \/ StartFails(s) \/ ClaimFails(s) \/ GoIdle(s)
Ends(s)   == (\E kind \in Kinds : EndTurn(s, kind)) \/ EndFails(s)

\* The owning goroutine and the event loop keep going, and the select in
\* submit takes a ready case.  Only the provider may never answer.
Fairness ==
  /\ WF_turnVars(\E r \in Runs : Begin(r))
  /\ \A r \in Runs : /\ WF_turnVars(Answer(r))
                     /\ WF_turnVars(Return(r) \/ GiveUp(r))
                     /\ WF_turnVars(Runner(r))
  /\ \A s \in Sessions : WF_turnVars(Driver(s))
  /\ \A s \in Answers : WF_turnVars(Ends(s))

FairSpec == Spec /\ Fairness

-----------------------------------------------------------------------------
(* Safety.                                                                 *)

\* What run() reports is never better than what became of its own prompt,
\* whatever turns of abandoned runs of the session ended within its interval:
\* if its own turn was recorded as failed or blocked, that is what it reports;
\* and if the log takes every append, a run that recorded the end of any turn
\* and reports "completed" recorded that of its own.  (boot.js, run and
\* turnOutcome, over the order in which turn() serves and leaves.)
OutcomeIsOwn ==
  \A r \in Runs : js[r] \in Kinds =>
    /\ \A kind \in Kinds \ {"completed"} :
         <<r, kind>> \in record[r] => js[r] = kind
    /\ SessionOf[r] \in Steady /\ js[r] = "completed" /\ record[r] # {} =>
         <<r, "completed">> \in record[r]

\* A run() that waits for an idle has an agent that will go idle: its driver
\* is leaving, or runs and has something to do.  So waitForIdle never waits on
\* an idle agent, whenever its followup came.
WaiterHasWork ==
  \A r \in Runs : js[r] = "waiting" =>
    LET s == SessionOf[r] IN
      \/ phase[s] = "leaving"
      \/ phase[s] = "running" /\ (serving[s] # None \/ inbox[s] # <<>>)

\* A prompt is answered at most once: once a turn served it, or is serving
\* it, it is not pending any more.
Pending(s) == {inbox[s][i] : i \in DOMAIN inbox[s]}
ServedOnce ==
  \A r \in Runs : \A s \in Sessions :
    r \in Pending(s) => /\ s = SessionOf[r]
                        /\ serving[s] # r
                        /\ \A u \in Runs, kind \in Kinds : <<r, kind>> \notin record[u]

(* The jobs the owning goroutine runs here, turn(), keep what SerialJobs     *)
(* promises of a job, though most of turn() happens in the event loop and   *)
(* run() goes on after a turn() that stopped awaiting it.                   *)

JobOf(r) == IF js[r] = "none" THEN "new" ELSE IF job = r THEN "running" ELSE "done"
AnswerOf(r) == CASE answer[r] = "none"    -> "none"
                 [] answer[r] \in Settled -> "result"
                 [] OTHER                 -> "abandoned"
Jobs == INSTANCE SerialJobs
          WITH Calls <- Runs,
               job <- [r \in Runs |-> JobOf(r)],
               answer <- [r \in Runs |-> AnswerOf(r)],
               open <- TRUE

\* harness.turn: one turn() at a time, at most once each, and a caller is told
\* how its run() settled only after its turn() is over, whatever abandoned
\* runs settle in between.
ImplementsSerialJobs == Jobs!Spec

(* Liveness.                                                               *)

\* A run of a session whose provider answers returns, for the idle its turn
\* waits for is not lost, unless a run of a session whose provider does not
\* answer holds the owning goroutine for good.  (README.md says it without the
\* exception: turns on different sessions "may run concurrently".)
NobodyHolds == \A q \in Runs : SessionOf[q] \notin Answers => []<>(job # q)
RunsReturn ==
  NobodyHolds => \A r \in Runs : SessionOf[r] \in Answers =>
                   (call[r] = "queued" ~> call[r] = "returned")

\* Even if no provider ever answers, a run whose context ended returns.
CancelledRunsReturn ==
  \A r \in Runs : (call[r] \in {"queued", "waiting"} /\ r \in ctxDone)
                     ~> call[r] = "returned"

(* What the documentation says.                                            *)

\* README.md: "Turns on one session share history and run one at a time."
OneAtATime ==
  \A r \in Runs : js[r] \in Kinds => record[r] \subseteq {r} \X Kinds
=============================================================================
