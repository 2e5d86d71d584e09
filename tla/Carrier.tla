-------------------------------- MODULE Carrier --------------------------------
(***************************************************************************)
(* What sdk.Carrier promises Session.Run, whichever way the harness is     *)
(* reached: Prompt delivers its message, gives its sink notifications in   *)
(* the order the harness sent them, and returns without an error only      *)
(* after the agent went idle with the message received.  It may return an  *)
(* error at any time; the harness may receive the message all the same.    *)
(* After Close the harness does nothing any more.                          *)
(*                                                                         *)
(* A carrier whose sinks are called by one reader may have decided on a    *)
(* call when the prompt returns, and makes that one call after it.         *)
(***************************************************************************)
EXTENDS Naturals, Sequences

CONSTANTS Prompts, Sessions,
          SessionOf,   \* the session of each prompt
          Once,        \* is a sink given each notification at most once?
          None

VARIABLES
  call,    \* each Prompt: "new", "called", or what it returned
  work,    \* its message: "none", "received", or "idle" once the agent was
  given,   \* the numbers of the notifications its sink was called with
  sent,    \* how many notifications the harness has sent (numbers them)
  hand,    \* the prompt whose sink the one reader is about to call
  over     \* has Close returned?

vars == <<call, work, given, sent, hand, over>>

Returns == {"ok", "error"}

Init ==
  /\ call = [p \in Prompts |-> "new"]
  /\ work = [p \in Prompts |-> "none"]
  /\ given = [p \in Prompts |-> <<>>]
  /\ sent = 0
  /\ hand = None
  /\ over = FALSE

-----------------------------------------------------------------------------
(* The caller and its sink.                                                *)

Call(p) ==
  /\ call[p] = "new"
  /\ call' = [call EXCEPT ![p] = "called"]
  /\ UNCHANGED <<work, given, sent, hand, over>>

\* The sink's next notification is younger than its last, or no older.
Younger(p, n) ==
  given[p] # <<>> => LET last == given[p][Len(given[p])] IN
                       last < n \/ (~Once /\ last = n)
Gives(p) ==
  \E n \in 0..sent : Younger(p, n) /\ given' = [given EXCEPT ![p] = Append(@, n)]

Pick(p) ==
  /\ hand = None
  /\ call[p] = "called"
  /\ hand' = p
  /\ UNCHANGED <<call, work, given, sent, over>>

Notify(p) ==
  /\ \/ hand = p /\ hand' = None
     \/ call[p] = "called" /\ UNCHANGED hand
  /\ Gives(p)
  /\ UNCHANGED <<call, work, sent, over>>

\* The notification that ends the interval is given before Prompt returns.
Return(p, o) ==
  /\ call[p] = "called"
  /\ o = "ok" => work[p] = "idle"
  /\ call' = [call EXCEPT ![p] = o]
  /\ UNCHANGED given \/ Gives(p)
  /\ UNCHANGED <<work, sent, hand, over>>

-----------------------------------------------------------------------------
(* The harness.                                                            *)

Sends == sent' \in Nat /\ sent' >= sent

Send ==
  /\ ~over
  /\ Sends
  /\ UNCHANGED <<call, work, given, hand, over>>

Receive(p) ==
  /\ ~over
  /\ call[p] # "new"
  /\ work[p] = "none"
  /\ work' = [work EXCEPT ![p] = "received"]
  /\ Sends
  /\ UNCHANGED <<call, given, hand, over>>

\* The agent goes idle, whatever became of the messages it had received.
GoIdle(s) ==
  /\ ~over
  /\ work' = [p \in Prompts |-> IF SessionOf[p] = s /\ work[p] = "received"
                                THEN "idle" ELSE work[p]]
  /\ Sends
  /\ UNCHANGED <<call, given, hand, over>>

Close ==
  /\ over' = TRUE
  /\ UNCHANGED <<call, work, given, sent, hand>>

Next ==
  \/ \E p \in Prompts : Call(p) \/ Receive(p) \/ Pick(p) \/ Notify(p)
  \/ \E p \in Prompts, o \in Returns : Return(p, o)
  \/ \E s \in Sessions : GoIdle(s)
  \/ Send
  \/ Close

Spec == Init /\ [][Next]_vars
=============================================================================
