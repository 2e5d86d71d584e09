----------------------------- MODULE SerialJobs -----------------------------
(***************************************************************************)
(* What internal/runtime's Harness promises its callers, with no channel,  *)
(* lock or goroutine in sight: each call's job runs at most once, one at a *)
(* time; a call is told a result only after its job produced it, is told   *)
(* that the harness is closed only if its job is not running and will not  *)
(* run again, and may walk away from its job at any time.                  *)
(***************************************************************************)
CONSTANTS Calls

VARIABLES
  job,     \* each call's job: "new", "running" or "done"
  answer,  \* what each call was told: "none", "result", "refused", "abandoned"
  open     \* will the harness still run jobs?

vars == <<job, answer, open>>

TypeOK ==
  /\ job \in [Calls -> {"new", "running", "done"}]
  /\ answer \in [Calls -> {"none", "result", "refused", "abandoned"}]
  /\ open \in BOOLEAN

Init ==
  /\ job = [c \in Calls |-> "new"]
  /\ answer = [c \in Calls |-> "none"]
  /\ open = TRUE

Idle == \A c \in Calls : job[c] # "running"

Run(c) ==
  /\ open /\ Idle
  /\ job[c] = "new" /\ answer[c] = "none"
  /\ job' = [job EXCEPT ![c] = "running"]
  /\ UNCHANGED <<answer, open>>

Finish(c) ==
  /\ job[c] = "running"
  /\ job' = [job EXCEPT ![c] = "done"]
  /\ UNCHANGED <<answer, open>>

Tell(c, a) ==
  /\ answer[c] = "none"
  /\ \/ a = "result" /\ job[c] = "done"
     \/ a = "refused" /\ job[c] # "running"
     \/ a = "abandoned"
  /\ answer' = [answer EXCEPT ![c] = a]
  /\ UNCHANGED <<job, open>>

Stop ==
  /\ open /\ Idle
  /\ open' = FALSE
  /\ UNCHANGED <<job, answer>>

Next ==
  \/ \E c \in Calls : Run(c) \/ Finish(c)
  \/ \E c \in Calls, a \in {"result", "refused", "abandoned"} : Tell(c, a)
  \/ Stop

Spec == Init /\ [][Next]_vars
=============================================================================
