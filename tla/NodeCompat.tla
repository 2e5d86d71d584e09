------------------------------ MODULE NodeCompat ------------------------------
(***************************************************************************)
(* The host's side of three Node modules, of nodecompat/host.go: fetch,    *)
(* file watching and the compressing pipeline.  They share one Compat, but *)
(* no state except that Close has run; so each behaviour looks at one of   *)
(* them, in a Compat whose other tables have been closed before anything   *)
(* was opened.                                                             *)
(***************************************************************************)
EXTENDS Fetch, Watch, Pipeline

Tables == {"requests", "watchers", "encoders"}
CompatInit ==
  \E used \in Tables :
    /\ FetchStart(used # "requests")
    /\ WatchStart(used # "watchers")
    /\ PipeStart(used # "encoders")

CompatNext ==
  \/ FetchNext /\ UNCHANGED <<watchVars, pipeVars>>
  \/ WatchNext /\ UNCHANGED <<fetchVars, pipeVars>>
  \/ PipeNext  /\ UNCHANGED <<fetchVars, watchVars>>

CompatSpec == CompatInit /\ [][CompatNext]_<<fetchVars, watchVars, pipeVars>>
CompatFair == CompatSpec /\ FetchFairness /\ WatchFairness /\ PipeFairness
=============================================================================
