-------------------------------- MODULE Fetch --------------------------------
(***************************************************************************)
(* nodecompat/fetch.go and fetch() of js/prelude.js.  The script's thread  *)
(* calls fetch(), reads the body through a stream and aborts; a goroutine  *)
(* makes the request (doFetch) and another each read (httpRead); both sides *)
(* meet in two tables under one mutex.  The server is external: it may     *)
(* send any part of the body, nothing, or an error.                        *)
(*                                                                         *)
(* Compat.Close runs on the script's thread, so no JavaScript follows it;  *)
(* goroutines do.                                                          *)
(***************************************************************************)
EXTENDS Naturals

CONSTANTS Requests,
          Size          \* the chunks of a response's body

ASSUME FetchConstants == Size \in Nat

VARIABLES
  js,        \* where fetch() is, for each request
  stream,    \* the ReadableStream of its body
  aborted,   \* requests whose AbortSignal has fired
  listener,  \* what the abort listener would cancel: the request or the body
  op,        \* where its doFetch is
  rd,        \* where the read its stream asked for is
  cancels,   \* c.cancels
  bodies,    \* c.bodies
  ctxDone,   \* requests whose context is cancelled
  open,      \* requests whose response body is open
  sent, got, \* chunks the body has handed over, chunks the stream has been given
  closed     \* c.closed

script == <<js, stream, aborted, listener>>
go     == <<op, rd, cancels, bodies, ctxDone, open, sent>>
fetchVars == <<script, go, got, closed>>

FetchTypeOK ==
  /\ js \in [Requests -> {"new", "marshal", "sent", "response", "failed"}]
  /\ stream \in [Requests -> {"none", "readable", "closed", "errored", "cancelled"}]
  /\ listener \in [Requests -> {"none", "request", "body"}]
  /\ op \in [Requests -> {"none", "register", "do", "head", "ok", "error"}]
  /\ rd \in [Requests -> {"idle", "look", "read", "chunk", "eof", "error"}]
  /\ aborted \subseteq Requests /\ cancels \subseteq Requests
  /\ bodies \subseteq Requests /\ ctxDone \subseteq Requests
  /\ open \subseteq Requests
  /\ sent \in [Requests -> Nat] /\ got \in [Requests -> Nat]
  /\ closed \in BOOLEAN

FetchStart(isClosed) ==
  /\ js = [r \in Requests |-> "new"]
  /\ stream = [r \in Requests |-> "none"]
  /\ listener = [r \in Requests |-> "none"]
  /\ op = [r \in Requests |-> "none"]
  /\ rd = [r \in Requests |-> "idle"]
  /\ aborted = {} /\ cancels = {} /\ bodies = {} /\ ctxDone = {} /\ open = {}
  /\ sent = [r \in Requests |-> 0]
  /\ got = [r \in Requests |-> 0]
  /\ closed = isClosed

-----------------------------------------------------------------------------
(* fetch().                                                                *)

\* A signal that has fired already; a body that has to be awaited first; or
\* straight to the request.
Call(r) ==
  /\ ~closed /\ js[r] = "new"
  /\ \/ /\ r \in aborted
        /\ js' = [js EXCEPT ![r] = "failed"]
        /\ UNCHANGED <<listener, op>>
     \/ /\ r \notin aborted
        /\ js' = [js EXCEPT ![r] = "marshal"]
        /\ UNCHANGED <<listener, op>>
     \/ /\ r \notin aborted
        /\ js' = [js EXCEPT ![r] = "sent"]
        /\ listener' = [listener EXCEPT ![r] = "request"]
        /\ op' = [op EXCEPT ![r] = "register"]
  /\ UNCHANGED <<stream, aborted, rd, cancels, bodies, ctxDone, open, sent, got, closed>>

\* The body is in; only now is the signal listened to.
Send(r) ==
  /\ ~closed /\ js[r] = "marshal"
  /\ js' = [js EXCEPT ![r] = "sent"]
  /\ listener' = [listener EXCEPT ![r] = "request"]
  /\ op' = [op EXCEPT ![r] = "register"]
  /\ UNCHANGED <<stream, aborted, rd, cancels, bodies, ctxDone, open, sent, got, closed>>

\* The promise of host.http.fetch settles: the stream exists, and the signal
\* now cancels the body.
Settle(r) ==
  /\ ~closed /\ js[r] = "sent" /\ op[r] \in {"ok", "error"}
  /\ js' = [js EXCEPT ![r] = IF op[r] = "ok" THEN "response" ELSE "failed"]
  /\ stream' = [stream EXCEPT ![r] = IF op[r] = "ok" THEN "readable" ELSE @]
  /\ listener' = [listener EXCEPT ![r] = IF op[r] = "ok" THEN "body" ELSE "none"]
  /\ UNCHANGED <<aborted, go, got, closed>>

\* dropBody: out of the table, closed, its context cancelled.
DropBody(r) ==
  /\ bodies' = bodies \ {r}
  /\ IF r \in bodies THEN open' = open \ {r} /\ ctxDone' = ctxDone \cup {r}
                     ELSE UNCHANGED <<open, ctxDone>>

\* The signal fires: httpAbort, httpCancel, or nobody listens.
Abort(r) ==
  /\ ~closed /\ r \notin aborted
  /\ aborted' = aborted \cup {r}
  /\ \/ /\ listener[r] = "none"
        /\ UNCHANGED <<cancels, bodies, ctxDone, open>>
     \/ /\ listener[r] = "request"
        /\ ctxDone' = ctxDone \cup ({r} \cap cancels)
        /\ cancels' = cancels \ {r}
        /\ UNCHANGED <<bodies, open>>
     \/ /\ listener[r] = "body"
        /\ DropBody(r)
        /\ UNCHANGED cancels
  /\ UNCHANGED <<js, stream, listener, op, rd, sent, got, closed>>

\* The stream asks for its next chunk, is given an answer, or is cancelled by
\* whoever reads it.
Pull(r) ==
  /\ ~closed /\ stream[r] = "readable" /\ rd[r] = "idle"
  /\ rd' = [rd EXCEPT ![r] = "look"]
  /\ UNCHANGED <<script, op, cancels, bodies, ctxDone, open, sent, got, closed>>

Answer(r) ==
  /\ ~closed /\ rd[r] \in {"chunk", "eof", "error"}
  /\ rd' = [rd EXCEPT ![r] = "idle"]
  /\ IF stream[r] # "readable" THEN UNCHANGED <<stream, got>>
     ELSE /\ got' = [got EXCEPT ![r] = IF rd[r] = "chunk" THEN @ + 1 ELSE @]
          /\ stream' = [stream EXCEPT ![r] = CASE rd[r] = "chunk" -> @
                                               [] rd[r] = "eof"   -> "closed"
                                               [] rd[r] = "error" -> "errored"]
  /\ UNCHANGED <<js, aborted, listener, op, cancels, bodies, ctxDone, open, sent, closed>>

CancelStream(r) ==
  /\ ~closed /\ stream[r] = "readable"
  /\ stream' = [stream EXCEPT ![r] = "cancelled"]
  /\ DropBody(r)
  /\ UNCHANGED <<js, aborted, listener, op, rd, cancels, sent, got, closed>>

-----------------------------------------------------------------------------
(* doFetch and httpRead.                                                   *)

Register(r) ==
  /\ op[r] = "register"
  /\ IF closed
     THEN /\ op' = [op EXCEPT ![r] = "error"]
          /\ ctxDone' = ctxDone \cup {r}
          /\ UNCHANGED cancels
     ELSE /\ op' = [op EXCEPT ![r] = "do"]
          /\ cancels' = cancels \cup {r}
          /\ UNCHANGED ctxDone
  /\ UNCHANGED <<script, rd, bodies, open, sent, got, closed>>

\* client.Do: the head of a response.  It may be in when the context ends.
Responds(r) ==
  /\ op[r] = "do"
  /\ op' = [op EXCEPT ![r] = "head"]
  /\ open' = open \cup {r}
  /\ UNCHANGED <<script, rd, cancels, bodies, ctxDone, sent, got, closed>>

\* client.Do fails, or the request was malformed, or a redirect refused.
NoHead(r) ==
  /\ op[r] = "do"
  /\ op' = [op EXCEPT ![r] = "error"]
  /\ cancels' = cancels \ {r}
  /\ ctxDone' = ctxDone \cup {r}
  /\ UNCHANGED <<script, rd, bodies, open, sent, got, closed>>

\* Mutant: the second look at closed is forgotten.
AddUnseen(r) ==
  /\ op[r] = "head"
  /\ op' = [op EXCEPT ![r] = "ok"]
  /\ bodies' = bodies \cup {r}
  /\ UNCHANGED <<script, rd, cancels, ctxDone, open, sent, got, closed>>
AddBody(r) ==
  /\ op[r] = "head"
  /\ IF closed
     THEN /\ op' = [op EXCEPT ![r] = "error"]
          /\ open' = open \ {r}
          /\ ctxDone' = ctxDone \cup {r}
          /\ UNCHANGED bodies
     ELSE /\ op' = [op EXCEPT ![r] = "ok"]
          /\ bodies' = bodies \cup {r}
          /\ UNCHANGED <<open, ctxDone>>
  /\ UNCHANGED <<script, rd, cancels, sent, got, closed>>

\* A body that is not in the table reads as the end of it.
Look(r) ==
  /\ rd[r] = "look"
  /\ rd' = [rd EXCEPT ![r] = IF r \in bodies THEN "read" ELSE "eof"]
  /\ UNCHANGED <<script, op, cancels, bodies, ctxDone, open, sent, got, closed>>

\* Read(buf) returns.  (0, nil) only goes round the loop.
ReadChunk(r) ==
  /\ rd[r] = "read" /\ r \in open /\ sent[r] < Size
  /\ rd' = [rd EXCEPT ![r] = "chunk"]
  /\ sent' = [sent EXCEPT ![r] = @ + 1]
  /\ UNCHANGED <<script, op, cancels, bodies, ctxDone, open, got, closed>>

\* The loop over Read ends with io.EOF: only after the whole body.
ZeroIsEnd(r) == r \in open   \* mutant: no bytes is the end, as before the loop
AtEnd(r)     == r \in open /\ sent[r] = Size
ReadEnd(r) ==
  /\ rd[r] = "read" /\ AtEnd(r)
  /\ rd' = [rd EXCEPT ![r] = "eof"]
  /\ DropBody(r)
  /\ UNCHANGED <<script, op, cancels, sent, got, closed>>

ReadError(r) ==
  /\ rd[r] = "read"
  /\ rd' = [rd EXCEPT ![r] = "error"]
  /\ DropBody(r)
  /\ UNCHANGED <<script, op, cancels, sent, got, closed>>

-----------------------------------------------------------------------------
\* The part of Compat.Close that is about requests.
OnlyBodies == ctxDone \cup bodies   \* mutant: the requests under way go on
Cancelled  == ctxDone \cup cancels \cup bodies
CloseFetch ==
  /\ ~closed
  /\ closed' = TRUE
  /\ ctxDone' = Cancelled
  /\ open' = open \ bodies
  /\ cancels' = {} /\ bodies' = {}
  /\ UNCHANGED <<script, op, rd, sent, got>>

FetchNext ==
  \/ \E r \in Requests : Call(r)
  \/ \E r \in Requests : Send(r)
  \/ \E r \in Requests : Settle(r)
  \/ \E r \in Requests : Abort(r)
  \/ \E r \in Requests : Pull(r)
  \/ \E r \in Requests : Answer(r)
  \/ \E r \in Requests : CancelStream(r)
  \/ \E r \in Requests : Register(r)
  \/ \E r \in Requests : Responds(r)
  \/ \E r \in Requests : NoHead(r)
  \/ \E r \in Requests : AddBody(r)
  \/ \E r \in Requests : Look(r)
  \/ \E r \in Requests : ReadChunk(r)
  \/ \E r \in Requests : ReadEnd(r)
  \/ \E r \in Requests : ReadError(r)
  \/ CloseFetch

\* The server owes nothing; a call on a cancelled context or a closed body
\* returns, and so does everything that does not wait for the server.
Cut(r) == r \in ctxDone
FetchFairness ==
  \A r \in Requests :
    /\ WF_fetchVars(Register(r) \/ AddBody(r) \/ (Cut(r) /\ (Responds(r) \/ NoHead(r))))
    /\ WF_fetchVars(Look(r) \/ (Cut(r) /\ (ReadChunk(r) \/ ReadEnd(r) \/ ReadError(r))))

FetchInit == FetchStart(FALSE)
FetchSpec == FetchInit /\ [][FetchNext]_fetchVars
FetchFair == FetchSpec /\ FetchFairness

-----------------------------------------------------------------------------
\* fetch.go:13, "Cancellation is real": whatever waits for the server, for a
\* head or for more of a body, has its context cancelled or can still be told
\* to stop, by the table the signal, the reader and Compat.Close go through.
InReach ==
  \A r \in Requests :
    /\ op[r] \in {"do", "head"} => r \in cancels \cup ctxDone
    /\ rd[r] = "read" => r \in bodies \cup ctxDone

\* Nothing that is open or under way is out of reach.  An open body is in the
\* table, or in the hands of the goroutine that is about to look at closed a
\* second time; whoever waits can be told to stop; and once the layer is closed
\* the table stays empty, and whatever is still under way has its context
\* cancelled (fetch.go:144, host.go Close).
NoBodyIsLost ==
  /\ InReach
  /\ open \subseteq bodies \cup {r \in Requests : op[r] = "head"}
  /\ closed => /\ bodies = {}
               /\ \A r \in Requests : op[r] \in {"do", "head"} => r \in ctxDone

\* A stream that ends has given the whole body, unless its signal fired: the
\* loop of httpRead and the order of table and read (fetch.go:195).
EndIsWhole ==
  \A r \in Requests : stream[r] = "closed" /\ r \notin aborted => got[r] = Size

\* When the layer is closed, or a body's reader has given it up, the goroutines
\* that wait for the server return: "Cancellation is real" (fetch.go:13).
GivenUp(r) == closed \/ stream[r] = "cancelled"
GivenUpEnds ==
  \A r \in Requests :
    GivenUp(r) ~> op[r] \notin {"register", "do", "head"} /\ rd[r] \notin {"look", "read"}

\* fetch.go:58: the request id "is allocated by the shim before the call,
\* because a signal may already be aborted by the time we get here".  A request
\* whose signal fired after fetch() began is not left running.
AbortIsReal == \A r \in Requests : r \in aborted /\ op[r] = "do" => r \in ctxDone
=============================================================================
