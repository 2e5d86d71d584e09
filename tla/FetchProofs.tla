----------------------------- MODULE FetchProofs -----------------------------
(***************************************************************************)
(* What Fetch keeps for any set of requests and any size of body.          *)
(***************************************************************************)
EXTENDS Fetch, TLAPS

\* A request is made once, by the call of fetch(); and one that is being made
\* can be told to stop, or has been; so can a read of a body.
Cancellable ==
  /\ \A r \in Requests : js[r] \in {"new", "marshal"} => op[r] = "none"
  /\ InReach

Owned ==
  /\ open \subseteq bodies \cup {r \in Requests : op[r] = "head"}
  /\ closed => bodies = {}
  /\ closed => \A r \in Requests : op[r] \in {"do", "head"} => r \in ctxDone

\* Before its stream exists, nothing has been read of a body, and unless the
\* layer is closed it is in the table; only a stream has a body to cancel.
Fresh(r) ==
  /\ js[r] # "response" => stream[r] = "none"
  /\ listener[r] = "body" => stream[r] # "none"
  /\ stream[r] = "none" => rd[r] = "idle" /\ sent[r] = 0 /\ got[r] = 0
  /\ op[r] = "ok" /\ stream[r] = "none" /\ ~closed => r \in bodies

\* A stream has been given what was read of its body, but for the chunk on its
\* way.
Given(r) ==
  stream[r] = "readable" =>
    sent[r] = IF rd[r] = "chunk" THEN got[r] + 1 ELSE got[r]

\* While it can be read, and its signal has not fired, its body is in the table
\* until it has been read to its end, or failed.
Whole(r) ==
  /\ stream[r] = "readable" /\ r \notin aborted /\ ~closed =>
       \/ r \in bodies /\ rd[r] \notin {"eof", "error"}
       \/ rd[r] = "error"
       \/ rd[r] = "eof" /\ sent[r] = Size
  /\ stream[r] = "closed" /\ r \notin aborted => got[r] = Size

Streams == \A r \in Requests : Fresh(r) /\ Given(r) /\ Whole(r)
FInv == FetchTypeOK /\ Cancellable /\ Owned /\ Streams

-----------------------------------------------------------------------------
LEMMA InitFInv == ASSUME NEW b \in BOOLEAN, FetchStart(b) PROVE FInv
<1> USE DEF FetchStart
<1>1. FetchTypeOK BY DEF FetchTypeOK
<1>2. Cancellable /\ Owned BY DEF Cancellable, InReach, Owned
<1>3. Streams BY DEF Streams, Fresh, Given, Whole
<1>4. QED BY <1>1, <1>2, <1>3 DEF FInv

LEMMA FetchTypeKeeps == FetchTypeOK /\ [FetchNext]_fetchVars => FetchTypeOK'
<1> SUFFICES ASSUME FetchTypeOK, [FetchNext]_fetchVars PROVE FetchTypeOK'
  OBVIOUS
<1> USE DEF FetchTypeOK
<1>1. ASSUME NEW r \in Requests, Call(r) PROVE FetchTypeOK' BY <1>1 DEF Call
<1>2. ASSUME NEW r \in Requests, Send(r) PROVE FetchTypeOK' BY <1>2 DEF Send
<1>3. ASSUME NEW r \in Requests, Settle(r) PROVE FetchTypeOK' BY <1>3 DEF Settle, go
<1>4. ASSUME NEW r \in Requests, Abort(r) PROVE FetchTypeOK' BY <1>4 DEF Abort, DropBody
<1>5. ASSUME NEW r \in Requests, Pull(r) PROVE FetchTypeOK' BY <1>5 DEF Pull, script
<1>6. ASSUME NEW r \in Requests, Answer(r) PROVE FetchTypeOK' BY <1>6 DEF Answer
<1>7. ASSUME NEW r \in Requests, CancelStream(r) PROVE FetchTypeOK' BY <1>7 DEF CancelStream, DropBody
<1>8. ASSUME NEW r \in Requests, Register(r) PROVE FetchTypeOK' BY <1>8 DEF Register, script
<1>9. ASSUME NEW r \in Requests, Responds(r) \/ NoHead(r) PROVE FetchTypeOK'
  BY <1>9 DEF Responds, NoHead, script
<1>10. ASSUME NEW r \in Requests, AddBody(r) PROVE FetchTypeOK' BY <1>10 DEF AddBody, script
<1>11. ASSUME NEW r \in Requests, Look(r) \/ ReadChunk(r) PROVE FetchTypeOK'
  BY <1>11 DEF Look, ReadChunk, script
<1>12. ASSUME NEW r \in Requests, ReadEnd(r) \/ ReadError(r) PROVE FetchTypeOK'
  BY <1>12 DEF ReadEnd, ReadError, DropBody, script
<1>13. CloseFetch => FetchTypeOK' BY DEF CloseFetch, script, Cancelled
<1>14. UNCHANGED fetchVars => FetchTypeOK' BY DEF fetchVars, script, go
<1>15. QED
  BY <1>1, <1>2, <1>3, <1>4, <1>5, <1>6, <1>7, <1>8, <1>9, <1>10, <1>11, <1>12, <1>13,
     <1>14 DEF FetchNext

LEMMA OwnedKeeps ==
  FetchTypeOK /\ Cancellable /\ Owned /\ [FetchNext]_fetchVars => Cancellable' /\ Owned'
<1> SUFFICES ASSUME FetchTypeOK, Cancellable, Owned, [FetchNext]_fetchVars
             PROVE  Cancellable' /\ Owned'
  OBVIOUS
<1> USE DEF FetchTypeOK, Cancellable, InReach, Owned
<1>1. ASSUME NEW r \in Requests, Call(r) \/ Send(r) PROVE Cancellable' /\ Owned'
  <2>1. \A q \in Requests : op'[q] = op[q] \/ op'[q] = "register"
    BY <1>1 DEF Call, Send
  <2>2. Cancellable' BY <1>1, <2>1 DEF Call, Send
  <2>3. ~closed' /\ bodies' = bodies /\ open' = open BY <1>1 DEF Call, Send
  <2>4. \A q \in Requests : op[q] = "head" => op'[q] = "head"
    BY <1>1 DEF Call, Send
  <2>5. QED BY <2>2, <2>3, <2>4
<1>2. ASSUME NEW r \in Requests, Settle(r) PROVE Cancellable' /\ Owned' BY <1>2 DEF Settle, go
<1>3. ASSUME NEW r \in Requests, Abort(r) PROVE Cancellable' /\ Owned'
  <2>1. Cancellable' BY <1>3 DEF Abort, DropBody
  <2>2. (open \subseteq bodies \cup {q \in Requests : op[q] = "head"})'
    BY <1>3 DEF Abort, DropBody
  <2>3. ~closed' /\ Owned' BY <1>3, <2>2 DEF Abort
  <2>4. QED BY <2>1, <2>3
<1>4. ASSUME NEW r \in Requests, Pull(r) \/ Answer(r) PROVE Cancellable' /\ Owned'
  BY <1>4 DEF Pull, Answer, script
<1>5. ASSUME NEW r \in Requests, CancelStream(r) PROVE Cancellable' /\ Owned'
  BY <1>5 DEF CancelStream, DropBody
<1>6. ASSUME NEW r \in Requests, Register(r) PROVE Cancellable' /\ Owned' BY <1>6 DEF Register, script
<1>7. ASSUME NEW r \in Requests, Responds(r) \/ NoHead(r) PROVE Cancellable' /\ Owned'
  BY <1>7 DEF Responds, NoHead, script
<1>8. ASSUME NEW r \in Requests, AddBody(r) PROVE Cancellable' /\ Owned' BY <1>8 DEF AddBody, script
<1>9. ASSUME NEW r \in Requests, Look(r) \/ ReadChunk(r) PROVE Cancellable' /\ Owned'
  BY <1>9 DEF Look, ReadChunk, script
<1>10. ASSUME NEW r \in Requests, ReadEnd(r) \/ ReadError(r) PROVE Cancellable' /\ Owned'
  BY <1>10 DEF ReadEnd, ReadError, DropBody, script
<1>11. CloseFetch => Cancellable' /\ Owned' BY DEF CloseFetch, script, Cancelled
<1>12. UNCHANGED fetchVars => Cancellable' /\ Owned' BY DEF fetchVars, script, go
<1>13. QED
  BY <1>1, <1>2, <1>3, <1>4, <1>5, <1>6, <1>7, <1>8, <1>9, <1>10, <1>11, <1>12 DEF FetchNext

\* Each step keeps what is said of one stream, whichever request moves.
LEMMA StreamKeeps ==
  ASSUME FetchTypeOK, Owned, NEW q \in Requests, Fresh(q), Given(q), Whole(q),
         [FetchNext]_fetchVars
  PROVE  Fresh(q)' /\ Given(q)' /\ Whole(q)'
<1> DEFINE Kept == Fresh(q)' /\ Given(q)' /\ Whole(q)'
<1> USE DEF FetchTypeOK, Fresh, Given, Whole
<1>1. ASSUME NEW r \in Requests, Call(r) \/ Send(r) PROVE Kept BY <1>1 DEF Call, Send
<1>2. ASSUME NEW r \in Requests, Settle(r) PROVE Kept BY <1>2 DEF Settle, go
<1>3. ASSUME NEW r \in Requests, Abort(r) PROVE Kept BY <1>3 DEF Abort, DropBody
<1>4. ASSUME NEW r \in Requests, Pull(r) PROVE Kept BY <1>4 DEF Pull, script
<1>5. ASSUME NEW r \in Requests, Answer(r) PROVE Kept BY <1>5 DEF Answer
<1>6. ASSUME NEW r \in Requests, CancelStream(r) PROVE Kept BY <1>6 DEF CancelStream, DropBody
<1>7. ASSUME NEW r \in Requests, Register(r) PROVE Kept BY <1>7 DEF Register, script
<1>8. ASSUME NEW r \in Requests, Responds(r) \/ NoHead(r) PROVE Kept
  BY <1>8 DEF Responds, NoHead, script
<1>9. ASSUME NEW r \in Requests, AddBody(r) PROVE Kept BY <1>9 DEF AddBody, script
<1>10. ASSUME NEW r \in Requests, Look(r) \/ ReadChunk(r) PROVE Kept
  BY <1>10 DEF Look, ReadChunk, script
<1>11. ASSUME NEW r \in Requests, ReadEnd(r) \/ ReadError(r) PROVE Kept
  BY <1>11, FetchConstants DEF ReadEnd, ReadError, DropBody, AtEnd, script, Owned
<1>12. CloseFetch => Kept BY DEF CloseFetch, script
<1>13. UNCHANGED fetchVars => Kept BY DEF fetchVars, script, go
<1>14. QED
  BY <1>1, <1>2, <1>3, <1>4, <1>5, <1>6, <1>7, <1>8, <1>9, <1>10, <1>11, <1>12, <1>13
  DEF FetchNext

LEMMA FetchKeeps == FInv /\ [FetchNext]_fetchVars => FInv'
<1> SUFFICES ASSUME FInv, [FetchNext]_fetchVars PROVE FInv'
  OBVIOUS
<1>1. \A q \in Requests : (Fresh(q) /\ Given(q) /\ Whole(q))'
  BY StreamKeeps DEF FInv, Streams
<1>2. QED BY <1>1, FetchTypeKeeps, OwnedKeeps DEF FInv, Streams

\* What the inductive invariant says of the table and of the streams.
LEMMA FetchGives == FInv => NoBodyIsLost /\ EndIsWhole
BY DEF FInv, Cancellable, InReach, Owned, NoBodyIsLost, Streams, Whole, EndIsWhole

\* The inductive invariant of the requests.
THEOREM FetchInductive == FetchSpec => []FInv
<1>1. FetchInit => FInv BY InitFInv DEF FetchInit
<1>2. QED BY <1>1, FetchKeeps, PTL DEF FetchSpec

\* nodecompat/fetch.go: every variable of a request keeps its type.
THEOREM FetchTypeCorrect == FetchSpec => []FetchTypeOK
<1>1. FInv => FetchTypeOK BY DEF FInv
<1>2. QED BY <1>1, FetchInductive, PTL
=============================================================================
