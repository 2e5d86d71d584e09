------------------------------ MODULE Pipeline ------------------------------
(***************************************************************************)
(* The one pipeline the harness builds, pipeline(Readable.from(rows),      *)
(* createZstdCompress(), async consumer), which migrates a session log:    *)
(* js/node/stream.js, js/node/zlib.js and the encoder handles of           *)
(* nodecompat/compress.go.  One thread; what interleaves are its           *)
(* microtasks: answers of the source's iterator, of which several may be   *)
(* under way, the flowing source's ticks, the consumer's rounds, and the   *)
(* pipeline's own teardown.                                                *)
(*                                                                         *)
(* Data is counted in rows; the end of the frame counts as one more, and   *)
(* how the transform's output is cut into chunks is left open.             *)
(* Compat.Close sweeps the encoders of a script it ends, and no JavaScript *)
(* runs after it.                                                          *)
(***************************************************************************)
EXTENDS Naturals

CONSTANTS Rows,
          MaxReads   \* bound: reads of the source under way at once

ASSUME PipelineConstants == Rows \in Nat /\ MaxReads \in Nat \ {0}

VARIABLES
  rows,      \* the source's iterator: rows it has still to yield
  reads,     \* next() calls under way
  buffered,  \* the source's #buffer
  ended, dead, over,   \* the source: #ended, #destroyed, 'end' emitted
  tick,      \* a #notify microtask of the flowing source is queued
  encoder,   \* is the encoder in c.encoders?
  inside,    \* rows the encoder has not handed out
  broken,    \* the transform's writable half is destroyed
  chunks,    \* what is in the transform's #buffer
  full,      \* the transform: #ended
  con,       \* the consumer
  wrote,     \* what it has written
  verdict,   \* of the pipeline; "error" is reported once all is torn down
  swept      \* c.closed

source    == <<rows, reads, buffered, ended, dead, over, tick>>
transform == <<encoder, inside, broken, chunks, full>>
pipeVars == <<source, transform, con, wrote, verdict, swept>>

PipeTypeOK ==
  /\ rows \in 0..Rows /\ reads \in 0..MaxReads
  /\ buffered \in 0..Rows /\ inside \in 0..Rows
  /\ chunks \in 0..Rows + 1 /\ wrote \in 0..Rows + 1
  /\ {ended, dead, over, tick, encoder, broken, full, swept} \subseteq BOOLEAN
  /\ con \in [at : {"look", "wait", "woken", "thrown", "write", "done", "failed"},
              chunk : 0..Rows + 1]
  /\ verdict \in {"none", "ok", "failing", "error"}

PipeStart(isSwept) ==
  /\ rows = Rows /\ reads = 1 /\ buffered = 0
  /\ ended = FALSE /\ dead = FALSE /\ over = FALSE /\ tick = TRUE
  /\ encoder = ~isSwept /\ inside = 0 /\ broken = FALSE
  /\ chunks = 0 /\ full = FALSE
  /\ con = [at |-> "look", chunk |-> 0]
  /\ wrote = 0
  /\ verdict = "none"
  /\ swept = isSwept

-----------------------------------------------------------------------------
\* #pump: every tick and every 'drain' asks for more, without waiting for what
\* was asked before.
Pumped == IF ended \/ reads = MaxReads THEN {reads} ELSE reads + 1 .. MaxReads

\* A sleeping consumer is woken by push and by destroy, and thrown out by an
\* 'error' of the transform that finds it asleep.
Woken(c)  == IF c.at = "wait" THEN [c EXCEPT !.at = "woken"] ELSE c
Thrown(c) == IF c.at = "wait" THEN [c EXCEPT !.at = "thrown"] ELSE c
Failing   == IF verdict = "none" THEN "failing" ELSE verdict

\* The 'error' of the writable half surfaces on the stream the pipeline holds.
Swallowed == UNCHANGED <<con, verdict>>   \* mutant: it does not
Surfaces  == con' = Thrown(con) /\ verdict' = Failing

\* zstd.destroy: the handle, then the readable half.
KeepEncoder == encoder   \* mutant: destroy does not release the handle
Released    == FALSE
DestroyTransform ==
  /\ encoder' = Released
  /\ full' = TRUE
  /\ con' = Woken(con)
  /\ UNCHANGED <<inside, broken, chunks>>

-----------------------------------------------------------------------------
(* The source.                                                             *)

\* next() answers: a row, which push takes even of a destroyed stream; the
\* end; or an error.
Row ==
  /\ reads > 0 /\ rows > 0
  /\ rows' = rows - 1 /\ reads' = reads - 1
  /\ buffered' = buffered + 1
  /\ tick' = TRUE
  /\ UNCHANGED <<ended, dead, over, transform, con, wrote, verdict>>

Done ==
  /\ reads > 0 /\ rows = 0
  /\ reads' = reads - 1
  /\ ended' = TRUE
  /\ tick' = TRUE
  /\ UNCHANGED <<rows, buffered, dead, over, transform, con, wrote, verdict>>

\* destroy(err) of the source: its 'error' destroys the transform and fails
\* the pipeline.  The iterator yields no more.
SourceFails ==
  /\ reads > 0 /\ ~ended
  /\ reads' = reads - 1 /\ rows' = 0
  /\ ended' = TRUE /\ dead' = TRUE /\ tick' = TRUE
  /\ DestroyTransform
  /\ verdict' = Failing
  /\ UNCHANGED <<buffered, over, wrote>>

\* destroy of a destroyed stream does nothing.
FailsUnheard ==
  /\ reads > 0 /\ rows > 0 /\ dead
  /\ reads' = reads - 1 /\ rows' = 0
  /\ UNCHANGED <<buffered, ended, dead, over, tick, transform, con, wrote, verdict>>

-----------------------------------------------------------------------------
(* A tick: what is buffered goes to the encoder, whatever the consumer     *)
(* does, for write never says that it is full; each write's 'drain' asks   *)
(* the source for more.                                                    *)

Feed ==
  /\ tick /\ buffered > 0 /\ encoder
  /\ \E n \in 0..inside + buffered :
       /\ inside' = inside + buffered - n
       /\ chunks' = chunks + n
       /\ con' = IF n = 0 THEN con ELSE Woken(con)
  /\ buffered' = 0
  /\ reads' \in Pumped
  /\ UNCHANGED <<rows, ended, dead, over, tick, encoder, broken, full, wrote, verdict>>

\* The encoder refuses, or is gone: the writable half is destroyed, once.
FeedFails ==
  /\ tick /\ buffered > 0
  /\ buffered' = 0
  /\ encoder' = FALSE
  /\ broken' = TRUE
  /\ IF broken THEN UNCHANGED <<con, verdict>> ELSE Surfaces
  /\ UNCHANGED <<rows, reads, ended, dead, over, tick, inside, chunks, full, wrote>>

\* Nothing is buffered: 'end' once, or the next read.
Ask ==
  /\ tick /\ buffered = 0 /\ ~ended
  /\ tick' = FALSE
  /\ reads' \in Pumped
  /\ UNCHANGED <<rows, buffered, ended, dead, over, transform, con, wrote, verdict>>

\* 'end' closes the frame: what the encoder held, then null.
TailLost   == chunks   \* mutant: flush forgets its last chunk
WithTail   == chunks + inside + 1
EndIsDue   == tick /\ ended /\ ~over /\ buffered = 0
EndFrame ==
  /\ EndIsDue /\ encoder
  /\ tick' = FALSE /\ over' = TRUE
  /\ encoder' = FALSE
  /\ inside' = 0 /\ chunks' = WithTail
  /\ full' = TRUE
  /\ con' = Woken(con)
  /\ UNCHANGED <<rows, reads, buffered, ended, dead, broken, wrote, verdict>>

EndFails ==
  /\ EndIsDue
  /\ tick' = FALSE /\ over' = TRUE
  /\ encoder' = FALSE
  /\ broken' = TRUE
  /\ IF broken THEN UNCHANGED <<con, verdict>> ELSE Surfaces
  /\ UNCHANGED <<rows, reads, buffered, ended, dead, inside, chunks, full, wrote>>

Idle ==
  /\ tick /\ buffered = 0 /\ ended /\ over
  /\ tick' = FALSE
  /\ UNCHANGED <<rows, reads, buffered, ended, dead, over, transform, con, wrote, verdict>>

-----------------------------------------------------------------------------
(* The consumer: for await over the transform, writing each chunk.         *)

Consume ==
  /\ con.at \in {"look", "woken"}
  /\ \/ \E n \in 1..chunks :
          /\ con' = [at |-> "write", chunk |-> n]
          /\ chunks' = chunks - n
     \/ /\ chunks = 0
        /\ con' = [at |-> IF full THEN "done" ELSE "wait", chunk |-> 0]
        /\ UNCHANGED chunks
  /\ UNCHANGED <<source, encoder, inside, broken, full, wrote, verdict>>

Written ==
  /\ con.at = "write"
  /\ con' = [at |-> "look", chunk |-> 0]
  /\ wrote' = wrote + con.chunk
  /\ UNCHANGED <<source, transform, verdict>>

WriteFails ==
  /\ con.at \in {"write", "thrown"}
  /\ con' = [at |-> "failed", chunk |-> 0]
  /\ UNCHANGED <<source, transform, wrote, verdict>>

\* The race of runPipeline, and its catch, which destroys both streams.
Settles ==
  /\ verdict = "none" /\ con.at \in {"done", "failed"}
  /\ verdict' = IF con.at = "done" THEN "ok" ELSE "failing"
  /\ UNCHANGED <<source, transform, con, wrote>>

TearDown ==
  /\ verdict = "failing"
  /\ verdict' = "error"
  /\ ended' = TRUE /\ dead' = TRUE
  /\ tick' = (tick \/ ~dead)
  /\ DestroyTransform
  /\ UNCHANGED <<rows, reads, buffered, over, wrote>>

CloseEncoders ==
  /\ swept' = TRUE
  /\ encoder' = FALSE
  /\ UNCHANGED <<source, inside, broken, chunks, full, con, wrote, verdict>>

Script(A) == ~swept /\ A /\ UNCHANGED swept
PipeNext ==
  \/ Script(Row) \/ Script(Done) \/ Script(SourceFails) \/ Script(FailsUnheard)
  \/ Script(Feed) \/ Script(FeedFails) \/ Script(Ask)
  \/ Script(EndFrame) \/ Script(EndFails) \/ Script(Idle)
  \/ Script(Consume) \/ Script(Written) \/ Script(WriteFails)
  \/ Script(Settles) \/ Script(TearDown)
  \/ ~swept /\ CloseEncoders

PipeInit == PipeStart(FALSE)
PipeSpec == PipeInit /\ [][PipeNext]_pipeVars

\* While a job pumps the loop (own() turns it only at boot and inside a job, as
\* Turns and Watch say) microtasks all run; the source's iterator answers and
\* writes return.  The fairness presumes such a job until the pipeline is over:
\* one whose run was abandoned waits for the next.
PipeFairness ==
  /\ WF_pipeVars(Script(Row \/ Done \/ SourceFails \/ FailsUnheard))
  /\ WF_pipeVars(Script(Feed \/ FeedFails \/ Ask \/ EndFrame \/ EndFails \/ Idle))
  /\ WF_pipeVars(Script(Consume \/ Written \/ WriteFails))
  /\ WF_pipeVars(Script(Settles \/ TearDown))
PipeFair == PipeSpec /\ PipeFairness

-----------------------------------------------------------------------------
\* A pipeline that resolves has written every row and the end of the frame;
\* a log cut short by the source, the encoder or the consumer is an error.
OkIsWhole == verdict = "ok" => wrote = Rows + 1

\* Whatever failed, no encoder is left in the table when the pipeline is over
\* (zlib.js:100: "released when the stream ends or is destroyed"; compress.go:15).
EncoderFreed == verdict \in {"ok", "error"} \/ swept => ~encoder

\* A consumer that sleeps in a pipeline where nothing failed has nothing to read
\* yet and somebody to wake it: the transform has not ended, and the source has
\* a tick queued or a read under way (stream.js's #notify and #pump).
SleeperIsWoken ==
  con.at = "wait" /\ verdict = "none" =>
    chunks = 0 /\ ~full /\ (tick \/ reads > 0)

\* While the loop is pumped, the pipeline ends: stream.js:231, "unless the
\* error surfaces on the stream a caller holds, a pipeline through it waits
\* forever".
PipelineEnds == <>(verdict \in {"ok", "error"} \/ swept)
=============================================================================
