--------------------------- MODULE NodeCompatProofs ---------------------------
(***************************************************************************)
(* What the pipeline keeps for a log of any length: rows are neither lost  *)
(* nor doubled on their way while nothing has failed, and a consumer that  *)
(* sleeps is woken.  Then what the three tables of one Compat keep         *)
(* together: the theorems of the specification TLC checks.                 *)
(***************************************************************************)
EXTENDS NodeCompat, FetchProofs, WatchProofs

Counts ==
  /\ rows \in Nat /\ reads \in 0..MaxReads /\ buffered \in Nat /\ inside \in Nat
  /\ chunks \in Nat /\ wrote \in Nat
Flags ==
  /\ ended \in BOOLEAN /\ dead \in BOOLEAN /\ over \in BOOLEAN /\ tick \in BOOLEAN
  /\ encoder \in BOOLEAN /\ broken \in BOOLEAN /\ full \in BOOLEAN /\ swept \in BOOLEAN
Doing ==
  /\ verdict \in {"none", "ok", "failing", "error"}
  /\ con \in [at : {"look", "wait", "woken", "thrown", "write", "done", "failed"},
              chunk : Nat]
Kinds == Counts /\ Flags /\ Doing

\* Everything there is, from the iterator to what the consumer has written.
Total == rows + buffered + inside + chunks + con.chunk + wrote
Framed(b) == IF b THEN Rows + 1 ELSE Rows
Bounded ==
  /\ rows + buffered + inside <= Rows
  /\ Total <= Framed(over)

\* What has failed has failed the pipeline.
Heard ==
  /\ dead \/ broken => verdict # "none"
  /\ con.at = "thrown" => verdict # "none"

\* Until something fails nothing is lost, the source ends when it is empty, and
\* the transform ends by framing all it was given.
Conserved ==
  verdict = "none" /\ con.at # "failed" =>
    /\ Total = Framed(full)
    /\ ended => rows = 0
    /\ full => rows = 0 /\ buffered = 0 /\ inside = 0 /\ over
    /\ over => full
Complete ==
  /\ con.at = "done" => full
  /\ con.at = "done" /\ verdict = "none" => wrote = Rows + 1
  /\ verdict = "ok" => wrote = Rows + 1 /\ con.at = "done"

Freed ==
  /\ full \/ swept => ~encoder
  /\ verdict = "error" => ~encoder

Holding == con.at # "write" => con.chunk = 0

PInv == Holding /\ Kinds /\ Bounded /\ Heard /\ Conserved /\ Complete /\ Freed

-----------------------------------------------------------------------------
LEMMA InitPInv == ASSUME NEW b \in BOOLEAN, PipeStart(b) PROVE PInv
<1> USE PipelineConstants DEF PipeStart
<1>1. Kinds
  <2>1. Counts BY DEF Kinds, Counts
  <2>2. Flags BY DEF Kinds, Flags
  <2>3. Doing BY DEF Kinds, Doing
  <2>4. QED BY <2>1, <2>2, <2>3 DEF Kinds
<1>2. Bounded BY DEF Kinds, Counts, Flags, Doing, Bounded, Total, Framed
<1>3. Heard BY DEF Kinds, Counts, Flags, Doing, Heard
<1>4. Conserved BY DEF Kinds, Counts, Flags, Doing, Conserved, Total, Framed, Heard
<1>5. Complete BY DEF Kinds, Counts, Flags, Doing, Complete, Conserved, Total, Framed
<1>6. Freed BY DEF Kinds, Counts, Flags, Doing, Freed
<1>7. Holding BY DEF Holding
<1>8. QED BY <1>1, <1>2, <1>3, <1>4, <1>5, <1>6, <1>7 DEF PInv

\* One lemma per action, with a step for each conjunct.
LEMMA RowKeeps ==
  ASSUME PInv, swept' = swept, Row
  PROVE  PInv'
<1> USE PipelineConstants DEF PInv, Row, transform
<1>1. Kinds'
  <2>1. Counts' BY DEF Kinds, Counts, Doing
  <2>2. Flags' BY DEF Kinds, Flags
  <2>3. Doing' BY DEF Kinds, Doing
  <2>4. QED BY <2>1, <2>2, <2>3 DEF Kinds
<1>2. Bounded' BY DEF Bounded, Holding, Framed, Kinds, Counts, Flags, Doing, Total
<1>3. Heard' BY DEF Heard, Kinds, Counts, Flags, Doing
<1>4. Conserved' BY DEF Conserved, Holding, Framed, Heard, Kinds, Counts, Flags, Doing, Total
<1>5. Complete' BY DEF Complete, Holding, Conserved, Framed, Kinds, Counts, Flags, Doing, Total
<1>6. Freed' BY DEF Freed, Kinds, Counts, Flags, Doing
<1>7. Holding' BY DEF Holding, Kinds, Counts, Flags, Doing
<1>8. QED BY <1>1, <1>2, <1>3, <1>4, <1>5, <1>6, <1>7

LEMMA DoneKeeps ==
  ASSUME PInv, swept' = swept, Done
  PROVE  PInv'
<1> USE PipelineConstants DEF PInv, Done, transform
<1>1. Kinds'
  <2>1. Counts' BY DEF Kinds, Counts, Doing
  <2>2. Flags' BY DEF Kinds, Flags
  <2>3. Doing' BY DEF Kinds, Doing
  <2>4. QED BY <2>1, <2>2, <2>3 DEF Kinds
<1>2. Bounded' BY DEF Bounded, Holding, Framed, Kinds, Counts, Flags, Doing, Total
<1>3. Heard' BY DEF Heard, Kinds, Counts, Flags, Doing
<1>4. Conserved' BY DEF Conserved, Holding, Framed, Heard, Kinds, Counts, Flags, Doing, Total
<1>5. Complete' BY DEF Complete, Holding, Conserved, Framed, Kinds, Counts, Flags, Doing, Total
<1>6. Freed' BY DEF Freed, Kinds, Counts, Flags, Doing
<1>7. Holding' BY DEF Holding, Kinds, Counts, Flags, Doing
<1>8. QED BY <1>1, <1>2, <1>3, <1>4, <1>5, <1>6, <1>7

LEMMA SourceFailsKeeps ==
  ASSUME PInv, swept' = swept, SourceFails
  PROVE  PInv'
<1> USE PipelineConstants DEF PInv, SourceFails, Failing, DestroyTransform, Released, Woken
<1>1. Kinds'
  <2>1. Counts' BY DEF Kinds, Counts, Doing
  <2>2. Flags' BY DEF Kinds, Flags
  <2>3. Doing' BY DEF Kinds, Doing
  <2>4. QED BY <2>1, <2>2, <2>3 DEF Kinds
<1>2. Bounded' BY DEF Bounded, Holding, Framed, Kinds, Counts, Flags, Doing, Total
<1>3. Heard' BY DEF Heard, Kinds, Counts, Flags, Doing
<1>4. Conserved' BY DEF Conserved, Holding, Framed, Heard, Kinds, Counts, Flags, Doing, Total
<1>5. Complete' BY DEF Complete, Holding, Conserved, Framed, Kinds, Counts, Flags, Doing, Total
<1>6. Freed' BY DEF Freed, Kinds, Counts, Flags, Doing
<1>7. Holding' BY DEF Holding, Kinds, Counts, Flags, Doing
<1>8. QED BY <1>1, <1>2, <1>3, <1>4, <1>5, <1>6, <1>7

LEMMA FailsUnheardKeeps ==
  ASSUME PInv, swept' = swept, FailsUnheard
  PROVE  PInv'
<1> USE PipelineConstants DEF PInv, FailsUnheard, transform
<1>1. Kinds'
  <2>1. Counts' BY DEF Kinds, Counts, Doing
  <2>2. Flags' BY DEF Kinds, Flags
  <2>3. Doing' BY DEF Kinds, Doing
  <2>4. QED BY <2>1, <2>2, <2>3 DEF Kinds
<1>2. Bounded' BY DEF Bounded, Holding, Framed, Kinds, Counts, Flags, Doing, Total
<1>3. Heard' BY DEF Heard, Kinds, Counts, Flags, Doing
<1>4. Conserved' BY DEF Conserved, Holding, Framed, Heard, Kinds, Counts, Flags, Doing, Total
<1>5. Complete' BY DEF Complete, Holding, Conserved, Framed, Kinds, Counts, Flags, Doing, Total
<1>6. Freed' BY DEF Freed, Kinds, Counts, Flags, Doing
<1>7. Holding' BY DEF Holding, Kinds, Counts, Flags, Doing
<1>8. QED BY <1>1, <1>2, <1>3, <1>4, <1>5, <1>6, <1>7

LEMMA FeedKeeps ==
  ASSUME PInv, swept' = swept, Feed
  PROVE  PInv'
<1> USE PipelineConstants DEF PInv, Feed, Pumped, Woken
<1>1. Kinds'
  <2>1. Counts' BY DEF Kinds, Counts, Doing
  <2>2. Flags' BY DEF Kinds, Flags
  <2>3. Doing' BY DEF Kinds, Doing
  <2>4. QED BY <2>1, <2>2, <2>3 DEF Kinds
<1>2. Bounded' BY DEF Bounded, Holding, Framed, Kinds, Counts, Flags, Doing, Total
<1>3. Heard' BY DEF Heard, Kinds, Counts, Flags, Doing
<1>4. Conserved' BY DEF Conserved, Holding, Framed, Heard, Kinds, Counts, Flags, Doing, Total
<1>5. Complete' BY DEF Complete, Holding, Conserved, Framed, Kinds, Counts, Flags, Doing, Total
<1>6. Freed' BY DEF Freed, Kinds, Counts, Flags, Doing
<1>7. Holding' BY DEF Holding, Kinds, Counts, Flags, Doing
<1>8. QED BY <1>1, <1>2, <1>3, <1>4, <1>5, <1>6, <1>7

LEMMA FeedFailsKeeps ==
  ASSUME PInv, swept' = swept, FeedFails
  PROVE  PInv'
<1> USE PipelineConstants DEF PInv, FeedFails, Surfaces, Thrown, Failing
<1>1. Kinds'
  <2>1. Counts' BY DEF Kinds, Counts, Doing
  <2>2. Flags' BY DEF Kinds, Flags
  <2>3. Doing' BY DEF Kinds, Doing
  <2>4. QED BY <2>1, <2>2, <2>3 DEF Kinds
<1>2. Bounded' BY DEF Bounded, Holding, Framed, Kinds, Counts, Flags, Doing, Total
<1>3. Heard' BY DEF Heard, Kinds, Counts, Flags, Doing
<1>4. Conserved' BY DEF Conserved, Holding, Framed, Heard, Kinds, Counts, Flags, Doing, Total
<1>5. Complete' BY DEF Complete, Holding, Conserved, Framed, Kinds, Counts, Flags, Doing, Total
<1>6. Freed' BY DEF Freed, Kinds, Counts, Flags, Doing
<1>7. Holding' BY DEF Holding, Kinds, Counts, Flags, Doing
<1>8. QED BY <1>1, <1>2, <1>3, <1>4, <1>5, <1>6, <1>7

LEMMA AskKeeps ==
  ASSUME PInv, swept' = swept, Ask
  PROVE  PInv'
<1> USE PipelineConstants DEF PInv, Ask, Pumped, transform
<1>1. Kinds'
  <2>1. Counts' BY DEF Kinds, Counts, Doing
  <2>2. Flags' BY DEF Kinds, Flags
  <2>3. Doing' BY DEF Kinds, Doing
  <2>4. QED BY <2>1, <2>2, <2>3 DEF Kinds
<1>2. Bounded' BY DEF Bounded, Holding, Framed, Kinds, Counts, Flags, Doing, Total
<1>3. Heard' BY DEF Heard, Kinds, Counts, Flags, Doing
<1>4. Conserved' BY DEF Conserved, Holding, Framed, Heard, Kinds, Counts, Flags, Doing, Total
<1>5. Complete' BY DEF Complete, Holding, Conserved, Framed, Kinds, Counts, Flags, Doing, Total
<1>6. Freed' BY DEF Freed, Kinds, Counts, Flags, Doing
<1>7. Holding' BY DEF Holding, Kinds, Counts, Flags, Doing
<1>8. QED BY <1>1, <1>2, <1>3, <1>4, <1>5, <1>6, <1>7

LEMMA EndFrameKeeps ==
  ASSUME PInv, swept' = swept, EndFrame
  PROVE  PInv'
<1> USE PipelineConstants DEF PInv, EndFrame, EndIsDue, WithTail, Woken
<1>1. Kinds'
  <2>1. Counts' BY DEF Kinds, Counts, Doing
  <2>2. Flags' BY DEF Kinds, Flags
  <2>3. Doing' BY DEF Kinds, Doing
  <2>4. QED BY <2>1, <2>2, <2>3 DEF Kinds
<1>2. Bounded' BY DEF Bounded, Holding, Framed, Kinds, Counts, Flags, Doing, Total
<1>3. Heard' BY DEF Heard, Kinds, Counts, Flags, Doing
<1>4. Conserved' BY DEF Conserved, Holding, Framed, Heard, Kinds, Counts, Flags, Doing, Total
<1>5. Complete' BY DEF Complete, Holding, Conserved, Framed, Kinds, Counts, Flags, Doing, Total
<1>6. Freed' BY DEF Freed, Kinds, Counts, Flags, Doing
<1>7. Holding' BY DEF Holding, Kinds, Counts, Flags, Doing
<1>8. QED BY <1>1, <1>2, <1>3, <1>4, <1>5, <1>6, <1>7

LEMMA EndFailsKeeps ==
  ASSUME PInv, swept' = swept, EndFails
  PROVE  PInv'
<1> USE PipelineConstants DEF PInv, EndFails, EndIsDue, Surfaces, Thrown, Failing
<1>1. Kinds'
  <2>1. Counts' BY DEF Kinds, Counts, Doing
  <2>2. Flags' BY DEF Kinds, Flags
  <2>3. Doing' BY DEF Kinds, Doing
  <2>4. QED BY <2>1, <2>2, <2>3 DEF Kinds
<1>2. Bounded' BY DEF Bounded, Holding, Framed, Kinds, Counts, Flags, Doing, Total
<1>3. Heard' BY DEF Heard, Kinds, Counts, Flags, Doing
<1>4. Conserved' BY DEF Conserved, Holding, Framed, Heard, Kinds, Counts, Flags, Doing, Total
<1>5. Complete' BY DEF Complete, Holding, Conserved, Framed, Kinds, Counts, Flags, Doing, Total
<1>6. Freed' BY DEF Freed, Kinds, Counts, Flags, Doing
<1>7. Holding' BY DEF Holding, Kinds, Counts, Flags, Doing
<1>8. QED BY <1>1, <1>2, <1>3, <1>4, <1>5, <1>6, <1>7

LEMMA IdleKeeps ==
  ASSUME PInv, swept' = swept, Idle
  PROVE  PInv'
<1> USE PipelineConstants DEF PInv, Idle, transform
<1>1. Kinds'
  <2>1. Counts' BY DEF Kinds, Counts, Doing
  <2>2. Flags' BY DEF Kinds, Flags
  <2>3. Doing' BY DEF Kinds, Doing
  <2>4. QED BY <2>1, <2>2, <2>3 DEF Kinds
<1>2. Bounded' BY DEF Bounded, Holding, Framed, Kinds, Counts, Flags, Doing, Total
<1>3. Heard' BY DEF Heard, Kinds, Counts, Flags, Doing
<1>4. Conserved' BY DEF Conserved, Holding, Framed, Heard, Kinds, Counts, Flags, Doing, Total
<1>5. Complete' BY DEF Complete, Holding, Conserved, Framed, Kinds, Counts, Flags, Doing, Total
<1>6. Freed' BY DEF Freed, Kinds, Counts, Flags, Doing
<1>7. Holding' BY DEF Holding, Kinds, Counts, Flags, Doing
<1>8. QED BY <1>1, <1>2, <1>3, <1>4, <1>5, <1>6, <1>7

LEMMA ConsumeKeeps ==
  ASSUME PInv, swept' = swept, Consume
  PROVE  PInv'
<1> USE PipelineConstants DEF PInv, Consume, source
<1>1. Kinds'
  <2>1. Counts' BY DEF Kinds, Counts, Doing
  <2>2. Flags' BY DEF Kinds, Flags
  <2>3. Doing' BY DEF Kinds, Doing
  <2>4. QED BY <2>1, <2>2, <2>3 DEF Kinds
<1>2. Bounded' BY DEF Bounded, Holding, Framed, Kinds, Counts, Flags, Doing, Total
<1>3. Heard' BY DEF Heard, Kinds, Counts, Flags, Doing
<1>4. Conserved' BY DEF Conserved, Holding, Framed, Heard, Kinds, Counts, Flags, Doing, Total
<1>5. Complete' BY DEF Complete, Holding, Conserved, Framed, Kinds, Counts, Flags, Doing, Total
<1>6. Freed' BY DEF Freed, Kinds, Counts, Flags, Doing
<1>7. Holding' BY DEF Holding, Kinds, Counts, Flags, Doing
<1>8. QED BY <1>1, <1>2, <1>3, <1>4, <1>5, <1>6, <1>7

LEMMA WrittenKeeps ==
  ASSUME PInv, swept' = swept, Written
  PROVE  PInv'
<1> USE PipelineConstants DEF PInv, Written, source, transform
<1>1. Kinds'
  <2>1. Counts' BY DEF Kinds, Counts, Doing
  <2>2. Flags' BY DEF Kinds, Flags
  <2>3. Doing' BY DEF Kinds, Doing
  <2>4. QED BY <2>1, <2>2, <2>3 DEF Kinds
<1>2. Bounded' BY DEF Bounded, Holding, Framed, Kinds, Counts, Flags, Doing, Total
<1>3. Heard' BY DEF Heard, Kinds, Counts, Flags, Doing
<1>4. Conserved' BY DEF Conserved, Holding, Framed, Heard, Kinds, Counts, Flags, Doing, Total
<1>5. Complete' BY DEF Complete, Holding, Conserved, Framed, Kinds, Counts, Flags, Doing, Total
<1>6. Freed' BY DEF Freed, Kinds, Counts, Flags, Doing
<1>7. Holding' BY DEF Holding, Kinds, Counts, Flags, Doing
<1>8. QED BY <1>1, <1>2, <1>3, <1>4, <1>5, <1>6, <1>7

LEMMA WriteFailsKeeps ==
  ASSUME PInv, swept' = swept, WriteFails
  PROVE  PInv'
<1> USE PipelineConstants DEF PInv, WriteFails, source, transform
<1>1. Kinds'
  <2>1. Counts' BY DEF Kinds, Counts, Doing
  <2>2. Flags' BY DEF Kinds, Flags
  <2>3. Doing' BY DEF Kinds, Doing
  <2>4. QED BY <2>1, <2>2, <2>3 DEF Kinds
<1>2. Bounded' BY DEF Bounded, Holding, Framed, Kinds, Counts, Flags, Doing, Total
<1>3. Heard' BY DEF Heard, Kinds, Counts, Flags, Doing
<1>4. Conserved' BY DEF Conserved, Holding, Framed, Heard, Kinds, Counts, Flags, Doing, Total
<1>5. Complete' BY DEF Complete, Holding, Conserved, Framed, Kinds, Counts, Flags, Doing, Total
<1>6. Freed' BY DEF Freed, Kinds, Counts, Flags, Doing
<1>7. Holding' BY DEF Holding, Kinds, Counts, Flags, Doing
<1>8. QED BY <1>1, <1>2, <1>3, <1>4, <1>5, <1>6, <1>7

LEMMA SettlesKeeps ==
  ASSUME PInv, swept' = swept, Settles
  PROVE  PInv'
<1> USE PipelineConstants DEF PInv, Settles, source, transform
<1>1. Kinds'
  <2>1. Counts' BY DEF Kinds, Counts, Doing
  <2>2. Flags' BY DEF Kinds, Flags
  <2>3. Doing' BY DEF Kinds, Doing
  <2>4. QED BY <2>1, <2>2, <2>3 DEF Kinds
<1>2. Bounded' BY DEF Bounded, Holding, Framed, Kinds, Counts, Flags, Doing, Total
<1>3. Heard' BY DEF Heard, Kinds, Counts, Flags, Doing
<1>4. Conserved' BY DEF Conserved, Holding, Framed, Heard, Kinds, Counts, Flags, Doing, Total
<1>5. Complete' BY DEF Complete, Holding, Conserved, Framed, Kinds, Counts, Flags, Doing, Total
<1>6. Freed' BY DEF Freed, Kinds, Counts, Flags, Doing
<1>7. Holding' BY DEF Holding, Kinds, Counts, Flags, Doing
<1>8. QED BY <1>1, <1>2, <1>3, <1>4, <1>5, <1>6, <1>7

LEMMA TearDownKeeps ==
  ASSUME PInv, swept' = swept, TearDown
  PROVE  PInv'
<1> USE PipelineConstants DEF PInv, TearDown, DestroyTransform, Released, Woken
<1>1. Kinds'
  <2>1. Counts' BY DEF Kinds, Counts, Doing
  <2>2. Flags' BY DEF Kinds, Flags
  <2>3. Doing' BY DEF Kinds, Doing
  <2>4. QED BY <2>1, <2>2, <2>3 DEF Kinds
<1>2. Bounded' BY DEF Bounded, Holding, Framed, Kinds, Counts, Flags, Doing, Total
<1>3. Heard' BY DEF Heard, Kinds, Counts, Flags, Doing
<1>4. Conserved' BY DEF Conserved, Holding, Framed, Heard, Kinds, Counts, Flags, Doing, Total
<1>5. Complete' BY DEF Complete, Holding, Conserved, Framed, Kinds, Counts, Flags, Doing, Total
<1>6. Freed' BY DEF Freed, Kinds, Counts, Flags, Doing
<1>7. Holding' BY DEF Holding, Kinds, Counts, Flags, Doing
<1>8. QED BY <1>1, <1>2, <1>3, <1>4, <1>5, <1>6, <1>7

LEMMA CloseEncodersKeeps ==
  ASSUME PInv, CloseEncoders
  PROVE  PInv'
<1> USE PipelineConstants DEF PInv, CloseEncoders, source
<1>1. Kinds'
  <2>1. Counts' BY DEF Kinds, Counts, Doing
  <2>2. Flags' BY DEF Kinds, Flags
  <2>3. Doing' BY DEF Kinds, Doing
  <2>4. QED BY <2>1, <2>2, <2>3 DEF Kinds
<1>2. Bounded' BY DEF Bounded, Holding, Framed, Kinds, Counts, Flags, Doing, Total
<1>3. Heard' BY DEF Heard, Kinds, Counts, Flags, Doing
<1>4. Conserved' BY DEF Conserved, Holding, Framed, Heard, Kinds, Counts, Flags, Doing, Total
<1>5. Complete' BY DEF Complete, Holding, Conserved, Framed, Kinds, Counts, Flags, Doing, Total
<1>6. Freed' BY DEF Freed, Kinds, Counts, Flags, Doing
<1>7. Holding' BY DEF Holding, Kinds, Counts, Flags, Doing
<1>8. QED BY <1>1, <1>2, <1>3, <1>4, <1>5, <1>6, <1>7

-----------------------------------------------------------------------------
LEMMA StutterKeeps == ASSUME PInv, UNCHANGED pipeVars PROVE PInv'
<1> USE DEF PInv, pipeVars, source, transform
<1>1. Kinds' BY DEF Kinds, Counts, Flags, Doing
<1>2. Bounded' BY DEF Bounded, Framed, Total
<1>3. Heard' BY DEF Heard
<1>4. Conserved' BY DEF Conserved, Framed, Total
<1>5. Complete' BY DEF Complete
<1>6. Freed' BY DEF Freed
<1>7. Holding' BY DEF Holding
<1>8. QED BY <1>1, <1>2, <1>3, <1>4, <1>5, <1>6, <1>7

LEMMA PipeKeeps == PInv /\ [PipeNext]_pipeVars => PInv'
<1> SUFFICES ASSUME PInv, [PipeNext]_pipeVars PROVE PInv'
  OBVIOUS
<1>1. CASE Script(Row) BY <1>1, RowKeeps DEF Script
<1>2. CASE Script(Done) BY <1>2, DoneKeeps DEF Script
<1>3. CASE Script(SourceFails) BY <1>3, SourceFailsKeeps DEF Script
<1>4. CASE Script(FailsUnheard) BY <1>4, FailsUnheardKeeps DEF Script
<1>5. CASE Script(Feed) BY <1>5, FeedKeeps DEF Script
<1>6. CASE Script(FeedFails) BY <1>6, FeedFailsKeeps DEF Script
<1>7. CASE Script(Ask) BY <1>7, AskKeeps DEF Script
<1>8. CASE Script(EndFrame) BY <1>8, EndFrameKeeps DEF Script
<1>9. CASE Script(EndFails) BY <1>9, EndFailsKeeps DEF Script
<1>10. CASE Script(Idle) BY <1>10, IdleKeeps DEF Script
<1>11. CASE Script(Consume) BY <1>11, ConsumeKeeps DEF Script
<1>12. CASE Script(Written) BY <1>12, WrittenKeeps DEF Script
<1>13. CASE Script(WriteFails) BY <1>13, WriteFailsKeeps DEF Script
<1>14. CASE Script(Settles) BY <1>14, SettlesKeeps DEF Script
<1>15. CASE Script(TearDown) BY <1>15, TearDownKeeps DEF Script
<1>16. CASE CloseEncoders BY <1>16, CloseEncodersKeeps
<1>17. CASE UNCHANGED pipeVars BY <1>17, StutterKeeps
<1>18. QED BY <1>1, <1>2, <1>3, <1>4, <1>5, <1>6, <1>7, <1>8, <1>9, <1>10, <1>11, <1>12, <1>13, <1>14, <1>15, <1>16, <1>17 DEF PipeNext

\* While nothing has failed and the transform goes on, the source is on its way
\* to a tick or a read; and a consumer sleeps on an empty transform only.
Driven ==
  /\ verdict = "none" /\ con.at # "failed" /\ ~full => tick \/ reads > 0
  /\ verdict = "none" /\ con.at = "wait" => chunks = 0 /\ ~full

LEMMA DrivenKeeps == PInv /\ Driven /\ [PipeNext]_pipeVars => Driven'
<1> SUFFICES ASSUME PInv, Driven, [PipeNext]_pipeVars PROVE Driven'
  OBVIOUS
<1> USE PipelineConstants DEF PInv, Kinds, Counts, Flags, Doing, Driven
<1>1. CASE Row \/ Done \/ Written \/ WriteFails \/ Settles
  BY <1>1 DEF Row, Done, Written, WriteFails, Settles, source, transform
<1>2. CASE SourceFails BY <1>2 DEF SourceFails, Failing
<1>3. CASE FailsUnheard BY <1>3 DEF FailsUnheard, Heard, transform
<1>4. CASE Feed
  <2>1. CASE verdict = "none"
    <3>1. tick' /\ verdict' = verdict /\ full' = full BY <1>4 DEF Feed
    <3>2. con'.at = "wait" => con.at = "wait" /\ chunks' = chunks
      BY <1>4 DEF Feed, Woken
    <3>3. QED BY <3>1, <3>2
  <2>2. CASE verdict # "none" BY <1>4, <2>2 DEF Feed
  <2>3. QED BY <2>1, <2>2
<1>5. CASE FeedFails \/ EndFails
  <2>1. verdict' # "none"
    BY <1>5 DEF FeedFails, EndFails, Surfaces, Failing, Heard
  <2>2. QED BY <2>1
<1>6. CASE Ask
  <2>1. reads' > 0 BY <1>6 DEF Ask, Pumped
  <2>2. QED BY <1>6, <2>1 DEF Ask, transform
<1>7. CASE EndFrame BY <1>7 DEF EndFrame, Woken
\* The source idles when its 'end' has framed the transform.
<1>8. CASE Idle
  <2>1. verdict = "none" /\ con.at # "failed" => full
    BY <1>8 DEF Idle, Conserved
  <2>2. QED BY <1>8, <2>1 DEF Idle, transform
<1>9. CASE Consume BY <1>9 DEF Consume, source
<1>10. CASE TearDown BY <1>10 DEF TearDown
<1>11. CASE CloseEncoders BY <1>11 DEF CloseEncoders, source
<1>12. CASE UNCHANGED pipeVars BY <1>12 DEF pipeVars, source, transform
<1>13. QED
  BY <1>1, <1>2, <1>3, <1>4, <1>5, <1>6, <1>7, <1>8, <1>9, <1>10, <1>11, <1>12
     DEF PipeNext, Script

\* What the invariant says of a pipeline that is over, and of one that sleeps.
LEMMA PipeGives == PInv /\ Driven => OkIsWhole /\ EncoderFreed /\ SleeperIsWoken
<1>1. PInv => OkIsWhole BY DEF PInv, Complete, OkIsWhole
<1>2. PInv => EncoderFreed BY DEF PInv, Complete, Freed, EncoderFreed
<1>3. Driven => SleeperIsWoken BY DEF Driven, SleeperIsWoken
<1>4. QED BY <1>1, <1>2, <1>3

\* The inductive invariant, of every step of stream.js, zlib.js and compress.go.
THEOREM PipelineInductive == PipeSpec => []PInv
<1>1. PipeInit => PInv BY InitPInv DEF PipeInit
<1>2. QED BY <1>1, PipeKeeps, PTL DEF PipeSpec

\* The source's buffer, the encoder and the transform never hold more than the
\* log's rows and the end of its frame (stream.js's #buffer arrays).
THEOREM PipeTypeCorrect == PipeSpec => []PipeTypeOK
<1>1. PInv => PipeTypeOK
  <2> SUFFICES ASSUME PInv PROVE PipeTypeOK
    OBVIOUS
  <2> USE PipelineConstants DEF PInv, Kinds, Counts, Doing, Flags
  <2>1. /\ rows \in 0..Rows /\ reads \in 0..MaxReads
        /\ buffered \in 0..Rows /\ inside \in 0..Rows
    BY DEF Bounded
  <2>2. /\ chunks \in 0..Rows + 1 /\ wrote \in 0..Rows + 1
        /\ con.chunk \in 0..Rows + 1
    BY DEF Bounded, Total, Framed
  <2>3. con \in [at : {"look", "wait", "woken", "thrown", "write", "done", "failed"},
                 chunk : 0..Rows + 1]
    BY <2>2
  <2>4. {ended, dead, over, tick, encoder, broken, full, swept} \subseteq BOOLEAN
    BY Zenon
  <2>5. QED BY <2>1, <2>2, <2>3, <2>4 DEF PipeTypeOK
<1>2. QED BY <1>1, PipelineInductive, PTL

-----------------------------------------------------------------------------
(* One Compat.  The three tables share its end and nothing else, so each   *)
(* keeps its own invariant while the others move; and each is right about  *)
(* a Compat that was closed before it was used.                            *)

CInv == FInv /\ WInv /\ PInv /\ Driven
compatVars == <<fetchVars, watchVars, pipeVars>>

\* An invariant of one table does not see the others' steps.
LEMMA OthersStay ==
  /\ FInv /\ UNCHANGED fetchVars => FInv'
  /\ WInv /\ UNCHANGED watchVars => WInv'
  /\ PInv /\ Driven /\ UNCHANGED pipeVars => PInv' /\ Driven'
<1>1. FInv /\ UNCHANGED fetchVars => FInv' BY FetchKeeps
<1>2. WInv /\ UNCHANGED watchVars => WInv' BY WatchKeeps
<1>3. PInv /\ Driven /\ UNCHANGED pipeVars => PInv' /\ Driven'
  BY PipeKeeps, DrivenKeeps
<1>4. QED BY <1>1, <1>2, <1>3

\* The inductive invariant of nodecompat's three tables in one Compat.
THEOREM CompatInductive == CompatSpec => []CInv
<1>1. CompatInit => CInv
  <2> SUFFICES ASSUME CompatInit PROVE CInv
    OBVIOUS
  <2>1. PICK used \in Tables :
          /\ FetchStart(used # "requests")
          /\ WatchStart(used # "watchers")
          /\ PipeStart(used # "encoders")
    BY DEF CompatInit
  <2>2. FInv BY <2>1, InitFInv
  <2>3. WInv BY <2>1, InitWInv
  <2>4. PInv BY <2>1, InitPInv
  <2>5. Driven BY <2>1 DEF PipeStart, Driven
  <2>6. QED BY <2>2, <2>3, <2>4, <2>5 DEF CInv
<1>2. CInv /\ [CompatNext]_compatVars => CInv'
  <2> SUFFICES ASSUME CInv, [CompatNext]_compatVars PROVE CInv'
    OBVIOUS
  <2> USE DEF CInv
  <2>1. CASE FetchNext /\ UNCHANGED <<watchVars, pipeVars>>
    BY <2>1, FetchKeeps, OthersStay
  <2>2. CASE WatchNext /\ UNCHANGED <<fetchVars, pipeVars>>
    BY <2>2, WatchKeeps, OthersStay
  <2>3. CASE PipeNext /\ UNCHANGED <<fetchVars, watchVars>>
    BY <2>3, PipeKeeps, DrivenKeeps, OthersStay
  <2>4. CASE UNCHANGED compatVars BY <2>4, OthersStay DEF compatVars
  <2>5. QED BY <2>1, <2>2, <2>3, <2>4 DEF CompatNext
<1>3. QED BY <1>1, <1>2, PTL DEF CompatSpec, compatVars

\* doFetch, httpRead and Compat.Close: no open body is out of reach, whatever
\* waits for the server can be told to stop, and nothing outlives the layer.
THEOREM BodiesKept == CompatSpec => []NoBodyIsLost
<1>1. CInv => NoBodyIsLost BY FetchGives DEF CInv
<1>2. QED BY <1>1, CompatInductive, PTL

\* httpRead: a stream that ends without having been aborted is the whole body.
THEOREM WholeBodies == CompatSpec => []EndIsWhole
<1>1. CInv => EndIsWhole BY FetchGives DEF CInv
<1>2. QED BY <1>1, CompatInductive, PTL

\* watcher.emit and drain: no event is missing that nobody is told about.
THEOREM GapsAreTold == CompatSpec => []GapIsTold
<1>1. CInv => GapIsTold BY WatchGives DEF CInv
<1>2. QED BY <1>1, CompatInductive, PTL

\* fs_promises.js watch(): what was collected is yielded before the end.
THEOREM ErrorsComeLast == CompatSpec => []ErrorComesLast
<1>1. CInv => ErrorComesLast BY WatchGives DEF CInv
<1>2. QED BY <1>1, CompatInductive, PTL

\* __holdWatchPoll: the timer an iterator waits for runs and is ref'd.
THEOREM PollStaysHeld == CompatSpec => []PollHeld
<1>1. CInv => PollHeld BY Refd DEF CInv
<1>2. QED BY <1>1, CompatInductive, PTL

\* watchClose, watchPoll and closeWatchers: what is not closed has failed.
THEOREM OnlyTheFailedLinger == CompatSpec => []OnlyFailedLinger
<1>1. CInv => OnlyFailedLinger BY WatchGives DEF CInv
<1>2. QED BY <1>1, CompatInductive, PTL

\* A migration that resolves has written the whole log: every row and the end of
\* the frame, whatever failed or overlapped on the way.
THEOREM WholeOrError == CompatSpec => []OkIsWhole
<1>1. CInv => OkIsWhole BY PipeGives DEF CInv
<1>2. QED BY <1>1, CompatInductive, PTL

\* stream.js, #notify and #pump: whoever sleeps on an empty transform has
\* somebody to wake it.
THEOREM SleepersAreWoken == CompatSpec => []SleeperIsWoken
<1>1. CInv => SleeperIsWoken BY PipeGives DEF CInv
<1>2. QED BY <1>1, CompatInductive, PTL

\* No encoder outlives its pipeline, or the script (compress.go:15).
THEOREM EncodersFreed == CompatSpec => []EncoderFreed
<1>1. CInv => EncoderFreed BY PipeGives DEF CInv
<1>2. QED BY <1>1, CompatInductive, PTL
=============================================================================
