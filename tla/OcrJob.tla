------------------------------- MODULE OcrJob -------------------------------
(***************************************************************************)
(* What one OCR job promises the screen that started it, whatever threads, *)
(* locks and native state it is made of: which messages it posts, in which *)
(* order, and that it posts nothing once it has been cancelled.            *)
(*                                                                         *)
(* OcrEngine implements this specification; OcrScreen is built on it.      *)
(***************************************************************************)
EXTENDS Sequences

VARIABLES
    phase,      \* how far the job is
    cancelled,  \* the screen has cancelled it
    outbox      \* the messages posted so far, in order

jobVars == <<phase, cancelled, outbox>>

Phases == {"idle", "imaging", "reading", "closing", "over"}
Messages == {"FINAL_IMAGE", "ERROR", "HOCR_TEXT", "UTF8_TEXT", "END"}

JobInit ==
    /\ phase = "idle"
    /\ cancelled = FALSE
    /\ outbox = <<>>

Advance(from, to) ==
    /\ phase = from
    /\ phase' = to
    /\ UNCHANGED cancelled

Emit(msgs) == outbox' = IF cancelled THEN outbox ELSE outbox \o msgs

StartJob  == Advance("idle", "imaging") /\ UNCHANGED outbox
ShowImage == Advance("imaging", "reading") /\ Emit(<<"FINAL_IMAGE">>)

\* The text and its layout are posted together or not at all.
Publish     == ~cancelled /\ Advance("reading", "closing") /\ Emit(<<"HOCR_TEXT", "UTF8_TEXT">>)
ReportError == ~cancelled /\ Advance("reading", "closing") /\ Emit(<<"ERROR">>)

\* A job that was cancelled, or that an exception ended, publishes nothing.
Abandon   == Advance("reading", "closing") /\ UNCHANGED outbox
FinishJob == Advance("closing", "over") /\ Emit(<<"END">>)

CancelJob ==
    /\ ~cancelled
    /\ cancelled' = TRUE
    /\ UNCHANGED <<phase, outbox>>

JobStep == StartJob \/ ShowImage \/ Publish \/ ReportError \/ Abandon \/ FinishJob
JobNext == JobStep \/ CancelJob

JobSpec == JobInit /\ [][JobNext]_jobVars
=============================================================================
