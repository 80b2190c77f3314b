------------------------------ MODULE OcrScreen ------------------------------
(***************************************************************************)
(* OCRActivity: the screen that runs one OCR job on the cropped card and   *)
(* hands the text to ResultActivity. The main thread's message queue is    *)
(* shared by the job's messages, by what the AsyncTasks post when they are *)
(* through, and by the system's order to destroy the activity. LoadDataTask*)
(* and SavePixTask run on a background thread, one after the other, and    *)
(* use the field orgPix that onDestroy recycles and clears.                *)
(*                                                                         *)
(* The job itself is OcrJob, the specification that OcrEngine implements.  *)
(***************************************************************************)
EXTENDS Integers, Sequences, SequencesExt

CONSTANTS
    Leaked  \* references to the card's pix that CropImageActivity never gives back

ASSUME LeakedAssumption == Leaked \in Nat \ {0}

VARIABLES
    \* the OCR job
    phase, cancelled, outbox,
    threw,      \* the worker is leaving by an exception
    \* the activity
    screen,     \* "shown", "finishing" (finish() was called) or "destroyed"
    dialog,     \* the language dialog is showing
    html,       \* htmlString holds the text
    erred,      \* the error toast was shown
    results,    \* texts that ResultActivity was started with, in order
    \* the main thread
    queue,      \* its message queue
    mpc,        \* "loop", or where it is inside onDestroy
    \* the background thread of AsyncTask
    tpc,
    \* orgPix
    org,        \* the field: "null", the wrapper "card", or the wrapper "small"
    recycled,   \* wrappers whose recycle() is through
    refs,       \* references to the native pix behind each wrapper
    cropHolds,  \* CropImageActivity has not recycled its own wrapper of the card
    fault       \* the exception or memory error that ended the process

jobVars == <<phase, cancelled, outbox, threw>>
actVars == <<screen, dialog, html, erred, results>>
pixVars == <<org, recycled, refs, cropHolds>>
vars == <<jobVars, actVars, queue, mpc, tpc, pixVars, fault>>

Job == INSTANCE OcrJob

Wrappers == {"card", "small"}
TaskPoints == {"ready", "wrapped", "copy", "loaded", "clone", "check", "recycle", "scale",
               "save", "write", "saved"}
MainPoints == {"loop", "cancel", "check", "null", "end"} \cup Wrappers

Faulty == {"bad_token", "null_pix", "use_after_free", "double_free", "uncaught", "no_text"}

\* The references to the card that are not this screen's to create: the leaked ones,
\* and that of CropImageActivity, which Back gives back.
Handed == Leaked + (IF cropHolds THEN 1 ELSE 0)

TypeOK ==
    /\ phase \in Job!Phases /\ cancelled \in BOOLEAN /\ outbox \in Seq(Job!Messages)
    /\ threw \in BOOLEAN
    /\ screen \in {"shown", "finishing", "destroyed"} /\ dialog \in BOOLEAN
    /\ html \in BOOLEAN /\ erred \in BOOLEAN /\ results \in Seq(BOOLEAN)
    /\ queue \in Seq(Job!Messages \cup {"LOADED", "SAVED", "DESTROY"})
    /\ mpc \in MainPoints /\ tpc \in TaskPoints
    /\ org \in Wrappers \cup {"null"} /\ recycled \subseteq Wrappers
    /\ refs \in [Wrappers -> -1..(Leaked + 2)] /\ cropHolds \in BOOLEAN
    /\ fault \in Faulty \cup {"none"}

Init ==  \* the user may have left CropImageActivity after the card was cut out
    /\ cropHolds \in BOOLEAN
    /\ Job!JobInit /\ threw = FALSE
    /\ screen = "shown" /\ dialog = FALSE /\ html = FALSE /\ erred = FALSE /\ results = <<>>
    /\ queue = <<>> /\ mpc = "loop" /\ tpc = "ready"
    /\ org = "null" /\ recycled = {} /\ refs = [card |-> Handed, small |-> 0]
    /\ fault = "none"

-----------------------------------------------------------------------------
Live == fault = "none"
Dropped(w) == refs' = [refs EXCEPT ![w] = @ - 1]
Recycled(w) ==
    /\ Dropped(w)
    /\ recycled' = recycled \cup {w}
    /\ fault' = IF refs[w] <= 0 THEN "double_free" ELSE fault

-----------------------------------------------------------------------------
(* The user.                                                               *)

Clicking == Live /\ mpc = "loop" /\ screen # "destroyed"

Back ==  \* the dialog swallows it while it is showing
    /\ Clicking
    /\ dialog' = FALSE
    /\ screen' = IF dialog THEN screen ELSE "finishing"
    /\ UNCHANGED <<jobVars, html, erred, results, queue, mpc, tpc, pixVars, fault>>

CropBack ==  \* a Back that still goes to CropImageActivity, whose window is behind this one
    /\ Clicking /\ screen = "shown"
    /\ phase = "idle" /\ ~dialog /\ cropHolds
    /\ cropHolds' = FALSE
    /\ Dropped("card")
    /\ UNCHANGED <<jobVars, actVars, queue, mpc, tpc, org, recycled, fault>>

ClickCancel ==
    /\ Clicking /\ dialog
    /\ dialog' = FALSE
    /\ screen' = "finishing"
    /\ UNCHANGED <<jobVars, html, erred, results, queue, mpc, tpc, pixVars, fault>>

ClickStart ==  \* startOCRForSimpleLayout starts the worker on orgPix
    /\ Clicking /\ dialog
    /\ dialog' = FALSE
    /\ Job!StartJob
    /\ UNCHANGED <<threw, screen, html, erred, results, queue, mpc, tpc, pixVars, fault>>

-----------------------------------------------------------------------------
(* The worker, as far as this screen sees it.                              *)

JobWorks ==  \* nativeOCRBook reads the card; a job that posts nothing was cancelled or threw
    /\ Live
    /\ phase # "idle"
    /\ Job!JobStep
    /\ queue' = queue \o SubSeq(outbox', Len(outbox) + 1, Len(outbox'))
    /\ threw' \in IF phase = "reading" /\ outbox' = outbox THEN {TRUE, ~cancelled} ELSE {threw}
    /\ fault' = IF phase = "imaging" /\ refs["card"] <= 0 THEN "use_after_free" ELSE fault
    /\ UNCHANGED <<actVars, mpc, tpc, pixVars>>

WorkerDies ==  \* END was posted in the finally block; the exception leaves run() after it
    /\ Live
    /\ phase = "over" /\ threw
    /\ fault' = "uncaught"
    /\ UNCHANGED <<jobVars, actVars, queue, mpc, tpc, pixVars>>

-----------------------------------------------------------------------------
(* The background thread: LoadDataTask, and SavePixTask after END.         *)

TaskAt(from, to) == Live /\ tpc = from /\ tpc' = to

WrapCard ==  \* orgPix = new Pix(nativePix)
    /\ TaskAt("ready", "wrapped")
    /\ org' = "card"
    /\ UNCHANGED <<jobVars, actVars, queue, mpc, recycled, refs, cropHolds, fault>>

CallCopy ==  \* orgPix.copy() reads the field ...
    /\ TaskAt("wrapped", "copy")
    /\ fault' = IF org = "null" THEN "null_pix" ELSE fault
    /\ UNCHANGED <<jobVars, actVars, queue, mpc, pixVars>>

CopyRecyclesCard ==  \* mutated form of CopyCard: the bitmap is made, the original recycled
    /\ TaskAt("copy", "loaded")
    /\ fault' = IF refs["card"] <= 0 THEN "use_after_free" ELSE fault
    /\ queue' = Append(queue, "LOADED")
    /\ Dropped("card")
    /\ UNCHANGED <<jobVars, actVars, mpc, org, recycled, cropHolds>>

CopyCard ==  \* ... and copies the pixels; the bitmap is made from the copy
    /\ TaskAt("copy", "loaded")
    /\ fault' = IF refs["card"] <= 0 THEN "use_after_free" ELSE fault
    /\ queue' = Append(queue, "LOADED")
    /\ UNCHANGED <<jobVars, actVars, mpc, pixVars>>

AliasOrg ==  \* mutated form of CloneOrg: newPix = orgPix, without a reference of its own
    /\ TaskAt("clone", "check")
    /\ fault' = IF org = "null" THEN "null_pix" ELSE fault
    /\ UNCHANGED <<jobVars, actVars, queue, mpc, pixVars>>

CloneOrg ==  \* newPix = orgPix.clone()
    /\ TaskAt("clone", "check")
    /\ fault' = CASE org = "null" -> "null_pix"
                  [] org # "null" /\ refs["card"] <= 0 -> "use_after_free"
                  [] OTHER -> fault
    /\ refs' = IF org = "null" THEN refs ELSE [refs EXCEPT !["card"] = @ + 1]
    /\ UNCHANGED <<jobVars, actVars, queue, mpc, org, recycled, cropHolds>>

CheckOrg ==  \* orgPix.recycle() reads the field and tests mRecycled ...
    /\ TaskAt("check", IF "card" \in recycled THEN "scale" ELSE "recycle")
    /\ fault' = IF org = "null" THEN "null_pix" ELSE fault
    /\ UNCHANGED <<jobVars, actVars, queue, mpc, pixVars>>

RecycleOrg ==  \* ... and then destroys
    /\ TaskAt("recycle", "scale")
    /\ Recycled("card")
    /\ UNCHANGED <<jobVars, actVars, queue, mpc, org, cropHolds>>

ScaleOrg ==  \* orgPix = scaleToSize(newPix), newPix.recycle()
    /\ TaskAt("scale", "save")
    /\ fault' = IF refs["card"] <= 0 THEN "use_after_free" ELSE fault
    /\ org' = "small"
    /\ refs' = [refs EXCEPT !["small"] = 1, !["card"] = @ - 1]
    /\ UNCHANGED <<jobVars, actVars, queue, mpc, recycled, cropHolds>>

CallSave ==  \* saveImage(orgPix) reads the field ...
    /\ TaskAt("save", "write")
    /\ fault' = IF org = "null" THEN "null_pix" ELSE fault
    /\ UNCHANGED <<jobVars, actVars, queue, mpc, pixVars>>

WriteOrg ==  \* ... and compresses the pixels into the file
    /\ TaskAt("write", "saved")
    /\ fault' = IF refs["small"] <= 0 THEN "use_after_free" ELSE fault
    /\ queue' = Append(queue, "SAVED")
    /\ UNCHANGED <<jobVars, actVars, mpc, pixVars>>

Task ==
    \/ WrapCard \/ CallCopy \/ CopyCard
    \/ CloneOrg \/ CheckOrg \/ RecycleOrg \/ ScaleOrg \/ CallSave \/ WriteOrg

-----------------------------------------------------------------------------
(* The main thread's handlers.                                             *)

Handle(m) ==
    /\ Live /\ mpc = "loop"
    /\ queue # <<>> /\ Head(queue) = m
    /\ queue' = Tail(queue)

HandleLoaded ==  \* LoadDataTask.onPostExecute shows the dialog
    /\ Handle("LOADED")
    /\ dialog' = TRUE
    /\ fault' = IF screen = "destroyed" THEN "bad_token" ELSE fault
    /\ UNCHANGED <<jobVars, screen, html, erred, results, mpc, tpc, pixVars>>

HandleQuiet ==  \* the image goes into another field, the hOCR text into the handler
    /\ Handle("FINAL_IMAGE") \/ Handle("HOCR_TEXT")
    /\ UNCHANGED <<jobVars, actVars, mpc, tpc, pixVars, fault>>

HandleTextLate ==  \* mutated form of HandleText: the text stays in the handler
    /\ Handle("UTF8_TEXT")
    /\ UNCHANGED <<jobVars, actVars, mpc, tpc, pixVars, fault>>

HandleText ==
    /\ Handle("UTF8_TEXT")
    /\ html' = TRUE
    /\ UNCHANGED <<jobVars, screen, dialog, erred, results, mpc, tpc, pixVars, fault>>

HandleError ==
    /\ Handle("ERROR")
    /\ erred' = TRUE
    /\ UNCHANGED <<jobVars, screen, dialog, html, results, mpc, tpc, pixVars, fault>>

HandleEndWithText ==  \* mutated form of HandleEnd: nothing is saved without a text
    /\ Handle("END")
    /\ tpc = "loaded"
    /\ tpc' = IF html THEN "clone" ELSE tpc
    /\ UNCHANGED <<jobVars, actVars, mpc, pixVars, fault>>

HandleEnd ==  \* new SavePixTask().execute(): LoadDataTask is through by now
    /\ Handle("END")
    /\ tpc = "loaded"
    /\ tpc' = "clone"
    /\ UNCHANGED <<jobVars, actVars, mpc, pixVars, fault>>

HandleSaved ==  \* SavePixTask.onPostExecute opens ResultActivity, destroyed or not
    /\ Handle("SAVED")
    /\ results' = Append(results, html)
    /\ screen' = IF screen = "shown" THEN "finishing" ELSE screen
    /\ UNCHANGED <<jobVars, dialog, html, erred, mpc, tpc, pixVars, fault>>

OpenResult ==  \* ResultActivity comes up: XMLParser has no document in an empty text
    /\ Live /\ mpc = "loop"
    /\ results # <<>> /\ ~Last(results)
    /\ fault' = "no_text"
    /\ UNCHANGED <<jobVars, actVars, queue, mpc, tpc, pixVars>>

OrderDestroy ==  \* the system answers finish() in its own time
    /\ Live
    /\ screen = "finishing" /\ mpc = "loop" /\ ~Contains(queue, "DESTROY")
    /\ queue' = Append(queue, "DESTROY")
    /\ UNCHANGED <<jobVars, actVars, mpc, tpc, pixVars, fault>>

BeginDestroy ==
    /\ Handle("DESTROY")
    /\ mpc' = "cancel"
    /\ UNCHANGED <<jobVars, actVars, tpc, pixVars, fault>>

MainAt(from, to) == Live /\ mpc = from /\ mpc' = to

CancelFirst ==  \* super.onDestroy() tells the OCR listener
    /\ MainAt("cancel", "check")
    /\ Job!CancelJob
    /\ UNCHANGED <<threw, actVars, queue, tpc, pixVars, fault>>

DestroyForgets ==  \* mutated form of DestroyCheck: orgPix is cleared, never recycled
    /\ MainAt("check", "null")
    /\ UNCHANGED <<jobVars, actVars, queue, tpc, pixVars, fault>>

DestroyCheck ==  \* if (orgPix != null) orgPix.recycle(): the wrapper it finds is tested ...
    /\ MainAt("check", CASE org = "null" -> "end"
                         [] org \in recycled -> "null"
                         [] OTHER -> org)
    /\ UNCHANGED <<jobVars, actVars, queue, tpc, pixVars, fault>>

DestroyRecycle ==  \* ... and then destroyed
    /\ \E w \in Wrappers :
          /\ MainAt(w, "null")
          /\ Recycled(w)
    /\ UNCHANGED <<jobVars, actVars, queue, tpc, org, cropHolds>>

DestroyNull ==  \* orgPix = null
    /\ MainAt("null", "end")
    /\ org' = "null"
    /\ UNCHANGED <<jobVars, actVars, queue, tpc, recycled, refs, cropHolds, fault>>

DestroyEnds ==  \* the dialog is cancelled, onDestroy returns
    /\ MainAt("end", "loop")
    /\ screen' = "destroyed"
    /\ dialog' = FALSE
    /\ UNCHANGED <<jobVars, html, erred, results, queue, tpc, pixVars, fault>>

Main ==
    \/ HandleLoaded \/ HandleQuiet \/ HandleText \/ HandleError \/ HandleEnd \/ HandleSaved
    \/ OpenResult \/ BeginDestroy \/ CancelFirst \/ DestroyCheck \/ DestroyRecycle \/ DestroyNull
    \/ DestroyEnds

-----------------------------------------------------------------------------
Rest ==
    /\ ~Live \/ (screen = "destroyed" /\ queue = <<>> /\ phase \in {"idle", "over"}
                 /\ tpc \in {"loaded", "saved"})
    /\ UNCHANGED vars

Worker == JobWorks \/ WorkerDies

Next ==
    \/ Back \/ CropBack \/ ClickCancel \/ ClickStart
    \/ Worker \/ Task \/ Main \/ OrderDestroy \/ Rest

\* The scheduler runs the worker (OcrEngine shows that it ends), the background
\* thread and the main thread; the system answers finish(). The user need not act.
Fairness == WF_vars(Worker) /\ WF_vars(Task) /\ WF_vars(Main) /\ WF_vars(OrderDestroy)

Spec == Init /\ [][Next]_vars
FairSpec == Spec /\ Fairness

-----------------------------------------------------------------------------
(* Properties.                                                             *)

\* nativeOCRBook reads the card on the worker while onDestroy may recycle the
\* screen's wrapper of it. A reference that CropImageActivity leaked or still holds
\* (CropImageActivity.java:372-375) keeps the pixels there; only a user who left both
\* screens, the first while its card was on the way to the second, takes it away.
BookReadsLiveCard ==
    phase = "imaging" => refs["card"] >= 1 \/ (Handed = 1 /\ "card" \in recycled)

\* However the job's messages, the exception that ends it and the two tasks interleave,
\* ResultActivity is started at most once; without a text only after an error was shown,
\* or by a process that an exception of the worker is about to end (OCR.java:497).
ResultHasText ==
    /\ Len(results) <= 1
    /\ \A i \in 1..Len(results) : results[i] \/ erred \/ threw

\* A destroyed screen has given back the reference to the card that it was handed,
\* whichever of onDestroy and SavePixTask did it; one that is not there only when both
\* recycle the one reference that the crop screen left.
GivesCardBack ==
    /\ screen = "destroyed" /\ org = "null" /\ tpc \in {"loaded", "saved"} => refs["card"] < Handed
    /\ refs["card"] < 0 => Handed = 1 /\ fault \in {"use_after_free", "double_free"}

\* Once Start was pressed the user gets to ResultActivity, unless the screen is
\* left or the process dies: also after an error.
StartLeadsToResult == (phase # "idle") ~> (results # <<>> \/ screen = "destroyed" \/ ~Live)

\* What an impatient user can do wrong, and no more: recycle() on the main thread tests
\* and frees while a task or the worker reads the same pix, but only a screen that
\* onDestroy overtakes finds its pix gone. A pix that is freed under its reader is the
\* small image being written, or a card whose crop screen was left as well; and a
\* result screen without a text comes after an error or an exception of the worker.
FaultHasReason ==
    /\ TypeOK
    /\ fault = "bad_token" => screen = "destroyed"
    /\ fault \in {"null_pix", "use_after_free", "double_free"} => screen # "shown" /\ cancelled
    /\ fault = "use_after_free" =>
          \/ tpc = "saved" /\ "small" \in recycled
          \/ Handed = 1 /\ "card" \in recycled
    /\ fault = "double_free" => Handed = 1 /\ "card" \in recycled /\ tpc \in {"save", "write", "saved"}
    /\ fault = "uncaught" => threw
    /\ fault = "no_text" => erred \/ threw
=============================================================================
