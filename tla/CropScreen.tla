------------------------------ MODULE CropScreen ------------------------------
(***************************************************************************)
(* CropImageActivity: the screen that shows the photo, finds the card in   *)
(* it, cuts the card out and starts OCRActivity with the native pointer of *)
(* the result. Four AsyncTasks run one after the other on the serial       *)
(* executor: LoadPixForCropTask, DetectCardProcess, CropImageProcess and   *)
(* ImageProcessing. CropImageProcess recycles and replaces the field pix   *)
(* that onBackPressed recycles on the main thread; onDestroy takes away    *)
(* the cropData that the tasks and their onPostExecute read.               *)
(***************************************************************************)
EXTENDS Integers, Sequences, SequencesExt

VARIABLES
    \* the activity, on the main thread
    screen,     \* "shown", "finishing" (finish() was called) or "destroyed"
    laid,       \* the first layout has happened: pix is set, the photo is being loaded
    cropData,   \* the Optional is present
    frame,      \* cropHighlightView # null
    warning,    \* the dialog about a blurry photo is showing
    relayout,   \* DetectCardProcess waits for a layout to show the photo
    cropping,
    opened,     \* for each start of OCRActivity, the references to the card's pix
    queue,      \* the main thread's message queue
    mpc,        \* "loop", or the wrapper whose recycle() onBackPressed is in
    \* the background thread
    tasks,      \* what was given to the executor and has not begun
    tpc,
    loadCancelled,  \* LoadPixForCropTask.cancel(true) was called
    preview,    \* the scaled photo and its blur map: "none", "live", "recycled", or
                \* "stray" when no variable of the program refers to them any more
    \* native memory
    field,      \* pix: "null" or the wrapper it refers to
    recycled,   \* wrappers whose recycle() is through
    refs,       \* references to the native pix behind each wrapper
    fault       \* the exception or memory error that ended the process

viewVars == <<screen, laid, cropData, frame, warning, relayout, cropping>>
mainVars == <<opened, queue, mpc>>
taskVars == <<tasks, tpc, loadCancelled, preview>>
pixVars == <<field, recycled, refs>>
vars == <<viewVars, mainVars, taskVars, pixVars, fault>>

Wrappers == {"photo", "card"}
Tasks == {"blur", "detect", "crop", "process"}  \* each named for its first step
TaskPoints == Tasks \cup {"idle", "scale", "bitmap", "unload",
                          "clip", "check", "recycle", "cut", "drop", "preview", "measure"}
Posts == {"LOADED", "NO_BITMAP", "DETECTED", "CROPPED", "NOT_CROPPED", "PROCESSED", "DESTROY"}

TypeOK ==
    /\ screen \in {"shown", "finishing", "destroyed"}
    /\ {laid, cropData, frame, warning, relayout, cropping, loadCancelled} \subseteq BOOLEAN
    /\ opened \in Seq(Int) /\ queue \in Seq(Posts)
    /\ mpc \in {"loop"} \cup Wrappers
    /\ tasks \in Seq(Tasks) /\ tpc \in TaskPoints
    /\ preview \in {"none", "live", "recycled", "stray"}
    /\ field \in Wrappers \cup {"null"} /\ recycled \subseteq Wrappers
    /\ refs \in [Wrappers -> 0..3]
    /\ fault \in {"none", "use_after_free", "absent"}

Init ==  \* the photo comes with the reference of ImageLoaderAsyncTask
    /\ screen = "shown" /\ laid = FALSE /\ cropData = FALSE /\ frame = FALSE
    /\ warning = FALSE /\ relayout = FALSE /\ cropping = FALSE
    /\ opened = <<>> /\ queue = <<>> /\ mpc = "loop"
    /\ tasks = <<>> /\ tpc = "idle" /\ loadCancelled = FALSE /\ preview = "none"
    /\ field = "null" /\ recycled = {} /\ refs = [photo |-> 1, card |-> 0]
    /\ fault = "none"

-----------------------------------------------------------------------------
Live == fault = "none"
Post(m) == queue' = Append(queue, m)
Execute(task) == tasks' = Append(tasks, task)
Finish == screen' = IF screen = "shown" THEN "finishing" ELSE screen
Read(w) == fault' = IF refs[w] <= 0 THEN "use_after_free" ELSE fault
Adding(w, n) == refs' = [refs EXCEPT ![w] = @ + n]
Destroyed(w) == Adding(w, -1) /\ Read(w) /\ recycled' = recycled \cup {w}

\* Mutated forms of LoadLeaks and CropLeaks: the callee recycles the clone it is given.
LoadRecyclesClone == 0
CropRecyclesClone == 0

\* Clones handed to a scaling function that does not take them over.
LoadLeaks == 1
CropLeaks == 1

-----------------------------------------------------------------------------
(* The main thread: layout and the user.                                   *)

OnScreen == Live /\ mpc = "loop" /\ screen # "destroyed"

NoOpenCv ==  \* the library does not load
    /\ OnScreen /\ ~laid
    /\ Finish
    /\ UNCHANGED <<laid, cropData, frame, warning, relayout, cropping, mainVars, taskVars,
                   pixVars, fault>>

FirstLayout ==  \* pix wraps the photo, the load task gets a clone
    /\ OnScreen /\ ~laid
    /\ laid' = TRUE
    /\ field' = "photo"
    /\ Adding("photo", 1)
    /\ Execute("blur")
    /\ UNCHANGED <<screen, cropData, frame, warning, relayout, cropping, mainVars,
                   tpc, loadCancelled, preview, recycled, fault>>

ShowPhoto ==  \* the layout after the detection: the frame, or the warning
    /\ OnScreen /\ relayout
    /\ relayout' = FALSE
    /\ IF cropData
         THEN /\ \/ frame' = TRUE /\ UNCHANGED warning
                 \/ warning' = TRUE /\ UNCHANGED frame
              /\ UNCHANGED fault
         ELSE fault' = "absent" /\ UNCHANGED <<frame, warning>>
    /\ UNCHANGED <<screen, laid, cropData, cropping, mainVars, taskVars, pixVars>>

Rotate ==
    /\ OnScreen /\ ~warning /\ cropData
    /\ frame' = TRUE
    /\ UNCHANGED <<screen, laid, cropData, warning, relayout, cropping, mainVars, taskVars,
                   pixVars, fault>>

Continue ==
    /\ OnScreen /\ warning
    /\ warning' = FALSE
    /\ frame' = TRUE
    /\ UNCHANGED <<screen, laid, cropData, relayout, cropping, mainVars, taskVars, pixVars, fault>>

DismissWarning ==  \* the back key closes the dialog only
    /\ OnScreen /\ warning
    /\ warning' = FALSE
    /\ UNCHANGED <<screen, laid, cropData, frame, relayout, cropping, mainVars, taskVars,
                   pixVars, fault>>

Back ==  \* the back key, or "new image" in the dialog: finish(), and recycle() tests mRecycled ...
    /\ OnScreen
    /\ warning' = FALSE
    /\ Finish
    /\ mpc' = IF field \in Wrappers \ recycled THEN field ELSE "loop"
    /\ UNCHANGED <<laid, cropData, frame, relayout, cropping, opened, queue, taskVars,
                   pixVars, fault>>

BackRecycles ==  \* ... and destroys
    /\ Live /\ mpc \in Wrappers
    /\ Destroyed(mpc)
    /\ mpc' = "loop"
    /\ UNCHANGED <<viewVars, opened, queue, taskVars, field>>

CropAgain ==  \* mutated form of Crop: the flag cropping is not tested
    /\ OnScreen /\ ~warning /\ cropData /\ frame
    /\ Len(tasks) < 2
    /\ cropping' = TRUE
    /\ Execute("crop")
    /\ UNCHANGED <<screen, laid, cropData, frame, warning, relayout, mainVars,
                   tpc, loadCancelled, preview, pixVars, fault>>

Crop ==
    /\ OnScreen /\ ~warning /\ cropData /\ ~cropping /\ frame
    /\ cropping' = TRUE
    /\ Execute("crop")
    /\ UNCHANGED <<screen, laid, cropData, frame, warning, relayout, mainVars,
                   tpc, loadCancelled, preview, pixVars, fault>>

User == Rotate \/ Continue \/ DismissWarning \/ Back \/ Crop

-----------------------------------------------------------------------------
(* The background thread.                                                  *)

TakeTask ==  \* a task that was cancelled before it began is skipped
    /\ Live /\ tpc = "idle" /\ tasks # <<>>
    /\ tpc' = IF Head(tasks) = "blur" /\ loadCancelled THEN "idle" ELSE Head(tasks)
    /\ tasks' = Tail(tasks)
    /\ UNCHANGED <<viewVars, mainVars, loadCancelled, preview, pixVars, fault>>

TaskAt(from, to) == Live /\ tpc = from /\ tpc' = to /\ UNCHANGED <<tasks, loadCancelled>>

\* LoadPixForCropTask looks at isCancelled() after each of its long steps.
LoadBlur ==
    /\ TaskAt("blur", IF loadCancelled THEN "idle" ELSE "scale")
    /\ Read("photo")
    /\ preview' = IF loadCancelled THEN "stray" ELSE "live"
    /\ UNCHANGED <<viewVars, mainVars, pixVars>>

LoadScale ==
    /\ TaskAt("scale", IF loadCancelled THEN "idle" ELSE "bitmap")
    /\ Read("photo")
    /\ Adding("photo", LoadLeaks)
    /\ preview' = IF loadCancelled THEN "stray" ELSE preview
    /\ UNCHANGED <<viewVars, mainVars, field, recycled>>

LoadBitmap ==
    /\ TaskAt("bitmap", IF loadCancelled THEN "idle" ELSE "unload")
    /\ preview' = IF loadCancelled THEN "stray" ELSE preview
    /\ UNCHANGED <<viewVars, mainVars, pixVars, fault>>

LoadEnds ==  \* the task's own clone is recycled, the result posted
    /\ TaskAt("unload", "idle")
    /\ Adding("photo", -1)
    /\ Post("LOADED") \/ Post("NO_BITMAP")
    /\ UNCHANGED <<viewVars, opened, mpc, preview, field, recycled, fault>>

Detect ==
    /\ TaskAt("detect", "idle")
    /\ Post("DETECTED")
    /\ UNCHANGED <<viewVars, opened, mpc, preview, pixVars, fault>>

CropBegins ==  \* cropData.get() throws what the task catches
    /\ IF cropData THEN TaskAt("crop", "clip") /\ UNCHANGED queue
                   ELSE TaskAt("crop", "idle") /\ Post("NOT_CROPPED")
    /\ UNCHANGED <<viewVars, opened, mpc, preview, pixVars, fault>>

Clip ==  \* clipRectangle2 reads the photo, or finds nothing to cut
    /\ \/ TaskAt("clip", "check") /\ UNCHANGED queue
       \/ TaskAt("clip", "idle") /\ Post("NOT_CROPPED")
    /\ Read("photo")
    /\ UNCHANGED <<viewVars, opened, mpc, preview, pixVars>>

CropChecks ==  \* pix.recycle() tests mRecycled ...
    /\ TaskAt("check", IF "photo" \in recycled THEN "cut" ELSE "recycle")
    /\ UNCHANGED <<viewVars, mainVars, preview, pixVars, fault>>

CropRecycles ==  \* ... and destroys
    /\ TaskAt("recycle", "cut")
    /\ Destroyed("photo")
    /\ UNCHANGED <<viewVars, mainVars, preview, field>>

Cut ==  \* pix = bilinear.clone(): two references ...
    /\ TaskAt("cut", "drop")
    /\ field' = "card"
    /\ Adding("card", 2)
    /\ UNCHANGED <<viewVars, mainVars, preview, recycled, fault>>

DropBilinear ==  \* ... bilinear.recycle()
    /\ TaskAt("drop", "preview")
    /\ Read("card")
    /\ Adding("card", -1)
    /\ UNCHANGED <<viewVars, mainVars, preview, field, recycled>>

CropPreview ==  \* scaleToSize(pix.clone())
    /\ TaskAt("preview", "measure")
    /\ Read("card")
    /\ Adding("card", CropLeaks)
    /\ UNCHANGED <<viewVars, mainVars, preview, field, recycled>>

CropEnds ==  \* ratioX and ratioY
    /\ TaskAt("measure", "idle")
    /\ Read("card")
    /\ Post("CROPPED")
    /\ UNCHANGED <<viewVars, opened, mpc, preview, pixVars>>

Process ==
    /\ TaskAt("process", "idle")
    /\ Post("PROCESSED")
    /\ UNCHANGED <<viewVars, opened, mpc, preview, pixVars, fault>>

Task ==
    \/ TakeTask \/ LoadBlur \/ LoadScale \/ LoadBitmap \/ LoadEnds \/ Detect
    \/ CropBegins \/ Clip \/ CropChecks \/ CropRecycles \/ Cut \/ DropBilinear
    \/ CropPreview \/ CropEnds \/ Process

-----------------------------------------------------------------------------
(* The main thread: what the tasks post, and the system's order to destroy.*)

Handle(m) ==
    /\ Live /\ mpc = "loop"
    /\ queue # <<>> /\ Head(queue) = m
    /\ queue' = Tail(queue)
    /\ UNCHANGED <<mpc, tpc>>

HandleLoaded ==  \* onCancelled recycles; otherwise the event bus delivers
    /\ Handle("LOADED")
    /\ IF loadCancelled
         THEN preview' = "recycled" /\ UNCHANGED <<cropData, tasks>>
         ELSE cropData' = TRUE /\ Execute("detect") /\ UNCHANGED preview
    /\ UNCHANGED <<screen, laid, frame, warning, relayout, cropping, opened, loadCancelled,
                   pixVars, fault>>

HandleNoBitmap ==  \* only a toast: nobody keeps the result
    /\ Handle("NO_BITMAP")
    /\ preview' = IF loadCancelled THEN "recycled" ELSE "stray"
    /\ UNCHANGED <<viewVars, opened, tasks, loadCancelled, pixVars, fault>>

HandleDetected ==
    /\ Handle("DETECTED")
    /\ relayout' = (screen # "destroyed")
    /\ UNCHANGED <<screen, laid, cropData, frame, warning, cropping, opened, tasks,
                   loadCancelled, preview, pixVars, fault>>

HandleCropped ==
    /\ Handle("CROPPED")
    /\ Execute("process")
    /\ UNCHANGED <<viewVars, opened, loadCancelled, preview, pixVars, fault>>

ToastOnly ==  \* mutated form of HandleNotCropped: the screen stays
    /\ Handle("NOT_CROPPED")
    /\ UNCHANGED <<viewVars, opened, tasks, loadCancelled, preview, pixVars, fault>>

HandleNotCropped ==
    /\ Handle("NOT_CROPPED")
    /\ Finish
    /\ UNCHANGED <<laid, cropData, frame, warning, relayout, cropping, opened, tasks,
                   loadCancelled, preview, pixVars, fault>>

HandleProcessed ==  \* ImageProcessing.onPostExecute: cropData.get(), then startActivity
    /\ Handle("PROCESSED")
    /\ IF cropData THEN opened' = Append(opened, refs["card"]) /\ Finish /\ UNCHANGED fault
                   ELSE fault' = "absent" /\ UNCHANGED <<opened, screen>>
    /\ UNCHANGED <<laid, cropData, frame, warning, relayout, cropping, tasks,
                   loadCancelled, preview, pixVars>>

OrderDestroy ==  \* the system answers finish() in its own time
    /\ Live /\ screen = "finishing" /\ ~Contains(queue, "DESTROY")
    /\ Post("DESTROY")
    /\ UNCHANGED <<viewVars, opened, mpc, taskVars, pixVars, fault>>

DestroyForgets ==  \* mutated form of Destroy: the load task is not cancelled
    /\ Handle("DESTROY")
    /\ screen' = "destroyed"
    /\ warning' = FALSE /\ relayout' = FALSE
    /\ preview' = IF cropData THEN "recycled" ELSE preview
    /\ cropData' = FALSE
    /\ UNCHANGED <<laid, frame, cropping, opened, tasks, loadCancelled, pixVars, fault>>

Destroy ==  \* onDestroy cancels the load task and recycles the crop data
    /\ Handle("DESTROY")
    /\ screen' = "destroyed"
    /\ warning' = FALSE /\ relayout' = FALSE
    /\ loadCancelled' = laid
    /\ preview' = IF cropData THEN "recycled" ELSE preview
    /\ cropData' = FALSE
    /\ UNCHANGED <<laid, frame, cropping, opened, tasks, pixVars, fault>>

Main ==
    \/ BackRecycles
    \/ HandleLoaded \/ HandleNoBitmap \/ HandleDetected \/ HandleCropped \/ HandleNotCropped
    \/ HandleProcessed \/ Destroy

-----------------------------------------------------------------------------
Idle == queue = <<>> /\ tasks = <<>> /\ tpc = "idle"

Rest ==
    /\ ~Live \/ (screen = "destroyed" /\ Idle)
    /\ UNCHANGED vars

Next ==
    \/ NoOpenCv \/ FirstLayout \/ ShowPhoto \/ User
    \/ Task \/ Main \/ OrderDestroy \/ Rest

\* Both threads are scheduled and the system answers finish(). Layouts come from the
\* system too; the user need not act.
Fairness ==
    WF_vars(Task) /\ WF_vars(Main) /\ WF_vars(OrderDestroy) /\ WF_vars(ShowPhoto)

Spec == Init /\ [][Next]_vars
FairSpec == Spec /\ Fairness

-----------------------------------------------------------------------------
(* Properties.                                                             *)

\* CropImageProcess cuts the card out of the photo while onBackPressed may recycle
\* the photo. The clone that LoadPixForCropTask leaked (LoadPixForCropTask.java:47)
\* is what keeps the pixels there.
PhotoOutlivesClip == tpc = "clip" => refs["photo"] >= 1

\* OCRActivity is never started on a card that is already freed, even when the user
\* went back while the card was being cut out (CropImageActivity.java:456). It gets the
\* leaked reference and that of the field pix, which only a Back has taken away.
HandsOverLiveCard ==
    \A i \in 1..Len(opened) :
        opened[i] \in {1, 2} /\ (opened[i] = 1 => "card" \in recycled)

\* One crop leads to at most one OCR screen, however often the user taps.
OneOcrScreen == Len(opened) <= 1

\* When the screen is gone and its tasks are through, the preview that was handed to
\* it, or posted to it too late, has been recycled.
PreviewRecycled == screen = "destroyed" /\ Idle => preview # "live"

\* A crop ends in the OCR screen or closes the screen; the user is never left in
\* front of a photo that no longer reacts to "crop".
CropLeadsOn == cropping ~> (opened # <<>> \/ screen # "shown" \/ ~Live)

\* What an impatient user can do wrong, and no more: who does not leave while the card
\* is being cut out meets no freed pix and no missing cropData, however the layouts, the
\* detection, the rotations and the warning interleave with the tasks.
FaultHasReason ==
    /\ TypeOK
    /\ fault = "use_after_free" => screen # "shown" /\ cropping /\ recycled # {}
    /\ fault = "absent" => screen = "destroyed" /\ cropping /\ opened = <<>>
=============================================================================
