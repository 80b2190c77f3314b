------------------------------ MODULE HomeScreen ------------------------------
(***************************************************************************)
(* HomeActivity: the user takes or picks a photo, ImageLoaderAsyncTask     *)
(* loads it, and a local broadcast brings the native pointer back, with    *)
(* which CropImageActivity is started. The answer of the camera, the end   *)
(* of a load and the broadcasts wait in one message queue; the loads share *)
(* the serial executor with CheckDataTrainingProcess, which copies the     *)
(* English training data. The process may be killed while another app is   *)
(* in front; the system restores the screens with the intents they had.    *)
(***************************************************************************)
EXTENDS Integers, Sequences, SequencesExt

CONSTANTS
    MaxPicks,  \* bound: photos ever asked for
    MaxDeaths  \* bound: times the process is killed

ASSUME BoundsAssumption == MaxPicks \in Nat /\ MaxDeaths \in Nat

VARIABLES
    \* the task of the system: survives the process
    home,       \* "shown", or "left" (finish() was called)
    stack,      \* the screens over HomeActivity, the top one last
    picks,      \* photos asked for so far; each is known by its number
    given,      \* those that the camera or the gallery really gave
    eng,        \* the file eng.traineddata: "absent", "partial" or "whole"
    \* HomeActivity
    fileUri,    \* the photo it refers to, 0 for null
    loader,     \* imageLoaderAsyncTask, a place in loads, 0 for null
    registered, \* registrations of broadcastReceiver
    dialog,     \* the progress dialog is showing
    \* the main thread
    queue,      \* its message queue
    casts,      \* mPendingBroadcasts of the LocalBroadcastManager
    \* the serial executor of AsyncTask
    loads,      \* every ImageLoaderAsyncTask so far, in order
    executor,   \* tasks that wait: a place in loads, 0 for CheckDataTrainingProcess
    tpc, task,  \* the one that runs
    \* bookkeeping
    opened,     \* loads that CropImageActivity was started with, in order
    lost,       \* loads whose Pix nobody holds or will get
    overtaken,  \* loads that began when the broadcast of an earlier one was on its way
    trouble,    \* copying the English data failed or was cut short
    deaths,
    fault       \* the process uses a pointer of an earlier one, or a window that is gone

taskVars == <<home, stack, picks, given>>
viewVars == <<fileUri, loader, registered, dialog>>
workVars == <<loads, executor, tpc, task, eng, trouble>>
bookVars == <<opened, lost, overtaken, deaths, fault>>
vars == <<taskVars, viewVars, queue, casts, workVars, bookVars>>

Answers == {"no", "photo", "image", "no_data"}
Screens == [what : {"camera", "gallery"}, born : {0}] \cup [what : {"crop"}, born : 0..MaxDeaths]
Messages ==
    [what : {"RESUME", "BROADCASTS"}] \cup [what : {"RETURN"}, answer : Answers]
        \cup [what : {"POST"}, load : 1..Len(loads), got : BOOLEAN]
Casts ==
    [what : {"START"}] \cup [what : {"LOADED"}, load : 1..Len(loads), got : BOOLEAN, heard : {1}]

TypeOK ==
    /\ home \in {"shown", "left"} /\ stack \in Seq(Screens)
    /\ picks \in 0..MaxPicks /\ given \subseteq 1..picks /\ fileUri \in 0..picks
    /\ eng \in {"absent", "partial", "whole"} /\ {dialog, trouble} \subseteq BOOLEAN
    /\ loads \in Seq([uri : 1..picks, cancelled : BOOLEAN]) /\ loader \in 0..Len(loads)
    /\ registered \in 0..1 /\ queue \in Seq(Messages) /\ casts \in Seq(Casts)
    /\ executor \in Seq(0..Len(loads)) /\ task \in 0..Len(loads)
    /\ tpc \in {"idle", "check", "copy", "load"}
    /\ opened \in Seq(1..Len(loads)) /\ lost \cup overtaken \subseteq 1..Len(loads)
    /\ deaths \in 0..MaxDeaths /\ fault \in {"none", "foreign_pointer", "bad_token"}

Init ==
    /\ home = "shown" /\ stack = <<>> /\ picks = 0 /\ given = {} /\ eng = "absent"
    /\ fileUri = 0 /\ loader = 0 /\ registered = 0 /\ dialog = FALSE
    /\ queue = <<[what |-> "RESUME"]>> /\ casts = <<>>
    /\ loads = <<>> /\ executor = <<>> /\ tpc = "idle" /\ task = 0
    /\ opened = <<>> /\ lost = {} /\ overtaken = {} /\ trouble = FALSE
    /\ deaths = 0 /\ fault = "none"

-----------------------------------------------------------------------------
Live == fault = "none"
Resuming == \E i \in DOMAIN queue : queue[i].what \in {"RESUME", "RETURN"}
LoadedOnItsWay == \E i \in DOMAIN casts : casts[i].what = "LOADED"

\* LocalBroadcastManager.sendBroadcast, from a handler that has taken its message: one
\* message in the queue brings all broadcasts that are pending when it is handled.
SendBroadcast(cast) ==
    /\ casts' = Append(casts, cast)
    /\ queue' = IF casts = <<>> THEN Append(Tail(queue), [what |-> "BROADCASTS"]) ELSE Tail(queue)

RegisterAgain == registered' = registered + 1  \* mutated form: the flag is not tested

RegisterFirst ==  \* mutated form: the flag stays set after an unregister
    registered' = IF loader = 0 THEN 1 ELSE registered

RegisterReceiver == registered' = IF registered = 0 THEN 1 ELSE registered

-----------------------------------------------------------------------------
(* The user and the other apps.                                            *)

Clicking == Live /\ home = "shown" /\ stack = <<>> /\ ~Resuming /\ ~dialog
Over(what) == stack # <<>> /\ Last(stack).what = what

OpenCamera ==  \* the file is named before there is a photo
    /\ Clicking /\ picks < MaxPicks
    /\ picks' = picks + 1
    /\ fileUri' = picks + 1
    /\ stack' = <<[what |-> "camera", born |-> 0]>>
    /\ UNCHANGED <<home, given, loader, registered, dialog, queue, casts, workVars, bookVars>>

OpenGallery ==
    /\ Clicking /\ picks < MaxPicks
    /\ picks' = picks + 1
    /\ stack' = <<[what |-> "gallery", born |-> 0]>>
    /\ UNCHANGED <<home, given, viewVars, queue, casts, workVars, bookVars>>

Answer ==
    /\ Live
    /\ \E answer \in Answers :
          /\ Over(IF answer = "photo" THEN "camera" ELSE "gallery") \/ (Over("camera") /\ answer = "no")
          /\ given' = IF answer \in {"photo", "image"} THEN given \cup {picks} ELSE given
          /\ queue' = Append(queue, [what |-> "RETURN", answer |-> answer])
    /\ stack' = Front(stack)
    /\ UNCHANGED <<home, picks, viewVars, casts, workVars, bookVars>>

LeaveCrop ==  \* back, or through the screens that follow
    /\ Live /\ Over("crop") /\ Last(stack).born = deaths
    /\ stack' = Front(stack)
    /\ queue' = IF stack' = <<>> /\ home = "shown" THEN Append(queue, [what |-> "RESUME"]) ELSE queue
    /\ UNCHANGED <<home, picks, given, viewVars, casts, workVars, bookVars>>

RestoreCrop ==  \* the screen of a killed process wraps the pointer in its intent
    /\ Live /\ Over("crop") /\ Last(stack).born # deaths
    /\ fault' = "foreign_pointer"
    /\ UNCHANGED <<taskVars, viewVars, queue, casts, workVars, opened, lost, overtaken, deaths>>

DismissDialog ==  \* the back key
    /\ Live /\ stack = <<>> /\ dialog
    /\ dialog' = FALSE
    /\ UNCHANGED <<taskVars, fileUri, loader, registered, queue, casts, workVars, bookVars>>

Leave ==  \* nothing is cancelled or unregistered
    /\ Clicking
    /\ home' = "left"
    /\ UNCHANGED <<stack, picks, given, viewVars, queue, casts, workVars, bookVars>>

User ==
    OpenCamera \/ OpenGallery \/ Answer \/ LeaveCrop \/ RestoreCrop \/ DismissDialog \/ Leave

-----------------------------------------------------------------------------
(* The main thread.                                                        *)

Handles(what) == Live /\ queue # <<>> /\ Head(queue).what = what

HandleResume ==  \* onResume
    /\ Handles("RESUME")
    /\ queue' = Tail(queue)
    /\ executor' = Append(executor, 0)
    /\ UNCHANGED <<taskVars, viewVars, casts, loads, tpc, task, eng, trouble, bookVars>>

\* The photo that onActivityResult goes on with, 0 for none.
Uri(answer) ==
    CASE answer = "no" -> 0
      [] answer = "image" -> picks
      [] OTHER -> fileUri

\* onActivityResult and onResume in one: loadBitmapFromContentUri cancels the load
\* before, registers, and starts the new one, which announces itself.
HandleReturn ==
    /\ Handles("RETURN")
    /\ LET uri == Uri(Head(queue).answer)
           new == Len(loads) + 1
           before == [i \in DOMAIN loads |->
                         IF i = loader THEN [loads[i] EXCEPT !.cancelled = TRUE] ELSE loads[i]]
       IN IF uri = 0
          THEN /\ queue' = Tail(queue)
               /\ executor' = Append(executor, 0)
               /\ UNCHANGED <<viewVars, casts, loads, overtaken>>
          ELSE /\ fileUri' = uri
               /\ loads' = Append(before, [uri |-> uri, cancelled |-> FALSE])
               /\ loader' = new
               /\ RegisterReceiver
               /\ SendBroadcast([what |-> "START"])
               /\ executor' = executor \o <<new, 0>>
               /\ overtaken' = IF LoadedOnItsWay THEN overtaken \cup {new} ELSE overtaken
               /\ UNCHANGED dialog
    /\ UNCHANGED <<taskVars, tpc, task, eng, trouble, opened, lost, deaths, fault>>

HandleCancelled ==  \* onCancelled does nothing, whatever the result
    /\ Handles("POST") /\ loads[Head(queue).load].cancelled
    /\ queue' = Tail(queue)
    /\ lost' = IF Head(queue).got THEN lost \cup {Head(queue).load} ELSE lost
    /\ UNCHANGED <<taskVars, viewVars, casts, workVars, opened, overtaken, deaths, fault>>

HandleLoaded ==  \* onPostExecute; without a receiver the broadcast goes nowhere
    /\ Handles("POST") /\ ~loads[Head(queue).load].cancelled
    /\ IF registered > 0
         THEN /\ SendBroadcast([what |-> "LOADED", load |-> Head(queue).load,
                                got |-> Head(queue).got, heard |-> registered])
              /\ UNCHANGED lost
         ELSE /\ queue' = Tail(queue)
              /\ lost' = IF Head(queue).got THEN lost \cup {Head(queue).load} ELSE lost
              /\ UNCHANGED casts
    /\ UNCHANGED <<taskVars, viewVars, workVars, opened, overtaken, deaths, fault>>

\* The crop screens that a broadcast starts: one for each registration that hears it.
Starts(cast) ==
    IF cast.what = "LOADED" /\ cast.got THEN [i \in 1..cast.heard |-> cast.load] ELSE <<>>

DismissOnSuccess ==  \* mutated form of ReceiveAll: dismiss() only if there is an image
    /\ Handles("BROADCASTS")
    /\ LET new == FlattenSeq([i \in DOMAIN casts |-> Starts(casts[i])])
       IN /\ opened' = opened \o new
          /\ stack' = stack \o [i \in DOMAIN new |-> [what |-> "crop", born |-> deaths]]
          /\ dialog' = IF new # <<>> THEN FALSE ELSE dialog \/ Last(casts).what = "START"
    /\ registered' = IF LoadedOnItsWay THEN 0 ELSE registered
    /\ queue' = Tail(queue)
    /\ casts' = <<>>
    /\ fault' \in IF home = "left" /\ dialog' THEN {fault, "bad_token"} ELSE {fault}
    /\ UNCHANGED <<home, picks, given, fileUri, loader, workVars, lost, overtaken, deaths>>

\* onReceive for each pending broadcast. One that was sent before an unregister in the
\* same round is still delivered or not, as the library's version has it. The window of
\* a screen that was left is gone sooner or later, and a dialog cannot be shown on it.
ReceiveAll ==
    /\ Handles("BROADCASTS")
    /\ LET new == FlattenSeq([i \in DOMAIN casts |-> Starts(casts[i])])
       IN /\ opened' = opened \o new
          /\ stack' = stack \o [i \in DOMAIN new |-> [what |-> "crop", born |-> deaths]]
    /\ \/ dialog' = (Last(casts).what = "START")
       \/ LoadedOnItsWay /\ dialog' = FALSE
    /\ registered' = IF LoadedOnItsWay THEN 0 ELSE registered
    /\ queue' = Tail(queue)
    /\ casts' = <<>>
    /\ fault' \in IF home = "left" /\ dialog' THEN {fault, "bad_token"} ELSE {fault}
    /\ UNCHANGED <<home, picks, given, fileUri, loader, workVars, lost, overtaken, deaths>>

Main == HandleResume \/ HandleReturn \/ HandleCancelled \/ HandleLoaded \/ ReceiveAll

-----------------------------------------------------------------------------
(* The background thread.                                                  *)

TaskAt(from, to) == Live /\ tpc = from /\ tpc' = to

TakeAny ==  \* mutated form of TakeTask: an executor that keeps no order
    /\ \E i \in DOMAIN executor :
          /\ task' = executor[i]
          /\ executor' = RemoveAt(executor, i)
    /\ TaskAt("idle", CASE task' = 0 -> "check"
                        [] task' # 0 /\ loads[task'].cancelled -> "idle"
                        [] OTHER -> "load")
    /\ UNCHANGED <<taskVars, viewVars, queue, casts, loads, eng, trouble, bookVars>>

TakeTask ==  \* a load that was cancelled before it began is skipped
    /\ executor # <<>>
    /\ task' = Head(executor)
    /\ executor' = Tail(executor)
    /\ TaskAt("idle", CASE task' = 0 -> "check"
                        [] task' # 0 /\ loads[task'].cancelled -> "idle"
                        [] OTHER -> "load")
    /\ UNCHANGED <<taskVars, viewVars, queue, casts, loads, eng, trouble, bookVars>>

CheckFile ==  \* only a file that does not exist is copied, if there is a directory
    /\ \/ eng # "absent" /\ TaskAt("check", "idle") /\ UNCHANGED <<eng, trouble>>
       \/ eng = "absent" /\ TaskAt("check", "copy") /\ eng' = "partial" /\ UNCHANGED trouble
       \/ eng = "absent" /\ TaskAt("check", "idle") /\ trouble' = TRUE /\ UNCHANGED eng
    /\ UNCHANGED <<taskVars, viewVars, queue, casts, loads, executor, task, bookVars>>

CopyFiles ==  \* to its end, or to an IOException that is only printed
    /\ TaskAt("copy", "idle")
    /\ \/ eng' = "whole" /\ UNCHANGED trouble
       \/ trouble' = TRUE /\ UNCHANGED eng
    /\ UNCHANGED <<taskVars, viewVars, queue, casts, loads, executor, task, bookVars>>

LoadImage ==  \* a Pix, or none: no such image, unsupported, or interrupted
    /\ TaskAt("load", "idle")
    /\ \E got \in BOOLEAN :
          /\ got => loads[task].uri \in given
          /\ queue' = Append(queue, [what |-> "POST", load |-> task, got |-> got])
    /\ UNCHANGED <<taskVars, viewVars, casts, loads, executor, task, eng, trouble, bookVars>>

Task == TakeTask \/ CheckFile \/ CopyFiles \/ LoadImage

-----------------------------------------------------------------------------
\* The process is killed; the stack of screens, the files and the answer that another
\* app still owes survive. Bound: not while an answer is being delivered.
Die ==
    /\ Live /\ home = "shown" /\ deaths < MaxDeaths /\ ~Resuming
    /\ deaths' = deaths + 1
    /\ fileUri' = 0 /\ loader' = 0 /\ registered' = 0 /\ dialog' = FALSE
    /\ queue' = IF stack = <<>> THEN <<[what |-> "RESUME"]>> ELSE <<>>
    /\ casts' = <<>> /\ executor' = <<>> /\ tpc' = "idle" /\ task' = 0
    /\ trouble' = (trouble \/ eng # "whole")
    /\ UNCHANGED <<taskVars, loads, eng, opened, lost, overtaken, fault>>

Idle == queue = <<>> /\ executor = <<>> /\ tpc = "idle"

Rest ==
    /\ ~Live \/ (home = "left" /\ stack = <<>> /\ Idle)
    /\ UNCHANGED vars

Next == User \/ Main \/ Task \/ Die \/ Rest

\* Both threads are scheduled; neither the user nor another app has to act.
Fairness == WF_vars(Main) /\ WF_vars(Task)

Spec == Init /\ [][Next]_vars
FairSpec == Spec /\ Fairness

-----------------------------------------------------------------------------
(* Properties.                                                             *)

\* A photo is cropped once, and photos come up in the order in which they were chosen,
\* however the loads, the broadcasts and a second choice interleave
\* (HomeActivity.java:383-414).
OneCropPerLoad ==
    /\ TypeOK
    /\ \A i, j \in DOMAIN opened : i < j => opened[i] < opened[j]

\* A loaded photo reaches the crop screen unless the user chose another one, or chose it
\* while the broadcast of an earlier one was on its way: that one unregisters the
\* receiver under the new load (HomeActivity.java:413).
LostHasReason == \A i \in lost : loads[i].cancelled \/ i \in overtaken

\* When the first crop screen comes up the English data is there, because the check that
\* onResume queued runs before any load on the serial executor - unless it failed or the
\* process died first (HomeActivity.java:113, CheckDataTrainingProcess.java:46-59).
DataBeforeCrop == opened # <<>> => eng = "whole" \/ trouble

\* The progress dialog goes away after every load, failed or not, with the same
\* exception (HomeActivity.java:412-425).
DialogGoes == dialog ~> (~dialog \/ overtaken # {} \/ ~Live)

\* "only valid within the same process in which the Pix was created" (Pix.java:72): a
\* pointer that travels in an intent is not used by the process that is restored.
PointerStaysInProcess == fault # "foreign_pointer"
=============================================================================
