----------------------------- MODULE BookCallbacks -----------------------------
(***************************************************************************)
(* nativeOCRBook of image_processing.cpp in the workers of successive OCR  *)
(* screens.  The JNIEnv and the object for its callbacks are two static    *)
(* variables of the library.  A worker cannot be stopped in nativeOCRBook: *)
(* when the user has left its screen and opened the next one, two workers  *)
(* may be in there. (Some names begin with Book: the proofs are in one     *)
(* module with those of TextBlocks.)                                       *)
(***************************************************************************)
EXTENDS Integers

CONSTANTS
    Screens,    \* how many OCR screens are opened, one after the other
    Calls       \* callbacks of bookpage; the last one is left out if dewarping fails

ASSUME CountsAssumption == Screens \in Nat \ {0} /\ Calls \in Nat \ {0}

Jobs == 1..Screens
None == 0

VARIABLES
    screen,         \* per screen: "new", "opened" or "destroyed"
    place,          \* per worker: where it is in nativeOCRBook
    calls,          \* per worker: callbacks it is through with
    env,            \* per worker: the JNIEnv it has loaded for the call it is in
    cachedEnv,      \* the worker whose JNIEnv it is, or None for NULL
    cachedObject,   \* the job whose OCR object it refers to, or None
    refs,           \* jobs whose global reference exists
    strays,         \* screens that were sent a preview or a message of another worker
    fault,          \* the error that ended the process
    overlapped      \* history: two workers were between the first and the last assignment

bookVars == <<screen, place, calls, env, cachedEnv, cachedObject, refs, strays, fault, overlapped>>

Points == {"idle", "env", "object", "work", "load", "call", "reset", "delete", "clear", "over"}
Between == Points \ {"idle", "env", "over"}

BookTypeOK ==
    /\ screen \in [Jobs -> {"new", "opened", "destroyed"}]
    /\ place \in [Jobs -> Points]
    /\ calls \in [Jobs -> 0..Calls]
    /\ env \in [Jobs -> Jobs \cup {None}]
    /\ cachedEnv \in Jobs \cup {None}
    /\ cachedObject \in Jobs \cup {None}
    /\ refs \subseteq Jobs
    /\ strays \subseteq Jobs
    /\ fault \in {"none", "null_env", "wrong_env", "stale_ref"}
    /\ overlapped \in BOOLEAN

BookInit ==
    /\ screen = [j \in Jobs |-> "new"]
    /\ place = [j \in Jobs |-> "idle"]
    /\ calls = [j \in Jobs |-> 0]
    /\ env = [j \in Jobs |-> None]
    /\ cachedEnv = None /\ cachedObject = None
    /\ refs = {} /\ strays = {}
    /\ fault = "none" /\ overlapped = FALSE

-----------------------------------------------------------------------------
(* The main thread. *)

Live == fault = "none"
SetScreen(j, s) == screen' = [screen EXCEPT ![j] = s]

\* The user leaves a screen, which calls finish(), and opens the next one; the system
\* destroys what was left in its own time.
Open(j) ==
    /\ Live
    /\ screen[j] = "new"
    /\ j > 1 => screen[j - 1] # "new"
    /\ SetScreen(j, "opened")
    /\ UNCHANGED <<place, calls, env, cachedEnv, cachedObject, refs, strays, fault, overlapped>>

\* startOCRForSimpleLayout: the button of the screen in front starts the worker's thread.
Start(j) ==
    /\ Live
    /\ screen[j] = "opened" /\ place[j] = "idle"
    /\ \A k \in j + 1 .. Screens : screen[k] = "new"
    /\ place' = [place EXCEPT ![j] = "env"]
    /\ UNCHANGED <<screen, calls, env, cachedEnv, cachedObject, refs, strays, fault, overlapped>>

\* onActivityDestroyed: mIsActivityAttached is false, mStopped is true.
Destroy(j) ==
    /\ Live
    /\ screen[j] = "opened"
    /\ SetScreen(j, "destroyed")
    /\ UNCHANGED <<place, calls, env, cachedEnv, cachedObject, refs, strays, fault, overlapped>>

User(j) == Open(j) \/ Start(j) \/ Destroy(j)

-----------------------------------------------------------------------------
(* The workers. *)

Goes(j, from, to) ==
    /\ Live
    /\ place[j] = from
    /\ place' = [place EXCEPT ![j] = to]
    /\ overlapped' = (overlapped \/ \E k \in Jobs \ {j} : {to, place[k]} \subseteq Between)
    /\ UNCHANGED screen

LoadCachedEnv(j) ==
    /\ env' = [env EXCEPT ![j] = cachedEnv]
    /\ fault' = IF cachedEnv = None THEN "null_env" ELSE fault

\* A call through the env that was loaded, with an object that may be gone.  What the
\* env of another thread does is undefined: it is an error, and nothing after it is known.
UseEnv(j, ok) ==
    /\ fault' = IF env[j] # j THEN "wrong_env" ELSE IF ok THEN fault ELSE "stale_ref"
    /\ env' = [env EXCEPT ![j] = None]

\* initStateVariables: cachedEnv = env ...
SetEnv(j) ==
    /\ Goes(j, "env", "object")
    /\ cachedEnv' = j
    /\ UNCHANGED <<calls, env, cachedObject, refs, strays, fault>>

\* ... cachedObject = NewGlobalRef.
SetObject(j) ==
    /\ Goes(j, "object", "work")
    /\ cachedObject' = j
    /\ refs' = refs \cup {j}
    /\ UNCHANGED <<calls, env, cachedEnv, strays, fault>>

\* A callback of bookpage tests isStateValid() ...
TestEnv(j) ==
    /\ calls[j] < Calls
    /\ IF cachedEnv # None
         THEN Goes(j, "work", "load") /\ UNCHANGED calls
         ELSE Goes(j, "work", "work") /\ calls' = [calls EXCEPT ![j] = @ + 1]
    /\ UNCHANGED <<env, cachedEnv, cachedObject, refs, strays, fault>>

\* ... reads cachedEnv again ...
LoadEnv(j) ==
    /\ Goes(j, "load", "call")
    /\ LoadCachedEnv(j)
    /\ UNCHANGED <<calls, cachedEnv, cachedObject, refs, strays>>

\* ... and calls the method of cachedObject, which posts if its screen is attached.
Call(j) ==
    /\ Goes(j, "call", "work")
    /\ calls' = [calls EXCEPT ![j] = @ + 1]
    /\ UseEnv(j, cachedObject \in refs)
    /\ strays' = IF fault' = "none" /\ screen[cachedObject] # "destroyed"
                 THEN strays \cup ({cachedObject} \ {j}) ELSE strays
    /\ UNCHANGED <<cachedEnv, cachedObject, refs>>

\* bookpage returns.
Finish(j) ==
    /\ calls[j] >= Calls - 1
    /\ Goes(j, "work", "reset")
    /\ calls' = [calls EXCEPT ![j] = 0]
    /\ UNCHANGED <<env, cachedEnv, cachedObject, refs, strays, fault>>

SkipReset(j) ==  \* mutated form of Reset: left for the next one to overwrite
    /\ Goes(j, "reset", "over")
    /\ UNCHANGED <<calls, env, cachedEnv, cachedObject, refs, strays, fault>>

\* resetStateVariables reads cachedEnv ...
Reset(j) ==
    /\ Goes(j, "reset", "delete")
    /\ LoadCachedEnv(j)
    /\ UNCHANGED <<calls, cachedEnv, cachedObject, refs, strays>>

\* ... deletes the global reference; one that is gone may be ignored ...
DeleteRef(j) ==
    /\ Goes(j, "delete", "clear")
    /\ UseEnv(j, TRUE) \/ UseEnv(j, cachedObject \in refs)
    /\ refs' = refs \ {cachedObject}
    /\ UNCHANGED <<calls, cachedEnv, cachedObject, strays>>

\* ... and forgets the env.
ClearEnv(j) ==
    /\ Goes(j, "clear", "over")
    /\ cachedEnv' = None
    /\ UNCHANGED <<calls, env, cachedObject, refs, strays, fault>>

Worker(j) ==
    \/ SetEnv(j) \/ SetObject(j) \/ TestEnv(j) \/ LoadEnv(j) \/ Call(j)
    \/ Finish(j) \/ Reset(j) \/ DeleteRef(j) \/ ClearEnv(j)

BookNext == \E j \in Jobs : User(j) \/ Worker(j)

BookSpec == BookInit /\ [][BookNext]_bookVars

-----------------------------------------------------------------------------
(* Properties. *)

Leaked == {j \in refs : place[j] = "over"}

\* One worker at a time is safe, through any number of screens that are opened, left
\* and destroyed meanwhile: no call through a NULL or foreign JNIEnv or a deleted
\* reference, no OCR object (and activity) that is never released, no preview or message
\* on the screen of another card.  Only two workers in nativeOCRBook at once do harm.
HarmNeedsOverlap ==
    /\ BookTypeOK
    /\ fault # "none" \/ Leaked # {} \/ strays # {} => overlapped
=============================================================================
