--------------------------- MODULE LanguageInstall ---------------------------
(***************************************************************************)
(* How a recognition language gets onto the device: DownloadLanguageActivity*)
(* lists the languages and starts, cancels and deletes; the system's       *)
(* DownloadManager downloads; DownloadBroadCastReceiver hears of the end;  *)
(* OCRLanguageInstallService copies the file into the tessdata directory,  *)
(* tells the activity by broadcast and updates the database. They share    *)
(* the files, the rows of the database and the list that is on the screen, *)
(* and none of them holds a lock. The process may be killed at any time;   *)
(* files, rows and the DownloadManager survive.                            *)
(***************************************************************************)
EXTENDS Integers, Sequences, FiniteSets, SequencesExt

CONSTANTS
    Langs,         \* the languages besides English
    MaxDownloads,  \* bound: downloads ever started
    MaxDeaths      \* bound: times the process is killed

ASSUME BoundsAssumption == MaxDownloads \in Nat /\ MaxDeaths \in Nat

VARIABLES
    disk,      \* the .traineddata file: "absent", "partial" or "whole"
    rows,      \* the table of languages
    \* the DownloadManager
    downloads, \* every download started so far, in order: its id is its place
    notices,   \* ids whose ACTION_DOWNLOAD_COMPLETE is on its way
    \* OCRLanguageInstallService
    intents,   \* ids it was started with and has not taken up
    ipc, iid,  \* where onHandleIntent is, and for which download
    irow,      \* the row it has read
    \* DownloadLanguageActivity
    view,      \* "closed", "scan" or "store", "refresh" (the task), "loaded", or "open"
    scanned,   \* languages whose file the task has seen
    items,     \* the list on the screen
    asked,     \* <<>>, or the question in the dialog and its language
    casts,     \* broadcasts to the activity on their way
    \* bookkeeping
    broken,    \* languages with a failed or lost download or installation
    deaths

fileVars == <<disk, rows>>
dmVars == <<downloads, notices>>
serviceVars == <<intents, ipc, iid, irow>>
viewVars == <<view, scanned, items, asked>>
vars == <<fileVars, dmVars, serviceVars, viewVars, casts, broken, deaths>>

Row == [inst : BOOLEAN, downloading : BOOLEAN, id : 0..MaxDownloads]
NewRow == [inst |-> FALSE, downloading |-> FALSE, id |-> 0]
Display(l) == <<"display", l>>
Title(l) == <<"Downloading language: display", l>>  \* what startDownload calls a download
Casts == [what : {"completed"}, lang : Langs]
            \cup [what : {"failed"}, display : {<<>>} \cup {Title(l) : l \in Langs}]

TypeOK ==
    /\ disk \in [Langs -> {"absent", "partial", "whole"}] /\ rows \in [Langs -> Row]
    /\ downloads \in Seq([lang : Langs, status : {"running", "done", "failed", "removed"}])
    /\ notices \subseteq 1..Len(downloads) /\ intents \in Seq(1..Len(downloads))
    /\ ipc \in {"idle", "open", "copy", "notify", "read", "write", "remove"}
    /\ iid \in 0..Len(downloads) /\ irow \in Row
    /\ view \in {"closed", "scan", "store", "refresh", "loaded", "open"} /\ scanned \subseteq Langs
    /\ items \in [Langs -> Row] /\ asked \in {<<>>} \cup ({"cancel", "delete"} \X Langs)
    /\ casts \in Seq(Casts) /\ broken \subseteq Langs /\ deaths \in 0..MaxDeaths

Init ==
    /\ disk = [l \in Langs |-> "absent"] /\ rows = [l \in Langs |-> NewRow]
    /\ downloads = <<>> /\ notices = {}
    /\ intents = <<>> /\ ipc = "idle" /\ iid = 0 /\ irow = NewRow
    /\ view = "closed" /\ scanned = {} /\ items = [l \in Langs |-> NewRow] /\ asked = <<>>
    /\ casts = <<>> /\ broken = {} /\ deaths = 0

-----------------------------------------------------------------------------
(* The activity: loading the list.                                         *)

ViewAt(from, to) == view = from /\ view' = to

\* OcrLanguageDataStore.isLanguageInstalled: any file of the language will do.
IsLanguageInstalled(l) == disk[l] # "absent"

OpenScreen ==
    /\ ViewAt("closed", "scan")
    /\ UNCHANGED <<fileVars, dmVars, serviceVars, scanned, items, asked, casts, broken, deaths>>

ScanFiles ==  \* getAvailableOcrLanguages
    /\ ViewAt("scan", "store")
    /\ scanned' = {l \in Langs : IsLanguageInstalled(l)}
    /\ UNCHANGED <<fileVars, dmVars, serviceVars, items, asked, casts, broken, deaths>>

StoreRows ==  \* the rows get what was scanned, and keep their flag and id
    /\ ViewAt("store", "refresh")
    /\ rows' = [l \in Langs |-> [rows[l] EXCEPT !.inst = l \in scanned]]
    /\ scanned' = {}
    /\ UNCHANGED <<disk, dmVars, serviceVars, items, asked, casts, broken, deaths>>

\* The rows become the items; then the titles of unfinished downloads are looked up
\* among the items' names.
RefreshList ==
    /\ ViewAt("refresh", "loaded")
    /\ items' = [l \in Langs |-> [rows[l] EXCEPT !.downloading =
                    @ \/ \E id \in DOMAIN downloads :
                            /\ downloads[id].status = "running"
                            /\ Title(downloads[id].lang) = Display(l)]]
    /\ UNCHANGED <<fileVars, dmVars, serviceVars, scanned, asked, casts, broken, deaths>>

ShowList ==  \* onPostExecute registers the receivers
    /\ ViewAt("loaded", "open")
    /\ UNCHANGED <<fileVars, dmVars, serviceVars, scanned, items, asked, casts, broken, deaths>>

NoList == items' = [l \in Langs |-> NewRow] /\ scanned' = {} /\ asked' = <<>>

CloseScreen ==  \* bound: not while the list is being loaded
    /\ ViewAt("open", "closed")
    /\ NoList
    /\ UNCHANGED <<fileVars, dmVars, serviceVars, casts, broken, deaths>>

-----------------------------------------------------------------------------
(* The activity: what the user does.                                       *)

Clicking == view = "open" /\ asked = <<>>

StartDownload(l) ==
    /\ Clicking /\ ~items[l].inst /\ ~items[l].downloading
    /\ Len(downloads) < MaxDownloads
    /\ downloads' = Append(downloads, [lang |-> l, status |-> "running"])
    /\ items' = [items EXCEPT ![l].downloading = TRUE, ![l].id = Len(downloads) + 1]
    /\ rows' = [rows EXCEPT ![l] = items'[l]]
    /\ UNCHANGED <<disk, notices, serviceVars, view, scanned, asked, casts, broken, deaths>>

Ask(l) ==  \* a click on an installed language, or on one that is being downloaded
    /\ Clicking /\ (items[l].inst \/ items[l].downloading)
    /\ asked' = <<IF items[l].inst THEN "delete" ELSE "cancel", l>>
    /\ UNCHANGED <<fileVars, dmVars, serviceVars, view, scanned, items, casts, broken, deaths>>

Answer(question) == asked # <<>> /\ asked[1] = question /\ asked' = <<>>

No ==
    /\ Answer("cancel") \/ Answer("delete")
    /\ UNCHANGED <<fileVars, dmVars, serviceVars, view, scanned, items, casts, broken, deaths>>

RemoveDownload(id) ==  \* DownloadManager.remove; an id it does not know is ignored
    downloads' = IF id \in DOMAIN downloads THEN [downloads EXCEPT ![id].status = "removed"]
                 ELSE downloads

CancelOnScreen ==  \* mutated form of CancelDownload: the row keeps the flag
    /\ Answer("cancel")
    /\ LET l == asked[2] IN
         /\ RemoveDownload(items[l].id)
         /\ items' = [items EXCEPT ![l].downloading = FALSE, ![l].id = 0]
    /\ UNCHANGED <<fileVars, notices, serviceVars, view, scanned, casts, broken, deaths>>

CancelToMinusOne ==  \* mutated form of CancelDownload: another number for "no download"
    /\ Answer("cancel")
    /\ LET l == asked[2] IN
         /\ RemoveDownload(items[l].id)
         /\ items' = [items EXCEPT ![l].downloading = FALSE, ![l].id = -1]
         /\ rows' = [rows EXCEPT ![l] = items'[l]]
    /\ UNCHANGED <<disk, notices, serviceVars, view, scanned, casts, broken, deaths>>

CancelDownload ==
    /\ Answer("cancel")
    /\ LET l == asked[2] IN
         /\ RemoveDownload(items[l].id)
         /\ items' = [items EXCEPT ![l].downloading = FALSE, ![l].id = 0]
         /\ rows' = [rows EXCEPT ![l] = items'[l]]
    /\ UNCHANGED <<disk, notices, serviceVars, view, scanned, casts, broken, deaths>>

DeleteLanguage ==  \* the files go, the item is set uninstalled, the row is not touched
    /\ Answer("delete")
    /\ LET l == asked[2] IN
         /\ disk' = [disk EXCEPT ![l] = "absent"]
         /\ items' = [items EXCEPT ![l].inst = FALSE]
    /\ UNCHANGED <<rows, dmVars, serviceVars, view, scanned, casts, broken, deaths>>

-----------------------------------------------------------------------------
(* The DownloadManager and the receiver of its broadcast.                  *)

DownloadEnds(status) ==
    /\ \E id \in DOMAIN downloads :
          /\ downloads[id].status = "running"
          /\ downloads' = [downloads EXCEPT ![id].status = status]
          /\ notices' = notices \cup {id}
          /\ broken' = IF status = "failed" THEN broken \cup {downloads[id].lang} ELSE broken
    /\ UNCHANGED <<fileVars, serviceVars, viewVars, casts, deaths>>

ReceiveOnScreen ==  \* mutated form of Receive: registered by the activity, not in the manifest
    /\ \E id \in notices :
          /\ notices' = notices \ {id}
          /\ intents' = IF downloads[id].status = "done" /\ view = "open"
                        THEN Append(intents, id) ELSE intents
    /\ UNCHANGED <<fileVars, downloads, ipc, iid, irow, viewVars, casts, broken, deaths>>

Receive ==  \* DownloadBroadCastReceiver.onReceive queries the status again
    /\ \E id \in notices :
          /\ notices' = notices \ {id}
          /\ intents' = IF downloads[id].status = "done" THEN Append(intents, id) ELSE intents
          /\ casts' = IF downloads[id].status = "failed"
                      THEN Append(casts, [what |-> "failed", display |-> Title(downloads[id].lang)])
                      ELSE casts
    /\ UNCHANGED <<fileVars, downloads, ipc, iid, irow, viewVars, broken, deaths>>

-----------------------------------------------------------------------------
(* OCRLanguageInstallService.onHandleIntent, on its own thread.            *)

ServiceAt(from, to) == ipc = from /\ ipc' = to
Lang == downloads[iid].lang
NotifyError == casts' = Append(casts, [what |-> "failed", display |-> <<>>])

RedeliverIntent ==  \* mutated form of TakeIntent: the intent stays until it is through
    /\ ServiceAt("idle", "open")
    /\ intents # <<>>
    /\ iid' = Head(intents)
    /\ UNCHANGED <<fileVars, dmVars, intents, irow, viewVars, casts, broken, deaths>>

TakeIntent ==
    /\ ServiceAt("idle", "open")
    /\ intents # <<>>
    /\ iid' = Head(intents)
    /\ intents' = Tail(intents)
    /\ UNCHANGED <<fileVars, dmVars, irow, viewVars, casts, broken, deaths>>

CreateFirst ==  \* mutated form of OpenFile: creates the file before it opens the download
    /\ \/ ServiceAt("open", "read") /\ NotifyError /\ UNCHANGED disk
       \/ /\ ServiceAt("open", "remove")
          /\ downloads[iid].status = "removed"
          /\ NotifyError
          /\ disk' = [disk EXCEPT ![Lang] = "partial"]
       \/ /\ ServiceAt("open", "copy")
          /\ downloads[iid].status # "removed"
          /\ disk' = [disk EXCEPT ![Lang] = "partial"]
          /\ UNCHANGED casts
    /\ UNCHANGED <<rows, dmVars, intents, iid, irow, viewVars, broken, deaths>>

OpenFile ==  \* no directory; a download that is gone; or the copy begins
    /\ \/ ServiceAt("open", "read") /\ NotifyError /\ UNCHANGED disk
       \/ /\ ServiceAt("open", "remove")
          /\ downloads[iid].status = "removed"
          /\ NotifyError
          /\ UNCHANGED disk
       \/ /\ ServiceAt("open", "copy")
          /\ downloads[iid].status # "removed"
          /\ disk' = [disk EXCEPT ![Lang] = "partial"]
          /\ UNCHANGED casts
    /\ UNCHANGED <<rows, dmVars, intents, iid, irow, viewVars, broken, deaths>>

CopyFile ==  \* a file that is deleted meanwhile stays deleted; or an IOException
    /\ \/ /\ ServiceAt("copy", "notify")
          /\ disk' = [disk EXCEPT ![Lang] = IF @ = "partial" THEN "whole" ELSE @]
          /\ UNCHANGED <<casts, broken>>
       \/ /\ ServiceAt("copy", "remove") /\ NotifyError
          /\ broken' = broken \cup {Lang}
          /\ UNCHANGED disk
    /\ UNCHANGED <<rows, dmVars, intents, iid, irow, viewVars, deaths>>

NotifySuccess ==
    /\ ServiceAt("notify", "read")
    /\ casts' = Append(casts, [what |-> "completed", lang |-> Lang])
    /\ UNCHANGED <<fileVars, dmVars, intents, iid, irow, viewVars, broken, deaths>>

ReadRow ==
    /\ ServiceAt("read", "write")
    /\ irow' = rows[Lang]
    /\ UNCHANGED <<fileVars, dmVars, intents, iid, viewVars, casts, broken, deaths>>

WriteRow ==
    /\ ServiceAt("write", "remove")
    /\ rows' = [rows EXCEPT ![Lang] = [irow EXCEPT !.downloading = FALSE, !.id = 0]]
    /\ irow' = NewRow
    /\ UNCHANGED <<disk, dmVars, intents, iid, viewVars, casts, broken, deaths>>

EndInstall ==  \* finally: dm.remove(downloadId)
    /\ ServiceAt("remove", "idle")
    /\ RemoveDownload(iid)
    /\ iid' = 0
    /\ UNCHANGED <<fileVars, notices, intents, irow, viewVars, casts, broken, deaths>>

Service ==
    TakeIntent \/ OpenFile \/ CopyFile \/ NotifySuccess \/ ReadRow \/ WriteRow \/ EndInstall

-----------------------------------------------------------------------------
(* The broadcasts that the activity listens to while its list is there.    *)

\* updateLanguage, for the item with the code or the name in the broadcast.
Deliver ==
    /\ casts # <<>>
    /\ casts' = Tail(casts)
    /\ LET cast == Head(casts)
           Told(l) == IF cast.what = "completed" THEN cast.lang = l ELSE cast.display = Display(l)
           Updated(l) ==
               IF cast.what = "failed" THEN [items[l] EXCEPT !.downloading = FALSE]
               ELSE [items[l] EXCEPT !.inst = IsLanguageInstalled(l),
                                     !.downloading = @ /\ ~IsLanguageInstalled(l)]
       IN items' = IF view = "open" THEN [l \in Langs |-> IF Told(l) THEN Updated(l) ELSE items[l]]
                   ELSE items
    /\ UNCHANGED <<fileVars, dmVars, serviceVars, view, scanned, asked, broken, deaths>>

\* The process is killed: what it held in memory is lost, also the service's intents.
Die ==
    /\ deaths < MaxDeaths
    /\ deaths' = deaths + 1
    /\ broken' = broken \cup {downloads[id].lang : id \in ToSet(intents)}
                        \cup (IF ipc = "idle" THEN {} ELSE {Lang})
    /\ intents' = <<>> /\ ipc' = "idle" /\ iid' = 0 /\ irow' = NewRow
    /\ view' = "closed" /\ NoList /\ casts' = <<>>
    /\ UNCHANGED <<fileVars, dmVars>>

-----------------------------------------------------------------------------
LoadList == ScanFiles \/ StoreRows \/ RefreshList \/ ShowList
User ==
    \/ OpenScreen \/ CloseScreen
    \/ \E l \in Langs : StartDownload(l) \/ Ask(l)
    \/ No \/ CancelDownload \/ DeleteLanguage

Next ==
    \/ LoadList \/ User
    \/ DownloadEnds("done") \/ DownloadEnds("failed") \/ Receive
    \/ Service \/ Deliver \/ Die

\* Every download ends, every broadcast is delivered and the service's thread runs;
\* the user need not do anything.
Fairness ==
    /\ WF_vars(DownloadEnds("done") \/ DownloadEnds("failed"))
    /\ WF_vars(Receive) /\ WF_vars(Service) /\ WF_vars(Deliver) /\ WF_vars(LoadList)

Spec == Init /\ [][Next]_vars
FairSpec == Spec /\ Fairness

-----------------------------------------------------------------------------
(* Properties.                                                             *)

\* Something is still going to happen for the language.
InFlight(l) ==
    \/ \E id \in DOMAIN downloads :
          /\ downloads[id].lang = l
          /\ downloads[id].status = "running" \/ id \in notices \/ Contains(intents, id)
    \/ ipc # "idle" /\ Lang = l

\* A row that says "downloading" has a download or an installation behind it, unless
\* one failed or was lost: cancelling and the service's own read-then-write of the row
\* never leave the flag behind (OCRLanguageInstallService.java:84-87).
FlagHasReason == \A l \in Langs : rows[l].downloading => InFlight(l) \/ l \in broken

\* A truncated file is on the disk only while the service copies it, or after a copy
\* that failed or was killed: deleting and downloading again do not produce one.
PartialHasReason ==
    /\ TypeOK
    /\ \A l \in Langs : disk[l] = "partial" => (ipc = "copy" /\ Lang = l) \/ l \in broken

\* The flag of a row does not stay: the download ends or is cancelled and the row is
\* cleared, unless a download or an installation of the language failed or was lost
\* (DownloadBroadCastReceiver.java:37-42, OCRLanguageInstallService.java:84-87).
FlagClears == \A l \in Langs : rows[l].downloading ~> (~rows[l].downloading \/ l \in broken)

\* The downloads that may still write a file, and the languages of all of them.
OrderIds ==
    {id \in DOMAIN downloads :
        downloads[id].status = "running" \/ id \in notices \/ Contains(intents, id)}
    \cup (IF ipc \in {"open", "copy"} THEN {iid} ELSE {})
OrderLangs == [id \in DOMAIN downloads |-> downloads[id].lang]

Promise == INSTANCE LanguageShelf WITH
    orders <- OrderLangs, owed <- OrderIds, file <- disk,
    serving <- IF ipc = "copy" THEN iid ELSE 0

\* The way of a download through the DownloadManager, its notice, the receiver, the
\* intents and the service, with cancelling and deleting in between, is one order of
\* LanguageShelf: it writes its file once at most, and nothing else writes files.
OrdersAreServedOnce == Promise!Shelf
=============================================================================
