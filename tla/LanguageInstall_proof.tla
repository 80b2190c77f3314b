------------------------ MODULE LanguageInstall_proof ------------------------
(***************************************************************************)
(* The inductive invariant of LanguageInstall, for any set of languages    *)
(* and any number of downloads and deaths, and what follows from it: no    *)
(* row and no file is left behind without a reason, and the whole way of a *)
(* download is one order of LanguageShelf.                                 *)
(***************************************************************************)
EXTENDS LanguageInstall, SequenceTheorems, TLAPS

-----------------------------------------------------------------------------
(* The inductive invariant, one named part per idea.                       *)

\* The service has an intent exactly while it is not idle.
ServiceBusy == ipc = "idle" <=> iid = 0

\* The id in a row or an item is that of a download of its own language.
OwnId(l, row) == row.id # 0 => row.id \in DOMAIN downloads /\ downloads[row.id].lang = l
OwnIds == \A l \in Langs : OwnId(l, rows[l]) /\ OwnId(l, items[l])

\* A download is in one place on its way: running, in its notice, in an intent, or taken
\* up by the service.  This is what makes the service take it up once.
OnePlace ==
    /\ \A id \in DOMAIN downloads : downloads[id].status = "running" =>
          id \notin notices /\ ~Contains(intents, id) /\ id # iid
    /\ \A id \in notices : ~Contains(intents, id) /\ id # iid
    /\ ~Contains(intents, iid)
    /\ \A i, j \in 1..Len(intents) : intents[i] = intents[j] => i = j

\* The download is still going to clear the flag of its row, if nothing fails.
Coming(id) ==
    \/ downloads[id].status = "running"
    \/ /\ downloads[id].status = "done"
       /\ \/ id \in notices \/ Contains(intents, id)
          \/ id = iid /\ ipc \in {"open", "copy", "notify", "read", "write"}

\* A raised flag has such a download of its language behind it, or one that failed.
FlagBehind ==
    \A l \in Langs : rows[l].downloading =>
        l \in broken \/ \E id \in DOMAIN downloads : downloads[id].lang = l /\ Coming(id)

IInv == PartialHasReason /\ ServiceBusy /\ OwnIds /\ OnePlace /\ FlagBehind

-----------------------------------------------------------------------------
(* Facts about the helpers of the model.                                   *)

Download == [lang : Langs, status : {"running", "done", "failed", "removed"}]

\* What joins and what leaves the queue of intents.
LEMMA ContainsAppend ==
    ASSUME NEW S, NEW s \in Seq(S), NEW e
    PROVE  /\ \A x : Contains(Append(s, e), x) <=> Contains(s, x) \/ x = e
           /\ Len(Append(s, e)) = Len(s) + 1
           /\ \A i \in 1..Len(s) : Append(s, e)[i] = s[i]
           /\ Append(s, e)[Len(s) + 1] = e
  <1> DEFINE t == Append(s, e)
  <1>1. Len(t) = Len(s) + 1 /\ (\A i \in 1..Len(s) : t[i] = s[i]) /\ t[Len(s) + 1] = e
    OBVIOUS
  <1>2. ASSUME NEW x PROVE Contains(t, x) <=> Contains(s, x) \/ x = e
    <2>1. Len(s) \in Nat
      OBVIOUS
    <2> HIDE DEF t
    <2> QED
      BY <1>1, <2>1 DEF Contains
  <1> QED
    BY <1>1, <1>2

\* The head of the queue is in it, and the tail holds the rest.
LEMMA ContainsTail ==
    ASSUME NEW S, NEW s \in Seq(S), s # <<>>
    PROVE  /\ \A x : Contains(s, x) <=> x = Head(s) \/ Contains(Tail(s), x)
           /\ Head(s) = s[1] /\ Head(s) \in S /\ Len(s) >= 1
           /\ Tail(s) \in Seq(S) /\ Len(Tail(s)) = Len(s) - 1
           /\ \A i \in 1..Len(s) - 1 : Tail(s)[i] = s[i + 1]
  <1> DEFINE t == Tail(s)
  <1>1. /\ Head(s) = s[1] /\ Head(s) \in S /\ Len(s) \in Nat /\ Len(s) >= 1
        /\ t \in Seq(S) /\ Len(t) = Len(s) - 1
        /\ \A i \in 1..Len(s) - 1 : t[i] = s[i + 1]
    OBVIOUS
  <1>2. ASSUME NEW x PROVE Contains(s, x) <=> x = s[1] \/ Contains(t, x)
    <2> HIDE DEF t
    <2>1. ASSUME Contains(s, x), x # s[1] PROVE Contains(t, x)
      <3>1. PICK i \in 1..Len(s) : s[i] = x
        BY <2>1 DEF Contains
      <3>2. i - 1 \in 1..Len(t) /\ t[i - 1] = x
        BY <1>1, <2>1, <3>1
      <3> QED
        BY <3>2 DEF Contains
    <2>2. ASSUME Contains(t, x) PROVE Contains(s, x)
      <3>1. PICK i \in 1..Len(t) : t[i] = x
        BY <2>2 DEF Contains
      <3>2. i + 1 \in 1..Len(s) /\ s[i + 1] = x
        BY <1>1, <3>1
      <3> QED
        BY <3>2 DEF Contains
    <2>3. Contains(s, s[1])
      BY <1>1 DEF Contains
    <2> QED
      BY <2>1, <2>2, <2>3
  <1> QED
    BY <1>1, <1>2

\* Nothing is in an empty queue, and only ids of downloads are in the queue.
LEMMA ContainsFacts ==
    ASSUME NEW S, NEW s \in Seq(S)
    PROVE  /\ \A x : ~Contains(<<>>, x)
           /\ \A x : Contains(s, x) => x \in S /\ x \in ToSet(s)
  BY DEF Contains, ToSet

\* An update of one download's status leaves every download where it is, and its language.
LEMMA StatusFacts ==
    ASSUME NEW ds \in Seq(Download), NEW id \in DOMAIN ds, NEW s \in {"running", "done", "failed", "removed"},
           NEW new, new = [ds EXCEPT ![id].status = s]
    PROVE  /\ new \in Seq(Download) /\ Len(new) = Len(ds) /\ DOMAIN new = DOMAIN ds
           /\ \A k \in DOMAIN ds : new[k].lang = ds[k].lang
           /\ new[id].status = s
           /\ \A k \in DOMAIN ds \ {id} : new[k].status = ds[k].status
  <1>1. new = [ds EXCEPT ![id] = [ds[id] EXCEPT !.status = s]]
    OBVIOUS
  <1>2. ds[id] \in Download /\ [ds[id] EXCEPT !.status = s] \in Download
    <2>1. ds[id] \in Download
      BY ElementOfSeq
    <2> QED
      BY <2>1 DEF Download
  <1>3. new \in Seq(Download) /\ Len(new) = Len(ds) /\ DOMAIN new = DOMAIN ds
    BY <1>1, <1>2, ExceptSeq
  <1>4. new[id] = [ds[id] EXCEPT !.status = s] /\ \A k \in DOMAIN ds \ {id} : new[k] = ds[k]
    BY <1>1
  <1> QED
    BY <1>2, <1>3, <1>4 DEF Download

\* remove(): the id's download is marked, or nothing happens.
LEMMA RemoveFacts ==
    ASSUME downloads \in Seq(Download), NEW id, RemoveDownload(id)
    PROVE  /\ downloads' \in Seq(Download) /\ Len(downloads') = Len(downloads)
           /\ DOMAIN downloads' = DOMAIN downloads
           /\ \A k \in DOMAIN downloads : downloads'[k].lang = downloads[k].lang
           /\ \A k \in DOMAIN downloads : k # id => downloads'[k].status = downloads[k].status
           /\ id \in DOMAIN downloads => downloads'[id].status = "removed"
  <1>1. CASE id \in DOMAIN downloads
    BY <1>1, StatusFacts DEF RemoveDownload
  <1>2. CASE id \notin DOMAIN downloads
    BY <1>2 DEF RemoveDownload
  <1> QED
    BY <1>1, <1>2

\* A row stays a row when one of its flags is set, and keeps the rest.
LEMMA RowFacts ==
    ASSUME NEW r \in Row, NEW b \in BOOLEAN
    PROVE  /\ r.inst \in BOOLEAN /\ r.downloading \in BOOLEAN /\ r.id \in 0..MaxDownloads
           /\ [r EXCEPT !.inst = b] \in Row /\ [r EXCEPT !.inst = b].id = r.id
           /\ [r EXCEPT !.inst = b].downloading = r.downloading
           /\ [r EXCEPT !.downloading = b] \in Row /\ [r EXCEPT !.downloading = b].id = r.id
           /\ [r EXCEPT !.downloading = b].downloading = b
  BY DEF Row

\* What a row is when its download is over.
LEMMA ClearedRowFacts ==
    ASSUME NEW r \in Row
    PROVE  LET c == [r EXCEPT !.downloading = FALSE, !.id = 0]
           IN  c \in Row /\ c.downloading = FALSE /\ c.id = 0
  <1>1. 0 \in 0..MaxDownloads
    BY BoundsAssumption
  <1> QED
    BY <1>1 DEF Row

\* What a row is without a download.
LEMMA NewRowFacts == NewRow \in Row /\ NewRow.downloading = FALSE /\ NewRow.id = 0
  <1>1. 0 \in 0..MaxDownloads
    BY BoundsAssumption
  <1> QED
    BY <1>1 DEF Row, NewRow

\* The broadcast of an error is one the activity may hear.
LEMMA FailedCast == [what |-> "failed", display |-> <<>>] \in Casts
  BY DEF Casts

-----------------------------------------------------------------------------
(* The type invariant in parts.                                            *)

FilesOK == disk \in [Langs -> {"absent", "partial", "whole"}] /\ rows \in [Langs -> Row]
DownloadsOK ==
    /\ downloads \in Seq(Download)
    /\ notices \subseteq 1..Len(downloads) /\ intents \in Seq(1..Len(downloads))
ServiceOK ==
    /\ ipc \in {"idle", "open", "copy", "notify", "read", "write", "remove"}
    /\ iid \in 0..Len(downloads) /\ irow \in Row
ViewOK ==
    /\ view \in {"closed", "scan", "store", "refresh", "loaded", "open"} /\ scanned \subseteq Langs
    /\ items \in [Langs -> Row] /\ asked \in {<<>>} \cup ({"cancel", "delete"} \X Langs)
RestOK == casts \in Seq(Casts) /\ broken \subseteq Langs /\ deaths \in 0..MaxDeaths

\* The parts are the whole.
LEMMA TypeParts == TypeOK <=> FilesOK /\ DownloadsOK /\ ServiceOK /\ ViewOK /\ RestOK
  BY DEF TypeOK, FilesOK, DownloadsOK, ServiceOK, ViewOK, RestOK, Download

\* What the service is at work on while it is not idle.
LEMMA LangFacts ==
    ASSUME IInv, ipc # "idle"
    PROVE  iid \in DOMAIN downloads /\ iid # 0 /\ downloads[iid] \in Download /\ Lang \in Langs
  <1>1. iid \in 1..Len(downloads) /\ downloads \in Seq(Download) /\ iid # 0
    BY TypeParts DEF IInv, PartialHasReason, ServiceOK, DownloadsOK, ServiceBusy
  <1>2. downloads[iid] \in Download
    BY <1>1, ElementOfSeq
  <1> QED
    BY <1>1, <1>2 DEF Lang, Download

-----------------------------------------------------------------------------
(* Every action keeps the inductive invariant.                             *)

\* Opening the list.
LEMMA OpenScreenIInv == ASSUME IInv, OpenScreen PROVE IInv'
  <1> USE BoundsAssumption DEF OpenScreen, ViewAt, fileVars, dmVars, serviceVars, viewVars, IInv, PartialHasReason
  <1>1. TypeOK'
    BY DEF TypeOK
  <1>2. PartialHasReason'
    BY <1>1 DEF PartialHasReason, Lang
  <1>3. ServiceBusy'
    BY DEF ServiceBusy, TypeOK
  <1>4. OwnIds'
    BY DEF OwnIds, OwnId, TypeOK, Row
  <1>5. OnePlace'
    BY DEF OnePlace, TypeOK
  <1>6. FlagBehind'
    BY DEF FlagBehind, Coming, TypeOK, Row
  <1> QED
    BY <1>1, <1>2, <1>3, <1>4, <1>5, <1>6

\* Looking for the files.
LEMMA ScanFilesIInv == ASSUME IInv, ScanFiles PROVE IInv'
  <1> USE BoundsAssumption DEF ScanFiles, ViewAt, fileVars, dmVars, serviceVars, viewVars, IInv, PartialHasReason
  <1>1. TypeOK'
    BY DEF TypeOK
  <1>2. PartialHasReason'
    BY <1>1 DEF PartialHasReason, Lang
  <1>3. ServiceBusy'
    BY DEF ServiceBusy, TypeOK
  <1>4. OwnIds'
    BY DEF OwnIds, OwnId, TypeOK, Row
  <1>5. OnePlace'
    BY DEF OnePlace, TypeOK
  <1>6. FlagBehind'
    BY DEF FlagBehind, Coming, TypeOK, Row
  <1> QED
    BY <1>1, <1>2, <1>3, <1>4, <1>5, <1>6

\* Every row keeps its flag and its id.
LEMMA StoreRowsIInv == ASSUME IInv, StoreRows PROVE IInv'
  <1> USE BoundsAssumption DEF StoreRows, ViewAt, fileVars, dmVars, serviceVars, viewVars, IInv, PartialHasReason
  <1>0. \A l \in Langs : /\ rows'[l] \in Row /\ rows'[l].id = rows[l].id
                         /\ rows'[l].downloading = rows[l].downloading
    <2> TAKE l \in Langs
    <2> DEFINE b == l \in scanned
    <2>1. rows[l] \in Row /\ b \in BOOLEAN /\ rows'[l] = [rows[l] EXCEPT !.inst = b]
      BY DEF TypeOK
    <2> HIDE DEF b
    <2>2. [rows[l] EXCEPT !.inst = b] \in Row
      BY <2>1, RowFacts, Zenon
    <2>3. /\ [rows[l] EXCEPT !.inst = b].id = rows[l].id
          /\ [rows[l] EXCEPT !.inst = b].downloading = rows[l].downloading
      BY <2>1 DEF Row
    <2> QED
      BY <2>1, <2>2, <2>3
  <1>1. TypeOK'
    <2> USE TypeParts
    <2>1. FilesOK'
      BY <1>0 DEF FilesOK
    <2>2. DownloadsOK'
      BY DEF DownloadsOK
    <2>3. ServiceOK'
      BY DEF ServiceOK, DownloadsOK
    <2>4. ViewOK'
      BY DEF ViewOK
    <2>5. RestOK'
      BY DEF RestOK
    <2> QED
      BY <2>1, <2>2, <2>3, <2>4, <2>5 DEF TypeOK, FilesOK, DownloadsOK, ServiceOK, ViewOK, RestOK, Download
  <1>2. PartialHasReason'
    BY <1>1 DEF PartialHasReason, Lang
  <1>3. ServiceBusy'
    BY DEF ServiceBusy, TypeOK
  <1>4. OwnIds'
    BY <1>0 DEF OwnIds, OwnId, TypeOK
  <1>5. OnePlace'
    BY DEF OnePlace, TypeOK
  <1>6. FlagBehind'
    BY <1>0 DEF FlagBehind, Coming, TypeOK
  <1> QED
    BY <1>1, <1>2, <1>3, <1>4, <1>5, <1>6

\* The items are the rows.
LEMMA RefreshListIInv == ASSUME IInv, RefreshList PROVE IInv'
  <1> USE BoundsAssumption DEF RefreshList, ViewAt, fileVars, dmVars, serviceVars, viewVars, IInv, PartialHasReason
  <1>0. \A l \in Langs : items'[l] \in Row /\ items'[l].id = rows[l].id
    <2> TAKE l \in Langs
    <2> DEFINE b == rows[l].downloading \/ \E id \in DOMAIN downloads :
                        downloads[id].status = "running" /\ Title(downloads[id].lang) = Display(l)
    <2>1. rows[l] \in Row /\ b \in BOOLEAN
      BY DEF TypeOK
    <2>2. items'[l] = [rows[l] EXCEPT !.downloading = b]
      BY <2>1 DEF RefreshList
    <2> HIDE DEF b
    <2>3. [rows[l] EXCEPT !.downloading = b] \in Row /\ [rows[l] EXCEPT !.downloading = b].id = rows[l].id
      BY <2>1, RowFacts, ZenonT(30)
    <2> QED
      BY <2>2, <2>3
  <1>1. TypeOK'
    <2> USE TypeParts
    <2>1. FilesOK'
      BY DEF FilesOK
    <2>2. DownloadsOK'
      BY DEF DownloadsOK
    <2>3. ServiceOK'
      BY DEF ServiceOK, DownloadsOK
    <2>4. ViewOK'
      BY <1>0 DEF ViewOK
    <2>5. RestOK'
      BY DEF RestOK
    <2> QED
      BY <2>1, <2>2, <2>3, <2>4, <2>5 DEF TypeOK, FilesOK, DownloadsOK, ServiceOK, ViewOK, RestOK, Download
  <1>2. PartialHasReason'
    BY <1>1 DEF PartialHasReason, Lang
  <1>3. ServiceBusy'
    BY DEF ServiceBusy, TypeOK
  <1>4. OwnIds'
    BY <1>0 DEF OwnIds, OwnId, TypeOK
  <1>5. OnePlace'
    BY DEF OnePlace, TypeOK
  <1>6. FlagBehind'
    BY DEF FlagBehind, Coming, TypeOK, Row
  <1> QED
    BY <1>1, <1>2, <1>3, <1>4, <1>5, <1>6

\* Showing the list.
LEMMA ShowListIInv == ASSUME IInv, ShowList PROVE IInv'
  <1> USE BoundsAssumption DEF ShowList, ViewAt, fileVars, dmVars, serviceVars, viewVars, IInv, PartialHasReason
  <1>1. TypeOK'
    BY DEF TypeOK
  <1>2. PartialHasReason'
    BY <1>1 DEF PartialHasReason, Lang
  <1>3. ServiceBusy'
    BY DEF ServiceBusy, TypeOK
  <1>4. OwnIds'
    BY DEF OwnIds, OwnId, TypeOK, Row
  <1>5. OnePlace'
    BY DEF OnePlace, TypeOK
  <1>6. FlagBehind'
    BY DEF FlagBehind, Coming, TypeOK, Row
  <1> QED
    BY <1>1, <1>2, <1>3, <1>4, <1>5, <1>6

\* The items are gone with the list.
LEMMA CloseScreenIInv == ASSUME IInv, CloseScreen PROVE IInv'
  <1> USE BoundsAssumption DEF CloseScreen, ViewAt, NoList, fileVars, dmVars, serviceVars, viewVars, IInv, PartialHasReason
  <1>1. TypeOK'
    <2> USE TypeParts
    <2>1. FilesOK'
      BY DEF FilesOK
    <2>2. DownloadsOK'
      BY DEF DownloadsOK
    <2>3. ServiceOK'
      BY DEF ServiceOK, DownloadsOK
    <2>4. ViewOK'
      BY NewRowFacts DEF ViewOK
    <2>5. RestOK'
      BY DEF RestOK
    <2> QED
      BY <2>1, <2>2, <2>3, <2>4, <2>5 DEF TypeOK, FilesOK, DownloadsOK, ServiceOK, ViewOK, RestOK, Download
  <1>2. PartialHasReason'
    BY <1>1 DEF PartialHasReason, Lang
  <1>3. ServiceBusy'
    BY DEF ServiceBusy, TypeOK
  <1>4. OwnIds'
    BY NewRowFacts DEF OwnIds, OwnId, TypeOK
  <1>5. OnePlace'
    BY DEF OnePlace, TypeOK
  <1>6. FlagBehind'
    BY DEF FlagBehind, Coming, TypeOK, Row
  <1> QED
    BY <1>1, <1>2, <1>3, <1>4, <1>5, <1>6

\* The new download is running, and is behind the flag that is raised.
LEMMA StartDownloadIInv == ASSUME IInv, NEW l \in Langs, StartDownload(l) PROVE IInv'
  <1> USE BoundsAssumption DEF StartDownload, Clicking, fileVars, dmVars, serviceVars, viewVars, IInv, PartialHasReason
  <1>0. Len(downloads) + 1 \in Nat
    BY TypeParts DEF DownloadsOK
  <1> PICK new \in Nat : new = Len(downloads) + 1
    BY <1>0
  <1> DEFINE row == [items[l] EXCEPT !.downloading = TRUE, !.id = new]
  <1>a. /\ downloads \in Seq(Download) /\ items[l] \in Row /\ intents \in Seq(1..Len(downloads))
        /\ [lang |-> l, status |-> "running"] \in Download /\ Len(downloads) \in Nat
        /\ new \in 0..MaxDownloads /\ notices \subseteq 1..Len(downloads) /\ iid \in 0..Len(downloads)
    BY TypeParts DEF DownloadsOK, ViewOK, ServiceOK, Download
  <1>b. row \in Row /\ row.downloading = TRUE /\ row.id = new
    BY <1>a DEF Row
  <1>c. items' = [items EXCEPT ![l] = row] /\ rows' = [rows EXCEPT ![l] = row]
    BY DEF TypeOK
  <1>d. /\ downloads' \in Seq(Download) /\ Len(downloads') = new /\ DOMAIN downloads' = 1..new
        /\ downloads'[new] = [lang |-> l, status |-> "running"]
        /\ \A id \in DOMAIN downloads : id \in DOMAIN downloads' /\ id # new /\ downloads'[id] = downloads[id]
        /\ DOMAIN downloads = 1..Len(downloads)
    BY <1>a
  <1>e. ~Contains(intents, new) /\ new \notin notices /\ new # iid
    BY <1>a, ContainsFacts
  <1> HIDE DEF row
  <1>1. TypeOK'
    <2> USE TypeParts
    <2>1. FilesOK'
      BY <1>b, <1>c DEF FilesOK
    <2>2. DownloadsOK'
      <3>1. Len(downloads) <= Len(downloads')
        BY <1>a, <1>d
      <3> QED
        BY <1>a, <1>d, <3>1 DEF DownloadsOK
    <2>3. ServiceOK'
      BY <1>a, <1>d DEF ServiceOK
    <2>4. ViewOK'
      BY <1>b, <1>c, ZenonT(30) DEF ViewOK
    <2>5. RestOK'
      BY DEF RestOK
    <2> QED
      BY <2>1, <2>2, <2>3, <2>4, <2>5 DEF TypeOK, FilesOK, DownloadsOK, ServiceOK, ViewOK, RestOK, Download
  <1>2. PartialHasReason'
    BY <1>1, <1>d, LangFacts DEF PartialHasReason, Lang
  <1>3. ServiceBusy'
    BY DEF ServiceBusy, TypeOK
  <1>4. OwnIds'
    BY <1>b, <1>c, <1>d DEF OwnIds, OwnId, TypeOK
  <1>5. OnePlace'
    <2>1. \A id \in DOMAIN downloads' : id = new \/ id \in DOMAIN downloads
      BY <1>a, <1>d
    <2> QED
      BY <2>1, <1>d, <1>e DEF OnePlace
  <1>6. FlagBehind'
    <2> SUFFICES ASSUME NEW m \in Langs, rows'[m].downloading
                 PROVE  m \in broken \/ \E id \in DOMAIN downloads' : downloads'[id].lang = m /\ Coming(id)'
      BY DEF FlagBehind
    <2>1. CASE m = l
      <3>1. new \in DOMAIN downloads' /\ downloads'[new].lang = m /\ Coming(new)'
        BY <2>1, <1>a, <1>d DEF Coming
      <3> QED
        BY <3>1
    <2>2. CASE m # l
      BY <2>2, <1>c, <1>d DEF FlagBehind, Coming, TypeOK
    <2> QED
      BY <2>1, <2>2
  <1> QED
    BY <1>1, <1>2, <1>3, <1>4, <1>5, <1>6

\* Asking changes nothing but the dialog.
LEMMA AskIInv == ASSUME IInv, NEW l \in Langs, Ask(l) PROVE IInv'
  <1> USE BoundsAssumption DEF Ask, Clicking, fileVars, dmVars, serviceVars, viewVars, IInv, PartialHasReason
  <1>1. TypeOK'
    BY DEF TypeOK
  <1>2. PartialHasReason'
    BY <1>1 DEF PartialHasReason, Lang
  <1>3. ServiceBusy'
    BY DEF ServiceBusy, TypeOK
  <1>4. OwnIds'
    BY DEF OwnIds, OwnId, TypeOK, Row
  <1>5. OnePlace'
    BY DEF OnePlace, TypeOK
  <1>6. FlagBehind'
    BY DEF FlagBehind, Coming, TypeOK, Row
  <1> QED
    BY <1>1, <1>2, <1>3, <1>4, <1>5, <1>6

\* Nor does the answer no.
LEMMA NoIInv == ASSUME IInv, No PROVE IInv'
  <1> USE BoundsAssumption DEF No, Answer, fileVars, dmVars, serviceVars, viewVars, IInv, PartialHasReason
  <1>1. TypeOK'
    BY DEF TypeOK
  <1>2. PartialHasReason'
    BY <1>1 DEF PartialHasReason, Lang
  <1>3. ServiceBusy'
    BY DEF ServiceBusy, TypeOK
  <1>4. OwnIds'
    BY DEF OwnIds, OwnId, TypeOK, Row
  <1>5. OnePlace'
    BY DEF OnePlace, TypeOK
  <1>6. FlagBehind'
    BY DEF FlagBehind, Coming, TypeOK, Row
  <1> QED
    BY <1>1, <1>2, <1>3, <1>4, <1>5, <1>6

\* The download that is removed is one of the item's language, and the row's flag goes with it.
LEMMA CancelDownloadIInv == ASSUME IInv, CancelDownload PROVE IInv'
  <1> USE BoundsAssumption DEF CancelDownload, Answer, fileVars, dmVars, serviceVars, viewVars, IInv, PartialHasReason
  <1> DEFINE l == asked[2]
  <1> DEFINE row == [items[l] EXCEPT !.downloading = FALSE, !.id = 0]
  <1>a. l \in Langs /\ items[l] \in Row /\ downloads \in Seq(Download)
    BY TypeParts DEF ViewOK, DownloadsOK
  <1>b. row \in Row /\ row.downloading = FALSE /\ row.id = 0
    BY <1>a, ClearedRowFacts
  <1>c. items' = [items EXCEPT ![l] = row] /\ rows' = [rows EXCEPT ![l] = row]
    BY <1>a DEF TypeOK
  <1>d. RemoveDownload(items[l].id)
    OBVIOUS
  <1>e. /\ downloads' \in Seq(Download) /\ Len(downloads') = Len(downloads)
        /\ DOMAIN downloads' = DOMAIN downloads
        /\ \A k \in DOMAIN downloads : downloads'[k].lang = downloads[k].lang
        /\ \A k \in DOMAIN downloads : k # items[l].id => downloads'[k].status = downloads[k].status
        /\ items[l].id \in DOMAIN downloads => downloads'[items[l].id].status = "removed"
    BY <1>a, <1>d, RemoveFacts
  <1> HIDE DEF row, l
  <1>1. TypeOK'
    <2> USE TypeParts
    <2>1. FilesOK'
      <3>1. disk' = disk
        OBVIOUS
      <3>2. rows' \in [Langs -> Row]
        BY <1>a, <1>b, <1>c DEF TypeOK
      <3> QED
        BY <3>1, <3>2 DEF FilesOK
    <2>2. DownloadsOK'
      BY <1>e DEF DownloadsOK
    <2>3. ServiceOK'
      BY <1>e DEF ServiceOK
    <2>4. ViewOK'
      BY <1>a, <1>b, <1>c DEF ViewOK
    <2>5. RestOK'
      BY DEF RestOK
    <2> QED
      BY <2>1, <2>2, <2>3, <2>4, <2>5 DEF TypeOK, FilesOK, DownloadsOK, ServiceOK, ViewOK, RestOK, Download
  <1>2. PartialHasReason'
    BY <1>1, <1>e, LangFacts DEF PartialHasReason, Lang
  <1>3. ServiceBusy'
    BY DEF ServiceBusy, TypeOK
  <1>4. OwnIds'
    <2>1. \A m \in Langs : /\ rows'[m] = (IF m = l THEN row ELSE rows[m])
                            /\ items'[m] = (IF m = l THEN row ELSE items[m])
      BY <1>c DEF TypeOK
    <2>2. \A m \in Langs, r \in Row : r.id # 0 /\ OwnId(m, r) =>
             r.id \in DOMAIN downloads' /\ downloads'[r.id].lang = m
      BY <1>e DEF OwnId
    <2> SUFFICES ASSUME NEW m \in Langs PROVE OwnId(m, rows[m])' /\ OwnId(m, items[m])'
      BY DEF OwnIds
    <2>3. OwnId(m, rows[m]) /\ OwnId(m, items[m]) /\ rows[m] \in Row /\ items[m] \in Row
      BY DEF OwnIds, TypeOK
    <2> HIDE DEF CancelDownload, IInv
    <2>4. CASE m = l
      <3>1. rows'[m].id = 0 /\ items'[m].id = 0
        BY <1>b, <2>1, <2>4
      <3> QED
        BY <3>1 DEF OwnId
    <2>5. CASE m # l
      <3>1. rows'[m] = rows[m] /\ items'[m] = items[m]
        BY <2>1, <2>5
      <3> QED
        BY <2>2, <2>3, <3>1 DEF OwnId
    <2> QED
      BY <2>4, <2>5
  <1>5. OnePlace'
    BY <1>e DEF OnePlace
  <1>6. FlagBehind'
    <2> SUFFICES ASSUME NEW m \in Langs, rows'[m].downloading
                 PROVE  m \in broken \/ \E id \in DOMAIN downloads' : downloads'[id].lang = m /\ Coming(id)'
      BY DEF FlagBehind
    <2>1. m # l /\ rows[m].downloading
      BY <1>a, <1>b, <1>c DEF TypeOK
    <2>2. CASE m \in broken
      BY <2>2
    <2>3. CASE m \notin broken
      <3>1. PICK id \in DOMAIN downloads : downloads[id].lang = m /\ Coming(id)
        BY <2>1, <2>3 DEF FlagBehind
      <3>2. items[l].id # 0 => items[l].id # id
        BY <1>a, <2>1, <3>1 DEF OwnIds, OwnId
      <3>3. id # 0
        BY <1>a, <3>1
      <3>4. downloads'[id].status = downloads[id].status
        BY <1>e, <3>1, <3>2, <3>3
      <3> QED
        BY <1>e, <3>1, <3>4 DEF Coming
    <2> QED
      BY <2>2, <2>3
  <1> QED
    BY <1>1, <1>2, <1>3, <1>4, <1>5, <1>6

\* The file goes, the row stays.
LEMMA DeleteLanguageIInv == ASSUME IInv, DeleteLanguage PROVE IInv'
  <1> USE BoundsAssumption DEF DeleteLanguage, Answer, fileVars, dmVars, serviceVars, viewVars, IInv, PartialHasReason
  <1> DEFINE l == asked[2]
  <1> DEFINE row == [items[l] EXCEPT !.inst = FALSE]
  <1>a. l \in Langs /\ items[l] \in Row
    BY TypeParts DEF ViewOK
  <1>b. row \in Row /\ row.id = items[l].id
    BY <1>a, RowFacts
  <1>c. items' = [items EXCEPT ![l] = row] /\ disk' = [disk EXCEPT ![l] = "absent"]
    BY <1>a DEF TypeOK
  <1> HIDE DEF row, l
  <1>1. TypeOK'
    <2> USE TypeParts
    <2>1. FilesOK'
      BY <1>c DEF FilesOK
    <2>2. DownloadsOK'
      BY DEF DownloadsOK
    <2>3. ServiceOK'
      BY DEF ServiceOK, DownloadsOK
    <2>4. ViewOK'
      BY <1>b, <1>c DEF ViewOK
    <2>5. RestOK'
      BY DEF RestOK
    <2> QED
      BY <2>1, <2>2, <2>3, <2>4, <2>5 DEF TypeOK, FilesOK, DownloadsOK, ServiceOK, ViewOK, RestOK, Download
  <1>2. PartialHasReason'
    BY <1>1, <1>c DEF PartialHasReason, Lang, TypeOK
  <1>3. ServiceBusy'
    BY DEF ServiceBusy, TypeOK
  <1>4. OwnIds'
    BY <1>b, <1>c DEF OwnIds, OwnId, TypeOK
  <1>5. OnePlace'
    BY DEF OnePlace, TypeOK
  <1>6. FlagBehind'
    BY DEF FlagBehind, Coming, TypeOK, Row
  <1> QED
    BY <1>1, <1>2, <1>3, <1>4, <1>5, <1>6

\* A download that ends is in its notice; a failure excuses the flag.
LEMMA DownloadEndsIInv == ASSUME IInv, NEW status \in {"done", "failed"}, DownloadEnds(status) PROVE IInv'
  <1> USE BoundsAssumption DEF DownloadEnds, fileVars, dmVars, serviceVars, viewVars, IInv, PartialHasReason
  <1>a. PICK id \in DOMAIN downloads :
          /\ downloads[id].status = "running"
          /\ downloads' = [downloads EXCEPT ![id].status = status]
          /\ notices' = notices \cup {id}
          /\ broken' = IF status = "failed" THEN broken \cup {downloads[id].lang} ELSE broken
    OBVIOUS
  <1>b. downloads \in Seq(Download) /\ id \in 1..Len(downloads) /\ downloads[id] \in Download
    <2>1. downloads \in Seq(Download) /\ id \in 1..Len(downloads)
      BY TypeParts DEF DownloadsOK
    <2> QED
      BY <2>1, ElementOfSeq
  <1>c. /\ downloads' \in Seq(Download) /\ Len(downloads') = Len(downloads) /\ DOMAIN downloads' = DOMAIN downloads
        /\ \A k \in DOMAIN downloads : downloads'[k].lang = downloads[k].lang
        /\ downloads'[id].status = status
        /\ \A k \in DOMAIN downloads \ {id} : downloads'[k].status = downloads[k].status
    <2> DEFINE ended == [downloads[id] EXCEPT !.status = status]
    <2>1. downloads' = [downloads EXCEPT ![id] = ended]
      BY <1>a
    <2>2. ended \in Download /\ ended.status = status /\ ended.lang = downloads[id].lang
      BY <1>b DEF Download
    <2> HIDE DEF ended
    <2>3. downloads' \in Seq(Download) /\ Len(downloads') = Len(downloads) /\ DOMAIN downloads' = DOMAIN downloads
      BY <1>b, <2>1, <2>2, ExceptSeq, ZenonT(30)
    <2>4. downloads'[id] = ended /\ \A k \in DOMAIN downloads \ {id} : downloads'[k] = downloads[k]
      BY <1>a, <2>1
    <2> QED
      BY <2>2, <2>3, <2>4
  <1>1. TypeOK'
    <2> USE TypeParts
    <2>1. FilesOK'
      BY DEF FilesOK
    <2>2. DownloadsOK'
      BY <1>a, <1>b, <1>c DEF DownloadsOK
    <2>3. ServiceOK'
      BY <1>c DEF ServiceOK
    <2>4. ViewOK'
      BY DEF ViewOK
    <2>5. RestOK'
      BY <1>a, <1>b DEF RestOK, Download
    <2> QED
      BY <2>1, <2>2, <2>3, <2>4, <2>5 DEF TypeOK, FilesOK, DownloadsOK, ServiceOK, ViewOK, RestOK, Download
  <1>2. PartialHasReason'
    BY <1>1, <1>a, <1>c, LangFacts DEF PartialHasReason, Lang
  <1>3. ServiceBusy'
    BY DEF ServiceBusy, TypeOK
  <1>4. OwnIds'
    BY <1>c DEF OwnIds, OwnId
  <1>5. OnePlace'
    BY <1>a, <1>c DEF OnePlace
  <1>6. FlagBehind'
    BY <1>a, <1>c DEF FlagBehind, Coming
  <1> QED
    BY <1>1, <1>2, <1>3, <1>4, <1>5, <1>6

\* A finished download goes from its notice to the intents.
LEMMA ReceiveIInv == ASSUME IInv, Receive PROVE IInv'
  <1> USE BoundsAssumption DEF Receive, fileVars, dmVars, serviceVars, viewVars, IInv, PartialHasReason
  <1>a. PICK id \in notices :
          /\ notices' = notices \ {id}
          /\ intents' = IF downloads[id].status = "done" THEN Append(intents, id) ELSE intents
          /\ casts' = IF downloads[id].status = "failed"
                      THEN Append(casts, [what |-> "failed", display |-> Title(downloads[id].lang)])
                      ELSE casts
    OBVIOUS
  <1>b. /\ downloads \in Seq(Download) /\ id \in 1..Len(downloads) /\ intents \in Seq(1..Len(downloads))
        /\ downloads[id] \in Download /\ casts \in Seq(Casts)
    <2>1. /\ downloads \in Seq(Download) /\ id \in 1..Len(downloads) /\ intents \in Seq(1..Len(downloads))
          /\ casts \in Seq(Casts)
      BY TypeParts DEF DownloadsOK, RestOK
    <2> QED
      BY <2>1, ElementOfSeq
  <1>c. /\ intents' \in Seq(1..Len(downloads))
        /\ \A x : Contains(intents', x) <=> Contains(intents, x) \/ (x = id /\ downloads[id].status = "done")
        /\ \A x : Contains(intents, x) => Contains(intents', x)
    <2>1. CASE downloads[id].status = "done"
      <3>1. intents' = Append(intents, id) /\ Append(intents, id) \in Seq(1..Len(downloads))
        BY <1>a, <1>b, <2>1
      <3>2. \A x : Contains(Append(intents, id), x) <=> Contains(intents, x) \/ x = id
        BY <1>b, ContainsAppend
      <3> QED
        BY <2>1, <3>1, <3>2
    <2>2. CASE downloads[id].status # "done"
      <3>1. intents' = intents
        BY <1>a, <2>2
      <3> QED
        BY <1>b, <2>2, <3>1
    <2> QED
      BY <2>1, <2>2
  <1>d. casts' \in Seq(Casts)
    <2>1. [what |-> "failed", display |-> Title(downloads[id].lang)] \in Casts
      BY <1>b DEF Casts, Download
    <2> QED
      BY <1>a, <1>b, <2>1
  <1>e. \A i, j \in 1..Len(intents') : intents'[i] = intents'[j] => i = j
    <2>1. CASE downloads[id].status = "done"
      <3> DEFINE t == Append(intents, id)
      <3>1. /\ Len(t) = Len(intents) + 1 /\ t[Len(intents) + 1] = id
            /\ \A i \in 1..Len(intents) : t[i] = intents[i]
            /\ Len(intents) \in Nat /\ intents' = t
        BY <1>a, <1>b, <2>1, ContainsAppend
      <3>2. \A i \in 1..Len(intents) : intents[i] # id
        BY <1>a DEF OnePlace, Contains
      <3> HIDE DEF t
      <3> QED
        BY <3>1, <3>2 DEF OnePlace
    <2>2. CASE downloads[id].status # "done"
      BY <1>a, <2>2 DEF OnePlace
    <2> QED
      BY <2>1, <2>2
  <1>1. TypeOK'
    <2> USE TypeParts
    <2>1. FilesOK'
      BY DEF FilesOK
    <2>2. DownloadsOK'
      BY <1>a, <1>c DEF DownloadsOK
    <2>3. ServiceOK'
      BY DEF ServiceOK, DownloadsOK
    <2>4. ViewOK'
      BY DEF ViewOK
    <2>5. RestOK'
      BY <1>d DEF RestOK
    <2> QED
      BY <2>1, <2>2, <2>3, <2>4, <2>5 DEF TypeOK, FilesOK, DownloadsOK, ServiceOK, ViewOK, RestOK, Download
  <1>2. PartialHasReason'
    BY <1>1 DEF PartialHasReason, Lang
  <1>3. ServiceBusy'
    BY DEF ServiceBusy, TypeOK
  <1>4. OwnIds'
    BY DEF OwnIds, OwnId, TypeOK, Row
  <1>5. OnePlace'
    <2>1. iid \notin notices' /\ ~Contains(intents', iid)
      BY <1>a, <1>c DEF OnePlace
    <2>2. \A k \in DOMAIN downloads' : downloads'[k].status = "running" => k \notin notices' /\ ~Contains(intents', k) /\ k # iid'
      BY <1>a, <1>c DEF OnePlace
    <2>3. \A k \in notices' : ~Contains(intents', k) /\ k # iid'
      BY <1>a, <1>c DEF OnePlace
    <2> QED
      BY <1>e, <2>1, <2>2, <2>3 DEF OnePlace
  <1>6. FlagBehind'
    BY <1>a, <1>c DEF FlagBehind, Coming
  <1> QED
    BY <1>1, <1>2, <1>3, <1>4, <1>5, <1>6

\* The service takes up the first intent.
LEMMA TakeIntentIInv == ASSUME IInv, TakeIntent PROVE IInv'
  <1> USE BoundsAssumption DEF TakeIntent, ServiceAt, fileVars, dmVars, serviceVars, viewVars, IInv, PartialHasReason
  <1> DEFINE rest == Tail(intents)
  <1>a. intents \in Seq(1..Len(downloads)) /\ intents # <<>> /\ Len(downloads) \in Nat /\ iid = 0
    BY TypeParts DEF DownloadsOK, ServiceBusy
  <1>b. /\ \A x : Contains(intents, x) <=> x = iid' \/ Contains(rest, x)
        /\ iid' = intents[1] /\ iid' \in 1..Len(downloads) /\ Len(intents) >= 1 /\ Len(intents) \in Nat
        /\ rest \in Seq(1..Len(downloads)) /\ Len(rest) = Len(intents) - 1
        /\ \A i \in 1..Len(intents) - 1 : rest[i] = intents[i + 1]
        /\ intents' = rest
    BY <1>a, ContainsTail
  <1> HIDE DEF rest
  <1>1. TypeOK'
    <2> USE TypeParts
    <2>1. FilesOK'
      BY DEF FilesOK
    <2>2. DownloadsOK'
      BY <1>b DEF DownloadsOK
    <2>3. ServiceOK'
      BY <1>a, <1>b DEF ServiceOK
    <2>4. ViewOK'
      BY DEF ViewOK
    <2>5. RestOK'
      BY DEF RestOK
    <2> QED
      BY <2>1, <2>2, <2>3, <2>4, <2>5 DEF TypeOK, FilesOK, DownloadsOK, ServiceOK, ViewOK, RestOK, Download
  <1>2. PartialHasReason'
    BY <1>1 DEF PartialHasReason, Lang
  <1>3. ServiceBusy'
    BY <1>b DEF ServiceBusy
  <1>4. OwnIds'
    BY DEF OwnIds, OwnId, TypeOK, Row
  <1>5. OnePlace'
    <2>1. \A i, j \in 1..Len(rest) : rest[i] = rest[j] => i = j
      <3> SUFFICES ASSUME NEW i \in 1..Len(rest), NEW j \in 1..Len(rest), rest[i] = rest[j] PROVE i = j
        OBVIOUS
      <3>1. i + 1 \in 1..Len(intents) /\ j + 1 \in 1..Len(intents) /\ intents[i + 1] = intents[j + 1]
        BY <1>b
      <3>2. i + 1 = j + 1
        BY <3>1 DEF OnePlace
      <3> QED
        BY <3>2, <1>b
    <2>2. ~Contains(rest, iid')
      <3> SUFFICES ASSUME NEW i \in 1..Len(rest), rest[i] = iid' PROVE FALSE
        BY DEF Contains
      <3>1. i + 1 \in 1..Len(intents) /\ 1 \in 1..Len(intents) /\ intents[i + 1] = intents[1]
        BY <1>b
      <3>2. i + 1 = 1
        BY <3>1 DEF OnePlace
      <3> QED
        BY <3>2, <1>b
    <2>3. \A id \in DOMAIN downloads' : downloads'[id].status = "running" =>
             id \notin notices' /\ ~Contains(intents', id) /\ id # iid'
      BY <1>b DEF OnePlace
    <2>4. \A id \in notices' : ~Contains(intents', id) /\ id # iid'
      BY <1>b DEF OnePlace
    <2> QED
      BY <1>b, <2>1, <2>2, <2>3, <2>4 DEF OnePlace
  <1>6. FlagBehind'
    <2>1. \A id \in DOMAIN downloads : Coming(id) => Coming(id)'
      <3> SUFFICES ASSUME NEW id \in DOMAIN downloads, Coming(id) PROVE Coming(id)'
        OBVIOUS
      <3>1. id # 0
        BY <1>a
      <3> QED
        BY <1>a, <1>b, <3>1 DEF Coming
    <2> QED
      BY <2>1 DEF FlagBehind
  <1> QED
    BY <1>1, <1>2, <1>3, <1>4, <1>5, <1>6

\* The service opens the file or gives up a download that was removed.
LEMMA OpenFileIInv == ASSUME IInv, OpenFile PROVE IInv'
  <1> USE BoundsAssumption DEF OpenFile, ServiceAt, NotifyError, Lang, fileVars, dmVars, serviceVars, viewVars, IInv, PartialHasReason
  <1>a. iid \in DOMAIN downloads /\ iid # 0 /\ downloads[iid].lang \in Langs
    BY LangFacts DEF Lang
  <1>b. \/ disk' = disk
        \/ ipc' = "copy" /\ disk' = [disk EXCEPT ![downloads[iid].lang] = "partial"]
    OBVIOUS
  <1>c. casts' = casts \/ casts' = Append(casts, [what |-> "failed", display |-> <<>>])
    OBVIOUS
  <1>d. ipc = "open" /\ ipc' \in {"read", "remove", "copy"}
    OBVIOUS
  <1>1. TypeOK'
    <2> USE TypeParts
    <2>1. FilesOK'
      BY <1>b DEF FilesOK
    <2>2. DownloadsOK'
      BY DEF DownloadsOK
    <2>3. ServiceOK'
      BY <1>d DEF ServiceOK
    <2>4. ViewOK'
      BY DEF ViewOK
    <2>5. RestOK'
      BY <1>c, FailedCast DEF RestOK
    <2> QED
      BY <2>1, <2>2, <2>3, <2>4, <2>5 DEF TypeOK, FilesOK, DownloadsOK, ServiceOK, ViewOK, RestOK, Download
  <1>2. PartialHasReason'
    BY <1>1, <1>a, <1>b, <1>d DEF PartialHasReason, Lang, TypeOK
  <1>3. ServiceBusy'
    BY DEF ServiceBusy, TypeOK
  <1>4. OwnIds'
    BY DEF OwnIds, OwnId, TypeOK, Row
  <1>5. OnePlace'
    BY DEF OnePlace, TypeOK
  <1>6. FlagBehind'
    <2>1. ipc' = "remove" => downloads[iid].status = "removed"
      OBVIOUS
    <2> QED
      BY <1>d, <2>1 DEF FlagBehind, Coming
  <1> QED
    BY <1>1, <1>2, <1>3, <1>4, <1>5, <1>6

\* The copy is done, or its failure excuses the file and the flag.
LEMMA CopyFileIInv == ASSUME IInv, CopyFile PROVE IInv'
  <1> USE BoundsAssumption DEF CopyFile, ServiceAt, NotifyError, Lang, fileVars, dmVars, serviceVars, viewVars, IInv, PartialHasReason
  <1>a. iid \in DOMAIN downloads /\ iid # 0 /\ downloads[iid].lang \in Langs
    BY LangFacts DEF Lang
  <1>b. \/ /\ ipc' = "notify" /\ UNCHANGED <<casts, broken>>
           /\ disk' = [disk EXCEPT ![downloads[iid].lang] = IF @ = "partial" THEN "whole" ELSE @]
        \/ /\ ipc' = "remove" /\ UNCHANGED disk
           /\ casts' = Append(casts, [what |-> "failed", display |-> <<>>])
           /\ broken' = broken \cup {downloads[iid].lang}
    OBVIOUS
  <1>c. ipc = "copy"
    OBVIOUS
  <1>1. TypeOK'
    <2> USE TypeParts
    <2>1. FilesOK'
      BY <1>a, <1>b DEF FilesOK
    <2>2. DownloadsOK'
      BY DEF DownloadsOK
    <2>3. ServiceOK'
      BY <1>b DEF ServiceOK
    <2>4. ViewOK'
      BY DEF ViewOK
    <2>5. RestOK'
      <3>1. casts' \in Seq(Casts) /\ deaths' \in 0..MaxDeaths
        BY <1>b, FailedCast, SMTT(30) DEF RestOK
      <3>2. broken' \subseteq Langs
        BY <1>a, <1>b DEF RestOK
      <3> QED
        BY <3>1, <3>2 DEF RestOK
    <2> QED
      BY <2>1, <2>2, <2>3, <2>4, <2>5 DEF TypeOK, FilesOK, DownloadsOK, ServiceOK, ViewOK, RestOK, Download
  <1>2. PartialHasReason'
    BY <1>1, <1>a, <1>b, <1>c DEF PartialHasReason, Lang, TypeOK
  <1>3. ServiceBusy'
    BY DEF ServiceBusy, TypeOK
  <1>4. OwnIds'
    BY DEF OwnIds, OwnId, TypeOK, Row
  <1>5. OnePlace'
    BY DEF OnePlace, TypeOK
  <1>6. FlagBehind'
    BY <1>b, <1>c DEF FlagBehind, Coming
  <1> QED
    BY <1>1, <1>2, <1>3, <1>4, <1>5, <1>6

\* The activity is told.
LEMMA NotifySuccessIInv == ASSUME IInv, NotifySuccess PROVE IInv'
  <1> USE BoundsAssumption DEF NotifySuccess, ServiceAt, Lang, fileVars, dmVars, serviceVars, viewVars, IInv, PartialHasReason
  <1>a. iid \in DOMAIN downloads /\ iid # 0 /\ downloads[iid].lang \in Langs
    BY LangFacts DEF Lang
  <1>b. [what |-> "completed", lang |-> downloads[iid].lang] \in Casts
    BY <1>a DEF Casts
  <1>1. TypeOK'
    <2> USE TypeParts
    <2>1. FilesOK'
      BY DEF FilesOK
    <2>2. DownloadsOK'
      BY DEF DownloadsOK
    <2>3. ServiceOK'
      BY DEF ServiceOK, DownloadsOK
    <2>4. ViewOK'
      BY DEF ViewOK
    <2>5. RestOK'
      BY <1>b DEF RestOK
    <2> QED
      BY <2>1, <2>2, <2>3, <2>4, <2>5 DEF TypeOK, FilesOK, DownloadsOK, ServiceOK, ViewOK, RestOK, Download
  <1>2. PartialHasReason'
    BY <1>1 DEF PartialHasReason, Lang
  <1>3. ServiceBusy'
    BY DEF ServiceBusy, TypeOK
  <1>4. OwnIds'
    BY DEF OwnIds, OwnId, TypeOK, Row
  <1>5. OnePlace'
    BY DEF OnePlace, TypeOK
  <1>6. FlagBehind'
    BY DEF FlagBehind, Coming, TypeOK, Row
  <1> QED
    BY <1>1, <1>2, <1>3, <1>4, <1>5, <1>6

\* The row is read.
LEMMA ReadRowIInv == ASSUME IInv, ReadRow PROVE IInv'
  <1> USE BoundsAssumption DEF ReadRow, ServiceAt, Lang, fileVars, dmVars, serviceVars, viewVars, IInv, PartialHasReason
  <1>a. iid \in DOMAIN downloads /\ iid # 0 /\ downloads[iid].lang \in Langs
    BY LangFacts DEF Lang
  <1>1. TypeOK'
    <2> USE TypeParts
    <2>1. FilesOK'
      BY DEF FilesOK
    <2>2. DownloadsOK'
      BY DEF DownloadsOK
    <2>3. ServiceOK'
      BY <1>a DEF ServiceOK, FilesOK
    <2>4. ViewOK'
      BY DEF ViewOK
    <2>5. RestOK'
      BY DEF RestOK
    <2> QED
      BY <2>1, <2>2, <2>3, <2>4, <2>5 DEF TypeOK, FilesOK, DownloadsOK, ServiceOK, ViewOK, RestOK, Download
  <1>2. PartialHasReason'
    BY <1>1 DEF PartialHasReason, Lang
  <1>3. ServiceBusy'
    BY DEF ServiceBusy, TypeOK
  <1>4. OwnIds'
    BY DEF OwnIds, OwnId, TypeOK, Row
  <1>5. OnePlace'
    BY DEF OnePlace, TypeOK
  <1>6. FlagBehind'
    BY DEF FlagBehind, Coming, TypeOK, Row
  <1> QED
    BY <1>1, <1>2, <1>3, <1>4, <1>5, <1>6

\* The flag of the row is cleared.
LEMMA WriteRowIInv == ASSUME IInv, WriteRow PROVE IInv'
  <1> USE BoundsAssumption DEF WriteRow, ServiceAt, Lang, fileVars, dmVars, serviceVars, viewVars, IInv, PartialHasReason
  <1>a. iid \in DOMAIN downloads /\ iid # 0 /\ downloads[iid].lang \in Langs
    BY LangFacts DEF Lang
  <1> DEFINE row == [irow EXCEPT !.downloading = FALSE, !.id = 0]
  <1>b. row \in Row /\ row.downloading = FALSE /\ row.id = 0
    BY TypeParts, ClearedRowFacts DEF ServiceOK
  <1>c. rows' = [rows EXCEPT ![downloads[iid].lang] = row]
    OBVIOUS
  <1> HIDE DEF row
  <1>1. TypeOK'
    <2> USE TypeParts
    <2>1. FilesOK'
      BY <1>a, <1>b, <1>c DEF FilesOK
    <2>2. DownloadsOK'
      BY DEF DownloadsOK
    <2>3. ServiceOK'
      BY NewRowFacts DEF ServiceOK
    <2>4. ViewOK'
      BY DEF ViewOK
    <2>5. RestOK'
      BY DEF RestOK
    <2> QED
      BY <2>1, <2>2, <2>3, <2>4, <2>5 DEF TypeOK, FilesOK, DownloadsOK, ServiceOK, ViewOK, RestOK, Download
  <1>2. PartialHasReason'
    BY <1>1 DEF PartialHasReason, Lang
  <1>3. ServiceBusy'
    BY DEF ServiceBusy, TypeOK
  <1>4. OwnIds'
    BY <1>a, <1>b, <1>c DEF OwnIds, OwnId, TypeOK
  <1>5. OnePlace'
    BY DEF OnePlace, TypeOK
  <1>6. FlagBehind'
    BY <1>a, <1>b, <1>c DEF FlagBehind, Coming, TypeOK
  <1> QED
    BY <1>1, <1>2, <1>3, <1>4, <1>5, <1>6

\* The download leaves the service: no flag depends on it any more.
LEMMA EndInstallIInv == ASSUME IInv, EndInstall PROVE IInv'
  <1> USE BoundsAssumption DEF EndInstall, ServiceAt, fileVars, dmVars, serviceVars, viewVars, IInv, PartialHasReason
  <1>a. /\ downloads' \in Seq(Download) /\ Len(downloads') = Len(downloads)
        /\ DOMAIN downloads' = DOMAIN downloads
        /\ \A k \in DOMAIN downloads : downloads'[k].lang = downloads[k].lang
        /\ \A k \in DOMAIN downloads : k # iid => downloads'[k].status = downloads[k].status
        /\ iid \in DOMAIN downloads => downloads'[iid].status = "removed"
    <2>1. downloads \in Seq(Download)
      BY TypeParts DEF DownloadsOK
    <2> QED
      BY <2>1, RemoveFacts
  <1>b. ~Contains(intents, 0) /\ 0 \notin notices /\ 0 \notin DOMAIN downloads /\ Len(downloads) \in Nat
    BY TypeParts, ContainsFacts DEF DownloadsOK
  <1>1. TypeOK'
    <2> USE TypeParts
    <2>1. FilesOK'
      BY DEF FilesOK
    <2>2. DownloadsOK'
      BY <1>a DEF DownloadsOK
    <2>3. ServiceOK'
      BY <1>a, <1>b DEF ServiceOK
    <2>4. ViewOK'
      BY DEF ViewOK
    <2>5. RestOK'
      BY DEF RestOK
    <2> QED
      BY <2>1, <2>2, <2>3, <2>4, <2>5 DEF TypeOK, FilesOK, DownloadsOK, ServiceOK, ViewOK, RestOK, Download
  <1>2. PartialHasReason'
    BY <1>1, <1>a DEF PartialHasReason, Lang
  <1>3. ServiceBusy'
    BY DEF ServiceBusy, TypeOK
  <1>4. OwnIds'
    BY <1>a DEF OwnIds, OwnId
  <1>5. OnePlace'
    BY <1>a, <1>b DEF OnePlace
  <1>6. FlagBehind'
    <2>1. \A id \in DOMAIN downloads : Coming(id) => id # iid
      BY DEF Coming, OnePlace
    <2>2. \A id \in DOMAIN downloads : Coming(id) => Coming(id)'
      BY <1>a, <2>1 DEF Coming
    <2> QED
      BY <1>a, <2>2 DEF FlagBehind
  <1> QED
    BY <1>1, <1>2, <1>3, <1>4, <1>5, <1>6

\* The items keep their ids, and rows and files are not concerned.
LEMMA DeliverIInv == ASSUME IInv, Deliver PROVE IInv'
  <1> USE BoundsAssumption DEF Deliver, fileVars, dmVars, serviceVars, viewVars, IInv, PartialHasReason
  <1>a. casts' \in Seq(Casts)
    <2>1. casts \in Seq(Casts) /\ casts # <<>> /\ casts' = Tail(casts)
      BY TypeParts DEF RestOK
    <2> QED
      BY <2>1, ContainsTail
  <1>b. \A l \in Langs : items'[l] \in Row /\ items'[l].id = items[l].id
    <2> TAKE l \in Langs
    <2> DEFINE c == IsLanguageInstalled(l)
    <2> DEFINE b == items[l].downloading /\ ~c
    <2>0. items[l] \in Row
      BY TypeParts DEF ViewOK
    <2>1. \/ items'[l] = items[l]
          \/ items'[l] = [items[l] EXCEPT !.downloading = FALSE]
          \/ items'[l] = [items[l] EXCEPT !.inst = c, !.downloading = b]
      BY DEF Deliver
    <2>2. [items[l] EXCEPT !.downloading = FALSE] \in Row /\ [items[l] EXCEPT !.downloading = FALSE].id = items[l].id
      BY <2>0, RowFacts
    <2>3. c \in BOOLEAN /\ b \in BOOLEAN
      BY DEF IsLanguageInstalled
    <2> HIDE DEF b, c
    <2>4. [items[l] EXCEPT !.inst = c, !.downloading = b] \in Row
      BY <2>0, <2>3 DEF Row
    <2>5. [items[l] EXCEPT !.inst = c, !.downloading = b].id = items[l].id
      BY <2>0, <2>3 DEF Row
    <2> QED
      BY <2>0, <2>1, <2>2, <2>4, <2>5
  <1>c. items' \in [Langs -> Row]
    BY <1>b, TypeParts DEF ViewOK
  <1>1. TypeOK'
    <2> USE TypeParts
    <2>1. FilesOK'
      BY DEF FilesOK
    <2>2. DownloadsOK'
      BY DEF DownloadsOK
    <2>3. ServiceOK'
      BY DEF ServiceOK, DownloadsOK
    <2>4. ViewOK'
      BY <1>c DEF ViewOK
    <2>5. RestOK'
      BY <1>a DEF RestOK
    <2> QED
      BY <2>1, <2>2, <2>3, <2>4, <2>5 DEF TypeOK, FilesOK, DownloadsOK, ServiceOK, ViewOK, RestOK, Download
  <1>2. PartialHasReason'
    BY <1>1 DEF PartialHasReason, Lang
  <1>3. ServiceBusy'
    BY DEF ServiceBusy, TypeOK
  <1>4. OwnIds'
    BY <1>b DEF OwnIds, OwnId
  <1>5. OnePlace'
    BY DEF OnePlace, TypeOK
  <1>6. FlagBehind'
    <2>1. UNCHANGED <<rows, broken, downloads, notices, intents, ipc, iid>>
      OBVIOUS
    <2> HIDE DEF Deliver
    <2> QED
      BY <2>1 DEF FlagBehind, Coming
  <1> QED
    BY <1>1, <1>2, <1>3, <1>4, <1>5, <1>6

\* What was lost is in broken.
LEMMA DieIInv == ASSUME IInv, Die PROVE IInv'
  <1> USE BoundsAssumption DEF Die, NoList, Lang, fileVars, dmVars, serviceVars, viewVars, IInv, PartialHasReason
  <1>a. /\ downloads \in Seq(Download) /\ intents \in Seq(1..Len(downloads)) /\ Len(downloads) \in Nat
        /\ ~Contains(<<>>, 0) /\ \A x : ~Contains(<<>>, x)
        /\ \A x : Contains(intents, x) => x \in ToSet(intents)
        /\ ToSet(intents) \subseteq DOMAIN downloads
    <2>1. downloads \in Seq(Download) /\ intents \in Seq(1..Len(downloads))
      BY TypeParts DEF DownloadsOK
    <2> QED
      BY <2>1, ContainsFacts DEF ToSet
  <1>b. \A id \in DOMAIN downloads : downloads[id].lang \in Langs
    <2> TAKE id \in DOMAIN downloads
    <2>1. downloads[id] \in Download
      BY <1>a, ElementOfSeq
    <2> QED
      BY <2>1 DEF Download
  <1>c. ipc # "idle" => iid \in DOMAIN downloads /\ iid # 0
    BY LangFacts
  <1>1. TypeOK'
    <2> USE TypeParts
    <2>1. FilesOK'
      BY DEF FilesOK
    <2>2. DownloadsOK'
      BY <1>a DEF DownloadsOK
    <2>3. ServiceOK'
      BY <1>a, NewRowFacts DEF ServiceOK
    <2>4. ViewOK'
      BY NewRowFacts DEF ViewOK
    <2>5. RestOK'
      BY <1>a, <1>b, <1>c DEF RestOK
    <2> QED
      BY <2>1, <2>2, <2>3, <2>4, <2>5 DEF TypeOK, FilesOK, DownloadsOK, ServiceOK, ViewOK, RestOK, Download
  <1>2. PartialHasReason'
    BY <1>1, <1>a, <1>c DEF PartialHasReason, Lang
  <1>3. ServiceBusy'
    BY DEF ServiceBusy, TypeOK
  <1>4. OwnIds'
    BY NewRowFacts DEF OwnIds, OwnId, TypeOK
  <1>5. OnePlace'
    <2>1. /\ \A i, j \in 1..Len(intents') : intents'[i] = intents'[j] => i = j
          /\ \A x : ~Contains(intents', x)
      BY <1>a
    <2>2. \A id \in DOMAIN downloads' : id # iid'
      BY <1>a
    <2>3. \A id \in notices' : id # iid'
      BY <1>a, TypeParts DEF DownloadsOK
    <2> QED
      BY <2>1, <2>2, <2>3 DEF OnePlace
  <1>6. FlagBehind'
    <2>1. ASSUME NEW id \in DOMAIN downloads, Coming(id), ~Coming(id)' PROVE downloads[id].lang \in broken'
      <3>1. Contains(intents, id) \/ (id = iid /\ ipc # "idle")
        BY <2>1 DEF Coming
      <3> QED
        BY <1>a, <3>1
    <2> QED
      BY <2>1 DEF FlagBehind
  <1> QED
    BY <1>1, <1>2, <1>3, <1>4, <1>5, <1>6

\* Nothing is on its way at first.
LEMMA InitIInv == Init => IInv
  <1> SUFFICES ASSUME Init PROVE IInv
    OBVIOUS
  <1> USE BoundsAssumption DEF Init
  <1>1. \A x : ~Contains(<<>>, x)
    BY DEF Contains
  <1>2. TypeOK
    <2>1. FilesOK /\ ViewOK
      BY NewRowFacts DEF FilesOK, ViewOK
    <2>2. DownloadsOK
      BY DEF DownloadsOK
    <2>3. ServiceOK /\ RestOK
      BY NewRowFacts DEF ServiceOK, RestOK
    <2> QED
      BY <2>1, <2>2, <2>3, TypeParts
  <1>3. PartialHasReason /\ ServiceBusy
    BY <1>2 DEF PartialHasReason, ServiceBusy
  <1>4. OwnIds /\ FlagBehind
    BY NewRowFacts DEF OwnIds, OwnId, FlagBehind
  <1>5. OnePlace
    BY <1>1 DEF OnePlace
  <1> QED
    BY <1>3, <1>4, <1>5 DEF IInv

\* Every step of the activity, the DownloadManager, the receiver and the service keeps
\* the inductive invariant.
LEMMA NextIInv == IInv /\ [Next]_vars => IInv'
  <1> SUFFICES ASSUME IInv, [Next]_vars PROVE IInv'
    OBVIOUS
  <1>1. CASE LoadList
    BY <1>1, ScanFilesIInv, StoreRowsIInv, RefreshListIInv, ShowListIInv DEF LoadList
  <1>2. CASE User
    BY <1>2, OpenScreenIInv, CloseScreenIInv, StartDownloadIInv, AskIInv, NoIInv,
       CancelDownloadIInv, DeleteLanguageIInv DEF User
  <1>3. CASE DownloadEnds("done") \/ DownloadEnds("failed") \/ Receive
    BY <1>3, DownloadEndsIInv, ReceiveIInv
  <1>4. CASE Service
    BY <1>4, TakeIntentIInv, OpenFileIInv, CopyFileIInv, NotifySuccessIInv, ReadRowIInv,
       WriteRowIInv, EndInstallIInv DEF Service
  <1>5. CASE Deliver \/ Die
    BY <1>5, DeliverIInv, DieIInv
  <1>6. CASE UNCHANGED vars
    BY <1>6 DEF vars, fileVars, dmVars, serviceVars, viewVars, IInv, PartialHasReason, Lang,
       TypeOK, ServiceBusy, OwnIds, OwnId, OnePlace, FlagBehind, Coming
  <1> QED
    BY <1>1, <1>2, <1>3, <1>4, <1>5, <1>6 DEF Next

-----------------------------------------------------------------------------
(* What follows from it.                                                   *)

\* The inductive invariant holds in every reachable state.
THEOREM Invariance == Spec => []IInv
  <1> QED
    BY InitIInv, NextIInv, PTL DEF Spec

\* For every set of languages: a truncated file is on the disk only while the service
\* copies it, or after a copy that failed or was killed (copyFile of
\* OCRLanguageInstallService); and the variables have their types.
THEOREM PartialFileHasReason == Spec => []PartialHasReason
  <1>1. IInv => PartialHasReason
    BY DEF IInv
  <1> QED
    BY <1>1, Invariance, PTL

\* For every set of languages and number of downloads: a row that says "downloading"
\* has a download or an installation of its language behind it, unless one failed or was
\* lost; neither cancelling nor the service's read-then-write of the row leaves the flag.
THEOREM RaisedFlagHasReason == Spec => []FlagHasReason
  <1>1. IInv => FlagHasReason
    <2> SUFFICES ASSUME IInv, NEW l \in Langs, rows[l].downloading, l \notin broken
                 PROVE  InFlight(l)
      BY DEF FlagHasReason
    <2>1. PICK id \in DOMAIN downloads : downloads[id].lang = l /\ Coming(id)
      BY DEF IInv, FlagBehind
    <2> QED
      BY <2>1 DEF InFlight, Coming, Lang
  <1> QED
    BY <1>1, Invariance, PTL

-----------------------------------------------------------------------------
(* The refinement of LanguageShelf, step by step.                          *)

\* Whatever keeps the languages of the downloads keeps the orders.
LEMMA SameOrders ==
    ASSUME DOMAIN downloads' = DOMAIN downloads,
           \A k \in DOMAIN downloads : downloads'[k].lang = downloads[k].lang
    PROVE  OrderLangs' = OrderLangs
  BY DEF OrderLangs

\* The orders are those of the downloads, and 0 is none of them.
LEMMA OrderFacts ==
    ASSUME IInv
    PROVE  /\ OrderIds \subseteq DOMAIN downloads /\ 0 \notin OrderIds
           /\ downloads \in Seq(Download) /\ DOMAIN downloads = 1..Len(downloads)
           /\ Len(downloads) \in Nat
           /\ \A id \in DOMAIN downloads : OrderLangs[id] = downloads[id].lang
  <1>1. downloads \in Seq(Download)
    BY TypeParts DEF IInv, PartialHasReason, DownloadsOK
  <1>2. DOMAIN downloads = 1..Len(downloads) /\ Len(downloads) \in Nat
    BY <1>1
  <1>3. OrderIds \subseteq DOMAIN downloads
    BY LangFacts DEF OrderIds
  <1> QED
    BY <1>1, <1>2, <1>3 DEF OrderLangs

\* The list, its questions, the rows and the broadcasts are no concern of the shelf.
LEMMA QuietSteps ==
    ASSUME IInv,
           \/ LoadList \/ OpenScreen \/ CloseScreen \/ No \/ NotifySuccess \/ ReadRow
           \/ WriteRow \/ Deliver \/ UNCHANGED vars \/ \E l \in Langs : Ask(l)
    PROVE  UNCHANGED Promise!shelf
  <1>1. /\ UNCHANGED <<downloads, notices, intents, disk, deaths, iid>>
        /\ UNCHANGED ipc \/ (ipc \in {"notify", "read", "write"} /\ ipc' \in {"read", "write", "remove"})
    BY DEF LoadList, ScanFiles, StoreRows, RefreshList, ShowList, OpenScreen, CloseScreen, Ask, No,
       NotifySuccess, ReadRow, WriteRow, Deliver, ServiceAt, vars, fileVars, dmVars, serviceVars, viewVars
  <1>2. OrderLangs' = OrderLangs
    BY <1>1 DEF OrderLangs
  <1>3. OrderIds' = OrderIds
    BY <1>1 DEF OrderIds
  <1> QED
    BY <1>1, <1>2, <1>3 DEF Promise!shelf

\* A download that is started is an order.
LEMMA StartDownloadStep ==
    ASSUME IInv, NEW l \in Langs, StartDownload(l) PROVE Promise!Order(l)
  <1>1. /\ downloads' = Append(downloads, [lang |-> l, status |-> "running"])
        /\ UNCHANGED <<notices, intents, disk, deaths, iid, ipc>>
    BY DEF StartDownload, serviceVars
  <1>2. PICK new \in Nat : new = Len(downloads) + 1
    BY OrderFacts
  <1>3. /\ Len(downloads') = new /\ DOMAIN downloads' = 1..new /\ DOMAIN downloads = 1..(new - 1)
        /\ downloads'[new] = [lang |-> l, status |-> "running"]
        /\ \A id \in DOMAIN downloads : downloads'[id] = downloads[id]
        /\ DOMAIN downloads' = DOMAIN downloads \cup {new} /\ new \notin DOMAIN downloads
    BY <1>1, <1>2, OrderFacts
  <1>4. OrderLangs \in Seq(Langs) /\ Len(OrderLangs) = new - 1
    <2>1. OrderLangs \in [1..(new - 1) -> Langs]
      <3>1. \A id \in 1..(new - 1) : downloads[id] \in Download
        BY <1>2, OrderFacts, ElementOfSeq
      <3> QED
        BY <1>3, <3>1 DEF OrderLangs, Download
    <2> QED
      BY <1>2, <2>1
  <1>5. OrderLangs' = Append(OrderLangs, l)
    <2>1. /\ Append(OrderLangs, l) \in Seq(Langs) /\ Len(Append(OrderLangs, l)) = new
          /\ \A i \in 1..(new - 1) : Append(OrderLangs, l)[i] = OrderLangs[i]
          /\ Append(OrderLangs, l)[new] = l
      BY <1>2, <1>4, AppendProperties
    <2>2. OrderLangs' = [id \in 1..new |-> downloads'[id].lang]
      BY <1>3 DEF OrderLangs
    <2>3. \A i \in 1..new : downloads'[i].lang = Append(OrderLangs, l)[i]
      BY <1>2, <1>3, <2>1 DEF OrderLangs
    <2>4. OrderLangs' \in Seq(Langs) /\ Len(OrderLangs') = new
      <3>1. \A i \in 1..new : downloads'[i].lang \in Langs
        BY <1>2, <1>4, <2>1, <2>3
      <3>2. OrderLangs' \in [1..new -> Langs]
        BY <2>2, <3>1
      <3> QED
        BY <3>2
    <2>5. \A i \in 1..new : OrderLangs'[i] = Append(OrderLangs, l)[i]
      BY <2>2, <2>3
    <2> QED
      BY <2>1, <2>4, <2>5, SeqEqual
  <1>6. OrderIds' = OrderIds \cup {new}
    BY <1>1, <1>3 DEF OrderIds
  <1> QED
    BY <1>1, <1>2, <1>4, <1>5, <1>6 DEF Promise!Order

\* Cancelling drops the order, unless the service has it or it is over already.
LEMMA CancelStep ==
    ASSUME IInv, CancelDownload
    PROVE  UNCHANGED Promise!shelf \/ \E id \in OrderIds : Promise!Drop(id)
  <1>1. PICK gone : RemoveDownload(gone)
    BY DEF CancelDownload
  <1>2. UNCHANGED <<notices, intents, disk, deaths, iid, ipc>>
    BY DEF CancelDownload, serviceVars
  <1>3. /\ DOMAIN downloads' = DOMAIN downloads
        /\ \A k \in DOMAIN downloads : downloads'[k].lang = downloads[k].lang
        /\ \A k \in DOMAIN downloads : k # gone => downloads'[k].status = downloads[k].status
        /\ gone \in DOMAIN downloads => downloads'[gone].status = "removed"
    BY <1>1, RemoveFacts, OrderFacts
  <1>4. OrderLangs' = OrderLangs
    BY <1>3, SameOrders
  <1>5. CASE gone \in OrderIds /\ gone \notin OrderIds'
    <2>1. OrderIds' = OrderIds \ {gone}
      BY <1>2, <1>3, <1>5 DEF OrderIds
    <2>2. gone # (IF ipc = "copy" THEN iid ELSE 0)
      BY <1>2, <1>5, OrderFacts DEF OrderIds
    <2> QED
      BY <1>2, <1>4, <1>5, <2>1, <2>2 DEF Promise!Drop
  <1>6. CASE ~(gone \in OrderIds /\ gone \notin OrderIds')
    <2>1. OrderIds' = OrderIds
      BY <1>2, <1>3, <1>6 DEF OrderIds
    <2> QED
      BY <1>2, <1>4, <2>1 DEF Promise!shelf
  <1> QED
    BY <1>5, <1>6

\* A download that ends still has its notice.
LEMMA DownloadEndsStep ==
    ASSUME IInv, NEW status \in {"done", "failed"}, DownloadEnds(status)
    PROVE  UNCHANGED Promise!shelf
  <1>1. PICK id \in DOMAIN downloads :
          /\ downloads[id].status = "running"
          /\ downloads' = [downloads EXCEPT ![id].status = status]
          /\ notices' = notices \cup {id}
    BY DEF DownloadEnds
  <1>2. UNCHANGED <<intents, disk, deaths, iid, ipc>>
    BY DEF DownloadEnds, fileVars, serviceVars
  <1>3. /\ DOMAIN downloads' = DOMAIN downloads
        /\ \A k \in DOMAIN downloads : downloads'[k].lang = downloads[k].lang
        /\ downloads'[id].status = status
        /\ \A k \in DOMAIN downloads \ {id} : downloads'[k].status = downloads[k].status
    <2>1. /\ downloads \in Seq(Download) /\ id \in DOMAIN downloads
          /\ downloads' = [downloads EXCEPT ![id].status = status]
      BY <1>1, OrderFacts
    <2>2. CASE status = "done"
      BY <2>1, <2>2, StatusFacts
    <2>3. CASE status = "failed"
      BY <2>1, <2>3, StatusFacts
    <2> QED
      BY <2>2, <2>3
  <1>4. OrderLangs' = OrderLangs
    BY <1>3, SameOrders
  <1>5. OrderIds' = OrderIds
    BY <1>1, <1>2, <1>3 DEF OrderIds
  <1> QED
    BY <1>2, <1>4, <1>5 DEF Promise!shelf

\* The receiver hands a finished download on, and drops every other one.
LEMMA ReceiveStep ==
    ASSUME IInv, Receive
    PROVE  UNCHANGED Promise!shelf \/ \E id \in OrderIds : Promise!Drop(id)
  <1>1. PICK id \in notices :
          /\ notices' = notices \ {id}
          /\ intents' = IF downloads[id].status = "done" THEN Append(intents, id) ELSE intents
    BY DEF Receive
  <1>2. UNCHANGED <<downloads, disk, deaths, iid, ipc>>
    BY DEF Receive, fileVars
  <1>3. OrderLangs' = OrderLangs
    BY <1>2 DEF OrderLangs
  <1>4. /\ id \in DOMAIN downloads /\ downloads[id].status # "running" /\ ~Contains(intents, id) /\ id # iid
        /\ id \in OrderIds
    BY OrderFacts, TypeParts DEF IInv, PartialHasReason, OnePlace, DownloadsOK, OrderIds
  <1>5. CASE downloads[id].status = "done"
    <2>1. \A x : Contains(intents', x) <=> Contains(intents, x) \/ x = id
      <3>1. intents \in Seq(1..Len(downloads)) /\ intents' = Append(intents, id)
        BY <1>1, <1>5, TypeParts DEF IInv, PartialHasReason, DownloadsOK
      <3> QED
        BY <3>1, ContainsAppend
    <2>2. OrderIds' = OrderIds
      BY <1>1, <1>2, <1>4, <2>1 DEF OrderIds
    <2> QED
      BY <1>2, <1>3, <2>2 DEF Promise!shelf
  <1>6. CASE downloads[id].status # "done"
    <2>1. OrderIds' = OrderIds \ {id}
      BY <1>1, <1>2, <1>4, <1>6 DEF OrderIds
    <2>2. id # (IF ipc = "copy" THEN iid ELSE 0)
      BY <1>4, OrderFacts
    <2> QED
      BY <1>2, <1>3, <1>4, <2>1, <2>2 DEF Promise!Drop
  <1> QED
    BY <1>5, <1>6

\* The intent that is taken up is still owed; nothing is written yet.
LEMMA TakeIntentStep == ASSUME IInv, TakeIntent PROVE UNCHANGED Promise!shelf
  <1>1. /\ ipc = "idle" /\ ipc' = "open" /\ intents # <<>> /\ iid' = Head(intents) /\ intents' = Tail(intents)
        /\ UNCHANGED <<downloads, notices, disk, deaths>>
    BY DEF TakeIntent, ServiceAt, fileVars, dmVars
  <1>2. intents \in Seq(1..Len(downloads))
    BY TypeParts DEF IInv, PartialHasReason, DownloadsOK
  <1>3. /\ \A x : Contains(intents, x) <=> x = iid' \/ Contains(intents', x)
        /\ iid' \in DOMAIN downloads
    BY <1>1, <1>2, ContainsTail, OrderFacts
  <1>4. OrderIds' = OrderIds
    BY <1>1, <1>3 DEF OrderIds
  <1> QED
    BY <1>1, <1>4 DEF Promise!shelf, OrderLangs

\* The copy begins: the order is served; or the service drops it.
LEMMA OpenFileStep ==
    ASSUME IInv, OpenFile
    PROVE  \E id \in OrderIds : Promise!Serve(id) \/ Promise!Drop(id)
  <1>1. ipc = "open" /\ UNCHANGED <<downloads, notices, intents, deaths, iid>>
    BY DEF OpenFile, ServiceAt, dmVars
  <1>2. iid \in DOMAIN downloads /\ iid # 0 /\ iid \in OrderIds /\ OrderLangs[iid] = Lang
    BY <1>1, LangFacts, OrderFacts DEF OrderIds, Lang
  <1>3. OrderLangs' = OrderLangs
    BY <1>1 DEF OrderLangs
  <1>4. CASE ipc' = "copy"
    <2>1. disk' = [disk EXCEPT ![Lang] = "partial"]
      BY <1>4 DEF OpenFile, ServiceAt
    <2>2. OrderIds' = OrderIds
      BY <1>1, <1>4 DEF OrderIds
    <2> QED
      BY <1>1, <1>2, <1>3, <1>4, <2>1, <2>2 DEF Promise!Serve
  <1>5. CASE ipc' # "copy"
    <2>1. disk' = disk /\ ipc' \in {"read", "remove"}
      BY <1>5 DEF OpenFile, ServiceAt
    <2>2. OrderIds' = OrderIds \ {iid}
      BY <1>1, <1>2, <2>1 DEF OrderIds, IInv, OnePlace
    <2> QED
      BY <1>1, <1>2, <1>3, <2>1, <2>2 DEF Promise!Drop
  <1> QED
    BY <1>4, <1>5

\* The copy ends, whole or not, and with it the order.
LEMMA CopyFileStep == ASSUME IInv, CopyFile PROVE \E id \in OrderIds : Promise!Served(id)
  <1>1. /\ ipc = "copy" /\ ipc' \in {"notify", "remove"}
        /\ UNCHANGED <<downloads, notices, intents, deaths, iid>>
        /\ disk' \in {disk, [disk EXCEPT ![Lang] = IF @ = "partial" THEN "whole" ELSE @]}
    BY DEF CopyFile, ServiceAt, dmVars
  <1>2. iid \in DOMAIN downloads /\ iid # 0 /\ iid \in OrderIds /\ OrderLangs[iid] = Lang
    BY <1>1, LangFacts, OrderFacts DEF OrderIds, Lang
  <1>3. OrderIds' = OrderIds \ {iid}
    BY <1>1, <1>2 DEF OrderIds, IInv, OnePlace
  <1> QED
    BY <1>1, <1>2, <1>3 DEF Promise!Served, OrderLangs

\* The download that is over is no order any more when it is removed.
LEMMA EndInstallStep == ASSUME IInv, EndInstall PROVE UNCHANGED Promise!shelf
  <1>1. /\ ipc = "remove" /\ ipc' = "idle" /\ RemoveDownload(iid)
        /\ UNCHANGED <<notices, intents, disk, deaths>>
    BY DEF EndInstall, ServiceAt, fileVars
  <1>2. /\ DOMAIN downloads' = DOMAIN downloads
        /\ \A k \in DOMAIN downloads : downloads'[k].lang = downloads[k].lang
        /\ \A k \in DOMAIN downloads : k # iid => downloads'[k].status = downloads[k].status
        /\ iid \in DOMAIN downloads => downloads'[iid].status = "removed"
    BY <1>1, RemoveFacts, OrderFacts
  <1>3. OrderLangs' = OrderLangs
    BY <1>2, SameOrders
  <1>4. OrderIds' = OrderIds
    <2>1. iid \in DOMAIN downloads => downloads[iid].status # "running"
      BY DEF IInv, OnePlace
    <2> QED
      BY <1>1, <1>2, <2>1 DEF OrderIds
  <1> QED
    BY <1>1, <1>3, <1>4 DEF Promise!shelf

\* What was in the process is owed no longer: the intents and the service's own.
LEMMA DieStep == ASSUME IInv, Die PROVE Promise!ShelfDies
  <1>1. /\ deaths' = deaths + 1 /\ intents' = <<>> /\ ipc' = "idle"
        /\ UNCHANGED <<downloads, notices, disk>>
    BY DEF Die, fileVars, dmVars
  <1>2. OrderIds' \subseteq OrderIds
    <2>1. \A x : ~Contains(intents', x)
      BY <1>1 DEF Contains
    <2> QED
      BY <1>1, <2>1 DEF OrderIds
  <1>3. (IF ipc = "copy" THEN iid ELSE 0) \notin OrderIds'
    <2>1. \A x : ~Contains(intents', x)
      BY <1>1 DEF Contains
    <2>2. \A id \in OrderIds' : id \in DOMAIN downloads /\ (downloads[id].status = "running" \/ id \in notices)
      BY <1>1, <2>1 DEF OrderIds
    <2> QED
      BY <2>2, OrderFacts DEF IInv, OnePlace
  <1> QED
    BY <1>1, <1>2, <1>3 DEF Promise!ShelfDies, OrderLangs

\* Deleting a language deletes its file.
LEMMA DeleteStep == ASSUME IInv, DeleteLanguage PROVE \E l \in Langs : Promise!Delete(l)
  <1>1. /\ asked[2] \in Langs /\ disk' = [disk EXCEPT ![asked[2]] = "absent"]
        /\ UNCHANGED <<downloads, notices, intents, ipc, iid, deaths>>
    BY TypeParts DEF DeleteLanguage, Answer, IInv, PartialHasReason, ViewOK, dmVars, serviceVars
  <1> QED
    BY <1>1 DEF Promise!Delete, OrderLangs, OrderIds

\* Every step is a step of the shelf or invisible to it.
LEMMA StepRefines == IInv /\ [Next]_vars => [Promise!ShelfNext]_(Promise!shelf)
  <1> SUFFICES ASSUME IInv, [Next]_vars PROVE [Promise!ShelfNext]_(Promise!shelf)
    OBVIOUS
  <1>1. CASE \/ LoadList \/ OpenScreen \/ CloseScreen \/ No \/ NotifySuccess \/ ReadRow
             \/ WriteRow \/ Deliver \/ UNCHANGED vars \/ \E l \in Langs : Ask(l)
    BY <1>1, QuietSteps
  <1>2. CASE \E l \in Langs : StartDownload(l)
    BY <1>2, StartDownloadStep DEF Promise!ShelfNext
  <1>3. CASE CancelDownload \/ Receive
    BY <1>3, CancelStep, ReceiveStep DEF Promise!ShelfNext
  <1>4. CASE DownloadEnds("done") \/ DownloadEnds("failed") \/ TakeIntent \/ EndInstall
    BY <1>4, DownloadEndsStep, TakeIntentStep, EndInstallStep
  <1>5. CASE OpenFile \/ CopyFile
    BY <1>5, OpenFileStep, CopyFileStep DEF Promise!ShelfNext
  <1>6. CASE Die \/ DeleteLanguage
    BY <1>6, DieStep, DeleteStep DEF Promise!ShelfNext
  <1> QED
    BY <1>1, <1>2, <1>3, <1>4, <1>5, <1>6 DEF Next, User, Service

\* However many languages, downloads and deaths: the way of a download through the
\* DownloadManager, its notice, the receiver, the intents and the service is one order of
\* LanguageShelf. It writes its file at most once, one is served at a time, and nothing
\* but an order or a deletion touches a file.
THEOREM ShelfIsImplemented == Spec => OrdersAreServedOnce
  <1>1. Init => Promise!ShelfInit
    <2> SUFFICES ASSUME Init PROVE Promise!ShelfInit
      OBVIOUS
    <2>1. downloads = <<>> /\ notices = {} /\ intents = <<>> /\ ipc = "idle"
      BY DEF Init
    <2>2. OrderLangs = <<>> /\ OrderIds = {}
      BY <2>1 DEF OrderLangs, OrderIds
    <2> QED
      BY <2>1, <2>2 DEF Init, Promise!ShelfInit
  <1> QED
    BY <1>1, StepRefines, Invariance, PTL DEF Spec, OrdersAreServedOnce, Promise!Shelf
=============================================================================
