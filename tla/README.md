# A formal model of the business card scanner

The program is an Android app: the user picks or takes a photo of a business
card, cuts the card out on the screen, lets tesseract read it and gets the
fields of the card as a list. This directory holds TLA+ modules of the parts of
it in which several threads, native memory, broadcasts or the death of the
process meet; TLC configurations that check them on small instances; and proofs,
checked by TLAPS, that the properties of all these modules hold for any number of
blocks, screens, photos, languages, gestures, pixels and lines.

All paths below are under `src/`; `…/` is
`app/src/main/java/com/ldz/fpt/businesscardscannerandroid/`.

## 1. Inventory

| Component | Files | State | Operations | What is hard about it | Module |
|---|---|---|---|---|---|
| OCR job | `…/activity/ocr_activity/OCR.java`, `tess-two/jni/…/tessbaseapi.cpp`, `pix1.c`, `control.cpp` | monitor of `OCR`, `mStopped`, `mIsActivityAttached`, `mTess`; `native_data_t` (cancel flag, `cachedEnv`, `cachedObject`, `pix`); reference count of the text pix | run the job on a worker thread, post messages, progress call-back from native code, cancel, end | cancel and recycle on the main thread while the worker is in native code without a lock | `OcrEngine`, `OcrJob` |
| OCR screen | `…/activity/ocr_activity/OCRActivity.java` | `orgPix`, dialog, `htmlString`, message queue, two AsyncTasks | load, start, cancel, back, handle messages, save, destroy | a field shared by a background task and `onDestroy`; messages that arrive after it | `OcrScreen` (on `OcrJob`) |
| Crop screen | `…/activity/crop_image_activity/CropImageActivity.java`, `LoadPixForCropTask.java` | `pix`, `cropData`, `cropHighlightView`, `cropping`, four AsyncTasks | load, detect, rotate, crop, binarize, back, destroy | recycling a pix that the next task uses; cancelled tasks; an Optional that goes away | `CropScreen` |
| Language installation | `…/activity/ocr_language_activity/*`, `DatabaseHandler.java` | data files, database rows, the list on the screen, DownloadManager | list, download, cancel, delete, receive, install, broadcast | four actors and three copies of the same state, no lock, process death | `LanguageInstall`, `LanguageShelf` |
| Image pick and load | `HomeActivity.java`, `ImageLoaderAsyncTask.java` | `fileUri`, running loader, `receiverRegister`, dialog, pending local broadcasts | pick, shoot, load, cancel, start crop | a second photo while the first is on its way; a receiver that is unregistered under a new load; a raw pointer in an intent | `HomeScreen` |
| First-start data copy | `CheckDataTrainingProcess.java` | `eng.traineddata` | check, copy | shares the executor with the loads; a copy that is cut short | `HomeScreen` |
| Text extraction | `GetXMLText` in `tessbaseapi.cpp`, `XMLParser.java`, `LineModel.java`, `StringUtil.java` | none | words to lines, lines to one text, phone numbers, name, e-mails | runs of characters that must not cross a line, off-by-one, a flag that is never reset | `CardFields` |
| Result screen | `ResultActivity.java`, `ListItemInfoAdapter.java` | four lists, their views | fill once, refresh, add, edit, delete | recycled views that remember a place and a mode | `ResultScreen` (on `CardFields`) |
| Thumbnail cache | `LruCache.java`, `Util.java` | map, size, counters | get, put, remove, trim | nothing calls it | no, dead code |
| Background jobs, life-cycle listeners | `MonitorActivity.java`, `Util.java` | list of listeners | add, remove, notify | jobs are never started | `onDestroy` is in `OcrEngine`, the rest is dead code |
| Finding the card and its text | `app/src/main/jni/opencv_processing/…OpenCVNative.cpp` | none | contours to corners, contours to blocks, merge, rescale | a vector that shrinks while it is walked over, wrap-around at zero blocks, borders, equal heights | `CardDetection`, `TextBlocks` |
| Image processing | `app/src/main/jni/image_processing` | `cachedEnv`, `cachedObject` globals | binarize, deskew, dewarp, detect blur | call-backs through globals that two workers share; otherwise arithmetic on pixels | `BookCallbacks` (the globals) |
| Crop geometry | `CropWindow.java`, `CropImageView.java`, `CropHighlightView.java` | `mPoints`, `mMotionEdge`, `mIsMoving` | press, drag a corner, an edge or the frame, rotate, cut | sequences of drags against borders and opposite sides, casts to int, a frame that is replaced between two reads, an array in which one thread computes and another one draws | `CropWindow`, `CropBox` |
| Card history, settings, widgets | the other Java files | widgets, preferences, one table | | | not modelled |
| tesseract, leptonica, libjpeg, libpng, OpenCV | vendored | | | | only the loop over words and `pixFree`, in `OcrEngine` |

How they interact: HomeActivity starts the crop screen with the native pointer
of the loaded photo; the crop screen starts the OCR screen with the native
pointer of the card and the coordinates of its text blocks; the OCR screen
starts one OCR job, which answers with messages to the screen's handler; when
it has posted `END` the screen saves the card and starts the result screen. The
native pointers are raw: who may still use an image is decided by reference
counts that several Java wrappers (`Pix`) share without knowing of each other.
The language screen, the receiver and the install service share files, rows and
broadcasts only.

`PROJECT.json` lists the hazards with their lines and the properties that watch
them. The theorems about a module `M` are in `M_proof`, those about `TextBlocks` and
`BookCallbacks` in `NativeImage_proof` (section 4).

## 2. The modules

### OcrEngine: one OCR job in full

Two threads. The worker is `OCR.startOCRForSimpleLayout`: `wpc` names the next
piece of code it runs (`book` is `nativeOCRBook`, `enter` to `setimage` the
first synchronized block, `begin` to `unref` the inside of `nativeGetHOCRText`
for one block, `check` the test of `mStopped` after it, `publish` and `utf8` the
last synchronized block, `finally`, `reap` and `end` the finally block, `throw`
the way out of `run()` of a job that failed: the finally block posts `END` first, the
exception ends the process afterwards, `Die`). The
main thread is `upc`: `alive`, then through `OCRActivity.onDestroy` - waiting
for the monitor, `cancel()` with `nativeStop` inside it, `finalPix.recycle()`.
What is under the monitor of `OCR` and visible only to its holders is one step;
in native code, which holds no lock against the other thread, each read or
write of `cancel_ocr`, `cachedEnv`, `cachedObject` and the reference count is a
step of its own. `fault` is the first memory or JNI error; the process is over
then.

The decrement of the count in `pixFree` and the test that follows it are two
steps (`EndTess`/`ReapClone`, `RecycleFinal`/`ReapFinal`); `LoseDecrement` is
the outcome of the data race in which both threads decrement the same value.

Abstracted: pixels, text, progress values, and the messages that are only drawn
(`PREVIEW_IMAGE`, `EXPLANATION_TEXT`, `TESSERACT_PROGRESS`).

### OcrJob: what a job promises

Five phases and a list of posted messages: the image, then either both result
messages or an error or nothing, then `END`; nothing once it is cancelled.
`OcrEngine` implements it under the mapping `JobPhase`, `~attached`,
`JobOutbox` (a lone `HOCR_TEXT` is not counted before its `UTF8_TEXT`).

### OcrScreen: OCRActivity around the job

Composes `OcrJob` with the message queue of the main thread, the background
thread of AsyncTask and the destroy sequence. The queue holds the job's
messages, `LOADED` and `SAVED` (the `onPostExecute` of the two tasks) and the
system's order `DESTROY`. Each read of the field `orgPix` and each use of what
was read is a step. `Leaked` is the number of references to the card that the crop
screen never gives back (the program's is one, CropImageActivity.java:375), and
`cropHolds` says whether it still holds that of its own wrapper: the screen may come up
without it, because the user pressed Back after the card was cut out, and may lose it
later by a Back that still goes to the crop screen (`CropBack`). `Handed` is the sum,
two or one. `threw` marks a worker that is leaving by an exception; `END` may be handled
before `WorkerDies`. `OpenResult` is the result screen reading the text it was given:
with an empty one it dies (`no_text`, XMLParser.java:88).

### CropScreen: CropImageActivity

The four tasks run one after the other on the serial executor (`tasks`, `tpc`).
`refs` counts the references to the photo and to the card; the field `pix`
changes from the one to the other inside `CropImageProcess`. `preview` is the
scaled photo with its blur map, owned first by `LoadPixForCropTask`, then by
`cropData`. `opened` records the count that the card had whenever `OCRActivity`
was started with its pointer. Geometry and pixels are left out; whether OpenCV
loads, whether the photo is blurry, whether there is a card to cut are choices.

### CardDetection and CropWindow: the frame over the photo

`CardDetection` has no state: from the contours OpenCV found (sequences of corner
points) it makes the corners as `detectCardVisit` does - which contours pass as a
square, the one that is taken (the last with an area: `find_largest_square` never
raises the area it compares with), the sort by height, and the whole photo where
the result is too small. Cosines and areas are exact; `Grain` keeps their products
within TLC's integers.

`CropWindow` is the frame from there on: four corners in half pixels, so that
`moveBy`, which goes by bounds cast to `int`, loses what it loses in the code.
`Press`, `Drag` and `Release` are the gestures of `CropImageView`; which part of
the frame a finger hits (`getHit`) is an input, also the odd answers with two
edges. `Rotate` makes a new frame at any time. `sound` and `shifts` are history:
whether the frame was upright at first and no edge has slid along itself, and how often
the frame was moved. On the grid of half pixels a move loses half a pixel at most where
the floats of the code may lose nearly a whole one; the proof counts moves, not sizes.

### CropBox: the box for the frame

`CropBox` EXTENDS `CropWindow` by `CropImageProcess`, as far as it reads the frame: on
its background thread the task takes the corners (`ReadPoints`: `getTrapezoid` hands out
the live array, so `points` and `frame` are one array while their window is `shown`), and
then has the box computed by the window the field holds by then - a copy into
`mMappedPoints` (`CopyFrame`), the lengths of its sides (`ReadSides`), the sides pulled
out (`PullSides`), the bounds (`ReadBox`) - and maps the corners into the box, in the
array of the frame itself (`MapPoints`). On the main thread `NewWindow` puts another
window into the field, and `Draw` writes screen coordinates into `mMappedPoints` of the
window that is shown, corner by corner, between any two of these steps. `Touch` is a gesture
of `CropWindow`, which the view takes only before the task. `scratch` is that
array; the fractions of the floats are kept as integers over `unit`. `spoilt` is history:
which of the two came in between. Draws within `PullSides` are not told apart from draws
beside it: either way `spoilt` names them. `BoxSpec` is the specification of the two
modules; `MapPoints` into the live array ends `sound` too, because the frame then no longer
is one of the photo. `Cut` bounds the photos that are cut, for the run only.

### TextBlocks: where tesseract has to read

`detectTextBlock` with `detectLetters`: contours are padded and filtered, sorted by
area (any order of equal areas; a letter is named by its contour), and merged in one pass over a vector that
shrinks: `Absorb` is one run of the inner loop that finds a partner, `Advance` one
that finds none. `Rescale` is the loop of `ImageProcessing` in Java that brings the
blocks from the preview to the card. With no block at all `size() - 1` wraps round
(`NoBlock`, the fault).

### BookCallbacks: nativeOCRBook and its globals

The workers of several OCR screens. `nativeOCRBook` keeps the JNIEnv and the object
of its callbacks in two static variables. Each write, each test and each use of
them is a step; `env[j]` is what worker `j` loaded for the call it is in. A call
through another thread's env ends the model (undefined behaviour). `strays` are
screens that got the preview of another card; `overlapped` is history.

### LanguageInstall and LanguageShelf

`DownloadLanguageActivity`, the DownloadManager (external: from how the code
uses it), `DownloadBroadCastReceiver`, `OCRLanguageInstallService` and the rows
of `DatabaseHandler`. The install service is cut at every effect that others can
see: file opened, file copied, broadcast sent, row read, row written, download
removed. A title is what the code compares (`Title(l)` is not `Display(l)`).
`Die` kills the process anywhere; files, rows and the DownloadManager survive.
`broken` is bookkeeping of the model: the languages whose download failed or
whose installation was lost.

`LanguageShelf` is what all this promises: orders, each of which writes the file of
its language at most once, one at a time. An order is owed while its download runs,
its notice is on its way, its intent waits or the service copies (`OrderIds`); the
service's other steps, the rows and the lists do not show.

### HomeScreen

`HomeActivity` with `ImageLoaderAsyncTask` and `CheckDataTrainingProcess`. The
message queue holds `RESUME`, `RETURN` (`onActivityResult` and `onResume`, which
follow each other without a gap), `POST` (the end of a load) and `BROADCASTS`,
the one message with which the LocalBroadcastManager delivers all that is
pending in `casts`. `loads` lists every loader that was started; `executor` is
the serial executor, on which a check of the English data waits for each
resume. The camera, the gallery, the executor and the broadcast manager are
external and modelled from how the code uses them. `stack` are the screens over
`HomeActivity`; those survive `Die`, with the process in which their intent was
made in `born`. `opened`, `lost` and `overtaken` are bookkeeping: loads that came
up, loads whose Pix nobody will ever free, and loads that began while the
broadcast of an earlier one was pending.

### CardFields and ResultScreen

`CardFields` has no state: it follows the text of a card from the recogniser's
words (`GetXMLText`, with its rule for hyphens) through the XML (`XMLParser` keeps
a line by font size and length), the sort by size and the printing into one text
to the phone numbers and the name. A text is a sequence of symbols, each for
characters that the code treats alike or for a group of digits; markup that is
escaped and read back, accents and e-mail addresses are left out.

`ResultScreen` fills the list of phone numbers once (`BindData`) and lets the user
edit it through the views of a RecyclerView: `Layout` hands any view to any item
and writes the text and the place, but neither the edit mode nor the edit box, as
`onBindViewHolder` does (`Bound`); `stray` is history: the view was in edit mode when a
layout gave it another item or text. The other three lists have adapters of the same class. `MCResultScreen`
holds the cards.

## 3. The runs

| Run | Instance | Shows |
|---|---|---|
| `ocr_engine` | 3 blocks, 3 words, fair | one job, destroyed at any moment |
| `ocr_screen` | 1 leaked reference, with or without the crop screen's own, fair | the screen around the job |
| `crop_screen` | no parameters, fair | four tasks and an impatient user |
| `language_install` | 2 languages, 2 downloads, 1 death, fair | files, rows and orders |
| `home_screen` | 3 photos, 1 death, fair | loads, broadcasts and the data copy |
| `result_screen` | 6214 cards, 3 views, 1 added item | fields of a card, recycled views |
| `text_blocks` | up to 3 of 44 boxes, card 97 by 48 on a view of 240 | padding, merging, rescaling |
| `crop_window` | all squares on a grid of 6 by 5 points; 4 frames dragged up to 4 times; 52 squares and a dragged frame cut, 1 view matrix | corners, frame, and the box under rotation and drawing |
| `book_callbacks` | 3 screens, 2 callbacks | the shared JNI globals |
| `stop_only_flags`, `text_freed_once` | 2 blocks, 2 words | the code contradicts its comments (section 6) |
| `pointer_stays_in_process` | as `home_screen` | the same |

The type invariant of a module is a property of its own in `ocr_engine` and
`result_screen`, and elsewhere the first conjunct of one.

`ocr_engine` checks that the worker reads live memory (`ReadsLiveText`), that a
published result is whole (`PublishedIsWhole`), that a cancel after `END` does
no harm (`LateCancelHarmless`), that a finished job whose image was adopted
leaves nothing behind (`CleanFinish`), that the screen sees an `OcrJob`
(`ImplementsJob`), that both threads come to their end (`BothThreadsEnd`), and that
a cancel costs no more than the block being read (`CancelCostsOneBlock`), although
the recogniser may never see it: `BeginRecognition` clears the flag. The last two
are claims about the monitor: with a `cancel()` that waited for the worker, or a
loop that did not test `mStopped`, they would fail.

`ocr_screen` checks that the card outlives the job's reading of it
(`BookReadsLiveCard`), that the result screen opens once, and without a text only after
an error was shown or in a process that the worker's exception is about to end
(`ResultHasText`), that the handed reference is given back once (`GivesCardBack`), that
Start leads to a result (`StartLeadsToResult`), and what can go wrong when the user leaves
at a bad moment, and no more (`FaultHasReason`). The run has both cards: one of which the
crop screen still holds its reference, and one of which it has given it up, at the start
or later. Of the first nothing is freed under a reader but the small image of
`SavePixTask`. Of the second only the leaked reference is left, which `onDestroy` gives
back: `nativeOCRBook` may then read a freed card, and the task and `onDestroy` may free it
twice. The properties name that as the reason (`Handed = 1`, the wrapper recycled), and
the run reaches each of these cases, and the result screen that dies of an empty text.

`crop_screen` checks that the photo outlives its cutting (`PhotoOutlivesClip`),
that the OCR screen gets a live card (`HandsOverLiveCard`) and only one is
opened (`OneOcrScreen`), that the preview is recycled whenever the task is
cancelled (`PreviewRecycled`), that a crop leads on (`CropLeadsOn`), and that a
freed pix or a missing `cropData` needs a user who leaves while the card is being
cut (`FaultHasReason`). The first two hold only because two clones are leaked
(`LoadLeaks`, `CropLeaks`): whoever repairs the leaks breaks them, which the mutants
of these two definitions show.

`language_install` checks that a row marked "downloading" has something behind
it (`FlagHasReason`), that a truncated file is explained (`PartialHasReason`),
and that the flag goes away (`FlagClears`), each unless a download or
installation of that language failed or was lost; and that a download, with a
cancel, a deletion, a second download of the language or the end of the process
anywhere on its way, writes its file at most once (`OrdersAreServedOnce`, the
refinement of `LanguageShelf`).

`home_screen` checks that a photo comes up once and in the order of choice
(`OneCropPerLoad`), that a loaded one is lost only if the user chose another or
chose it in the moment in which an earlier one was being delivered
(`LostHasReason`), that the English data is there before the first photo
(`DataBeforeCrop`, the order of the serial executor), and that the progress
dialog goes away (`DialogGoes`). The exception in the second and the last is what
the code does: `unRegisterImageLoaderReceiver` does not ask whose broadcast it
has received.

`result_screen` compares, for each card before it is bound, the phone numbers and
the name with definitions that look at one line, or at the set of lines, at a
time (`PhonesOfLines`, `NameIsLargest`), and checks that between two layouts the
screen shows the list (`ShownIsListed`): each item in one view, which shows its own text
or, in edit mode, its own draft. The one exception is what the code does, and the run
reaches it: a view in edit mode that a layout gives another item or text keeps the edit
box, so it shows the draft of the former item, and `Done` writes that over the new one.
The plus sign is left out of the comparison, because the code gives one to every number
that follows.

`text_blocks` checks that merging loses no text (`LettersCovered`), that what
tesseract is given lies on the card (`PointsOnCard`), and that every call returns a
block or fails because there is none (`CallEnds`). The one pass is not complete: two
blocks of the result may overlap. `OverlapOnlyGrown` says when: only if the later one
grew after the earlier one was done.

`crop_window` checks the corners of every card that may be found (`CornersInOrder`:
one convex figure in clockwise order; and a card with two upper and two lower points
is not given up for the whole photo), that a frame stays upright, 50 pixels wide and on
the photo through any gestures (`UprightUnlessSlid`), and that dragging a corner or the
frame does only that (`DragIsLocal`). Three exceptions are what the code does: an edge that slides along
itself may take its corners off the photo; a move stops by bounds that were cut to
whole pixels, and costs half a pixel, each time anew; and a slanted card, whose opposite sides
overlap, has no such distances to begin with, so dragging one corner moves others.

It also checks that the box that is cut out holds the corners that are mapped onto it
(`BoxHoldsFrame`), whatever the main thread does while it is computed - with two
exceptions, which are what the code does, and which the run reaches: the photo was
rotated exactly between the two reads, so that corners and box are of two windows; or the
frame was drawn while its box was computed in the array that the drawing uses.

`book_callbacks` checks that no memory or JNI error, no leaked reference and no
preview on the wrong screen comes about unless two workers were in `nativeOCRBook` at
once (`HarmNeedsOverlap`). With two the code has no protection, and the run reaches
all of them.

**Bounds.** The loop over blocks treats the first, the middle and the last block
differently at most, so three blocks meet every case; three words likewise; the
proofs remove both bounds. A second OCR job on the same object does not exist:
each activity creates its `OCR`. Two languages and two downloads let two
downloads of one language overlap, and one language's installation overlap with
the other's download; one death is enough to cut any step. Three photos let a load be
cancelled by a second one that is itself overtaken by a third. The cards are all lines of at most two
words of two symbols, all pairs out of thirty typical lines (ten texts in three
sizes, one of them too small), and some triples; with groups of two, three and
four digits the limit of seven is met from both sides. The most items a list
gets is three. Three boxes let a third one meet the union of two; the 44 boxes
are at the borders, in the middle and within and without reach of each other, pass the
filter or not, and some cards end with blocks that overlap; the view is of another size than the card, with a
remainder. The grid of 6 by 5 points has every square that may start anywhere and
turn either way; sides of one unit are too small for a card across the photo, not down it. The default
frame is dragged four times, a whole photo and a slanted card twice, by distances up
to a border, beyond it, and of half a pixel more than whole ones. The 52 squares that are
cut turn either way, and their opposite sides have every order of lengths; a slanted card is
cut before and after a drag; one matrix that enlarges and
shifts tells the corners of the screen from those of the photo. Three screens let a worker overlap with
one that never overlapped with the first; two callbacks are one that is always made
and the one after dewarping. The lists of messages
are bounded by the program itself. No configuration uses a constraint; the
three views are symmetric, and that run has no liveness property. Deadlock is
checked in every run but `book_callbacks`, where it is the end of the last screen or
of the process; elsewhere a rotation is always possible (`crop_window`), or the
steps named `Rest` are the states in which the program may stop.

**Fairness.** Weak fairness of each thread's steps: Android schedules the worker,
the background thread of AsyncTask and the main thread, and no step waits for
anything but the monitor, which is free again after finitely many steps of its
holder. Weak fairness is enough there, because a waiting thread has no
competitor that takes the monitor infinitely often: the number of times each
thread takes it is bounded. `OrderDestroy`, `DownloadEnds`, `Receive` and
`Deliver` are the system's answer to `finish()`, to a download and to a
broadcast. The user is never fair: nobody has to press Start or to leave, and
the camera need not answer.

## 4. The proofs

Each `M_proof` EXTENDS its module `M` (`NativeImage_proof` two of them), gives an inductive invariant `IInv` as a
conjunction of named parts, one for each idea, and proves `Init => IInv`, one lemma
for each action or group of actions, and the properties from `IInv`. Every `IInv` was
an invariant of the module's run before it was proved.

| Module | Theorem | States | For every |
|---|---|---|---|
| `OcrEngine_proof` | `TypeCorrect` | `TypeOK` always | number of blocks and words |
| | `WorkerReadsLiveText` | `ReadsLiveText` always | |
| | `ResultsAreWhole` | `PublishedIsWhole` always | |
| | `LateCancelIsHarmless` | `LateCancelHarmless` always | |
| | `FinishIsClean` | `CleanFinish` always | |
| | `JobIsImplemented` | `ImplementsJob`: every behaviour is one of `OcrJob` | |
| `OcrScreen_proof` | `ResultScreenOpensOnce` | `ResultHasText` always | number of leaked references, crop screen's own given up or not |
| | `LeakKeepsCard` | `BookReadsLiveCard` always | |
| | `CardIsGivenBack` | `GivesCardBack` always | |
| | `EveryFaultHasReason` | `FaultHasReason` always | |
| `CropScreen_proof` | `PhotoStays` | `PhotoOutlivesClip` always | number of taps |
| | `CardIsLive` | `HandsOverLiveCard` always | |
| | `OneScreenPerCrop` | `OneOcrScreen` always | |
| | `NoPreviewLeft` | `PreviewRecycled` always | |
| | `EveryFaultHasReason` | `FaultHasReason` always | |
| `LanguageInstall_proof` | `PartialFileHasReason` | `PartialHasReason` always | languages, downloads and deaths |
| | `RaisedFlagHasReason` | `FlagHasReason` always | |
| | `ShelfIsImplemented` | `OrdersAreServedOnce`: every behaviour is one of `LanguageShelf` | |
| `HomeScreen_proof` | `PhotosInOrder` | `OneCropPerLoad` always | number of photos and deaths |
| | `NoPhotoLost` | `LostHasReason` always | |
| | `DataComesFirst` | `DataBeforeCrop` always | |
| `NativeImage_proof` | `OneWorkerIsSafe` | `HarmNeedsOverlap` always | number of screens and callbacks |
| | `NoTextIsLost` | `LettersCovered` always | card, view and contours |
| | `RectanglesAreOnCard` | `PointsOnCard` always | |
| | `OnePassIsEnough` | `OverlapOnlyGrown` always | |
| `CropWindow_proof` | `FrameStaysUpright` | `UprightUnlessSlid` always | photo, distances and gestures |
| | `GesturesAreLocal` | `DragIsLocal`, of every step | |
| | `BoxHoldsCorners` | `BoxHoldsFrame` always | and rotations and drawings |
| | `CardIsNotGivenUp` | `UprightCardIsKept`, a part of `CornersInOrder`, always | |
| | `CornersGoRound` | `CornersInOrder` always | |
| `ResultScreen_proof` | `TypeCorrect` | `TypeOK` always | page, number of views and of added items |
| | `PhonesFromLines` | `PhonesOfLines` always | |
| | `NameOfLargest` | `NameIsLargest` always | |
| | `ScreenShowsTheList` | `ShownIsListed` always | |

(`Invariance` is `Spec => []IInv`, of `BookCallbacks` `ExclusiveOwner` is `BookSpec => []BookIInv`.
The theorems of `CropWindow_proof` are about `BoxSpec`, `CropWindow` and `CropBox` together;
`BoxInvariance` is `BoxSpec => []BInv`.)

**Assumptions.** Counts are natural numbers, and positive where the program has at least
one (`SizesAssumption` of `OcrEngine`, `BoundsAssumption`, `CountsAssumption`,
`LeakedAssumption`). `CropWindow`: a contour has four points with whole coordinates, and a
movement is a pair of numbers (`InputAssumption`); it is one that `find_squares` keeps, of
points on the photo and its grid (`SquaresAssumption`). `CropBox`: the view's matrix is a scale and a shift, and a pixel of
the preview is a whole number of the photo's (`ViewsAssumption`). `TextBlocks`: the card and the view
are not empty, the preview has a row at least (`SizesAssumption`), and a bounding box of
`findContours` is on the image that was searched (`ContoursAssumption`). `ResultScreen`:
a page is a sequence of lines with a size and words (`PagesAssumption`).

**Why the invariants are not inductive as they stand, and what `IInv` adds.**

`OcrEngine`:

* `Monitor` - who holds the lock, whether the screen is attached and whether the
  job is stopped are functions of where the two threads are. In particular a
  worker inside a synchronized block was not detached when it entered and cannot
  be detached before it leaves, so the pair of result messages is not cut in two.
* `Cancelling` - the cancel flag, and with it an aborted recognition, exists only
  when the main thread is at `mark` or past it. The worker's next test of
  `mStopped` needs the monitor, which is free again only when `mStopped` is set:
  this is why no aborted text can reach `publish`.
* `Queue` - `FINAL_IMAGE` is the first message if there is one, so the image is
  adopted once; `HOCR_TEXT` is there only with all blocks done.
* `Blocks` - where the loop over blocks and words is at each place of the worker.
* `Count` - the reference count is one for the Java side plus one for the clone in
  `native_data_t`, exactly until the activity drops its own; afterwards it is at
  least one while the clone is there. The lost decrement happens after the
  worker's last read, which is why it does not disturb `ReadsLiveText`.
* `Binding` - until `stop()` runs, `cachedEnv` and `cachedObject` are a function of
  the worker's place, with exactly one global reference during a recognition.
* `Ended` - what is left once `END` was posted: no global reference, the worker
  `done`, and a text pix that is freed by the recycle that is still to come.
* `NoUseAfterFree` - the one fault that `ReadsLiveText` excludes.

The refinement has one lemma for each kind of step: the quiet ones, the silent
changes of phase, and one for each step that posts.

`OcrScreen`: `END` comes once, behind a text or an error (`EndIsLast`); `SavePixTask`
runs once, after it (`SavedOnce`); `onDestroy` runs once (`DestroyedOnce`), and nothing
starts before the card is loaded (`LoadedFirst`). The count of the card is the number
handed over, plus the clone of `SavePixTask`, less what the task and `onDestroy`
recycled, which may be one too many (`CardRefs`): the reference of the crop screen is
what keeps the card, and where it is gone the count says which recycle was one too many.

`CropScreen`: a load and a crop are each in one place only - waiting, running, posted or
done - although the user taps at any moment (`OneLoad`, `OneCrop`); the data is there from
the end of the load to the destruction (`DataThere`); `pix` is the photo until the card is
cut (`FieldPix`); and the two counts are sums over who has cloned and who has recycled
(`PhotoRefs`, `CardRefs`), which may be the main thread and the task for the same wrapper.

`LanguageInstall`: the id of a download is in one place on its way - running, in its
notice, in an intent, or taken up - and there once (`OnePlace`); so the service takes it
up once. The ids in rows and items are those of downloads of the same language
(`OwnIds`), and a raised flag has such a download that will clear it, or one that failed
(`FlagBehind`).

`HomeScreen`: a load is in one place (`OnePlace`), and of those on their way only the latest
is not cancelled (`OthersCancelled`); so at most one photo is pending, later than all that
were cropped (`Ascending`). `Heard` says when the receiver is missing, and `CheckedFirst`
that the check of the data is before every load on the serial executor.

`BookCallbacks`: as long as no two workers have overlapped, at most one is between
`initStateVariables` and `resetStateVariables`, and it owns both globals (`Exclusive`).

`TextBlocks`: every letter lies in a block (`Covered`) and what the pass has not reached is
still a letter (`Fresh`). That alone does not give `OverlapOnlyGrown`: two blocks could
unite to a box that happens to be a letter and meets a block that is done. It cannot,
because no later block lies inside one that is done (`Apart`): a letter of that size would
lie in a block, and that one would have met the block that is done before.
`RectanglesAreOnCard` rests on the preview being no wider than the view, although
`scaleToSize` rounds its width up.

`CropWindow`: `capPoints` treats the axes alike and apart, so the proof is about one axis
with two near and two far corners (`Ordered`). Spread alone is not inductive: that a
corner is off the photo only together with the other end of its edge is part of it.
`CornersInOrder` needs no step: `find_squares` returns what `IsSquare` says (`Found`).
That the figure is convex and that opposite corners are far apart (`TooSmall`) do not
give it, the cosines are needed, of which one is never looked at:

* `UpperLeftFirst` - of two neighbours above the other two, the first in clockwise order is
  the left one. If it were the right one, the angle there could not be nearly right
  (`NotAtP`), nor those at the other three together (`NotAtQRS`): the figure would lean
  over so far that it is wider than the photo, which is less than five times the distance
  of the two.
* `NotOpposite` - two upper points are neighbours, because the diagonals meet.
* `AngleOnGrid` - what the products lose by the division by `Grain`: nothing on its grid.

`CropBox`: as long as nothing came in between, what the task has at each of its steps is a
function of the corners it read first (`Computed`), and the box of that function holds them
(`BoxOf`): on each axis the ends of two opposite sides are pulled apart, never together
(`Ends`, `BetweenEnds`), because the scales are no shrinking ones (`ScaleFacts`).

`ResultScreen`: the list is a sequence of items, and a view that is in edit mode and no
stray holds its own text or what the user typed (`ListTypes`, `OwnDraft`); between two
layouts each item is in exactly one view, with its text (`Placed`): a click then meets an
item of the list, and `Done` writes to the place that its view shows. `PhonesOfLines` and `NameIsLargest` say
nothing of steps; they follow from what the operators of `CardFields` return:

* `CardRuns` - what `extractPhone` returns for a text is a scan of that text itself, with
  the digits in hand and the numbers found at each place (`RunsAlong`), although the code
  scans what `trimString` left of it, and hands out pluses.
* `LineRuns` - the same scan finds what `PhonesOf` defines by first and last places of runs.
* `AcrossLine` - a scan that comes to a printed line with no digits in hand leaves it with
  none: the size in front is no number, and the newline ends the last run. This is the
  step that fails if a colon or a newline is let into a run.
* `SortFacts` - the sort puts each line in one place, the larger ones first, so the first
  of the sorted lines that may be the name is the largest of them (`LargestName`).

What a proof found: `UprightUnlessSlid` first said that moves lose less than one pixel
in all. The induction failed, and a run with one more movement shows why: each move may
lose another half pixel, and a third one exceeds the pixel. The property now counts the
moves (`shifts`), and the run goes on to four movements.

**Induction over data.** The library's induction theorems take an operator and cannot be
cited, but a set of numbers without a least element is empty (`WFMin` with
`NatLessThanWellFounded`): `HomeScreen_proof` and `ResultScreen_proof` take least
counterexamples that way. What a recursive function computes (`Kept`, `FlattenSeq`, the
scan of `ExtractPhone`) is proved by the least position at which it would differ from a
function that grows as it does (`KeptIs`, `FlattenSteps`, `ScanSteps`). The provers cannot
look into `SelectSeq` or a fold, so `CardFields` has recursive functions in their place, and
a sort that counts for each line those before it. That the sorts lose nothing is the
pigeonhole theorem for finite sets.

**Checked by TLC only:**

Liveness: `BothThreadsEnd`, `CancelCostsOneBlock`, `StartLeadsToResult`, `CropLeadsOn`,
`FlagClears`, `DialogGoes`, `CallEnds`. TLAPS has no rule for fairness or ENABLED here. Every
invariant, every action property and the refinement that a run checks are proved.

## 5. Not modelled

Pixel arithmetic: binarization, skew, dewarping, blur, the contours themselves
(floating point over images, no protocol). Where a finger hits the frame, zooming,
scrolling and, but for what it writes into the frame's scratch array, drawing. E-mail extraction and the removal of accents (regular
expressions over characters). Widgets, preferences, the history table: single calls
without a state that others race for. The thumbnail cache and the background jobs:
dead code, no order of calls is the program's. Configuration changes (rotation of the
device re-creates an activity): each activity model is one instance. In `CropScreen`
the blur detection's native call-backs and in `OcrEngine` the progress of
`nativeOCRBook` are left out, the latter is `BookCallbacks`.

The vendored libraries are nearly all of the repository's C and C++ (tesseract,
leptonica, libpng, libjpeg and the headers of OpenCV, some 590,000 lines). Of these
only the loop over words, the JNI glue and `pixFree` are modelled, where the threads of
the app meet in them; the rest is arithmetic on images and text without a protocol of
this program. The share of the lines that is modelled stays small for that reason.

## 6. What the code does and its comments deny

* `stop_only_flags`: `nativeStop` (tessbaseapi.cpp:569) resets the JNI state
  first. In the trace the worker has tested `isStateValid` and is about to call
  Java when the main thread deletes the reference.
* `text_freed_once`: `end()` and `recycle()` both decrement, then both read zero.
* `pointer_stays_in_process`: the crop screen is in front when the process is
  killed; it is restored with the intent of HomeActivity.java:419, whose pointer
  belonged to the old process.

Without a run of their own, because a property that holds bounds them:

* A cancel may be lost. The flag set at tessbaseapi.cpp:570 is cleared at 63 by a
  recognition that begins later, although "stop by setting a flag" is what 568 says;
  `CancelCostsOneBlock` says what it costs.
* `Pix.recycle` says "You may not modify or access the pix after calling this method"
  (Pix.java:168). `OCRActivity.onDestroy` recycles `orgPix` while the worker or
  `SavePixTask` reads through it, and the back key recycles the new card between
  CropImageActivity.java:372 and the next use of `pix`. The two `FaultHasReason` say
  when that does harm, `BookReadsLiveCard` and `PhotoOutlivesClip` when it does not.
* `capPoints` says "lef top always to left of right top" (CropWindow.java:330), which
  holds for the corners of the dragged edge only: an edge that slides along itself
  turns the frame over. `UprightUnlessSlid` says that nothing else does.
* `getBlurValue` documents "0->very blurred, anything greater 0.35 is sharp"
  (BlurDetectionResult.java:33), while `getBlurriness` below it calls small values
  not blurred. The value is an input of `CropScreen`.

## 7. Plan

The order was: the job first, because everything in it is shared by two threads
without a lock; then the two screens whose native memory depends on it; then
the installation, whose state outlives the process; then the home screen and the
result screen; then the native code under them - the frame, the blocks and the JNI
globals; then theorems for any value of the constants, for every module. What is
left: an abstract specification of a screen's use of a counted pix - cloned, read, given
back - that `CropScreen` and `OcrScreen` both implement.
