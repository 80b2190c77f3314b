--------------------------- MODULE CropScreen_proof ---------------------------
(***************************************************************************)
(* The inductive invariant of CropScreen and what follows from it: however *)
(* the user, the layouts, the four tasks and the order to destroy the      *)
(* screen interleave, one OCR screen at most is opened, on a card that is  *)
(* there, the photo outlives the cut, and no preview is left behind.       *)
(***************************************************************************)
EXTENDS CropScreen, SequenceTheorems, TLAPS

-----------------------------------------------------------------------------
(* The inductive invariant, one named part per idea.                       *)

\* TypeOK, but for the range of the reference counts.
Types ==
    /\ screen \in {"shown", "finishing", "destroyed"}
    /\ laid \in BOOLEAN /\ cropData \in BOOLEAN /\ frame \in BOOLEAN /\ warning \in BOOLEAN
    /\ relayout \in BOOLEAN /\ cropping \in BOOLEAN /\ loadCancelled \in BOOLEAN
    /\ opened \in Seq(Int) /\ queue \in Seq(Posts)
    /\ mpc \in {"loop"} \cup Wrappers
    /\ tasks \in Seq(Tasks) /\ tpc \in TaskPoints
    /\ preview \in {"none", "live", "recycled", "stray"}
    /\ field \in Wrappers \cup {"null"} /\ recycled \subseteq Wrappers
    /\ refs \in [Wrappers -> Int]
    /\ fault \in {"none", "use_after_free", "absent"}

\* Some member of a sequence is in a set, or one at most.
In(s, S) == \E i \in 1..Len(s) : s[i] \in S
One(s, S) == \A i, j \in 1..Len(s) : s[i] \in S /\ s[j] \in S => i = j

LoadPoints == {"blur", "scale", "bitmap", "unload"}
LoadPosts == {"LOADED", "NO_BITMAP"}
CropTasks == {"crop", "process"}
ClipPoints == {"crop", "clip", "check", "recycle", "cut"}
CardPoints == {"drop", "preview", "measure", "process"}
CropPosts == {"CROPPED", "NOT_CROPPED", "PROCESSED"}

\* The photo is loaded once, and until it is there is nothing to crop.
OneLoad ==
    /\ One(tasks, {"blur"}) /\ One(queue, LoadPosts)
    /\ tpc \in LoadPoints => ~In(tasks, {"blur"}) /\ ~In(queue, LoadPosts)
    /\ In(tasks, {"blur"}) => ~In(queue, LoadPosts)
    /\ ~laid => ~In(tasks, {"blur"}) /\ tpc \notin LoadPoints /\ ~In(queue, LoadPosts)
    /\ tpc \in LoadPoints \/ In(tasks, {"blur"}) \/ In(queue, LoadPosts) \/ ~laid
           => ~cropData /\ ~cropping

\* A crop is in one place only: waiting, running, posted, or in the OCR screen.
OneCrop ==
    /\ One(tasks, CropTasks) /\ One(queue, CropPosts) /\ OneOcrScreen
    /\ tpc \in ClipPoints \cup CardPoints => ~In(tasks, CropTasks) /\ ~In(queue, CropPosts)
    /\ In(tasks, CropTasks) => ~In(queue, CropPosts)
    /\ tpc \in ClipPoints \cup CardPoints \/ In(tasks, CropTasks) \/ In(queue, CropPosts)
           => cropping /\ opened = <<>>
    /\ opened # <<>> => cropping

\* The activity has its data from the end of the load until it is destroyed.
DataThere ==
    /\ cropping \/ tpc = "detect" \/ In(tasks, {"detect"}) \/ In(queue, {"DETECTED"})
           => cropData \/ screen = "destroyed"
    /\ relayout => cropData
    /\ screen = "destroyed" => ~cropData /\ (laid => loadCancelled)
    /\ preview = "live" =>
          tpc \in LoadPoints \ {"blur"} \/ In(queue, LoadPosts) \/ cropData

\* pix is the photo until the card is cut out.
FieldPix ==
    /\ laid <=> field # "null"
    /\ field = "card" => cropping
    /\ tpc \in ClipPoints \/ In(tasks, {"crop"}) => field = "photo"
    /\ tpc \in CardPoints \/ In(tasks, {"process"}) \/ In(queue, {"CROPPED", "PROCESSED"})
           => field = "card"
    /\ mpc # "loop" => screen # "shown" /\ laid

\* The references to the photo: the one that came with it, the clone of the load task and
\* the one it leaks, less those that the main thread and the crop task have recycled, which
\* may both do so.
PhotoRefs ==
    LET p == refs["photo"]  gone == "photo" \in recycled IN
      /\ p \in 0..3
      /\ ~laid => p = 1 /\ ~gone
      /\ laid /\ field = "photo" /\ tpc # "cut" =>
            p >= (IF gone THEN 1 ELSE 2) /\ (mpc = "photo" => ~gone)
      /\ tpc \in {"bitmap", "unload"} => p >= (IF gone THEN 2 ELSE 3)
      /\ In(tasks, {"blur"}) \/ tpc \in {"blur", "scale"} => p <= 2
      /\ tpc = "cut" \/ field = "card" => gone
      /\ mpc = "photo" => p >= 1

\* The references to the card: two from the cut, one less when the task has dropped its
\* own, one more when the preview has leaked one, one less when onBackPressed recycled it.
CardRefs ==
    LET c == refs["card"]  gone == "card" \in recycled
        had == IF tpc = "preview" THEN 1 ELSE 2
    IN
      /\ c = (IF field # "card" THEN 0 ELSE IF gone THEN had - 1 ELSE had)
      /\ gone \/ mpc = "card" => field = "card" /\ screen # "shown"
      /\ mpc = "card" => ~gone

\* Who met a pix that was gone, or missed the data; and what is handed over.
Outcome ==
    /\ fault = "use_after_free" => screen # "shown" /\ cropping /\ recycled # {}
    /\ fault = "absent" => screen = "destroyed" /\ cropping /\ opened = <<>>
    /\ HandsOverLiveCard

IInv ==
    /\ Types /\ OneLoad /\ OneCrop /\ DataThere /\ FieldPix
    /\ PhotoRefs /\ CardRefs /\ Outcome

-----------------------------------------------------------------------------
(* The two sequences: what an Append and a Tail do to what is in them.     *)

LEMMA AppendFacts ==
    ASSUME NEW T, NEW s \in Seq(T), NEW m \in T, NEW t, t = Append(s, m)
    PROVE  /\ t \in Seq(T)
           /\ \A S : In(t, S) <=> In(s, S) \/ m \in S
           /\ \A S : One(s, S) /\ (In(s, S) => m \notin S) => One(t, S)
  <1>1. /\ t \in Seq(T) /\ Len(t) = Len(s) + 1 /\ Len(s) \in Nat /\ t[Len(t)] = m
        /\ \A i \in 1..Len(s) : t[i] = s[i]
    OBVIOUS
  <1>2. \A S : In(t, S) <=> In(s, S) \/ m \in S
    BY <1>1 DEF In
  <1>3. ASSUME NEW S, One(s, S), In(s, S) => m \notin S PROVE One(t, S)
    <2> SUFFICES ASSUME NEW i \in 1..Len(t), NEW j \in 1..Len(t), t[i] \in S, t[j] \in S
                 PROVE  i = j
      BY DEF One
    <2>1. CASE i \in 1..Len(s) /\ j \in 1..Len(s)
      BY <1>1, <1>3, <2>1 DEF One
    <2>2. CASE ~(i \in 1..Len(s) /\ j \in 1..Len(s))
      BY <1>1, <1>3, <2>2 DEF In
    <2> QED
      BY <2>1, <2>2
  <1> QED
    BY <1>1, <1>2, <1>3

LEMMA TailFacts ==
    ASSUME NEW T, NEW s \in Seq(T), s # <<>>, NEW t, t = Tail(s), NEW m, m = Head(s)
    PROVE  /\ t \in Seq(T) /\ m \in T
           /\ \A S : In(s, S) <=> In(t, S) \/ m \in S
           /\ \A S : One(s, S) => One(t, S) /\ (m \in S => ~In(t, S))
  <1>1. /\ t \in Seq(T) /\ Len(t) = Len(s) - 1 /\ Len(s) \in Nat /\ Len(s) >= 1 /\ m = s[1] /\ m \in T
        /\ \A i \in 1..Len(t) : t[i] = s[i + 1] /\ i + 1 \in 1..Len(s)
    OBVIOUS
  <1>2. \A i \in 1..Len(s) : i # 1 => i - 1 \in 1..Len(t) /\ t[i - 1] = s[i]
    BY <1>1
  <1>3. ASSUME NEW S PROVE In(s, S) <=> In(t, S) \/ m \in S
    <2>1. 1 \in 1..Len(s) /\ s[1] = m
      BY <1>1
    <2>2. ASSUME NEW i \in 1..Len(s), s[i] \in S PROVE In(t, S) \/ m \in S
      BY <1>2, <2>1, <2>2 DEF In
    <2>3. ASSUME NEW i \in 1..Len(t), t[i] \in S PROVE In(s, S)
      BY <1>1, <2>3 DEF In
    <2> QED
      BY <2>1, <2>2, <2>3 DEF In
  <1>4. ASSUME NEW S, One(s, S) PROVE One(t, S)
    BY <1>1, <1>4 DEF One
  <1>5. ASSUME NEW S, One(s, S), m \in S PROVE ~In(t, S)
    <2> SUFFICES ASSUME NEW i \in 1..Len(t), t[i] \in S PROVE FALSE
      BY DEF In
    <2>1. i + 1 \in 1..Len(s) /\ 1 \in 1..Len(s) /\ s[i + 1] \in S /\ s[1] \in S
      BY <1>1, <1>5
    <2>2. i + 1 = 1
      BY <1>5, <2>1 DEF One
    <2> QED
      BY <2>2
  <1> QED
    BY <1>1, <1>3, <1>4, <1>5


LEMMA QueueAppend ==
    ASSUME queue \in Seq(Posts), NEW m \in Posts, queue' = Append(queue, m)
    PROVE  /\ queue' \in Seq(Posts)
           /\ \A S : In(queue', S) <=> In(queue, S) \/ m \in S
           /\ \A S : One(queue, S) /\ (In(queue, S) => m \notin S) => One(queue', S)
  <1>1. PICK s, t : s = queue /\ t = queue'
    OBVIOUS
  <1>2. /\ t \in Seq(Posts)
        /\ \A S : In(t, S) <=> In(s, S) \/ m \in S
        /\ \A S : One(s, S) /\ (In(s, S) => m \notin S) => One(t, S)
    <2>1. s \in Seq(Posts) /\ t = Append(s, m)
      BY <1>1
    <2> QED
      BY <2>1, AppendFacts
  <1> QED
    BY <1>1, <1>2

LEMMA QueueTail ==
    ASSUME queue \in Seq(Posts), queue # <<>>, NEW m, m = Head(queue), queue' = Tail(queue)
    PROVE  /\ queue' \in Seq(Posts) /\ m \in Posts
           /\ \A S : In(queue, S) <=> In(queue', S) \/ m \in S
           /\ \A S : One(queue, S) => One(queue', S) /\ (m \in S => ~In(queue', S))
  <1>1. PICK s, t : s = queue /\ t = queue'
    OBVIOUS
  <1>2. /\ t \in Seq(Posts) /\ m \in Posts
        /\ \A S : In(s, S) <=> In(t, S) \/ m \in S
        /\ \A S : One(s, S) => One(t, S) /\ (m \in S => ~In(t, S))
    <2>1. s \in Seq(Posts) /\ s # <<>> /\ m = Head(s) /\ t = Tail(s)
      BY <1>1
    <2> QED
      BY <2>1, TailFacts
  <1> QED
    BY <1>1, <1>2

LEMMA TasksAppend ==
    ASSUME tasks \in Seq(Tasks), NEW m \in Tasks, tasks' = Append(tasks, m)
    PROVE  /\ tasks' \in Seq(Tasks)
           /\ \A S : In(tasks', S) <=> In(tasks, S) \/ m \in S
           /\ \A S : One(tasks, S) /\ (In(tasks, S) => m \notin S) => One(tasks', S)
  <1>1. PICK s, t : s = tasks /\ t = tasks'
    OBVIOUS
  <1>2. /\ t \in Seq(Tasks)
        /\ \A S : In(t, S) <=> In(s, S) \/ m \in S
        /\ \A S : One(s, S) /\ (In(s, S) => m \notin S) => One(t, S)
    <2>1. s \in Seq(Tasks) /\ t = Append(s, m)
      BY <1>1
    <2> QED
      BY <2>1, AppendFacts
  <1> QED
    BY <1>1, <1>2

LEMMA TasksTail ==
    ASSUME tasks \in Seq(Tasks), tasks # <<>>, NEW m, m = Head(tasks), tasks' = Tail(tasks)
    PROVE  /\ tasks' \in Seq(Tasks) /\ m \in Tasks
           /\ \A S : In(tasks, S) <=> In(tasks', S) \/ m \in S
           /\ \A S : One(tasks, S) => One(tasks', S) /\ (m \in S => ~In(tasks', S))
  <1>1. PICK s, t : s = tasks /\ t = tasks'
    OBVIOUS
  <1>2. /\ t \in Seq(Tasks) /\ m \in Tasks
        /\ \A S : In(s, S) <=> In(t, S) \/ m \in S
        /\ \A S : One(s, S) => One(t, S) /\ (m \in S => ~In(t, S))
    <2>1. s \in Seq(Tasks) /\ s # <<>> /\ m = Head(s) /\ t = Tail(s)
      BY <1>1
    <2> QED
      BY <2>1, TailFacts
  <1> QED
    BY <1>1, <1>2

-----------------------------------------------------------------------------
(* Every step keeps it.                                                    *)

\* OpenCV does not load.
LEMMA NoOpenCvStep ==
    ASSUME IInv, NoOpenCv
    PROVE  IInv'
  <1>1. Types'
    BY DEF IInv, Types, Wrappers, Tasks, TaskPoints, NoOpenCv, OnScreen, Finish, mainVars,
       taskVars, pixVars, Live
  <1>2. OneLoad'
    BY DEF IInv, Types, OneLoad, LoadPoints, LoadPosts, DataThere, FieldPix, NoOpenCv, OnScreen,
       Finish, mainVars, taskVars, pixVars, Live
  <1>3. OneCrop'
    BY DEF IInv, Types, OneCrop, OneOcrScreen, ClipPoints, CardPoints, CropTasks, CropPosts,
       NoOpenCv, OnScreen, Finish, mainVars, taskVars, pixVars, Live
  <1>4. DataThere'
    BY DEF IInv, Types, DataThere, OneLoad, OneCrop, LoadPoints, LoadPosts, ClipPoints,
       CardPoints, CropTasks, CropPosts, NoOpenCv, OnScreen, Finish, mainVars, taskVars,
       pixVars, Live
  <1>5. FieldPix'
    BY DEF IInv, Types, FieldPix, OneLoad, OneCrop, ClipPoints, CardPoints, CropTasks,
       CropPosts, LoadPoints, LoadPosts, DataThere, Wrappers, NoOpenCv, OnScreen, Finish,
       mainVars, taskVars, pixVars, Live
  <1>6. PhotoRefs'
    BY DEF IInv, Types, PhotoRefs, FieldPix, OneLoad, OneCrop, LoadPoints, LoadPosts,
       ClipPoints, CardPoints, Wrappers, Tasks, NoOpenCv, OnScreen, Finish, mainVars, taskVars,
       pixVars, Live
  <1>7. CardRefs'
    BY DEF IInv, Types, CardRefs, FieldPix, OneLoad, OneCrop, LoadPoints, ClipPoints,
       CardPoints, Wrappers, PhotoRefs, NoOpenCv, OnScreen, Finish, mainVars, taskVars, pixVars,
       Live
  <1>8. Outcome'
    BY DEF IInv, Types, Outcome, HandsOverLiveCard, OneCrop, DataThere, FieldPix, PhotoRefs,
       CardRefs, CropPosts, CropTasks, ClipPoints, CardPoints, LoadPoints, OneLoad, Wrappers,
       NoOpenCv, OnScreen, Finish, mainVars, taskVars, pixVars, Live
  <1> QED
    BY <1>1, <1>2, <1>3, <1>4, <1>5, <1>6, <1>7, <1>8 DEF IInv

\* The load task gets a reference of its own.
LEMMA FirstLayoutStep ==
    ASSUME IInv, FirstLayout
    PROVE  IInv'
  <1>t. /\ tasks' \in Seq(Tasks)
        /\ In(tasks', {"blur"})
        /\ In(tasks', CropTasks) <=> In(tasks, CropTasks)
        /\ In(tasks', {"detect"}) <=> In(tasks, {"detect"})
        /\ In(tasks', {"crop"}) <=> In(tasks, {"crop"})
        /\ In(tasks', {"process"}) <=> In(tasks, {"process"})
        /\ One(tasks, {"blur"}) /\ ~In(tasks, {"blur"}) => One(tasks', {"blur"})
        /\ One(tasks, CropTasks) => One(tasks', CropTasks)
    <2>1. tasks \in Seq(Tasks) /\ "blur" \in Tasks /\ tasks' = Append(tasks, "blur")
      BY DEF IInv, Types, Tasks, FirstLayout, OnScreen, Adding, Execute, mainVars, Live
    <2> QED
      BY <2>1, TasksAppend DEF CropTasks
  <1>1. Types'
    BY <1>t DEF IInv, Types, Wrappers, Tasks, TaskPoints, FirstLayout, OnScreen, Adding,
       Execute, mainVars, Live
  <1>2. OneLoad'
    BY <1>t DEF IInv, Types, OneLoad, LoadPoints, LoadPosts, DataThere, FieldPix, FirstLayout,
       OnScreen, Adding, Execute, mainVars, Live
  <1>3. OneCrop'
    BY <1>t DEF IInv, Types, OneCrop, OneOcrScreen, ClipPoints, CardPoints, CropTasks,
       CropPosts, FirstLayout, OnScreen, Adding, Execute, mainVars, Live
  <1>4. DataThere'
    BY <1>t DEF IInv, Types, DataThere, OneLoad, OneCrop, LoadPoints, LoadPosts, ClipPoints,
       CardPoints, CropTasks, CropPosts, FirstLayout, OnScreen, Adding, Execute, mainVars, Live
  <1>5. FieldPix'
    BY <1>t DEF IInv, Types, FieldPix, OneLoad, OneCrop, ClipPoints, CardPoints, CropTasks,
       CropPosts, LoadPoints, LoadPosts, DataThere, Wrappers, FirstLayout, OnScreen, Adding,
       Execute, mainVars, Live
  <1>6. PhotoRefs'
    BY <1>t DEF IInv, Types, PhotoRefs, FieldPix, OneLoad, OneCrop, LoadPoints, LoadPosts,
       ClipPoints, CardPoints, Wrappers, Tasks, FirstLayout, OnScreen, Adding, Execute,
       mainVars, Live
  <1>7. CardRefs'
    BY <1>t DEF IInv, Types, CardRefs, FieldPix, OneLoad, OneCrop, LoadPoints, ClipPoints,
       CardPoints, Wrappers, PhotoRefs, FirstLayout, OnScreen, Adding, Execute, mainVars, Live
  <1>8. Outcome'
    BY <1>t DEF IInv, Types, Outcome, HandsOverLiveCard, OneCrop, DataThere, FieldPix,
       PhotoRefs, CardRefs, CropPosts, CropTasks, ClipPoints, CardPoints, LoadPoints, OneLoad,
       Wrappers, FirstLayout, OnScreen, Adding, Execute, mainVars, Live
  <1> QED
    BY <1>1, <1>2, <1>3, <1>4, <1>5, <1>6, <1>7, <1>8 DEF IInv

\* The data is there: onDestroy has not taken it.
LEMMA ShowPhotoStep ==
    ASSUME IInv, ShowPhoto
    PROVE  IInv'
  <1>1. Types'
    <2>1. relayout' \in BOOLEAN /\ frame' \in BOOLEAN /\ warning' \in BOOLEAN
      BY Zenon DEF IInv, Types, ShowPhoto, OnScreen, mainVars, taskVars, pixVars, Live
    <2> QED
      BY <2>1 DEF IInv, Types, Wrappers, Tasks, TaskPoints, ShowPhoto, OnScreen, mainVars,
         taskVars, pixVars, Live
  <1>2. OneLoad'
    BY DEF IInv, Types, OneLoad, LoadPoints, LoadPosts, DataThere, FieldPix, ShowPhoto,
       OnScreen, mainVars, taskVars, pixVars, Live
  <1>3. OneCrop'
    BY DEF IInv, Types, OneCrop, OneOcrScreen, ClipPoints, CardPoints, CropTasks, CropPosts,
       ShowPhoto, OnScreen, mainVars, taskVars, pixVars, Live
  <1>4. DataThere'
    BY DEF IInv, Types, DataThere, OneLoad, OneCrop, LoadPoints, LoadPosts, ClipPoints,
       CardPoints, CropTasks, CropPosts, ShowPhoto, OnScreen, mainVars, taskVars, pixVars, Live
  <1>5. FieldPix'
    BY DEF IInv, Types, FieldPix, OneLoad, OneCrop, ClipPoints, CardPoints, CropTasks,
       CropPosts, LoadPoints, LoadPosts, DataThere, Wrappers, ShowPhoto, OnScreen, mainVars,
       taskVars, pixVars, Live
  <1>6. PhotoRefs'
    BY DEF IInv, Types, PhotoRefs, FieldPix, OneLoad, OneCrop, LoadPoints, LoadPosts,
       ClipPoints, CardPoints, Wrappers, Tasks, ShowPhoto, OnScreen, mainVars, taskVars,
       pixVars, Live
  <1>7. CardRefs'
    BY DEF IInv, Types, CardRefs, FieldPix, OneLoad, OneCrop, LoadPoints, ClipPoints,
       CardPoints, Wrappers, PhotoRefs, ShowPhoto, OnScreen, mainVars, taskVars, pixVars, Live
  <1>8. Outcome'
    BY DEF IInv, Types, Outcome, HandsOverLiveCard, OneCrop, DataThere, FieldPix, PhotoRefs,
       CardRefs, CropPosts, CropTasks, ClipPoints, CardPoints, LoadPoints, OneLoad, Wrappers,
       ShowPhoto, OnScreen, mainVars, taskVars, pixVars, Live
  <1> QED
    BY <1>1, <1>2, <1>3, <1>4, <1>5, <1>6, <1>7, <1>8 DEF IInv

\* Only the frame is new.
LEMMA RotateStep ==
    ASSUME IInv, Rotate
    PROVE  IInv'
  <1>1. Types'
    BY DEF IInv, Types, Wrappers, Tasks, TaskPoints, Rotate, OnScreen, mainVars, taskVars,
       pixVars, Live
  <1>2. OneLoad'
    BY DEF IInv, Types, OneLoad, LoadPoints, LoadPosts, DataThere, FieldPix, Rotate, OnScreen,
       mainVars, taskVars, pixVars, Live
  <1>3. OneCrop'
    BY DEF IInv, Types, OneCrop, OneOcrScreen, ClipPoints, CardPoints, CropTasks, CropPosts,
       Rotate, OnScreen, mainVars, taskVars, pixVars, Live
  <1>4. DataThere'
    BY DEF IInv, Types, DataThere, OneLoad, OneCrop, LoadPoints, LoadPosts, ClipPoints,
       CardPoints, CropTasks, CropPosts, Rotate, OnScreen, mainVars, taskVars, pixVars, Live
  <1>5. FieldPix'
    BY DEF IInv, Types, FieldPix, OneLoad, OneCrop, ClipPoints, CardPoints, CropTasks,
       CropPosts, LoadPoints, LoadPosts, DataThere, Wrappers, Rotate, OnScreen, mainVars,
       taskVars, pixVars, Live
  <1>6. PhotoRefs'
    BY DEF IInv, Types, PhotoRefs, FieldPix, OneLoad, OneCrop, LoadPoints, LoadPosts,
       ClipPoints, CardPoints, Wrappers, Tasks, Rotate, OnScreen, mainVars, taskVars, pixVars,
       Live
  <1>7. CardRefs'
    BY DEF IInv, Types, CardRefs, FieldPix, OneLoad, OneCrop, LoadPoints, ClipPoints,
       CardPoints, Wrappers, PhotoRefs, Rotate, OnScreen, mainVars, taskVars, pixVars, Live
  <1>8. Outcome'
    BY DEF IInv, Types, Outcome, HandsOverLiveCard, OneCrop, DataThere, FieldPix, PhotoRefs,
       CardRefs, CropPosts, CropTasks, ClipPoints, CardPoints, LoadPoints, OneLoad, Wrappers,
       Rotate, OnScreen, mainVars, taskVars, pixVars, Live
  <1> QED
    BY <1>1, <1>2, <1>3, <1>4, <1>5, <1>6, <1>7, <1>8 DEF IInv

\* Only the frame is new.
LEMMA ContinueStep ==
    ASSUME IInv, Continue
    PROVE  IInv'
  <1>1. Types'
    <2>1. warning' \in BOOLEAN /\ frame' \in BOOLEAN
      BY Zenon DEF IInv, Types, Continue, OnScreen, mainVars, taskVars, pixVars, Live
    <2> QED
      BY <2>1 DEF IInv, Types, Wrappers, Tasks, TaskPoints, Continue, OnScreen, mainVars,
         taskVars, pixVars, Live
  <1>2. OneLoad'
    BY DEF IInv, Types, OneLoad, LoadPoints, LoadPosts, DataThere, FieldPix, Continue, OnScreen,
       mainVars, taskVars, pixVars, Live
  <1>3. OneCrop'
    BY DEF IInv, Types, OneCrop, OneOcrScreen, ClipPoints, CardPoints, CropTasks, CropPosts,
       Continue, OnScreen, mainVars, taskVars, pixVars, Live
  <1>4. DataThere'
    BY DEF IInv, Types, DataThere, OneLoad, OneCrop, LoadPoints, LoadPosts, ClipPoints,
       CardPoints, CropTasks, CropPosts, Continue, OnScreen, mainVars, taskVars, pixVars, Live
  <1>5. FieldPix'
    BY DEF IInv, Types, FieldPix, OneLoad, OneCrop, ClipPoints, CardPoints, CropTasks,
       CropPosts, LoadPoints, LoadPosts, DataThere, Wrappers, Continue, OnScreen, mainVars,
       taskVars, pixVars, Live
  <1>6. PhotoRefs'
    BY DEF IInv, Types, PhotoRefs, FieldPix, OneLoad, OneCrop, LoadPoints, LoadPosts,
       ClipPoints, CardPoints, Wrappers, Tasks, Continue, OnScreen, mainVars, taskVars, pixVars,
       Live
  <1>7. CardRefs'
    BY DEF IInv, Types, CardRefs, FieldPix, OneLoad, OneCrop, LoadPoints, ClipPoints,
       CardPoints, Wrappers, PhotoRefs, Continue, OnScreen, mainVars, taskVars, pixVars, Live
  <1>8. Outcome'
    BY DEF IInv, Types, Outcome, HandsOverLiveCard, OneCrop, DataThere, FieldPix, PhotoRefs,
       CardRefs, CropPosts, CropTasks, ClipPoints, CardPoints, LoadPoints, OneLoad, Wrappers,
       Continue, OnScreen, mainVars, taskVars, pixVars, Live
  <1> QED
    BY <1>1, <1>2, <1>3, <1>4, <1>5, <1>6, <1>7, <1>8 DEF IInv

\* Only the dialog goes.
LEMMA DismissWarningStep ==
    ASSUME IInv, DismissWarning
    PROVE  IInv'
  <1>1. Types'
    <2>1. warning' \in BOOLEAN
      BY Zenon DEF IInv, Types, DismissWarning, OnScreen, mainVars, taskVars, pixVars, Live
    <2> QED
      BY <2>1 DEF IInv, Types, Wrappers, Tasks, TaskPoints, DismissWarning, OnScreen, mainVars,
         taskVars, pixVars, Live
  <1>2. OneLoad'
    BY DEF IInv, Types, OneLoad, LoadPoints, LoadPosts, DataThere, FieldPix, DismissWarning,
       OnScreen, mainVars, taskVars, pixVars, Live
  <1>3. OneCrop'
    BY DEF IInv, Types, OneCrop, OneOcrScreen, ClipPoints, CardPoints, CropTasks, CropPosts,
       DismissWarning, OnScreen, mainVars, taskVars, pixVars, Live
  <1>4. DataThere'
    BY DEF IInv, Types, DataThere, OneLoad, OneCrop, LoadPoints, LoadPosts, ClipPoints,
       CardPoints, CropTasks, CropPosts, DismissWarning, OnScreen, mainVars, taskVars, pixVars,
       Live
  <1>5. FieldPix'
    BY DEF IInv, Types, FieldPix, OneLoad, OneCrop, ClipPoints, CardPoints, CropTasks,
       CropPosts, LoadPoints, LoadPosts, DataThere, Wrappers, DismissWarning, OnScreen,
       mainVars, taskVars, pixVars, Live
  <1>6. PhotoRefs'
    BY DEF IInv, Types, PhotoRefs, FieldPix, OneLoad, OneCrop, LoadPoints, LoadPosts,
       ClipPoints, CardPoints, Wrappers, Tasks, DismissWarning, OnScreen, mainVars, taskVars,
       pixVars, Live
  <1>7. CardRefs'
    BY DEF IInv, Types, CardRefs, FieldPix, OneLoad, OneCrop, LoadPoints, ClipPoints,
       CardPoints, Wrappers, PhotoRefs, DismissWarning, OnScreen, mainVars, taskVars, pixVars,
       Live
  <1>8. Outcome'
    BY DEF IInv, Types, Outcome, HandsOverLiveCard, OneCrop, DataThere, FieldPix, PhotoRefs,
       CardRefs, CropPosts, CropTasks, ClipPoints, CardPoints, LoadPoints, OneLoad, Wrappers,
       DismissWarning, OnScreen, mainVars, taskVars, pixVars, Live
  <1> QED
    BY <1>1, <1>2, <1>3, <1>4, <1>5, <1>6, <1>7, <1>8 DEF IInv

\* The wrapper is tested.
LEMMA BackStep ==
    ASSUME IInv, Back
    PROVE  IInv'
  <1>1. Types'
    <2>1. warning' \in BOOLEAN
      BY Zenon DEF IInv, Types, Back, OnScreen, Finish, taskVars, pixVars, Live
    <2> QED
      BY <2>1 DEF IInv, Types, Wrappers, Tasks, TaskPoints, Back, OnScreen, Finish, taskVars,
         pixVars, Live
  <1>2. OneLoad'
    BY DEF IInv, Types, OneLoad, LoadPoints, LoadPosts, DataThere, FieldPix, Back, OnScreen,
       Finish, taskVars, pixVars, Live
  <1>3. OneCrop'
    BY DEF IInv, Types, OneCrop, OneOcrScreen, ClipPoints, CardPoints, CropTasks, CropPosts,
       Back, OnScreen, Finish, taskVars, pixVars, Live
  <1>4. DataThere'
    BY DEF IInv, Types, DataThere, OneLoad, OneCrop, LoadPoints, LoadPosts, ClipPoints,
       CardPoints, CropTasks, CropPosts, Back, OnScreen, Finish, taskVars, pixVars, Live
  <1>5. FieldPix'
    BY DEF IInv, Types, FieldPix, OneLoad, OneCrop, ClipPoints, CardPoints, CropTasks,
       CropPosts, LoadPoints, LoadPosts, DataThere, Wrappers, Back, OnScreen, Finish, taskVars,
       pixVars, Live
  <1>6. PhotoRefs'
    BY DEF IInv, Types, PhotoRefs, FieldPix, OneLoad, OneCrop, LoadPoints, LoadPosts,
       ClipPoints, CardPoints, Wrappers, Tasks, Back, OnScreen, Finish, taskVars, pixVars, Live
  <1>7. CardRefs'
    BY DEF IInv, Types, CardRefs, FieldPix, OneLoad, OneCrop, LoadPoints, ClipPoints,
       CardPoints, Wrappers, PhotoRefs, Back, OnScreen, Finish, taskVars, pixVars, Live
  <1>8. Outcome'
    BY DEF IInv, Types, Outcome, HandsOverLiveCard, OneCrop, DataThere, FieldPix, PhotoRefs,
       CardRefs, CropPosts, CropTasks, ClipPoints, CardPoints, LoadPoints, OneLoad, Wrappers,
       Back, OnScreen, Finish, taskVars, pixVars, Live
  <1> QED
    BY <1>1, <1>2, <1>3, <1>4, <1>5, <1>6, <1>7, <1>8 DEF IInv

\* The reference is still there.
LEMMA BackRecyclesStep ==
    ASSUME IInv, BackRecycles
    PROVE  IInv'
  <1>1. Types'
    BY DEF IInv, Types, Wrappers, Tasks, TaskPoints, BackRecycles, Live, Destroyed, viewVars,
       taskVars, Adding, Read
  <1>2. OneLoad'
    BY DEF IInv, Types, OneLoad, LoadPoints, LoadPosts, DataThere, FieldPix, BackRecycles, Live,
       Destroyed, viewVars, taskVars, Adding, Read
  <1>3. OneCrop'
    BY DEF IInv, Types, OneCrop, OneOcrScreen, ClipPoints, CardPoints, CropTasks, CropPosts,
       BackRecycles, Live, Destroyed, viewVars, taskVars, Adding, Read
  <1>4. DataThere'
    BY DEF IInv, Types, DataThere, OneLoad, OneCrop, LoadPoints, LoadPosts, ClipPoints,
       CardPoints, CropTasks, CropPosts, BackRecycles, Live, Destroyed, viewVars, taskVars,
       Adding, Read
  <1>5. FieldPix'
    BY DEF IInv, Types, FieldPix, OneLoad, OneCrop, ClipPoints, CardPoints, CropTasks,
       CropPosts, LoadPoints, LoadPosts, DataThere, Wrappers, BackRecycles, Live, Destroyed,
       viewVars, taskVars, Adding, Read
  <1>6. PhotoRefs'
    BY DEF IInv, Types, PhotoRefs, FieldPix, OneLoad, OneCrop, LoadPoints, LoadPosts,
       ClipPoints, CardPoints, Wrappers, Tasks, BackRecycles, Live, Destroyed, viewVars,
       taskVars, Adding, Read
  <1>7. CardRefs'
    BY DEF IInv, Types, CardRefs, FieldPix, OneLoad, OneCrop, LoadPoints, ClipPoints,
       CardPoints, Wrappers, PhotoRefs, BackRecycles, Live, Destroyed, viewVars, taskVars,
       Adding, Read
  <1>8. Outcome'
    BY DEF IInv, Types, Outcome, HandsOverLiveCard, OneCrop, DataThere, FieldPix, PhotoRefs,
       CardRefs, CropPosts, CropTasks, ClipPoints, CardPoints, LoadPoints, OneLoad, Wrappers,
       BackRecycles, Live, Destroyed, viewVars, taskVars, Adding, Read
  <1> QED
    BY <1>1, <1>2, <1>3, <1>4, <1>5, <1>6, <1>7, <1>8 DEF IInv

\* The first crop, and the only one.
LEMMA CropStep ==
    ASSUME IInv, Crop
    PROVE  IInv'
  <1>t. /\ tasks' \in Seq(Tasks)
        /\ In(tasks', {"blur"}) <=> In(tasks, {"blur"})
        /\ In(tasks', CropTasks)
        /\ In(tasks', {"detect"}) <=> In(tasks, {"detect"})
        /\ In(tasks', {"crop"})
        /\ In(tasks', {"process"}) <=> In(tasks, {"process"})
        /\ One(tasks, {"blur"}) => One(tasks', {"blur"})
        /\ One(tasks, CropTasks) /\ ~In(tasks, CropTasks) => One(tasks', CropTasks)
    <2>1. tasks \in Seq(Tasks) /\ "crop" \in Tasks /\ tasks' = Append(tasks, "crop")
      BY DEF IInv, Types, Tasks, Crop, OnScreen, Execute, mainVars, pixVars, Live
    <2> QED
      BY <2>1, TasksAppend DEF CropTasks
  <1>1. Types'
    BY <1>t DEF IInv, Types, Wrappers, Tasks, TaskPoints, Crop, OnScreen, Execute, mainVars,
       pixVars, Live
  <1>2. OneLoad'
    BY <1>t DEF IInv, Types, OneLoad, LoadPoints, LoadPosts, DataThere, FieldPix, Crop,
       OnScreen, Execute, mainVars, pixVars, Live
  <1>3. OneCrop'
    BY <1>t DEF IInv, Types, OneCrop, OneOcrScreen, ClipPoints, CardPoints, CropTasks,
       CropPosts, Crop, OnScreen, Execute, mainVars, pixVars, Live
  <1>4. DataThere'
    BY <1>t DEF IInv, Types, DataThere, OneLoad, OneCrop, LoadPoints, LoadPosts, ClipPoints,
       CardPoints, CropTasks, CropPosts, Crop, OnScreen, Execute, mainVars, pixVars, Live
  <1>5. FieldPix'
    BY <1>t DEF IInv, Types, FieldPix, OneLoad, OneCrop, ClipPoints, CardPoints, CropTasks,
       CropPosts, LoadPoints, LoadPosts, DataThere, Wrappers, Crop, OnScreen, Execute, mainVars,
       pixVars, Live
  <1>6. PhotoRefs'
    BY <1>t DEF IInv, Types, PhotoRefs, FieldPix, OneLoad, OneCrop, LoadPoints, LoadPosts,
       ClipPoints, CardPoints, Wrappers, Tasks, Crop, OnScreen, Execute, mainVars, pixVars, Live
  <1>7. CardRefs'
    BY <1>t DEF IInv, Types, CardRefs, FieldPix, OneLoad, OneCrop, LoadPoints, ClipPoints,
       CardPoints, Wrappers, PhotoRefs, Crop, OnScreen, Execute, mainVars, pixVars, Live
  <1>8. Outcome'
    BY <1>t DEF IInv, Types, Outcome, HandsOverLiveCard, OneCrop, DataThere, FieldPix,
       PhotoRefs, CardRefs, CropPosts, CropTasks, ClipPoints, CardPoints, LoadPoints, OneLoad,
       Wrappers, Crop, OnScreen, Execute, mainVars, pixVars, Live
  <1> QED
    BY <1>1, <1>2, <1>3, <1>4, <1>5, <1>6, <1>7, <1>8 DEF IInv

\* The photo is there.
LEMMA LoadBlurStep ==
    ASSUME IInv, LoadBlur
    PROVE  IInv'
  <1>1. Types'
    BY DEF IInv, Types, Wrappers, Tasks, TaskPoints, LoadBlur, TaskAt, Read, viewVars, mainVars,
       pixVars, Live
  <1>2. OneLoad'
    BY DEF IInv, Types, OneLoad, LoadPoints, LoadPosts, DataThere, FieldPix, LoadBlur, TaskAt,
       Read, viewVars, mainVars, pixVars, Live
  <1>3. OneCrop'
    BY DEF IInv, Types, OneCrop, OneOcrScreen, ClipPoints, CardPoints, CropTasks, CropPosts,
       LoadBlur, TaskAt, Read, viewVars, mainVars, pixVars, Live
  <1>4. DataThere'
    BY DEF IInv, Types, DataThere, OneLoad, OneCrop, LoadPoints, LoadPosts, ClipPoints,
       CardPoints, CropTasks, CropPosts, LoadBlur, TaskAt, Read, viewVars, mainVars, pixVars,
       Live
  <1>5. FieldPix'
    BY DEF IInv, Types, FieldPix, OneLoad, OneCrop, ClipPoints, CardPoints, CropTasks,
       CropPosts, LoadPoints, LoadPosts, DataThere, Wrappers, LoadBlur, TaskAt, Read, viewVars,
       mainVars, pixVars, Live
  <1>6. PhotoRefs'
    BY DEF IInv, Types, PhotoRefs, FieldPix, OneLoad, OneCrop, LoadPoints, LoadPosts,
       ClipPoints, CardPoints, Wrappers, Tasks, LoadBlur, TaskAt, Read, viewVars, mainVars,
       pixVars, Live
  <1>7. CardRefs'
    BY DEF IInv, Types, CardRefs, FieldPix, OneLoad, OneCrop, LoadPoints, ClipPoints,
       CardPoints, Wrappers, PhotoRefs, LoadBlur, TaskAt, Read, viewVars, mainVars, pixVars,
       Live
  <1>8. Outcome'
    BY DEF IInv, Types, Outcome, HandsOverLiveCard, OneCrop, DataThere, FieldPix, PhotoRefs,
       CardRefs, CropPosts, CropTasks, ClipPoints, CardPoints, LoadPoints, OneLoad, Wrappers,
       LoadBlur, TaskAt, Read, viewVars, mainVars, pixVars, Live
  <1> QED
    BY <1>1, <1>2, <1>3, <1>4, <1>5, <1>6, <1>7, <1>8 DEF IInv

\* The photo is there, and one reference leaks.
LEMMA LoadScaleStep ==
    ASSUME IInv, LoadScale
    PROVE  IInv'
  <1>1. Types'
    BY DEF IInv, Types, Wrappers, Tasks, TaskPoints, LoadScale, TaskAt, Read, Adding, LoadLeaks,
       viewVars, mainVars, Live
  <1>2. OneLoad'
    BY DEF IInv, Types, OneLoad, LoadPoints, LoadPosts, DataThere, FieldPix, LoadScale, TaskAt,
       Read, Adding, LoadLeaks, viewVars, mainVars, Live
  <1>3. OneCrop'
    BY DEF IInv, Types, OneCrop, OneOcrScreen, ClipPoints, CardPoints, CropTasks, CropPosts,
       LoadScale, TaskAt, Read, Adding, LoadLeaks, viewVars, mainVars, Live
  <1>4. DataThere'
    BY DEF IInv, Types, DataThere, OneLoad, OneCrop, LoadPoints, LoadPosts, ClipPoints,
       CardPoints, CropTasks, CropPosts, LoadScale, TaskAt, Read, Adding, LoadLeaks, viewVars,
       mainVars, Live
  <1>5. FieldPix'
    BY DEF IInv, Types, FieldPix, OneLoad, OneCrop, ClipPoints, CardPoints, CropTasks,
       CropPosts, LoadPoints, LoadPosts, DataThere, Wrappers, LoadScale, TaskAt, Read, Adding,
       LoadLeaks, viewVars, mainVars, Live
  <1>6. PhotoRefs'
    BY DEF IInv, Types, PhotoRefs, FieldPix, OneLoad, OneCrop, LoadPoints, LoadPosts,
       ClipPoints, CardPoints, Wrappers, Tasks, LoadScale, TaskAt, Read, Adding, LoadLeaks,
       viewVars, mainVars, Live
  <1>7. CardRefs'
    BY DEF IInv, Types, CardRefs, FieldPix, OneLoad, OneCrop, LoadPoints, ClipPoints,
       CardPoints, Wrappers, PhotoRefs, LoadScale, TaskAt, Read, Adding, LoadLeaks, viewVars,
       mainVars, Live
  <1>8. Outcome'
    BY DEF IInv, Types, Outcome, HandsOverLiveCard, OneCrop, DataThere, FieldPix, PhotoRefs,
       CardRefs, CropPosts, CropTasks, ClipPoints, CardPoints, LoadPoints, OneLoad, Wrappers,
       LoadScale, TaskAt, Read, Adding, LoadLeaks, viewVars, mainVars, Live
  <1> QED
    BY <1>1, <1>2, <1>3, <1>4, <1>5, <1>6, <1>7, <1>8 DEF IInv

\* Nothing native happens.
LEMMA LoadBitmapStep ==
    ASSUME IInv, LoadBitmap
    PROVE  IInv'
  <1>1. Types'
    BY DEF IInv, Types, Wrappers, Tasks, TaskPoints, LoadBitmap, TaskAt, viewVars, mainVars,
       pixVars, Live
  <1>2. OneLoad'
    BY DEF IInv, Types, OneLoad, LoadPoints, LoadPosts, DataThere, FieldPix, LoadBitmap, TaskAt,
       viewVars, mainVars, pixVars, Live
  <1>3. OneCrop'
    BY DEF IInv, Types, OneCrop, OneOcrScreen, ClipPoints, CardPoints, CropTasks, CropPosts,
       LoadBitmap, TaskAt, viewVars, mainVars, pixVars, Live
  <1>4. DataThere'
    BY DEF IInv, Types, DataThere, OneLoad, OneCrop, LoadPoints, LoadPosts, ClipPoints,
       CardPoints, CropTasks, CropPosts, LoadBitmap, TaskAt, viewVars, mainVars, pixVars, Live
  <1>5. FieldPix'
    BY DEF IInv, Types, FieldPix, OneLoad, OneCrop, ClipPoints, CardPoints, CropTasks,
       CropPosts, LoadPoints, LoadPosts, DataThere, Wrappers, LoadBitmap, TaskAt, viewVars,
       mainVars, pixVars, Live
  <1>6. PhotoRefs'
    BY DEF IInv, Types, PhotoRefs, FieldPix, OneLoad, OneCrop, LoadPoints, LoadPosts,
       ClipPoints, CardPoints, Wrappers, Tasks, LoadBitmap, TaskAt, viewVars, mainVars, pixVars,
       Live
  <1>7. CardRefs'
    BY DEF IInv, Types, CardRefs, FieldPix, OneLoad, OneCrop, LoadPoints, ClipPoints,
       CardPoints, Wrappers, PhotoRefs, LoadBitmap, TaskAt, viewVars, mainVars, pixVars, Live
  <1>8. Outcome'
    BY DEF IInv, Types, Outcome, HandsOverLiveCard, OneCrop, DataThere, FieldPix, PhotoRefs,
       CardRefs, CropPosts, CropTasks, ClipPoints, CardPoints, LoadPoints, OneLoad, Wrappers,
       LoadBitmap, TaskAt, viewVars, mainVars, pixVars, Live
  <1> QED
    BY <1>1, <1>2, <1>3, <1>4, <1>5, <1>6, <1>7, <1>8 DEF IInv

\* The detection posts its result.
LEMMA DetectStep ==
    ASSUME IInv, Detect
    PROVE  IInv'
  <1>q. /\ queue' \in Seq(Posts)
        /\ In(queue', LoadPosts) <=> In(queue, LoadPosts)
        /\ In(queue', CropPosts) <=> In(queue, CropPosts)
        /\ In(queue', {"DETECTED"})
        /\ In(queue', {"CROPPED", "PROCESSED"}) <=> In(queue, {"CROPPED", "PROCESSED"})
        /\ One(queue, LoadPosts) => One(queue', LoadPosts)
        /\ One(queue, CropPosts) => One(queue', CropPosts)
    <2>1. queue \in Seq(Posts) /\ "DETECTED" \in Posts /\ queue' = Append(queue, "DETECTED")
      BY DEF IInv, Types, Posts, Detect, TaskAt, Post, viewVars, pixVars, Live
    <2> QED
      BY <2>1, QueueAppend DEF LoadPosts, CropPosts
  <1>1. Types'
    BY <1>q DEF IInv, Types, Wrappers, Tasks, TaskPoints, Detect, TaskAt, Post, viewVars,
       pixVars, Live
  <1>2. OneLoad'
    BY <1>q DEF IInv, Types, OneLoad, LoadPoints, LoadPosts, DataThere, FieldPix, Detect,
       TaskAt, Post, viewVars, pixVars, Live
  <1>3. OneCrop'
    BY <1>q DEF IInv, Types, OneCrop, OneOcrScreen, ClipPoints, CardPoints, CropTasks,
       CropPosts, Detect, TaskAt, Post, viewVars, pixVars, Live
  <1>4. DataThere'
    BY <1>q DEF IInv, Types, DataThere, OneLoad, OneCrop, LoadPoints, LoadPosts, ClipPoints,
       CardPoints, CropTasks, CropPosts, Detect, TaskAt, Post, viewVars, pixVars, Live
  <1>5. FieldPix'
    BY <1>q DEF IInv, Types, FieldPix, OneLoad, OneCrop, ClipPoints, CardPoints, CropTasks,
       CropPosts, LoadPoints, LoadPosts, DataThere, Wrappers, Detect, TaskAt, Post, viewVars,
       pixVars, Live
  <1>6. PhotoRefs'
    BY <1>q DEF IInv, Types, PhotoRefs, FieldPix, OneLoad, OneCrop, LoadPoints, LoadPosts,
       ClipPoints, CardPoints, Wrappers, Tasks, Detect, TaskAt, Post, viewVars, pixVars, Live
  <1>7. CardRefs'
    BY <1>q DEF IInv, Types, CardRefs, FieldPix, OneLoad, OneCrop, LoadPoints, ClipPoints,
       CardPoints, Wrappers, PhotoRefs, Detect, TaskAt, Post, viewVars, pixVars, Live
  <1>8. Outcome'
    BY <1>q DEF IInv, Types, Outcome, HandsOverLiveCard, OneCrop, DataThere, FieldPix,
       PhotoRefs, CardRefs, CropPosts, CropTasks, ClipPoints, CardPoints, LoadPoints, OneLoad,
       Wrappers, Detect, TaskAt, Post, viewVars, pixVars, Live
  <1> QED
    BY <1>1, <1>2, <1>3, <1>4, <1>5, <1>6, <1>7, <1>8 DEF IInv

\* The wrapper is tested.
LEMMA CropChecksStep ==
    ASSUME IInv, CropChecks
    PROVE  IInv'
  <1>1. Types'
    BY DEF IInv, Types, Wrappers, Tasks, TaskPoints, CropChecks, TaskAt, viewVars, mainVars,
       pixVars, Live
  <1>2. OneLoad'
    BY DEF IInv, Types, OneLoad, LoadPoints, LoadPosts, DataThere, FieldPix, CropChecks, TaskAt,
       viewVars, mainVars, pixVars, Live
  <1>3. OneCrop'
    BY DEF IInv, Types, OneCrop, OneOcrScreen, ClipPoints, CardPoints, CropTasks, CropPosts,
       CropChecks, TaskAt, viewVars, mainVars, pixVars, Live
  <1>4. DataThere'
    BY DEF IInv, Types, DataThere, OneLoad, OneCrop, LoadPoints, LoadPosts, ClipPoints,
       CardPoints, CropTasks, CropPosts, CropChecks, TaskAt, viewVars, mainVars, pixVars, Live
  <1>5. FieldPix'
    BY DEF IInv, Types, FieldPix, OneLoad, OneCrop, ClipPoints, CardPoints, CropTasks,
       CropPosts, LoadPoints, LoadPosts, DataThere, Wrappers, CropChecks, TaskAt, viewVars,
       mainVars, pixVars, Live
  <1>6. PhotoRefs'
    BY DEF IInv, Types, PhotoRefs, FieldPix, OneLoad, OneCrop, LoadPoints, LoadPosts,
       ClipPoints, CardPoints, Wrappers, Tasks, CropChecks, TaskAt, viewVars, mainVars, pixVars,
       Live
  <1>7. CardRefs'
    BY DEF IInv, Types, CardRefs, FieldPix, OneLoad, OneCrop, LoadPoints, ClipPoints,
       CardPoints, Wrappers, PhotoRefs, CropChecks, TaskAt, viewVars, mainVars, pixVars, Live
  <1>8. Outcome'
    BY DEF IInv, Types, Outcome, HandsOverLiveCard, OneCrop, DataThere, FieldPix, PhotoRefs,
       CardRefs, CropPosts, CropTasks, ClipPoints, CardPoints, LoadPoints, OneLoad, Wrappers,
       CropChecks, TaskAt, viewVars, mainVars, pixVars, Live
  <1> QED
    BY <1>1, <1>2, <1>3, <1>4, <1>5, <1>6, <1>7, <1>8 DEF IInv

\* The main thread may be about to recycle as well.
LEMMA CropRecyclesStep ==
    ASSUME IInv, CropRecycles
    PROVE  IInv'
  <1>1. Types'
    BY DEF IInv, Types, Wrappers, Tasks, TaskPoints, CropRecycles, TaskAt, Destroyed, viewVars,
       mainVars, Live, Adding, Read
  <1>2. OneLoad'
    BY DEF IInv, Types, OneLoad, LoadPoints, LoadPosts, DataThere, FieldPix, CropRecycles,
       TaskAt, Destroyed, viewVars, mainVars, Live, Adding, Read
  <1>3. OneCrop'
    BY DEF IInv, Types, OneCrop, OneOcrScreen, ClipPoints, CardPoints, CropTasks, CropPosts,
       CropRecycles, TaskAt, Destroyed, viewVars, mainVars, Live, Adding, Read
  <1>4. DataThere'
    BY DEF IInv, Types, DataThere, OneLoad, OneCrop, LoadPoints, LoadPosts, ClipPoints,
       CardPoints, CropTasks, CropPosts, CropRecycles, TaskAt, Destroyed, viewVars, mainVars,
       Live, Adding, Read
  <1>5. FieldPix'
    BY DEF IInv, Types, FieldPix, OneLoad, OneCrop, ClipPoints, CardPoints, CropTasks,
       CropPosts, LoadPoints, LoadPosts, DataThere, Wrappers, CropRecycles, TaskAt, Destroyed,
       viewVars, mainVars, Live, Adding, Read
  <1>6. PhotoRefs'
    BY DEF IInv, Types, PhotoRefs, FieldPix, OneLoad, OneCrop, LoadPoints, LoadPosts,
       ClipPoints, CardPoints, Wrappers, Tasks, CropRecycles, TaskAt, Destroyed, viewVars,
       mainVars, Live, Adding, Read
  <1>7. CardRefs'
    BY DEF IInv, Types, CardRefs, FieldPix, OneLoad, OneCrop, LoadPoints, ClipPoints,
       CardPoints, Wrappers, PhotoRefs, CropRecycles, TaskAt, Destroyed, viewVars, mainVars,
       Live, Adding, Read
  <1>8. Outcome'
    BY DEF IInv, Types, Outcome, HandsOverLiveCard, OneCrop, DataThere, FieldPix, PhotoRefs,
       CardRefs, CropPosts, CropTasks, ClipPoints, CardPoints, LoadPoints, OneLoad, Wrappers,
       CropRecycles, TaskAt, Destroyed, viewVars, mainVars, Live, Adding, Read
  <1> QED
    BY <1>1, <1>2, <1>3, <1>4, <1>5, <1>6, <1>7, <1>8 DEF IInv

\* One reference of two goes.
LEMMA DropBilinearStep ==
    ASSUME IInv, DropBilinear
    PROVE  IInv'
  <1>1. Types'
    BY DEF IInv, Types, Wrappers, Tasks, TaskPoints, DropBilinear, TaskAt, Read, Adding,
       viewVars, mainVars, Live
  <1>2. OneLoad'
    BY DEF IInv, Types, OneLoad, LoadPoints, LoadPosts, DataThere, FieldPix, DropBilinear,
       TaskAt, Read, Adding, viewVars, mainVars, Live
  <1>3. OneCrop'
    BY DEF IInv, Types, OneCrop, OneOcrScreen, ClipPoints, CardPoints, CropTasks, CropPosts,
       DropBilinear, TaskAt, Read, Adding, viewVars, mainVars, Live
  <1>4. DataThere'
    BY DEF IInv, Types, DataThere, OneLoad, OneCrop, LoadPoints, LoadPosts, ClipPoints,
       CardPoints, CropTasks, CropPosts, DropBilinear, TaskAt, Read, Adding, viewVars, mainVars,
       Live
  <1>5. FieldPix'
    BY DEF IInv, Types, FieldPix, OneLoad, OneCrop, ClipPoints, CardPoints, CropTasks,
       CropPosts, LoadPoints, LoadPosts, DataThere, Wrappers, DropBilinear, TaskAt, Read,
       Adding, viewVars, mainVars, Live
  <1>6. PhotoRefs'
    BY DEF IInv, Types, PhotoRefs, FieldPix, OneLoad, OneCrop, LoadPoints, LoadPosts,
       ClipPoints, CardPoints, Wrappers, Tasks, DropBilinear, TaskAt, Read, Adding, viewVars,
       mainVars, Live
  <1>7. CardRefs'
    BY DEF IInv, Types, CardRefs, FieldPix, OneLoad, OneCrop, LoadPoints, ClipPoints,
       CardPoints, Wrappers, PhotoRefs, DropBilinear, TaskAt, Read, Adding, viewVars, mainVars,
       Live
  <1>8. Outcome'
    BY DEF IInv, Types, Outcome, HandsOverLiveCard, OneCrop, DataThere, FieldPix, PhotoRefs,
       CardRefs, CropPosts, CropTasks, ClipPoints, CardPoints, LoadPoints, OneLoad, Wrappers,
       DropBilinear, TaskAt, Read, Adding, viewVars, mainVars, Live
  <1> QED
    BY <1>1, <1>2, <1>3, <1>4, <1>5, <1>6, <1>7, <1>8 DEF IInv

\* If the user went back, the card may be gone.
LEMMA CropPreviewStep ==
    ASSUME IInv, CropPreview
    PROVE  IInv'
  <1>1. Types'
    BY DEF IInv, Types, Wrappers, Tasks, TaskPoints, CropPreview, TaskAt, Read, Adding,
       CropLeaks, viewVars, mainVars, Live
  <1>2. OneLoad'
    BY DEF IInv, Types, OneLoad, LoadPoints, LoadPosts, DataThere, FieldPix, CropPreview,
       TaskAt, Read, Adding, CropLeaks, viewVars, mainVars, Live
  <1>3. OneCrop'
    BY DEF IInv, Types, OneCrop, OneOcrScreen, ClipPoints, CardPoints, CropTasks, CropPosts,
       CropPreview, TaskAt, Read, Adding, CropLeaks, viewVars, mainVars, Live
  <1>4. DataThere'
    BY DEF IInv, Types, DataThere, OneLoad, OneCrop, LoadPoints, LoadPosts, ClipPoints,
       CardPoints, CropTasks, CropPosts, CropPreview, TaskAt, Read, Adding, CropLeaks, viewVars,
       mainVars, Live
  <1>5. FieldPix'
    BY DEF IInv, Types, FieldPix, OneLoad, OneCrop, ClipPoints, CardPoints, CropTasks,
       CropPosts, LoadPoints, LoadPosts, DataThere, Wrappers, CropPreview, TaskAt, Read, Adding,
       CropLeaks, viewVars, mainVars, Live
  <1>6. PhotoRefs'
    BY DEF IInv, Types, PhotoRefs, FieldPix, OneLoad, OneCrop, LoadPoints, LoadPosts,
       ClipPoints, CardPoints, Wrappers, Tasks, CropPreview, TaskAt, Read, Adding, CropLeaks,
       viewVars, mainVars, Live
  <1>7. CardRefs'
    BY DEF IInv, Types, CardRefs, FieldPix, OneLoad, OneCrop, LoadPoints, ClipPoints,
       CardPoints, Wrappers, PhotoRefs, CropPreview, TaskAt, Read, Adding, CropLeaks, viewVars,
       mainVars, Live
  <1>8. Outcome'
    BY DEF IInv, Types, Outcome, HandsOverLiveCard, OneCrop, DataThere, FieldPix, PhotoRefs,
       CardRefs, CropPosts, CropTasks, ClipPoints, CardPoints, LoadPoints, OneLoad, Wrappers,
       CropPreview, TaskAt, Read, Adding, CropLeaks, viewVars, mainVars, Live
  <1> QED
    BY <1>1, <1>2, <1>3, <1>4, <1>5, <1>6, <1>7, <1>8 DEF IInv

\* The leaked reference keeps the card.
LEMMA CropEndsStep ==
    ASSUME IInv, CropEnds
    PROVE  IInv'
  <1>q. /\ queue' \in Seq(Posts)
        /\ In(queue', LoadPosts) <=> In(queue, LoadPosts)
        /\ In(queue', CropPosts)
        /\ In(queue', {"DETECTED"}) <=> In(queue, {"DETECTED"})
        /\ In(queue', {"CROPPED", "PROCESSED"})
        /\ One(queue, LoadPosts) => One(queue', LoadPosts)
        /\ One(queue, CropPosts) /\ ~In(queue, CropPosts) => One(queue', CropPosts)
    <2>1. queue \in Seq(Posts) /\ "CROPPED" \in Posts /\ queue' = Append(queue, "CROPPED")
      BY DEF IInv, Types, Posts, CropEnds, TaskAt, Read, Post, viewVars, pixVars, Live
    <2> QED
      BY <2>1, QueueAppend DEF LoadPosts, CropPosts
  <1>1. Types'
    BY <1>q DEF IInv, Types, Wrappers, Tasks, TaskPoints, CropEnds, TaskAt, Read, Post,
       viewVars, pixVars, Live
  <1>2. OneLoad'
    BY <1>q DEF IInv, Types, OneLoad, LoadPoints, LoadPosts, DataThere, FieldPix, CropEnds,
       TaskAt, Read, Post, viewVars, pixVars, Live
  <1>3. OneCrop'
    BY <1>q DEF IInv, Types, OneCrop, OneOcrScreen, ClipPoints, CardPoints, CropTasks,
       CropPosts, CropEnds, TaskAt, Read, Post, viewVars, pixVars, Live
  <1>4. DataThere'
    BY <1>q DEF IInv, Types, DataThere, OneLoad, OneCrop, LoadPoints, LoadPosts, ClipPoints,
       CardPoints, CropTasks, CropPosts, CropEnds, TaskAt, Read, Post, viewVars, pixVars, Live
  <1>5. FieldPix'
    BY <1>q DEF IInv, Types, FieldPix, OneLoad, OneCrop, ClipPoints, CardPoints, CropTasks,
       CropPosts, LoadPoints, LoadPosts, DataThere, Wrappers, CropEnds, TaskAt, Read, Post,
       viewVars, pixVars, Live
  <1>6. PhotoRefs'
    BY <1>q DEF IInv, Types, PhotoRefs, FieldPix, OneLoad, OneCrop, LoadPoints, LoadPosts,
       ClipPoints, CardPoints, Wrappers, Tasks, CropEnds, TaskAt, Read, Post, viewVars, pixVars,
       Live
  <1>7. CardRefs'
    BY <1>q DEF IInv, Types, CardRefs, FieldPix, OneLoad, OneCrop, LoadPoints, ClipPoints,
       CardPoints, Wrappers, PhotoRefs, CropEnds, TaskAt, Read, Post, viewVars, pixVars, Live
  <1>8. Outcome'
    BY <1>q DEF IInv, Types, Outcome, HandsOverLiveCard, OneCrop, DataThere, FieldPix,
       PhotoRefs, CardRefs, CropPosts, CropTasks, ClipPoints, CardPoints, LoadPoints, OneLoad,
       Wrappers, CropEnds, TaskAt, Read, Post, viewVars, pixVars, Live
  <1> QED
    BY <1>1, <1>2, <1>3, <1>4, <1>5, <1>6, <1>7, <1>8 DEF IInv

\* The text blocks are there.
LEMMA ProcessStep ==
    ASSUME IInv, Process
    PROVE  IInv'
  <1>q. /\ queue' \in Seq(Posts)
        /\ In(queue', LoadPosts) <=> In(queue, LoadPosts)
        /\ In(queue', CropPosts)
        /\ In(queue', {"DETECTED"}) <=> In(queue, {"DETECTED"})
        /\ In(queue', {"CROPPED", "PROCESSED"})
        /\ One(queue, LoadPosts) => One(queue', LoadPosts)
        /\ One(queue, CropPosts) /\ ~In(queue, CropPosts) => One(queue', CropPosts)
    <2>1. queue \in Seq(Posts) /\ "PROCESSED" \in Posts /\ queue' = Append(queue, "PROCESSED")
      BY DEF IInv, Types, Posts, Process, TaskAt, Post, viewVars, pixVars, Live
    <2> QED
      BY <2>1, QueueAppend DEF LoadPosts, CropPosts
  <1>1. Types'
    BY <1>q DEF IInv, Types, Wrappers, Tasks, TaskPoints, Process, TaskAt, Post, viewVars,
       pixVars, Live
  <1>2. OneLoad'
    BY <1>q DEF IInv, Types, OneLoad, LoadPoints, LoadPosts, DataThere, FieldPix, Process,
       TaskAt, Post, viewVars, pixVars, Live
  <1>3. OneCrop'
    BY <1>q DEF IInv, Types, OneCrop, OneOcrScreen, ClipPoints, CardPoints, CropTasks,
       CropPosts, Process, TaskAt, Post, viewVars, pixVars, Live
  <1>4. DataThere'
    BY <1>q DEF IInv, Types, DataThere, OneLoad, OneCrop, LoadPoints, LoadPosts, ClipPoints,
       CardPoints, CropTasks, CropPosts, Process, TaskAt, Post, viewVars, pixVars, Live
  <1>5. FieldPix'
    BY <1>q DEF IInv, Types, FieldPix, OneLoad, OneCrop, ClipPoints, CardPoints, CropTasks,
       CropPosts, LoadPoints, LoadPosts, DataThere, Wrappers, Process, TaskAt, Post, viewVars,
       pixVars, Live
  <1>6. PhotoRefs'
    BY <1>q DEF IInv, Types, PhotoRefs, FieldPix, OneLoad, OneCrop, LoadPoints, LoadPosts,
       ClipPoints, CardPoints, Wrappers, Tasks, Process, TaskAt, Post, viewVars, pixVars, Live
  <1>7. CardRefs'
    BY <1>q DEF IInv, Types, CardRefs, FieldPix, OneLoad, OneCrop, LoadPoints, ClipPoints,
       CardPoints, Wrappers, PhotoRefs, Process, TaskAt, Post, viewVars, pixVars, Live
  <1>8. Outcome'
    BY <1>q DEF IInv, Types, Outcome, HandsOverLiveCard, OneCrop, DataThere, FieldPix,
       PhotoRefs, CardRefs, CropPosts, CropTasks, ClipPoints, CardPoints, LoadPoints, OneLoad,
       Wrappers, Process, TaskAt, Post, viewVars, pixVars, Live
  <1> QED
    BY <1>1, <1>2, <1>3, <1>4, <1>5, <1>6, <1>7, <1>8 DEF IInv

\* Nobody keeps the result.
LEMMA HandleNoBitmapStep ==
    ASSUME IInv, HandleNoBitmap
    PROVE  IInv'
  <1>q. /\ queue' \in Seq(Posts)
        /\ In(queue, LoadPosts)
        /\ In(queue', CropPosts) <=> In(queue, CropPosts)
        /\ In(queue', {"DETECTED"}) <=> In(queue, {"DETECTED"})
        /\ In(queue', {"CROPPED", "PROCESSED"}) <=> In(queue, {"CROPPED", "PROCESSED"})
        /\ One(queue, LoadPosts) => One(queue', LoadPosts) /\ ~In(queue', LoadPosts)
        /\ One(queue, CropPosts) => One(queue', CropPosts)
    <2>1. queue \in Seq(Posts) /\ queue # <<>> /\ Head(queue) = "NO_BITMAP" /\ queue' = Tail(queue)
      BY DEF IInv, Types, HandleNoBitmap, Handle, viewVars, pixVars, Live
    <2> QED
      BY <2>1, QueueTail DEF LoadPosts, CropPosts
  <1>1. Types'
    BY <1>q DEF IInv, Types, Wrappers, Tasks, TaskPoints, HandleNoBitmap, Handle, viewVars,
       pixVars, Live
  <1>2. OneLoad'
    BY <1>q DEF IInv, Types, OneLoad, LoadPoints, LoadPosts, DataThere, FieldPix,
       HandleNoBitmap, Handle, viewVars, pixVars, Live
  <1>3. OneCrop'
    BY <1>q DEF IInv, Types, OneCrop, OneOcrScreen, ClipPoints, CardPoints, CropTasks,
       CropPosts, HandleNoBitmap, Handle, viewVars, pixVars, Live
  <1>4. DataThere'
    BY <1>q DEF IInv, Types, DataThere, OneLoad, OneCrop, LoadPoints, LoadPosts, ClipPoints,
       CardPoints, CropTasks, CropPosts, HandleNoBitmap, Handle, viewVars, pixVars, Live
  <1>5. FieldPix'
    BY <1>q DEF IInv, Types, FieldPix, OneLoad, OneCrop, ClipPoints, CardPoints, CropTasks,
       CropPosts, LoadPoints, LoadPosts, DataThere, Wrappers, HandleNoBitmap, Handle, viewVars,
       pixVars, Live
  <1>6. PhotoRefs'
    BY <1>q DEF IInv, Types, PhotoRefs, FieldPix, OneLoad, OneCrop, LoadPoints, LoadPosts,
       ClipPoints, CardPoints, Wrappers, Tasks, HandleNoBitmap, Handle, viewVars, pixVars, Live
  <1>7. CardRefs'
    BY <1>q DEF IInv, Types, CardRefs, FieldPix, OneLoad, OneCrop, LoadPoints, ClipPoints,
       CardPoints, Wrappers, PhotoRefs, HandleNoBitmap, Handle, viewVars, pixVars, Live
  <1>8. Outcome'
    BY <1>q DEF IInv, Types, Outcome, HandsOverLiveCard, OneCrop, DataThere, FieldPix,
       PhotoRefs, CardRefs, CropPosts, CropTasks, ClipPoints, CardPoints, LoadPoints, OneLoad,
       Wrappers, HandleNoBitmap, Handle, viewVars, pixVars, Live
  <1> QED
    BY <1>1, <1>2, <1>3, <1>4, <1>5, <1>6, <1>7, <1>8 DEF IInv

\* The next layout shows the photo.
LEMMA HandleDetectedStep ==
    ASSUME IInv, HandleDetected
    PROVE  IInv'
  <1>q. /\ queue' \in Seq(Posts)
        /\ In(queue', LoadPosts) <=> In(queue, LoadPosts)
        /\ In(queue', CropPosts) <=> In(queue, CropPosts)
        /\ In(queue, {"DETECTED"})
        /\ In(queue', {"CROPPED", "PROCESSED"}) <=> In(queue, {"CROPPED", "PROCESSED"})
        /\ One(queue, LoadPosts) => One(queue', LoadPosts)
        /\ One(queue, CropPosts) => One(queue', CropPosts)
    <2>1. queue \in Seq(Posts) /\ queue # <<>> /\ Head(queue) = "DETECTED" /\ queue' = Tail(queue)
      BY DEF IInv, Types, HandleDetected, Handle, pixVars, Live
    <2> QED
      BY <2>1, QueueTail DEF LoadPosts, CropPosts
  <1>1. Types'
    BY <1>q DEF IInv, Types, Wrappers, Tasks, TaskPoints, HandleDetected, Handle, pixVars, Live
  <1>2. OneLoad'
    BY <1>q DEF IInv, Types, OneLoad, LoadPoints, LoadPosts, DataThere, FieldPix,
       HandleDetected, Handle, pixVars, Live
  <1>3. OneCrop'
    BY <1>q DEF IInv, Types, OneCrop, OneOcrScreen, ClipPoints, CardPoints, CropTasks,
       CropPosts, HandleDetected, Handle, pixVars, Live
  <1>4. DataThere'
    BY <1>q DEF IInv, Types, DataThere, OneLoad, OneCrop, LoadPoints, LoadPosts, ClipPoints,
       CardPoints, CropTasks, CropPosts, HandleDetected, Handle, pixVars, Live
  <1>5. FieldPix'
    BY <1>q DEF IInv, Types, FieldPix, OneLoad, OneCrop, ClipPoints, CardPoints, CropTasks,
       CropPosts, LoadPoints, LoadPosts, DataThere, Wrappers, HandleDetected, Handle, pixVars,
       Live
  <1>6. PhotoRefs'
    BY <1>q DEF IInv, Types, PhotoRefs, FieldPix, OneLoad, OneCrop, LoadPoints, LoadPosts,
       ClipPoints, CardPoints, Wrappers, Tasks, HandleDetected, Handle, pixVars, Live
  <1>7. CardRefs'
    BY <1>q DEF IInv, Types, CardRefs, FieldPix, OneLoad, OneCrop, LoadPoints, ClipPoints,
       CardPoints, Wrappers, PhotoRefs, HandleDetected, Handle, pixVars, Live
  <1>8. Outcome'
    BY <1>q DEF IInv, Types, Outcome, HandsOverLiveCard, OneCrop, DataThere, FieldPix,
       PhotoRefs, CardRefs, CropPosts, CropTasks, ClipPoints, CardPoints, LoadPoints, OneLoad,
       Wrappers, HandleDetected, Handle, pixVars, Live
  <1> QED
    BY <1>1, <1>2, <1>3, <1>4, <1>5, <1>6, <1>7, <1>8 DEF IInv

\* The last task follows.
LEMMA HandleCroppedStep ==
    ASSUME IInv, HandleCropped
    PROVE  IInv'
  <1>q. /\ queue' \in Seq(Posts)
        /\ In(queue', LoadPosts) <=> In(queue, LoadPosts)
        /\ In(queue, CropPosts)
        /\ In(queue', {"DETECTED"}) <=> In(queue, {"DETECTED"})
        /\ In(queue, {"CROPPED", "PROCESSED"})
        /\ One(queue, LoadPosts) => One(queue', LoadPosts)
        /\ One(queue, CropPosts) => One(queue', CropPosts) /\ ~In(queue', CropPosts)
    <2>1. queue \in Seq(Posts) /\ queue # <<>> /\ Head(queue) = "CROPPED" /\ queue' = Tail(queue)
      BY DEF IInv, Types, HandleCropped, Handle, Execute, viewVars, pixVars, Live
    <2> QED
      BY <2>1, QueueTail DEF LoadPosts, CropPosts
  <1>t. /\ tasks' \in Seq(Tasks)
        /\ In(tasks', {"blur"}) <=> In(tasks, {"blur"})
        /\ In(tasks', CropTasks)
        /\ In(tasks', {"detect"}) <=> In(tasks, {"detect"})
        /\ In(tasks', {"crop"}) <=> In(tasks, {"crop"})
        /\ In(tasks', {"process"})
        /\ One(tasks, {"blur"}) => One(tasks', {"blur"})
        /\ One(tasks, CropTasks) /\ ~In(tasks, CropTasks) => One(tasks', CropTasks)
    <2>1. tasks \in Seq(Tasks) /\ "process" \in Tasks /\ tasks' = Append(tasks, "process")
      BY DEF IInv, Types, Tasks, HandleCropped, Handle, Execute, viewVars, pixVars, Live
    <2> QED
      BY <2>1, TasksAppend DEF CropTasks
  <1>1. Types'
    BY <1>q, <1>t DEF IInv, Types, Wrappers, Tasks, TaskPoints, HandleCropped, Handle, Execute,
       viewVars, pixVars, Live
  <1>2. OneLoad'
    BY <1>q, <1>t DEF IInv, Types, OneLoad, LoadPoints, LoadPosts, DataThere, FieldPix,
       HandleCropped, Handle, Execute, viewVars, pixVars, Live
  <1>3. OneCrop'
    BY <1>q, <1>t DEF IInv, Types, OneCrop, OneOcrScreen, ClipPoints, CardPoints, CropTasks,
       CropPosts, HandleCropped, Handle, Execute, viewVars, pixVars, Live
  <1>4. DataThere'
    BY <1>q, <1>t DEF IInv, Types, DataThere, OneLoad, OneCrop, LoadPoints, LoadPosts,
       ClipPoints, CardPoints, CropTasks, CropPosts, HandleCropped, Handle, Execute, viewVars,
       pixVars, Live
  <1>5. FieldPix'
    BY <1>q, <1>t DEF IInv, Types, FieldPix, OneLoad, OneCrop, ClipPoints, CardPoints,
       CropTasks, CropPosts, LoadPoints, LoadPosts, DataThere, Wrappers, HandleCropped, Handle,
       Execute, viewVars, pixVars, Live
  <1>6. PhotoRefs'
    BY <1>q, <1>t DEF IInv, Types, PhotoRefs, FieldPix, OneLoad, OneCrop, LoadPoints, LoadPosts,
       ClipPoints, CardPoints, Wrappers, Tasks, HandleCropped, Handle, Execute, viewVars,
       pixVars, Live
  <1>7. CardRefs'
    BY <1>q, <1>t DEF IInv, Types, CardRefs, FieldPix, OneLoad, OneCrop, LoadPoints, ClipPoints,
       CardPoints, Wrappers, PhotoRefs, HandleCropped, Handle, Execute, viewVars, pixVars, Live
  <1>8. Outcome'
    BY <1>q, <1>t DEF IInv, Types, Outcome, HandsOverLiveCard, OneCrop, DataThere, FieldPix,
       PhotoRefs, CardRefs, CropPosts, CropTasks, ClipPoints, CardPoints, LoadPoints, OneLoad,
       Wrappers, HandleCropped, Handle, Execute, viewVars, pixVars, Live
  <1> QED
    BY <1>1, <1>2, <1>3, <1>4, <1>5, <1>6, <1>7, <1>8 DEF IInv

\* The screen closes.
LEMMA HandleNotCroppedStep ==
    ASSUME IInv, HandleNotCropped
    PROVE  IInv'
  <1>q. /\ queue' \in Seq(Posts)
        /\ In(queue', LoadPosts) <=> In(queue, LoadPosts)
        /\ In(queue, CropPosts)
        /\ In(queue', {"DETECTED"}) <=> In(queue, {"DETECTED"})
        /\ In(queue', {"CROPPED", "PROCESSED"}) <=> In(queue, {"CROPPED", "PROCESSED"})
        /\ One(queue, LoadPosts) => One(queue', LoadPosts)
        /\ One(queue, CropPosts) => One(queue', CropPosts) /\ ~In(queue', CropPosts)
    <2>1. queue \in Seq(Posts) /\ queue # <<>> /\ Head(queue) = "NOT_CROPPED" /\ queue' = Tail(queue)
      BY DEF IInv, Types, HandleNotCropped, Handle, Finish, pixVars, Live
    <2> QED
      BY <2>1, QueueTail DEF LoadPosts, CropPosts
  <1>1. Types'
    BY <1>q DEF IInv, Types, Wrappers, Tasks, TaskPoints, HandleNotCropped, Handle, Finish,
       pixVars, Live
  <1>2. OneLoad'
    BY <1>q DEF IInv, Types, OneLoad, LoadPoints, LoadPosts, DataThere, FieldPix,
       HandleNotCropped, Handle, Finish, pixVars, Live
  <1>3. OneCrop'
    BY <1>q DEF IInv, Types, OneCrop, OneOcrScreen, ClipPoints, CardPoints, CropTasks,
       CropPosts, HandleNotCropped, Handle, Finish, pixVars, Live
  <1>4. DataThere'
    BY <1>q DEF IInv, Types, DataThere, OneLoad, OneCrop, LoadPoints, LoadPosts, ClipPoints,
       CardPoints, CropTasks, CropPosts, HandleNotCropped, Handle, Finish, pixVars, Live
  <1>5. FieldPix'
    BY <1>q DEF IInv, Types, FieldPix, OneLoad, OneCrop, ClipPoints, CardPoints, CropTasks,
       CropPosts, LoadPoints, LoadPosts, DataThere, Wrappers, HandleNotCropped, Handle, Finish,
       pixVars, Live
  <1>6. PhotoRefs'
    BY <1>q DEF IInv, Types, PhotoRefs, FieldPix, OneLoad, OneCrop, LoadPoints, LoadPosts,
       ClipPoints, CardPoints, Wrappers, Tasks, HandleNotCropped, Handle, Finish, pixVars, Live
  <1>7. CardRefs'
    BY <1>q DEF IInv, Types, CardRefs, FieldPix, OneLoad, OneCrop, LoadPoints, ClipPoints,
       CardPoints, Wrappers, PhotoRefs, HandleNotCropped, Handle, Finish, pixVars, Live
  <1>8. Outcome'
    BY <1>q DEF IInv, Types, Outcome, HandsOverLiveCard, OneCrop, DataThere, FieldPix,
       PhotoRefs, CardRefs, CropPosts, CropTasks, ClipPoints, CardPoints, LoadPoints, OneLoad,
       Wrappers, HandleNotCropped, Handle, Finish, pixVars, Live
  <1> QED
    BY <1>1, <1>2, <1>3, <1>4, <1>5, <1>6, <1>7, <1>8 DEF IInv

\* The data goes, and the load task is cancelled.
LEMMA DestroyStep ==
    ASSUME IInv, Destroy
    PROVE  IInv'
  <1>q. /\ queue' \in Seq(Posts)
        /\ In(queue', LoadPosts) <=> In(queue, LoadPosts)
        /\ In(queue', CropPosts) <=> In(queue, CropPosts)
        /\ In(queue', {"DETECTED"}) <=> In(queue, {"DETECTED"})
        /\ In(queue', {"CROPPED", "PROCESSED"}) <=> In(queue, {"CROPPED", "PROCESSED"})
        /\ One(queue, LoadPosts) => One(queue', LoadPosts)
        /\ One(queue, CropPosts) => One(queue', CropPosts)
    <2>1. queue \in Seq(Posts) /\ queue # <<>> /\ Head(queue) = "DESTROY" /\ queue' = Tail(queue)
      BY DEF IInv, Types, Destroy, Handle, pixVars, Live
    <2> QED
      BY <2>1, QueueTail DEF LoadPosts, CropPosts
  <1>1. Types'
    BY <1>q DEF IInv, Types, Wrappers, Tasks, TaskPoints, Destroy, Handle, pixVars, Live
  <1>2. OneLoad'
    BY <1>q DEF IInv, Types, OneLoad, LoadPoints, LoadPosts, DataThere, FieldPix, Destroy,
       Handle, pixVars, Live
  <1>3. OneCrop'
    BY <1>q DEF IInv, Types, OneCrop, OneOcrScreen, ClipPoints, CardPoints, CropTasks,
       CropPosts, Destroy, Handle, pixVars, Live
  <1>4. DataThere'
    BY <1>q DEF IInv, Types, DataThere, OneLoad, OneCrop, LoadPoints, LoadPosts, ClipPoints,
       CardPoints, CropTasks, CropPosts, Destroy, Handle, pixVars, Live
  <1>5. FieldPix'
    BY <1>q DEF IInv, Types, FieldPix, OneLoad, OneCrop, ClipPoints, CardPoints, CropTasks,
       CropPosts, LoadPoints, LoadPosts, DataThere, Wrappers, Destroy, Handle, pixVars, Live
  <1>6. PhotoRefs'
    BY <1>q DEF IInv, Types, PhotoRefs, FieldPix, OneLoad, OneCrop, LoadPoints, LoadPosts,
       ClipPoints, CardPoints, Wrappers, Tasks, Destroy, Handle, pixVars, Live
  <1>7. CardRefs'
    BY <1>q DEF IInv, Types, CardRefs, FieldPix, OneLoad, OneCrop, LoadPoints, ClipPoints,
       CardPoints, Wrappers, PhotoRefs, Destroy, Handle, pixVars, Live
  <1>8. Outcome'
    BY <1>q DEF IInv, Types, Outcome, HandsOverLiveCard, OneCrop, DataThere, FieldPix,
       PhotoRefs, CardRefs, CropPosts, CropTasks, ClipPoints, CardPoints, LoadPoints, OneLoad,
       Wrappers, Destroy, Handle, pixVars, Live
  <1> QED
    BY <1>1, <1>2, <1>3, <1>4, <1>5, <1>6, <1>7, <1>8 DEF IInv

\* The system answers finish().
LEMMA OrderDestroyStep ==
    ASSUME IInv, OrderDestroy
    PROVE  IInv'
  <1>q. /\ queue' \in Seq(Posts)
        /\ In(queue', LoadPosts) <=> In(queue, LoadPosts)
        /\ In(queue', CropPosts) <=> In(queue, CropPosts)
        /\ In(queue', {"DETECTED"}) <=> In(queue, {"DETECTED"})
        /\ In(queue', {"CROPPED", "PROCESSED"}) <=> In(queue, {"CROPPED", "PROCESSED"})
        /\ One(queue, LoadPosts) => One(queue', LoadPosts)
        /\ One(queue, CropPosts) => One(queue', CropPosts)
    <2>1. queue \in Seq(Posts) /\ "DESTROY" \in Posts /\ queue' = Append(queue, "DESTROY")
      BY DEF IInv, Types, Posts, OrderDestroy, Live, Post, viewVars, taskVars, pixVars
    <2> QED
      BY <2>1, QueueAppend DEF LoadPosts, CropPosts
  <1>1. Types'
    BY <1>q DEF IInv, Types, Wrappers, Tasks, TaskPoints, OrderDestroy, Live, Post, viewVars,
       taskVars, pixVars
  <1>2. OneLoad'
    BY <1>q DEF IInv, Types, OneLoad, LoadPoints, LoadPosts, DataThere, FieldPix, OrderDestroy,
       Live, Post, viewVars, taskVars, pixVars
  <1>3. OneCrop'
    BY <1>q DEF IInv, Types, OneCrop, OneOcrScreen, ClipPoints, CardPoints, CropTasks,
       CropPosts, OrderDestroy, Live, Post, viewVars, taskVars, pixVars
  <1>4. DataThere'
    BY <1>q DEF IInv, Types, DataThere, OneLoad, OneCrop, LoadPoints, LoadPosts, ClipPoints,
       CardPoints, CropTasks, CropPosts, OrderDestroy, Live, Post, viewVars, taskVars, pixVars
  <1>5. FieldPix'
    BY <1>q DEF IInv, Types, FieldPix, OneLoad, OneCrop, ClipPoints, CardPoints, CropTasks,
       CropPosts, LoadPoints, LoadPosts, DataThere, Wrappers, OrderDestroy, Live, Post,
       viewVars, taskVars, pixVars
  <1>6. PhotoRefs'
    BY <1>q DEF IInv, Types, PhotoRefs, FieldPix, OneLoad, OneCrop, LoadPoints, LoadPosts,
       ClipPoints, CardPoints, Wrappers, Tasks, OrderDestroy, Live, Post, viewVars, taskVars,
       pixVars
  <1>7. CardRefs'
    BY <1>q DEF IInv, Types, CardRefs, FieldPix, OneLoad, OneCrop, LoadPoints, ClipPoints,
       CardPoints, Wrappers, PhotoRefs, OrderDestroy, Live, Post, viewVars, taskVars, pixVars
  <1>8. Outcome'
    BY <1>q DEF IInv, Types, Outcome, HandsOverLiveCard, OneCrop, DataThere, FieldPix,
       PhotoRefs, CardRefs, CropPosts, CropTasks, ClipPoints, CardPoints, LoadPoints, OneLoad,
       Wrappers, OrderDestroy, Live, Post, viewVars, taskVars, pixVars
  <1> QED
    BY <1>1, <1>2, <1>3, <1>4, <1>5, <1>6, <1>7, <1>8 DEF IInv

\* The field refers to the card, and no other crop is waiting.
LEMMA CutStep ==
    ASSUME IInv, Cut
    PROVE  IInv'
  <1>a. ~In(tasks, {"crop"})
    BY DEF IInv, OneCrop, ClipPoints, Cut, TaskAt, In, CropTasks
  <1>1. Types'
    BY <1>a DEF IInv, Types, Wrappers, Tasks, TaskPoints, Cut, TaskAt, Adding, viewVars,
       mainVars, Live
  <1>2. OneLoad'
    BY <1>a DEF IInv, Types, OneLoad, LoadPoints, LoadPosts, DataThere, FieldPix, Cut, TaskAt,
       Adding, viewVars, mainVars, Live
  <1>3. OneCrop'
    BY <1>a DEF IInv, Types, OneCrop, OneOcrScreen, ClipPoints, CardPoints, CropTasks,
       CropPosts, Cut, TaskAt, Adding, viewVars, mainVars, Live
  <1>4. DataThere'
    BY <1>a DEF IInv, Types, DataThere, OneLoad, OneCrop, LoadPoints, LoadPosts, ClipPoints,
       CardPoints, CropTasks, CropPosts, Cut, TaskAt, Adding, viewVars, mainVars, Live
  <1>5. FieldPix'
    BY <1>a DEF IInv, Types, FieldPix, OneLoad, OneCrop, ClipPoints, CardPoints, CropTasks,
       CropPosts, LoadPoints, LoadPosts, DataThere, Wrappers, Cut, TaskAt, Adding, viewVars,
       mainVars, Live
  <1>6. PhotoRefs'
    BY <1>a DEF IInv, Types, PhotoRefs, FieldPix, OneLoad, OneCrop, LoadPoints, LoadPosts,
       ClipPoints, CardPoints, Wrappers, Tasks, Cut, TaskAt, Adding, viewVars, mainVars, Live
  <1>7. CardRefs'
    BY <1>a DEF IInv, Types, CardRefs, FieldPix, OneLoad, OneCrop, LoadPoints, ClipPoints,
       CardPoints, Wrappers, PhotoRefs, Cut, TaskAt, Adding, viewVars, mainVars, Live
  <1>8. Outcome'
    BY <1>a DEF IInv, Types, Outcome, HandsOverLiveCard, OneCrop, DataThere, FieldPix,
       PhotoRefs, CardRefs, CropPosts, CropTasks, ClipPoints, CardPoints, LoadPoints, OneLoad,
       Wrappers, Cut, TaskAt, Adding, viewVars, mainVars, Live
  <1> QED
    BY <1>1, <1>2, <1>3, <1>4, <1>5, <1>6, <1>7, <1>8 DEF IInv

\* The card is handed over, if the screen is still there.
LEMMA HandleProcessedStep ==
    ASSUME IInv, HandleProcessed
    PROVE  IInv'
  <1>q. /\ queue' \in Seq(Posts)
        /\ In(queue', LoadPosts) <=> In(queue, LoadPosts)
        /\ In(queue, CropPosts)
        /\ In(queue', {"DETECTED"}) <=> In(queue, {"DETECTED"})
        /\ In(queue, {"CROPPED", "PROCESSED"})
        /\ One(queue, LoadPosts) => One(queue', LoadPosts)
        /\ One(queue, CropPosts) => One(queue', CropPosts) /\ ~In(queue', CropPosts)
    <2>1. queue \in Seq(Posts) /\ queue # <<>> /\ Head(queue) = "PROCESSED" /\ queue' = Tail(queue)
      BY DEF IInv, Types, HandleProcessed, Handle, Finish, pixVars, Live
    <2> QED
      BY <2>1, QueueTail DEF LoadPosts, CropPosts
  <1>a. opened = <<>> /\ cropping /\ field = "card" /\ tpc \notin CardPoints /\ refs["card"] \in Int
    BY <1>q DEF IInv, OneCrop, FieldPix, CardPoints, Types, Wrappers
  <1>b. refs["card"] \in {1, 2} /\ (refs["card"] = 1 => "card" \in recycled)
    BY <1>a DEF IInv, CardRefs, CardPoints
  <1>c. \/ cropData /\ opened' = <<refs["card"]>> /\ fault' = fault
        \/ ~cropData /\ opened' = <<>> /\ fault' = "absent"
    BY <1>a DEF HandleProcessed
  <1>d. /\ opened' \in Seq(Int) /\ Len(opened') <= 1
        /\ \A i \in 1..Len(opened') :
              opened'[i] \in {1, 2} /\ (opened'[i] = 1 => "card" \in recycled)
        /\ opened' # <<>> => cropData
    <2>1. PICK c : c = refs["card"]
      OBVIOUS
    <2>2. c \in Int /\ c \in {1, 2} /\ (c = 1 => "card" \in recycled)
      BY <1>a, <1>b, <2>1
    <2>3. CASE cropData /\ opened' = <<c>>
      BY <2>2, <2>3
    <2>4. CASE opened' = <<>>
      BY <2>4
    <2> QED
      BY <1>c, <2>1, <2>3, <2>4
  <1>1. Types'
    BY <1>q, <1>a, <1>c, <1>d DEF IInv, Types, Wrappers, Tasks, TaskPoints, HandleProcessed,
       Handle, Finish, pixVars, Live
  <1>2. OneLoad'
    BY <1>q, <1>a, <1>c, <1>d DEF IInv, Types, OneLoad, LoadPoints, LoadPosts, DataThere,
       FieldPix, HandleProcessed, Handle, Finish, pixVars, Live
  <1>3. OneCrop'
    BY <1>q, <1>a, <1>c, <1>d DEF IInv, Types, OneCrop, OneOcrScreen, ClipPoints, CardPoints,
       CropTasks, CropPosts, HandleProcessed, Handle, Finish, pixVars, Live
  <1>4. DataThere'
    BY <1>q, <1>a, <1>c, <1>d DEF IInv, Types, DataThere, OneLoad, OneCrop, LoadPoints,
       LoadPosts, ClipPoints, CardPoints, CropTasks, CropPosts, HandleProcessed, Handle, Finish,
       pixVars, Live
  <1>5. FieldPix'
    BY <1>q, <1>a, <1>c, <1>d DEF IInv, Types, FieldPix, OneLoad, OneCrop, ClipPoints,
       CardPoints, CropTasks, CropPosts, LoadPoints, LoadPosts, DataThere, Wrappers,
       HandleProcessed, Handle, Finish, pixVars, Live
  <1>6. PhotoRefs'
    BY <1>q, <1>a, <1>c, <1>d DEF IInv, Types, PhotoRefs, FieldPix, OneLoad, OneCrop,
       LoadPoints, LoadPosts, ClipPoints, CardPoints, Wrappers, Tasks, HandleProcessed, Handle,
       Finish, pixVars, Live
  <1>7. CardRefs'
    BY <1>q, <1>a, <1>c, <1>d DEF IInv, Types, CardRefs, FieldPix, OneLoad, OneCrop, LoadPoints,
       ClipPoints, CardPoints, Wrappers, PhotoRefs, HandleProcessed, Handle, Finish, pixVars,
       Live
  <1>8. Outcome'
    BY <1>q, <1>a, <1>c, <1>d DEF IInv, Types, Outcome, HandsOverLiveCard, OneCrop, DataThere,
       FieldPix, PhotoRefs, CardRefs, CropPosts, CropTasks, ClipPoints, CardPoints, LoadPoints,
       OneLoad, Wrappers, HandleProcessed, Handle, Finish, pixVars, Live
  <1> QED
    BY <1>1, <1>2, <1>3, <1>4, <1>5, <1>6, <1>7, <1>8 DEF IInv

\* The clone of the task is recycled.
LEMMA LoadEndsStep ==
    ASSUME IInv, LoadEnds
    PROVE  IInv'
  <1>a. PICK m \in LoadPosts : Post(m)
    BY DEF LoadEnds, LoadPosts
  <1>q. /\ queue' \in Seq(Posts)
        /\ In(queue', LoadPosts) <=> In(queue, LoadPosts) \/ m \in LoadPosts
        /\ In(queue', CropPosts) <=> In(queue, CropPosts) \/ m \in CropPosts
        /\ In(queue', {"DETECTED"}) <=> In(queue, {"DETECTED"}) \/ m \in {"DETECTED"}
        /\ In(queue', {"CROPPED", "PROCESSED"}) <=> In(queue, {"CROPPED", "PROCESSED"}) \/ m \in {"CROPPED", "PROCESSED"}
        /\ One(queue, LoadPosts) /\ (In(queue, LoadPosts) => m \notin LoadPosts) => One(queue', LoadPosts)
        /\ One(queue, CropPosts) /\ (In(queue, CropPosts) => m \notin CropPosts) => One(queue', CropPosts)
    <2>1. queue \in Seq(Posts) /\ m \in Posts /\ queue' = Append(queue, m)
      BY <1>a DEF IInv, Types, Posts, LoadPosts, LoadEnds, TaskAt, Adding, Post, viewVars, Live
    <2> QED
      BY <2>1, QueueAppend DEF LoadPosts, CropPosts
  <1>1. Types'
    BY <1>q, <1>a DEF IInv, Types, Wrappers, Tasks, TaskPoints, LoadEnds, TaskAt, Adding, Post,
       viewVars, Live
  <1>2. OneLoad'
    BY <1>q, <1>a DEF IInv, Types, OneLoad, LoadPoints, LoadPosts, DataThere, FieldPix,
       LoadEnds, TaskAt, Adding, Post, viewVars, Live
  <1>3. OneCrop'
    BY <1>q, <1>a DEF IInv, Types, OneCrop, OneOcrScreen, ClipPoints, CardPoints, CropTasks,
       CropPosts, LoadEnds, TaskAt, Adding, Post, viewVars, Live
  <1>4. DataThere'
    BY <1>q, <1>a DEF IInv, Types, DataThere, OneLoad, OneCrop, LoadPoints, LoadPosts,
       ClipPoints, CardPoints, CropTasks, CropPosts, LoadEnds, TaskAt, Adding, Post, viewVars,
       Live
  <1>5. FieldPix'
    BY <1>q, <1>a DEF IInv, Types, FieldPix, OneLoad, OneCrop, ClipPoints, CardPoints,
       CropTasks, CropPosts, LoadPoints, LoadPosts, DataThere, Wrappers, LoadEnds, TaskAt,
       Adding, Post, viewVars, Live
  <1>6. PhotoRefs'
    BY <1>q, <1>a DEF IInv, Types, PhotoRefs, FieldPix, OneLoad, OneCrop, LoadPoints, LoadPosts,
       ClipPoints, CardPoints, Wrappers, Tasks, LoadEnds, TaskAt, Adding, Post, viewVars, Live
  <1>7. CardRefs'
    BY <1>q, <1>a DEF IInv, Types, CardRefs, FieldPix, OneLoad, OneCrop, LoadPoints, ClipPoints,
       CardPoints, Wrappers, PhotoRefs, LoadEnds, TaskAt, Adding, Post, viewVars, Live
  <1>8. Outcome'
    BY <1>q, <1>a DEF IInv, Types, Outcome, HandsOverLiveCard, OneCrop, DataThere, FieldPix,
       PhotoRefs, CardRefs, CropPosts, CropTasks, ClipPoints, CardPoints, LoadPoints, OneLoad,
       Wrappers, LoadEnds, TaskAt, Adding, Post, viewVars, Live
  <1> QED
    BY <1>1, <1>2, <1>3, <1>4, <1>5, <1>6, <1>7, <1>8 DEF IInv

\* The task has the data.
LEMMA CropBeginsStep ==
    ASSUME IInv, CropBegins, cropData
    PROVE  IInv'
  <1>1. Types'
    BY DEF IInv, Types, Wrappers, Tasks, TaskPoints, CropBegins, TaskAt, Post, viewVars,
       pixVars, Live
  <1>2. OneLoad'
    BY DEF IInv, Types, OneLoad, LoadPoints, LoadPosts, DataThere, FieldPix, CropBegins, TaskAt,
       Post, viewVars, pixVars, Live
  <1>3. OneCrop'
    BY DEF IInv, Types, OneCrop, OneOcrScreen, ClipPoints, CardPoints, CropTasks, CropPosts,
       CropBegins, TaskAt, Post, viewVars, pixVars, Live
  <1>4. DataThere'
    BY DEF IInv, Types, DataThere, OneLoad, OneCrop, LoadPoints, LoadPosts, ClipPoints,
       CardPoints, CropTasks, CropPosts, CropBegins, TaskAt, Post, viewVars, pixVars, Live
  <1>5. FieldPix'
    BY DEF IInv, Types, FieldPix, OneLoad, OneCrop, ClipPoints, CardPoints, CropTasks,
       CropPosts, LoadPoints, LoadPosts, DataThere, Wrappers, CropBegins, TaskAt, Post,
       viewVars, pixVars, Live
  <1>6. PhotoRefs'
    BY DEF IInv, Types, PhotoRefs, FieldPix, OneLoad, OneCrop, LoadPoints, LoadPosts,
       ClipPoints, CardPoints, Wrappers, Tasks, CropBegins, TaskAt, Post, viewVars, pixVars,
       Live
  <1>7. CardRefs'
    BY DEF IInv, Types, CardRefs, FieldPix, OneLoad, OneCrop, LoadPoints, ClipPoints,
       CardPoints, Wrappers, PhotoRefs, CropBegins, TaskAt, Post, viewVars, pixVars, Live
  <1>8. Outcome'
    BY DEF IInv, Types, Outcome, HandsOverLiveCard, OneCrop, DataThere, FieldPix, PhotoRefs,
       CardRefs, CropPosts, CropTasks, ClipPoints, CardPoints, LoadPoints, OneLoad, Wrappers,
       CropBegins, TaskAt, Post, viewVars, pixVars, Live
  <1> QED
    BY <1>1, <1>2, <1>3, <1>4, <1>5, <1>6, <1>7, <1>8 DEF IInv

\* The data is gone, and the screen as well.
LEMMA CropFailsStep ==
    ASSUME IInv, CropBegins, ~cropData
    PROVE  IInv'
  <1>q. /\ queue' \in Seq(Posts)
        /\ In(queue', LoadPosts) <=> In(queue, LoadPosts)
        /\ In(queue', CropPosts)
        /\ In(queue', {"DETECTED"}) <=> In(queue, {"DETECTED"})
        /\ In(queue', {"CROPPED", "PROCESSED"}) <=> In(queue, {"CROPPED", "PROCESSED"})
        /\ One(queue, LoadPosts) => One(queue', LoadPosts)
        /\ One(queue, CropPosts) /\ ~In(queue, CropPosts) => One(queue', CropPosts)
    <2>1. queue \in Seq(Posts) /\ "NOT_CROPPED" \in Posts /\ queue' = Append(queue, "NOT_CROPPED")
      BY DEF IInv, Types, Posts, CropBegins, TaskAt, Post, viewVars, pixVars, Live
    <2> QED
      BY <2>1, QueueAppend DEF LoadPosts, CropPosts
  <1>1. Types'
    BY <1>q DEF IInv, Types, Wrappers, Tasks, TaskPoints, CropBegins, TaskAt, Post, viewVars,
       pixVars, Live
  <1>2. OneLoad'
    BY <1>q DEF IInv, Types, OneLoad, LoadPoints, LoadPosts, DataThere, FieldPix, CropBegins,
       TaskAt, Post, viewVars, pixVars, Live
  <1>3. OneCrop'
    BY <1>q DEF IInv, Types, OneCrop, OneOcrScreen, ClipPoints, CardPoints, CropTasks,
       CropPosts, CropBegins, TaskAt, Post, viewVars, pixVars, Live
  <1>4. DataThere'
    BY <1>q DEF IInv, Types, DataThere, OneLoad, OneCrop, LoadPoints, LoadPosts, ClipPoints,
       CardPoints, CropTasks, CropPosts, CropBegins, TaskAt, Post, viewVars, pixVars, Live
  <1>5. FieldPix'
    BY <1>q DEF IInv, Types, FieldPix, OneLoad, OneCrop, ClipPoints, CardPoints, CropTasks,
       CropPosts, LoadPoints, LoadPosts, DataThere, Wrappers, CropBegins, TaskAt, Post,
       viewVars, pixVars, Live
  <1>6. PhotoRefs'
    BY <1>q DEF IInv, Types, PhotoRefs, FieldPix, OneLoad, OneCrop, LoadPoints, LoadPosts,
       ClipPoints, CardPoints, Wrappers, Tasks, CropBegins, TaskAt, Post, viewVars, pixVars,
       Live
  <1>7. CardRefs'
    BY <1>q DEF IInv, Types, CardRefs, FieldPix, OneLoad, OneCrop, LoadPoints, ClipPoints,
       CardPoints, Wrappers, PhotoRefs, CropBegins, TaskAt, Post, viewVars, pixVars, Live
  <1>8. Outcome'
    BY <1>q DEF IInv, Types, Outcome, HandsOverLiveCard, OneCrop, DataThere, FieldPix,
       PhotoRefs, CardRefs, CropPosts, CropTasks, ClipPoints, CardPoints, LoadPoints, OneLoad,
       Wrappers, CropBegins, TaskAt, Post, viewVars, pixVars, Live
  <1> QED
    BY <1>1, <1>2, <1>3, <1>4, <1>5, <1>6, <1>7, <1>8 DEF IInv

\* The photo is there when it is read.
LEMMA ClipStep ==
    ASSUME IInv, Clip, tpc' = "check"
    PROVE  IInv'
  <1>1. Types'
    BY DEF IInv, Types, Wrappers, Tasks, TaskPoints, Clip, TaskAt, Post, Read, viewVars,
       pixVars, Live
  <1>2. OneLoad'
    BY DEF IInv, Types, OneLoad, LoadPoints, LoadPosts, DataThere, FieldPix, Clip, TaskAt, Post,
       Read, viewVars, pixVars, Live
  <1>3. OneCrop'
    BY DEF IInv, Types, OneCrop, OneOcrScreen, ClipPoints, CardPoints, CropTasks, CropPosts,
       Clip, TaskAt, Post, Read, viewVars, pixVars, Live
  <1>4. DataThere'
    BY DEF IInv, Types, DataThere, OneLoad, OneCrop, LoadPoints, LoadPosts, ClipPoints,
       CardPoints, CropTasks, CropPosts, Clip, TaskAt, Post, Read, viewVars, pixVars, Live
  <1>5. FieldPix'
    BY DEF IInv, Types, FieldPix, OneLoad, OneCrop, ClipPoints, CardPoints, CropTasks,
       CropPosts, LoadPoints, LoadPosts, DataThere, Wrappers, Clip, TaskAt, Post, Read,
       viewVars, pixVars, Live
  <1>6. PhotoRefs'
    BY DEF IInv, Types, PhotoRefs, FieldPix, OneLoad, OneCrop, LoadPoints, LoadPosts,
       ClipPoints, CardPoints, Wrappers, Tasks, Clip, TaskAt, Post, Read, viewVars, pixVars,
       Live
  <1>7. CardRefs'
    BY DEF IInv, Types, CardRefs, FieldPix, OneLoad, OneCrop, LoadPoints, ClipPoints,
       CardPoints, Wrappers, PhotoRefs, Clip, TaskAt, Post, Read, viewVars, pixVars, Live
  <1>8. Outcome'
    BY DEF IInv, Types, Outcome, HandsOverLiveCard, OneCrop, DataThere, FieldPix, PhotoRefs,
       CardRefs, CropPosts, CropTasks, ClipPoints, CardPoints, LoadPoints, OneLoad, Wrappers,
       Clip, TaskAt, Post, Read, viewVars, pixVars, Live
  <1> QED
    BY <1>1, <1>2, <1>3, <1>4, <1>5, <1>6, <1>7, <1>8 DEF IInv

\* There is nothing to cut.
LEMMA ClipFailsStep ==
    ASSUME IInv, Clip, tpc' # "check"
    PROVE  IInv'
  <1>q. /\ queue' \in Seq(Posts)
        /\ In(queue', LoadPosts) <=> In(queue, LoadPosts)
        /\ In(queue', CropPosts)
        /\ In(queue', {"DETECTED"}) <=> In(queue, {"DETECTED"})
        /\ In(queue', {"CROPPED", "PROCESSED"}) <=> In(queue, {"CROPPED", "PROCESSED"})
        /\ One(queue, LoadPosts) => One(queue', LoadPosts)
        /\ One(queue, CropPosts) /\ ~In(queue, CropPosts) => One(queue', CropPosts)
    <2>1. queue \in Seq(Posts) /\ "NOT_CROPPED" \in Posts /\ queue' = Append(queue, "NOT_CROPPED")
      BY DEF IInv, Types, Posts, Clip, TaskAt, Post, Read, viewVars, pixVars, Live
    <2> QED
      BY <2>1, QueueAppend DEF LoadPosts, CropPosts
  <1>1. Types'
    BY <1>q DEF IInv, Types, Wrappers, Tasks, TaskPoints, Clip, TaskAt, Post, Read, viewVars,
       pixVars, Live
  <1>2. OneLoad'
    BY <1>q DEF IInv, Types, OneLoad, LoadPoints, LoadPosts, DataThere, FieldPix, Clip, TaskAt,
       Post, Read, viewVars, pixVars, Live
  <1>3. OneCrop'
    BY <1>q DEF IInv, Types, OneCrop, OneOcrScreen, ClipPoints, CardPoints, CropTasks,
       CropPosts, Clip, TaskAt, Post, Read, viewVars, pixVars, Live
  <1>4. DataThere'
    BY <1>q DEF IInv, Types, DataThere, OneLoad, OneCrop, LoadPoints, LoadPosts, ClipPoints,
       CardPoints, CropTasks, CropPosts, Clip, TaskAt, Post, Read, viewVars, pixVars, Live
  <1>5. FieldPix'
    BY <1>q DEF IInv, Types, FieldPix, OneLoad, OneCrop, ClipPoints, CardPoints, CropTasks,
       CropPosts, LoadPoints, LoadPosts, DataThere, Wrappers, Clip, TaskAt, Post, Read,
       viewVars, pixVars, Live
  <1>6. PhotoRefs'
    BY <1>q DEF IInv, Types, PhotoRefs, FieldPix, OneLoad, OneCrop, LoadPoints, LoadPosts,
       ClipPoints, CardPoints, Wrappers, Tasks, Clip, TaskAt, Post, Read, viewVars, pixVars,
       Live
  <1>7. CardRefs'
    BY <1>q DEF IInv, Types, CardRefs, FieldPix, OneLoad, OneCrop, LoadPoints, ClipPoints,
       CardPoints, Wrappers, PhotoRefs, Clip, TaskAt, Post, Read, viewVars, pixVars, Live
  <1>8. Outcome'
    BY <1>q DEF IInv, Types, Outcome, HandsOverLiveCard, OneCrop, DataThere, FieldPix,
       PhotoRefs, CardRefs, CropPosts, CropTasks, ClipPoints, CardPoints, LoadPoints, OneLoad,
       Wrappers, Clip, TaskAt, Post, Read, viewVars, pixVars, Live
  <1> QED
    BY <1>1, <1>2, <1>3, <1>4, <1>5, <1>6, <1>7, <1>8 DEF IInv

\* The data is there.
LEMMA HandleLoadedStep ==
    ASSUME IInv, HandleLoaded, ~loadCancelled
    PROVE  IInv'
  <1>q. /\ queue' \in Seq(Posts)
        /\ In(queue, LoadPosts)
        /\ In(queue', CropPosts) <=> In(queue, CropPosts)
        /\ In(queue', {"DETECTED"}) <=> In(queue, {"DETECTED"})
        /\ In(queue', {"CROPPED", "PROCESSED"}) <=> In(queue, {"CROPPED", "PROCESSED"})
        /\ One(queue, LoadPosts) => One(queue', LoadPosts) /\ ~In(queue', LoadPosts)
        /\ One(queue, CropPosts) => One(queue', CropPosts)
    <2>1. queue \in Seq(Posts) /\ queue # <<>> /\ Head(queue) = "LOADED" /\ queue' = Tail(queue)
      BY DEF IInv, Types, HandleLoaded, Handle, Execute, pixVars, Live
    <2> QED
      BY <2>1, QueueTail DEF LoadPosts, CropPosts
  <1>t. /\ tasks' \in Seq(Tasks)
        /\ In(tasks', {"blur"}) <=> In(tasks, {"blur"})
        /\ In(tasks', CropTasks) <=> In(tasks, CropTasks)
        /\ In(tasks', {"detect"})
        /\ In(tasks', {"crop"}) <=> In(tasks, {"crop"})
        /\ In(tasks', {"process"}) <=> In(tasks, {"process"})
        /\ One(tasks, {"blur"}) => One(tasks', {"blur"})
        /\ One(tasks, CropTasks) => One(tasks', CropTasks)
    <2>1. tasks \in Seq(Tasks) /\ "detect" \in Tasks /\ tasks' = Append(tasks, "detect")
      BY DEF IInv, Types, Tasks, HandleLoaded, Handle, Execute, pixVars, Live
    <2> QED
      BY <2>1, TasksAppend DEF CropTasks
  <1>1. Types'
    BY <1>q, <1>t DEF IInv, Types, Wrappers, Tasks, TaskPoints, HandleLoaded, Handle, Execute,
       pixVars, Live
  <1>2. OneLoad'
    BY <1>q, <1>t DEF IInv, Types, OneLoad, LoadPoints, LoadPosts, DataThere, FieldPix,
       HandleLoaded, Handle, Execute, pixVars, Live
  <1>3. OneCrop'
    BY <1>q, <1>t DEF IInv, Types, OneCrop, OneOcrScreen, ClipPoints, CardPoints, CropTasks,
       CropPosts, HandleLoaded, Handle, Execute, pixVars, Live
  <1>4. DataThere'
    BY <1>q, <1>t DEF IInv, Types, DataThere, OneLoad, OneCrop, LoadPoints, LoadPosts,
       ClipPoints, CardPoints, CropTasks, CropPosts, HandleLoaded, Handle, Execute, pixVars,
       Live
  <1>5. FieldPix'
    BY <1>q, <1>t DEF IInv, Types, FieldPix, OneLoad, OneCrop, ClipPoints, CardPoints,
       CropTasks, CropPosts, LoadPoints, LoadPosts, DataThere, Wrappers, HandleLoaded, Handle,
       Execute, pixVars, Live
  <1>6. PhotoRefs'
    BY <1>q, <1>t DEF IInv, Types, PhotoRefs, FieldPix, OneLoad, OneCrop, LoadPoints, LoadPosts,
       ClipPoints, CardPoints, Wrappers, Tasks, HandleLoaded, Handle, Execute, pixVars, Live
  <1>7. CardRefs'
    BY <1>q, <1>t DEF IInv, Types, CardRefs, FieldPix, OneLoad, OneCrop, LoadPoints, ClipPoints,
       CardPoints, Wrappers, PhotoRefs, HandleLoaded, Handle, Execute, pixVars, Live
  <1>8. Outcome'
    BY <1>q, <1>t DEF IInv, Types, Outcome, HandsOverLiveCard, OneCrop, DataThere, FieldPix,
       PhotoRefs, CardRefs, CropPosts, CropTasks, ClipPoints, CardPoints, LoadPoints, OneLoad,
       Wrappers, HandleLoaded, Handle, Execute, pixVars, Live
  <1> QED
    BY <1>1, <1>2, <1>3, <1>4, <1>5, <1>6, <1>7, <1>8 DEF IInv

\* Nobody wants the data any more.
LEMMA HandleCancelledStep ==
    ASSUME IInv, HandleLoaded, loadCancelled
    PROVE  IInv'
  <1>q. /\ queue' \in Seq(Posts)
        /\ In(queue, LoadPosts)
        /\ In(queue', CropPosts) <=> In(queue, CropPosts)
        /\ In(queue', {"DETECTED"}) <=> In(queue, {"DETECTED"})
        /\ In(queue', {"CROPPED", "PROCESSED"}) <=> In(queue, {"CROPPED", "PROCESSED"})
        /\ One(queue, LoadPosts) => One(queue', LoadPosts) /\ ~In(queue', LoadPosts)
        /\ One(queue, CropPosts) => One(queue', CropPosts)
    <2>1. queue \in Seq(Posts) /\ queue # <<>> /\ Head(queue) = "LOADED" /\ queue' = Tail(queue)
      BY DEF IInv, Types, HandleLoaded, Handle, Execute, pixVars, Live
    <2> QED
      BY <2>1, QueueTail DEF LoadPosts, CropPosts
  <1>1. Types'
    BY <1>q DEF IInv, Types, Wrappers, Tasks, TaskPoints, HandleLoaded, Handle, Execute,
       pixVars, Live
  <1>2. OneLoad'
    BY <1>q DEF IInv, Types, OneLoad, LoadPoints, LoadPosts, DataThere, FieldPix, HandleLoaded,
       Handle, Execute, pixVars, Live
  <1>3. OneCrop'
    BY <1>q DEF IInv, Types, OneCrop, OneOcrScreen, ClipPoints, CardPoints, CropTasks,
       CropPosts, HandleLoaded, Handle, Execute, pixVars, Live
  <1>4. DataThere'
    BY <1>q DEF IInv, Types, DataThere, OneLoad, OneCrop, LoadPoints, LoadPosts, ClipPoints,
       CardPoints, CropTasks, CropPosts, HandleLoaded, Handle, Execute, pixVars, Live
  <1>5. FieldPix'
    BY <1>q DEF IInv, Types, FieldPix, OneLoad, OneCrop, ClipPoints, CardPoints, CropTasks,
       CropPosts, LoadPoints, LoadPosts, DataThere, Wrappers, HandleLoaded, Handle, Execute,
       pixVars, Live
  <1>6. PhotoRefs'
    BY <1>q DEF IInv, Types, PhotoRefs, FieldPix, OneLoad, OneCrop, LoadPoints, LoadPosts,
       ClipPoints, CardPoints, Wrappers, Tasks, HandleLoaded, Handle, Execute, pixVars, Live
  <1>7. CardRefs'
    BY <1>q DEF IInv, Types, CardRefs, FieldPix, OneLoad, OneCrop, LoadPoints, ClipPoints,
       CardPoints, Wrappers, PhotoRefs, HandleLoaded, Handle, Execute, pixVars, Live
  <1>8. Outcome'
    BY <1>q DEF IInv, Types, Outcome, HandsOverLiveCard, OneCrop, DataThere, FieldPix,
       PhotoRefs, CardRefs, CropPosts, CropTasks, ClipPoints, CardPoints, LoadPoints, OneLoad,
       Wrappers, HandleLoaded, Handle, Execute, pixVars, Live
  <1> QED
    BY <1>1, <1>2, <1>3, <1>4, <1>5, <1>6, <1>7, <1>8 DEF IInv

\* The load begins, unless it was cancelled.
LEMMA TakeBlurStep ==
    ASSUME IInv, TakeTask, Head(tasks) = "blur"
    PROVE  IInv'
  <1>t. /\ tasks' \in Seq(Tasks)
        /\ In(tasks, {"blur"})
        /\ In(tasks', CropTasks) <=> In(tasks, CropTasks)
        /\ In(tasks', {"detect"}) <=> In(tasks, {"detect"})
        /\ In(tasks', {"crop"}) <=> In(tasks, {"crop"})
        /\ In(tasks', {"process"}) <=> In(tasks, {"process"})
        /\ One(tasks, {"blur"}) => One(tasks', {"blur"}) /\ ~In(tasks', {"blur"})
        /\ One(tasks, CropTasks) => One(tasks', CropTasks)
    <2>1. tasks \in Seq(Tasks) /\ tasks # <<>> /\ Head(tasks) = "blur" /\ tasks' = Tail(tasks)
      BY DEF IInv, Types, TakeTask, Live, viewVars, mainVars, pixVars
    <2> QED
      BY <2>1, TasksTail DEF CropTasks
  <1>1. Types'
    BY <1>t DEF IInv, Types, Wrappers, Tasks, TaskPoints, TakeTask, Live, viewVars, mainVars,
       pixVars
  <1>2. OneLoad'
    BY <1>t DEF IInv, Types, OneLoad, LoadPoints, LoadPosts, DataThere, FieldPix, TakeTask,
       Live, viewVars, mainVars, pixVars
  <1>3. OneCrop'
    BY <1>t DEF IInv, Types, OneCrop, OneOcrScreen, ClipPoints, CardPoints, CropTasks,
       CropPosts, TakeTask, Live, viewVars, mainVars, pixVars
  <1>4. DataThere'
    BY <1>t DEF IInv, Types, DataThere, OneLoad, OneCrop, LoadPoints, LoadPosts, ClipPoints,
       CardPoints, CropTasks, CropPosts, TakeTask, Live, viewVars, mainVars, pixVars
  <1>5. FieldPix'
    BY <1>t DEF IInv, Types, FieldPix, OneLoad, OneCrop, ClipPoints, CardPoints, CropTasks,
       CropPosts, LoadPoints, LoadPosts, DataThere, Wrappers, TakeTask, Live, viewVars,
       mainVars, pixVars
  <1>6. PhotoRefs'
    BY <1>t DEF IInv, Types, PhotoRefs, FieldPix, OneLoad, OneCrop, LoadPoints, LoadPosts,
       ClipPoints, CardPoints, Wrappers, Tasks, TakeTask, Live, viewVars, mainVars, pixVars
  <1>7. CardRefs'
    BY <1>t DEF IInv, Types, CardRefs, FieldPix, OneLoad, OneCrop, LoadPoints, ClipPoints,
       CardPoints, Wrappers, PhotoRefs, TakeTask, Live, viewVars, mainVars, pixVars
  <1>8. Outcome'
    BY <1>t DEF IInv, Types, Outcome, HandsOverLiveCard, OneCrop, DataThere, FieldPix,
       PhotoRefs, CardRefs, CropPosts, CropTasks, ClipPoints, CardPoints, LoadPoints, OneLoad,
       Wrappers, TakeTask, Live, viewVars, mainVars, pixVars
  <1> QED
    BY <1>1, <1>2, <1>3, <1>4, <1>5, <1>6, <1>7, <1>8 DEF IInv

\* The detection begins.
LEMMA TakeDetectStep ==
    ASSUME IInv, TakeTask, Head(tasks) = "detect"
    PROVE  IInv'
  <1>t. /\ tasks' \in Seq(Tasks)
        /\ In(tasks', {"blur"}) <=> In(tasks, {"blur"})
        /\ In(tasks', CropTasks) <=> In(tasks, CropTasks)
        /\ In(tasks, {"detect"})
        /\ In(tasks', {"crop"}) <=> In(tasks, {"crop"})
        /\ In(tasks', {"process"}) <=> In(tasks, {"process"})
        /\ One(tasks, {"blur"}) => One(tasks', {"blur"})
        /\ One(tasks, CropTasks) => One(tasks', CropTasks)
    <2>1. tasks \in Seq(Tasks) /\ tasks # <<>> /\ Head(tasks) = "detect" /\ tasks' = Tail(tasks)
      BY DEF IInv, Types, TakeTask, Live, viewVars, mainVars, pixVars
    <2> QED
      BY <2>1, TasksTail DEF CropTasks
  <1>1. Types'
    BY <1>t DEF IInv, Types, Wrappers, Tasks, TaskPoints, TakeTask, Live, viewVars, mainVars,
       pixVars
  <1>2. OneLoad'
    BY <1>t DEF IInv, Types, OneLoad, LoadPoints, LoadPosts, DataThere, FieldPix, TakeTask,
       Live, viewVars, mainVars, pixVars
  <1>3. OneCrop'
    BY <1>t DEF IInv, Types, OneCrop, OneOcrScreen, ClipPoints, CardPoints, CropTasks,
       CropPosts, TakeTask, Live, viewVars, mainVars, pixVars
  <1>4. DataThere'
    BY <1>t DEF IInv, Types, DataThere, OneLoad, OneCrop, LoadPoints, LoadPosts, ClipPoints,
       CardPoints, CropTasks, CropPosts, TakeTask, Live, viewVars, mainVars, pixVars
  <1>5. FieldPix'
    BY <1>t DEF IInv, Types, FieldPix, OneLoad, OneCrop, ClipPoints, CardPoints, CropTasks,
       CropPosts, LoadPoints, LoadPosts, DataThere, Wrappers, TakeTask, Live, viewVars,
       mainVars, pixVars
  <1>6. PhotoRefs'
    BY <1>t DEF IInv, Types, PhotoRefs, FieldPix, OneLoad, OneCrop, LoadPoints, LoadPosts,
       ClipPoints, CardPoints, Wrappers, Tasks, TakeTask, Live, viewVars, mainVars, pixVars
  <1>7. CardRefs'
    BY <1>t DEF IInv, Types, CardRefs, FieldPix, OneLoad, OneCrop, LoadPoints, ClipPoints,
       CardPoints, Wrappers, PhotoRefs, TakeTask, Live, viewVars, mainVars, pixVars
  <1>8. Outcome'
    BY <1>t DEF IInv, Types, Outcome, HandsOverLiveCard, OneCrop, DataThere, FieldPix,
       PhotoRefs, CardRefs, CropPosts, CropTasks, ClipPoints, CardPoints, LoadPoints, OneLoad,
       Wrappers, TakeTask, Live, viewVars, mainVars, pixVars
  <1> QED
    BY <1>1, <1>2, <1>3, <1>4, <1>5, <1>6, <1>7, <1>8 DEF IInv

\* The crop begins.
LEMMA TakeCropStep ==
    ASSUME IInv, TakeTask, Head(tasks) = "crop"
    PROVE  IInv'
  <1>t. /\ tasks' \in Seq(Tasks)
        /\ In(tasks', {"blur"}) <=> In(tasks, {"blur"})
        /\ In(tasks, CropTasks)
        /\ In(tasks', {"detect"}) <=> In(tasks, {"detect"})
        /\ In(tasks, {"crop"})
        /\ In(tasks', {"process"}) <=> In(tasks, {"process"})
        /\ One(tasks, {"blur"}) => One(tasks', {"blur"})
        /\ One(tasks, CropTasks) => One(tasks', CropTasks) /\ ~In(tasks', CropTasks)
    <2>1. tasks \in Seq(Tasks) /\ tasks # <<>> /\ Head(tasks) = "crop" /\ tasks' = Tail(tasks)
      BY DEF IInv, Types, TakeTask, Live, viewVars, mainVars, pixVars
    <2> QED
      BY <2>1, TasksTail DEF CropTasks
  <1>1. Types'
    BY <1>t DEF IInv, Types, Wrappers, Tasks, TaskPoints, TakeTask, Live, viewVars, mainVars,
       pixVars
  <1>2. OneLoad'
    BY <1>t DEF IInv, Types, OneLoad, LoadPoints, LoadPosts, DataThere, FieldPix, TakeTask,
       Live, viewVars, mainVars, pixVars
  <1>3. OneCrop'
    BY <1>t DEF IInv, Types, OneCrop, OneOcrScreen, ClipPoints, CardPoints, CropTasks,
       CropPosts, TakeTask, Live, viewVars, mainVars, pixVars
  <1>4. DataThere'
    BY <1>t DEF IInv, Types, DataThere, OneLoad, OneCrop, LoadPoints, LoadPosts, ClipPoints,
       CardPoints, CropTasks, CropPosts, TakeTask, Live, viewVars, mainVars, pixVars
  <1>5. FieldPix'
    BY <1>t DEF IInv, Types, FieldPix, OneLoad, OneCrop, ClipPoints, CardPoints, CropTasks,
       CropPosts, LoadPoints, LoadPosts, DataThere, Wrappers, TakeTask, Live, viewVars,
       mainVars, pixVars
  <1>6. PhotoRefs'
    BY <1>t DEF IInv, Types, PhotoRefs, FieldPix, OneLoad, OneCrop, LoadPoints, LoadPosts,
       ClipPoints, CardPoints, Wrappers, Tasks, TakeTask, Live, viewVars, mainVars, pixVars
  <1>7. CardRefs'
    BY <1>t DEF IInv, Types, CardRefs, FieldPix, OneLoad, OneCrop, LoadPoints, ClipPoints,
       CardPoints, Wrappers, PhotoRefs, TakeTask, Live, viewVars, mainVars, pixVars
  <1>8. Outcome'
    BY <1>t DEF IInv, Types, Outcome, HandsOverLiveCard, OneCrop, DataThere, FieldPix,
       PhotoRefs, CardRefs, CropPosts, CropTasks, ClipPoints, CardPoints, LoadPoints, OneLoad,
       Wrappers, TakeTask, Live, viewVars, mainVars, pixVars
  <1> QED
    BY <1>1, <1>2, <1>3, <1>4, <1>5, <1>6, <1>7, <1>8 DEF IInv

\* The last task begins.
LEMMA TakeProcessStep ==
    ASSUME IInv, TakeTask, Head(tasks) = "process"
    PROVE  IInv'
  <1>t. /\ tasks' \in Seq(Tasks)
        /\ In(tasks', {"blur"}) <=> In(tasks, {"blur"})
        /\ In(tasks, CropTasks)
        /\ In(tasks', {"detect"}) <=> In(tasks, {"detect"})
        /\ In(tasks', {"crop"}) <=> In(tasks, {"crop"})
        /\ In(tasks, {"process"})
        /\ One(tasks, {"blur"}) => One(tasks', {"blur"})
        /\ One(tasks, CropTasks) => One(tasks', CropTasks) /\ ~In(tasks', CropTasks)
    <2>1. tasks \in Seq(Tasks) /\ tasks # <<>> /\ Head(tasks) = "process" /\ tasks' = Tail(tasks)
      BY DEF IInv, Types, TakeTask, Live, viewVars, mainVars, pixVars
    <2> QED
      BY <2>1, TasksTail DEF CropTasks
  <1>1. Types'
    BY <1>t DEF IInv, Types, Wrappers, Tasks, TaskPoints, TakeTask, Live, viewVars, mainVars,
       pixVars
  <1>2. OneLoad'
    BY <1>t DEF IInv, Types, OneLoad, LoadPoints, LoadPosts, DataThere, FieldPix, TakeTask,
       Live, viewVars, mainVars, pixVars
  <1>3. OneCrop'
    BY <1>t DEF IInv, Types, OneCrop, OneOcrScreen, ClipPoints, CardPoints, CropTasks,
       CropPosts, TakeTask, Live, viewVars, mainVars, pixVars
  <1>4. DataThere'
    BY <1>t DEF IInv, Types, DataThere, OneLoad, OneCrop, LoadPoints, LoadPosts, ClipPoints,
       CardPoints, CropTasks, CropPosts, TakeTask, Live, viewVars, mainVars, pixVars
  <1>5. FieldPix'
    BY <1>t DEF IInv, Types, FieldPix, OneLoad, OneCrop, ClipPoints, CardPoints, CropTasks,
       CropPosts, LoadPoints, LoadPosts, DataThere, Wrappers, TakeTask, Live, viewVars,
       mainVars, pixVars
  <1>6. PhotoRefs'
    BY <1>t DEF IInv, Types, PhotoRefs, FieldPix, OneLoad, OneCrop, LoadPoints, LoadPosts,
       ClipPoints, CardPoints, Wrappers, Tasks, TakeTask, Live, viewVars, mainVars, pixVars
  <1>7. CardRefs'
    BY <1>t DEF IInv, Types, CardRefs, FieldPix, OneLoad, OneCrop, LoadPoints, ClipPoints,
       CardPoints, Wrappers, PhotoRefs, TakeTask, Live, viewVars, mainVars, pixVars
  <1>8. Outcome'
    BY <1>t DEF IInv, Types, Outcome, HandsOverLiveCard, OneCrop, DataThere, FieldPix,
       PhotoRefs, CardRefs, CropPosts, CropTasks, ClipPoints, CardPoints, LoadPoints, OneLoad,
       Wrappers, TakeTask, Live, viewVars, mainVars, pixVars
  <1> QED
    BY <1>1, <1>2, <1>3, <1>4, <1>5, <1>6, <1>7, <1>8 DEF IInv

LEMMA InitIInv == Init => IInv
  <1> SUFFICES ASSUME Init PROVE IInv
    OBVIOUS
  <1> USE DEF Init
  <1>1. /\ queue \in Seq(Posts) /\ Len(queue) = 0 /\ tasks \in Seq(Tasks) /\ Len(tasks) = 0
        /\ opened \in Seq(Int) /\ Len(opened) = 0
    OBVIOUS
  <1>2. \A S : ~In(queue, S) /\ ~In(tasks, S) /\ One(queue, S) /\ One(tasks, S)
    BY <1>1 DEF In, One
  <1>3. Types
    <2>1. /\ laid \in BOOLEAN /\ cropData \in BOOLEAN /\ frame \in BOOLEAN /\ warning \in BOOLEAN
          /\ relayout \in BOOLEAN /\ cropping \in BOOLEAN /\ loadCancelled \in BOOLEAN
      BY Zenon
    <2> QED
      BY <1>1, <2>1 DEF Types, Wrappers, TaskPoints
  <1>4. OneLoad /\ OneCrop
    BY <1>1, <1>2 DEF OneLoad, OneCrop, OneOcrScreen, LoadPoints, ClipPoints, CardPoints
  <1>5. DataThere /\ FieldPix
    BY <1>2 DEF DataThere, FieldPix, ClipPoints, CardPoints
  <1>6. PhotoRefs /\ CardRefs
    BY <1>2 DEF PhotoRefs, CardRefs
  <1>7. Outcome
    BY <1>1 DEF Outcome, HandsOverLiveCard
  <1> QED
    BY <1>3, <1>4, <1>5, <1>6, <1>7 DEF IInv

LEMMA NextIInv == IInv /\ [Next]_vars => IInv'
  <1> SUFFICES ASSUME IInv, [Next]_vars PROVE IInv'
    OBVIOUS
  <1>1. CASE User
    BY <1>1, RotateStep, ContinueStep, DismissWarningStep, BackStep, CropStep DEF User
  <1>2. CASE TakeTask
    <2>1. Head(tasks) \in Tasks
      BY <1>2 DEF IInv, Types, TakeTask
    <2> QED
      BY <1>2, <2>1, TakeBlurStep, TakeDetectStep, TakeCropStep, TakeProcessStep DEF Tasks
  <1>3. CASE CropBegins \/ Clip
    BY <1>3, CropBeginsStep, CropFailsStep, ClipStep, ClipFailsStep
  <1>4. CASE Task /\ ~TakeTask /\ ~(CropBegins \/ Clip)
    BY <1>4, LoadBlurStep, LoadScaleStep, LoadBitmapStep, LoadEndsStep, DetectStep,
       CropChecksStep,
       CropRecyclesStep, CutStep, DropBilinearStep, CropPreviewStep, CropEndsStep, ProcessStep
       DEF Task
  <1>5. CASE Main
    BY <1>5, BackRecyclesStep, HandleLoadedStep, HandleCancelledStep, HandleNoBitmapStep,
       HandleDetectedStep, HandleCroppedStep, HandleNotCroppedStep, HandleProcessedStep,
       DestroyStep DEF Main
  <1>6. CASE NoOpenCv \/ FirstLayout \/ ShowPhoto \/ OrderDestroy
    BY <1>6, NoOpenCvStep, FirstLayoutStep, ShowPhotoStep, OrderDestroyStep
  <1>7. CASE UNCHANGED vars
    BY <1>7 DEF vars, viewVars, mainVars, taskVars, pixVars, IInv, Types, OneLoad, OneCrop,
       OneOcrScreen, DataThere, FieldPix, PhotoRefs, CardRefs, Outcome, HandsOverLiveCard, In, One
  <1> QED
    BY <1>1, <1>2, <1>3, <1>4, <1>5, <1>6, <1>7 DEF Next, Rest

THEOREM Invariance == Spec => []IInv
  BY InitIInv, NextIInv, PTL DEF Spec

-----------------------------------------------------------------------------
(* The theorems.                                                           *)

\* The leaked clone of LoadPixForCropTask keeps the photo for clipRectangle2, although
\* onBackPressed may have recycled pix.
THEOREM PhotoStays == Spec => []PhotoOutlivesClip
  <1>1. IInv => PhotoOutlivesClip
    BY DEF IInv, Types, FieldPix, PhotoRefs, PhotoOutlivesClip, ClipPoints, Wrappers
  <1> QED
    BY <1>1, Invariance, PTL

\* OCRActivity never starts on a card that is freed, and gets both references unless the
\* user went back.
THEOREM CardIsLive == Spec => []HandsOverLiveCard
  <1>1. IInv => HandsOverLiveCard
    BY DEF IInv, Outcome
  <1> QED
    BY <1>1, Invariance, PTL

\* However often the user taps, a crop leads to one OCR screen at most.
THEOREM OneScreenPerCrop == Spec => []OneOcrScreen
  <1>1. IInv => OneOcrScreen
    BY DEF IInv, OneCrop
  <1> QED
    BY <1>1, Invariance, PTL

\* No preview is left behind by a screen that was destroyed while the photo was loading.
THEOREM NoPreviewLeft == Spec => []PreviewRecycled
  <1>1. IInv => PreviewRecycled
    BY DEF IInv, Types, DataThere, PreviewRecycled, Idle, In, LoadPoints
  <1> QED
    BY <1>1, Invariance, PTL

\* Freed pixels and missing data are met only by the user who leaves during a crop.
THEOREM EveryFaultHasReason == Spec => []FaultHasReason
  <1>1. ASSUME IInv PROVE TypeOK
    <2>1. refs["photo"] \in 0..3 /\ refs["card"] \in 0..3
      BY <1>1 DEF IInv, PhotoRefs, CardRefs
    <2>2. refs \in [Wrappers -> 0..3]
      BY <1>1, <2>1 DEF IInv, Types, Wrappers
    <2>3. {laid, cropData, frame, warning, relayout, cropping, loadCancelled} \subseteq BOOLEAN
      BY <1>1 DEF IInv, Types
    <2> QED
      BY <1>1, <2>2, <2>3 DEF IInv, Types, TypeOK
  <1>2. IInv => FaultHasReason
    BY <1>1 DEF IInv, Outcome, FaultHasReason
  <1> QED
    BY <1>2, Invariance, PTL
=============================================================================
