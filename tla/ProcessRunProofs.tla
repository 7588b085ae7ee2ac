--------------------------- MODULE ProcessRunProofs ---------------------------
(***************************************************************************)
(* Theorems about ProcessRun: its types, one source, one model, and that   *)
(* only slivers fail to be cropped.                                        *)
(***************************************************************************)
EXTENDS ProcessRun, TLAPS

\* Control points that only a command with a model comes to, those where it
\* has fingerprints, those that know the release to be the recorded one, and
\* those with an open PDF.
ModelPoint == {"preflight", "fingerprint", "freeze"}
PagePoint == {"render", "write", "freeze", "loop", "interpret"}
OpenedPoint == PagePoint \cup {"preflight", "fingerprint"}
GuardedPoint == OpenedPoint \cup {"open"}

\* What is on disk: nothing before init, and a projector is named in the
\* location as long as the environment has one.
DiskInv ==
    /\ record = Nothing <=> location = Nothing
    /\ record = Nothing =>
          /\ environment = Nothing /\ pc = "idle"
          /\ pages = <<>> /\ \A p \in Page : image[p] = Nothing
    /\ environment # Nothing =>
          (location.projector = Nothing <=> environment.projector = Nothing)

\* What a command knows of its source once the guard has let it through.
SourceInv ==
    /\ pc \in GuardedPoint => release = record.release
    /\ pc = "open" /\ "source" \notin raced => pdf = record.book
    /\ pc \in OpenedPoint =>
          opened # Nothing /\ ("source" \notin raced => opened = record.book)

\* What a command knows of its model after preflight and after fingerprinting.
ModelInv ==
    /\ pc \in ModelPoint => interpreter = "vlm"
    /\ pc = "fingerprint" /\ "model" \notin raced => server.path = location.model
    /\ pc \in PagePoint /\ interpreter = "vlm" =>
          /\ seen # Nothing
          /\ environment # Nothing => seen = environment
          /\ seen.projector = Nothing <=> location.projector = Nothing
          /\ "model" \notin raced => server.model = seen.model
    /\ pc = "freeze" => environment = Nothing
    /\ pc \in {"loop", "interpret"} /\ interpreter = "vlm" => environment # Nothing

\* The page at hand.
PageInv ==
    /\ pc \in {"render", "write", "interpret"} /\ ~Calibrating =>
          Len(pages) < PageCount
    /\ pc \in {"write", "interpret"} => image[PageAt] # Nothing
    /\ pc = "interpret" => rendered \in Sizes

IInv ==
    /\ TypeOK /\ DiskInv /\ SourceInv /\ ModelInv /\ PageInv
    /\ OneSource /\ OneModel /\ OnlySlivers

-------------------------------------------------------------------------------
(* Crops.                                                                    *)

\* Where a place of the page comes to lie: in the image, and less than two
\* pixels below its exact place.
LEMMA PixelBounds ==
    ASSUME NEW at \in Thousandth, NEW size \in Nat \ {0}, NEW x \in Pixels(at, size)
    PROVE  /\ x \in Int /\ x =< size
           /\ 1000 * x =< at * size /\ at * size =< 1000 * x + 1000
<1> DEFINE m == at * size
<1>1. m \in Nat /\ m =< 1000 * size
    BY DEF Thousandth
<1>2. /\ m \div 1000 \in Int /\ 1000 * (m \div 1000) =< m
      /\ m < 1000 * (m \div 1000) + 1000
      /\ m % 1000 = 0 => m = 1000 * (m \div 1000)
    BY <1>1
<1>3. \/ x = m \div 1000
      \/ x = m \div 1000 - 1 /\ m % 1000 = 0
    BY DEF Pixels
<1> HIDE DEF m
<1>4. x \in Int /\ x =< size /\ 1000 * x =< m /\ m =< 1000 * x + 1000
    BY <1>1, <1>2, <1>3
<1> QED
    BY <1>4 DEF m

\* A distance is a number.
LEMMA DistanceType ==
    ASSUME NEW x \in Thousandth, NEW y \in Thousandth
    PROVE  Distance(x, y) \in Nat
BY DEF Distance, Greater, Lesser, Thousandth

\* Two places that are at least two pixels apart, of a page said to be no larger
\* than its image, span a part of the image that is not empty.
LEMMA SpanNotEmpty ==
    ASSUME NEW from \in Thousandth, NEW to \in Thousandth,
           NEW said \in Nat \ {0}, NEW size \in Nat \ {0}, said =< size,
           Distance(from, to) * said >= 2000,
           NEW span \in Spans(from, to, said, size)
    PROVE  ~Degenerate(span) /\ 0 =< span.low /\ span.high =< size
<1>1. PICK x \in Pixels(from, said), y \in Pixels(to, said) :
          span = [low |-> Greater(0, Lesser(x, y)), high |-> Lesser(size, Greater(x, y))]
    BY DEF Spans
<1>2. /\ x \in Int /\ x =< said
      /\ 1000 * x =< from * said /\ from * said =< 1000 * x + 1000
    BY PixelBounds
<1>3. /\ y \in Int /\ y =< said
      /\ 1000 * y =< to * said /\ to * said =< 1000 * y + 1000
    BY PixelBounds
<1>4. from * said \in Nat /\ to * said \in Nat
    BY DEF Thousandth
<1>5. \/ to * said - from * said >= 2000
      \/ from * said - to * said >= 2000
    BY DEF Distance, Greater, Lesser, Thousandth
<1> QED
    BY <1>1, <1>2, <1>3, <1>4, <1>5 DEF Degenerate, Greater, Lesser

\* A crop that fails is that of a sliver.
LEMMA FailuresAreSlivers ==
    ASSUME NEW box \in Box, NEW said \in Sizes, CropFails(box, said, Drawn)
    PROVE  Sliver(box, said)
<1> SUFFICES ASSUME ~Sliver(box, said) PROVE FALSE
    OBVIOUS
<1>a. /\ box.left \in Thousandth /\ box.right \in Thousandth
      /\ box.top \in Thousandth /\ box.bottom \in Thousandth
    BY DEF Box
<1>b. /\ Drawn.width \in Nat \ {0} /\ Drawn.height \in Nat \ {0}
      /\ said.width \in Nat \ {0} /\ said.height \in Nat \ {0}
      /\ said.width =< Drawn.width /\ said.height =< Drawn.height
    BY RunAssumption DEF Sizes, Drawn, Reread
<1>1. PICK crop \in Crops(box, said, Drawn) :
          Degenerate(crop.across) \/ Degenerate(crop.down)
    BY DEF CropFails
<1>2. /\ crop.across \in Spans(box.left, box.right, said.width, Drawn.width)
      /\ crop.down \in Spans(box.top, box.bottom, said.height, Drawn.height)
    BY DEF Crops
<1>3. /\ Distance(box.left, box.right) * said.width >= 2000
      /\ Distance(box.top, box.bottom) * said.height >= 2000
    <2>1. /\ Distance(box.left, box.right) \in Int
          /\ Distance(box.top, box.bottom) \in Int
        BY <1>a, DistanceType
    <2> QED
        BY <2>1, <1>b DEF Sliver
<1> QED
    BY <1>a, <1>b, <1>1, <1>2, <1>3, SpanNotEmpty

-------------------------------------------------------------------------------
(* The invariant holds before init and is kept by every end of a command.    *)

LEMMA InitLemma == Init => IInv
<1> SUFFICES ASSUME Init PROVE IInv
    OBVIOUS
<1> USE RunAssumption DEF Init
<1>1. TypeOK
    BY DEF TypeOK, Steps
<1>2. DiskInv /\ SourceInv /\ ModelInv /\ PageInv
    BY DEF DiskInv, SourceInv, ModelInv, PageInv, ModelPoint, PagePoint,
           OpenedPoint, GuardedPoint
<1>3. OneSource /\ OneModel /\ OnlySlivers
    BY DEF OneSource, OneModel, OnlySlivers
<1> QED
    BY <1>1, <1>2, <1>3 DEF IInv

\* A step that leaves run, results and history alone keeps what is said of the
\* results.
LEMMA ResultsKept ==
    ASSUME IInv, UNCHANGED <<run, results, raced>>
    PROVE  OneSource' /\ OneModel'
BY DEF IInv, OneSource, OneModel, run, results

\* The end of a command, whatever figure ends it, keeps the invariant.
LEMMA EndLemma ==
    ASSUME IInv, NEW figure, EndAt(figure),
           \/ figure = Nothing
           \/ /\ figure \in [box : Boxes, said : Sizes]
              /\ Sliver(figure.box, figure.said),
           UNCHANGED <<world, run, results, raced>>, crashes' \in 0 .. MaxCrashes
    PROVE  IInv'
<1> USE DEF EndAt, world, run, results
<1>1. TypeOK'
    BY RunAssumption DEF IInv, TypeOK, Steps
<1>2. DiskInv' /\ SourceInv' /\ ModelInv' /\ PageInv'
    BY DEF IInv, DiskInv, SourceInv, ModelInv, PageInv, ModelPoint, PagePoint,
           OpenedPoint, GuardedPoint
<1>3. OneSource' /\ OneModel' /\ OnlySlivers'
    BY ResultsKept DEF OnlySlivers
<1> QED
    BY <1>1, <1>2, <1>3 DEF IInv

\* The same where no figure is at fault.
LEMMA PlainEnd ==
    ASSUME IInv, End, UNCHANGED <<world, run, results, raced>>,
           crashes' \in 0 .. MaxCrashes
    PROVE  IInv'
BY EndLemma DEF End

\* Crashes are counted within their bound.
LEMMA CrashesKept ==
    ASSUME IInv, NEW step, Step(step)
    PROVE  crashes' \in 0 .. MaxCrashes /\ UNCHANGED world
BY DEF IInv, TypeOK, Step

-------------------------------------------------------------------------------
(* The user's steps.                                                         *)

LEMMA CreateRunLemma ==
    ASSUME IInv, NEW model \in Path, NEW projector \in Path \cup {Nothing},
           CreateRun(model, projector)
    PROVE  IInv'
<1> USE DEF CreateRun, world, results, command
<1>1. record' \in Origins /\ location' \in Locations
    BY DEF IInv, TypeOK, Origins, Locations
<1>2. record' # Nothing /\ location' # Nothing
    BY <1>1, NothingAssumption
<1>3. TypeOK'
    BY <1>1 DEF IInv, TypeOK
<1>4. DiskInv' /\ SourceInv' /\ ModelInv' /\ PageInv'
    BY <1>2 DEF IInv, DiskInv, SourceInv, ModelInv, PageInv, ModelPoint,
           PagePoint, OpenedPoint, GuardedPoint
<1>5. OneModel' /\ OnlySlivers'
    BY DEF IInv, OneModel, OnlySlivers
<1>6. OneSource'
    BY DEF IInv, DiskInv, OneSource
<1> QED
    BY <1>3, <1>4, <1>5, <1>6 DEF IInv

LEMMA RelocateLemma ==
    ASSUME IInv, NEW model \in Path, NEW projector \in Path \cup {Nothing},
           Relocate(model, projector)
    PROVE  IInv'
<1> USE DEF Relocate, world, results, command
<1>1. location' \in Locations /\ location' # Nothing
    BY NothingAssumption DEF Locations
<1>2. TypeOK'
    BY <1>1 DEF IInv, TypeOK
<1>3. DiskInv' /\ SourceInv' /\ ModelInv' /\ PageInv'
    BY <1>1 DEF IInv, DiskInv, SourceInv, ModelInv, PageInv, ModelPoint,
           PagePoint, OpenedPoint, GuardedPoint
<1>4. OneSource' /\ OneModel' /\ OnlySlivers'
    BY DEF IInv, OneSource, OneModel, OnlySlivers
<1> QED
    BY <1>2, <1>3, <1>4 DEF IInv

\* Whatever limit is asked for, the last page is a page of the book.
LEMMA LastPageType ==
    ASSUME IInv, NEW limit \in Limits
    PROVE  LastPage(limit) \in 0 .. PageCount
<1>1. limit.count \in Nat /\ Len(pages) \in Nat
    BY RunAssumption DEF Limits, Page, IInv, TypeOK
<1>2. Asked(limit) \in Nat
    BY <1>1 DEF Asked
<1> QED
    BY <1>2, RunAssumption DEF LastPage, Lesser

LEMMA StartLemma ==
    ASSUME IInv, NEW by \in Interpreters, NEW last \in 0 .. PageCount,
           Start(by, last)
    PROVE  IInv'
<1> USE DEF Start, world, run, results
<1>1. TypeOK'
    BY RunAssumption DEF IInv, TypeOK, Steps
<1>2. DiskInv' /\ SourceInv' /\ ModelInv' /\ PageInv'
    BY DEF IInv, DiskInv, SourceInv, ModelInv, PageInv, ModelPoint, PagePoint,
           OpenedPoint, GuardedPoint
<1>3. OneSource' /\ OneModel' /\ OnlySlivers'
    BY ResultsKept DEF OnlySlivers
<1> QED
    BY <1>1, <1>2, <1>3 DEF IInv

-------------------------------------------------------------------------------
(* The steps of a command, up to its first page.                             *)

LEMMA GuardLemma == IInv /\ Guard => IInv'
<1> SUFFICES ASSUME IInv, Guard PROVE IInv'
    OBVIOUS
<1>a. CASE [book |-> pdf, release |-> release] # record
    BY <1>a, PlainEnd, CrashesKept DEF Guard
<1>b. CASE ~([book |-> pdf, release |-> release] # record)
    <2> USE DEF Guard, GoTo, Step, world, run, results, command
    <2>1. TypeOK'
        BY <1>b, RunAssumption DEF IInv, TypeOK, Steps
    <2>2. DiskInv' /\ SourceInv' /\ ModelInv' /\ PageInv'
        BY <1>b DEF IInv, DiskInv, SourceInv, ModelInv, PageInv, ModelPoint,
               PagePoint, OpenedPoint, GuardedPoint, PageAt, Calibrating
    <2>3. OneSource' /\ OneModel' /\ OnlySlivers'
        BY <1>b, ResultsKept DEF IInv, OnlySlivers
    <2> QED
        BY <2>1, <2>2, <2>3 DEF IInv
<1> QED
    BY <1>a, <1>b

LEMMA OpenSourceLemma == IInv /\ OpenSource => IInv'
<1> SUFFICES ASSUME IInv, OpenSource PROVE IInv'
    OBVIOUS
<1>a. CASE pdf = Nothing
    BY <1>a, PlainEnd, CrashesKept DEF OpenSource
<1>b. CASE ~(pdf = Nothing)
    <2> USE DEF OpenSource, GoTo, Step, world, run, results, command
    <2>1. TypeOK'
        BY <1>b, RunAssumption DEF IInv, TypeOK, Steps
    <2>2. DiskInv' /\ SourceInv' /\ ModelInv' /\ PageInv'
        BY <1>b DEF IInv, DiskInv, SourceInv, ModelInv, PageInv, ModelPoint,
               PagePoint, OpenedPoint, GuardedPoint, PageAt, Calibrating
    <2>3. OneSource' /\ OneModel' /\ OnlySlivers'
        BY <1>b, ResultsKept DEF IInv, OnlySlivers
    <2> QED
        BY <2>1, <2>2, <2>3 DEF IInv
<1> QED
    BY <1>a, <1>b

LEMMA PreflightLemma == IInv /\ Preflight => IInv'
<1> SUFFICES ASSUME IInv, Preflight PROVE IInv'
    OBVIOUS
<1> USE DEF Preflight, GoTo, Step, world, run, results, command
<1>1. TypeOK'
    BY RunAssumption DEF IInv, TypeOK, Steps
<1>2. DiskInv' /\ SourceInv' /\ ModelInv' /\ PageInv'
    BY DEF IInv, DiskInv, SourceInv, ModelInv, PageInv, ModelPoint,
           PagePoint, OpenedPoint, GuardedPoint, PageAt, Calibrating
<1>3. OneSource' /\ OneModel' /\ OnlySlivers'
    BY ResultsKept DEF IInv, OnlySlivers
<1> QED
    BY <1>1, <1>2, <1>3 DEF IInv

\* The fingerprints of files that are there.
LEMMA FoundType ==
    ASSUME IInv, pc # "idle", ~Missing
    PROVE  /\ Found \in Fingerprints /\ Found # Nothing
           /\ Found.projector = Nothing <=> location.projector = Nothing
<1>1. location \in Locations /\ file \in [Path -> Weights \cup {Nothing}]
    BY DEF IInv, TypeOK, DiskInv
<1>2. Found \in Fingerprints
    BY <1>1 DEF Found, Missing, Exists, Locations, Fingerprints
<1>3. Found.projector = Nothing <=> location.projector = Nothing
    BY <1>1 DEF Found, Missing, Exists, Locations
<1> QED
    BY <1>2, <1>3, NothingAssumption

\* A later command finds what is frozen, or ends.
LEMMA FoundAsFrozen ==
    ASSUME IInv, pc # "idle", ~Missing, environment # Nothing, AsFrozen
    PROVE  Found = environment
<1>1. Found \in Fingerprints /\ environment \in Fingerprints
    BY FoundType DEF IInv, TypeOK
<1>2. Found.projector = Nothing <=> environment.projector = Nothing
    BY FoundType DEF IInv, DiskInv
<1>3. Found.model = environment.model /\ Found.projector = environment.projector
    <2>1. CASE environment.projector = Nothing
        BY <1>2, <2>1 DEF AsFrozen
    <2>2. CASE environment.projector # Nothing
        BY <1>2, <2>2, FoundType DEF AsFrozen
    <2> QED
        BY <2>1, <2>2
<1> QED
    BY <1>1, <1>3 DEF Fingerprints

LEMMA FingerprintLemma == IInv /\ Fingerprint => IInv'
<1> SUFFICES ASSUME IInv, Fingerprint PROVE IInv'
    OBVIOUS
<1> USE DEF Fingerprint, GoTo, Step, world, run, results
<1>1. raced' \in SUBSET {"source", "model"} /\ raced \subseteq raced'
    BY DEF IInv, TypeOK
<1>2. OneSource' /\ OneModel'
    BY <1>1 DEF IInv, OneSource, OneModel
<1>3. CASE End
    <2>1. TypeOK' /\ OnlySlivers'
        BY <1>1, <1>3, RunAssumption DEF End, EndAt, IInv, TypeOK, Steps, OnlySlivers
    <2>2. DiskInv' /\ SourceInv' /\ ModelInv' /\ PageInv'
        BY <1>3 DEF End, EndAt, IInv, DiskInv, SourceInv, ModelInv, PageInv,
               ModelPoint, PagePoint, OpenedPoint, GuardedPoint
    <2> QED
        BY <1>2, <2>1, <2>2 DEF IInv
<1>4. CASE /\ ~Missing /\ (environment # Nothing => AsFrozen)
           /\ seen' = Found
           /\ pc' = IF environment = Nothing THEN "render" ELSE "loop"
           /\ UNCHANGED <<interpreter, until, opened, rendered, sliver>>
    <2>1. /\ seen' \in Fingerprints /\ seen' # Nothing
          /\ seen'.projector = Nothing <=> location.projector = Nothing
          /\ environment # Nothing => seen' = environment
        BY <1>4, FoundType, FoundAsFrozen
    <2>2. TypeOK'
        BY <1>1, <1>4, <2>1 DEF IInv, TypeOK, Steps
    <2>3. "model" \notin raced' => server.model = seen'.model
        BY <1>4 DEF IInv, ModelInv, Overwritten, Found
    <2>4. DiskInv' /\ SourceInv' /\ OnlySlivers'
        BY <1>1, <1>4 DEF IInv, DiskInv, SourceInv, OpenedPoint, PagePoint,
               GuardedPoint, OnlySlivers
    <2>5. ModelInv' /\ PageInv'
        BY <1>4, <2>1, <2>3 DEF IInv, ModelInv, PageInv, ModelPoint, PagePoint,
               Calibrating
    <2> QED
        BY <1>2, <2>2, <2>4, <2>5 DEF IInv
<1> QED
    BY <1>3, <1>4

LEMMA FreezeLemma == IInv /\ Freeze => IInv'
<1> SUFFICES ASSUME IInv, Freeze PROVE IInv'
    OBVIOUS
<1> USE DEF Freeze, GoTo, Step, world, results, command
<1>1. seen \in Fingerprints /\ seen # Nothing
    BY DEF IInv, TypeOK, ModelInv, ModelPoint, PagePoint
<1>2. TypeOK'
    BY <1>1 DEF IInv, TypeOK, Steps
<1>3. DiskInv' /\ SourceInv' /\ OneSource' /\ OnlySlivers'
    BY <1>1 DEF IInv, DiskInv, SourceInv, ModelInv, ModelPoint, PagePoint,
           OpenedPoint, GuardedPoint, OneSource, OnlySlivers
<1>4. ModelInv' /\ PageInv'
    BY <1>1 DEF IInv, ModelInv, PageInv, ModelPoint, PagePoint
<1>5. OneModel'
    BY DEF IInv, ModelInv, OneModel
<1> QED
    BY <1>2, <1>3, <1>4, <1>5 DEF IInv

-------------------------------------------------------------------------------
(* The steps of a page.                                                      *)

\* The page at hand is a page of the book.
LEMMA PageAtType ==
    ASSUME IInv, pc \in {"render", "write", "interpret"}
    PROVE  PageAt \in Page
<1>1. Len(pages) \in Nat /\ PageCount \in Nat \ {0}
    BY RunAssumption DEF IInv, TypeOK
<1> QED
    BY <1>1 DEF IInv, PageInv, PageAt, Page

\* What comes after an image keeps the invariant, whatever has become of the
\* image, as long as it is there and of the book.
LEMMA RenderedLemma ==
    ASSUME IInv, NEW size \in Sizes, Rendered(size), pc \in {"render", "write"},
           UNCHANGED <<world, run, pages, raced, crashes>>,
           image' \in [Page -> Images \cup {Nothing}], image'[PageAt] # Nothing,
           OneSource'
    PROVE  IInv'
<1> USE DEF Rendered, GoTo, world, run, command
<1>1. TypeOK'
    BY DEF IInv, TypeOK, Steps
<1>2. DiskInv' /\ SourceInv'
    BY DEF IInv, DiskInv, SourceInv, PagePoint, OpenedPoint, GuardedPoint
<1>3. ModelInv' /\ PageInv'
    BY DEF IInv, ModelInv, PageInv, ModelPoint, PagePoint, Calibrating, PageAt
<1>4. OneModel' /\ OnlySlivers'
    BY DEF IInv, OneModel, OnlySlivers
<1> QED
    BY <1>1, <1>2, <1>3, <1>4 DEF IInv

LEMMA ReuseImageLemma == IInv /\ ReuseImage => IInv'
<1> SUFFICES ASSUME IInv, ReuseImage PROVE IInv'
    OBVIOUS
<1>1. OneSource'
    BY ResultsKept DEF ReuseImage
<1> QED
    BY <1>1, RenderedLemma DEF ReuseImage, Step, results, IInv, TypeOK, Sizes

LEMMA BeginImageLemma == IInv /\ BeginImage => IInv'
<1> SUFFICES ASSUME IInv, BeginImage PROVE IInv'
    OBVIOUS
<1> USE DEF BeginImage, Step, GoTo, world, run, command
<1>1. PICK part \in {"short", "unreadable"} :
          image' = [image EXCEPT ![PageAt] =
                      [origin |-> [book |-> opened, release |-> release],
                       state |-> part]]
    OBVIOUS
<1> DEFINE origin == [book |-> opened, release |-> release]
           new == [origin |-> origin, state |-> part]
<1>2. PageAt \in Page
    BY PageAtType
<1>3. opened \in Book /\ release \in Release
    BY DEF IInv, TypeOK, SourceInv, OpenedPoint, PagePoint
<1>4. origin \in Origins /\ new \in Images
    BY <1>3 DEF Origins, Images, ImageStates
<1>5. new # Nothing
    BY <1>4, NothingAssumption
<1>6. "source" \notin raced => origin = record
    <2>1. record \in Origins
        BY DEF IInv, TypeOK, DiskInv
    <2> QED
        BY <2>1 DEF Origins, IInv, SourceInv, OpenedPoint, GuardedPoint, PagePoint
<1>7. image' = [image EXCEPT ![PageAt] = new]
    BY <1>1
<1> HIDE DEF origin
<1>8. TypeOK'
    BY <1>4, <1>7 DEF IInv, TypeOK, Steps
<1>9. OneSource'
    BY <1>2, <1>6, <1>7 DEF IInv, TypeOK, OneSource
<1>10. DiskInv' /\ SourceInv' /\ ModelInv'
    BY DEF IInv, DiskInv, SourceInv, ModelInv, ModelPoint, PagePoint,
           OpenedPoint, GuardedPoint
<1>11. PageInv'
    BY <1>2, <1>5, <1>7 DEF IInv, TypeOK, PageInv, Calibrating, PageAt
<1>12. OneModel' /\ OnlySlivers'
    BY DEF IInv, OneModel, OnlySlivers
<1> QED
    BY <1>8, <1>9, <1>10, <1>11, <1>12 DEF IInv

LEMMA FinishImageLemma == IInv /\ FinishImage => IInv'
<1> SUFFICES ASSUME IInv, FinishImage PROVE IInv'
    OBVIOUS
<1> USE DEF FinishImage, Step
<1>1. PageAt \in Page
    BY PageAtType
<1>2. image[PageAt] \in Images
    BY <1>1 DEF IInv, TypeOK, PageInv
<1> DEFINE new == [image[PageAt] EXCEPT !.state = "whole"]
<1>3. new \in Images /\ new.origin = image[PageAt].origin /\ new # Nothing
    BY <1>2, NothingAssumption DEF Images, ImageStates
<1>4. image' = [image EXCEPT ![PageAt] = new]
    OBVIOUS
<1> HIDE DEF new
<1>5. image' \in [Page -> Images \cup {Nothing}] /\ image'[PageAt] # Nothing
    BY <1>1, <1>3, <1>4 DEF IInv, TypeOK
<1>6. OneSource'
    BY <1>1, <1>2, <1>3, <1>4, NothingAssumption DEF IInv, TypeOK, OneSource, run
<1> QED
    BY <1>5, <1>6, RenderedLemma DEF Sizes

LEMMA RenderFailsLemma == IInv /\ RenderFails => IInv'
BY PlainEnd, CrashesKept DEF RenderFails

-------------------------------------------------------------------------------
(* The steps of the page loop.                                               *)

LEMMA NextPageLemma == IInv /\ NextPage => IInv'
<1> SUFFICES ASSUME IInv, NextPage PROVE IInv'
    OBVIOUS
<1> USE DEF NextPage, GoTo, Step, world, run, results, command
<1>1. Len(pages) < PageCount
    <2>1. Len(pages) \in Nat /\ until \in 0 .. PageCount /\ PageCount \in Nat
        BY RunAssumption DEF IInv, TypeOK
    <2> QED
        BY <2>1
<1>2. TypeOK'
    BY DEF IInv, TypeOK, Steps
<1>3. DiskInv' /\ SourceInv' /\ ModelInv' /\ PageInv'
    BY <1>1 DEF IInv, DiskInv, SourceInv, ModelInv, PageInv, ModelPoint,
           PagePoint, OpenedPoint, GuardedPoint
<1>4. OneSource' /\ OneModel' /\ OnlySlivers'
    BY ResultsKept DEF IInv, OnlySlivers
<1> QED
    BY <1>2, <1>3, <1>4 DEF IInv

LEMMA CropOneFailsLemma == IInv /\ CropOneFails => IInv'
<1> SUFFICES ASSUME IInv, CropOneFails PROVE IInv'
    OBVIOUS
<1>1. PICK box \in Boxes :
          /\ CropFails(box, rendered, Drawn)
          /\ EndAt([box |-> box, said |-> rendered])
    BY DEF CropOneFails
<1>2. rendered \in Sizes
    BY DEF CropOneFails, Step, IInv, PageInv
<1>3. Sliver(box, rendered)
    BY <1>1, <1>2, FailuresAreSlivers, RunAssumption
<1> QED
    BY <1>1, <1>2, <1>3, EndLemma, CrashesKept DEF CropOneFails

LEMMA CommitPageLemma == IInv /\ CommitPage => IInv'
<1> SUFFICES ASSUME IInv, CommitPage PROVE IInv'
    OBVIOUS
<1> USE DEF CommitPage, GoTo, Step, world, run, command
<1> DEFINE new == Interpretation
<1>1. PageAt \in Page /\ image[PageAt] \in Images
    BY PageAtType DEF IInv, TypeOK, PageInv
<1>2. interpreter = "vlm" => seen \in Fingerprints /\ environment # Nothing
                              /\ seen = environment
    BY DEF IInv, TypeOK, ModelInv, PagePoint
<1>3. new \in Commits
    BY <1>1, <1>2 DEF Interpretation, Commits, Images, Fingerprints, IInv, TypeOK
<1>4. Len(pages) < PageCount
    BY DEF IInv, PageInv, Calibrating, ModelInv
<1>5. pages \in Seq(Commits) /\ pages' = Append(pages, new)
    BY DEF IInv, TypeOK
<1> HIDE DEF new
<1>6. /\ pages' \in Seq(Commits) /\ Len(pages') = Len(pages) + 1
      /\ \A i \in DOMAIN pages' :
            \/ i \in DOMAIN pages /\ pages'[i] = pages[i]
            \/ pages'[i] = new
    BY <1>3, <1>5
<1>7. TypeOK'
    BY <1>4, <1>6, RunAssumption DEF IInv, TypeOK, Steps
<1>8. DiskInv' /\ SourceInv'
    BY DEF IInv, DiskInv, SourceInv, PagePoint, OpenedPoint, GuardedPoint
<1>9. ModelInv' /\ PageInv'
    BY DEF IInv, ModelInv, PageInv, ModelPoint, PagePoint
<1>10. OneSource'
    <2>1. "source" \notin raced => new.image = record /\ new.release = record.release
        BY <1>1, NothingAssumption DEF new, Interpretation, IInv, OneSource,
               SourceInv, GuardedPoint, OpenedPoint, PagePoint, Images, Origins
    <2> QED
        BY <1>6, <2>1 DEF IInv, OneSource
<1>11. OneModel'
    <2>1. "model" \notin raced /\ new.model # Nothing =>
              /\ environment # Nothing /\ new.model = environment.model
              /\ new.projector = environment.projector
        BY <1>2 DEF new, Interpretation, IInv, ModelInv, PagePoint
    <2> QED
        BY <1>6, <2>1 DEF IInv, OneModel
<1>12. OnlySlivers'
    BY DEF IInv, OnlySlivers
<1> QED
    BY <1>7, <1>8, <1>9, <1>10, <1>11, <1>12 DEF IInv

-------------------------------------------------------------------------------
(* The world.                                                                *)

LEMMA ReplacePdfLemma == IInv /\ ReplacePdf => IInv'
<1> SUFFICES ASSUME IInv, ReplacePdf PROVE IInv'
    OBVIOUS
<1> USE DEF ReplacePdf, Change, run, results, command
<1>a. changes' \in 0 .. MaxChanges
    BY RunAssumption DEF IInv, TypeOK
<1>b. /\ raced' \in SUBSET {"source", "model"} /\ raced \subseteq raced'
      /\ pc = "open" => "source" \in raced'
      /\ "model" \in raced' => "model" \in raced
    BY DEF IInv, TypeOK
<1>1. /\ changes' \in 0 .. MaxChanges
      /\ raced' \in SUBSET {"source", "model"} /\ raced \subseteq raced'
      /\ pc = "open" => "source" \in raced'
      /\ "model" \in raced' => "model" \in raced
    BY <1>a, <1>b
<1>2. TypeOK'
    BY <1>1 DEF IInv, TypeOK
<1>3. DiskInv' /\ SourceInv' /\ ModelInv' /\ PageInv'
    BY <1>1 DEF IInv, DiskInv, SourceInv, ModelInv, PageInv, Calibrating, PageAt
<1>4. OneSource' /\ OneModel' /\ OnlySlivers'
    BY <1>1 DEF IInv, OneSource, OneModel, OnlySlivers
<1> QED
    BY <1>2, <1>3, <1>4 DEF IInv

LEMMA ReplaceFileLemma ==
    ASSUME IInv, NEW path \in Path, ReplaceFile(path)
    PROVE  IInv'
<1> USE DEF ReplaceFile, Change, run, results, command
<1>1. changes' \in 0 .. MaxChanges /\ file' \in [Path -> Weights \cup {Nothing}]
    BY RunAssumption DEF IInv, TypeOK
<1>2. TypeOK'
    BY <1>1 DEF IInv, TypeOK
<1>3. DiskInv' /\ SourceInv' /\ ModelInv' /\ PageInv'
    BY DEF IInv, DiskInv, SourceInv, ModelInv, PageInv, Calibrating, PageAt
<1>4. OneSource' /\ OneModel' /\ OnlySlivers'
    BY ResultsKept DEF IInv, OnlySlivers
<1> QED
    BY <1>2, <1>3, <1>4 DEF IInv

LEMMA UpgradeLemma == IInv /\ Upgrade => IInv'
<1> SUFFICES ASSUME IInv, Upgrade PROVE IInv'
    OBVIOUS
<1> USE DEF Upgrade, Change, run, results, command
<1>1. changes' \in 0 .. MaxChanges
    BY RunAssumption DEF IInv, TypeOK
<1>2. TypeOK'
    BY <1>1 DEF IInv, TypeOK
<1>3. DiskInv' /\ SourceInv' /\ ModelInv' /\ PageInv'
    BY DEF IInv, DiskInv, SourceInv, ModelInv, PageInv, ModelPoint, PagePoint,
           OpenedPoint, GuardedPoint, Calibrating, PageAt
<1>4. OneSource' /\ OneModel' /\ OnlySlivers'
    BY ResultsKept DEF IInv, OnlySlivers
<1> QED
    BY <1>2, <1>3, <1>4 DEF IInv

LEMMA RestartServerLemma ==
    ASSUME IInv, NEW path \in Path, RestartServer(path)
    PROVE  IInv'
<1> USE DEF RestartServer, Change, run, results, command
<1>a. changes' \in 0 .. MaxChanges
    BY RunAssumption DEF IInv, TypeOK
<1>b. /\ raced' \in SUBSET {"source", "model"} /\ raced \subseteq raced'
      /\ "source" \in raced' => "source" \in raced
      /\ interpreter = "vlm" /\ pc \in PagePoint \cup {"fingerprint"} =>
            "model" \in raced'
    BY DEF IInv, TypeOK, PagePoint
<1>1. /\ changes' \in 0 .. MaxChanges
      /\ raced' \in SUBSET {"source", "model"} /\ raced \subseteq raced'
      /\ "source" \in raced' => "source" \in raced
      /\ interpreter = "vlm" /\ pc \in PagePoint \cup {"fingerprint"} =>
            "model" \in raced'
    BY <1>a, <1>b
<1>2. server' \in [path : Path, model : Weights]
    BY DEF IInv, TypeOK, Exists
<1>3. TypeOK'
    BY <1>1, <1>2 DEF IInv, TypeOK
<1>4. DiskInv' /\ SourceInv' /\ PageInv'
    BY <1>1 DEF IInv, DiskInv, SourceInv, PageInv, Calibrating, PageAt
<1>5. ModelInv'
    BY <1>1 DEF IInv, ModelInv, ModelPoint
<1>6. OneSource' /\ OneModel' /\ OnlySlivers'
    BY <1>1 DEF IInv, OneSource, OneModel, OnlySlivers
<1> QED
    BY <1>3, <1>4, <1>5, <1>6 DEF IInv


-------------------------------------------------------------------------------
(* The theorems.                                                             *)

LEMMA WorkLemma == IInv /\ Work => IInv'
<1> SUFFICES ASSUME IInv, Work PROVE IInv'
    OBVIOUS
<1>1. CASE ServerRefused \/ Finish \/ AnswerFails
    BY <1>1, PlainEnd, CrashesKept DEF ServerRefused, Finish, AnswerFails
<1>2. CASE Guard \/ OpenSource \/ Preflight \/ Fingerprint \/ Freeze
    BY <1>2, GuardLemma, OpenSourceLemma, PreflightLemma, FingerprintLemma,
       FreezeLemma
<1>3. CASE ReuseImage \/ BeginImage \/ FinishImage \/ RenderFails
    BY <1>3, ReuseImageLemma, BeginImageLemma, FinishImageLemma, RenderFailsLemma
<1>4. CASE NextPage \/ CropOneFails \/ CommitPage
    BY <1>4, NextPageLemma, CropOneFailsLemma, CommitPageLemma
<1> QED
    BY <1>1, <1>2, <1>3, <1>4 DEF Work

LEMMA UserLemma == IInv /\ User => IInv'
<1> SUFFICES ASSUME IInv, User PROVE IInv'
    OBVIOUS
<1>1. ASSUME NEW model \in Path, NEW projector \in Path \cup {Nothing},
             CreateRun(model, projector) \/ Relocate(model, projector)
      PROVE  IInv'
    BY <1>1, CreateRunLemma, RelocateLemma
<1>2. ASSUME NEW by \in Interpreters, Start(by, PageCount) \/ StartLimited(by)
      PROVE  IInv'
    <2>1. CASE Start(by, PageCount)
        BY <2>1, StartLemma, RunAssumption
    <2>2. CASE StartLimited(by)
        BY <2>2, StartLemma, LastPageType DEF StartLimited
    <2> QED
        BY <1>2, <2>1, <2>2
<1> QED
    BY <1>1, <1>2 DEF User

LEMMA CrashLemma == IInv /\ Crash => IInv'
<1> SUFFICES ASSUME IInv, Crash PROVE IInv'
    OBVIOUS
<1>1. crashes' \in 0 .. MaxCrashes
    BY RunAssumption DEF Crash, IInv, TypeOK
<1> QED
    BY <1>1, PlainEnd DEF Crash

LEMMA StutterLemma == IInv /\ UNCHANGED vars => IInv'
BY DEF IInv, TypeOK, DiskInv, SourceInv, ModelInv, PageInv, OneSource, OneModel,
       OnlySlivers, Calibrating, PageAt, vars, world, run, results, command

\* The invariant is inductive.
LEMMA NextLemma == IInv /\ [Next]_vars => IInv'
<1> SUFFICES ASSUME IInv, [Next]_vars PROVE IInv'
    OBVIOUS
<1>1. CASE Work \/ User \/ Crash
    BY <1>1, WorkLemma, UserLemma, CrashLemma
<1>2. CASE World
    BY <1>2, ReplacePdfLemma, UpgradeLemma, ReplaceFileLemma, RestartServerLemma
       DEF World
<1>3. CASE UNCHANGED vars
    BY <1>3, StutterLemma
<1> QED
    BY <1>1, <1>2, <1>3 DEF Next

\* Every variable has its type, whatever the sizes of the world.
THEOREM TypeCorrect == Spec => []TypeOK
<1>1. IInv => TypeOK
    BY DEF IInv
<1> QED
    BY <1>1, InitLemma, NextLemma, PTL DEF Spec

\* However many PDFs, releases, commands, deaths and changes there are, no run
\* has pages of two books or by two releases, but for a PDF that is replaced
\* between the check and its use (run_guard.py, pdf.py).
THEOREM SourceIsOne == Spec => []OneSource
<1>1. IInv => OneSource
    BY DEF IInv
<1> QED
    BY <1>1, InitLemma, NextLemma, PTL DEF Spec

\* Nor pages by two models or with two projectors, wherever the files are moved
\* (cli.py, bootstrap.py), but for a server that changes behind a command's back.
THEOREM ModelIsOne == Spec => []OneModel
<1>1. IInv => OneModel
    BY DEF IInv
<1> QED
    BY <1>1, InitLemma, NextLemma, PTL DEF Spec

\* For every size of a page image and every box of the wire schema, a crop only
\* fails for a figure thinner than two pixels (pdf.py, assets.py).
THEOREM SliversOnly == Spec => []OnlySlivers
<1>1. IInv => OnlySlivers
    BY DEF IInv
<1> QED
    BY <1>1, InitLemma, NextLemma, PTL DEF Spec


===============================================================================
