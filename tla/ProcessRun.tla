------------------------------ MODULE ProcessRun ------------------------------
(***************************************************************************)
(* A run directory and the world its commands find: the PDF and the model  *)
(* files it was made for, which others may replace; the installed release; *)
(* the model a server has loaded.  A run takes many `process` commands     *)
(* over days, and each has to make sure that it goes on with the same book *)
(* and the same model: cmd_init, cmd_process, relocate-inference-files     *)
(* (cli.py), run_guard.py, the file checks of bootstrap.py, and the page   *)
(* images that PdfPageSource (pdf.py) keeps from command to command.       *)
(*                                                                         *)
(* Commits are atomic here and commands follow each other (RunStore has    *)
(* both in detail); InferenceSession has what is asked of the server.      *)
(***************************************************************************)
EXTENDS Integers, Sequences, FigureCrop

CONSTANTS
    Book,       \* contents a PDF file can have, all of PageCount pages
    Weights,    \* contents a model or projector file can have
    Path,       \* places for model and projector files
    Release,    \* installations: prompt, wire schema and PyMuPDF
    PageCount,
    Interpreters, \* those that the user asks for, "vlm" or "noop"
    Boxes,      \* boxes the model puts around figures
    Width, Height, \* size of a page image in pixels
    ReadWidth, ReadHeight, \* what PyMuPDF says of an image opened as a document
    Nothing,    \* no file, None
    MaxChanges, \* bound: changes of the world
    MaxCrashes  \* bound: deaths of a process

\* External: PyMuPDF gives the size of an image file in points, of which there
\* are no more than pixels for the images that it has written itself.
ASSUME RunAssumption ==
    /\ {PageCount, Width, Height, ReadWidth, ReadHeight} \subseteq Nat \ {0}
    /\ ReadWidth =< Width /\ ReadHeight =< Height
    /\ {MaxChanges, MaxCrashes} \subseteq Nat
    /\ Interpreters \subseteq {"vlm", "noop"} /\ Boxes \subseteq Box
    /\ Nothing \notin Book \cup Weights \cup Path \cup Box

Page == 1 .. PageCount

\* What a run is bound to by run.json, and what a page image was made from.
Origins == [book : Book, release : Release]

\* What is left of a page image: all of it, a part that a reader takes for an
\* image, a part that it does not.
ImageStates == {"whole", "short", "unreadable"}

Images == [origin : Origins, state : ImageStates]

\* width_px and height_px of a RenderedPage: those of the pixmap where the image
\* was just made, those of the opened file where it is used again.
Drawn  == [width |-> Width, height |-> Height]
Reread == [width |-> ReadWidth, height |-> ReadHeight]

Sizes == {Drawn, Reread}

Locations == [model : Path, projector : Path \cup {Nothing}]

\* Contents of the model and the projector file.
Fingerprints == [model : Weights, projector : Weights \cup {Nothing}]

\* A committed page: its image, the release that made it, the weights that
\* the server used, and the projector file the command had found.
Commits == [image : Origins, release : Release,
            model : Weights \cup {Nothing}, projector : Weights \cup {Nothing}]

ASSUME NothingAssumption ==
    Nothing \notin Origins \cup Images \cup Sizes \cup Locations \cup Fingerprints

VARIABLES
    pdf,         \* content at source-location's path, or Nothing
    file,        \* content of each model or projector path, or Nothing
    release,     \* the installed release
    server,      \* the path the server has loaded, and the content it had then
    record,      \* run.json
    location,    \* inference-location.json
    environment, \* the fingerprints in inference-environment.json
    image,       \* pages/page-NNNN.png
    pages,       \* commits
    pc,          \* where the `process` command is
    interpreter, \* its --interpreter
    until,       \* the page it is to stop after
    opened,      \* what the open handle of the PDF reads
    seen,        \* the fingerprints it has computed
    rendered,    \* the size that the page at hand is said to have
    sliver,      \* the figure whose crop ended the last command, and that size
    raced,       \* history: what was changed behind the back of a check
    changes, crashes

world   == <<pdf, file, release, server, changes>>
run     == <<record, location, environment>>
results == <<image, pages>>
command == <<interpreter, until, opened, seen, rendered>>
vars    == <<world, run, results, pc, command, sliver, raced, crashes>>

Init ==
    /\ pdf \in Book
    /\ file \in [Path -> Weights]
    /\ release \in Release
    /\ server \in {[path |-> path, model |-> file[path]] : path \in Path}
    /\ record = Nothing /\ location = Nothing /\ environment = Nothing
    /\ image = [p \in Page |-> Nothing] /\ pages = <<>>
    /\ pc = "idle" /\ interpreter = "vlm" /\ until = 0
    /\ opened = Nothing /\ seen = Nothing
    /\ rendered = Nothing /\ sliver = Nothing
    /\ raced = {} /\ changes = 0 /\ crashes = 0

-------------------------------------------------------------------------------
(* A command ends, by return or by an exception; what it records of a failed *)
(* page is in RunStore.                                                      *)

EndAt(figure) ==
    /\ pc' = "idle" /\ interpreter' = "vlm" /\ until' = 0
    /\ opened' = Nothing /\ seen' = Nothing /\ rendered' = Nothing
    /\ sliver' = figure

End == EndAt(Nothing)

GoTo(step) == pc' = step /\ UNCHANGED sliver

\* A step of a running command that leaves the world as it is.
Step(from) == pc = from /\ UNCHANGED <<world, crashes>>

-------------------------------------------------------------------------------
(* init and relocate-inference-files.                                        *)

Exists(path) == file[path] # Nothing

\* cmd_init checks its arguments, then writes the files of the run; a run that
\* is there already is refused.
CreateRun(model, projector) ==
    /\ pc = "idle" /\ record = Nothing
    /\ pdf # Nothing
    /\ Exists(model) /\ (projector # Nothing => Exists(projector))
    /\ record' = [book |-> pdf, release |-> release]
    /\ location' = [model |-> model, projector |-> projector]
    /\ UNCHANGED <<world, environment, results, pc, command, sliver, raced,
                   crashes>>

\* Fault for Relocate: only a projector that is named is compared.
RelocateUnchecked(model, projector) ==
    /\ pc = "idle" /\ record # Nothing
    /\ Exists(model) /\ (projector # Nothing => Exists(projector))
    /\ environment # Nothing =>
          /\ file[model] = environment.model
          /\ projector # Nothing /\ environment.projector # Nothing =>
                file[projector] = environment.projector
    /\ location' = [model |-> model, projector |-> projector]
    /\ UNCHANGED <<world, record, environment, results, pc, command, sliver,
                   raced, crashes>>

\* _compute_relocation, for the paths that result from the arguments. Once
\* the environment is frozen, both files must have the contents it names, and
\* a projector can be neither added nor cleared.
Relocate(model, projector) ==
    /\ pc = "idle" /\ record # Nothing
    /\ Exists(model) /\ (projector # Nothing => Exists(projector))
    /\ environment # Nothing =>
          /\ file[model] = environment.model
          /\ (projector = Nothing) = (environment.projector = Nothing)
          /\ projector # Nothing => file[projector] = environment.projector
    /\ location' = [model |-> model, projector |-> projector]
    /\ UNCHANGED <<world, record, environment, results, pc, command, sliver,
                   raced, crashes>>

-------------------------------------------------------------------------------
(* process, up to its first page.                                            *)

Limits == [option : {"through-page", "max-pages"}, count : Page]

Asked(limit) ==
    IF limit.option = "through-page" THEN limit.count ELSE Len(pages) + limit.count

\* Fault for LastPage: the book's own end is not looked at.
LastPageAsked(limit) == Asked(limit)

\* end_index of process_book, for --through-page and --max-pages.
LastPage(limit) == Lesser(PageCount, Asked(limit))

Start(by, last) ==
    /\ pc = "idle" /\ record # Nothing
    /\ pc' = "guard" /\ interpreter' = by /\ until' = last
    /\ sliver' = Nothing
    /\ UNCHANGED <<world, run, results, opened, seen, rendered, raced, crashes>>

StartLimited(by) == \E limit \in Limits : Start(by, LastPage(limit))

\* Fault for Guard: the release is not compared.
GuardSourceOnly ==
    /\ Step("guard")
    /\ IF pdf = record.book
       THEN GoTo("open") /\ UNCHANGED command
       ELSE End
    /\ UNCHANGED <<run, results, raced>>

\* assert_process_consistency: prompt, schema, PyMuPDF, then the PDF.
Guard ==
    /\ Step("guard")
    /\ IF [book |-> pdf, release |-> release] = record
       THEN GoTo("open") /\ UNCHANGED command
       ELSE End
    /\ UNCHANGED <<run, results, raced>>

\* PdfPageSource opens the PDF by its path once more; a file that has gone
\* is an exception of PyMuPDF. A replaced file stays readable by the handle.
OpenSource ==
    /\ Step("open")
    /\ IF pdf = Nothing
       THEN End
       ELSE /\ opened' = pdf
            /\ GoTo(IF interpreter = "vlm" THEN "preflight" ELSE "loop")
            /\ UNCHANGED <<interpreter, until, seen, rendered>>
    /\ UNCHANGED <<run, results, raced>>

\* The server is down or not as required.
ServerRefused ==
    /\ Step("preflight")
    /\ End
    /\ UNCHANGED <<run, results, raced>>

\* Fault for Preflight: the server may have loaded any file.
PreflightUnbound ==
    /\ Step("preflight")
    /\ GoTo("fingerprint")
    /\ UNCHANGED <<run, results, command, raced>>

\* verify_model_path_binding compares paths, not contents.
Preflight ==
    /\ Step("preflight")
    /\ server.path = location.model
    /\ GoTo("fingerprint")
    /\ UNCHANGED <<run, results, command, raced>>

Found == [model |-> file[location.model],
          projector |-> IF location.projector = Nothing
                        THEN Nothing ELSE file[location.projector]]

Missing ==
    \/ ~Exists(location.model)
    \/ location.projector # Nothing /\ ~Exists(location.projector)

\* _assert_file_fingerprint for both files; a projector is not looked for
\* when the location has none.
AsFrozen ==
    /\ Found.model = environment.model
    /\ location.projector # Nothing /\ environment.projector # Nothing =>
          Found.projector = environment.projector

\* The file is no longer the one that the server has loaded from there.
Overwritten ==
    server.path = location.model /\ server.model # file[location.model]

\* Fault for Fingerprint: a later command trusts its location.
FingerprintTrusted ==
    /\ Step("fingerprint")
    /\ IF Missing
       THEN End
       ELSE /\ seen' = Found
            /\ GoTo(IF environment = Nothing THEN "render" ELSE "loop")
            /\ UNCHANGED <<interpreter, until, opened, rendered>>
    /\ raced' = raced \cup {what \in {"model"} : Overwritten}
    /\ UNCHANGED <<run, results>>

\* prepare_inference_environment hashes the files on disk: those of the first
\* command will be frozen, those of a later one must be the frozen ones.
\* History: whether the model has been replaced behind the server's back.
Fingerprint ==
    /\ Step("fingerprint")
    /\ IF Missing
       THEN End
       ELSE IF environment # Nothing /\ ~AsFrozen
       THEN End
       ELSE /\ seen' = Found
            /\ GoTo(IF environment = Nothing THEN "render" ELSE "loop")
            /\ UNCHANGED <<interpreter, until, opened, rendered>>
    /\ raced' = raced \cup {what \in {"model"} : Overwritten}
    /\ UNCHANGED <<run, results>>

\* write_inference_environment, after calibration with the first page.
Freeze ==
    /\ Step("freeze")
    /\ environment' = seen
    /\ GoTo("loop")
    /\ UNCHANGED <<record, location, results, command, raced>>

-------------------------------------------------------------------------------
(* render_page, for calibration and for each page.                           *)

Calibrating == interpreter = "vlm" /\ environment = Nothing

PageAt == IF Calibrating THEN 1 ELSE Len(pages) + 1

Rendered(size) ==
    /\ rendered' = size
    /\ GoTo(IF Calibrating THEN "freeze" ELSE "interpret")
    /\ UNCHANGED <<interpreter, until, opened, seen>>

\* Fault for ReuseImage: an image cut short is refused, and stays.
ReuseWholeImage ==
    /\ Step("render")
    /\ image[PageAt] # Nothing /\ image[PageAt].state = "whole"
    /\ Rendered(Reread)
    /\ UNCHANGED <<run, results, raced>>

\* An image that is there is used, whatever it was made from.
ReuseImage ==
    /\ Step("render")
    /\ image[PageAt] # Nothing /\ image[PageAt].state # "unreadable"
    /\ Rendered(Reread)
    /\ UNCHANGED <<run, results, raced>>

\* write_bytes opens the file, then fills it.
BeginImage ==
    /\ Step("render")
    /\ image[PageAt] = Nothing
    /\ \E part \in {"short", "unreadable"} :
          image' = [image EXCEPT ![PageAt] =
                      [origin |-> [book |-> opened, release |-> release],
                       state |-> part]]
    /\ GoTo("write")
    /\ UNCHANGED <<run, pages, command, raced>>

FinishImage ==
    /\ Step("write")
    /\ image' = [image EXCEPT ![PageAt].state = "whole"]
    /\ Rendered(Drawn)
    /\ UNCHANGED <<run, pages, raced>>

\* page-image-too-large and page-render-failed: PyMuPDF cannot load or render
\* the page or read the image that is there, or the image cannot be written.
RenderFails ==
    /\ Step("render") \/ Step("write")
    /\ End
    /\ UNCHANGED <<run, results, raced>>

-------------------------------------------------------------------------------
(* process_book.                                                             *)

NextPage ==
    /\ Step("loop")
    /\ Len(pages) < until
    /\ GoTo("render")
    /\ UNCHANGED <<run, results, command, raced>>

Finish ==
    /\ Step("loop")
    /\ Len(pages) >= until
    /\ End
    /\ UNCHANGED <<run, results, raced>>

\* The client, the conversion of the answer (a ValueError for a block that the
\* wire schema allows and the domain does not) or the validation of the page
\* or, on the last page, of the book fails. Without a model, only the latter.
AnswerFails ==
    /\ Step("interpret")
    /\ End
    /\ UNCHANGED <<run, results, raced>>

\* _collect_figure_assets: a crop that leaves nothing is a ValueError.
CropOneFails ==
    /\ Step("interpret") /\ interpreter = "vlm"
    /\ \E box \in Boxes :
          /\ CropFails(box, rendered, Drawn)
          /\ EndAt([box |-> box, said |-> rendered])
    /\ UNCHANGED <<run, results, raced>>

\* The no-op interpreter finds every page blank; its pages name no model.
Interpretation ==
    [image |-> image[PageAt].origin, release |-> release,
     model |-> IF interpreter = "vlm" THEN server.model ELSE Nothing,
     projector |-> IF interpreter = "vlm" THEN seen.projector ELSE Nothing]

\* The page is interpreted, accepted and committed with its figures.
CommitPage ==
    /\ Step("interpret")
    /\ pages' = Append(pages, Interpretation)
    /\ GoTo("loop")
    /\ UNCHANGED <<run, image, command, raced>>

-------------------------------------------------------------------------------
(* The world.                                                                *)

Crash ==
    /\ pc # "idle" /\ crashes < MaxCrashes
    /\ End
    /\ crashes' = crashes + 1
    /\ UNCHANGED <<world, run, results, raced>>

Change ==
    /\ changes < MaxChanges /\ changes' = changes + 1
    /\ UNCHANGED <<run, results, pc, command, sliver, crashes>>

\* Files are replaced by a rename, or removed.
\* History: between the check of the PDF and its use.
ReplacePdf ==
    /\ Change
    /\ pdf' \in (Book \cup {Nothing}) \ {pdf}
    /\ raced' = raced \cup {what \in {"source"} : pc = "open"}
    /\ UNCHANGED <<file, release, server>>

ReplaceFile(path) ==
    /\ Change
    /\ \E content \in (Weights \cup {Nothing}) \ {file[path]} :
          file' = [file EXCEPT ![path] = content]
    /\ UNCHANGED <<pdf, release, server, raced>>

\* The program is upgraded between two commands.
Upgrade ==
    /\ Change /\ pc = "idle"
    /\ release' \in Release \ {release}
    /\ UNCHANGED <<pdf, file, server, raced>>

\* History: while a command with a model uses it.
RestartServer(path) ==
    /\ Change
    /\ Exists(path)
    /\ server' = [path |-> path, model |-> file[path]]
    /\ LET used == /\ interpreter = "vlm"
                   /\ pc \notin {"idle", "guard", "open", "preflight"}
       IN  raced' = raced \cup {what \in {"model"} : used}
    /\ UNCHANGED <<pdf, file, release>>

-------------------------------------------------------------------------------
Work ==
    \/ Guard \/ OpenSource
    \/ ServerRefused \/ Preflight \/ Fingerprint \/ Freeze
    \/ ReuseImage \/ BeginImage \/ FinishImage \/ RenderFails
    \/ NextPage \/ Finish
    \/ AnswerFails \/ CropOneFails \/ CommitPage

User ==
    \/ \E model \in Path, projector \in Path \cup {Nothing} :
          CreateRun(model, projector) \/ Relocate(model, projector)
    \/ \E by \in Interpreters :
          Start(by, PageCount) \/ StartLimited(by)

World ==
    \/ ReplacePdf \/ Upgrade
    \/ \E path \in Path : ReplaceFile(path) \/ RestartServer(path)

Next == Work \/ User \/ Crash \/ World

Spec == Init /\ [][Next]_vars

\* A command goes on; a user keeps asking for the whole book; and what may
\* fail for reasons outside this program, the server, rendering and writing a
\* page, an answer, does not fail each time that the whole book is asked for.
Whole(step) == until = PageCount /\ step

LiveSpec ==
    /\ Spec
    /\ WF_vars(Work)
    /\ SF_vars(Start("vlm", PageCount))
    /\ SF_vars(Whole(Preflight))
    /\ SF_vars(Whole(BeginImage)) /\ SF_vars(Whole(FinishImage))
    /\ SF_vars(Whole(ReuseImage)) /\ SF_vars(Whole(CommitPage))

-------------------------------------------------------------------------------
(* Properties.                                                               *)

Steps == {"idle", "guard", "open", "preflight", "fingerprint", "render",
          "write", "freeze", "loop", "interpret"}

\* Every variable has its type.
TypeOK ==
    /\ pdf \in Book \cup {Nothing}
    /\ file \in [Path -> Weights \cup {Nothing}]
    /\ release \in Release
    /\ server \in [path : Path, model : Weights]
    /\ record \in Origins \cup {Nothing}
    /\ location \in Locations \cup {Nothing}
    /\ environment \in Fingerprints \cup {Nothing}
    /\ image \in [Page -> Images \cup {Nothing}]
    /\ pages \in Seq(Commits) /\ Len(pages) =< PageCount
    /\ pc \in Steps
    /\ interpreter \in {"vlm", "noop"}
    /\ until \in 0 .. PageCount
    /\ opened \in Book \cup {Nothing}
    /\ seen \in Fingerprints \cup {Nothing}
    /\ rendered \in Sizes \cup {Nothing}
    /\ sliver \in [box : Boxes, said : Sizes] \cup {Nothing}
    /\ raced \subseteq {"source", "model"}
    /\ changes \in 0 .. MaxChanges /\ crashes \in 0 .. MaxCrashes

\* Whatever becomes of the PDF and of the program between the commands of a
\* run, all its page images and all its pages are of the book and made by the
\* release that init recorded ("check prevents mixing render environments
\* within one run"), unless the PDF was replaced between check and use.
OneSource ==
    "source" \notin raced =>
        /\ \A p \in Page : image[p] # Nothing => image[p].origin = record
        /\ \A i \in DOMAIN pages :
              /\ pages[i].image = record
              /\ pages[i].release = record.release

\* All pages that a model has interpreted were interpreted by the weights that
\* are frozen in the environment and with the projector named there, wherever
\* the files have been moved since, unless the server changed during a command
\* or the file was replaced where the server had loaded it.
OneModel ==
    "model" \notin raced =>
        \A i \in DOMAIN pages :
            pages[i].model # Nothing =>
                /\ environment # Nothing
                /\ pages[i].model = environment.model
                /\ pages[i].projector = environment.projector

\* Thinner than two pixels of the size that the page is said to have.
Sliver(box, said) ==
    \/ Distance(box.left, box.right) * said.width < 2000
    \/ Distance(box.top, box.bottom) * said.height < 2000

\* Only a figure that is a sliver ends a command by its crop, whichever corners
\* of it come first, however the products are rounded, and whether the image was
\* just made or is used again with the other size.
OnlySlivers == sliver # Nothing => Sliver(sliver.box, sliver.said)

\* The world fits the run: what was recorded is installed and in place, and
\* the server has loaded the model file of the run.
Usable ==
    /\ record # Nothing /\ [book |-> pdf, release |-> release] = record
    /\ server.path = location.model
    /\ ~Missing
    /\ environment # Nothing => Found = environment

Readable ==
    \A p \in Page : image[p] # Nothing => image[p].state # "unreadable"

Complete == Len(pages) = PageCount

\* A run whose world comes to fit it again is completed in the end, whatever
\* has happened to it before, unless an image of a page was left unreadable:
\* "A 20-page PDF can be processed sequentially and resumed after interruption"
\* (lean plan, 1459) has that one exception.
BookCompletes == <>[](Usable /\ Readable) => <>Complete

===============================================================================
