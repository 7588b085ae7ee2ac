# A formal model of bookextract

`bookextract` (`src/bookextract/`) turns a scanned book into structured data. A
vision model served by llama.cpp interprets one rendered page at a time, with a
small context made from the pages before it; the answer is checked against the
structure of a book and, when it passes, committed to a run directory. Markdown
and EPUB are rendered from what is committed. A run lasts hours and is meant to
survive anything: the process dies, the disk fills, the server goes away, a file
is damaged, the user starts a command twice.

This directory holds TLA+ modules that model that program, the configurations
that check them with TLC, and theorems about them proved with TLAPS.
`PROJECT.json` is the index: components, runs, the source lines behind every
definition, mutations of the code that each property detects, hazards, findings
and theorems.

- [1. The system](#1-the-system)
- [2. The modules](#2-the-modules)
- [3. What the runs check](#3-what-the-runs-check)
- [4. What is proved](#4-what-is-proved)
- [5. Where the plans and the code differ](#5-where-the-plans-and-the-code-differ)
- [6. What is not modelled](#6-what-is-not-modelled)
- [7. The plan](#7-the-plan)

To repeat a check: `tlc -config StoreCrash.cfg MCRunStore` (the module of each
configuration is in section 3), `tlapm RunStoreProofs.tla`.

## 1. The system

A command of `cli.py` (`init`, `relocate-inference-files`, `process`,
`render-markdown`, `render-epub`) takes
an exclusive `flock` on the run directory, recovers what an earlier command left
there, does its work and exits. There are no threads; what makes the program
hard is that every step between two writes is a place to stop, that the next
command has to find its way from there, and that the answers of the model and of
the server are anything.

| Component | Source | State it keeps | Operations |
|---|---|---|---|
| Run store | `storage.py`, `run_lock.py` | `head.json`, `commits/page-NNNN`, `.page-NNNN.tmp`, `state.json`, `failures/`, `latest.json`, `recovery/`, the lock | `ensure_layout`, `recover`, `write_commit`, `write_state_cache`, `persist_failure` |
| Output publication | `output_publish.py`, `output_paths.py`, `rendering/output_bundle.py` | the transaction marker, `output/<name>`, candidate, previous, work | `publish_output`, `publish_candidate_tree`, `recover_output_transaction`, `quarantine_invalid_output_destinations` |
| Validation | `validation.py` | none | `validate_assessment`, `validate_complete_book` |
| Book state and context | `state.py`, `context.py` | `BookState` in memory | `finalize_toc_if_required`, `apply_assessment`, `load_book_state_from_commits`, `build_page_context` |
| Page loop | `pipeline.py`, `failure_persistence.py`, `artifacts.py` | state and document in memory | `process_book` |
| Publication document | `rendering/publication.py` | none | `build_publication_document` |
| Inference client | `inference/llamacpp.py` | the bound environment | `preflight`, `calibrate_thinking_control`, `discover_token_counting_contract`, `run_thinking_smoke`, `generate_structured` |
| Inference environment | `inference/bootstrap.py` | `inference-environment.json`, `diagnostics/` | `prepare_inference_environment` |
| Interpreter | `interpretation/`, `conversion.py`, `wire.py` | none | `VlmPageInterpreter.interpret` |
| Command line | `cli.py` | `run.json`, `source-location.json`, `inference-location.json` | `cmd_init`, `_compute_relocation`, `cmd_process`, `cmd_render_markdown`, `cmd_render_epub` |
| Run guard | `run_guard.py`, `fingerprints.py`, `config.py` | none | `assert_process_consistency`, `assert_render_consistency`, `fingerprint_file` |
| PDF and figures | `pdf.py`, `assets.py` | `pages/page-NNNN.png`, the open PDF | `PdfPageSource.render_page`, `crop_figure_asset` |
| Writers | `rendering/markdown.py`, `rendering/epub.py` | none | write the files of an output |
| Data | `models.py`, `canonical.py`, `schema.py`, `errors.py` | none | definitions and encodings |

How they interact. `process` calls `RunStore.recover`, then the run guard, opens
the PDF, then (for the VLM interpreter) runs the inference bootstrap, then `process_book`, which calls `recover` again and loops: context
from the state, page image, interpreter (which calls the client), validation
against the state, crops, the new state, `write_commit`, `write_state_cache`.
Any failure of a page is persisted under `failures/` and ends the command; the
next one asks for the page again. A render recovers the store and then its
output, builds the publication document from the accepted pages, and publishes
the result through a transaction of renames described by a marker file; `process`
recovers both outputs too, before it commits pages.

What is hard, and what makes each part correct:

- **Run store.** Death between the directory rename and `head.json`, between
  `head.json` and `state.json`, inside `init`; exceptions inside `write_commit`; two
  processes; damage. Correct when the accepted pages are an append-only log of
  whole pages, when what is derived from them (cache, memory, pointers) agrees
  with them wherever the process stopped, and when the next command can go on.
- **Output publication.** Five phases, four directories, a recovery that can itself
  be interrupted, and an except clause that does part of the same work. Correct
  when there is one whole output at all times, at its place or, between the two
  renames that replace it, set aside where recovery finds it; when it is replaced in
  one step by the output of the committed book; and when recovery always finds its
  way out.
- **Book structure.** A table of contents over several pages which is closed by the
  first page that is not one, chapters that must follow it in order, paragraphs
  that stay open from page to page. State is kept in memory along one path and
  replayed along another. Correct when both agree, when no chapter escapes the
  table of contents, and when what was accepted page by page can be published.
- **Inference.** A first command that calibrates and freezes, later ones that
  verify; three retry policies side by side; a server that may be replaced or
  killed at any time. Correct when all pages of a run were interpreted under one
  environment that was proven before it was frozen, when retries stop, and when
  a failure is reported as what it is.
- **A run and its world.** A run takes days and many commands. Meanwhile the PDF and
  the model files are moved, replaced or removed, the program is upgraded, the
  server restarted with something else; each command compares what it finds with
  what was recorded, and uses it after. Correct when all pages of a run come from
  one book, one release and one model, and when a run whose world is put right
  again can be finished.
- **Figures.** A box in thousandths of the page becomes whole pixels through
  floating-point products. Correct when only a figure without extent is refused.

## 2. The modules

| Module | Models | Extends or uses |
|---|---|---|
| `RunStore` | `storage.py`, `run_lock.py`, `cmd_init`, the writes of `process_book` | |
| `CommitLog` | what the run store promises: an append-only log of pages | instantiated by `RunStore` |
| `RunStoreProofs` | theorems about `RunStore` | extends it |
| `OutputPublish` | `output_publish.py` and its callers | |
| `OutputSlot` | what publication promises: one cell, replaced atomically | instantiated by `OutputPublish` |
| `PageRules` | `validation.py`, `state.py`, `context.py` as operators | |
| `PageRulesProofs` | lemmas about the operators of `PageRules` | extends it |
| `Publication` | `rendering/publication.py` as operators | `PageRules` |
| `PublicationProofs` | lemmas about publications | extends `Publication`, `PageRulesProofs` |
| `BookProgress` | the page loop over the two above | `Publication` |
| `BookProgressProofs` | theorems about `BookProgress` | extends it and `PublicationProofs` |
| `InferenceSession` | `inference/llamacpp.py`, `inference/bootstrap.py` | |
| `InferenceSessionProofs` | theorems about `InferenceSession` | extends it |
| `OutputPublishProofs` | theorems about `OutputPublish` | extends it |
| `ProcessRun` | `cmd_init`, relocation, `cmd_process`, `run_guard.py`, the file checks of `bootstrap.py`, `PdfPageSource` | `FigureCrop` |
| `FigureCrop` | `assets.py`, the coordinates of `pdf.py` and `conversion.py` as operators | |
| `ProcessRunProofs` | theorems about `ProcessRun` and `FigureCrop` | extends `ProcessRun` |
| `MC...` | small constants, symmetry and constraints for TLC | |

**RunStore.** One step is one change of the run directory: a rename, an atomic
replacement, or the filling of a temporary directory (whose intermediate states
are all "one that `validate_commit` rejects"). `pc[p]` names the next change that
process `p` makes; `stage[p]` the command. A process outside a command is `idle`.
`mem[p]` is the state reduced from the pages, represented by the pages
themselves. `Crash` ends a process at any point and the kernel drops its lock;
`WriteFails` diverts `write_commit` into its except clause; `Damage` turns an
accepted or orphaned commit into one that does not validate, between commands.
`process` recovers twice, as the code does (`cmd_process`, then `process_book`):
stages `process` and `book`. `RecoveryLimit` stands for 9999, the last number of
four digits that `_next_recovery_dir` recognises.

**OutputPublish.** `tree` maps each of the four directories of a transaction to
`Absent`, `Invalid` or the page count of a valid tree; `phase` is the marker on
disk; `pc` walks through `publish_output` or through recovery. The branches of
`_recover_with_marker` are the actions `Recover...`; the shapes none of them takes
are `UnhandledPhase`, the `raise` at the end of the function. A removal may leave
a valid tree half removed, and the process may die there. The names of candidate,
previous and work are fresh for each transaction in the code and recorded in the
marker; the model has one of each, since begin only runs after recovery left none.
Only one output is modelled: `process` recovers the two independently.

**PageRules, Publication, BookProgress.** A page is a record of what validation,
state and publication look at: type, entries, title, blocks with their kind,
flags, labels and references. Titles are compared as already normalised. The
operators are the functions of the source; `BookProgress` runs them in the order
of `process_book`, stops anywhere, and asks `ReplayPages` to reload. `Publication`
represents a published block by the places of its sources, which is what its
source map says.

**InferenceSession.** A completion and each try of a token count are one step; so are
requests whose answers are only judged together (`/health`, `/v1/models` and `/props`
of the preflight; `/apply-template` with `/tokenize` in discovery and budgets). An
answer is one of the outcomes the client tells apart. `draft` is what the current command has found out,
`environment` the frozen file, `bound` what the client works under. `End...` are
the exceptions, with their class and code. The server can be restarted as another
at any moment, the command can die at any moment.

**ProcessRun.** The variables `pdf`, `file`, `release` and `server` are the world,
which `World` changes at any time (a release only between commands); `record`,
`location` and `environment` are the run's own files; `image` and `pages` its
results, each labelled with what it was made from. `pc` follows `cmd_process`:
guard, opening the PDF (again, by its path), preflight, fingerprints, page images,
freezing, the page loop. `interpreter` and `until` are its options: with `noop`
nothing is asked of a server, and `--through-page` and `--max-pages` stop early. A
page image is opened and then filled, so that a death leaves a part of one, and an
image that is there is used by the next command; a part that no longer reads as an
image makes every later command fail on that page. Commits are atomic and commands
follow each other here: `RunStore` has the detail of both. `raced` is a history
variable: it remembers that the PDF was replaced between the guard's check and its
use, or that the server or its file changed behind the check, the two windows that
the code leaves open. `rendered` is the size that the page at hand is said to have:
that of its pixels (`Drawn`) when the image was just made, and that of the opened file
(`Reread`) when it is used again. `sliver` is the figure whose crop ended the last
command, with that size.

**FigureCrop.** `Pixels` is the set of results that `int((at / 1000.0) * size)` can
have: the exact one or, where that is a whole number, the one before it, because the
product may be computed just below. `Spans` orders two of them and clamps them to the
pixels of the image, which may be more than the size they were computed with.

Definitions whose comment starts with "Fault" are mutated forms of the operation
after them. They are not part of any specification; they show that a property
would detect such a bug.

## 3. What the runs check

| Run | Module and configuration | Checks |
|---|---|---|
| `output_crash` | `OutputPublish`, `OutputCrash.cfg` | epub, up to three deaths: one whole output at its place or set aside, replaced atomically (`PublishesAtomically` is the refinement of `OutputSlot`) |
| `output_live` | `OutputPublish`, `OutputLive.cfg` | markdown, one death: recovery always succeeds, and the output of the committed book keeps being reached |
| `output_damage` | `OutputPublish`, `OutputDamage.cfg` | two deaths, an exception, one damaged tree or marker: nothing valid destroyed, nothing unvalidated published, nothing left over |
| `output_stuck` | `OutputPublish`, `OutputStuck.cfg` | *violated*: two deaths leave a marker no branch of recovery handles |
| `output_lost` | `OutputPublish`, `OutputLost.cfg` | *violated*: an exception and a death lose the published output |
| `store_crash` | `MCRunStore`, `StoreCrash.cfg` | two processes, three pages, two deaths or failed writes: the store implements `CommitLog`, and cache and pointers agree with it |
| `store_damage` | `MCRunStore`, `StoreDamage.cfg` | a damaged commit: nothing is built on it, nothing accepted is overwritten or forgotten |
| `book` | `MCBookProgress`, `Book.cfg` | five pages out of 21 kinds of structure, or four out of 21 kinds of text: table of contents, chapters, open paragraphs, replay; the publication has every block once and in order |
| `session` | `MCInferenceSession`, `Session.cfg` | two commands, two servers, two candidate formats, three attempts: one proven environment, the retry policy, an end to every command |
| `session_calibration` | `MCInferenceSession`, `SessionCalibration.cfg` | *violated*: answers in calibration that end in an exception no one catches |
| `process` | `MCProcessRun`, `Process.cfg` | two books, two contents and two places for model files, two releases, both interpreters, two changes of the world and a death at any moment: one source, one model, only slivers are refused |
| `process_live` | `MCProcessRun`, `ProcessLive.cfg` | the same world without upgrades, a second book or figures: a run whose world fits it again is completed |

**Bounds and why they are enough.** Recovery of an output has no memory beyond the
marker and the four directories, and page counts are only compared, so two
committed pages give an old, a current and a future output, and three deaths put
one in the original transaction and two in the recoveries. In the store, three
pages give a first, a middle and a last page and a page beyond an orphan; the only
thing two processes do to each other is the lock, so two are enough. Two contents
tell a replay from a stale state. Five pages of structure hold two pages of
contents, two chapters and a page more; four pages of text hold a paragraph over
three pages with a page before it. Pages of both kinds are not mixed in one book
(`MCBook`, a state constraint): the rules on structure do not look at the blocks
that the text pages vary. Three attempts are the least that distinguish
the single retry of a server error from the limit; two invocations are the first
and a later one, and every later one starts from the same state. Two pages of
`ProcessRun` are the page that calibration renders and one that it does not; two
changes of the world are a replacement and its undoing, or one change and another
that hides it. The page images have 10 by 10 pixels, so that the four boxes are
the whole page, two pixels with swapped corners, one pixel, and a part of one, and
7 by 7 points when they are read again (96 pixels to the inch); the proof has any
sizes. `process_live` has no figures and one size. `MCStart` fixes which name the first book, release, path and
content have; they are interchangeable, and the constraint says nothing once the
world has changed, so it leaves out renamings only.

**Deadlock** is checked everywhere except for the two session and the two process
configurations: in the former the bounded number of commands is used up, in the
latter a run whose PDF is missing cannot even be created.

**Symmetry** is used in the store runs only (processes and contents), which have no
liveness property.

**Fairness.** `OutputPublish!FairSpec` assumes that a running command goes on
(weak fairness of everything except committing further pages and failing), that
the user renders again and again, and that the render gets as far as publishing
(strong fairness, since other commands come in between): a guard that refuses
every render is not the publication's business. `InferenceSession!LiveSpec`
assumes weak fairness of the work of a command: every request of the client has a
time-out (`llamacpp.py:143`), so it is answered or fails. `ProcessRun!LiveSpec`
assumes that a running command goes on, that the user keeps asking for the whole
book, and that what can fail for reasons outside the program (a refusing server, an
image that cannot be rendered or written, a failing answer) does not fail every time
the whole book is asked for: strong fairness of those steps of such a command. A
death of the process is not fair and is bounded; a restart from there is what the
property is about.

**Findings** (`PROJECT.json`, "findings") come from the violated runs. Each names the
line of the code and the sentence of the repository that says otherwise:

- `output_stuck`: a death right after the destination was renamed to previous and
  before the marker says so is handled; but a death *during the recovery* of that
  state leaves candidate-valid with shapes that no branch matches, and every later
  command ends with the same error.
- `output_lost`: an exception raised after candidate-valid is written quarantines
  the candidate in the except clause; a death before the marker is removed makes
  recovery compare the old but valid destination with the new head, reject it and
  set it aside.
- `session_calibration`: reasoning content in the production probe, or an answer
  without choices, ends the command in a traceback rather than with
  `unsupported-thinking-control`.

## 4. What is proved

### RunStoreProofs

For any number of processes, pages, contents, failures, deaths and damages:
`TypeCorrect`, `AcceptedPagesWhole`, `PointersCorrect`, `CacheCorrect`,
`MemoryCorrect`, `SlotFree`, `AcceptedPagesKept`, and `CommitLogImplemented`: every behaviour of `RunStore` without
outside damage (`MaxDamages = 0`) is one of `CommitLog`. The only other assumption is
`StoreAssumption` (the constants are numbers, and `Absent`, `Partial` and `NoOwner` are
not contents or processes).

The inductive invariant is

    IInv == TypeOK /\ OnlyOwnerRuns /\ DiskInv /\ \A p \in Proc : LocalInv(p)

None of the properties is inductive alone. That memory is the replay of the
accepted pages holds only because no orphan lies above the head while a page is
written, which holds because recovery swept them, which stays so because nobody
else runs. `LocalInv(p)` says what the lock holder knows at each control point:
commits above the head are gone once swept (`SweptPoint`), accepted commits have
validated (`LoadedPoint`), memory is one page ahead while a commit is written
(`WritingPoint`), and the temporary directory holds that page just before the
rename. `DiskInv` is what survives a death.

One lemma per action shows that it keeps `IInv`. `HolderStep` reduces what a step of
the lock holder has to show to its own `LocalInv`; `DiskUnchanged` and `ExitLemma`
dispose of the steps that change nothing on disk and of every way out.
`StepKinds` classifies the steps by what they do to head and accepted commits, and
the action property and the refinement follow from it.

### InferenceSessionProofs

For any set of servers, any non-empty list of candidate formats, any
`max_attempts` and any bounds: `TypeCorrect`, `FrozenUsed`, `FrozenProven`,
`ResultsCompare`, `PolicyFollowed`. The assumptions are those of `InferenceSession`:
`FormatsAssumption`, `AttemptsAssumption`, `BoundsAssumption`, and
`NothingAssumption` (`None` is neither a server nor an environment).

`IInv` adds two parts to the properties. `Phases` says what holds at each point of an
invocation: nothing is frozen while it calibrates; on its way through the smoke
request it carries the frozen environment if there is one; when it is about to
freeze, what it carries is in the diagnostics; on pages the bound, the found and
the frozen environment are one. `ResultsComparable` needs it: a result is made
under `bound`, and the file must not change afterwards, which holds because it is
only written while there is none, hence before any result. `Attempting` says that
the attempts of a running completion keep to the policy and that one is left.

Again one lemma per action. `EndLemma` and `GoToLemma` say what an end and a step to
another point have to show; `ServerErrorsAppend`, `MayRetryFollows` and `GivenUp` are
about sequences of attempts and need cardinalities.

### OutputPublishProofs

For any number of pages, deaths, exceptions and damages (`PublishAssumption`: the
bounds are numbers), `TypeCorrect`, `DestinationIsWhole`, `SuccessMeansCurrent`,
`RecoveryIsClean`, `DestinationIsFree` and the action properties `ArrivalsAreWhole` and
`NothingIsDestroyed`. The invariant does not need the marker: `PlacesInv` says what
each point of publication or recovery knows of the four directories (the
destination is free where something is about to be moved there, the candidate is
the output of the head from its validation to its arrival, nothing is set aside
before a publication has moved anything), and `Bounded` that no output is ahead of
the book, which is what makes a replacement at least as recent. A death may come
anywhere, since every point it leads to, `idle`, knows nothing.

`OutputIsOneCell` is the refinement: with `MaxInterrupts = 0` and `MaxDamages = 0` every
behaviour is one of `OutputSlot`. Here the marker matters. `MarkerInv` says what each
phase stands for: under the first two no output is set aside, under the others the
output of the head is the candidate or at the destination. From that, the branches
of recovery that quarantine a destination or restore a previous output are never
taken after deaths alone, and each remaining step either moves the output of the
head into place or leaves what there is to read. The two assumptions cannot be dropped:
`output_lost` is a counterexample with one exception.

`OneDeathIsHandled` is about `RecoverySucceeds`, which `output_stuck` shows to fail after
two deaths: as long as the process died at most once and no exception was raised in
a publication (`OneDeath`), recovery finds a branch for every marker, however many
trees and markers were damaged in between. The invariant `ReachInv` tells the first
death from the next. Before it a command meets no marker of the last three phases
but its own, so every such marker is over one of the shapes that the steps of
`publish_candidate_tree` pass through (`Handled`); after it the process dies no more,
and what recovery makes of those shapes is not seen by another recovery. The run
`output_live` checks the property without damage; the theorem needs no such bound.

### PageRulesProofs, PublicationProofs, BookProgressProofs

For any number of pages of a book, any set of pages a model can answer with, any
titles, labels and texts, and every setting of the rules: all twelve invariants that
the run `book` checks and the action property `OpeningWasAnnounced`. The assumptions
are `RulesAssumption` (`Empty` and `Nothing` are no titles, the settings are Booleans and a number),
`NothingAssumption` (Python's `None` is not a section, a state or a context), and
`ProgressAssumption` (a book has a page, and what is read are records of the type
`Interpretation`, the fields that the wire schema requires).

State, publication and numbering are computed by recursion over pages and blocks, and
none of the provers does induction. It is done by hand: `SetInduction` derives
induction over the naturals, for a *set* instead of a predicate, from the
well-foundedness of `<`; `RecursionExists` builds the function that a recursion
describes one argument at a time, and `SolutionIs` says that it is the only one.
`ReplayAppend` then says that the state of one page more is that of one application
more, whatever the pages are; `ChosenAppend`, `FlattenAppend`, `MetaAppend` and
`PlacesAppend` say the same of what else is computed from the pages. All
that follows uses these equations only.

The argument has two halves. `BookInv(pages)` relates a sequence of pages to the state
replayed from it, without reference to a command:

- `TocInv`: the contents pages are consecutive and their entries are the TOC of the
  state, which is collecting only after a contents page;
- `SectionInv`: there is a section once a chapter was opened, the TOC is settled by
  then, and the chapters opened are its first entries;
- `TailInv` and `ClosedInv`: the open paragraph of the state is that of the last page,
  and one left open in a section was taken up by the next page;
- `SoundPages`: what validation says of one page or two neighbours, in a form that
  does not mention the state.

`BookStep` shows that a page that passes validation keeps it; there is one lemma for
each part. None is inductive alone: that a chapter is the next entry needs the TOC of
the state to be that of the pages, and that a paragraph is taken up needs the tail
that validation looked at to be the last page's. The other half, `IInv`, is about the
loop: the state in memory is the replayed one, what was shown is the context of it, and
`BookInv` holds of what is accepted. It has one short lemma for each action, since only
`Accept` changes the pages.

What publication makes of the accepted pages is proved of any sequence of pages.
`MergeInv` says what merging has done after `n` blocks: the output flattened is the
first `n` blocks, the parts of each output block are on consecutive pages and continue
one another, and the block that waits for its continuation ends in a part left open;
`PublicationOrder` and `MergedIs` follow. `NotesNumbered` is an argument by counting: the
numbers are assigned to distinct labels in the order of the notes. `FailsOnly` is about
what cannot happen: if the pages are sound and none of the listed gaps in validation is
there, then every reference finds its note, two notes of one page have two labels, and
`Waiting` is an invariant of merging, so that each continuation finds what it continues.
For that, positions of selected blocks have to be followed from a page to the book
(`Picks`, `PlacesOrdered`).

### ProcessRunProofs

For any books, contents, places, releases, page counts, image sizes, boxes, changes
and deaths: `TypeCorrect`, `SourceIsOne`, `ModelIsOne`, `SliversOnly`. The assumptions are
`RunAssumption` (an opened image has at most as many points as pixels) and
`NothingAssumption`. The properties are about results only; what
makes them inductive is what a command knows on its way there. `SourceInv`: after
the guard the release is the recorded one, and unless raced so is the open PDF.
`ModelInv`: after preflight the server has the path of the location; after the
fingerprints what was seen is what is frozen, or nothing is frozen yet and it will
be. `DiskInv`: location and environment agree on whether there is a projector, which
is why a relocation may not add or clear one. `PageInv`: there is an image of the
page at hand and there is such a page. For crops, `PixelBounds` bounds a pixel by its
exact place, and `SpanNotEmpty` shows that two places two pixels apart never span
nothing, in either order, as long as the page is said to be no larger than its image;
it is a lemma about integers and needs no run.

### What stays with TLC

Every safety property that a passing run checks is the subject of a theorem. What
is not proved is liveness (`OutputBecomesCurrent`, `InvocationEnds`, `BookCompletes`),
since neither fairness nor `ENABLED` is in reach of the prover. `RecoverySucceeds`
is proved under the one restriction without which it is false. The violated runs are
about small instances by nature: one counterexample is enough.

## 5. Where the plans and the code differ

`docs/plans/implementation_plan_v0.1.md` and
`docs/plans/lean_local_vlm_book_extraction_plan.md` specify the program in detail.
The models follow the code. Besides the violated runs of section 3, these
differences were met while modelling; no run is spent on them.

- Recovery moves unfinished and orphan commits aside (`storage.py:374-386`) before
  it validates the accepted ones (388-395). The implementation plan validates first
  (lines 1090-1092). A run that recovery then refuses has been changed already.
- Levels of table-of-contents entries are compared within one page only
  (`validation.py:97`); the lean plan validates the committed table (line 985).
- A book whose last page is a contents page is complete without a chapter
  (`validation.py:311`: the table is still being collected); lean plan, line 1067.
  `CompleteTocExhausted` excepts it, and shows that it is the only exception.
- A reference inside a footnote is not looked up when the page is accepted
  (`validation.py:242`) and makes rendering fail; lean plan, line 1508.
  `FailsOnlyUnchecked` lists all such cases.
- `attempts_exhausted` is set whenever the number of attempts reached the limit,
  whatever the last failure was (`llamacpp.py:560`); implementation plan, line 922.
- Token-counting discovery ends the command on a malformed answer or a failure that
  outlives its retry (`llamacpp.py:672`, `757`), where the plan falls back to the next
  mechanism (lines 452-453). The tests fix what the code does.
- A refused request or an ill-formed completion in calibration is reported as
  `thinking-control-contract-drift` (`llamacpp.py:852-904`), where the plan says
  `unsupported-thinking-control` (line 359).
- The budget probes of the apply-template mode are not retried
  (`llamacpp.py:1345`); implementation plan, lines 313 and 467.

- A paragraph left open before the first chapter is accepted and not tracked: only
  pages of a section update the open tail (`state.py:122`). The lean plan (lines
  1015-1021) has no such exception. `TailIsReal` excepts the pages before the first
  chapter, and shows that they are the only exception.
- A page image is written in place (`pdf.py:191`), and one that is there is read and
  not made again (`pdf.py:176`, `193`). A death in between can leave a part that is
  not an image; every later command then ends with `page-render-failed` until someone
  deletes the file. The lean plan asks that a run can be resumed after interruption
  (lines 1459, 1597). `BookCompletes` excepts such an image (`Readable`) and shows that
  it is the only thing a death leaves that stops a run.
- A part of an image that does read as one is used as the page (`pdf.py:193`); its hash
  is that of the part.
- The size of a page is that of its pixels when the image was just made
  (`pdf.py:184-185`) and that of the opened file, in points, when it is used again
  (`pdf.py:195-197`); the crop is clamped to the pixels in both cases
  (`assets.py:41`). Where the two differ, a figure of an image used again is cut at
  another scale and from another place. `OnlySlivers` holds for both sizes; no document
  mentions the difference.
- `page-image-too-large` is raised as a `ProcessingError` (`pdf.py:187`), where the
  implementation plan lists it as a page-level `InferenceError` (line 666).
- `render_annotations` of the configuration is recorded with every page
  (`pipeline.py:174`) and not passed to `PdfPageSource` (`cli.py:307`).
- `process` compares the PDF by its path before it opens that path again
  (`run_guard.py`, then `cli.py:307`), and hashes the model file that a server may have
  loaded before it was replaced. `OneSource` and `OneModel` name these two windows
  (`raced`) and hold outside them.

## 6. What is not modelled

- The prompt and the wire format (`interpretation/`, `conversion.py`, `wire.py`), except
  for what becomes of a bounding box and for the fact that a conversion can refuse an
  answer: pure functions of one answer. The models take any interpretation a response
  can be converted to. A block that the wire schema allows and the domain does not is
  a `ValueError` (`conversion.py:86`) that ends the command without a failure record;
  `ProcessRun!AnswerFails` has it among the failures of a page.
- PyMuPDF and pandoc (`rendering/markdown.py`, `rendering/epub.py`, the pixels of a
  page): their failures are inputs of the models. The mapping of pixels back to PDF
  points (`pixel_rect_to_pdf_rect`) is called by nothing in `src/bookextract`. What
  the size of an opened image is depends on the resolution PyMuPDF writes into the
  file: `ReadWidth` and `ReadHeight` are assumed to be at most the pixels.
- The parts of a release: prompt, schema and PyMuPDF versions are one value, and so are
  hash, size and page count of a PDF. Each is compared for equality only.
- Names of four digits for pages (`storage.py:278`): a book of more than 9999 pages.
- What `noop` commits beyond being pages (`cli.py:359`), and a token-counting endpoint
  that exists and does not work (`llamacpp.py:641`), beyond ending the command.
- The arithmetic of the token budget: its verdict is a nondeterministic choice, and
  what is made of each verdict is modelled.
- The contents of files beyond "whole", "partial" and "absent"; `fsync`: a rename that
  happened is on disk.

## 7. The plan

Done, in this order: `OutputPublish` (the most intricate recovery), `RunStore` with
its proofs, `BookProgress` with `PageRules` and `Publication`, `InferenceSession` with
its proofs, `ProcessRun` with `FigureCrop` and its proofs, the proofs of
`OutputPublish`, the proofs of `PageRules`, `Publication` and `BookProgress`.

Next, extending the model:

1. A composition of `RunStore` and `BookProgress`: `process_book` over both, with the
   failure record of a page and the crops that are committed with it.
2. Both outputs under one lock in `OutputPublish`, with the fresh names of
   candidate, previous and work, so that the orphan patterns are exercised.
3. The token budget as arithmetic (estimate, reserve, context size) with its own
   bounds, in place of the nondeterministic verdict.

Next, proving more:

1. Recovery after an exception: which deaths after an `Interrupt` still leave a marker
   that `UnhandledPhase` does not take, as an invariant like `ReachInv`.
2. The safety half of the liveness properties: from every reachable state of
   `OutputPublish` each step of recovery makes a measure smaller, which leaves only
   fairness to TLC.
