------------------------------ MODULE RunStore ------------------------------
(***************************************************************************)
(* The run directory and the commands that write its page commits: RunStore*)
(* (storage.py), cmd_init and cmd_process (cli.py), process_book           *)
(* (pipeline.py), run_lock.py.  A step is one change of the directory (a   *)
(* rename, an atomic replacement of a file, the filling of a directory);   *)
(* the process can die between any two of them.                            *)
(*                                                                         *)
(* What the pages say is a member of Content: two runs of the model on the *)
(* same page may answer differently, and that is all the properties need.  *)
(* The BookState reduced from the pages is represented by the pages.       *)
(***************************************************************************)
EXTENDS Integers, Sequences

CONSTANTS Proc,          \* operating-system processes running bookextract
          Content,       \* the assessments a page can be given
          PageCount,     \* pages of the source PDF
          RecoveryLimit, \* highest number four digits can name, 9999
          MaxFailures,   \* bound: failures persisted for a page
          MaxCrashes,    \* bound: deaths of a process
          MaxDamages,    \* bound: commits damaged from outside
          Absent, Partial, \* no directory; one validate_commit rejects
          NoOwner        \* nobody holds the run lock

ASSUME StoreAssumption ==
  /\ PageCount \in Nat \ {0} /\ RecoveryLimit \in Nat
  /\ MaxFailures \in Nat /\ MaxCrashes \in Nat /\ MaxDamages \in Nat
  /\ Absent \notin Content /\ Partial \notin Content /\ Absent # Partial
  /\ NoOwner \notin Proc

VARIABLES
  made,        \* how many files of a new run cmd_init has written
  head,        \* committed_page_count of head.json, -1 before there is one
  commit,      \* commits/page-NNNN
  tmp,         \* commits/.page-NNNN.tmp
  cache,       \* state.json: the page count and the state it claims to be of
  failures,    \* highest failures/page-NNNN/failure-NNNN
  latest,      \* the failure latest.json points to
  recoveries,  \* highest recovery/recovery-NNNN
  owner,       \* the process holding the flock of .bookextract.lock
  pc,          \* the next step of each process
  stage,       \* the command it runs
  mem,         \* the state it has reduced in memory
  crashes, damages

disk  == <<made, head, commit, tmp, cache, failures, latest, recoveries>>
local == <<owner, pc, stage, mem>>
vars  == <<disk, local, crashes, damages>>

Page      == 1..PageCount
Committed == Content \cup {Partial}
InitFiles == 4           \* layout, run.json, source and inference location
Stage     == {"none", "init", "render", "process", "book"}
Control   == {"idle", "init", "initWrite", "open", "sweep", "check",
              "recoverCache", "pointers", "recovered", "page", "persist",
              "point", "makeTmp", "fill", "rename", "writeHead", "writeCache",
              "undo"}

Accepted   == IF head = -1 THEN {} ELSE 1..head
Replay(n)  == [i \in 1..n |-> commit[i]]
\* Fault: the commit of the head itself counts as an orphan.
OrphansFromHead == {i \in Page : i >= head /\ commit[i] # Absent}

\* Fault: only temporary directories are moved aside.
NoOrphans == {}

Orphans    == {i \in Page \ Accepted : commit[i] # Absent}
Leftovers  == {i \in Page : tmp[i] # Absent}

Init ==
  /\ made = 0 /\ head = -1
  /\ commit = [i \in Page |-> Absent]
  /\ tmp = [i \in Page |-> Absent]
  /\ cache = Absent
  /\ failures = [i \in Page |-> 0] /\ latest = [i \in Page |-> 0]
  /\ recoveries = 0
  /\ owner = NoOwner
  /\ pc = [p \in Proc |-> "idle"]
  /\ stage = [p \in Proc |-> "none"]
  /\ mem = [p \in Proc |-> <<>>]
  /\ crashes = 0 /\ damages = 0

-----------------------------------------------------------------------------
Goto(p, next) == pc' = [pc EXCEPT ![p] = next]

\* The process ends, by return, exception or death; the kernel drops the flock.
Exit(p) ==
  /\ pc' = [pc EXCEPT ![p] = "idle"]
  /\ stage' = [stage EXCEPT ![p] = "none"]
  /\ mem' = [mem EXCEPT ![p] = <<>>]
  /\ owner' = NoOwner

Stay == UNCHANGED <<owner, stage, mem>>
NoCount == UNCHANGED <<crashes, damages>>

\* Fault: the lock file is opened but not locked exclusively.
AcquireShared(p, c) ==
  /\ pc[p] = "idle"
  /\ owner' = p
  /\ pc' = [pc EXCEPT ![p] = IF c = "init" THEN "init" ELSE "open"]
  /\ stage' = [stage EXCEPT ![p] = c]
  /\ UNCHANGED <<mem, disk>> /\ NoCount

\* Every command takes the lock first, and gives up when another holds it.
Acquire(p, c) ==
  /\ pc[p] = "idle"
  /\ owner = NoOwner
  /\ owner' = p
  /\ pc' = [pc EXCEPT ![p] = IF c = "init" THEN "init" ELSE "open"]
  /\ stage' = [stage EXCEPT ![p] = c]
  /\ UNCHANGED <<mem, disk>> /\ NoCount

-----------------------------------------------------------------------------
(* cmd_init.  The directories and files of a run come in a fixed order,    *)
(* head.json last; a directory that has any of them is refused.            *)

InitRefused(p) ==
  /\ pc[p] = "init"
  /\ made > 0 \/ head # -1
  /\ Exit(p) /\ UNCHANGED disk /\ NoCount

InitBegin(p) ==
  /\ pc[p] = "init"
  /\ made = 0 /\ head = -1
  /\ made' = 1
  /\ Goto(p, "initWrite") /\ Stay
  /\ UNCHANGED <<head, commit, tmp, cache, failures, latest, recoveries>>
  /\ NoCount

\* Fault: head.json is written before the location files.
InitWriteHeadEarly(p) ==
  /\ pc[p] = "initWrite"
  /\ IF made < InitFiles
     THEN made' = made + 1 /\ head' = 0 /\ UNCHANGED local
     ELSE Exit(p) /\ UNCHANGED <<made, head>>
  /\ UNCHANGED <<commit, tmp, cache, failures, latest, recoveries>> /\ NoCount

InitWrite(p) ==
  /\ pc[p] = "initWrite"
  /\ IF made < InitFiles
     THEN made' = made + 1 /\ UNCHANGED <<head, local>>
     ELSE head' = 0 /\ Exit(p) /\ UNCHANGED made
  /\ UNCHANGED <<commit, tmp, cache, failures, latest, recoveries>> /\ NoCount

-----------------------------------------------------------------------------
(* RunStore.recover.                                                       *)

\* run.json or head.json is missing, or recovery-NNNN has run out of digits
\* and the directory after the last one exists: the command fails.
OpenRefused(p) ==
  /\ pc[p] = "open"
  /\ made < 2 \/ head = -1 \/ recoveries > RecoveryLimit
  /\ Exit(p) /\ UNCHANGED disk /\ NoCount

\* Fault: nothing stops recovery after the last four-digit number.
OpenUnlimited(p) ==
  /\ pc[p] = "open"
  /\ made >= 2 /\ head # -1
  /\ recoveries' = recoveries + 1
  /\ Goto(p, "sweep") /\ Stay
  /\ UNCHANGED <<made, head, commit, tmp, cache, failures, latest>> /\ NoCount

\* Every recovery makes a directory of its own, needed or not.
Open(p) ==
  /\ pc[p] = "open"
  /\ made >= 2 /\ head # -1 /\ recoveries <= RecoveryLimit
  /\ recoveries' = recoveries + 1
  /\ Goto(p, "sweep") /\ Stay
  /\ UNCHANGED <<made, head, commit, tmp, cache, failures, latest>> /\ NoCount

\* Unfinished commits, and finished ones above head, are moved aside one by
\* one, in the order the directory lists them.
SweepLeftover(p) ==
  /\ pc[p] = "sweep"
  /\ \E i \in Leftovers : tmp' = [tmp EXCEPT ![i] = Absent]
  /\ UNCHANGED <<made, head, commit, cache, failures, latest, recoveries>>
  /\ UNCHANGED local /\ NoCount

SweepOrphan(p) ==
  /\ pc[p] = "sweep"
  /\ \E i \in Orphans : commit' = [commit EXCEPT ![i] = Absent]
  /\ UNCHANGED <<made, head, tmp, cache, failures, latest, recoveries>>
  /\ UNCHANGED local /\ NoCount

Swept(p) ==
  /\ pc[p] = "sweep"
  /\ Leftovers = {} /\ Orphans = {}
  /\ Goto(p, "check") /\ Stay /\ UNCHANGED disk /\ NoCount

\* Fault: the head is moved back to the pages before the invalid one.
CheckTruncates(p) ==
  /\ pc[p] = "check"
  /\ \E i \in Accepted : commit[i] \notin Content /\ head' = i - 1
  /\ Exit(p)
  /\ UNCHANGED <<made, commit, tmp, cache, failures, latest, recoveries>> /\ NoCount

\* Every accepted commit has to be there and pass validate_commit; then the
\* state is replayed from them.
CheckFails(p) ==
  /\ pc[p] = "check"
  /\ \E i \in Accepted : commit[i] \notin Content
  /\ Exit(p) /\ UNCHANGED disk /\ NoCount

\* Fault: accepted commits are replayed without being validated.
CheckSkipped(p) ==
  /\ pc[p] = "check"
  /\ mem' = [mem EXCEPT ![p] = Replay(head)]
  /\ Goto(p, "recoverCache")
  /\ UNCHANGED <<owner, stage>> /\ UNCHANGED disk /\ NoCount

CheckPasses(p) ==
  /\ pc[p] = "check"
  /\ \A i \in Accepted : commit[i] \in Content
  /\ mem' = [mem EXCEPT ![p] = Replay(head)]
  /\ Goto(p, "recoverCache")
  /\ UNCHANGED <<owner, stage>> /\ UNCHANGED disk /\ NoCount

RecoverCache(p) ==
  /\ pc[p] = "recoverCache"
  /\ cache' = [count |-> head, state |-> mem[p]]
  /\ Goto(p, "pointers") /\ Stay
  /\ UNCHANGED <<made, head, commit, tmp, failures, latest, recoveries>>
  /\ NoCount

\* latest.json of each page is rewritten to name its last failure.
RebuildPointer(p) ==
  /\ pc[p] = "pointers"
  /\ \E i \in Page : /\ latest[i] # failures[i]
                     /\ latest' = [latest EXCEPT ![i] = failures[i]]
  /\ UNCHANGED <<made, head, commit, tmp, cache, failures, recoveries>>
  /\ UNCHANGED local /\ NoCount

PointersRebuilt(p) ==
  /\ pc[p] = "pointers"
  /\ latest = failures
  /\ Goto(p, "recovered") /\ Stay /\ UNCHANGED disk /\ NoCount

\* A render has what it needs; process recovers again inside process_book,
\* and then starts from the cached state or, with pages, from a replay.
AfterRecovery(p) ==
  /\ pc[p] = "recovered"
  /\ CASE stage[p] = "render" -> Exit(p)
       [] stage[p] = "process" ->
            /\ stage' = [stage EXCEPT ![p] = "book"]
            /\ Goto(p, "open")
            /\ UNCHANGED <<owner, mem>>
       [] OTHER ->
            /\ mem' = [mem EXCEPT ![p] =
                 IF head = 0 /\ cache # Absent /\ cache.count = 0
                 THEN cache.state ELSE Replay(head)]
            /\ Goto(p, "page")
            /\ UNCHANGED <<owner, stage>>
  /\ UNCHANGED disk /\ NoCount

-----------------------------------------------------------------------------
(* The page loop of process_book.                                          *)

NextPage(p) == Len(mem[p]) + 1  \* number of the page the loop is at
Last(p)  == Len(mem[p])         \* number of the page being committed

\* The page limits, or the end of the book, end the loop.
EndLoop(p) == pc[p] = "page" /\ Exit(p) /\ UNCHANGED disk /\ NoCount

\* The page is interpreted and validated; the state takes it in before the
\* commit is written.
Interpret(p, c) ==
  /\ pc[p] = "page" /\ NextPage(p) <= PageCount
  /\ mem' = [mem EXCEPT ![p] = Append(@, c)]
  /\ Goto(p, "makeTmp")
  /\ UNCHANGED <<owner, stage>> /\ UNCHANGED disk /\ NoCount

\* Rendering, inference or validation fails in a way that is persisted.
PageFails(p) ==
  /\ pc[p] = "page" /\ NextPage(p) <= PageCount
  /\ failures[NextPage(p)] < MaxFailures
  /\ Goto(p, "persist") /\ Stay /\ UNCHANGED disk /\ NoCount

\* Fault: latest.json is written before the directory it names.
PersistPointerFirst(p) ==
  /\ pc[p] = "persist"
  /\ latest' = [latest EXCEPT ![NextPage(p)] = failures[NextPage(p)] + 1]
  /\ Goto(p, "point") /\ Stay
  /\ UNCHANGED <<made, head, commit, tmp, cache, failures, recoveries>> /\ NoCount

\* persist_failure: the complete directory appears, then latest.json names it.
PersistFailure(p) ==
  /\ pc[p] = "persist"
  /\ failures' = [failures EXCEPT ![NextPage(p)] = @ + 1]
  /\ Goto(p, "point") /\ Stay
  /\ UNCHANGED <<made, head, commit, tmp, cache, latest, recoveries>> /\ NoCount

PointLatest(p) ==
  /\ pc[p] = "point"
  /\ latest' = [latest EXCEPT ![NextPage(p)] = failures[NextPage(p)]]
  /\ Exit(p)
  /\ UNCHANGED <<made, head, commit, tmp, cache, failures, recoveries>> /\ NoCount

-----------------------------------------------------------------------------
(* RunStore.write_commit, then write_state_cache.                          *)

MakeTmp(p) ==
  /\ pc[p] = "makeTmp"
  /\ tmp' = [tmp EXCEPT ![Last(p)] = Partial]
  /\ Goto(p, "fill") /\ Stay
  /\ UNCHANGED <<made, head, commit, cache, failures, latest, recoveries>>
  /\ NoCount

\* Fault: the commit is put in place with its manifest still missing.
FillPartly(p) ==
  /\ pc[p] = "fill"
  /\ Goto(p, "rename")
  /\ Stay
  /\ UNCHANGED <<made, head, commit, tmp, cache, failures, latest, recoveries>>
  /\ NoCount

\* All files, the manifest, and validate_commit, if the page is the next one.
Fill(p) ==
  /\ pc[p] = "fill"
  /\ IF Last(p) = head + 1
     THEN /\ tmp' = [tmp EXCEPT ![Last(p)] = mem[p][Last(p)]]
          /\ Goto(p, "rename")
     ELSE Goto(p, "undo") /\ UNCHANGED tmp
  /\ Stay
  /\ UNCHANGED <<made, head, commit, cache, failures, latest, recoveries>>
  /\ NoCount

Rename(p) ==
  /\ pc[p] = "rename"
  /\ IF commit[Last(p)] = Absent
     THEN /\ commit' = [commit EXCEPT ![Last(p)] = tmp[Last(p)]]
          /\ tmp' = [tmp EXCEPT ![Last(p)] = Absent]
          /\ Goto(p, "writeHead")
     ELSE Goto(p, "undo") /\ UNCHANGED <<commit, tmp>>
  /\ Stay
  /\ UNCHANGED <<made, head, cache, failures, latest, recoveries>> /\ NoCount

WriteHead(p) ==
  /\ pc[p] = "writeHead"
  /\ head' = Last(p)
  /\ Goto(p, "writeCache") /\ Stay
  /\ UNCHANGED <<made, commit, tmp, cache, failures, latest, recoveries>>
  /\ NoCount

\* Fault: the cache is labelled with the page to come.
WriteCacheAhead(p) ==
  /\ pc[p] = "writeCache"
  /\ cache' = [count |-> Last(p) + 1, state |-> mem[p]]
  /\ Goto(p, "page") /\ Stay
  /\ UNCHANGED <<made, head, commit, tmp, failures, latest, recoveries>>
  /\ NoCount

WriteCache(p) ==
  /\ pc[p] = "writeCache"
  /\ cache' = [count |-> Last(p), state |-> mem[p]]
  /\ Goto(p, "page") /\ Stay
  /\ UNCHANGED <<made, head, commit, tmp, failures, latest, recoveries>>
  /\ NoCount

\* An exception inside write_commit (a full disk, Ctrl-C) ends in its except
\* clause, which removes the temporary directory and re-raises.
WriteFails(p) ==
  /\ pc[p] \in {"fill", "rename", "writeHead"}
  /\ crashes < MaxCrashes
  /\ crashes' = crashes + 1
  /\ Goto(p, "undo") /\ Stay /\ UNCHANGED disk /\ UNCHANGED damages

Undo(p) ==
  /\ pc[p] = "undo"
  /\ tmp' = [tmp EXCEPT ![Last(p)] = Absent]
  /\ Exit(p)
  /\ UNCHANGED <<made, head, commit, cache, failures, latest, recoveries>>
  /\ NoCount

-----------------------------------------------------------------------------
Crash(p) ==
  /\ pc[p] # "idle"
  /\ crashes < MaxCrashes
  /\ crashes' = crashes + 1
  /\ Exit(p) /\ UNCHANGED disk /\ UNCHANGED damages

\* While no command runs, a commit loses or changes a file.
Damage ==
  /\ owner = NoOwner
  /\ damages < MaxDamages
  /\ damages' = damages + 1
  /\ \E i \in Page : commit[i] \in Content /\ commit' = [commit EXCEPT ![i] = Partial]
  /\ UNCHANGED <<made, head, tmp, cache, failures, latest, recoveries>>
  /\ UNCHANGED local /\ UNCHANGED crashes

Recover(p) ==
  \/ OpenRefused(p) \/ Open(p) \/ SweepLeftover(p) \/ SweepOrphan(p) \/ Swept(p)
  \/ CheckFails(p) \/ CheckPasses(p) \/ RecoverCache(p) \/ RebuildPointer(p)
  \/ PointersRebuilt(p) \/ AfterRecovery(p)

InitRun(p) == InitRefused(p) \/ InitBegin(p) \/ InitWrite(p)

WriteCommit(p) ==
  MakeTmp(p) \/ Fill(p) \/ Rename(p) \/ WriteHead(p) \/ WriteCache(p) \/ Undo(p)

Failing(p) == PageFails(p) \/ PersistFailure(p) \/ PointLatest(p)

Command(p) ==
  \/ InitRun(p) \/ Recover(p) \/ WriteCommit(p) \/ Failing(p) \/ EndLoop(p)
  \/ \E c \in Content : Interpret(p, c)

Next ==
  \/ \E p \in Proc : \/ \E c \in {"init", "render", "process"} : Acquire(p, c)
                     \/ Command(p) \/ WriteFails(p) \/ Crash(p)
  \/ Damage

Spec == Init /\ [][Next]_vars

-----------------------------------------------------------------------------
(* Properties.                                                             *)

\* Every variable stays in the set of values the code gives it.
TypeOK ==
  /\ made \in 0..InitFiles /\ head \in -1..PageCount
  /\ commit \in [Page -> Committed \cup {Absent}]
  /\ tmp \in [Page -> Committed \cup {Absent}]
  /\ cache \in {Absent} \cup [count : 0..PageCount, state : Seq(Content)]
  /\ failures \in [Page -> 0..MaxFailures] /\ latest \in [Page -> 0..MaxFailures]
  /\ recoveries \in 0..RecoveryLimit + 1
  /\ owner \in Proc \cup {NoOwner}
  /\ pc \in [Proc -> Control] /\ stage \in [Proc -> Stage]
  /\ mem \in [Proc -> Seq(Content)]
  /\ crashes \in 0..MaxCrashes /\ damages \in 0..MaxDamages

\* What a pointer file names is there, wherever a command or init has died:
\* head.json, its last file, that of a complete run, and latest.json a failure
\* whose directory is in place.
PointersHold ==
  /\ head # -1 => made = InitFiles
  /\ \A i \in Page : latest[i] <= failures[i]

\* Unless a commit was damaged from outside, all pages up to head are whole,
\* whatever step a crash or a failed write followed.
AcceptedWhole == damages = 0 => \A i \in Accepted : commit[i] \in Content

\* A state cache of the head's page count is the replay of the accepted pages,
\* never of pages that were interpreted but not accepted.
CacheIsReplay ==
  damages = 0 /\ cache # Absent /\ cache.count = head => cache.state = Replay(head)

\* The state in memory on which the next page is interpreted is the replay of
\* what is accepted on disk, though it took each page in before its commit.
MemoryIsReplay ==
  \A p \in Proc : pc[p] \in {"page", "writeCache"} =>
    mem[p] = Replay(head) /\ \A i \in Accepted : commit[i] \in Content

\* write_commit always finds its page to be the next one and its final name
\* free: recovery has moved every orphan away, so neither of its errors can
\* keep a run from going on.
NextSlotFree ==
  \A p \in Proc : pc[p] \in {"makeTmp", "fill", "rename"} =>
    /\ Last(p) = head + 1
    /\ commit[Last(p)] = Absent

\* An accepted page is never replaced, removed or forgotten by the program.
AcceptedKept ==
  [][owner # NoOwner => /\ head' >= head
                        /\ \A i \in Accepted : commit'[i] = commit[i]]_vars

\* The accepted pages form the append-only log of CommitLog.
Log == INSTANCE CommitLog WITH log <- Replay(IF head = -1 THEN 0 ELSE head)

IsCommitLog == Log!LogSpec

=============================================================================
