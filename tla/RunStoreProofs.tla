--------------------------- MODULE RunStoreProofs ---------------------------
(***************************************************************************)
(* Proofs about RunStore, for any number of processes, pages, crashes and  *)
(* damages.  The inductive invariant IInv adds to the properties what each *)
(* control point of the lock holder knows: what recovery has swept away,   *)
(* what it has validated, and how the state in memory relates to the disk. *)
(***************************************************************************)
EXTENDS RunStore, SequenceTheorems, TLAPS

\* From these points on no commit lies above the head.
SweptPoint == {"check", "recoverCache", "pointers", "recovered", "page",
               "persist", "point", "makeTmp", "fill", "rename", "writeCache"}

\* At these points the state in memory is that of the accepted pages.
LoadedPoint == {"recoverCache", "pointers", "recovered", "page", "persist",
                "point", "writeCache"}

\* At these points it is one page ahead of them.
WritingPoint == {"makeTmp", "fill", "rename", "writeHead"}

IsReplay(s, n) == Len(s) = n /\ \A i \in 1..n : s[i] = commit[i]

LocalInv(p) ==
  /\ pc[p] = "initWrite" => head = -1 /\ made > 0
  /\ pc[p] \in {"sweep", "undo"} \cup SweptPoint \cup WritingPoint => head >= 0
  /\ pc[p] \in SweptPoint => \A i \in Page : i > head => commit[i] = Absent
  /\ pc[p] = "writeHead" => \A i \in Page : i > head + 1 => commit[i] = Absent
  /\ pc[p] \in LoadedPoint => IsReplay(mem[p], head)
  /\ pc[p] \in LoadedPoint \cup WritingPoint =>
       \A i \in 1..head : commit[i] \in Content
  /\ pc[p] \in WritingPoint =>
       /\ Len(mem[p]) = head + 1 /\ head < PageCount
       /\ \A i \in 1..head : mem[p][i] = commit[i]
  /\ pc[p] = "undo" => Len(mem[p]) \in Page
  /\ pc[p] = "rename" => tmp[Len(mem[p])] = mem[p][Len(mem[p])]
  /\ pc[p] = "writeHead" => commit[Len(mem[p])] = mem[p][Len(mem[p])]
  /\ pc[p] \in {"persist", "point"} => head < PageCount
  /\ pc[p] = "persist" => failures[head + 1] < MaxFailures

CacheInv ==
  cache # Absent =>
    /\ cache.count <= head
    /\ Len(cache.state) = cache.count
    /\ damages = 0 /\ cache.count = head => IsReplay(cache.state, head)

HeadMeansComplete == head # -1 => made = InitFiles

LatestNotDangling == \A i \in Page : latest[i] <= failures[i]

DiskInv == HeadMeansComplete /\ AcceptedWhole /\ LatestNotDangling /\ CacheInv

\* The lock keeps every command but its holder out of the run directory.
OnlyOwnerRuns == \A p \in Proc : pc[p] # "idle" => owner = p

IInv == TypeOK /\ OnlyOwnerRuns /\ DiskInv /\ \A p \in Proc : LocalInv(p)

-----------------------------------------------------------------------------
\* A sequence that agrees with the commits page by page is their replay.
LEMMA ReplayLemma ==
  ASSUME NEW s \in Seq(Content), NEW n \in Nat, IsReplay(s, n)
  PROVE  s = Replay(n)
<1>1. s \in [1..Len(s) -> Content]
  BY LenProperties
<1> QED
  BY <1>1 DEF IsReplay, Replay

\* Accepted pages that are all whole have a replay.
LEMMA ReplayType ==
  ASSUME NEW n \in Nat, \A i \in 1..n : commit[i] \in Content
  PROVE  /\ Replay(n) \in Seq(Content) /\ Len(Replay(n)) = n
         /\ \A i \in 1..n : Replay(n)[i] = commit[i]
<1>1. Replay(n) \in [1..n -> Content]
  BY DEF Replay
<1>2. Replay(n) \in Seq(Content) /\ Len(Replay(n)) = n
  BY <1>1 DEF Replay
<1> QED
  BY <1>2 DEF Replay

\* A directory without a run satisfies the invariant.
LEMMA InitLemma == Init => IInv
<1> SUFFICES ASSUME Init PROVE IInv
  OBVIOUS
<1> USE StoreAssumption DEF Init, Page
<1>1. TypeOK
  <2>1. <<>> \in Seq(Content)
    BY EmptySeq
  <2> QED
    BY <2>1 DEF TypeOK, InitFiles, Control, Stage, Committed
<1>2. OnlyOwnerRuns /\ DiskInv
  BY DEF OnlyOwnerRuns, DiskInv, HeadMeansComplete, AcceptedWhole, Accepted,
         LatestNotDangling, CacheInv
<1>3. \A p \in Proc : LocalInv(p)
  BY DEF LocalInv, SweptPoint, LoadedPoint, WritingPoint
<1> QED
  BY <1>1, <1>2, <1>3 DEF IInv

-----------------------------------------------------------------------------
(* What a step of one process leaves alone.                                *)

\* While a process runs a command, all the others are idle.
LEMMA IdleOthers ==
  ASSUME IInv, NEW p \in Proc, pc[p] # "idle"
  PROVE  owner = p /\ \A q \in Proc : q # p => pc[q] = "idle"
BY DEF IInv, OnlyOwnerRuns

\* A step of the lock holder keeps the lock invariant and, if it keeps its own
\* part of the control invariant, all of it.
LEMMA HolderStep ==
  ASSUME IInv, NEW p \in Proc, pc[p] # "idle",
         NEW l \in Control, pc' = [pc EXCEPT ![p] = l],
         l = "idle" \/ owner' = owner,
         LocalInv(p)'
  PROVE  OnlyOwnerRuns' /\ \A q \in Proc : LocalInv(q)'
<1>1. pc'[p] = l /\ \A q \in Proc : q # p => pc'[q] = "idle"
  BY IdleOthers DEF IInv, TypeOK
<1>2. OnlyOwnerRuns'
  BY <1>1, IdleOthers DEF OnlyOwnerRuns
<1>3. ASSUME NEW q \in Proc, q # p PROVE LocalInv(q)'
  BY <1>1, <1>3 DEF LocalInv, SweptPoint, LoadedPoint, WritingPoint
<1> QED
  BY <1>2, <1>3

\* A step that leaves the commits, the cache and the failures alone keeps what
\* is said of them.
LEMMA DiskUnchanged ==
  ASSUME IInv, UNCHANGED <<made, head, commit, cache, failures, latest, damages>>
  PROVE  DiskInv'
BY DEF IInv, DiskInv, HeadMeansComplete, AcceptedWhole, Accepted,
       LatestNotDangling, CacheInv, IsReplay

\* The end of a command, however it comes, keeps the invariant.
LEMMA ExitLemma ==
  ASSUME IInv, NEW p \in Proc, pc[p] # "idle", Exit(p),
         DiskInv', TypeOK'
  PROVE  IInv'
<1>1. LocalInv(p)'
  BY DEF Exit, LocalInv, SweptPoint, LoadedPoint, WritingPoint, IInv, TypeOK
<1>2. OnlyOwnerRuns' /\ \A q \in Proc : LocalInv(q)'
  BY <1>1, HolderStep DEF Exit, Control
<1> QED
  BY <1>2 DEF IInv

\* The end of a command leaves the types of the process state.
LEMMA ExitType ==
  ASSUME TypeOK, NEW p \in Proc, Exit(p)
  PROVE  /\ pc' \in [Proc -> Control] /\ stage' \in [Proc -> Stage]
         /\ mem' \in [Proc -> Seq(Content)] /\ owner' \in Proc \cup {NoOwner}
BY EmptySeq DEF TypeOK, Exit, Control, Stage

\* A refused init changes no file.
LEMMA InitRefusedLemma ==
  ASSUME IInv, NEW p \in Proc, InitRefused(p)
  PROVE  IInv'
<1>1. TypeOK /\ pc[p] # "idle" /\ Exit(p) /\ UNCHANGED <<disk, damages>>
  BY DEF IInv, InitRefused, NoCount
<1>2. TypeOK'
  <2>1. crashes' \in 0..MaxCrashes
    BY <1>1, StoreAssumption DEF InitRefused, NoCount, TypeOK
  <2> QED
    BY <1>1, <2>1, ExitType DEF TypeOK, disk
<1> QED
  BY <1>1, <1>2, ExitLemma, DiskUnchanged DEF disk

\* A command that finds no complete run, or no recovery number, changes no file.
LEMMA OpenRefusedLemma ==
  ASSUME IInv, NEW p \in Proc, OpenRefused(p)
  PROVE  IInv'
<1>1. TypeOK /\ pc[p] # "idle" /\ Exit(p) /\ UNCHANGED <<disk, damages>>
  BY DEF IInv, OpenRefused, NoCount
<1>2. TypeOK'
  <2>1. crashes' \in 0..MaxCrashes
    BY <1>1, StoreAssumption DEF OpenRefused, NoCount, TypeOK
  <2> QED
    BY <1>1, <2>1, ExitType DEF TypeOK, disk
<1> QED
  BY <1>1, <1>2, ExitLemma, DiskUnchanged DEF disk

\* Recovery that finds an invalid commit stops without a change.
LEMMA CheckFailsLemma ==
  ASSUME IInv, NEW p \in Proc, CheckFails(p)
  PROVE  IInv'
<1>1. TypeOK /\ pc[p] # "idle" /\ Exit(p) /\ UNCHANGED <<disk, damages>>
  BY DEF IInv, CheckFails, NoCount
<1>2. TypeOK'
  <2>1. crashes' \in 0..MaxCrashes
    BY <1>1, StoreAssumption DEF CheckFails, NoCount, TypeOK
  <2> QED
    BY <1>1, <2>1, ExitType DEF TypeOK, disk
<1> QED
  BY <1>1, <1>2, ExitLemma, DiskUnchanged DEF disk

\* The page loop ends without a change.
LEMMA EndLoopLemma ==
  ASSUME IInv, NEW p \in Proc, EndLoop(p)
  PROVE  IInv'
<1>1. TypeOK /\ pc[p] # "idle" /\ Exit(p) /\ UNCHANGED <<disk, damages>>
  BY DEF IInv, EndLoop, NoCount
<1>2. TypeOK'
  <2>1. crashes' \in 0..MaxCrashes
    BY <1>1, StoreAssumption DEF EndLoop, NoCount, TypeOK
  <2> QED
    BY <1>1, <2>1, ExitType DEF TypeOK, disk
<1> QED
  BY <1>1, <1>2, ExitLemma, DiskUnchanged DEF disk

\* Death of a process changes no file and releases the lock.
LEMMA CrashLemma ==
  ASSUME IInv, NEW p \in Proc, Crash(p)
  PROVE  IInv'
<1>1. TypeOK /\ pc[p] # "idle" /\ Exit(p) /\ UNCHANGED <<disk, damages>>
  BY DEF IInv, Crash, NoCount
<1>2. TypeOK'
  <2>1. crashes' \in 0..MaxCrashes
    BY <1>1, StoreAssumption DEF Crash, NoCount, TypeOK
  <2> QED
    BY <1>1, <2>1, ExitType DEF TypeOK, disk
<1> QED
  BY <1>1, <1>2, ExitLemma, DiskUnchanged DEF disk

\* The first directory of a run is made while there is no head.
LEMMA InitBeginLemma ==
  ASSUME IInv, NEW p \in Proc, InitBegin(p)
  PROVE  IInv'
<1>1. /\ TypeOK /\ DiskInv /\ LocalInv(p) /\ pc[p] # "idle"
      /\ pc' = [pc EXCEPT ![p] = "initWrite"] /\ pc'[p] = "initWrite"
      /\ owner' = owner
  BY DEF IInv, TypeOK, InitBegin, Goto, Stay, local
<1>2. TypeOK'
  BY <1>1, StoreAssumption
     DEF TypeOK, InitBegin, Goto, Stay, NoCount, disk, local, Control,
         InitFiles
<1>3. DiskInv'
  BY <1>1, StoreAssumption
     DEF InitBegin, NoCount, DiskInv, HeadMeansComplete, AcceptedWhole,
         Accepted, LatestNotDangling, CacheInv, IsReplay,
         TypeOK, LocalInv, SweptPoint, LoadedPoint, WritingPoint, Page
<1>4. LocalInv(p)'
  BY <1>1, StoreAssumption
     DEF LocalInv, IsReplay, TypeOK, InitBegin, Stay, disk, local, SweptPoint,
         LoadedPoint, WritingPoint
<1> QED
  BY <1>1, <1>2, <1>3, <1>4, HolderStep DEF IInv, Control

\* Recovery begins; nothing is known yet of the commits above head.
LEMMA OpenLemma ==
  ASSUME IInv, NEW p \in Proc, Open(p)
  PROVE  IInv'
<1>1. /\ TypeOK /\ DiskInv /\ LocalInv(p) /\ pc[p] # "idle"
      /\ pc' = [pc EXCEPT ![p] = "sweep"] /\ pc'[p] = "sweep"
      /\ owner' = owner
  BY DEF IInv, TypeOK, Open, Goto, Stay, local
<1>2. TypeOK'
  BY <1>1, StoreAssumption
     DEF TypeOK, Open, Goto, Stay, NoCount, disk, local, Control
<1>3. DiskInv'
  BY DiskUnchanged DEF Open, NoCount
<1>4. LocalInv(p)'
  BY <1>1, StoreAssumption
     DEF LocalInv, IsReplay, TypeOK, Open, Stay, disk, local, SweptPoint,
         LoadedPoint, WritingPoint
<1> QED
  BY <1>1, <1>2, <1>3, <1>4, HolderStep DEF IInv, Control

\* Moving a temporary directory aside touches no commit.
LEMMA SweepLeftoverLemma ==
  ASSUME IInv, NEW p \in Proc, SweepLeftover(p)
  PROVE  IInv'
<1>1. /\ TypeOK /\ DiskInv /\ LocalInv(p) /\ pc[p] # "idle"
      /\ pc' = [pc EXCEPT ![p] = "sweep"] /\ pc'[p] = "sweep"
      /\ owner' = owner
  BY DEF IInv, TypeOK, SweepLeftover, Goto, Stay, local
<1>2. TypeOK'
  BY <1>1, StoreAssumption
     DEF TypeOK, SweepLeftover, Goto, Stay, NoCount, disk, local, Control,
         Leftovers, Committed, Page
<1>3. DiskInv'
  BY DiskUnchanged DEF SweepLeftover, NoCount
<1>4. LocalInv(p)'
  BY <1>1, StoreAssumption
     DEF LocalInv, IsReplay, TypeOK, SweepLeftover, Stay, disk, local,
         SweptPoint, LoadedPoint, WritingPoint
<1> QED
  BY <1>1, <1>2, <1>3, <1>4, HolderStep DEF IInv, Control

\* An orphan lies above head: no accepted page is moved.
LEMMA SweepOrphanLemma ==
  ASSUME IInv, NEW p \in Proc, SweepOrphan(p)
  PROVE  IInv'
<1>1. /\ TypeOK /\ DiskInv /\ LocalInv(p) /\ pc[p] # "idle"
      /\ pc' = [pc EXCEPT ![p] = "sweep"] /\ pc'[p] = "sweep"
      /\ owner' = owner
  BY DEF IInv, TypeOK, SweepOrphan, Goto, Stay, local
<1>2. TypeOK'
  BY <1>1, StoreAssumption
     DEF TypeOK, SweepOrphan, Goto, Stay, NoCount, disk, local, Control,
         Orphans, Committed, Page
<1>3. DiskInv'
  <2>1. \A i \in 1..head : commit'[i] = commit[i]
    BY <1>1, StoreAssumption DEF SweepOrphan, Orphans, Accepted, TypeOK, Page
  <2>2. head' = head /\ cache' = cache /\ damages' = damages /\ made' = made
        /\ latest' = latest /\ failures' = failures
    BY DEF SweepOrphan, NoCount
  <2>3. HeadMeansComplete' /\ LatestNotDangling'
    BY <1>1, <2>2 DEF DiskInv, HeadMeansComplete, LatestNotDangling
  <2>4. AcceptedWhole'
    BY <1>1, <2>1, <2>2 DEF DiskInv, AcceptedWhole, Accepted
  <2>5. CacheInv'
    BY <1>1, <2>1, <2>2 DEF DiskInv, CacheInv, IsReplay
  <2> QED
    BY <2>3, <2>4, <2>5 DEF DiskInv
<1>4. LocalInv(p)'
  BY <1>1, StoreAssumption
     DEF LocalInv, IsReplay, TypeOK, SweepOrphan, Stay, disk, local,
         SweptPoint, LoadedPoint, WritingPoint
<1> QED
  BY <1>1, <1>2, <1>3, <1>4, HolderStep DEF IInv, Control

\* With nothing left to sweep, no commit lies above head.
LEMMA SweptLemma ==
  ASSUME IInv, NEW p \in Proc, Swept(p)
  PROVE  IInv'
<1>1. /\ TypeOK /\ DiskInv /\ LocalInv(p) /\ pc[p] # "idle"
      /\ pc' = [pc EXCEPT ![p] = "check"] /\ pc'[p] = "check"
      /\ owner' = owner
  BY DEF IInv, TypeOK, Swept, Goto, Stay, local
<1>2. TypeOK'
  BY <1>1, StoreAssumption
     DEF TypeOK, Swept, Goto, Stay, NoCount, disk, local, Control
<1>3. DiskInv'
  BY DiskUnchanged DEF Swept, NoCount, disk
<1>4. LocalInv(p)'
  <2>1. head >= 0 /\ UNCHANGED <<head, commit>>
    BY <1>1 DEF LocalInv, Swept, disk
  <2>2. \A i \in Page : i > head => commit[i] = Absent
    BY <1>1, <2>1, StoreAssumption DEF Swept, Orphans, Accepted, TypeOK
  <2> QED
    BY <1>1, <2>1, <2>2 DEF LocalInv, SweptPoint, LoadedPoint, WritingPoint
<1> QED
  BY <1>1, <1>2, <1>3, <1>4, HolderStep DEF IInv, Control

\* The replay of validated commits is a state of exactly head pages.
LEMMA CheckPassesLemma ==
  ASSUME IInv, NEW p \in Proc, CheckPasses(p)
  PROVE  IInv'
<1>1. /\ TypeOK /\ LocalInv(p) /\ pc[p] = "check"
      /\ pc' = [pc EXCEPT ![p] = "recoverCache"] /\ pc'[p] = "recoverCache"
      /\ mem' = [mem EXCEPT ![p] = Replay(head)]
      /\ UNCHANGED <<owner, stage, disk, crashes, damages>>
  BY DEF IInv, TypeOK, CheckPasses, Goto, NoCount
<1>2. head \in Nat
  BY <1>1, StoreAssumption DEF LocalInv, SweptPoint, TypeOK
<1>3. \A i \in 1..head : commit[i] \in Content
  BY <1>2 DEF CheckPasses, Accepted
<1>4. Replay(head) \in Seq(Content) /\ IsReplay(Replay(head), head)
  BY <1>2, <1>3, ReplayType DEF IsReplay
<1>5. TypeOK'
  BY <1>1, <1>4 DEF TypeOK, disk, Control
<1>6. mem'[p] = Replay(head) /\ head' = head /\ commit' = commit
  BY <1>1 DEF TypeOK, disk
<1>7. IsReplay(mem[p], head)'
  BY <1>4, <1>6 DEF IsReplay
<1>8. LocalInv(p)'
  BY <1>1, <1>2, <1>3, <1>6, <1>7
     DEF LocalInv, SweptPoint, LoadedPoint, WritingPoint
<1> QED
  BY <1>1, <1>5, <1>8, HolderStep, DiskUnchanged DEF IInv, Control, disk

\* Recovery writes the replay, under the head's page count.
LEMMA RecoverCacheLemma ==
  ASSUME IInv, NEW p \in Proc, RecoverCache(p)
  PROVE  IInv'
<1>1. /\ TypeOK /\ DiskInv /\ LocalInv(p) /\ pc[p] # "idle"
      /\ pc' = [pc EXCEPT ![p] = "pointers"] /\ pc'[p] = "pointers"
      /\ owner' = owner
  BY DEF IInv, TypeOK, RecoverCache, Goto, Stay, local
<1>2. TypeOK'
  BY <1>1, StoreAssumption
     DEF TypeOK, RecoverCache, Goto, Stay, NoCount, disk, local, Control,
         LocalInv, SweptPoint, LoadedPoint, WritingPoint
<1>3. DiskInv'
  BY <1>1, StoreAssumption
     DEF RecoverCache, NoCount, DiskInv, HeadMeansComplete, AcceptedWhole,
         Accepted, LatestNotDangling, CacheInv, IsReplay,
         TypeOK, LocalInv, SweptPoint, LoadedPoint, WritingPoint, Page
<1>4. LocalInv(p)'
  BY <1>1, StoreAssumption
     DEF LocalInv, IsReplay, TypeOK, RecoverCache, Stay, disk, local,
         SweptPoint, LoadedPoint, WritingPoint
<1> QED
  BY <1>1, <1>2, <1>3, <1>4, HolderStep DEF IInv, Control

\* A rebuilt latest.json names the last failure there is.
LEMMA RebuildPointerLemma ==
  ASSUME IInv, NEW p \in Proc, RebuildPointer(p)
  PROVE  IInv'
<1>1. /\ TypeOK /\ DiskInv /\ LocalInv(p) /\ pc[p] # "idle"
      /\ pc' = [pc EXCEPT ![p] = "pointers"] /\ pc'[p] = "pointers"
      /\ owner' = owner
  BY DEF IInv, TypeOK, RebuildPointer, Goto, Stay, local
<1>2. TypeOK'
  BY <1>1, StoreAssumption
     DEF TypeOK, RebuildPointer, Goto, Stay, NoCount, disk, local, Control
<1>3. DiskInv'
  BY <1>1, StoreAssumption
     DEF RebuildPointer, NoCount, DiskInv, HeadMeansComplete, AcceptedWhole,
         Accepted, LatestNotDangling, CacheInv, IsReplay,
         TypeOK, LocalInv, SweptPoint, LoadedPoint, WritingPoint, Page
<1>4. LocalInv(p)'
  BY <1>1, StoreAssumption
     DEF LocalInv, IsReplay, TypeOK, RebuildPointer, Stay, disk, local,
         SweptPoint, LoadedPoint, WritingPoint
<1> QED
  BY <1>1, <1>2, <1>3, <1>4, HolderStep DEF IInv, Control

\* The end of recovery changes no file.
LEMMA PointersRebuiltLemma ==
  ASSUME IInv, NEW p \in Proc, PointersRebuilt(p)
  PROVE  IInv'
<1>1. /\ TypeOK /\ DiskInv /\ LocalInv(p) /\ pc[p] # "idle"
      /\ pc' = [pc EXCEPT ![p] = "recovered"] /\ pc'[p] = "recovered"
      /\ owner' = owner
  BY DEF IInv, TypeOK, PointersRebuilt, Goto, Stay, local
<1>2. TypeOK'
  BY <1>1, StoreAssumption
     DEF TypeOK, PointersRebuilt, Goto, Stay, NoCount, disk, local, Control
<1>3. DiskInv'
  BY DiskUnchanged DEF PointersRebuilt, NoCount, disk
<1>4. LocalInv(p)'
  BY <1>1, StoreAssumption
     DEF LocalInv, IsReplay, TypeOK, PointersRebuilt, Stay, disk, local,
         SweptPoint, LoadedPoint, WritingPoint
<1> QED
  BY <1>1, <1>2, <1>3, <1>4, HolderStep DEF IInv, Control

\* A page that fails leaves the state as it was before the page.
LEMMA PageFailsLemma ==
  ASSUME IInv, NEW p \in Proc, PageFails(p)
  PROVE  IInv'
<1>1. /\ TypeOK /\ DiskInv /\ LocalInv(p) /\ pc[p] # "idle"
      /\ pc' = [pc EXCEPT ![p] = "persist"] /\ pc'[p] = "persist"
      /\ owner' = owner
  BY DEF IInv, TypeOK, PageFails, Goto, Stay, local
<1>2. TypeOK'
  BY <1>1, StoreAssumption
     DEF TypeOK, PageFails, Goto, Stay, NoCount, disk, local, Control
<1>3. DiskInv'
  BY DiskUnchanged DEF PageFails, NoCount, disk
<1>4. LocalInv(p)'
  BY <1>1, StoreAssumption
     DEF LocalInv, IsReplay, TypeOK, PageFails, NextPage, Stay, disk,
         SweptPoint, LoadedPoint, WritingPoint
<1> QED
  BY <1>1, <1>2, <1>3, <1>4, HolderStep DEF IInv, Control

\* The failure directory comes before the pointer to it.
LEMMA PersistFailureLemma ==
  ASSUME IInv, NEW p \in Proc, PersistFailure(p)
  PROVE  IInv'
<1>1. /\ TypeOK /\ DiskInv /\ LocalInv(p) /\ pc[p] # "idle"
      /\ pc' = [pc EXCEPT ![p] = "point"] /\ pc'[p] = "point"
      /\ owner' = owner
  BY DEF IInv, TypeOK, PersistFailure, Goto, Stay, local
<1>2. TypeOK'
  BY <1>1, StoreAssumption
     DEF TypeOK, PersistFailure, Goto, Stay, NoCount, disk, local, Control,
         NextPage, LocalInv, IsReplay, Page, SweptPoint, LoadedPoint,
         WritingPoint
<1>3. DiskInv'
  BY <1>1, StoreAssumption
     DEF PersistFailure, NoCount, DiskInv, HeadMeansComplete, AcceptedWhole,
         Accepted, LatestNotDangling, CacheInv, IsReplay,
         TypeOK, LocalInv, SweptPoint, LoadedPoint, WritingPoint, Page, NextPage
<1>4. LocalInv(p)'
  BY <1>1, StoreAssumption
     DEF LocalInv, IsReplay, TypeOK, PersistFailure, Stay, disk, local,
         SweptPoint, LoadedPoint, WritingPoint
<1> QED
  BY <1>1, <1>2, <1>3, <1>4, HolderStep DEF IInv, Control

\* A temporary directory is no commit.
LEMMA MakeTmpLemma ==
  ASSUME IInv, NEW p \in Proc, MakeTmp(p)
  PROVE  IInv'
<1>1. /\ TypeOK /\ DiskInv /\ LocalInv(p) /\ pc[p] # "idle"
      /\ pc' = [pc EXCEPT ![p] = "fill"] /\ pc'[p] = "fill"
      /\ owner' = owner
  BY DEF IInv, TypeOK, MakeTmp, Goto, Stay, local
<1>2. TypeOK'
  BY <1>1, StoreAssumption
     DEF TypeOK, MakeTmp, Goto, Stay, NoCount, disk, local, Control, Last,
         Committed
<1>3. DiskInv'
  BY DiskUnchanged DEF MakeTmp, NoCount
<1>4. LocalInv(p)'
  BY <1>1, StoreAssumption
     DEF LocalInv, IsReplay, TypeOK, MakeTmp, Stay, disk, local, SweptPoint,
         LoadedPoint, WritingPoint
<1> QED
  BY <1>1, <1>2, <1>3, <1>4, HolderStep DEF IInv, Control

\* write_commit moves head by one page, to a whole commit.
LEMMA WriteHeadStep ==
  ASSUME IInv, NEW p \in Proc, WriteHead(p)
  PROVE  /\ head \in Nat /\ head < PageCount /\ head' = head + 1
         /\ commit' = commit
         /\ \A i \in 1..head + 1 : commit[i] \in Content
<1>1. TypeOK /\ LocalInv(p) /\ pc[p] = "writeHead" /\ commit' = commit
  BY DEF IInv, WriteHead
<1>2. /\ head \in Nat /\ head < PageCount /\ head' = head + 1
      /\ Len(mem[p]) = head + 1
  BY <1>1, StoreAssumption DEF LocalInv, WritingPoint, TypeOK, WriteHead, Last
<1>3. commit[head + 1] \in Content
  BY <1>1, <1>2 DEF LocalInv, TypeOK
<1>4. \A i \in 1..head : commit[i] \in Content
  BY <1>1 DEF LocalInv, WritingPoint
<1>5. ASSUME NEW i \in 1..head + 1 PROVE commit[i] \in Content
  <2>1. i \in 1..head \/ i = head + 1
    BY <1>2
  <2> QED
    BY <2>1, <1>3, <1>4
<1> QED
  BY <1>1, <1>2, <1>5

\* head moves to a page whose commit is in place and whole.
LEMMA WriteHeadLemma ==
  ASSUME IInv, NEW p \in Proc, WriteHead(p)
  PROVE  IInv'
<1>1. /\ TypeOK /\ DiskInv /\ LocalInv(p) /\ pc[p] # "idle"
      /\ pc' = [pc EXCEPT ![p] = "writeCache"] /\ pc'[p] = "writeCache"
      /\ owner' = owner
  BY DEF IInv, TypeOK, WriteHead, Goto, Stay, local
<1>2. TypeOK'
  BY <1>1, StoreAssumption
     DEF TypeOK, WriteHead, Goto, Stay, NoCount, disk, local, Control, Last,
         LocalInv, SweptPoint, LoadedPoint, WritingPoint
<1>3. DiskInv'
  <2>1. /\ head \in Nat /\ head' = head + 1 /\ commit' = commit
        /\ \A i \in 1..head + 1 : commit[i] \in Content
    BY WriteHeadStep
  <2>2. UNCHANGED <<made, cache, failures, latest, damages>>
    BY DEF WriteHead, NoCount
  <2>3. HeadMeansComplete' /\ LatestNotDangling'
    BY <1>1, <2>1, <2>2 DEF DiskInv, HeadMeansComplete, LatestNotDangling
  <2>4. AcceptedWhole'
    BY <2>1 DEF AcceptedWhole, Accepted
  <2>5. CacheInv'
    BY <1>1, <2>1, <2>2 DEF DiskInv, CacheInv, TypeOK
  <2> QED
    BY <2>3, <2>4, <2>5 DEF DiskInv
<1>4. LocalInv(p)'
  BY <1>1, StoreAssumption
     DEF LocalInv, IsReplay, TypeOK, WriteHead, Last, Stay, Page, SweptPoint,
         LoadedPoint, WritingPoint
<1> QED
  BY <1>1, <1>2, <1>3, <1>4, HolderStep DEF IInv, Control

\* The state in memory is now that of the accepted pages.
LEMMA WriteCacheLemma ==
  ASSUME IInv, NEW p \in Proc, WriteCache(p)
  PROVE  IInv'
<1>1. /\ TypeOK /\ DiskInv /\ LocalInv(p) /\ pc[p] # "idle"
      /\ pc' = [pc EXCEPT ![p] = "page"] /\ pc'[p] = "page"
      /\ owner' = owner
  BY DEF IInv, TypeOK, WriteCache, Goto, Stay, local
<1>2. TypeOK'
  BY <1>1, StoreAssumption
     DEF TypeOK, WriteCache, Goto, Stay, NoCount, disk, local, Control, Last,
         LocalInv, IsReplay, SweptPoint, LoadedPoint, WritingPoint
<1>3. DiskInv'
  BY <1>1, StoreAssumption
     DEF WriteCache, NoCount, DiskInv, HeadMeansComplete, AcceptedWhole,
         Accepted, LatestNotDangling, CacheInv, IsReplay,
         TypeOK, LocalInv, SweptPoint, LoadedPoint, WritingPoint, Page, Last
<1>4. LocalInv(p)'
  BY <1>1, StoreAssumption
     DEF LocalInv, IsReplay, TypeOK, WriteCache, Stay, disk, local, SweptPoint,
         LoadedPoint, WritingPoint
<1> QED
  BY <1>1, <1>2, <1>3, <1>4, HolderStep DEF IInv, Control

\* A failing write_commit goes to its except clause.
LEMMA WriteFailsLemma ==
  ASSUME IInv, NEW p \in Proc, WriteFails(p)
  PROVE  IInv'
<1>1. /\ TypeOK /\ DiskInv /\ LocalInv(p) /\ pc[p] # "idle"
      /\ pc' = [pc EXCEPT ![p] = "undo"] /\ pc'[p] = "undo"
      /\ owner' = owner
  BY DEF IInv, TypeOK, WriteFails, Goto, Stay, local
<1>2. TypeOK'
  BY <1>1, StoreAssumption
     DEF TypeOK, WriteFails, Goto, Stay, NoCount, disk, local, Control
<1>3. DiskInv'
  BY DiskUnchanged DEF WriteFails, NoCount, disk
<1>4. LocalInv(p)'
  <2>1. UNCHANGED <<head, mem>>
    BY DEF WriteFails, Stay, disk
  <2>2. head >= 0 /\ Len(mem[p]) = head + 1 /\ head < PageCount
    BY <1>1 DEF WriteFails, LocalInv, WritingPoint
  <2>3. Len(mem[p]) \in Page
    BY <1>1, <2>2, StoreAssumption DEF TypeOK, Page
  <2> QED
    BY <1>1, <2>1, <2>2, <2>3 DEF LocalInv, SweptPoint, LoadedPoint, WritingPoint
<1> QED
  BY <1>1, <1>2, <1>3, <1>4, HolderStep DEF IInv, Control

\* The lock is granted while every process is idle.
LEMMA AcquireLemma ==
  ASSUME IInv, NEW p \in Proc, NEW c \in {"init", "render", "process"},
         Acquire(p, c)
  PROVE  IInv'
<1>1. PICK l \in {"init", "open"} : pc' = [pc EXCEPT ![p] = l]
  BY DEF Acquire
<1>2. \A q \in Proc : pc[q] = "idle"
  BY StoreAssumption DEF Acquire, IInv, OnlyOwnerRuns
<1>3. pc'[p] = l /\ \A q \in Proc : q # p => pc'[q] = "idle"
  BY <1>1, <1>2 DEF IInv, TypeOK
<1>4. TypeOK'
  BY <1>1, StoreAssumption DEF IInv, TypeOK, Acquire, Stage, Control, disk, NoCount
<1>5. OnlyOwnerRuns'
  BY <1>3 DEF OnlyOwnerRuns, Acquire
<1>6. DiskInv'
  BY DiskUnchanged DEF Acquire, NoCount, disk
<1>7. ASSUME NEW q \in Proc PROVE LocalInv(q)'
  BY <1>3 DEF LocalInv, SweptPoint, LoadedPoint, WritingPoint
<1> QED
  BY <1>4, <1>5, <1>6, <1>7 DEF IInv

\* head.json comes after every other file of the run.
LEMMA InitWriteLemma ==
  ASSUME IInv, NEW p \in Proc, InitWrite(p)
  PROVE  IInv'
<1>1. TypeOK /\ DiskInv /\ LocalInv(p) /\ pc[p] = "initWrite"
  BY DEF IInv, InitWrite
<1>2. head = -1 /\ made > 0
  BY <1>1 DEF LocalInv
<1>3. UNCHANGED <<commit, tmp, cache, failures, latest, recoveries,
                 crashes, damages>>
  BY DEF InitWrite, NoCount
<1>4. CASE made < InitFiles
  <2>1. made' = made + 1 /\ UNCHANGED <<head, owner, pc, stage, mem>>
    BY <1>4 DEF InitWrite, local
  <2>2. TypeOK'
    BY <1>1, <1>3, <1>4, <2>1 DEF TypeOK, InitFiles
  <2>3. DiskInv'
    BY <1>1, <1>2, <1>3, <2>1 DEF DiskInv, HeadMeansComplete, AcceptedWhole,
       Accepted, LatestNotDangling, CacheInv, IsReplay
  <2>4. LocalInv(p)'
    BY <1>1, <1>2, <2>1 DEF TypeOK, LocalInv, SweptPoint, LoadedPoint, WritingPoint
  <2>5. pc' = [pc EXCEPT ![p] = "initWrite"]
    BY <1>1, <2>1 DEF TypeOK
  <2> QED
    BY <1>1, <2>1, <2>2, <2>3, <2>4, <2>5, HolderStep DEF IInv, Control
<1>5. CASE made >= InitFiles
  <2>1. made' = made /\ head' = 0 /\ Exit(p) /\ made = InitFiles
    BY <1>1, <1>5 DEF InitWrite, TypeOK, InitFiles
  <2>2. TypeOK'
    BY <1>1, <1>3, <2>1, ExitType, StoreAssumption DEF TypeOK
  <2>3. DiskInv'
    BY <1>1, <1>2, <1>3, <2>1, StoreAssumption DEF TypeOK, DiskInv,
       HeadMeansComplete, AcceptedWhole, Accepted, LatestNotDangling, CacheInv
  <2> QED
    BY <1>1, <2>1, <2>2, <2>3, ExitLemma
<1> QED
  BY <1>1, <1>4, <1>5 DEF TypeOK, InitFiles

\* The loop starts on the cached empty state or on a replay.
LEMMA AfterRecoveryLemma ==
  ASSUME IInv, NEW p \in Proc, AfterRecovery(p)
  PROVE  IInv'
<1>1. TypeOK /\ DiskInv /\ LocalInv(p) /\ pc[p] = "recovered"
  BY DEF IInv, AfterRecovery
<1>2. UNCHANGED <<disk, crashes, damages>>
  BY DEF AfterRecovery, NoCount
<1>3. DiskInv'
  BY <1>2, DiskUnchanged DEF disk
<1>4. CASE stage[p] = "render"
  <2>1. Exit(p)
    BY <1>4 DEF AfterRecovery
  <2>2. TypeOK'
    BY <1>1, <1>2, <2>1, ExitType DEF TypeOK, disk
  <2> QED
    BY <1>1, <1>3, <2>1, <2>2, ExitLemma
<1>5. CASE stage[p] = "process"
  <2>1. /\ stage' = [stage EXCEPT ![p] = "book"]
        /\ pc' = [pc EXCEPT ![p] = "open"] /\ UNCHANGED <<owner, mem>>
    BY <1>5 DEF AfterRecovery, Goto
  <2>2. TypeOK'
    BY <1>1, <1>2, <2>1 DEF TypeOK, disk, Stage, Control
  <2>3. LocalInv(p)'
    BY <1>1, <2>1 DEF TypeOK, LocalInv, SweptPoint, LoadedPoint, WritingPoint
  <2> QED
    BY <1>1, <1>3, <2>1, <2>2, <2>3, HolderStep DEF IInv, Control
<1>6. CASE stage[p] \notin {"render", "process"}
  <2> DEFINE s == IF head = 0 /\ cache # Absent /\ cache.count = 0
                  THEN cache.state ELSE Replay(head)
  <2>1. /\ mem' = [mem EXCEPT ![p] = s]
        /\ pc' = [pc EXCEPT ![p] = "page"] /\ UNCHANGED <<owner, stage>>
    BY <1>6 DEF AfterRecovery, Goto
  <2>2. head \in Nat /\ \A i \in 1..head : commit[i] \in Content
    BY <1>1 DEF LocalInv, TypeOK, LoadedPoint, SweptPoint
  <2>3. s \in Seq(Content) /\ IsReplay(s, head)
    <3>1. CASE head = 0 /\ cache # Absent /\ cache.count = 0
      BY <1>1, <3>1 DEF DiskInv, CacheInv, TypeOK, IsReplay
    <3>2. CASE ~ (head = 0 /\ cache # Absent /\ cache.count = 0)
      BY <2>2, <3>2, ReplayType DEF IsReplay
    <3> QED
      BY <3>1, <3>2
  <2> HIDE DEF s
  <2>4. TypeOK'
    BY <1>1, <1>2, <2>1, <2>3 DEF TypeOK, disk, Control
  <2>5. LocalInv(p)'
    BY <1>1, <1>2, <2>1, <2>2, <2>3
       DEF TypeOK, disk, LocalInv, IsReplay, SweptPoint, LoadedPoint,
           WritingPoint
  <2> QED
    BY <1>1, <1>3, <2>1, <2>4, <2>5, HolderStep DEF IInv, Control
<1> QED
  BY <1>4, <1>5, <1>6

\* The state in memory runs one page ahead of the head.
LEMMA InterpretLemma ==
  ASSUME IInv, NEW p \in Proc, NEW c \in Content, Interpret(p, c)
  PROVE  IInv'
<1>1. /\ TypeOK /\ DiskInv /\ LocalInv(p) /\ pc[p] = "page"
      /\ pc' = [pc EXCEPT ![p] = "makeTmp"] /\ UNCHANGED <<owner, stage>>
      /\ mem' = [mem EXCEPT ![p] = Append(mem[p], c)]
      /\ UNCHANGED <<disk, crashes, damages>>
  BY DEF IInv, Interpret, Goto, NoCount
<1>2. /\ head \in Nat /\ IsReplay(mem[p], head) /\ head < PageCount
      /\ \A i \in 1..head : commit[i] \in Content
  BY <1>1, StoreAssumption
     DEF LocalInv, TypeOK, LoadedPoint, SweptPoint, Interpret, NextPage,
         IsReplay
<1>3. /\ Append(mem[p], c) \in Seq(Content)
      /\ Len(Append(mem[p], c)) = head + 1
      /\ \A i \in 1..head : Append(mem[p], c)[i] = commit[i]
  <2>1. mem[p] \in Seq(Content) /\ Len(mem[p]) = head
    BY <1>1, <1>2 DEF TypeOK, IsReplay
  <2>2. \A i \in 1..head : Append(mem[p], c)[i] = mem[p][i]
    BY <1>2, <2>1, AppendProperties
  <2> QED
    BY <1>2, <2>1, <2>2, AppendProperties DEF IsReplay
<1>4. TypeOK'
  BY <1>1, <1>3 DEF TypeOK, disk, Control
<1>5. LocalInv(p)'
  BY <1>1, <1>2, <1>3
     DEF TypeOK, disk, LocalInv, SweptPoint, LoadedPoint, WritingPoint
<1> QED
  BY <1>1, <1>4, <1>5, HolderStep, DiskUnchanged DEF IInv, Control, disk

\* latest.json is moved to a failure that exists.
LEMMA PointLatestLemma ==
  ASSUME IInv, NEW p \in Proc, PointLatest(p)
  PROVE  IInv'
<1>1. /\ TypeOK /\ DiskInv /\ pc[p] = "point" /\ Exit(p)
      /\ latest' = [latest EXCEPT ![NextPage(p)] = failures[NextPage(p)]]
      /\ UNCHANGED <<made, head, commit, tmp, cache, failures, recoveries,
                     crashes, damages>>
  BY DEF IInv, PointLatest, NoCount
<1>2. NextPage(p) \in Page
  BY <1>1, StoreAssumption
     DEF IInv, TypeOK, LocalInv, NextPage, Page, LoadedPoint, SweptPoint,
         IsReplay
<1>3. TypeOK'
  BY <1>1, <1>2, ExitType DEF TypeOK
<1>4. DiskInv'
  BY <1>1, <1>2 DEF DiskInv, HeadMeansComplete, AcceptedWhole, Accepted,
     LatestNotDangling, CacheInv, IsReplay, TypeOK
<1> QED
  BY <1>1, <1>3, <1>4, ExitLemma

\* The except clause removes the temporary directory only.
LEMMA UndoLemma ==
  ASSUME IInv, NEW p \in Proc, Undo(p)
  PROVE  IInv'
<1>1. /\ TypeOK /\ DiskInv /\ LocalInv(p) /\ pc[p] = "undo" /\ Exit(p)
      /\ tmp' = [tmp EXCEPT ![Last(p)] = Absent]
      /\ UNCHANGED <<made, head, commit, cache, failures, latest, recoveries,
                     crashes, damages>>
  BY DEF IInv, Undo, NoCount
<1>2. TypeOK'
  BY <1>1, ExitType DEF TypeOK, LocalInv, Last
<1>3. DiskInv'
  BY <1>1, DiskUnchanged
<1> QED
  BY <1>1, <1>2, <1>3, ExitLemma

\* The page is the next one, and its directory becomes whole.
LEMMA FillLemma ==
  ASSUME IInv, NEW p \in Proc, Fill(p)
  PROVE  IInv'
<1>1. /\ TypeOK /\ DiskInv /\ LocalInv(p) /\ pc[p] = "fill"
      /\ UNCHANGED <<owner, stage, mem, crashes, damages>>
      /\ UNCHANGED <<made, head, commit, cache, failures, latest, recoveries>>
  BY DEF IInv, Fill, Stay, NoCount
<1>2. Last(p) = head + 1 /\ Last(p) \in Page
  BY <1>1, StoreAssumption DEF LocalInv, Last, Page, SweptPoint,
         WritingPoint, TypeOK
<1>3. /\ pc' = [pc EXCEPT ![p] = "rename"]
      /\ tmp' = [tmp EXCEPT ![Last(p)] = mem[p][Last(p)]]
  BY <1>2 DEF Fill, Goto
<1>4. mem[p][Last(p)] \in Content
  BY <1>1, <1>2 DEF Last, Page, TypeOK
<1>5. TypeOK'
  BY <1>1, <1>2, <1>3, <1>4 DEF TypeOK, Control, Committed
<1>6. DiskInv'
  BY <1>1, DiskUnchanged
<1>7. LocalInv(p)'
  BY <1>1, <1>2, <1>3
     DEF LocalInv, TypeOK, Last, SweptPoint, LoadedPoint, WritingPoint
<1> QED
  BY <1>1, <1>3, <1>5, <1>6, <1>7, HolderStep DEF IInv, Control

\* The final name is free, and the commit lies just above head.
LEMMA RenameLemma ==
  ASSUME IInv, NEW p \in Proc, Rename(p)
  PROVE  IInv'
<1>1. /\ TypeOK /\ DiskInv /\ LocalInv(p) /\ pc[p] = "rename"
      /\ UNCHANGED <<owner, stage, mem, crashes, damages>>
      /\ UNCHANGED <<made, head, cache, failures, latest, recoveries>>
  BY DEF IInv, Rename, Stay, NoCount
<1>2. /\ Last(p) = head + 1 /\ Last(p) \in Page /\ head \in Nat
      /\ commit[Last(p)] = Absent
  BY <1>1, StoreAssumption DEF LocalInv, Last, Page, SweptPoint,
         WritingPoint, TypeOK
<1>3. /\ pc' = [pc EXCEPT ![p] = "writeHead"]
      /\ commit' = [commit EXCEPT ![Last(p)] = tmp[Last(p)]]
      /\ tmp' = [tmp EXCEPT ![Last(p)] = Absent]
  BY <1>2 DEF Rename, Goto
<1>4. TypeOK'
  BY <1>1, <1>2, <1>3 DEF TypeOK, Control
<1>5. \A i \in 1..head : commit'[i] = commit[i]
  BY <1>1, <1>2, <1>3 DEF TypeOK
<1>6. DiskInv'
  <2>1. HeadMeansComplete' /\ LatestNotDangling'
    BY <1>1 DEF DiskInv, HeadMeansComplete, LatestNotDangling
  <2>2. AcceptedWhole'
    BY <1>1, <1>2, <1>5 DEF DiskInv, AcceptedWhole, Accepted
  <2>3. CacheInv'
    BY <1>1, <1>5 DEF DiskInv, CacheInv, IsReplay
  <2> QED
    BY <2>1, <2>2, <2>3 DEF DiskInv
<1>7. LocalInv(p)'
  <2>1. pc'[p] = "writeHead"
    BY <1>1, <1>3 DEF TypeOK
  <2>2. \A i \in Page : i > head + 1 => commit'[i] = Absent
    BY <1>1, <1>2, <1>3 DEF LocalInv, SweptPoint, Page, TypeOK
  <2>3. commit'[Last(p)] = mem[p][Last(p)]
    BY <1>1, <1>2, <1>3 DEF LocalInv, Last, TypeOK
  <2>4. /\ \A i \in 1..head : commit'[i] \in Content
        /\ Len(mem[p]) = head + 1 /\ head < PageCount
        /\ \A i \in 1..head : mem[p][i] = commit'[i]
    BY <1>1, <1>5 DEF LocalInv, WritingPoint
  <2> QED
    BY <1>1, <1>2, <2>1, <2>2, <2>3, <2>4
       DEF LocalInv, Last, SweptPoint, LoadedPoint, WritingPoint
<1> QED
  BY <1>1, <1>3, <1>4, <1>6, <1>7, HolderStep DEF IInv, Control

\* Damage comes while every process is idle, so that it costs the validity of
\* a commit only where nobody relies on it.
LEMMA DamageLemma ==
  ASSUME IInv, Damage
  PROVE  IInv'
<1>1. TypeOK /\ DiskInv /\ OnlyOwnerRuns /\ UNCHANGED <<made, head, tmp, cache,
        failures, latest, recoveries, owner, pc, stage, mem, crashes>>
  BY DEF IInv, Damage, local
<1>2. damages' = damages + 1 /\ damages' \in 0..MaxDamages /\ damages' # 0
  BY <1>1, StoreAssumption DEF Damage, TypeOK
<1>3. PICK i \in Page : commit' = [commit EXCEPT ![i] = Partial]
  BY DEF Damage
<1>4. TypeOK'
  BY <1>1, <1>2, <1>3 DEF TypeOK, Committed
<1>5. \A q \in Proc : pc[q] = "idle"
  BY <1>1, StoreAssumption DEF Damage, OnlyOwnerRuns
<1>6. OnlyOwnerRuns' /\ DiskInv'
  BY <1>1, <1>2 DEF OnlyOwnerRuns, DiskInv, HeadMeansComplete, AcceptedWhole,
     LatestNotDangling, CacheInv
<1>7. ASSUME NEW q \in Proc PROVE LocalInv(q)'
  BY <1>1, <1>5 DEF LocalInv, SweptPoint, LoadedPoint, WritingPoint
<1> QED
  BY <1>4, <1>6, <1>7 DEF IInv

-----------------------------------------------------------------------------
\* Every step keeps the inductive invariant.
LEMMA StepLemma == IInv /\ [Next]_vars => IInv'
<1> SUFFICES ASSUME IInv, [Next]_vars PROVE IInv'
  OBVIOUS
<1>1. ASSUME NEW p \in Proc, InitRun(p) PROVE IInv'
  BY <1>1, InitRefusedLemma, InitBeginLemma, InitWriteLemma DEF InitRun
<1>2. ASSUME NEW p \in Proc, Recover(p) PROVE IInv'
  BY <1>2, OpenRefusedLemma, OpenLemma, SweepLeftoverLemma, SweepOrphanLemma,
     SweptLemma, CheckFailsLemma, CheckPassesLemma, RecoverCacheLemma,
     RebuildPointerLemma, PointersRebuiltLemma, AfterRecoveryLemma DEF Recover
<1>3. ASSUME NEW p \in Proc, WriteCommit(p) PROVE IInv'
  BY <1>3, MakeTmpLemma, FillLemma, RenameLemma, WriteHeadLemma,
     WriteCacheLemma, UndoLemma DEF WriteCommit
<1>4. ASSUME NEW p \in Proc, Failing(p) PROVE IInv'
  BY <1>4, PageFailsLemma, PersistFailureLemma, PointLatestLemma DEF Failing
<1>5. ASSUME NEW p \in Proc, Command(p) PROVE IInv'
  BY <1>1, <1>2, <1>3, <1>4, <1>5, EndLoopLemma, InterpretLemma DEF Command
<1>6. CASE UNCHANGED vars
  <2>1. UNCHANGED <<disk, local, crashes, damages>>
    BY <1>6 DEF vars
  <2>2. DiskInv'
    BY <2>1, DiskUnchanged DEF disk
  <2>3. TypeOK' /\ OnlyOwnerRuns'
    BY <2>1 DEF IInv, TypeOK, OnlyOwnerRuns, disk, local
  <2>4. ASSUME NEW p \in Proc PROVE LocalInv(p)'
    BY <2>1 DEF IInv, LocalInv, IsReplay, disk, local
  <2> QED
    BY <2>2, <2>3, <2>4 DEF IInv
<1> QED
  BY <1>5, <1>6, AcquireLemma, WriteFailsLemma, CrashLemma, DamageLemma DEF Next

\* The inductive invariant holds in every reachable state.
THEOREM Invariance == Spec => []IInv
BY InitLemma, StepLemma, PTL DEF Spec

-----------------------------------------------------------------------------
\* Every variable keeps its type (TypeOK).
THEOREM TypeCorrect == Spec => []TypeOK
<1>1. IInv => TypeOK
  BY DEF IInv
<1> QED
  BY <1>1, Invariance, PTL

\* Accepted pages stay whole through any crash or failed write (AcceptedWhole).
THEOREM AcceptedPagesWhole == Spec => []AcceptedWhole
<1>1. IInv => AcceptedWhole
  BY DEF IInv, DiskInv
<1> QED
  BY <1>1, Invariance, PTL

\* head.json is there only in a complete run, latest.json names only failures
\* that are there (PointersHold).
THEOREM PointersCorrect == Spec => []PointersHold
<1>1. IInv => PointersHold
  BY DEF IInv, DiskInv, HeadMeansComplete, LatestNotDangling, PointersHold
<1> QED
  BY <1>1, Invariance, PTL

\* A state cache that claims to be current is the replay of the accepted pages
\* (CacheIsReplay).
THEOREM CacheCorrect == Spec => []CacheIsReplay
<1>1. IInv => CacheIsReplay
  <2> SUFFICES ASSUME IInv, damages = 0, cache # Absent, cache.count = head
               PROVE  cache.state = Replay(head)
    BY DEF CacheIsReplay
  <2>1. IsReplay(cache.state, head) /\ cache.state \in Seq(Content) /\ head \in Nat
    BY StoreAssumption DEF IInv, DiskInv, CacheInv, TypeOK
  <2> QED
    BY <2>1, ReplayLemma
<1> QED
  BY <1>1, Invariance, PTL

\* The loop of process_book interprets every page on the state of exactly the
\* pages accepted on disk, and those are whole (MemoryIsReplay).
THEOREM MemoryCorrect == Spec => []MemoryIsReplay
<1>1. IInv => MemoryIsReplay
  <2> SUFFICES ASSUME IInv, NEW p \in Proc, pc[p] \in {"page", "writeCache"}
               PROVE  /\ mem[p] = Replay(head)
                      /\ \A i \in Accepted : commit[i] \in Content
    BY DEF MemoryIsReplay
  <2>1. /\ IsReplay(mem[p], head) /\ mem[p] \in Seq(Content) /\ head \in Nat
        /\ \A i \in 1..head : commit[i] \in Content
    BY StoreAssumption DEF IInv, LocalInv, TypeOK, LoadedPoint, SweptPoint
  <2> QED
    BY <2>1, ReplayLemma DEF Accepted
<1> QED
  BY <1>1, Invariance, PTL

\* write_commit never meets a page out of turn or a commit directory already in
\* place (NextSlotFree).
THEOREM SlotFree == Spec => []NextSlotFree
<1>1. IInv => NextSlotFree
  <2> SUFFICES ASSUME IInv, NEW p \in Proc, pc[p] \in {"makeTmp", "fill", "rename"}
               PROVE  Last(p) = head + 1 /\ commit[Last(p)] = Absent
    BY DEF NextSlotFree
  <2>1. TypeOK /\ LocalInv(p)
    BY DEF IInv
  <2>2. Last(p) = head + 1 /\ head < PageCount /\ head >= 0
    BY <2>1 DEF LocalInv, WritingPoint, SweptPoint, Last
  <2>3. Last(p) \in Page /\ Last(p) > head
    BY <2>1, <2>2, StoreAssumption DEF TypeOK, Page
  <2> QED
    BY <2>1, <2>2, <2>3 DEF LocalInv, SweptPoint
<1> QED
  BY <1>1, Invariance, PTL

-----------------------------------------------------------------------------
(* The accepted pages as a log.                                            *)

\* What a step can do to the accepted pages: nothing, create the head of a run,
\* accept one page more, or, from outside, damage a commit.
LEMMA StepKinds ==
  ASSUME IInv, [Next]_vars
  PROVE  \/ head' = head /\ \A i \in Accepted : commit'[i] = commit[i]
         \/ head = -1 /\ head' = 0
         \/ \E p \in Proc : WriteHead(p)
         \/ Damage
<1> DEFINE Kept == head' = head /\ \A i \in Accepted : commit'[i] = commit[i]
<1>1. ASSUME NEW p \in Proc, SweepOrphan(p) PROVE Kept
  <2>1. PICK i \in Orphans : commit' = [commit EXCEPT ![i] = Absent]
    BY <1>1 DEF SweepOrphan
  <2>2. i \notin Accepted
    BY DEF Orphans
  <2> QED
    BY <1>1, <2>1, <2>2, StoreAssumption
       DEF SweepOrphan, IInv, TypeOK, Accepted, Page
<1>2. ASSUME NEW p \in Proc, Rename(p) PROVE Kept
  <2>1. /\ Last(p) = head + 1 /\ head \in Nat /\ head <= PageCount
        /\ commit \in [Page -> Committed \cup {Absent}]
    BY <1>2, StoreAssumption
       DEF IInv, Rename, LocalInv, TypeOK, Last, WritingPoint, SweptPoint
  <2>2. /\ head' = head
        /\ \/ commit' = commit
           \/ commit' = [commit EXCEPT ![Last(p)] = tmp[Last(p)]]
    BY <1>2 DEF Rename
  <2>3. \A i \in Accepted : i \in Page /\ i # Last(p)
    BY <2>1, StoreAssumption DEF Accepted, Page
  <2> QED
    BY <2>1, <2>2, <2>3
<1>3. ASSUME NEW p \in Proc, InitRun(p) PROVE Kept \/ (head = -1 /\ head' = 0)
  BY <1>3 DEF InitRun, InitRefused, InitBegin, InitWrite, IInv, LocalInv, disk
<1>4. ASSUME NEW p \in Proc, Recover(p) PROVE Kept
  BY <1>1, <1>4 DEF Recover, OpenRefused, Open, SweepLeftover, Swept, CheckFails,
     CheckPasses, RecoverCache, RebuildPointer, PointersRebuilt, AfterRecovery, disk
<1>5. ASSUME NEW p \in Proc, WriteCommit(p) PROVE Kept \/ WriteHead(p)
  BY <1>2, <1>5 DEF WriteCommit, MakeTmp, Fill, WriteCache, Undo
<1>6. ASSUME NEW p \in Proc, Failing(p) PROVE Kept
  BY <1>6 DEF Failing, PageFails, PersistFailure, PointLatest, disk
<1>7. ASSUME NEW p \in Proc,
             \/ EndLoop(p) \/ WriteFails(p) \/ Crash(p)
             \/ \E c \in Content : Interpret(p, c)
             \/ \E c \in {"init", "render", "process"} : Acquire(p, c)
      PROVE  Kept
  BY <1>7 DEF EndLoop, Interpret, WriteFails, Crash, Acquire, disk
<1>8. CASE UNCHANGED vars
  BY <1>8 DEF vars, disk
<1> HIDE DEF Kept
<1>9. ASSUME Next
      PROVE  \/ Kept \/ (head = -1 /\ head' = 0)
             \/ (\E p \in Proc : WriteHead(p)) \/ Damage
  BY <1>3, <1>4, <1>5, <1>6, <1>7, <1>9 DEF Next, Command
<1> QED
  BY <1>8, <1>9 DEF Kept

\* No step of the program replaces, removes or forgets an accepted page
\* (AcceptedKept).
THEOREM AcceptedPagesKept == Spec => AcceptedKept
<1> DEFINE Kept == owner # NoOwner => /\ head' >= head
                                      /\ \A i \in Accepted : commit'[i] = commit[i]
<1>1. IInv /\ [Next]_vars => Kept
  <2> SUFFICES ASSUME IInv, [Next]_vars, owner # NoOwner
               PROVE  head' >= head /\ \A i \in Accepted : commit'[i] = commit[i]
    OBVIOUS
  <2>1. head \in Int
    BY StoreAssumption DEF IInv, TypeOK
  <2>2. ~ Damage
    BY DEF Damage
  <2>3. CASE head' = head /\ \A i \in Accepted : commit'[i] = commit[i]
    BY <2>1, <2>3
  <2>4. CASE head = -1 /\ head' = 0
    BY <2>4 DEF Accepted
  <2>5. ASSUME NEW p \in Proc, WriteHead(p)
        PROVE  head' >= head /\ \A i \in Accepted : commit'[i] = commit[i]
    BY <2>1, <2>5, WriteHeadStep
  <2> QED
    BY <2>2, <2>3, <2>4, <2>5, StepKinds
<1> QED
  BY <1>1, Invariance, PTL DEF Spec, AcceptedKept

\* Where no commit is damaged from outside, the run directory implements the
\* append-only log of CommitLog through every crash (IsCommitLog).
THEOREM CommitLogImplemented ==
  ASSUME MaxDamages = 0
  PROVE  Spec => IsCommitLog
<1> DEFINE log == Replay(IF head = -1 THEN 0 ELSE head)
<1>1. Init => log = <<>>
  BY DEF Init, Replay
<1>2. IInv /\ [Next]_vars => [Log!LogNext]_log
  <2> SUFFICES ASSUME IInv, [Next]_vars PROVE [Log!LogNext]_log
    OBVIOUS
  <2>1. head \in -1..PageCount
    BY DEF IInv, TypeOK
  <2>2. ~ Damage
    BY StoreAssumption DEF Damage, IInv, TypeOK
  <2>3. CASE head' = head /\ \A i \in Accepted : commit'[i] = commit[i]
    <3>1. CASE head = -1
      BY <2>3, <3>1 DEF Replay
    <3>2. CASE head # -1
      BY <2>3, <3>2 DEF Replay, Accepted
    <3> QED
      BY <3>1, <3>2
  <2>4. CASE head = -1 /\ head' = 0
    BY <2>4 DEF Replay
  <2>5. ASSUME NEW p \in Proc, WriteHead(p) PROVE Log!LogNext
    <3>1. /\ head \in Nat /\ head < PageCount /\ head' = head + 1
          /\ commit' = commit /\ \A i \in 1..head + 1 : commit[i] \in Content
      BY <2>5, WriteHeadStep
    <3>2. log = Replay(head) /\ log' = [i \in 1..head + 1 |-> commit[i]]
      BY <3>1 DEF Replay
    <3>3. log \in Seq(Content) /\ Len(log) = head
      BY <3>1, <3>2, ReplayType
    <3>4. log' = Append(log, commit[head + 1])
      <4>1. log' \in Seq(Content) /\ Len(log') = head + 1
        BY <3>1, <3>2
      <4>2. ASSUME NEW i \in 1..head + 1
            PROVE  log'[i] = Append(log, commit[head + 1])[i]
        BY <3>1, <3>2, <3>3, AppendProperties, ReplayType
      <4> QED
        BY <3>1, <3>3, <4>1, <4>2, AppendProperties, SeqEqual
    <3>5. commit[head + 1] \in Content
      BY <3>1
    <3> QED
      BY <3>1, <3>3, <3>4, <3>5 DEF Log!LogNext, Log!AppendPage
  <2> QED
    BY <2>2, <2>3, <2>4, <2>5, StepKinds
<1> QED
  BY <1>1, <1>2, Invariance, PTL
     DEF Spec, IsCommitLog, Log!LogSpec, Log!LogInit

=============================================================================
