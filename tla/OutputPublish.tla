--------------------------- MODULE OutputPublish ---------------------------
(***************************************************************************)
(* Publication of one rendered output (output/markdown or output/epub) and *)
(* the recovery of an interrupted publication, output_publish.py, driven   *)
(* by the commands that call it, cli.py.                                   *)
(*                                                                         *)
(* A step is one change of the run directory: a rename, one write of the   *)
(* transaction marker, one removal.  Between any two of them the process   *)
(* can die (Crash), and inside publish_output an exception or Ctrl-C can   *)
(* divert it into the except clause (Interrupt).  The run lock admits one  *)
(* command at a time, so the control state of that command is the only     *)
(* one there is.                                                           *)
(***************************************************************************)
EXTENDS Integers

CONSTANTS UsesWork,      \* TRUE for epub, which builds in a work directory
          MaxHead,       \* bound: pages ever committed
          MaxCrashes,    \* bound: deaths of the process
          MaxInterrupts, \* bound: exceptions raised inside publish_output
          MaxDamages     \* bound: files damaged from outside the program

ASSUME PublishAssumption ==
  /\ UsesWork \in BOOLEAN
  /\ MaxHead \in Nat /\ MaxCrashes \in Nat
  /\ MaxInterrupts \in Nat /\ MaxDamages \in Nat

VARIABLES
  head,        \* committed_page_count of head.json
  tree,        \* what is at each of the four directories of a transaction
  phase,       \* phase of <command>.transaction.json
  cmd,         \* the command that holds the run lock, and its stage
  pc,          \* the next change that command makes
  kept,        \* page counts of the valid outputs set aside in recovery/
  crashes, interrupts, damages

vars == <<head, tree, phase, cmd, pc, kept, crashes, interrupts, damages>>
counters == <<crashes, interrupts, damages>>

-----------------------------------------------------------------------------
(* A directory is absent, or holds a tree validate_output_tree rejects, or *)
(* a valid one, known by the committed_page_count of its manifest.         *)
Absent  == -2
Invalid == -1
Tree    == Nat \cup {Absent, Invalid}
Place   == {"destination", "candidate", "previous", "work"}
Phase   == {"none", "building", "candidate-valid", "previous-moved",
            "candidate-published", "unreadable"}
Stage   == {"none", "process", "render", "publish"}

\* The points inside the try block of publish_output.
TryPoint == {"build", "validate", "displace", "markMoved", "publish",
             "markPublished", "cleanup"}
Control  == TryPoint \cup
            {"idle", "load", "restore", "dropDestination", "redoMark",
             "redoPublish", "redoPublished", "finish", "scrap", "retire",
             "recovered", "processing", "begin", "beginWork", "beginMark",
             "abort", "done", "failed", "unhandled"}

Exists(p)      == tree[p] # Absent
Valid(p)       == tree[p] \in Nat                   \* no page count expected

\* Fault: the manifest is compared with the page after the head.
ValidPastHead(p) == tree[p] = head + 1

ValidAtHead(p) == tree[p] = head                    \* the head's count expected

Moved(p, q) == [tree EXCEPT ![q] = tree[p], ![p] = Absent]
Without(p)  == [tree EXCEPT ![p] = Absent]

\* Which of destination, candidate and previous there are.
Shape(d, c, p) == /\ Exists("destination") = d
                  /\ Exists("candidate") = c
                  /\ Exists("previous") = p

Init ==
  /\ head = 0
  /\ tree = [p \in Place |-> Absent]
  /\ phase = "none"
  /\ cmd = "none"
  /\ pc = "idle"
  /\ kept = {}
  /\ crashes = 0 /\ interrupts = 0 /\ damages = 0

-----------------------------------------------------------------------------
(* The ways a step changes the run directory.                              *)

\* A rename of p to q, which has to be free.
Rename(p, q, next) ==
  /\ tree' = Moved(p, q)
  /\ pc' = next
  /\ UNCHANGED <<head, phase, cmd, kept, counters>>

\* A rename of p into a fresh recovery/recovery-NNNN.
Quarantine(p, next) ==
  /\ tree' = Without(p)
  /\ kept' = kept \cup ({tree[p]} \cap Nat)
  /\ pc' = next
  /\ UNCHANGED <<head, phase, cmd, counters>>

\* rmtree, which is not atomic: a valid tree first loses some of its files.
Remove(p) ==
  /\ \/ tree' = Without(p)
     \/ Valid(p) /\ tree' = [tree EXCEPT ![p] = Invalid]
  /\ UNCHANGED <<head, phase, cmd, pc, kept, counters>>

\* An atomic replacement, or the removal, of the marker.
Mark(ph, next) ==
  /\ phase' = ph
  /\ pc' = next
  /\ UNCHANGED <<head, tree, cmd, kept, counters>>

Goto(next) ==
  /\ pc' = next
  /\ UNCHANGED <<head, tree, phase, cmd, kept, counters>>

\* Fault: the candidate is copied to the destination, file by file.
CopyCandidate(next) ==
  \/ /\ tree["destination"] = Absent
     /\ tree' = [tree EXCEPT !["destination"] = Invalid]
     /\ UNCHANGED <<head, phase, cmd, pc, kept, counters>>
  \/ Rename("candidate", "destination", next)

\* _publish_candidate: a destination in the way would be deleted first.
PublishCandidate(next) ==
  IF Exists("destination") THEN Remove("destination")
                           ELSE Rename("candidate", "destination", next)

-----------------------------------------------------------------------------
(* Commands.                                                               *)

\* A command takes the run lock and recovers this output first.
Start(c) ==
  /\ pc = "idle"
  /\ pc' = "load"
  /\ cmd' = c
  /\ UNCHANGED <<head, tree, phase, kept, counters>>

\* Recovery returned: process goes on to commit pages, a render goes on to
\* publish_output, which recovers once more before it begins.
Recovered ==
  /\ pc = "recovered"
  /\ pc' = CASE cmd = "process" -> "processing"
             [] cmd = "render"  -> "load"
             [] OTHER           -> "begin"
  /\ cmd' = IF cmd = "render" THEN "publish" ELSE cmd
  /\ UNCHANGED <<head, tree, phase, kept, counters>>

\* process sets a damaged destination aside, then commits pages.
QuarantineInvalidDestination ==
  /\ pc = "processing"
  /\ Exists("destination") /\ ~Valid("destination")
  /\ Quarantine("destination", "processing")

Commit ==
  /\ pc = "processing"
  /\ Exists("destination") => Valid("destination")
  /\ head < MaxHead
  /\ head' = head + 1
  /\ UNCHANGED <<tree, phase, cmd, pc, kept, counters>>

EndProcess == /\ pc = "processing"
              /\ Exists("destination") => Valid("destination")
              /\ Goto("done")

\* A render that fails before publish_output starts (guard, document).
RenderRejected == pc = "load" /\ cmd = "publish" /\ Goto("failed")

\* The command returns, successfully or not, and releases the lock.
Finished ==
  /\ pc \in {"done", "failed", "unhandled"}
  /\ pc' = "idle"
  /\ cmd' = "none"
  /\ UNCHANGED <<head, tree, phase, kept, counters>>

-----------------------------------------------------------------------------
(* Recovery without a marker: _load_transaction_marker, _recover_no_marker.*)

\* A marker that cannot be read is set aside, and recovery goes on without.
UnreadableMarker == pc = "load" /\ phase = "unreadable" /\ Mark("none", "load")

Orphan == {p \in {"candidate", "work"} : Exists(p)}

QuarantineOrphan ==
  /\ pc = "load" /\ phase = "none"
  /\ \E p \in Orphan : Quarantine(p, "load")

RecoverNoMarker ==
  /\ pc = "load" /\ phase = "none" /\ Orphan = {}
  /\ \/ /\ Valid("destination") /\ Exists("previous")
        /\ Quarantine("previous", "recovered")
     \/ /\ Valid("destination") /\ ~Exists("previous")
        /\ Goto("recovered")
     \/ /\ Exists("destination") /\ ~Valid("destination")
        /\ Quarantine("destination",
                      IF Exists("previous") THEN "restore" ELSE "recovered")
     \/ /\ ~Exists("destination")
        /\ Goto(IF Exists("previous") THEN "restore" ELSE "recovered")

-----------------------------------------------------------------------------
(* Recovery by the phase of the marker: _recover_with_marker.              *)

\* Nothing was moved yet: drop the candidate, the work and the marker.
RecoverBuilding ==
  /\ pc = "load" /\ phase = "building"
  /\ IF Exists("candidate") THEN Quarantine("candidate", "retire")
                            ELSE Goto("retire")

Retire ==
  /\ pc = "retire"
  /\ IF Exists("work")
     THEN Remove("work")
     ELSE Mark("none", IF Exists("previous") THEN "failed" ELSE "recovered")

\* Candidate and previous, no destination: the candidate if it is still the
\* output of the head, the previous output if not.
RecoverDisplaced ==
  IF ValidAtHead("candidate") THEN PublishCandidate("finish")
                              ELSE Quarantine("candidate", "restore")

RecoverCandidateValid ==
  /\ pc = "load" /\ phase = "candidate-valid"
  /\ \/ /\ Shape(TRUE, TRUE, FALSE)
        /\ IF ValidAtHead("candidate")
           THEN Rename("destination", "previous", "redoMark")
           ELSE Quarantine("candidate", IF Valid("destination")
                                        THEN "finish" ELSE "dropDestination")
     \/ /\ Shape(TRUE, FALSE, FALSE)
        /\ Goto(IF ValidAtHead("destination") THEN "finish"
                                              ELSE "dropDestination")
     \/ Shape(FALSE, TRUE, TRUE) /\ RecoverDisplaced
     \/ Shape(FALSE, FALSE, TRUE) /\ Goto("restore")
     \/ /\ Shape(FALSE, TRUE, FALSE)
        /\ IF ValidAtHead("candidate") THEN PublishCandidate("finish")
                                       ELSE Quarantine("candidate", "finish")

RecoverPreviousMoved ==
  /\ pc = "load" /\ phase = "previous-moved"
  /\ \/ Shape(FALSE, TRUE, TRUE) /\ RecoverDisplaced
     \/ /\ Shape(TRUE, FALSE, TRUE)
        /\ Goto(IF ValidAtHead("destination") THEN "finish"
                                              ELSE "dropDestination")
     \/ Shape(FALSE, FALSE, TRUE) /\ Goto("restore")

\* Fault: a destination that is there is taken to be the published candidate.
TrustPublished ==
  /\ pc = "load" /\ phase = "candidate-published"
  /\ Goto(IF Exists("destination") THEN "finish" ELSE "scrap")

RecoverCandidatePublished ==
  /\ pc = "load" /\ phase = "candidate-published"
  /\ CASE ValidAtHead("destination") -> Goto("finish")
       [] ~ValidAtHead("destination") /\ Valid("previous") ->
            Quarantine("destination", "restore")
       [] OTHER -> Quarantine("destination", "scrap")

\* The raise at the end of _recover_with_marker: no branch took these shapes,
\* and the marker that led here stays.
UnhandledPhase ==
  /\ pc = "load"
  /\ \/ /\ phase = "candidate-valid"
        /\ \/ Exists("destination") /\ Exists("previous")
           \/ Shape(FALSE, FALSE, FALSE)
     \/ /\ phase = "previous-moved"
        /\ \/ Exists("destination") /\ Exists("candidate")
           \/ ~Exists("previous")
  /\ Goto("unhandled")

-----------------------------------------------------------------------------
(* What the branches above go on with.                                     *)

\* The roll-forward of candidate-valid, as publish_candidate_tree does it.
RedoMark      == pc = "redoMark" /\ Mark("previous-moved", "redoPublish")
RedoPublish   == pc = "redoPublish" /\ PublishCandidate("redoPublished")
RedoPublished == pc = "redoPublished" /\ Mark("candidate-published", "finish")

DropDestination ==
  /\ pc = "dropDestination"
  /\ Quarantine("destination", IF Exists("previous") THEN "restore" ELSE "finish")

\* Fault: the previous output is restored without being validated.
RestoreUnchecked ==
  /\ pc = "restore"
  /\ Rename("previous", "destination",
            IF phase = "none" THEN "recovered" ELSE "finish")

\* _try_restore_valid_previous; without a marker there is nothing to finish.
Restore ==
  /\ pc = "restore"
  /\ LET next == IF phase = "none" THEN "recovered" ELSE "finish"
     IN  CASE Exists("destination") -> Goto("failed")
           [] ~Exists("destination") /\ Valid("previous") ->
                Rename("previous", "destination", next)
           [] OTHER -> Quarantine("previous", next)

\* Fault: the work directory of an epub is not part of what is removed.
FinishKeepsWork ==
  /\ pc = "finish"
  /\ CASE Exists("candidate") -> Remove("candidate")
       [] ~Exists("candidate") /\ Exists("previous") -> Remove("previous")
       [] OTHER -> Mark("none", "recovered")

\* _finish_recovery: work, candidate and previous go, then the marker.
Finish ==
  /\ pc = "finish"
  /\ CASE Exists("work") -> Remove("work")
       [] ~Exists("work") /\ Exists("candidate") -> Remove("candidate")
       [] ~Exists("work") /\ ~Exists("candidate") /\ Exists("previous") ->
            Remove("previous")
       [] OTHER -> Mark("none", "recovered")

\* Neither the destination nor the previous output can be kept.
Scrap ==
  /\ pc = "scrap"
  /\ CASE Exists("previous") -> Quarantine("previous", "scrap")
       [] ~Exists("previous") /\ Exists("candidate") ->
            Quarantine("candidate", "scrap")
       [] ~Exists("previous") /\ ~Exists("candidate") /\ Exists("work") ->
            Remove("work")
       [] OTHER -> Mark("none", "failed")

-----------------------------------------------------------------------------
(* publish_output.                                                         *)

\* begin_output_transaction makes an empty candidate under a fresh name, for
\* epub an empty work directory, and writes the first marker.
Begin ==
  /\ pc = "begin"
  /\ tree' = [tree EXCEPT !["candidate"] = Invalid]
  /\ pc' = IF UsesWork THEN "beginWork" ELSE "beginMark"
  /\ UNCHANGED <<head, phase, cmd, kept, counters>>

BeginWork ==
  /\ pc = "beginWork"
  /\ tree' = [tree EXCEPT !["work"] = Invalid]
  /\ pc' = "beginMark"
  /\ UNCHANGED <<head, phase, cmd, kept, counters>>

BeginMark == pc = "beginMark" /\ Mark("building", "build")

\* The builder fills the candidate; write_output_bundle validates it last.
Build ==
  /\ pc = "build"
  /\ tree' = [tree EXCEPT !["candidate"] = head]
  /\ pc' = "validate"
  /\ UNCHANGED <<head, phase, cmd, kept, counters>>

\* The rest is publish_candidate_tree.
Validate ==
  /\ pc = "validate"
  /\ IF ValidAtHead("candidate") THEN Mark("candidate-valid", "displace")
                                 ELSE Goto("abort")

\* Fault: the destination is deleted to make room for the candidate.
DisplaceByDeleting ==
  /\ pc = "displace"
  /\ IF Exists("destination") THEN Remove("destination") ELSE Goto("publish")

\* Fault: the destination is left for _publish_candidate to delete.
DisplaceNothing == pc = "displace" /\ Goto("publish")

Displace ==
  /\ pc = "displace"
  /\ CASE ~Exists("destination") -> Goto("publish")
       [] Exists("destination") /\ Exists("previous") -> Remove("previous")
       [] OTHER -> Rename("destination", "previous", "markMoved")

MarkMoved     == pc = "markMoved" /\ Mark("previous-moved", "publish")
Publish       == pc = "publish" /\ PublishCandidate("markPublished")
\* Fault: the marker is not moved on once the candidate is in place.
LeaveMoved == pc = "markPublished" /\ Goto("cleanup")

MarkPublished == pc = "markPublished" /\ Mark("candidate-published", "cleanup")

\* Fault: the work directory is forgotten after a successful publication.
CleanupKeepsWork ==
  /\ pc = "cleanup"
  /\ IF Exists("previous") THEN Remove("previous") ELSE Mark("none", "done")

Cleanup ==
  /\ pc = "cleanup"
  /\ CASE Exists("previous") -> Remove("previous")
       [] ~Exists("previous") /\ Exists("work") -> Remove("work")
       [] OTHER -> Mark("none", "done")

\* The except clause of publish_output, which re-raises.
Abort ==
  /\ pc = "abort"
  /\ CASE Exists("candidate") -> Quarantine("candidate", "abort")
       [] ~Exists("candidate") /\ Exists("work") -> Remove("work")
       [] OTHER -> Mark("none", "failed")

-----------------------------------------------------------------------------
(* What happens to the program.                                            *)

\* An exception in the builder or in a call of publish_candidate_tree.
Interrupt ==
  /\ pc \in TryPoint
  /\ interrupts < MaxInterrupts
  /\ interrupts' = interrupts + 1
  /\ pc' = "abort"
  /\ UNCHANGED <<head, tree, phase, cmd, kept, crashes, damages>>

\* The process dies, and the lock with it; the run directory stays as it is.
Crash ==
  /\ pc # "idle"
  /\ crashes < MaxCrashes
  /\ crashes' = crashes + 1
  /\ pc' = "idle"
  /\ cmd' = "none"
  /\ UNCHANGED <<head, tree, phase, kept, interrupts, damages>>

\* Between commands a tree or the marker is damaged (an editor, a lost write).
Damage ==
  /\ pc = "idle"
  /\ damages < MaxDamages
  /\ damages' = damages + 1
  /\ \/ \E p \in Place :
          Valid(p) /\ tree' = [tree EXCEPT ![p] = Invalid] /\ UNCHANGED phase
     \/ phase # "none" /\ phase' = "unreadable" /\ UNCHANGED tree
  /\ UNCHANGED <<head, cmd, pc, kept, crashes, interrupts>>

-----------------------------------------------------------------------------
Recovery ==
  \/ Recovered \/ UnreadableMarker \/ QuarantineOrphan \/ RecoverNoMarker
  \/ RecoverBuilding \/ Retire \/ RecoverCandidateValid
  \/ RecoverPreviousMoved \/ RecoverCandidatePublished \/ UnhandledPhase
  \/ RedoMark \/ RedoPublish \/ RedoPublished \/ DropDestination
  \/ Restore \/ Finish \/ Scrap

PublishOutput ==
  \/ Begin \/ BeginWork \/ BeginMark \/ Build \/ Validate \/ Displace
  \/ MarkMoved \/ Publish \/ MarkPublished \/ Cleanup \/ Abort

Command ==
  \/ QuarantineInvalidDestination \/ Commit \/ EndProcess
  \/ RenderRejected \/ Finished

Program == Recovery \/ PublishOutput \/ Command

Next ==
  \/ \E c \in {"process", "render"} : Start(c)
  \/ Program \/ Interrupt \/ Crash \/ Damage

Spec == Init /\ [][Next]_vars

\* A command that runs goes on until it crashes or ends; the user renders again
\* and again, and the book is not one whose rendering is always rejected.
FairSpec ==
  /\ Spec
  /\ WF_vars(Recovery \/ PublishOutput \/ EndProcess \/ Finished)
  /\ SF_vars(Start("render"))
  /\ SF_vars(cmd = "publish" /\ RecoverNoMarker)

-----------------------------------------------------------------------------
(* Properties.                                                             *)

\* Every variable stays in the set of values the code gives it.
TypeOK ==
  /\ head \in 0..MaxHead
  /\ tree \in [Place -> Tree]
  /\ phase \in Phase
  /\ cmd \in Stage
  /\ pc \in Control
  /\ kept \subseteq Nat
  /\ crashes \in 0..MaxCrashes
  /\ interrupts \in 0..MaxInterrupts
  /\ damages \in 0..MaxDamages

\* Unless it was damaged from outside, the published directory is never seen
\* half written or half removed, at whatever point a command stopped.
DestinationWhole ==
  damages = 0 /\ Exists("destination") => Valid("destination")

\* A render that reports success leaves the output of the committed head at
\* the destination, and nothing of its transaction behind.
SuccessIsCurrent ==
  pc = "done" /\ cmd = "publish" =>
    /\ ValidAtHead("destination")
    /\ phase = "none"
    /\ \A p \in Place \ {"destination"} : ~Exists(p)

\* When recovery returns without an error no trace of an earlier transaction
\* is left for the next one to trip over.
RecoveryLeavesNothing ==
  pc = "recovered" =>
    /\ phase = "none"
    /\ \A p \in Place \ {"destination"} : ~Exists(p)

\* No step of the program deletes a valid output of the reader: what leaves
\* destination or previous is moved to the other, set aside in recovery/, or
\* superseded by a valid destination that is at least as recent.
NothingValidDestroyed ==
  [][pc # "idle" =>
       \A p \in {"destination", "previous"} :
         Valid(p) /\ tree'[p] # tree[p] =>
           \/ tree[p] \in {tree'["destination"], tree'["previous"]} \cup kept'
           \/ tree'["destination"] >= tree[p]]_vars

\* A tree arrives at the destination only whole: as a candidate built for the
\* committed head, or as the output that was there before.
OnlyValidatedArrives ==
  [][tree'["destination"] # tree["destination"] /\ pc # "idle"
       => tree'["destination"] \in {Absent} \cup Nat]_vars

\* After a crash the next command recovers the output: the marker never leads
\* recovery into a shape none of its branches handles.
RecoverySucceeds == pc # "unhandled"

\* A reader finds the output of the whole committed book again and again, if
\* the user goes on rendering: no crash leaves a run that cannot be rendered.
OutputBecomesCurrent == []<>ValidAtHead("destination")

\* What a reader can get back: the destination or, between the two renames that
\* replace it, when nothing is at its place, the output that was set aside.
\* OutputSlot is what publication promises about it.
Visible == IF Valid("destination") THEN tree["destination"]
                                   ELSE tree["previous"]

Slot == INSTANCE OutputSlot WITH Empty <- Absent, visible <- Visible

PublishesAtomically == Slot!SlotSpec

=============================================================================
