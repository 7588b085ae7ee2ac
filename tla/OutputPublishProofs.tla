------------------------- MODULE OutputPublishProofs -------------------------
(***************************************************************************)
(* Theorems about OutputPublish, for any number of pages, deaths,          *)
(* exceptions and damages.  A publication and its recovery share the four  *)
(* directories, so the invariant is what each point of either knows of     *)
(* them.  What the marker stands for is needed at the end only: for the    *)
(* refinement, which holds where the program meets no fault but its death, *)
(* and for recovery after one death.                                       *)
(***************************************************************************)
EXTENDS OutputPublish, TLAPS

\* Points where the destination has been moved out of the way.
FreePoint == {"publish", "redoPublish", "restore", "markMoved", "redoMark"}

\* Points where the candidate has been found to be the output of the head.
ReadyPoint == {"displace", "markMoved", "publish", "redoMark", "redoPublish"}

\* Points where it has arrived.
ArrivedPoint == {"markPublished", "cleanup", "redoPublished"}

\* Points of a publication before anything has been moved.
FreshPoint == {"begin", "beginWork", "beginMark", "build", "validate", "displace"}

CommandInv ==
  /\ pc # "idle" => cmd # "none"
  /\ pc \in FreshPoint \cup TryPoint \cup {"abort"} => cmd = "publish"
  /\ pc = "processing" => cmd = "process"

\* No output is ahead of the book.
Bounded == \A p \in Place : tree[p] <= head

PlacesInv ==
  /\ pc \in FreePoint => ~Exists("destination")
  /\ pc \in ReadyPoint => tree["candidate"] = head
  /\ pc \in ArrivedPoint => tree["destination"] = head /\ ~Exists("candidate")
  /\ pc \in FreshPoint => ~Exists("previous")
  /\ pc = "finish" => tree["destination"] = head \/ ~Exists("previous")
  /\ pc = "restore" /\ phase = "none" => ~Exists("candidate") /\ ~Exists("work")
  /\ pc = "dropDestination" => phase # "none"
  /\ pc = "retire" => ~Exists("candidate")

IInv ==
  /\ TypeOK /\ CommandInv /\ Bounded /\ PlacesInv
  /\ SuccessIsCurrent /\ RecoveryLeavesNothing /\ DestinationWhole

\* _publish_candidate and _try_restore_valid_previous never find a destination
\* in their way, whatever the phases and moves that led there: the code that
\* would delete it in place, or raise, is not what they rely on.
DestinationFree ==
  pc \in {"publish", "redoPublish", "restore"} => ~Exists("destination")

\* What OnlyValidatedArrives and NothingValidDestroyed say of one step.
Arrival ==
  tree'["destination"] # tree["destination"] /\ pc # "idle"
    => tree'["destination"] \in {Absent} \cup Nat

NoLoss ==
  pc # "idle" =>
    \A p \in {"destination", "previous"} :
      Valid(p) /\ tree'[p] # tree[p] =>
        \/ tree[p] \in {tree'["destination"], tree'["previous"]} \cup kept'
        \/ tree'["destination"] >= tree[p]

-------------------------------------------------------------------------------
LEMMA InitLemma == Init => IInv
<1> SUFFICES ASSUME Init PROVE IInv
    OBVIOUS
<1> USE DEF Init
<1>1. TypeOK
    BY PublishAssumption DEF TypeOK, Place, Tree, Control, TryPoint, Stage,
       Phase, Absent
<1>2. CommandInv /\ Bounded /\ PlacesInv
    BY DEF CommandInv, Bounded, PlacesInv, FreshPoint, TryPoint, FreePoint,
       ReadyPoint, ArrivedPoint, Absent
<1>3. SuccessIsCurrent /\ RecoveryLeavesNothing /\ DestinationWhole
    BY DEF SuccessIsCurrent, RecoveryLeavesNothing, DestinationWhole, Exists, Place
<1> QED
    BY <1>1, <1>2, <1>3 DEF IInv

LEMMA StartLemma ==
    ASSUME IInv, NEW c \in {"process", "render"}, Start(c)
    PROVE  IInv' /\ Arrival /\ NoLoss
<1> USE DEF Start, counters, Exists, Valid, ValidAtHead
<1>1. TypeOK'
    BY PublishAssumption DEF IInv, TypeOK, Place, Tree, Control, TryPoint, Stage,
       Phase, Absent, Invalid
<1>2. CommandInv'
    BY DEF IInv, TypeOK, CommandInv, Stage, FreshPoint, TryPoint
<1>3. Bounded'
    BY PublishAssumption DEF IInv, TypeOK, Bounded, Place, Tree, Absent, Invalid
<1>4. PlacesInv'
    BY DEF IInv, TypeOK, PlacesInv, RecoveryLeavesNothing, FreePoint, ReadyPoint,
       ArrivedPoint, FreshPoint, Place, Absent, Invalid
<1>5. SuccessIsCurrent' /\ RecoveryLeavesNothing'
    BY DEF IInv, TypeOK, CommandInv, PlacesInv, SuccessIsCurrent,
       RecoveryLeavesNothing, FreshPoint, ArrivedPoint, Place, Absent
<1>6. DestinationWhole'
    BY DEF IInv, TypeOK, PlacesInv, DestinationWhole, FreePoint, ReadyPoint,
       ArrivedPoint, Place, Absent
<1>7. Arrival /\ NoLoss
    BY DEF IInv, TypeOK, Bounded, PlacesInv, Arrival, NoLoss, FreePoint,
       ReadyPoint, ArrivedPoint, FreshPoint, Place, Tree, Absent, Invalid
<1> QED
    BY <1>1, <1>2, <1>3, <1>4, <1>5, <1>6, <1>7 DEF IInv

-------------------------------------------------------------------------------
(* The steps of recovery.                                                    *)

LEMMA RecoveredLemma ==
    ASSUME IInv, Recovered
    PROVE  IInv' /\ Arrival /\ NoLoss
<1> USE DEF Recovered, counters, Exists, Valid, ValidAtHead
<1>1. TypeOK'
    BY PublishAssumption DEF IInv, TypeOK, Place, Tree, Control, TryPoint, Stage,
       Phase, Absent, Invalid
<1>2. CommandInv'
    BY DEF IInv, TypeOK, CommandInv, Stage, FreshPoint, TryPoint
<1>3. Bounded'
    BY PublishAssumption DEF IInv, TypeOK, Bounded, Place, Tree, Absent, Invalid
<1>4. PlacesInv'
    BY DEF IInv, TypeOK, PlacesInv, RecoveryLeavesNothing, FreePoint, ReadyPoint,
       ArrivedPoint, FreshPoint, Place, Absent, Invalid
<1>5. SuccessIsCurrent' /\ RecoveryLeavesNothing'
    BY DEF IInv, TypeOK, CommandInv, PlacesInv, SuccessIsCurrent,
       RecoveryLeavesNothing, FreshPoint, ArrivedPoint, Place, Absent
<1>6. DestinationWhole'
    BY DEF IInv, TypeOK, PlacesInv, DestinationWhole, FreePoint, ReadyPoint,
       ArrivedPoint, Place, Absent
<1>7. Arrival /\ NoLoss
    BY DEF IInv, TypeOK, Bounded, PlacesInv, Arrival, NoLoss, FreePoint,
       ReadyPoint, ArrivedPoint, FreshPoint, Place, Tree, Absent, Invalid
<1> QED
    BY <1>1, <1>2, <1>3, <1>4, <1>5, <1>6, <1>7 DEF IInv

LEMMA UnreadableMarkerLemma ==
    ASSUME IInv, UnreadableMarker
    PROVE  IInv' /\ Arrival /\ NoLoss
<1> USE DEF UnreadableMarker, counters, Mark, Exists, Valid, ValidAtHead
<1>1. TypeOK'
    BY PublishAssumption DEF IInv, TypeOK, Place, Tree, Control, TryPoint, Stage,
       Phase, Absent, Invalid
<1>2. CommandInv'
    BY DEF IInv, TypeOK, CommandInv, Stage, FreshPoint, TryPoint
<1>3. Bounded'
    BY PublishAssumption DEF IInv, TypeOK, Bounded, Place, Tree, Absent, Invalid
<1>4. PlacesInv'
    BY DEF IInv, TypeOK, PlacesInv, RecoveryLeavesNothing, FreePoint, ReadyPoint,
       ArrivedPoint, FreshPoint, Place, Absent, Invalid
<1>5. SuccessIsCurrent' /\ RecoveryLeavesNothing'
    BY DEF IInv, TypeOK, CommandInv, PlacesInv, SuccessIsCurrent,
       RecoveryLeavesNothing, FreshPoint, ArrivedPoint, Place, Absent
<1>6. DestinationWhole'
    BY DEF IInv, TypeOK, PlacesInv, DestinationWhole, FreePoint, ReadyPoint,
       ArrivedPoint, Place, Absent
<1>7. Arrival /\ NoLoss
    BY DEF IInv, TypeOK, Bounded, PlacesInv, Arrival, NoLoss, FreePoint,
       ReadyPoint, ArrivedPoint, FreshPoint, Place, Tree, Absent, Invalid
<1> QED
    BY <1>1, <1>2, <1>3, <1>4, <1>5, <1>6, <1>7 DEF IInv

LEMMA QuarantineOrphanLemma ==
    ASSUME IInv, QuarantineOrphan
    PROVE  IInv' /\ Arrival /\ NoLoss
<1> USE DEF QuarantineOrphan, counters, Orphan, Quarantine, Without, Exists,
        Valid, ValidAtHead
<1>1. TypeOK'
    BY PublishAssumption DEF IInv, TypeOK, Place, Tree, Control, TryPoint, Stage,
       Phase, Absent, Invalid
<1>2. CommandInv'
    BY DEF IInv, TypeOK, CommandInv, Stage, FreshPoint, TryPoint
<1>3. Bounded'
    BY PublishAssumption DEF IInv, TypeOK, Bounded, Place, Tree, Absent, Invalid
<1>4. PlacesInv'
    BY DEF IInv, TypeOK, PlacesInv, RecoveryLeavesNothing, FreePoint, ReadyPoint,
       ArrivedPoint, FreshPoint, Place, Absent, Invalid
<1>5. SuccessIsCurrent' /\ RecoveryLeavesNothing'
    BY DEF IInv, TypeOK, CommandInv, PlacesInv, SuccessIsCurrent,
       RecoveryLeavesNothing, FreshPoint, ArrivedPoint, Place, Absent
<1>6. DestinationWhole'
    BY DEF IInv, TypeOK, PlacesInv, DestinationWhole, FreePoint, ReadyPoint,
       ArrivedPoint, Place, Absent
<1>7. Arrival /\ NoLoss
    BY DEF IInv, TypeOK, Bounded, PlacesInv, Arrival, NoLoss, FreePoint,
       ReadyPoint, ArrivedPoint, FreshPoint, Place, Tree, Absent, Invalid
<1> QED
    BY <1>1, <1>2, <1>3, <1>4, <1>5, <1>6, <1>7 DEF IInv

LEMMA RecoverNoMarkerLemma ==
    ASSUME IInv, RecoverNoMarker
    PROVE  IInv' /\ Arrival /\ NoLoss
<1> USE DEF RecoverNoMarker, counters, Orphan, Quarantine, Without, Goto,
        Exists, Valid, ValidAtHead
<1>1. TypeOK'
    BY PublishAssumption DEF IInv, TypeOK, Place, Tree, Control, TryPoint, Stage,
       Phase, Absent, Invalid
<1>2. CommandInv'
    BY DEF IInv, TypeOK, CommandInv, Stage, FreshPoint, TryPoint
<1>3. Bounded'
    BY PublishAssumption DEF IInv, TypeOK, Bounded, Place, Tree, Absent, Invalid
<1>4. PlacesInv'
    BY DEF IInv, TypeOK, PlacesInv, RecoveryLeavesNothing, FreePoint, ReadyPoint,
       ArrivedPoint, FreshPoint, Place, Absent, Invalid
<1>5. SuccessIsCurrent' /\ RecoveryLeavesNothing'
    BY DEF IInv, TypeOK, CommandInv, PlacesInv, SuccessIsCurrent,
       RecoveryLeavesNothing, FreshPoint, ArrivedPoint, Place, Absent
<1>6. DestinationWhole'
    BY DEF IInv, TypeOK, PlacesInv, DestinationWhole, FreePoint, ReadyPoint,
       ArrivedPoint, Place, Absent
<1>7. Arrival /\ NoLoss
    BY DEF IInv, TypeOK, Bounded, PlacesInv, Arrival, NoLoss, FreePoint,
       ReadyPoint, ArrivedPoint, FreshPoint, Place, Tree, Absent, Invalid
<1> QED
    BY <1>1, <1>2, <1>3, <1>4, <1>5, <1>6, <1>7 DEF IInv

LEMMA RecoverBuildingLemma ==
    ASSUME IInv, RecoverBuilding
    PROVE  IInv' /\ Arrival /\ NoLoss
<1> USE DEF RecoverBuilding, counters, Quarantine, Without, Goto, Exists,
        Valid, ValidAtHead
<1>1. TypeOK'
    BY PublishAssumption DEF IInv, TypeOK, Place, Tree, Control, TryPoint, Stage,
       Phase, Absent, Invalid
<1>2. CommandInv'
    BY DEF IInv, TypeOK, CommandInv, Stage, FreshPoint, TryPoint
<1>3. Bounded'
    BY PublishAssumption DEF IInv, TypeOK, Bounded, Place, Tree, Absent, Invalid
<1>4. PlacesInv'
    BY DEF IInv, TypeOK, PlacesInv, RecoveryLeavesNothing, FreePoint, ReadyPoint,
       ArrivedPoint, FreshPoint, Place, Absent, Invalid
<1>5. SuccessIsCurrent' /\ RecoveryLeavesNothing'
    BY DEF IInv, TypeOK, CommandInv, PlacesInv, SuccessIsCurrent,
       RecoveryLeavesNothing, FreshPoint, ArrivedPoint, Place, Absent
<1>6. DestinationWhole'
    BY DEF IInv, TypeOK, PlacesInv, DestinationWhole, FreePoint, ReadyPoint,
       ArrivedPoint, Place, Absent
<1>7. Arrival /\ NoLoss
    BY DEF IInv, TypeOK, Bounded, PlacesInv, Arrival, NoLoss, FreePoint,
       ReadyPoint, ArrivedPoint, FreshPoint, Place, Tree, Absent, Invalid
<1> QED
    BY <1>1, <1>2, <1>3, <1>4, <1>5, <1>6, <1>7 DEF IInv

LEMMA RetireLemma ==
    ASSUME IInv, Retire
    PROVE  IInv' /\ Arrival /\ NoLoss
<1> USE DEF Retire, counters, Remove, Without, Mark, Exists, Valid,
        ValidAtHead
<1>1. TypeOK'
    BY PublishAssumption DEF IInv, TypeOK, Place, Tree, Control, TryPoint, Stage,
       Phase, Absent, Invalid
<1>2. CommandInv'
    BY DEF IInv, TypeOK, CommandInv, Stage, FreshPoint, TryPoint
<1>3. Bounded'
    BY PublishAssumption DEF IInv, TypeOK, Bounded, Place, Tree, Absent, Invalid
<1>4. PlacesInv'
    BY DEF IInv, TypeOK, PlacesInv, RecoveryLeavesNothing, FreePoint, ReadyPoint,
       ArrivedPoint, FreshPoint, Place, Absent, Invalid
<1>5. SuccessIsCurrent' /\ RecoveryLeavesNothing'
    BY DEF IInv, TypeOK, CommandInv, PlacesInv, SuccessIsCurrent,
       RecoveryLeavesNothing, FreshPoint, ArrivedPoint, Place, Absent
<1>6. DestinationWhole'
    BY DEF IInv, TypeOK, PlacesInv, DestinationWhole, FreePoint, ReadyPoint,
       ArrivedPoint, Place, Absent
<1>7. Arrival /\ NoLoss
    BY DEF IInv, TypeOK, Bounded, PlacesInv, Arrival, NoLoss, FreePoint,
       ReadyPoint, ArrivedPoint, FreshPoint, Place, Tree, Absent, Invalid
<1> QED
    BY <1>1, <1>2, <1>3, <1>4, <1>5, <1>6, <1>7 DEF IInv

LEMMA RecoverCandidateValidLemma ==
    ASSUME IInv, RecoverCandidateValid
    PROVE  IInv' /\ Arrival /\ NoLoss
<1> USE DEF RecoverCandidateValid, counters, Shape, RecoverDisplaced,
        Quarantine, Without, Rename, Moved, Goto, PublishCandidate, Remove,
        Exists, Valid, ValidAtHead
<1>1. TypeOK'
    BY PublishAssumption DEF IInv, TypeOK, Place, Tree, Control, TryPoint, Stage,
       Phase, Absent, Invalid
<1>2. CommandInv'
    BY DEF IInv, TypeOK, CommandInv, Stage, FreshPoint, TryPoint
<1>3. Bounded'
    BY PublishAssumption DEF IInv, TypeOK, Bounded, Place, Tree, Absent, Invalid
<1>4. PlacesInv'
    BY DEF IInv, TypeOK, PlacesInv, RecoveryLeavesNothing, FreePoint, ReadyPoint,
       ArrivedPoint, FreshPoint, Place, Absent, Invalid
<1>5. SuccessIsCurrent' /\ RecoveryLeavesNothing'
    BY DEF IInv, TypeOK, CommandInv, PlacesInv, SuccessIsCurrent,
       RecoveryLeavesNothing, FreshPoint, ArrivedPoint, Place, Absent
<1>6. DestinationWhole'
    BY DEF IInv, TypeOK, PlacesInv, DestinationWhole, FreePoint, ReadyPoint,
       ArrivedPoint, Place, Absent
<1>7. Arrival /\ NoLoss
    BY DEF IInv, TypeOK, Bounded, PlacesInv, Arrival, NoLoss, FreePoint,
       ReadyPoint, ArrivedPoint, FreshPoint, Place, Tree, Absent, Invalid
<1> QED
    BY <1>1, <1>2, <1>3, <1>4, <1>5, <1>6, <1>7 DEF IInv

LEMMA RecoverPreviousMovedLemma ==
    ASSUME IInv, RecoverPreviousMoved
    PROVE  IInv' /\ Arrival /\ NoLoss
<1> USE DEF RecoverPreviousMoved, counters, Shape, RecoverDisplaced,
        Quarantine, Without, Goto, PublishCandidate, Remove, Rename, Moved,
        Exists, Valid, ValidAtHead
<1>1. TypeOK'
    BY PublishAssumption DEF IInv, TypeOK, Place, Tree, Control, TryPoint, Stage,
       Phase, Absent, Invalid
<1>2. CommandInv'
    BY DEF IInv, TypeOK, CommandInv, Stage, FreshPoint, TryPoint
<1>3. Bounded'
    BY PublishAssumption DEF IInv, TypeOK, Bounded, Place, Tree, Absent, Invalid
<1>4. PlacesInv'
    BY DEF IInv, TypeOK, PlacesInv, RecoveryLeavesNothing, FreePoint, ReadyPoint,
       ArrivedPoint, FreshPoint, Place, Absent, Invalid
<1>5. SuccessIsCurrent' /\ RecoveryLeavesNothing'
    BY DEF IInv, TypeOK, CommandInv, PlacesInv, SuccessIsCurrent,
       RecoveryLeavesNothing, FreshPoint, ArrivedPoint, Place, Absent
<1>6. DestinationWhole'
    BY DEF IInv, TypeOK, PlacesInv, DestinationWhole, FreePoint, ReadyPoint,
       ArrivedPoint, Place, Absent
<1>7. Arrival /\ NoLoss
    BY DEF IInv, TypeOK, Bounded, PlacesInv, Arrival, NoLoss, FreePoint,
       ReadyPoint, ArrivedPoint, FreshPoint, Place, Tree, Absent, Invalid
<1> QED
    BY <1>1, <1>2, <1>3, <1>4, <1>5, <1>6, <1>7 DEF IInv

LEMMA RecoverCandidatePublishedLemma ==
    ASSUME IInv, RecoverCandidatePublished
    PROVE  IInv' /\ Arrival /\ NoLoss
<1> USE DEF RecoverCandidatePublished, counters, Quarantine, Without, Goto,
        Exists, Valid, ValidAtHead
<1>1. TypeOK'
    BY PublishAssumption DEF IInv, TypeOK, Place, Tree, Control, TryPoint, Stage,
       Phase, Absent, Invalid
<1>2. CommandInv'
    BY DEF IInv, TypeOK, CommandInv, Stage, FreshPoint, TryPoint
<1>3. Bounded'
    BY PublishAssumption DEF IInv, TypeOK, Bounded, Place, Tree, Absent, Invalid
<1>4. PlacesInv'
    BY DEF IInv, TypeOK, PlacesInv, RecoveryLeavesNothing, FreePoint, ReadyPoint,
       ArrivedPoint, FreshPoint, Place, Absent, Invalid
<1>5. SuccessIsCurrent' /\ RecoveryLeavesNothing'
    BY DEF IInv, TypeOK, CommandInv, PlacesInv, SuccessIsCurrent,
       RecoveryLeavesNothing, FreshPoint, ArrivedPoint, Place, Absent
<1>6. DestinationWhole'
    BY DEF IInv, TypeOK, PlacesInv, DestinationWhole, FreePoint, ReadyPoint,
       ArrivedPoint, Place, Absent
<1>7. Arrival /\ NoLoss
    BY DEF IInv, TypeOK, Bounded, PlacesInv, Arrival, NoLoss, FreePoint,
       ReadyPoint, ArrivedPoint, FreshPoint, Place, Tree, Absent, Invalid
<1> QED
    BY <1>1, <1>2, <1>3, <1>4, <1>5, <1>6, <1>7 DEF IInv

LEMMA UnhandledPhaseLemma ==
    ASSUME IInv, UnhandledPhase
    PROVE  IInv' /\ Arrival /\ NoLoss
<1> USE DEF UnhandledPhase, counters, Shape, Goto, Exists, Valid, ValidAtHead
<1>1. TypeOK'
    BY PublishAssumption DEF IInv, TypeOK, Place, Tree, Control, TryPoint, Stage,
       Phase, Absent, Invalid
<1>2. CommandInv'
    BY DEF IInv, TypeOK, CommandInv, Stage, FreshPoint, TryPoint
<1>3. Bounded'
    BY PublishAssumption DEF IInv, TypeOK, Bounded, Place, Tree, Absent, Invalid
<1>4. PlacesInv'
    BY DEF IInv, TypeOK, PlacesInv, RecoveryLeavesNothing, FreePoint, ReadyPoint,
       ArrivedPoint, FreshPoint, Place, Absent, Invalid
<1>5. SuccessIsCurrent' /\ RecoveryLeavesNothing'
    BY DEF IInv, TypeOK, CommandInv, PlacesInv, SuccessIsCurrent,
       RecoveryLeavesNothing, FreshPoint, ArrivedPoint, Place, Absent
<1>6. DestinationWhole'
    BY DEF IInv, TypeOK, PlacesInv, DestinationWhole, FreePoint, ReadyPoint,
       ArrivedPoint, Place, Absent
<1>7. Arrival /\ NoLoss
    BY DEF IInv, TypeOK, Bounded, PlacesInv, Arrival, NoLoss, FreePoint,
       ReadyPoint, ArrivedPoint, FreshPoint, Place, Tree, Absent, Invalid
<1> QED
    BY <1>1, <1>2, <1>3, <1>4, <1>5, <1>6, <1>7 DEF IInv

LEMMA RedoMarkLemma ==
    ASSUME IInv, RedoMark
    PROVE  IInv' /\ Arrival /\ NoLoss
<1> USE DEF RedoMark, counters, Mark, Exists, Valid, ValidAtHead
<1>1. TypeOK'
    BY PublishAssumption DEF IInv, TypeOK, Place, Tree, Control, TryPoint, Stage,
       Phase, Absent, Invalid
<1>2. CommandInv'
    BY DEF IInv, TypeOK, CommandInv, Stage, FreshPoint, TryPoint
<1>3. Bounded'
    BY PublishAssumption DEF IInv, TypeOK, Bounded, Place, Tree, Absent, Invalid
<1>4. PlacesInv'
    BY DEF IInv, TypeOK, PlacesInv, RecoveryLeavesNothing, FreePoint, ReadyPoint,
       ArrivedPoint, FreshPoint, Place, Absent, Invalid
<1>5. SuccessIsCurrent' /\ RecoveryLeavesNothing'
    BY DEF IInv, TypeOK, CommandInv, PlacesInv, SuccessIsCurrent,
       RecoveryLeavesNothing, FreshPoint, ArrivedPoint, Place, Absent
<1>6. DestinationWhole'
    BY DEF IInv, TypeOK, PlacesInv, DestinationWhole, FreePoint, ReadyPoint,
       ArrivedPoint, Place, Absent
<1>7. Arrival /\ NoLoss
    BY DEF IInv, TypeOK, Bounded, PlacesInv, Arrival, NoLoss, FreePoint,
       ReadyPoint, ArrivedPoint, FreshPoint, Place, Tree, Absent, Invalid
<1> QED
    BY <1>1, <1>2, <1>3, <1>4, <1>5, <1>6, <1>7 DEF IInv

LEMMA RedoPublishLemma ==
    ASSUME IInv, RedoPublish
    PROVE  IInv' /\ Arrival /\ NoLoss
<1> USE DEF RedoPublish, counters, PublishCandidate, Remove, Rename, Moved,
        Without, Exists, Valid, ValidAtHead
<1>1. TypeOK'
    BY PublishAssumption DEF IInv, TypeOK, Place, Tree, Control, TryPoint, Stage,
       Phase, Absent, Invalid
<1>2. CommandInv'
    BY DEF IInv, TypeOK, CommandInv, Stage, FreshPoint, TryPoint
<1>3. Bounded'
    BY PublishAssumption DEF IInv, TypeOK, Bounded, Place, Tree, Absent, Invalid
<1>4. PlacesInv'
    BY DEF IInv, TypeOK, PlacesInv, RecoveryLeavesNothing, FreePoint, ReadyPoint,
       ArrivedPoint, FreshPoint, Place, Absent, Invalid
<1>5. SuccessIsCurrent' /\ RecoveryLeavesNothing'
    BY DEF IInv, TypeOK, CommandInv, PlacesInv, SuccessIsCurrent,
       RecoveryLeavesNothing, FreshPoint, ArrivedPoint, Place, Absent
<1>6. DestinationWhole'
    BY DEF IInv, TypeOK, PlacesInv, DestinationWhole, FreePoint, ReadyPoint,
       ArrivedPoint, Place, Absent
<1>7. Arrival /\ NoLoss
    BY DEF IInv, TypeOK, Bounded, PlacesInv, Arrival, NoLoss, FreePoint,
       ReadyPoint, ArrivedPoint, FreshPoint, Place, Tree, Absent, Invalid
<1> QED
    BY <1>1, <1>2, <1>3, <1>4, <1>5, <1>6, <1>7 DEF IInv

LEMMA RedoPublishedLemma ==
    ASSUME IInv, RedoPublished
    PROVE  IInv' /\ Arrival /\ NoLoss
<1> USE DEF RedoPublished, counters, Mark, Exists, Valid, ValidAtHead
<1>1. TypeOK'
    BY PublishAssumption DEF IInv, TypeOK, Place, Tree, Control, TryPoint, Stage,
       Phase, Absent, Invalid
<1>2. CommandInv'
    BY DEF IInv, TypeOK, CommandInv, Stage, FreshPoint, TryPoint
<1>3. Bounded'
    BY PublishAssumption DEF IInv, TypeOK, Bounded, Place, Tree, Absent, Invalid
<1>4. PlacesInv'
    BY DEF IInv, TypeOK, PlacesInv, RecoveryLeavesNothing, FreePoint, ReadyPoint,
       ArrivedPoint, FreshPoint, Place, Absent, Invalid
<1>5. SuccessIsCurrent' /\ RecoveryLeavesNothing'
    BY DEF IInv, TypeOK, CommandInv, PlacesInv, SuccessIsCurrent,
       RecoveryLeavesNothing, FreshPoint, ArrivedPoint, Place, Absent
<1>6. DestinationWhole'
    BY DEF IInv, TypeOK, PlacesInv, DestinationWhole, FreePoint, ReadyPoint,
       ArrivedPoint, Place, Absent
<1>7. Arrival /\ NoLoss
    BY DEF IInv, TypeOK, Bounded, PlacesInv, Arrival, NoLoss, FreePoint,
       ReadyPoint, ArrivedPoint, FreshPoint, Place, Tree, Absent, Invalid
<1> QED
    BY <1>1, <1>2, <1>3, <1>4, <1>5, <1>6, <1>7 DEF IInv

LEMMA DropDestinationLemma ==
    ASSUME IInv, DropDestination
    PROVE  IInv' /\ Arrival /\ NoLoss
<1> USE DEF DropDestination, counters, Quarantine, Without, Exists, Valid,
        ValidAtHead
<1>1. TypeOK'
    BY PublishAssumption DEF IInv, TypeOK, Place, Tree, Control, TryPoint, Stage,
       Phase, Absent, Invalid
<1>2. CommandInv'
    BY DEF IInv, TypeOK, CommandInv, Stage, FreshPoint, TryPoint
<1>3. Bounded'
    BY PublishAssumption DEF IInv, TypeOK, Bounded, Place, Tree, Absent, Invalid
<1>4. PlacesInv'
    BY DEF IInv, TypeOK, PlacesInv, RecoveryLeavesNothing, FreePoint, ReadyPoint,
       ArrivedPoint, FreshPoint, Place, Absent, Invalid
<1>5. SuccessIsCurrent' /\ RecoveryLeavesNothing'
    BY DEF IInv, TypeOK, CommandInv, PlacesInv, SuccessIsCurrent,
       RecoveryLeavesNothing, FreshPoint, ArrivedPoint, Place, Absent
<1>6. DestinationWhole'
    BY DEF IInv, TypeOK, PlacesInv, DestinationWhole, FreePoint, ReadyPoint,
       ArrivedPoint, Place, Absent
<1>7. Arrival /\ NoLoss
    BY DEF IInv, TypeOK, Bounded, PlacesInv, Arrival, NoLoss, FreePoint,
       ReadyPoint, ArrivedPoint, FreshPoint, Place, Tree, Absent, Invalid
<1> QED
    BY <1>1, <1>2, <1>3, <1>4, <1>5, <1>6, <1>7 DEF IInv

LEMMA RestoreLemma ==
    ASSUME IInv, Restore
    PROVE  IInv' /\ Arrival /\ NoLoss
<1> USE DEF Restore, counters, Rename, Moved, Quarantine, Without, Goto,
        Exists, Valid, ValidAtHead
<1>1. TypeOK'
    BY PublishAssumption DEF IInv, TypeOK, Place, Tree, Control, TryPoint, Stage,
       Phase, Absent, Invalid
<1>2. CommandInv'
    BY DEF IInv, TypeOK, CommandInv, Stage, FreshPoint, TryPoint
<1>3. Bounded'
    BY PublishAssumption DEF IInv, TypeOK, Bounded, Place, Tree, Absent, Invalid
<1>4. PlacesInv'
    BY DEF IInv, TypeOK, PlacesInv, RecoveryLeavesNothing, FreePoint, ReadyPoint,
       ArrivedPoint, FreshPoint, Place, Absent, Invalid
<1>5. SuccessIsCurrent' /\ RecoveryLeavesNothing'
    BY DEF IInv, TypeOK, CommandInv, PlacesInv, SuccessIsCurrent,
       RecoveryLeavesNothing, FreshPoint, ArrivedPoint, Place, Absent
<1>6. DestinationWhole'
    BY DEF IInv, TypeOK, PlacesInv, DestinationWhole, FreePoint, ReadyPoint,
       ArrivedPoint, Place, Absent
<1>7. Arrival /\ NoLoss
    BY DEF IInv, TypeOK, Bounded, PlacesInv, Arrival, NoLoss, FreePoint,
       ReadyPoint, ArrivedPoint, FreshPoint, Place, Tree, Absent, Invalid
<1> QED
    BY <1>1, <1>2, <1>3, <1>4, <1>5, <1>6, <1>7 DEF IInv

LEMMA FinishLemma ==
    ASSUME IInv, Finish
    PROVE  IInv' /\ Arrival /\ NoLoss
<1> USE DEF Finish, counters, Remove, Without, Mark, Exists, Valid,
        ValidAtHead
<1>1. TypeOK'
    BY PublishAssumption DEF IInv, TypeOK, Place, Tree, Control, TryPoint, Stage,
       Phase, Absent, Invalid
<1>2. CommandInv'
    BY DEF IInv, TypeOK, CommandInv, Stage, FreshPoint, TryPoint
<1>3. Bounded'
    BY PublishAssumption DEF IInv, TypeOK, Bounded, Place, Tree, Absent, Invalid
<1>4. PlacesInv'
    BY DEF IInv, TypeOK, PlacesInv, RecoveryLeavesNothing, FreePoint, ReadyPoint,
       ArrivedPoint, FreshPoint, Place, Absent, Invalid
<1>5. SuccessIsCurrent' /\ RecoveryLeavesNothing'
    BY DEF IInv, TypeOK, CommandInv, PlacesInv, SuccessIsCurrent,
       RecoveryLeavesNothing, FreshPoint, ArrivedPoint, Place, Absent
<1>6. DestinationWhole'
    BY DEF IInv, TypeOK, PlacesInv, DestinationWhole, FreePoint, ReadyPoint,
       ArrivedPoint, Place, Absent
<1>7. Arrival /\ NoLoss
    BY DEF IInv, TypeOK, Bounded, PlacesInv, Arrival, NoLoss, FreePoint,
       ReadyPoint, ArrivedPoint, FreshPoint, Place, Tree, Absent, Invalid
<1> QED
    BY <1>1, <1>2, <1>3, <1>4, <1>5, <1>6, <1>7 DEF IInv

LEMMA ScrapLemma ==
    ASSUME IInv, Scrap
    PROVE  IInv' /\ Arrival /\ NoLoss
<1> USE DEF Scrap, counters, Quarantine, Without, Remove, Mark, Exists,
        Valid, ValidAtHead
<1>1. TypeOK'
    BY PublishAssumption DEF IInv, TypeOK, Place, Tree, Control, TryPoint, Stage,
       Phase, Absent, Invalid
<1>2. CommandInv'
    BY DEF IInv, TypeOK, CommandInv, Stage, FreshPoint, TryPoint
<1>3. Bounded'
    BY PublishAssumption DEF IInv, TypeOK, Bounded, Place, Tree, Absent, Invalid
<1>4. PlacesInv'
    BY DEF IInv, TypeOK, PlacesInv, RecoveryLeavesNothing, FreePoint, ReadyPoint,
       ArrivedPoint, FreshPoint, Place, Absent, Invalid
<1>5. SuccessIsCurrent' /\ RecoveryLeavesNothing'
    BY DEF IInv, TypeOK, CommandInv, PlacesInv, SuccessIsCurrent,
       RecoveryLeavesNothing, FreshPoint, ArrivedPoint, Place, Absent
<1>6. DestinationWhole'
    BY DEF IInv, TypeOK, PlacesInv, DestinationWhole, FreePoint, ReadyPoint,
       ArrivedPoint, Place, Absent
<1>7. Arrival /\ NoLoss
    BY DEF IInv, TypeOK, Bounded, PlacesInv, Arrival, NoLoss, FreePoint,
       ReadyPoint, ArrivedPoint, FreshPoint, Place, Tree, Absent, Invalid
<1> QED
    BY <1>1, <1>2, <1>3, <1>4, <1>5, <1>6, <1>7 DEF IInv

-------------------------------------------------------------------------------
(* The steps of a publication.                                               *)

LEMMA BeginLemma ==
    ASSUME IInv, Begin
    PROVE  IInv' /\ Arrival /\ NoLoss
<1> USE DEF Begin, counters, Exists, Valid, ValidAtHead
<1>1. TypeOK'
    BY PublishAssumption DEF IInv, TypeOK, Place, Tree, Control, TryPoint, Stage,
       Phase, Absent, Invalid
<1>2. CommandInv'
    BY DEF IInv, TypeOK, CommandInv, Stage, FreshPoint, TryPoint
<1>3. Bounded'
    BY PublishAssumption DEF IInv, TypeOK, Bounded, Place, Tree, Absent, Invalid
<1>4. PlacesInv'
    BY DEF IInv, TypeOK, PlacesInv, RecoveryLeavesNothing, FreePoint, ReadyPoint,
       ArrivedPoint, FreshPoint, Place, Absent, Invalid
<1>5. SuccessIsCurrent' /\ RecoveryLeavesNothing'
    BY DEF IInv, TypeOK, CommandInv, PlacesInv, SuccessIsCurrent,
       RecoveryLeavesNothing, FreshPoint, ArrivedPoint, Place, Absent
<1>6. DestinationWhole'
    BY DEF IInv, TypeOK, PlacesInv, DestinationWhole, FreePoint, ReadyPoint,
       ArrivedPoint, Place, Absent
<1>7. Arrival /\ NoLoss
    BY DEF IInv, TypeOK, Bounded, PlacesInv, Arrival, NoLoss, FreePoint,
       ReadyPoint, ArrivedPoint, FreshPoint, Place, Tree, Absent, Invalid
<1> QED
    BY <1>1, <1>2, <1>3, <1>4, <1>5, <1>6, <1>7 DEF IInv

LEMMA BeginWorkLemma ==
    ASSUME IInv, BeginWork
    PROVE  IInv' /\ Arrival /\ NoLoss
<1> USE DEF BeginWork, counters, Exists, Valid, ValidAtHead
<1>1. TypeOK'
    BY PublishAssumption DEF IInv, TypeOK, Place, Tree, Control, TryPoint, Stage,
       Phase, Absent, Invalid
<1>2. CommandInv'
    BY DEF IInv, TypeOK, CommandInv, Stage, FreshPoint, TryPoint
<1>3. Bounded'
    BY PublishAssumption DEF IInv, TypeOK, Bounded, Place, Tree, Absent, Invalid
<1>4. PlacesInv'
    BY DEF IInv, TypeOK, PlacesInv, RecoveryLeavesNothing, FreePoint, ReadyPoint,
       ArrivedPoint, FreshPoint, Place, Absent, Invalid
<1>5. SuccessIsCurrent' /\ RecoveryLeavesNothing'
    BY DEF IInv, TypeOK, CommandInv, PlacesInv, SuccessIsCurrent,
       RecoveryLeavesNothing, FreshPoint, ArrivedPoint, Place, Absent
<1>6. DestinationWhole'
    BY DEF IInv, TypeOK, PlacesInv, DestinationWhole, FreePoint, ReadyPoint,
       ArrivedPoint, Place, Absent
<1>7. Arrival /\ NoLoss
    BY DEF IInv, TypeOK, Bounded, PlacesInv, Arrival, NoLoss, FreePoint,
       ReadyPoint, ArrivedPoint, FreshPoint, Place, Tree, Absent, Invalid
<1> QED
    BY <1>1, <1>2, <1>3, <1>4, <1>5, <1>6, <1>7 DEF IInv

LEMMA BeginMarkLemma ==
    ASSUME IInv, BeginMark
    PROVE  IInv' /\ Arrival /\ NoLoss
<1> USE DEF BeginMark, counters, Mark, Exists, Valid, ValidAtHead
<1>1. TypeOK'
    BY PublishAssumption DEF IInv, TypeOK, Place, Tree, Control, TryPoint, Stage,
       Phase, Absent, Invalid
<1>2. CommandInv'
    BY DEF IInv, TypeOK, CommandInv, Stage, FreshPoint, TryPoint
<1>3. Bounded'
    BY PublishAssumption DEF IInv, TypeOK, Bounded, Place, Tree, Absent, Invalid
<1>4. PlacesInv'
    BY DEF IInv, TypeOK, PlacesInv, RecoveryLeavesNothing, FreePoint, ReadyPoint,
       ArrivedPoint, FreshPoint, Place, Absent, Invalid
<1>5. SuccessIsCurrent' /\ RecoveryLeavesNothing'
    BY DEF IInv, TypeOK, CommandInv, PlacesInv, SuccessIsCurrent,
       RecoveryLeavesNothing, FreshPoint, ArrivedPoint, Place, Absent
<1>6. DestinationWhole'
    BY DEF IInv, TypeOK, PlacesInv, DestinationWhole, FreePoint, ReadyPoint,
       ArrivedPoint, Place, Absent
<1>7. Arrival /\ NoLoss
    BY DEF IInv, TypeOK, Bounded, PlacesInv, Arrival, NoLoss, FreePoint,
       ReadyPoint, ArrivedPoint, FreshPoint, Place, Tree, Absent, Invalid
<1> QED
    BY <1>1, <1>2, <1>3, <1>4, <1>5, <1>6, <1>7 DEF IInv

LEMMA BuildLemma ==
    ASSUME IInv, Build
    PROVE  IInv' /\ Arrival /\ NoLoss
<1> USE DEF Build, counters, Exists, Valid, ValidAtHead
<1>1. TypeOK'
    BY PublishAssumption DEF IInv, TypeOK, Place, Tree, Control, TryPoint, Stage,
       Phase, Absent, Invalid
<1>2. CommandInv'
    BY DEF IInv, TypeOK, CommandInv, Stage, FreshPoint, TryPoint
<1>3. Bounded'
    BY PublishAssumption DEF IInv, TypeOK, Bounded, Place, Tree, Absent, Invalid
<1>4. PlacesInv'
    BY DEF IInv, TypeOK, PlacesInv, RecoveryLeavesNothing, FreePoint, ReadyPoint,
       ArrivedPoint, FreshPoint, Place, Absent, Invalid
<1>5. SuccessIsCurrent' /\ RecoveryLeavesNothing'
    BY DEF IInv, TypeOK, CommandInv, PlacesInv, SuccessIsCurrent,
       RecoveryLeavesNothing, FreshPoint, ArrivedPoint, Place, Absent
<1>6. DestinationWhole'
    BY DEF IInv, TypeOK, PlacesInv, DestinationWhole, FreePoint, ReadyPoint,
       ArrivedPoint, Place, Absent
<1>7. Arrival /\ NoLoss
    BY DEF IInv, TypeOK, Bounded, PlacesInv, Arrival, NoLoss, FreePoint,
       ReadyPoint, ArrivedPoint, FreshPoint, Place, Tree, Absent, Invalid
<1> QED
    BY <1>1, <1>2, <1>3, <1>4, <1>5, <1>6, <1>7 DEF IInv

LEMMA ValidateLemma ==
    ASSUME IInv, Validate
    PROVE  IInv' /\ Arrival /\ NoLoss
<1> USE DEF Validate, counters, Mark, Goto, Exists, Valid, ValidAtHead
<1>1. TypeOK'
    BY PublishAssumption DEF IInv, TypeOK, Place, Tree, Control, TryPoint, Stage,
       Phase, Absent, Invalid
<1>2. CommandInv'
    BY DEF IInv, TypeOK, CommandInv, Stage, FreshPoint, TryPoint
<1>3. Bounded'
    BY PublishAssumption DEF IInv, TypeOK, Bounded, Place, Tree, Absent, Invalid
<1>4. PlacesInv'
    BY DEF IInv, TypeOK, PlacesInv, RecoveryLeavesNothing, FreePoint, ReadyPoint,
       ArrivedPoint, FreshPoint, Place, Absent, Invalid
<1>5. SuccessIsCurrent' /\ RecoveryLeavesNothing'
    BY DEF IInv, TypeOK, CommandInv, PlacesInv, SuccessIsCurrent,
       RecoveryLeavesNothing, FreshPoint, ArrivedPoint, Place, Absent
<1>6. DestinationWhole'
    BY DEF IInv, TypeOK, PlacesInv, DestinationWhole, FreePoint, ReadyPoint,
       ArrivedPoint, Place, Absent
<1>7. Arrival /\ NoLoss
    BY DEF IInv, TypeOK, Bounded, PlacesInv, Arrival, NoLoss, FreePoint,
       ReadyPoint, ArrivedPoint, FreshPoint, Place, Tree, Absent, Invalid
<1> QED
    BY <1>1, <1>2, <1>3, <1>4, <1>5, <1>6, <1>7 DEF IInv

LEMMA DisplaceLemma ==
    ASSUME IInv, Displace
    PROVE  IInv' /\ Arrival /\ NoLoss
<1> USE DEF Displace, counters, Remove, Without, Rename, Moved, Goto, Exists,
        Valid, ValidAtHead
<1>1. TypeOK'
    BY PublishAssumption DEF IInv, TypeOK, Place, Tree, Control, TryPoint, Stage,
       Phase, Absent, Invalid
<1>2. CommandInv'
    BY DEF IInv, TypeOK, CommandInv, Stage, FreshPoint, TryPoint
<1>3. Bounded'
    BY PublishAssumption DEF IInv, TypeOK, Bounded, Place, Tree, Absent, Invalid
<1>4. PlacesInv'
    BY DEF IInv, TypeOK, PlacesInv, RecoveryLeavesNothing, FreePoint, ReadyPoint,
       ArrivedPoint, FreshPoint, Place, Absent, Invalid
<1>5. SuccessIsCurrent' /\ RecoveryLeavesNothing'
    BY DEF IInv, TypeOK, CommandInv, PlacesInv, SuccessIsCurrent,
       RecoveryLeavesNothing, FreshPoint, ArrivedPoint, Place, Absent
<1>6. DestinationWhole'
    BY DEF IInv, TypeOK, PlacesInv, DestinationWhole, FreePoint, ReadyPoint,
       ArrivedPoint, Place, Absent
<1>7. Arrival /\ NoLoss
    BY DEF IInv, TypeOK, Bounded, PlacesInv, Arrival, NoLoss, FreePoint,
       ReadyPoint, ArrivedPoint, FreshPoint, Place, Tree, Absent, Invalid
<1> QED
    BY <1>1, <1>2, <1>3, <1>4, <1>5, <1>6, <1>7 DEF IInv

LEMMA MarkMovedLemma ==
    ASSUME IInv, MarkMoved
    PROVE  IInv' /\ Arrival /\ NoLoss
<1> USE DEF MarkMoved, counters, Mark, Exists, Valid, ValidAtHead
<1>1. TypeOK'
    BY PublishAssumption DEF IInv, TypeOK, Place, Tree, Control, TryPoint, Stage,
       Phase, Absent, Invalid
<1>2. CommandInv'
    BY DEF IInv, TypeOK, CommandInv, Stage, FreshPoint, TryPoint
<1>3. Bounded'
    BY PublishAssumption DEF IInv, TypeOK, Bounded, Place, Tree, Absent, Invalid
<1>4. PlacesInv'
    BY DEF IInv, TypeOK, PlacesInv, RecoveryLeavesNothing, FreePoint, ReadyPoint,
       ArrivedPoint, FreshPoint, Place, Absent, Invalid
<1>5. SuccessIsCurrent' /\ RecoveryLeavesNothing'
    BY DEF IInv, TypeOK, CommandInv, PlacesInv, SuccessIsCurrent,
       RecoveryLeavesNothing, FreshPoint, ArrivedPoint, Place, Absent
<1>6. DestinationWhole'
    BY DEF IInv, TypeOK, PlacesInv, DestinationWhole, FreePoint, ReadyPoint,
       ArrivedPoint, Place, Absent
<1>7. Arrival /\ NoLoss
    BY DEF IInv, TypeOK, Bounded, PlacesInv, Arrival, NoLoss, FreePoint,
       ReadyPoint, ArrivedPoint, FreshPoint, Place, Tree, Absent, Invalid
<1> QED
    BY <1>1, <1>2, <1>3, <1>4, <1>5, <1>6, <1>7 DEF IInv

LEMMA PublishLemma ==
    ASSUME IInv, Publish
    PROVE  IInv' /\ Arrival /\ NoLoss
<1> USE DEF Publish, counters, PublishCandidate, Remove, Rename, Moved,
        Without, Exists, Valid, ValidAtHead
<1>1. TypeOK'
    BY PublishAssumption DEF IInv, TypeOK, Place, Tree, Control, TryPoint, Stage,
       Phase, Absent, Invalid
<1>2. CommandInv'
    BY DEF IInv, TypeOK, CommandInv, Stage, FreshPoint, TryPoint
<1>3. Bounded'
    BY PublishAssumption DEF IInv, TypeOK, Bounded, Place, Tree, Absent, Invalid
<1>4. PlacesInv'
    BY DEF IInv, TypeOK, PlacesInv, RecoveryLeavesNothing, FreePoint, ReadyPoint,
       ArrivedPoint, FreshPoint, Place, Absent, Invalid
<1>5. SuccessIsCurrent' /\ RecoveryLeavesNothing'
    BY DEF IInv, TypeOK, CommandInv, PlacesInv, SuccessIsCurrent,
       RecoveryLeavesNothing, FreshPoint, ArrivedPoint, Place, Absent
<1>6. DestinationWhole'
    BY DEF IInv, TypeOK, PlacesInv, DestinationWhole, FreePoint, ReadyPoint,
       ArrivedPoint, Place, Absent
<1>7. Arrival /\ NoLoss
    BY DEF IInv, TypeOK, Bounded, PlacesInv, Arrival, NoLoss, FreePoint,
       ReadyPoint, ArrivedPoint, FreshPoint, Place, Tree, Absent, Invalid
<1> QED
    BY <1>1, <1>2, <1>3, <1>4, <1>5, <1>6, <1>7 DEF IInv

LEMMA MarkPublishedLemma ==
    ASSUME IInv, MarkPublished
    PROVE  IInv' /\ Arrival /\ NoLoss
<1> USE DEF MarkPublished, counters, Mark, Exists, Valid, ValidAtHead
<1>1. TypeOK'
    BY PublishAssumption DEF IInv, TypeOK, Place, Tree, Control, TryPoint, Stage,
       Phase, Absent, Invalid
<1>2. CommandInv'
    BY DEF IInv, TypeOK, CommandInv, Stage, FreshPoint, TryPoint
<1>3. Bounded'
    BY PublishAssumption DEF IInv, TypeOK, Bounded, Place, Tree, Absent, Invalid
<1>4. PlacesInv'
    BY DEF IInv, TypeOK, PlacesInv, RecoveryLeavesNothing, FreePoint, ReadyPoint,
       ArrivedPoint, FreshPoint, Place, Absent, Invalid
<1>5. SuccessIsCurrent' /\ RecoveryLeavesNothing'
    BY DEF IInv, TypeOK, CommandInv, PlacesInv, SuccessIsCurrent,
       RecoveryLeavesNothing, FreshPoint, ArrivedPoint, Place, Absent
<1>6. DestinationWhole'
    BY DEF IInv, TypeOK, PlacesInv, DestinationWhole, FreePoint, ReadyPoint,
       ArrivedPoint, Place, Absent
<1>7. Arrival /\ NoLoss
    BY DEF IInv, TypeOK, Bounded, PlacesInv, Arrival, NoLoss, FreePoint,
       ReadyPoint, ArrivedPoint, FreshPoint, Place, Tree, Absent, Invalid
<1> QED
    BY <1>1, <1>2, <1>3, <1>4, <1>5, <1>6, <1>7 DEF IInv

LEMMA CleanupLemma ==
    ASSUME IInv, Cleanup
    PROVE  IInv' /\ Arrival /\ NoLoss
<1> USE DEF Cleanup, counters, Remove, Without, Mark, Exists, Valid,
        ValidAtHead
<1>1. TypeOK'
    BY PublishAssumption DEF IInv, TypeOK, Place, Tree, Control, TryPoint, Stage,
       Phase, Absent, Invalid
<1>2. CommandInv'
    BY DEF IInv, TypeOK, CommandInv, Stage, FreshPoint, TryPoint
<1>3. Bounded'
    BY PublishAssumption DEF IInv, TypeOK, Bounded, Place, Tree, Absent, Invalid
<1>4. PlacesInv'
    BY DEF IInv, TypeOK, PlacesInv, RecoveryLeavesNothing, FreePoint, ReadyPoint,
       ArrivedPoint, FreshPoint, Place, Absent, Invalid
<1>5. SuccessIsCurrent' /\ RecoveryLeavesNothing'
    BY DEF IInv, TypeOK, CommandInv, PlacesInv, SuccessIsCurrent,
       RecoveryLeavesNothing, FreshPoint, ArrivedPoint, Place, Absent
<1>6. DestinationWhole'
    BY DEF IInv, TypeOK, PlacesInv, DestinationWhole, FreePoint, ReadyPoint,
       ArrivedPoint, Place, Absent
<1>7. Arrival /\ NoLoss
    BY DEF IInv, TypeOK, Bounded, PlacesInv, Arrival, NoLoss, FreePoint,
       ReadyPoint, ArrivedPoint, FreshPoint, Place, Tree, Absent, Invalid
<1> QED
    BY <1>1, <1>2, <1>3, <1>4, <1>5, <1>6, <1>7 DEF IInv

LEMMA AbortLemma ==
    ASSUME IInv, Abort
    PROVE  IInv' /\ Arrival /\ NoLoss
<1> USE DEF Abort, counters, Quarantine, Without, Remove, Mark, Exists,
        Valid, ValidAtHead
<1>1. TypeOK'
    BY PublishAssumption DEF IInv, TypeOK, Place, Tree, Control, TryPoint, Stage,
       Phase, Absent, Invalid
<1>2. CommandInv'
    BY DEF IInv, TypeOK, CommandInv, Stage, FreshPoint, TryPoint
<1>3. Bounded'
    BY PublishAssumption DEF IInv, TypeOK, Bounded, Place, Tree, Absent, Invalid
<1>4. PlacesInv'
    BY DEF IInv, TypeOK, PlacesInv, RecoveryLeavesNothing, FreePoint, ReadyPoint,
       ArrivedPoint, FreshPoint, Place, Absent, Invalid
<1>5. SuccessIsCurrent' /\ RecoveryLeavesNothing'
    BY DEF IInv, TypeOK, CommandInv, PlacesInv, SuccessIsCurrent,
       RecoveryLeavesNothing, FreshPoint, ArrivedPoint, Place, Absent
<1>6. DestinationWhole'
    BY DEF IInv, TypeOK, PlacesInv, DestinationWhole, FreePoint, ReadyPoint,
       ArrivedPoint, Place, Absent
<1>7. Arrival /\ NoLoss
    BY DEF IInv, TypeOK, Bounded, PlacesInv, Arrival, NoLoss, FreePoint,
       ReadyPoint, ArrivedPoint, FreshPoint, Place, Tree, Absent, Invalid
<1> QED
    BY <1>1, <1>2, <1>3, <1>4, <1>5, <1>6, <1>7 DEF IInv

-------------------------------------------------------------------------------
(* The other steps of a command, and what happens to it.                     *)

LEMMA QuarantineInvalidDestinationLemma ==
    ASSUME IInv, QuarantineInvalidDestination
    PROVE  IInv' /\ Arrival /\ NoLoss
<1> USE DEF QuarantineInvalidDestination, counters, Quarantine, Without,
        Exists, Valid, ValidAtHead
<1>1. TypeOK'
    BY PublishAssumption DEF IInv, TypeOK, Place, Tree, Control, TryPoint, Stage,
       Phase, Absent, Invalid
<1>2. CommandInv'
    BY DEF IInv, TypeOK, CommandInv, Stage, FreshPoint, TryPoint
<1>3. Bounded'
    BY PublishAssumption DEF IInv, TypeOK, Bounded, Place, Tree, Absent, Invalid
<1>4. PlacesInv'
    BY DEF IInv, TypeOK, PlacesInv, RecoveryLeavesNothing, FreePoint, ReadyPoint,
       ArrivedPoint, FreshPoint, Place, Absent, Invalid
<1>5. SuccessIsCurrent' /\ RecoveryLeavesNothing'
    BY DEF IInv, TypeOK, CommandInv, PlacesInv, SuccessIsCurrent,
       RecoveryLeavesNothing, FreshPoint, ArrivedPoint, Place, Absent
<1>6. DestinationWhole'
    BY DEF IInv, TypeOK, PlacesInv, DestinationWhole, FreePoint, ReadyPoint,
       ArrivedPoint, Place, Absent
<1>7. Arrival /\ NoLoss
    BY DEF IInv, TypeOK, Bounded, PlacesInv, Arrival, NoLoss, FreePoint,
       ReadyPoint, ArrivedPoint, FreshPoint, Place, Tree, Absent, Invalid
<1> QED
    BY <1>1, <1>2, <1>3, <1>4, <1>5, <1>6, <1>7 DEF IInv

LEMMA CommitLemma ==
    ASSUME IInv, Commit
    PROVE  IInv' /\ Arrival /\ NoLoss
<1> USE DEF Commit, counters, Exists, Valid, ValidAtHead
<1>1. TypeOK'
    BY PublishAssumption DEF IInv, TypeOK, Place, Tree, Control, TryPoint, Stage,
       Phase, Absent, Invalid
<1>2. CommandInv'
    BY DEF IInv, TypeOK, CommandInv, Stage, FreshPoint, TryPoint
<1>3. Bounded'
    BY PublishAssumption DEF IInv, TypeOK, Bounded, Place, Tree, Absent, Invalid
<1>4. PlacesInv'
    BY DEF IInv, TypeOK, PlacesInv, RecoveryLeavesNothing, FreePoint, ReadyPoint,
       ArrivedPoint, FreshPoint, Place, Absent, Invalid
<1>5. SuccessIsCurrent' /\ RecoveryLeavesNothing'
    BY DEF IInv, TypeOK, CommandInv, PlacesInv, SuccessIsCurrent,
       RecoveryLeavesNothing, FreshPoint, ArrivedPoint, Place, Absent
<1>6. DestinationWhole'
    BY DEF IInv, TypeOK, PlacesInv, DestinationWhole, FreePoint, ReadyPoint,
       ArrivedPoint, Place, Absent
<1>7. Arrival /\ NoLoss
    BY DEF IInv, TypeOK, Bounded, PlacesInv, Arrival, NoLoss, FreePoint,
       ReadyPoint, ArrivedPoint, FreshPoint, Place, Tree, Absent, Invalid
<1> QED
    BY <1>1, <1>2, <1>3, <1>4, <1>5, <1>6, <1>7 DEF IInv

LEMMA EndProcessLemma ==
    ASSUME IInv, EndProcess
    PROVE  IInv' /\ Arrival /\ NoLoss
<1> USE DEF EndProcess, counters, Goto, Exists, Valid, ValidAtHead
<1>1. TypeOK'
    BY PublishAssumption DEF IInv, TypeOK, Place, Tree, Control, TryPoint, Stage,
       Phase, Absent, Invalid
<1>2. CommandInv'
    BY DEF IInv, TypeOK, CommandInv, Stage, FreshPoint, TryPoint
<1>3. Bounded'
    BY PublishAssumption DEF IInv, TypeOK, Bounded, Place, Tree, Absent, Invalid
<1>4. PlacesInv'
    BY DEF IInv, TypeOK, PlacesInv, RecoveryLeavesNothing, FreePoint, ReadyPoint,
       ArrivedPoint, FreshPoint, Place, Absent, Invalid
<1>5. SuccessIsCurrent' /\ RecoveryLeavesNothing'
    BY DEF IInv, TypeOK, CommandInv, PlacesInv, SuccessIsCurrent,
       RecoveryLeavesNothing, FreshPoint, ArrivedPoint, Place, Absent
<1>6. DestinationWhole'
    BY DEF IInv, TypeOK, PlacesInv, DestinationWhole, FreePoint, ReadyPoint,
       ArrivedPoint, Place, Absent
<1>7. Arrival /\ NoLoss
    BY DEF IInv, TypeOK, Bounded, PlacesInv, Arrival, NoLoss, FreePoint,
       ReadyPoint, ArrivedPoint, FreshPoint, Place, Tree, Absent, Invalid
<1> QED
    BY <1>1, <1>2, <1>3, <1>4, <1>5, <1>6, <1>7 DEF IInv

LEMMA RenderRejectedLemma ==
    ASSUME IInv, RenderRejected
    PROVE  IInv' /\ Arrival /\ NoLoss
<1> USE DEF RenderRejected, counters, Goto, Exists, Valid, ValidAtHead
<1>1. TypeOK'
    BY PublishAssumption DEF IInv, TypeOK, Place, Tree, Control, TryPoint, Stage,
       Phase, Absent, Invalid
<1>2. CommandInv'
    BY DEF IInv, TypeOK, CommandInv, Stage, FreshPoint, TryPoint
<1>3. Bounded'
    BY PublishAssumption DEF IInv, TypeOK, Bounded, Place, Tree, Absent, Invalid
<1>4. PlacesInv'
    BY DEF IInv, TypeOK, PlacesInv, RecoveryLeavesNothing, FreePoint, ReadyPoint,
       ArrivedPoint, FreshPoint, Place, Absent, Invalid
<1>5. SuccessIsCurrent' /\ RecoveryLeavesNothing'
    BY DEF IInv, TypeOK, CommandInv, PlacesInv, SuccessIsCurrent,
       RecoveryLeavesNothing, FreshPoint, ArrivedPoint, Place, Absent
<1>6. DestinationWhole'
    BY DEF IInv, TypeOK, PlacesInv, DestinationWhole, FreePoint, ReadyPoint,
       ArrivedPoint, Place, Absent
<1>7. Arrival /\ NoLoss
    BY DEF IInv, TypeOK, Bounded, PlacesInv, Arrival, NoLoss, FreePoint,
       ReadyPoint, ArrivedPoint, FreshPoint, Place, Tree, Absent, Invalid
<1> QED
    BY <1>1, <1>2, <1>3, <1>4, <1>5, <1>6, <1>7 DEF IInv

LEMMA FinishedLemma ==
    ASSUME IInv, Finished
    PROVE  IInv' /\ Arrival /\ NoLoss
<1> USE DEF Finished, counters, Exists, Valid, ValidAtHead
<1>1. TypeOK'
    BY PublishAssumption DEF IInv, TypeOK, Place, Tree, Control, TryPoint, Stage,
       Phase, Absent, Invalid
<1>2. CommandInv'
    BY DEF IInv, TypeOK, CommandInv, Stage, FreshPoint, TryPoint
<1>3. Bounded'
    BY PublishAssumption DEF IInv, TypeOK, Bounded, Place, Tree, Absent, Invalid
<1>4. PlacesInv'
    BY DEF IInv, TypeOK, PlacesInv, RecoveryLeavesNothing, FreePoint, ReadyPoint,
       ArrivedPoint, FreshPoint, Place, Absent, Invalid
<1>5. SuccessIsCurrent' /\ RecoveryLeavesNothing'
    BY DEF IInv, TypeOK, CommandInv, PlacesInv, SuccessIsCurrent,
       RecoveryLeavesNothing, FreshPoint, ArrivedPoint, Place, Absent
<1>6. DestinationWhole'
    BY DEF IInv, TypeOK, PlacesInv, DestinationWhole, FreePoint, ReadyPoint,
       ArrivedPoint, Place, Absent
<1>7. Arrival /\ NoLoss
    BY DEF IInv, TypeOK, Bounded, PlacesInv, Arrival, NoLoss, FreePoint,
       ReadyPoint, ArrivedPoint, FreshPoint, Place, Tree, Absent, Invalid
<1> QED
    BY <1>1, <1>2, <1>3, <1>4, <1>5, <1>6, <1>7 DEF IInv

LEMMA InterruptLemma ==
    ASSUME IInv, Interrupt
    PROVE  IInv' /\ Arrival /\ NoLoss
<1> USE DEF Interrupt, counters, Exists, Valid, ValidAtHead
<1>1. TypeOK'
    BY PublishAssumption DEF IInv, TypeOK, Place, Tree, Control, TryPoint, Stage,
       Phase, Absent, Invalid
<1>2. CommandInv'
    BY DEF IInv, TypeOK, CommandInv, Stage, FreshPoint, TryPoint
<1>3. Bounded'
    BY PublishAssumption DEF IInv, TypeOK, Bounded, Place, Tree, Absent, Invalid
<1>4. PlacesInv'
    BY DEF IInv, TypeOK, PlacesInv, RecoveryLeavesNothing, FreePoint, ReadyPoint,
       ArrivedPoint, FreshPoint, Place, Absent, Invalid
<1>5. SuccessIsCurrent' /\ RecoveryLeavesNothing'
    BY DEF IInv, TypeOK, CommandInv, PlacesInv, SuccessIsCurrent,
       RecoveryLeavesNothing, FreshPoint, ArrivedPoint, Place, Absent
<1>6. DestinationWhole'
    BY DEF IInv, TypeOK, PlacesInv, DestinationWhole, FreePoint, ReadyPoint,
       ArrivedPoint, Place, Absent
<1>7. Arrival /\ NoLoss
    BY DEF IInv, TypeOK, Bounded, PlacesInv, Arrival, NoLoss, FreePoint,
       ReadyPoint, ArrivedPoint, FreshPoint, Place, Tree, Absent, Invalid
<1> QED
    BY <1>1, <1>2, <1>3, <1>4, <1>5, <1>6, <1>7 DEF IInv

LEMMA CrashLemma ==
    ASSUME IInv, Crash
    PROVE  IInv' /\ Arrival /\ NoLoss
<1> USE DEF Crash, counters, Exists, Valid, ValidAtHead
<1>1. TypeOK'
    BY PublishAssumption DEF IInv, TypeOK, Place, Tree, Control, TryPoint, Stage,
       Phase, Absent, Invalid
<1>2. CommandInv'
    BY DEF IInv, TypeOK, CommandInv, Stage, FreshPoint, TryPoint
<1>3. Bounded'
    BY PublishAssumption DEF IInv, TypeOK, Bounded, Place, Tree, Absent, Invalid
<1>4. PlacesInv'
    BY DEF IInv, TypeOK, PlacesInv, RecoveryLeavesNothing, FreePoint, ReadyPoint,
       ArrivedPoint, FreshPoint, Place, Absent, Invalid
<1>5. SuccessIsCurrent' /\ RecoveryLeavesNothing'
    BY DEF IInv, TypeOK, CommandInv, PlacesInv, SuccessIsCurrent,
       RecoveryLeavesNothing, FreshPoint, ArrivedPoint, Place, Absent
<1>6. DestinationWhole'
    BY DEF IInv, TypeOK, PlacesInv, DestinationWhole, FreePoint, ReadyPoint,
       ArrivedPoint, Place, Absent
<1>7. Arrival /\ NoLoss
    BY DEF IInv, TypeOK, Bounded, PlacesInv, Arrival, NoLoss, FreePoint,
       ReadyPoint, ArrivedPoint, FreshPoint, Place, Tree, Absent, Invalid
<1> QED
    BY <1>1, <1>2, <1>3, <1>4, <1>5, <1>6, <1>7 DEF IInv

LEMMA DamageLemma ==
    ASSUME IInv, Damage
    PROVE  IInv' /\ Arrival /\ NoLoss
<1> USE DEF Damage, counters, Exists, Valid, ValidAtHead
<1>1. TypeOK'
    BY PublishAssumption DEF IInv, TypeOK, Place, Tree, Control, TryPoint, Stage,
       Phase, Absent, Invalid
<1>2. CommandInv'
    BY DEF IInv, TypeOK, CommandInv, Stage, FreshPoint, TryPoint
<1>3. Bounded'
    BY PublishAssumption DEF IInv, TypeOK, Bounded, Place, Tree, Absent, Invalid
<1>4. PlacesInv'
    BY DEF IInv, TypeOK, PlacesInv, RecoveryLeavesNothing, FreePoint, ReadyPoint,
       ArrivedPoint, FreshPoint, Place, Absent, Invalid
<1>5. SuccessIsCurrent' /\ RecoveryLeavesNothing'
    BY DEF IInv, TypeOK, CommandInv, PlacesInv, SuccessIsCurrent,
       RecoveryLeavesNothing, FreshPoint, ArrivedPoint, Place, Absent
<1>6. DestinationWhole'
    BY DEF IInv, TypeOK, PlacesInv, DestinationWhole, FreePoint, ReadyPoint,
       ArrivedPoint, Place, Absent
<1>7. Arrival /\ NoLoss
    BY DEF IInv, TypeOK, Bounded, PlacesInv, Arrival, NoLoss, FreePoint,
       ReadyPoint, ArrivedPoint, FreshPoint, Place, Tree, Absent, Invalid
<1> QED
    BY <1>1, <1>2, <1>3, <1>4, <1>5, <1>6, <1>7 DEF IInv

-------------------------------------------------------------------------------
(* The invariant is inductive, and every step is a good one.                  *)

LEMMA StepLemma ==
    ASSUME IInv, Next
    PROVE  IInv' /\ Arrival /\ NoLoss
<1>1. CASE \E c \in {"process", "render"} : Start(c)
    BY <1>1, StartLemma
<1>2. CASE Recovery
    BY <1>2, RecoveredLemma, UnreadableMarkerLemma, QuarantineOrphanLemma,
        RecoverNoMarkerLemma, RecoverBuildingLemma, RetireLemma,
        RecoverCandidateValidLemma, RecoverPreviousMovedLemma,
        RecoverCandidatePublishedLemma, UnhandledPhaseLemma, RedoMarkLemma,
        RedoPublishLemma, RedoPublishedLemma, DropDestinationLemma,
        RestoreLemma, FinishLemma, ScrapLemma DEF Recovery
<1>3. CASE PublishOutput
    BY <1>3, BeginLemma, BeginWorkLemma, BeginMarkLemma, BuildLemma,
        ValidateLemma, DisplaceLemma, MarkMovedLemma, PublishLemma,
        MarkPublishedLemma, CleanupLemma, AbortLemma DEF PublishOutput
<1>4. CASE Command
    BY <1>4, QuarantineInvalidDestinationLemma, CommitLemma, EndProcessLemma,
        RenderRejectedLemma, FinishedLemma DEF Command
<1>5. CASE Interrupt \/ Crash \/ Damage
    BY <1>5, InterruptLemma, CrashLemma, DamageLemma
<1> QED
    BY <1>1, <1>2, <1>3, <1>4, <1>5 DEF Next, Program

LEMMA StutterLemma ==
    ASSUME IInv, UNCHANGED vars
    PROVE  IInv'
BY DEF vars, IInv, TypeOK, CommandInv, Bounded, PlacesInv, SuccessIsCurrent,
       RecoveryLeavesNothing, DestinationWhole, Exists, Valid, ValidAtHead

LEMMA Inductive == Spec => []IInv
<1>1. IInv /\ [Next]_vars => IInv'
    BY StepLemma, StutterLemma
<1> QED
    BY InitLemma, <1>1, PTL DEF Spec

\* Every variable stays in the set of values the code gives it, however many
\* pages, deaths, exceptions and damages there are.
THEOREM TypeCorrect == Spec => []TypeOK
BY Inductive, PTL DEF IInv

\* Unless it was damaged from outside, the published directory is never seen
\* half written or half removed: publication and recovery move whole trees.
THEOREM DestinationIsWhole == Spec => []DestinationWhole
BY Inductive, PTL DEF IInv

\* A render that reports success leaves the output of the committed head, and
\* nothing of its transaction.
THEOREM SuccessMeansCurrent == Spec => []SuccessIsCurrent
BY Inductive, PTL DEF IInv

\* When recovery returns, no trace of an earlier transaction is left.
THEOREM RecoveryIsClean == Spec => []RecoveryLeavesNothing
BY Inductive, PTL DEF IInv

\* The deletion of a destination in _publish_candidate and the refusal of
\* _try_restore_valid_previous are never reached.
THEOREM DestinationIsFree == Spec => []DestinationFree
<1>1. IInv => DestinationFree
    BY DEF IInv, PlacesInv, DestinationFree, FreePoint
<1> QED
    BY Inductive, <1>1, PTL

\* What arrives at the destination is whole, whatever was damaged before.
THEOREM ArrivalsAreWhole == Spec => OnlyValidatedArrives
<1>1. IInv /\ [Next]_vars => [Arrival]_vars
    BY StepLemma
<1> QED
    BY Inductive, <1>1, PTL DEF Spec, OnlyValidatedArrives, Arrival

\* No command deletes an output of the reader that nothing valid replaces.
THEOREM NothingIsDestroyed == Spec => NothingValidDestroyed
<1>1. IInv /\ [Next]_vars => [NoLoss]_vars
    BY StepLemma
<1> QED
    BY Inductive, <1>1, PTL DEF Spec, NothingValidDestroyed, NoLoss

-------------------------------------------------------------------------------
(* The refinement: where nothing but deaths of the process goes wrong, the     *)
(* output is the one cell of OutputSlot.                                       *)

\* What the marker stands for: no output is set aside under the first phases,
\* and under the later ones the output of the head is at hand.
MarkerInv ==
  /\ phase # "unreadable"
  /\ phase \in {"none", "building"} => ~Exists("previous")
  /\ phase \in {"candidate-valid", "previous-moved"}
       => ValidAtHead("candidate") \/ ValidAtHead("destination")
  /\ phase = "candidate-published" => ValidAtHead("destination")
  /\ pc \in {"begin", "beginWork", "beginMark", "processing"} => phase = "none"
  /\ pc \in {"build", "validate", "abort", "retire"} => phase = "building"
  /\ pc \in ReadyPoint => phase \in {"candidate-valid", "previous-moved"}
  /\ pc = "finish" => ValidAtHead("destination")
  /\ pc \notin {"restore", "dropDestination", "scrap"}

\* A step that is not a commit.
SlotStep == Slot!Replace \/ UNCHANGED <<head, Visible>>

LEMMA RecoverySlotLemma ==
    ASSUME IInv, MarkerInv, damages = 0, Recovery
    PROVE  MarkerInv' /\ SlotStep
<1> USE DEF IInv, TypeOK, PlacesInv, DestinationWhole, RecoveryLeavesNothing,
        MarkerInv, SlotStep, Slot!Replace, Visible, FreePoint, ReadyPoint,
        ArrivedPoint, FreshPoint, Place, Absent, Invalid, Exists, Valid,
        ValidAtHead, counters
<1>1. CASE Recovered
    BY <1>1 DEF Recovered
<1>2. CASE UnreadableMarker
    BY <1>2 DEF UnreadableMarker, Mark
<1>3. CASE QuarantineOrphan
    BY <1>3 DEF QuarantineOrphan, Orphan, Quarantine, Without
<1>4. CASE RecoverNoMarker
    BY <1>4 DEF RecoverNoMarker, Orphan, Quarantine, Without, Goto
<1>5. CASE RecoverBuilding
    BY <1>5 DEF RecoverBuilding, Quarantine, Without, Goto
<1>6. CASE Retire
    BY <1>6 DEF Retire, Remove, Without, Mark
<1>7. CASE RecoverCandidateValid
    BY <1>7 DEF RecoverCandidateValid, Shape, RecoverDisplaced, Quarantine,
        Without, Rename, Moved, Goto, PublishCandidate, Remove
<1>8. CASE RecoverPreviousMoved
    BY <1>8 DEF RecoverPreviousMoved, Shape, RecoverDisplaced, Quarantine,
        Without, Goto, PublishCandidate, Remove, Rename, Moved
<1>9. CASE RecoverCandidatePublished
    BY <1>9 DEF RecoverCandidatePublished, Quarantine, Without, Goto
<1>10. CASE UnhandledPhase
    BY <1>10 DEF UnhandledPhase, Shape, Goto
<1>11. CASE RedoMark
    BY <1>11 DEF RedoMark, Mark
<1>12. CASE RedoPublish
    BY <1>12 DEF RedoPublish, PublishCandidate, Remove, Rename, Moved,
        Without
<1>13. CASE RedoPublished
    BY <1>13 DEF RedoPublished, Mark
<1>14. CASE DropDestination
    BY <1>14 DEF DropDestination, Quarantine, Without
<1>15. CASE Restore
    BY <1>15 DEF Restore, Rename, Moved, Quarantine, Without, Goto
<1>16. CASE Finish
    BY <1>16 DEF Finish, Remove, Without, Mark
<1>17. CASE Scrap
    BY <1>17 DEF Scrap, Quarantine, Without, Remove, Mark
<1> QED
    BY <1>1, <1>2, <1>3, <1>4, <1>5, <1>6, <1>7, <1>8, <1>9, <1>10, <1>11,
        <1>12, <1>13, <1>14, <1>15, <1>16, <1>17 DEF Recovery

LEMMA PublishSlotLemma ==
    ASSUME IInv, MarkerInv, damages = 0, PublishOutput
    PROVE  MarkerInv' /\ SlotStep
<1> USE DEF IInv, TypeOK, PlacesInv, DestinationWhole, RecoveryLeavesNothing,
        MarkerInv, SlotStep, Slot!Replace, Visible, FreePoint, ReadyPoint,
        ArrivedPoint, FreshPoint, Place, Absent, Invalid, Exists, Valid,
        ValidAtHead, counters
<1>1. CASE Begin
    BY <1>1 DEF Begin
<1>2. CASE BeginWork
    BY <1>2 DEF BeginWork
<1>3. CASE BeginMark
    BY <1>3 DEF BeginMark, Mark
<1>4. CASE Build
    BY <1>4 DEF Build
<1>5. CASE Validate
    BY <1>5 DEF Validate, Mark, Goto
<1>6. CASE Displace
    BY <1>6 DEF Displace, Remove, Without, Rename, Moved, Goto
<1>7. CASE MarkMoved
    BY <1>7 DEF MarkMoved, Mark
<1>8. CASE Publish
    BY <1>8 DEF Publish, PublishCandidate, Remove, Rename, Moved, Without
<1>9. CASE MarkPublished
    BY <1>9 DEF MarkPublished, Mark
<1>10. CASE Cleanup
    BY <1>10 DEF Cleanup, Remove, Without, Mark
<1>11. CASE Abort
    BY <1>11 DEF Abort, Quarantine, Without, Remove, Mark
<1> QED
    BY <1>1, <1>2, <1>3, <1>4, <1>5, <1>6, <1>7, <1>8, <1>9, <1>10, <1>11 DEF
        PublishOutput

\* For any number of pages and deaths, there is nothing to read until the first
\* render succeeds and one whole output, at its place or set aside, ever after,
\* replaced in one step by
\* the output of the book as committed then.  Exceptions inside a publication
\* are left out with reason: the run output_lost shows one that breaks this.
THEOREM OutputIsOneCell ==
    ASSUME MaxInterrupts = 0, MaxDamages = 0
    PROVE  Spec => PublishesAtomically
<1>1. Init => MarkerInv /\ Slot!SlotInit
    BY DEF Init, MarkerInv, ReadyPoint, Slot!SlotInit, Visible, Exists, Valid,
       Absent, Place
<1>2. ASSUME IInv, MarkerInv, [Next]_vars
      PROVE  MarkerInv' /\ [Slot!SlotNext]_(Slot!slotVars)
    <2>1. damages = 0 /\ ~Damage /\ ~Interrupt
        BY <1>2 DEF IInv, TypeOK, Damage, Interrupt
    <2>2. CASE Recovery
        BY <1>2, <2>1, <2>2, RecoverySlotLemma
           DEF SlotStep, Slot!SlotNext, Slot!slotVars
    <2>3. CASE PublishOutput
        BY <1>2, <2>1, <2>3, PublishSlotLemma
           DEF SlotStep, Slot!SlotNext, Slot!slotVars
    <2>4. CASE Commit
        BY <1>2, <2>4 DEF Commit, counters, IInv, TypeOK, MarkerInv, ReadyPoint,
           Exists, ValidAtHead, Visible, Valid, Slot!SlotNext, Slot!Advance
    <2>5. CASE QuarantineInvalidDestination
        BY <1>2, <2>1, <2>5 DEF QuarantineInvalidDestination, IInv,
           DestinationWhole, Exists, Valid
    <2>6. CASE \/ EndProcess \/ RenderRejected \/ Finished \/ Crash
               \/ \E c \in {"process", "render"} : Start(c)
               \/ UNCHANGED vars
        BY <1>2, <2>6 DEF EndProcess, RenderRejected, Finished, Crash, Start,
           Goto, vars, counters, MarkerInv, ReadyPoint, Exists, ValidAtHead,
           Visible, Valid, Slot!slotVars
    <2> QED
        BY <1>2, <2>1, <2>2, <2>3, <2>4, <2>5, <2>6 DEF Next, Program, Command
<1> QED
    BY Inductive, <1>1, <1>2, PTL DEF Spec, PublishesAtomically, Slot!SlotSpec

-------------------------------------------------------------------------------
(* One death: what recovery can find.  With a second one a marker can be over  *)
(* directories that no branch of recovery handles (the run output_stuck), so   *)
(* the invariant tells the first death from the next: before it a command      *)
(* meets no marker but its own, and after it no command dies any more.         *)

\* The process died at most once, and no exception was raised in a publication.
OneDeath == crashes <= 1 /\ interrupts = 0

\* The shapes a publication leaves under the two phases recovery is picky about.
Handled ==
  /\ phase = "candidate-valid" =>
       /\ Exists("destination") => ~Exists("previous")
       /\ Exists("destination") \/ Exists("candidate")
  /\ phase = "previous-moved" =>
       /\ Exists("previous")
       /\ Exists("destination") # Exists("candidate")

ReachInv ==
  /\ pc \in TryPoint \cup {"idle", "load"} => Handled
  /\ pc = "markMoved" => phase = "candidate-valid" /\ Exists("previous")
  /\ pc = "publish" /\ phase = "candidate-valid" => ~Exists("previous")
  /\ pc \in {"begin", "beginWork", "beginMark", "processing"} => phase = "none"
  /\ pc \in {"build", "validate", "abort", "retire"} => phase = "building"
  /\ pc \in {"displace", "redoMark"} => phase = "candidate-valid"
  /\ pc \in {"redoPublish", "redoPublished"} => phase = "previous-moved"
  /\ pc = "cleanup" => phase = "candidate-published"
  /\ pc \in {"done", "failed", "recovered"} => phase = "none"
  /\ pc = "load" /\ cmd = "publish" => phase = "none"
  /\ crashes = 0 /\ pc \notin TryPoint
       => phase \in {"none", "building", "unreadable"}
  /\ pc # "unhandled"

LEMMA RecoveryReachLemma ==
    ASSUME IInv, ReachInv, Recovery
    PROVE  ReachInv'
<1> USE DEF IInv, TypeOK, PlacesInv, RecoveryLeavesNothing, ReachInv,
        Handled, TryPoint, FreePoint, ReadyPoint, ArrivedPoint, FreshPoint,
        Place, Absent, Invalid, Exists, Valid, ValidAtHead, counters
<1>1. CASE Recovered
    BY <1>1 DEF Recovered
<1>2. CASE UnreadableMarker
    BY <1>2 DEF UnreadableMarker, Mark
<1>3. CASE QuarantineOrphan
    BY <1>3 DEF QuarantineOrphan, Orphan, Quarantine, Without
<1>4. CASE RecoverNoMarker
    BY <1>4 DEF RecoverNoMarker, Orphan, Quarantine, Without, Goto
<1>5. CASE RecoverBuilding
    BY <1>5 DEF RecoverBuilding, Quarantine, Without, Goto
<1>6. CASE Retire
    BY <1>6 DEF Retire, Remove, Without, Mark
<1>7. CASE RecoverCandidateValid
    BY <1>7 DEF RecoverCandidateValid, Shape, RecoverDisplaced, Quarantine,
        Without, Rename, Moved, Goto, PublishCandidate, Remove
<1>8. CASE RecoverPreviousMoved
    BY <1>8 DEF RecoverPreviousMoved, Shape, RecoverDisplaced, Quarantine,
        Without, Goto, PublishCandidate, Remove, Rename, Moved
<1>9. CASE RecoverCandidatePublished
    BY <1>9 DEF RecoverCandidatePublished, Quarantine, Without, Goto
<1>10. CASE UnhandledPhase
    BY <1>10 DEF UnhandledPhase, Shape, Goto
<1>11. CASE RedoMark
    BY <1>11 DEF RedoMark, Mark
<1>12. CASE RedoPublish
    BY <1>12 DEF RedoPublish, PublishCandidate, Remove, Rename, Moved,
        Without
<1>13. CASE RedoPublished
    BY <1>13 DEF RedoPublished, Mark
<1>14. CASE DropDestination
    BY <1>14 DEF DropDestination, Quarantine, Without
<1>15. CASE Restore
    BY <1>15 DEF Restore, Rename, Moved, Quarantine, Without, Goto
<1>16. CASE Finish
    BY <1>16 DEF Finish, Remove, Without, Mark
<1>17. CASE Scrap
    BY <1>17 DEF Scrap, Quarantine, Without, Remove, Mark
<1> QED
    BY <1>1, <1>2, <1>3, <1>4, <1>5, <1>6, <1>7, <1>8, <1>9, <1>10, <1>11,
        <1>12, <1>13, <1>14, <1>15, <1>16, <1>17 DEF Recovery

LEMMA PublishReachLemma ==
    ASSUME IInv, ReachInv, PublishOutput
    PROVE  ReachInv'
<1> USE DEF IInv, TypeOK, PlacesInv, RecoveryLeavesNothing, ReachInv,
        Handled, TryPoint, FreePoint, ReadyPoint, ArrivedPoint, FreshPoint,
        Place, Absent, Invalid, Exists, Valid, ValidAtHead, counters
<1>1. CASE Begin
    BY <1>1 DEF Begin
<1>2. CASE BeginWork
    BY <1>2 DEF BeginWork
<1>3. CASE BeginMark
    BY <1>3 DEF BeginMark, Mark
<1>4. CASE Build
    BY <1>4 DEF Build
<1>5. CASE Validate
    BY <1>5 DEF Validate, Mark, Goto
<1>6. CASE Displace
    BY <1>6 DEF Displace, Remove, Without, Rename, Moved, Goto
<1>7. CASE MarkMoved
    BY <1>7 DEF MarkMoved, Mark
<1>8. CASE Publish
    BY <1>8 DEF Publish, PublishCandidate, Remove, Rename, Moved, Without
<1>9. CASE MarkPublished
    BY <1>9 DEF MarkPublished, Mark
<1>10. CASE Cleanup
    BY <1>10 DEF Cleanup, Remove, Without, Mark
<1>11. CASE Abort
    BY <1>11 DEF Abort, Quarantine, Without, Remove, Mark
<1> QED
    BY <1>1, <1>2, <1>3, <1>4, <1>5, <1>6, <1>7, <1>8, <1>9, <1>10, <1>11 DEF
        PublishOutput

\* However many pages there are and whatever step the process dies at, the
\* next command recovers the output: no marker leads recovery into a shape none
\* of its branches handles.  OneDeath is as much as can be said: the run
\* output_stuck shows two deaths after which recovery fails.
THEOREM OneDeathIsHandled == Spec => [](OneDeath => RecoverySucceeds)
<1> DEFINE Inv == OneDeath => ReachInv
<1>1. Init => Inv
    BY DEF Init, ReachInv, Handled, TryPoint
<1>2. ASSUME IInv, Inv, [Next]_vars
      PROVE  Inv'
    <2> SUFFICES ASSUME OneDeath' PROVE ReachInv'
        OBVIOUS
    <2>1. CASE Recovery
        <3>1. UNCHANGED counters
            BY <2>1 DEF Recovery, Recovered, UnreadableMarker, QuarantineOrphan,
               RecoverNoMarker, RecoverBuilding, Retire, RecoverCandidateValid,
               RecoverDisplaced, PublishCandidate, RecoverPreviousMoved,
               RecoverCandidatePublished, UnhandledPhase, RedoMark, RedoPublish,
               RedoPublished, DropDestination, Restore, Finish, Scrap,
               Rename, Quarantine, Remove, Mark, Goto, counters
        <3> QED
            BY <1>2, <2>1, <3>1, RecoveryReachLemma DEF OneDeath, counters
    <2>2. CASE PublishOutput
        <3>1. UNCHANGED counters
            BY <2>2 DEF PublishOutput, Begin, BeginWork, BeginMark, Build,
               Validate, Displace, MarkMoved, Publish, PublishCandidate,
               MarkPublished, Cleanup, Abort, Rename, Quarantine, Remove, Mark,
               Goto, counters
        <3> QED
            BY <1>2, <2>2, <3>1, PublishReachLemma DEF OneDeath, counters
    <2>3. CASE Crash
        BY <1>2, <2>3 DEF Crash, OneDeath, IInv, TypeOK, ReachInv,
           Handled, TryPoint, Exists
    <2>4. CASE Interrupt
        BY <1>2, <2>4 DEF Interrupt, OneDeath, IInv, TypeOK
    <2>5. CASE Damage
        BY <1>2, <2>5 DEF Damage, OneDeath, IInv, TypeOK, ReachInv, Handled,
           TryPoint, Exists, Valid, Place, Absent, Invalid
    <2>6. CASE Commit \/ QuarantineInvalidDestination
        BY <1>2, <2>6 DEF Commit, QuarantineInvalidDestination, Quarantine,
           Without, counters, OneDeath, ReachInv, Handled, TryPoint,
           Exists
    <2>7. CASE \/ EndProcess \/ RenderRejected \/ Finished
               \/ \E c \in {"process", "render"} : Start(c)
               \/ UNCHANGED vars
        BY <1>2, <2>7 DEF EndProcess, RenderRejected, Finished, Start, Goto, vars,
           counters, OneDeath, ReachInv, Handled, TryPoint, Exists
    <2> QED
        BY <1>2, <2>1, <2>2, <2>3, <2>4, <2>5, <2>6, <2>7 DEF Next, Program, Command
<1>3. Inv => (OneDeath => RecoverySucceeds)
    BY DEF ReachInv, RecoverySucceeds
<1> QED
    BY Inductive, <1>1, <1>2, <1>3, PTL DEF Spec

===============================================================================
