----------------------------- MODULE OutputSlot -----------------------------
(***************************************************************************)
(* What publishing a rendered output promises to the person who reads the  *)
(* run directory: the output is one cell that is empty until the first     *)
(* render succeeds, and from then on always holds one whole output.  It    *)
(* changes only by being replaced, in one indivisible step, with the       *)
(* output of the book as it is committed at that moment.  Nothing else     *)
(* that a command does, a crash, a failed render or a recovery, touches it.*)
(***************************************************************************)
EXTENDS Integers

CONSTANT Empty          \* the content of the cell before the first render

VARIABLES head,         \* number of committed pages
          visible       \* page count of the output there is to read, or Empty

slotVars == <<head, visible>>

SlotInit == head = 0 /\ visible = Empty

\* One more page of the book is committed.
Advance == head' = head + 1 /\ UNCHANGED visible

\* The output of the whole committed book replaces the one before.
Replace == visible' = head /\ UNCHANGED head

SlotNext == Advance \/ Replace

SlotSpec == SlotInit /\ [][SlotNext]_slotVars

=============================================================================
