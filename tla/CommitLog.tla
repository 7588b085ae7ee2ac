----------------------------- MODULE CommitLog -----------------------------
(***************************************************************************)
(* What the run directory promises about the pages of a book: they form a  *)
(* log that only grows, one whole page at its end at a time.  An accepted  *)
(* page is never changed, dropped or overtaken, whatever stops a command.  *)
(***************************************************************************)
EXTENDS Naturals, Sequences

CONSTANTS Content,      \* what a committed page can hold
          PageCount     \* pages of the source PDF

VARIABLE log            \* the accepted pages, in order

LogInit == log = <<>>

AppendPage(c) == Len(log) < PageCount /\ log' = Append(log, c)

LogNext == \E c \in Content : AppendPage(c)

LogSpec == LogInit /\ [][LogNext]_log

=============================================================================
