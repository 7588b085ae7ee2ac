----------------------------- MODULE MCProcessRun -----------------------------
EXTENDS ProcessRun

\* A page of 10 by 10 pixels has 100 thousandths to a pixel: the whole page, two
\* pixels with their corners swapped, one pixel, and the inside of one. Read
\* again, at 96 pixels to the inch, it has 7 by 7 points of 142 thousandths.
MCBoxes ==
    {[left |-> 0, top |-> 0, right |-> 1000, bottom |-> 1000],
     [left |-> 300, top |-> 300, right |-> 100, bottom |-> 100],
     [left |-> 100, top |-> 0, right |-> 200, bottom |-> 1000],
     [left |-> 0, top |-> 310, right |-> 1000, bottom |-> 390]}

CONSTANTS b1, r1, p1, w1

\* The names of contents, releases and paths are interchangeable, so that the
\* world can be taken to begin like this. It holds of all later states, for it
\* says nothing of a world that has changed.
MCStart ==
    changes = 0 =>
        /\ file[p1] = w1 /\ server.path = p1
        /\ pdf = b1 /\ release = r1

===============================================================================
