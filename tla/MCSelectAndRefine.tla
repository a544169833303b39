------------------------- MODULE MCSelectAndRefine -------------------------
(* Two cases; rules of two priorities and sizes, that govern one case, both or none. *)
EXTENDS SelectAndRefine

Content(priority, support, estimated, labels) ==
    [id |-> <<9>>, priority |-> priority, support |-> support, ratio |-> support,
     estimated |-> estimated, text |-> 2, conflicts |-> FALSE, golden |-> FALSE, labels |-> labels]

SomeContents ==
    {Content(1, 3, 2, {1, 2}), Content(2, 4, 1, {2}), Content(2, 2, 3, {3})}

\* The last is as the teacher returns it when it leaves out what it is not shown.
SomeRevisions ==
    {Content(1, 5, 3, {1}), Content(1, 2, 1, {1}), Content(100, 0, 0, {1})}

TwoCases == 1..2
=============================================================================
