------------------------------- MODULE MCSession -------------------------------
(* Model-checking instances of Session. *)
EXTENDS Session

Region(first, end, priority) ==
    [first |-> first, end |-> end, priority |-> priority, deadline |-> 0]

NoRegions == {}
NoFoci == {}

(* A region that ends inside a column, and one that spans two columns.      *)
TwoRegions == {Region(0, 1, 2), Region(1, 4, 1)}

(* A window over the second column.                                         *)
OneFocus == {[playhead |-> 2, behind |-> 0, ahead |-> 2, priority |-> 1]}

================================================================================
