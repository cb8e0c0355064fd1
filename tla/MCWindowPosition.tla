---------------------------- MODULE MCWindowPosition ----------------------------
EXTENDS WindowPosition

AllKinds == {"toplevel", "popup", "xwayland"}
Toplevel == {"toplevel"}

\* A place, a size and both of them differ; 3 is beyond the limit of 2.
UserBoxes == {[x |-> 0, width |-> 1], [x |-> 0, width |-> 2],
              [x |-> 1, width |-> 1], [x |-> 3, width |-> 1]}
AppBoxes == [x : {0}, width : {1, 2, 3}]
=================================================================================
