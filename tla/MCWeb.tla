------------------------------- MODULE MCWeb --------------------------------
(***************************************************************************)
(* Web for TLC: settings on a scale of 0 .. 4.                             *)
(***************************************************************************)
EXTENDS Web, TLC

MCDefaults == [amber |-> 2, red |-> 3, attention |-> 2, critical |-> 3, alert |-> 2, kill |-> 3]

\* No overrides, and an operator who set long windows.
MCFiles == {<<>>, [alert |-> 3, kill |-> 3]}

MCBodies ==
  {<<>>,
   [alert |-> 3],
   [kill |-> 2],
   [alert |-> 4, kill |-> 4],
   [alert |-> 1, kill |-> 1, critical |-> 2],
   [attention |-> 4],
   [critical |-> 5],
   [amber |-> 3],
   [alert |-> 0]}

=============================================================================
