---------------------------- MODULE MCPaneResize ----------------------------
(***************************************************************************)
(* A window of up to three panes, in every tree that splits at a third or  *)
(* at two thirds of it, pressed on and beside every divider.               *)
(***************************************************************************)
EXTENDS PaneResize

\* On a line, where two meet, and in the middle of a pane.
MCPressPoint == {20, 41, 81}

\* A jitter of less than a step, and back from more than eight steps.
MCReach == {-3, 57, 60}

=============================================================================
