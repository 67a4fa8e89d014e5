-------------------------- MODULE MCHookDispatcher --------------------------
(* Two keys that can carry any chord, two terminals that come and go, one    *)
(* drag after another.  The terminals are interchangeable.                   *)
EXTENDS HookDispatcher, TLC

CONSTANTS b, q, ctrl_b, cmd, quit, other

MCBinding == [c \in {cmd, quit} |-> IF c = cmd THEN "action" ELSE "shutdown"]

MCSymmetry == Permutations(Window)

=============================================================================
