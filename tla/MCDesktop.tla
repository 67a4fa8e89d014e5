----------------------------- MODULE MCDesktop -----------------------------
(***************************************************************************)
(* Two window handles, two terminals: one with two tabs, of which one is   *)
(* split, the other with one tab that fills the window.                    *)
(***************************************************************************)
EXTENDS Desktop

CONSTANTS A, B, a1, a2, b1, w1, w2

MCFirstOwner == [w \in {w1, w2} |-> IF w = w1 THEN A ELSE B]

MCTabsOf == [t \in {A, B} |-> IF t = A THEN {a1, a2} ELSE {b1}]

MCPanesOf ==
  [t \in {a1, a2, b1} |-> IF t = a1 THEN {<<0, 2>>, <<2, 4>>} ELSE {<<0, 4>>}]

=============================================================================
