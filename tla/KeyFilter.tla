----------------------------- MODULE KeyFilter -----------------------------
(***************************************************************************)
(* What the prefix layer promises the applications behind it, whatever its *)
(* bindings and its clock: every keystroke, from its press through its     *)
(* repeats to its release, goes one way.  A keystroke the application has  *)
(* begun to see is swallowed half-way only if it is the one that engages   *)
(* the filter.  What the filter holds it lets go of only all at once, and  *)
(* only by disengaging.                                                    *)
(*                                                                         *)
(* KeyboardSession shows that PrefixMachine implements this specification. *)
(***************************************************************************)
CONSTANT Key

VARIABLES fate, engaged

(***************************************************************************)
(* "up"        the key is not down                                         *)
(* "passed"    the application in the foreground has seen its press        *)
(* "swallowed" the filter consumed its press and holds it                  *)
(* "loose"     it is down and nobody is committed to it: the filter let it *)
(*             go, or the application in the foreground came after its     *)
(*             press                                                       *)
(***************************************************************************)

\* Where the next event of a key may lead it.
Follow(f) ==
  CASE f = "up"        -> {"passed", "swallowed"}
    [] f = "passed"    -> {"passed", "up"}
    [] f = "swallowed" -> {"swallowed", "up"}
    [] f = "loose"     -> {"passed", "swallowed", "up"}

LetGo == [k \in Key |-> IF fate[k] = "swallowed" THEN "loose" ELSE fate[k]]

\* What an event finds: the fates as they are, or all the filter held let go.
Before(freed) == IF freed THEN LetGo ELSE fate

Event(k) ==
  \E freed \in {FALSE, engaged} :
    /\ \E to \in Follow(Before(freed)[k]) : fate' = [Before(freed) EXCEPT ![k] = to]
    /\ engaged' \in IF freed THEN {FALSE} ELSE {engaged, FALSE}

Engage(k) ==
  /\ fate[k] # "swallowed" \/ engaged
  /\ fate' = [Before(engaged) EXCEPT ![k] = "swallowed"]
  /\ engaged' = TRUE

Disengage ==
  /\ engaged
  /\ fate' = LetGo
  /\ engaged' = FALSE

FocusChange ==
  /\ fate' = [k \in Key |-> IF fate[k] = "passed" THEN "loose" ELSE fate[k]]
  /\ UNCHANGED engaged

\* A press neither the filter nor the application sees.
PressElsewhere(k) ==
  /\ fate[k] = "up"
  /\ fate' = [fate EXCEPT ![k] = "loose"]
  /\ UNCHANGED engaged

Init ==
  /\ fate = [k \in Key |-> "up"]
  /\ engaged = FALSE

Next ==
  \/ \E k \in Key : Event(k) \/ Engage(k) \/ PressElsewhere(k)
  \/ Disengage
  \/ FocusChange

Spec == Init /\ [][Next]_<<fate, engaged>>

=============================================================================
