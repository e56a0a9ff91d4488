-------------------------- MODULE MCGrantSession --------------------------
(* Constant values for the model checking of GrantSession.                 *)
EXTENDS GrantSession

CONSTANTS g1, g2, w1, sync

OneAndTwo == [g \in Grant |-> IF g = g1 THEN 1 ELSE 2]
AllOne == [g \in Grant |-> 1]

(* One session: the clock to 3, two commands and a fault, five steps of     *)
(* these in all (the clock starts at 1).                                    *)
SingleBounds == {<<t, c, f>> \in (1..3) \X (0..2) \X (0..1) : t + c + f <= 5}

(* A root and an extension: a third command only after a fault, as its      *)
(* retry, and the clock moves beside two commands or a command and a fault. *)
ExtendedBounds == {<<t, c, f>> \in (1..2) \X (0..3) \X (0..1) :
  c <= 2 + f /\ (t = 2 => c + f <= 2)}
=============================================================================
