----------------------------- MODULE DeliveryMC -----------------------------
(* A short line with a gate after the plan, two versions of the inputs,    *)
(* one review fix.                                                         *)
EXTENDS Delivery

MCLine == <<"plan", "build_and_test", "review", "deliver">>

=============================================================================
