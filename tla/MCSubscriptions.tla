--------------------------- MODULE MCSubscriptions ----------------------------
(***************************************************************************)
(* Instances of Subscriptions: bindings opened, disposed and bound again   *)
(* around changes and replacements of the state.                           *)
(***************************************************************************)
EXTENDS Subscriptions

=============================================================================
