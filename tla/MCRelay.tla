------------------------------- MODULE MCRelay -------------------------------
(* The pollers of one node, as model values. *)
EXTENDS Relay

CONSTANTS w1, w2

OnePoller == {w1}
TwoPollers == {w1, w2}
==============================================================================
