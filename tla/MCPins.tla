------------------------------- MODULE MCPins -------------------------------
(* An input that is replugged once, and two faults.                          *)
EXTENDS Pins, TLC

MCChildren == {1, 2}
=============================================================================
