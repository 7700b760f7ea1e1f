------------------------------ MODULE MCSession ------------------------------
(* A shop's devices and their tokens, for TLC.                              *)
EXTENDS Session

CONSTANTS Phone, Tablet

OneDevice == {Phone}
TwoDevices == {Phone, Tablet}
=============================================================================
