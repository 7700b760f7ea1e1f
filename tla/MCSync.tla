------------------------------- MODULE MCSync -------------------------------
(* Two devices and their server, for TLC.                                   *)
EXTENDS Sync, TLC

CONSTANTS Phone, Tablet, Credit

TwoDevices == {Phone, Tablet}
OneDevice == {Phone}

OneType == [e \in Event |-> Credit]

NoneRefused == {}
FirstRefused == {<<Phone, 1>>}

AllReadable == [d \in Device |-> {}]
TabletOutdated == [d \in Device |-> IF d = Tablet THEN {<<Phone, 1>>} ELSE {}]
=============================================================================
