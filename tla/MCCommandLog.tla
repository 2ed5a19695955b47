---------------------------- MODULE MCCommandLog ----------------------------
(* Small instances of CommandLog for TLC.                                  *)
EXTENDS CommandLog

CONSTANTS c1, c2, c3

OneCommand    == {c1}
TwoCommands   == {c1, c2}
ThreeCommands == {c1, c2, c3}
=============================================================================
