------------------------- MODULE MCTelemetryStorage -------------------------
(* Small instances of TelemetryStorage for TLC.                            *)
EXTENDS TelemetryStorage

CONSTANTS s1, s2

BothSeries   == {s1, s2}
OneSeries    == {s1}
TwoKinds     == {{s1}, {s1, s2}}
EachOrBoth   == {{s1}, {s2}, {s1, s2}}
SinglePoint  == {{s1}}
=============================================================================
