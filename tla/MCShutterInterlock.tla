------------------------- MODULE MCShutterInterlock -------------------------
(* Small instances of OutputCtrl with the clock of ShutterInterlock.       *)
EXTENDS ShutterInterlock

Sh(u, d, t) == [up |-> u, down |-> d, travel |-> t]
MCTable(a, b) == [s \in Slot |-> IF s = 0 THEN a ELSE b]

\* A shutter that takes another relay and moves to the other slot.
MCApart ==
  {MCTable(Sh(0, 1, 1), EmptyEntry),
   MCTable(EmptyEntry, Sh(1, 2, 1))}

MCStandard == {[r \in Relay |-> 0]}
MCNoPulse == {}
MCOneCount == {1}
=============================================================================
