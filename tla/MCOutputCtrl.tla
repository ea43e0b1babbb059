---------------------------- MODULE MCOutputCtrl ----------------------------
(* Small instances of OutputCtrl for TLC. *)
EXTENDS OutputCtrl

\* Tables of the output form, for two slots.
Sh(u, d, t) == [up |-> u, down |-> d, travel |-> t]
MCTable(a, b) == [s \in Slot |-> IF s = 0 THEN a ELSE b]

\* Two shutters, a shutter that moves to the other slot, two that collide.
MCTables ==
  {MCTable(Sh(0, 1, 1), EmptyEntry),
   MCTable(Sh(0, 1, 1), Sh(2, 1, 1)),
   MCTable(EmptyEntry, Sh(1, 0, 1))}

\* A shutter that takes another pair in its slot.
MCMove == {MCTable(Sh(0, 1, 2), EmptyEntry), MCTable(Sh(1, 2, 1), EmptyEntry)}

\* One slot: with the pair, with the pair swapped, without.
MCOneSlot ==
  {MCTable(e, EmptyEntry) : e \in {Sh(0, 1, 2), Sh(1, 0, 1), EmptyEntry}}

\* All standard, or the last relay timed.
MCStandard == {[r \in Relay |-> 0]}
MCModes == MCStandard \cup {[r \in Relay |-> IF r = MaxRelays - 1 THEN 2 ELSE 0]}

MCPulseTicks == {1}
MCNoPulse == {}
MCOneCount == {1}
MCCounts == {1, 2}
=============================================================================
