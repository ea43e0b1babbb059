------------------------------ MODULE RelayBus ------------------------------
(***************************************************************************)
(* The relay chain at the level of its pins: the state bytes of            *)
(* relay_chain.c, the bits clocked into the cascaded DRV8860 and the latch *)
(* that copies the shift register to the relay outputs.                    *)
(*                                                                         *)
(* On the TM4C the web and MQTT handlers run in the Ethernet interrupt.    *)
(* RelayChainSet masks nothing: an interrupt may come between any two      *)
(* steps of a call of the main loop, and runs a whole call of its own.     *)
(***************************************************************************)
EXTENDS Integers

CONSTANTS
  Bits,        \* 8: relays of one DRV8860
  Boards,      \* DRV8860 devices wired in the cascade
  DevCounts    \* device counts the configuration may ask for

ASSUME BitsAssumption == Bits \in Nat \ {0}
ASSUME BoardsAssumption == Boards \in Nat \ {0}
ASSUME DevCountsAssumption == DevCounts \subseteq 0 .. Boards

\* Relay d*Bits + b is bit b of byte d; cell p of the cascade drives output p.
Relay == 0 .. Boards * Bits - 1
Dev(r) == r \div Bits
Bit == 0 .. Bits - 1
Zero == [r \in Relay |-> 0]

VARIABLES
  devices,  \* g_ui8Devices
  state,    \* g_pui8State
  clk,      \* level of the CLK pin
  din,      \* level of the DIN pin
  reg,      \* the shift registers of the cascade, cell 0 nearest the MCU
  outputs,  \* what the last latch pulse copied
  enable,   \* level of the ENABLE pin
  pc,       \* step of the call the main loop is in
  pos,      \* the relay being written or shifted
  byte,     \* the state byte the call holds in a register
  torn      \* ghost: a handler has shifted in the middle of the current shift

pins == <<clk, din, reg, outputs>>
call == <<pc, pos, byte>>
vars == <<devices, state, pins, enable, call, torn>>

Count == devices * Bits                         \* RelayChainCount

ByteOf(d) == [b \in Bit |-> state[d * Bits + b]]

\* Mutant: the device nearest the MCU is shifted first.
BugClocked(s, n) ==
  [p \in Relay |-> IF p < n THEN s[(Dev(n - 1) - Dev(p)) * Bits + (p % Bits)] ELSE reg[p - n]]

\* The cascade after n bits were clocked in that end with the image s.
Clocked(s, n) == [p \in Relay |-> IF p < n THEN s[p] ELSE reg[p - n]]

-----------------------------------------------------------------------------
(* The main loop.                                                          *)

\* RelayChainSet reads the byte of the relay and changes one bit of it.
SetLoad(r, on) ==
  /\ pc = "idle" /\ r < Count
  /\ byte' = [ByteOf(Dev(r)) EXCEPT ![r % Bits] = on]
  /\ pos' = r /\ pc' = "store"
  /\ UNCHANGED <<devices, state, pins, enable, torn>>

SetStore ==
  /\ pc = "store"
  /\ state' = [q \in Relay |-> IF Dev(q) = Dev(pos) THEN byte[q % Bits] ELSE state[q]]
  /\ pos' = Count - 1 /\ pc' = "load"
  /\ torn' = FALSE
  /\ UNCHANGED <<devices, pins, enable, byte>>

\* RelayChainSetDevices: the count, then the bytes, then the shift.
SetDevices(n) ==
  /\ pc = "idle" /\ n # devices
  /\ devices' = n
  /\ pc' = "clear"
  /\ UNCHANGED <<state, pins, enable, pos, byte, torn>>

\* Mutant: the shift runs once for an empty chain, too.
BugClear ==
  /\ pc = "clear"
  /\ state' = Zero
  /\ pos' = Count - 1 /\ pc' = "load"
  /\ torn' = FALSE
  /\ UNCHANGED <<devices, pins, enable, byte>>

Clear ==
  /\ pc = "clear"
  /\ state' = Zero
  /\ pos' = Count - 1 /\ pc' = IF Count = 0 THEN "latch" ELSE "load"
  /\ torn' = FALSE
  /\ UNCHANGED <<devices, pins, enable, byte>>

\* RelayChainShift: bytes from the farthest device, MSB first.
Load ==
  /\ pc = "load"
  /\ byte' = ByteOf(Dev(pos)) /\ pc' = "data"
  /\ UNCHANGED <<devices, state, pins, enable, pos, torn>>

\* Mutant: the bit after the current one is driven.
BugData ==
  /\ pc = "data"
  /\ din' = byte[(pos + 1) % Bits] /\ pc' = "rise"
  /\ UNCHANGED <<devices, state, clk, reg, outputs, enable, pos, byte, torn>>

Data ==
  /\ pc = "data"
  /\ din' = byte[pos % Bits] /\ pc' = "rise"
  /\ UNCHANGED <<devices, state, clk, reg, outputs, enable, pos, byte, torn>>

\* Mutant: LATCH stays high while the bits pass.
BugRise ==
  /\ pc = "rise"
  /\ clk' = 1 /\ pc' = "fall"
  /\ reg' = IF clk = 0 THEN [p \in Relay |-> IF p = 0 THEN din ELSE reg[p - 1]] ELSE reg
  /\ outputs' = reg'
  /\ UNCHANGED <<devices, state, din, enable, pos, byte, torn>>

\* DIN is sampled on the rising edge.
Rise ==
  /\ pc = "rise"
  /\ clk' = 1 /\ pc' = "fall"
  /\ reg' = IF clk = 0 THEN [p \in Relay |-> IF p = 0 THEN din ELSE reg[p - 1]] ELSE reg
  /\ UNCHANGED <<devices, state, din, outputs, enable, pos, byte, torn>>

Fall ==
  /\ pc = "fall"
  /\ clk' = 0
  /\ \/ pos = 0 /\ pc' = "latch" /\ UNCHANGED pos
     \/ pos > 0 /\ pos' = pos - 1 /\ pc' = IF pos % Bits = 0 THEN "load" ELSE "data"
  /\ UNCHANGED <<devices, state, din, reg, outputs, enable, byte, torn>>

\* RelayChainInit ends with one more write, the ENABLE pin.
Latch ==
  /\ pc = "latch"
  /\ outputs' = reg
  /\ pc' = IF enable THEN "idle" ELSE "enable"
  /\ UNCHANGED <<devices, state, clk, din, reg, enable, pos, byte, torn>>

Enable ==
  /\ pc = "enable"
  /\ enable' = TRUE /\ pc' = "idle"
  /\ UNCHANGED <<devices, state, pins, pos, byte, torn>>

\* RelayChainInit up to its shift.
RelayChainInit(n) ==
  /\ pc = "boot"
  /\ clk' = 0 /\ din' = 0
  /\ devices' = n /\ pc' = "clear"
  /\ UNCHANGED <<state, reg, outputs, enable, pos, byte, torn>>

-----------------------------------------------------------------------------
(* The interrupt: one whole RelayChainSet.  When the main loop has left CLK *)
(* high, the first bit makes no rising edge and is not sampled.             *)

\* Mutant: the last bit of the chain is not clocked.
BugSampled == Count - 1

Sampled == Count - clk

IsrSet(r, on) ==
  /\ r < Count
  /\ state' = [state EXCEPT ![r] = on]
  /\ reg' = Clocked(state', Sampled)
  /\ clk' = 0 /\ din' = state'[0]
  /\ outputs' = reg'
  /\ torn' = (pc \in {"load", "data", "rise", "fall", "latch"})
  /\ UNCHANGED <<devices, enable, call>>

\* A reset of the MCU: the outputs are disabled, the cascade keeps its bits.
Reset ==
  /\ pc # "boot"
  /\ devices' = 0 /\ state' = Zero
  /\ enable' = FALSE /\ clk' = 0 /\ din' = 0
  /\ pc' = "boot" /\ pos' = 0 /\ byte' = [b \in Bit |-> 0] /\ torn' = FALSE
  /\ UNCHANGED <<reg, outputs>>

-----------------------------------------------------------------------------
\* Power-up: the DRV8860 come up with all outputs off.
Init ==
  /\ devices = 0 /\ state = Zero
  /\ clk = 0 /\ din = 0 /\ reg = Zero /\ outputs = Zero
  /\ enable = FALSE /\ torn = FALSE
  /\ pc = "boot" /\ pos = 0 /\ byte = [b \in Bit |-> 0]

Next ==
  \/ \E r \in Relay, on \in {0, 1} : SetLoad(r, on)
  \/ SetStore
  \/ \E n \in DevCounts : SetDevices(n)
  \/ Clear \/ Load \/ Data \/ Rise \/ Fall \/ Latch \/ Enable
  \/ \E n \in DevCounts : RelayChainInit(n)
  \/ \E r \in Relay, on \in {0, 1} : IsrSet(r, on)
  \/ Reset

Spec == Init /\ [][Next]_vars

-----------------------------------------------------------------------------
(* Properties.                                                             *)

Level == [Relay -> {0, 1}]

\* Every variable keeps its range; pos stays on the chain while a shift runs.
TypeOK ==
  /\ devices \in 0 .. Boards
  /\ state \in Level /\ reg \in Level /\ outputs \in Level
  /\ clk \in {0, 1} /\ din \in {0, 1}
  /\ enable \in BOOLEAN /\ torn \in BOOLEAN
  /\ pc \in {"boot", "idle", "store", "clear", "load", "data", "rise", "fall", "latch", "enable"}
  /\ pos \in -1 .. Boards * Bits - 1
  /\ pc \in {"store", "load", "data", "rise", "fall"} => pos \in 0 .. Count - 1
  /\ byte \in [Bit -> {0, 1}]

\* The current that flows through relay r.
Driven(r) == IF enable THEN outputs[r] ELSE 0

Match == \A r \in Relay : r < Count => Driven(r) = state[r]

\* The relays are those of the state bytes whenever the main loop is out of a
\* call, provided that the last shift was not cut by another one: one whole
\* shift repairs whatever an earlier mixture left in the cascade.
Heals == pc = "idle" /\ ~torn => Match

\* Unless a shift is cut, a relay of the chain clicks only to the level of its
\* bit: the bits that pass through its device are never seen at the output, and
\* neither is what the cascade held before a reset.
NoClick == [][\A r \in Relay :
  r < Count /\ r < Count' /\ Driven(r)' # Driven(r) /\ ~torn' => Driven(r)' = state'[r]]_vars

\* State byte 0 ends up in the device nearest the MCU, after every call.
Follows == pc = "idle" => Match
=============================================================================
