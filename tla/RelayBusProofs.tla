--------------------------- MODULE RelayBusProofs ---------------------------
(***************************************************************************)
(* What RelayBus guarantees for all numbers of bits and devices and with   *)
(* any preemption: the ranges, and that a shift nothing has cut leaves the *)
(* relays as the state bytes say, whatever the cascade held before.        *)
(***************************************************************************)
EXTENDS RelayBus, TLAPS

-----------------------------------------------------------------------------
(* Arithmetic of bytes and bits.                                           *)

LEMMA DivMod ==
  ASSUME NEW p \in Nat, NEW b \in Nat \ {0}
  PROVE  p \div b \in Nat /\ p % b \in 0 .. b - 1 /\ p = (p \div b) * b + (p % b)
BY SMT

\* The quotient and the remainder are unique.
LEMMA QuotientUnique ==
  ASSUME NEW b \in Nat \ {0}, NEW q \in Nat, NEW r \in Nat,
         NEW x \in 0 .. b - 1, NEW y \in 0 .. b - 1, q * b + x = r * b + y
  PROVE  q = r
<1>1. q < r => (q + 1) * b <= r * b BY SMT
<1>2. r < q => (r + 1) * b <= q * b BY SMT
<1> QED BY <1>1, <1>2, SMT

\* The relay below one that is not bit 0 is on the same device.
LEMMA SameDevice ==
  ASSUME NEW p \in Nat, NEW b \in Nat \ {0}, p % b # 0
  PROVE  (p - 1) \div b = p \div b
<1>1. p = (p \div b) * b + (p % b) /\ p % b \in 0 .. b - 1 /\ p \div b \in Nat BY DivMod
<1>2. p - 1 \in Nat BY <1>1, SMT
<1>3. p - 1 = ((p - 1) \div b) * b + ((p - 1) % b) BY <1>2, DivMod
<1>4. (p - 1) % b \in 0 .. b - 1 /\ (p - 1) \div b \in Nat BY <1>2, DivMod
<1>5. p - 1 = (p \div b) * b + ((p % b) - 1) /\ (p % b) - 1 \in 0 .. b - 1 BY <1>1, SMT
<1>6. ((p - 1) \div b) * b + ((p - 1) % b) = (p \div b) * b + ((p % b) - 1) BY <1>3, <1>5
<1> QED BY <1>1, <1>4, <1>5, <1>6, QuotientUnique

\* A relay below n devices is on one of them, and so are all bits of its byte.
LEMMA OnDevice ==
  ASSUME NEW b \in Nat \ {0}, NEW n \in Nat, NEW p \in Nat, p < n * b, NEW i \in 0 .. b - 1
  PROVE  (p \div b) * b + i \in 0 .. n * b - 1
<1>1. p = (p \div b) * b + (p % b) /\ p % b \in 0 .. b - 1 /\ p \div b \in Nat BY DivMod
<1>2. CASE p \div b >= n
  <2>1. (p \div b) * b >= n * b BY <1>1, <1>2, SMT
  <2> QED BY <1>1, <2>1, SMT
<1>3. CASE p \div b < n
  <2>1. ((p \div b) + 1) * b <= n * b BY <1>1, <1>3, SMT
  <2> QED BY <1>1, <2>1, SMT
<1> QED BY <1>1, <1>2, <1>3, SMT

LEMMA CountRange ==
  ASSUME devices \in 0 .. Boards
  PROVE  Count \in 0 .. Boards * Bits
BY BitsAssumption, BoardsAssumption, SMT DEF Count

LEMMA Cells == Boards * Bits \in Nat /\ Boards * Bits > 0
BY BitsAssumption, BoardsAssumption, SMT

\* Every relay is bit r % Bits of byte Dev(r).
LEMMA RelayBit ==
  ASSUME NEW r \in Relay
  PROVE  r % Bits \in Bit /\ Dev(r) \in Nat /\ Dev(r) * Bits + (r % Bits) = r
<1>1. r \in Nat BY Cells, SMT DEF Relay
<1>2. r \div Bits \in Nat /\ r % Bits \in 0 .. Bits - 1 /\ r = (r \div Bits) * Bits + (r % Bits)
  BY <1>1, BitsAssumption, DivMod
<1> QED BY <1>2 DEF Dev, Bit

LEMMA RelayByte ==
  ASSUME NEW r \in Relay, NEW b \in Bit
  PROVE  Dev(r) * Bits + b \in Relay
<1>1. r \in Nat /\ r < Boards * Bits BY Cells, SMT DEF Relay
<1>2. b \in 0 .. Bits - 1 /\ Boards \in Nat BY BoardsAssumption DEF Bit
<1>3. (r \div Bits) * Bits + b \in 0 .. Boards * Bits - 1
  BY <1>1, <1>2, BitsAssumption, OnDevice
<1> QED BY <1>3 DEF Relay, Dev

\* The byte of a relay is a byte.
LEMMA ByteType ==
  ASSUME state \in Level, NEW r \in Relay
  PROVE  ByteOf(Dev(r)) \in [Bit -> {0, 1}]
BY RelayByte DEF ByteOf, Level
-----------------------------------------------------------------------------
(* The inductive invariant: how far an uncut shift has come.               *)

\* CLK is high only between the two edges of a bit.
ClockLow == clk = 1 => pc = "fall"

\* Outside of RelayChainInit the outputs are enabled.
Enabled == pc = "idle" => enable

\* The byte in the register is the one that is shifted, DIN shows its bit.
ByteLoaded ==
  ~torn /\ pc \in {"data", "rise", "fall"} =>
    \A b \in Bit : byte[b] = state[Dev(pos) * Bits + b]

DataValid == ~torn /\ pc = "rise" => din = state[pos]

\* The cascade holds the bits above pos, the last one in cell 0.
Shifting ==
  /\ ~torn /\ pc \in {"load", "data", "rise"} =>
       \A p \in Relay : p < Count - 1 - pos => reg[p] = state[pos + 1 + p]
  /\ ~torn /\ pc = "fall" =>
       \A p \in Relay : p < Count - pos => reg[p] = state[pos + p]
  /\ ~torn /\ pc = "latch" =>
       \A p \in Relay : p < Count => reg[p] = state[p]

Latched ==
  ~torn /\ pc \in {"idle", "enable"} =>
    \A p \in Relay : p < Count => outputs[p] = state[p]

IInv ==
  TypeOK /\ ClockLow /\ Enabled /\ ByteLoaded /\ DataValid /\ Shifting /\ Latched

-----------------------------------------------------------------------------
(* Every step keeps the ranges.                                            *)

\* A position on the chain is a relay.
LEMMA OnChain ==
  ASSUME devices \in 0 .. Boards, NEW p \in 0 .. Count - 1
  PROVE  p \in Relay
BY CountRange, Cells, SMT DEF Relay

LEMMA InitOK == Init => IInv
<1> SUFFICES ASSUME Init PROVE IInv OBVIOUS
<1>1. Count = 0 BY BitsAssumption, SMT DEF Init, Count
<1>2. 0 \in -1 .. Boards * Bits - 1 /\ 0 \in 0 .. Boards BY Cells, BoardsAssumption, SMT
<1>3. Zero \in Level BY DEF Zero, Level
<1>4. byte \in [Bit -> {0, 1}] BY DEF Init
<1>5. TypeOK
  <2>1. devices = 0 /\ pos = 0 /\ pc = "boot" BY DEF Init
  <2>2. state \in Level /\ reg \in Level /\ outputs \in Level
    BY <1>3 DEF Init
  <2>3. clk \in {0, 1} /\ din \in {0, 1} /\ enable \in BOOLEAN /\ torn \in BOOLEAN
    BY DEF Init
  <2> QED BY <1>2, <1>4, <2>1, <2>2, <2>3 DEF TypeOK
<1> QED BY <1>5 DEF Init, IInv, ClockLow, Enabled, ByteLoaded, DataValid, Shifting, Latched

\* The arithmetic of a shift position, used by the steps of the main loop.
LEMMA ClockedType ==
  ASSUME TypeOK, NEW s \in Level, NEW n \in Nat
  PROVE  Clocked(s, n) \in Level
<1> SUFFICES ASSUME NEW p \in Relay
             PROVE  (IF p < n THEN s[p] ELSE reg[p - n]) \in {0, 1}
  BY DEF Clocked, Level
<1>1. CASE p < n BY <1>1 DEF Level
<1>2. CASE p >= n
  <2>1. p - n \in Relay BY <1>2, Cells, SMT DEF Relay
  <2> QED BY <1>2, <2>1, Cells, SMT DEF TypeOK, Level, Relay
<1> QED BY <1>1, <1>2, Cells, SMT DEF Relay

LEMMA TypeStep == TypeOK /\ [Next]_vars => TypeOK'
<1> SUFFICES ASSUME TypeOK, [Next]_vars PROVE TypeOK' OBVIOUS
<1> USE DEF TypeOK
<1>0. Count \in 0 .. Boards * Bits /\ devices \in 0 .. Boards /\ Boards * Bits \in Nat
  BY CountRange, Cells
<1>1. ASSUME NEW r \in Relay, NEW on \in {0, 1}, SetLoad(r, on) PROVE TypeOK'
  <2>1. byte' \in [Bit -> {0, 1}]
    BY <1>1, ByteType, RelayBit DEF SetLoad
  <2>2. pos' \in 0 .. Count - 1 /\ pos' \in -1 .. Boards * Bits - 1
    BY <1>0, <1>1, SMT DEF SetLoad, Relay
  <2>3. Count' = Count BY <1>1 DEF SetLoad, Count
  <2> QED BY <1>1, <2>1, <2>2, <2>3 DEF SetLoad, pins
<1>2. ASSUME SetStore PROVE TypeOK'
  <2>1. pos \in 0 .. Count - 1 BY <1>2 DEF SetStore
  <2>2. pos \in Relay BY <2>1, <1>0, OnChain
  <2>3. \A q \in Relay : byte[q % Bits] \in {0, 1} BY RelayBit
  <2>4. state' \in Level BY <1>2, <2>3 DEF SetStore, Level
  <2>6. pos' \in 0 .. Count - 1 /\ pos' \in -1 .. Boards * Bits - 1
    BY <1>0, <1>2, <2>1, SMT DEF SetStore
  <2>7. Count' = Count BY <1>2 DEF SetStore, Count
  <2> QED BY <1>2, <2>4, <2>6, <2>7 DEF SetStore, pins
<1>3. ASSUME NEW n \in DevCounts, SetDevices(n) PROVE TypeOK'
  BY <1>3, DevCountsAssumption DEF SetDevices, pins
<1>4. ASSUME Clear PROVE TypeOK'
  <2>1. state' \in Level BY <1>4 DEF Clear, Zero, Level
  <2>2. Count' = Count BY <1>4 DEF Clear, Count
  <2>3. pos' \in -1 .. Boards * Bits - 1 BY <1>0, <1>4, SMT DEF Clear
  <2>4. pc' = "load" => pos' \in 0 .. Count - 1 BY <1>0, <1>4, SMT DEF Clear
  <2>5. pc' \in {"load", "latch"} BY <1>4 DEF Clear
  <2> QED BY <1>4, <2>1, <2>2, <2>3, <2>4, <2>5 DEF Clear, pins
<1>5. ASSUME Load PROVE TypeOK'
  <2>1. pos \in Relay BY <1>0, <1>5, OnChain DEF Load
  <2>2. byte' \in [Bit -> {0, 1}] BY <1>5, <2>1, ByteType DEF Load
  <2>3. Count' = Count BY <1>5 DEF Load, Count
  <2> QED BY <1>5, <2>2, <2>3 DEF Load, pins
<1>6. ASSUME Data PROVE TypeOK'
  <2>1. pos \in Relay BY <1>0, <1>6, OnChain DEF Data
  <2>2. din' \in {0, 1} BY <1>6, <2>1, RelayBit DEF Data
  <2>3. Count' = Count BY <1>6 DEF Data, Count
  <2> QED BY <1>6, <2>2, <2>3 DEF Data
<1>7. ASSUME Rise PROVE TypeOK'
  <2>1. ASSUME NEW p \in Relay PROVE (IF p = 0 THEN din ELSE reg[p - 1]) \in {0, 1}
    <3>1. p # 0 => p - 1 \in Relay BY <1>0, SMT DEF Relay
    <3> QED BY <3>1 DEF Level
  <2>2. reg' \in Level BY <1>7, <2>1 DEF Rise, Level
  <2>3. Count' = Count BY <1>7 DEF Rise, Count
  <2> QED BY <1>7, <2>2, <2>3 DEF Rise
<1>8. ASSUME Fall PROVE TypeOK'
  <2>1. pos \in 0 .. Count - 1 BY <1>8 DEF Fall
  <2>2. Count' = Count BY <1>8 DEF Fall, Count
  <2>3. pos' \in 0 .. Count - 1 /\ pos' \in -1 .. Boards * Bits - 1
    BY <1>0, <1>8, <2>1, SMT DEF Fall
  <2>4. pc' \in {"latch", "load", "data"} BY <1>8 DEF Fall
  <2> QED BY <1>8, <2>2, <2>3, <2>4 DEF Fall
<1>9. ASSUME Latch PROVE TypeOK'
  BY <1>9 DEF Latch
<1>10. ASSUME Enable PROVE TypeOK'
  BY <1>10 DEF Enable, pins
<1>11. ASSUME NEW n \in DevCounts, RelayChainInit(n) PROVE TypeOK'
  BY <1>11, DevCountsAssumption DEF RelayChainInit
<1>12. ASSUME NEW r \in Relay, NEW on \in {0, 1}, IsrSet(r, on) PROVE TypeOK'
  <2>1. state' \in Level BY <1>12 DEF IsrSet, Level
  <2>2. Sampled \in Nat BY <1>0, <1>12, SMT DEF Sampled, IsrSet, Relay
  <2>3. reg' \in Level BY <1>12, <2>1, <2>2, ClockedType DEF IsrSet
  <2>4. 0 \in Relay BY Cells, SMT DEF Relay
  <2>5. din' \in {0, 1} BY <1>12, <2>1, <2>4 DEF IsrSet, Level
  <2>6. outputs' \in Level /\ clk' = 0 /\ torn' \in BOOLEAN BY <1>12, <2>3 DEF IsrSet
  <2>7. Count' = Count BY <1>12 DEF IsrSet, Count
  <2> QED BY <1>12, <2>1, <2>3, <2>5, <2>6, <2>7 DEF IsrSet, call
<1>13. ASSUME Reset PROVE TypeOK'
  <2>1. Zero \in Level BY DEF Zero, Level
  <2>2. 0 \in -1 .. Boards * Bits - 1 /\ 0 \in 0 .. Boards BY Cells, BoardsAssumption, SMT
  <2>3. byte' \in [Bit -> {0, 1}] BY <1>13 DEF Reset
  <2>4. pc' = "boot" /\ devices' = 0 /\ pos' = 0 BY <1>13 DEF Reset
  <2>5. state' \in Level /\ reg' \in Level /\ outputs' \in Level
    BY <1>13, <2>1 DEF Reset
  <2>6. clk' \in {0, 1} /\ din' \in {0, 1} /\ enable' \in BOOLEAN /\ torn' \in BOOLEAN
    BY <1>13 DEF Reset
  <2> QED BY <2>2, <2>3, <2>4, <2>5, <2>6
<1>14. ASSUME UNCHANGED vars PROVE TypeOK'
  BY <1>14 DEF vars, pins, call, Count
<1> QED
  BY <1>1, <1>2, <1>3, <1>4, <1>5, <1>6, <1>7, <1>8, <1>9, <1>10, <1>11, <1>12, <1>13, <1>14
  DEF Next

-----------------------------------------------------------------------------
(* Every step keeps the invariant.                                         *)

\* After a shift of the whole chain the relays below the count are those of s.
LEMMA ClockedWhole ==
  ASSUME NEW s \in Level, NEW n \in Nat, NEW p \in Relay, p < n
  PROVE  Clocked(s, n)[p] = s[p]
BY DEF Clocked

LEMMA StepInv == IInv /\ [Next]_vars => IInv'
<1> SUFFICES ASSUME IInv, [Next]_vars PROVE IInv' OBVIOUS
<1>t. TypeOK /\ TypeOK' BY TypeStep DEF IInv
<1>0. Count \in 0 .. Boards * Bits /\ devices \in 0 .. Boards /\ Boards * Bits \in Nat
  BY <1>t, CountRange, Cells DEF TypeOK
<1> DEFINE Rest == ClockLow /\ Enabled /\ ByteLoaded /\ DataValid /\ Shifting /\ Latched
<1> SUFFICES Rest' BY <1>t DEF IInv
<1> USE DEF Rest, ClockLow, Enabled, ByteLoaded, DataValid, Shifting, Latched
<1>1. ASSUME NEW r \in Relay, NEW on \in {0, 1}, SetLoad(r, on) PROVE Rest'
  BY <1>1 DEF IInv, SetLoad, pins
<1>2. ASSUME SetStore PROVE Rest'
  <2>1. pc' = "load" /\ pos' = Count' - 1 /\ clk' = clk /\ pc = "store"
    BY <1>2 DEF SetStore, pins, Count
  <2>2. \A p \in Relay : ~(p < Count' - 1 - pos')
    BY <2>1, <1>0, <1>2, SMT DEF Relay, SetStore, Count
  <2> QED BY <2>1, <2>2 DEF IInv
<1>3. ASSUME NEW n \in DevCounts, SetDevices(n) PROVE Rest'
  BY <1>3 DEF IInv, SetDevices, pins
<1>4. ASSUME Clear PROVE Rest'
  <2>1. pc' \in {"load", "latch"} /\ pos' = Count - 1 /\ Count' = Count /\ clk' = clk /\ pc = "clear"
    BY <1>4 DEF Clear, pins, Count
  <2>2. \A p \in Relay : ~(p < Count' - 1 - pos')
    BY <2>1, <1>0, SMT DEF Relay
  <2>3. pc' = "latch" => \A p \in Relay : ~(p < Count')
    BY <1>0, <1>4, <2>1, SMT DEF Relay, Clear
  <2> QED BY <2>1, <2>2, <2>3 DEF IInv
<1>5. ASSUME Load PROVE Rest'
  <2>1. pos \in Relay BY <1>0, <1>5, <1>t, OnChain DEF Load, TypeOK
  <2>2. \A b \in Bit : byte'[b] = state'[Dev(pos') * Bits + b]
    BY <1>5 DEF Load, ByteOf
  <2>3. Count' = Count /\ pc' = "data" /\ pc = "load" /\ UNCHANGED <<clk, reg, state, pos, torn>>
    BY <1>5 DEF Load, pins, Count
  <2> QED BY <2>2, <2>3 DEF IInv
<1>6. ASSUME Data PROVE Rest'
  <2>1. pos \in Relay BY <1>0, <1>6, <1>t, OnChain DEF Data, TypeOK
  <2>2. Count' = Count /\ pc' = "rise" /\ pc = "data"
        /\ UNCHANGED <<clk, reg, state, pos, byte, torn>>
    BY <1>6 DEF Data, Count
  <2>3. ~torn => din' = state'[pos']
    BY <1>6, <2>1, <2>2, RelayBit DEF IInv, Data
  <2> QED BY <2>2, <2>3 DEF IInv
<1>7. ASSUME Rise PROVE Rest'
  <2>1. Count' = Count /\ pc' = "fall" /\ pc = "rise"
        /\ UNCHANGED <<state, pos, byte, torn>>
    BY <1>7 DEF Rise, Count
  <2>2. clk = 0 BY <2>1, <1>t DEF IInv, TypeOK
  <2>3. pos \in 0 .. Count - 1 BY <2>1, <1>t DEF TypeOK
  <2>4. ASSUME ~torn, NEW p \in Relay, p < Count' - pos' PROVE reg'[p] = state'[pos' + p]
    <3>1. CASE p = 0
      BY <1>7, <2>1, <2>2, <2>3, <2>4, <3>1, SMT DEF IInv, Rise
    <3>2. CASE p # 0
      <4>1. p - 1 \in Relay /\ p - 1 < Count - 1 - pos
        BY <1>0, <2>1, <2>3, <2>4, <3>2, SMT DEF Relay
      <4>2. reg[p - 1] = state[pos + 1 + (p - 1)] BY <2>1, <2>4, <4>1 DEF IInv
      <4>3. pos + 1 + (p - 1) = pos + p BY <1>0, <2>3, SMT DEF Relay
      <4>4. reg'[p] = reg[p - 1] BY <1>7, <2>2, <3>2 DEF Rise
      <4> QED BY <2>1, <4>2, <4>3, <4>4
    <3> QED BY <3>1, <3>2
  <2> QED BY <2>1, <2>4 DEF IInv
<1>8. ASSUME Fall PROVE Rest'
  <2>1. Count' = Count /\ pc = "fall" /\ clk' = 0
        /\ UNCHANGED <<state, reg, byte, torn>>
    BY <1>8 DEF Fall, Count
  <2>2. pos \in 0 .. Count - 1 BY <2>1, <1>t DEF TypeOK
  <2>3. CASE pos = 0
    <3>1. pc' = "latch" BY <1>8, <2>3 DEF Fall
    <3>2. ASSUME ~torn, NEW p \in Relay, p < Count PROVE reg[p] = state[p]
      <4>1. p < Count - pos /\ pos + p = p BY <1>0, <2>3, <3>2, SMT DEF Relay
      <4> QED BY <2>1, <3>2, <4>1 DEF IInv
    <3> QED BY <2>1, <3>1, <3>2
  <2>4. CASE pos > 0
    <3>1. pos' = pos - 1 /\ pc' \in {"load", "data"} /\ (pc' = "data" => pos % Bits # 0)
      BY <1>8, <2>2, <2>4, SMT DEF Fall
    <3>2. ASSUME ~torn, NEW p \in Relay, p < Count - 1 - pos' PROVE reg[p] = state[pos' + 1 + p]
      <4>1. p < Count - pos /\ pos' + 1 + p = pos + p
        BY <1>0, <2>2, <3>1, <3>2, SMT DEF Relay
      <4> QED BY <2>1, <3>2, <4>1 DEF IInv
    <3>3. pos % Bits # 0 => Dev(pos') = Dev(pos)
      <4>1. pos \in Nat BY <1>0, <2>2, SMT
      <4> QED BY <3>1, <4>1, BitsAssumption, SameDevice DEF Dev
    <3> QED BY <2>1, <3>1, <3>2, <3>3 DEF IInv
  <2> QED BY <1>0, <2>2, <2>3, <2>4, SMT
<1>9. ASSUME Latch PROVE Rest'
  <2>1. Count' = Count /\ pc = "latch" /\ pc' \in {"idle", "enable"} /\ outputs' = reg
        /\ UNCHANGED <<state, clk, torn, enable>> /\ (pc' = "idle" => enable)
    BY <1>9 DEF Latch, Count
  <2> QED BY <2>1 DEF IInv
<1>10. ASSUME Enable PROVE Rest'
  BY <1>10 DEF IInv, Enable, pins, Count
<1>11. ASSUME NEW n \in DevCounts, RelayChainInit(n) PROVE Rest'
  BY <1>11 DEF RelayChainInit
<1>12. ASSUME NEW r \in Relay, NEW on \in {0, 1}, IsrSet(r, on) PROVE Rest'
  <2>1. Count' = Count /\ clk' = 0 /\ outputs' = reg' /\ UNCHANGED <<enable, pc, pos, byte>>
    BY <1>12 DEF IsrSet, Count, call
  <2>2. torn' \/ pc \notin {"load", "data", "rise", "fall", "latch"} BY <1>12 DEF IsrSet
  <2>3. ASSUME pc \in {"idle", "enable"}, NEW p \in Relay, p < Count
        PROVE  outputs'[p] = state'[p]
    <3>1. Sampled = Count /\ Count \in Nat
      BY <1>0, <1>t, <2>3, SMT DEF IInv, Sampled, TypeOK
    <3>2. state' \in Level BY <1>t DEF TypeOK
    <3>3. outputs' = Clocked(state', Count) BY <1>12, <3>1 DEF IsrSet
    <3>4. Clocked(state', Count)[p] = state'[p] BY <2>3, <3>1, <3>2, ClockedWhole
    <3> QED BY <3>3, <3>4
  <2>4. ClockLow' /\ Enabled' BY <2>1 DEF IInv
  <2>5. ByteLoaded' /\ DataValid' /\ Shifting' BY <2>1, <2>2
  <2>6. Latched' BY <2>1, <2>3
  <2> QED BY <2>4, <2>5, <2>6
<1>13. ASSUME Reset PROVE Rest'
  BY <1>13 DEF Reset
<1>14. ASSUME UNCHANGED vars PROVE Rest'
  BY <1>14 DEF IInv, vars, pins, call, Count
<1> QED
  BY <1>1, <1>2, <1>3, <1>4, <1>5, <1>6, <1>7, <1>8, <1>9, <1>10, <1>11, <1>12, <1>13, <1>14
  DEF Next

LEMMA Invariance == Spec => []IInv
BY InitOK, StepInv, PTL DEF Spec

\* Every variable keeps its range, and pos stays on the chain during a shift.
THEOREM TypeCorrect == Spec => []TypeOK
<1>1. IInv => TypeOK BY DEF IInv
<1> QED BY <1>1, Invariance, PTL

\* RelayChainShift leaves the relays of the chain as the state bytes say unless
\* another shift has cut it: an uncut shift repairs every mixture of bits.
THEOREM Healing == Spec => []Heals
<1>1. IInv => Heals
  BY DEF IInv, Heals, Match, Driven, Latched, Enabled
<1> QED BY <1>1, Invariance, PTL

-----------------------------------------------------------------------------
\* Unless a shift is cut, a relay of the chain clicks only to the level of its
\* bit: the latch copies a cascade that holds the state bytes, ENABLE shows
\* outputs that are already right, and an interrupt between two calls of the
\* main loop finds CLK low and shifts the whole chain.
THEOREM Clickless == Spec => NoClick
<1>1. IInv /\ [Next]_vars =>
        [\A r \in Relay :
           r < Count /\ r < Count' /\ Driven(r)' # Driven(r) /\ ~torn' => Driven(r)' = state'[r]]_vars
  <2> SUFFICES ASSUME IInv, Next, NEW r \in Relay, r < Count, r < Count',
                      Driven(r)' # Driven(r), ~torn'
               PROVE  Driven(r)' = state'[r]
    BY DEF Driven
  <2>1. CASE UNCHANGED <<outputs, enable>>
    BY <2>1 DEF Driven
  <2>2. CASE Latch
    <3>1. enable /\ enable' /\ reg[r] = state[r]
      BY <2>2 DEF IInv, Shifting, Latch, Driven
    <3> QED
      BY <2>2, <3>1 DEF Latch, Driven
  <2>3. CASE Enable
    <3>1. outputs[r] = state[r]
      BY <2>3 DEF IInv, Latched, Enable
    <3> QED
      BY <2>3, <3>1 DEF Enable, Driven, pins
  <2>4. ASSUME NEW x \in Relay, NEW on \in {0, 1}, IsrSet(x, on)
        PROVE  Driven(r)' = state'[r]
    <3>1. pc \notin {"load", "data", "rise", "fall", "latch"} /\ enable' = enable
      BY <2>4 DEF IsrSet
    <3>2. enable
      BY <2>4, <3>1 DEF IsrSet, Driven
    <3>3. TypeOK /\ TypeOK' /\ clk = 0
      BY <3>1, TypeStep DEF IInv, TypeOK, ClockLow
    <3>4. Sampled = Count /\ Count \in Nat
      BY <3>3, CountRange, Cells, SMT DEF Sampled, TypeOK
    <3>5. outputs' = Clocked(state', Count)
      BY <2>4, <3>4 DEF IsrSet
    <3>6. Clocked(state', Count)[r] = state'[r]
      BY <3>3, <3>4, ClockedWhole DEF TypeOK
    <3> QED
      BY <3>1, <3>2, <3>5, <3>6 DEF Driven
  <2>5. CASE Reset
    <3>1. Count' = 0
      BY <2>5, BitsAssumption, SMT DEF Reset, Count
    <3> QED
      BY <3>1, Cells, SMT DEF Relay
  <2> QED
    BY <2>1, <2>2, <2>3, <2>4, <2>5
       DEF Next, SetLoad, SetStore, SetDevices, Clear, Load, Data, Rise, Fall, RelayChainInit, pins
<1> QED
  BY <1>1, Invariance, PTL DEF Spec, NoClick
=============================================================================
