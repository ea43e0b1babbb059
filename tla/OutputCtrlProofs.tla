-------------------------- MODULE OutputCtrlProofs --------------------------
(***************************************************************************)
(* Proofs about OutputCtrl and its clocked form ShutterInterlock, for every *)
(* number of slots, relays and devices, every table the form may submit and *)
(* every duration: ranges, the agreement of the two tables, the exclusion  *)
(* of the two relays, the contract with Home Assistant (CoverContract) and *)
(* the pause of a reversal.  The agreement of the tables is proved through *)
(* the reloads a form falls into and beyond them; the rest until the first *)
(* of them.                                                                *)
(***************************************************************************)
EXTENDS ShutterInterlock, TLAPS

USE DEF cutVars

\* Relays beyond the chain are off.
BeyondOff == \A r \in Relay : r >= Count => chain[r] = "off"

\* A shutter has two relays.
TwoRelays ==
  \A s \in Slot : sh[s].valid =>
    sh[s].up \in Relay /\ sh[s].down \in Relay /\ sh[s].up # sh[s].down

\* But for the time a form is entered and saved the live table gives no relay to
\* two shutters.
CfgApart ==
  web \notin {"parsing", "unlocked"} => \A s, q \in Slot :
    s # q /\ cfgSh[s] # EmptyEntry /\ cfgSh[q] # EmptyEntry => Disjoint(cfgSh[s], cfgSh[q])

\* The tables the handler of /outcfg.cgi may end with.
Targets == IF web = "unlocked" THEN Dedups(cfgSh) ELSE {cfgSh}

SamePair(p, e) == p.up = e.up /\ p.down = e.down

\* Slot s keeps its shutter when table d is loaded.
Keeps(s, d) == sh[s].valid /\ d[s] # EmptyEntry /\ SamePair(sh[s], d[s])

\* A run-time shutter that shares a relay with one that d keeps comes from the
\* live table, and d does not have it.
OverlapsGo(d) ==
  \A s, q \in Slot :
    s # q /\ Keeps(s, d) /\ sh[q].valid /\ ~Disjoint(sh[s], sh[q])
      => /\ d[q] = EmptyEntry
         /\ cfgSh[q] = EmptyEntry \/ SamePair(sh[q], cfgSh[q])

\* The relays a shutter in this state does not drive.
RestRelays(p) ==
  CASE p.state = "MovingUp" -> {p.down}
    [] p.state = "MovingDown" -> {p.up}
    [] OTHER -> {p.up, p.down}

Loose(r) == chain[r] \in {"off", "pulse"}

\* Relay r is switched off when d is loaded: it is that of a slot d removes.
Goes(r, d) == \E q \in Slot : sh[q].valid /\ d[q] = EmptyEntry /\ r \in Pair(sh[q])

\* What a kept shutter does not drive nobody drives, pulses and slots that are
\* about to go excepted.
RestsLoose(d) ==
  \A s \in Slot : Keeps(s, d) => \A r \in RestRelays(sh[s]) : Loose(r) \/ Goes(r, d)

\* A reload that no form has fallen into runs while no form is under way, and
\* holds the row of the live table.
CutInv ==
  /\ InReload => main = Reloading /\ reload.slot \in Slot
  /\ reload.at \in {"state", "timers", "row"} => reload.row # EmptyEntry
  /\ reload.at = "clear" => reload.row = EmptyEntry
  /\ InReload /\ race # "torn" =>
       /\ Settled /\ reload.at \in {"get", "off", "row", "clear"}
       /\ reload.at # "get" => reload.row = cfgSh[reload.slot]
  /\ web = "parsing" => race = "torn"

\* What holds whatever has fallen into a reload.
BaseInv ==
  /\ TypeOK
  /\ CutInv
  /\ CfgApart
  /\ RoutingCoherent

\* What holds until a form falls into a reload.
IInv ==
  /\ BaseInv
  /\ race = "none"
  /\ TwoRelays
  /\ BeyondOff
  /\ \A d \in Targets : OverlapsGo(d)
  /\ \A d \in Targets : RestsLoose(d)

-----------------------------------------------------------------------------
\* What RelayChainSet returns: the level on the relays of R that the chain has,
\* except that a shutter keeps its mark, and the old levels elsewhere.
LEMMA SetChain ==
  ASSUME NEW f \in [Relay -> Level], NEW R, NEW level \in Level
  PROVE  /\ RelayChainSet(f, R, level) \in [Relay -> Level]
         /\ \A r \in Relay : RelayChainSet(f, R, level)[r] =
              IF r \in R /\ r < Count /\ (level = "off" \/ f[r] # "shutter")
              THEN level ELSE f[r]
BY DEF RelayChainSet

\* Energising a direction: only the two relays change, the opposite one is off.
LEMMA EnergiseChain ==
  ASSUME TypeOK, NEW s \in Slot, NEW up \in BOOLEAN, NEW g,
         g = Energise(chain, sh[s], up)
  PROVE  /\ g \in [Relay -> Level]
         /\ \A r \in Relay : r \notin Pair(sh[s]) \/ r >= Count => g[r] = chain[r]
         /\ sh[s].up # sh[s].down =>
              \A r \in Relay : r < Count /\ r = Opposite(sh[s], up) => g[r] = "off"
<1> DEFINE f == RelayChainSet(chain, {Opposite(sh[s], up)}, "off")
<1>0. \A r \in Relay : ~(r < Count /\ r >= Count)
  BY RelaysAssumption, DevCountsAssumption DEF Relay, Count, TypeOK
<1>1. chain \in [Relay -> Level] /\ {"off", "shutter"} \subseteq Level
  BY DEF TypeOK, Level
<1>2. /\ f \in [Relay -> Level]
      /\ \A r \in Relay : f[r] = IF r = Opposite(sh[s], up) /\ r < Count THEN "off" ELSE chain[r]
  BY <1>1, SetChain
<1>3. g = RelayChainSet(f, {Wanted(sh[s], up)}, "shutter")
  BY DEF Energise
<1> HIDE DEF f
<1>4. /\ g \in [Relay -> Level]
      /\ \A r \in Relay : g[r] = IF r = Wanted(sh[s], up) /\ r < Count /\ f[r] # "shutter"
                                THEN "shutter" ELSE f[r]
  BY <1>1, <1>2, <1>3, SetChain
<1> QED
  BY <1>0, <1>2, <1>4 DEF Opposite, Wanted, Pair

-----------------------------------------------------------------------------
(* One shutter is driven.                                                  *)

\* What a command or a tick of slot q may do to the chain and to the table.
Drives(q) ==
  /\ chain' \in [Relay -> Level]
  /\ sh' \in [Slot -> Shutter]
  /\ \A s \in Slot : /\ sh'[s].valid = sh[s].valid
                     /\ sh'[s].up = sh[s].up /\ sh'[s].down = sh[s].down
                     /\ sh'[s].travel = sh[s].travel
  /\ \A s \in Slot : s # q => sh'[s] = sh[s]
  /\ \A r \in Relay : ~sh[q].valid \/ r \notin Pair(sh[q]) \/ r >= Count
       => chain'[r] = chain[r]
  /\ sh[q].valid /\ sh[q].up # sh[q].down =>
       \A r \in Relay : r \in RestRelays(sh'[q]) /\ r < Count =>
         chain'[r] = "off" \/ (chain'[r] = chain[r] /\ r \in RestRelays(sh[q]))

\* The relays of one slot are switched off and it comes to rest or to a pause.
LEMMA ReleaseDrives ==
  ASSUME TypeOK, NEW q \in Slot, sh[q].valid, NEW p \in Shutter,
         p.valid = sh[q].valid, p.up = sh[q].up, p.down = sh[q].down,
         p.travel = sh[q].travel,
         chain' = RelayChainSet(chain, Pair(sh[q]), "off"), sh' = [sh EXCEPT ![q] = p]
  PROVE  Drives(q)
<1>0. \A r \in Relay : ~(r < Count /\ r >= Count)
  BY RelaysAssumption, DevCountsAssumption DEF Relay, Count, TypeOK
<1>1. /\ chain' \in [Relay -> Level]
      /\ \A r \in Relay : chain'[r] = IF r \in Pair(sh[q]) /\ r < Count THEN "off" ELSE chain[r]
  BY SetChain DEF TypeOK, Level
<1>2. sh \in [Slot -> Shutter]
  BY DEF TypeOK
<1>3. sh' \in [Slot -> Shutter] /\ sh'[q] = p /\ \A s \in Slot : s # q => sh'[s] = sh[s]
  BY <1>2
<1>4. RestRelays(p) \subseteq Pair(sh[q])
  BY DEF RestRelays, Pair
<1> QED
  BY <1>0, <1>1, <1>3, <1>4 DEF Drives

\* One direction is energised and the slot moves that way.
LEMMA EnergiseDrives ==
  ASSUME TypeOK, NEW q \in Slot, sh[q].valid, NEW up \in BOOLEAN, NEW p \in Shutter,
         p.valid = sh[q].valid, p.up = sh[q].up, p.down = sh[q].down,
         p.travel = sh[q].travel, p.state = Moving(up),
         chain' = Energise(chain, sh[q], up), sh' = [sh EXCEPT ![q] = p]
  PROVE  Drives(q)
<1>1. /\ chain' \in [Relay -> Level]
      /\ \A r \in Relay : r \notin Pair(sh[q]) \/ r >= Count => chain'[r] = chain[r]
      /\ sh[q].up # sh[q].down =>
           \A r \in Relay : r < Count /\ r = Opposite(sh[q], up) => chain'[r] = "off"
  BY EnergiseChain
<1>2. sh \in [Slot -> Shutter]
  BY DEF TypeOK
<1>3. sh' \in [Slot -> Shutter] /\ sh'[q] = p /\ \A s \in Slot : s # q => sh'[s] = sh[s]
  BY <1>2
<1>4. RestRelays(p) = {Opposite(sh[q], up)}
  BY DEF RestRelays, Opposite, Moving
<1> QED
  BY <1>1, <1>3, <1>4 DEF Drives

\* Only the timers of a slot change.
LEMMA TimerDrives ==
  ASSUME TypeOK, NEW q \in Slot, NEW p \in Shutter,
         p.valid = sh[q].valid, p.up = sh[q].up, p.down = sh[q].down,
         p.travel = sh[q].travel, p.state = sh[q].state,
         chain' = chain, sh' = [sh EXCEPT ![q] = p]
  PROVE  Drives(q)
<1>1. chain' \in [Relay -> Level] /\ sh \in [Slot -> Shutter]
  BY DEF TypeOK
<1>3. sh' \in [Slot -> Shutter] /\ sh'[q] = p /\ \A s \in Slot : s # q => sh'[s] = sh[s]
  BY <1>1
<1>4. RestRelays(p) = RestRelays(sh[q])
  BY DEF RestRelays
<1> QED
  BY <1>1, <1>3, <1>4 DEF Drives

LEMMA StutterDrives ==
  ASSUME TypeOK, NEW q \in Slot, chain' = chain, sh' = sh
  PROVE  Drives(q)
BY DEF TypeOK, Drives

LEMMA MoveDrives ==
  ASSUME TypeOK, NEW q \in Slot, sh[q].valid, NEW up \in BOOLEAN, ShMove(q, up)
  PROVE  Drives(q)
<1>1. sh[q] \in Shutter
  BY DEF TypeOK
<1>2. CASE ShRefresh(q, up)
  <2> DEFINE p == [sh[q] EXCEPT !.timer = sh[q].travel]
  <2>1. p \in Shutter /\ sh' = [sh EXCEPT ![q] = p] /\ chain' = chain
    BY <1>1, <1>2 DEF ShRefresh, Shutter
  <2> QED
    BY <2>1, <1>1, TimerDrives DEF Shutter
<1>3. CASE ShStart(q, up)
  <2> DEFINE p == [sh[q] EXCEPT !.state = Moving(up), !.timer = sh[q].travel,
                                !.lastUp = up, !.cover = Going(up)]
  <2>1. p \in Shutter /\ sh' = [sh EXCEPT ![q] = p] /\ chain' = Energise(chain, sh[q], up)
    BY <1>1, <1>3 DEF ShStart, Shutter, Moving, Going
  <2>2. /\ p.valid = sh[q].valid /\ p.up = sh[q].up /\ p.down = sh[q].down
        /\ p.travel = sh[q].travel /\ p.state = Moving(up)
    BY <1>1 DEF Shutter
  <2> HIDE DEF p
  <2> QED
    BY <2>1, <2>2, EnergiseDrives
<1>4. CASE ShReverse(q, up)
  <2> DEFINE p == [sh[q] EXCEPT !.state = "SwitchDelay", !.timer = 0,
                                !.interlock = IF sh[q].state = "SwitchDelay"
                                             THEN sh[q].interlock ELSE Interlock,
                                !.pendingUp = up, !.lastUp = up, !.cover = Going(up)]
  <2>1. p \in Shutter /\ sh' = [sh EXCEPT ![q] = p]
        /\ chain' = RelayChainSet(chain, Pair(sh[q]), "off")
    BY <1>1, <1>4, InterlockAssumption DEF ShReverse, Shutter, Going
  <2> QED
    BY <2>1, <1>1, ReleaseDrives DEF Shutter
<1> QED
  BY <1>2, <1>3, <1>4 DEF ShMove

LEMMA StopDrives ==
  ASSUME TypeOK, NEW q \in Slot, sh[q].valid, ShStop(q)
  PROVE  Drives(q)
<1> DEFINE p == [sh[q] EXCEPT !.state = "Idle", !.timer = 0, !.interlock = 0, !.cover = "stopped"]
<1>1. sh[q] \in Shutter
  BY DEF TypeOK
<1>2. p \in Shutter /\ sh' = [sh EXCEPT ![q] = p]
      /\ chain' = RelayChainSet(chain, Pair(sh[q]), "off")
  BY <1>1 DEF ShStop, Shutter
<1> QED
  BY <1>1, <1>2, ReleaseDrives DEF Shutter

\* A shutter command drives its slot.
LEMMA CommandDrives ==
  ASSUME TypeOK, NEW q \in Slot, NEW cmd, OutputCtrlShutter(q, cmd)
  PROVE  Drives(q)
<1>1. Direction(q, cmd) \in BOOLEAN
  BY DEF Direction
<1> QED
  BY <1>1, StutterDrives, StopDrives, MoveDrives DEF OutputCtrlShutter

\* A tick drives the slot it visits.
LEMMA TickDrives ==
  ASSUME TypeOK, NEW q \in Slot,
         TickRest(q) \/ TickTravel(q) \/ TickArrive(q) \/ TickInterlock(q) \/ TickResume(q)
  PROVE  Drives(q)
<1>1. sh[q] \in Shutter
  BY DEF TypeOK
<1>2. CASE TickRest(q)
  BY <1>2, StutterDrives DEF TickRest
<1>3. CASE TickTravel(q)
  <2> DEFINE p == [sh[q] EXCEPT !.timer = Ticked(sh[q].timer)]
  <2>1. p \in Shutter /\ sh' = [sh EXCEPT ![q] = p] /\ chain' = chain
    BY <1>1, <1>3 DEF TickTravel, Shutter, Ticked
  <2> QED
    BY <2>1, <1>1, TimerDrives DEF Shutter
<1>4. CASE TickArrive(q)
  <2> DEFINE p == [sh[q] EXCEPT !.timer = 0, !.state = "Idle",
                     !.cover = IF sh[q].state = "MovingUp" THEN "open" ELSE "closed"]
  <2>1. p \in Shutter /\ sh' = [sh EXCEPT ![q] = p]
        /\ chain' = RelayChainSet(chain, Pair(sh[q]), "off") /\ sh[q].valid
    BY <1>1, <1>4 DEF TickArrive, Shutter
  <2> QED
    BY <2>1, <1>1, ReleaseDrives DEF Shutter
<1>5. CASE TickInterlock(q)
  <2> DEFINE p == [sh[q] EXCEPT !.interlock = sh[q].interlock - 1]
  <2>1. p \in Shutter /\ sh' = [sh EXCEPT ![q] = p] /\ chain' = chain
    BY <1>1, <1>5 DEF TickInterlock, Shutter
  <2> QED
    BY <2>1, <1>1, TimerDrives DEF Shutter
<1>6. CASE TickResume(q)
  <2> DEFINE up == sh[q].pendingUp
             p == [sh[q] EXCEPT !.interlock = 0, !.timer = sh[q].travel,
                                !.state = Moving(up), !.cover = Going(up)]
  <2>1. up \in BOOLEAN /\ sh[q].valid
    BY <1>1, <1>6 DEF Shutter, TickResume
  <2>2. p \in Shutter /\ sh' = [sh EXCEPT ![q] = p] /\ chain' = Energise(chain, sh[q], up)
    BY <1>1, <1>6, <2>1 DEF TickResume, Shutter, Moving, Going
  <2> QED
    BY <2>1, <2>2, <1>1, EnergiseDrives DEF Shutter
<1> QED
  BY <1>2, <1>3, <1>4, <1>5, <1>6

-----------------------------------------------------------------------------
(* One relay is written, or the table is loaded.                           *)

\* What a direct write, a pulse or its expiry may do: the table stays, and a
\* relay that changes is on the chain, gets no shutter's mark and is switched
\* off, pulsed, or that of no shutter of the live table.
Writes ==
  /\ sh' = sh
  /\ chain' \in [Relay -> Level]
  /\ pulse' \in [Relay -> Nat]
  /\ \A r \in Relay : chain'[r] # chain[r] =>
       /\ ~(r >= Count) /\ chain'[r] # "shutter"
       /\ \/ chain'[r] = "off"
          \/ chain'[r] = "pulse" /\ PulseTicks # {}
          \/ ~IsShutterMember(r)

LEMMA SetRelay ==
  ASSUME TypeOK, NEW r \in Relay, NEW level \in Level, NEW g,
         g = MQTTAppSetRelay(chain, r, level)
  PROVE  /\ g \in [Relay -> Level]
         /\ \A x \in Relay : g[x] # chain[x] => x = r /\ ~(x >= Count) /\ g[x] = level
<1>0. \A x \in Relay : x < Count => ~(x >= Count)
  BY RelaysAssumption, DevCountsAssumption DEF Relay, Count, TypeOK
<1>1. chain \in [Relay -> Level]
  BY DEF TypeOK
<1>2. CASE g = chain
  BY <1>1, <1>2
<1>3. CASE g = RelayChainSet(chain, {r}, level)
  BY <1>0, <1>1, <1>3, SetChain
<1> QED
  BY <1>2, <1>3 DEF MQTTAppSetRelay

LEMMA PulseWrites ==
  ASSUME TypeOK, NEW r \in Relay, NEW ticks \in Nat, RelayPulseStart(r, ticks), sh' = sh,
         PulseTicks # {} \/ ~IsShutterMember(r)
  PROVE  Writes
<1>1. /\ chain' \in [Relay -> Level]
      /\ \A x \in Relay : chain'[x] # chain[x] => x = r /\ ~(x >= Count) /\ chain'[x] = "pulse"
  BY SetRelay DEF RelayPulseStart, Level
<1>2. pulse' \in [Relay -> Nat]
  BY DEF TypeOK, RelayPulseStart
<1> QED
  BY <1>1, <1>2 DEF Writes

\* The commands that move a shutter from rest only, and stop it otherwise.
Momentary == {"UP", "DOWN", "STOP", "TOGGLE"}

\* A relay command is a momentary command of a shutter, or writes a relay that no
\* shutter has.
LEMMA RelayCommand ==
  ASSUME TypeOK, NEW r \in Relay, NEW cmd, OutputCtrlCommand(r, cmd)
  PROVE  \/ Writes
         \/ pulse' = pulse /\ \E q \in Slot, c \in Momentary : OutputCtrlShutter(q, c)
<1>1. CASE MemberCommand(r, cmd)
  <2>1. PICK q \in Slot : OutputCtrlShutter(q, ShutterCmd(q, r, cmd)) /\ pulse' = pulse
    BY <1>1 DEF MemberCommand, MemberSlots
  <2>2. ShutterCmd(q, r, cmd) \in Momentary
    BY DEF ShutterCmd, Momentary
  <2> QED
    BY <2>1, <2>2
<1>2. ASSUME ~IsShutterMember(r), sh' = sh, NEW on, TimedCommand(r, on)
      PROVE  Writes
  <2>1. cfgMode[r] \in Nat /\ pulse \in [Relay -> Nat]
    BY DEF TypeOK
  <2>2. CASE RelayPulseStart(r, cfgMode[r])
    BY <1>2, <2>1, <2>2, PulseWrites
  <2>3. CASE chain' = MQTTAppSetRelay(chain, r, "off") /\ pulse' = [pulse EXCEPT ![r] = 0]
    <3>1. /\ chain' \in [Relay -> Level]
          /\ \A x \in Relay : chain'[x] # chain[x] => ~(x >= Count) /\ chain'[x] = "off"
      BY <2>3, SetRelay DEF Level
    <3> QED
      BY <1>2, <2>1, <2>3, <3>1 DEF Writes
  <2> QED
    BY <1>2, <2>2, <2>3 DEF TimedCommand
<1>3. ASSUME ~IsShutterMember(r), sh' = sh, NEW on, StandardCommand(r, on)
      PROVE  Writes
  <2>1. pulse' \in [Relay -> Nat]
    BY <1>3 DEF TypeOK, StandardCommand
  <2>2. PICK level \in {"switch", "off"} : chain' = MQTTAppSetRelay(chain, r, level)
    BY <1>3 DEF StandardCommand
  <2>3. /\ chain' \in [Relay -> Level]
        /\ \A x \in Relay : chain'[x] # chain[x] => ~(x >= Count) /\ x = r /\ chain'[x] = level
    BY <2>2, SetRelay DEF Level
  <2> QED
    BY <1>3, <2>1, <2>3 DEF Writes
<1> QED
  BY <1>1, <1>2, <1>3 DEF OutputCtrlCommand

\* The expiry of pulses writes relays off.
LEMMA ExpiryWrites ==
  ASSUME TypeOK, RelayPulseTick
  PROVE  Writes
<1>0. \A x \in Relay : x < Count => ~(x >= Count)
  BY RelaysAssumption, DevCountsAssumption DEF Relay, Count, TypeOK
<1>1. chain \in [Relay -> Level] /\ pulse \in [Relay -> Nat]
  BY DEF TypeOK
<1>2. /\ chain' \in [Relay -> Level]
      /\ \A x \in Relay : chain'[x] # chain[x] => x < Count /\ chain'[x] = "off"
  BY <1>1, SetChain DEF RelayPulseTick, Level
<1>3. pulse' \in [Relay -> Nat]
  BY <1>1 DEF RelayPulseTick, Ticked
<1> QED
  BY <1>0, <1>2, <1>3 DEF Writes, RelayPulseTick

\* What a load does to the published state of a slot: a removed slot keeps it, a
\* new one starts as stopped, an unchanged one goes on, its interlock included.
LoadsCover(s) ==
  CASE cfgSh[s] = EmptyEntry -> sh'[s].cover = sh[s].cover /\ sh'[s].state = "Idle"
    [] cfgSh[s] # EmptyEntry /\ Changed(s, cfgSh[s]) -> sh'[s].cover = "stopped"
    [] OTHER -> sh'[s].cover = sh[s].cover /\ sh'[s].interlock = sh[s].interlock

\* What OutputCtrlReload leaves behind: the run-time table is the live one, a
\* slot that is new or changed is at rest, an unchanged one goes on, and only
\* relays of new and of removed slots are written.
LEMMA ReloadTable ==
  ASSUME TypeOK, OutputCtrlReload
  PROVE  /\ chain' \in [Relay -> Level]
         /\ \A r \in Relay : chain'[r] = IF r \in ReloadOff /\ r < Count THEN "off" ELSE chain[r]
         /\ sh' \in [Slot -> Shutter]
         /\ \A s \in Slot : sh'[s].valid <=> cfgSh[s] # EmptyEntry
         /\ \A s \in Slot : cfgSh[s] # EmptyEntry =>
              /\ sh'[s].up = cfgSh[s].up /\ sh'[s].down = cfgSh[s].down
              /\ sh'[s].travel = cfgSh[s].travel
              /\ sh'[s].state = IF Changed(s, cfgSh[s]) THEN "Idle" ELSE sh[s].state
         /\ \A s \in Slot : LoadsCover(s)
<1>1. chain \in [Relay -> Level] /\ sh \in [Slot -> Shutter]
  BY DEF TypeOK
<1>2. /\ chain' \in [Relay -> Level]
      /\ \A r \in Relay : chain'[r] = IF r \in ReloadOff /\ r < Count THEN "off" ELSE chain[r]
  BY <1>1, SetChain DEF OutputCtrlReload, Level
<1>3. sh' = [s \in Slot |-> ReloadSlot(s)]
  BY DEF OutputCtrlReload
<1>4. ASSUME NEW s \in Slot
      PROVE  /\ ReloadSlot(s) \in Shutter
             /\ ReloadSlot(s).valid <=> cfgSh[s] # EmptyEntry
             /\ cfgSh[s] # EmptyEntry =>
                  /\ ReloadSlot(s).up = cfgSh[s].up /\ ReloadSlot(s).down = cfgSh[s].down
                  /\ ReloadSlot(s).travel = cfgSh[s].travel
                  /\ ReloadSlot(s).state = IF Changed(s, cfgSh[s]) THEN "Idle" ELSE sh[s].state
  <2>1. sh[s] \in Shutter /\ (cfgSh[s] = EmptyEntry \/ cfgSh[s] \in Entry)
    BY DEF TypeOK, Table
  <2>2. CASE cfgSh[s] = EmptyEntry
    BY <2>1, <2>2 DEF ReloadSlot, Shutter
  <2>3. CASE cfgSh[s] # EmptyEntry /\ Changed(s, cfgSh[s])
    BY <2>1, <2>3 DEF ReloadSlot, Shutter, Entry
  <2>4. CASE cfgSh[s] # EmptyEntry /\ ~Changed(s, cfgSh[s])
    <3>1. ReloadSlot(s) = [sh[s] EXCEPT !.travel = cfgSh[s].travel]
      BY <2>4 DEF ReloadSlot
    <3>2. sh[s].valid = TRUE /\ sh[s].up = cfgSh[s].up /\ sh[s].down = cfgSh[s].down
      BY <2>1, <2>4 DEF Changed, Shutter
    <3> QED
      BY <2>1, <2>4, <3>1, <3>2 DEF Shutter, Entry
  <2> QED
    BY <2>2, <2>3, <2>4
<1>5. \A s \in Slot : LoadsCover(s)
  <2> SUFFICES ASSUME NEW s \in Slot PROVE LoadsCover(s)
    OBVIOUS
  <2>1. sh[s] \in Shutter /\ sh'[s] = ReloadSlot(s)
    BY <1>1, <1>3
  <2> QED
    BY <2>1 DEF ReloadSlot, LoadsCover, Shutter
<1> QED
  BY <1>2, <1>3, <1>4, <1>5

-----------------------------------------------------------------------------
(* Types.                                                                  *)

\* The handlers and bindings that drive shutters and relays.
Commands ==
  \/ \E r \in Relay, cmd \in {"ON", "OFF"} : MqttRelaySet(r, cmd)
  \/ \E s \in Slot, cmd \in {"OPEN", "CLOSE", "STOP"} : MqttCoverSet(s, cmd)
  \/ \E r \in Relay, ticks \in PulseTicks : MqttRelayPulse(r, ticks)
  \/ \E r \in Relay, ticks \in PulseTicks : RelayPulseCGI(r, ticks)
  \/ \E s \in Slot, cmd \in {"UP", "DOWN", "STOP", "TOGGLE"} : CoverCGI(s, cmd)
  \/ \E r \in Relay, cmd \in {"ON", "OFF", "TOGGLE"} : RelaySetCGI(r, cmd)
  \/ \E r \in Relay, cmd \in {"ON", "OFF", "TOGGLE", "CYCLE"} : BindCommand(r, cmd)

\* A shutter command; only /cover and MQTT, between two iterations, reverse.
Commanded(q) ==
  \/ \E c \in Momentary : OutputCtrlShutter(q, c)
  \/ \E c \in {"OPEN", "CLOSE"} : OutputCtrlShutter(q, c) /\ CoreFree

\* Every command drives one shutter or writes relays, and leaves the rest alone.
LEMMA CommandEffect ==
  ASSUME TypeOK, Commands
  PROVE  /\ UNCHANGED <<cfgVars, devices, web, apply, main, cutVars>>
         /\ Writes \/ (pulse' = pulse /\ \E q \in Slot : Commanded(q) /\ Drives(q))
<1>1. PulseTicks \subseteq Nat
  BY PulseAssumption
<1>2. ASSUME NEW r \in Relay, NEW cmd, MqttRelaySet(r, cmd) \/ RelaySetCGI(r, cmd) \/ BindCommand(r, cmd)
      PROVE  /\ UNCHANGED <<cfgVars, devices, web, apply, main, cutVars>>
             /\ Writes \/ (pulse' = pulse /\ \E q \in Slot : Commanded(q) /\ Drives(q))
  BY <1>2, RelayCommand, CommandDrives DEF MqttRelaySet, RelaySetCGI, BindCommand, Commanded
<1>3. ASSUME NEW s \in Slot, NEW cmd \in Momentary \cup {"OPEN", "CLOSE"},
             MqttCoverSet(s, cmd) \/ CoverCGI(s, cmd)
      PROVE  /\ UNCHANGED <<cfgVars, devices, web, apply, main, cutVars>>
             /\ pulse' = pulse /\ Commanded(s) /\ Drives(s)
  BY <1>3, CommandDrives DEF MqttCoverSet, CoverCGI, Commanded, Handler
<1>4. ASSUME NEW r \in Relay, NEW ticks \in PulseTicks,
             MqttRelayPulse(r, ticks) \/ RelayPulseCGI(r, ticks)
      PROVE  /\ UNCHANGED <<cfgVars, devices, web, apply, main, cutVars>>
             /\ Writes
  BY <1>1, <1>4, PulseWrites DEF MqttRelayPulse, RelayPulseCGI
<1> QED
  BY <1>2, <1>3, <1>4 DEF Commands, Momentary

\* The steps of the specification, as the proofs split them.
LEMMA Steps ==
  ASSUME Next
  PROVE  \/ Commands
         \/ \E t \in Tables, m \in ModeMaps : OutCfgParse(t, m)
         \/ \E t \in Tables, m \in ModeMaps : OutCfgOpen(t, m)
         \/ OutCfgRow \/ OutCfgDedup \/ OutCfgFinish
         \/ \E n \in DevCounts : IOConfigParse(n)
         \/ IOConfigFinish \/ ApplyDevices \/ ApplyReload \/ ReloadStep
         \/ PollBegin \/ RelayPulseTick \/ TickSlot
BY DEF Next, TcpipNext, MainNext, Commands

LEMMA TypeInit == Init => TypeOK
<1> SUFFICES ASSUME Init PROVE TypeOK
  OBVIOUS
<1>1. cfgSh \in Table /\ cfgMode \in [Relay -> Nat]
  BY TablesAssumption, ModesAssumption DEF Init
<1>2. Loaded(cfgSh) \in [Slot -> Shutter]
  <2>1. ASSUME NEW s \in Slot
        PROVE  /\ cfgSh[s].up \in Relay \cup {NONE} /\ cfgSh[s].down \in Relay \cup {NONE}
               /\ cfgSh[s].travel \in Nat
    BY <1>1 DEF Table, Entry, EmptyEntry
  <2> QED
    BY <2>1 DEF Loaded, Shutter
<1>3. chain \in [Relay -> Level] /\ pulse \in [Relay -> Nat]
  BY DEF Init, Level
<1>4. /\ reload \in [at : ReloadAt \cup {"none"}, slot : Slot \cup {0},
                     row : Entry \cup {EmptyEntry}]
      /\ form \in [table : Table, step : 0 .. 2 * NSlots]
  BY SlotsAssumption DEF Init, NoReload, NoForm, Table
<1> QED
  BY <1>1, <1>2, <1>3, <1>4 DEF Init, TypeOK

\* The statements of a reload keep the ranges.
LEMMA CutType ==
  ASSUME TypeOK, ReloadStep
  PROVE  TypeOK'
<1> DEFINE s == reload.slot
           e == reload.row
           R == [at : ReloadAt \cup {"none"}, slot : Slot \cup {0}, row : Entry \cup {EmptyEntry}]
<1>1. /\ reload \in R /\ s \in Slot \cup {0} /\ e \in Entry \cup {EmptyEntry}
      /\ chain \in [Relay -> Level] /\ sh \in [Slot -> Shutter]
      /\ e.up \in Relay \cup {NONE} /\ e.down \in Relay \cup {NONE} /\ e.travel \in Nat
  BY DEF TypeOK, Entry, EmptyEntry
<1>2. CASE ReloadGet
  <2>1. cfgSh[s] \in Entry \cup {EmptyEntry}
    BY <1>2 DEF ReloadGet, TypeOK, Table
  <2>2. reload' \in R /\ race' \in {"none", "torn", "past"}
    BY <1>1, <1>2, <2>1 DEF ReloadGet, ReloadAt, TypeOK
  <2> QED
    BY <1>2, <2>2 DEF ReloadGet, TypeOK, cfgVars, outVars
<1>3. CASE ReloadOffSlot
  <2>1. \A X : RelayChainSet(chain, X, "off") \in [Relay -> Level]
    BY <1>1, SetChain DEF Level
  <2>2. reload' \in R /\ chain' \in [Relay -> Level]
    BY <1>1, <1>3, <2>1 DEF ReloadOffSlot, ReloadAt
  <2> QED
    BY <1>3, <2>2 DEF ReloadOffSlot, TypeOK, cfgVars
<1>4. ASSUME NEW p, s \in Slot => p \in Shutter, sh' = [sh EXCEPT ![s] = p]
      PROVE  sh' \in [Slot -> Shutter]
  BY <1>1, <1>4
<1>4a. s \in Slot => sh[s] \in Shutter
  BY <1>1
<1>5. CASE ReloadState
  <2> DEFINE p == [sh[s] EXCEPT !.state = "Idle"]
  <2>1. s \in Slot => p \in Shutter
    BY <1>4a DEF Shutter
  <2>2. sh' = [sh EXCEPT ![s] = p]
    BY <1>5 DEF ReloadState
  <2>3. sh' \in [Slot -> Shutter]
    BY <1>4, <2>1, <2>2
  <2>4. reload' \in R
    BY <1>1, <1>5 DEF ReloadState, ReloadAt
  <2> QED
    BY <1>5, <2>3, <2>4 DEF ReloadState, TypeOK, cfgVars
<1>6. CASE ReloadTimers
  <2> DEFINE p == [sh[s] EXCEPT !.timer = 0, !.interlock = 0, !.cover = "stopped"]
  <2>1. s \in Slot => p \in Shutter
    <3>1. ASSUME NEW x \in Shutter
          PROVE  [x EXCEPT !.timer = 0, !.interlock = 0, !.cover = "stopped"] \in Shutter
      BY DEF Shutter
    <3> QED
      BY <1>4a, <3>1
  <2>2. sh' = [sh EXCEPT ![s] = p]
    BY <1>6 DEF ReloadTimers
  <2>3. sh' \in [Slot -> Shutter]
    BY <1>4, <2>1, <2>2
  <2>4. reload' \in R
    BY <1>1, <1>6 DEF ReloadTimers, ReloadAt
  <2> QED
    BY <1>6, <2>3, <2>4 DEF ReloadTimers, TypeOK, cfgVars
<1>7. CASE ReloadRow
  <2> DEFINE a == [sh[s] EXCEPT !.valid = TRUE, !.up = e.up, !.down = e.down, !.travel = e.travel]
             b == [sh[s] EXCEPT !.valid = FALSE, !.state = "Idle", !.timer = 0, !.interlock = 0]
  <2>1. s \in Slot => a \in Shutter /\ b \in Shutter
    <3>1. ASSUME NEW x \in Shutter, NEW u \in Relay \cup {NONE}, NEW d \in Relay \cup {NONE},
                 NEW n \in Nat
          PROVE  [x EXCEPT !.valid = TRUE, !.up = u, !.down = d, !.travel = n] \in Shutter
      BY DEF Shutter
    <3>2. ASSUME NEW x \in Shutter
          PROVE  [x EXCEPT !.valid = FALSE, !.state = "Idle", !.timer = 0, !.interlock = 0]
                   \in Shutter
      BY DEF Shutter
    <3> QED
      BY <1>1, <1>4a, <3>1, <3>2
  <2>2. sh' = [sh EXCEPT ![s] = a] \/ sh' = [sh EXCEPT ![s] = b]
    BY <1>7 DEF ReloadRow
  <2>3. sh' \in [Slot -> Shutter]
    BY <1>4, <2>1, <2>2
  <2>4. /\ reload' \in R
        /\ main' \in Slot \cup {Rest, Reloading, Scan}
    <3>1. CASE s + 1 < NSlots
      <4>1. reload' = [at |-> "get", slot |-> s + 1, row |-> EmptyEntry] /\ main' = main
        BY <1>7, <3>1 DEF ReloadRow
      <4>2. s + 1 \in Slot
        BY <1>1, <3>1, SlotsAssumption DEF Slot
      <4> QED
        BY <4>1, <4>2 DEF ReloadAt, TypeOK
    <3>2. CASE ~(s + 1 < NSlots)
      BY <1>7, <3>2 DEF ReloadRow, NoReload
    <3> QED
      BY <3>1, <3>2
  <2> QED
    BY <1>7, <2>3, <2>4 DEF ReloadRow, TypeOK, cfgVars
<1> QED
  BY <1>2, <1>3, <1>5, <1>6, <1>7 DEF ReloadStep

LEMMA TypeStep ==
  ASSUME TypeOK, [Next]_vars
  PROVE  TypeOK'
<1>1. CASE UNCHANGED vars
  BY <1>1 DEF TypeOK, vars, cfgVars, outVars
<1>2. ASSUME UNCHANGED <<cfgVars, devices, web, apply, main, cutVars>>, Writes
      PROVE  TypeOK'
  BY <1>2 DEF TypeOK, Writes, cfgVars
<1>3. ASSUME UNCHANGED <<cfgVars, devices, web, apply, main, pulse, cutVars>>, NEW q \in Slot, Drives(q)
      PROVE  TypeOK'
  BY <1>3 DEF TypeOK, Drives, cfgVars
<1>4. CASE Commands
  BY <1>2, <1>3, <1>4, CommandEffect
<1>5. ASSUME NEW t \in Tables, NEW m \in ModeMaps, OutCfgParse(t, m)
      PROVE  TypeOK'
  BY <1>5, TablesAssumption, ModesAssumption DEF OutCfgParse, TypeOK, outVars
<1>5a. ASSUME NEW t \in Tables, NEW m \in ModeMaps, OutCfgOpen(t, m)
       PROVE  TypeOK'
  <2>1. form' \in [table : Table, step : 0 .. 2 * NSlots] /\ cfgMode' \in [Relay -> Nat]
    BY <1>5a, SlotsAssumption, TablesAssumption, ModesAssumption DEF OutCfgOpen
  <2> QED
    BY <1>5a, <2>1 DEF OutCfgOpen, TypeOK, outVars
<1>5b. CASE OutCfgRow
  <2> DEFINE k == form.step
  <2>1. /\ form \in [table : Table, step : 0 .. 2 * NSlots] /\ cfgSh \in Table
        /\ k \in 0 .. 2 * NSlots /\ form.table \in Table
    BY DEF TypeOK
  <2>2. cfgSh' \in Table
    <3>1. CASE k < NSlots
      BY <1>5b, <2>1, <3>1 DEF OutCfgRow, Table
    <3>2. CASE ~(k < NSlots)
      <4>1. cfgSh' = [cfgSh EXCEPT ![k - NSlots] = form.table[k - NSlots]]
        BY <1>5b, <3>2 DEF OutCfgRow
      <4> QED
        BY <2>1, <4>1 DEF Table
    <3> QED
      BY <3>1, <3>2
  <2>3. /\ form' \in [table : Table, step : 0 .. 2 * NSlots]
        /\ web' \in {"idle", "parsing", "unlocked", "saving", "iosave"}
    <3>1. CASE k + 1 < 2 * NSlots
      <4>1. form' = [form EXCEPT !.step = k + 1] /\ web' = web
        BY <1>5b, <3>1 DEF OutCfgRow
      <4>2. k + 1 \in 0 .. 2 * NSlots
        BY <2>1, <3>1, SlotsAssumption
      <4> QED
        BY <2>1, <4>1, <4>2 DEF TypeOK
    <3>2. CASE ~(k + 1 < 2 * NSlots)
      <4>1. form' = NoForm /\ web' = "unlocked"
        BY <1>5b, <3>2 DEF OutCfgRow
      <4> QED
        BY <4>1, SlotsAssumption DEF NoForm, Table
    <3> QED
      BY <3>1, <3>2
  <2> QED
    BY <1>5b, <2>2, <2>3 DEF OutCfgRow, TypeOK, outVars
<1>6. CASE OutCfgDedup
  <2>1. cfgSh' \in Table
    <3>1. cfgSh' \in [Slot -> {cfgSh[s] : s \in Slot} \cup {EmptyEntry}]
      BY <1>6 DEF OutCfgDedup, Dedups
    <3> QED
      BY <3>1 DEF TypeOK, Table
  <2> QED
    BY <1>6, <2>1 DEF OutCfgDedup, TypeOK, outVars
<1>7. CASE OutCfgFinish
  <2>1. chain' \in [Relay -> Level] /\ sh' \in [Slot -> Shutter]
    BY <1>7, ReloadTable DEF OutCfgFinish
  <2> QED
    BY <1>7, <2>1 DEF OutCfgFinish, TypeOK, cfgVars, Repaired
<1>8. ASSUME NEW n \in DevCounts, IOConfigParse(n)
      PROVE  TypeOK'
  BY <1>8 DEF IOConfigParse, TypeOK, outVars
<1>9. CASE IOConfigFinish
  BY <1>9 DEF IOConfigFinish, TypeOK, cfgVars, outVars
<1>10. CASE ApplyDevices
  <2>1. chain' \in [Relay -> Level]
    BY <1>10 DEF ApplyDevices, TypeOK, Level
  <2> QED
    BY <1>10, <2>1 DEF ApplyDevices, TypeOK, cfgVars
<1>11. CASE ApplyReload
  <2>1. chain' \in [Relay -> Level] /\ sh' \in [Slot -> Shutter]
    BY <1>11, ReloadTable DEF ApplyReload
  <2> QED
    BY <1>11, <2>1 DEF ApplyReload, TypeOK, cfgVars, Repaired
<1>11a. CASE ReloadStep
  BY <1>11a, CutType
<1>12. CASE PollBegin
  BY <1>12 DEF PollBegin, TypeOK, cfgVars, outVars
<1>13. CASE RelayPulseTick
  <2>1. main' \in Slot \cup {Rest, Reloading, Scan}
    BY <1>13, SlotsAssumption DEF RelayPulseTick, Slot, Rest
  <2> QED
    BY <1>13, <2>1, ExpiryWrites DEF RelayPulseTick, TypeOK, Writes, cfgVars
<1>14. CASE TickSlot
  <2>1. main' \in Slot \cup {Rest, Reloading, Scan}
    BY <1>14, SlotsAssumption DEF TickSlot, Slot, Rest
  <2>2. Drives(main)
    BY <1>14, TickDrives DEF TickSlot
  <2> QED
    BY <1>14, <2>1, <2>2 DEF TickSlot, TypeOK, Drives, cfgVars
<1> QED
  BY <1>1, <1>4, <1>5, <1>5a, <1>5b, <1>6, <1>7, <1>8, <1>9, <1>10, <1>11, <1>11a,
     <1>12, <1>13, <1>14, Steps

\* Every variable keeps its range, for every table, count and duration.
THEOREM TypeCorrect == Spec => []TypeOK
BY TypeInit, TypeStep, PTL DEF Spec

\* A deduplicated table gives no relay to two shutters.
LEMMA DedupApart ==
  ASSUME NEW t, NEW d, IsDedup(t, d), NEW s \in Slot, NEW q \in Slot, s # q,
         d[s] # EmptyEntry, d[q] # EmptyEntry
  PROVE  Disjoint(d[s], d[q])
<1>1. \A a, b \in Slot : b < a /\ d[a] # EmptyEntry /\ d[b] # EmptyEntry
        => Disjoint(d[b], d[a])
  BY DEF IsDedup
<1>2. s < q \/ q < s
  BY DEF Slot
<1> QED
  BY <1>1, <1>2 DEF Disjoint

-----------------------------------------------------------------------------
(* The agreement of the two tables, through every reload.                   *)

LEMMA InitBase == Init => BaseInv
<1> SUFFICES ASSUME Init PROVE BaseInv
  OBVIOUS
<1>1. TypeOK
  BY TypeInit
<1>2. CutInv
  BY DEF Init, CutInv, InReload, NoReload
<1>3. CfgApart
  BY DedupApart DEF Init, CfgApart
<1>4. \A s \in Slot : /\ sh[s].valid <=> cfgSh[s] # EmptyEntry
                      /\ sh[s].up = cfgSh[s].up /\ sh[s].down = cfgSh[s].down
                      /\ sh[s].travel = cfgSh[s].travel
  BY DEF Init, Loaded
<1>5. RoutingCoherent
  BY <1>3, <1>4 DEF Init, RoutingCoherent, CfgApart, Disjoint, Pair
<1> QED
  BY <1>1, <1>2, <1>3, <1>5 DEF BaseInv

\* What a step that is no part of a form or of a reload leaves alone.
LEMMA CutStands ==
  ASSUME CutInv, UNCHANGED <<cfgSh, cutVars>>,
         InReload => main' = main,
         web' = web \/ (Settled /\ Settled')
  PROVE  CutInv'
BY DEF CutInv, InReload, Settled

\* Where the main thread is outside of a reload.
LEMMA NotReloading ==
  ASSUME CutInv, main \in Slot \cup {Rest, Scan}
  PROVE  ~InReload
BY SlotsAssumption DEF CutInv, Slot, Rest, Scan, Reloading

\* A cut reload goes through its statements with the rows of the live table, until
\* a form falls into it.
LEMMA ReloadKeepsCut ==
  ASSUME BaseInv, ReloadStep
  PROVE  CutInv'
<1>0. /\ TypeOK /\ CutInv
      /\ reload.slot \in Slot \cup {0}
      /\ reload \in [at : ReloadAt \cup {"none"}, slot : Slot \cup {0},
                     row : Entry \cup {EmptyEntry}]
  BY DEF BaseInv, TypeOK
<1>1. CASE ReloadGet
  <2>1. /\ reload'.at = "off" /\ reload'.slot = reload.slot /\ reload'.row = cfgSh[reload.slot]
        /\ reload.slot \in Slot /\ main' = Reloading /\ UNCHANGED <<web, cfgSh>>
    BY <1>0, <1>1 DEF ReloadGet, cfgVars
  <2>2. race' # "torn" => Settled /\ race = race'
    BY <1>0, <1>1 DEF ReloadGet, CutInv
  <2>3. web = "parsing" => race' = "torn"
    BY <2>2 DEF Settled
  <2> QED
    BY <2>1, <2>2, <2>3 DEF CutInv, InReload, Settled
<1>2. CASE ReloadOffSlot
  <2>0. /\ UNCHANGED <<cfgSh, web, main, race>> /\ main = Reloading /\ reload.slot \in Slot
        /\ race # "torn" => Settled /\ reload.row = cfgSh[reload.slot]
        /\ web = "parsing" => race = "torn"
    BY <1>0, <1>2 DEF ReloadOffSlot, CutInv, InReload, cfgVars
  <2>1. /\ reload'.slot = reload.slot /\ reload'.row = reload.row
        /\ \/ reload'.at = "clear" /\ reload.row = EmptyEntry
           \/ reload'.at = "row" /\ reload.row # EmptyEntry
           \/ /\ reload'.at = "state" /\ reload.row # EmptyEntry
              /\ Changed(reload.slot, reload.row)
    BY <1>0, <1>2 DEF ReloadOffSlot
  <2>2. race # "torn" /\ reload.row # EmptyEntry => ~Changed(reload.slot, reload.row)
    BY <2>0 DEF BaseInv, RoutingCoherent, Changed
  <2> QED
    BY <2>0, <2>1, <2>2 DEF CutInv, InReload, Settled
<1>3. CASE ReloadState \/ ReloadTimers
  <2>1. /\ UNCHANGED <<cfgSh, web, main, race>> /\ race = "torn"
        /\ main = Reloading /\ reload.slot \in Slot /\ reload.row # EmptyEntry
    BY <1>0, <1>3 DEF ReloadState, ReloadTimers, CutInv, InReload, cfgVars
  <2>2. /\ reload'.slot = reload.slot /\ reload'.row = reload.row
        /\ reload'.at \in {"timers", "row"}
    BY <1>0, <1>3 DEF ReloadState, ReloadTimers
  <2> QED
    BY <2>1, <2>2 DEF CutInv, InReload
<1>4. CASE ReloadRow
  <2>1. /\ UNCHANGED <<cfgSh, web, race>> /\ main = Reloading
        /\ race # "torn" => Settled
        /\ web = "parsing" => race = "torn"
    BY <1>0, <1>4 DEF ReloadRow, CutInv, InReload, cfgVars
  <2>2. CASE reload.slot + 1 < NSlots
    <3>1. reload' = [at |-> "get", slot |-> reload.slot + 1, row |-> EmptyEntry] /\ main' = main
      BY <1>4, <2>2 DEF ReloadRow
    <3>2. reload.slot + 1 \in Slot
      BY <1>0, <2>2, SlotsAssumption DEF Slot
    <3>3. reload'.at = "get" /\ reload'.slot \in Slot
      BY <3>1, <3>2
    <3> QED
      BY <2>1, <3>1, <3>3 DEF CutInv, InReload, Settled
  <2>3. CASE ~(reload.slot + 1 < NSlots)
    <3>1. reload'.at = "none"
      BY <1>4, <2>3 DEF ReloadRow, NoReload
    <3> QED
      BY <2>1, <3>1 DEF CutInv, InReload
  <2> QED
    BY <2>2, <2>3
<1> QED
  BY <1>1, <1>2, <1>3, <1>4 DEF ReloadStep

\* Every step keeps the account of where a reload stands.
LEMMA CutStep ==
  ASSUME BaseInv, Next
  PROVE  CutInv'
<1>0. TypeOK /\ CutInv
  BY DEF BaseInv
<1>1. CASE Commands
  BY <1>0, <1>1, CommandEffect, CutStands DEF cfgVars
<1>2. ASSUME NEW t \in Tables, NEW m \in ModeMaps, OutCfgParse(t, m)
      PROVE  CutInv'
  <2>1. reload.at = "none" /\ reload' = reload /\ web' = "unlocked"
    BY <1>2 DEF OutCfgParse, InReload
  <2> QED
    BY <2>1 DEF CutInv, InReload
<1>3. ASSUME NEW t \in Tables, NEW m \in ModeMaps, OutCfgOpen(t, m)
      PROVE  CutInv'
  BY <1>0, <1>3 DEF OutCfgOpen, CutInv, InReload
<1>4. CASE OutCfgRow
  BY <1>0, <1>4 DEF OutCfgRow, CutInv, InReload
<1>5. CASE OutCfgDedup
  BY <1>0, <1>5 DEF OutCfgDedup, CutInv, InReload, Settled
<1>6. CASE OutCfgFinish
  BY <1>0, <1>6 DEF OutCfgFinish, CutInv, InReload, Settled, Repaired
<1>7. ASSUME NEW n \in DevCounts, IOConfigParse(n)
      PROVE  CutInv'
  BY <1>0, <1>7, CutStands DEF IOConfigParse, Handler, Settled
<1>8. CASE IOConfigFinish
  BY <1>0, <1>8, CutStands DEF IOConfigFinish, Settled, cfgVars
<1>9. CASE ApplyDevices \/ PollBegin \/ RelayPulseTick \/ TickSlot
  <2>1. main \in Slot \cup {Rest, Scan} /\ UNCHANGED <<cfgSh, web, cutVars>>
    BY <1>9 DEF ApplyDevices, PollBegin, RelayPulseTick, TickSlot, cfgVars
  <2> QED
    BY <1>0, <2>1, NotReloading, CutStands
<1>10. CASE ApplyReload
  <2>1. reload.at = "none" /\ reload' = reload /\ web' = web /\ race' \in {race, Repaired}
    BY <1>10 DEF ApplyReload, InReload
  <2>2. web = "parsing" => race' = "torn"
    BY <1>0, <1>10 DEF ApplyReload, CutInv, Settled
  <2> QED
    BY <2>1, <2>2 DEF CutInv, InReload
<1>11. CASE ReloadStep
  BY <1>11, ReloadKeepsCut
<1> QED
  BY <1>1, <1>2, <1>3, <1>4, <1>5, <1>6, <1>7, <1>8, <1>9, <1>10, <1>11, Steps

\* The live table is apart again once a form is saved.
LEMMA ApartStep ==
  ASSUME BaseInv, Next
  PROVE  CfgApart'
<1>0. TypeOK /\ CfgApart
  BY DEF BaseInv
<1>1. ASSUME cfgSh' = cfgSh, web \in {"parsing", "unlocked"} => web' = web
      PROVE  CfgApart'
  BY <1>0, <1>1 DEF CfgApart
<1>2. CASE Commands
  BY <1>0, <1>1, <1>2, CommandEffect DEF cfgVars
<1>3. ASSUME NEW t \in Tables, NEW m \in ModeMaps, OutCfgParse(t, m)
      PROVE  CfgApart'
  BY <1>3 DEF OutCfgParse, CfgApart
<1>4. ASSUME NEW t \in Tables, NEW m \in ModeMaps, OutCfgOpen(t, m)
      PROVE  CfgApart'
  BY <1>4 DEF OutCfgOpen, CfgApart
<1>5. CASE OutCfgRow
  <2>1. web' \in {"parsing", "unlocked"}
    BY <1>5 DEF OutCfgRow
  <2> QED
    BY <2>1 DEF CfgApart
<1>6. CASE OutCfgDedup
  BY <1>6, DedupApart DEF OutCfgDedup, Dedups, CfgApart
<1>7. ASSUME NEW n \in DevCounts, IOConfigParse(n)
      PROVE  CfgApart'
  BY <1>1, <1>7 DEF IOConfigParse, Handler
<1>8. CASE OutCfgFinish \/ IOConfigFinish \/ ApplyDevices \/ PollBegin \/ RelayPulseTick
           \/ TickSlot \/ ApplyReload
  BY <1>1, <1>8 DEF OutCfgFinish, IOConfigFinish, ApplyDevices, PollBegin, RelayPulseTick,
     TickSlot, ApplyReload, cfgVars
<1>9. CASE ReloadStep
  BY <1>1, <1>9 DEF ReloadStep, ReloadGet, ReloadOffSlot, ReloadState, ReloadTimers,
     ReloadRow, cfgVars
<1> QED
  BY <1>2, <1>3, <1>4, <1>5, <1>6, <1>7, <1>8, <1>9, Steps

\* The rows of the run-time table that the comparison with the live table reads.
SameRows ==
  \A s \in Slot : /\ sh'[s].valid = sh[s].valid
                  /\ sh'[s].up = sh[s].up /\ sh'[s].down = sh[s].down
                  /\ sh'[s].travel = sh[s].travel

LEMMA CoherentStands ==
  ASSUME RoutingCoherent, SameRows, cfgSh' = cfgSh,
         Settled' => Settled, race' # "torn" => race # "torn"
  PROVE  RoutingCoherent'
BY DEF RoutingCoherent, SameRows, Disjoint, Pair

\* A whole reload with no form under way makes the tables agree.
LEMMA WholeReload ==
  ASSUME TypeOK, CfgApart, OutputCtrlReload, cfgSh' = cfgSh, web \notin {"parsing", "unlocked"}
  PROVE  RoutingCoherent'
<1>1. \A s \in Slot : /\ sh'[s].valid <=> cfgSh[s] # EmptyEntry
                      /\ cfgSh[s] # EmptyEntry =>
                           /\ sh'[s].up = cfgSh[s].up /\ sh'[s].down = cfgSh[s].down
                           /\ sh'[s].travel = cfgSh[s].travel
  BY ReloadTable
<1> SUFFICES ASSUME NEW s \in Slot
             PROVE  /\ sh'[s].valid <=> cfgSh[s] # EmptyEntry
                    /\ sh'[s].valid =>
                         /\ sh'[s].up = cfgSh[s].up /\ sh'[s].down = cfgSh[s].down
                         /\ sh'[s].travel = cfgSh[s].travel
                         /\ \A q \in Slot \ {s} : sh'[q].valid => Disjoint(sh'[q], sh'[s])
  BY DEF RoutingCoherent
<1>2. ASSUME NEW q \in Slot \ {s}, cfgSh[s] # EmptyEntry, cfgSh[q] # EmptyEntry
      PROVE  Disjoint(sh'[q], sh'[s])
  <2>1. Disjoint(cfgSh[q], cfgSh[s])
    BY <1>2 DEF CfgApart
  <2> QED
    BY <1>1, <1>2, <2>1 DEF Disjoint, Pair
<1> QED
  BY <1>1, <1>2

\* A cut reload writes the rows that are there already, until a form falls into it.
LEMMA CutCoherent ==
  ASSUME BaseInv, ReloadStep
  PROVE  RoutingCoherent'
<1>0. /\ TypeOK /\ CutInv /\ RoutingCoherent /\ sh \in [Slot -> Shutter]
      /\ UNCHANGED <<cfgSh, web>> /\ (race' # "torn" => race # "torn")
  <2>1. TypeOK /\ CutInv /\ RoutingCoherent /\ sh \in [Slot -> Shutter]
    BY DEF BaseInv, TypeOK
  <2>2. CASE ReloadGet
    BY <2>1, <2>2 DEF ReloadGet, cfgVars
  <2>3. CASE ReloadOffSlot
    BY <2>1, <2>3 DEF ReloadOffSlot, cfgVars
  <2>4. CASE ReloadState \/ ReloadTimers \/ ReloadRow
    BY <2>1, <2>4 DEF ReloadState, ReloadTimers, ReloadRow, cfgVars
  <2> QED
    BY <2>2, <2>3, <2>4 DEF ReloadStep
<1>1. CASE ReloadGet \/ ReloadOffSlot
  <2>1. sh' = sh
    BY <1>1 DEF ReloadGet, ReloadOffSlot, outVars
  <2> QED
    BY <1>0, <2>1, CoherentStands DEF SameRows, Settled
<1>2. CASE race = "torn"
  <2>1. CASE race' = "torn"
    BY <2>1 DEF RoutingCoherent
  <2> QED
    BY <1>0, <1>2, <2>1
<1>3. CASE race # "torn" /\ (ReloadState \/ ReloadTimers)
  BY <1>0, <1>3 DEF CutInv, InReload, ReloadState, ReloadTimers
<1>4. CASE race # "torn" /\ ReloadRow
  <2> DEFINE s == reload.slot
             e == reload.row
  <2>1. /\ s \in Slot /\ Settled /\ e = cfgSh[s] /\ sh[s] \in Shutter
        /\ reload.at = "row" => e # EmptyEntry
        /\ reload.at = "clear" => e = EmptyEntry
    BY <1>0, <1>4 DEF CutInv, InReload, ReloadRow
  <2>2. /\ sh[s].valid <=> e # EmptyEntry
        /\ sh[s].valid => sh[s].up = e.up /\ sh[s].down = e.down /\ sh[s].travel = e.travel
    BY <1>0, <1>4, <2>1 DEF RoutingCoherent
  <2>3. \A q \in Slot : q # s => sh'[q] = sh[q]
    BY <1>0, <1>4, <2>1 DEF ReloadRow
  <2>4. CASE reload.at = "row"
    <3>1. sh'[s] = [sh[s] EXCEPT !.valid = TRUE, !.up = e.up, !.down = e.down, !.travel = e.travel]
      BY <1>0, <1>4, <2>1, <2>4 DEF ReloadRow
    <3>2. /\ sh'[s].valid = TRUE /\ sh'[s].up = e.up /\ sh'[s].down = e.down
          /\ sh'[s].travel = e.travel
      BY <2>1, <3>1 DEF Shutter
    <3>3. sh[s].valid = TRUE
      BY <2>1, <2>2, <2>4 DEF Shutter
    <3> QED
      BY <1>0, <2>2, <2>3, <3>2, <3>3, CoherentStands DEF SameRows, Settled
  <2>5. CASE reload.at = "clear"
    <3>1. sh'[s] = [sh[s] EXCEPT !.valid = FALSE, !.state = "Idle", !.timer = 0, !.interlock = 0]
      BY <1>0, <1>4, <2>1, <2>5 DEF ReloadRow
    <3>2. /\ sh'[s].valid = FALSE /\ sh'[s].up = sh[s].up /\ sh'[s].down = sh[s].down
          /\ sh'[s].travel = sh[s].travel
      BY <2>1, <3>1 DEF Shutter
    <3>3. sh[s].valid = FALSE
      BY <2>1, <2>2, <2>5 DEF Shutter
    <3> QED
      BY <1>0, <2>3, <3>2, <3>3, CoherentStands DEF SameRows, Settled
  <2> QED
    BY <1>4, <2>4, <2>5 DEF ReloadRow
<1> QED
  BY <1>1, <1>2, <1>3, <1>4 DEF ReloadStep

LEMMA CoherentStep ==
  ASSUME BaseInv, Next
  PROVE  RoutingCoherent'
<1>0. TypeOK /\ CutInv /\ CfgApart /\ RoutingCoherent
  BY DEF BaseInv
<1>1. ASSUME sh' = sh, cfgSh' = cfgSh, race' = race, Settled' => Settled
      PROVE  RoutingCoherent'
  BY <1>0, <1>1, CoherentStands DEF SameRows
<1>2. ASSUME UNCHANGED <<cfgSh, web, race>>, NEW q \in Slot, Drives(q)
      PROVE  RoutingCoherent'
  BY <1>0, <1>2, CoherentStands DEF SameRows, Drives, Settled
<1>3. ASSUME ~Settled' PROVE RoutingCoherent'
  BY <1>3 DEF RoutingCoherent
<1>4. CASE Commands
  <2>1. UNCHANGED <<cfgSh, web, race>> /\ (Writes \/ \E q \in Slot : Drives(q))
    BY <1>0, <1>4, CommandEffect DEF cfgVars
  <2> QED
    BY <1>1, <1>2, <2>1 DEF Writes, Settled
<1>5. ASSUME NEW t \in Tables, NEW m \in ModeMaps, OutCfgParse(t, m) \/ OutCfgOpen(t, m)
      PROVE  RoutingCoherent'
  BY <1>3, <1>5 DEF OutCfgParse, OutCfgOpen, Settled
<1>6. CASE OutCfgRow \/ OutCfgDedup
  <2>1. web' \in {"parsing", "unlocked", "saving"}
    BY <1>6 DEF OutCfgRow, OutCfgDedup
  <2> QED
    BY <1>3, <2>1 DEF Settled
<1>7. CASE OutCfgFinish
  BY <1>0, <1>7, WholeReload DEF OutCfgFinish, cfgVars
<1>8. ASSUME NEW n \in DevCounts, IOConfigParse(n)
      PROVE  RoutingCoherent'
  BY <1>1, <1>8 DEF IOConfigParse, Handler, Settled, outVars
<1>9. CASE IOConfigFinish \/ ApplyDevices \/ PollBegin \/ RelayPulseTick
  BY <1>1, <1>9 DEF IOConfigFinish, ApplyDevices, PollBegin, RelayPulseTick, Settled,
     cfgVars, outVars
<1>10. CASE ApplyReload
  <2>1. web' = web /\ cfgSh' = cfgSh /\ OutputCtrlReload
    BY <1>10 DEF ApplyReload, cfgVars
  <2>2. CASE Settled
    BY <1>0, <2>1, <2>2, WholeReload DEF Settled
  <2>3. CASE ~Settled
    BY <1>3, <2>1, <2>3 DEF Settled
  <2> QED
    BY <2>2, <2>3
<1>11. CASE ReloadStep
  BY <1>11, CutCoherent
<1>12. CASE TickSlot
  BY <1>0, <1>2, <1>12, TickDrives DEF TickSlot, cfgVars
<1> QED
  BY <1>4, <1>5, <1>6, <1>7, <1>8, <1>9, <1>10, <1>11, <1>12, Steps

LEMMA BaseStep ==
  ASSUME BaseInv, [Next]_vars
  PROVE  BaseInv'
<1>1. TypeOK'
  BY TypeStep DEF BaseInv
<1>2. CASE Next
  BY <1>1, <1>2, CutStep, ApartStep, CoherentStep DEF BaseInv
<1>3. CASE UNCHANGED vars
  <2>1. CutInv'
    BY <1>3, CutStands DEF BaseInv, vars, cfgVars
  <2>2. CfgApart'
    BY <1>3 DEF BaseInv, CfgApart, vars, cfgVars
  <2>3. RoutingCoherent'
    BY <1>3, CoherentStands DEF BaseInv, SameRows, Settled, vars, cfgVars, outVars
  <2> QED
    BY <1>1, <2>1, <2>2, <2>3 DEF BaseInv
<1> QED
  BY <1>2, <1>3

\* The table commands are routed by and the table they are executed by agree
\* whenever no handler of /outcfg.cgi stands in its window, whatever commands,
\* counts and forms cut into the reload of the main thread; the rows a reload has
\* left that a form fell into are excepted, until the tables are loaded again.
THEOREM Coherence == Spec => []RoutingCoherent
<1>1. Init => BaseInv
  BY InitBase
<1>2. BaseInv /\ [Next]_vars => BaseInv'
  BY BaseStep
<1>3. BaseInv => RoutingCoherent
  BY DEF BaseInv
<1> QED
  BY <1>1, <1>2, <1>3, PTL DEF Spec

-----------------------------------------------------------------------------
(* Relays are exclusive.  The steps fall into four kinds: one shutter is     *)
(* driven, relays are written, the table is loaded, and the rest.          *)

TableFixed == UNCHANGED <<cfgSh, devices, web>>

\* A slot d keeps has the relays of the live table.
LEMMA KeptIsLive ==
  ASSUME NEW d \in Targets, NEW s \in Slot, d[s] # EmptyEntry
  PROVE  d[s] = cfgSh[s]
BY DEF Targets, Dedups, IsDedup

\* The tables the handler may end with give no relay to two shutters.
LEMMA TargetsApart ==
  ASSUME TypeOK, CfgApart, web # "parsing", NEW d \in Targets, NEW s \in Slot, NEW q \in Slot, s # q,
         d[s] # EmptyEntry, d[q] # EmptyEntry
  PROVE  Disjoint(d[s], d[q])
<1>1. CASE web # "unlocked"
  BY <1>1 DEF Targets, CfgApart
<1>2. CASE web = "unlocked"
  BY <1>2, DedupApart DEF Targets, Dedups
<1> QED
  BY <1>1, <1>2

LEMMA DriveKeepsIInv ==
  ASSUME IInv, BaseInv', race' = "none", NEW q \in Slot, Drives(q), TableFixed
  PROVE  IInv'
<1> USE DEF TableFixed
<1>1. TwoRelays'
  BY DEF IInv, TwoRelays, Drives
<1>2. BeyondOff'
  BY DEF IInv, BeyondOff, Drives, Count
<1>5. Targets' = Targets
  BY DEF Targets
<1>6. ASSUME NEW d \in Targets PROVE OverlapsGo(d)'
  BY DEF IInv, OverlapsGo, Keeps, SamePair, Drives, Disjoint, Pair
<1>7. ASSUME NEW d \in Targets PROVE RestsLoose(d)'
  <2> SUFFICES ASSUME NEW s \in Slot, Keeps(s, d)', NEW r \in RestRelays(sh'[s])
               PROVE  Loose(r)' \/ Goes(r, d)'
    BY DEF RestsLoose
  <2>1. Keeps(s, d) /\ sh[s].valid
    BY DEF Keeps, SamePair, Drives
  <2>2. Goes(r, d) => Goes(r, d)'
    BY DEF Goes, Drives, Pair
  <2>3. RestRelays(sh'[s]) \subseteq Pair(sh[s]) /\ RestRelays(sh[s]) \subseteq Pair(sh[s])
    BY DEF RestRelays, Pair, Drives
  <2>4. r \in Relay /\ sh[s].up # sh[s].down
    BY <2>1, <2>3 DEF IInv, TwoRelays, Pair
  <2>5. CASE r >= Count
    BY <1>2, <2>4, <2>5 DEF BeyondOff, Loose, Count
  <2>6. CASE r < Count /\ s = q
    <3>1. chain'[r] = "off" \/ (chain'[r] = chain[r] /\ r \in RestRelays(sh[s]))
      BY <2>1, <2>4, <2>6 DEF Drives
    <3> QED
      BY <2>1, <2>2, <3>1 DEF IInv, RestsLoose, Loose
  <2>7. CASE s # q
    <3>1. r \in RestRelays(sh[s])
      BY <2>7 DEF Drives
    <3>2. CASE chain'[r] = chain[r]
      BY <2>1, <2>2, <3>1, <3>2 DEF IInv, RestsLoose, Loose
    <3>3. CASE chain'[r] # chain[r]
      <4>1. sh[q].valid /\ r \in Pair(sh[q])
        BY <2>4, <3>3 DEF Drives
      <4>2. d[q] = EmptyEntry
        BY <2>1, <2>3, <2>7, <4>1 DEF IInv, OverlapsGo, Disjoint
      <4> QED
        BY <2>2, <4>1, <4>2 DEF Goes
    <3> QED
      BY <3>2, <3>3
  <2>8. r < Count \/ r >= Count
    BY <2>4, RelaysAssumption, DevCountsAssumption DEF Relay, Count, IInv, BaseInv, TypeOK
  <2> QED
    BY <2>5, <2>6, <2>7, <2>8
<1> QED
  BY <1>1, <1>2, <1>5, <1>6, <1>7 DEF IInv

LEMMA WriteKeepsIInv ==
  ASSUME IInv, BaseInv', race' = "none", Writes, TableFixed
  PROVE  IInv'
<1> USE DEF TableFixed
<1>1. TwoRelays'
  BY DEF IInv, TwoRelays, Writes
<1>2. BeyondOff'
  BY DEF IInv, BeyondOff, Writes, Count
<1>5. Targets' = Targets
  BY DEF Targets
<1>6. ASSUME NEW d \in Targets PROVE OverlapsGo(d)'
  BY DEF IInv, OverlapsGo, Keeps, SamePair, Writes, Disjoint, Pair
<1>7. ASSUME NEW d \in Targets PROVE RestsLoose(d)'
  <2> SUFFICES ASSUME NEW s \in Slot, Keeps(s, d), NEW r \in RestRelays(sh[s])
               PROVE  Loose(r)' \/ Goes(r, d)
    BY DEF RestsLoose, Keeps, Goes, Writes
  <2>1. r \in Pair(sh[s]) /\ r \in Relay
    BY DEF RestRelays, Pair, Keeps, IInv, TwoRelays
  <2>2. d[s] = cfgSh[s] /\ r \in Pair(d[s])
    BY <2>1, KeptIsLive DEF Keeps, SamePair, Pair
  <2>3. IsShutterMember(r)
    BY <2>2 DEF IsShutterMember, MemberSlots
  <2>4. CASE chain'[r] = chain[r]
    BY <2>4 DEF IInv, RestsLoose, Loose
  <2>5. CASE chain'[r] # chain[r]
    BY <2>1, <2>3, <2>5 DEF Writes, Loose
  <2> QED
    BY <2>4, <2>5
<1> QED
  BY <1>1, <1>2, <1>5, <1>6, <1>7 DEF IInv

LEMMA ReloadKeepsIInv ==
  ASSUME IInv, BaseInv', race' = "none", OutputCtrlReload, UNCHANGED <<cfgSh, devices>>,
         web' = web \/ (web = "saving" /\ web' = "idle")
  PROVE  IInv'
<1>0. TypeOK /\ Targets' = Targets
  BY DEF IInv, BaseInv, Targets
<1>a. /\ \A r \in Relay : chain'[r] = IF r \in ReloadOff /\ r < Count THEN "off" ELSE chain[r]
      /\ \A s \in Slot : sh'[s].valid <=> cfgSh[s] # EmptyEntry
      /\ \A s \in Slot : cfgSh[s] # EmptyEntry =>
           /\ sh'[s].up = cfgSh[s].up /\ sh'[s].down = cfgSh[s].down
           /\ sh'[s].travel = cfgSh[s].travel
           /\ sh'[s].state = IF Changed(s, cfgSh[s]) THEN "Idle" ELSE sh[s].state
  BY <1>0, ReloadTable
<1>b. \A s \in Slot : cfgSh[s] # EmptyEntry =>
        cfgSh[s].up \in Relay /\ cfgSh[s].down \in Relay /\ cfgSh[s].up # cfgSh[s].down
  BY <1>0 DEF TypeOK, Table, Entry
<1>1. TwoRelays'
  BY <1>a, <1>b DEF TwoRelays
<1>2. BeyondOff'
  BY <1>a DEF IInv, BeyondOff, Count
<1>5. ASSUME NEW d \in Targets PROVE OverlapsGo(d)'
  <2> SUFFICES ASSUME NEW s \in Slot, NEW q \in Slot, s # q, d[s] # EmptyEntry,
                      sh'[s].valid, sh'[q].valid, ~Disjoint(sh'[s], sh'[q])
               PROVE  d[q] = EmptyEntry /\ SamePair(sh'[q], cfgSh[q])
    BY DEF OverlapsGo, Keeps
  <2>1. cfgSh[s] # EmptyEntry /\ cfgSh[q] # EmptyEntry /\ SamePair(sh'[q], cfgSh[q])
    BY <1>a DEF SamePair
  <2>2. ~Disjoint(cfgSh[s], cfgSh[q])
    BY <1>a, <2>1 DEF Disjoint, Pair
  <2>3. ASSUME d[q] # EmptyEntry PROVE FALSE
    <3>1. d[s] = cfgSh[s] /\ d[q] = cfgSh[q]
      BY <2>3, KeptIsLive
    <3> QED
      BY <1>0, <2>2, <2>3, <3>1, TargetsApart DEF IInv, BaseInv, CutInv
  <2> QED
    BY <2>1, <2>3
<1>6. ASSUME NEW d \in Targets PROVE RestsLoose(d)'
  <2> SUFFICES ASSUME NEW s \in Slot, d[s] # EmptyEntry, sh'[s].valid,
                      NEW r \in RestRelays(sh'[s])
               PROVE  Loose(r)' \/ Goes(r, d)'
    BY DEF RestsLoose, Keeps
  <2>1. d[s] = cfgSh[s] /\ cfgSh[s] # EmptyEntry
    BY KeptIsLive
  <2>2. r \in Pair(cfgSh[s]) /\ r \in Relay
    BY <1>a, <1>b, <2>1 DEF RestRelays, Pair
  <2>3. r < Count \/ r >= Count
    BY <1>0, <2>2, RelaysAssumption, DevCountsAssumption DEF Relay, Count, TypeOK
  <2>4. CASE r >= Count
    BY <1>2, <2>2, <2>4 DEF BeyondOff, Loose, Count
  <2>5. CASE r \in ReloadOff /\ r < Count
    BY <1>a, <2>2, <2>5 DEF Loose
  <2>6. CASE r \notin ReloadOff /\ r < Count
    <3>1. ~Changed(s, cfgSh[s])
      BY <2>1, <2>2, <2>6 DEF ReloadOff
    <3>2. Keeps(s, d) /\ r \in RestRelays(sh[s])
      BY <1>a, <2>1, <3>1 DEF Changed, Keeps, SamePair, RestRelays
    <3>3. chain'[r] = chain[r]
      BY <1>a, <2>2, <2>6
    <3>4. CASE Loose(r)
      BY <3>3, <3>4 DEF Loose
    <3>5. CASE Goes(r, d)
      <4>1. PICK q \in Slot : sh[q].valid /\ d[q] = EmptyEntry /\ r \in Pair(sh[q])
        BY <3>5 DEF Goes
      <4>2. q # s /\ ~Disjoint(sh[s], sh[q])
        BY <2>1, <3>2, <4>1 DEF Disjoint, RestRelays, Pair
      <4>3. cfgSh[q] = EmptyEntry \/ SamePair(sh[q], cfgSh[q])
        BY <3>2, <4>1, <4>2 DEF IInv, OverlapsGo
      <4>4. cfgSh[q] # EmptyEntry
        BY <2>2, <2>6, <4>1 DEF ReloadOff
      <4> QED
        BY <1>a, <4>1, <4>3, <4>4 DEF Goes, SamePair, Pair
    <3> QED
      BY <3>2, <3>4, <3>5 DEF IInv, RestsLoose
  <2> QED
    BY <2>3, <2>4, <2>5, <2>6
<1> QED
  BY <1>0, <1>1, <1>2, <1>5, <1>6 DEF IInv

\* With no handler in its window nothing goes, and a kept shutter is any shutter.
LEMMA SettledRests ==
  ASSUME IInv, Settled, NEW s \in Slot, sh[s].valid, NEW r \in RestRelays(sh[s])
  PROVE  Loose(r)
<1>1. cfgSh \in Targets
  BY DEF Settled, Targets
<1>2. Keeps(s, cfgSh)
  BY DEF IInv, BaseInv, RoutingCoherent, Keeps, SamePair
<1>3. ~Goes(r, cfgSh)
  BY DEF IInv, BaseInv, RoutingCoherent, Goes
<1> QED
  BY <1>1, <1>2, <1>3 DEF IInv, RestsLoose

\* The form goes into the live table.
LEMMA ParseKeepsIInv ==
  ASSUME IInv, BaseInv', race' = "none", NEW t \in Tables, NEW m \in ModeMaps, OutCfgParse(t, m)
  PROVE  IInv'
<1> USE DEF OutCfgParse, outVars
<1>1. TwoRelays' /\ BeyondOff' /\ Settled
  BY DEF IInv, TwoRelays, BeyondOff, Count, Settled, Handler
<1>2. ASSUME NEW d PROVE OverlapsGo(d)'
  <2>1. \A s, q \in Slot : s # q /\ sh[s].valid /\ sh[q].valid => Disjoint(sh[s], sh[q])
    BY <1>1 DEF IInv, BaseInv, RoutingCoherent, Disjoint
  <2> QED
    BY <2>1 DEF OverlapsGo, Keeps, Disjoint, Pair
<1>3. ASSUME NEW d PROVE RestsLoose(d)'
  BY <1>1, SettledRests DEF RestsLoose, Keeps, Loose, RestRelays
<1> QED
  BY <1>1, <1>2, <1>3 DEF IInv

\* Colliding slots are emptied.
LEMMA DedupKeepsIInv ==
  ASSUME IInv, BaseInv', race' = "none", OutCfgDedup
  PROVE  IInv'
<1> USE DEF OutCfgDedup, outVars
<1>1. cfgSh' \in Targets /\ Targets' = {cfgSh'}
  BY DEF Targets
<1>2. TwoRelays' /\ BeyondOff'
  BY DEF IInv, TwoRelays, BeyondOff, Count
<1>4. ASSUME NEW d \in Targets' PROVE OverlapsGo(d)'
  <2>1. d \in Targets /\ d = cfgSh'
    BY <1>1
  <2>2. OverlapsGo(d)
    BY <2>1 DEF IInv
  <2> QED
    BY <2>1, <2>2 DEF OverlapsGo, Keeps, SamePair, Disjoint, Pair
<1>5. ASSUME NEW d \in Targets' PROVE RestsLoose(d)'
  <2>1. d \in Targets
    BY <1>1
  <2>2. RestsLoose(d)
    BY <2>1 DEF IInv
  <2> QED
    BY <2>2 DEF RestsLoose, Keeps, SamePair, Loose, Goes, RestRelays, Pair
<1> QED
  BY <1>1, <1>2, <1>4, <1>5 DEF IInv

LEMMA InitIInv == Init => IInv
<1> SUFFICES ASSUME Init PROVE IInv
  OBVIOUS
<1>1. BaseInv /\ TypeOK /\ CfgApart
  BY InitBase DEF BaseInv
<1>2. Targets = {cfgSh} /\ web = "idle" /\ race = "none"
  BY DEF Init, Targets
<1>4. \A s \in Slot : /\ sh[s].valid <=> cfgSh[s] # EmptyEntry
                      /\ sh[s].up = cfgSh[s].up /\ sh[s].down = cfgSh[s].down
  BY DEF Init, Loaded
<1>5. TwoRelays
  BY <1>1, <1>4 DEF TwoRelays, TypeOK, Table, Entry
<1>7. BeyondOff /\ \A r \in Relay : Loose(r)
  BY DEF Init, BeyondOff, Loose
<1>8. OverlapsGo(cfgSh)
  BY <1>1, <1>2, <1>4 DEF OverlapsGo, Keeps, CfgApart, Disjoint, Pair
<1>9. RestsLoose(cfgSh)
  BY <1>5, <1>7 DEF RestsLoose, RestRelays, Keeps, TwoRelays
<1> QED
  BY <1>1, <1>2, <1>5, <1>7, <1>8, <1>9 DEF IInv

\* Steps that leave the live table, the run-time table and the chain alone.
LEMMA IdleKeepsIInv ==
  ASSUME IInv, BaseInv', race' = "none", UNCHANGED <<cfgSh, devices, chain, sh>>,
         web' = web \/ (Settled /\ Settled')
  PROVE  IInv'
<1>1. Targets' = Targets
  BY DEF Targets, Settled
<1>2. TwoRelays' /\ BeyondOff'
  BY DEF IInv, TwoRelays, BeyondOff, Count
<1>3. \A d \in Targets : OverlapsGo(d)' /\ RestsLoose(d)'
  BY DEF IInv, OverlapsGo, RestsLoose, Keeps, SamePair, Loose, Goes, RestRelays
<1> QED
  BY <1>1, <1>2, <1>3 DEF IInv

\* A row that is written with what it holds.
LEMMA SameRow ==
  ASSUME NEW x \in Shutter, x.valid = TRUE
  PROVE  [x EXCEPT !.valid = TRUE, !.up = x.up, !.down = x.down, !.travel = x.travel] = x
BY DEF Shutter

\* A cut reload that no form has fallen into rewrites rows with what they hold.
LEMMA CutDrives ==
  ASSUME IInv, ReloadStep, race' = "none"
  PROVE  /\ UNCHANGED <<cfgVars, devices, pulse, chain, web>>
         /\ main = Reloading /\ main' \in {Reloading, Rest}
         /\ \/ sh' = sh
            \/ \E q \in Slot : /\ Drives(q) /\ ~sh'[q].valid
                              /\ sh'[q].state = "Idle" /\ sh'[q].cover = sh[q].cover
<1>0. /\ TypeOK /\ CutInv /\ RoutingCoherent /\ sh \in [Slot -> Shutter]
      /\ chain \in [Relay -> Level] /\ race = "none"
  BY DEF IInv, BaseInv, TypeOK
<1> DEFINE s == reload.slot
           e == reload.row
<1>1. CASE ReloadGet
  BY <1>1 DEF ReloadGet, outVars
<1>2. ASSUME InReload
      PROVE  /\ main = Reloading /\ Settled /\ s \in Slot /\ sh[s] \in Shutter
             /\ reload.at \in {"get", "off", "row", "clear"}
             /\ reload.at # "get" => e = cfgSh[s]
             /\ reload.at = "row" => e # EmptyEntry
             /\ reload.at = "clear" => e = EmptyEntry
             /\ sh[s].valid <=> cfgSh[s] # EmptyEntry
             /\ sh[s].valid => /\ sh[s].up = cfgSh[s].up /\ sh[s].down = cfgSh[s].down
                               /\ sh[s].travel = cfgSh[s].travel
  BY <1>0, <1>2 DEF CutInv, RoutingCoherent
<1>3. CASE ReloadOffSlot
  <2>1. InReload /\ reload.at = "off"
    BY <1>3 DEF ReloadOffSlot, InReload
  <2>2. sh' = sh /\ main' = main /\ UNCHANGED <<cfgVars, devices, pulse, web>>
    BY <1>3 DEF ReloadOffSlot
  <2>3. chain' = chain
    BY <1>2, <1>3, <2>1 DEF ReloadOffSlot, Changed
  <2> QED
    BY <1>2, <2>1, <2>2, <2>3
<1>4. ~ReloadState /\ ~ReloadTimers
  BY <1>2 DEF ReloadState, ReloadTimers, InReload
<1>5. CASE ReloadRow
  <2>1. InReload
    BY <1>5 DEF ReloadRow, InReload
  <2>2. UNCHANGED <<cfgVars, devices, pulse, chain, web>> /\ main' \in {main, Rest}
    BY <1>5 DEF ReloadRow
  <2>3. CASE reload.at = "row"
    <3>1. sh' = [sh EXCEPT ![s] = [sh[s] EXCEPT !.valid = TRUE, !.up = e.up, !.down = e.down,
                                                !.travel = e.travel]]
      BY <1>5, <2>3 DEF ReloadRow
    <3>2. /\ sh[s].valid = TRUE /\ sh[s].up = e.up /\ sh[s].down = e.down
          /\ sh[s].travel = e.travel
      BY <1>2, <2>1, <2>3 DEF Shutter
    <3>3. [sh[s] EXCEPT !.valid = TRUE, !.up = e.up, !.down = e.down, !.travel = e.travel] = sh[s]
      BY <1>2, <2>1, <3>2, SameRow
    <3>4. sh' = sh
      BY <1>0, <3>1, <3>3
    <3> QED
      BY <1>2, <2>1, <2>2, <3>4
  <2>4. CASE reload.at = "clear"
    <3> DEFINE p == [sh[s] EXCEPT !.valid = FALSE, !.state = "Idle", !.timer = 0, !.interlock = 0]
    <3>1. sh' = [sh EXCEPT ![s] = p]
      BY <1>5, <2>4 DEF ReloadRow
    <3>2. sh[s].valid = FALSE
      BY <1>2, <2>1, <2>4 DEF Shutter
    <3>3. /\ p \in Shutter /\ p.valid = FALSE /\ p.up = sh[s].up /\ p.down = sh[s].down
          /\ p.travel = sh[s].travel /\ p.state = "Idle" /\ p.cover = sh[s].cover
      BY <1>2, <2>1 DEF Shutter
    <3> HIDE DEF p
    <3>4. sh' \in [Slot -> Shutter] /\ sh'[s] = p /\ \A x \in Slot : x # s => sh'[x] = sh[x]
      BY <1>0, <1>2, <2>1, <3>1, <3>3
    <3>5. Drives(s)
      BY <1>0, <2>2, <3>2, <3>3, <3>4 DEF Drives
    <3> QED
      BY <1>2, <2>1, <2>2, <3>3, <3>4, <3>5
  <2> QED
    BY <1>5, <2>3, <2>4 DEF ReloadRow
<1> QED
  BY <1>1, <1>3, <1>4, <1>5 DEF ReloadStep

\* A form that falls into a reload, or is entered row by row, is no such step.
LEMMA NoForms ==
  ASSUME IInv, race' = "none"
  PROVE  ~OutCfgRow /\ \A t \in Tables, m \in ModeMaps : ~OutCfgOpen(t, m)
BY DEF IInv, BaseInv, CutInv, OutCfgRow, OutCfgOpen

LEMMA StepIInv ==
  ASSUME IInv, [Next]_vars, race' = "none"
  PROVE  IInv'
<1>1. TypeOK /\ BaseInv'
  BY BaseStep DEF IInv, BaseInv
<1>2. CASE UNCHANGED vars
  BY <1>1, <1>2, IdleKeepsIInv DEF vars, cfgVars, outVars
<1>3. CASE Commands
  <2>1. TableFixed /\ (Writes \/ \E q \in Slot : Drives(q))
    BY <1>1, <1>3, CommandEffect DEF TableFixed, cfgVars
  <2> QED
    BY <1>1, <2>1, WriteKeepsIInv, DriveKeepsIInv
<1>4. ASSUME NEW t \in Tables, NEW m \in ModeMaps, OutCfgParse(t, m)
      PROVE  IInv'
  BY <1>1, <1>4, ParseKeepsIInv
<1>5. CASE OutCfgDedup
  BY <1>1, <1>5, DedupKeepsIInv
<1>6. CASE OutCfgFinish
  BY <1>1, <1>6, ReloadKeepsIInv DEF OutCfgFinish, cfgVars
<1>7. ASSUME NEW n \in DevCounts, IOConfigParse(n)
      PROVE  IInv'
  BY <1>1, <1>7, IdleKeepsIInv DEF IOConfigParse, Handler, Settled, outVars
<1>8. CASE IOConfigFinish
  BY <1>1, <1>8, IdleKeepsIInv DEF IOConfigFinish, Settled, cfgVars, outVars
<1>9. CASE ApplyDevices
  <2>1. UNCHANGED <<cfgSh, sh, web>>
    BY <1>9 DEF ApplyDevices, cfgVars
  <2>2. CASE chain' = chain /\ devices' = devices
    BY <1>1, <2>1, <2>2, IdleKeepsIInv
  <2>3. CASE chain' = [r \in Relay |-> "off"]
    <3>1. \A r \in Relay : chain'[r] = "off"
      BY <2>3
    <3>2. TwoRelays' /\ BeyondOff' /\ Targets' = Targets
      BY <2>1, <3>1 DEF IInv, TwoRelays, BeyondOff, Targets
    <3>3. \A d \in Targets : OverlapsGo(d)'
      BY <2>1 DEF IInv, OverlapsGo, Keeps, SamePair
    <3>4. \A d \in Targets : RestsLoose(d)'
      BY <3>1, <3>2 DEF RestsLoose, Keeps, Loose, RestRelays, TwoRelays
    <3> QED
      BY <1>1, <3>2, <3>3, <3>4 DEF IInv
  <2> QED
    BY <1>9, <2>2, <2>3 DEF ApplyDevices
<1>10. CASE ApplyReload
  BY <1>1, <1>10, ReloadKeepsIInv DEF ApplyReload, cfgVars
<1>11. CASE PollBegin
  BY <1>1, <1>11, IdleKeepsIInv DEF PollBegin, cfgVars, outVars
<1>12. CASE RelayPulseTick
  BY <1>1, <1>12, ExpiryWrites, WriteKeepsIInv DEF RelayPulseTick, TableFixed, cfgVars
<1>13. CASE TickSlot
  BY <1>1, <1>13, TickDrives, DriveKeepsIInv DEF TickSlot, TableFixed, cfgVars
<1>14. CASE ReloadStep
  <2>1. TableFixed /\ UNCHANGED <<cfgSh, devices, chain, web>>
    BY <1>14, CutDrives DEF TableFixed, cfgVars
  <2>2. sh' = sh \/ \E q \in Slot : Drives(q)
    BY <1>14, CutDrives
  <2> QED
    BY <1>1, <2>1, <2>2, IdleKeepsIInv, DriveKeepsIInv
<1> QED
  BY <1>2, <1>3, <1>4, <1>5, <1>6, <1>7, <1>8, <1>9, <1>10, <1>11, <1>12, <1>13, <1>14,
     NoForms, Steps

\* What a form has done to the tables is not forgotten.
LEMMA RaceStays ==
  ASSUME TypeOK, [Next]_vars, race' = "none"
  PROVE  race = "none"
<1>1. CASE Commands
  BY <1>1, CommandEffect
<1>2. CASE ReloadStep
  BY <1>2 DEF ReloadStep, ReloadGet, ReloadOffSlot, ReloadState, ReloadTimers, ReloadRow
<1> QED
  BY <1>1, <1>2, Steps DEF vars, OutCfgParse, OutCfgOpen, OutCfgRow, OutCfgDedup, OutCfgFinish,
     IOConfigParse, IOConfigFinish, ApplyDevices, ApplyReload, PollBegin, RelayPulseTick,
     TickSlot, Repaired

\* The invariant holds until a form falls into a reload.
LEMMA Invariance == Spec => [](race = "none" => IInv)
<1> DEFINE J == TypeOK /\ (race = "none" => IInv)
<1>1. Init => J
  BY InitIInv, TypeInit
<1>2. J /\ [Next]_vars => J'
  BY StepIInv, RaceStays, TypeStep
<1>3. J => (race = "none" => IInv)
  OBVIOUS
<1> HIDE DEF J
<1> QED
  BY <1>1, <1>2, <1>3, PTL DEF Spec

\* Until a form falls into the unlocked reload, two relays of one shutter are
\* energised together only if a pulse energised one of them.
THEOREM Exclusion == Spec => []ExclusiveUnlessPulsed
<1>1. (race = "none" => IInv) => ExclusiveUnlessPulsed
  <2> SUFFICES ASSUME IInv, Settled, NEW s \in Slot, BothOn(s)
               PROVE  \E r \in Pair(sh[s]) : chain[r] = "pulse"
    BY DEF ExclusiveUnlessPulsed
  <2>1. PICK r \in Pair(sh[s]) : r \in RestRelays(sh[s])
    BY DEF RestRelays, Pair
  <2>2. Loose(r)
    BY <2>1, SettledRests DEF BothOn
  <2> QED
    BY <2>1, <2>2 DEF BothOn, On, Loose, Pair
<1> QED
  BY <1>1, Invariance, PTL

-----------------------------------------------------------------------------
(* The contract with Home Assistant, for forms whose shutters share no     *)
(* relay: the table of a form that does is live until its colliding slots  *)
(* are emptied, and the main thread may load it before.                    *)

ApartForms == \A t \in Tables : IsDedup(t, t)

\* The live table never gives a relay to two shutters.
ApartCfg ==
  \A s, q \in Slot : s # q /\ cfgSh[s] # EmptyEntry /\ cfgSh[q] # EmptyEntry
    => Disjoint(cfgSh[s], cfgSh[q])

\* No state machine holds a relay its state does not drive.
Resting ==
  \A s \in Slot : sh[s].valid => \A r \in RestRelays(sh[s]) : chain[r] # "shutter"

\* A moving shutter has published where it goes.
Follows(s) ==
  /\ sh[s].state = "MovingUp" => sh[s].cover = "opening"
  /\ sh[s].state = "MovingDown" => sh[s].cover = "closing"

CInv ==
  /\ IInv
  /\ ApartCfg
  /\ NoSharedRelay
  /\ Resting
  /\ \A s \in Slot : Follows(s)

\* What the contract lets a step do to one shutter.
Kept(s) ==
  \/ Motor(s)' \in {Motor(s), "off"} /\ sh'[s].cover = sh[s].cover
  \/ Motor(s)' = "off" /\ sh'[s].cover \in {"opening", "closing", "stopped"}
  \/ Motor(s)' = "off" /\ sh[s].cover = "opening" /\ sh'[s].cover = "open"
  \/ Motor(s)' = "off" /\ sh[s].cover = "closing" /\ sh'[s].cover = "closed"
  \/ Motor(s) = "off" /\ Motor(s)' = "up" /\ sh'[s].cover = "opening"
  \/ Motor(s) = "off" /\ Motor(s)' = "down" /\ sh'[s].cover = "closing"

\* A state machine energises at most one relay of its pair.
LEMMA OneDriven ==
  ASSUME Resting, NEW s \in Slot, sh[s].valid
  PROVE  chain[sh[s].up] # "shutter" \/ chain[sh[s].down] # "shutter"
BY DEF Resting, RestRelays

\* What Motor reads off the chain when at most one relay of the pair is driven.
MotorReads(s) ==
  /\ Motor(s) \in {"off", "up", "down"}
  /\ ~sh[s].valid => Motor(s) = "off"
  /\ sh[s].valid /\ chain[sh[s].up] = "shutter" /\ chain[sh[s].down] # "shutter"
       => Motor(s) = "up"
  /\ sh[s].valid /\ chain[sh[s].up] # "shutter" /\ chain[sh[s].down] = "shutter"
       => Motor(s) = "down"
  /\ sh[s].valid /\ chain[sh[s].up] # "shutter" /\ chain[sh[s].down] # "shutter"
       => Motor(s) = "off"

LEMMA MotorValue == \A s \in Slot : MotorReads(s)
<1> SUFFICES ASSUME NEW s \in Slot PROVE MotorReads(s)
  OBVIOUS
<1>1. CASE ~sh[s].valid
  BY <1>1 DEF Motor, MotorReads
<1>2. CASE sh[s].valid /\ chain[sh[s].up] = "shutter" /\ chain[sh[s].down] # "shutter"
  BY <1>2 DEF Motor, MotorReads
<1>3. CASE sh[s].valid /\ chain[sh[s].up] # "shutter" /\ chain[sh[s].down] = "shutter"
  BY <1>3 DEF Motor, MotorReads
<1>4. CASE sh[s].valid /\ chain[sh[s].up] # "shutter" /\ chain[sh[s].down] # "shutter"
  BY <1>4 DEF Motor, MotorReads
<1>5. CASE sh[s].valid /\ chain[sh[s].up] = "shutter" /\ chain[sh[s].down] = "shutter"
  BY <1>5 DEF Motor, MotorReads
<1> QED
  BY <1>1, <1>2, <1>3, <1>4, <1>5

LEMMA MotorValueNext == \A s \in Slot : MotorReads(s)'
<1>1. (\A s \in Slot : MotorReads(s))'
  BY MotorValue, PTL
<1> QED
  BY <1>1

\* The relays of slot s keep or lose the mark of the state machine.
Fades(s) ==
  /\ sh'[s].valid => sh[s].valid /\ SamePair(sh'[s], sh[s])
  /\ sh'[s].valid => \A r \in Pair(sh[s]) : chain'[r] = "shutter" => chain[r] = "shutter"

LEMMA FadingMotor ==
  ASSUME Resting, NEW s \in Slot, Fades(s)
  PROVE  Motor(s)' \in {Motor(s), "off"}
<1>1. CASE ~sh'[s].valid
  BY <1>1, MotorValueNext DEF MotorReads
<1>2. CASE sh'[s].valid
  BY <1>2, MotorValue, MotorValueNext, OneDriven DEF MotorReads, Fades, SamePair, Pair
<1> QED
  BY <1>1, <1>2

-----------------------------------------------------------------------------
(* What a driven shutter does keeps the contract.                          *)

\* Only timers change.
LEMMA TimerKept ==
  ASSUME CInv, NEW q \in Slot, chain' = chain, sh'[q].valid = sh[q].valid,
         SamePair(sh'[q], sh[q]), sh'[q].state = sh[q].state, sh'[q].cover = sh[q].cover
  PROVE  Kept(q) /\ Follows(q)'
<1>1. Fades(q)
  BY DEF Fades
<1>2. Motor(q)' \in {Motor(q), "off"}
  BY <1>1, FadingMotor DEF CInv
<1> QED
  BY <1>2 DEF Kept, Follows, CInv

\* The relays are released, and the shutter rests or pauses.
LEMMA ReleaseKept ==
  ASSUME CInv, NEW q \in Slot, sh[q].valid,
         chain' = RelayChainSet(chain, Pair(sh[q]), "off"),
         sh'[q].valid = sh[q].valid, SamePair(sh'[q], sh[q]),
         sh'[q].state \in {"Idle", "SwitchDelay"},
         \/ sh'[q].cover \in {"opening", "closing", "stopped"}
         \/ sh[q].cover = "opening" /\ sh'[q].cover = "open"
         \/ sh[q].cover = "closing" /\ sh'[q].cover = "closed"
  PROVE  Kept(q) /\ Follows(q)'
<1>1. /\ chain \in [Relay -> Level] /\ Pair(sh[q]) \subseteq Relay
      /\ \A r \in Relay : r >= Count => chain[r] = "off"
      /\ \A r \in Relay : r < Count \/ r >= Count
  BY RelaysAssumption, DevCountsAssumption
     DEF CInv, IInv, BaseInv, TypeOK, TwoRelays, BeyondOff, Pair, Relay, Count
<1>2. \A r \in Relay : chain'[r] = IF r \in Pair(sh[q]) /\ r < Count THEN "off" ELSE chain[r]
  BY <1>1, SetChain DEF Level
<1>3. \A r \in Pair(sh[q]) : chain'[r] # "shutter"
  BY <1>1, <1>2
<1>4. Motor(q)' = "off"
  BY <1>3, MotorValueNext DEF MotorReads, SamePair, Pair
<1> QED
  BY <1>4 DEF Kept, Follows

\* A direction is energised from standstill.
LEMMA EnergiseKept ==
  ASSUME CInv, NEW q \in Slot, sh[q].valid, NEW up \in BOOLEAN,
         sh[q].state \notin {"MovingUp", "MovingDown"},
         chain' = Energise(chain, sh[q], up),
         sh'[q].valid = sh[q].valid, SamePair(sh'[q], sh[q]),
         sh'[q].state = Moving(up), sh'[q].cover = Going(up)
  PROVE  Kept(q) /\ Follows(q)'
<1>0. TypeOK
  BY DEF CInv, IInv, BaseInv
<1>1. /\ TypeOK /\ Pair(sh[q]) \subseteq Relay /\ sh[q].up # sh[q].down
      /\ \A r \in Relay : r >= Count => chain[r] = "off"
      /\ \A r \in Relay : r < Count \/ r >= Count
  <2>1. \A r \in Relay : r < Count \/ r >= Count
    BY <1>0, RelaysAssumption, DevCountsAssumption DEF TypeOK, Relay, Count
  <2> QED
    BY <1>0, <2>1 DEF CInv, IInv, TwoRelays, BeyondOff, Pair
<1>2. /\ \A r \in Relay : r \notin Pair(sh[q]) \/ r >= Count => chain'[r] = chain[r]
      /\ \A r \in Relay : r < Count /\ r = Opposite(sh[q], up) => chain'[r] = "off"
  BY <1>1, EnergiseChain
<1>3. Opposite(sh[q], up) \in Relay /\ chain'[Opposite(sh[q], up)] # "shutter"
  BY <1>1, <1>2 DEF Opposite, Pair
<1>4. Motor(q) = "off"
  BY MotorValue DEF MotorReads, CInv, Resting, RestRelays
<1>5. CASE up
  <2>1. Motor(q)' \in {"off", "up"}
    BY <1>3, <1>5, MotorValueNext DEF MotorReads, Opposite, SamePair
  <2> QED
    BY <1>4, <1>5, <2>1 DEF Kept, Follows, Going, Moving
<1>6. CASE ~up
  <2>1. Motor(q)' \in {"off", "down"}
    BY <1>3, <1>6, MotorValueNext DEF MotorReads, Opposite, SamePair
  <2> QED
    BY <1>4, <1>6, <2>1 DEF Kept, Follows, Going, Moving
<1> QED
  BY <1>5, <1>6

\* The new record of slot q, when it is the only one a step replaces.
LEMMA OneSlot ==
  ASSUME TypeOK, NEW q \in Slot, NEW p, sh' = [sh EXCEPT ![q] = p]
  PROVE  sh'[q] = p /\ sh[q] \in Shutter
BY DEF TypeOK

\* A command keeps the contract of its shutter.
LEMMA CommandKept ==
  ASSUME CInv, NEW q \in Slot, NEW cmd, OutputCtrlShutter(q, cmd)
  PROVE  Kept(q) /\ Follows(q)'
<1>0. TypeOK /\ Direction(q, cmd) \in BOOLEAN
  BY DEF CInv, IInv, BaseInv, Direction
<1>1. CASE chain' = chain /\ sh' = sh
  BY <1>1, TimerKept DEF SamePair
<1>2. CASE sh[q].valid /\ ShStop(q)
  <2>1. /\ sh'[q] = [sh[q] EXCEPT !.state = "Idle", !.timer = 0, !.interlock = 0,
                                  !.cover = "stopped"]
        /\ sh[q] \in Shutter
    BY <1>0, <1>2, OneSlot DEF ShStop
  <2>2. /\ sh'[q].valid = sh[q].valid /\ SamePair(sh'[q], sh[q])
        /\ sh'[q].state = "Idle" /\ sh'[q].cover = "stopped"
    BY <2>1 DEF Shutter, SamePair
  <2> QED
    BY <1>2, <2>2, ReleaseKept DEF ShStop
<1>3. ASSUME sh[q].valid, NEW up \in BOOLEAN, ShRefresh(q, up)
      PROVE  Kept(q) /\ Follows(q)'
  <2>1. sh'[q] = [sh[q] EXCEPT !.timer = sh[q].travel] /\ sh[q] \in Shutter
    BY <1>0, <1>3, OneSlot DEF ShRefresh
  <2>2. /\ sh'[q].valid = sh[q].valid /\ SamePair(sh'[q], sh[q])
        /\ sh'[q].state = sh[q].state /\ sh'[q].cover = sh[q].cover
    BY <2>1 DEF Shutter, SamePair
  <2> QED
    BY <1>3, <2>2, TimerKept DEF ShRefresh
<1>4. ASSUME sh[q].valid, NEW up \in BOOLEAN, ShStart(q, up)
      PROVE  Kept(q) /\ Follows(q)'
  <2>1. /\ sh'[q] = [sh[q] EXCEPT !.state = Moving(up), !.timer = sh[q].travel,
                                  !.lastUp = up, !.cover = Going(up)]
        /\ sh[q] \in Shutter
    BY <1>0, <1>4, OneSlot DEF ShStart
  <2>2. /\ sh'[q].valid = sh[q].valid /\ SamePair(sh'[q], sh[q])
        /\ sh'[q].state = Moving(up) /\ sh'[q].cover = Going(up)
    BY <2>1 DEF Shutter, SamePair
  <2> QED
    BY <1>4, <2>2, EnergiseKept DEF ShStart
<1>5. ASSUME sh[q].valid, NEW up \in BOOLEAN, ShReverse(q, up)
      PROVE  Kept(q) /\ Follows(q)'
  <2> DEFINE left == IF sh[q].state = "SwitchDelay" THEN sh[q].interlock ELSE Interlock
  <2>1. /\ sh'[q] = [sh[q] EXCEPT !.state = "SwitchDelay", !.timer = 0, !.interlock = left,
                                  !.pendingUp = up, !.lastUp = up, !.cover = Going(up)]
        /\ sh[q] \in Shutter
    BY <1>0, <1>5, OneSlot DEF ShReverse
  <2> HIDE DEF left
  <2>2. /\ sh'[q].valid = sh[q].valid /\ SamePair(sh'[q], sh[q])
        /\ sh'[q].state = "SwitchDelay" /\ sh'[q].cover \in {"opening", "closing"}
    BY <2>1 DEF Shutter, SamePair, Going
  <2> QED
    BY <1>5, <2>2, ReleaseKept DEF ShReverse
<1> QED
  BY <1>0, <1>1, <1>2, <1>3, <1>4, <1>5 DEF OutputCtrlShutter, ShMove

\* A tick keeps the contract of the shutter it visits.
LEMMA TickKept ==
  ASSUME CInv, NEW q \in Slot,
         TickRest(q) \/ TickTravel(q) \/ TickArrive(q) \/ TickInterlock(q) \/ TickResume(q)
  PROVE  Kept(q) /\ Follows(q)'
<1>0. TypeOK
  BY DEF CInv, IInv, BaseInv
<1>1. CASE TickRest(q)
  BY <1>1, TimerKept DEF TickRest, SamePair
<1>2. CASE TickTravel(q)
  <2>1. sh'[q] = [sh[q] EXCEPT !.timer = Ticked(sh[q].timer)] /\ sh[q] \in Shutter
    BY <1>0, <1>2, OneSlot DEF TickTravel
  <2>2. /\ sh'[q].valid = sh[q].valid /\ SamePair(sh'[q], sh[q])
        /\ sh'[q].state = sh[q].state /\ sh'[q].cover = sh[q].cover
    BY <2>1 DEF Shutter, SamePair
  <2> QED
    BY <1>2, <2>2, TimerKept DEF TickTravel
<1>3. CASE TickArrive(q)
  <2>1. /\ sh'[q] = [sh[q] EXCEPT !.timer = 0, !.state = "Idle",
                       !.cover = IF sh[q].state = "MovingUp" THEN "open" ELSE "closed"]
        /\ sh[q] \in Shutter
    BY <1>0, <1>3, OneSlot DEF TickArrive
  <2>2. /\ sh'[q].valid = sh[q].valid /\ SamePair(sh'[q], sh[q]) /\ sh'[q].state = "Idle"
        /\ sh'[q].cover = IF sh[q].state = "MovingUp" THEN "open" ELSE "closed"
    BY <2>1 DEF Shutter, SamePair
  <2>3. \/ sh[q].cover = "opening" /\ sh'[q].cover = "open"
        \/ sh[q].cover = "closing" /\ sh'[q].cover = "closed"
    BY <1>3, <2>2 DEF CInv, Follows, TickArrive, Runs
  <2> QED
    BY <1>3, <2>2, <2>3, ReleaseKept DEF TickArrive
<1>4. CASE TickInterlock(q)
  <2>1. sh'[q] = [sh[q] EXCEPT !.interlock = sh[q].interlock - 1] /\ sh[q] \in Shutter
    BY <1>0, <1>4, OneSlot DEF TickInterlock
  <2>2. /\ sh'[q].valid = sh[q].valid /\ SamePair(sh'[q], sh[q])
        /\ sh'[q].state = sh[q].state /\ sh'[q].cover = sh[q].cover
    BY <2>1 DEF Shutter, SamePair
  <2> QED
    BY <1>4, <2>2, TimerKept DEF TickInterlock
<1>5. CASE TickResume(q)
  <2> DEFINE up == sh[q].pendingUp
  <2>1. /\ sh'[q] = [sh[q] EXCEPT !.interlock = 0, !.timer = sh[q].travel,
                                  !.state = Moving(up), !.cover = Going(up)]
        /\ sh[q] \in Shutter
    BY <1>0, <1>5, OneSlot DEF TickResume
  <2>2. /\ sh'[q].valid = sh[q].valid /\ SamePair(sh'[q], sh[q]) /\ up \in BOOLEAN
        /\ sh'[q].state = Moving(up) /\ sh'[q].cover = Going(up)
    BY <2>1 DEF Shutter, SamePair
  <2>3. /\ sh[q].valid /\ sh[q].state \notin {"MovingUp", "MovingDown"}
        /\ chain' = Energise(chain, sh[q], up)
    BY <1>5 DEF TickResume
  <2> HIDE DEF up
  <2> QED
    BY <2>2, <2>3, EnergiseKept
<1> QED
  BY <1>1, <1>2, <1>3, <1>4, <1>5

-----------------------------------------------------------------------------
(* Every step keeps the contract of every shutter, and the invariant.      *)

\* The table stays and the relays of every shutter keep or lose their mark.
LEMMA FadeKeepsCInv ==
  ASSUME CInv, IInv', ApartCfg', sh' = sh,
         \A s \in Slot : sh[s].valid => \A r \in Pair(sh[s]) : chain'[r] = "shutter" => chain[r] = "shutter"
  PROVE  CInv' /\ \A s \in Slot : Kept(s)
<1>1. ASSUME NEW s \in Slot PROVE Kept(s)
  <2>1. Fades(s)
    BY DEF Fades, SamePair
  <2> QED
    BY <2>1, FadingMotor DEF CInv, Kept
<1>2. NoSharedRelay' /\ \A s \in Slot : Follows(s)'
  BY DEF CInv, NoSharedRelay, Disjoint, Pair, Follows
<1>3. Resting'
  BY DEF CInv, Resting, RestRelays, Pair
<1> QED
  BY <1>1, <1>2, <1>3 DEF CInv

\* A shutter is not disturbed when another one is driven.
LEMMA OthersStand ==
  ASSUME CInv, NEW q \in Slot, Drives(q), NEW s \in Slot, s # q
  PROVE  /\ sh'[s] = sh[s]
         /\ \A r \in Pair(sh[s]) : sh[s].valid => chain'[r] = chain[r]
<1>1. sh'[s] = sh[s]
  BY DEF Drives
<1>2. ASSUME sh[s].valid, NEW r \in Pair(sh[s]) PROVE chain'[r] = chain[r]
  <2>1. sh[q].valid => r \notin Pair(sh[q])
    BY <1>2 DEF CInv, NoSharedRelay, Disjoint
  <2>2. r \in Relay
    BY <1>2 DEF CInv, IInv, TwoRelays, Pair
  <2> QED
    BY <2>1, <2>2 DEF Drives
<1> QED
  BY <1>1, <1>2

\* One shutter is driven.
LEMMA DriveKeepsCInv ==
  ASSUME CInv, IInv', ApartCfg', NEW q \in Slot, Drives(q), Kept(q), Follows(q)'
  PROVE  CInv' /\ \A s \in Slot : Kept(s)
<1>0. \A s \in Slot : sh[s].valid => /\ Pair(sh[s]) \subseteq Relay /\ sh[s].up # sh[s].down
                                     /\ RestRelays(sh[s]) \subseteq Pair(sh[s])
  BY DEF CInv, IInv, TwoRelays, Pair, RestRelays
<1>1. ASSUME NEW s \in Slot, s # q
      PROVE  Kept(s) /\ Follows(s)' /\ \A r \in Pair(sh[s]) : sh[s].valid => chain'[r] = chain[r]
  <2>1. sh'[s] = sh[s] /\ \A r \in Pair(sh[s]) : sh[s].valid => chain'[r] = chain[r]
    BY <1>1, OthersStand
  <2>2. Fades(s)
    BY <2>1 DEF Fades, SamePair
  <2>3. Motor(s)' \in {Motor(s), "off"}
    BY <2>2, FadingMotor DEF CInv
  <2> QED
    BY <2>1, <2>3 DEF CInv, Kept, Follows
<1>2. NoSharedRelay'
  BY DEF CInv, NoSharedRelay, Disjoint, Pair, Drives
<1>3. Resting'
  <2> SUFFICES ASSUME NEW s \in Slot, sh'[s].valid, NEW r \in RestRelays(sh'[s])
               PROVE  chain'[r] # "shutter"
    BY DEF Resting
  <2>1. sh[s].valid /\ r \in Pair(sh[s]) /\ r \in Relay
    BY <1>0 DEF Drives, RestRelays, Pair
  <2>2. CASE s # q
    BY <1>1, <2>1, <2>2 DEF CInv, Resting, Drives
  <2>3. CASE s = q /\ r < Count
    BY <1>0, <2>1, <2>3 DEF CInv, Resting, Drives
  <2>4. CASE s = q /\ r >= Count
    <3>1. chain[r] = "off"
      BY <2>1, <2>4 DEF CInv, IInv, BeyondOff
    <3> QED
      BY <2>1, <2>4, <3>1 DEF Drives
  <2>5. r < Count \/ r >= Count
    BY <2>1, RelaysAssumption, DevCountsAssumption DEF Relay, Count, CInv, IInv, BaseInv, TypeOK
  <2> QED
    BY <2>2, <2>3, <2>4, <2>5
<1> QED
  BY <1>1, <1>2, <1>3 DEF CInv

\* The table is loaded.
LEMMA ReloadKeepsCInv ==
  ASSUME CInv, IInv', OutputCtrlReload, cfgSh' = cfgSh
  PROVE  CInv' /\ \A s \in Slot : Kept(s)
<1>0. TypeOK
  BY DEF CInv, IInv, BaseInv
<1>1. /\ \A r \in Relay : chain'[r] = IF r \in ReloadOff /\ r < Count THEN "off" ELSE chain[r]
      /\ \A s \in Slot : sh'[s].valid <=> cfgSh[s] # EmptyEntry
      /\ \A s \in Slot : cfgSh[s] # EmptyEntry =>
           /\ sh'[s].up = cfgSh[s].up /\ sh'[s].down = cfgSh[s].down
           /\ sh'[s].state = IF Changed(s, cfgSh[s]) THEN "Idle" ELSE sh[s].state
      /\ \A s \in Slot : LoadsCover(s)
  BY <1>0, ReloadTable
<1>2. \A s \in Slot : cfgSh[s] # EmptyEntry => Pair(cfgSh[s]) \subseteq Relay
  BY <1>0 DEF TypeOK, Table, Entry, Pair
<1>3. \A r \in Relay : chain'[r] = "shutter" => chain[r] = "shutter"
  BY <1>1
<1>4. ASSUME NEW s \in Slot, cfgSh[s] = EmptyEntry
      PROVE  Kept(s) /\ Follows(s)' /\ ~sh'[s].valid
  <2>1. Motor(s)' = "off"
    BY <1>1, <1>4, MotorValueNext DEF MotorReads
  <2>2. sh'[s].cover = sh[s].cover /\ sh'[s].state = "Idle"
    BY <1>1, <1>4 DEF LoadsCover
  <2> QED
    BY <1>1, <1>4, <2>1, <2>2 DEF Kept, Follows
<1>5. ASSUME NEW s \in Slot, cfgSh[s] # EmptyEntry, Changed(s, cfgSh[s])
      PROVE  Kept(s) /\ Follows(s)' /\ \A r \in Pair(sh'[s]) : chain'[r] # "shutter"
  <2>1. Pair(sh'[s]) = Pair(cfgSh[s])
    BY <1>1, <1>5 DEF Pair
  <2>2. ASSUME NEW r \in Pair(sh'[s]) PROVE chain'[r] = "off"
    <3>1. r \in Relay /\ r \in ReloadOff
      BY <1>2, <1>5, <2>1, <2>2 DEF ReloadOff
    <3>2. r < Count \/ r >= Count
      BY <1>0, <3>1, RelaysAssumption, DevCountsAssumption DEF Relay, Count, TypeOK
    <3> QED
      BY <1>1, <3>1, <3>2 DEF CInv, IInv, BeyondOff
  <2>3. Motor(s)' = "off"
    BY <2>2, MotorValueNext DEF MotorReads, Pair
  <2>4. sh'[s].cover = "stopped" /\ sh'[s].state = "Idle"
    BY <1>1, <1>5 DEF LoadsCover
  <2> QED
    BY <2>2, <2>3, <2>4 DEF Kept, Follows
<1>6. ASSUME NEW s \in Slot, cfgSh[s] # EmptyEntry, ~Changed(s, cfgSh[s])
      PROVE  /\ Kept(s) /\ Follows(s)' /\ Fades(s) /\ sh[s].valid
             /\ RestRelays(sh'[s]) = RestRelays(sh[s])
  <2>1. sh[s].valid /\ SamePair(sh'[s], sh[s]) /\ sh'[s].state = sh[s].state
        /\ sh'[s].cover = sh[s].cover
    BY <1>1, <1>6 DEF Changed, SamePair, LoadsCover
  <2>2. Pair(sh[s]) \subseteq Relay
    BY <2>1 DEF CInv, IInv, TwoRelays, Pair
  <2>3. Fades(s)
    BY <1>3, <2>1, <2>2 DEF Fades
  <2>4. Motor(s)' \in {Motor(s), "off"}
    BY <2>3, FadingMotor DEF CInv
  <2> QED
    BY <2>1, <2>3, <2>4 DEF CInv, Kept, Follows, RestRelays, SamePair
<1>7. NoSharedRelay'
  BY <1>1 DEF CInv, ApartCfg, NoSharedRelay, Disjoint, Pair
<1>8. Resting'
  <2> SUFFICES ASSUME NEW s \in Slot, sh'[s].valid, NEW r \in RestRelays(sh'[s])
               PROVE  chain'[r] # "shutter"
    BY DEF Resting
  <2>1. cfgSh[s] # EmptyEntry /\ r \in Pair(sh'[s])
    BY <1>1 DEF RestRelays, Pair
  <2>2. CASE Changed(s, cfgSh[s])
    BY <1>5, <2>1, <2>2
  <2>3. CASE ~Changed(s, cfgSh[s])
    <3>1. /\ Fades(s) /\ sh[s].valid /\ r \in RestRelays(sh[s])
      BY <1>6, <2>1, <2>3
    <3>2. SamePair(sh'[s], sh[s]) BY <3>1 DEF Fades
    <3>3. r \in Pair(sh[s]) BY <2>1, <3>2 DEF SamePair, Pair
    <3>4. chain[r] # "shutter" BY <3>1 DEF CInv, Resting
    <3> QED BY <3>1, <3>3, <3>4 DEF Fades
  <2> QED
    BY <2>2, <2>3
<1>9. ApartCfg'
  BY DEF CInv, ApartCfg
<1> QED
  BY <1>4, <1>5, <1>6, <1>7, <1>8, <1>9 DEF CInv

LEMMA InitCInv == ApartForms /\ Init => CInv
<1> SUFFICES ASSUME ApartForms, Init PROVE CInv
  OBVIOUS
<1>1. IInv /\ ApartCfg /\ Settled
  BY InitIInv, DedupApart DEF Init, ApartCfg, Settled
<1>2. NoSharedRelay
  BY <1>1 DEF IInv, BaseInv, RoutingCoherent, NoSharedRelay, Disjoint
<1>3. \A s \in Slot : sh[s].state = "Idle"
  BY DEF Init, Loaded
<1>4. \A r \in Relay : chain[r] = "off"
  BY DEF Init
<1>5. Resting
  BY <1>1, <1>4 DEF IInv, TwoRelays, Resting, RestRelays
<1> QED
  BY <1>1, <1>2, <1>3, <1>5 DEF CInv, Follows

LEMMA StepCInv ==
  ASSUME ApartForms, CInv, [Next]_vars, race' = "none"
  PROVE  CInv' /\ \A s \in Slot : Kept(s)
<1>1. TypeOK /\ IInv /\ IInv'
  BY StepIInv DEF CInv, IInv, BaseInv
<1>2. ASSUME UNCHANGED <<cfgSh, chain, sh>> PROVE CInv' /\ \A s \in Slot : Kept(s)
  <2>1. ApartCfg'
    BY <1>2 DEF CInv, ApartCfg
  <2> QED
    BY <1>1, <1>2, <2>1, FadeKeepsCInv
<1>3. CASE Commands
  <2>1. ApartCfg' /\ (Writes \/ \E q \in Slot : Commanded(q) /\ Drives(q))
    BY <1>1, <1>3, CommandEffect DEF CInv, ApartCfg, cfgVars
  <2>2. CASE Writes
    <3>1. \A s \in Slot : sh[s].valid => Pair(sh[s]) \subseteq Relay
      BY <1>1 DEF IInv, TwoRelays, Pair
    <3> QED
      BY <1>1, <2>1, <2>2, <3>1, FadeKeepsCInv DEF Writes
  <2>3. ASSUME NEW q \in Slot, Commanded(q), Drives(q)
        PROVE  CInv' /\ \A s \in Slot : Kept(s)
    <3>1. Kept(q) /\ Follows(q)'
      BY <2>3, CommandKept DEF Commanded
    <3> QED
      BY <1>1, <2>1, <2>3, <3>1, DriveKeepsCInv
  <2> QED
    BY <2>1, <2>2, <2>3
<1>4. ASSUME NEW t \in Tables, NEW m \in ModeMaps, OutCfgParse(t, m)
      PROVE  CInv' /\ \A s \in Slot : Kept(s)
  <2>1. ApartCfg'
    BY <1>4, DedupApart DEF ApartForms, ApartCfg, OutCfgParse
  <2> QED
    BY <1>1, <1>4, <2>1, FadeKeepsCInv DEF OutCfgParse, outVars
<1>5. CASE OutCfgDedup
  <2>1. ApartCfg'
    BY <1>5, DedupApart DEF ApartCfg, OutCfgDedup, Dedups
  <2> QED
    BY <1>1, <1>5, <2>1, FadeKeepsCInv DEF OutCfgDedup, outVars
<1>6. CASE OutCfgFinish \/ ApplyReload
  BY <1>1, <1>6, ReloadKeepsCInv DEF OutCfgFinish, ApplyReload, cfgVars
<1>7. CASE ApplyDevices
  <2>1. ApartCfg' /\ sh' = sh /\ \A r \in Relay : chain'[r] = "shutter" => chain[r] = "shutter"
    BY <1>7 DEF CInv, ApartCfg, ApplyDevices, cfgVars
  <2>2. \A s \in Slot : sh[s].valid => Pair(sh[s]) \subseteq Relay
    BY <1>1 DEF IInv, TwoRelays, Pair
  <2> QED
    BY <1>1, <2>1, <2>2, FadeKeepsCInv
<1>8. CASE RelayPulseTick
  <2>1. ApartCfg' /\ Writes
    BY <1>1, <1>8, ExpiryWrites DEF CInv, ApartCfg, RelayPulseTick, cfgVars
  <2>2. \A s \in Slot : sh[s].valid => Pair(sh[s]) \subseteq Relay
    BY <1>1 DEF IInv, TwoRelays, Pair
  <2> QED
    BY <1>1, <2>1, <2>2, FadeKeepsCInv DEF Writes
<1>9. CASE TickSlot
  <2>1. PICK q \in Slot : TickRest(q) \/ TickTravel(q) \/ TickArrive(q)
                         \/ TickInterlock(q) \/ TickResume(q)
    BY <1>9 DEF TickSlot
  <2>2. Drives(q) /\ Kept(q) /\ Follows(q)'
    BY <1>1, <2>1, TickDrives, TickKept
  <2>3. ApartCfg'
    BY <1>9 DEF CInv, ApartCfg, TickSlot, cfgVars
  <2> QED
    BY <1>1, <2>2, <2>3, DriveKeepsCInv
<1>10. CASE ReloadStep
  <2>1. /\ UNCHANGED <<cfgSh, chain>>
        /\ \/ sh' = sh
           \/ \E q \in Slot : /\ Drives(q) /\ ~sh'[q].valid
                             /\ sh'[q].state = "Idle" /\ sh'[q].cover = sh[q].cover
    BY <1>1, <1>10, CutDrives DEF cfgVars
  <2>2. ASSUME NEW q \in Slot, Drives(q), ~sh'[q].valid, sh'[q].state = "Idle",
               sh'[q].cover = sh[q].cover
        PROVE  CInv' /\ \A s \in Slot : Kept(s)
    <3>1. Motor(q)' = "off"
      BY <2>2, MotorValueNext DEF MotorReads
    <3>2. Kept(q) /\ Follows(q)'
      BY <2>2, <3>1 DEF Kept, Follows
    <3>3. ApartCfg'
      BY <2>1 DEF CInv, ApartCfg
    <3> QED
      BY <1>1, <2>2, <3>2, <3>3, DriveKeepsCInv
  <2> QED
    BY <1>2, <2>1, <2>2
<1> QED
  BY <1>1, <1>2, <1>3, <1>4, <1>5, <1>6, <1>7, <1>8, <1>9, <1>10, NoForms, Steps
     DEF vars, cfgVars, outVars, IOConfigParse, IOConfigFinish, PollBegin

\* The state of a shutter as CoverContract sees it.
ShownMotor == [s \in Slot |-> IF race = "none" THEN Motor(s) ELSE "off"]
ShownCover == [s \in Slot |-> IF race = "none" THEN sh[s].cover ELSE "stopped"]

LEMMA Shown ==
  /\ ShownMotor' \in Contract!Motors
  /\ TypeOK' => ShownCover' \in Contract!Covers
  /\ race = "none" => \A s \in Slot : ShownMotor[s] = Motor(s) /\ ShownCover[s] = sh[s].cover
  /\ race' = "none" => \A s \in Slot : /\ ShownMotor'[s] = Motor(s)'
                                      /\ ShownCover'[s] = sh'[s].cover
  /\ race' # "none" => \A s \in Slot : ShownMotor'[s] = "off" /\ ShownCover'[s] = "stopped"
<1>1. ShownMotor' \in Contract!Motors
  BY MotorValueNext DEF MotorReads, Contract!Motors, ShownMotor
<1>2. TypeOK' => ShownCover' \in Contract!Covers
  BY DEF TypeOK, Shutter, Contract!Covers, ShownCover
<1>3. race = "none" => \A s \in Slot : ShownMotor[s] = Motor(s) /\ ShownCover[s] = sh[s].cover
  BY DEF ShownMotor, ShownCover
<1>4. race' = "none" => \A s \in Slot : /\ ShownMotor'[s] = Motor(s)'
                                       /\ ShownCover'[s] = sh'[s].cover
  BY DEF ShownMotor, ShownCover
<1>5. race' # "none" => \A s \in Slot : ShownMotor'[s] = "off" /\ ShownCover'[s] = "stopped"
  BY DEF ShownMotor, ShownCover
<1> QED
  BY <1>1, <1>2, <1>3, <1>4, <1>5

LEMMA KeptMeets ==
  ASSUME TypeOK', race = "none", race' = "none", \A s \in Slot : Kept(s)
  PROVE  [Contract!Next]_(Contract!vars)
<1>1. ASSUME NEW s \in Slot
      PROVE  \/ Contract!Start(s) \/ Contract!Reverse(s) \/ Contract!Arrive(s)
             \/ Contract!Stop(s) \/ Contract!Release(s) \/ Contract!Stay(s)
  <2>1. /\ ShownMotor[s] = Motor(s) /\ ShownMotor'[s] = Motor(s)'
        /\ ShownCover[s] = sh[s].cover /\ ShownCover'[s] = sh'[s].cover
    BY Shown
  <2>2. Kept(s)
    OBVIOUS
  <2> QED
    BY <2>1, <2>2 DEF Kept, Contract!Start, Contract!Reverse, Contract!Arrive,
       Contract!Stop, Contract!Release, Contract!Stay, Contract!Going, Contract!Done,
       ShownMotor, ShownCover
<1> QED
  BY <1>1, Shown DEF Contract!Next, ShownMotor, ShownCover

\* Once a form has fallen into a reload the contract is shown nothing.
LEMMA RaceMeets ==
  ASSUME TypeOK', race' # "none"
  PROVE  [Contract!Next]_(Contract!vars)
<1>1. ASSUME NEW s \in Slot PROVE Contract!Stop(s)
  BY <1>1, Shown DEF Contract!Stop, ShownMotor, ShownCover
<1> QED
  BY <1>1, Shown DEF Contract!Next, ShownMotor, ShownCover

\* The published cover state and the motor of every shutter go together as
\* CoverContract says, whatever commands, forms without shared relays, device
\* counts and ticks are interleaved, until a form falls into the unlocked reload:
\* a motor starts from standstill only.
THEOREM Contracted == ASSUME ApartForms PROVE Spec => KeepsContract
<1> DEFINE J == TypeOK /\ (race = "none" => CInv)
<1>1. Init => Contract!Init
  <2> SUFFICES ASSUME Init PROVE Contract!Init
    OBVIOUS
  <2>1. ASSUME NEW s \in Slot PROVE Motor(s) = "off" /\ sh[s].cover = "stopped"
    <3>1. CInv
      BY InitCInv
    <3>2. sh[s].state = "Idle" /\ sh[s].cover = "stopped"
      BY DEF Init, Loaded
    <3> QED
      BY <3>1, <3>2, MotorValue DEF MotorReads, CInv, Resting, RestRelays
  <2> QED
    BY <2>1 DEF Contract!Init, Init
<1>2. J /\ [Next]_vars => J' /\ [Contract!Next]_(Contract!vars)
  <2> SUFFICES ASSUME J, [Next]_vars PROVE J' /\ [Contract!Next]_(Contract!vars)
    OBVIOUS
  <2>1. TypeOK'
    BY TypeStep
  <2>2. CASE race' = "none"
    <3>1. race = "none"
      BY <2>2, RaceStays
    <3>2. CInv' /\ \A s \in Slot : Kept(s)
      BY <2>2, <3>1, StepCInv
    <3> QED
      BY <2>1, <2>2, <3>1, <3>2, KeptMeets
  <2>3. CASE race' # "none"
    BY <2>1, <2>3, RaceMeets
  <2> QED
    BY <2>2, <2>3
<1>3. Init => J
  BY InitCInv, TypeInit
<1> HIDE DEF J
<1> QED
  BY <1>1, <1>2, <1>3, PTL DEF Spec, KeepsContract, Contract!Spec

-----------------------------------------------------------------------------
(* The pause of a reversal, for forms without shared relays and without the *)
(* web pulse, which drives a relay without asking whose it is.             *)

\* What a tick has still to take off the interlock of slot s: one before the
\* tick reaches the slot, none after.
Late(s) == IF main = Scan \/ (main \in Slot /\ main <= s) THEN 0 ELSE 1

\* The relays of a pausing shutter of the live table are off, and have been for
\* as long as the interlock has been counted down.
PausedAt(s) ==
  Keeps(s, cfgSh) /\ sh[s].state = "SwitchDelay" =>
    \A r \in Pair(sh[s]) :
      chain[r] = "off" /\ since[r] >= Interlock - sh[s].interlock - Late(s)

SinceType == since \in [Relay -> -1 .. Interlock]

PInv ==
  /\ CInv
  /\ SinceType
  /\ \A s \in Slot : PausedAt(s)

LEMMA SinceTypeStep ==
  ASSUME SinceType, SinceNext
  PROVE  SinceType'
BY InterlockAssumption DEF SinceType, SinceNext, Younger

\* The clock of a relay that stays off never goes back, and a tick advances it.
LEMMA SinceGrows ==
  ASSUME SinceType, SinceNext, NEW r \in Relay, chain[r] = "off", chain'[r] = "off"
  PROVE  /\ since[r] \in -1 .. Interlock /\ since'[r] \in -1 .. Interlock
         /\ since'[r] >= since[r]
         /\ TickBegins => since'[r] >= since[r] + 1 \/ since'[r] = Interlock
<1>1. since[r] \in -1 .. Interlock
  BY DEF SinceType
<1>2. since'[r] = IF TickBegins THEN Younger(since[r]) ELSE since[r]
  BY DEF SinceNext
<1> QED
  BY <1>1, <1>2, InterlockAssumption DEF Younger

LEMMA LateValue ==
  ASSUME NEW s \in Slot
  PROVE  /\ Late(s) \in {0, 1} /\ Late(s)' \in {0, 1}
         /\ main \in {Rest, Reloading} => Late(s) = 1
         /\ main' \in {Rest, Reloading} => Late(s)' = 1
         /\ main = Scan \/ main = s => Late(s) = 0
         /\ main' = main => Late(s)' = Late(s)
         /\ main = Scan /\ main' = 0 => Late(s)' = Late(s)
         /\ main \in Slot /\ main' = main + 1 /\ s # main => Late(s)' = Late(s)
BY SlotsAssumption DEF Late, Slot, Rest, Reloading, Scan

\* A pause that no command and no tick of its slot touches goes on.
LEMMA PauseGoesOn ==
  ASSUME PInv, SinceNext, NEW s \in Slot, Keeps(s, cfgSh), sh[s].state = "SwitchDelay",
         SamePair(sh'[s], sh[s]), sh'[s].interlock = sh[s].interlock,
         \A r \in Pair(sh[s]) : chain[r] = "off" => chain'[r] = "off",
         Late(s)' = Late(s) \/ TickBegins \/ Late(s)' = 1
  PROVE  PausedAt(s)'
<1>1. /\ Pair(sh[s]) \subseteq Relay /\ Pair(sh'[s]) = Pair(sh[s])
      /\ sh[s].interlock \in Nat
  BY DEF PInv, CInv, IInv, BaseInv, TwoRelays, TypeOK, Shutter, Keeps, Pair, SamePair
<1>2. ASSUME NEW r \in Pair(sh[s])
      PROVE  /\ chain'[r] = "off"
             /\ since'[r] >= Interlock - sh[s].interlock - Late(s)'
  <2>1. /\ r \in Relay /\ chain[r] = "off" /\ chain'[r] = "off"
        /\ since[r] >= Interlock - sh[s].interlock - Late(s)
    BY <1>1 DEF PInv, PausedAt
  <2>2. /\ since[r] \in -1 .. Interlock /\ since'[r] \in -1 .. Interlock
        /\ since'[r] >= since[r]
        /\ TickBegins => since'[r] >= since[r] + 1 \/ since'[r] = Interlock
    BY <2>1, SinceGrows DEF PInv
  <2>3. Late(s) \in {0, 1} /\ Late(s)' \in {0, 1}
    BY LateValue
  <2> QED
    BY <1>1, <2>1, <2>2, <2>3, InterlockAssumption
<1> QED
  BY <1>1, <1>2 DEF PausedAt

\* The table stays: no pause begins.
LEMMA FadeKeepsPauses ==
  ASSUME PInv, SinceNext, sh' = sh,
         \A s \in Slot : Keeps(s, cfgSh)' => Keeps(s, cfgSh),
         \A s \in Slot : Keeps(s, cfgSh) =>
           \A r \in Pair(sh[s]) : chain[r] = "off" => chain'[r] = "off",
         TickBegins \/ (\A s \in Slot : Late(s)' = Late(s) \/ Late(s)' = 1)
  PROVE  \A s \in Slot : PausedAt(s)'
<1> SUFFICES ASSUME NEW s \in Slot, Keeps(s, cfgSh)', sh[s].state = "SwitchDelay"
             PROVE  PausedAt(s)'
  BY DEF PausedAt
<1> QED
  BY PauseGoesOn DEF SamePair

\* A slot that is loaded pauses only if it did.
LEMMA ReloadKeepsPauses ==
  ASSUME PInv, SinceNext, OutputCtrlReload, cfgSh' = cfgSh,
         main' = main \/ main' = Rest
  PROVE  \A s \in Slot : PausedAt(s)'
<1>0. TypeOK
  BY DEF PInv, CInv, IInv, BaseInv
<1>1. /\ \A r \in Relay : chain'[r] = IF r \in ReloadOff /\ r < Count THEN "off" ELSE chain[r]
      /\ \A s \in Slot : sh'[s].valid <=> cfgSh[s] # EmptyEntry
      /\ \A s \in Slot : cfgSh[s] # EmptyEntry =>
           /\ sh'[s].up = cfgSh[s].up /\ sh'[s].down = cfgSh[s].down
           /\ sh'[s].state = IF Changed(s, cfgSh[s]) THEN "Idle" ELSE sh[s].state
      /\ \A s \in Slot : LoadsCover(s)
  BY <1>0, ReloadTable
<1> SUFFICES ASSUME NEW s \in Slot, Keeps(s, cfgSh)', sh'[s].state = "SwitchDelay"
             PROVE  PausedAt(s)'
  BY DEF PausedAt
<1>2. cfgSh[s] # EmptyEntry /\ ~Changed(s, cfgSh[s]) /\ sh[s].state = "SwitchDelay"
  BY <1>1 DEF Keeps
<1>3. Keeps(s, cfgSh) /\ SamePair(sh'[s], sh[s])
  BY <1>1, <1>2 DEF Keeps, SamePair, Changed
<1>4. sh'[s].interlock = sh[s].interlock
  BY <1>1, <1>2 DEF LoadsCover
<1>5. \A r \in Pair(sh[s]) : chain[r] = "off" => chain'[r] = "off"
  BY <1>1, <1>3 DEF PInv, CInv, IInv, TwoRelays, Keeps, Pair
<1>6. Late(s)' = Late(s) \/ Late(s)' = 1
  BY LateValue
<1> QED
  BY <1>2, <1>3, <1>4, <1>5, <1>6, PauseGoesOn

\* One shutter is driven, and its own pause is accounted for.
LEMMA DriveKeepsPauses ==
  ASSUME PInv, SinceNext, NEW q \in Slot, Drives(q), cfgSh' = cfgSh, PausedAt(q)',
         \A s \in Slot : s # q => Late(s)' = Late(s)
  PROVE  \A s \in Slot : PausedAt(s)'
<1> SUFFICES ASSUME NEW s \in Slot, s # q, Keeps(s, cfgSh)', sh'[s].state = "SwitchDelay"
             PROVE  PausedAt(s)'
  BY DEF PausedAt
<1>1. /\ sh'[s] = sh[s]
      /\ \A r \in Pair(sh[s]) : sh[s].valid => chain'[r] = chain[r]
  BY OthersStand DEF PInv
<1>2. Keeps(s, cfgSh) /\ sh[s].state = "SwitchDelay" /\ sh[s].valid
  BY <1>1 DEF Keeps, SamePair
<1> QED
  BY <1>1, <1>2, PauseGoesOn DEF SamePair

\* The record of a shutter that reverses.
LEMMA ReverseRecord ==
  ASSUME TypeOK, NEW q \in Slot, NEW up \in BOOLEAN, ShReverse(q, up)
  PROVE  /\ sh'[q].valid = sh[q].valid /\ SamePair(sh'[q], sh[q])
         /\ sh[q].state = "SwitchDelay" => sh'[q].interlock = sh[q].interlock
         /\ sh[q].state # "SwitchDelay" => sh'[q].interlock = Interlock
<1> DEFINE left == IF sh[q].state = "SwitchDelay" THEN sh[q].interlock ELSE Interlock
<1>1. /\ sh'[q] = [sh[q] EXCEPT !.state = "SwitchDelay", !.timer = 0, !.interlock = left,
                                !.pendingUp = up, !.lastUp = up, !.cover = Going(up)]
      /\ sh[q] \in Shutter
  BY OneSlot DEF ShReverse
<1> HIDE DEF left
<1>2. /\ sh'[q].valid = sh[q].valid /\ SamePair(sh'[q], sh[q])
      /\ sh'[q].interlock = left
  BY <1>1 DEF Shutter, SamePair, Going
<1> QED
  BY <1>2 DEF left

\* The relays of a shutter that reverses are off, and its interlock is whole or
\* the one that was running.
LEMMA ReversePauses ==
  ASSUME PInv, SinceNext, NEW q \in Slot, sh[q].valid, NEW up \in BOOLEAN,
         ShReverse(q, up), CoreFree, main' = main, cfgSh' = cfgSh
  PROVE  PausedAt(q)'
<1>0. TypeOK
  BY DEF PInv, CInv, IInv, BaseInv
<1>1. sh'[q].valid = sh[q].valid
  BY <1>0, ReverseRecord
<1>2. /\ SamePair(sh'[q], sh[q])
      /\ sh[q].state = "SwitchDelay" => sh'[q].interlock = sh[q].interlock
      /\ sh[q].state # "SwitchDelay" => sh'[q].interlock = Interlock
  BY <1>0, ReverseRecord
<1>3. /\ Pair(sh[q]) \subseteq Relay /\ chain \in [Relay -> Level]
      /\ \A r \in Relay : r >= Count => chain[r] = "off"
      /\ \A r \in Relay : r < Count \/ r >= Count
  BY RelaysAssumption, DevCountsAssumption
     DEF PInv, CInv, IInv, BaseInv, TypeOK, TwoRelays, BeyondOff, Pair, Relay, Count
<1>4. \A r \in Relay : chain'[r] = IF r \in Pair(sh[q]) /\ r < Count THEN "off" ELSE chain[r]
  BY <1>3, SetChain DEF ShReverse, Level
<1>5. \A r \in Pair(sh[q]) : chain'[r] = "off"
  BY <1>3, <1>4
<1>6. Late(q)' = 1
  BY LateValue DEF CoreFree
<1>7. SinceType'
  BY SinceTypeStep DEF PInv
<1>8. CASE sh[q].state = "SwitchDelay"
  <2>1. sh'[q].interlock = sh[q].interlock
    BY <1>2, <1>8
  <2>2. Keeps(q, cfgSh)' => Keeps(q, cfgSh)
    BY <1>1, <1>2 DEF Keeps, SamePair
  <2> QED
    BY <1>2, <1>5, <1>6, <1>8, <2>1, <2>2, PauseGoesOn DEF PausedAt
<1>9. CASE sh[q].state # "SwitchDelay"
  <2>1. sh'[q].interlock = Interlock
    BY <1>2, <1>9
  <2>2. \A r \in Pair(sh'[q]) : r \in Pair(sh[q]) /\ since'[r] \in -1 .. Interlock
    BY <1>2, <1>3, <1>7 DEF SamePair, Pair, SinceType
  <2>3. \A r \in Pair(sh'[q]) :
          chain'[r] = "off" /\ since'[r] >= Interlock - sh'[q].interlock - Late(q)'
    BY <1>5, <1>6, <2>1, <2>2, InterlockAssumption
  <2> QED
    BY <2>3 DEF PausedAt
<1> QED
  BY <1>8, <1>9

\* A momentary command never leaves a shutter pausing.
LEMMA MomentaryEnds ==
  ASSUME TypeOK, NEW q \in Slot, NEW cmd \in Momentary, OutputCtrlShutter(q, cmd)
  PROVE  sh'[q].state # "SwitchDelay" \/ (~sh[q].valid /\ chain' = chain /\ sh' = sh)
<1>1. CASE sh[q].valid /\ ShStop(q)
  <2>1. /\ sh'[q] = [sh[q] EXCEPT !.state = "Idle", !.timer = 0, !.interlock = 0,
                                  !.cover = "stopped"]
        /\ sh[q] \in Shutter
    BY <1>1, OneSlot DEF ShStop
  <2> QED
    BY <2>1 DEF Shutter
<1>2. ASSUME sh[q].state = "Idle", NEW up \in BOOLEAN, ShMove(q, up)
      PROVE  sh'[q].state # "SwitchDelay"
  <2>1. ShStart(q, up)
    BY <1>2 DEF ShMove, ShRefresh, ShReverse, Moving
  <2>2. /\ sh'[q] = [sh[q] EXCEPT !.state = Moving(up), !.timer = sh[q].travel,
                                  !.lastUp = up, !.cover = Going(up)]
        /\ sh[q] \in Shutter
    BY <2>1, OneSlot DEF ShStart
  <2> QED
    BY <2>2 DEF Shutter, Moving
<1>3. Direction(q, cmd) \in BOOLEAN
  BY DEF Direction
<1> QED
  BY <1>1, <1>2, <1>3 DEF OutputCtrlShutter, StopsIfMoving, Momentary

\* A command keeps the account of the pause of its shutter.
LEMMA CommandPauses ==
  ASSUME PInv, SinceNext, NEW q \in Slot, Commanded(q), main' = main, cfgSh' = cfgSh
  PROVE  PausedAt(q)'
<1>0. TypeOK
  BY DEF PInv, CInv, IInv, BaseInv
<1>1. CASE sh' = sh /\ chain' = chain
  <2>1. Late(q)' = Late(q) /\ (Keeps(q, cfgSh)' => Keeps(q, cfgSh))
    BY <1>1, LateValue DEF Keeps, SamePair
  <2> QED
    BY <1>1, <2>1, PauseGoesOn DEF PausedAt, SamePair
<1>2. CASE sh'[q].state # "SwitchDelay"
  BY <1>2 DEF PausedAt
<1>3. ASSUME NEW c \in {"OPEN", "CLOSE"}, OutputCtrlShutter(q, c), CoreFree
      PROVE  PausedAt(q)'
  <2>1. Direction(q, c) \in BOOLEAN /\ c # "STOP" /\ ~StopsIfMoving(q, c)
    BY <1>3 DEF Direction, StopsIfMoving
  <2>2. (sh' = sh /\ chain' = chain) \/ (sh[q].valid /\ ShMove(q, Direction(q, c)))
    BY <1>3, <2>1 DEF OutputCtrlShutter
  <2>3. ASSUME sh[q].valid, NEW up \in BOOLEAN, ShRefresh(q, up)
        PROVE  PausedAt(q)'
    <3>1. sh'[q] = [sh[q] EXCEPT !.timer = sh[q].travel] /\ sh[q] \in Shutter
      BY <1>0, <2>3, OneSlot DEF ShRefresh
    <3>2. sh'[q].state # "SwitchDelay"
      BY <2>3, <3>1 DEF ShRefresh, Moving, Shutter
    <3> QED
      BY <1>2, <3>2
  <2>4. ASSUME sh[q].valid, NEW up \in BOOLEAN, ShStart(q, up)
        PROVE  PausedAt(q)'
    <3>1. /\ sh'[q] = [sh[q] EXCEPT !.state = Moving(up), !.timer = sh[q].travel,
                                    !.lastUp = up, !.cover = Going(up)]
          /\ sh[q] \in Shutter
      BY <1>0, <2>4, OneSlot DEF ShStart
    <3>2. sh'[q].state # "SwitchDelay"
      BY <3>1 DEF Moving, Shutter
    <3> QED
      BY <1>2, <3>2
  <2> QED
    BY <1>1, <1>3, <2>1, <2>2, <2>3, <2>4, ReversePauses DEF ShMove
<1> QED
  BY <1>0, <1>1, <1>2, <1>3, MomentaryEnds DEF Commanded

\* A tick keeps the account of the pause of the slot it visits.
LEMMA TickPauses ==
  ASSUME PInv, SinceNext, NEW q \in Slot, main = q, main' = main + 1, cfgSh' = cfgSh,
         TickRest(q) \/ TickTravel(q) \/ TickArrive(q) \/ TickInterlock(q) \/ TickResume(q)
  PROVE  PausedAt(q)'
<1>0. TypeOK
  BY DEF PInv, CInv, IInv, BaseInv
<1>1. CASE TickRest(q)
  BY <1>1 DEF TickRest, PausedAt, Keeps
<1>2. CASE TickTravel(q)
  <2>1. sh'[q] = [sh[q] EXCEPT !.timer = Ticked(sh[q].timer)] /\ sh[q] \in Shutter
    BY <1>0, <1>2, OneSlot DEF TickTravel
  <2>2. sh'[q].state # "SwitchDelay"
    BY <1>2, <2>1 DEF TickTravel, Runs, Shutter
  <2> QED
    BY <2>2 DEF PausedAt
<1>3. CASE TickArrive(q)
  <2>1. /\ sh'[q] = [sh[q] EXCEPT !.timer = 0, !.state = "Idle",
                       !.cover = IF sh[q].state = "MovingUp" THEN "open" ELSE "closed"]
        /\ sh[q] \in Shutter
    BY <1>0, <1>3, OneSlot DEF TickArrive
  <2>2. sh'[q].state # "SwitchDelay"
    BY <2>1 DEF Shutter
  <2> QED
    BY <2>2 DEF PausedAt
<1>4. CASE TickInterlock(q)
  <2>1. sh'[q] = [sh[q] EXCEPT !.interlock = sh[q].interlock - 1] /\ sh[q] \in Shutter
    BY <1>0, <1>4, OneSlot DEF TickInterlock
  <2>2. /\ sh'[q].valid = sh[q].valid /\ SamePair(sh'[q], sh[q])
        /\ sh'[q].interlock = sh[q].interlock - 1 /\ sh[q].interlock \in Nat
    BY <2>1 DEF Shutter, SamePair
  <2> SUFFICES ASSUME Keeps(q, cfgSh), NEW r \in Pair(sh[q])
               PROVE  /\ chain'[r] = "off"
                      /\ since'[r] >= Interlock - sh'[q].interlock - Late(q)'
    BY <2>2 DEF PausedAt, Keeps, SamePair, Pair
  <2>3. /\ chain[r] = "off" /\ chain'[r] = "off" /\ r \in Relay
        /\ since[r] >= Interlock - sh[q].interlock - Late(q)
    BY <1>4 DEF PInv, PausedAt, TickInterlock, CInv, IInv, TwoRelays, Pair, Keeps
  <2>4. /\ since[r] \in -1 .. Interlock /\ since'[r] \in -1 .. Interlock
        /\ since'[r] >= since[r]
    BY <2>3, SinceGrows DEF PInv
  <2>5. Late(q) = 0 /\ Late(q)' = 1
    BY SlotsAssumption DEF Late, Slot, Scan
  <2> QED
    BY <2>2, <2>3, <2>4, <2>5, InterlockAssumption
<1>5. CASE TickResume(q)
  <2> DEFINE up == sh[q].pendingUp
  <2>1. /\ sh'[q] = [sh[q] EXCEPT !.interlock = 0, !.timer = sh[q].travel,
                                  !.state = Moving(up), !.cover = Going(up)]
        /\ sh[q] \in Shutter
    BY <1>0, <1>5, OneSlot DEF TickResume
  <2>2. sh'[q].state # "SwitchDelay"
    BY <2>1 DEF Shutter, Moving
  <2> QED
    BY <2>2 DEF PausedAt
<1> QED
  BY <1>1, <1>2, <1>3, <1>4, <1>5

NoPulses == PulseTicks = {}

LEMMA InitPInv == ApartForms /\ ClockInit => PInv
<1> SUFFICES ASSUME ApartForms, ClockInit PROVE PInv
  OBVIOUS
<1>1. CInv
  BY InitCInv DEF ClockInit
<1>2. SinceType
  BY InterlockAssumption DEF ClockInit, SinceType
<1>3. \A s \in Slot : sh[s].state = "Idle"
  BY DEF ClockInit, Init, Loaded
<1> QED
  BY <1>1, <1>2, <1>3 DEF PInv, PausedAt

\* The live table of shutters that share no relay loses none when it is cleaned.
LEMMA DedupIsSame ==
  ASSUME TypeOK, ApartCfg, NEW d \in Dedups(cfgSh)
  PROVE  d = cfgSh
<1>1. IsDedup(cfgSh, d)
  BY DEF Dedups
<1>2. ASSUME NEW s \in Slot PROVE d[s] = cfgSh[s]
  <2>1. ASSUME NEW q \in Slot, q < s, d[q] # EmptyEntry, cfgSh[s] # EmptyEntry
        PROVE  Disjoint(d[q], cfgSh[s])
    <3>1. d[q] = cfgSh[q] /\ q # s
      BY <1>1, <2>1 DEF IsDedup, Slot
    <3> QED
      BY <2>1, <3>1 DEF ApartCfg
  <2>2. CASE cfgSh[s] = EmptyEntry
    BY <1>1, <2>2 DEF IsDedup
  <2>3. CASE cfgSh[s] # EmptyEntry
    BY <1>1, <2>1, <2>3 DEF IsDedup
  <2> QED
    BY <2>2, <2>3
<1>3. d \in [Slot -> {cfgSh[s] : s \in Slot} \cup {EmptyEntry}] /\ cfgSh \in [Slot -> Entry \cup {EmptyEntry}]
  BY DEF Dedups, TypeOK, Table
<1> QED
  BY <1>2, <1>3

LEMMA StepPInv ==
  ASSUME ApartForms, NoPulses, PInv, [Next /\ SinceNext]_<<vars, since>>, race' = "none"
  PROVE  PInv'
<1>1. TypeOK /\ IInv /\ CInv /\ TwoRelays
  BY DEF PInv, CInv, IInv, BaseInv
<1>2. CASE UNCHANGED <<vars, since>>
  <2>1. CInv'
    BY <1>1, <1>2, StepCInv DEF vars
  <2>2. SinceType' /\ \A s \in Slot : PausedAt(s)'
    BY <1>2 DEF PInv, SinceType, PausedAt, Late, Keeps, SamePair, Pair, vars, cfgVars, outVars
  <2> QED
    BY <2>1, <2>2 DEF PInv
<1>3. CASE Next /\ SinceNext
  <2>0. CInv' /\ SinceType'
    BY <1>1, <1>3, StepCInv, SinceTypeStep DEF PInv
  <2> SUFFICES \A s \in Slot : PausedAt(s)'
    BY <2>0 DEF PInv
  <2>1. \A s \in Slot : main' = main => Late(s)' = Late(s)
    BY LateValue
  <2>2. CASE Commands
    <3>1. UNCHANGED <<cfgVars, main>> /\ (Writes \/ \E q \in Slot : Commanded(q) /\ Drives(q))
      BY <1>1, <2>2, CommandEffect
    <3>2. CASE Writes
      <4>1. ASSUME NEW s \in Slot, Keeps(s, cfgSh), NEW r \in Pair(sh[s]), chain[r] = "off"
            PROVE  chain'[r] = "off"
        <5>1. r \in Relay /\ r \in Pair(cfgSh[s])
          BY <1>1, <4>1 DEF TwoRelays, Keeps, SamePair, Pair
        <5>2. IsShutterMember(r)
          BY <5>1 DEF IsShutterMember, MemberSlots
        <5> QED
          BY <3>2, <4>1, <5>1, <5>2 DEF Writes, NoPulses
      <4>2. sh' = sh /\ \A s \in Slot : Keeps(s, cfgSh)' => Keeps(s, cfgSh)
        BY <3>1, <3>2 DEF Writes, Keeps, SamePair, cfgVars
      <4>3. \A s \in Slot : Late(s)' = Late(s)
        BY <2>1, <3>1
      <4> QED
        BY <1>3, <4>1, <4>2, <4>3, FadeKeepsPauses
    <3>3. ASSUME NEW q \in Slot, Commanded(q), Drives(q)
          PROVE  \A s \in Slot : PausedAt(s)'
      <4>1. PausedAt(q)'
        BY <1>3, <3>1, <3>3, CommandPauses DEF cfgVars
      <4> QED
        BY <1>3, <2>1, <3>1, <3>3, <4>1, DriveKeepsPauses DEF cfgVars
    <3> QED
      BY <3>1, <3>2, <3>3
  <2>3. ASSUME NEW t \in Tables, NEW m \in ModeMaps, OutCfgParse(t, m)
        PROVE  \A s \in Slot : PausedAt(s)'
    <3>1. sh' = sh /\ chain' = chain /\ main' = main /\ Settled
      BY <2>3 DEF OutCfgParse, outVars, Handler, Settled
    <3>2. \A s \in Slot : sh[s].valid => Keeps(s, cfgSh)
      BY <1>1, <3>1 DEF IInv, BaseInv, RoutingCoherent, Keeps, SamePair
    <3>3. \A s \in Slot : Keeps(s, cfgSh)' => Keeps(s, cfgSh)
      BY <3>1, <3>2 DEF Keeps
    <3> QED
      BY <1>3, <2>1, <3>1, <3>3, FadeKeepsPauses
  <2>4. ASSUME UNCHANGED <<cfgSh, sh, chain, main>>
        PROVE  \A s \in Slot : PausedAt(s)'
    <3>1. \A s \in Slot : Keeps(s, cfgSh)' => Keeps(s, cfgSh)
      BY <2>4 DEF Keeps, SamePair
    <3> QED
      BY <1>3, <2>1, <2>4, <3>1, FadeKeepsPauses
  <2>5. CASE OutCfgDedup
    <3>1. cfgSh' = cfgSh
      BY <1>1, <2>5, DedupIsSame DEF OutCfgDedup, CInv
    <3> QED
      BY <2>4, <2>5, <3>1 DEF OutCfgDedup, outVars
  <2>6. CASE OutCfgFinish \/ ApplyReload
    BY <1>3, <2>6, ReloadKeepsPauses DEF OutCfgFinish, ApplyReload, cfgVars
  <2>7. CASE ApplyDevices
    <3>1. /\ sh' = sh /\ \A s \in Slot : Keeps(s, cfgSh)' => Keeps(s, cfgSh)
          /\ \A r \in Relay : chain[r] = "off" => chain'[r] = "off"
      BY <2>7 DEF ApplyDevices, Keeps, SamePair, cfgVars
    <3>2. \A s \in Slot : Keeps(s, cfgSh) => Pair(sh[s]) \subseteq Relay
      BY <1>1 DEF TwoRelays, Keeps, Pair
    <3>3. \A s \in Slot : Late(s)' = 1
      BY <2>7, LateValue DEF ApplyDevices
    <3> QED
      BY <1>3, <3>1, <3>2, <3>3, FadeKeepsPauses
  <2>8. CASE PollBegin
    <3>1. /\ sh' = sh /\ chain' = chain /\ TickBegins
          /\ \A s \in Slot : Keeps(s, cfgSh)' => Keeps(s, cfgSh)
      BY <2>8 DEF PollBegin, TickBegins, Keeps, SamePair, cfgVars, outVars
    <3> QED
      BY <1>3, <3>1, FadeKeepsPauses
  <2>9. CASE RelayPulseTick
    <3>1. chain \in [Relay -> Level] /\ "off" \in Level
      BY <1>1 DEF TypeOK, Level
    <3>2. \A r \in Relay : chain[r] = "off" => chain'[r] = "off"
      BY <2>9, <3>1, SetChain DEF RelayPulseTick
    <3>3. sh' = sh /\ \A s \in Slot : Keeps(s, cfgSh)' => Keeps(s, cfgSh)
      BY <2>9 DEF RelayPulseTick, Keeps, SamePair, cfgVars
    <3>4. \A s \in Slot : Keeps(s, cfgSh) => Pair(sh[s]) \subseteq Relay
      BY <1>1 DEF TwoRelays, Keeps, Pair
    <3>5. \A s \in Slot : Late(s)' = Late(s)
      BY <2>9, LateValue DEF RelayPulseTick
    <3> QED
      BY <1>3, <3>2, <3>3, <3>4, <3>5, FadeKeepsPauses
  <2>10. CASE TickSlot
    <3>1. PICK q \in Slot : /\ main = q
                            /\ TickRest(q) \/ TickTravel(q) \/ TickArrive(q)
                               \/ TickInterlock(q) \/ TickResume(q)
      BY <2>10 DEF TickSlot
    <3>2. main' = main + 1 /\ cfgSh' = cfgSh
      BY <2>10 DEF TickSlot, cfgVars
    <3>3. Drives(q) /\ PausedAt(q)'
      BY <1>1, <1>3, <3>1, <3>2, TickDrives, TickPauses
    <3>4. \A s \in Slot : s # q => Late(s)' = Late(s)
      BY <3>1, <3>2, LateValue
    <3> QED
      BY <1>3, <3>2, <3>3, <3>4, DriveKeepsPauses
  <2>11. CASE ReloadStep
    <3>1. /\ cfgSh' = cfgSh /\ chain' = chain /\ \A s \in Slot : Late(s)' = Late(s)
          /\ \/ sh' = sh
             \/ \E q \in Slot : Drives(q) /\ ~sh'[q].valid
      BY <1>1, <2>11, CutDrives, LateValue DEF cfgVars
    <3>2. CASE sh' = sh
      <4>1. \A s \in Slot : Keeps(s, cfgSh)' => Keeps(s, cfgSh)
        BY <3>1, <3>2 DEF Keeps, SamePair
      <4> QED
        BY <1>3, <3>1, <3>2, <4>1, FadeKeepsPauses
    <3>3. ASSUME NEW q \in Slot, Drives(q), ~sh'[q].valid
          PROVE  \A s \in Slot : PausedAt(s)'
      <4>1. PausedAt(q)'
        BY <3>3 DEF PausedAt, Keeps
      <4> QED
        BY <1>3, <3>1, <3>3, <4>1, DriveKeepsPauses
    <3> QED
      BY <3>1, <3>2, <3>3
  <2> QED
    BY <1>1, <1>3, <2>2, <2>3, <2>4, <2>5, <2>6, <2>7, <2>8, <2>9, <2>10, <2>11, NoForms, Steps
       DEF IOConfigParse, IOConfigFinish, cfgVars, outVars
<1> QED
  BY <1>2, <1>3

-----------------------------------------------------------------------------
\* A command never ends a pause by moving.
LEMMA CommandWaits ==
  ASSUME TypeOK, NEW q \in Slot, NEW cmd, OutputCtrlShutter(q, cmd),
         sh[q].state = "SwitchDelay"
  PROVE  sh'[q].state \notin {"MovingUp", "MovingDown"}
<1>1. CASE ShStop(q)
  <2>1. /\ sh'[q] = [sh[q] EXCEPT !.state = "Idle", !.timer = 0, !.interlock = 0,
                                  !.cover = "stopped"]
        /\ sh[q] \in Shutter
    BY <1>1, OneSlot DEF ShStop
  <2> QED
    BY <2>1 DEF Shutter
<1>2. ASSUME NEW up \in BOOLEAN, ShMove(q, up)
      PROVE  sh'[q].state \notin {"MovingUp", "MovingDown"}
  <2>1. ShReverse(q, up)
    BY <1>2 DEF ShMove, ShRefresh, ShStart, Moving
  <2> DEFINE left == IF sh[q].state = "SwitchDelay" THEN sh[q].interlock ELSE Interlock
  <2>2. /\ sh'[q] = [sh[q] EXCEPT !.state = "SwitchDelay", !.timer = 0, !.interlock = left,
                                  !.pendingUp = up, !.lastUp = up, !.cover = Going(up)]
        /\ sh[q] \in Shutter
    BY <2>1, OneSlot DEF ShReverse
  <2> HIDE DEF left
  <2> QED
    BY <2>2 DEF Shutter, Going
<1>3. Direction(q, cmd) \in BOOLEAN
  BY DEF Direction
<1> QED
  BY <1>1, <1>2, <1>3 DEF OutputCtrlShutter

\* Only the tick that finds the interlock run out ends a pause by moving.
LEMMA OnlyResume ==
  ASSUME PInv, Next, race' = "none", NEW s \in Slot, sh[s].state = "SwitchDelay",
         sh'[s].state \in {"MovingUp", "MovingDown"}
  PROVE  main = s /\ sh[s].valid /\ sh[s].interlock <= 1
<1>1. TypeOK
  BY DEF PInv, CInv, IInv, BaseInv
<1>2. CASE Commands
  <2>1. Writes \/ \E q \in Slot : Commanded(q) /\ Drives(q)
    BY <1>1, <1>2, CommandEffect
  <2> QED
    BY <1>1, <2>1, CommandWaits DEF Writes, Drives, Commanded
<1>3. CASE OutCfgFinish \/ ApplyReload
  <2>1. OutputCtrlReload
    BY <1>3 DEF OutCfgFinish, ApplyReload
  <2>2. /\ cfgSh[s] # EmptyEntry =>
             sh'[s].state = IF Changed(s, cfgSh[s]) THEN "Idle" ELSE sh[s].state
        /\ LoadsCover(s)
    BY <1>1, <2>1, ReloadTable
  <2> QED
    BY <2>2 DEF LoadsCover
<1>4. CASE TickSlot
  <2>1. PICK q \in Slot : /\ main = q
                          /\ TickRest(q) \/ TickTravel(q) \/ TickArrive(q)
                             \/ TickInterlock(q) \/ TickResume(q)
    BY <1>4 DEF TickSlot
  <2>2. q = s
    BY <1>1, <2>1, TickDrives DEF Drives
  <2>3. ~TickInterlock(s)
    <3>1. SUFFICES ASSUME TickInterlock(s) PROVE FALSE
      OBVIOUS
    <3>2. sh'[s] = [sh[s] EXCEPT !.interlock = sh[s].interlock - 1] /\ sh[s] \in Shutter
      BY <1>1, <3>1, OneSlot DEF TickInterlock
    <3>3. sh'[s].state = sh[s].state
      BY <3>2 DEF Shutter
    <3> QED
      BY <3>3
  <2> QED
    BY <2>1, <2>2, <2>3 DEF TickRest, TickTravel, TickArrive, TickResume, Runs
<1>5. CASE sh' = sh
  BY <1>5
<1>6. CASE ReloadStep
  <2>1. \/ sh' = sh
        \/ \E q \in Slot : Drives(q) /\ sh'[q].state = "Idle"
    BY <1>6, CutDrives DEF PInv, CInv
  <2> QED
    BY <1>5, <2>1 DEF Drives
<1>7. ~OutCfgRow /\ \A t \in Tables, m \in ModeMaps : ~OutCfgOpen(t, m)
  BY NoForms DEF PInv, CInv
<1> QED
  BY <1>2, <1>3, <1>4, <1>5, <1>6, <1>7, Steps
     DEF OutCfgParse, OutCfgDedup, IOConfigParse, IOConfigFinish, ApplyDevices, PollBegin,
         RelayPulseTick, outVars

\* The step in which a form falls into a reload moves no shutter.
LEMMA TornAlone ==
  ASSUME TypeOK, Next, race = "none", race' # "none"
  PROVE  sh' = sh
<1>1. CASE Commands
  BY <1>1, CommandEffect
<1>2. CASE ReloadStep
  BY <1>2 DEF ReloadStep, ReloadGet, ReloadOffSlot, ReloadState, ReloadTimers, ReloadRow, outVars
<1> QED
  BY <1>1, <1>2, Steps DEF OutCfgParse, OutCfgOpen, OutCfgRow, OutCfgDedup, OutCfgFinish,
     IOConfigParse, IOConfigFinish, ApplyDevices, ApplyReload, PollBegin, RelayPulseTick,
     TickSlot, Repaired, outVars

\* A pending direction is energised only after both relays have been off for the
\* interlock, the first tick excepted: for every interlock, table and order of
\* commands, when no form gives a relay to two shutters and nobody pulses relays,
\* until a form falls into the unlocked reload.
THEOREM Pauses == ASSUME ApartForms, NoPulses PROVE ClockSpec => PausedReversal
<1> DEFINE J == TypeOK /\ (race = "none" => PInv)
<1>1. ClockInit => J
  BY InitPInv, TypeInit DEF ClockInit
<1>2. J /\ [Next /\ SinceNext]_<<vars, since>> => J'
  <2> SUFFICES ASSUME J, [Next /\ SinceNext]_<<vars, since>> PROVE J'
    OBVIOUS
  <2>1. [Next]_vars
    BY DEF vars
  <2> QED
    BY <2>1, TypeStep, RaceStays, StepPInv
<1>3. J /\ [Next /\ SinceNext]_<<vars, since>> =>
        [Settled /\ race = "none" => \A s \in Slot :
           sh[s].state = "SwitchDelay" /\ sh'[s].state \in {"MovingUp", "MovingDown"}
             => \A r \in Pair(sh[s]) : since[r] >= Interlock - 1]_<<vars, since>>
  <2> SUFFICES ASSUME J, Next, Settled, race = "none",
                      NEW s \in Slot, sh[s].state = "SwitchDelay",
                      sh'[s].state \in {"MovingUp", "MovingDown"}, NEW r \in Pair(sh[s])
               PROVE  since[r] >= Interlock - 1
    OBVIOUS
  <2>0. PInv /\ race' = "none"
    BY TornAlone
  <2>1. main = s /\ sh[s].valid /\ sh[s].interlock <= 1
    BY <2>0, OnlyResume
  <2>2. Keeps(s, cfgSh)
    BY <2>0, <2>1 DEF PInv, CInv, IInv, BaseInv, RoutingCoherent, Keeps, SamePair
  <2>3. since[r] >= Interlock - sh[s].interlock - Late(s) /\ r \in Relay
    BY <2>0, <2>2 DEF PInv, PausedAt, CInv, IInv, TwoRelays, Keeps, Pair
  <2>4. Late(s) = 0 /\ sh[s].interlock \in Nat /\ since[r] \in -1 .. Interlock
    BY <2>0, <2>1, <2>3, LateValue DEF PInv, CInv, IInv, BaseInv, TypeOK, Shutter, SinceType
  <2> QED
    BY <2>1, <2>3, <2>4, InterlockAssumption
<1> HIDE DEF J
<1> QED
  BY <1>1, <1>2, <1>3, PTL DEF ClockSpec, PausedReversal
=============================================================================
