----------------------------- MODULE OutputCtrl -----------------------------
(***************************************************************************)
(* The output controller of the home-automation product: the relay chain,  *)
(* the timed relay pulses and the shutter state machines, driven by MQTT,  *)
(* by the web UI, by the input bindings and by the periodic tick.          *)
(*                                                                         *)
(* Threads are those of the CC35x1 build.  The tcpip thread runs the web   *)
(* and MQTT handlers under the lwIP core lock, the main thread runs        *)
(* product_poll under the same lock, and two web handlers release the lock *)
(* while they write the configuration to flash: in that window the live    *)
(* configuration is new and the run-time shutter table is still the old    *)
(* one.  Each handler is one action; OutputCtrlTick is one action per slot *)
(* of its loop.                                                            *)
(*                                                                         *)
(* The main thread calls OutputCtrlReload without the lock.  A reload that *)
(* nobody cuts into is one action; one that is cut into is taken statement *)
(* by statement, and so is the rebuilding of the live table that it may    *)
(* read half done.  A row of the table is read and written whole.          *)
(*                                                                         *)
(* Time is counted in application ticks of SYSTICKMS (10 ms).              *)
(***************************************************************************)
EXTENDS Integers, FiniteSets

CONSTANTS
  NSlots,           \* CFG_MAX_SHUTTERS: shutter slots 0 .. NSlots-1
  MaxRelays,        \* CFG_MAX_OUTPUTS: relays 0 .. MaxRelays-1
  RelaysPerDevice,  \* 8: relays on one DRV8860 of the chain
  DevCounts,        \* the device counts the I/O form may store
  Interlock,        \* SHUTTER_INTERLOCK_MS in ticks
  Tables,           \* the shutter tables the output form may submit
  ModeMaps,         \* the per-output modes the output form may submit
  PulseTicks,       \* the pulse durations MQTT and the web UI may ask for
  Tears             \* whether a form may fall into the unlocked reload

Slot  == 0 .. NSlots - 1
Relay == 0 .. MaxRelays - 1

\* SHUTTER_NONE, the index that marks an empty slot.
NONE == MaxRelays

\* One row of the configured table: a relay pair and its travel time.
\* ConfigShutterSet rejects a pair of one relay.
EmptyEntry == [up |-> NONE, down |-> NONE, travel |-> 0]
Entry      == {e \in [up : Relay, down : Relay, travel : Nat \ {0}] : e.up # e.down}
Table      == [Slot -> Entry \cup {EmptyEntry}]

ASSUME SlotsAssumption == NSlots \in Nat
ASSUME RelaysAssumption == MaxRelays \in Nat /\ RelaysPerDevice \in Nat
ASSUME DevCountsAssumption ==
  DevCounts \subseteq Nat /\ \A n \in DevCounts : n * RelaysPerDevice <= MaxRelays
ASSUME InterlockAssumption == Interlock \in Nat \ {0}
ASSUME PulseAssumption == PulseTicks \subseteq Nat \ {0}
ASSUME ModesAssumption == ModeMaps \subseteq [Relay -> Nat]
ASSUME TearsAssumption == Tears \in BOOLEAN
ASSUME TablesAssumption == Tables \subseteq Table

VARIABLES
  cfgSh,    \* g_sOutCfg: the live shutter table
  cfgMode,  \* g_sOutCfg: 0 is Standard, n > 0 is Timed with auto-OFF after n
  cfgDev,   \* g_sConfig: configured relay device count
  devices,  \* g_ui8Devices: device count the chain runs with
  chain,    \* g_pui8State: "off", or who energised the relay
  pulse,    \* g_aui32PulseMs: countdown of each relay, 0 when none
  sh,       \* g_asSh: the run-time shutter table
  web,      \* where the tcpip thread stands in a handler that unlocks the core
  apply,    \* g_bStartMQTT: a configuration change waits for the main thread
  main,     \* where the main thread stands: Rest, Reloading, Scan or the slot
            \* OutputCtrlTick visits next
  reload,   \* where the main thread stands in a reload that is cut into
  form,     \* the form being entered row by row into the live table
  race      \* what the reloads cut into by a form have done to the tables

cfgVars == <<cfgSh, cfgMode, cfgDev>>
outVars == <<chain, pulse, sh>>
cutVars == <<reload, form, race>>
vars == <<cfgVars, devices, outVars, web, apply, main, cutVars>>

Rest      == NSlots   \* between two iterations, core lock free
Reloading == -1       \* RelayChainSetDevices is done, OutputCtrlReload is not
Scan      == -2       \* in product_poll, IOScanTick runs the bindings

\* The statements of OutputCtrlReload, for one slot: fetch the row, switch relays
\* off, set the state, set timers and cover, write the row or clear the slot.
ReloadAt == {"get", "off", "state", "timers", "row", "clear"}
NoReload == [at |-> "none", slot |-> 0, row |-> EmptyEntry]
InReload == reload.at # "none"

\* The rows of the form that are still to be entered: first every row of the
\* live table is cleared, then the rows are set.
NoForm == [table |-> [s \in Slot |-> EmptyEntry], step |-> 0]

\* A relay is off, or on: since it was switched on a shutter state machine has
\* energised it ("shutter"), or else its last writer is a pulse or timed output,
\* or a plain switch command.  The firmware keeps the bit only; the name of the
\* writer is there for the properties.
Level == {"off", "shutter", "pulse", "switch"}

Shutter ==
  [valid : BOOLEAN, up : Relay \cup {NONE}, down : Relay \cup {NONE}, travel : Nat,
   state : {"Idle", "MovingUp", "MovingDown", "SwitchDelay"},
   timer : Nat, interlock : Nat, pendingUp : BOOLEAN, lastUp : BOOLEAN,
   cover : {"opening", "closing", "open", "closed", "stopped"}]

-----------------------------------------------------------------------------
(* The relay chain.                                                        *)

Count == devices * RelaysPerDevice          \* RelayChainCount
CfgCount == cfgDev * RelaysPerDevice

\* RelayChainSet on a set of relays: relays beyond the chain are ignored.
RelayChainSet(f, R, level) ==
  [r \in Relay |-> IF r \in R /\ r < Count /\ (level = "off" \/ f[r] # "shutter")
                   THEN level ELSE f[r]]

\* MQTTAppSetRelay checks the configured count before the chain checks its own.
MQTTAppSetRelay(f, r, level) ==
  IF r < CfgCount THEN RelayChainSet(f, {r}, level) ELSE f

Pair(p) == {p.up, p.down}

-----------------------------------------------------------------------------
(* One shutter.                                                            *)

Moving(up) == IF up THEN "MovingUp" ELSE "MovingDown"
Wanted(p, up) == IF up THEN p.up ELSE p.down
Opposite(p, up) == IF up THEN p.down ELSE p.up
Going(up) == IF up THEN "opening" ELSE "closing"

\* Energise one direction: the opposite relay is switched off first.
Energise(f, p, up) ==
  RelayChainSet(RelayChainSet(f, {Opposite(p, up)}, "off"), {Wanted(p, up)}, "shutter")

ShStop(s) ==
  /\ chain' = RelayChainSet(chain, Pair(sh[s]), "off")
  /\ sh' = [sh EXCEPT ![s] = [sh[s] EXCEPT !.state = "Idle", !.timer = 0,
                                           !.interlock = 0, !.cover = "stopped"]]

\* Same direction: the travel time restarts and the relay is not cycled.
ShRefresh(s, up) ==
  /\ sh[s].state = Moving(up)
  /\ sh' = [sh EXCEPT ![s] = [sh[s] EXCEPT !.timer = sh[s].travel]]
  /\ UNCHANGED chain

\* Mutant: the travel timer is not started.
BugShStartNoTimer(s, up) ==
  /\ sh[s].state = "Idle"
  /\ chain' = Energise(chain, sh[s], up)
  /\ sh' = [sh EXCEPT ![s] = [sh[s] EXCEPT !.state = Moving(up), !.lastUp = up,
                                           !.cover = Going(up)]]

\* From rest the requested relay is energised at once.
ShStart(s, up) ==
  /\ sh[s].state = "Idle"
  /\ chain' = Energise(chain, sh[s], up)
  /\ sh' = [sh EXCEPT ![s] = [sh[s] EXCEPT !.state = Moving(up), !.timer = sh[s].travel,
                                           !.lastUp = up, !.cover = Going(up)]]

\* Mutant: the opposite relay is energised at once.
BugShReverseAtOnce(s, up) ==
  /\ sh[s].state \notin {"Idle", Moving(up)}
  /\ chain' = Energise(chain, sh[s], up)
  /\ sh' = [sh EXCEPT ![s] = [sh[s] EXCEPT !.state = Moving(up), !.timer = sh[s].travel,
                                           !.lastUp = up, !.cover = Going(up)]]

\* Mutant: the interlock is armed when a pending reversal is superseded instead
\* of when the reversal starts.
BugShReverseNoInterlock(s, up) ==
  /\ sh[s].state \notin {"Idle", Moving(up)}
  /\ chain' = RelayChainSet(chain, Pair(sh[s]), "off")
  /\ sh' = [sh EXCEPT ![s] = [sh[s] EXCEPT !.state = "SwitchDelay", !.timer = 0,
                                           !.interlock = IF sh[s].state = "SwitchDelay"
                                                        THEN Interlock ELSE sh[s].interlock,
                                           !.pendingUp = up, !.lastUp = up, !.cover = Going(up)]]

\* Reversing arms the interlock; superseding a pending reversal keeps it running.
ShReverse(s, up) ==
  /\ sh[s].state \notin {"Idle", Moving(up)}
  /\ chain' = RelayChainSet(chain, Pair(sh[s]), "off")
  /\ sh' = [sh EXCEPT ![s] = [sh[s] EXCEPT !.state = "SwitchDelay", !.timer = 0,
                                           !.interlock = IF sh[s].state = "SwitchDelay"
                                                        THEN sh[s].interlock ELSE Interlock,
                                           !.pendingUp = up, !.lastUp = up, !.cover = Going(up)]]

ShMove(s, up) == ShRefresh(s, up) \/ ShStart(s, up) \/ ShReverse(s, up)

\* The momentary commands stop a shutter that is not at rest.
StopsIfMoving(s, cmd) == cmd \in {"UP", "DOWN", "TOGGLE"} /\ sh[s].state # "Idle"

\* TRUE for up; the single-button cycle alternates.
Direction(s, cmd) == cmd \in {"OPEN", "UP"} \/ (cmd = "TOGGLE" /\ ~sh[s].lastUp)

OutputCtrlShutter(s, cmd) ==
  \/ ~sh[s].valid /\ UNCHANGED <<chain, sh>>
  \/ sh[s].valid /\ (cmd = "STOP" \/ StopsIfMoving(s, cmd)) /\ ShStop(s)
  \/ sh[s].valid /\ cmd # "STOP" /\ ~StopsIfMoving(s, cmd) /\ ShMove(s, Direction(s, cmd))

-----------------------------------------------------------------------------
(* One relay.                                                              *)

\* Mutant: ConfigShutterOfRelay looks at the UP relays only.
BugMemberSlotsUpOnly(r) == {s \in Slot : cfgSh[s].up = r}

\* Slots of the live table that use relay r; the scan takes the first.
MemberSlots(r) == {s \in Slot : r \in Pair(cfgSh[s])}

IsShutterMember(r) == MemberSlots(r) # {}

\* A relay command on a shutter member becomes a shutter command.
ShutterCmd(s, r, cmd) ==
  CASE cmd = "OFF"   -> "STOP"
    [] cmd = "CYCLE" -> "TOGGLE"
    [] OTHER         -> IF cfgSh[s].up = r THEN "UP" ELSE "DOWN"

RelayPulseStart(r, ticks) ==
  /\ chain' = MQTTAppSetRelay(chain, r, "pulse")
  /\ pulse' = [pulse EXCEPT ![r] = ticks]

MemberCommand(r, cmd) ==
  \E s \in MemberSlots(r) :
    /\ \A t \in MemberSlots(r) : s <= t
    /\ OutputCtrlShutter(s, ShutterCmd(s, r, cmd))
    /\ UNCHANGED pulse

\* RelayChainGet reads OFF beyond the chain.
WantOn(r, cmd) ==
  IF cmd \in {"TOGGLE", "CYCLE"} THEN ~(r < Count /\ chain[r] # "off") ELSE cmd = "ON"

TimedCommand(r, on) ==
  /\ cfgMode[r] > 0
  /\ \/ on /\ RelayPulseStart(r, cfgMode[r])
     \/ /\ ~on
        /\ chain' = MQTTAppSetRelay(chain, r, "off")
        /\ pulse' = [pulse EXCEPT ![r] = 0]

StandardCommand(r, on) ==
  /\ cfgMode[r] = 0
  /\ chain' = MQTTAppSetRelay(chain, r, IF on THEN "switch" ELSE "off")
  /\ UNCHANGED pulse

OutputCtrlCommand(r, cmd) ==
  \/ MemberCommand(r, cmd)
  \/ /\ ~IsShutterMember(r)
     /\ TimedCommand(r, WantOn(r, cmd)) \/ StandardCommand(r, WantOn(r, cmd))
     /\ UNCHANGED sh


-----------------------------------------------------------------------------
(* Loading the shutter table.                                              *)

Changed(s, e) == ~sh[s].valid \/ sh[s].up # e.up \/ sh[s].down # e.down

\* Mutant: a newly defined pair is not switched off.
BugReloadOffRemovedOnly == {r \in Relay : \E s \in Slot :
  cfgSh[s] = EmptyEntry /\ sh[s].valid /\ r \in Pair(sh[s])}

\* Relays that OutputCtrlReload switches off: the new pair of every changed
\* slot and the old pair of every removed one.
ReloadOff == {r \in Relay : \E s \in Slot :
  \/ cfgSh[s] # EmptyEntry /\ Changed(s, cfgSh[s]) /\ r \in Pair(cfgSh[s])
  \/ cfgSh[s] = EmptyEntry /\ sh[s].valid /\ r \in Pair(sh[s])}

\* Mutant: a removed slot stays valid.
BugReloadSlotKeepsRemoved(s) ==
  IF cfgSh[s] # EmptyEntry /\ Changed(s, cfgSh[s])
  THEN [sh[s] EXCEPT !.valid = TRUE, !.up = cfgSh[s].up, !.down = cfgSh[s].down,
                     !.travel = cfgSh[s].travel, !.state = "Idle", !.timer = 0,
                     !.interlock = 0, !.cover = "stopped"]
  ELSE [sh[s] EXCEPT !.state = "Idle", !.timer = 0, !.interlock = 0]

ReloadSlot(s) ==
  CASE cfgSh[s] = EmptyEntry ->
         [sh[s] EXCEPT !.valid = FALSE, !.state = "Idle", !.timer = 0, !.interlock = 0]
    [] cfgSh[s] # EmptyEntry /\ Changed(s, cfgSh[s]) ->
         [sh[s] EXCEPT !.valid = TRUE, !.up = cfgSh[s].up, !.down = cfgSh[s].down,
                       !.travel = cfgSh[s].travel, !.state = "Idle", !.timer = 0,
                       !.interlock = 0, !.cover = "stopped"]
    [] OTHER -> [sh[s] EXCEPT !.travel = cfgSh[s].travel]

OutputCtrlReload ==
  /\ chain' = RelayChainSet(chain, ReloadOff, "off")
  /\ sh' = [s \in Slot |-> ReloadSlot(s)]

\* ConfigShutterDedup keeps a slot when no earlier kept slot uses its relays.
Disjoint(e, f) == Pair(e) \cap Pair(f) = {}

IsDedup(t, d) ==
  \A s \in Slot :
    d[s] = IF \A q \in Slot : q < s /\ d[q] # EmptyEntry => Disjoint(d[q], t[s])
           THEN t[s] ELSE EmptyEntry

Dedups(t) == {d \in [Slot -> {t[s] : s \in Slot} \cup {EmptyEntry}] : IsDedup(t, d)}

-----------------------------------------------------------------------------
(* tcpip thread: MQTT and web handlers run with the core lock held, and the *)
(* thread is busy while one of its handlers has released the lock.          *)

\* No handler of a form stands between the live table and its reload.
Settled == web \in {"idle", "iosave"}

\* The tables after a whole reload: what a torn one wrote is written over.
Repaired == IF race = "torn" THEN "past" ELSE race

CoreFree == main \in {Rest, Reloading}
Handler  == web = "idle" /\ CoreFree

\* <base>/relay/<n>/set
MqttRelaySet(r, cmd) ==
  /\ Handler /\ r < CfgCount
  /\ OutputCtrlCommand(r, cmd)
  /\ UNCHANGED <<cfgVars, devices, web, apply, main, cutVars>>

\* <base>/cover/<n>/set
MqttCoverSet(s, cmd) ==
  /\ Handler
  /\ OutputCtrlShutter(s, cmd)
  /\ UNCHANGED <<cfgVars, devices, pulse, web, apply, main, cutVars>>

\* <base>/relay/<n>/pulse is refused for a shutter member.
MqttRelayPulse(r, ticks) ==
  /\ Handler /\ r < CfgCount /\ ~IsShutterMember(r)
  /\ RelayPulseStart(r, ticks)
  /\ UNCHANGED <<cfgVars, devices, sh, web, apply, main, cutVars>>

\* /relaypulse.cgi checks the relay index only.
RelayPulseCGI(r, ticks) ==
  /\ Handler /\ r < Count
  /\ RelayPulseStart(r, ticks)
  /\ UNCHANGED <<cfgVars, devices, sh, web, apply, main, cutVars>>

\* /cover.cgi
CoverCGI(s, cmd) ==
  /\ Handler
  /\ OutputCtrlShutter(s, cmd)
  /\ UNCHANGED <<cfgVars, devices, pulse, web, apply, main, cutVars>>

\* /relayset.cgi
RelaySetCGI(r, cmd) ==
  /\ Handler /\ r < Count
  /\ OutputCtrlCommand(r, cmd)
  /\ UNCHANGED <<cfgVars, devices, web, apply, main, cutVars>>

\* The shutters of a form must use relays of the chain.
Accepts(t) == \A s \in Slot : t[s] # EmptyEntry => \A r \in Pair(t[s]) : r < Count

\* /outcfg.cgi: the form goes into the live table, and the core is unlocked before
\* the table is saved.  Only a reload reads the table without the lock.
OutCfgParse(t, m) ==
  /\ Handler /\ Accepts(t) /\ ~InReload
  /\ cfgSh' = t /\ cfgMode' = m
  /\ web' = "unlocked"
  /\ UNCHANGED <<cfgDev, devices, outVars, apply, main, cutVars>>

\* The same form while the main thread is in its reload or about to enter it: the
\* table is cleared and set row by row.
OutCfgOpen(t, m) ==
  /\ Tears /\ Handler /\ Accepts(t) /\ main = Reloading
  /\ cfgMode' = m
  /\ form' = [table |-> t, step |-> 0]
  /\ web' = "parsing" /\ race' = "torn"
  /\ UNCHANGED <<cfgSh, cfgDev, devices, outVars, apply, main, reload>>

\* One row is cleared or set; the last one ends the form.
OutCfgRow ==
  /\ web = "parsing"
  /\ LET k == form.step IN
       /\ cfgSh' = IF k < NSlots THEN [cfgSh EXCEPT ![k] = EmptyEntry]
                   ELSE [cfgSh EXCEPT ![k - NSlots] = form.table[k - NSlots]]
       /\ IF k + 1 < 2 * NSlots
          THEN form' = [form EXCEPT !.step = k + 1] /\ UNCHANGED web
          ELSE form' = NoForm /\ web' = "unlocked"
  /\ UNCHANGED <<cfgMode, cfgDev, devices, outVars, apply, main, reload, race>>

\* ConfigOutputSave empties colliding slots first, then writes the record.
OutCfgDedup ==
  /\ web = "unlocked"
  /\ cfgSh' \in Dedups(cfgSh)
  /\ web' = "saving"
  /\ UNCHANGED <<cfgMode, cfgDev, devices, outVars, apply, main, cutVars>>

\* A reload that stands alone repairs the rows; one inside the reload of the main
\* thread may be overwritten by it.
OutCfgFinish ==
  /\ web = "saving" /\ CoreFree
  /\ OutputCtrlReload
  /\ web' = "idle"
  /\ race' = IF InReload THEN race ELSE Repaired
  /\ UNCHANGED <<cfgVars, devices, pulse, apply, main, reload, form>>

\* /iocfg.cgi stores the device count, saves it with the core unlocked, and
\* then asks the main thread to apply it.
IOConfigParse(n) ==
  /\ Handler
  /\ cfgDev' = n
  /\ web' = "iosave"
  /\ UNCHANGED <<cfgSh, cfgMode, devices, outVars, apply, main, cutVars>>

IOConfigFinish ==
  /\ web = "iosave" /\ CoreFree
  /\ web' = "idle" /\ apply' = TRUE
  /\ UNCHANGED <<cfgVars, devices, outVars, main, cutVars>>

-----------------------------------------------------------------------------
(* main thread: the configuration is applied without the core lock, and     *)
(* product_poll runs with it.                                               *)

\* RelayChainSetDevices, called only when the count differs, clears the chain.
ApplyDevices ==
  /\ main = Rest /\ apply
  /\ apply' = FALSE
  /\ devices' = cfgDev
  /\ chain' = IF devices = cfgDev THEN chain ELSE [r \in Relay |-> "off"]
  /\ main' = Reloading
  /\ UNCHANGED <<cfgVars, pulse, sh, web, cutVars>>

\* A reload that no other thread cuts into.
ApplyReload ==
  /\ main = Reloading /\ ~InReload
  /\ OutputCtrlReload
  /\ main' = Rest
  /\ race' = IF Settled THEN Repaired ELSE race
  /\ UNCHANGED <<cfgVars, devices, pulse, web, apply, reload, form>>

\* The reload taken statement by statement, one slot after the other.  It is torn
\* when a form is under way as it begins.
ReloadGet ==
  /\ main = Reloading /\ reload.at \in {"none", "get"} /\ reload.slot \in Slot
  /\ InReload \/ Settled \/ Tears
  /\ reload' = [reload EXCEPT !.at = "off", !.row = cfgSh[reload.slot]]
  /\ race' = IF InReload \/ Settled THEN race ELSE "torn"
  /\ UNCHANGED <<cfgVars, devices, outVars, web, apply, main, form>>

\* A row that is fetched is compared with the slot; both relays of a new pair or
\* of a removed slot are switched off.
ReloadOffSlot ==
  /\ reload.at = "off"
  /\ LET s == reload.slot  e == reload.row IN
       \/ /\ e = EmptyEntry
          /\ chain' = IF sh[s].valid THEN RelayChainSet(chain, Pair(sh[s]), "off") ELSE chain
          /\ reload' = [reload EXCEPT !.at = "clear"]
       \/ /\ e # EmptyEntry /\ Changed(s, e)
          /\ chain' = RelayChainSet(chain, Pair(e), "off")
          /\ reload' = [reload EXCEPT !.at = "state"]
       \/ /\ e # EmptyEntry /\ ~Changed(s, e)
          /\ reload' = [reload EXCEPT !.at = "row"]
          /\ UNCHANGED chain
  /\ UNCHANGED <<cfgVars, devices, pulse, sh, web, apply, main, form, race>>

ReloadState ==
  /\ reload.at = "state"
  /\ sh' = [sh EXCEPT ![reload.slot] = [sh[reload.slot] EXCEPT !.state = "Idle"]]
  /\ reload' = [reload EXCEPT !.at = "timers"]
  /\ UNCHANGED <<cfgVars, devices, chain, pulse, web, apply, main, form, race>>

ReloadTimers ==
  /\ reload.at = "timers"
  /\ sh' = [sh EXCEPT ![reload.slot] =
              [sh[reload.slot] EXCEPT !.timer = 0, !.interlock = 0, !.cover = "stopped"]]
  /\ reload' = [reload EXCEPT !.at = "row"]
  /\ UNCHANGED <<cfgVars, devices, chain, pulse, web, apply, main, form, race>>

\* The row is written, or the slot cleared; the next slot, or the end.
ReloadRow ==
  /\ reload.at \in {"row", "clear"}
  /\ LET s == reload.slot  e == reload.row IN
       sh' = [sh EXCEPT ![s] =
         IF reload.at = "row"
         THEN [sh[s] EXCEPT !.valid = TRUE, !.up = e.up, !.down = e.down, !.travel = e.travel]
         ELSE [sh[s] EXCEPT !.valid = FALSE, !.state = "Idle", !.timer = 0, !.interlock = 0]]
  /\ IF reload.slot + 1 < NSlots
     THEN reload' = [at |-> "get", slot |-> reload.slot + 1, row |-> EmptyEntry] /\ UNCHANGED main
     ELSE reload' = NoReload /\ main' = Rest
  /\ UNCHANGED <<cfgVars, devices, chain, pulse, web, apply, form, race>>

ReloadStep == ReloadGet \/ ReloadOffSlot \/ ReloadState \/ ReloadTimers \/ ReloadRow

\* The core lock is not held by a form that is being entered.
PollBegin ==
  /\ main = Rest /\ web # "parsing"
  /\ main' = Scan
  /\ UNCHANGED <<cfgVars, devices, outVars, web, apply, cutVars>>

\* A binding of IOScanTick drives a relay of the chain.
BindCommand(r, cmd) ==
  /\ main = Scan /\ r < Count
  /\ OutputCtrlCommand(r, cmd)
  /\ UNCHANGED <<cfgVars, devices, web, apply, main, cutVars>>

\* Mutant: a countdown of zero is counted down too.
BugTicked(n) == n - 1

\* One tick of a countdown; zero means none.
Ticked(n) == IF n > 0 THEN n - 1 ELSE 0

Expired == {r \in Relay : r < Count /\ pulse[r] = 1}

RelayPulseTick ==
  /\ main = Scan
  /\ pulse' = [r \in Relay |-> IF r < Count THEN Ticked(pulse[r]) ELSE pulse[r]]
  /\ chain' = RelayChainSet(chain, {r \in Expired : r < CfgCount}, "off")
  /\ main' = 0
  /\ UNCHANGED <<cfgVars, devices, sh, web, apply, cutVars>>

\* OutputCtrlTick, one slot of its loop.
Runs(s) == sh[s].state \in {"MovingUp", "MovingDown"}

TickRest(s) ==
  /\ ~sh[s].valid \/ sh[s].state = "Idle"
  /\ UNCHANGED <<chain, sh>>

\* A zero timer of a moving shutter is left alone: it never expires.
TickTravel(s) ==
  /\ sh[s].valid /\ Runs(s) /\ sh[s].timer # 1
  /\ sh' = [sh EXCEPT ![s] = [sh[s] EXCEPT !.timer = Ticked(sh[s].timer)]]
  /\ UNCHANGED chain

\* Mutant: the end of a travel releases the up relay only.
BugTickArriveUpOnly(s) ==
  /\ sh[s].valid /\ Runs(s) /\ sh[s].timer = 1
  /\ chain' = RelayChainSet(chain, {sh[s].up}, "off")
  /\ sh' = [sh EXCEPT ![s] = [sh[s] EXCEPT !.timer = 0, !.state = "Idle",
                                           !.cover = IF sh[s].state = "MovingUp"
                                                    THEN "open" ELSE "closed"]]

TickArrive(s) ==
  /\ sh[s].valid /\ Runs(s) /\ sh[s].timer = 1
  /\ chain' = RelayChainSet(chain, Pair(sh[s]), "off")
  /\ sh' = [sh EXCEPT ![s] = [sh[s] EXCEPT !.timer = 0, !.state = "Idle",
                                           !.cover = IF sh[s].state = "MovingUp"
                                                    THEN "open" ELSE "closed"]]

TickInterlock(s) ==
  /\ sh[s].valid /\ sh[s].state = "SwitchDelay" /\ sh[s].interlock > 1
  /\ sh' = [sh EXCEPT ![s] = [sh[s] EXCEPT !.interlock = sh[s].interlock - 1]]
  /\ UNCHANGED chain

TickResume(s) ==
  /\ sh[s].valid /\ sh[s].state = "SwitchDelay" /\ sh[s].interlock <= 1
  /\ chain' = Energise(chain, sh[s], sh[s].pendingUp)
  /\ sh' = [sh EXCEPT ![s] = [sh[s] EXCEPT !.interlock = 0, !.timer = sh[s].travel,
                                           !.state = Moving(sh[s].pendingUp),
                                           !.cover = Going(sh[s].pendingUp)]]

TickSlot ==
  /\ main \in Slot
  /\ \/ TickRest(main) \/ TickTravel(main) \/ TickArrive(main)
     \/ TickInterlock(main) \/ TickResume(main)
  /\ main' = main + 1
  /\ UNCHANGED <<cfgVars, devices, pulse, web, apply, cutVars>>

-----------------------------------------------------------------------------
\* product_init: chain and output controller come up from the stored records.
Loaded(t) ==
  [s \in Slot |->
    [valid |-> t[s] # EmptyEntry, up |-> t[s].up, down |-> t[s].down,
     travel |-> t[s].travel, state |-> "Idle", timer |-> 0, interlock |-> 0,
     pendingUp |-> FALSE, lastUp |-> FALSE, cover |-> "stopped"]]

Init ==
  /\ cfgSh \in {t \in Tables : IsDedup(t, t)}
  /\ cfgMode \in ModeMaps
  /\ cfgDev \in DevCounts
  /\ devices = cfgDev
  /\ chain = [r \in Relay |-> "off"]
  /\ pulse = [r \in Relay |-> 0]
  /\ sh = Loaded(cfgSh)
  /\ web = "idle" /\ apply = FALSE /\ main = Rest
  /\ reload = NoReload /\ form = NoForm /\ race = "none"

TcpipNext ==
  \/ \E r \in Relay, cmd \in {"ON", "OFF"} : MqttRelaySet(r, cmd)
  \/ \E s \in Slot, cmd \in {"OPEN", "CLOSE", "STOP"} : MqttCoverSet(s, cmd)
  \/ \E r \in Relay, ticks \in PulseTicks : MqttRelayPulse(r, ticks)
  \/ \E r \in Relay, ticks \in PulseTicks : RelayPulseCGI(r, ticks)
  \/ \E s \in Slot, cmd \in {"UP", "DOWN", "STOP", "TOGGLE"} : CoverCGI(s, cmd)
  \/ \E r \in Relay, cmd \in {"ON", "OFF", "TOGGLE"} : RelaySetCGI(r, cmd)
  \/ \E t \in Tables, m \in ModeMaps : OutCfgParse(t, m)
  \/ \E t \in Tables, m \in ModeMaps : OutCfgOpen(t, m)
  \/ OutCfgRow \/ OutCfgDedup \/ OutCfgFinish
  \/ \E n \in DevCounts : IOConfigParse(n)
  \/ IOConfigFinish

MainNext ==
  \/ ApplyDevices \/ ApplyReload \/ ReloadStep
  \/ PollBegin
  \/ \E r \in Relay, cmd \in {"ON", "OFF", "TOGGLE", "CYCLE"} : BindCommand(r, cmd)
  \/ RelayPulseTick \/ TickSlot

Next == TcpipNext \/ MainNext

\* The main thread never stops and the handlers that unlocked the core return;
\* commands and forms may stop coming.
\* The apply flag is tested in every iteration of the main loop, and the core
\* lock is handed to the tcpip thread that waits for it: both are strong.
Fairness ==
  /\ WF_vars(PollBegin) /\ WF_vars(RelayPulseTick) /\ WF_vars(TickSlot)
  /\ WF_vars(ApplyReload) /\ WF_vars(ReloadStep) /\ SF_vars(ApplyDevices)
  /\ WF_vars(OutCfgRow) /\ WF_vars(OutCfgDedup) /\ SF_vars(OutCfgFinish) /\ SF_vars(IOConfigFinish)

Spec == Init /\ [][Next]_vars
FairSpec == Spec /\ Fairness

-----------------------------------------------------------------------------
(* Properties.                                                             *)

\* Every variable keeps its range; in particular the table of the output form
\* never holds a slot with one relay for both directions.
TypeOK ==
  /\ cfgSh \in Table /\ cfgMode \in [Relay -> Nat] /\ cfgDev \in DevCounts
  /\ devices \in DevCounts
  /\ chain \in [Relay -> Level] /\ pulse \in [Relay -> Nat]
  /\ sh \in [Slot -> Shutter]
  /\ web \in {"idle", "parsing", "unlocked", "saving", "iosave"}
  /\ apply \in BOOLEAN /\ main \in Slot \cup {Rest, Reloading, Scan}
  /\ reload \in [at : ReloadAt \cup {"none"}, slot : Slot \cup {0},
                 row : Entry \cup {EmptyEntry}]
  /\ form \in [table : Table, step : 0 .. 2 * NSlots]
  /\ race \in {"none", "torn", "past"}

On(r) == chain[r] # "off"

\* Both relays of a valid shutter are energised.
BothOn(s) == sh[s].valid /\ On(sh[s].up) /\ On(sh[s].down)

\* Commands are routed by the live table and executed by the run-time table:
\* outside of the window of /outcfg.cgi the two agree and no relay has two
\* shutters, whatever else cuts into the unlocked reload.  Only a reload that a
\* form falls into leaves other rows behind, until the tables are loaded again.
RoutingCoherent ==
  Settled /\ race # "torn" => \A s \in Slot :
    /\ sh[s].valid <=> cfgSh[s] # EmptyEntry
    /\ sh[s].valid => /\ sh[s].up = cfgSh[s].up /\ sh[s].down = cfgSh[s].down
                      /\ sh[s].travel = cfgSh[s].travel
                      /\ \A q \in Slot \ {s} : sh[q].valid => Disjoint(sh[q], sh[s])

\* The same without the exception, of what the reload leaves when it is done.  The row
\* that the main thread has fetched may be older than the form; TLC refutes it.
CoherentAlways ==
  Settled /\ main # Reloading => \A s \in Slot : sh[s].valid <=> cfgSh[s] # EmptyEntry

\* The shutter state machines, the bindings, the standard and timed outputs, the
\* reloads and the ticks together never energise both relays of a shutter: it
\* takes the web pulse, which drives a relay without asking whose it is, or a
\* form that falls into the unlocked reload.
ExclusiveUnlessPulsed ==
  Settled /\ race = "none" => \A s \in Slot : BothOn(s) =>
    \E r \in Pair(sh[s]) : chain[r] = "pulse"

\* Steps of the controller that no command and no form starts.
Internal ==
  \/ PollBegin \/ RelayPulseTick \/ TickSlot
  \/ ApplyDevices \/ ApplyReload \/ ReloadStep
  \/ OutCfgRow \/ OutCfgDedup \/ OutCfgFinish \/ IOConfigFinish

\* A relay is off, but for the pulse whose end was ignored because it came while a
\* smaller device count was configured and not yet applied.
Released(r) == chain[r] \in {"off", "pulse"}

\* No motor is left running: every shutter is at rest with its relays released,
\* every pulse of the chain has ended, and the chain and the run-time table are
\* those of the configuration.  Relays that belong to no shutter are not spoken of:
\* those of a pair that was redefined while it moved may stay on (MotorsOwned).
Quiet ==
  /\ \A s \in Slot : sh[s].state = "Idle"
  /\ \A s \in Slot : sh[s].valid => \A r \in Pair(sh[s]) : Released(r)
  /\ \A r \in Relay : r < Count => pulse[r] = 0
  /\ \A s \in Slot : sh[s].valid <=> cfgSh[s] # EmptyEntry
  /\ \A s \in Slot : sh[s].valid => /\ sh[s].up = cfgSh[s].up /\ sh[s].down = cfgSh[s].down
                                    /\ sh[s].travel = cfgSh[s].travel
  /\ devices = cfgDev /\ web = "idle" /\ ~apply

\* When commands stop coming every travel, interlock and pulse timer runs out
\* and every accepted form is applied: no motor is left running, unless a form
\* has fallen into the unlocked reload.
Settles == <>[][Internal]_vars => <>[](race = "none" => Quiet)

\* A shutter definition that is changed or removed stops its relays: a relay
\* that a state machine energised belongs to a shutter that is moving.
MotorsOwned ==
  Settled => \A r \in Relay : chain[r] = "shutter" =>
    \E s \in Slot : sh[s].valid /\ r \in Pair(sh[s]) /\ Runs(s)

\* The two relays of a shutter are never energised simultaneously.
MutualExclusion == \A s \in Slot : ~BothOn(s)

\* No two shutters of the run-time table share a relay.
NoSharedRelay ==
  \A s, q \in Slot : s # q /\ sh[s].valid /\ sh[q].valid => Disjoint(sh[s], sh[q])

\* The motor of a shutter, as its state machine drives it.
Motor(s) ==
  CASE ~sh[s].valid -> "off"
    [] sh[s].valid /\ chain[sh[s].up] = "shutter" -> "up"
    [] sh[s].valid /\ chain[sh[s].down] = "shutter" -> "down"
    [] OTHER -> "off"

\* After a form has fallen into the unlocked reload nothing is promised.
Contract == INSTANCE CoverContract WITH
  motor <- [s \in Slot |-> IF race = "none" THEN Motor(s) ELSE "off"],
  cover <- [s \in Slot |-> IF race = "none" THEN sh[s].cover ELSE "stopped"]

\* The published cover state and the motor go together as CoverContract says:
\* in particular no step reverses a running motor.
KeepsContract == Contract!Spec
=============================================================================
