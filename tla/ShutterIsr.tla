----------------------------- MODULE ShutterIsr -----------------------------
(***************************************************************************)
(* One shutter on the TM4C, where the web and MQTT handlers run in the     *)
(* Ethernet interrupt and the main loop runs bindings and OutputCtrlTick   *)
(* with nothing masked.  A function of output_ctrl.c is the sequence of    *)
(* writes it is about to do, decided by what it has read; the main loop    *)
(* does one write per step, the interrupt a whole function in one step.    *)
(*                                                                         *)
(* Time is counted in application ticks of SYSTICKMS (10 ms).              *)
(***************************************************************************)
EXTENDS Integers, Sequences

CONSTANTS
  Travel,     \* ui32TravelMs in ticks
  Interlock,  \* SHUTTER_INTERLOCK_MS in ticks
  Hits,       \* commands that may interrupt a function of the main loop
  MaxHits     \* handlers that may interrupt one function of the main loop

TravelAssumption == Travel \in Nat \ {0}
InterlockAssumption == Interlock \in Nat \ {0}
HitsAssumption == Hits \subseteq {"OPEN", "CLOSE", "STOP", "UP", "DOWN", "TOGGLE"}
MaxHitsAssumption == MaxHits \in Nat

VARIABLES
  relay,  \* the bits of the two relays in g_pui8State
  sh,     \* the entry of g_asSh
  todo,   \* writes the interrupted function has still to do
  hits,   \* handlers that interrupted it so far
  crossed \* history: a handler has started the motor across the rest of a function

vars == <<relay, sh, todo, hits, crossed>>

Dir == {"up", "down"}
Opp(d) == IF d = "up" THEN "down" ELSE "up"
Moving(d) == IF d = "up" THEN "MovingUp" ELSE "MovingDown"

-----------------------------------------------------------------------------
(* Writes.                                                                 *)

Off(d)       == [do |-> "off", d |-> d]
On(d)        == [do |-> "on", d |-> d]
Remember(d)  == [do |-> "lastUp", d |-> d]
Start(d)     == [do |-> "start", d |-> d]
Arm(d)       == [do |-> "arm", d |-> d]
Refresh      == [do |-> "refresh"]
Halt         == [do |-> "halt"]
Arrive       == [do |-> "arrive"]
Timer(n)     == [do |-> "timer", n |-> n]
Delay(n)     == [do |-> "interlock", n |-> n]
Resume       == [do |-> "resume"]

WriteRelay(f, w) ==
  CASE w.do = "off" -> [f EXCEPT ![w.d] = FALSE]
    [] w.do = "on"  -> [f EXCEPT ![w.d] = TRUE]
    [] OTHER -> f

\* Mutant: a running interlock is prolonged.
BugArmed(r, d) ==
  [r EXCEPT !.timer = 0, !.pending = d, !.state = "SwitchDelay",
            !.interlock = r.interlock + Interlock]

\* ShMove tests the state again before it arms the interlock.
Armed(r, d) ==
  [r EXCEPT !.timer = 0, !.pending = d, !.state = "SwitchDelay",
            !.interlock = IF r.state = "SwitchDelay" THEN r.interlock ELSE Interlock]

WriteSh(r, w) ==
  CASE w.do = "lastUp"    -> [r EXCEPT !.last = w.d]
    [] w.do = "start"     -> [r EXCEPT !.state = Moving(w.d), !.timer = Travel]
    [] w.do = "arm"       -> Armed(r, w.d)
    [] w.do = "refresh"   -> [r EXCEPT !.timer = Travel]
    [] w.do = "halt"      -> [r EXCEPT !.state = "Idle", !.timer = 0, !.interlock = 0]
    [] w.do = "arrive"    -> [r EXCEPT !.state = "Idle"]
    [] w.do = "timer"     -> [r EXCEPT !.timer = w.n]
    [] w.do = "interlock" -> [r EXCEPT !.interlock = w.n]
    [] OTHER -> r

\* All writes of a function at once.  None makes more than four, and Resume is not a write.
Nth(w, i) == IF i <= Len(w) THEN w[i] ELSE Resume
RelayAfter(f, w) ==
  WriteRelay(WriteRelay(WriteRelay(WriteRelay(f, Nth(w, 1)), Nth(w, 2)), Nth(w, 3)), Nth(w, 4))
ShAfter(r, w) ==
  WriteSh(WriteSh(WriteSh(WriteSh(r, Nth(w, 1)), Nth(w, 2)), Nth(w, 3)), Nth(w, 4))

-----------------------------------------------------------------------------
(* Functions of output_ctrl.c, as the writes that follow what they read.   *)

ShBothOff == <<Off("up"), Off("down")>>

ShStop == ShBothOff \o <<Halt>>

\* Mutant: the state is written before the relay is switched on.
BugEnergise(d) == <<Off(Opp(d)), Start(d), On(d)>>

Energise(d) == <<Off(Opp(d)), On(d), Start(d)>>

\* Mutant: a reversal only energises the new direction.
BugShMove(r, d) ==
  CASE r.state = Moving(d) -> <<Refresh>>
    [] r.state = "Idle" -> <<Remember(d)>> \o Energise(d)
    [] OTHER -> <<Remember(d), On(d), Start(d)>>

ShMove(r, d) ==
  CASE r.state = Moving(d) -> <<Refresh>>
    [] r.state = "Idle" -> <<Remember(d)>> \o Energise(d)
    [] OTHER -> <<Remember(d)>> \o ShBothOff \o <<Arm(d)>>

Stops(r, cmd) == cmd = "STOP" \/ (cmd \in {"UP", "DOWN", "TOGGLE"} /\ r.state # "Idle")

Direction(r, cmd) ==
  CASE cmd \in {"OPEN", "UP"} -> "up"
    [] cmd \in {"CLOSE", "DOWN"} -> "down"
    [] OTHER -> Opp(r.last)

OutputCtrlShutter(r, cmd) ==
  IF Stops(r, cmd) THEN ShStop ELSE ShMove(r, Direction(r, cmd))


TickTravel(r) ==
  CASE r.timer = 0 -> <<>>
    [] r.timer = 1 -> <<Timer(0)>> \o ShBothOff \o <<Arrive>>
    [] OTHER -> <<Timer(r.timer - 1)>>

TickDelay(r) == IF r.interlock <= 1 THEN <<Delay(0), Resume>> ELSE <<Delay(r.interlock - 1)>>

OutputCtrlTick(r) ==
  CASE r.state = "Idle" -> <<>>
    [] r.state = "SwitchDelay" -> TickDelay(r)
    [] OTHER -> TickTravel(r)

-----------------------------------------------------------------------------
(* History.  Nothing in the code keeps a handler from starting the motor   *)
(* when the interrupted function has released its relays and has decided   *)
(* from what it has read how the state is to end.  The start stands across *)
(* the rest of the function until the next release.                        *)

\* The relay write of t that releases first, with another relay write after it.
Releases(t) == t # <<>> /\ Head(t).do = "off" /\ t[2].do \in {"off", "on"}

\* What is left of a function that ends in another state than moving in direction d.
Crosses(t, d) ==
  /\ t # <<>> /\ ~Releases(t)
  /\ \/ Head(t).do \in {"off", "halt", "arrive", "arm"}
     \/ Head(t) \in {On(Opp(d)), Start(Opp(d))}

Starts(r, cmd) == r.state = "Idle" /\ ~Stops(r, cmd)

-----------------------------------------------------------------------------
(* Main loop.                                                              *)

\* A binding of IOScanTick or of a click.
Bind(cmd) ==
  /\ todo = <<>>
  /\ todo' = OutputCtrlShutter(sh, cmd) /\ hits' = 0
  /\ UNCHANGED <<relay, sh, crossed>>

Tick ==
  /\ todo = <<>>
  /\ todo' = OutputCtrlTick(sh) /\ hits' = 0
  /\ UNCHANGED <<relay, sh, crossed>>

Write ==
  /\ todo # <<>> /\ Head(todo) # Resume
  /\ relay' = WriteRelay(relay, Head(todo)) /\ sh' = WriteSh(sh, Head(todo))
  /\ todo' = Tail(todo)
  /\ crossed' = (crossed /\ ~Releases(todo))
  /\ UNCHANGED hits

\* The tick reads the pending direction when the interlock has elapsed.
TickResume ==
  /\ todo # <<>> /\ Head(todo) = Resume
  /\ todo' = Energise(sh.pending)
  /\ UNCHANGED <<relay, sh, hits, crossed>>

-----------------------------------------------------------------------------
\* A web or MQTT command in the Ethernet interrupt.
Handler(cmd) ==
  LET w == OutputCtrlShutter(sh, cmd) IN
  /\ todo # <<>> => cmd \in Hits /\ hits < MaxHits
  /\ relay' = RelayAfter(relay, w) /\ sh' = ShAfter(sh, w)
  /\ hits' = IF todo = <<>> THEN hits ELSE hits + 1
  /\ crossed' = \/ Starts(sh, cmd) /\ Crosses(todo, Direction(sh, cmd))
                \/ w = <<Refresh>> /\ crossed
  /\ UNCHANGED todo

Init ==
  /\ relay = [d \in Dir |-> FALSE]
  /\ sh = [state |-> "Idle", timer |-> 0, interlock |-> 0, pending |-> "down", last |-> "down"]
  /\ todo = <<>> /\ hits = 0 /\ crossed = FALSE

Next ==
  \/ \E cmd \in {"UP", "DOWN", "STOP", "TOGGLE"} : Bind(cmd)
  \/ Tick \/ Write \/ TickResume
  \/ \E cmd \in {"OPEN", "CLOSE", "STOP", "UP", "DOWN", "TOGGLE"} : Handler(cmd)

Spec == Init /\ [][Next]_vars

\* The main loop never stops, and every iteration runs OutputCtrlTick.
Fairness == SF_vars(Tick) /\ WF_vars(Write) /\ WF_vars(TickResume)

FairSpec == Spec /\ Fairness

-----------------------------------------------------------------------------
(* Properties.                                                             *)

\* Every variable keeps its range: no timer is longer than what starts it.
TypeOK ==
  /\ relay \in [Dir -> BOOLEAN]
  /\ sh \in [state : {"Idle", "MovingUp", "MovingDown", "SwitchDelay"}, timer : 0 .. Travel,
             interlock : 0 .. Interlock, pending : Dir, last : Dir]
  /\ hits \in 0 .. MaxHits /\ crossed \in BOOLEAN

\* Between two functions of the main loop an energised relay is one that the
\* tick will release: the state says its direction and the timer runs.  The
\* exception is a motor that a handler has started across a function.
OnIsTimed == todo = <<>> /\ ~crossed =>
  \A d \in Dir : relay[d] => sh.state = Moving(d) /\ sh.timer > 0


\* The two relays of a shutter are never energised simultaneously, unless a
\* handler has started the motor across a function.
NeverBoth == relay["up"] /\ relay["down"] => crossed

\* The same two without the exception; TLC refutes both.
ExclusiveAlways == ~(relay["up"] /\ relay["down"])
TimedAlways ==
  todo = <<>> => \A d \in Dir : relay[d] => sh.state = Moving(d) /\ sh.timer > 0
=============================================================================
