-------------------------- MODULE ShutterInterlock --------------------------
(***************************************************************************)
(* OutputCtrl with a clock on every relay: the whole ticks that have passed *)
(* since it was switched off.  The clock only observes.                    *)
(***************************************************************************)
EXTENDS OutputCtrl

VARIABLE
  since   \* per relay: whole ticks it has been off, up to Interlock; -1 while
          \* it is on and until the first tick after it was switched off

Younger(n) == IF n < Interlock THEN n + 1 ELSE n

\* A tick begins.
TickBegins == main = Rest /\ main' = Scan

SinceNext ==
  since' = [r \in Relay |->
    IF chain[r] # "off" \/ chain'[r] # "off" THEN -1
    ELSE IF TickBegins THEN Younger(since[r]) ELSE since[r]]

ClockInit == Init /\ since = [r \in Relay |-> Interlock]
ClockSpec == ClockInit /\ [][Next /\ SinceNext]_<<vars, since>>

-----------------------------------------------------------------------------
\* A state machine switches relay r on, or takes it over.
Energised(r) == chain[r] # "shutter" /\ chain'[r] = "shutter"

Other(p, r) == IF p.up = r THEN p.down ELSE p.up

\* The pending direction of a reversal is energised once both relays have been
\* off for all but one of the ticks of the interlock: the first tick may follow the
\* command at once, and takes a whole tick off.  A form that falls into the
\* unlocked reload may rewrite the rows in the middle of a pause, and is excepted.
PausedReversal ==
  [][Settled /\ race = "none" => \A s \in Slot :
       sh[s].state = "SwitchDelay" /\ sh'[s].state \in {"MovingUp", "MovingDown"}
         => \A r \in Pair(sh[s]) : since[r] >= Interlock - 1]_<<vars, since>>

\* A relay of a shutter is energised only after the opposite one has been off
\* for the interlock (but for the first tick).
MandatoryInterlock ==
  [][\A s \in Slot : sh[s].valid =>
       \A r \in Pair(sh[s]) : Energised(r)
         => since[Other(sh[s], r)] >= Interlock - 1]_<<vars, since>>
=============================================================================
