--------------------------- MODULE CoverContract ---------------------------
(***************************************************************************)
(* What the output controller promises to Home Assistant of each cover:    *)
(* the state it publishes and what the motor does go together.             *)
(***************************************************************************)
CONSTANT Slot

VARIABLES
  motor,  \* what the shutter's state machine energises
  cover   \* the cover state published last

vars == <<motor, cover>>

Motors == [Slot -> {"off", "up", "down"}]
Covers == [Slot -> {"opening", "closing", "open", "closed", "stopped"}]

\* The cover state that announces a direction, and the one that ends it.
Going(d) == IF d = "up" THEN "opening" ELSE "closing"
Done(d)  == IF d = "up" THEN "open" ELSE "closed"

Init ==
  /\ motor = [s \in Slot |-> "off"]
  /\ cover = [s \in Slot |-> "stopped"]

\* A motor starts from standstill only, and says where it is going.
Start(s) ==
  /\ motor[s] = "off"
  /\ motor'[s] \in {"up", "down"}
  /\ cover'[s] = Going(motor'[s])

\* A reversal is announced while the motor is released.
Reverse(s) ==
  /\ motor'[s] = "off"
  /\ cover'[s] \in {"opening", "closing"}

\* The end position is published at the end of a travel towards it.
Arrive(s) ==
  /\ \E d \in {"up", "down"} : cover[s] = Going(d) /\ cover'[s] = Done(d)
  /\ motor'[s] = "off"

Stop(s) == motor'[s] = "off" /\ cover'[s] = "stopped"

\* The relay is switched off by someone else, or the shutter is removed.
Release(s) == motor'[s] = "off" /\ cover'[s] = cover[s]

Stay(s) == motor'[s] = motor[s] /\ cover'[s] = cover[s]

Next ==
  /\ motor' \in Motors /\ cover' \in Covers
  /\ \A s \in Slot : \/ Start(s) \/ Reverse(s) \/ Arrive(s)
                     \/ Stop(s) \/ Release(s) \/ Stay(s)

Spec == Init /\ [][Next]_vars
=============================================================================
