------------------------------ MODULE FieldIo ------------------------------
(***************************************************************************)
(* The field side of the board: the pins of the relay chain (RelayBus),    *)
(* the writes of the shutter functions (ShutterIsr) and the click detector *)
(* (InputClicks).  Each is cut by handlers at its own grain, and none of   *)
(* them reads a variable of another: what a behaviour of all three shows   *)
(* of one is what a behaviour of that one shows.  A behaviour here follows *)
(* one part, the part it has chosen at its start.                          *)
(***************************************************************************)
EXTENDS RelayBus

CONSTANTS
  Travel, Interlock, Hits, MaxHits,     \* see ShutterIsr
  Devices, Debounce, Window, MaxEdits   \* see InputClicks

VARIABLES
  part,                          \* what the behaviour follows
  relay, sh, todo, hits, crossed,   \* of ShutterIsr
  level, fsm, conf, turn, edits, seen, event   \* of InputClicks

shutterVars == <<relay, sh, todo, hits, crossed>>
clickVars == <<level, fsm, conf, turn, edits, seen, event>>
fieldVars == <<vars, part, shutterVars, clickVars>>

Shutter == INSTANCE ShutterIsr
Clicks == INSTANCE InputClicks WITH pc <- turn

ASSUME ShutterAssumption ==
  /\ Shutter!TravelAssumption /\ Shutter!InterlockAssumption
  /\ Shutter!HitsAssumption /\ Shutter!MaxHitsAssumption
ASSUME ClicksAssumption == Clicks!InputsAssumption /\ Clicks!ClickAssumption

FieldInit ==
  /\ part \in {"chain", "shutter", "clicks"}
  /\ Init /\ Shutter!Init
  /\ Clicks!Init
  /\ part = "clicks" \/ (conf = [count |-> 0, push |-> {}, double |-> {}]
                          /\ level = [i \in Clicks!Input |-> FALSE])

Chain(A) == part = "chain" /\ A /\ UNCHANGED <<part, shutterVars, clickVars>>
OnShutter(A) == part = "shutter" /\ A /\ UNCHANGED <<vars, part, clickVars>>
OnClicks(A) == part = "clicks" /\ A /\ UNCHANGED <<vars, part, shutterVars>>

FieldNext == Chain(Next) \/ OnShutter(Shutter!Next) \/ OnClicks(Clicks!Next)

\* The fairness of the parts.
FieldSpec ==
  /\ FieldInit /\ [][FieldNext]_fieldVars
  /\ SF_fieldVars(OnShutter(Shutter!Tick)) /\ WF_fieldVars(OnShutter(Shutter!Write))
  /\ WF_fieldVars(OnShutter(Shutter!TickResume))
  /\ WF_fieldVars(OnClicks(Clicks!Scan)) /\ WF_fieldVars(OnClicks(Clicks!Tick))

-----------------------------------------------------------------------------
(* The properties of the parts; those of RelayBus have their own names.    *)

\* Every variable of the shutter and of the clicks keeps its range.
FieldTypeOK == Shutter!TypeOK /\ Clicks!TypeOK

\* Also between two writes, never both relays of the shutter are energised,
\* unless a handler has started the motor across a function.
NeverBoth == Shutter!NeverBoth

\* Outside a function, a relay that is energised has a timer that will release
\* it, with the same exception.
OnIsTimed == Shutter!OnIsTimed


\* A click answers presses of its own.
Accounted == Clicks!Accounted

\* No bounce is a single click.
Debounced == Clicks!Debounced

\* No press that lasted for the debounce time is lost.
Answered == Clicks!Answered
=============================================================================
