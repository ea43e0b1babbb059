---------------------------- MODULE InputClicks ----------------------------
(***************************************************************************)
(* The pushbuttons: the click detector of input_events.c, which turns the  *)
(* level that io_scan.c samples into "single" and "double".  One input per *)
(* device.  Time is counted in turns of product_poll, which scans and then *)
(* advances the timers; a handler may change the configuration before      *)
(* either.  (Switches are in HaPublish.)                                   *)
(***************************************************************************)
EXTENDS Integers

CONSTANTS
  Devices,   \* devices wired
  Debounce,  \* DEBOUNCE_MS in turns
  Window,    \* DBLCLICK_MS in turns
  MaxEdits   \* changes of the configuration

InputsAssumption == Devices \in Nat \ {0} /\ MaxEdits \in Nat
ClickAssumption == Debounce \in Nat \ {0} /\ Window \in Nat \ {0}

VARIABLES
  level,  \* the contacts
  fsm,    \* g_asEvents
  conf,   \* device count, pushbuttons, inputs with a binding for "double"
  pc,     \* what product_poll does next
  edits,
  seen,   \* ghost: what the detector was shown since the last event of an input
  event   \* ghost: the last event of each input and what was seen for it

vars == <<level, fsm, conf, pc, edits, seen, event>>

Input == 0 .. Devices - 1
Resting == {"IDLE", "DOWN", "HELD"}
Timing == {"DEBOUNCE", "UP_WAIT", "DBL_DEBOUNCE"}
Longest == IF Window > Debounce THEN Window ELSE Debounce

Fed(i) == i < conf.count /\ i \in conf.push

\* Every variable keeps its range; a timer runs exactly in the states that end by it.
TypeOK ==
  /\ level \in [Input -> BOOLEAN] /\ pc \in {"scan", "tick"} /\ edits \in 0 .. MaxEdits
  /\ fsm \in [Input -> [st : Resting \cup Timing, timer : 0 .. Longest]]
  /\ \A i \in Input : fsm[i].timer = 0 <=> fsm[i].st \in Resting
  /\ conf \in [count : 0 .. Devices, push : SUBSET Input, double : SUBSET Input]
  /\ seen \in [Input -> [presses : 0 .. 2, firm : BOOLEAN, carry : 0 .. 1,
                         last : BOOLEAN, run : 0 .. Debounce + 1]]
  /\ event \in [Input -> [name : {"none", "single", "double"}, presses : 0 .. 2,
                          firm : BOOLEAN, carry : 0 .. 1]]

Init ==
  /\ level \in [Input -> BOOLEAN]
  /\ fsm = [i \in Input |-> [st |-> "IDLE", timer |-> 0]]
  /\ conf \in [count : 0 .. Devices, push : SUBSET Input, double : SUBSET Input]
  /\ pc = "scan" /\ edits = MaxEdits
  /\ seen = [i \in Input |-> [presses |-> 0, firm |-> FALSE, carry |-> 0,
                              last |-> FALSE, run |-> 0]]
  /\ event = [i \in Input |-> [name |-> "none", presses |-> 0, firm |-> FALSE, carry |-> 0]]

-----------------------------------------------------------------------------
(* The click detector.  A step is the next state of an input and its event. *)

Step(st, timer, name) == [st |-> st, timer |-> timer, name |-> name]

\* Bug: a bounce counts as a press.
BugUpdateNoDebounce(f, on) ==
  CASE f.st = "IDLE" /\ on -> Step("DEBOUNCE", Debounce, "none")
    [] f.st \in {"DEBOUNCE", "DOWN"} /\ ~on -> Step("UP_WAIT", Window, "none")
    [] f.st = "HELD" /\ ~on -> Step("IDLE", 0, "none")
    [] f.st = "UP_WAIT" /\ on -> Step("DBL_DEBOUNCE", Debounce, "none")
    [] f.st = "DBL_DEBOUNCE" /\ ~on -> Step("IDLE", 0, "double")
    [] OTHER -> Step(f.st, f.timer, "none")

\* InputEventsUpdate.
Update(f, on) ==
  CASE f.st = "IDLE" /\ on -> Step("DEBOUNCE", Debounce, "none")
    [] f.st \in {"DEBOUNCE", "HELD"} /\ ~on -> Step("IDLE", 0, "none")
    [] f.st = "DOWN" /\ ~on -> Step("UP_WAIT", Window, "none")
    [] f.st = "UP_WAIT" /\ on -> Step("DBL_DEBOUNCE", Debounce, "none")
    [] f.st = "DBL_DEBOUNCE" /\ ~on -> Step("IDLE", 0, "double")
    [] OTHER -> Step(f.st, f.timer, "none")

\* Bug: the button is not held to its release.
BugExpiredAtOnce(f, double) ==
  CASE f.st = "DEBOUNCE" -> IF double THEN Step("DOWN", 0, "none") ELSE Step("IDLE", 0, "single")
    [] f.st = "UP_WAIT" -> Step("IDLE", 0, "single")
    [] OTHER -> Step("IDLE", 0, "double")

\* Bug: the window closes without the single click.
BugExpiredSilent(f, double) ==
  CASE f.st = "DEBOUNCE" -> IF double THEN Step("DOWN", 0, "none") ELSE Step("HELD", 0, "single")
    [] f.st = "UP_WAIT" -> Step("IDLE", 0, "none")
    [] OTHER -> Step("IDLE", 0, "double")

\* A timer of InputEventsTick runs out.
Expired(f, double) ==
  CASE f.st = "DEBOUNCE" -> IF double THEN Step("DOWN", 0, "none") ELSE Step("HELD", 0, "single")
    [] f.st = "UP_WAIT" -> Step("IDLE", 0, "single")
    [] OTHER -> Step("IDLE", 0, "double")

Advanced(f, double) ==
  CASE f.timer = 0 -> Step(f.st, 0, "none")
    [] f.timer = 1 -> Expired(f, double)
    [] OTHER -> Step(f.st, f.timer - 1, "none")

-----------------------------------------------------------------------------
(* What the detector was shown.  While nobody looks, a contact that was    *)
(* closed counts as closed.                                                *)

Shown(s, looked, on) ==
  LET closed == IF looked THEN on ELSE s.last
      run == IF ~closed THEN 0 ELSE IF s.run > Debounce THEN s.run ELSE s.run + 1
  IN [s EXCEPT !.last = closed, !.run = run, !.firm = s.firm \/ run = Debounce,
               !.presses = IF closed /\ ~s.last /\ s.presses < 2 THEN s.presses + 1
                           ELSE s.presses]

\* An event starts the account again; a double click while the button is down leaves
\* a press behind.
Taken(step, s) ==
  IF step.name = "none" THEN s
  ELSE [s EXCEPT !.presses = 0, !.firm = FALSE,
                 !.carry = IF step.name = "double" /\ s.last THEN 1 ELSE 0]

Noted(step, s, e) ==
  IF step.name = "none" THEN e
  ELSE [name |-> step.name, presses |-> s.presses, firm |-> s.firm, carry |-> s.carry]

Fire(step, s) ==
  /\ fsm' = [i \in Input |-> [st |-> step[i].st, timer |-> step[i].timer]]
  /\ seen' = [i \in Input |-> Taken(step[i], s[i])]
  /\ event' = [i \in Input |-> Noted(step[i], s[i], event[i])]

-----------------------------------------------------------------------------
(* product_poll.                                                           *)

\* DINChainScan feeds the inputs that are scanned as pushbuttons.
Scan ==
  /\ pc = "scan" /\ pc' = "tick"
  /\ Fire([i \in Input |-> IF Fed(i) THEN Update(fsm[i], level[i])
                           ELSE Step(fsm[i].st, fsm[i].timer, "none")],
          [i \in Input |-> Shown(seen[i], Fed(i), level[i])])
  /\ UNCHANGED <<level, conf, edits>>

\* InputEventsTick: every input, scanned or not.
Tick ==
  /\ pc = "tick" /\ pc' = "scan"
  /\ Fire([i \in Input |-> Advanced(fsm[i], i \in conf.double)], seen)
  /\ UNCHANGED <<level, conf, edits>>

Contact(i) ==
  /\ level' = [level EXCEPT ![i] = ~level[i]]
  /\ UNCHANGED <<fsm, conf, pc, edits, seen, event>>

\* /ioconfig.cgi and the binding forms.
Edit ==
  /\ edits > 0 /\ edits' = edits - 1
  /\ \/ \E n \in 0 .. Devices : conf' = [conf EXCEPT !.count = n]
     \/ \E p \in SUBSET Input : conf' = [conf EXCEPT !.push = p]
     \/ \E d \in SUBSET Input : conf' = [conf EXCEPT !.double = d]
  /\ UNCHANGED <<level, fsm, pc, seen, event>>

Next == Scan \/ Tick \/ Edit \/ \E i \in Input : Contact(i)

Spec == Init /\ [][Next]_vars

\* The main loop turns for ever.
FairSpec == Spec /\ WF_vars(Scan) /\ WF_vars(Tick)

-----------------------------------------------------------------------------
(* Properties.                                                             *)

\* Every event answers presses of its own, one for a single click and two for a double
\* one, whatever is reconfigured meanwhile; only the press that is still held when its
\* double click fires counts again.
Accounted ==
  \A i \in Input :
    /\ event[i].name = "single" => event[i].presses + event[i].carry >= 1
    /\ event[i].name = "double" => event[i].presses + event[i].carry >= 2

\* No bounce is a single click: one of the presses lasted for the debounce time.
Debounced ==
  \A i \in Input : event[i].name = "single" => event[i].firm \/ event[i].carry = 1

\* No press that lasted for the debounce time is lost: when the button is let go its
\* event comes, as long as the input is scanned as a pushbutton.
Answered ==
  \A i \in Input : seen[i].firm ~> (~seen[i].firm \/ level[i] \/ ~Fed(i))

\* input_events.c:256-261: after a double click "the release is ignored since we've
\* already committed to "double"": it gives no click of its own.
Committed ==
  \A i \in Input : event[i].name = "single" => event[i].presses >= 1
=============================================================================
