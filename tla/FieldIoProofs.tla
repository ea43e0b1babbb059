--------------------------- MODULE FieldIoProofs ---------------------------
(***************************************************************************)
(* The shutter's interlock in the composition of the field side, from the  *)
(* invariant of ShutterIsrProofs: the other parts do not write its         *)
(* variables.  Any command may interrupt a function of the main loop.      *)
(***************************************************************************)
EXTENDS FieldIo, TLAPS

Isr == INSTANCE ShutterIsrProofs

LEMMA ShutterConstants == Isr!Constants
BY ShutterAssumption
   DEF Isr!Constants, Shutter!TravelAssumption, Isr!TravelAssumption,
       Shutter!InterlockAssumption, Isr!InterlockAssumption,
       Shutter!MaxHitsAssumption, Isr!MaxHitsAssumption

LEMMA ShutterInit == FieldInit => Isr!IInv
<1>1. Shutter!Init => Isr!Init BY DEF Shutter!Init, Isr!Init, Shutter!Dir, Isr!Dir
<1> QED BY <1>1, ShutterConstants, Isr!InitKeeps DEF FieldInit

\* The module of the proofs extends ShutterIsr, and FieldIo has an instance of it: name by
\* name the two are the same operators.
LEMMA SameWrites ==
  /\ \A d : /\ Shutter!Opp(d) = Isr!Opp(d) /\ Shutter!Moving(d) = Isr!Moving(d)
            /\ Shutter!Off(d) = Isr!Off(d) /\ Shutter!On(d) = Isr!On(d)
            /\ Shutter!Remember(d) = Isr!Remember(d) /\ Shutter!Start(d) = Isr!Start(d)
            /\ Shutter!Arm(d) = Isr!Arm(d)
  /\ \A n : Shutter!Timer(n) = Isr!Timer(n) /\ Shutter!Delay(n) = Isr!Delay(n)
  /\ Shutter!Refresh = Isr!Refresh /\ Shutter!Halt = Isr!Halt
  /\ Shutter!Arrive = Isr!Arrive /\ Shutter!Resume = Isr!Resume
BY DEF Shutter!Opp, Isr!Opp, Shutter!Moving, Isr!Moving, Shutter!Off, Isr!Off,
       Shutter!On, Isr!On, Shutter!Remember, Isr!Remember, Shutter!Start, Isr!Start,
       Shutter!Arm, Isr!Arm, Shutter!Timer, Isr!Timer, Shutter!Delay, Isr!Delay,
       Shutter!Refresh, Isr!Refresh, Shutter!Halt, Isr!Halt, Shutter!Arrive, Isr!Arrive,
       Shutter!Resume, Isr!Resume

LEMMA SameWrite ==
  /\ \A f, w : Shutter!WriteRelay(f, w) = Isr!WriteRelay(f, w)
  /\ \A r, w : Shutter!WriteSh(r, w) = Isr!WriteSh(r, w)
<1>1. \A f, w : Shutter!WriteRelay(f, w) = Isr!WriteRelay(f, w)
  BY DEF Shutter!WriteRelay, Isr!WriteRelay
<1>2. \A r, d : Shutter!Armed(r, d) = Isr!Armed(r, d) BY DEF Shutter!Armed, Isr!Armed
<1>3. \A r, w : Shutter!WriteSh(r, w) = Isr!WriteSh(r, w)
  <2>1. \A d : Shutter!Moving(d) = Isr!Moving(d) BY SameWrites
  <2> SUFFICES ASSUME NEW r, NEW w PROVE Shutter!WriteSh(r, w) = Isr!WriteSh(r, w) OBVIOUS
  <2>2. Shutter!Armed(r, w.d) = Isr!Armed(r, w.d) BY <1>2
  <2>3. Shutter!Moving(w.d) = Isr!Moving(w.d) BY <2>1
  <2> QED BY <2>2, <2>3 DEF Shutter!WriteSh, Isr!WriteSh
<1> QED BY <1>1, <1>3

LEMMA SameAfter ==
  /\ \A f, w : Shutter!RelayAfter(f, w) = Isr!RelayAfter(f, w)
  /\ \A r, w : Shutter!ShAfter(r, w) = Isr!ShAfter(r, w)
<1>1. \A w, i : Shutter!Nth(w, i) = Isr!Nth(w, i) BY SameWrites DEF Shutter!Nth, Isr!Nth
<1>2. \A f, w : Shutter!RelayAfter(f, w) = Isr!RelayAfter(f, w)
  BY <1>1, SameWrite DEF Shutter!RelayAfter, Isr!RelayAfter
<1>3. \A r, w : Shutter!ShAfter(r, w) = Isr!ShAfter(r, w)
  BY <1>1, SameWrite DEF Shutter!ShAfter, Isr!ShAfter
<1> QED BY <1>2, <1>3

LEMMA SameFunctions ==
  /\ \A d : Shutter!Energise(d) = Isr!Energise(d)
  /\ \A r, cmd : Shutter!OutputCtrlShutter(r, cmd) = Isr!OutputCtrlShutter(r, cmd)
  /\ \A r : Shutter!OutputCtrlTick(r) = Isr!OutputCtrlTick(r)
<1>1. Shutter!ShBothOff = Isr!ShBothOff
  BY SameWrites DEF Shutter!ShBothOff, Isr!ShBothOff
<1>2. Shutter!ShStop = Isr!ShStop BY <1>1, SameWrites DEF Shutter!ShStop, Isr!ShStop
<1>3. \A d : Shutter!Energise(d) = Isr!Energise(d)
  BY SameWrites DEF Shutter!Energise, Isr!Energise
<1>4. \A r, d : Shutter!ShMove(r, d) = Isr!ShMove(r, d)
  BY <1>1, <1>3, SameWrites DEF Shutter!ShMove, Isr!ShMove
<1>5. \A r, cmd : Shutter!Stops(r, cmd) <=> Isr!Stops(r, cmd) BY DEF Shutter!Stops, Isr!Stops
<1>6. \A r, cmd : Shutter!Direction(r, cmd) = Isr!Direction(r, cmd)
  BY SameWrites DEF Shutter!Direction, Isr!Direction
<1>7. \A r, cmd : Shutter!OutputCtrlShutter(r, cmd) = Isr!OutputCtrlShutter(r, cmd)
  BY <1>2, <1>4, <1>5, <1>6 DEF Shutter!OutputCtrlShutter, Isr!OutputCtrlShutter
<1>8. \A r : Shutter!TickTravel(r) = Isr!TickTravel(r)
  BY <1>1, SameWrites DEF Shutter!TickTravel, Isr!TickTravel
<1>9. \A r : Shutter!TickDelay(r) = Isr!TickDelay(r)
  BY SameWrites DEF Shutter!TickDelay, Isr!TickDelay
<1>10. \A r : Shutter!OutputCtrlTick(r) = Isr!OutputCtrlTick(r)
  BY <1>8, <1>9 DEF Shutter!OutputCtrlTick, Isr!OutputCtrlTick
<1> QED BY <1>3, <1>7, <1>10

LEMMA SameHistory ==
  /\ \A t : Shutter!Releases(t) <=> Isr!Releases(t)
  /\ \A t, d : Shutter!Crosses(t, d) <=> Isr!Crosses(t, d)
  /\ \A r, cmd : Shutter!Starts(r, cmd) <=> Isr!Starts(r, cmd)
  /\ \A r, cmd : Shutter!Direction(r, cmd) = Isr!Direction(r, cmd)
<1>1. \A t : Shutter!Releases(t) <=> Isr!Releases(t) BY DEF Shutter!Releases, Isr!Releases
<1>2. \A t, d : Shutter!Crosses(t, d) <=> Isr!Crosses(t, d)
  BY <1>1, SameWrites DEF Shutter!Crosses, Isr!Crosses
<1>3. \A r, cmd : Shutter!Starts(r, cmd) <=> Isr!Starts(r, cmd)
  BY DEF Shutter!Starts, Isr!Starts, Shutter!Stops, Isr!Stops
<1>4. \A r, cmd : Shutter!Direction(r, cmd) = Isr!Direction(r, cmd)
  BY SameWrites DEF Shutter!Direction, Isr!Direction
<1> QED BY <1>1, <1>2, <1>3, <1>4

LEMMA ShutterSteps == Shutter!Next => Isr!Next
<1>1. \A cmd : Shutter!Bind(cmd) => Isr!Bind(cmd)
  BY SameFunctions DEF Shutter!Bind, Isr!Bind
<1>2. Shutter!Tick => Isr!Tick BY SameFunctions DEF Shutter!Tick, Isr!Tick
<1>3. Shutter!Write => Isr!Write
  BY SameWrites, SameWrite, SameHistory DEF Shutter!Write, Isr!Write
<1>4. Shutter!TickResume => Isr!TickResume
  BY SameWrites, SameFunctions DEF Shutter!TickResume, Isr!TickResume
<1>5. \A cmd : Shutter!Handler(cmd) => Isr!Handler(cmd)
  BY SameWrites, SameAfter, SameFunctions, SameHistory DEF Shutter!Handler, Isr!Handler
<1> QED BY <1>1, <1>2, <1>3, <1>4, <1>5 DEF Shutter!Next, Isr!Next

LEMMA ShutterNext == Isr!IInv /\ [FieldNext]_fieldVars => Isr!IInv'
<1> SUFFICES ASSUME Isr!IInv, [FieldNext]_fieldVars PROVE Isr!IInv'
  OBVIOUS
<1>1. Shutter!Next \/ UNCHANGED shutterVars
  BY DEF FieldNext, Chain, OnShutter, OnClicks, fieldVars
<1>2. [Isr!Next]_Isr!vars BY <1>1, ShutterSteps DEF shutterVars, Isr!vars
<1> QED BY <1>2, ShutterConstants, Isr!NextKeeps

\* Whatever command interrupts the main loop between two of its writes, the two relays of
\* a shutter are never energised together (output_ctrl.c:182), except while a start made
\* by a handler stands across a function of the main loop.
THEOREM Interlocked == FieldSpec => []NeverBoth
<1>1. FieldInit => Isr!IInv BY ShutterInit
<1>2. Isr!IInv /\ [FieldNext]_fieldVars => Isr!IInv' BY ShutterNext
<1>3. Isr!IInv => NeverBoth
  BY Isr!Consequences DEF NeverBoth, Shutter!NeverBoth, Isr!NeverBoth
<1> QED BY <1>1, <1>2, <1>3, PTL DEF FieldSpec

\* Between two functions of the main loop every energised relay is one whose timer
\* OutputCtrlTick will run down and release (output_ctrl.c:343), whatever commands have
\* interrupted it, except while such a start stands across a function.
THEOREM ReleaseDue == FieldSpec => []OnIsTimed
<1>1. FieldInit => Isr!IInv BY ShutterInit
<1>2. Isr!IInv /\ [FieldNext]_fieldVars => Isr!IInv' BY ShutterNext
<1>3. Isr!IInv => OnIsTimed
  BY Isr!Consequences
     DEF OnIsTimed, Shutter!OnIsTimed, Isr!OnIsTimed, Shutter!Dir, Isr!Dir, Shutter!Moving,
         Isr!Moving
<1> QED BY <1>1, <1>2, <1>3, PTL DEF FieldSpec

-----------------------------------------------------------------------------
(***************************************************************************)
(* The click detector (InputClicks) in the composition of the field side,  *)
(* for any number of devices, any debounce time and double-click window,   *)
(* and whatever is reconfigured meanwhile.  The invariant says of every    *)
(* input what the detector has seen when it is in a state.                 *)
(***************************************************************************)
Resting == Clicks!Resting
Timing == Clicks!Timing
Input == Clicks!Input

Detector == [st : Resting \cup Timing, timer : 0 .. Clicks!Longest]
Account ==
  [presses : 0 .. 2, firm : BOOLEAN, carry : 0 .. 1, last : BOOLEAN, run : 0 .. Debounce + 1]
Given ==
  [name : {"none", "single", "double"}, presses : 0 .. 2, firm : BOOLEAN, carry : 0 .. 1]

-----------------------------------------------------------------------------
(* The inductive invariant of one input: its detector f and what it was    *)
(* shown, s.  While the tick is due, the scan has counted a turn more.     *)

\* A timer runs in the states that end by it.
Runs(f) == f.timer = 0 <=> f.st \in Resting

\* The level that was shown last fits the state; only the press that a double click has
\* left behind is down and not yet noticed.
Sees(f, s) ==
  /\ f.st \in {"DEBOUNCE", "DOWN", "HELD", "DBL_DEBOUNCE"} => s.last
  /\ f.st = "UP_WAIT" => ~s.last
  /\ f.st = "IDLE" /\ s.last => s.carry = 1
  /\ ~s.last => s.run = 0

\* The presses that the next event will answer have been seen.
Counts(f, s) ==
  /\ f.st \in {"DEBOUNCE", "DOWN", "UP_WAIT"} => s.presses + s.carry >= 1
  /\ f.st = "DBL_DEBOUNCE" => s.presses + s.carry >= 2

\* While a press is debounced, its length and what is left of the timer are the debounce
\* time; after that it is firm.
Lasts(f, s, due) ==
  s.carry # 1 =>
    /\ f.st = "DEBOUNCE" => s.run + f.timer = Debounce + due /\ (s.run >= Debounce => s.firm)
    /\ f.st \in {"DOWN", "UP_WAIT"} => s.firm

Good(f, s, due) == Runs(f) /\ Sees(f, s) /\ Counts(f, s) /\ Lasts(f, s, due)

\* An event answers what it must.
Fair(e) ==
  /\ e.name = "single" => e.presses + e.carry >= 1 /\ (e.firm \/ e.carry = 1)
  /\ e.name = "double" => e.presses + e.carry >= 2

Due == IF turn = "tick" THEN 1 ELSE 0

IInv ==
  /\ Clicks!TypeOK
  /\ \A i \in Input : Good(fsm[i], seen[i], Due) /\ Fair(event[i])

-----------------------------------------------------------------------------
(* What the operators of the detector return, field by field.              *)

LEMMA Times ==
  /\ Debounce \in Nat /\ Window \in Nat /\ Debounce >= 1 /\ Window >= 1
  /\ Clicks!Longest \in Nat /\ Debounce <= Clicks!Longest /\ Window <= Clicks!Longest
BY ClicksAssumption, SMT DEF Clicks!ClickAssumption, Clicks!Longest

LEMMA ShownIs ==
  ASSUME NEW s \in Account, NEW looked \in BOOLEAN, NEW on \in BOOLEAN
  PROVE  LET z == Clicks!Shown(s, looked, on) IN
         /\ z \in Account /\ z.carry = s.carry
         /\ z.last = (IF looked THEN on ELSE s.last)
         /\ s.firm => z.firm
         /\ ~z.last => z.run = 0 /\ z.presses = s.presses
         /\ z.last => /\ z.run = (IF s.run > Debounce THEN s.run ELSE s.run + 1)
                      /\ z.presses = (IF ~s.last /\ s.presses < 2 THEN s.presses + 1
                                      ELSE s.presses)
         /\ z.run = Debounce => z.firm
<1> DEFINE closed == IF looked THEN on ELSE s.last
           run == IF ~closed THEN 0 ELSE IF s.run > Debounce THEN s.run ELSE s.run + 1
           presses == IF closed /\ ~s.last /\ s.presses < 2 THEN s.presses + 1 ELSE s.presses
           firm == s.firm \/ run = Debounce
           z == Clicks!Shown(s, looked, on)
<1>1. /\ s.presses \in 0 .. 2 /\ s.firm \in BOOLEAN /\ s.carry \in 0 .. 1
      /\ s.last \in BOOLEAN /\ s.run \in 0 .. Debounce + 1
  BY DEF Account
<1>2. closed \in BOOLEAN BY <1>1
<1> HIDE DEF closed
<1>3. run \in 0 .. Debounce + 1 BY <1>1, Times, SMT
<1>4. presses \in 0 .. 2 BY <1>1, SMT
<1>5. firm \in BOOLEAN OBVIOUS
<1>6. ~closed => run = 0 /\ presses = s.presses OBVIOUS
<1>7. closed => /\ run = (IF s.run > Debounce THEN s.run ELSE s.run + 1)
                /\ presses = (IF ~s.last /\ s.presses < 2 THEN s.presses + 1 ELSE s.presses)
  OBVIOUS
<1>8. z = [s EXCEPT !.last = closed, !.run = run, !.firm = firm, !.presses = presses]
  BY DEF Clicks!Shown, closed
<1>9. (s.firm => firm) /\ (run = Debounce => firm) OBVIOUS
<1> HIDE DEF z, run, presses, firm
<1>10. /\ z \in Account /\ z.carry = s.carry /\ z.last = closed /\ z.run = run
       /\ z.firm = firm /\ z.presses = presses
  BY <1>1, <1>2, <1>3, <1>4, <1>5, <1>8 DEF Account
<1> QED BY <1>6, <1>7, <1>9, <1>10 DEF z, closed

\* A detector that a step has left in state x.st.
After(x) == [st |-> x.st, timer |-> x.timer]

\* Without an event nothing is accounted for.
LEMMA NoEvent ==
  ASSUME NEW x, NEW z, NEW e, x.name = "none"
  PROVE  Clicks!Taken(x, z) = z /\ Clicks!Noted(x, z, e) = e
BY DEF Clicks!Taken, Clicks!Noted

\* An event starts a new account and tells what it answers.
LEMMA Event ==
  ASSUME NEW x, NEW z \in Account, NEW e, x.name \in {"single", "double"}
  PROVE  LET k == Clicks!Taken(x, z)  o == Clicks!Noted(x, z, e) IN
         /\ k \in Account /\ k.last = z.last /\ k.run = z.run
         /\ k.carry = (IF x.name = "double" /\ z.last THEN 1 ELSE 0)
         /\ o \in Given /\ o.name = x.name /\ o.presses = z.presses /\ o.firm = z.firm
         /\ o.carry = z.carry
<1> DEFINE c == IF x.name = "double" /\ z.last THEN 1 ELSE 0
<1>1. c \in 0 .. 1 BY SMT
<1>2. x.name # "none" OBVIOUS
<1>3. Clicks!Taken(x, z) = [z EXCEPT !.presses = 0, !.firm = FALSE, !.carry = c]
  BY <1>2 DEF Clicks!Taken
<1>4. Clicks!Noted(x, z, e)
        = [name |-> x.name, presses |-> z.presses, firm |-> z.firm, carry |-> z.carry]
  BY <1>2 DEF Clicks!Noted
<1> DEFINE k == [z EXCEPT !.presses = 0, !.firm = FALSE, !.carry = c]
<1> HIDE DEF c
<1>5. 0 \in 0 .. 2 BY SMT
<1>6. k \in Account /\ k.last = z.last /\ k.run = z.run /\ k.carry = c
  BY <1>1, <1>5 DEF Account
<1> DEFINE o == [name |-> x.name, presses |-> z.presses, firm |-> z.firm, carry |-> z.carry]
<1>7. /\ o \in Given /\ o.name = x.name /\ o.presses = z.presses /\ o.firm = z.firm
      /\ o.carry = z.carry
  BY DEF Account, Given
<1> HIDE DEF k, o
<1> QED BY <1>3, <1>4, <1>6, <1>7 DEF k, o, c

LEMMA UpdateIs ==
  ASSUME NEW f \in Detector, NEW on \in BOOLEAN
  PROVE  LET x == Clicks!Update(f, on) IN
         \/ f.st = "IDLE" /\ on /\ x = Clicks!Step("DEBOUNCE", Debounce, "none")
         \/ f.st \in {"DEBOUNCE", "HELD"} /\ ~on /\ x = Clicks!Step("IDLE", 0, "none")
         \/ f.st = "DOWN" /\ ~on /\ x = Clicks!Step("UP_WAIT", Window, "none")
         \/ f.st = "UP_WAIT" /\ on /\ x = Clicks!Step("DBL_DEBOUNCE", Debounce, "none")
         \/ f.st = "DBL_DEBOUNCE" /\ ~on /\ x = Clicks!Step("IDLE", 0, "double")
         \/ /\ f.st \in {"DEBOUNCE", "HELD", "DOWN", "DBL_DEBOUNCE"} <=> on
            /\ x = Clicks!Step(f.st, f.timer, "none")
<1>1. f.st \in {"IDLE", "DOWN", "HELD", "DEBOUNCE", "UP_WAIT", "DBL_DEBOUNCE"}
  BY DEF Detector, Resting, Timing, Clicks!Resting, Clicks!Timing
<1>2. CASE on BY <1>1, <1>2 DEF Clicks!Update
<1>3. CASE ~on BY <1>1, <1>3 DEF Clicks!Update
<1> QED BY <1>2, <1>3

LEMMA AdvancedIs ==
  ASSUME NEW f \in Detector, NEW double \in BOOLEAN, Runs(f)
  PROVE  LET x == Clicks!Advanced(f, double) IN
         \/ f.timer = 0 /\ f.st \in Resting /\ x = Clicks!Step(f.st, 0, "none")
         \/ f.timer > 1 /\ f.st \in Timing /\ x = Clicks!Step(f.st, f.timer - 1, "none")
         \/ /\ f.timer = 1 /\ f.st = "DEBOUNCE"
            /\ \/ x = Clicks!Step("DOWN", 0, "none") \/ x = Clicks!Step("HELD", 0, "single")
         \/ f.timer = 1 /\ f.st = "UP_WAIT" /\ x = Clicks!Step("IDLE", 0, "single")
         \/ f.timer = 1 /\ f.st = "DBL_DEBOUNCE" /\ x = Clicks!Step("IDLE", 0, "double")
<1>1. /\ f.st \in {"IDLE", "DOWN", "HELD", "DEBOUNCE", "UP_WAIT", "DBL_DEBOUNCE"}
      /\ f.timer \in 0 .. Clicks!Longest
  BY DEF Detector, Resting, Timing, Clicks!Resting, Clicks!Timing
<1>2. f.timer = 0 => f.st \in Resting BY DEF Runs
<1>3. f.timer # 0 => f.st \in {"DEBOUNCE", "UP_WAIT", "DBL_DEBOUNCE"}
  BY <1>1 DEF Runs, Resting, Clicks!Resting
<1>4. f.timer = 0 \/ f.timer = 1 \/ f.timer > 1 BY <1>1, Times, SMT
<1>5. CASE f.timer = 0 BY <1>2, <1>5 DEF Clicks!Advanced
<1>6. CASE f.timer = 1
  <2>1. Clicks!Advanced(f, double) = Clicks!Expired(f, double) BY <1>6 DEF Clicks!Advanced
  <2> QED BY <1>3, <1>6, <2>1 DEF Clicks!Expired
<1>7. CASE f.timer > 1
  <2>1. f.timer # 0 /\ f.timer # 1 BY <1>1, <1>7, Times, SMT
  <2> QED BY <1>3, <1>7, <2>1 DEF Clicks!Advanced, Timing, Clicks!Timing
<1> QED BY <1>4, <1>5, <1>6, <1>7

-----------------------------------------------------------------------------
(* How a turn of product_poll keeps the invariant of one input.            *)

States == {"IDLE", "DOWN", "HELD", "DEBOUNCE", "UP_WAIT", "DBL_DEBOUNCE"}

LEMMA StateSets == Resting \cup Timing = States /\ Resting \cap Timing = {}
                   /\ Resting = {"IDLE", "DOWN", "HELD"}
BY DEF Resting, Timing, Clicks!Resting, Clicks!Timing, States

LEMMA AccountIs ==
  ASSUME NEW s \in Account
  PROVE  /\ s.presses \in 0 .. 2 /\ s.firm \in BOOLEAN /\ s.carry \in 0 .. 1
         /\ s.last \in BOOLEAN /\ s.run \in 0 .. Debounce + 1
BY DEF Account

\* InputEventsUpdate, for an input that is scanned, and what is shown of one that is not.
LEMMA ScanKeeps ==
  ASSUME NEW f \in Detector, NEW s \in Account, NEW e \in Given, Good(f, s, 0), Fair(e),
         NEW looked \in BOOLEAN, NEW on \in BOOLEAN,
         NEW x, x = (IF looked THEN Clicks!Update(f, on)
                     ELSE Clicks!Step(f.st, f.timer, "none")),
         NEW z, z = Clicks!Shown(s, looked, on)
  PROVE  /\ After(x) \in Detector /\ Clicks!Taken(x, z) \in Account
         /\ Clicks!Noted(x, z, e) \in Given
         /\ Good(After(x), Clicks!Taken(x, z), 1) /\ Fair(Clicks!Noted(x, z, e))
<1>1. /\ z \in Account /\ z.carry = s.carry /\ z.last = (IF looked THEN on ELSE s.last)
      /\ s.firm => z.firm
      /\ ~z.last => z.run = 0 /\ z.presses = s.presses
      /\ z.last => /\ z.run = (IF s.run > Debounce THEN s.run ELSE s.run + 1)
                   /\ z.presses = (IF ~s.last /\ s.presses < 2 THEN s.presses + 1
                                   ELSE s.presses)
      /\ z.run = Debounce => z.firm
  BY ShownIs
<1>2. /\ s.presses \in 0 .. 2 /\ s.carry \in 0 .. 1 /\ s.run \in 0 .. Debounce + 1
      /\ z.presses \in 0 .. 2 /\ z.run \in 0 .. Debounce + 1
  BY <1>1, AccountIs
<1>3. f.st \in States /\ f.timer \in 0 .. Clicks!Longest BY StateSets DEF Detector
<1>4. After(x).st = x.st /\ After(x).timer = x.timer BY DEF After
<1>5. z.presses >= s.presses BY <1>1, <1>2, SMT
<1>6. CASE x = Clicks!Step(f.st, f.timer, "none") /\ z.last = s.last
  <2>1. x.st = f.st /\ x.timer = f.timer /\ x.name = "none" BY <1>6 DEF Clicks!Step
  <2>2. Clicks!Taken(x, z) = z /\ Clicks!Noted(x, z, e) = e BY <2>1, NoEvent
  <2>3. After(x) \in Detector BY <2>1 DEF After, Detector
  <2>4. Runs(After(x)) BY <1>4, <2>1 DEF Good, Runs
  <2>5. Sees(After(x), z) BY <1>1, <1>4, <1>6, <2>1 DEF Good, Sees
  <2>6. Counts(After(x), z) BY <1>1, <1>2, <1>4, <1>5, <2>1, SMT DEF Good, Counts
  <2>7. Lasts(After(x), z, 1)
    <3>1. ASSUME z.carry # 1, f.st \in {"DOWN", "UP_WAIT"} PROVE z.firm
      BY <1>1, <3>1 DEF Good, Lasts
    <3>2. ASSUME z.carry # 1, f.st = "DEBOUNCE"
          PROVE  z.run + f.timer = Debounce + 1 /\ (z.run >= Debounce => z.firm)
      <4>1. s.run + f.timer = Debounce + 0 BY <1>1, <3>2 DEF Good, Lasts
      <4>2. f.timer # 0 BY <3>2, StateSets DEF Good, Runs
      <4>3. z.last BY <1>6, <3>2 DEF Good, Sees
      <4>4. z.run = (IF s.run > Debounce THEN s.run ELSE s.run + 1) BY <1>1, <4>3
      <4>5. z.run + f.timer = Debounce + 1 /\ z.run <= Debounce
        BY <1>2, <1>3, <4>1, <4>2, <4>4, Times, SMT
      <4>6. z.run >= Debounce => z.run = Debounce BY <1>2, <4>5, Times, SMT
      <4> QED BY <1>1, <4>5, <4>6
    <3> QED BY <1>4, <2>1, <3>1, <3>2 DEF Lasts
  <2> QED BY <1>1, <2>2, <2>3, <2>4, <2>5, <2>6, <2>7 DEF Good
<1>7. CASE ~looked
  <2>1. x = Clicks!Step(f.st, f.timer, "none") /\ z.last = s.last BY <1>1, <1>7
  <2> QED BY <1>6, <2>1
<1>8. CASE looked
  <2>0. x = Clicks!Update(f, on) /\ z.last = on BY <1>1, <1>8
  <2>1. CASE f.st = "IDLE" /\ on /\ x = Clicks!Step("DEBOUNCE", Debounce, "none")
    <3>0. x = Clicks!Step("DEBOUNCE", Debounce, "none") BY <2>1
    <3>1. x.st = "DEBOUNCE" /\ x.timer = Debounce /\ x.name = "none" BY <3>0 DEF Clicks!Step
    <3>2. Clicks!Taken(x, z) = z /\ Clicks!Noted(x, z, e) = e BY <3>1, NoEvent
    <3>3. Debounce \in 0 .. Clicks!Longest /\ Debounce # 0 BY Times, SMT
    <3>4. After(x) \in Detector BY <3>1, <3>3, StateSets DEF After, Detector, States
    <3>5. Runs(After(x)) BY <1>4, <3>1, <3>3, StateSets DEF Runs
    <3>6. z.last /\ (s.last => s.carry = 1) /\ (~s.last => s.run = 0)
      BY <2>0, <2>1 DEF Good, Sees
    <3>7. Sees(After(x), z) BY <1>4, <3>1, <3>6 DEF Sees
    <3>8. z.presses + z.carry >= 1
      <4>1. CASE s.carry = 1 BY <1>1, <1>2, <4>1, SMT
      <4>2. CASE ~s.last
        <5>1. z.presses = (IF s.presses < 2 THEN s.presses + 1 ELSE s.presses)
          BY <1>1, <3>6, <4>2
        <5> QED BY <1>1, <1>2, <5>1, SMT
      <4> QED BY <3>6, <4>1, <4>2
    <3>9. Counts(After(x), z) BY <1>4, <3>1, <3>8 DEF Counts
    <3>10. ASSUME z.carry # 1
           PROVE  z.run + Debounce = Debounce + 1 /\ (z.run >= Debounce => z.firm)
      <4>1. s.run = 0 BY <1>1, <3>6, <3>10
      <4>2. z.run = (IF s.run > Debounce THEN s.run ELSE s.run + 1) BY <1>1, <3>6
      <4>3. z.run = 1 BY <4>1, <4>2, Times, SMT
      <4>4. z.run + Debounce = Debounce + 1 BY <4>3, Times, SMT
      <4>5. z.run >= Debounce => z.run = Debounce BY <4>3, Times, SMT
      <4> QED BY <1>1, <4>4, <4>5
    <3>11. Lasts(After(x), z, 1) BY <1>4, <3>1, <3>10 DEF Lasts
    <3> QED BY <1>1, <3>2, <3>4, <3>5, <3>7, <3>9, <3>11 DEF Good
  <2>2. CASE f.st \in {"DEBOUNCE", "HELD"} /\ ~on /\ x = Clicks!Step("IDLE", 0, "none")
    <3>1. x.st = "IDLE" /\ x.timer = 0 /\ x.name = "none" BY <2>2 DEF Clicks!Step
    <3>2. Clicks!Taken(x, z) = z /\ Clicks!Noted(x, z, e) = e BY <3>1, NoEvent
    <3>3. After(x) \in Detector BY <3>1, Times, StateSets, SMT DEF After, Detector, States
    <3>4. Runs(After(x)) BY <1>4, <3>1, StateSets DEF Runs
    <3>5. ~z.last BY <2>0, <2>2
    <3>6. Sees(After(x), z) BY <1>1, <1>4, <3>1, <3>5 DEF Sees
    <3>7. Counts(After(x), z) /\ Lasts(After(x), z, 1) BY <1>4, <3>1 DEF Counts, Lasts
    <3> QED BY <1>1, <3>2, <3>3, <3>4, <3>6, <3>7 DEF Good
  <2>3. CASE f.st = "DOWN" /\ ~on /\ x = Clicks!Step("UP_WAIT", Window, "none")
    <3>1. x.st = "UP_WAIT" /\ x.timer = Window /\ x.name = "none" BY <2>3 DEF Clicks!Step
    <3>2. Clicks!Taken(x, z) = z /\ Clicks!Noted(x, z, e) = e BY <3>1, NoEvent
    <3>3. Window \in 0 .. Clicks!Longest /\ Window # 0 BY Times, SMT
    <3>4. After(x) \in Detector BY <3>1, <3>3, StateSets DEF After, Detector, States
    <3>5. Runs(After(x)) BY <1>4, <3>1, <3>3, StateSets DEF Runs
    <3>6. ~z.last BY <2>0, <2>3
    <3>7. Sees(After(x), z) BY <1>1, <1>4, <3>1, <3>6 DEF Sees
    <3>8. s.presses + s.carry >= 1 BY <2>3 DEF Good, Counts
    <3>9. z.presses + z.carry >= 1 BY <1>1, <1>2, <1>5, <3>8, SMT
    <3>10. Counts(After(x), z) BY <1>4, <3>1, <3>9 DEF Counts
    <3>11. Lasts(After(x), z, 1) BY <1>1, <1>4, <2>3, <3>1 DEF Good, Lasts
    <3> QED BY <1>1, <3>2, <3>4, <3>5, <3>7, <3>10, <3>11 DEF Good
  <2>4. CASE f.st = "UP_WAIT" /\ on /\ x = Clicks!Step("DBL_DEBOUNCE", Debounce, "none")
    <3>0. x = Clicks!Step("DBL_DEBOUNCE", Debounce, "none") BY <2>4
    <3>1. x.st = "DBL_DEBOUNCE" /\ x.timer = Debounce /\ x.name = "none" BY <3>0 DEF Clicks!Step
    <3>2. Clicks!Taken(x, z) = z /\ Clicks!Noted(x, z, e) = e BY <3>1, NoEvent
    <3>3. Debounce \in 0 .. Clicks!Longest /\ Debounce # 0 BY Times, SMT
    <3>4. After(x) \in Detector BY <3>1, <3>3, StateSets DEF After, Detector, States
    <3>5. Runs(After(x)) BY <1>4, <3>1, <3>3, StateSets DEF Runs
    <3>6. z.last /\ ~s.last /\ s.presses + s.carry >= 1
      BY <2>0, <2>4 DEF Good, Sees, Counts
    <3>7. Sees(After(x), z) BY <1>4, <3>1, <3>6 DEF Sees
    <3>8. z.presses = (IF s.presses < 2 THEN s.presses + 1 ELSE s.presses) BY <1>1, <3>6
    <3>9. z.presses + z.carry >= 2 BY <1>1, <1>2, <3>6, <3>8, SMT
    <3>10. Counts(After(x), z) /\ Lasts(After(x), z, 1) BY <1>4, <3>1, <3>9 DEF Counts, Lasts
    <3> QED BY <1>1, <3>2, <3>4, <3>5, <3>7, <3>10 DEF Good
  <2>5. CASE f.st = "DBL_DEBOUNCE" /\ ~on /\ x = Clicks!Step("IDLE", 0, "double")
    <3>1. x.st = "IDLE" /\ x.timer = 0 /\ x.name = "double" BY <2>5 DEF Clicks!Step
    <3> DEFINE k == Clicks!Taken(x, z)
               o == Clicks!Noted(x, z, e)
    <3>2. /\ k \in Account /\ k.last = z.last /\ k.run = z.run
          /\ o \in Given /\ o.name = "double" /\ o.presses = z.presses /\ o.carry = z.carry
      BY <1>1, <3>1, Event
    <3> HIDE DEF k, o
    <3>3. After(x) \in Detector BY <3>1, Times, StateSets, SMT DEF After, Detector, States
    <3>4. Runs(After(x)) BY <1>4, <3>1, StateSets DEF Runs
    <3>5. ~k.last /\ k.run = 0 BY <1>1, <2>0, <2>5, <3>2
    <3>6. Sees(After(x), k) BY <1>4, <3>1, <3>5 DEF Sees
    <3>7. Counts(After(x), k) /\ Lasts(After(x), k, 1) BY <1>4, <3>1 DEF Counts, Lasts
    <3>8. s.presses + s.carry >= 2 BY <2>5 DEF Good, Counts
    <3>9. o.presses + o.carry >= 2 BY <1>1, <1>2, <1>5, <3>2, <3>8, SMT
    <3>10. Fair(o) BY <3>2, <3>9 DEF Fair
    <3> QED BY <3>2, <3>3, <3>4, <3>6, <3>7, <3>10 DEF Good, k, o
  <2>6. CASE /\ f.st \in {"DEBOUNCE", "HELD", "DOWN", "DBL_DEBOUNCE"} <=> on
             /\ x = Clicks!Step(f.st, f.timer, "none")
    <3>1. CASE z.last = s.last BY <1>6, <2>6, <3>1
    <3>2. CASE z.last # s.last
      <4>1. s.last \in BOOLEAN BY AccountIs
      <4>2. ~on /\ s.last BY <2>0, <2>6, <3>2, <4>1 DEF Good, Sees
      <4>3. f.st = "IDLE" BY <1>3, <2>6, <4>2 DEF Good, Sees, States
      <4>4. x.st = "IDLE" /\ x.timer = f.timer /\ x.name = "none" BY <2>6, <4>3 DEF Clicks!Step
      <4>5. Clicks!Taken(x, z) = z /\ Clicks!Noted(x, z, e) = e BY <4>4, NoEvent
      <4>6. After(x) \in Detector BY <1>3, <4>4, StateSets DEF After, Detector, States
      <4>7. Runs(After(x)) BY <1>4, <4>3, <4>4 DEF Good, Runs
      <4>8. ~z.last BY <2>0, <4>2
      <4>9. Sees(After(x), z) BY <1>1, <1>4, <4>4, <4>8 DEF Sees
      <4>10. Counts(After(x), z) /\ Lasts(After(x), z, 1) BY <1>4, <4>4 DEF Counts, Lasts
      <4> QED BY <1>1, <4>5, <4>6, <4>7, <4>9, <4>10 DEF Good
    <3> QED BY <3>1, <3>2
  <2> QED BY <2>0, <2>1, <2>2, <2>3, <2>4, <2>5, <2>6, UpdateIs
<1> QED BY <1>7, <1>8

\* InputEventsTick, for every input.
LEMMA TickKeeps ==
  ASSUME NEW f \in Detector, NEW s \in Account, NEW e \in Given, Good(f, s, 1), Fair(e),
         NEW double \in BOOLEAN, NEW x, x = Clicks!Advanced(f, double)
  PROVE  /\ After(x) \in Detector /\ Clicks!Taken(x, s) \in Account
         /\ Clicks!Noted(x, s, e) \in Given
         /\ Good(After(x), Clicks!Taken(x, s), 0) /\ Fair(Clicks!Noted(x, s, e))
<1>1. /\ s.presses \in 0 .. 2 /\ s.carry \in 0 .. 1 /\ s.run \in 0 .. Debounce + 1
      /\ s.last \in BOOLEAN
  BY AccountIs
<1>2. f.st \in States /\ f.timer \in 0 .. Clicks!Longest BY StateSets DEF Detector
<1>3. After(x).st = x.st /\ After(x).timer = x.timer BY DEF After
<1> DEFINE k == Clicks!Taken(x, s)
           o == Clicks!Noted(x, s, e)
<1>4. ASSUME x.name \in {"single", "double"}
      PROVE  /\ k \in Account /\ k.last = s.last /\ k.run = s.run
             /\ k.carry = (IF x.name = "double" /\ s.last THEN 1 ELSE 0)
             /\ o \in Given /\ o.name = x.name /\ o.presses = s.presses /\ o.firm = s.firm
             /\ o.carry = s.carry
  BY <1>4, Event
<1>5. x.name = "none" => k = s /\ o = e BY NoEvent
<1> HIDE DEF k, o
<1>6. CASE f.timer = 0 /\ f.st \in Resting /\ x = Clicks!Step(f.st, 0, "none")
  <2>1. x.st = f.st /\ x.timer = 0 /\ x.name = "none" BY <1>6 DEF Clicks!Step
  <2>2. k = s /\ o = e BY <1>5, <2>1
  <2>3. After(x) \in Detector BY <1>6, <2>1 DEF After, Detector
  <2>4. Runs(After(x)) BY <1>3, <1>6, <2>1 DEF Runs
  <2>5. f.st # "DEBOUNCE" BY <1>6, StateSets
  <2>6. Sees(After(x), s) /\ Counts(After(x), s)
    BY <1>3, <2>1 DEF Good, Sees, Counts
  <2>7. Lasts(After(x), s, 0) BY <1>3, <2>1, <2>5 DEF Good, Lasts
  <2> QED BY <2>2, <2>3, <2>4, <2>6, <2>7 DEF Good, k, o
<1>7. CASE f.timer > 1 /\ f.st \in Timing /\ x = Clicks!Step(f.st, f.timer - 1, "none")
  <2>1. x.st = f.st /\ x.timer = f.timer - 1 /\ x.name = "none" BY <1>7 DEF Clicks!Step
  <2>2. k = s /\ o = e BY <1>5, <2>1
  <2>3. f.timer - 1 \in 0 .. Clicks!Longest /\ f.timer - 1 # 0 BY <1>2, <1>7, Times, SMT
  <2>4. After(x) \in Detector BY <1>7, <2>1, <2>3 DEF After, Detector
  <2>5. Runs(After(x)) BY <1>3, <1>7, <2>1, <2>3, StateSets DEF Runs
  <2>6. Sees(After(x), s) /\ Counts(After(x), s)
    BY <1>3, <2>1 DEF Good, Sees, Counts
  <2>7. ASSUME s.carry # 1, f.st = "DEBOUNCE"
        PROVE  s.run + (f.timer - 1) = Debounce + 0 /\ (s.run >= Debounce => s.firm)
    <3>1. s.run + f.timer = Debounce + 1 /\ (s.run >= Debounce => s.firm)
      BY <2>7 DEF Good, Lasts
    <3>2. s.run + (f.timer - 1) = Debounce + 0 BY <1>1, <1>2, <3>1, Times, SMT
    <3> QED BY <3>1, <3>2
  <2>8. ASSUME s.carry # 1, f.st \in {"DOWN", "UP_WAIT"} PROVE s.firm
    BY <2>8 DEF Good, Lasts
  <2>9. Lasts(After(x), s, 0) BY <1>3, <2>1, <2>7, <2>8 DEF Lasts
  <2> QED BY <2>2, <2>4, <2>5, <2>6, <2>9 DEF Good, k, o
<1>8. CASE f.timer = 1 /\ f.st = "DEBOUNCE"
  <2>1. s.last /\ s.presses + s.carry >= 1 BY <1>8 DEF Good, Sees, Counts
  <2>2. s.carry = 1 \/ s.firm
    <3>1. ASSUME s.carry # 1 PROVE s.firm
      <4>1. s.run + 1 = Debounce + 1 /\ (s.run >= Debounce => s.firm)
        BY <1>8, <3>1 DEF Good, Lasts
      <4>2. s.run >= Debounce BY <1>1, <4>1, Times, SMT
      <4> QED BY <4>1, <4>2
    <3> QED BY <3>1
  <2>3. CASE x = Clicks!Step("DOWN", 0, "none")
    <3>1. x.st = "DOWN" /\ x.timer = 0 /\ x.name = "none" BY <2>3 DEF Clicks!Step
    <3>2. k = s /\ o = e BY <1>5, <3>1
    <3>3. After(x) \in Detector BY <3>1, Times, StateSets, SMT DEF After, Detector, States
    <3>4. Runs(After(x)) BY <1>3, <3>1, StateSets DEF Runs
    <3>5. ~s.last => s.run = 0 BY DEF Good, Sees
    <3>6. Sees(After(x), s) BY <1>3, <2>1, <3>1, <3>5 DEF Sees
    <3>7. Counts(After(x), s) BY <1>3, <2>1, <3>1 DEF Counts
    <3>8. Lasts(After(x), s, 0) BY <1>3, <2>2, <3>1 DEF Lasts
    <3> QED BY <3>2, <3>3, <3>4, <3>6, <3>7, <3>8 DEF Good, k, o
  <2>4. CASE x = Clicks!Step("HELD", 0, "single")
    <3>1. x.st = "HELD" /\ x.timer = 0 /\ x.name = "single" BY <2>4 DEF Clicks!Step
    <3>2. After(x) \in Detector BY <3>1, Times, StateSets, SMT DEF After, Detector, States
    <3>3. Runs(After(x)) BY <1>3, <3>1, StateSets DEF Runs
    <3>4. k \in Account /\ o \in Given /\ k.last BY <1>4, <2>1, <3>1
    <3>5. Sees(After(x), k) /\ Counts(After(x), k) /\ Lasts(After(x), k, 0)
      BY <1>3, <3>1, <3>4 DEF Sees, Counts, Lasts
    <3>6. o.name = "single" /\ o.presses = s.presses /\ o.carry = s.carry /\ o.firm = s.firm
      BY <1>4, <3>1
    <3>7. Fair(o) BY <2>1, <2>2, <3>6 DEF Fair
    <3> QED BY <3>2, <3>3, <3>4, <3>5, <3>7 DEF Good, k, o
  <2>5. x = Clicks!Step("DOWN", 0, "none") \/ x = Clicks!Step("HELD", 0, "single")
    BY <1>8, AdvancedIs, StateSets, SMT DEF Good, Timing, Clicks!Timing
  <2> QED BY <2>3, <2>4, <2>5
<1>9. CASE f.timer = 1 /\ f.st = "UP_WAIT" /\ x = Clicks!Step("IDLE", 0, "single")
  <2>1. x.st = "IDLE" /\ x.timer = 0 /\ x.name = "single" BY <1>9 DEF Clicks!Step
  <2>2. After(x) \in Detector BY <2>1, Times, StateSets, SMT DEF After, Detector, States
  <2>3. Runs(After(x)) BY <1>3, <2>1, StateSets DEF Runs
  <2>4. /\ ~s.last /\ s.run = 0 /\ s.presses + s.carry >= 1 /\ (s.carry = 1 \/ s.firm)
    BY <1>9 DEF Good, Sees, Counts, Lasts
  <2>5. k \in Account /\ o \in Given /\ ~k.last /\ k.run = 0 BY <1>4, <2>1, <2>4
  <2>6. Sees(After(x), k) /\ Counts(After(x), k) /\ Lasts(After(x), k, 0)
    BY <1>3, <2>1, <2>5 DEF Sees, Counts, Lasts
  <2>7. o.name = "single" /\ o.presses = s.presses /\ o.carry = s.carry /\ o.firm = s.firm
    BY <1>4, <2>1
  <2>8. Fair(o) BY <2>4, <2>7 DEF Fair
  <2> QED BY <2>2, <2>3, <2>5, <2>6, <2>8 DEF Good, k, o
<1>10. CASE f.timer = 1 /\ f.st = "DBL_DEBOUNCE" /\ x = Clicks!Step("IDLE", 0, "double")
  <2>1. x.st = "IDLE" /\ x.timer = 0 /\ x.name = "double" BY <1>10 DEF Clicks!Step
  <2>2. After(x) \in Detector BY <2>1, Times, StateSets, SMT DEF After, Detector, States
  <2>3. Runs(After(x)) BY <1>3, <2>1, StateSets DEF Runs
  <2>4. s.last /\ s.presses + s.carry >= 2 BY <1>10 DEF Good, Sees, Counts
  <2>5. k \in Account /\ o \in Given /\ k.last /\ k.carry = 1 BY <1>4, <2>1, <2>4
  <2>6. Sees(After(x), k) /\ Counts(After(x), k) /\ Lasts(After(x), k, 0)
    BY <1>3, <2>1, <2>5 DEF Sees, Counts, Lasts
  <2>7. o.name = "double" /\ o.presses = s.presses /\ o.carry = s.carry BY <1>4, <2>1
  <2>8. Fair(o) BY <2>4, <2>7 DEF Fair
  <2> QED BY <2>2, <2>3, <2>5, <2>6, <2>8 DEF Good, k, o
<1>11. Runs(f) BY DEF Good
<1> QED BY <1>6, <1>7, <1>8, <1>9, <1>10, <1>11, AdvancedIs

-----------------------------------------------------------------------------
(* How a step of the composition keeps the invariant of all inputs.        *)

Conf == [count : 0 .. Devices, push : SUBSET Input, double : SUBSET Input]

LEMMA Ranges == Clicks!TypeOK =>
  /\ level \in [Input -> BOOLEAN] /\ turn \in {"scan", "tick"} /\ edits \in 0 .. MaxEdits
  /\ fsm \in [Input -> Detector] /\ conf \in Conf
  /\ seen \in [Input -> Account] /\ event \in [Input -> Given]
BY DEF Clicks!TypeOK, Detector, Account, Given, Conf, Resting, Timing, Input

LEMMA Keeps ==
  ASSUME level' \in [Input -> BOOLEAN], turn' \in {"scan", "tick"}, edits' \in 0 .. MaxEdits,
         fsm' \in [Input -> Detector], conf' \in Conf,
         seen' \in [Input -> Account], event' \in [Input -> Given],
         NEW due, due = (IF turn' = "tick" THEN 1 ELSE 0),
         \A i \in Input : Good(fsm'[i], seen'[i], due) /\ Fair(event'[i])
  PROVE  IInv'
<1>1. \A i \in Input : Runs(fsm'[i]) BY DEF Good
<1>2. \A i \in Input : fsm'[i].timer = 0 <=> fsm'[i].st \in Clicks!Resting
  BY <1>1 DEF Runs, Resting
<1>3. Clicks!TypeOK'
  BY <1>2 DEF Clicks!TypeOK, Detector, Account, Given, Conf, Resting, Timing, Input
<1>4. Due' = due BY DEF Due
<1>5. \A i \in Input : (Good(fsm[i], seen[i], Due) /\ Fair(event[i]))'
  BY <1>4 DEF Good, Runs, Sees, Counts, Lasts, Fair
<1> QED BY <1>3, <1>5 DEF IInv, Input, Clicks!Input

LEMMA InitKeeps == FieldInit => IInv
<1> SUFFICES ASSUME FieldInit PROVE IInv OBVIOUS
<1>1. Clicks!Init BY DEF FieldInit
<1> DEFINE f == [st |-> "IDLE", timer |-> 0]
           s == [presses |-> 0, firm |-> FALSE, carry |-> 0, last |-> FALSE, run |-> 0]
           e == [name |-> "none", presses |-> 0, firm |-> FALSE, carry |-> 0]
<1>2. f \in Detector BY Times, StateSets, SMT DEF Detector, States
<1>3. s \in Account BY Times, SMT DEF Account
<1>4. e \in Given BY SMT DEF Given
<1>5. Runs(f) BY StateSets DEF Runs
<1>6. Sees(f, s) /\ Counts(f, s) /\ Lasts(f, s, 0) /\ Fair(e)
  BY DEF Sees, Counts, Lasts, Fair
<1>7. fsm = [i \in Input |-> f] /\ seen = [i \in Input |-> s] /\ event = [i \in Input |-> e]
      /\ turn = "scan" /\ edits = MaxEdits /\ level \in [Input -> BOOLEAN] /\ conf \in Conf
  BY <1>1 DEF Clicks!Init, Conf, Input
<1>8. MaxEdits \in 0 .. MaxEdits BY ClicksAssumption, SMT DEF Clicks!InputsAssumption
<1> HIDE DEF f, s, e
<1>9. Due = 0 BY <1>7 DEF Due
<1>10. \A i \in Input : fsm[i] = f /\ seen[i] = s /\ event[i] = e BY <1>7
<1>11. \A i \in Input : Good(fsm[i], seen[i], Due) /\ Fair(event[i])
  BY <1>5, <1>6, <1>9, <1>10 DEF Good
<1>12. \A i \in Input : fsm[i].timer = 0 <=> fsm[i].st \in Clicks!Resting
  BY <1>11 DEF Good, Runs, Resting
<1>13. fsm \in [Input -> Detector] /\ seen \in [Input -> Account] /\ event \in [Input -> Given]
  BY <1>2, <1>3, <1>4, <1>7
<1>14. Clicks!TypeOK
  BY <1>7, <1>8, <1>12, <1>13
     DEF Clicks!TypeOK, Detector, Account, Given, Conf, Resting, Timing, Input
<1> QED BY <1>11, <1>14 DEF IInv

LEMMA ScanStep == ASSUME IInv, Clicks!Scan PROVE IInv'
<1>0. /\ level \in [Input -> BOOLEAN] /\ edits \in 0 .. MaxEdits
      /\ fsm \in [Input -> Detector] /\ conf \in Conf
      /\ seen \in [Input -> Account] /\ event \in [Input -> Given]
      /\ \A i \in Input : Good(fsm[i], seen[i], Due) /\ Fair(event[i])
  BY Ranges DEF IInv
<1>1. turn = "scan" /\ turn' = "tick" /\ UNCHANGED <<level, conf, edits>> BY DEF Clicks!Scan
<1> DEFINE x(i) == IF Clicks!Fed(i) THEN Clicks!Update(fsm[i], level[i])
                   ELSE Clicks!Step(fsm[i].st, fsm[i].timer, "none")
           z(i) == Clicks!Shown(seen[i], Clicks!Fed(i), level[i])
<1>2. /\ fsm' = [i \in Input |-> After(x(i))]
      /\ seen' = [i \in Input |-> Clicks!Taken(x(i), z(i))]
      /\ event' = [i \in Input |-> Clicks!Noted(x(i), z(i), event[i])]
  BY DEF Clicks!Scan, Clicks!Fire, After, Input
<1>3. ASSUME NEW i \in Input
      PROVE  /\ After(x(i)) \in Detector /\ Clicks!Taken(x(i), z(i)) \in Account
             /\ Clicks!Noted(x(i), z(i), event[i]) \in Given
             /\ Good(After(x(i)), Clicks!Taken(x(i), z(i)), 1)
             /\ Fair(Clicks!Noted(x(i), z(i), event[i]))
  <2>1. Due = 0 BY <1>1 DEF Due
  <2>2. /\ fsm[i] \in Detector /\ seen[i] \in Account /\ event[i] \in Given
        /\ Good(fsm[i], seen[i], 0) /\ Fair(event[i]) /\ level[i] \in BOOLEAN
    BY <1>0, <2>1
  <2>3. Clicks!Fed(i) \in BOOLEAN BY DEF Clicks!Fed
  <2> QED BY <2>2, <2>3, ScanKeeps
<1> HIDE DEF x, z
<1>4. /\ fsm' \in [Input -> Detector] /\ seen' \in [Input -> Account]
      /\ event' \in [Input -> Given]
      /\ \A i \in Input : Good(fsm'[i], seen'[i], 1) /\ Fair(event'[i])
  BY <1>2, <1>3
<1> QED BY <1>0, <1>1, <1>4, Keeps

LEMMA TickStep == ASSUME IInv, Clicks!Tick PROVE IInv'
<1>0. /\ level \in [Input -> BOOLEAN] /\ edits \in 0 .. MaxEdits
      /\ fsm \in [Input -> Detector] /\ conf \in Conf
      /\ seen \in [Input -> Account] /\ event \in [Input -> Given]
      /\ \A i \in Input : Good(fsm[i], seen[i], Due) /\ Fair(event[i])
  BY Ranges DEF IInv
<1>1. turn = "tick" /\ turn' = "scan" /\ UNCHANGED <<level, conf, edits>> BY DEF Clicks!Tick
<1> DEFINE x(i) == Clicks!Advanced(fsm[i], i \in conf.double)
<1>2. /\ fsm' = [i \in Input |-> After(x(i))]
      /\ seen' = [i \in Input |-> Clicks!Taken(x(i), seen[i])]
      /\ event' = [i \in Input |-> Clicks!Noted(x(i), seen[i], event[i])]
  BY DEF Clicks!Tick, Clicks!Fire, After, Input
<1>3. ASSUME NEW i \in Input
      PROVE  /\ After(x(i)) \in Detector /\ Clicks!Taken(x(i), seen[i]) \in Account
             /\ Clicks!Noted(x(i), seen[i], event[i]) \in Given
             /\ Good(After(x(i)), Clicks!Taken(x(i), seen[i]), 0)
             /\ Fair(Clicks!Noted(x(i), seen[i], event[i]))
  <2>1. Due = 1 BY <1>1 DEF Due
  <2>2. /\ fsm[i] \in Detector /\ seen[i] \in Account /\ event[i] \in Given
        /\ Good(fsm[i], seen[i], 1) /\ Fair(event[i])
    BY <1>0, <2>1
  <2>3. (i \in conf.double) \in BOOLEAN OBVIOUS
  <2> QED BY <2>2, <2>3, TickKeeps
<1> HIDE DEF x
<1>4. /\ fsm' \in [Input -> Detector] /\ seen' \in [Input -> Account]
      /\ event' \in [Input -> Given]
      /\ \A i \in Input : Good(fsm'[i], seen'[i], 0) /\ Fair(event'[i])
  BY <1>2, <1>3
<1> QED BY <1>0, <1>1, <1>4, Keeps

\* A contact that changes and a form that is stored leave the detector alone.
LEMMA QuietStep ==
  ASSUME IInv, level' \in [Input -> BOOLEAN], conf' \in Conf, edits' \in 0 .. MaxEdits,
         UNCHANGED <<fsm, turn, seen, event>>
  PROVE  IInv'
<1>0. /\ fsm \in [Input -> Detector] /\ turn \in {"scan", "tick"}
      /\ seen \in [Input -> Account] /\ event \in [Input -> Given]
      /\ \A i \in Input : Good(fsm[i], seen[i], Due) /\ Fair(event[i])
  BY Ranges DEF IInv
<1>1. Due = (IF turn' = "tick" THEN 1 ELSE 0) BY DEF Due
<1>2. \A i \in Input : Good(fsm'[i], seen'[i], Due) /\ Fair(event'[i]) BY <1>0
<1> HIDE DEF Due
<1> QED BY <1>0, <1>1, <1>2, Keeps

LEMMA NextKeeps == IInv /\ [FieldNext]_fieldVars => IInv'
<1> SUFFICES ASSUME IInv, [FieldNext]_fieldVars PROVE IInv' OBVIOUS
<1>0. level \in [Input -> BOOLEAN] /\ conf \in Conf /\ edits \in 0 .. MaxEdits
  BY Ranges DEF IInv
<1>1. CASE UNCHANGED clickVars BY <1>0, <1>1, QuietStep DEF clickVars
<1>2. CASE Clicks!Edit
  <2>1. UNCHANGED <<level, fsm, turn, seen, event>> /\ edits > 0 /\ edits' = edits - 1
    BY <1>2 DEF Clicks!Edit
  <2>2. edits' \in 0 .. MaxEdits BY <1>0, <2>1, ClicksAssumption, SMT DEF Clicks!InputsAssumption
  <2>3. conf' \in Conf BY <1>0, <1>2 DEF Clicks!Edit, Conf, Input
  <2> QED BY <1>0, <2>1, <2>2, <2>3, QuietStep
<1>3. ASSUME NEW i \in Input, Clicks!Contact(i) PROVE IInv'
  <2>1. level' \in [Input -> BOOLEAN] BY <1>0, <1>3 DEF Clicks!Contact
  <2> QED BY <1>0, <1>3, <2>1, QuietStep DEF Clicks!Contact
<1>4. Clicks!Next \/ UNCHANGED clickVars
  BY DEF FieldNext, Chain, OnShutter, OnClicks, fieldVars
<1> QED BY <1>1, <1>2, <1>3, <1>4, ScanStep, TickStep DEF Clicks!Next, Input

-----------------------------------------------------------------------------
(* The results.                                                            *)

LEMMA Always == FieldSpec => []IInv
<1>1. FieldInit => IInv BY InitKeeps
<1>2. IInv /\ [FieldNext]_fieldVars => IInv' BY NextKeeps
<1> QED BY <1>1, <1>2, PTL DEF FieldSpec

\* Every click that input_events.c:241 fires answers presses of its own, whatever forms
\* take an input out of the scan or give it another binding meanwhile.
THEOREM OwnPresses == FieldSpec => []Accounted
<1>1. IInv => Accounted BY DEF IInv, Fair, Accounted, Clicks!Accounted, Input
<1> QED BY <1>1, Always, PTL

\* A single click takes a press of the debounce time, or the one still held when its double
\* click fired: the timer of input_events.c and the time the contact was shown closed add up.
THEOREM NoBounce == FieldSpec => []Debounced
<1>1. IInv => Debounced BY DEF IInv, Fair, Debounced, Clicks!Debounced, Input
<1> QED BY <1>1, Always, PTL

\* Every variable of the shutter and of the clicks keeps its range: no timer outlasts what
\* started it (output_ctrl.c:343, input_events.c:227).
THEOREM RangesHold == FieldSpec => []FieldTypeOK
<1>1. FieldInit => Isr!IInv BY ShutterInit
<1>2. Isr!IInv /\ [FieldNext]_fieldVars => Isr!IInv' BY ShutterNext
<1>3. Isr!IInv => Shutter!TypeOK
  BY Isr!Consequences DEF Shutter!TypeOK, Isr!TypeOK, Shutter!Dir, Isr!Dir
<1>4. Isr!IInv /\ IInv => FieldTypeOK BY <1>3 DEF IInv, FieldTypeOK
<1> QED BY <1>1, <1>2, <1>4, Always, PTL DEF FieldSpec
=============================================================================
