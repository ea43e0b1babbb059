-------------------------- MODULE ShutterIsrProofs --------------------------
(***************************************************************************)
(* The interlock of one shutter (ShutterIsr) write by write: with any      *)
(* travel time and interlock, any number of interrupting handlers and any  *)
(* commands in them.  The invariant says for every write that the          *)
(* interrupted function has still to do what the relays are before it,     *)
(* unless a start stands across the function.                              *)
(***************************************************************************)
EXTENDS ShutterIsr, SequenceTheorems, TLAPS

Constants ==
  /\ TravelAssumption /\ InterlockAssumption /\ MaxHitsAssumption

Relays == [Dir -> BOOLEAN]
Entry ==
  [state : {"Idle", "MovingUp", "MovingDown", "SwitchDelay"}, timer : 0 .. Travel,
   interlock : 0 .. Interlock, pending : Dir, last : Dir]

-----------------------------------------------------------------------------
(* The inductive invariant.                                                *)

\* Both relays are released.
Released(f) == ~f["up"] /\ ~f["down"]

\* An energised relay is one the tick will release.
Timed(f, r) == \A d \in Dir : f[d] => r.state = Moving(d) /\ r.timer > 0

\* The writes that end a stop, an arrival and the start of an interlock.
Ends == {Halt, Arrive, Arm("up"), Arm("down")}

\* What is left of a function, and what holds of the relays before its next write,
\* x telling whether a start stands across it.
Quiet(x, f, r, t) ==
  /\ x \/ Timed(f, r)
  /\ \/ t = <<>> \/ t = <<Refresh>>
     \/ \E n \in 1 .. Travel : t = <<Timer(n)>>
     \/ \E n \in 0 .. Interlock : t = <<Delay(n)>>

Energising(x, f, t) == \E d \in Dir :
  \/ t = <<Remember(d), Off(Opp(d)), On(d), Start(d)>>
  \/ t = <<Off(Opp(d)), On(d), Start(d)>>
  \/ t = <<On(d), Start(d)>> /\ (x \/ ~f[Opp(d)])
  \/ t = <<Start(d)>> /\ (x \/ ~f[Opp(d)])

Releasing(x, f, t) == \E e \in Ends :
  \/ t = <<Timer(0), Off("up"), Off("down"), e>>
  \/ \E d \in Dir : t = <<Remember(d), Off("up"), Off("down"), e>>
  \/ t = <<Off("up"), Off("down"), e>>
  \/ t = <<Off("down"), e>> /\ (x \/ ~f["up"])
  \/ t = <<e>> /\ (x \/ Released(f))

Resuming(t) == t = <<Delay(0), Resume>> \/ t = <<Resume>>

Sound(x, f, r, t) ==
  /\ f["up"] /\ f["down"] => x
  /\ Quiet(x, f, r, t) \/ Energising(x, f, t) \/ Releasing(x, f, t) \/ Resuming(t)

IInv == TypeOK /\ Sound(crossed, relay, sh, todo)

-----------------------------------------------------------------------------
(* The writes.                                                             *)

LEMMA Dirs == /\ \A d \in Dir : Opp(d) \in Dir /\ Opp(d) # d /\ Opp(Opp(d)) = d
              /\ Moving("up") # Moving("down")
              /\ \A d \in Dir : d = "up" \/ d = "down"
BY DEF Dir, Opp, Moving

LEMMA RelayWrites ==
  /\ \A f, d : WriteRelay(f, Off(d)) = [f EXCEPT ![d] = FALSE]
  /\ \A f, d : WriteRelay(f, On(d)) = [f EXCEPT ![d] = TRUE]
  /\ \A f, d : WriteRelay(f, Remember(d)) = f
  /\ \A f, d : WriteRelay(f, Start(d)) = f
  /\ \A f : WriteRelay(f, Refresh) = f
  /\ \A f : WriteRelay(f, Resume) = f
  /\ \A f, n : WriteRelay(f, Timer(n)) = f
  /\ \A f, n : WriteRelay(f, Delay(n)) = f
BY DEF WriteRelay, Off, On, Remember, Start, Refresh, Resume, Timer, Delay

LEMMA ShWrites ==
  /\ \A r, d : WriteSh(r, Off(d)) = r
  /\ \A r, d : WriteSh(r, On(d)) = r
  /\ \A r, d : WriteSh(r, Remember(d)) = [r EXCEPT !.last = d]
  /\ \A r, d : WriteSh(r, Start(d)) = [r EXCEPT !.state = Moving(d), !.timer = Travel]
  /\ \A r, d : WriteSh(r, Arm(d)) = Armed(r, d)
  /\ \A r : WriteSh(r, Refresh) = [r EXCEPT !.timer = Travel]
  /\ \A r : WriteSh(r, Halt) = [r EXCEPT !.state = "Idle", !.timer = 0, !.interlock = 0]
  /\ \A r : WriteSh(r, Arrive) = [r EXCEPT !.state = "Idle"]
  /\ \A r : WriteSh(r, Resume) = r
  /\ \A r, n : WriteSh(r, Timer(n)) = [r EXCEPT !.timer = n]
  /\ \A r, n : WriteSh(r, Delay(n)) = [r EXCEPT !.interlock = n]
BY DEF WriteSh, Off, On, Remember, Start, Arm, Refresh, Halt, Arrive, Resume, Timer, Delay

\* The same for one write each.
LEMMA StartWrites ==
  ASSUME NEW r, NEW d
  PROVE  WriteSh(r, Start(d)) = [r EXCEPT !.state = Moving(d), !.timer = Travel]
<1> DEFINE w == Start(d)
<1>1. w.do = "start" /\ w.d = d BY DEF Start
<1> HIDE DEF w
<1>2. WriteSh(r, w) = [r EXCEPT !.state = Moving(d), !.timer = Travel] BY <1>1 DEF WriteSh
<1> QED BY <1>2 DEF w

LEMMA HaltWrites ==
  ASSUME NEW r
  PROVE  WriteSh(r, Halt) = [r EXCEPT !.state = "Idle", !.timer = 0, !.interlock = 0]
<1>1. Halt.do = "halt" BY DEF Halt
<1> QED BY <1>1 DEF WriteSh

LEMMA DelayWrites ==
  ASSUME NEW r, NEW n
  PROVE  WriteSh(r, Delay(n)) = [r EXCEPT !.interlock = n]
<1> DEFINE w == Delay(n)
<1>1. w.do = "interlock" /\ w.n = n BY DEF Delay
<1> HIDE DEF w
<1>2. WriteSh(r, w) = [r EXCEPT !.interlock = n] BY <1>1 DEF WriteSh
<1> QED BY <1>2 DEF w

LEMMA TimerWrites ==
  ASSUME NEW r, NEW n
  PROVE  WriteSh(r, Timer(n)) = [r EXCEPT !.timer = n]
<1> DEFINE w == Timer(n)
<1>1. w.do = "timer" /\ w.n = n BY DEF Timer
<1> HIDE DEF w
<1>2. WriteSh(r, w) = [r EXCEPT !.timer = n] BY <1>1 DEF WriteSh
<1> QED BY <1>2 DEF w

LEMMA RememberWrites ==
  ASSUME NEW r, NEW d
  PROVE  WriteSh(r, Remember(d)) = [r EXCEPT !.last = d]
<1> DEFINE w == Remember(d)
<1>1. w.do = "lastUp" /\ w.d = d BY DEF Remember
<1> HIDE DEF w
<1>2. WriteSh(r, w) = [r EXCEPT !.last = d] BY <1>1 DEF WriteSh
<1> QED BY <1>2 DEF w

\* No sequence of writes is another one.
LEMMA Tuples ==
  ASSUME NEW a, NEW b, NEW c, NEW d
  PROVE  /\ Head(<<a>>) = a /\ Tail(<<a>>) = <<>>
         /\ Head(<<a, b>>) = a /\ Tail(<<a, b>>) = <<b>>
         /\ Head(<<a, b, c>>) = a /\ Tail(<<a, b, c>>) = <<b, c>>
         /\ Head(<<a, b, c, d>>) = a /\ Tail(<<a, b, c, d>>) = <<b, c, d>>
OBVIOUS

LEMMA JoinedThree ==
  ASSUME NEW a, NEW b, NEW c
  PROVE  <<a, b>> \o <<c>> = <<a, b, c>> /\ <<a>> \o <<b, c>> = <<a, b, c>>
<1> DEFINE S == {a, b, c}
           p == <<a, b>> \o <<c>>
           q == <<a>> \o <<b, c>>
           u == <<a, b, c>>
<1>1. a \in S /\ b \in S /\ c \in S OBVIOUS
<1> HIDE DEF S
<1>2. /\ p \in Seq(S) /\ q \in Seq(S) /\ u \in Seq(S) /\ Len(p) = 3 /\ Len(q) = 3 /\ Len(u) = 3
      /\ p[1] = u[1] /\ p[2] = u[2] /\ p[3] = u[3] /\ q[1] = u[1] /\ q[2] = u[2] /\ q[3] = u[3]
  BY <1>1
<1> HIDE DEF p, q, u
<1>3. \A i \in 1 .. 3 : i = 1 \/ i = 2 \/ i = 3 OBVIOUS
<1>4. p = u /\ q = u BY <1>2, <1>3, SeqEqual
<1> QED BY <1>4 DEF p, q, u

LEMMA JoinedFour ==
  ASSUME NEW a, NEW b, NEW c, NEW d
  PROVE  <<a, b, c>> \o <<d>> = <<a, b, c, d>> /\ <<a>> \o <<b, c, d>> = <<a, b, c, d>>
<1> DEFINE S == {a, b, c, d}
           v == <<a, b, c>> \o <<d>>
           w == <<a>> \o <<b, c, d>>
           x == <<a, b, c, d>>
<1>1. a \in S /\ b \in S /\ c \in S /\ d \in S OBVIOUS
<1> HIDE DEF S
<1>2. /\ v \in Seq(S) /\ w \in Seq(S) /\ x \in Seq(S) /\ Len(v) = 4 /\ Len(w) = 4 /\ Len(x) = 4
      /\ v[1] = x[1] /\ v[2] = x[2] /\ v[3] = x[3] /\ v[4] = x[4]
      /\ w[1] = x[1] /\ w[2] = x[2] /\ w[3] = x[3] /\ w[4] = x[4]
  BY <1>1
<1> HIDE DEF v, w, x
<1>3. \A i \in 1 .. 4 : i = 1 \/ i = 2 \/ i = 3 \/ i = 4 OBVIOUS
<1>4. v = x /\ w = x BY <1>2, <1>3, SeqEqual
<1> QED BY <1>4 DEF v, w, x

\* A function of one, three or four writes, all at once.
LEMMA AfterOne ==
  ASSUME NEW f, NEW a
  PROVE  RelayAfter(f, <<a>>) = WriteRelay(f, a) /\ ShAfter(f, <<a>>) = WriteSh(f, a)
<1>1. Nth(<<a>>, 1) = a /\ \A i \in 2 .. 4 : Nth(<<a>>, i) = Resume BY DEF Nth
<1>2. \A g, s : WriteRelay(g, Resume) = g /\ WriteSh(s, Resume) = s BY RelayWrites, ShWrites
<1> QED BY <1>1, <1>2 DEF RelayAfter, ShAfter

LEMMA AfterThree ==
  ASSUME NEW f, NEW a, NEW b, NEW c
  PROVE  /\ RelayAfter(f, <<a, b, c>>) = WriteRelay(WriteRelay(WriteRelay(f, a), b), c)
         /\ ShAfter(f, <<a, b, c>>) = WriteSh(WriteSh(WriteSh(f, a), b), c)
<1>1. /\ Nth(<<a, b, c>>, 1) = a /\ Nth(<<a, b, c>>, 2) = b /\ Nth(<<a, b, c>>, 3) = c
      /\ Nth(<<a, b, c>>, 4) = Resume
  BY DEF Nth
<1>2. \A g, s : WriteRelay(g, Resume) = g /\ WriteSh(s, Resume) = s BY RelayWrites, ShWrites
<1> QED BY <1>1, <1>2 DEF RelayAfter, ShAfter

LEMMA AfterFour ==
  ASSUME NEW f, NEW a, NEW b, NEW c, NEW d
  PROVE  /\ RelayAfter(f, <<a, b, c, d>>)
              = WriteRelay(WriteRelay(WriteRelay(WriteRelay(f, a), b), c), d)
         /\ ShAfter(f, <<a, b, c, d>>) = WriteSh(WriteSh(WriteSh(WriteSh(f, a), b), c), d)
<1>1. /\ Nth(<<a, b, c, d>>, 1) = a /\ Nth(<<a, b, c, d>>, 2) = b
      /\ Nth(<<a, b, c, d>>, 3) = c /\ Nth(<<a, b, c, d>>, 4) = d
  BY DEF Nth
<1> QED BY <1>1 DEF RelayAfter, ShAfter

\* The functions, each write by itself.
LEMMA Functions ==
  /\ ShBothOff = <<Off("up"), Off("down")>>
  /\ ShStop = <<Off("up"), Off("down"), Halt>>
  /\ \A d \in Dir : /\ <<Remember(d)>> \o Energise(d)
                         = <<Remember(d), Off(Opp(d)), On(d), Start(d)>>
                    /\ <<Remember(d)>> \o ShBothOff \o <<Arm(d)>>
                         = <<Remember(d), Off("up"), Off("down"), Arm(d)>>
  /\ <<Timer(0)>> \o ShBothOff \o <<Arrive>> = <<Timer(0), Off("up"), Off("down"), Arrive>>
<1>1. ShBothOff = <<Off("up"), Off("down")>> BY DEF ShBothOff
<1>2. ShStop = <<Off("up"), Off("down"), Halt>> BY <1>1, JoinedThree DEF ShStop
<1>3. ASSUME NEW d \in Dir
      PROVE  /\ <<Remember(d)>> \o Energise(d) = <<Remember(d), Off(Opp(d)), On(d), Start(d)>>
             /\ <<Remember(d)>> \o ShBothOff \o <<Arm(d)>>
                  = <<Remember(d), Off("up"), Off("down"), Arm(d)>>
  <2>1. <<Remember(d)>> \o Energise(d) = <<Remember(d), Off(Opp(d)), On(d), Start(d)>>
    BY JoinedFour DEF Energise
  <2>2. <<Remember(d)>> \o ShBothOff = <<Remember(d), Off("up"), Off("down")>>
    BY <1>1, JoinedThree
  <2>3. <<Remember(d), Off("up"), Off("down")>> \o <<Arm(d)>>
          = <<Remember(d), Off("up"), Off("down"), Arm(d)>>
    BY JoinedFour
  <2> QED BY <2>1, <2>2, <2>3
<1>4. <<Timer(0)>> \o ShBothOff \o <<Arrive>> = <<Timer(0), Off("up"), Off("down"), Arrive>>
  <2>1. <<Timer(0)>> \o ShBothOff = <<Timer(0), Off("up"), Off("down")>>
    BY <1>1, JoinedThree
  <2>2. <<Timer(0), Off("up"), Off("down")>> \o <<Arrive>>
          = <<Timer(0), Off("up"), Off("down"), Arrive>>
    BY JoinedFour
  <2> QED BY <2>1, <2>2
<1> QED BY <1>1, <1>2, <1>3, <1>4

\* A stop releases both relays and leaves the shutter idle.
LEMMA StopEffect ==
  ASSUME NEW f \in Relays, NEW r \in Entry
  PROVE  /\ RelayAfter(f, ShStop) \in Relays /\ Released(RelayAfter(f, ShStop))
         /\ ShAfter(r, ShStop) = [r EXCEPT !.state = "Idle", !.timer = 0, !.interlock = 0]
<1>0. "up" \in Dir /\ "down" \in Dir BY DEF Dir
<1>1. RelayAfter(f, ShStop)
        = WriteRelay(WriteRelay(WriteRelay(f, Off("up")), Off("down")), Halt)
  BY Functions, AfterThree
<1>2. RelayAfter(f, ShStop) = [[f EXCEPT !["up"] = FALSE] EXCEPT !["down"] = FALSE]
  BY <1>1 DEF WriteRelay, Off, Halt
<1>3. ShAfter(r, ShStop) = WriteSh(WriteSh(WriteSh(r, Off("up")), Off("down")), Halt)
  BY Functions, AfterThree
<1>4. ShAfter(r, ShStop) = [r EXCEPT !.state = "Idle", !.timer = 0, !.interlock = 0]
  <2>1. \A q, d : WriteSh(q, Off(d)) = q BY ShWrites
  <2>2. WriteSh(WriteSh(r, Off("up")), Off("down")) = r BY <2>1
  <2> QED BY <1>3, <2>2, HaltWrites
<1> QED BY <1>2, <1>4 DEF Relays, Dir, Released

-----------------------------------------------------------------------------
(* What a command and a tick decide.                                       *)

LEMMA MoveIs ==
  ASSUME NEW r \in Entry, NEW d \in Dir
  PROVE  \/ r.state = Moving(d) /\ ShMove(r, d) = <<Refresh>>
         \/ r.state = "Idle" /\ ShMove(r, d) = <<Remember(d), Off(Opp(d)), On(d), Start(d)>>
         \/ ShMove(r, d) = <<Remember(d), Off("up"), Off("down"), Arm(d)>>
<1>1. Moving(d) # "Idle" BY DEF Moving
<1> QED BY <1>1, Functions DEF ShMove

LEMMA CommandIs ==
  ASSUME NEW r \in Entry, NEW cmd
  PROVE  \/ OutputCtrlShutter(r, cmd) = ShStop
         \/ /\ ~Stops(r, cmd) /\ Direction(r, cmd) \in Dir
            /\ OutputCtrlShutter(r, cmd) = ShMove(r, Direction(r, cmd))
<1>1. r.last \in Dir BY DEF Entry
<1>2. Direction(r, cmd) \in Dir BY <1>1, Dirs DEF Direction, Dir
<1> QED BY <1>2 DEF OutputCtrlShutter

\* A function starts from a state in which what is energised is timed.
LEMMA StartSound ==
  ASSUME NEW x \in BOOLEAN, NEW f \in Relays, NEW r \in Entry, x \/ Timed(f, r), NEW cmd
  PROVE  Sound(x, f, r, OutputCtrlShutter(r, cmd))
<1>1. f["up"] /\ f["down"] => x BY Dirs DEF Timed, Dir
<1>2. CASE OutputCtrlShutter(r, cmd) = ShStop
  BY <1>1, <1>2, Functions DEF Sound, Releasing, Ends
<1>3. ASSUME NEW d \in Dir, OutputCtrlShutter(r, cmd) = ShMove(r, d)
      PROVE  Sound(x, f, r, OutputCtrlShutter(r, cmd))
  <2>1. CASE ShMove(r, d) = <<Refresh>> BY <1>1, <1>3, <2>1 DEF Sound, Quiet
  <2>2. CASE ShMove(r, d) = <<Remember(d), Off(Opp(d)), On(d), Start(d)>>
    BY <1>1, <1>3, <2>2 DEF Sound, Energising
  <2>3. CASE ShMove(r, d) = <<Remember(d), Off("up"), Off("down"), Arm(d)>>
    <3>1. Arm(d) \in Ends BY Dirs DEF Ends
    <3> QED BY <1>1, <1>3, <2>3, <3>1 DEF Sound, Releasing
  <2> QED BY <2>1, <2>2, <2>3, MoveIs
<1> QED BY <1>2, <1>3, CommandIs

LEMMA TickSound ==
  ASSUME NEW x \in BOOLEAN, NEW f \in Relays, NEW r \in Entry, x \/ Timed(f, r), Constants
  PROVE  Sound(x, f, r, OutputCtrlTick(r))
<1>1. f["up"] /\ f["down"] => x BY Dirs DEF Timed, Dir
<1>2. CASE OutputCtrlTick(r) = <<>> BY <1>1, <1>2 DEF Sound, Quiet
<1>3. CASE OutputCtrlTick(r) = TickDelay(r)
  <2>1. CASE TickDelay(r) = <<Delay(0), Resume>> BY <1>1, <1>3, <2>1 DEF Sound, Resuming
  <2>2. CASE r.interlock > 1 /\ TickDelay(r) = <<Delay(r.interlock - 1)>>
    <3>1. r.interlock - 1 \in 0 .. Interlock
      BY <2>2, SMT DEF Entry, Constants, InterlockAssumption
    <3> QED BY <1>1, <1>3, <2>2, <3>1 DEF Sound, Quiet
  <2>3. r.interlock \in 0 .. Interlock BY DEF Entry
  <2>4. r.interlock <= 1 \/ r.interlock > 1
    BY <2>3, SMT DEF Constants, InterlockAssumption
  <2> QED BY <2>1, <2>2, <2>4 DEF TickDelay
<1>4. CASE OutputCtrlTick(r) = TickTravel(r)
  <2>1. CASE TickTravel(r) = <<>> BY <1>1, <1>4, <2>1 DEF Sound, Quiet
  <2>2. CASE TickTravel(r) = <<Timer(0), Off("up"), Off("down"), Arrive>>
    BY <1>1, <1>4, <2>2 DEF Sound, Releasing, Ends
  <2>3. CASE r.timer # 0 /\ r.timer # 1 /\ TickTravel(r) = <<Timer(r.timer - 1)>>
    <3>1. r.timer - 1 \in 1 .. Travel BY <2>3, SMT DEF Entry, Constants, TravelAssumption
    <3> QED BY <1>1, <1>4, <2>3, <3>1 DEF Sound, Quiet
  <2> QED BY <2>1, <2>2, <2>3, Functions DEF TickTravel
<1> QED BY <1>2, <1>3, <1>4 DEF OutputCtrlTick

-----------------------------------------------------------------------------
(* How a step keeps the invariant.                                         *)

LEMMA Ranges ==
  IInv => relay \in Relays /\ sh \in Entry /\ hits \in 0 .. MaxHits /\ crossed \in BOOLEAN
BY DEF IInv, TypeOK, Relays, Entry

LEMMA Keeps ==
  ASSUME relay' \in Relays, sh' \in Entry, hits' \in 0 .. MaxHits, crossed' \in BOOLEAN,
         Sound(crossed', relay', sh', todo')
  PROVE  IInv'
<1>1. Sound(crossed, relay, sh, todo)'
  BY DEF Sound, Quiet, Energising, Releasing, Resuming, Timed, Released
<1> QED BY <1>1 DEF IInv, TypeOK, Relays, Entry

\* With both relays released, nothing that is left of a function is unsound.
LEMMA ReleasedSound ==
  ASSUME NEW x, NEW f, NEW r, NEW t, Sound(x, f, r, t), NEW y, NEW g, NEW s, Released(g)
  PROVE  Sound(y, g, s, t)
<1>1. Timed(g, s) /\ ~g["up"] /\ ~g["down"] BY Dirs DEF Released, Timed, Dir
<1>2. \A d \in Dir : ~g[Opp(d)] BY <1>1, Dirs
<1>3. Quiet(x, f, r, t) => Quiet(y, g, s, t) BY <1>1 DEF Quiet
<1>4. Energising(x, f, t) => Energising(y, g, t) BY <1>2 DEF Energising
<1>5. Releasing(x, f, t) => Releasing(y, g, t) BY <1>1 DEF Releasing, Released
<1> QED BY <1>1, <1>3, <1>4, <1>5 DEF Sound

\* Which rests of a function release first, and which a start crosses.
LEMMA RestsCross ==
  /\ \A d : ~Releases(<<On(d), Start(d)>>) /\ ~Releases(<<Start(d)>>)
  /\ \A d, b, c, e : ~Releases(<<Remember(d), b, c, e>>)
  /\ \A n : ~Releases(<<Timer(n)>>) /\ ~Releases(<<Delay(n)>>)
  /\ \A n, b : ~Releases(<<Delay(n), b>>)
  /\ \A n, b, c, e : ~Releases(<<Timer(n), b, c, e>>)
  /\ ~Releases(<<Refresh>>)
  /\ \A e \in Ends : \A d : ~Releases(<<Off(d), e>>) /\ ~Releases(<<e>>)
  /\ \A e \in Ends : \A c, d : Crosses(<<Off(c), e>>, d) /\ Crosses(<<e>>, d)
  /\ \A d : Crosses(<<On(Opp(d)), Start(Opp(d))>>, d) /\ Crosses(<<Start(Opp(d))>>, d)
<1>1. \A e \in Ends : e.do \in {"halt", "arrive", "arm"} BY DEF Ends, Halt, Arrive, Arm
<1>2. \A a : Head(<<a>>) = a /\ <<a>> # <<>> OBVIOUS
<1>3. \A a, b : Head(<<a, b>>) = a /\ <<a, b>> # <<>> /\ <<a, b>>[2] = b OBVIOUS
<1>4. \A a, b, c, d : Head(<<a, b, c, d>>) = a OBVIOUS
<1>5. /\ \A d : /\ On(d).do = "on" /\ Start(d).do = "start" /\ Remember(d).do = "lastUp"
                /\ Off(d).do = "off"
      /\ \A n : Timer(n).do = "timer" /\ Delay(n).do = "interlock"
      /\ Refresh.do = "refresh"
  BY DEF On, Start, Remember, Off, Timer, Delay, Refresh
<1>6. \A d : ~Releases(<<On(d), Start(d)>>) /\ ~Releases(<<Start(d)>>)
  BY <1>2, <1>3, <1>5 DEF Releases
<1>7. \A d, b, c, e : ~Releases(<<Remember(d), b, c, e>>) BY <1>4, <1>5 DEF Releases
<1>8. \A n : ~Releases(<<Timer(n)>>) /\ ~Releases(<<Delay(n)>>) BY <1>2, <1>5 DEF Releases
<1>9. \A n, b : ~Releases(<<Delay(n), b>>) BY <1>3, <1>5 DEF Releases
<1>10. \A n, b, c, e : ~Releases(<<Timer(n), b, c, e>>) BY <1>4, <1>5 DEF Releases
<1>11. ~Releases(<<Refresh>>) BY <1>2, <1>5 DEF Releases
<1>12. \A e \in Ends : \A d : ~Releases(<<Off(d), e>>) /\ ~Releases(<<e>>)
  BY <1>1, <1>2, <1>3 DEF Releases
<1>13. \A e \in Ends : \A c, d : Crosses(<<Off(c), e>>, d) /\ Crosses(<<e>>, d)
  BY <1>1, <1>2, <1>3, <1>5, <1>12 DEF Crosses
<1>14. \A d : Crosses(<<On(Opp(d)), Start(Opp(d))>>, d) /\ Crosses(<<Start(Opp(d))>>, d)
  BY <1>2, <1>3, <1>6 DEF Crosses
<1> QED BY <1>6, <1>7, <1>8, <1>9, <1>10, <1>11, <1>12, <1>13, <1>14

\* A start that crosses nothing leaves the rest of the function sound.
LEMMA StartedSound ==
  ASSUME NEW x, NEW f, NEW r, NEW t, Sound(x, f, r, t), NEW d \in Dir, NEW y,
         Crosses(t, d) => y, NEW g, ~g[Opp(d)], NEW s, s.state = Moving(d), s.timer > 0
  PROVE  Sound(y, g, s, t)
<1>1. ~(g["up"] /\ g["down"]) BY Dirs DEF Dir, Opp
<1>2. \A c \in Dir : c = d \/ c = Opp(d) BY DEF Dir, Opp
<1>3. Timed(g, s) BY <1>2 DEF Timed
<1>4. Quiet(x, f, r, t) => Quiet(y, g, s, t) BY <1>3 DEF Quiet
<1>5. ASSUME Energising(x, f, t) PROVE Energising(y, g, t)
  <2>1. PICK c \in Dir : \/ t = <<Remember(c), Off(Opp(c)), On(c), Start(c)>>
                         \/ t = <<Off(Opp(c)), On(c), Start(c)>>
                         \/ t = <<On(c), Start(c)>>
                         \/ t = <<Start(c)>>
    BY <1>5 DEF Energising
  <2>2. CASE c = d BY <2>1, <2>2 DEF Energising
  <2>3. CASE c = Opp(d)
    <3>1. t = <<On(c), Start(c)>> => y BY <2>3, RestsCross
    <3>2. t = <<Start(c)>> => y BY <2>3, RestsCross
    <3> QED BY <2>1, <3>1, <3>2 DEF Energising
  <2> QED BY <1>2, <2>2, <2>3
<1>6. ASSUME Releasing(x, f, t) PROVE Releasing(y, g, t)
  <2>1. \A e \in Ends : (t = <<Off("down"), e>> => y) /\ (t = <<e>> => y) BY RestsCross
  <2> QED BY <1>6, <2>1 DEF Releasing
<1> QED BY <1>1, <1>4, <1>5, <1>6 DEF Sound

\* Nor does a refreshed timer make it unsound.
LEMMA RefreshedSound ==
  ASSUME NEW x, NEW f, NEW r, NEW t, Sound(x, f, r, t), NEW y, x => y,
         NEW s, s.state = r.state, s.timer > 0
  PROVE  Sound(y, f, s, t)
<1>1. Timed(f, r) => Timed(f, s) BY DEF Timed
<1>2. Quiet(x, f, r, t) => Quiet(y, f, s, t) BY <1>1 DEF Quiet
<1>3. Energising(x, f, t) => Energising(y, f, t) BY DEF Energising
<1>4. Releasing(x, f, t) => Releasing(y, f, t) BY DEF Releasing
<1> QED BY <1>2, <1>3, <1>4 DEF Sound

LEMMA HitsType == ASSUME Constants PROVE 0 \in 0 .. MaxHits
BY SMT DEF Constants, MaxHitsAssumption

\* Between two functions of the main loop.
LEMMA EmptySound == IInv /\ todo = <<>> => crossed \/ Timed(relay, sh)
BY DEF IInv, Sound, Quiet, Energising, Releasing, Resuming

LEMMA BindKeeps == ASSUME Constants, IInv, NEW cmd, Bind(cmd) PROVE IInv'
<1>1. /\ crossed \/ Timed(relay, sh)
      /\ relay \in Relays /\ sh \in Entry /\ crossed \in BOOLEAN
  BY Ranges, EmptySound DEF Bind
<1>2. Sound(crossed, relay, sh, OutputCtrlShutter(sh, cmd)) BY <1>1, StartSound
<1>3. Sound(crossed', relay', sh', todo') BY <1>2 DEF Bind
<1> QED BY <1>1, <1>3, HitsType, Keeps DEF Bind

LEMMA TickKeeps == ASSUME Constants, IInv, Tick PROVE IInv'
<1>1. /\ crossed \/ Timed(relay, sh)
      /\ relay \in Relays /\ sh \in Entry /\ crossed \in BOOLEAN
  BY Ranges, EmptySound DEF Tick
<1>2. Sound(crossed, relay, sh, OutputCtrlTick(sh)) BY <1>1, TickSound
<1>3. Sound(crossed', relay', sh', todo') BY <1>2 DEF Tick
<1> QED BY <1>1, <1>3, HitsType, Keeps DEF Tick

\* What a single write does to the shutter's entry.
LEMMA EntryWrites ==
  ASSUME Constants
  PROVE  /\ \A r \in Entry, d \in Dir : WriteSh(r, Remember(d)) \in Entry
         /\ \A r \in Entry, d \in Dir : /\ WriteSh(r, Start(d)) \in Entry
                                        /\ WriteSh(r, Start(d)).state = Moving(d)
                                        /\ WriteSh(r, Start(d)).timer = Travel
         /\ \A r \in Entry : /\ WriteSh(r, Refresh) \in Entry
                             /\ WriteSh(r, Refresh).state = r.state
                             /\ WriteSh(r, Refresh).timer = Travel
         /\ \A r \in Entry, n \in 0 .. Travel : /\ WriteSh(r, Timer(n)) \in Entry
                                                /\ WriteSh(r, Timer(n)).state = r.state
                                                /\ WriteSh(r, Timer(n)).timer = n
         /\ \A r \in Entry, n \in 0 .. Interlock : /\ WriteSh(r, Delay(n)) \in Entry
                                                   /\ WriteSh(r, Delay(n)).state = r.state
                                                   /\ WriteSh(r, Delay(n)).timer = r.timer
         /\ \A r \in Entry, e \in Ends : WriteSh(r, e) \in Entry
<1>1. /\ 0 \in 0 .. Travel /\ Travel \in 0 .. Travel
      /\ 0 \in 0 .. Interlock /\ Interlock \in 0 .. Interlock
  BY SMT DEF Constants, TravelAssumption, InterlockAssumption
<1>2. \A d \in Dir : Moving(d) \in {"MovingUp", "MovingDown"} BY DEF Moving
<1>3. ASSUME NEW r \in Entry, NEW d \in Dir PROVE WriteSh(r, Remember(d)) \in Entry
  <2> DEFINE n == [r EXCEPT !.last = d]
  <2>1. n \in Entry BY DEF Entry
  <2>2. WriteSh(r, Remember(d)) = n BY RememberWrites
  <2> HIDE DEF n
  <2> QED BY <2>1, <2>2
<1>4. ASSUME NEW r \in Entry, NEW d \in Dir
      PROVE  /\ WriteSh(r, Start(d)) \in Entry /\ WriteSh(r, Start(d)).state = Moving(d)
             /\ WriteSh(r, Start(d)).timer = Travel
  <2> DEFINE n == [r EXCEPT !.state = Moving(d), !.timer = Travel]
  <2>1. n \in Entry /\ n.state = Moving(d) /\ n.timer = Travel BY <1>1, <1>2 DEF Entry
  <2>2. WriteSh(r, Start(d)) = n BY StartWrites
  <2> HIDE DEF n
  <2> QED BY <2>1, <2>2
<1>5. ASSUME NEW r \in Entry
      PROVE  /\ WriteSh(r, Refresh) \in Entry /\ WriteSh(r, Refresh).state = r.state
             /\ WriteSh(r, Refresh).timer = Travel
  <2>1. WriteSh(r, Refresh) = [r EXCEPT !.timer = Travel] BY ShWrites
  <2> QED BY <1>1, <2>1 DEF Entry
<1>6. ASSUME NEW r \in Entry, NEW n \in 0 .. Travel
      PROVE  /\ WriteSh(r, Timer(n)) \in Entry /\ WriteSh(r, Timer(n)).state = r.state
             /\ WriteSh(r, Timer(n)).timer = n
  <2>1. WriteSh(r, Timer(n)) = [r EXCEPT !.timer = n] BY TimerWrites
  <2> QED BY <2>1 DEF Entry
<1>7. ASSUME NEW r \in Entry, NEW n \in 0 .. Interlock
      PROVE  /\ WriteSh(r, Delay(n)) \in Entry /\ WriteSh(r, Delay(n)).state = r.state
             /\ WriteSh(r, Delay(n)).timer = r.timer
  <2>1. WriteSh(r, Delay(n)) = [r EXCEPT !.interlock = n] BY DelayWrites
  <2> QED BY <2>1 DEF Entry
<1>8. ASSUME NEW r \in Entry, NEW e \in Ends PROVE WriteSh(r, e) \in Entry
  <2>1. CASE e = Halt
    <3>1. WriteSh(r, e) = [r EXCEPT !.state = "Idle", !.timer = 0, !.interlock = 0]
      BY <2>1, ShWrites
    <3> QED BY <1>1, <3>1 DEF Entry
  <2>2. CASE e = Arrive
    <3>1. WriteSh(r, e) = [r EXCEPT !.state = "Idle"] BY <2>2, ShWrites
    <3> QED BY <3>1 DEF Entry
  <2>3. ASSUME NEW d \in Dir, e = Arm(d) PROVE WriteSh(r, e) \in Entry
    <3>1. WriteSh(r, e) = Armed(r, d) BY <2>3, ShWrites
    <3> QED BY <1>1, <3>1 DEF Armed, Entry
  <2> QED BY <2>1, <2>2, <2>3 DEF Ends, Dir
<1> QED BY <1>3, <1>4, <1>5, <1>6, <1>7, <1>8

LEMMA EndRelay == \A f : \A e \in Ends : WriteRelay(f, e) = f
BY DEF WriteRelay, Ends, Halt, Arrive, Arm

LEMMA WriteKeeps == ASSUME Constants, IInv, Write PROVE IInv'
<1>0. /\ relay \in Relays /\ sh \in Entry /\ hits' \in 0 .. MaxHits
      /\ relay["up"] /\ relay["down"] => crossed
      /\ "up" \in Dir /\ "down" \in Dir /\ crossed \in BOOLEAN /\ crossed' \in BOOLEAN
  BY Ranges DEF Write, IInv, Sound, Dir
<1>b. ~Releases(todo) => crossed' = crossed BY <1>0 DEF Write
<1> DEFINE Did(w, t) == relay' = WriteRelay(relay, w) /\ sh' = WriteSh(sh, w) /\ todo' = t
<1>a. /\ todo # <<>> /\ Head(todo) # Resume /\ todo' = Tail(todo)
      /\ relay' = WriteRelay(relay, Head(todo)) /\ sh' = WriteSh(sh, Head(todo))
  BY DEF Write
<1>1. CASE Quiet(crossed, relay, sh, todo)
  <2>0. crossed \/ Timed(relay, sh) BY <1>1 DEF Quiet
  <2>1. CASE todo = <<Refresh>>
    <3>0. crossed' = crossed BY <1>b, <2>1, RestsCross
    <3>1. Did(Refresh, <<>>) BY <1>a, <2>1
    <3>2. relay' = relay /\ sh' \in Entry /\ sh'.state = sh.state /\ sh'.timer = Travel
      BY <1>0, <3>1, EntryWrites, RelayWrites
    <3>3. Travel > 0 BY SMT DEF Constants, TravelAssumption
    <3>4. crossed \/ Timed(relay', sh') BY <2>0, <3>2, <3>3 DEF Timed
    <3> QED BY <1>0, <3>0, <3>1, <3>2, <3>4, Keeps DEF Sound, Quiet
  <2>2. ASSUME NEW n \in 1 .. Travel, todo = <<Timer(n)>> PROVE IInv'
    <3>0. crossed' = crossed BY <1>b, <2>2, RestsCross
    <3>1. Did(Timer(n), <<>>) BY <1>a, <2>2
    <3>2. n \in 0 .. Travel /\ n > 0 BY SMT DEF Constants, TravelAssumption
    <3>3. relay' = relay BY <1>0, <3>1, RelayWrites
    <3>4. sh' \in Entry /\ sh'.state = sh.state /\ sh'.timer = n
      <4>1. sh' = [sh EXCEPT !.timer = n] BY <3>1, ShWrites
      <4> QED BY <1>0, <3>2, <4>1 DEF Entry
    <3>5. crossed \/ Timed(relay', sh') BY <2>0, <3>2, <3>3, <3>4 DEF Timed
    <3> QED BY <1>0, <3>0, <3>1, <3>3, <3>4, <3>5, Keeps DEF Sound, Quiet
  <2>3. ASSUME NEW n \in 0 .. Interlock, todo = <<Delay(n)>> PROVE IInv'
    <3>0. crossed' = crossed BY <1>b, <2>3, RestsCross
    <3>1. Did(Delay(n), <<>>) BY <1>a, <2>3
    <3>2. relay' = relay BY <1>0, <3>1, RelayWrites
    <3>3. sh' \in Entry /\ sh'.state = sh.state /\ sh'.timer = sh.timer
      BY <1>0, <3>1, EntryWrites
    <3>4. crossed \/ Timed(relay', sh') BY <2>0, <3>2, <3>3 DEF Timed
    <3> QED BY <1>0, <3>0, <3>1, <3>2, <3>3, <3>4, Keeps DEF Sound, Quiet
  <2> QED BY <1>a, <1>1, <2>1, <2>2, <2>3 DEF Quiet
<1>2. ASSUME NEW d \in Dir, todo = <<Remember(d), Off(Opp(d)), On(d), Start(d)>>
      PROVE  IInv'
  <2>0. crossed' = crossed BY <1>b, <1>2, RestsCross
  <2>1. Did(Remember(d), <<Off(Opp(d)), On(d), Start(d)>>) BY <1>a, <1>2
  <2>2. relay' = relay /\ sh' \in Entry BY <1>0, <2>1, RelayWrites, ShWrites, EntryWrites
  <2> QED BY <1>0, <2>0, <2>1, <2>2, Keeps DEF Sound, Energising
<1>3. ASSUME NEW d \in Dir, todo = <<Off(Opp(d)), On(d), Start(d)>>
      PROVE  IInv'
  <2>0. Opp(d) \in Dir BY Dirs
  <2>1. Did(Off(Opp(d)), <<On(d), Start(d)>>) BY <1>a, <1>3
  <2>2. relay' = [relay EXCEPT ![Opp(d)] = FALSE] /\ sh' = sh
    BY <1>0, <2>0, <2>1, RelayWrites, ShWrites, EntryWrites
  <2>3. relay' \in Relays /\ ~relay'[Opp(d)] BY <1>0, <2>0, <2>2 DEF Relays
  <2>4. ~(relay'["up"] /\ relay'["down"]) BY <2>3 DEF Opp
  <2> QED BY <1>0, <2>1, <2>2, <2>3, <2>4, Keeps DEF Sound, Energising
<1>4. ASSUME NEW d \in Dir, todo = <<On(d), Start(d)>>, crossed \/ ~relay[Opp(d)]
      PROVE  IInv'
  <2>0. crossed' = crossed BY <1>b, <1>4, RestsCross
  <2>1. Did(On(d), <<Start(d)>>) BY <1>a, <1>4
  <2>2. relay' = [relay EXCEPT ![d] = TRUE] /\ sh' = sh
    BY <1>0, <2>1, RelayWrites, ShWrites, EntryWrites
  <2>3. relay' \in Relays /\ (crossed \/ ~relay'[Opp(d)])
    BY <1>0, <1>4, <2>2, Dirs DEF Relays, Dir
  <2>4. relay'["up"] /\ relay'["down"] => crossed BY <2>3 DEF Opp
  <2> QED BY <1>0, <2>0, <2>1, <2>2, <2>3, <2>4, Keeps DEF Sound, Energising
<1>5. ASSUME NEW d \in Dir, todo = <<Start(d)>>, crossed \/ ~relay[Opp(d)] PROVE IInv'
  <2>0. crossed' = crossed BY <1>b, <1>5, RestsCross
  <2>1. Did(Start(d), <<>>) BY <1>a, <1>5
  <2>2. relay' = relay BY <1>0, <2>1, RelayWrites
  <2>3. sh' \in Entry /\ sh'.state = Moving(d) /\ sh'.timer = Travel
    <3>1. sh' = WriteSh(sh, Start(d)) BY <2>1
    <3> HIDE DEF Did
    <3>2. /\ WriteSh(sh, Start(d)) \in Entry /\ WriteSh(sh, Start(d)).state = Moving(d)
          /\ WriteSh(sh, Start(d)).timer = Travel
      BY <1>0, EntryWrites
    <3> QED BY <3>1, <3>2
  <2>4. Travel > 0 BY SMT DEF Constants, TravelAssumption
  <2>5. \A c \in Dir : c = d \/ c = Opp(d) BY DEF Dir, Opp
  <2>6. crossed \/ Timed(relay', sh') BY <1>5, <2>2, <2>3, <2>4, <2>5 DEF Timed
  <2> QED BY <1>0, <2>0, <2>1, <2>2, <2>3, <2>6, Keeps DEF Sound, Quiet
<1>6. ASSUME NEW e \in Ends, todo = <<Timer(0), Off("up"), Off("down"), e>> PROVE IInv'
  <2>0. crossed' = crossed BY <1>b, <1>6, RestsCross
  <2>1. Did(Timer(0), <<Off("up"), Off("down"), e>>) BY <1>a, <1>6
  <2>2. 0 \in 0 .. Travel BY SMT DEF Constants, TravelAssumption
  <2>3. relay' = relay /\ sh' \in Entry BY <1>0, <2>1, <2>2, RelayWrites, ShWrites, EntryWrites
  <2> QED BY <1>0, <1>6, <2>0, <2>1, <2>3, Keeps DEF Sound, Releasing
<1>7. ASSUME NEW e \in Ends, NEW d \in Dir, todo = <<Remember(d), Off("up"), Off("down"), e>>
      PROVE  IInv'
  <2>0. crossed' = crossed BY <1>b, <1>7, RestsCross
  <2>1. Did(Remember(d), <<Off("up"), Off("down"), e>>) BY <1>a, <1>7
  <2>2. relay' = relay /\ sh' \in Entry BY <1>0, <2>1, RelayWrites, ShWrites, EntryWrites
  <2> QED BY <1>0, <1>7, <2>0, <2>1, <2>2, Keeps DEF Sound, Releasing
<1>8. ASSUME NEW e \in Ends, todo = <<Off("up"), Off("down"), e>> PROVE IInv'
  <2>1. Did(Off("up"), <<Off("down"), e>>) BY <1>a, <1>8
  <2>2. relay' = [relay EXCEPT !["up"] = FALSE] /\ sh' = sh
    BY <1>0, <2>1, RelayWrites, ShWrites, EntryWrites
  <2>3. relay' \in Relays /\ ~relay'["up"] BY <1>0, <2>2 DEF Relays
  <2>4. ~(relay'["up"] /\ relay'["down"]) BY <2>3
  <2> QED BY <1>0, <1>8, <2>1, <2>2, <2>3, <2>4, Keeps DEF Sound, Releasing
<1>9. ASSUME NEW e \in Ends, todo = <<Off("down"), e>>, crossed \/ ~relay["up"] PROVE IInv'
  <2>0. crossed' = crossed BY <1>b, <1>9, RestsCross
  <2>1. Did(Off("down"), <<e>>) BY <1>a, <1>9
  <2>2. relay' = [relay EXCEPT !["down"] = FALSE] /\ sh' = sh
    BY <1>0, <2>1, RelayWrites, ShWrites, EntryWrites
  <2>3. relay' \in Relays /\ ~relay'["down"] BY <1>0, <2>2 DEF Relays
  <2>4. crossed \/ Released(relay') BY <1>0, <1>9, <2>2, <2>3 DEF Released, Relays
  <2> QED BY <1>0, <1>9, <2>0, <2>1, <2>2, <2>3, <2>4, Keeps DEF Sound, Releasing
<1>10. ASSUME NEW e \in Ends, todo = <<e>>, crossed \/ Released(relay) PROVE IInv'
  <2>0. crossed' = crossed BY <1>b, <1>10, RestsCross
  <2>1. Did(e, <<>>) BY <1>a, <1>10
  <2>2. relay' = relay /\ sh' \in Entry BY <1>0, <1>10, <2>1, EndRelay, EntryWrites
  <2>3. crossed \/ Timed(relay', sh') BY <1>10, <2>2, Dirs DEF Timed, Released, Dir
  <2> QED BY <1>0, <2>0, <2>1, <2>2, <2>3, Keeps DEF Sound, Quiet
<1>11. CASE todo = <<Delay(0), Resume>>
  <2>0. crossed' = crossed BY <1>b, <1>11, RestsCross
  <2>1. Did(Delay(0), <<Resume>>) BY <1>a, <1>11
  <2>2. 0 \in 0 .. Interlock BY SMT DEF Constants, InterlockAssumption
  <2>3. relay' = relay /\ sh' \in Entry BY <1>0, <2>1, <2>2, RelayWrites, ShWrites, EntryWrites
  <2> QED BY <1>0, <2>0, <2>1, <2>3, Keeps DEF Sound, Resuming
<1>12. todo # <<Resume>> BY <1>a
<1>13. CASE Energising(crossed, relay, todo) BY <1>2, <1>3, <1>4, <1>5, <1>13 DEF Energising
<1>14. CASE Releasing(crossed, relay, todo)
  BY <1>6, <1>7, <1>8, <1>9, <1>10, <1>14 DEF Releasing
<1>15. CASE Resuming(todo) BY <1>11, <1>12, <1>15 DEF Resuming
<1> QED BY <1>1, <1>13, <1>14, <1>15 DEF IInv, Sound

\* Only the tick's own last step asks for the pending direction.
LEMMA ResumeKeeps == ASSUME Constants, IInv, TickResume PROVE IInv'
<1>1. /\ relay \in Relays /\ sh \in Entry /\ hits \in 0 .. MaxHits /\ crossed \in BOOLEAN
      /\ todo' = Energise(sh.pending) /\ UNCHANGED <<relay, sh, hits, crossed>>
      /\ relay["up"] /\ relay["down"] => crossed
  BY Ranges DEF TickResume, IInv, Sound
<1>2. sh.pending \in Dir BY <1>1 DEF Entry
<1>3. Energising(crossed', relay', todo') BY <1>1, <1>2 DEF Energising, Energise
<1> QED BY <1>1, <1>3, Keeps DEF Sound

\* A function that releases both relays, and one that starts the motor.
LEMMA ArmEffect ==
  ASSUME Constants, NEW f \in Relays, NEW r \in Entry, NEW d \in Dir, NEW w,
         w = <<Remember(d), Off("up"), Off("down"), Arm(d)>>
  PROVE  /\ RelayAfter(f, w) \in Relays /\ Released(RelayAfter(f, w))
         /\ ShAfter(r, w) \in Entry
<1>1. /\ RelayAfter(f, w) = WriteRelay(WriteRelay(WriteRelay(WriteRelay(f, Remember(d)),
                              Off("up")), Off("down")), Arm(d))
      /\ ShAfter(r, w) = WriteSh(WriteSh(WriteSh(WriteSh(r, Remember(d)),
                           Off("up")), Off("down")), Arm(d))
  BY AfterFour
<1>2. Arm(d) \in Ends BY Dirs DEF Ends
<1> DEFINE g == [f EXCEPT !["up"] = FALSE]
           k == [g EXCEPT !["down"] = FALSE]
<1>3. /\ WriteRelay(f, Remember(d)) = f /\ WriteRelay(f, Off("up")) = g
      /\ WriteRelay(g, Off("down")) = k /\ WriteRelay(k, Arm(d)) = k
  BY DEF WriteRelay, Remember, Off, Arm
<1>4. k \in Relays /\ Released(k) BY DEF Relays, Dir, Released
<1>5. RelayAfter(f, w) = k
  <2> HIDE DEF g, k
  <2> QED BY <1>1, <1>3
<1>6. ShAfter(r, w) = WriteSh(WriteSh(r, Remember(d)), Arm(d))
  <2>1. \A q : WriteSh(q, Off("up")) = q /\ WriteSh(q, Off("down")) = q BY ShWrites
  <2> QED BY <1>1, <2>1
<1>7. WriteSh(r, Remember(d)) \in Entry BY EntryWrites
<1>8. ShAfter(r, w) \in Entry BY <1>2, <1>6, <1>7, EntryWrites
<1> QED BY <1>4, <1>5, <1>8

LEMMA StartEffect ==
  ASSUME Constants, NEW f \in Relays, NEW r \in Entry, NEW d \in Dir, NEW w,
         w = <<Remember(d), Off(Opp(d)), On(d), Start(d)>>
  PROVE  /\ RelayAfter(f, w) \in Relays /\ ~RelayAfter(f, w)[Opp(d)]
         /\ ShAfter(r, w) \in Entry /\ ShAfter(r, w).state = Moving(d)
         /\ ShAfter(r, w).timer = Travel
<1>0. Opp(d) \in Dir /\ Opp(d) # d BY Dirs
<1>1. /\ RelayAfter(f, w) = WriteRelay(WriteRelay(WriteRelay(WriteRelay(f, Remember(d)),
                              Off(Opp(d))), On(d)), Start(d))
      /\ ShAfter(r, w) = WriteSh(WriteSh(WriteSh(WriteSh(r, Remember(d)),
                           Off(Opp(d))), On(d)), Start(d))
  BY AfterFour
<1> DEFINE g == [f EXCEPT ![Opp(d)] = FALSE]
           k == [g EXCEPT ![d] = TRUE]
<1>2. /\ WriteRelay(f, Remember(d)) = f /\ WriteRelay(f, Off(Opp(d))) = g
      /\ WriteRelay(g, On(d)) = k /\ WriteRelay(k, Start(d)) = k
  BY DEF WriteRelay, Remember, Off, On, Start
<1>3. k \in Relays /\ ~k[Opp(d)] BY <1>0 DEF Relays
<1>4. RelayAfter(f, w) = k
  <2> HIDE DEF g, k
  <2> QED BY <1>1, <1>2
<1>5. ShAfter(r, w) = WriteSh(WriteSh(r, Remember(d)), Start(d))
  <2>1. \A q : WriteSh(q, Off(Opp(d))) = q /\ WriteSh(q, On(d)) = q BY ShWrites
  <2> QED BY <1>1, <2>1
<1> DEFINE q == WriteSh(r, Remember(d))
<1>6. q \in Entry BY EntryWrites
<1>7. ShAfter(r, w) = WriteSh(q, Start(d)) BY <1>5
<1> HIDE DEF q
<1>8. /\ WriteSh(q, Start(d)) \in Entry /\ WriteSh(q, Start(d)).state = Moving(d)
      /\ WriteSh(q, Start(d)).timer = Travel
  BY <1>6, EntryWrites
<1> QED BY <1>3, <1>4, <1>7, <1>8

\* A command of the interrupt, whatever it cuts.
LEMMA HandlerKeeps == ASSUME Constants, IInv, NEW cmd, Handler(cmd) PROVE IInv'
<1> DEFINE w == OutputCtrlShutter(sh, cmd)
           d == Direction(sh, cmd)
<1>0. /\ relay \in Relays /\ sh \in Entry /\ hits \in 0 .. MaxHits /\ crossed \in BOOLEAN
      /\ relay' = RelayAfter(relay, w) /\ sh' = ShAfter(sh, w) /\ todo' = todo
      /\ todo # <<>> => hits < MaxHits
      /\ hits' = IF todo = <<>> THEN hits ELSE hits + 1
      /\ crossed' = \/ Starts(sh, cmd) /\ Crosses(todo, d)
                    \/ w = <<Refresh>> /\ crossed
      /\ Sound(crossed, relay, sh, todo)
  BY Ranges DEF Handler, IInv
<1>1. hits' \in 0 .. MaxHits BY <1>0, SMT DEF Constants, MaxHitsAssumption
<1>2. crossed' \in BOOLEAN BY <1>0 DEF Starts, Stops, Crosses
<1>3. Travel > 0 /\ 0 \in 0 .. Travel /\ 0 \in 0 .. Interlock
  BY SMT DEF Constants, TravelAssumption, InterlockAssumption
<1>4. SUFFICES relay' \in Relays /\ sh' \in Entry /\ Sound(crossed', relay', sh', todo)
  BY <1>0, <1>1, <1>2, Keeps
<1> HIDE DEF w, d
<1>5. CASE w = ShStop
  <2>1. relay' \in Relays /\ Released(relay') BY <1>0, <1>5, StopEffect
  <2>2. sh' = [sh EXCEPT !.state = "Idle", !.timer = 0, !.interlock = 0]
    BY <1>0, <1>5, StopEffect
  <2>3. sh' \in Entry BY <1>0, <1>3, <2>2 DEF Entry
  <2> QED BY <1>0, <2>1, <2>3, ReleasedSound
<1>6. CASE w = <<Refresh>>
  <2>1. relay' = relay /\ sh' = WriteSh(sh, Refresh) BY <1>0, <1>6, AfterOne, RelayWrites
  <2>2. sh' \in Entry /\ sh'.state = sh.state /\ sh'.timer > 0
    BY <1>0, <1>3, <2>1, EntryWrites
  <2>3. crossed => crossed' BY <1>0, <1>6
  <2> QED BY <1>0, <2>1, <2>2, <2>3, RefreshedSound
<1>7. CASE ~Stops(sh, cmd) /\ d \in Dir /\ sh.state = "Idle"
           /\ w = <<Remember(d), Off(Opp(d)), On(d), Start(d)>>
  <2>1. /\ relay' \in Relays /\ ~relay'[Opp(d)]
        /\ sh' \in Entry /\ sh'.state = Moving(d) /\ sh'.timer > 0
    BY <1>0, <1>3, <1>7, StartEffect
  <2>2. Crosses(todo, d) => crossed' BY <1>0, <1>7 DEF Starts
  <2> QED BY <1>0, <1>7, <2>1, <2>2, StartedSound
<1>8. CASE d \in Dir /\ w = <<Remember(d), Off("up"), Off("down"), Arm(d)>>
  <2>1. relay' \in Relays /\ Released(relay') /\ sh' \in Entry BY <1>0, <1>8, ArmEffect
  <2> QED BY <1>0, <2>1, ReleasedSound
<1> QED BY <1>0, <1>5, <1>6, <1>7, <1>8, CommandIs, MoveIs DEF w, d

LEMMA InitKeeps == Constants /\ Init => IInv
<1> SUFFICES ASSUME Constants, Init PROVE IInv OBVIOUS
<1>1. /\ 0 \in 0 .. Travel /\ 0 \in 0 .. Interlock /\ 0 \in 0 .. MaxHits
  BY SMT DEF Constants, TravelAssumption, InterlockAssumption, MaxHitsAssumption
<1>2. relay = [d \in Dir |-> FALSE] /\ todo = <<>> /\ hits = 0 /\ ~crossed BY DEF Init
<1>3. sh \in Entry BY <1>1 DEF Init, Entry, Dir
<1>4. relay \in Relays /\ Timed(relay, sh) /\ ~relay["up"] BY <1>2 DEF Relays, Timed, Dir
<1>5. crossed = FALSE BY DEF Init
<1>6. TypeOK BY <1>1, <1>2, <1>3, <1>4, <1>5 DEF TypeOK, Relays, Entry
<1>7. Sound(crossed, relay, sh, todo) BY <1>2, <1>4 DEF Sound, Quiet
<1> QED BY <1>6, <1>7 DEF IInv

LEMMA NextKeeps == Constants /\ IInv /\ [Next]_vars => IInv'
<1> SUFFICES ASSUME Constants, IInv, [Next]_vars PROVE IInv' OBVIOUS
<1>1. CASE UNCHANGED vars
  <2>1. /\ relay' = relay /\ sh' = sh /\ todo' = todo /\ hits' = hits
        /\ crossed' = crossed
    BY <1>1 DEF vars
  <2>2. Sound(crossed', relay', sh', todo') BY <2>1 DEF IInv
  <2> QED BY <2>1, <2>2, Ranges, Keeps
<1>2. CASE Next
  BY <1>2, BindKeeps, TickKeeps, WriteKeeps, ResumeKeeps, HandlerKeeps DEF Next
<1> QED BY <1>1, <1>2

\* What the invariant is for.
LEMMA Consequences == IInv => TypeOK /\ NeverBoth /\ OnIsTimed
<1> SUFFICES ASSUME IInv PROVE TypeOK /\ NeverBoth /\ OnIsTimed OBVIOUS
<1>1. todo = <<>> => crossed \/ Timed(relay, sh) BY EmptySound
<1> QED BY <1>1 DEF IInv, Sound, NeverBoth, OnIsTimed, Timed
=============================================================================
