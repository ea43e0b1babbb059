-------------------------- MODULE MqttClientProofs --------------------------
(***************************************************************************)
(* What MqttClient guarantees for all numbers of control blocks, brokers,  *)
(* timers and interferences: the ranges, one connection at most in a tame  *)
(* environment, and that it implements MqttSession there.                  *)
(***************************************************************************)
EXTENDS MqttClient, TLAPS

Client ==
  [state : {"IDLE", "DNS", "TCP", "CONNECT", "READY"}, enabled : BOOLEAN,
   host : Hosts, pcb : Pcb \cup {NULL}, keep : 0 .. KeepCap,
   wait : 0 .. Reconnect, ping : 0 .. PingDrop]
Block ==
  [st : Live \cup {"free", "closing"}, to : Hosts, mq : {"none", "asked", "on", "out"},
   png : BOOLEAN, age : 0 .. Rtt]
Blocks == [Pcb -> Block]

-----------------------------------------------------------------------------
(* The inductive invariant.  Safe relates a client to the control blocks.  *)

\* Whatever is open is the client's, for its broker.
Owned(c, k) == \A p \in Pcb : k[p].st \in Live => p = c.pcb /\ c.enabled /\ k[p].to = c.host

\* What it holds is open.
Open(c, k) == c.pcb # NULL => k[c.pcb].st \in Live

\* A client holds a block while it is not idle.
Held(c) == (c.pcb = NULL) <=> (c.state = "IDLE")

\* It is READY in a session that a broker accepted.
Accepted(c, k) == c.state = "READY" => k[c.pcb].mq \in {"on", "out"}

\* Nothing was sent before the handshake.
Unsent(k) == \A p \in Pcb : k[p].st = "syn" => k[p].mq = "none"

Safe(c, k) ==
  Owned(c, k) /\ Open(c, k) /\ Held(c) /\ Accepted(c, k) /\ Unsent(k) /\ c.state # "DNS"

\* Nobody looks a literal up.
NoLookups == \A h \in Hosts : lookups[h] = 0

\* A session that the loop has taken note of lasts, or its end has left the client idle.
Noticed == was => cli.state \in {"READY", "IDLE"}

IInv == TypeOK /\ (env = "tame" => Safe(cli, conn) /\ NoLookups /\ Noticed)

LEMMA Ranges == TypeOK =>
  /\ cli \in Client /\ conn \in Blocks /\ lookups \in [Hosts -> 0 .. MaxLookups]
  /\ was \in BOOLEAN /\ net \in BOOLEAN /\ faults \in 0 .. MaxFaults
  /\ env \in {"tame", "wild"}
BY DEF TypeOK, Client, Blocks, Block

LEMMA RangesNext == 
  ASSUME cli' \in Client, conn' \in Blocks, lookups' \in [Hosts -> 0 .. MaxLookups],
         was' \in BOOLEAN, net' \in BOOLEAN, faults' \in 0 .. MaxFaults,
         env' \in {"tame", "wild"}
  PROVE  TypeOK'
BY DEF TypeOK, Client, Blocks, Block

-----------------------------------------------------------------------------
(* The pieces of the handlers.                                             *)

LEMMA Caps ==
  /\ KeepCap \in Nat /\ KeepCap > 0
  /\ \A n \in Nat : Capped(n, KeepCap) \in 0 .. KeepCap
BY TimersAssumption, SMT DEF KeepCap, Capped

\* A block that is freed.
LEMMA FreeType == ASSUME NEW h \in Hosts PROVE Free \in Block /\ Free.st = "free"
BY TimersAssumption, SMT DEF Free, Block

LEMMA PcbType == NULL \notin Pcb
BY SMT DEF NULL, Pcb

LEMMA DroppedType ==
  ASSUME NEW c \in Client PROVE Dropped(c) \in Client
<1>1. Reconnect \in 0 .. Reconnect BY TimersAssumption, SMT
<1> QED BY <1>1 DEF Dropped, Client

LEMMA AbortedType ==
  ASSUME NEW c \in Client, NEW k \in Blocks, NEW p \in Pcb \cup {NULL}
  PROVE  Aborted(k, p) \in Blocks
BY FreeType, SMT DEF Aborted, Blocks, Client

\* Giving the client's block up leaves nothing open.
LEMMA AbortedClean ==
  ASSUME NEW c \in Client, NEW k \in Blocks, Safe(c, k)
  PROVE  /\ \A p \in Pcb : Aborted(k, c.pcb)[p].st \notin Live
         /\ Unsent(Aborted(k, c.pcb))
<1>1. \A p \in Pcb : k[p].st \in Live => p = c.pcb BY DEF Safe, Owned
<1>2. Unsent(k) BY DEF Safe
<1>3. c.host \in Hosts /\ c.pcb \in Pcb \cup {NULL} BY DEF Client
<1>4. Free \in Block /\ Free.st = "free" BY <1>3, FreeType
<1>5. CASE c.pcb = NULL
  BY <1>1, <1>2, <1>5, PcbType DEF Aborted
<1>6. CASE c.pcb # NULL
  <2>1. Aborted(k, c.pcb) = [k EXCEPT ![c.pcb] = Free] BY <1>6 DEF Aborted
  <2>2. \A p \in Pcb : Aborted(k, c.pcb)[p] = IF p = c.pcb THEN Free ELSE k[p]
    BY <2>1 DEF Blocks
  <2> QED BY <1>1, <1>2, <1>4, <2>2 DEF Unsent, Live
<1> QED BY <1>5, <1>6

\* A client that is idle, with nothing open, is safe.
LEMMA IdleSafe ==
  ASSUME NEW c, NEW k, c.state = "IDLE", c.pcb = NULL, Unsent(k),
         \A p \in Pcb : k[p].st \notin Live
  PROVE  Safe(c, k)
BY DEF Safe, Owned, Open, Held, Accepted

LEMMA DroppedSafe ==
  ASSUME NEW c \in Client, NEW k \in Blocks, Safe(c, k)
  PROVE  Safe(Dropped(c), Aborted(k, c.pcb))
<1>1. Dropped(c).state = "IDLE" /\ Dropped(c).pcb = NULL BY DEF Dropped, Client
<1> QED BY <1>1, AbortedClean, IdleSafe

LEMMA SentType ==
  ASSUME NEW k \in Blocks, NEW p \in Pcb, NEW b \in BOOLEAN
  PROVE  /\ Sent(k, p, b) \in Blocks
         /\ \A q \in Pcb : q # p => Sent(k, p, b)[q] = k[q]
         /\ Sent(k, p, b)[p].st = IF k[p].st = "dead" THEN "lost" ELSE k[p].st
         /\ Sent(k, p, b)[p].to = k[p].to
         /\ k[p].mq \in {"on", "out"} => Sent(k, p, b)[p].mq \in {"on", "out"}
<1> DEFINE st == IF k[p].st = "dead" THEN "lost" ELSE k[p].st
           mq == IF b THEN (IF k[p].mq = "none" THEN "asked" ELSE "out")
                 ELSE (IF k[p].mq = "none" THEN "out" ELSE k[p].mq)
           n == [k[p] EXCEPT !.st = st, !.mq = mq]
<1>1. k[p] \in Block /\ k \in [Pcb -> Block] BY DEF Blocks
<1>2. Sent(k, p, b) = [k EXCEPT ![p] = n] BY <1>1 DEF Sent, Block
<1>3. n \in Block /\ n.st = st /\ n.mq = mq /\ n.to = k[p].to BY <1>1 DEF Block, Live
<1>4. k[p].mq \in {"on", "out"} => mq \in {"on", "out"} OBVIOUS
<1> HIDE DEF n, mq
<1> QED BY <1>1, <1>2, <1>3, <1>4 DEF Blocks

-----------------------------------------------------------------------------
(* How a step keeps the invariant.                                         *)

LEMMA StepKeeps ==
  ASSUME cli' \in Client, conn' \in Blocks, lookups' \in [Hosts -> 0 .. MaxLookups],
         was' \in BOOLEAN, net' \in BOOLEAN, faults' \in 0 .. MaxFaults,
         env' \in {"tame", "wild"},
         env' = "tame" => /\ Safe(cli', conn')
                          /\ \A h \in Hosts : lookups'[h] = 0
                          /\ was' => cli'.state \in {"READY", "IDLE"}
  PROVE  IInv'
<1>1. TypeOK' BY RangesNext
<1>2. Safe(cli', conn') => Safe(cli, conn)'
  BY DEF Safe, Owned, Open, Held, Accepted, Unsent
<1> QED BY <1>1, <1>2 DEF IInv, NoLookups, Noticed

LEMMA FaultType == TypeOK /\ (Fault \/ NoFault) => faults' \in 0 .. MaxFaults
BY BoundsAssumption, SMT DEF TypeOK, Fault, NoFault

\* A block on which a connection attempt begins.
Begun(h) == [Free EXCEPT !.st = "syn", !.to = h]

LEMMA BegunType ==
  ASSUME NEW h \in Hosts
  PROVE  Begun(h) \in Block /\ Begun(h).st = "syn" /\ Begun(h).to = h /\ Begun(h).mq = "none"
<1>1. Free \in Block /\ Free.mq = "none" BY FreeType DEF Free
<1> QED BY <1>1 DEF Begun, Block, Live

LEMMA NewBlock ==
  ASSUME NEW k \in Blocks, NEW h \in Hosts, NEW p \in Pcb, NEW n, n = [k EXCEPT ![p] = Begun(h)]
  PROVE  /\ n \in Blocks /\ \A q \in Pcb : q # p => n[q] = k[q]
         /\ n[p].st = "syn" /\ n[p].to = h /\ n[p].mq = "none"
BY BegunType DEF Blocks

LEMMA ConnectsType ==
  ASSUME NEW c \in Client, NEW k \in Blocks, NEW h \in Hosts, Connects(c, k, h)
  PROVE  cli' \in Client /\ conn' \in Blocks
<1>1. CASE ~net /\ cli' = Dropped(c) /\ conn' = k BY <1>1, DroppedType
<1>2. ASSUME NEW p \in Pcb, cli' = [c EXCEPT !.state = "TCP", !.pcb = p],
             conn' = [k EXCEPT ![p] = [Free EXCEPT !.st = "syn", !.to = h]]
      PROVE  cli' \in Client /\ conn' \in Blocks
  <2>1. cli' \in Client BY <1>2 DEF Client
  <2>2. conn' = [k EXCEPT ![p] = Begun(h)] BY <1>2 DEF Begun
  <2>3. [k EXCEPT ![p] = Begun(h)] \in Blocks BY NewBlock
  <2> QED BY <2>1, <2>2, <2>3
<1> QED BY <1>1, <1>2 DEF Connects

LEMMA ConnectsSafe ==
  ASSUME NEW c \in Client, NEW k \in Blocks, Safe(c, k), c.state = "IDLE", c.enabled,
         Connects(c, k, c.host)
  PROVE  Safe(cli', conn') /\ cli'.state # "READY"
<1>1. c.pcb = NULL /\ c.host \in Hosts /\ \A p \in Pcb : k[p].st \notin Live
  BY PcbType DEF Safe, Held, Owned, Client
<1>2. CASE ~net /\ cli' = Dropped(c) /\ conn' = k
  BY <1>1, <1>2, IdleSafe DEF Dropped, Client, Safe
<1>3. ASSUME NEW p \in Pcb, cli' = [c EXCEPT !.state = "TCP", !.pcb = p],
             conn' = [k EXCEPT ![p] = [Free EXCEPT !.st = "syn", !.to = c.host]]
      PROVE  Safe(cli', conn') /\ cli'.state # "READY"
  <2>1. /\ cli'.state = "TCP" /\ cli'.pcb = p /\ cli'.enabled /\ cli'.host = c.host
    BY <1>3 DEF Client
  <2>2. /\ \A q \in Pcb : q # p => conn'[q] = k[q]
        /\ conn'[p].st = "syn" /\ conn'[p].to = c.host /\ conn'[p].mq = "none"
    <3>1. conn' = [k EXCEPT ![p] = Begun(c.host)] BY <1>3 DEF Begun
    <3>2. /\ Begun(c.host).st = "syn" /\ Begun(c.host).to = c.host
          /\ Begun(c.host).mq = "none"
      BY <1>1, BegunType
    <3> QED BY <3>1, <3>2 DEF Blocks
  <2>3. Owned(cli', conn') BY <1>1, <2>1, <2>2 DEF Owned
  <2>4. Unsent(conn') BY <2>2 DEF Safe, Unsent
  <2>5. Held(cli') BY <2>1, PcbType DEF Held
  <2>6. cli'.state \notin {"READY", "DNS"} BY <2>1
  <2>7. Accepted(cli', conn') BY <2>6 DEF Accepted
  <2>8. Open(cli', conn') BY <2>1, <2>2 DEF Open, Live
  <2> QED BY <2>3, <2>4, <2>5, <2>6, <2>7, <2>8 DEF Safe
<1> QED BY <1>2, <1>3 DEF Connects

-----------------------------------------------------------------------------
(* The tick.                                                               *)

\* The age of a handshake does not matter.
LEMMA AgedSame ==
  ASSUME TypeOK
  PROVE  /\ Aged \in Blocks
         /\ \A p \in Pcb : Aged[p].st = conn[p].st /\ Aged[p].to = conn[p].to
                            /\ Aged[p].mq = conn[p].mq
<1>1. conn \in [Pcb -> Block] BY Ranges DEF Blocks
<1>2. ASSUME NEW p \in Pcb
      PROVE  Aged[p] \in Block /\ Aged[p].st = conn[p].st /\ Aged[p].to = conn[p].to
             /\ Aged[p].mq = conn[p].mq
  <2>1. conn[p] \in Block /\ conn[p].age \in 0 .. Rtt BY <1>1 DEF Block
  <2>2. conn[p].age < Rtt => conn[p].age + 1 \in 0 .. Rtt BY <2>1, TimersAssumption, SMT
  <2>3. CASE conn[p].st = "syn" /\ conn[p].age < Rtt
    <3>1. Aged[p] = [conn[p] EXCEPT !.age = conn[p].age + 1] BY <2>3 DEF Aged
    <3> QED BY <2>1, <2>2, <2>3, <3>1 DEF Block
  <2>4. CASE ~(conn[p].st = "syn" /\ conn[p].age < Rtt)
    BY <2>1, <2>4 DEF Aged
  <2> QED BY <2>3, <2>4
<1> QED BY <1>2 DEF Aged, Blocks

LEMMA AgedSafe ==
  ASSUME TypeOK, Safe(cli, conn) PROVE Safe(cli, Aged)
<1>1. cli \in Client BY Ranges
<1>2. Owned(cli, Aged) /\ Unsent(Aged) BY AgedSame DEF Safe, Owned, Unsent
<1>3. cli.state = "READY" => cli.pcb \in Pcb BY <1>1 DEF Safe, Held, Client
<1>4. Accepted(cli, Aged) BY AgedSame, <1>3 DEF Safe, Accepted
<1>5. Open(cli, Aged) BY <1>1, AgedSame DEF Safe, Open, Client
<1> QED BY <1>2, <1>4, <1>5 DEF Safe

LEMMA KeepType == TypeOK => Capped(cli.keep + 1, KeepCap) \in 0 .. KeepCap
BY Caps, SMT DEF TypeOK

LEMMA TickIdleKeeps ==
  ASSUME IInv, TickIdle(Aged)
  PROVE  /\ cli' \in Client /\ conn' \in Blocks /\ lookups' \in [Hosts -> 0 .. MaxLookups]
         /\ env = "tame" => /\ Safe(cli', conn') /\ cli'.state # "READY"
                            /\ \A h \in Hosts : lookups'[h] = 0
<1> DEFINE c == [cli EXCEPT !.wait = 0]
<1>0. TypeOK /\ cli \in Client /\ lookups \in [Hosts -> 0 .. MaxLookups] BY Ranges DEF IInv
<1>1. 0 \in 0 .. Reconnect BY TimersAssumption, SMT
<1>2. c \in Client /\ c.state = cli.state /\ c.enabled = cli.enabled /\ c.pcb = cli.pcb
      /\ c.host = cli.host
  BY <1>0, <1>1 DEF Client
<1>3. env = "tame" => Safe(c, Aged)
  BY <1>0, <1>2, AgedSafe DEF IInv, Safe, Owned, Open, Held, Accepted
<1>4. cli.state = "IDLE" /\ Aged \in Blocks BY <1>0, AgedSame DEF TickIdle
<1>5. env = "tame" => \A h \in Hosts : lookups[h] = 0 BY DEF IInv, NoLookups
<1>6. c.host \in Hosts BY <1>2 DEF Client
<1> HIDE DEF c
<1>7. CASE cli.enabled /\ TryConnect(c, Aged)
  <2>1. CASE env = "tame" /\ Connects(c, Aged, c.host) /\ UNCHANGED lookups
    BY <1>0, <1>2, <1>3, <1>4, <1>5, <1>6, <1>7, <2>1, ConnectsType, ConnectsSafe
  <2>2. CASE /\ env = "wild" /\ lookups[c.host] < MaxLookups
             /\ lookups' = [lookups EXCEPT ![c.host] = lookups[c.host] + 1]
             /\ cli' = [c EXCEPT !.state = "DNS"] /\ conn' = Aged
    <3>1. lookups[c.host] + 1 \in 0 .. MaxLookups
      BY <1>0, <1>6, <2>2, BoundsAssumption, SMT
    <3>2. lookups' \in [Hosts -> 0 .. MaxLookups] BY <1>0, <1>6, <2>2, <3>1
    <3>3. cli' \in Client BY <1>2, <2>2 DEF Client
    <3> QED BY <1>4, <2>2, <3>2, <3>3
  <2>3. CASE env = "wild" /\ cli' = NotFound(c) /\ conn' = Aged /\ UNCHANGED lookups
    <3>1. Reconnect \in 0 .. Reconnect BY TimersAssumption, SMT
    <3>2. cli' \in Client BY <1>2, <2>3, <3>1 DEF Client, NotFound
    <3> QED BY <1>0, <1>4, <2>3, <3>2
  <2> QED BY <1>7, <2>1, <2>2, <2>3 DEF TryConnect
<1>8. CASE /\ cli.wait > 1 /\ cli' = [cli EXCEPT !.wait = cli.wait - 1]
           /\ conn' = Aged /\ UNCHANGED lookups
  <2>1. cli.wait - 1 \in 0 .. Reconnect BY <1>0, <1>8, TimersAssumption, SMT DEF Client
  <2>2. /\ cli' \in Client /\ cli'.state = cli.state /\ cli'.enabled = cli.enabled
        /\ cli'.pcb = cli.pcb /\ cli'.host = cli.host
    BY <1>0, <1>8, <2>1 DEF Client
  <2>3. env = "tame" => Safe(cli', Aged)
    BY <1>0, <2>2, AgedSafe DEF IInv, Safe, Owned, Open, Held, Accepted
  <2> QED BY <1>0, <1>4, <1>5, <1>8, <2>2, <2>3
<1>9. CASE conn' = Aged /\ UNCHANGED <<cli, lookups>>
  BY <1>0, <1>4, <1>5, <1>9, AgedSafe DEF IInv
<1> QED BY <1>7, <1>8, <1>9 DEF TickIdle, c

\* Only the state of the connection and what the broker thinks of it matter.
LEMMA SameSafe ==
  ASSUME NEW c, NEW d, NEW k, NEW j, Safe(c, k), c \in Client,
         d.state = c.state, d.pcb = c.pcb, d.enabled = c.enabled, d.host = c.host,
         \A p \in Pcb : j[p].st = k[p].st /\ j[p].to = k[p].to /\ j[p].mq = k[p].mq
  PROVE  Safe(d, j)
<1>1. c.state = "READY" => c.pcb \in Pcb BY DEF Safe, Held, Client
<1>2. Owned(d, j) /\ Held(d) /\ Unsent(j) BY DEF Safe, Owned, Held, Unsent
<1>3. Accepted(d, j) BY <1>1 DEF Safe, Accepted
<1>4. Open(d, j) BY DEF Safe, Open, Client
<1> QED BY <1>2, <1>3, <1>4 DEF Safe

LEMMA SentSafe ==
  ASSUME NEW c \in Client, NEW k \in Blocks, NEW b \in BOOLEAN, Safe(c, k),
         c.pcb # NULL, k[c.pcb].st # "syn"
  PROVE  Safe(c, Sent(k, c.pcb, b))
<1>1. c.pcb \in Pcb BY DEF Client
<1> DEFINE j == Sent(k, c.pcb, b)
<1>2. /\ j \in Blocks /\ \A q \in Pcb : q # c.pcb => j[q] = k[q]
      /\ j[c.pcb].st = IF k[c.pcb].st = "dead" THEN "lost" ELSE k[c.pcb].st
      /\ j[c.pcb].to = k[c.pcb].to
      /\ k[c.pcb].mq \in {"on", "out"} => j[c.pcb].mq \in {"on", "out"}
  BY <1>1, SentType
<1> HIDE DEF j
<1>3. Owned(c, j) BY <1>2 DEF Safe, Owned, Live
<1>4. Accepted(c, j) BY <1>2 DEF Safe, Accepted
<1>5. Unsent(j) BY <1>2 DEF Safe, Unsent
<1>6. Open(c, j) BY <1>2 DEF Safe, Open, Live
<1>7. Safe(c, j) BY <1>3, <1>4, <1>5, <1>6 DEF Safe
<1> QED BY <1>7 DEF j

\* A PINGREQ that waits for its answer, or no longer does.
Pinged(k, p, b) == [k EXCEPT ![p].png = b]

LEMMA PingedType ==
  ASSUME NEW k \in Blocks, NEW p \in Pcb, NEW b \in BOOLEAN
  PROVE  /\ Pinged(k, p, b) \in Blocks
         /\ \A q \in Pcb : /\ Pinged(k, p, b)[q].st = k[q].st
                           /\ Pinged(k, p, b)[q].to = k[q].to
                           /\ Pinged(k, p, b)[q].mq = k[q].mq
<1> DEFINE n == [k[p] EXCEPT !.png = b]
<1>1. k[p] \in Block BY DEF Blocks
<1>2. n \in Block /\ n.st = k[p].st /\ n.to = k[p].to /\ n.mq = k[p].mq BY <1>1 DEF Block
<1>3. Pinged(k, p, b) = [k EXCEPT ![p] = n] BY <1>1 DEF Blocks, Pinged
<1> HIDE DEF n
<1> QED BY <1>2, <1>3 DEF Blocks

LEMMA TickReadyKeeps ==
  ASSUME IInv, NEW goes \in BOOLEAN, TickReady(Aged, goes)
  PROVE  /\ cli' \in Client /\ conn' \in Blocks /\ lookups' = lookups
         /\ env = "tame" => Safe(cli', conn') /\ cli'.state \in {"READY", "IDLE"}
<1> DEFINE due  == cli.keep + 1 >= PingAt
           sent == due /\ cli.pcb # NULL /\ goes
           ping == IF due /\ cli.ping = 0 THEN 1 ELSE cli.ping
           late == ping # 0 /\ ping + 1 > PingDrop
           keep == IF sent THEN 0 ELSE Capped(cli.keep + 1, KeepCap)
           j    == IF sent THEN [Sent(Aged, cli.pcb, FALSE) EXCEPT ![cli.pcb].png = TRUE]
                   ELSE Aged
           c    == [cli EXCEPT !.keep = keep, !.ping = PingDrop]
           d    == [cli EXCEPT !.keep = keep, !.ping = IF ping = 0 THEN 0 ELSE ping + 1]
<1>0. TypeOK /\ cli \in Client /\ Aged \in Blocks /\ cli.state = "READY" /\ lookups' = lookups
  BY Ranges, AgedSame DEF IInv, TickReady
<1>1. \/ late /\ cli' = Dropped(c) /\ conn' = Aborted(j, cli.pcb)
      \/ ~late /\ cli' = d /\ conn' = j
  BY DEF TickReady
<1>2. keep \in 0 .. KeepCap BY <1>0, KeepType, Caps, SMT
<1>3. PingDrop \in 0 .. PingDrop BY TimersAssumption, SMT
<1>4. ~late => (IF ping = 0 THEN 0 ELSE ping + 1) \in 0 .. PingDrop
  BY <1>0, TimersAssumption, SMT DEF Client
<1>5. env = "tame" => Safe(cli, Aged) /\ cli.pcb # NULL
  BY <1>0, AgedSafe DEF IInv, Safe, Held
<1>6. j \in Blocks /\ (env = "tame" => Safe(cli, j))
  <2>1. CASE ~sent BY <1>0, <1>5, <2>1
  <2>2. CASE sent
    <3>1. cli.pcb \in Pcb BY <1>0, <2>2 DEF Client
    <3> DEFINE s == Sent(Aged, cli.pcb, FALSE)
    <3>2. s \in Blocks BY <1>0, <3>1, SentType
    <3>3. ASSUME env = "tame" PROVE Safe(cli, s)
      <4>1. Aged[cli.pcb].st # "syn" BY <1>0, <1>5, <3>1, <3>3 DEF Safe, Accepted, Unsent
      <4> QED BY <1>0, <1>5, <3>3, <4>1, SentSafe
    <3>4. j = Pinged(s, cli.pcb, TRUE) BY <2>2 DEF Pinged
    <3> HIDE DEF j, s
    <3>5. j \in Blocks BY <3>1, <3>2, <3>4, PingedType
    <3>6. \A q \in Pcb : j[q].st = s[q].st /\ j[q].to = s[q].to /\ j[q].mq = s[q].mq
      BY <3>1, <3>2, <3>4, PingedType
    <3> QED BY <1>0, <3>3, <3>5, <3>6, SameSafe
  <2> QED BY <2>1, <2>2
<1> HIDE DEF j, keep, ping, late
<1>7. CASE late /\ cli' = Dropped(c) /\ conn' = Aborted(j, cli.pcb)
  <2>1. c \in Client /\ c.state = cli.state /\ c.pcb = cli.pcb /\ c.enabled = cli.enabled
        /\ c.host = cli.host
    BY <1>0, <1>2, <1>3 DEF Client
  <2>2. env = "tame" => Safe(c, j) BY <1>0, <1>6, <2>1, SameSafe
  <2> HIDE DEF c
  <2>3. cli' \in Client BY <1>7, <2>1, DroppedType
  <2>4. conn' \in Blocks BY <1>0, <1>6, <1>7, AbortedType DEF Client
  <2>5. Dropped(c).state = "IDLE" BY <2>1 DEF Dropped, Client
  <2>6. env = "tame" => Safe(cli', conn') BY <1>6, <1>7, <2>1, <2>2, DroppedSafe
  <2> QED BY <1>0, <1>7, <2>3, <2>4, <2>5, <2>6
<1>8. CASE ~late /\ cli' = d /\ conn' = j
  <2>1. d \in Client /\ d.state = cli.state /\ d.pcb = cli.pcb /\ d.enabled = cli.enabled
        /\ d.host = cli.host
    BY <1>0, <1>2, <1>4, <1>8 DEF Client
  <2> HIDE DEF d
  <2>2. env = "tame" => Safe(d, j) BY <1>0, <1>6, <2>1, SameSafe
  <2> QED BY <1>0, <1>6, <1>8, <2>1, <2>2
<1> QED BY <1>1, <1>7, <1>8

LEMMA TickGuardKeeps ==
  ASSUME IInv, TickGuard(Aged)
  PROVE  /\ cli' \in Client /\ conn' \in Blocks /\ lookups' = lookups
         /\ env = "tame" => Safe(cli', conn') /\ cli'.state # "READY"
<1> DEFINE c == [cli EXCEPT !.keep = Capped(cli.keep + 1, KeepCap)]
<1>0. TypeOK /\ cli \in Client /\ Aged \in Blocks /\ cli.state # "READY" /\ lookups' = lookups
  BY Ranges, AgedSame DEF IInv, TickGuard
<1>1. \/ cli' = Dropped(c) /\ conn' = Aborted(Aged, cli.pcb)
      \/ cli' = c /\ conn' = Aged
  BY DEF TickGuard
<1>2. c \in Client /\ c.state = cli.state /\ c.pcb = cli.pcb /\ c.enabled = cli.enabled
      /\ c.host = cli.host
  BY <1>0, KeepType DEF Client
<1> HIDE DEF c
<1>3. env = "tame" => Safe(c, Aged)
  BY <1>0, <1>2, AgedSafe, SameSafe DEF IInv
<1>4. CASE cli' = Dropped(c) /\ conn' = Aborted(Aged, cli.pcb)
  <2>1. cli' \in Client BY <1>2, <1>4, DroppedType
  <2>2. conn' \in Blocks BY <1>0, <1>4, AbortedType DEF Client
  <2>3. Dropped(c).state = "IDLE" BY <1>2 DEF Dropped, Client
  <2>4. env = "tame" => Safe(cli', conn') BY <1>0, <1>2, <1>3, <1>4, DroppedSafe
  <2> QED BY <1>0, <1>4, <2>1, <2>2, <2>3, <2>4
<1>5. CASE cli' = c /\ conn' = Aged
  BY <1>0, <1>2, <1>3, <1>5
<1> QED BY <1>1, <1>4, <1>5

LEMMA TickKeeps == ASSUME IInv, Tick PROVE IInv'
<1>1. /\ TypeOK /\ was' = WasConnected /\ net' = net /\ env' = env
      /\ lookups \in [Hosts -> 0 .. MaxLookups] /\ was' \in BOOLEAN
      /\ net \in BOOLEAN /\ faults \in 0 .. MaxFaults /\ (Fault \/ NoFault) /\ env \in {"tame", "wild"}
      /\ env = "tame" => \A h \in Hosts : lookups[h] = 0
  BY Ranges DEF IInv, Tick, NoLookups, WasConnected
<1>2. was' => cli'.state \in {"READY", "IDLE"} BY <1>1 DEF WasConnected
<1>3. /\ cli' \in Client /\ conn' \in Blocks /\ lookups' \in [Hosts -> 0 .. MaxLookups]
      /\ env = "tame" => Safe(cli', conn') /\ \A h \in Hosts : lookups'[h] = 0
  BY <1>1, TickIdleKeeps, TickReadyKeeps, TickGuardKeeps DEF Tick
<1>4. faults' \in 0 .. MaxFaults BY <1>1, FaultType
<1> QED BY <1>1, <1>2, <1>3, <1>4, StepKeeps

-----------------------------------------------------------------------------
(* The callbacks of lwIP.                                                  *)

LEMMA CallbackKeeps ==
  ASSUME IInv, cli' \in Client, conn' \in Blocks, UNCHANGED lookups, Callback,
         Fault \/ NoFault,
         env = "tame" => Safe(cli', conn') /\ (was => cli'.state \in {"READY", "IDLE"})
  PROVE  IInv'
<1>1. /\ TypeOK /\ lookups' \in [Hosts -> 0 .. MaxLookups] /\ was' \in BOOLEAN
      /\ net' \in BOOLEAN /\ env' \in {"tame", "wild"} /\ env' = env /\ was' = was
      /\ env = "tame" => \A h \in Hosts : lookups'[h] = 0
  BY Ranges DEF IInv, Callback, NoLookups
<1>2. faults' \in 0 .. MaxFaults BY <1>1, FaultType
<1> QED BY <1>1, <1>2, StepKeeps

LEMMA DnsAnswerKeeps == ASSUME IInv, NEW h \in Hosts, DnsAnswer(h) PROVE IInv'
<1>1. /\ TypeOK /\ cli \in Client /\ conn \in Blocks /\ was' \in BOOLEAN /\ net' \in BOOLEAN
      /\ env' = env /\ env \in {"tame", "wild"} /\ lookups \in [Hosts -> 0 .. MaxLookups]
  BY Ranges DEF IInv, DnsAnswer, Callback
<1>2. lookups[h] > 0 /\ lookups' = [lookups EXCEPT ![h] = lookups[h] - 1] BY DEF DnsAnswer
<1>3. env # "tame" BY <1>2, SMT DEF IInv, NoLookups
<1>4. faults' \in 0 .. MaxFaults BY <1>1, FaultType DEF DnsAnswer
<1>5. lookups[h] - 1 \in 0 .. MaxLookups BY <1>1, <1>2, BoundsAssumption, SMT
<1>6. lookups' \in [Hosts -> 0 .. MaxLookups] BY <1>1, <1>2, <1>5
<1>7. Reconnect \in 0 .. Reconnect BY TimersAssumption, SMT
<1>8. cli' \in Client /\ conn' \in Blocks
  <2>1. CASE Connects(cli, conn, h) BY <1>1, <2>1, ConnectsType
  <2>2. CASE cli' = NotFound(cli) /\ UNCHANGED conn BY <1>1, <1>7, <2>2 DEF NotFound, Client
  <2> QED BY <2>1, <2>2 DEF DnsAnswer
<1> QED BY <1>1, <1>3, <1>4, <1>6, <1>8, StepKeeps

\* In a tame environment the handshake is the client's and no session is on.
LEMMA HandshakeIs ==
  ASSUME IInv, env = "tame", NEW p \in Pcb, conn[p].st = "syn"
  PROVE  p = cli.pcb /\ cli.state \notin {"IDLE", "READY"} /\ ~was
<1>1. p = cli.pcb /\ conn[p].mq = "none" BY DEF IInv, Safe, Owned, Unsent, Live
<1> QED BY <1>1, PcbType DEF IInv, Safe, Held, Accepted, Noticed

LEMMA HandshakeKeeps == ASSUME IInv, NEW p \in Pcb, Handshake(p) PROVE IInv'
<1> DEFINE n == [conn[p] EXCEPT !.st = "est"]
           k == [conn EXCEPT ![p] = n]
<1>0. TypeOK /\ cli \in Client /\ conn \in Blocks /\ conn[p] \in Block BY Ranges DEF IInv, Blocks
<1>1. n \in Block /\ n.st = "est" /\ n.to = conn[p].to /\ n.mq = conn[p].mq
  BY <1>0 DEF Block, Live
<1>2. k = [conn EXCEPT ![p].st = "est"] BY <1>0 DEF Blocks
<1>3. /\ conn[p].st = "syn" /\ UNCHANGED lookups /\ Callback /\ (Fault \/ NoFault)
      /\ cli' = [cli EXCEPT !.state = "CONNECT", !.keep = 0, !.ping = 0]
      /\ \/ conn' = (IF cli.pcb = NULL THEN k ELSE Sent(k, cli.pcb, TRUE))
         \/ conn' = k
  BY <1>2 DEF Handshake, Shaking
<1> HIDE DEF n
<1>4. k \in Blocks /\ k[p] = n /\ \A q \in Pcb : q # p => k[q] = conn[q]
  BY <1>0, <1>1 DEF Blocks
<1> HIDE DEF k
<1>5. 0 \in 0 .. PingDrop /\ 0 \in 0 .. KeepCap BY Caps, TimersAssumption, SMT
<1>6. /\ cli' \in Client /\ cli'.state = "CONNECT" /\ cli'.pcb = cli.pcb
      /\ cli'.enabled = cli.enabled /\ cli'.host = cli.host
  BY <1>0, <1>3, <1>5 DEF Client
<1>7. conn' \in Blocks
  <2>1. ASSUME cli.pcb # NULL PROVE Sent(k, cli.pcb, TRUE) \in Blocks
    <3>1. cli.pcb \in Pcb BY <1>0, <2>1 DEF Client
    <3> QED BY <1>4, <3>1, SentType
  <2> QED BY <1>3, <1>4, <2>1
<1>8. ASSUME env = "tame" PROVE Safe(cli', conn') /\ ~was
  <2>1. p = cli.pcb /\ cli.state # "IDLE" /\ ~was BY <1>3, <1>8, HandshakeIs
  <2>2. cli.pcb # NULL BY <2>1, PcbType
  <2>3. Owned(cli', k) BY <1>1, <1>4, <1>6, <1>8, <2>1, <1>3 DEF IInv, Safe, Owned, Live
  <2>4. Unsent(k) BY <1>1, <1>4, <1>8 DEF IInv, Safe, Unsent
  <2>5. Safe(cli', k)
    BY <1>1, <1>4, <1>6, <2>1, <2>2, <2>3, <2>4 DEF Safe, Open, Held, Accepted, Live
  <2>6. k[cli'.pcb].st # "syn" BY <1>1, <1>4, <1>6, <2>1
  <2>7. Safe(cli', Sent(k, cli'.pcb, TRUE)) BY <1>4, <1>6, <2>2, <2>5, <2>6, SentSafe
  <2> QED BY <1>3, <1>6, <2>1, <2>2, <2>5, <2>7
<1> QED BY <1>3, <1>6, <1>7, <1>8, CallbackKeeps

\* In a tame environment the broker answers the client's own connection, once.
LEMMA ConnAckIs ==
  ASSUME IInv, env = "tame", NEW p \in Pcb, OwesAck(p)
  PROVE  p = cli.pcb /\ cli.state \notin {"IDLE", "READY"} /\ ~was
<1>1. p = cli.pcb /\ conn[p].mq = "asked" BY DEF IInv, Safe, Owned, Live, OwesAck
<1> QED BY <1>1, PcbType DEF IInv, Safe, Held, Accepted, Noticed

LEMMA ConnAckKeeps == ASSUME IInv, NEW p \in Pcb, ConnAck(p) PROVE IInv'
<1>0. /\ TypeOK /\ cli \in Client /\ conn \in Blocks
      /\ UNCHANGED lookups /\ Callback /\ (Fault \/ NoFault) /\ OwesAck(p)
  BY Ranges DEF IInv, ConnAck
<1>1. CASE /\ cli' = [cli EXCEPT !.state = "READY"]
           /\ conn' = [q \in Pcb |->
                IF q = p THEN [conn[q] EXCEPT !.mq = "on"]
                ELSE IF conn[q].mq = "on" /\ conn[q].to = conn[p].to
                THEN [conn[q] EXCEPT !.mq = "out"] ELSE conn[q]]
  <2>1. /\ cli' \in Client /\ cli'.state = "READY" /\ cli'.pcb = cli.pcb
        /\ cli'.enabled = cli.enabled /\ cli'.host = cli.host
    BY <1>0, <1>1 DEF Client
  <2>2. ASSUME NEW q \in Pcb
        PROVE  /\ conn'[q] \in Block /\ conn'[q].st = conn[q].st /\ conn'[q].to = conn[q].to
               /\ q = p => conn'[q].mq = "on"
               /\ q # p => (conn[q].mq = "none" => conn'[q].mq = "none")
    <3>1. conn[q] \in Block BY <1>0 DEF Blocks
    <3>2. CASE q = p
      <4>1. conn'[q] = [conn[q] EXCEPT !.mq = "on"] BY <1>1, <3>2
      <4> QED BY <3>1, <3>2, <4>1 DEF Block
    <3>3. CASE q # p /\ conn[q].mq = "on" /\ conn[q].to = conn[p].to
      <4>1. conn'[q] = [conn[q] EXCEPT !.mq = "out"] BY <1>1, <3>3
      <4> QED BY <3>1, <3>3, <4>1 DEF Block
    <3>4. CASE q # p /\ ~(conn[q].mq = "on" /\ conn[q].to = conn[p].to)
      BY <1>1, <3>1, <3>4
    <3> QED BY <3>2, <3>3, <3>4
  <2>3. conn' \in Blocks BY <1>1, <2>2 DEF Blocks
  <2>4. ASSUME env = "tame" PROVE Safe(cli', conn')
    <3>1. p = cli.pcb /\ p # NULL BY <1>0, <2>4, ConnAckIs, PcbType
    <3>2. conn[p].st # "syn" BY <1>0 DEF OwesAck
    <3>3. Owned(cli', conn') BY <2>1, <2>2, <2>4 DEF IInv, Safe, Owned
    <3>4. Unsent(conn') BY <2>2, <2>4, <3>2 DEF IInv, Safe, Unsent
    <3>5. Accepted(cli', conn') BY <2>1, <2>2, <3>1 DEF Accepted
    <3>6. Open(cli', conn') BY <1>0, <2>1, <2>2, <3>1 DEF Open, OwesAck, Live
    <3> QED BY <2>1, <3>1, <3>3, <3>4, <3>5, <3>6 DEF Safe, Held
  <2> QED BY <1>0, <2>1, <2>3, <2>4, CallbackKeeps
<1>2. CASE cli' = Dropped(cli) /\ conn' = Aborted([conn EXCEPT ![p].mq = "out"], cli.pcb)
  <2> DEFINE n == [conn[p] EXCEPT !.mq = "out"]
             k == [conn EXCEPT ![p] = n]
  <2>1. conn[p] \in Block BY <1>0 DEF Blocks
  <2>2. n \in Block /\ n.st = conn[p].st /\ n.to = conn[p].to /\ n.mq = "out"
    BY <2>1 DEF Block
  <2>3. conn' = Aborted(k, cli.pcb) BY <1>0, <1>2 DEF Blocks
  <2> HIDE DEF n
  <2>4. k \in Blocks /\ k[p] = n /\ \A q \in Pcb : q # p => k[q] = conn[q]
    BY <1>0, <2>2 DEF Blocks
  <2> HIDE DEF k
  <2>5. cli' \in Client /\ cli'.state = "IDLE"
    BY <1>0, <1>2, DroppedType DEF Dropped, Client
  <2>6. conn' \in Blocks BY <1>0, <2>3, <2>4, AbortedType DEF Client
  <2>7. ASSUME env = "tame" PROVE Safe(cli', conn')
    <3>1. cli.state # "READY" BY <1>0, <2>7, ConnAckIs
    <3>2. Owned(cli, k) BY <2>2, <2>4, <2>7 DEF IInv, Safe, Owned
    <3>3. Unsent(k) BY <1>0, <2>2, <2>4, <2>7 DEF IInv, Safe, Unsent, OwesAck
    <3>4. Open(cli, k) BY <1>0, <2>2, <2>4, <2>7 DEF IInv, Safe, Open, Client
    <3>5. Safe(cli, k) BY <2>7, <3>1, <3>2, <3>3, <3>4 DEF IInv, Safe, Accepted
    <3> QED BY <1>0, <1>2, <2>3, <2>4, <3>5, DroppedSafe
  <2> QED BY <1>0, <2>5, <2>6, <2>7, CallbackKeeps
<1> QED BY <1>1, <1>2 DEF ConnAck

LEMMA PongKeeps == ASSUME IInv, NEW p \in Pcb, Pong(p) PROVE IInv'
<1>0. TypeOK /\ cli \in Client /\ conn \in Blocks BY Ranges DEF IInv
<1>1. /\ cli' = [cli EXCEPT !.ping = 0] /\ conn' = Pinged(conn, p, FALSE)
      /\ UNCHANGED lookups /\ Callback /\ NoFault
  BY DEF Pong, Pinged
<1>2. 0 \in 0 .. PingDrop BY TimersAssumption, SMT
<1>3. /\ cli' \in Client /\ cli'.state = cli.state /\ cli'.pcb = cli.pcb
      /\ cli'.enabled = cli.enabled /\ cli'.host = cli.host
  BY <1>0, <1>1, <1>2 DEF Client
<1>4. /\ conn' \in Blocks
      /\ \A q \in Pcb : /\ conn'[q].st = conn[q].st /\ conn'[q].to = conn[q].to
                        /\ conn'[q].mq = conn[q].mq
  BY <1>0, <1>1, PingedType
<1>5. env = "tame" => Safe(cli', conn') BY <1>0, <1>3, <1>4, SameSafe DEF IInv
<1> QED BY <1>1, <1>3, <1>4, <1>5, CallbackKeeps DEF IInv, Noticed

\* A connection of the client that ends leaves it idle, with nothing open.
LEMMA LostSafe ==
  ASSUME NEW c \in Client, NEW k \in Blocks, Safe(c, k), NEW n, n.st \notin Live
  PROVE  /\ c.pcb # NULL => Safe(Dropped(c), [k EXCEPT ![c.pcb] = n])
         /\ \A p \in Pcb : p # c.pcb => Safe(c, [k EXCEPT ![p] = n])
<1> DEFINE j(p) == [k EXCEPT ![p] = n]
<1>1. \A p \in Pcb : \A q \in Pcb : j(p)[q] = IF q = p THEN n ELSE k[q] BY DEF Blocks
<1> HIDE DEF j
<1>2. Dropped(c).state = "IDLE" /\ Dropped(c).pcb = NULL BY DEF Dropped, Client
<1>3. ASSUME c.pcb # NULL PROVE Safe(Dropped(c), j(c.pcb))
  <2>1. c.pcb \in Pcb BY <1>3 DEF Client
  <2>2. \A q \in Pcb : j(c.pcb)[q].st \notin Live BY <1>1, <2>1 DEF Safe, Owned
  <2>3. Unsent(j(c.pcb)) BY <2>2 DEF Unsent, Live
  <2> QED BY <1>2, <2>2, <2>3, IdleSafe
<1>4. ASSUME NEW p \in Pcb, p # c.pcb PROVE Safe(c, j(p))
  <2>1. Owned(c, j(p)) BY <1>1 DEF Safe, Owned
  <2>2. Unsent(j(p)) BY <1>1 DEF Safe, Unsent, Live
  <2>3. c.state = "READY" => c.pcb \in Pcb BY DEF Safe, Held, Client
  <2>4. Accepted(c, j(p)) BY <1>1, <1>4, <2>3 DEF Safe, Accepted
  <2>5. Open(c, j(p)) BY <1>1, <1>4 DEF Safe, Open, Client
  <2> QED BY <2>1, <2>2, <2>4, <2>5 DEF Safe
<1> QED BY <1>3, <1>4 DEF j

LEMMA ClosedKeeps == ASSUME IInv, NEW p \in Pcb, Closed(p) PROVE IInv'
<1> DEFINE n == [Free EXCEPT !.st = "closing", !.to = conn[p].to]
<1>0. TypeOK /\ cli \in Client /\ conn \in Blocks /\ conn[p] \in Block BY Ranges DEF IInv, Blocks
<1>1. /\ conn' = [conn EXCEPT ![p] = n] /\ UNCHANGED lookups /\ Callback /\ (Fault \/ NoFault)
      /\ cli' = IF cli.pcb = p THEN Dropped(cli) ELSE cli
  BY DEF Closed
<1>2. Free \in Block BY <1>0, FreeType DEF Block
<1>3. n \in Block /\ n.st = "closing" BY <1>0, <1>2 DEF Block
<1> HIDE DEF n
<1>4. conn' \in Blocks BY <1>0, <1>1, <1>3 DEF Blocks
<1>5. cli' \in Client BY <1>0, <1>1, DroppedType
<1>6. n.st \notin Live BY <1>3 DEF Live
<1>7. env = "tame" => Safe(cli', conn')
  <2>1. CASE cli.pcb = p
    <3>1. cli.pcb # NULL BY <2>1, PcbType
    <3> QED BY <1>0, <1>1, <1>6, <2>1, <3>1, LostSafe DEF IInv
  <2>2. CASE cli.pcb # p BY <1>0, <1>1, <1>6, <2>2, LostSafe DEF IInv
  <2> QED BY <2>1, <2>2
<1>8. cli'.state \in {cli.state, "IDLE"} BY <1>0, <1>1 DEF Dropped, Client
<1> QED BY <1>1, <1>4, <1>5, <1>7, <1>8, CallbackKeeps DEF IInv, Noticed

LEMMA LastAckKeeps == ASSUME IInv, NEW p \in Pcb, LastAck(p) PROVE IInv'
<1>0. TypeOK /\ cli \in Client /\ conn \in Blocks /\ conn[p] \in Block BY Ranges DEF IInv, Blocks
<1>1. /\ conn' = [conn EXCEPT ![p] = Free] /\ UNCHANGED <<cli, lookups>> /\ Callback /\ NoFault
      /\ conn[p].st = "closing"
  BY DEF LastAck
<1>2. Free \in Block /\ Free.st = "free" BY <1>0, FreeType DEF Block
<1>3. conn' \in Blocks BY <1>0, <1>1, <1>2 DEF Blocks
<1>4. Free.st \notin Live BY <1>2 DEF Live
<1>5. ASSUME env = "tame" PROVE Safe(cli, conn')
  <2>1. cli.pcb # p BY <1>1, <1>5, PcbType DEF IInv, Safe, Open, Live
  <2> QED BY <1>0, <1>1, <1>4, <1>5, <2>1, LostSafe DEF IInv
<1> QED BY <1>0, <1>1, <1>3, <1>5, CallbackKeeps DEF IInv, Noticed

LEMMA ErrKeeps == ASSUME IInv, NEW p \in Pcb, Err(p) PROVE IInv'
<1>0. TypeOK /\ cli \in Client /\ conn \in Blocks /\ conn[p] \in Block BY Ranges DEF IInv, Blocks
<1>1. /\ conn' = [conn EXCEPT ![p] = Free] /\ UNCHANGED lookups /\ Callback
      /\ cli' = Dropped(cli) /\ (Fault \/ NoFault)
      /\ env = "tame" => conn[p].st \in Live
  BY DEF Err, Live
<1>2. Free \in Block /\ Free.st \notin Live BY <1>0, FreeType DEF Block, Live
<1>3. conn' \in Blocks BY <1>0, <1>1, <1>2 DEF Blocks
<1>4. cli' \in Client /\ cli'.state = "IDLE" BY <1>0, <1>1, DroppedType DEF Dropped, Client
<1>5. ASSUME env = "tame" PROVE Safe(cli', conn')
  <2>1. cli.pcb = p /\ cli.pcb # NULL BY <1>1, <1>5, PcbType DEF IInv, Safe, Owned
  <2> QED BY <1>0, <1>1, <1>2, <1>5, <2>1, LostSafe DEF IInv
<1> QED BY <1>1, <1>3, <1>4, <1>5, CallbackKeeps

-----------------------------------------------------------------------------
(* The application, the user and the network.                              *)

LEMMA PublishKeeps == ASSUME IInv, Publish PROVE IInv'
<1>0. TypeOK /\ cli \in Client /\ conn \in Blocks /\ cli.pcb \in Pcb /\ cli.pcb # NULL
  BY Ranges DEF IInv, Publish, Client
<1>1. /\ cli.state = "READY" /\ cli' = [cli EXCEPT !.keep = 0]
      /\ conn' = Sent(conn, cli.pcb, FALSE) /\ NoFault /\ Callback /\ UNCHANGED lookups
  BY DEF Publish
<1>2. 0 \in 0 .. KeepCap BY Caps, SMT
<1>3. /\ cli' \in Client /\ cli'.state = cli.state /\ cli'.pcb = cli.pcb
      /\ cli'.enabled = cli.enabled /\ cli'.host = cli.host
  BY <1>0, <1>1, <1>2 DEF Client
<1>4. conn' \in Blocks BY <1>0, <1>1, SentType
<1>5. ASSUME env = "tame" PROVE Safe(cli', conn')
  <2>1. conn[cli.pcb].st # "syn" BY <1>0, <1>1, <1>5 DEF IInv, Safe, Accepted, Unsent
  <2>2. Safe(cli, Sent(conn, cli.pcb, FALSE)) BY <1>0, <1>5, <2>1, SentSafe DEF IInv
  <2>3. Safe(cli, conn') BY <1>1, <2>2
  <2> QED BY <1>0, <1>3, <2>3, SameSafe
<1> QED BY <1>1, <1>3, <1>4, <1>5, CallbackKeeps

\* Start and Stop give the client's block up and leave it idle.
LEMMA IdleKeeps ==
  ASSUME IInv, cli' \in Client, cli'.state = "IDLE", cli'.pcb = NULL,
         conn' = Aborted(conn, cli.pcb), was' = FALSE, Fault, UNCHANGED <<lookups, net, env>>
  PROVE  IInv'
<1>0. /\ TypeOK /\ cli \in Client /\ conn \in Blocks /\ lookups' \in [Hosts -> 0 .. MaxLookups]
      /\ net' \in BOOLEAN /\ env' \in {"tame", "wild"}
      /\ env' = "tame" => env = "tame" /\ \A h \in Hosts : lookups'[h] = 0
  BY Ranges DEF IInv, NoLookups
<1>1. faults' \in 0 .. MaxFaults BY <1>0, FaultType
<1>2. conn' \in Blocks BY <1>0, AbortedType DEF Client
<1>3. env = "tame" => Safe(cli', conn') BY <1>0, AbortedClean, IdleSafe DEF IInv
<1> QED BY <1>0, <1>1, <1>2, <1>3, StepKeeps

LEMMA StartKeeps == ASSUME IInv, NEW h \in Hosts, Start(h) PROVE IInv'
<1>1. 0 \in 0 .. Reconnect /\ cli \in Client BY TimersAssumption, Ranges, SMT DEF IInv
<1>2. cli' = [cli EXCEPT !.enabled = TRUE, !.state = "IDLE", !.wait = 0,
                         !.host = h, !.pcb = NULL]
  BY DEF Start
<1>3. cli' \in Client /\ cli'.state = "IDLE" /\ cli'.pcb = NULL BY <1>1, <1>2 DEF Client
<1> QED BY <1>3, IdleKeeps DEF Start

LEMMA StopKeeps == ASSUME IInv, Stop PROVE IInv'
<1>1. cli \in Client BY Ranges DEF IInv
<1>2. cli' = [cli EXCEPT !.enabled = FALSE, !.state = "IDLE", !.pcb = NULL] BY DEF Stop
<1>3. cli' \in Client /\ cli'.state = "IDLE" /\ cli'.pcb = NULL BY <1>1, <1>2 DEF Client
<1> QED BY <1>3, IdleKeeps DEF Stop

LEMMA ForgetKeeps == ASSUME IInv, NEW p \in Pcb, Forget(p) PROVE IInv'
<1> DEFINE n == [conn[p] EXCEPT !.st = "dead", !.png = FALSE]
<1>0. /\ TypeOK /\ cli \in Client /\ conn \in Blocks /\ conn[p] \in Block
      /\ lookups \in [Hosts -> 0 .. MaxLookups] /\ was \in BOOLEAN /\ net \in BOOLEAN
      /\ env \in {"tame", "wild"}
  BY Ranges DEF IInv, Blocks
<1>1. conn' = [conn EXCEPT ![p] = n] /\ conn[p].st = "est" /\ Fault
      /\ UNCHANGED <<cli, was, lookups, net, env>>
  BY <1>0 DEF Forget, Blocks
<1>2. n \in Block /\ n.st = "dead" /\ n.to = conn[p].to /\ n.mq = conn[p].mq
  BY <1>0 DEF Block, Live
<1> HIDE DEF n
<1>3. conn' \in Blocks /\ conn'[p] = n /\ \A q \in Pcb : q # p => conn'[q] = conn[q]
  BY <1>0, <1>1, <1>2 DEF Blocks
<1>4. ASSUME env = "tame" PROVE Safe(cli, conn')
  <2>1. Owned(cli, conn') BY <1>1, <1>2, <1>3, <1>4 DEF IInv, Safe, Owned, Live
  <2>2. Unsent(conn') BY <1>2, <1>3, <1>4 DEF IInv, Safe, Unsent
  <2>3. cli.pcb \in Pcb \cup {NULL} BY <1>0 DEF Client
  <2>4. Open(cli, conn') BY <1>2, <1>3, <1>4, <2>3 DEF IInv, Safe, Open, Live
  <2>5. cli.state = "READY" => cli.pcb # NULL BY <1>4 DEF IInv, Safe, Held
  <2>6. Accepted(cli, conn') BY <1>2, <1>3, <1>4, <2>3, <2>5 DEF IInv, Safe, Accepted
  <2> QED BY <1>4, <2>1, <2>2, <2>4, <2>6 DEF IInv, Safe
<1>5. faults' \in 0 .. MaxFaults BY <1>0, <1>1, FaultType
<1>6. env = "tame" => \A h \in Hosts : lookups[h] = 0 BY DEF IInv, NoLookups
<1> QED BY <1>0, <1>1, <1>3, <1>4, <1>5, <1>6, StepKeeps DEF IInv, Noticed

\* What leaves the client and its connections alone.
LEMMA RestKeeps == ASSUME IInv, NetDown \/ NetUp \/ Calm PROVE IInv'
<1>1. UNCHANGED <<cli, was, conn, lookups, env>> BY DEF NetDown, NetUp, Calm
<1>2. net' \in BOOLEAN BY Zenon DEF IInv, TypeOK, NetDown, NetUp, Calm
<1>3. 0 \in 0 .. MaxFaults BY BoundsAssumption, SMT
<1>4. faults' \in 0 .. MaxFaults
  BY <1>3, FaultType, Zenon DEF IInv, TypeOK, NetDown, NetUp, Calm
<1>5. TypeOK' BY <1>1, <1>2, <1>4 DEF IInv, TypeOK
<1> QED BY <1>1, <1>5 DEF IInv, Safe, Owned, Open, Held, Accepted, Unsent, NoLookups, Noticed

LEMMA InitKeeps == Init => IInv
<1> SUFFICES ASSUME Init PROVE IInv OBVIOUS
<1>1. /\ 0 \in 0 .. Reconnect /\ 0 \in 0 .. PingDrop /\ 0 \in 0 .. KeepCap
      /\ 0 \in 0 .. MaxLookups /\ MaxFaults \in 0 .. MaxFaults
  BY Caps, TimersAssumption, BoundsAssumption, SMT
<1>2. PICK h \in Hosts : cli = [state |-> "IDLE", enabled |-> TRUE, host |-> h, pcb |-> NULL,
                                keep |-> 0, wait |-> 0, ping |-> 0]
  BY DEF Init
<1>3. cli \in Client /\ cli.state = "IDLE" /\ cli.pcb = NULL BY <1>1, <1>2 DEF Client
<1>4. Free \in Block /\ Free.st \notin Live /\ Free.st # "syn" BY FreeType DEF Live
<1>5. conn = [p \in Pcb |-> Free] /\ lookups = [h_1 \in Hosts |-> 0] /\ was = FALSE
      /\ net = TRUE /\ faults = MaxFaults /\ env \in {"tame", "wild"}
  BY DEF Init
<1>6. conn \in Blocks /\ lookups \in [Hosts -> 0 .. MaxLookups] BY <1>1, <1>4, <1>5 DEF Blocks
<1>7. TypeOK BY <1>1, <1>3, <1>5, <1>6 DEF TypeOK, Client, Blocks, Block
<1>8. Safe(cli, conn) BY <1>3, <1>4, <1>5, IdleSafe DEF Unsent
<1> QED BY <1>5, <1>7, <1>8 DEF IInv, NoLookups, Noticed

LEMMA NextKeeps == IInv /\ [Next]_vars => IInv'
<1> SUFFICES ASSUME IInv, [Next]_vars PROVE IInv' OBVIOUS
<1>1. CASE Tick BY <1>1, TickKeeps
<1>2. CASE Publish BY <1>2, PublishKeeps
<1>3. CASE Stop BY <1>3, StopKeeps
<1>4. CASE NetDown \/ NetUp \/ Calm BY <1>4, RestKeeps
<1>5. CASE \E h \in Hosts : DnsAnswer(h) \/ Start(h) BY <1>5, DnsAnswerKeeps, StartKeeps
<1>6. CASE \E p \in Pcb : Handshake(p) \/ ConnAck(p) \/ Pong(p) \/ Closed(p)
                          \/ LastAck(p) \/ Err(p) \/ Forget(p)
  BY <1>6, HandshakeKeeps, ConnAckKeeps, PongKeeps, ClosedKeeps, LastAckKeeps, ErrKeeps,
     ForgetKeeps
<1>7. CASE UNCHANGED vars
  <2>1. UNCHANGED <<cli, was, conn, lookups, net, faults, env>> BY <1>7 DEF vars
  <2>2. TypeOK' BY <2>1 DEF IInv, TypeOK
  <2> QED BY <2>1, <2>2
      DEF IInv, Safe, Owned, Open, Held, Accepted, Unsent, NoLookups, Noticed
<1> QED BY <1>1, <1>2, <1>3, <1>4, <1>5, <1>6, <1>7 DEF Next

LEMMA Inductive == Spec => []IInv
BY InitKeeps, NextKeeps, PTL DEF Spec

-----------------------------------------------------------------------------
(* The results.                                                            *)

\* Every timer, block and counter of the client stays in its range.
THEOREM TypeCorrect == Spec => []TypeOK
<1>1. IInv => TypeOK BY DEF IInv
<1> QED BY <1>1, Inductive, PTL

\* However callbacks, timers, restarts and failures of the network interleave, the
\* client of a literal broker never holds two connections, loses none, and is READY
\* only in a session a broker accepted (mqtt_client.c:816 and the callbacks above it).
THEOREM Single == Spec => []SingleConnection
<1>1. IInv => SingleConnection
  BY DEF IInv, SingleConnection, Safe, Owned, Held, Accepted
<1> QED BY <1>1, Inductive, PTL

LEMMA SessionStep == IInv /\ IInv' /\ [Next]_vars => [Session!SessionNext]_Session!sessionVars
<1> SUFFICES ASSUME IInv, IInv', [Next]_vars
             PROVE  [Session!SessionNext]_Session!sessionVars
  OBVIOUS
<1> USE DEF Session!SessionNext, Session!sessionVars
<1>0. env' = env BY DEF Next, vars, Calm, Tick, Publish, Stop, NetDown, NetUp, DnsAnswer,
        Start, Handshake, ConnAck, Pong, Closed, LastAck, Err, Forget, Callback
<1>1. CASE env # "tame" BY <1>0, <1>1
<1>2. CASE env = "tame"
  <2>0. env' = "tame" /\ cli \in Client /\ was \in BOOLEAN BY <1>0, <1>2, Ranges DEF IInv
  <2>1. CASE Tick
    <3>1. cli'.state = "READY" => cli.state = "READY"
      BY <1>2, <2>1, TickIdleKeeps, TickReadyKeeps, TickGuardKeeps DEF Tick, TickReady
    <3>2. Session!SessionTick
      BY <1>2, <2>0, <2>1, <3>1, Zenon DEF Session!SessionTick, Tick, WasConnected
    <3> QED BY <3>2
  <2>2. ASSUME NEW p \in Pcb, Handshake(p) PROVE [Session!SessionNext]_Session!sessionVars
    <3>1. cli.state # "READY" /\ ~was
      BY <1>2, <2>2, HandshakeIs DEF Handshake, Shaking
    <3>2. cli'.state # "READY" /\ was' = was BY <2>0, <2>2 DEF Handshake, Callback, Client
    <3> QED BY <3>1, <3>2
  <2>3. ASSUME NEW p \in Pcb, ConnAck(p) PROVE [Session!SessionNext]_Session!sessionVars
    <3>1. cli.state # "READY" /\ ~was BY <1>2, <2>3, ConnAckIs DEF ConnAck
    <3>2. was' = was BY <2>3 DEF ConnAck, Callback
    <3>3. CASE cli'.state = "READY"
      BY <1>2, <2>0, <3>1, <3>2, <3>3 DEF Session!Accept
    <3>4. CASE cli'.state # "READY" BY <3>1, <3>2, <3>4
    <3> QED BY <3>3, <3>4
  <2>4. ASSUME NEW p \in Pcb, Closed(p) \/ Err(p) PROVE [Session!SessionNext]_Session!sessionVars
    <3>1. was' = was /\ cli'.state \in {cli.state, "IDLE"}
      BY <2>0, <2>4 DEF Closed, Err, Callback, Dropped, Client
    <3> QED BY <1>2, <2>0, <3>1 DEF Session!Lose
  <2>5. CASE Stop \/ \E h \in Hosts : Start(h)
    <3>1. cli'.state # "READY" /\ was' = FALSE BY <2>0, <2>5 DEF Start, Stop, Client
    <3> QED BY <3>1 DEF Session!Restart
  <2>6. CASE \/ Calm \/ NetDown \/ NetUp \/ Publish \/ UNCHANGED vars
             \/ \E p \in Pcb : Pong(p) \/ LastAck(p) \/ Forget(p)
    <3>1. cli'.state = cli.state /\ was' = was
      BY <2>0, <2>6 DEF Calm, NetDown, NetUp, Publish, Pong, LastAck, Forget, Callback,
         Client, vars
    <3> QED BY <2>0, <1>2, <3>1
  <2>7. ASSUME NEW h \in Hosts, DnsAnswer(h) PROVE FALSE
    BY <1>2, <2>7, SMT DEF DnsAnswer, IInv, NoLookups
  <2> QED BY <2>1, <2>2, <2>3, <2>4, <2>5, <2>6, <2>7 DEF Next
<1> QED BY <1>1, <1>2

\* The client keeps its promise to the product: no CONNACK, late answer or restart
\* begins a session before the tick has noticed that the last one has ended, so that
\* mqtt_app.c:169 announces every one.
THEOREM Refines == Spec => KeepsSession
<1>1. Init => Session!SessionInit
  BY DEF Init, Session!SessionInit
<1> QED BY <1>1, Inductive, SessionStep, PTL
    DEF Spec, KeepsSession, Session!SessionSpec
=============================================================================
