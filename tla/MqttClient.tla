----------------------------- MODULE MqttClient -----------------------------
(***************************************************************************)
(* The MQTT client of iot_foundation/mqtt_client.c over the callbacks of   *)
(* lwIP, with the glue of mqtt_app.c that starts it and watches it.        *)
(*                                                                         *)
(* The callbacks act on the one client g_sCli and never ask which          *)
(* connection or which DNS request they belong to.  The environment is     *)
(* what makes that matter: in a "tame" one the broker is an IP literal and *)
(* a closed connection is acknowledged; in a "wild" one the broker is a    *)
(* name whose lookup may be answered late, and a connection that the       *)
(* client has closed may still report an error.                            *)
(***************************************************************************)
EXTENDS Integers, FiniteSets

CONSTANTS
  Pcbs,        \* number of TCP control blocks of lwIP
  Hosts,       \* brokers the user may configure
  Reconnect,   \* MQTT_RECONNECT_MS, in ticks
  Guard,       \* the 10 s a connection attempt may take, in ticks
  PingAt,      \* half of the keep-alive interval, in ticks
  PingDrop,    \* the wait for a PINGRESP, in ticks
  Rtt,         \* ticks a TCP handshake takes
  MaxLookups,  \* lookups that may be outstanding
  MaxFaults    \* how often the network, the broker or the user interferes

ASSUME TimersAssumption ==
  /\ Reconnect \in Nat \ {0} /\ Guard \in Nat \ {0} /\ Rtt \in Nat
  /\ PingAt \in Nat \ {0} /\ PingDrop \in Nat \ {0}
ASSUME BoundsAssumption ==
  Pcbs \in Nat \ {0, 1} /\ MaxLookups \in Nat \ {0} /\ MaxFaults \in Nat

VARIABLES
  cli,      \* g_sCli
  was,      \* g_bWasConnected
  conn,     \* the control blocks of lwIP and the broker's end of each
  lookups,  \* outstanding DNS requests per host name
  net,      \* whether packets get through
  faults,   \* interferences left
  env       \* "tame" or "wild"

vars == <<cli, was, conn, lookups, net, faults, env>>

Pcb == 1 .. Pcbs
NULL == 0

Fault == faults > 0 /\ faults' = faults - 1
NoFault == UNCHANGED faults

\* Counters stop where no comparison tells larger values apart.
KeepCap == IF Guard > PingAt THEN Guard + 1 ELSE PingAt + 1
Capped(n, cap) == IF n > cap THEN cap ELSE n

Free == [st |-> "free", to |-> CHOOSE h \in Hosts : TRUE, mq |-> "none",
         png |-> FALSE, age |-> 0]
Live == {"syn", "est", "dead", "lost"}

TypeOK ==
  /\ cli \in [state : {"IDLE", "DNS", "TCP", "CONNECT", "READY"}, enabled : BOOLEAN,
              host : Hosts, pcb : Pcb \cup {NULL}, keep : 0 .. KeepCap,
              wait : 0 .. Reconnect, ping : 0 .. PingDrop]
  /\ conn \in [Pcb -> [st : Live \cup {"free", "closing"}, to : Hosts,
                       mq : {"none", "asked", "on", "out"}, png : BOOLEAN,
                       age : 0 .. Rtt]]
  /\ lookups \in [Hosts -> 0 .. MaxLookups]
  /\ was \in BOOLEAN /\ net \in BOOLEAN
  /\ faults \in 0 .. MaxFaults /\ env \in {"tame", "wild"}

Init ==
  /\ cli \in {[state |-> "IDLE", enabled |-> TRUE, host |-> h, pcb |-> NULL,
               keep |-> 0, wait |-> 0, ping |-> 0] : h \in Hosts}
  /\ was = FALSE /\ net = TRUE
  /\ conn = [p \in Pcb |-> Free]
  /\ lookups = [h \in Hosts |-> 0]
  /\ faults = MaxFaults
  /\ env \in {"tame", "wild"}

-----------------------------------------------------------------------------
(* Pieces of the handlers.  c is a client, k the control blocks.           *)

\* The assignments that end an attempt or a session.
Dropped(c) == [c EXCEPT !.state = "IDLE", !.pcb = NULL, !.wait = Reconnect]

\* tcp_abort of the client's connection: lwIP frees the block at once.
Aborted(k, p) == IF p = NULL THEN k ELSE [k EXCEPT ![p] = Free]

\* MQTTSendRaw; data for a peer that is gone will be retransmitted in vain.  The
\* first packet of a connection must be a CONNECT, and no other one may be.
Sent(k, p, isConnect) ==
  [k EXCEPT ![p].st = IF k[p].st = "dead" THEN "lost" ELSE k[p].st,
            ![p].mq = IF isConnect THEN (IF k[p].mq = "none" THEN "asked" ELSE "out")
                      ELSE (IF k[p].mq = "none" THEN "out" ELSE k[p].mq)]

\* MQTTDNSFoundCB with an address: a new block replaces the client's, whatever
\* that is.  When none is free, lwIP aborts one that has been idle to make room.
Connects(c, k, h) ==
  \/ \E p \in Pcb :
       /\ \A q \in Pcb : k[q].st = "free" => k[p].st = "free" /\ p <= q
       /\ p # c.pcb
       /\ cli' = [c EXCEPT !.state = "TCP", !.pcb = p]
       /\ conn' = [k EXCEPT ![p] = [Free EXCEPT !.st = "syn", !.to = h]]
  \/ /\ ~net                                             \* tcp_connect fails
     /\ cli' = Dropped(c)
     /\ conn' = k

\* MQTTDNSFoundCB without an address leaves the block as it is.
NotFound(c) == [c EXCEPT !.state = "IDLE", !.wait = Reconnect]

-----------------------------------------------------------------------------
(* MQTTAppTick: the timers of the client, then the connect edge.           *)

\* MQTTTryConnect: a literal connects, a name is looked up.
TryConnect(c, k) ==
  \/ env = "tame" /\ Connects(c, k, c.host) /\ UNCHANGED lookups
  \/ /\ env = "wild" /\ lookups[c.host] < MaxLookups
     /\ lookups' = [lookups EXCEPT ![c.host] = lookups[c.host] + 1]
     /\ cli' = [c EXCEPT !.state = "DNS"]
     /\ conn' = k
  \/ /\ env = "wild" /\ lookups[c.host] = MaxLookups
     /\ cli' = NotFound(c)
     /\ conn' = k /\ UNCHANGED lookups

\* Bug: the wait is counted down before it is compared.
BugTickIdleUnderflows(k) ==
  /\ cli.state = "IDLE"
  /\ \/ /\ cli.enabled /\ cli.wait = 1
        /\ TryConnect([cli EXCEPT !.wait = 0], k)
     \/ /\ cli.enabled /\ cli.wait # 1
        /\ cli' = [cli EXCEPT !.wait = cli.wait - 1]
        /\ conn' = k /\ UNCHANGED lookups
     \/ /\ ~cli.enabled
        /\ conn' = k /\ UNCHANGED <<cli, lookups>>

TickIdle(k) ==
  /\ cli.state = "IDLE"
  /\ \/ /\ cli.enabled /\ cli.wait <= 1
        /\ TryConnect([cli EXCEPT !.wait = 0], k)
     \/ /\ cli.enabled /\ cli.wait > 1
        /\ cli' = [cli EXCEPT !.wait = cli.wait - 1]
        /\ conn' = k /\ UNCHANGED lookups
     \/ /\ ~cli.enabled
        /\ conn' = k /\ UNCHANGED <<cli, lookups>>

\* A ping when nothing was sent for a while; the link is dropped when no answer
\* comes.  The wait starts at one and counts the tick it starts in.  It starts also when
\* the ping does not go: lwIP has no memory for it.
TickReady(k, goes) ==
  /\ cli.state = "READY"
  /\ UNCHANGED lookups
  /\ LET due  == cli.keep + 1 >= PingAt
         sent == due /\ cli.pcb # NULL /\ goes
         ping == IF due /\ cli.ping = 0 THEN 1 ELSE cli.ping
         late == ping # 0 /\ ping + 1 > PingDrop
         keep == IF sent THEN 0 ELSE Capped(cli.keep + 1, KeepCap)
         j    == IF sent THEN [Sent(k, cli.pcb, FALSE) EXCEPT ![cli.pcb].png = TRUE] ELSE k
     IN \/ /\ late
           /\ cli' = Dropped([cli EXCEPT !.keep = keep, !.ping = PingDrop])
           /\ conn' = Aborted(j, cli.pcb)
        \/ /\ ~late
           /\ cli' = [cli EXCEPT !.keep = keep, !.ping = IF ping = 0 THEN 0 ELSE ping + 1]
           /\ conn' = j

\* Bug: the guard ends with the TCP handshake.
BugGuardNotForConnect(k) ==
  /\ cli.state \in {"DNS", "TCP", "CONNECT"}
  /\ UNCHANGED lookups
  /\ LET c == [cli EXCEPT !.keep = Capped(cli.keep + 1, KeepCap)]
         over == c.keep > Guard /\ cli.state # "CONNECT"
     IN \/ over /\ cli' = Dropped(c) /\ conn' = Aborted(k, cli.pcb)
        \/ ~over /\ cli' = c /\ conn' = k

\* The guard against an attempt that never completes.
TickGuard(k) ==
  /\ cli.state \in {"DNS", "TCP", "CONNECT"}
  /\ UNCHANGED lookups
  /\ LET c == [cli EXCEPT !.keep = Capped(cli.keep + 1, KeepCap)]
     IN \/ c.keep > Guard /\ cli' = Dropped(c) /\ conn' = Aborted(k, cli.pcb)
        \/ c.keep <= Guard /\ cli' = c /\ conn' = k

\* A network that is up completes a handshake Rtt ticks after it was begun,
\* and a broker answers before the client's patience ends.  A lookup may take for
\* ever, but when nothing interferes any more it is answered before the next.
Shaking(p) == net /\ conn[p].st = "syn" /\ conn[p].age = Rtt
OwesAck(p) == net /\ conn[p].st = "est" /\ conn[p].mq = "asked"
OwesPong(p) == net /\ conn[p].st = "est" /\ conn[p].png
Timely ==
  /\ (net /\ faults = 0 /\ cli.state = "IDLE" /\ cli.wait <= 1)
        => \A h \in Hosts : lookups[h] = 0
  /\ \A p \in Pcb :
    /\ ~Shaking(p)
    /\ OwesAck(p) => ~(cli.state = "CONNECT" /\ cli.keep >= Guard)
    /\ OwesPong(p) => ~(cli.state = "READY" /\ cli.ping >= PingDrop)

Aged == [p \in Pcb |-> IF conn[p].st = "syn" /\ conn[p].age < Rtt
                       THEN [conn[p] EXCEPT !.age = conn[p].age + 1] ELSE conn[p]]

\* Bug: the edge is latched, the loss of the session is never noted.
BugWasConnectedLatches == was \/ cli'.state = "READY"

\* MQTTAppTick keeps the state that the client's tick leaves for the next edge.
WasConnected == cli'.state = "READY"

Tick ==
  /\ Timely
  /\ \/ (TickIdle(Aged) \/ TickReady(Aged, TRUE) \/ TickGuard(Aged)) /\ NoFault
     \/ TickReady(Aged, FALSE) /\ cli.keep + 1 >= PingAt /\ Fault
  /\ was' = WasConnected
  /\ UNCHANGED <<net, env>>

-----------------------------------------------------------------------------
(* Callbacks of lwIP.  p is the connection, which none of them looks at    *)
(* except the closing one.                                                 *)

Callback == UNCHANGED <<was, net, env>>
\* MQTTDNSFoundCB, in whatever state the client is by now.
DnsAnswer(h) ==
  /\ lookups[h] > 0
  /\ lookups' = [lookups EXCEPT ![h] = lookups[h] - 1]
  /\ \/ net /\ Connects(cli, conn, h)
     \/ ~net /\ cli' = NotFound(cli) /\ UNCHANGED conn
  /\ NoFault /\ Callback

\* MQTTConnectedCB: the CONNECT goes out on the client's block.
Handshake(p) ==
  /\ Shaking(p)
  /\ cli' = [cli EXCEPT !.state = "CONNECT", !.keep = 0, !.ping = 0]
  /\ LET k == [conn EXCEPT ![p].st = "est"]
     IN \/ conn' = (IF cli.pcb = NULL THEN k ELSE Sent(k, cli.pcb, TRUE)) /\ NoFault
        \/ conn' = k /\ Fault                            \* tcp_write fails
  /\ Callback /\ UNCHANGED lookups

\* MQTTRecvCB with a CONNACK.  A broker lets a new session replace the old one
\* of the same client identifier.
ConnAck(p) ==
  /\ OwesAck(p)
  /\ \/ /\ cli' = [cli EXCEPT !.state = "READY"]
        /\ conn' = [q \in Pcb |->
             IF q = p THEN [conn[q] EXCEPT !.mq = "on"]
             ELSE IF conn[q].mq = "on" /\ conn[q].to = conn[p].to
             THEN [conn[q] EXCEPT !.mq = "out"] ELSE conn[q]]
        /\ NoFault
     \/ /\ cli' = Dropped(cli)                           \* refused
        /\ conn' = Aborted([conn EXCEPT ![p].mq = "out"], cli.pcb)
        /\ Fault
  /\ Callback /\ UNCHANGED lookups

\* MQTTRecvCB with a PINGRESP.
Pong(p) ==
  /\ OwesPong(p)
  /\ cli' = [cli EXCEPT !.ping = 0]
  /\ conn' = [conn EXCEPT ![p].png = FALSE]
  /\ NoFault /\ Callback /\ UNCHANGED lookups

\* MQTTRecvCB without data: the broker has closed.  It does so when the protocol
\* or another session demands it, and when nothing is sent for too long, as on a
\* connection that the client no longer holds.
Unwanted(p) == conn[p].mq \in {"none", "out"} \/ p # cli.pcb
Closed(p) ==
  /\ net /\ conn[p].st = "est"
  /\ IF Unwanted(p) THEN NoFault ELSE Fault
  /\ cli' = IF cli.pcb = p THEN Dropped(cli) ELSE cli
  /\ conn' = [conn EXCEPT ![p] = [Free EXCEPT !.st = "closing", !.to = conn[p].to]]
  /\ Callback /\ UNCHANGED lookups

\* The broker acknowledges the client's FIN.
LastAck(p) ==
  /\ net /\ conn[p].st = "closing"
  /\ conn' = [conn EXCEPT ![p] = Free]
  /\ NoFault /\ Callback /\ UNCHANGED <<cli, lookups>>

\* MQTTErrCB: a reset, or retransmissions in vain.  A closing connection still
\* has the callback.
Err(p) ==
  /\ \/ conn[p].st = "lost" /\ NoFault
     \/ conn[p].st \in {"syn", "est", "dead"} /\ Fault
     \/ conn[p].st = "closing" /\ env = "wild" /\ Fault
  /\ cli' = Dropped(cli)
  /\ conn' = [conn EXCEPT ![p] = Free]
  /\ Callback /\ UNCHANGED lookups

-----------------------------------------------------------------------------
(* The application, the user and the network.                              *)

\* MQTTClientPublish of some state; when tcp_write fails, nothing changes.
Publish ==
  /\ cli.state = "READY" /\ cli.pcb # NULL
  /\ cli' = [cli EXCEPT !.keep = 0]
  /\ conn' = Sent(conn, cli.pcb, FALSE)
  /\ NoFault /\ Callback /\ UNCHANGED lookups

\* Bug: the new attempt begins without giving up the old connection.
BugStartKeepsConnection(h) ==
  /\ cli' = [cli EXCEPT !.enabled = TRUE, !.state = "IDLE", !.wait = 0,
                        !.host = h, !.pcb = NULL]
  /\ UNCHANGED conn
  /\ was' = FALSE
  /\ Fault /\ UNCHANGED <<lookups, net, env>>

\* MQTTAppStart after a change of the configuration.
Start(h) ==
  /\ cli' = [cli EXCEPT !.enabled = TRUE, !.state = "IDLE", !.wait = 0,
                        !.host = h, !.pcb = NULL]
  /\ conn' = Aborted(conn, cli.pcb)
  /\ was' = FALSE
  /\ Fault /\ UNCHANGED <<lookups, net, env>>

\* MQTTAppStop before a reboot.
Stop ==
  /\ cli' = [cli EXCEPT !.enabled = FALSE, !.state = "IDLE", !.pcb = NULL]
  /\ conn' = Aborted(conn, cli.pcb)
  /\ was' = FALSE
  /\ Fault /\ UNCHANGED <<lookups, net, env>>

\* The network fails; a peer forgets a connection without a word.
NetDown ==
  /\ net /\ net' = FALSE
  /\ Fault /\ UNCHANGED <<cli, was, conn, lookups, env>>

NetUp ==
  /\ ~net /\ net' = TRUE
  /\ UNCHANGED <<cli, was, conn, lookups, faults, env>>

Forget(p) ==
  /\ conn[p].st = "est"
  /\ conn' = [conn EXCEPT ![p].st = "dead", ![p].png = FALSE]
  /\ Fault /\ UNCHANGED <<cli, was, lookups, net, env>>

\* Interference ends.
Calm ==
  /\ faults > 0 /\ faults' = 0
  /\ UNCHANGED <<cli, was, conn, lookups, net, env>>

Next ==
  \/ Calm \/ Tick \/ Publish \/ Stop \/ NetDown \/ NetUp
  \/ \E h \in Hosts : DnsAnswer(h) \/ Start(h)
  \/ \E p \in Pcb : \/ Handshake(p) \/ ConnAck(p) \/ Pong(p) \/ Closed(p)
                    \/ LastAck(p) \/ Err(p) \/ Forget(p)

Spec == Init /\ [][Next]_vars

\* The loop ticks for ever, a network comes back, lwIP and the broker answer.
FairSpec ==
  /\ Spec
  /\ WF_vars(Tick) /\ WF_vars(NetUp) /\ WF_vars(Calm)
  /\ \A h \in Hosts : WF_vars(DnsAnswer(h))
  /\ \A p \in Pcb :
       /\ WF_vars(Handshake(p)) /\ WF_vars(ConnAck(p)) /\ WF_vars(Pong(p))
       /\ WF_vars(LastAck(p))
       /\ WF_vars(Unwanted(p) /\ Closed(p))
       /\ WF_vars(conn[p].st = "lost" /\ Err(p))

-----------------------------------------------------------------------------
(* Properties.                                                             *)

\* What the web UI calls "Connected" is a session: the client's own connection is
\* open and a broker has accepted it.
Connected ==
  /\ cli.state = "READY" /\ cli.pcb # NULL
  /\ conn[cli.pcb].st = "est" /\ conn[cli.pcb].mq = "on"

\* The client of a literal broker has one connection at most (mqtt_client.h:5):
\* whatever is open is the block it holds, is for the broker that is configured
\* and while the client is enabled; and it is READY only in an accepted session.
SingleConnection ==
  env = "tame" =>
    /\ \A p \in Pcb : conn[p].st \in Live =>
         p = cli.pcb /\ cli.enabled /\ conn[p].to = cli.host
    /\ (cli.pcb = NULL) <=> (cli.state = "IDLE")
    /\ cli.state = "READY" => conn[cli.pcb].mq \in {"on", "out"}

\* What the product relies on (MqttSession): no session begins before the loop has
\* noticed that the last one has ended, so that each is announced.
Session == INSTANCE MqttSession WITH
             ready <- env = "tame" /\ cli.state = "READY", was <- env = "tame" /\ was
KeepsSession == Session!SessionSpec

\* Automatic reconnect: once nothing interferes any more, an enabled client is
\* connected for good, whatever stale callbacks it met.
Reconnects == <>[](cli.enabled => Connected)

\* MQTTClientStart begins connecting to the broker it is given (mqtt_client.h:57):
\* where the client settles is the broker that is configured.
AtItsBroker == <>[](cli.enabled => Connected /\ conn[cli.pcb].to = cli.host)
=============================================================================
