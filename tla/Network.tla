------------------------------ MODULE Network ------------------------------
(***************************************************************************)
(* The way to the network: the Wi-Fi roles of the CC35x1 (NetWifi) and the *)
(* SNTP client of both boards (Sntp).  The client knows nothing of the     *)
(* roles: without a link its packets are lost, as Sntp has it.  A          *)
(* behaviour follows one part, the part it has chosen at its start.        *)
(***************************************************************************)
EXTENDS Integers, TLC

CONSTANTS
  MaxFaults, MaxRequests, MaxEvents,                                \* see NetWifi
  Servers, RetryAfter, ReplyAfter, ResyncAfter, MaxLookups,
  NtpFaults                                                         \* MaxFaults of Sntp

\* The bounds may be nothing at all; a timer of SntpTick (sntp_client.c) runs for a tick.
ASSUME BoundsAssumption ==
  /\ MaxFaults \in Nat /\ MaxRequests \in Nat /\ MaxEvents \in Nat
  /\ NtpFaults \in Nat /\ MaxLookups \in Nat
ASSUME TimersAssumption ==
  RetryAfter \in Nat \ {0} /\ ReplyAfter \in Nat \ {0} /\ ResyncAfter \in Nat \ {0}

VARIABLES
  part,                                                             \* what the behaviour follows
  role, sta, ap, ip, todo, creds, had, timing, httpd, req, ev, nwp, lastIp, faults,
  requests, strayed,                                                \* of NetWifi
  st, elapsed, pcb, addr, server, source, lookups, asked, board, main, web,
  ntpFaults                                                         \* of Sntp

wifiVars == <<role, sta, ap, ip, todo, creds, had, timing, httpd, req, ev, nwp, lastIp,
              faults, requests, strayed>>
ntpVars == <<st, elapsed, pcb, addr, server, source, lookups, asked, board, main, web,
             ntpFaults>>
vars == <<part, wifiVars, ntpVars>>

Wifi == INSTANCE NetWifi
Ntp == INSTANCE Sntp WITH faults <- ntpFaults, MaxFaults <- NtpFaults

Init ==
  /\ part \in {"wifi", "sntp"}
  /\ Wifi!Init /\ Ntp!Init
  /\ part = "wifi" \/ creds = "none"
  /\ part = "sntp" \/ (pcb /\ server = (CHOOSE s \in Servers : TRUE) /\ board = "cc35x1")

OnWifi(A) == part = "wifi" /\ A /\ UNCHANGED <<part, ntpVars>>
OnNtp(A) == part = "sntp" /\ A /\ UNCHANGED <<part, wifiVars>>

Next == OnWifi(Wifi!Next) \/ OnNtp(Ntp!Next)

\* The fairness of the parts.  There is one part in a behaviour: a condition on either can
\* be stated of both at once.
Spec ==
  /\ Init /\ [][Next]_vars
  /\ WF_vars(OnWifi(Wifi!MainWork) \/ OnNtp(Ntp!MainLoop))
  /\ WF_vars(OnWifi(Wifi!Event) \/ OnNtp(Ntp!WebAsk))
  /\ WF_vars(OnWifi(Wifi!Calm) \/ OnNtp(Ntp!Calm))
  /\ WF_vars(OnWifi(Wifi!NwpConnects))
  /\ SF_vars(OnWifi(Wifi!Seen) \/ OnNtp(Ntp!Resolves))
  /\ SF_vars(OnWifi(Wifi!Retry) \/ OnNtp(Ntp!Replies))
  /\ SF_vars(OnWifi(Wifi!StartTiming)) /\ SF_vars(OnWifi(Wifi!Fallback))
  /\ SF_vars(OnWifi(Wifi!Lease))

-----------------------------------------------------------------------------
(* The properties of the parts.                                            *)

\* Every variable of the roles and of the client keeps its range.
TypeOK == Wifi!TypeOK /\ Ntp!TypeOK

\* lwIP never has the interfaces of both roles, until a Forget is carried out in the role
\* of the access point.
OneInterface == Wifi!OneInterface

\* An address is believed in only while the station's link is up.
IpTruth == Wifi!IpTruth

\* A board without an address ends up at the network or at the setup access point.
Reachable == (part = "wifi" /\ ~had) ~> (ip \/ role = "AP")

\* A link that has worked is joined again after an outage.
Rejoins == Wifi!Rejoins

\* The client is synchronised again and again.
Syncs == []<>(part = "sntp" => st = "SYNCED")

\* In the end the time comes from the server that is configured.
FromConfigured == <>[](part = "sntp" => source = server)
=============================================================================
