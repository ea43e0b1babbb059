------------------------------ MODULE NetWifi ------------------------------
(***************************************************************************)
(* The Wi-Fi roles of the CC35x1 (platform/cc35x1/net_wifi.c) and the part *)
(* of main.c that drives them: joining at boot, provisioning and forgetting *)
(* on request of the setup page, retries, and the fallback to the setup    *)
(* access point.  Three threads meet here: the main task, which blocks in  *)
(* the middle of a role switch; the event thread of the Wlan driver, which *)
(* reads the role before it takes lwIP's lock; and lwIP's own thread.      *)
(*                                                                         *)
(* The network processor (NWP) is external.  One stored network is         *)
(* modelled; a network "good" can be joined, "bad" never.                  *)
(***************************************************************************)
EXTENDS Integers, Sequences

CONSTANTS
  MaxFaults,   \* links lost, roles that do not come up
  MaxRequests, \* requests of the setup page
  MaxEvents    \* events that wait for the event thread

VARIABLES
  role,  \* g_eRole
  sta,   \* g_sStaIf: added to lwIP's list, link up
  ap,    \* g_sApIf is added
  ip,    \* g_iIpAcquired
  todo,  \* what the main task has still to do before its next turn
  creds, \* pcSsid: the network the main task works with
  had,   \* bStaHadIp
  timing,\* bNoIpTiming
  httpd, \* the web server runs
  req,   \* the request that waits for the main task
  ev,    \* the event the event thread is about to act on
  nwp,   \* the NWP: the network joined, the one being tried, the events it has raised
  lastIp, \* the network the last address came from
  faults, requests,
  strayed \* history: Forget has been carried out in the role of the access point

vars == <<role, sta, ap, ip, todo, creds, had, timing, httpd, req, ev, nwp, lastIp, faults, requests,
          strayed>>
lwip == <<sta, ap, ip, lastIp>>
local == <<creds, had, timing, httpd, req, requests, strayed>>

Networks == {"good", "bad"}
Nets == Networks \cup {"none"}
StaUpSteps == <<"staRoleUp", "connect">>
StaDownSteps == <<"staLeave", "disconnect", "linkDown", "staRoleDown", "staRemove">>
ApUpSteps == <<"apRoleUp", "apLinkUp">>
ApDownSteps == <<"apDown">>
ScanSteps == <<"staRoleUp", "scan">> \o StaDownSteps
ToAp == ScanSteps \o ApUpSteps
ToSta == ApDownSteps \o StaUpSteps \o <<"arm">>

TypeOK ==
  /\ role \in {"NONE", "STA", "AP"}
  /\ sta \in [added : BOOLEAN, link : BOOLEAN] /\ ap \in BOOLEAN /\ ip \in BOOLEAN
  /\ Len(todo) <= 11 /\ ~(had /\ timing) /\ httpd \in BOOLEAN /\ creds \in Nets /\ had \in BOOLEAN /\ timing \in BOOLEAN
  /\ req \in Nets \cup {"forget"} /\ ev \in {"none", "connect", "disconnect"}
  /\ nwp.joined \in Nets /\ nwp.trying \in Nets /\ Len(nwp.events) <= MaxEvents
  /\ lastIp \in Nets /\ faults \in 0 .. MaxFaults /\ requests \in 0 .. MaxRequests
  /\ strayed \in BOOLEAN

Init ==
  /\ role = "NONE" /\ sta = [added |-> FALSE, link |-> FALSE] /\ ap = FALSE /\ ip = FALSE
  /\ creds \in Nets
  /\ todo = (IF creds = "none" THEN ToAp ELSE StaUpSteps \o <<"join">>) \o <<"serve">>
  /\ had = FALSE /\ timing = FALSE /\ httpd = FALSE /\ req = "none" /\ ev = "none"
  /\ nwp = [joined |-> "none", trying |-> "none", events |-> <<>>]
  /\ lastIp = "none" /\ faults = MaxFaults /\ requests = MaxRequests
  /\ strayed = FALSE

Fault == faults > 0 /\ faults' = faults - 1
NoFault == UNCHANGED faults

-----------------------------------------------------------------------------
(* Steps of the main task.                                                 *)

Raised(e) == IF Len(nwp.events) < MaxEvents THEN Append(nwp.events, e) ELSE nwp.events

\* netif_set_link_down and its callback, which stops DHCP.
LinkDown == sta' = [sta EXCEPT !.link = FALSE] /\ ip' = (ip /\ ~sta.link)

At(s) == todo # <<>> /\ Head(todo) = s
Done == todo' = Tail(todo)

\* net_sta_role_up; when it fails, nothing that needs the role is done.
StaRoleUp ==
  /\ At("staRoleUp") /\ Done
  /\ \/ role = "STA" /\ NoFault /\ UNCHANGED <<role, sta, ip>>
     \/ /\ role # "STA" /\ NoFault /\ role' = "STA"
        /\ sta' = [added |-> TRUE, link |-> FALSE] /\ UNCHANGED ip
     \/ /\ role # "STA" /\ Fault
        /\ sta' = [added |-> FALSE, link |-> FALSE] /\ UNCHANGED <<role, ip>>
  /\ UNCHANGED <<ap, lastIp, local, ev, nwp>>

\* net_issue_connect.  A station that has joined another network leaves it.
Connect ==
  /\ At("connect") /\ Done
  /\ nwp' = IF role # "STA" \/ creds = "none" THEN nwp
            ELSE [nwp EXCEPT !.trying = creds,
                             !.joined = IF nwp.joined = creds THEN creds ELSE "none",
                             !.events = IF nwp.joined \notin {creds, "none"}
                                        THEN Raised("disconnect") ELSE nwp.events]
  /\ NoFault /\ UNCHANGED <<role, lwip, local, ev>>

\* NetWifiStaDown.  The role goes first, so that an event that comes late is ignored.
StaLeave ==
  /\ At("staLeave")
  /\ IF role = "STA" THEN role' = "NONE" /\ ip' = FALSE /\ Done
     ELSE todo' = SubSeq(todo, 6, Len(todo)) /\ UNCHANGED <<role, ip>>
  /\ NoFault /\ UNCHANGED <<sta, ap, lastIp, local, ev, nwp>>

Disconnect ==
  /\ At("disconnect") /\ Done
  /\ nwp' = [joined |-> "none", trying |-> "none",
             events |-> IF nwp.joined # "none" THEN Raised("disconnect") ELSE nwp.events]
  /\ NoFault /\ UNCHANGED <<role, lwip, local, ev>>

StaLinkDown ==
  At("linkDown") /\ Done /\ LinkDown /\ NoFault /\ UNCHANGED <<role, ap, lastIp, local, ev, nwp>>

StaRoleDown ==
  /\ At("staRoleDown") /\ Done
  /\ nwp' = [nwp EXCEPT !.joined = "none", !.trying = "none"]
  /\ NoFault /\ UNCHANGED <<role, lwip, local, ev>>

StaRemove ==
  /\ At("staRemove") /\ Done /\ sta' = [sta EXCEPT !.added = FALSE]
  /\ NoFault /\ UNCHANGED <<role, ap, ip, lastIp, local, ev, nwp>>

\* Bug: a scan that is refused leaves the role as it is.
BugScanKeepsRole ==
  /\ At("scan") /\ NoFault /\ UNCHANGED <<role, lwip, local, ev, nwp>>
  /\ \/ Done
     \/ todo' = SubSeq(todo, 7, Len(todo))

\* NetWifiScanCache: the result, a refusal or a timeout; the role is dropped anyway.
Scan == At("scan") /\ Done /\ NoFault /\ UNCHANGED <<role, lwip, local, ev, nwp>>

\* NetWifiApUp; the role may not come up, in five tries.
ApRoleUp ==
  /\ At("apRoleUp")
  /\ \/ role = "AP" /\ todo' = SubSeq(todo, 3, Len(todo)) /\ NoFault /\ UNCHANGED <<role, ap>>
     \/ role # "AP" /\ Done /\ NoFault /\ ap' = TRUE /\ UNCHANGED role
     \/ role # "AP" /\ todo' = SubSeq(todo, 3, Len(todo)) /\ Fault /\ UNCHANGED <<role, ap>>
  /\ UNCHANGED <<sta, ip, lastIp, local, ev, nwp>>

ApLinkUp ==
  At("apLinkUp") /\ Done /\ role' = "AP" /\ NoFault /\ UNCHANGED <<lwip, local, ev, nwp>>

ApDown ==
  /\ At("apDown") /\ Done
  /\ IF role = "AP" THEN role' = "NONE" /\ ap' = FALSE ELSE UNCHANGED <<role, ap>>
  /\ NoFault /\ UNCHANGED <<sta, ip, lastIp, local, ev, nwp>>

\* At boot: wait for an address, or give up and let the user provision the board.
Join ==
  /\ At("join")
  /\ \/ ip /\ Done /\ UNCHANGED creds
     \/ ~ip /\ creds' = "none" /\ todo' = ToAp \o Tail(todo)
  /\ NoFault /\ UNCHANGED <<role, lwip, had, timing, httpd, req, requests, strayed, ev, nwp>>

\* The web server starts when the boot has joined a network or given up.
Serve ==
  /\ At("serve") /\ Done /\ httpd' = TRUE
  /\ NoFault /\ UNCHANGED <<role, lwip, creds, had, timing, req, requests, strayed, ev, nwp>>

\* After the switch to new credentials.
Arm ==
  /\ At("arm") /\ Done /\ had' = FALSE /\ timing' = FALSE
  /\ NoFault /\ UNCHANGED <<role, lwip, creds, httpd, req, requests, strayed, ev, nwp>>

MainStep ==
  \/ StaRoleUp \/ Connect \/ StaLeave \/ Disconnect \/ StaLinkDown \/ StaRoleDown
  \/ StaRemove \/ Scan \/ ApRoleUp \/ ApLinkUp \/ ApDown \/ Join \/ Serve \/ Arm

-----------------------------------------------------------------------------
(* Turns of the main loop.                                                 *)

Turn == todo = <<>> /\ NoFault /\ UNCHANGED <<role, lwip, ev, nwp>>

Provision ==
  /\ Turn /\ req \in Networks /\ req' = "none"
  /\ creds' = req /\ todo' = ToSta /\ UNCHANGED <<had, timing, httpd, requests, strayed>>

\* The scan comes first in every role.  In that of the access point it brings the station
\* up beside it, and NetWifiApUp then adds an interface to lwIP's list that is in it.
Forget ==
  /\ Turn /\ req = "forget" /\ req' = "none"
  /\ creds' = "none" /\ todo' = ToAp /\ strayed' = (strayed \/ role = "AP")
  /\ UNCHANGED <<had, timing, httpd, requests>>

\* Bug: the fallback's timer runs on.
BugSeenKeepsTiming ==
  /\ Turn /\ role # "AP" /\ ip /\ ~(had /\ ~timing)
  /\ had' = TRUE /\ UNCHANGED <<todo, timing, creds, httpd, req, requests, strayed>>

\* A working link is remembered.
Seen ==
  /\ Turn /\ role # "AP" /\ ip /\ ~(had /\ ~timing)
  /\ had' = TRUE /\ timing' = FALSE /\ UNCHANGED <<todo, creds, httpd, req, requests, strayed>>

NoIp == Turn /\ role # "AP" /\ ~ip /\ req = "none"

\* Bug: a station that had an address waits for the link to come back by itself.
BugRetryNewOnly ==
  /\ NoIp /\ ~had /\ role = "STA" /\ nwp.trying = "none" /\ creds # "none"
  /\ todo' = <<"connect">> /\ UNCHANGED local

Retry ==
  /\ NoIp /\ role = "STA" /\ nwp.trying = "none" /\ creds # "none"
  /\ todo' = <<"connect">> /\ UNCHANGED local

StartTiming ==
  /\ NoIp /\ ~had /\ ~timing /\ timing' = TRUE
  /\ UNCHANGED <<todo, creds, had, httpd, req, requests, strayed>>

\* Bug: a link that is gone for the while falls back, and one that never was does not.
BugFallbackInverted ==
  /\ NoIp /\ had /\ timing /\ timing' = FALSE
  /\ todo' = ToAp /\ UNCHANGED <<creds, had, httpd, req, requests, strayed>>

\* WIFI_FALLBACK_MS have passed.
Fallback ==
  /\ NoIp /\ ~had /\ timing /\ timing' = FALSE
  /\ todo' = ToAp /\ UNCHANGED <<creds, had, httpd, req, requests, strayed>>

\* The CGI handlers set a flag.
Request ==
  /\ httpd /\ requests > 0 /\ requests' = requests - 1 /\ req = "none"
  /\ (role = "AP" \/ ip)
  /\ req' \in Networks \cup {"forget"}
  /\ NoFault /\ UNCHANGED <<role, lwip, todo, creds, had, timing, httpd, strayed, ev, nwp>>

-----------------------------------------------------------------------------
(* WlanStackEventHandler, on the event thread: the guard, then the lock.   *)

TakeEvent ==
  /\ ev = "none" /\ nwp.events # <<>>
  /\ nwp' = [nwp EXCEPT !.events = Tail(nwp.events)]
  /\ ev' = IF role = "STA" THEN Head(nwp.events) ELSE "none"
  /\ NoFault /\ UNCHANGED <<role, lwip, todo, local>>

\* Bug: the address is kept when the link goes down.
BugLinkCallbackKeepsIp ==
  \/ ev = "connect" /\ sta' = [sta EXCEPT !.link = TRUE] /\ UNCHANGED ip
  \/ ev = "disconnect" /\ sta' = [sta EXCEPT !.link = FALSE] /\ UNCHANGED ip

LinkCallback ==
  \/ ev = "connect" /\ sta' = [sta EXCEPT !.link = TRUE] /\ UNCHANGED ip
  \/ ev = "disconnect" /\ LinkDown

ActOnEvent ==
  /\ ev # "none" /\ ev' = "none" /\ LinkCallback
  /\ NoFault /\ UNCHANGED <<role, ap, lastIp, todo, local, nwp>>

-----------------------------------------------------------------------------
(* The NWP and the network.                                                *)

NwpOnly == UNCHANGED <<role, sta, ap, todo, local, ev>>

NwpConnects ==
  /\ nwp.trying # "none" /\ Len(nwp.events) < MaxEvents
  /\ nwp' = IF nwp.trying = "good"
            THEN [joined |-> "good", trying |-> "none", events |-> Raised("connect")]
            ELSE [nwp EXCEPT !.trying = "none"]
  /\ NoFault /\ UNCHANGED <<ip, lastIp>> /\ NwpOnly

\* status_callback: DHCP has an address, over a link that is there.
Lease ==
  /\ sta.added /\ sta.link /\ nwp.joined # "none" /\ ~ip
  /\ ip' = TRUE /\ lastIp' = nwp.joined
  /\ NoFault /\ UNCHANGED nwp /\ NwpOnly

LinkLost ==
  /\ Fault /\ nwp.joined # "none" /\ Len(nwp.events) < MaxEvents
  /\ nwp' = [nwp EXCEPT !.joined = "none", !.events = Raised("disconnect")]
  /\ UNCHANGED <<ip, lastIp>> /\ NwpOnly

Calm ==
  /\ faults > 0 \/ requests > 0
  /\ faults' = 0 /\ requests' = 0
  /\ UNCHANGED <<role, lwip, todo, creds, had, timing, httpd, req, strayed, ev, nwp>>

Next ==
  \/ MainStep \/ Provision \/ Forget \/ Seen \/ Retry \/ StartTiming \/ Fallback \/ Request
  \/ TakeEvent \/ ActOnEvent \/ NwpConnects \/ Lease \/ LinkLost \/ Calm

Spec == Init /\ [][Next]_vars

\* The main task goes on with what it has begun and takes requests; what its timers ask for
\* it does when it finds the reason for it again and again.  The event thread takes its
\* events, the NWP ends an attempt, DHCP answers over a link that stays.
MainWork == MainStep \/ Provision \/ Forget
Event == TakeEvent \/ ActOnEvent

FairSpec ==
  /\ Spec
  /\ WF_vars(MainWork) /\ SF_vars(Seen) /\ SF_vars(Retry) /\ SF_vars(StartTiming)
  /\ SF_vars(Fallback) /\ WF_vars(Event) /\ WF_vars(NwpConnects) /\ SF_vars(Lease)
  /\ WF_vars(Calm)

-----------------------------------------------------------------------------
(* Properties.                                                             *)

\* net_wifi.c:1008-1009: "the two roles are mutually exclusive", so that lwIP never has
\* both interfaces.
MutuallyExclusive == ~(ap /\ sta.added)

\* The same, until a Forget is carried out in the role of the access point.
OneInterface == MutuallyExclusive \/ strayed

\* An address is believed in only while the station's link is up: not when a lease, a
\* late event and a role switch meet.
IpTruth == ip => sta.added /\ sta.link

\* A board that has had no address since it got its credentials ends up at the network
\* or at the setup access point, where it can be reached.
Reachable == ~had ~> (ip \/ role = "AP")

\* A link that has worked is joined again after an outage.
Rejoins == [](had /\ creds = "good" => <>(ip \/ role = "AP" \/ creds # "good"))

\* main.c:573-575: the fallback is for a board that has "NEVER acquired an IP with the
\* current credentials", and only for it.
Armed == todo = <<>> /\ had /\ creds # "none" => lastIp = creds

\* net_wifi.c:790-797: the guard keeps an event from touching the station's interface
\* "while - or after - we netif_remove it".
Guarded == ev # "none" => sta.added
=============================================================================
