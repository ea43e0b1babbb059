-------------------------------- MODULE Sntp --------------------------------
(***************************************************************************)
(* The SNTP client of iot_foundation/common/sntp_client.c.  Its callbacks  *)
(* act on the one client and do not know which lookup or which request     *)
(* they answer.  DNS and the servers are external: an answer may be late,  *)
(* missing or wrong.  SntpInit is not atomic: on the TM4C the interrupt    *)
(* with the handlers and callbacks cuts the main loop's call, and on the   *)
(* CC35x1 /ntpcfg.cgi makes the call without lwIP's lock.                  *)
(***************************************************************************)
EXTENDS Integers

CONSTANTS
  Servers,     \* servers the user may configure
  RetryAfter,  \* SNTP_RETRY_MS
  ReplyAfter,  \* the 5 s a reply may take
  ResyncAfter, \* SNTP_RESYNC_MS
  MaxLookups,  \* lookups of one name that may be outstanding
  MaxFaults    \* failures of the network, changes of the configuration

VARIABLES
  st,       \* g_eSntpState
  elapsed,  \* g_ui32Elapsed
  pcb,      \* g_pSntpPcb is there
  addr,     \* the server g_sSntpAddr is of
  server,   \* the server that is configured
  source,   \* the server the time came from (g_bSynced when there is one)
  lookups,  \* outstanding lookups per name
  asked,    \* servers that will reply
  board,    \* "tm4c" or "cc35x1"
  main,     \* the main loop is inside SntpInit
  web,      \* a handler is
  faults

vars == <<st, elapsed, pcb, addr, server, source, lookups, asked, board, main, web, faults>>

Maybe == Servers \cup {"none"}

Limit(s) ==
  CASE s \in {"IDLE", "DNS_PENDING"} -> RetryAfter
    [] s = "WAIT_REPLY" -> ReplyAfter
    [] s = "SYNCED" -> ResyncAfter

\* Every variable keeps its range, and no state outlasts its timeout; only a reply that is
\* awaited by a handler's call may have a part of its time behind it.
TypeOK ==
  /\ st \in {"IDLE", "DNS_PENDING", "WAIT_REPLY", "SYNCED"}
  /\ elapsed \in Nat
  /\ elapsed < Limit(st) \/ (st = "WAIT_REPLY" /\ board = "cc35x1" /\ elapsed < RetryAfter)
  /\ pcb \in BOOLEAN /\ addr \in Maybe /\ server \in Servers /\ source \in Maybe
  /\ lookups \in [Servers -> 0 .. MaxLookups] /\ asked \subseteq Servers
  /\ board \in {"tm4c", "cc35x1"} /\ main \in BOOLEAN /\ web \in BOOLEAN
  /\ faults \in 0 .. MaxFaults

\* The boot has called SntpInit, which got a socket or did not.
Init ==
  /\ pcb \in BOOLEAN /\ main = pcb /\ st = (IF pcb THEN "DNS_PENDING" ELSE "IDLE")
  /\ elapsed = 0 /\ addr = "none"
  /\ server \in Servers /\ source = "none"
  /\ lookups = [s \in Servers |-> 0] /\ asked = {}
  /\ board \in {"tm4c", "cc35x1"} /\ web = FALSE /\ faults = MaxFaults

Fault == faults > 0 /\ faults' = faults - 1
NoFault == UNCHANGED faults

-----------------------------------------------------------------------------
\* SntpSendRequest.
Send(s) == addr' = s /\ asked' = asked \cup {s}
Silent == UNCHANGED <<addr, asked>>

\* SntpInit, up to the lookup.  Without a socket nothing is begun.
Begin ==
  /\ elapsed' = 0
  /\ \/ pcb' = TRUE /\ st' = "DNS_PENDING" /\ NoFault
     \/ ~pcb /\ Fault /\ UNCHANGED <<pcb, st>>

\* Its lookup of server s: the name is known, it is looked up, or it cannot be.
Ask(s) ==
  /\ UNCHANGED <<elapsed, pcb>>
  /\ \/ st' = "WAIT_REPLY" /\ Send(s) /\ NoFault /\ UNCHANGED lookups
     \/ /\ lookups[s] < MaxLookups /\ lookups' = [lookups EXCEPT ![s] = lookups[s] + 1]
        /\ NoFault /\ Silent /\ UNCHANGED st
     \/ /\ \/ lookups[s] = MaxLookups /\ NoFault
           \/ lookups[s] < MaxLookups /\ Fault
        /\ Silent /\ UNCHANGED <<st, lookups>>

-----------------------------------------------------------------------------
(* SntpTick, in the main loop.                                             *)

Due == elapsed + 1 >= Limit(st)

Waits == ~Due /\ elapsed' = elapsed + 1 /\ NoFault /\ UNCHANGED <<st, pcb, main>>

\* Bug: a lookup that is never answered is waited for.
BugGivesUp ==
  /\ Due /\ st \in {"WAIT_REPLY", "DNS_PENDING"}
  /\ st' = (IF st = "WAIT_REPLY" THEN "IDLE" ELSE st) /\ elapsed' = 0
  /\ NoFault /\ UNCHANGED <<pcb, main>>

\* The timeouts of a lookup and of a reply.
GivesUp ==
  /\ Due /\ st \in {"WAIT_REPLY", "DNS_PENDING"} /\ st' = "IDLE" /\ elapsed' = 0
  /\ NoFault /\ UNCHANGED <<pcb, main>>

\* The retry after a failure and the re-sync.
Again == Due /\ st \in {"IDLE", "SYNCED"} /\ Begin /\ main' = pcb'

Tick ==
  /\ ~main /\ (Waits \/ GivesUp \/ Again)
  /\ Silent /\ UNCHANGED <<server, source, lookups, board, web>>

\* Bug: a re-sync asks the server it asked before.
BugMainAsk ==
  /\ main /\ main' = FALSE /\ (IF addr # "none" THEN Ask(addr) ELSE Ask(server))
  /\ UNCHANGED <<server, source, board, web>>

MainAsk ==
  /\ main /\ main' = FALSE /\ Ask(server)
  /\ UNCHANGED <<server, source, board, web>>

-----------------------------------------------------------------------------
(* The thread of lwIP.  It is inside a handler or has the lock; the main   *)
(* loop of the CC35x1 has the lock for the whole of its call.              *)

Runs == ~web /\ (board = "cc35x1" => ~main)
Rest == UNCHANGED <<server, board, main, web>>

\* NtpCfgCGIHandler stores the server, then calls SntpInit; so does the TM4C when it gets
\* an address.
Configure(s) ==
  /\ Runs /\ faults > 0
  /\ server' = s /\ elapsed' = 0 /\ pcb' = TRUE /\ st' = "DNS_PENDING"
  /\ faults' = faults - 1 /\ web' = TRUE
  /\ Silent /\ UNCHANGED <<source, lookups, board, main>>

\* On the TM4C nothing comes between.
WebAsk ==
  /\ web /\ web' = FALSE /\ Ask(server)
  /\ UNCHANGED <<server, source, board, main>>

\* CfgRestoreCGIHandler stores another server and leaves the client alone.
Restore(s) ==
  /\ Runs /\ Fault /\ server' = s
  /\ UNCHANGED <<st, elapsed, pcb, addr, source, lookups, asked, board, main, web>>

Found(s) == st' = "WAIT_REPLY" /\ elapsed' = 0 /\ Send(s) /\ NoFault

\* SntpDnsCB.
DnsAnswer(s) ==
  /\ Runs /\ lookups[s] > 0 /\ lookups' = [lookups EXCEPT ![s] = lookups[s] - 1]
  /\ \/ Found(s)
     \/ Fault /\ st' = "IDLE" /\ elapsed' = 0 /\ Silent
  /\ UNCHANGED <<pcb, source>> /\ Rest

\* SntpRecvCB: the time, or a timestamp that cannot be.
Reply(s) ==
  /\ Runs /\ s \in asked /\ asked' = asked \ {s} /\ elapsed' = 0
  /\ \/ st' = "SYNCED" /\ source' = s /\ NoFault
     \/ st' = "DNS_PENDING" /\ Fault /\ UNCHANGED source
  /\ UNCHANGED <<pcb, addr, lookups>> /\ Rest

\* A packet or an answer of the name server is lost.
Lose(s) ==
  /\ Fault
  /\ \/ s \in asked /\ asked' = asked \ {s} /\ UNCHANGED lookups
     \/ /\ lookups[s] > 0 /\ lookups' = [lookups EXCEPT ![s] = lookups[s] - 1]
        /\ UNCHANGED asked
  /\ UNCHANGED <<st, elapsed, pcb, addr, source>> /\ Rest

Calm ==
  /\ faults > 0 /\ faults' = 0
  /\ UNCHANGED <<st, elapsed, pcb, addr, server, source, lookups, asked, board, main, web>>

Interrupted == web /\ board = "tm4c"

Next ==
  \/ WebAsk
  \/ ~Interrupted /\ (Tick \/ MainAsk \/ Calm)
  \/ \E s \in Servers : Configure(s) \/ Restore(s) \/ DnsAnswer(s) \/ Reply(s) \/ Lose(s)

Spec == Init /\ [][Next]_vars

MainLoop == Tick \/ MainAsk
Resolves == \E s \in Servers : DnsAnswer(s)
Replies == \E s \in Servers : Reply(s)

\* The main loop ticks, handlers end, and what is not lost is answered
\* when the thread of lwIP gets the lock.
FairSpec ==
  /\ Spec
  /\ WF_vars(MainLoop) /\ WF_vars(WebAsk) /\ WF_vars(Calm)
  /\ SF_vars(Resolves) /\ SF_vars(Replies)

-----------------------------------------------------------------------------
(* Properties.                                                             *)

\* The client is synchronised again and again, whatever was lost, refused or bogus and
\* however the two callers of SntpInit met.
Syncs == []<>(st = "SYNCED")

\* In the end the time comes from the server that is configured, whatever late answers of
\* an earlier one have done.
FromConfigured == <>[](source = server)
=============================================================================
