----------------------------- MODULE HaPublish -----------------------------
(***************************************************************************)
(* What the product keeps at the broker (products/home_auto/app/ha_mqtt.c, *)
(* with the publishing half of io_scan.c): the sequence that announces     *)
(* everything after a connect or a change of the configuration, one item   *)
(* per tick of the main loop, and the publications that relays, covers and *)
(* inputs make in between.  One input, one cover slot over relays 0 and 1. *)
(*                                                                         *)
(* The session is the one MqttSession promises.  The web handlers run in   *)
(* another thread and change the live configuration before they save it    *)
(* and only then raise a request; the loop takes a request by reading its  *)
(* flag and then clearing it, whatever it has read.                        *)
(***************************************************************************)
EXTENDS MqttSession, Integers

CONSTANTS
  Counts,    \* numbers of relays the form can configure
  MaxRelays, \* the largest of them
  MaxEdits   \* forms the user submits

ASSUME CountsAssumption ==
  /\ MaxRelays \in Nat /\ Counts \subseteq 0 .. MaxRelays
  /\ MaxEdits \in Nat

VARIABLES
  cfg,    \* the live configuration
  field,  \* the chain: its length, its relays, the cover, the input
  seq,    \* g_iPubStep, g_iPubMax, g_pui8InSnap
  topic,  \* the topic, or the subscription, that is watched
  kept,   \* what the broker holds of it
  flags,  \* g_bStartMQTT, g_bRepublishMQTT
  at,     \* where the main loop is
  took,   \* what it has read of the flag it is about to clear
  form,   \* the handler that is saving its form
  missed, \* requests that were cleared unread and not made good since
  edits

vars == <<ready, was, cfg, field, seq, topic, kept, flags, at, took, form, missed, edits>>

Relay == 0 .. MaxRelays - 1
Topics == {<<"status">>, <<"idisc">>, <<"input">>, <<"cdisc">>, <<"cover">>,
           <<"relay_set">>, <<"cover_set">>}
          \cup {<<t, r>> : t \in {"disc", "relay"}, r \in Relay}
Subscriptions == {<<"relay_set">>, <<"cover_set">>}
Values == {"none", "on", "off", "offline", "switch", "event", "binary", "lost"}

TypeOK ==
  /\ SessionTypeOK
  /\ cfg \in [n : Counts, cover : BOOLEAN, push : BOOLEAN, broker : BOOLEAN]
  /\ field \in [n : Counts, relay : [Relay -> BOOLEAN], valid : BOOLEAN,
                moving : BOOLEAN, level : BOOLEAN, prev : BOOLEAN]
  /\ seq \in [step : Nat, max : Nat, snap : BOOLEAN] /\ seq.step <= seq.max + 1
  /\ topic \in Topics /\ kept \in Values
  /\ flags \in [apply : BOOLEAN, again : BOOLEAN]
  /\ took \in BOOLEAN /\ missed \in [apply : BOOLEAN, again : BOOLEAN]
  /\ at \in {"apply", "clear", "start", "again", "clear_again", "republish", "poll", "tick"}
  /\ form \in {"none", "io", "out", "mqtt"}
  /\ edits \in 0 .. MaxEdits

Onoff(b) == IF b THEN "on" ELSE "off"
Member(r) == cfg.cover /\ r \in {0, 1}                 \* OutputCtrlIsShutterMember

\* The items of the sequence for n relays, in the order of MQTTAppPostConnect.
Sub(n) == 2 + 2 * n
CoverBase(n) == Sub(n) + 2
Steps(n) == 2 + 2 * n + 2 + 2 + 1

\* What each topic should hold.
Truth(t) ==
  CASE t = <<"status">> -> "on"
    [] t \in Subscriptions -> "on"
    [] t[1] = "disc" -> IF Member(t[2]) THEN "none" ELSE "switch"
    [] t[1] = "relay" -> Onoff(t[2] < field.n /\ field.relay[t[2]])
    [] t = <<"idisc">> -> IF cfg.push THEN "event" ELSE "binary"
    [] t = <<"input">> -> Onoff(field.prev)
    [] t = <<"cdisc">> -> IF field.valid THEN "switch" ELSE "none"
    [] t = <<"cover">> -> Onoff(field.moving)

\* MQTTClientPublish and MQTTClientSubscribe: what may become of the watched topic,
\* given up when the TCP send buffer has no room.
Published(k, t, v) == IF ready /\ t = topic THEN {v, "lost"} ELSE {k}

\* Whether the input is a pushbutton bears on its own topics only.
Kinds == IF topic \in {<<"idisc">>, <<"input">>} THEN BOOLEAN ELSE {FALSE}

Init ==
  /\ SessionInit
  /\ topic \in Topics /\ kept = "none"
  /\ cfg \in [n : Counts, cover : BOOLEAN, push : Kinds, broker : {TRUE}]
  /\ field \in {[n |-> cfg.n, relay |-> [r \in Relay |-> FALSE], valid |-> cfg.cover,
                 moving |-> FALSE, level |-> b, prev |-> b] : b \in BOOLEAN}
  /\ seq = [step |-> 0, max |-> 0, snap |-> FALSE]
  /\ flags = [apply |-> FALSE, again |-> FALSE]
  /\ at = "apply" /\ took = FALSE /\ form = "none"
  /\ missed = [apply |-> FALSE, again |-> FALSE]
  /\ edits = MaxEdits

-----------------------------------------------------------------------------
(* The session.  Its end loses the subscriptions and publishes the will.   *)

Ended == IF topic \in Subscriptions THEN "none"
         ELSE IF topic = <<"status">> THEN "offline" ELSE kept

Network == UNCHANGED <<cfg, field, seq, topic, flags, at, took, form, missed, edits>>

Connect == form = "none" /\ Accept /\ UNCHANGED kept /\ Network

Disconnect == form = "none" /\ Lose /\ kept' = Ended /\ Network

-----------------------------------------------------------------------------
(* Commands of MQTT and of the web pages, under the core lock.  Relays,    *)
(* covers and switches touch no topic but their own, so only the watched   *)
(* one moves.                                                              *)

Handler == form = "none" /\ UNCHANGED <<ready, was, at, took, topic, missed>>

\* MQTTAppSetRelay.
SetRelay(r, on) ==
  /\ Handler /\ topic = <<"relay", r>> /\ ~Member(r) /\ r < cfg.n
  /\ LET f == [field EXCEPT !.relay[r] = IF r < field.n THEN on ELSE field.relay[r]]
     IN /\ field' = f
        /\ kept' \in Published(kept, <<"relay", r>>, Onoff(f.relay[r]))
  /\ UNCHANGED <<cfg, seq, flags, form, edits>>

\* MQTTAppPublishCoverState for a cover that starts or stops.
MoveCover ==
  /\ Handler /\ topic = <<"cover">> /\ field.valid
  /\ field' = [field EXCEPT !.moving = ~field.moving]
  /\ kept' \in Published(kept, <<"cover">>, Onoff(~field.moving))
  /\ UNCHANGED <<cfg, seq, flags, form, edits>>

\* A form changes the live configuration; the lock is released while it is saved.
Submit(f, c) ==
  /\ Handler /\ edits > 0 /\ c # cfg
  /\ edits' = edits - 1 /\ form' = f /\ cfg' = c
  /\ UNCHANGED <<kept, field, seq, flags>>

IOConfig == \E n \in Counts, b \in Kinds : Submit("io", [cfg EXCEPT !.n = n, !.push = b])
OutCfg == Submit("out", [cfg EXCEPT !.cover = ~cfg.cover])
MQTTConfig == Submit("mqtt", [cfg EXCEPT !.broker = ~cfg.broker])

\* A flag that the loop has found down and is about to clear is set in vain.
Late(wantsApply, wantsAgain) ==
  [apply |-> missed.apply \/ (wantsApply /\ at = "clear" /\ ~took),
   again |-> missed.again \/ (wantsAgain /\ at = "clear_again" /\ ~took)]

\* OutputCtrlReload: a changed pair comes up stopped, its relays off, unpublished.
Reloaded(f) ==
  IF f.valid = cfg.cover THEN f
  ELSE [f EXCEPT !.valid = cfg.cover, !.moving = FALSE,
                 !.relay = [r \in Relay |-> r \notin {0, 1} /\ f.relay[r]]]

BugIOConfigSavedNoApply ==
  /\ form = "io" /\ form' = "none"
  /\ flags' = [flags EXCEPT !.again = TRUE]
  /\ missed' = Late(FALSE, TRUE)
  /\ UNCHANGED <<ready, was, at, took, cfg, field, seq, topic, kept, edits>>

IOConfigSaved ==
  /\ form = "io" /\ form' = "none"
  /\ flags' = [apply |-> TRUE, again |-> TRUE]
  /\ missed' = Late(TRUE, TRUE)
  /\ UNCHANGED <<ready, was, at, took, cfg, field, seq, topic, kept, edits>>

OutCfgSaved ==
  /\ form = "out" /\ form' = "none"
  /\ field' = Reloaded(field)
  /\ flags' = [flags EXCEPT !.again = TRUE]
  /\ missed' = Late(FALSE, TRUE)
  /\ UNCHANGED <<ready, was, at, took, cfg, seq, topic, kept, edits>>

MQTTConfigSaved ==
  /\ form = "mqtt" /\ form' = "none"
  /\ flags' = [flags EXCEPT !.apply = TRUE]
  /\ missed' = Late(TRUE, FALSE)
  /\ UNCHANGED <<ready, was, at, took, cfg, field, seq, topic, kept, edits>>

-----------------------------------------------------------------------------
(* The main loop.                                                          *)

Loop(from, to) == at = from /\ at' = to /\ UNCHANGED <<cfg, topic, form, edits>>

\* WebUIMqttApplyPending and WebUIMqttRepublishPending read their flag, then clear it.
Look ==
  /\ \/ Loop("apply", "clear") /\ took' = flags.apply
     \/ Loop("again", "clear_again") /\ took' = flags.again
  /\ UNCHANGED <<ready, was, field, seq, kept, flags, missed>>

Clear ==
  /\ \/ /\ Loop("clear", IF took THEN "start" ELSE "again")
        /\ flags' = [flags EXCEPT !.apply = FALSE]
     \/ /\ Loop("clear_again", IF took THEN "republish" ELSE "poll")
        /\ flags' = [flags EXCEPT !.again = FALSE]
  /\ took' = FALSE
  /\ UNCHANGED <<ready, was, field, seq, kept, missed>>

\* The chain takes its new length with all relays off, then MQTTAppStart; that
\* leaves a session alone when no broker is configured.
Apply ==
  /\ Loop("start", "again")
  /\ field' = Reloaded(IF field.n = cfg.n THEN field
                       ELSE [field EXCEPT !.n = cfg.n, !.relay = [r \in Relay |-> FALSE]])
  /\ \/ cfg.broker /\ Restart /\ kept' = (IF ready THEN Ended ELSE kept)
     \/ ~cfg.broker /\ UNCHANGED <<ready, was, kept>>
  /\ missed' = [missed EXCEPT !.apply = FALSE]
  /\ UNCHANGED <<seq, flags, took>>

\* MQTTAppRepublish keeps the bound of the sequence.
Republish ==
  /\ Loop("republish", "poll")
  /\ seq' = IF ready THEN [seq EXCEPT !.step = 1, !.snap = field.level] ELSE seq
  /\ missed' = [missed EXCEPT !.again = ~ready /\ missed.again]
  /\ UNCHANGED <<ready, was, field, kept, flags, took>>

\* The scan publishes a change of a switch.
Scanned(k) ==
  IF field.level # field.prev /\ ~cfg.push
  THEN Published(k, <<"input">>, Onoff(field.level)) ELSE {k}

\* MQTTAppPostConnect: what step i publishes.
PostConnect(i) ==
  LET n == cfg.n
      One(t, v) == {[t |-> t, v |-> v]}
      T(t) == One(t, Truth(t))
      None == {}
  IN CASE i = 1 -> One(<<"status">>, "on")
       [] i \in 2 .. n + 1 -> T(<<"disc", i - 2>>)
       [] i \in n + 2 .. 2 * n + 1 ->
            IF Member(i - n - 2) THEN None ELSE T(<<"relay", i - n - 2>>)
       [] i = Sub(n) -> IF n > 0 THEN One(<<"relay_set">>, "on") ELSE None
       [] i = Sub(n) + 1 -> T(<<"idisc">>)
       [] i = Sub(n) + 2 -> IF cfg.push THEN None ELSE One(<<"input">>, Onoff(seq.snap))
       [] i = CoverBase(n) + 1 -> T(<<"cdisc">>)
       [] i = CoverBase(n) + 2 -> IF field.valid THEN T(<<"cover">>) ELSE None
       [] i = CoverBase(n) + 3 -> One(<<"cover_set">>, "on")
       [] OTHER -> None

BugRunsPastTheEnd == ready /\ seq.step > 0

\* There is a step left to run.
Runs == ready /\ seq.step \in 1 .. seq.max

\* product_poll: the scan, then one step of the sequence (MQTTAppPubServiceTick).
Poll ==
  /\ Loop("poll", "tick")
  /\ field' = [field EXCEPT !.prev = field.level]
  /\ seq' = [seq EXCEPT !.step = IF ~ready THEN 0 ELSE IF Runs THEN seq.step + 1 ELSE seq.step]
  /\ \E s \in Scanned(kept) :
       \/ (~Runs \/ PostConnect(seq.step) = {}) /\ kept' = s
       \/ Runs /\ \E m \in PostConnect(seq.step) : kept' \in Published(s, m.t, m.v)
  /\ UNCHANGED <<ready, was, flags, took, missed>>

BugTickWhileReady ==
  /\ Loop("tick", "apply")
  /\ SessionTick
  /\ seq' = IF ready' THEN [step |-> 1, max |-> Steps(cfg.n), snap |-> field.level] ELSE seq
  /\ kept' = (IF ready /\ ~ready' THEN Ended ELSE kept)
  /\ UNCHANGED <<field, flags, took, missed>>

\* MQTTAppTick; the CC35x1 skips it while it has no address.
Tick ==
  /\ Loop("tick", "apply")
  /\ SessionTick
  /\ seq' = IF ready' /\ ~was THEN [step |-> 1, max |-> Steps(cfg.n), snap |-> field.level]
            ELSE seq
  /\ kept' = (IF ready /\ ~ready' THEN Ended ELSE kept)
  /\ missed' = [missed EXCEPT !.again = missed.again /\ ~(ready' /\ ~was)]
  /\ UNCHANGED <<field, flags, took>>

SkipTick ==
  Loop("tick", "apply") /\ UNCHANGED <<ready, was, field, seq, kept, flags, took, missed>>

\* Somebody uses the switch.
Press ==
  /\ topic = <<"input">>
  /\ field' = [field EXCEPT !.level = ~field.level]
  /\ UNCHANGED <<ready, was, cfg, seq, topic, kept, flags, at, took, form, missed, edits>>

Next ==
  \/ Connect \/ Disconnect \/ MoveCover \/ Press
  \/ \E r \in Relay, on \in BOOLEAN : SetRelay(r, on)
  \/ IOConfig \/ OutCfg \/ MQTTConfig
  \/ IOConfigSaved \/ OutCfgSaved \/ MQTTConfigSaved
  \/ Look \/ Clear \/ Apply \/ Republish \/ Poll \/ Tick \/ SkipTick

Spec == Init /\ [][Next]_vars

\* The loop runs for ever, and so do the ticks of a board that has an address now
\* and then.
FairSpec ==
  /\ Spec
  /\ WF_vars(Look) /\ WF_vars(Clear) /\ WF_vars(Apply) /\ WF_vars(Republish)
  /\ WF_vars(Poll) /\ WF_vars(Tick \/ SkipTick) /\ SF_vars(Tick)

-----------------------------------------------------------------------------
(* Properties.                                                             *)

Done == ready /\ was /\ seq.step > seq.max

\* The sequence and the publications in between leave the truth at the broker, but
\* for what could not be sent: nothing is pending, a request that was missed has been
\* made good, and the input has not changed since the sequence took its snapshot.
Relevant(t) ==
  /\ t[1] \in {"disc", "relay"} => t[2] < cfg.n
  /\ t[1] = "relay" => ~Member(t[2])
  /\ t = <<"input">> => ~cfg.push /\ seq.snap = field.prev
  /\ t = <<"cover">> => field.valid
  /\ t = <<"relay_set">> => cfg.n > 0

Pending == form # "none" \/ flags.apply \/ flags.again \/ at \in {"start", "republish"}
Missed == missed.apply \/ missed.again

Synced ==
  Done /\ ~Pending /\ ~Missed /\ cfg.broker
    => (Relevant(topic) => kept \in {Truth(topic), "lost"})

\* The comment of the snapshot promises the initial state of every input: without
\* the reservation for an input that changed meanwhile.
InputsSynced ==
  Done /\ ~Pending /\ ~Missed /\ cfg.broker /\ ~cfg.push /\ topic = <<"input">>
    => kept \in {Truth(topic), "lost"}

\* webui.h promises that an accessor returns and clears the request of a handler: once
\* nothing is pending, the chain has the length the user saved.
Served == ~Pending => field.n = cfg.n

\* However often the configuration changes and the session is lost, a session that
\* lasts is announced to the end.
Announced == []<>(~ready \/ Done)
=============================================================================
