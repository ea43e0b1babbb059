-------------------------- MODULE HaPublishProofs --------------------------
(***************************************************************************)
(* What the product keeps at the broker (HaPublish), for chains of any     *)
(* length, any number of forms, and a session that comes and goes at any   *)
(* step: the announcing sequence and the publications in between leave the *)
(* truth at the broker when nothing is pending.                            *)
(***************************************************************************)
EXTENDS HaPublish, TLAPS

Settings == [n : Counts, cover : BOOLEAN, push : BOOLEAN, broker : BOOLEAN]
Field ==
  [n : Counts, relay : [Relay -> BOOLEAN], valid : BOOLEAN,
   moving : BOOLEAN, level : BOOLEAN, prev : BOOLEAN]
Sequencer == [step : Nat, max : Nat, snap : BOOLEAN]
Requests == [apply : BOOLEAN, again : BOOLEAN]

-----------------------------------------------------------------------------
(* What a topic should hold, and what an item of the sequence says of it.  *)

LEMMA OnoffValue == ASSUME NEW b PROVE Onoff(b) \in {"on", "off"}
BY DEF Onoff

LEMMA TopicKinds ==
  ASSUME NEW t, t \in Topics
  PROVE  \/ t \in {<<"status">>, <<"idisc">>, <<"input">>, <<"cdisc">>, <<"cover">>}
         \/ t \in Subscriptions
         \/ \E r \in Relay : t \in {<<"disc", r>>, <<"relay", r>>}
<1>1. CASE t \in {<<u, r>> : u \in {"disc", "relay"}, r \in Relay}
  BY <1>1
<1> QED BY <1>1 DEF Topics, Subscriptions

LEMMA TruthValue ==
  ASSUME NEW t, t \in Topics PROVE Truth(t) \in Values \ {"lost"}
<1>1. CASE t \in {<<"status">>, <<"idisc">>, <<"input">>, <<"cdisc">>, <<"cover">>}
  BY <1>1 DEF Truth, Onoff, Values, Subscriptions
<1>2. CASE t \in Subscriptions
  BY <1>2 DEF Truth, Onoff, Values, Subscriptions
<1>3. CASE \E r \in Relay : t \in {<<"disc", r>>, <<"relay", r>>}
  <2> t[1] \in {"disc", "relay"} BY <1>3
  <2> QED BY DEF Truth, Onoff, Values, Subscriptions
<1> QED BY <1>1, <1>2, <1>3, TopicKinds

\* Every item says the truth of its topic, but for the input's, which says the snapshot.
Said(t) == IF t = <<"input">> THEN Onoff(seq.snap) ELSE Truth(t)

Item(t) == {[t |-> t, v |-> Said(t)]}

\* The sequence, item by item.
LEMMA Sequence ==
  ASSUME cfg.n \in Nat, NEW i \in Nat
  PROVE  /\ i = 1 => PostConnect(i) = Item(<<"status">>)
         /\ i \in 2 .. cfg.n + 1 => PostConnect(i) = Item(<<"disc", i - 2>>)
         /\ i \in cfg.n + 2 .. 2 * cfg.n + 1 /\ ~Member(i - cfg.n - 2)
              => PostConnect(i) = Item(<<"relay", i - cfg.n - 2>>)
         /\ i \in cfg.n + 2 .. 2 * cfg.n + 1 /\ Member(i - cfg.n - 2) => PostConnect(i) = {}
         /\ i = Sub(cfg.n) /\ cfg.n > 0 => PostConnect(i) = Item(<<"relay_set">>)
         /\ i = Sub(cfg.n) /\ cfg.n = 0 => PostConnect(i) = {}
         /\ i = Sub(cfg.n) + 1 => PostConnect(i) = Item(<<"idisc">>)
         /\ i = Sub(cfg.n) + 2 /\ ~cfg.push => PostConnect(i) = Item(<<"input">>)
         /\ i = Sub(cfg.n) + 2 /\ cfg.push => PostConnect(i) = {}
         /\ i = Sub(cfg.n) + 3 => PostConnect(i) = Item(<<"cdisc">>)
         /\ i = Sub(cfg.n) + 4 /\ field.valid => PostConnect(i) = Item(<<"cover">>)
         /\ i = Sub(cfg.n) + 4 /\ ~field.valid => PostConnect(i) = {}
         /\ i = Sub(cfg.n) + 5 => PostConnect(i) = Item(<<"cover_set">>)
         /\ i \notin 1 .. Sub(cfg.n) + 5 => PostConnect(i) = {}
<1>1. Said(<<"status">>) = "on"
  BY DEF Said, Truth
<1>2. Said(<<"relay_set">>) = "on" /\ Said(<<"cover_set">>) = "on"
  BY DEF Said, Truth, Subscriptions
<1>3. Said(<<"input">>) = Onoff(seq.snap)
  BY DEF Said
<1>4. \A t : t # <<"input">> => Said(t) = Truth(t)
  BY DEF Said
<1>5. \A r : <<"disc", r>> # <<"input">> /\ <<"relay", r>> # <<"input">>
  OBVIOUS
<1> HIDE DEF Said
<1>11. i = 1 => PostConnect(i) = Item(<<"status">>)
  BY <1>1 DEF PostConnect, Item, Sub, CoverBase
<1>12. i \in 2 .. cfg.n + 1 => PostConnect(i) = Item(<<"disc", i - 2>>)
  BY <1>4, <1>5 DEF PostConnect, Item, Sub, CoverBase
<1>13. i \in cfg.n + 2 .. 2 * cfg.n + 1 /\ ~Member(i - cfg.n - 2)
       => PostConnect(i) = Item(<<"relay", i - cfg.n - 2>>)
  BY <1>4, <1>5 DEF PostConnect, Item, Sub, CoverBase
<1>14. i \in cfg.n + 2 .. 2 * cfg.n + 1 /\ Member(i - cfg.n - 2) => PostConnect(i) = {}
  BY DEF PostConnect, Item, Sub, CoverBase
<1>15. i = Sub(cfg.n) /\ cfg.n > 0 => PostConnect(i) = Item(<<"relay_set">>)
  BY <1>2 DEF PostConnect, Item, Sub, CoverBase
<1>16. i = Sub(cfg.n) /\ cfg.n = 0 => PostConnect(i) = {}
  BY DEF PostConnect, Item, Sub, CoverBase
<1>17. i = Sub(cfg.n) + 1 => PostConnect(i) = Item(<<"idisc">>)
  BY <1>4 DEF PostConnect, Item, Sub, CoverBase
<1>18. i = Sub(cfg.n) + 2 /\ ~cfg.push => PostConnect(i) = Item(<<"input">>)
  BY <1>3 DEF PostConnect, Item, Sub, CoverBase
<1>19. i = Sub(cfg.n) + 2 /\ cfg.push => PostConnect(i) = {}
  BY DEF PostConnect, Item, Sub, CoverBase
<1>20. i = Sub(cfg.n) + 3 => PostConnect(i) = Item(<<"cdisc">>)
  BY <1>4 DEF PostConnect, Item, Sub, CoverBase
<1>21. i = Sub(cfg.n) + 4 /\ field.valid => PostConnect(i) = Item(<<"cover">>)
  BY <1>4 DEF PostConnect, Item, Sub, CoverBase
<1>22. i = Sub(cfg.n) + 4 /\ ~field.valid => PostConnect(i) = {}
  BY DEF PostConnect, Item, Sub, CoverBase
<1>23. i = Sub(cfg.n) + 5 => PostConnect(i) = Item(<<"cover_set">>)
  BY <1>2 DEF PostConnect, Item, Sub, CoverBase
<1>24. i \notin 1 .. Sub(cfg.n) + 5 => PostConnect(i) = {}
  BY DEF PostConnect, Item, Sub, CoverBase
<1> QED BY <1>11, <1>12, <1>13, <1>14, <1>15, <1>16, <1>17, <1>18, <1>19, <1>20, <1>21, <1>22, <1>23, <1>24

LEMMA ItemSays ==
  ASSUME cfg.n \in Nat, NEW i \in Nat, NEW m, m \in PostConnect(i)
  PROVE  m.v = Said(m.t)
<1>1. PostConnect(i) = {} \/ \E t : PostConnect(i) = Item(t)
  <2> USE Sequence
  <2> Sub(cfg.n) = 2 * cfg.n + 2 BY DEF Sub
  <2>1. CASE i = 1 BY <2>1
  <2>2. CASE i \in 2 .. cfg.n + 1 BY <2>2
  <2>3. CASE i \in cfg.n + 2 .. 2 * cfg.n + 1 BY <2>3
  <2>4. CASE i = Sub(cfg.n)
    <3> cfg.n = 0 \/ cfg.n > 0 OBVIOUS
    <3> QED BY <2>4
  <2>5. CASE i = Sub(cfg.n) + 1 BY <2>5
  <2>6. CASE i = Sub(cfg.n) + 2 BY <2>6
  <2>7. CASE i = Sub(cfg.n) + 3 BY <2>7
  <2>8. CASE i = Sub(cfg.n) + 4 BY <2>8
  <2>9. CASE i = Sub(cfg.n) + 5 BY <2>9
  <2>10. CASE i \notin 1 .. Sub(cfg.n) + 5 BY <2>10
  <2>11. i \in Nat OBVIOUS
  <2> HIDE Sequence
  <2> QED BY <2>1, <2>2, <2>3, <2>4, <2>5, <2>6, <2>7, <2>8, <2>9, <2>10, <2>11
<1> QED BY <1>1 DEF Item

\* The place of a topic in the sequence, and whether it has one.
Index(t) ==
  LET n == cfg.n
  IN IF t[1] = "status" THEN 1
     ELSE IF t[1] = "disc" THEN t[2] + 2
     ELSE IF t[1] = "relay" THEN t[2] + n + 2
     ELSE IF t[1] = "relay_set" THEN Sub(n)
     ELSE IF t[1] = "idisc" THEN Sub(n) + 1
     ELSE IF t[1] = "input" THEN Sub(n) + 2
     ELSE IF t[1] = "cdisc" THEN Sub(n) + 3
     ELSE IF t[1] = "cover" THEN Sub(n) + 4
     ELSE Sub(n) + 5

Sent(t) ==
  /\ t[1] \in {"disc", "relay"} => t[2] < cfg.n
  /\ t[1] = "relay" => ~Member(t[2])
  /\ t = <<"input">> => ~cfg.push
  /\ t = <<"cover">> => field.valid
  /\ t = <<"relay_set">> => cfg.n > 0

LEMMA ItemDue ==
  ASSUME cfg.n \in Nat, MaxRelays \in Nat, NEW t, t \in Topics, Sent(t)
  PROVE  /\ Index(t) \in 1 .. Steps(cfg.n)
         /\ PostConnect(Index(t)) = Item(t)
<1>0. Sub(cfg.n) \in Nat /\ Sub(cfg.n) + 5 = Steps(cfg.n) /\ Sub(cfg.n) >= 2 BY DEF Sub, Steps
<1>11. CASE t = <<"status">>
  <2>1. Index(t) = 1 BY <1>11 DEF Index
  <2>2. 1 \in Nat /\ 1 \in 1 .. Steps(cfg.n) BY <1>0
  <2>3. PostConnect(1) = Item(<<"status">>) BY <1>11, <2>2, Sequence DEF Sent
  <2> QED BY <1>11, <2>1, <2>2, <2>3
<1>12. CASE t = <<"idisc">>
  <2>1. Index(t) = Sub(cfg.n) + 1 BY <1>12 DEF Index
  <2>2. Sub(cfg.n) + 1 \in Nat /\ Sub(cfg.n) + 1 \in 1 .. Steps(cfg.n) BY <1>0
  <2>3. PostConnect(Sub(cfg.n) + 1) = Item(<<"idisc">>) BY <1>12, <2>2, Sequence DEF Sent
  <2> QED BY <1>12, <2>1, <2>2, <2>3
<1>13. CASE t = <<"input">>
  <2>1. Index(t) = Sub(cfg.n) + 2 BY <1>13 DEF Index
  <2>2. Sub(cfg.n) + 2 \in Nat /\ Sub(cfg.n) + 2 \in 1 .. Steps(cfg.n) BY <1>0
  <2>3. PostConnect(Sub(cfg.n) + 2) = Item(<<"input">>) BY <1>13, <2>2, Sequence DEF Sent
  <2> QED BY <1>13, <2>1, <2>2, <2>3
<1>14. CASE t = <<"cdisc">>
  <2>1. Index(t) = Sub(cfg.n) + 3 BY <1>14 DEF Index
  <2>2. Sub(cfg.n) + 3 \in Nat /\ Sub(cfg.n) + 3 \in 1 .. Steps(cfg.n) BY <1>0
  <2>3. PostConnect(Sub(cfg.n) + 3) = Item(<<"cdisc">>) BY <1>14, <2>2, Sequence DEF Sent
  <2> QED BY <1>14, <2>1, <2>2, <2>3
<1>15. CASE t = <<"cover">>
  <2>1. Index(t) = Sub(cfg.n) + 4 BY <1>15 DEF Index
  <2>2. Sub(cfg.n) + 4 \in Nat /\ Sub(cfg.n) + 4 \in 1 .. Steps(cfg.n) BY <1>0
  <2>3. PostConnect(Sub(cfg.n) + 4) = Item(<<"cover">>) BY <1>15, <2>2, Sequence DEF Sent
  <2> QED BY <1>15, <2>1, <2>2, <2>3
<1>16. CASE t = <<"relay_set">>
  <2>1. Index(t) = Sub(cfg.n) BY <1>16 DEF Index
  <2>2. Sub(cfg.n) \in Nat /\ Sub(cfg.n) \in 1 .. Steps(cfg.n) BY <1>0
  <2>3. PostConnect(Sub(cfg.n)) = Item(<<"relay_set">>) BY <1>16, <2>2, Sequence DEF Sent
  <2> QED BY <1>16, <2>1, <2>2, <2>3
<1>17. CASE t = <<"cover_set">>
  <2>1. Index(t) = Sub(cfg.n) + 5 BY <1>17 DEF Index
  <2>2. Sub(cfg.n) + 5 \in Nat /\ Sub(cfg.n) + 5 \in 1 .. Steps(cfg.n) BY <1>0
  <2>3. PostConnect(Sub(cfg.n) + 5) = Item(<<"cover_set">>) BY <1>17, <2>2, Sequence DEF Sent
  <2> QED BY <1>17, <2>1, <2>2, <2>3
<1>3. ASSUME NEW r \in Relay, t = <<"disc", r>>
      PROVE  Index(t) \in 1 .. Steps(cfg.n) /\ PostConnect(Index(t)) = Item(t)
  <2>1. t[1] = "disc" /\ t[2] = r BY <1>3
  <2>2. r \in Nat /\ r < cfg.n BY <2>1 DEF Sent, Relay
  <2>3. Index(t) = r + 2 BY <2>1 DEF Index
  <2>4. r + 2 \in Nat /\ r + 2 \in 2 .. cfg.n + 1 /\ (r + 2) - 2 = r BY <2>2
  <2>5. Index(t) \in 1 .. Steps(cfg.n) BY <2>2, <2>3 DEF Steps
  <2> QED BY <2>3, <2>4, <2>5, <1>3, Sequence
<1>4. ASSUME NEW r \in Relay, t = <<"relay", r>>
      PROVE  Index(t) \in 1 .. Steps(cfg.n) /\ PostConnect(Index(t)) = Item(t)
  <2>1. t[1] = "relay" /\ t[2] = r BY <1>4
  <2>2. r \in Nat /\ r < cfg.n /\ ~Member(r) BY <2>1 DEF Sent, Relay
  <2>3. Index(t) = r + cfg.n + 2 BY <2>1 DEF Index
  <2> DEFINE i == r + cfg.n + 2
  <2>4. i \in Nat /\ i \in cfg.n + 2 .. 2 * cfg.n + 1 /\ i - cfg.n - 2 = r BY <2>2
  <2>5. Index(t) \in 1 .. Steps(cfg.n) BY <2>2, <2>3 DEF Steps
  <2> HIDE DEF i
  <2>6. PostConnect(i) = Item(<<"relay", i - cfg.n - 2>>) BY <2>2, <2>4, Sequence
  <2> QED BY <2>3, <2>4, <2>5, <2>6, <1>4 DEF i
<1> QED
  BY <1>3, <1>4, <1>11, <1>12, <1>13, <1>14, <1>15, <1>16, <1>17, TopicKinds DEF Subscriptions

-----------------------------------------------------------------------------
(* Types.                                                                  *)

LEMMA Numbers ==
  ASSUME TypeOK PROVE cfg.n \in Nat /\ field.n \in Nat /\ MaxRelays \in Nat
<1>1. cfg.n \in Counts /\ field.n \in Counts BY DEF TypeOK
<1>2. Counts \subseteq Nat /\ MaxRelays \in Nat BY CountsAssumption
<1> QED BY <1>1, <1>2

LEMMA ReloadedType ==
  ASSUME NEW f \in Field, cfg \in Settings
  PROVE  Reloaded(f) \in Field /\ Reloaded(f).n = f.n /\ Reloaded(f).valid = cfg.cover
BY DEF Reloaded, Field, Settings

LEMMA PublishedValue ==
  ASSUME NEW k \in Values, NEW t, NEW v, t = topic => v \in Values, NEW w \in Published(k, t, v)
  PROVE  w \in Values
BY DEF Published, Values

LEMMA InitType == Init => TypeOK
<1> SUFFICES ASSUME Init PROVE TypeOK OBVIOUS
<1>1. SessionTypeOK BY DEF Init, SessionInit, SessionTypeOK
<1>2. Kinds \subseteq BOOLEAN BY DEF Kinds
<1>3. cfg \in Settings BY <1>2 DEF Init, Settings
<1>4. field \in Field
  <2>1. cfg.n \in Counts /\ cfg.cover \in BOOLEAN BY <1>3 DEF Settings
  <2>2. [r \in Relay |-> FALSE] \in [Relay -> BOOLEAN] OBVIOUS
  <2>3. \A b \in BOOLEAN : [n |-> cfg.n, relay |-> [r \in Relay |-> FALSE], valid |-> cfg.cover,
                            moving |-> FALSE, level |-> b, prev |-> b] \in Field
    BY <2>1, <2>2 DEF Field
  <2> QED BY <2>3 DEF Init
<1>5. seq \in Sequencer /\ seq.step <= seq.max + 1 BY DEF Init, Sequencer
<1>6. edits \in 0 .. MaxEdits BY CountsAssumption DEF Init
<1>7. flags \in Requests /\ missed \in Requests BY DEF Init, Requests
<1> QED
  BY <1>1, <1>3, <1>4, <1>5, <1>6, <1>7
     DEF Init, TypeOK, Values, Settings, Field, Sequencer, Requests

\* What an item of the sequence makes of the watched topic.
LEMMA StepValue ==
  ASSUME cfg.n \in Nat, topic \in Topics, NEW i \in Nat, NEW m, m \in PostConnect(i),
         m.t = topic
  PROVE  m.v \in Values
<1>1. m.v = Said(topic) BY ItemSays
<1>2. Truth(topic) \in Values BY TruthValue
<1>3. Onoff(seq.snap) \in Values BY DEF Onoff, Values
<1> QED BY <1>1, <1>2, <1>3 DEF Said

LEMMA TypeNext == TypeOK /\ [Next]_vars => TypeOK'
<1> SUFFICES ASSUME TypeOK, [Next]_vars PROVE TypeOK' OBVIOUS
<1>0. /\ SessionTypeOK /\ cfg \in Settings /\ field \in Field /\ seq \in Sequencer
      /\ seq.step <= seq.max + 1 /\ topic \in Topics /\ kept \in Values
      /\ flags \in Requests /\ missed \in Requests /\ took \in BOOLEAN
      /\ at \in {"apply", "clear", "start", "again", "clear_again", "republish", "poll", "tick"}
      /\ form \in {"none", "io", "out", "mqtt"} /\ edits \in 0 .. MaxEdits
  BY DEF TypeOK, Settings, Field, Sequencer, Requests
<1>f. cfg.n \in Nat /\ cfg.n \in Counts /\ field.n \in Counts
  BY <1>0, Numbers DEF Settings, Field
<1> SUFFICES /\ SessionTypeOK' /\ cfg' \in Settings /\ field' \in Field /\ seq' \in Sequencer
             /\ seq'.step <= seq'.max + 1 /\ topic' \in Topics /\ kept' \in Values
             /\ flags' \in Requests /\ missed' \in Requests /\ took' \in BOOLEAN
             /\ at' \in {"apply", "clear", "start", "again", "clear_again", "republish", "poll", "tick"}
             /\ form' \in {"none", "io", "out", "mqtt"} /\ edits' \in 0 .. MaxEdits
  BY DEF TypeOK, Settings, Field, Sequencer, Requests
<1>e. Ended \in Values BY <1>0 DEF Ended, Values
<1>1. CASE Connect
  BY <1>0, <1>1 DEF Connect, Accept, Network, SessionTypeOK
<1>2. CASE Disconnect
  BY <1>0, <1>2, <1>e DEF Disconnect, Lose, Network, SessionTypeOK
<1>3. CASE MoveCover
  <2>1. field' \in Field BY <1>0, <1>3 DEF MoveCover, Field
  <2>2. Onoff(~field.moving) \in Values BY OnoffValue DEF Values
  <2>3. kept' \in Values BY <1>0, <1>3, <2>2, PublishedValue DEF MoveCover
  <2> QED BY <1>0, <1>3, <2>1, <2>3 DEF MoveCover, Handler, SessionTypeOK
<1>4. CASE Press
  <2>1. field' \in Field BY <1>0, <1>4 DEF Press, Field
  <2> QED BY <1>0, <1>4, <2>1 DEF Press, SessionTypeOK
<1>5. ASSUME NEW r \in Relay, NEW on \in BOOLEAN, SetRelay(r, on) PROVE TypeOK'
  <2> DEFINE f == [field EXCEPT !.relay[r] = IF r < field.n THEN on ELSE field.relay[r]]
  <2>1. f \in Field BY <1>0 DEF Field
  <2>2. Onoff(f.relay[r]) \in Values BY OnoffValue DEF Values
  <2>3. field' = f /\ kept' \in Published(kept, <<"relay", r>>, Onoff(f.relay[r]))
    BY <1>5 DEF SetRelay
  <2> HIDE DEF f
  <2>4. kept' \in Values BY <1>0, <2>2, <2>3, PublishedValue
  <2> QED
    BY <1>0, <1>5, <2>1, <2>3, <2>4
       DEF SetRelay, Handler, SessionTypeOK, TypeOK, Settings, Field, Sequencer, Requests
<1>6. ASSUME NEW g \in {"io", "out", "mqtt"}, NEW c \in Settings, Submit(g, c)
      PROVE  TypeOK'
  <2>1. edits' \in 0 .. MaxEdits BY <1>0, <1>6, CountsAssumption DEF Submit
  <2> QED
    BY <1>0, <1>6, <2>1
       DEF Submit, Handler, SessionTypeOK, TypeOK, Settings, Field, Sequencer, Requests
<1>7. CASE IOConfig
  <2>1. PICK n \in Counts, b \in Kinds : Submit("io", [cfg EXCEPT !.n = n, !.push = b])
    BY <1>7 DEF IOConfig
  <2>2. [cfg EXCEPT !.n = n, !.push = b] \in Settings BY <1>0 DEF Settings, Kinds
  <2> QED
    BY <1>6, <2>1, <2>2 DEF TypeOK, Settings, Field, Sequencer, Requests
<1>8. CASE OutCfg
  <2>2. [cfg EXCEPT !.cover = ~cfg.cover] \in Settings BY <1>0 DEF Settings
  <2> QED
    BY <1>6, <1>8, <2>2 DEF OutCfg, TypeOK, Settings, Field, Sequencer, Requests
<1>9. CASE MQTTConfig
  <2>2. [cfg EXCEPT !.broker = ~cfg.broker] \in Settings BY <1>0 DEF Settings
  <2> QED
    BY <1>6, <1>9, <2>2 DEF MQTTConfig, TypeOK, Settings, Field, Sequencer, Requests
<1>l. \A p \in BOOLEAN, q \in BOOLEAN : Late(p, q) \in Requests
  BY <1>0 DEF Late, Requests
<1>10. CASE IOConfigSaved
  <2>1. flags' \in Requests BY <1>10 DEF IOConfigSaved, Requests
  <2>2. missed' \in Requests BY <1>10, <1>l DEF IOConfigSaved
  <2> QED BY <1>0, <1>10, <2>1, <2>2 DEF IOConfigSaved, SessionTypeOK
<1>11. CASE OutCfgSaved
  <2>1. flags' \in Requests BY <1>0, <1>11 DEF OutCfgSaved, Requests
  <2>2. missed' \in Requests BY <1>11, <1>l DEF OutCfgSaved
  <2>3. field' \in Field BY <1>0, <1>11, ReloadedType DEF OutCfgSaved
  <2> QED BY <1>0, <1>11, <2>1, <2>2, <2>3 DEF OutCfgSaved, SessionTypeOK
<1>12. CASE MQTTConfigSaved
  <2>1. flags' \in Requests BY <1>0, <1>12 DEF MQTTConfigSaved, Requests
  <2>2. missed' \in Requests BY <1>12, <1>l DEF MQTTConfigSaved
  <2> QED BY <1>0, <1>12, <2>1, <2>2 DEF MQTTConfigSaved, SessionTypeOK
<1>13. CASE Look
  <2>1. took' \in BOOLEAN BY <1>0, <1>13 DEF Look, Requests
  <2>2. at' \in {"clear", "clear_again"} BY <1>13 DEF Look, Loop
  <2> QED BY <1>0, <1>13, <2>1, <2>2 DEF Look, Loop, SessionTypeOK
<1>14. CASE Clear
  <2>1. flags' \in Requests BY <1>0, <1>14 DEF Clear, Requests
  <2>2. at' \in {"start", "again", "republish", "poll"} BY <1>14 DEF Clear, Loop
  <2>3. took' = FALSE BY <1>14 DEF Clear
  <2> QED BY <1>0, <1>14, <2>1, <2>2, <2>3 DEF Clear, Loop, SessionTypeOK
<1>15. CASE Apply
  <2> DEFINE f == IF field.n = cfg.n THEN field
                  ELSE [field EXCEPT !.n = cfg.n, !.relay = [r \in Relay |-> FALSE]]
  <2>1. f \in Field BY <1>0, <1>f DEF Field
  <2>2. field' = Reloaded(f) BY <1>15 DEF Apply
  <2> HIDE DEF f
  <2>3. field' \in Field BY <1>0, <2>1, <2>2, ReloadedType
  <2>4. missed' \in Requests BY <1>0, <1>15 DEF Apply, Requests
  <2>5. kept' \in Values /\ SessionTypeOK'
    BY <1>0, <1>15, <1>e DEF Apply, Restart, SessionTypeOK
  <2> QED BY <1>0, <1>15, <2>3, <2>4, <2>5 DEF Apply, Loop
<1>16. CASE Republish
  <2>1. seq' \in Sequencer /\ seq'.step <= seq'.max + 1
    <3>1. [seq EXCEPT !.step = 1, !.snap = field.level] \in Sequencer
      BY <1>0 DEF Sequencer, Field
    <3>2. seq.max \in Nat BY <1>0 DEF Sequencer
    <3> QED BY <1>0, <1>16, <3>1, <3>2 DEF Republish, Sequencer
  <2>2. missed' \in Requests
    BY <1>0, <1>16 DEF Republish, Requests, SessionTypeOK
  <2> QED BY <1>0, <1>16, <2>1, <2>2 DEF Republish, Loop, SessionTypeOK
<1>17. CASE Poll
  <2>1. seq' \in Sequencer /\ seq'.step <= seq'.max + 1
    BY <1>0, <1>17 DEF Poll, Runs, Sequencer
  <2>2. field' \in Field BY <1>0, <1>17 DEF Poll, Field
  <2>3. \A s \in Scanned(kept) : s \in Values
    <3>1. Onoff(field.level) \in Values BY OnoffValue DEF Values
    <3> QED BY <1>0, <3>1, PublishedValue DEF Scanned
  <2>4. kept' \in Values
    <3>1. PICK s \in Scanned(kept) :
            \/ kept' = s
            \/ Runs /\ \E m \in PostConnect(seq.step) : kept' \in Published(s, m.t, m.v)
      BY <1>17 DEF Poll
    <3>2. ASSUME NEW m \in PostConnect(seq.step), kept' \in Published(s, m.t, m.v)
          PROVE  kept' \in Values
      <4>1. m.t = topic => m.v \in Values
        BY <1>0, <1>f, StepValue DEF Sequencer
      <4> QED BY <2>3, <3>2, <4>1, PublishedValue
    <3> QED BY <2>3, <3>1, <3>2
  <2> QED BY <1>0, <1>17, <2>1, <2>2, <2>4 DEF Poll, Loop, SessionTypeOK
<1>18. CASE Tick
  <2>1. SessionTypeOK' BY <1>0, <1>18 DEF Tick, SessionTick, SessionTypeOK
  <2>2. Steps(cfg.n) \in Nat /\ 1 <= Steps(cfg.n) + 1 BY <1>f DEF Steps
  <2>3. seq' \in Sequencer /\ seq'.step <= seq'.max + 1
    BY <1>0, <1>18, <2>2 DEF Tick, Sequencer, Field
  <2>4. kept' \in Values BY <1>0, <1>18, <1>e DEF Tick
  <2>5. missed' \in Requests
    BY <1>0, <1>18, <2>1 DEF Tick, Requests, SessionTypeOK
  <2> QED BY <1>0, <1>18, <2>1, <2>3, <2>4, <2>5 DEF Tick, Loop
<1>19. CASE SkipTick
  BY <1>0, <1>19 DEF SkipTick, Loop, SessionTypeOK
<1>20. CASE UNCHANGED vars
  BY <1>0, <1>20 DEF vars, SessionTypeOK
<1>21. CASE \E r \in Relay, on \in BOOLEAN : SetRelay(r, on)
  BY <1>5, <1>21 DEF TypeOK, Settings, Field, Sequencer, Requests
<1> QED
  BY <1>1, <1>2, <1>3, <1>4, <1>7, <1>8, <1>9, <1>10, <1>11, <1>12, <1>13, <1>14, <1>15,
     <1>16, <1>17, <1>18, <1>19, <1>20, <1>21 DEF Next

\* Every part of the configuration, the chain, the sequence and the broker keeps its range.
THEOREM TypeCorrect == Spec => []TypeOK
BY InitType, TypeNext, PTL DEF Spec

-----------------------------------------------------------------------------
(* The inductive invariant.  What the last form asks for is due until the  *)
(* loop has done it, or missed; while nothing is due, the sequence has its *)
(* length, and what it has passed holds the truth.                         *)

ApplyDue == form \in {"io", "mqtt"} \/ flags.apply \/ at = "start"
AgainDue == form \in {"io", "out"} \/ flags.again \/ at = "republish"

\* A flag that goes up between its read and its clearing is a request missed.
Unread ==
  /\ at = "clear" /\ ~took /\ flags.apply => missed.apply
  /\ at = "clear_again" /\ ~took /\ flags.again => missed.again

Built ==
  /\ ~ApplyDue /\ ~missed.apply => field.n = cfg.n
  /\ form # "out" => field.valid = cfg.cover

Current == ready /\ was /\ cfg.broker /\ ~ApplyDue /\ ~missed.apply
Settled == Current /\ ~AgainDue /\ ~missed.again

Holds(t) == kept \in {Truth(t), "lost"}

Told ==
  /\ Current => seq.max = Steps(cfg.n)
  /\ Settled /\ Index(topic) < seq.step /\ Relevant(topic) => Holds(topic)

IInv == TypeOK /\ Unread /\ Built /\ Told

LEMMA InitKeeps == Init => IInv
<1> SUFFICES ASSUME Init PROVE IInv OBVIOUS
<1>1. ready = FALSE /\ at = "apply" BY DEF Init, SessionInit
<1>2. field.n = cfg.n /\ field.valid = cfg.cover BY DEF Init
<1> QED BY <1>1, <1>2, InitType DEF IInv, Unread, Built, Told, Current, Settled

LEMMA UnreadNext ==
  ASSUME TypeOK, Unread, [Next]_vars PROVE Unread'
<1> USE DEF Unread, TypeOK
<1>1. CASE UNCHANGED vars BY <1>1 DEF vars
<1>2. CASE Connect \/ Disconnect \/ Press
  BY <1>2 DEF Connect, Disconnect, Press, Network
<1>3. CASE MoveCover \/ \E r \in Relay, on \in BOOLEAN : SetRelay(r, on)
  BY <1>3 DEF MoveCover, SetRelay, Handler
<1>4. CASE IOConfig \/ OutCfg \/ MQTTConfig
  <2>1. UNCHANGED <<at, took, missed, flags>>
    BY <1>4 DEF IOConfig, OutCfg, MQTTConfig, Submit, Handler
  <2> QED BY <2>1
<1>5. CASE IOConfigSaved BY <1>5 DEF IOConfigSaved, Late
<1>6. CASE OutCfgSaved BY <1>6 DEF OutCfgSaved, Late
<1>7. CASE MQTTConfigSaved BY <1>7 DEF MQTTConfigSaved, Late
<1>8. CASE Look BY <1>8 DEF Look, Loop
<1>9. CASE Clear BY <1>9 DEF Clear, Loop
<1>10. CASE Apply \/ Republish \/ Poll \/ Tick \/ SkipTick
  <2>1. at' \notin {"clear", "clear_again"}
    BY <1>10 DEF Apply, Republish, Poll, Tick, SkipTick, Loop
  <2> QED BY <2>1
<1> QED
  BY <1>1, <1>2, <1>3, <1>4, <1>5, <1>6, <1>7, <1>8, <1>9, <1>10 DEF Next

LEMMA BuiltNext ==
  ASSUME TypeOK, Unread, Built, [Next]_vars PROVE Built'
<1> USE DEF Built, ApplyDue
<1>1. CASE UNCHANGED vars BY <1>1 DEF vars
<1>2. CASE Connect \/ Disconnect BY <1>2 DEF Connect, Disconnect, Network
<1>3. CASE Press
  <2>1. field'.n = field.n /\ field'.valid = field.valid
    BY <1>3 DEF Press, TypeOK
  <2> QED BY <1>3, <2>1 DEF Press
<1>4. CASE MoveCover \/ \E r \in Relay, on \in BOOLEAN : SetRelay(r, on)
  <2>1. field'.n = field.n /\ field'.valid = field.valid
    BY <1>4 DEF MoveCover, SetRelay, TypeOK
  <2>2. UNCHANGED <<cfg, flags, form, missed, at>>
    BY <1>4 DEF MoveCover, SetRelay, Handler
  <2> QED BY <2>1, <2>2
<1>5. CASE IOConfig
  <2>1. form' = "io" /\ form = "none" /\ cfg'.cover = cfg.cover /\ field' = field
    BY <1>5 DEF IOConfig, Submit, Handler, TypeOK
  <2> QED BY <2>1
<1>6. CASE OutCfg
  <2>1. /\ form' = "out" /\ form = "none" /\ cfg'.n = cfg.n
        /\ UNCHANGED <<field, flags, at, missed>>
    BY <1>6 DEF OutCfg, Submit, Handler, TypeOK
  <2> QED BY <2>1
<1>7. CASE MQTTConfig
  <2>1. form' = "mqtt" /\ form = "none" /\ cfg'.cover = cfg.cover /\ field' = field
    BY <1>7 DEF MQTTConfig, Submit, Handler, TypeOK
  <2> QED BY <2>1
<1>8. CASE IOConfigSaved \/ MQTTConfigSaved
  <2>1. flags'.apply = TRUE
    <3>1. CASE IOConfigSaved BY <3>1 DEF IOConfigSaved
    <3>2. CASE MQTTConfigSaved BY <3>2 DEF MQTTConfigSaved, TypeOK
    <3> QED BY <1>8, <3>1, <3>2
  <2>2. UNCHANGED <<cfg, field>> /\ form # "out"
    BY <1>8 DEF IOConfigSaved, MQTTConfigSaved
  <2> QED BY <2>1, <2>2
<1>9. CASE OutCfgSaved
  <2>1. field'.n = field.n /\ (field'.valid = cfg.cover)
    BY <1>9, ReloadedType DEF OutCfgSaved, TypeOK, Field, Settings
  <2>2. flags'.apply = flags.apply /\ missed'.apply = missed.apply
    BY <1>9 DEF OutCfgSaved, Late, TypeOK
  <2> QED BY <1>9, <2>1, <2>2 DEF OutCfgSaved
<1>10. CASE Look
  <2>1. at # "start" /\ UNCHANGED <<cfg, field, flags, missed, form>>
    BY <1>10 DEF Look, Loop
  <2> QED BY <2>1
<1>11. CASE Clear
  <2>1. UNCHANGED <<cfg, field, missed, form>> BY <1>11 DEF Clear, Loop
  <2>2. ~ApplyDue' /\ ~missed'.apply => ~ApplyDue /\ ~missed.apply
    BY <1>11 DEF Clear, Loop, Unread, TypeOK
  <2> QED BY <2>1, <2>2
<1>12. CASE Apply
  <2> DEFINE f == IF field.n = cfg.n THEN field
                  ELSE [field EXCEPT !.n = cfg.n, !.relay = [r \in Relay |-> FALSE]]
  <2>1. f \in Field /\ f.n = cfg.n BY DEF Field, TypeOK
  <2>2. field' = Reloaded(f) /\ cfg' = cfg BY <1>12 DEF Apply, Loop
  <2> HIDE DEF f
  <2>3. field'.n = cfg.n /\ field'.valid = cfg.cover
    BY <2>1, <2>2, ReloadedType DEF TypeOK, Settings
  <2> QED BY <2>2, <2>3
<1>13. CASE Poll
  <2>1. field'.n = field.n /\ field'.valid = field.valid
    BY <1>13 DEF Poll, TypeOK
  <2> QED BY <1>13, <2>1 DEF Poll, Loop
<1>14. CASE Republish \/ Tick \/ SkipTick
  <2>1. /\ at # "start" /\ UNCHANGED <<cfg, field, flags, form>>
        /\ missed'.apply = missed.apply
    BY <1>14 DEF Republish, Tick, SkipTick, Loop, TypeOK
  <2> QED BY <2>1
<1> QED
  BY <1>1, <1>2, <1>3, <1>4, <1>5, <1>6, <1>7, <1>8, <1>9, <1>10, <1>11, <1>12, <1>13, <1>14
     DEF Next

-----------------------------------------------------------------------------
(* The sequence tells the truth.                                           *)

\* Nothing that Told speaks of moves, and no more is current or settled than was.
LEMMA Frame ==
  ASSUME Told, UNCHANGED <<cfg, field, seq, topic, kept>>,
         Current' => Current, Settled' => Settled
  PROVE  Told'
<1>1. Truth(topic)' = Truth(topic) BY DEF Truth, Member
<1>2. Index(topic)' = Index(topic) BY DEF Index, Sub
<1>3. Relevant(topic)' = Relevant(topic) BY DEF Relevant, Member
<1>4. Steps(cfg.n)' = Steps(cfg.n) BY DEF Steps
<1>5. (seq.max)' = seq.max /\ (seq.step)' = seq.step OBVIOUS
<1>6. Current' => (seq.max = Steps(cfg.n))' BY <1>4, <1>5 DEF Told
<1>7. Holds(topic) => Holds(topic)' BY <1>1 DEF Holds
<1>8. Settled' /\ Index(topic)' < seq'.step /\ Relevant(topic)' => Holds(topic)'
  BY <1>2, <1>3, <1>5, <1>7 DEF Told
<1> QED BY <1>6, <1>8 DEF Told

LEMMA IndexPositive ==
  ASSUME TypeOK PROVE Index(topic) \in Nat /\ Index(topic) >= 1
<1>1. cfg.n \in Nat BY Numbers
<1>2. topic \in Topics BY DEF TypeOK
<1>3. Sub(cfg.n) \in Nat /\ Sub(cfg.n) >= 2 BY <1>1 DEF Sub
<1>4. CASE \E r \in Relay : topic \in {<<"disc", r>>, <<"relay", r>>}
  <2>1. topic[2] \in Nat BY <1>4, Numbers DEF Relay
  <2>2. topic[1] \in {"disc", "relay"} BY <1>4
  <2> QED BY <1>1, <2>1, <2>2 DEF Index
<1>5. CASE topic[1] \notin {"disc", "relay"}
  BY <1>1, <1>3, <1>5 DEF Index
<1> QED BY <1>2, <1>4, <1>5, TopicKinds DEF Subscriptions

\* A command publishes what it does.
LEMMA CommandTells ==
  ASSUME TypeOK, Built, Told,
         MoveCover \/ \E r \in Relay, on \in BOOLEAN : SetRelay(r, on)
  PROVE  Told'
<1>0. UNCHANGED <<ready, was, cfg, topic, seq, flags, form, at, missed>>
  BY DEF MoveCover, SetRelay, Handler
<1>1. (Current' <=> Current) /\ (Settled' <=> Settled)
  BY <1>0 DEF Current, Settled, ApplyDue, AgainDue
<1>2. Current' => (seq.max = Steps(cfg.n))'
  BY <1>0, <1>1 DEF Told, Steps
<1>3. CASE MoveCover
  <2>1. topic = <<"cover">> /\ field' = [field EXCEPT !.moving = ~field.moving]
        /\ kept' \in Published(kept, topic, Onoff(~field.moving))
    BY <1>3 DEF MoveCover
  <2>2. field'.moving = ~field.moving BY <2>1 DEF TypeOK
  <2>3. Truth(topic)' = Onoff(~field.moving) BY <2>1, <2>2, <1>0 DEF Truth, Subscriptions
  <2>4. Settled' => Holds(topic)'
    BY <1>1, <2>1, <2>3 DEF Settled, Current, Published, Holds
  <2> QED BY <1>2, <2>4 DEF Told
<1>4. ASSUME NEW r \in Relay, NEW on \in BOOLEAN, SetRelay(r, on) PROVE Told'
  <2> DEFINE f == [field EXCEPT !.relay[r] = IF r < field.n THEN on ELSE field.relay[r]]
  <2>1. /\ topic = <<"relay", r>> /\ field' = f /\ r < cfg.n
        /\ kept' \in Published(kept, topic, Onoff(f.relay[r]))
    BY <1>4 DEF SetRelay
  <2>2. f.n = field.n BY DEF TypeOK
  <2>3. topic[1] = "relay" /\ topic[2] = r BY <2>1
  <2> HIDE DEF f
  <2>4. Truth(topic)' = Onoff(r < f.n /\ f.relay[r])
    BY <1>0, <2>1, <2>3 DEF Truth, Subscriptions
  <2>5. Settled' => r < f.n
    BY <1>1, <2>1, <2>2 DEF Settled, Current, Built
  <2>6. Settled' => Holds(topic)'
    BY <1>1, <2>1, <2>4, <2>5 DEF Settled, Current, Published, Holds, Onoff
  <2> QED BY <1>2, <2>6 DEF Told
<1> QED BY <1>3, <1>4

\* A turn of the loop publishes the change of a switch and one item of the sequence.
LEMMA PollTells ==
  ASSUME TypeOK, Told, Poll PROVE Told'
<1>0. /\ UNCHANGED <<ready, was, cfg, topic, flags, form, missed>>
      /\ at = "poll" /\ at' = "tick"
      /\ field' = [field EXCEPT !.prev = field.level]
      /\ seq' = [seq EXCEPT !.step = IF ~ready THEN 0 ELSE IF Runs THEN seq.step + 1 ELSE seq.step]
  BY DEF Poll, Loop
<1>1. (Current' <=> Current) /\ (Settled' <=> Settled)
  BY <1>0 DEF Current, Settled, ApplyDue, AgainDue
<1>2. seq'.max = seq.max /\ seq'.snap = seq.snap BY <1>0 DEF TypeOK
<1>3. Current' => (seq.max = Steps(cfg.n))'
  BY <1>0, <1>1, <1>2 DEF Told, Steps
<1>4. SUFFICES ASSUME Settled, Index(topic)' < seq'.step, Relevant(topic)'
               PROVE  Holds(topic)'
  BY <1>1, <1>3 DEF Told
<1> DEFINE i == seq.step
<1>5. ready BY <1>4 DEF Settled, Current
<1>6. cfg.n \in Nat /\ MaxRelays \in Nat /\ i \in Nat /\ topic \in Topics
  BY Numbers DEF TypeOK
<1>7. Index(topic) \in Nat /\ Index(topic)' = Index(topic)
  BY <1>0, IndexPositive DEF Index, Sub
<1>8. field'.prev = field.level /\ field'.valid = field.valid /\ field'.n = field.n
      /\ field'.relay = field.relay /\ field'.moving = field.moving
  BY <1>0 DEF TypeOK
<1>9. Sent(topic) BY <1>0, <1>4, <1>8 DEF Relevant, Sent, Member
<1>10. topic = <<"input">> => ~cfg.push /\ seq.snap = field.level
  BY <1>0, <1>2, <1>4, <1>8 DEF Relevant
<1>11. Truth(topic)' = Said(topic)
  <2>1. CASE topic = <<"input">>
    <3>1. Truth(topic)' = Onoff(field'.prev) BY <1>0, <2>1 DEF Truth, Subscriptions
    <3> QED BY <1>8, <1>10, <2>1, <3>1 DEF Said
  <2>2. CASE topic # <<"input">>
    <3>1. Truth(topic)' = Truth(topic) BY <1>0, <1>8, <2>2 DEF Truth, Member
    <3> QED BY <2>2, <3>1 DEF Said
  <2> QED BY <2>1, <2>2
<1>12. PICK s \in Scanned(kept) :
         \/ (~Runs \/ PostConnect(i) = {}) /\ kept' = s
         \/ Runs /\ \E m \in PostConnect(i) : kept' \in Published(s, m.t, m.v)
  BY DEF Poll
<1>13. Index(topic) < i => s \in {Said(topic), "lost"}
  <2> SUFFICES ASSUME Index(topic) < i PROVE s \in {Said(topic), "lost"} OBVIOUS
  <2>1. CASE topic = <<"input">> /\ field.level # field.prev
    <3>1. Scanned(kept) = {Onoff(field.level), "lost"}
      BY <1>5, <1>10, <2>1 DEF Scanned, Published
    <3> QED BY <1>10, <1>12, <2>1, <3>1 DEF Said
  <2>2. CASE ~(topic = <<"input">> /\ field.level # field.prev)
    <3>1. s = kept BY <1>12, <2>2 DEF Scanned, Published
    <3>2. Relevant(topic) BY <1>9, <1>10, <2>2 DEF Relevant, Sent
    <3>3. Holds(topic) BY <1>4, <3>2 DEF Told
    <3>4. Truth(topic) = Said(topic)
      <4>1. CASE topic = <<"input">>
        <5>1. Truth(topic) = Onoff(field.prev) BY <4>1 DEF Truth, Subscriptions
        <5> QED BY <1>10, <2>2, <4>1, <5>1 DEF Said
      <4> QED BY <4>1 DEF Said
    <3> QED BY <3>1, <3>3, <3>4 DEF Holds
  <2> QED BY <2>1, <2>2
<1>14. Index(topic) < i \/ (Runs /\ Index(topic) = i)
  <2>1. CASE Runs
    <3>1. seq'.step = i + 1 BY <1>0, <1>5, <1>6, <2>1 DEF TypeOK
    <3> QED BY <1>4, <1>6, <1>7, <2>1, <3>1
  <2>2. CASE ~Runs
    <3>1. seq'.step = i BY <1>0, <1>5, <1>6, <2>2 DEF TypeOK
    <3> QED BY <1>4, <1>7, <3>1
  <2> QED BY <2>1, <2>2
<1>15. Index(topic) = i => PostConnect(i) = Item(topic) BY <1>6, <1>9, ItemDue
<1> HIDE DEF i
<1>16. CASE (~Runs \/ PostConnect(i) = {}) /\ kept' = s
  <2>1. Index(topic) # i \/ ~Runs BY <1>15, <1>16 DEF Item
  <2> QED BY <1>11, <1>13, <1>14, <1>16, <2>1 DEF Holds
<1>17. ASSUME NEW m, m \in PostConnect(i), kept' \in Published(s, m.t, m.v)
       PROVE  Holds(topic)'
  <2>1. m.v = Said(m.t) BY <1>6, <1>17, ItemSays
  <2>2. CASE m.t = topic
    BY <1>5, <1>11, <1>17, <2>1, <2>2 DEF Published, Holds
  <2>3. CASE m.t # topic
    <3>1. Index(topic) # i BY <1>15, <1>17, <2>3 DEF Item
    <3>2. kept' = s BY <1>17, <2>3 DEF Published
    <3> QED BY <1>11, <1>13, <1>14, <3>1, <3>2 DEF Holds
  <2> QED BY <2>2, <2>3
<1> QED BY <1>12, <1>16, <1>17

LEMMA ToldNext ==
  ASSUME TypeOK, Unread, Built, Told, [Next]_vars PROVE Told'
<1> USE DEF Current, Settled, ApplyDue, AgainDue
<1>0. ~Current' => Told' BY DEF Told
<1>1. CASE UNCHANGED vars
  <2>1. UNCHANGED <<ready, was, cfg, field, seq, topic, kept, flags, at, form, missed>>
    BY <1>1 DEF vars
  <2> QED BY <2>1, Frame
<1>2. CASE Connect \/ Disconnect
  BY <1>0, <1>2 DEF Connect, Accept, Disconnect, Lose
<1>3. CASE Press
  <2>0. UNCHANGED <<ready, was, cfg, seq, topic, kept, flags, at, form, missed>>
    BY <1>3 DEF Press
  <2>1. topic = <<"input">> /\ field'.prev = field.prev /\ field'.valid = field.valid
    BY <1>3 DEF Press, TypeOK
  <2>2. Truth(topic)' = Truth(topic) BY <2>0, <2>1 DEF Truth, Subscriptions
  <2>3. Relevant(topic)' = Relevant(topic) BY <2>0, <2>1 DEF Relevant, Member
  <2>4. Index(topic)' = Index(topic) BY <2>0 DEF Index, Sub
  <2>5. Holds(topic) => Holds(topic)' BY <2>0, <2>2 DEF Holds
  <2>6. (Current' <=> Current) /\ (Settled' <=> Settled) BY <2>0
  <2>7. Steps(cfg.n)' = Steps(cfg.n) BY <2>0 DEF Steps
  <2> HIDE DEF Current, Settled
  <2> QED BY <2>0, <2>3, <2>4, <2>5, <2>6, <2>7 DEF Told
<1>4. CASE MoveCover \/ \E r \in Relay, on \in BOOLEAN : SetRelay(r, on)
  BY <1>4, CommandTells
<1>5. CASE IOConfig \/ MQTTConfig
  <2>1. form' \in {"io", "mqtt"} BY <1>5 DEF IOConfig, MQTTConfig, Submit
  <2> QED BY <1>0, <2>1
<1>6. CASE OutCfg
  <2>1. form' = "out" /\ form = "none" /\ UNCHANGED <<ready, was, flags, at, missed, seq>>
    BY <1>6 DEF OutCfg, Submit, Handler
  <2>2. cfg'.n = cfg.n /\ cfg'.broker = cfg.broker
    BY <1>6 DEF OutCfg, Submit, TypeOK
  <2>3. ~Settled' /\ (Current' => Current) BY <2>1, <2>2
  <2>4. Steps(cfg.n)' = Steps(cfg.n) BY <2>2 DEF Steps
  <2> HIDE DEF Current, Settled
  <2> QED BY <2>1, <2>3, <2>4 DEF Told
<1>7. CASE IOConfigSaved
  <2>1. flags'.apply = TRUE BY <1>7 DEF IOConfigSaved
  <2> QED BY <1>0, <2>1
<1>8. CASE MQTTConfigSaved
  <2>1. flags'.apply = TRUE BY <1>8 DEF MQTTConfigSaved, TypeOK
  <2> QED BY <1>0, <2>1
<1>9. CASE OutCfgSaved
  <2>1. flags'.apply = flags.apply /\ flags'.again = TRUE /\ missed'.apply = missed.apply
    BY <1>9 DEF OutCfgSaved, Late, TypeOK
  <2>2. form = "out" /\ UNCHANGED <<ready, was, at, cfg, seq>> BY <1>9 DEF OutCfgSaved
  <2>3. ~Settled' /\ (Current' => Current) BY <2>1, <2>2
  <2>4. Steps(cfg.n)' = Steps(cfg.n) BY <2>2 DEF Steps
  <2> HIDE DEF Current, Settled
  <2> QED BY <2>2, <2>3, <2>4 DEF Told
<1>10. CASE Look
  <2>1. /\ UNCHANGED <<ready, was, cfg, field, seq, topic, kept, flags, missed, form>>
        /\ at \in {"apply", "again"}
    BY <1>10 DEF Look, Loop
  <2>2. (Current' => Current) /\ (Settled' => Settled) BY <2>1
  <2> QED BY <2>1, <2>2, Frame
<1>11. CASE Clear
  <2>1. UNCHANGED <<ready, was, cfg, field, seq, topic, kept, missed, form>>
    BY <1>11 DEF Clear, Loop
  <2>2. CASE at = "clear"
    <3>1. at' = (IF took THEN "start" ELSE "again") /\ flags'.again = flags.again
      BY <1>11, <2>2 DEF Clear, Loop, TypeOK
    <3>2. CASE took BY <1>0, <3>1, <3>2
    <3>3. CASE ~took
      <4>1. flags.apply => missed.apply BY <2>2, <3>3 DEF Unread
      <4>2. (Current' => Current) /\ (Settled' => Settled) BY <2>1, <2>2, <3>1, <3>3, <4>1
      <4> QED BY <2>1, <4>2, Frame
    <3> QED BY <3>2, <3>3
  <2>3. CASE at = "clear_again"
    <3>1. at' = (IF took THEN "republish" ELSE "poll") /\ flags'.apply = flags.apply
      BY <1>11, <2>3 DEF Clear, Loop, TypeOK
    <3>2. ~took => (flags.again => missed.again) BY <2>3 DEF Unread
    <3>3. (Current' => Current) /\ (Settled' => Settled)
      BY <2>1, <2>3, <3>1, <3>2
    <3> QED BY <2>1, <3>3, Frame
  <2> QED BY <1>11, <2>2, <2>3 DEF Clear, Loop
<1>12. CASE Apply
  BY <1>0, <1>12 DEF Apply, Loop, Restart
<1>13. CASE Republish
  <2>1. UNCHANGED <<ready, was, cfg, flags, form, topic>> /\ at = "republish"
        /\ missed'.apply = missed.apply
    BY <1>13 DEF Republish, Loop, TypeOK
  <2>2. CASE ready
    <3>1. seq'.step = 1 /\ seq'.max = seq.max
      BY <1>13, <2>2 DEF Republish, TypeOK
    <3>2. Current' => Current BY <2>1
    <3>3. ~(Index(topic)' < seq'.step)
      <4>1. Index(topic)' = Index(topic) BY <2>1 DEF Index, Sub
      <4> QED BY <3>1, <4>1, IndexPositive
    <3>4. Steps(cfg.n)' = Steps(cfg.n) BY <2>1 DEF Steps
    <3> HIDE DEF Current, Settled
    <3> QED BY <3>1, <3>2, <3>3, <3>4 DEF Told
  <2>3. CASE ~ready BY <1>0, <2>1, <2>3
  <2> QED BY <2>2, <2>3
<1>14. CASE Poll BY <1>14, PollTells
<1>15. CASE Tick
  <2>1. UNCHANGED <<cfg, flags, form, topic, field>> /\ at = "tick" /\ at' = "apply"
        /\ missed'.apply = missed.apply
    BY <1>15 DEF Tick, Loop, TypeOK
  <2>2. ready' \in {ready, FALSE} /\ ready \in BOOLEAN /\ was \in BOOLEAN
    BY <1>15 DEF Tick, SessionTick, TypeOK, SessionTypeOK
  <2>3. CASE ~ready' BY <1>0, <2>3
  <2>4. CASE ready' /\ ~was
    <3>1. seq' = [step |-> 1, max |-> Steps(cfg.n), snap |-> field.level]
      BY <1>15, <2>4 DEF Tick
    <3>2. seq'.step = 1 /\ seq'.max = Steps(cfg.n) BY <3>1
    <3>3. ~(Index(topic)' < seq'.step)
      <4>1. Index(topic)' = Index(topic) BY <2>1 DEF Index, Sub
      <4> QED BY <3>2, <4>1, IndexPositive
    <3>4. Steps(cfg.n)' = Steps(cfg.n) BY <2>1 DEF Steps
    <3> QED BY <3>2, <3>3, <3>4 DEF Told
  <2>5. CASE ready' /\ was
    <3>1. seq' = seq /\ kept' = kept /\ ready
      BY <1>15, <2>2, <2>5 DEF Tick
    <3>2. missed'.again = missed.again
      BY <1>15, <2>5 DEF Tick, TypeOK
    <3>3. (Current' => Current) /\ (Settled' => Settled) BY <2>1, <2>5, <3>1, <3>2
    <3> QED BY <2>1, <3>1, <3>3, Frame
  <2> QED BY <2>3, <2>4, <2>5
<1>16. CASE SkipTick
  <2>1. UNCHANGED <<ready, was, cfg, field, seq, topic, kept, flags, missed, form>>
        /\ at = "tick"
    BY <1>16 DEF SkipTick, Loop
  <2> QED BY <2>1, <1>16, Frame DEF SkipTick, Loop
<1> QED
  BY <1>1, <1>2, <1>3, <1>4, <1>5, <1>6, <1>7, <1>8, <1>9, <1>10, <1>11, <1>12, <1>13,
     <1>14, <1>15, <1>16 DEF Next

\* Once the sequence has run to its end and nothing is pending or missed, the broker holds
\* the truth of every topic, but for what could not be sent (ha_mqtt.c:574-666).
THEOREM Announces == Spec => []Synced
<1>1. IInv /\ [Next]_vars => IInv'
  BY TypeNext, UnreadNext, BuiltNext, ToldNext DEF IInv
<1>2. IInv => Synced
  <2> SUFFICES ASSUME IInv, Done, ~Pending, ~Missed, cfg.broker, Relevant(topic)
               PROVE  kept \in {Truth(topic), "lost"}
    BY DEF Synced
  <2>1. Settled
    BY DEF Settled, Current, ApplyDue, AgainDue, Done, Pending, Missed
  <2>2. Index(topic) \in 1 .. Steps(cfg.n)
    <3>1. Sent(topic) BY DEF Sent, Relevant
    <3> QED BY <3>1, Numbers, ItemDue DEF IInv, TypeOK
  <2>3. Index(topic) < seq.step
    <3>1. seq.max = Steps(cfg.n) BY <2>1 DEF IInv, Told, Settled
    <3>2. seq.step \in Nat /\ seq.max \in Nat /\ seq.step > seq.max
      BY DEF IInv, TypeOK, Done
    <3> QED BY <2>2, <3>1, <3>2
  <2> QED BY <2>1, <2>3 DEF IInv, Told, Holds
<1> QED BY <1>1, <1>2, InitKeeps, PTL DEF Spec
=============================================================================
