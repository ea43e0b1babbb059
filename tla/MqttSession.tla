---------------------------- MODULE MqttSession ----------------------------
(***************************************************************************)
(* What the MQTT client promises to the product: a session that a broker   *)
(* has accepted is announced by a tick, and a new one is not accepted      *)
(* before a tick or a restart has taken note that the last one has ended.  *)
(***************************************************************************)
VARIABLES
  ready,  \* a broker has accepted the session (MQTTClientIsReady)
  was     \* the tick has taken note of it (g_bWasConnected)

sessionVars == <<ready, was>>

SessionTypeOK == ready \in BOOLEAN /\ was \in BOOLEAN

SessionInit == ready = FALSE /\ was = FALSE

Accept == ~ready /\ ~was /\ ready' = TRUE /\ was' = FALSE

Lose == ready /\ ready' = FALSE /\ was' = was

\* The tick may itself find that the session is dead.
SessionTick == ready' \in {ready, FALSE} /\ was' = ready'

Restart == ready' = FALSE /\ was' = FALSE

SessionNext == Accept \/ Lose \/ SessionTick \/ Restart

SessionSpec == SessionInit /\ [][SessionNext]_sessionVars
=============================================================================
