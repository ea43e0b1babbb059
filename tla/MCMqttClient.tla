---------------------------- MODULE MCMqttClient ----------------------------
(* The instances TLC checks take plain values for the constants of         *)
(* MqttClient.                                                             *)
EXTENDS MqttClient
=============================================================================
