----------------------------- MODULE MCNetWifi -----------------------------
(* The Wi-Fi roles with a few faults and requests.                         *)
EXTENDS NetWifi
=============================================================================
