----------------------------- MODULE MCMqttSource -----------------------------
(***************************************************************************)
(* A dock with the OSD topic 1 and the events topic 2, a drone with the    *)
(* OSD topic 3, and two drones the dock may announce.  Delays 1, 2, 3.     *)
(***************************************************************************)
EXTENDS MqttSource

MCDockTopics == {1, 2}
MCDroneTopics == {3}
MCDrones == {"d1", "d2"}
=============================================================================
