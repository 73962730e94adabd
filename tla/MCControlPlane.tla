--------------------------- MODULE MCControlPlane ---------------------------
(***************************************************************************)
(* Three runs of espnowcontrol: enough for a device to be announced while  *)
(* one client waits for it, another for something else, and a third comes  *)
(* or goes.                                                                *)
(***************************************************************************)
EXTENDS ControlPlane

CONSTANTS c1, c2, c3

MCClients == {c1, c2, c3}

MCFiles == {"ttyACM0"}

MCCommands ==
  LET add  == [action |-> "add", file |-> "ttyACM0"]
      gone == [action |-> "add", file |-> "gone"]
      ask  == [action |-> "statistics", id |-> 0]
      list == [action |-> "list"]
  IN  [c \in MCClients |-> IF c = c1 THEN {add}
                           ELSE IF c = c2 THEN {add, list}
                           ELSE {gone, ask}]
=============================================================================
