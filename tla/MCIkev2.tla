------------------------------ MODULE MCIkev2 ------------------------------
(* Instances of Ikev2 for TLC. *)
EXTENDS Ikev2

AllVerdicts == {"ok", "init", "auth", "ts", "child"}
AllCommands == {"initiate", "rekey", "del_child", "del_ike_A", "del_ike_B", "cut"}
Draws == [p \in Peers |-> IF p = "A" THEN 3 ELSE 4]
Reqs == [p \in Peers |-> IF p = "A" THEN 4 ELSE 1]
=============================================================================
