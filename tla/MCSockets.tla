------------------------------ MODULE MCSockets ------------------------------
(* Sockets with the trees that its messages carry in node mode.            *)
EXTENDS Sockets, TreeCodec

(* The bytes that the server has counted before it calls deserialize are   *)
(* a whole serialized tree: the length that both sides compute for the     *)
(* round is the one serialize fills, so that deserialize, which has no     *)
(* bound, stops at the last of them and allocates as many nodes as the     *)
(* client's tree has.                                                      *)
MessageDecodes ==
  spc = "send" /\ mode = "node" /\ ~split =>
    LET trees == Built(message[1] * Inc, "0")
        list == Serialize(BuildTree(message[1] * Inc, "0"), {trees[n] : n \in DOMAIN trees})
    IN Deserialize(list, 1) = [next |-> Len(message) + 1, nodes |-> si * Inc]
=============================================================================
