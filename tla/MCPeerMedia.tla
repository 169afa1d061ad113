---------------------------- MODULE MCPeerMedia ----------------------------
(***************************************************************************)
(* PeerMedia for TLC: ana publishes; caio receives on the same Worker and  *)
(* bia on another one.                                                     *)
(***************************************************************************)
EXTENDS PeerMedia

CONSTANTS ana, bia, caio, w1, w2

MCHome == [p \in Peers |-> IF p = bia THEN w2 ELSE w1]
MCUses == {<<ana, "send">>, <<bia, "recv">>, <<caio, "recv">>}
MCMaxSessions == [p \in Peers |-> IF p = bia THEN 2 ELSE 1]
=============================================================================
