------------------------- MODULE MCLevinConnection -------------------------
(* Instances of LevinConnection: two calls of which one is sent in two chunks, a call while the    *)
(* peer sends a command, one under the speed limit with a requested callback, and HTTP.             *)
EXTENDS LevinConnection

CONSTANTS c1, c2

MCChunks == [c \in Calls |-> IF c = c1 THEN 2 ELSE 1]

Setting(type, ssl, pauses, calls, commands, callbacks) ==
  [type |-> type, ssl |-> ssl, pauses |-> pauses, calls |-> calls, commands |-> commands, callbacks |-> callbacks]

MCSettings ==
  { Setting("P2P", "off", FALSE, {c1, c2}, 0, 0),
    Setting("P2P", "off", FALSE, {c1}, 1, 0),
    Setting("P2P", "off", TRUE, {c2}, 0, 1) }
  \cup { Setting("RPC", ssl, FALSE, {}, 2, 0) : ssl \in {"off", "auto", "on"} }
=============================================================================
