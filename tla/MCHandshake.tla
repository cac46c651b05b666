------------------------------ MODULE MCHandshake ------------------------------
EXTENDS Handshake, TLC
CONSTANTS a, b
Sends == a :> {"open", "send"} @@ b :> {"sync"}
Resends == a :> {"send"} @@ b :> {"sync"}
=============================================================================
