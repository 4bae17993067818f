--------------------------- MODULE MCPeerTransport ---------------------------
(* Three callers, two requests and a channel of two events: a third caller  *)
(* waits for room, and the peer can answer in reverse order.               *)
EXTENDS PeerTransport

CONSTANTS c1, c2, c3, r1, r2

MCCallers == {c1, c2, c3}
MCRequests == {r1, r2}


=============================================================================
