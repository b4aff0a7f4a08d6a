---------------------------- MODULE MCNmbsServer ----------------------------
(***************************************************************************)
(* NmbsServer, addressed as unit 1, with unit 2 on the same line: every    *)
(* handler, lengths on both sides of a limit and of the buffer's end, an   *)
(* FC 16 request with an odd byte, an FC 21 request whose record is longer *)
(* than the request, requests and replies of unit 2 (an FC 21 reply is its *)
(* request), and payloads that look like the beginning of a request.       *)
(***************************************************************************)
EXTENDS NmbsServer

Requests == {<<0, 6, 1>>, <<1, 16, 2, 3, 3>>, <<1, 21, 1, 0>>}
Unsound == {<<1, 16, 1, 3>>, <<1, 21, 1, 1>>}
Unsupported == {<<1, 7>>}
OthersTraffic == {<<2, 3, 1>>, <<2, 21, 2, 1, 3>>}
MCFrames == Requests \cup Unsound \cup Unsupported \cup OthersTraffic

ASSUME MCFramesWellSized == WellSized
=============================================================================
