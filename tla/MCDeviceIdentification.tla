----------------------- MODULE MCDeviceIdentification -----------------------
(***************************************************************************)
(* Two basic, one regular and three extended objects; a page holds one     *)
(* object of the greatest length or three empty ones.  buffers_count has   *)
(* four values, so that it passes from 0 below 0 within one call.          *)
(***************************************************************************)
EXTENDS DeviceIdentification
=============================================================================
