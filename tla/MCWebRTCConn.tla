---------------------------- MODULE MCWebRTCConn ----------------------------
(* The root module of the runs of WebRTCConn. *)
EXTENDS WebRTCConn
=============================================================================
