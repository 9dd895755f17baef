---------------------------- MODULE MCDBusCall ----------------------------
(* Four calls, Hello among them: two can be given up before the one that   *)
(* must not be handed their replies.                                       *)
EXTENDS DBusCall
=============================================================================
