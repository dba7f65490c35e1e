---------------------------- MODULE MCNetworking ----------------------------
(* Bytes of two values: headers for up to three bytes, all three lengths. *)
EXTENDS Networking

MCFrame == {<<1>>, <<0, 1>>, <<1, 1, 0>>}
=============================================================================
