-------------------------- MODULE MCLandlordsProto --------------------------
(***************************************************************************)
(* The messages with values of one, two and ten bytes on the wire.         *)
(***************************************************************************)
EXTENDS LandlordsProto

\* the default, a value of two bytes and a negative one
WireValues == {0, 200, -1}
=============================================================================
