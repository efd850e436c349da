-------------------------- MODULE MCResponseStream --------------------------
(* Messages of up to two units are put together of packets of one or three   *)
(* units, so that a message fits exactly, is too large by one packet, or has  *)
(* one packet that is too large.  Requests are cut at two units.              *)
EXTENDS ResponseStream

MCPacketSizes  == {1, 3}
MCRequestSizes == {0, 3, 4}
=============================================================================
