----------------------------- MODULE MCUdpVideo -----------------------------
(* Streams for the UDP video path: access units of one, two and three      *)
(* datagrams, and one that is too long for a three-chunk buffer.           *)
EXTENDS UdpVideo

ShortStream == <<1, 3, 6>>
MixedStream == <<1, 3, 4, 7>>
=============================================================================
