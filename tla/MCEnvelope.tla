----------------------------- MODULE MCEnvelope -----------------------------
(* Lengths at the edges of the checks: payloads around the limit of 256    *)
(* and of the preimage, with a high byte in their length, signatures of    *)
(* and off the usual length, requests cut short in every field, lengths    *)
(* declared that the request does not have, echoes as long as the buffer   *)
(* and longer.  No counter of 2^31 or more can come about: TLC's integers  *)
(* end there.  Preimages were also signed for keys a byte shorter and      *)
(* longer, and payloads that make up for the byte.                         *)
EXTENDS Envelope

Fill(k, b) == [i \in 1 .. k |-> b]

MCDevicePub == Fill(32, 1)

MCSigned ==
  [direction : {kDirRequest, kDirResponse}, counter : {0, 1, 257, 66051},
   key : {MCDevicePub, Fill(31, 1), Fill(33, 1)},
   payload : {<<>>, <<7>>, <<1, 7>>, <<0, 32>>, <<5, 0, 32>>, <<1, 5, 0, 32>>}]

MCRequests ==
  {[counter |-> 66051, payload |-> p, sig |-> Fill(64, 2)] :
     p \in {<<>>, <<5, 0, 32>>, Fill(256, 0), Fill(257, 3), Fill(648, 1)}}
  \cup {[counter |-> 1, payload |-> <<7>>, sig |-> s] : s \in {<<>>, Fill(258, 1)}}

MCMessages ==
  {<<>>, <<9>>, <<0, 0>>, <<0, 0, 0>>, <<0, 1, 0>>, <<0, 127, 255>>,
   <<2, 0, 0, 0, 1, 0>>, <<2, 0, 0, 0, 1, 0, 1>>, <<2, 0, 0, 0, 1, 255, 255>>,
   <<2, 0, 0, 0, 1, 0, 1, 7>>, <<2, 0, 0, 0, 1, 0, 1, 7, 0>>,
   <<2, 0, 0, 0, 1, 0, 1, 7, 0, 1>>, <<2, 0, 0, 0, 1, 0, 1, 7, 255, 255>>,
   <<5, 0>>, <<5, 0, 0>>, <<5, 0, 32>> \o Fill(31, 4), <<5, 0, 32>> \o Fill(32, 4),
   <<255>>, <<255>> \o Fill(511, 1), <<255>> \o Fill(512, 1)}
=============================================================================
