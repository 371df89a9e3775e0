------------------------------ MODULE MCDecoder ------------------------------
(* Two logs: every pair of events, in one transaction or two, each with     *)
(* every sample, from its own contract or from another.                     *)
EXTENDS Decoder

AllSamples == 1..5
=============================================================================
