---------------------------- MODULE MCAudioMixer ----------------------------
(***************************************************************************)
(* The audio threads for TLC.                                              *)
(***************************************************************************)
EXTENDS AudioMixer

MCKind == [d \in Devices |-> d]

Setup(cs, st, capt) == [channels |-> cs, state |-> st, capturing |-> capt]

\* The devices one by one with all that follows the mixer, and two at a time
\* without it.
MCSetups ==
    {Setup({"gus"}, "On", TRUE), Setup({"reelmagic"}, "On", FALSE), Setup({"midi"}, "On", FALSE),
     Setup({"gus", "midi"}, "NoSound", FALSE), Setup({"gus", "reelmagic"}, "NoSound", FALSE),
     Setup({"dac", "speaker"}, "NoSound", FALSE)}
=============================================================================
