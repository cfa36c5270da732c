----------------------------- MODULE MCDurableSink -----------------------------
(* Instances of DurableSink for TLC.                                       *)
EXTENDS DurableSink, TLC

SenderSymmetry == Permutations(Senders) \cup Permutations(Events)
=============================================================================
