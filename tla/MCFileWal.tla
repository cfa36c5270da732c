------------------------------- MODULE MCFileWal -------------------------------
(* Instances of FileWal for TLC.                                           *)
EXTENDS FileWal, TLC

AppenderSymmetry == Permutations(Appenders)
=============================================================================
