----------------------------- MODULE MCLoaderJobs -----------------------------
(* Instances of LoaderJobs for TLC.                                        *)
EXTENDS LoaderJobs

(* Rows that parse throughout, one malformed row in the middle, and so     *)
(* many that the reader gives up.                                          *)
MCFiles == {<<TRUE, TRUE, TRUE>>, <<TRUE, FALSE, TRUE, TRUE>>, <<TRUE, FALSE, FALSE, TRUE>>}
MCWholeFile == {<<TRUE, TRUE, TRUE>>}
=============================================================================
