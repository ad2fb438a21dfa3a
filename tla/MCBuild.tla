------------------------------- MODULE MCBuild -------------------------------
(* An instance of Build.  Runs are interchangeable, and so are binaries. *)
EXTENDS Build, TLC

Interchangeable == Permutations(Builds) \cup Permutations(Uploads)
==============================================================================
