--------------------------- MODULE MCProjectImport ---------------------------
(***************************************************************************)
(* One project, one request at a time, and two imports at any moment.      *)
(***************************************************************************)
EXTENDS ProjectImport, TLC

CONSTANTS t1, t2

\* No batches: what is saved in part is the matter of MCBuildPatch.
SmallRequests == {<<t1>>, <<t2>>}

ImportSymmetry == Permutations(Imports)
=============================================================================
