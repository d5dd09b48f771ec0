---------------------------- MODULE MCBuildPatch ----------------------------
(***************************************************************************)
(* One project, two clients, two requests in the server at a time.         *)
(***************************************************************************)
EXTENDS BuildPatch, TLC

CONSTANTS t1, t2, t3

\* Single edits, of which one may be refused, batches with a transaction that
\* fails, and a batch that repeats another.
SmallRequests == {<<t1>>, <<t3>>, <<t1, t2>>, <<t3, t2>>, <<t1, t2, t3>>}

HandlerSymmetry == Permutations(Handlers)
=============================================================================
