--------------------------- MODULE MCPosterClient ---------------------------
(***************************************************************************)
(* One page, one user, one write; the polls of two enable modals overlap.  *)
(***************************************************************************)
EXTENDS PosterClient, TLC

MCSymmetry == Permutations(Modals)
=============================================================================
