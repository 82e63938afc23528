---------------------------- MODULE MCRootPolicy ----------------------------
(***************************************************************************)
(* Two application entries and one identity besides the sys key; two       *)
(* shells, whose runs may or may not overlap.                              *)
(***************************************************************************)
EXTENDS RootPolicy

MCEntries == {"e1", "e2"}
MCLayers == {<<"e1">>, <<"e2">>, <<"e1", "e2">>, <<"e2", "e1", "e2">>}
=============================================================================
