----------------------------- MODULE MCCRWWPSTM -----------------------------
(***************************************************************************)
(* Instances of CRWWPSTM for TLC.                                          *)
(***************************************************************************)
EXTENDS CRWWPSTMRefinement

WritersAndReader ==
  [p \in Procs |-> <<<<"write">>, <<"read">>, <<"write">>>>[p + 1]]
=============================================================================
