--------------------------- MODULE MCCppInference ---------------------------
(***************************************************************************)
(* Model checking of CppInference over all pipelines of up to three nodes. *)
(***************************************************************************)
EXTENDS CppInference, SequencesExt

AllPipelines == SeqOf(Kinds, 3) \ {<<>>}
=============================================================================
