---------------------------- MODULE MCRefinement ----------------------------
(* Instances of LSMKVRefinement for TLC: those of MCLSMKV. *)
EXTENDS MCLSMKV, LSMKVRefinement
=============================================================================
