------------------------- MODULE MCHierarchyBuilder -------------------------
(***************************************************************************)
(* Two runs of the tool for one target with two categories, of which each  *)
(* run leaves out none, one or both.                                       *)
(***************************************************************************)
EXTENDS HierarchyBuilder, TLC

MCTargetNames == <<"target.v">>
MCCategories == <<"model", "spec">>
MCExclusions == {{}, {"model"}, {"model", "spec"}}
Symmetry == Permutations(Builder)
=============================================================================
