-------------------------- MODULE MCExtensionPanel --------------------------
(***************************************************************************)
(* Instances of ExtensionPanel for TLC.                                    *)
(***************************************************************************)
EXTENDS ExtensionPanel

Symmetric == Permutations(Tasks)
=============================================================================
