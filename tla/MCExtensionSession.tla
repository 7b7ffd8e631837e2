------------------------- MODULE MCExtensionSession -------------------------
(***************************************************************************)
(* Instances of ExtensionSession for TLC.                                  *)
(***************************************************************************)
EXTENDS ExtensionSession

CallsOfTasks == Tasks \X {"refresh", "logout"}
=============================================================================
