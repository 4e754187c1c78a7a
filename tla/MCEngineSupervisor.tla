------------------------- MODULE MCEngineSupervisor -------------------------
(***************************************************************************)
(* One engine for TLC; the cfg files give it its restart budget.            *)
(***************************************************************************)
EXTENDS EngineSupervisor
=============================================================================
