-------------------------- MODULE MCInstallBatches --------------------------
(* A small instance of InstallBatches for TLC: ui needs core, and core is     *)
(* compiled against helpers that /dep_tree does not return; core and ui are   *)
(* declared, helpers is not; nothing is installed at boot.                    *)
EXTENDS InstallBatches

CONSTANTS ui, core, helpers, v1

UiNeedsCore     == [p \in Packages |-> IF p = ui THEN {core} ELSE {}]
CoreUsesHelpers == [p \in Packages |-> IF p = core THEN {helpers} ELSE {}]
UiAndCore       == [p \in Packages |-> IF p = helpers THEN None ELSE v1]
=============================================================================
