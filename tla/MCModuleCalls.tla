--------------------------- MODULE MCModuleCalls ---------------------------
(* Small programs for TLC: a main module and one or two loaded ones. *)
EXTENDS ModuleCallsProps

CONSTANTS main, lib, aux, tried, bare

MCPc == {tried, bare}

\* Handlers of the main module and of lib, and a module without any.
MCHandlers == [m \in Module |-> IF m = aux THEN {} ELSE {tried}]

=============================================================================
