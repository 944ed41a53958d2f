------------------------------ MODULE InFlight ------------------------------
(***************************************************************************)
(* The requests a Node.js process is serving.  One handler runs at a time  *)
(* and gives way at each await; what it holds then is an entry of a        *)
(* partial function from requests.  A request ends when it is answered,    *)
(* fails, or is lost with the process.                                     *)
(***************************************************************************)
EXTENDS PartialFunctions

\* Whether database calls may fail and the process may stop.
CONSTANT Faults

ASSUME FaultsAssumption == Faults \in BOOLEAN
=============================================================================
