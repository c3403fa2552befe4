-------------------------- MODULE MCGatewayService --------------------------
(***************************************************************************)
(* The instance of GatewayService for TLC.                                 *)
(***************************************************************************)
EXTENDS GatewayService

MCMaxPending == {1}
MCModes == {"writable", "read_only", "full", "down"}
MCProducerStates == {"ready", "recovery_required"}
=============================================================================
