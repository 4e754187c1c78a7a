------------------------- MODULE MCGatewayDispatch -------------------------
(* An instance of GatewayDispatch for TLC, threshold 2.  Of three providers *)
(* gpu answers nothing but provider-side errors, cpu anything, npu always   *)
(* succeeds; they are each other's primaries and fallbacks, the two         *)
(* pass-through paths reach gpu, and requests of the modes overlap.         *)
EXTENDS GatewayDispatch, TLC

CONSTANTS gpu, cpu, npu, r1, r2, r3, r4

MCPrimary == (r1 :> gpu) @@ (r2 :> gpu) @@ (r3 :> cpu) @@ (r4 :> gpu)
MCFallback == (r1 :> cpu) @@ (r2 :> None) @@ (r3 :> gpu) @@ (r4 :> npu)
MCMode == (r1 :> "messages") @@ (r2 :> "embed") @@ (r3 :> "stream") @@ (r4 :> "slot")
MCAnswers == (gpu :> ProviderErrors) @@ (cpu :> Outcomes) @@ (npu :> {"ok"})
============================================================================
