--------------------------- MODULE MCShadowMemory ---------------------------
(* ShadowMemory on small instances. *)
EXTENDS ShadowMemory

BothLayers == {"Lo", "Hi"}

OneLayer == {"dot"}
=============================================================================
