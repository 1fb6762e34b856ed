------------------------ MODULE MCForwardStatements ------------------------
(* ForwardStatements with the statements of MCShadowStatements.            *)
EXTENDS MCShadowStatements, ForwardStatements
=============================================================================
