------------------------------ MODULE DeviceMC ------------------------------
(* An instance of Device for TLC.                                            *)
EXTENDS Device

\* Two reports of a kind, with a request in between.
MCScript == <<"SendReport", "ReceiveFeatureReport", "SendReport">>
=============================================================================
