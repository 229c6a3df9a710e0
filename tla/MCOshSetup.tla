------------------------------ MODULE MCOshSetup ------------------------------
(* Names and provisioning for TLC: two names the application may give, some   *)
(* failures or power cuts in any order.                                       *)
EXTENDS OshSetup
=============================================================================
