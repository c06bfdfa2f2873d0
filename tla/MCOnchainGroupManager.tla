----------------------- MODULE MCOnchainGroupManager -----------------------
(* OnchainGroupManager as it stands; the configurations give the bounds.   *)
EXTENDS OnchainGroupManager
=============================================================================
