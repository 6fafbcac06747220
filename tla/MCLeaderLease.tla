--------------------------- MODULE MCLeaderLease ---------------------------
(***************************************************************************)
(* Three processes, two of which are started with the same label and with  *)
(* different ttls.                                                         *)
(***************************************************************************)
EXTENDS LeaderLease, TLC

CONSTANTS p1, p2, p3, la, lb

MCLabel == p1 :> la @@ p2 :> la @@ p3 :> lb
MCTtl == p1 :> 1 @@ p2 :> 2 @@ p3 :> 0
=============================================================================
