----------------------------- MODULE MCDashboard ----------------------------
(* Four leads: two located, two of the days asked for, one of them both.   *)
EXTENDS Dashboard, TLC

Countries == 1 :> "DE" @@ 4 :> "FR"
Days == 3 :> 1 @@ 4 :> 1
=============================================================================
