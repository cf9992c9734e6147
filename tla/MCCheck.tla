------------------------------ MODULE MCCheck ------------------------------
(* A dead upstream and one that is alive, in either order of probing, and    *)
(* one that came with a reload and is not probed.  A round is just shorter   *)
(* than the cooldown, which only the third can live to see expire: a mark    *)
(* can be renewed while it runs, expire unnoticed, and be renewed after that. *)
EXTENDS HealthCheck
=============================================================================
