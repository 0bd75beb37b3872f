--------------------------- MODULE MCJobLifecycle ---------------------------
(* Three jobs with one, two and three attempts. *)
EXTENDS JobLifecycle, TLC

CONSTANTS j1, j2, j3

MCMaxAttempts == j1 :> 1 @@ j2 :> 2 @@ j3 :> 3
=============================================================================
