--------------------------- MODULE MCAttemptLimits ---------------------------
(* AttemptLimits for TLC.                                                  *)
EXTENDS AttemptLimits
=============================================================================
