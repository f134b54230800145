-------------------------------- MODULE Values --------------------------------
(* The two values that are not numbers: SQL's NULL and the F64 NaN.         *)
CONSTANTS NULL, NaN
===============================================================================
