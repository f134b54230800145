-------------------------- MODULE MCCompressedScan --------------------------
(* Constants for TLC: bytes for words, columns of up to four rows with NULLs *)
(* at every place and values whose differences wrap and whose XORs meet the  *)
(* clamp, the reused window and the full-length run.                         *)
EXTENDS CompressedScan

ColumnsOf(type, vals) ==
    UNION {{[type |-> type, vals |-> s] : s \in [1 .. n -> vals \union {NULL}]} : n \in 0 .. 4}

MCColumns == ColumnsOf("F64", {0, 1, 24, 129})
             \union ColumnsOf("TS", {0, 127, 128, 255})
             \union ColumnsOf("I32", {0, 7, 8, 15})
             \union ColumnsOf("BOOL", {0, 1})
===============================================================================
