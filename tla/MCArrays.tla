------------------------------ MODULE MCArrays ------------------------------
(* Arrays of up to four elements, with the thresholds of the switches      *)
(* between the representations scaled down so that both happen.            *)
EXTENDS Arrays
=============================================================================
