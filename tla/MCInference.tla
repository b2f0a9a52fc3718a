---------------------------- MODULE MCInference ----------------------------
(* Small instances of Inference for TLC: two attempts whose routes differ in
   both usage and price, and a hold that covers the dearer one.             *)
EXTENDS Inference

MCUsage == <<2, 1>>
MCRate == <<1, 3>>
============================================================================
