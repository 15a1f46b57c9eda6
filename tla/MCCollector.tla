------------------------------ MODULE MCCollector ------------------------------
(***************************************************************************)
(* The offline pass over recordings made of the frames of MCDockAggregator.*)
(***************************************************************************)
EXTENDS MCDockAggregator, Collector
=============================================================================
