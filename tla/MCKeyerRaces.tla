---------------------------- MODULE MCKeyerRaces ----------------------------
(* The requests of MCKeyer, for the keyer with its history of races. *)
EXTENDS MCKeyer, KeyerRaces
=============================================================================
