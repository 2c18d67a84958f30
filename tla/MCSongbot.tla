----------------------------- MODULE MCSongbot ------------------------------
(* TLC instance of Songbot: one song, one live stream. *)
EXTENDS Songbot

CONSTANTS v1, live
=============================================================================
