--------------------------- MODULE MC_Healthcheck ---------------------------
(* Model-checking instance of Healthcheck: two integrity runs of one      *)
(* client, so that the writes of one may fall between those of the other. *)
EXTENDS Healthcheck, TLC
=============================================================================
