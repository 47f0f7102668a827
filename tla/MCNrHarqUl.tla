----------------------------- MODULE MCNrHarqUl -----------------------------
(* Two UEs and two processes, one or two symbols a slot.                  *)
EXTENDS NrHarqUl

=============================================================================
