---------------------------- MODULE MCEepromClient ----------------------------
(* Two rows of two pages of two bytes; a write may run two bytes past its row. *)
EXTENDS EepromClient
MCPayloads == {<<1>>, <<255, 1, 1>>}
=============================================================================
