------------------------------- MODULE MCJson5 -------------------------------
(* Every file of up to MaxLength bytes of an alphabet that has one byte of   *)
(* each kind the scanner tells apart; outside a block comment a star is what *)
(* any other byte is.                                                        *)
EXTENDS Json5

MCChars == {Quote, Backslash, Slash, Asterisk, Separator, "bracket", "newline"}
=============================================================================
