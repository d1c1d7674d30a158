---------------------------- MODULE MCConfigBot ----------------------------
(* An admin with one switch to press, an account that is not his, and logins *)
(* of four QR codes.                                                         *)
EXTENDS ConfigBot, TLC

CONSTANTS ana, bia

Both == {ana, bia}
=============================================================================
