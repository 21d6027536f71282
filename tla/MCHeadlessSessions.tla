-------------------------- MODULE MCHeadlessSessions --------------------------
(* Small instances of HeadlessSessions for TLC. *)
EXTENDS HeadlessSessions

CONSTANTS a, b

TwoIds == {a, b}
=============================================================================
