----------------------------- MODULE MCModerator ------------------------------
(***************************************************************************)
(* An instance of Moderator: every comment up to a length.                 *)
(***************************************************************************)
EXTENDS Moderator

CONSTANT MaxRunes   \* bound: the length of a comment

ShortComments == UNION {[1..n -> Rune] : n \in 0..MaxRunes}
=============================================================================
