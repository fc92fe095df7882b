----------------------------- MODULE MCTapeSession -----------------------------
(***************************************************************************)
(* A tape of a few blocks for TLC: two that fit over each other and a      *)
(* longer one, whose data read like a header when the head comes to stand  *)
(* among them, on a file that is empty or holds something else.            *)
(***************************************************************************)
EXTENDS TapeSession

MCData == {<<1>>, <<2>>, <<1, 0>>}
MCFound == {<<>>, <<1, 0, 7>>}
=============================================================================
