------------------------------- MODULE MCBusMap -------------------------------
(***************************************************************************)
(* A machine of three addresses for TLC: a RAM of one cell, a ROM of two   *)
(* and a RAM that fills the whole address space, as in the CPU's tests.    *)
(***************************************************************************)
EXTENDS BusMap

MCDevice == {"ram", "rom", "full"}
MCSize == [ram |-> 1, rom |-> 2, full |-> 3]

(* One byte with white space in it, an odd digit, a bad character after a  *)
(* byte, and one after more bytes than there are addresses.                *)
MCTexts ==
    {<<1, Space, 10, Space>>, <<1, 10, 0>>, <<1, 10, Other, 0>>,
     <<1, 10, 0, 0, 1, 10, 0, 0, Other, 1>>}
=============================================================================
