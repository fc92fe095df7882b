----------------------------- MODULE AddressSpace -----------------------------
(***************************************************************************)
(* What the bus promises to a program and to whoever builds a machine      *)
(* (abstract specification of BusMap): every address means one cell of one *)
(* device or nothing; attaching a device gives a meaning to addresses that *)
(* had none and changes no other; a cell keeps its byte until it is stored *)
(* to.  There is no list of ranges, no search and no offset arithmetic.    *)
(***************************************************************************)
EXTENDS Integers, Sequences

CONSTANTS
    Device, ReadOnly,       \* the devices, and those a bus write cannot change
    Size,                   \* how many cells each has
    Count,                  \* the addresses are 0 .. Count - 1
    Byte, Texts,            \* what may be written, and hex texts to be loaded
    Start                   \* the bus address of offset 0 of a ROM being filled

VARIABLES
    meaning,        \* the cell <<device, offset>> each claimed address means
    content,        \* the byte in each cell
    result          \* the last call, and the byte it returned, Done or Refused

vars == <<meaning, content, result>>

Done == -1
Refused == -2

Claimed == DOMAIN meaning
Cells == {c \in Device \X (0 .. Count - 1) : c[2] < Size[c[1]]}

Init ==
    /\ meaning = [a \in {} |-> a]
    /\ content \in [Cells -> 0 .. 255]
    /\ result = <<"write", Done>>

-----------------------------------------------------------------------------
(* A device goes where all the addresses it needs exist and are free.      *)
Fits(start, d) ==
    /\ Size[d] > 0
    /\ \A a \in start .. start + Size[d] - 1 : a < Count /\ a \notin Claimed

Attach(start, d) ==
    /\ result' = <<"attach", Done>> /\ UNCHANGED content
    /\ Fits(start, d)
    /\ meaning' = [a \in Claimed \cup (start .. start + Size[d] - 1) |->
                       IF a \in Claimed THEN meaning[a] ELSE <<d, a - start>>]

Refuse ==
    /\ result'[1] \in {"attach", "loadProgram", "loadRoutine"} /\ result'[2] = Refused
    /\ UNCHANGED <<meaning, content>>

(* Nothing there: the data lines float high, and a write has no effect.    *)
Read(a) ==
    /\ result' = <<"read", IF a \in Claimed THEN content[meaning[a]] ELSE 255>>
    /\ UNCHANGED <<meaning, content>>

Write(a, v) ==
    /\ result' = <<"write", Done>> /\ UNCHANGED meaning
    /\ content' = IF a \in Claimed /\ meaning[a][1] \notin ReadOnly
                  THEN [content EXCEPT ![meaning[a]] = v] ELSE content

-----------------------------------------------------------------------------
(* A hex text: 0 .. 15 stand for the digits, 16 for white space, anything  *)
(* else for a character that is neither.                                   *)
Digits ==
    [text \in Texts |->
        LET first[n \in 0 .. Len(text)] ==     \* the digits of its first n characters
                IF n = 0 THEN <<>>
                ELSE IF text[n] = 16 THEN first[n - 1]
                ELSE Append(first[n - 1], text[n])
        IN  first[Len(text)]]
Even(text) == Len(Digits[text]) % 2 = 0

(* The bytes it names: the pairs before the first one that is not digits.  *)
Pairs == [text \in Texts |-> Len(Digits[text]) \div 2]
Bytes ==
    [text \in Texts |->
        LET digits == Digits[text]
            sound == CHOOSE n \in 0 .. Pairs[text] :
                /\ \A k \in 1 .. 2 * n : digits[k] < 16
                /\ n < Pairs[text] => \E k \in {2 * n + 1, 2 * n + 2} : digits[k] >= 16
        IN  [k \in 1 .. sound |-> 16 * digits[2 * k - 1] + digits[2 * k]]]
Outcome == [text \in Texts |-> IF Len(Bytes[text]) = Pairs[text] THEN Done ELSE Refused]

(* Filling a device from an offset: the addresses wrap, and of two bytes   *)
(* for one cell the later stays.                                           *)
Filled(d, from, bytes) ==
    [c \in Cells |->
        LET hits == {k \in DOMAIN bytes : c = <<d, (from + k - 1) % Count>>}
        IN  IF hits = {} THEN content[c]
            ELSE bytes[CHOOSE k \in hits : \A j \in hits : j <= k]]

(* An odd text is refused untouched; one with a bad character is refused   *)
(* when it is met, and what stands before it stays.                        *)
Fill(call, d, from, text) ==
    /\ Even(text) /\ result' = <<call, Outcome[text]>>
    /\ content' = Filled(d, from, Bytes[text])
    /\ UNCHANGED meaning

LoadProgram(d, from, text) == d \notin ReadOnly /\ Fill("loadProgram", d, from, text)

(* Loading a ROM like a RAM looks as if it had worked.                     *)
LoadIgnored(d, text) ==
    /\ d \in ReadOnly /\ Even(text) /\ result' = <<"loadProgram", Outcome[text]>>
    /\ UNCHANGED <<meaning, content>>

Install(d, busAddr, text) == d \in ReadOnly /\ Fill("loadRoutine", d, (busAddr - Start) % Count, text)

Next ==
    \/ Refuse
    \/ \E a \in 0 .. Count - 1 : Read(a) \/ \E v \in Byte : Write(a, v)
    \/ \E d \in Device, a \in 0 .. Count - 1 :
           \/ Attach(a, d)
           \/ \E text \in Texts :
                  LoadProgram(d, a, text) \/ LoadIgnored(d, text) \/ Install(d, a, text)

Spec == Init /\ [][Next]_vars
=============================================================================
