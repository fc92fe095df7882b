------------------------------- MODULE MCMonitor -------------------------------
(***************************************************************************)
(* Sessions at the terminal for TLC.  The user's memory is a stretch of    *)
(* page zero, longer than a row of a list, and four cells across a page    *)
(* boundary; the rest of RAM is what the monitor needs.                    *)
(***************************************************************************)
EXTENDS MonitorTrace

MCRam == WorkArea \cup (\h01E8 .. \h01FF) \cup (\hA0 .. \hB1) \cup (\h02FE .. \h0301)
MCRom == LoadedAddr
MCTtyBase == \h8000

(* Lines, as their bytes.                                                  *)
Enter(l) == Append(l, 13)
Addr(a) == IF a < 256 THEN Promised!HexByte(a) ELSE Promised!HexWord(a)
PeekLine(a) == Enter(Addr(a))
Range(a, b) == Addr(a) \o <<46>> \o Addr(b)
ListLine(a, b) == Enter(Range(a, b))
PokeLine(a, b, c) ==
    Enter(Addr(a) \o <<58, 32>> \o Promised!HexByte(b) \o <<32>> \o Promised!HexByte(c))
RunLine(a) == Enter(Addr(a) \o <<32, 82>>)
SaveLine(a, b) == Enter(Range(a, b) \o <<32, 83>>)
LoadLine(a) == Enter(Addr(a) \o <<32, 76>>)
RewindLine(a) == Enter(Addr(a) \o <<32, 87>>)

OnTape(scripts, tapes) == [typed : scripts, later : {<<>>}, tape : tapes]
Empty == {<<>>}

(* Any two commands after a poke.                                          *)
Commands ==
    {ListLine(\hA7, \hA9), PokeLine(\h02FF, 1, 254), RunLine(\hA8), RunLine(\hB0),
     SaveLine(\hA8, \hA9), SaveLine(\h02FF, \h0300), LoadLine(\h02FE)}
Sessions == {PokeLine(\hA8, 96, 165) \o a \o b : a, b \in Commands}

(* Two blocks saved one after the other or one over the other, and loaded; *)
(* a block loaded and loaded again, or loaded and saved over.              *)
Rewinds == {<<>>, RewindLine(\h02FE)}
TapeSessions ==
    {PokeLine(\hA8, 96, 165) \o SaveLine(\hA8, \hAA) \o first \o SaveLine(\hA7, \hA8) \o second
         \o LoadLine(\h02FE) \o LoadLine(\hA0) : first, second \in Rewinds}
FoundSessions ==
    {LoadLine(\h02FF) \o next :
         next \in {LoadLine(\hA0), RewindLine(\hA0) \o LoadLine(\hA0),
                   SaveLine(\hA8, \hA9) \o LoadLine(\hA0)}}

(* Tapes found at the start: empty, cut off in the header, in the data and *)
(* before the checksum, whole, with a wrong checksum, with an empty block. *)
FoundTapes ==
    {<<>>, <<2>>, <<2, 0>>, <<2, 0, 5>>, <<2, 0, 5, 6>>, <<2, 0, 5, 6, 3>>, <<2, 0, 5, 6, 4>>,
     <<0, 0, 0, 1, 0, 7, 7>>}

(* Every line of up to two characters after an address or a range, every   *)
(* poke of up to three, and lists of one row, of more and across a page.   *)
Character == {48, 65, 46, 58, 32, 82, 83, 122}      \* 0 A . : space R S z
UpTo(n, chars) == UNION {[1 .. k -> chars] : k \in 0 .. n}
GrammarLines ==
    {Enter(a \o s) : a \in {<<>>, Addr(\hA8)}, s \in UpTo(2, Character)}
      \cup {Enter(Range(\hA8, \hA9) \o s) : s \in UpTo(2, {32, 46, 83, 122})}
      \cup {Enter(Addr(\hA8) \o <<58>> \o s) : s \in UpTo(3, {32, 49, 97, 122})}
      \cup {Enter(<<49>> \o Addr(\h02FF)), Enter(<<97, 98, 99, 100>>), ListLine(\hA0, \hB1),
            ListLine(\hA0, \hAF), ListLine(\h02FE, \h0301), ListLine(\hA9, \hA8),
            SaveLine(\hA9, \hA8)}

(* A save killed anywhere, on a new tape, over a block of the same size    *)
(* with another one behind it, and over a longer one, and a second process *)
(* that loads; or one that saves more, is killed too, and a third one.     *)
Killed(next, tapes) ==
    [typed : {PokeLine(\hA8, 96, 165) \o SaveLine(\hA8, \hA9)}, later : {next}, tape : tapes]
KilledScenarios ==
    Killed(<<LoadLine(\h02FE) \o LoadLine(\hA0)>>,
           {<<>>, <<2, 0, 5, 6, 3, 1, 0, 9, 9>>, <<3, 0, 5, 6, 0, 3>>})
      \cup Killed(<<LoadLine(\hA8) \o SaveLine(\hA7, \hA8), LoadLine(\hA0)>>, Empty)

CommandScenarios ==
    OnTape(GrammarLines \cup Sessions \cup TapeSessions, Empty)
      \cup OnTape(FoundSessions, FoundTapes) \cup KilledScenarios

(* Typing: both erase keys, an erased line, more characters than fit, the  *)
(* tape commands, and a kill before, between or after the bytes of a line. *)
TooLong == [i \in 1 .. 72 |-> IF i <= 60 THEN 48 ELSE 66]
TypedLines ==
    {Enter(<<65, 8, 127, 127, 65, 98, 8, 56>>), Enter(<<127>>), Enter(<<90, 127>>) \o PeekLine(\hA8),
     Enter(TooLong), Enter(TooLong \o <<8, 127, 65, 56>>),
     SaveLine(\hA8, \hA9), LoadLine(\hA0) \o RewindLine(\hA0)}
KilledTyping ==
    [typed : {PokeLine(\hA8, 96, 165)}, later : {<<PeekLine(\hA8)>>}, tape : Empty]
TypingScenarios == OnTape(TypedLines, Empty) \cup KilledTyping

(* A list that ends at the last address, and a poke with a bad token.      *)
ListToTheEnd == OnTape({ListLine(\hFFFE, \hFFFF)}, Empty)
BadPoke == OnTape({Enter(Addr(\hA8) \o <<58, 32, 49, 50, 32, 90, 90>>)}, Empty)
=============================================================================
