------------------------------- MODULE TapeStore -------------------------------
(***************************************************************************)
(* What README.md promises of a tape ("repeated L commands read through    *)
(* them in the order they were saved"), made precise for saves that go     *)
(* over other blocks, for a process that is killed while it saves and for  *)
(* a byte that goes bad (abstract specification of TapeSession).  A tape   *)
(* is a list of blocks; there are no bytes, lengths or checksums.          *)
(***************************************************************************)
EXTENDS Integers, Sequences

CONSTANT Data           \* what may be saved

VARIABLES
    kept,       \* the blocks that a rewind and as many loads go through
    head,       \* the block ahead, Len(kept) + 1 behind the last one, 0 past that
    clean,      \* nothing but the blocks is on the tape
    deck,       \* "off"; "open", "closed", "none": a process with that backing
    answer      \* of the last command: whether it complained, what it loaded

vars == <<kept, head, clean, deck, answer>>

Behind == Len(kept) + 1
Quiet == [complains |-> FALSE, data |-> <<>>]
Complaint == [complains |-> TRUE, data |-> <<>>]

Init ==
    /\ kept = <<>> /\ clean \in BOOLEAN
    /\ deck = "off" /\ head = 0 /\ answer = Quiet

(* A process begins at the first block.                                    *)
Insert ==
    /\ deck = "off" /\ deck' = "open" /\ head' = 1
    /\ UNCHANGED <<kept, clean, answer>>

(* What cannot be read and written is left alone - or emptied.             *)
InsertNothing ==
    /\ deck = "off" /\ deck' \in {"closed", "none"}
    /\ \/ UNCHANGED <<kept, clean>>
       \/ deck' = "closed" /\ kept' = <<>> /\ clean'
    /\ UNCHANGED <<head, answer>>

(* Blocks in front of k stay; those behind it as well if a block of the    *)
(* same size takes its place, and are lost otherwise.                      *)
Replaced(k, data) == k < Behind /\ Len(data) = Len(kept[k].data)
Before(k) == SubSeq(kept, 1, k - 1)

SaveOver(k, data) ==
    /\ Replaced(k, data)
    /\ kept' = [kept EXCEPT ![k] = [data |-> data, state |-> "sound"]]
    /\ UNCHANGED clean

SaveLast(k, data) ==
    /\ ~Replaced(k, data)
    /\ kept' = Append(Before(k), [data |-> data, state |-> "sound"])
    /\ k = Behind /\ clean => clean'

Save(data) ==
    /\ deck = "open" /\ answer' = Quiet /\ UNCHANGED deck
    /\ \/ head # 0 /\ head' = head + 1 /\ (SaveOver(head, data) \/ SaveLast(head, data))
       \/ head = 0 /\ UNCHANGED <<kept, head, clean>>

(* Killed before the first byte, or before the last.                       *)
Stop == deck' = "off" /\ head' = 0 /\ answer' = Quiet
Killed == deck # "off" /\ Stop /\ UNCHANGED <<kept, clean>>

KilledSaving(data) ==
    /\ deck = "open" /\ Stop
    /\ \/ /\ head # 0 /\ Replaced(head, data)
          /\ kept' = [kept EXCEPT ![head].state = "torn"]
          /\ UNCHANGED clean
       \/ /\ head # 0 /\ ~Replaced(head, data)
          /\ kept' = Before(head)
       \/ head = 0 /\ UNCHANGED <<kept, clean>>

(* A sound block comes back as it was saved, a damaged one with a          *)
(* complaint, of a torn one nothing is known; then the next is ahead.      *)
Load ==
    /\ deck = "open" /\ head \in DOMAIN kept
    /\ CASE kept[head].state = "sound" ->
              answer' = [complains |-> FALSE, data |-> kept[head].data]
         [] kept[head].state = "damaged" -> answer'.complains
         [] kept[head].state = "torn" -> TRUE
    /\ head' = head + 1
    /\ UNCHANGED <<kept, clean, deck>>

LoadAtEnd ==
    /\ deck = "open" /\ head = Behind /\ clean
    /\ answer' = Complaint
    /\ UNCHANGED <<kept, head, clean, deck>>

LoadLeftover ==
    /\ deck = "open" /\ (head = 0 \/ (head = Behind /\ ~clean))
    /\ head' = 0
    /\ UNCHANGED <<kept, clean, deck>>

Rewind ==
    /\ deck = "open" /\ head' = 1 /\ answer' = Quiet
    /\ UNCHANGED <<kept, clean, deck>>

(* Without an open file nothing happens; if it merely failed to open, a    *)
(* save and a rewind do not say so.                                        *)
Nothing ==
    /\ deck \in {"closed", "none"}
    /\ answer' = Complaint \/ (deck = "closed" /\ answer' = Quiet)
    /\ UNCHANGED <<kept, head, clean, deck>>

(* A byte of the data or of the checksum of a sound block goes bad.        *)
Damage ==
    /\ deck = "off"
    /\ \E k \in DOMAIN kept :
           kept[k].state = "sound" /\ kept' = [kept EXCEPT ![k].state = "damaged"]
    /\ UNCHANGED <<head, clean, deck, answer>>

Next ==
    \/ Insert \/ InsertNothing \/ Killed \/ Load \/ LoadAtEnd \/ LoadLeftover
    \/ Rewind \/ Nothing \/ Damage
    \/ \E data \in Data : Save(data) \/ KilledSaving(data)

Spec == Init /\ [][Next]_vars
=============================================================================
