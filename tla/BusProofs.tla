------------------------------ MODULE BusProofs ------------------------------
(***************************************************************************)
(* Whatever is attached, in whatever order, every accepted range is served *)
(* by its own device and inside it, and no address by two devices.  From   *)
(* this follows that the bus is one flat address space, accesses, loads    *)
(* and refusals alike.                                                     *)
(***************************************************************************)
EXTENDS BusMap, SequenceTheorems, WellFoundedInduction, TLAPS

(* What a search that stops at the first match relies on.                  *)
RangesFit ==
    /\ mappings \in Seq(Mapping)
    /\ \A i \in DOMAIN mappings :
           /\ mappings[i].start <= mappings[i].end
           /\ SizeMatches(mappings[i].start, mappings[i].end, mappings[i].device)

RangesApart ==
    \A i, j \in DOMAIN mappings :
        i # j => ~Overlaps(mappings[i].start, mappings[i].end, mappings[j])

MapInv == RangesFit /\ RangesApart

LEMMA SmallModulus ==
    ASSUME NEW n \in Nat \ {0}, NEW x \in 0 .. n - 1
    PROVE  x % n = x
  BY SMTT(30)

-----------------------------------------------------------------------------
LEMMA MapInit == Init => MapInv
  BY DEF Init, MapInv, RangesFit, RangesApart

LEMMA AttachKeeps ==
    ASSUME MapInv, NEW start \in Address, NEW end \in Address, NEW d \in Device,
           Attach(start, end, d)
    PROVE  MapInv'
<1> DEFINE new == [start |-> start, end |-> end, device |-> d]
           n == Len(mappings)
<1>1. mappings \in Seq(Mapping) /\ new \in Mapping /\ mappings' = Append(mappings, new)
  BY DEF MapInv, RangesFit, Attach, Mapping
<1>2. /\ mappings' \in Seq(Mapping) /\ n \in Nat
      /\ DOMAIN mappings = 1 .. n /\ DOMAIN mappings' = 1 .. n + 1
      /\ \A i \in 1 .. n : mappings'[i] = mappings[i]
      /\ mappings'[n + 1] = new
  BY <1>1
<1>3. start <= end /\ SizeMatches(start, end, d)
  BY DEF Attach, AttachRefused, Address
<1>4. \A i \in 1 .. n : ~Overlaps(start, end, mappings[i])
  BY <1>2 DEF Attach, AttachRefused
<1>5. RangesFit'
  BY <1>2, <1>3 DEF MapInv, RangesFit
<1>6. \A i \in 1 .. n : ~Overlaps(mappings[i].start, mappings[i].end, new)
  <2> SUFFICES ASSUME NEW i \in 1 .. n
               PROVE  ~Overlaps(mappings[i].start, mappings[i].end, new)
    OBVIOUS
  <2>1. mappings[i] \in Mapping
    BY <1>1, <1>2
  <2> QED BY <1>4, <2>1 DEF Overlaps, Mapping, Address
<1>7. RangesApart'
  <2> SUFFICES ASSUME NEW i \in 1 .. n + 1, NEW j \in 1 .. n + 1, i # j
               PROVE  ~Overlaps(mappings'[i].start, mappings'[i].end, mappings'[j])
    BY <1>2 DEF RangesApart, Overlaps
  <2> HIDE DEF new, n
  <2>0. new.start = start /\ new.end = end
    BY DEF new
  <2>1. CASE i = n + 1
    <3>1. j \in 1 .. n
      BY <1>2, <2>1
    <3> QED BY <1>2, <1>4, <2>0, <2>1, <3>1
  <2>2. CASE j = n + 1
    <3>1. i \in 1 .. n
      BY <1>2, <2>2
    <3> QED BY <1>2, <1>6, <2>2, <3>1
  <2>3. CASE i # n + 1 /\ j # n + 1
    <3>1. i \in 1 .. n /\ j \in 1 .. n
      BY <1>2, <2>3
    <3> QED BY <1>2, <3>1 DEF MapInv, RangesApart, n
  <2> QED BY <2>1, <2>2, <2>3
<1> QED BY <1>5, <1>7 DEF MapInv

LEMMA NextKeeps == MapInv /\ [Next]_vars => MapInv'
<1> SUFFICES ASSUME MapInv, [Next]_vars PROVE MapInv'
  OBVIOUS
<1>1. ASSUME UNCHANGED mappings PROVE MapInv'
  BY <1>1 DEF MapInv, RangesFit, RangesApart, SizeMatches, Overlaps
<1>2. CASE AttachSome
  BY <1>2, AttachKeeps DEF AttachSome
<1>3. CASE AttachThrows \/ LoadThrows
  BY <1>1, <1>3 DEF AttachThrows, LoadThrows, Refuse
<1>4. CASE Use
  BY <1>1, <1>4 DEF Use, Read, Write
<1>5. CASE LoadSome
  BY <1>1, <1>5 DEF LoadSome, LoadProgram, LoadRoutine, Load
<1>6. CASE UNCHANGED vars
  BY <1>1, <1>6 DEF vars
<1> QED BY <1>2, <1>3, <1>4, <1>5, <1>6 DEF Next

(* An address in a range is in no other, so the search ends there.         *)
LEMMA OnlyMatch ==
    ASSUME MapInv, NEW i \in DOMAIN mappings, NEW a \in Address, Covers(mappings[i], a),
           NEW j \in DOMAIN mappings, Covers(mappings[j], a)
    PROVE  i = j
<1>1. mappings[i] \in Mapping /\ mappings[j] \in Mapping
  BY DEF MapInv, RangesFit
<1>2. Overlaps(mappings[i].start, mappings[i].end, mappings[j])
  BY <1>1 DEF Covers, Overlaps, Mapping, Address
<1> QED BY <1>2 DEF MapInv, RangesApart

LEMMA MapInvServes == MapInv => EveryMappingHolds
<1> SUFFICES ASSUME MapInv, NEW i \in DOMAIN mappings,
                    NEW a \in mappings[i].start .. mappings[i].end
             PROVE  /\ Resolve(a) = <<mappings[i].device, a - mappings[i].start>>
                    /\ a - mappings[i].start < Size[mappings[i].device]
  BY DEF EveryMappingHolds
<1>1. /\ mappings[i] \in Mapping /\ i \in Nat /\ i >= 1
      /\ mappings[i].start \in Nat /\ mappings[i].end \in Nat /\ mappings[i].end < Count
      /\ Count \in Nat \ {0}
  <2>1. Count \in Nat \ {0} /\ Count \in Int
    BY BusMapAssumption
  <2>2. mappings[i] \in Mapping /\ i \in Nat /\ i >= 1
    BY DEF MapInv, RangesFit
  <2>3. mappings[i].start \in Address /\ mappings[i].end \in Address
    BY <2>2 DEF Mapping
  <2> QED BY <2>1, <2>2, <2>3 DEF Address
<1>2. a \in Address /\ Covers(mappings[i], a)
  BY <1>1 DEF Address, Covers
<1>3. \A j \in DOMAIN mappings : Covers(mappings[j], a) => j = i
  BY <1>2, OnlyMatch
<1>4. \A j \in 1 .. i - 1 : j \in DOMAIN mappings
  BY <1>1 DEF MapInv, RangesFit
<1>5. /\ Covers(mappings[i], a)
      /\ \A j \in 1 .. i - 1 : ~Covers(mappings[j], a)
  BY <1>1, <1>2, <1>3, <1>4
<1>6. FindMapping(a) = mappings[i]
  <2>1. \A k \in DOMAIN mappings :
            (/\ Covers(mappings[k], a)
             /\ \A j \in 1 .. k - 1 : ~Covers(mappings[j], a)) => k = i
    BY <1>3
  <2> QED BY <1>5, <2>1, Zenon DEF FindMapping
<1>7. a - mappings[i].start \in 0 .. Count - 1
  BY <1>1
<1>8. (a - mappings[i].start) % Count = a - mappings[i].start
  BY <1>1, <1>7, SmallModulus
<1>9. Resolve(a) = <<mappings[i].device, a - mappings[i].start>>
  BY <1>6, <1>8, Zenon DEF Resolve
<1>10. a - mappings[i].start < Size[mappings[i].device]
  <2>1. Size[mappings[i].device] = mappings[i].end - mappings[i].start + 1
    BY DEF MapInv, RangesFit, SizeMatches
  <2> QED BY <1>1, <2>1
<1> QED BY <1>9, <1>10

(* EveryMappingHolds: for any devices, attached in any order and interleaved *)
(* with any use of the bus, an address attach accepted reaches the cell it *)
(* was accepted for and never one past the device (bus.cpp, ram.cpp:7).    *)
THEOREM AttachedServes == Spec => []EveryMappingHolds
  BY MapInit, NextKeeps, MapInvServes, PTL DEF Spec

(* What Bus, Isa6502 and System assume of their map: no address serves two *)
(* devices, so the addresses of RAM, of ROM and of the TTY are disjoint.   *)
Serves(d) ==
    {a \in Address : \E i \in DOMAIN mappings :
                         mappings[i].device = d /\ Covers(mappings[i], a)}
DevicesApart == \A d, e \in Device : d # e => Serves(d) \cap Serves(e) = {}

(* DevicesApart: the disjointness in MapAssumption, on which the models of *)
(* the CPU, the system and the monitor rest, is what attach establishes.   *)
THEOREM AttachEstablishesMap == Spec => []DevicesApart
<1>1. MapInv => DevicesApart
  BY OnlyMatch DEF DevicesApart, Serves
<1> QED BY <1>1, MapInit, NextKeeps, PTL DEF Spec

-----------------------------------------------------------------------------
(* A loop over a text is a recursive function of the turns taken.  Facts   *)
(* about it are proved by induction on a set of numbers.                   *)

LEMMA LeastNumber ==
    ASSUME NEW T, T \subseteq Nat, T # {}
    PROVE  \E m \in T : \A n \in T : m <= n
<1> DEFINE less == {p \in Nat \X Nat : p[1] < p[2]}
<1>1. IsWellFoundedOn(less, Nat)
  BY NatLessThanWellFounded DEF OpToRel
<1> HIDE DEF less
<1>2. PICK m \in T : \A n \in T : <<n, m>> \notin less
  BY <1>1, WFMin, Zenon
<1>3. \A n \in T : ~(n < m)
  BY <1>2 DEF less
<1> QED BY <1>3

LEMMA Induction ==
    ASSUME NEW G, 0 \in G, \A k \in Nat : k \in G => k + 1 \in G
    PROVE  Nat \subseteq G
<1> SUFFICES ASSUME Nat \ G # {} PROVE FALSE
  OBVIOUS
<1>1. PICK m \in Nat \ G : \A n \in Nat \ G : m <= n
  BY LeastNumber
<1>2. m # 0
  OBVIOUS
<1>3. m - 1 \in Nat /\ ~(m <= m - 1) /\ (m - 1) + 1 = m
  BY <1>2
<1>4. m - 1 \in G
  BY <1>1, <1>3
<1> QED BY <1>3, <1>4

(* x, and what n turns make of it when turn k maps y to F[k][y].           *)
Turns(f, x, n, F) ==
    /\ f[0] = x
    /\ \A k \in 1 .. n : f[k] = F[k][f[k - 1]]

LEMMA LoopExists ==
    ASSUME NEW S, NEW x \in S, NEW n \in Nat, NEW F \in [1 .. n -> [S -> S]]
    PROVE  \E f \in [0 .. n -> S] : Turns(f, x, n, F)
<1> DEFINE G == {m \in Nat : m <= n => \E f \in [0 .. m -> S] : Turns(f, x, m, F)}
<1>1. 0 \in G
  <2>1. [k \in 0 .. 0 |-> x] \in [0 .. 0 -> S] /\ Turns([k \in 0 .. 0 |-> x], x, 0, F)
    BY DEF Turns
  <2> QED BY <2>1
<1>2. ASSUME NEW m \in Nat, m \in G PROVE m + 1 \in G
  <2> SUFFICES ASSUME m + 1 <= n
               PROVE  \E f \in [0 .. m + 1 -> S] : Turns(f, x, m + 1, F)
    OBVIOUS
  <2>1. PICK f \in [0 .. m -> S] : Turns(f, x, m, F)
    BY <1>2
  <2> DEFINE g == [k \in 0 .. m + 1 |-> IF k = m + 1 THEN F[m + 1][f[m]] ELSE f[k]]
  <2>2. F[m + 1][f[m]] \in S
    <3>1. F[m + 1] \in [S -> S]
      OBVIOUS
    <3>2. f[m] \in S
      OBVIOUS
    <3> QED BY <3>1, <3>2
  <2>3. g \in [0 .. m + 1 -> S]
    BY <2>2
  <2>4. g[0] = x
    BY <2>1 DEF Turns
  <2>5. \A k \in 1 .. m + 1 : g[k] = F[k][g[k - 1]]
    <3> SUFFICES ASSUME NEW k \in 1 .. m + 1 PROVE g[k] = F[k][g[k - 1]]
      OBVIOUS
    <3>1. k - 1 \in 0 .. m /\ k - 1 # m + 1 /\ g[k - 1] = f[k - 1]
      OBVIOUS
    <3>2. CASE k = m + 1
      <4>1. g[k] = F[m + 1][f[m]] /\ k - 1 = m
        BY <3>2
      <4> QED BY <3>1, <3>2, <4>1
    <3>3. CASE k # m + 1
      <4>1. k \in 1 .. m /\ g[k] = f[k]
        BY <3>3
      <4> QED BY <2>1, <3>1, <4>1 DEF Turns
    <3> QED BY <3>2, <3>3
  <2> HIDE DEF g
  <2> QED BY <2>3, <2>4, <2>5, Zenon DEF Turns
<1> HIDE DEF G
<1>3. n \in G
  BY <1>1, <1>2, Induction
<1> QED BY <1>3 DEF G

(* Two loops that start alike and take the same turns agree throughout.    *)
SameTurns(f, g, n) ==
    /\ f[0] = g[0]
    /\ \A k \in 1 .. n : f[k - 1] = g[k - 1] => f[k] = g[k]

LEMMA LoopsAgree ==
    ASSUME NEW f, NEW g, NEW n \in Nat, SameTurns(f, g, n)
    PROVE  \A k \in 0 .. n : f[k] = g[k]
<1> DEFINE G == {m \in Nat : m <= n => f[m] = g[m]}
<1>1. 0 \in G
  BY DEF SameTurns
<1>2. ASSUME NEW m \in Nat, m \in G PROVE m + 1 \in G
  <2> SUFFICES ASSUME m + 1 <= n PROVE f[m + 1] = g[m + 1]
    OBVIOUS
  <2>1. m + 1 \in 1 .. n /\ (m + 1) - 1 = m /\ m <= n
    OBVIOUS
  <2>2. f[(m + 1) - 1] = g[(m + 1) - 1]
    BY <1>2, <2>1
  <2> QED BY <2>1, <2>2 DEF SameTurns
<1> HIDE DEF G
<1>3. Nat \subseteq G
  BY <1>1, <1>2, Induction
<1> QED BY <1>3 DEF G

-----------------------------------------------------------------------------
(* The digits of a text and their pairs.                                   *)

Digit == (0 .. 15) \cup {Other}

LEMMA DigitsType ==
    ASSUME NEW text \in Seq(0 .. Other)
    PROVE  DigitsOf(text) \in Seq(Digit)
<1> DEFINE n == Len(text)
           keep(k, s) == IF text[k] = Space THEN s ELSE Append(s, text[k])
           F == [k \in 1 .. n |-> [s \in Seq(Digit) |-> keep(k, s)]]
           loop(f) == [k \in 0 .. n |->
                          IF k = 0 THEN <<>>
                          ELSE IF text[k] = Space THEN f[k - 1] ELSE Append(f[k - 1], text[k])]
<1>1. n \in Nat /\ <<>> \in Seq(Digit)
  OBVIOUS
<1>2. F \in [1 .. n -> [Seq(Digit) -> Seq(Digit)]]
  <2> SUFFICES ASSUME NEW k \in 1 .. n, NEW s \in Seq(Digit) PROVE keep(k, s) \in Seq(Digit)
    BY Zenon
  <2>1. text[k] \in 0 .. Other
    BY DEF Other
  <2>2. text[k] # Space => text[k] \in Digit
    BY <2>1 DEF Digit, Space, Other
  <2> QED BY <2>2
<1> HIDE DEF n
<1>3. PICK f \in [0 .. n -> Seq(Digit)] : Turns(f, <<>>, n, F)
  <2> HIDE DEF F
  <2>1. \E f \in [0 .. n -> Seq(Digit)] : Turns(f, <<>>, n, F)
    BY <1>1, <1>2, LoopExists, Zenon
  <2> QED BY <2>1
<1>4. \A k \in 1 .. n : f[k] = keep(k, f[k - 1])
  <2> SUFFICES ASSUME NEW k \in 1 .. n PROVE f[k] = keep(k, f[k - 1])
    OBVIOUS
  <2>1. k - 1 \in 0 .. n
    BY <1>1
  <2>2. f[k - 1] \in Seq(Digit) /\ f[k] = F[k][f[k - 1]]
    BY <1>3, <2>1 DEF Turns
  <2> QED BY <2>2, Zenon
<1>5. f = loop(f)
  <2>1. \A k \in 0 .. n : f[k] = loop(f)[k]
    <3> SUFFICES ASSUME NEW k \in 0 .. n PROVE f[k] = loop(f)[k]
      OBVIOUS
    <3>1. CASE k = 0
      BY <1>3, <3>1 DEF Turns
    <3>2. CASE k # 0
      <4>1. k \in 1 .. n
        BY <1>1, <3>2
      <4> QED BY <1>4, <3>2, <4>1, Zenon
    <3> QED BY <3>1, <3>2
  <2> HIDE DEF F
  <2> QED BY <1>3, <2>1
<1>6. PICK g : g = loop(g) /\ DigitsOf(text) = g[n]
  <2>1. PICK g : g = CHOOSE h : h = loop(h)
    OBVIOUS
  <2>2. g = loop(g)
    BY <1>5, <2>1, Zenon
  <2>3. DigitsOf(text) = g[n]
    BY <2>1, Zenon DEF DigitsOf, n
  <2> QED BY <2>2, <2>3
<1>7. SameTurns(f, g, n)
  <2>1. \A k \in 0 .. n : f[k] = loop(f)[k] /\ g[k] = loop(g)[k]
    BY <1>5, <1>6, Zenon
  <2>2. 0 \in 0 .. n /\ \A k \in 1 .. n : k \in 0 .. n /\ k # 0
    BY <1>1
  <2>3. g[0] = <<>> /\ \A k \in 1 .. n : g[k] = keep(k, g[k - 1])
    BY <2>1, <2>2, Zenon
  <2>4. f[0] = <<>>
    BY <1>3, Zenon DEF Turns
  <2> QED BY <1>4, <2>3, <2>4, Zenon DEF SameTurns
<1>8. f[n] = g[n] /\ f[n] \in Seq(Digit)
  <2> HIDE DEF F, keep, loop
  <2>1. n \in 0 .. n
    BY <1>1
  <2>2. \A k \in 0 .. n : f[k] = g[k]
    BY <1>1, <1>7, LoopsAgree, Zenon
  <2>3. f[n] \in Seq(Digit)
    BY <1>3, <2>1, Zenon
  <2> QED BY <2>1, <2>2, <2>3, Zenon
<1> QED BY <1>6, <1>8, Zenon

LEMMA PairsType ==
    ASSUME NEW digits \in Seq(Digit)
    PROVE  PairsOf(digits) \in Seq(Digit \X Digit)
<1> DEFINE n == Len(digits) \div 2
<1>1. Len(digits) \in Nat /\ n \in Nat /\ 2 * n <= Len(digits)
  OBVIOUS
<1> HIDE DEF n
<1>2. ASSUME NEW k \in 1 .. n PROVE <<digits[2 * k - 1], digits[2 * k]>> \in Digit \X Digit
  <2>1. 2 * k - 1 \in 1 .. Len(digits) /\ 2 * k \in 1 .. Len(digits)
    BY <1>1
  <2>2. digits[2 * k - 1] \in Digit /\ digits[2 * k] \in Digit
    BY <2>1, ElementOfSeq
  <2> QED BY <2>2
<1>3. [k \in 1 .. n |-> <<digits[2 * k - 1], digits[2 * k]>>] \in [1 .. n -> Digit \X Digit]
  BY <1>2, Zenon
<1>4. [k \in 1 .. n |-> <<digits[2 * k - 1], digits[2 * k]>>] \in Seq(Digit \X Digit)
  BY <1>1, <1>3, SeqDef
<1> QED BY <1>4, Zenon DEF PairsOf, n

-----------------------------------------------------------------------------
(* What the loop that fills a device keeps.                                *)

Contents ==
    {c \in [Device -> UNION {[Offsets(d) -> Byte] : d \in Device}] :
        \A d \in Device : c[d] \in [Offsets(d) -> Byte]}

Progress == [contents : Contents, at : Address, thrown : BOOLEAN]

LEMMA StoreType ==
    ASSUME NEW c \in Contents, NEW d \in Device, NEW o, NEW v \in Byte
    PROVE  [c EXCEPT ![d][o] = v] \in Contents
<1> DEFINE new == [c EXCEPT ![d][o] = v]
<1>1. c[d] \in [Offsets(d) -> Byte]
  BY DEF Contents
<1>2. [c[d] EXCEPT ![o] = v] \in [Offsets(d) -> Byte]
  BY <1>1
<1>3. DOMAIN c = Device /\ new = [c EXCEPT ![d] = [c[d] EXCEPT ![o] = v]]
  BY DEF Contents
<1>4. \A e \in Device : new[e] \in [Offsets(e) -> Byte]
  <2> SUFFICES ASSUME NEW e \in Device PROVE new[e] \in [Offsets(e) -> Byte]
    OBVIOUS
  <2>1. CASE e = d
    BY <1>2, <1>3, <2>1
  <2>2. CASE e # d
    BY <1>3, <2>2 DEF Contents
  <2> QED BY <2>1, <2>2
<1>5. new = [e \in Device |-> new[e]]
  BY <1>3
<1> HIDE DEF new
<1>6. new \in [Device -> UNION {[Offsets(e) -> Byte] : e \in Device}]
  BY <1>4, <1>5
<1>7. new \in Contents
  BY <1>4, <1>6 DEF Contents
<1> QED BY <1>7 DEF new

LEMMA LoadPairType ==
    ASSUME NEW call, NEW d \in Device, NEW progress \in Progress, NEW pair \in Digit \X Digit
    PROVE  LoadPair(call, d, progress, pair) \in Progress
<1>1. CASE progress.thrown
  BY <1>1 DEF LoadPair
<1>2. CASE ~progress.thrown /\ BadPair(pair)
  <2>1. [progress EXCEPT !.thrown = TRUE] \in Progress
    BY DEF Progress
  <2> QED BY <1>2, <2>1 DEF LoadPair
<1>3. CASE ~progress.thrown /\ ~BadPair(pair)
  <2>1. pair[1] \in 0 .. 15 /\ pair[2] \in 0 .. 15
    BY <1>3 DEF BadPair, Digit
  <2>2. 16 * pair[1] + pair[2] \in Byte
    BY <2>1 DEF Byte
  <2>3. progress.contents \in Contents /\ progress.at \in Address
    BY DEF Progress
  <2> DEFINE put == Put(call, progress.contents, d, progress.at, 16 * pair[1] + pair[2])
  <2>4. put \in Contents
    BY <2>2, <2>3, StoreType DEF Put, Stored
  <2> HIDE DEF put
  <2>5. (progress.at + 1) % Count \in Address
    BY <2>3, BusMapAssumption DEF Address
  <2>6. [contents |-> put, at |-> (progress.at + 1) % Count, thrown |-> FALSE] \in Progress
    BY <2>4, <2>5 DEF Progress
  <2> QED BY <1>3, <2>6 DEF LoadPair, put
<1> QED BY <1>1, <1>2, <1>3

(* f is the progress of loading pairs into d from offset from on.          *)
Loads(f, call, d, from, pairs) ==
    /\ f[0] = [contents |-> data, at |-> from, thrown |-> FALSE]
    /\ \A k \in 1 .. Len(pairs) : f[k] = LoadPair(call, d, f[k - 1], pairs[k])

LEMMA LoadLoop ==
    ASSUME data \in Contents, NEW call, NEW d \in Device, NEW from \in Address,
           NEW pairs \in Seq(Digit \X Digit)
    PROVE  \E f \in [0 .. Len(pairs) -> Progress] :
               /\ Loads(f, call, d, from, pairs)
               /\ LoadPairs(call, d, from, pairs) = f[Len(pairs)]
<1> DEFINE n == Len(pairs)
           start == [contents |-> data, at |-> from, thrown |-> FALSE]
           F == [k \in 1 .. n |-> [p \in Progress |-> LoadPair(call, d, p, pairs[k])]]
           loop(f) == [k \in 0 .. n |->
                          IF k = 0 THEN start ELSE LoadPair(call, d, f[k - 1], pairs[k])]
<1>1. n \in Nat /\ start \in Progress
  BY DEF Progress
<1>2. F \in [1 .. n -> [Progress -> Progress]]
  <2>1. \A k \in 1 .. n : pairs[k] \in Digit \X Digit
    BY ElementOfSeq
  <2>2. \A k \in 1 .. n : \A p \in Progress : LoadPair(call, d, p, pairs[k]) \in Progress
    BY <2>1, LoadPairType, Zenon
  <2> QED BY <2>2, Zenon
<1> HIDE DEF n, start
<1>3. PICK f \in [0 .. n -> Progress] : Turns(f, start, n, F)
  <2> HIDE DEF F
  <2>1. \E f \in [0 .. n -> Progress] : Turns(f, start, n, F)
    BY <1>1, <1>2, LoopExists, Zenon
  <2> QED BY <2>1
<1>4. f[0] = start /\ \A k \in 1 .. n : f[k] = LoadPair(call, d, f[k - 1], pairs[k])
  <2> SUFFICES ASSUME NEW k \in 1 .. n PROVE f[k] = LoadPair(call, d, f[k - 1], pairs[k])
    BY <1>3, Zenon DEF Turns
  <2>1. k - 1 \in 0 .. n
    BY <1>1
  <2>2. f[k - 1] \in Progress /\ f[k] = F[k][f[k - 1]]
    BY <1>3, <2>1, Zenon DEF Turns
  <2> QED BY <2>2, Zenon
<1>5. f = loop(f)
  <2>1. \A k \in 0 .. n : f[k] = loop(f)[k]
    <3> SUFFICES ASSUME NEW k \in 0 .. n PROVE f[k] = loop(f)[k]
      OBVIOUS
    <3>1. CASE k = 0
      BY <1>4, <3>1, Zenon
    <3>2. CASE k # 0
      <4>1. k \in 1 .. n
        BY <1>1, <3>2
      <4> QED BY <1>4, <3>2, <4>1, Zenon
    <3> QED BY <3>1, <3>2
  <2> HIDE DEF F
  <2> QED BY <1>3, <2>1
<1>6. PICK g : g = loop(g) /\ LoadPairs(call, d, from, pairs) = g[n]
  <2>1. PICK g : g = CHOOSE h : h = loop(h)
    OBVIOUS
  <2>2. g = loop(g)
    BY <1>5, <2>1, Zenon
  <2>3. LoadPairs(call, d, from, pairs) = g[n]
    BY <2>1, Zenon DEF LoadPairs, n, start
  <2> QED BY <2>2, <2>3
<1>7. SameTurns(f, g, n)
  <2>1. \A k \in 0 .. n : g[k] = loop(g)[k]
    BY <1>6, Zenon
  <2>2. 0 \in 0 .. n /\ \A k \in 1 .. n : k \in 0 .. n /\ k # 0
    BY <1>1
  <2>3. g[0] = start /\ \A k \in 1 .. n : g[k] = LoadPair(call, d, g[k - 1], pairs[k])
    BY <2>1, <2>2, Zenon
  <2> QED BY <1>4, <2>3, Zenon DEF SameTurns
<1> HIDE DEF F, loop
<1>8. LoadPairs(call, d, from, pairs) = f[n]
  <2>1. n \in 0 .. n
    BY <1>1
  <2>2. \A k \in 0 .. n : f[k] = g[k]
    BY <1>1, <1>7, LoopsAgree, Zenon
  <2> QED BY <1>6, <2>1, <2>2, Zenon
<1> QED BY <1>3, <1>4, <1>8, Zenon DEF Loads, n, start

(* The contents a load leaves are those of the devices, in bytes.          *)
LEMMA LoadType ==
    ASSUME data \in Contents, NEW call, NEW d \in Device, NEW from \in Address,
           NEW text \in Texts
    PROVE  LoadPairs(call, d, from, PairsOf(DigitsOf(text))) \in Progress
<1> DEFINE pairs == PairsOf(DigitsOf(text))
<1>1. pairs \in Seq(Digit \X Digit)
  BY BusMapAssumption, DigitsType, PairsType
<1> HIDE DEF pairs
<1>2. PICK f \in [0 .. Len(pairs) -> Progress] : LoadPairs(call, d, from, pairs) = f[Len(pairs)]
  BY <1>1, LoadLoop
<1>3. Len(pairs) \in 0 .. Len(pairs)
  BY <1>1
<1> QED BY <1>2, <1>3 DEF pairs

-----------------------------------------------------------------------------
(* Types: an access indexes a device's vector only where it has a cell.    *)

LEMMA ResolveType ==
    ASSUME MapInv, NEW a \in Address, Mapped(a)
    PROVE  Resolve(a) \in Cells
<1>1. PICK i \in DOMAIN mappings : Covers(mappings[i], a)
  BY DEF Mapped
<1>2. mappings[i] \in Mapping
  BY DEF MapInv, RangesFit
<1>3. a \in mappings[i].start .. mappings[i].end
  BY <1>1, <1>2 DEF Covers, Mapping, Address
<1>4. /\ Resolve(a) = <<mappings[i].device, a - mappings[i].start>>
      /\ a - mappings[i].start < Size[mappings[i].device]
  BY <1>3, MapInvServes DEF EveryMappingHolds
<1>5. a - mappings[i].start \in Address
  BY <1>2, <1>3, BusMapAssumption DEF Mapping, Address
<1> QED BY <1>2, <1>4, <1>5 DEF Cells, Mapping

LEMMA CellByte ==
    ASSUME data \in Contents, NEW c \in Cells
    PROVE  data[c[1]][c[2]] \in Byte
<1>1. c[1] \in Device /\ c[2] \in Offsets(c[1])
  BY DEF Cells, Offsets
<1>2. data[c[1]] \in [Offsets(c[1]) -> Byte]
  BY <1>1 DEF Contents
<1> QED BY <1>1, <1>2

Results == Calls \X ({Done, Refused} \cup Byte)
TypeInv == MapInv /\ data \in Contents /\ result \in Results

LEMMA TypeInit == Init => TypeInv
<1> SUFFICES ASSUME Init PROVE TypeInv
  OBVIOUS
<1>1. data \in Contents
  <2>1. \A d \in Device : [o \in Offsets(d) |-> 0] \in [Offsets(d) -> Byte]
    BY DEF Byte
  <2> QED BY <2>1 DEF Init, Contents
<1>2. result \in Results
  BY DEF Init, Results, Calls
<1> QED BY <1>1, <1>2, MapInit DEF TypeInv

LEMMA TypeNext == TypeInv /\ [Next]_vars => TypeInv'
<1> SUFFICES ASSUME TypeInv, [Next]_vars PROVE data' \in Contents /\ result' \in Results
  BY NextKeeps DEF TypeInv
<1>0. MapInv /\ data \in Contents /\ result \in Results
  BY DEF TypeInv
<1>1. CASE AttachSome
  BY <1>0, <1>1 DEF AttachSome, Attach, Results, Calls
<1>2. CASE AttachThrows \/ LoadThrows
  BY <1>0, <1>2 DEF AttachThrows, LoadThrows, Refuse, Results, Calls
<1>3. ASSUME NEW addr \in Address, Read(addr) PROVE data' \in Contents /\ result' \in Results
  <2>1. (IF Mapped(addr) THEN LET c == Resolve(addr) IN data[c[1]][c[2]] ELSE 255) \in Byte
    BY <1>0, ResolveType, CellByte DEF Byte
  <2>2. result'[1] = "read" /\ result' \in {"read"} \X Byte
    BY <1>3, <2>1 DEF Read
  <2> QED BY <1>0, <1>3, <2>2 DEF Read, Results, Calls
<1>4. ASSUME NEW addr \in Address, NEW val \in Values, Write(addr, val)
      PROVE  data' \in Contents /\ result' \in Results
  <2>1. val \in Byte
    BY BusMapAssumption
  <2>2. CASE ~Mapped(addr)
    BY <1>0, <1>4, <2>2 DEF Write, Results, Calls
  <2>3. CASE Mapped(addr)
    <3>1. Resolve(addr)[1] \in Device
      BY <1>0, <2>3, ResolveType DEF Cells
    <3>2. Stored(data, Resolve(addr)[1], Resolve(addr)[2], val) \in Contents
      BY <1>0, <2>1, <3>1, StoreType DEF Stored
    <3> QED BY <1>0, <1>4, <2>3, <3>2 DEF Write, Results, Calls
  <2> QED BY <2>2, <2>3
<1>5. ASSUME NEW d \in Device, NEW from \in Address, NEW text \in Texts,
             NEW call \in {"loadProgram", "loadRoutine"}, Load(call, d, from, text)
      PROVE  data' \in Contents /\ result' \in Results
  <2> DEFINE end == LoadPairs(call, d, from, PairsOf(DigitsOf(text)))
  <2>1. end \in Progress
    BY <1>0, LoadType
  <2>2. data' = end.contents /\ result' = <<call, IF end.thrown THEN Refused ELSE Done>>
    BY <1>5 DEF Load
  <2> HIDE DEF end
  <2> QED BY <2>1, <2>2 DEF Progress, Results, Calls
<1>6. CASE Use
  BY <1>3, <1>4, <1>6 DEF Use
<1>7. CASE LoadSome
  <2>1. PICK d \in Device, addr \in Address, text \in Texts :
            LoadProgram(d, addr, text) \/ LoadRoutine(d, addr, text)
    BY <1>7 DEF LoadSome
  <2>2. (addr - RomBase) % Count \in Address
    BY BusMapAssumption DEF Address
  <2> QED BY <1>5, <2>1, <2>2 DEF LoadProgram, LoadRoutine
<1>8. CASE UNCHANGED vars
  BY <1>0, <1>8 DEF vars
<1> QED BY <1>1, <1>2, <1>6, <1>7, <1>8 DEF Next

(* TypeOK: every cell of every device is a byte, whatever was loaded and   *)
(* written, a text with bad characters included, and a bus read returns    *)
(* one (ram.cpp, rom.cpp, program_loader.cpp).                             *)
THEOREM TypeCorrect == Spec => []TypeOK
<1>1. TypeInv => TypeOK
  BY DEF TypeInv, TypeOK, MapInv, RangesFit, Contents, Results
<1> QED BY <1>1, TypeInit, TypeNext, PTL DEF Spec

-----------------------------------------------------------------------------
(* The map is an address space: each step but a load.                      *)

LEMMA SameMeaning == UNCHANGED mappings => Meaning' = Meaning
  BY DEF Meaning, Mapped, Resolve, FindMapping, Covers

LEMMA SameContent == UNCHANGED data => Content' = Content
  BY Zenon DEF Content

(* MapInvServes, for an address and a range that covers it.                *)
Leads ==
    \A i \in DOMAIN mappings, a \in Address :
        Covers(mappings[i], a) =>
            Resolve(a) = <<mappings[i].device, a - mappings[i].start>>

LEMMA MapInvLeads == MapInv => Leads
<1> SUFFICES ASSUME MapInv, NEW i \in DOMAIN mappings, NEW a \in Address, Covers(mappings[i], a)
             PROVE  Resolve(a) = <<mappings[i].device, a - mappings[i].start>>
  BY DEF Leads
<1>1. mappings[i] \in Mapping
  BY DEF MapInv, RangesFit
<1>2. a \in mappings[i].start .. mappings[i].end
  BY <1>1 DEF Covers, Mapping, Address
<1> QED BY <1>2, MapInvServes DEF EveryMappingHolds

LEMMA SpaceInit == Init => Promised!Init
<1> SUFFICES ASSUME Init PROVE Promised!Init
  OBVIOUS
<1>1. Meaning = [a \in {} |-> a]
  <2>1. {b \in Address : Mapped(b)} = {}
    BY DEF Init, Mapped
  <2> QED BY <2>1 DEF Meaning
<1>2. Content \in [Promised!Cells -> 0 .. 255]
  <2>1. Promised!Cells = Cells
    BY DEF Promised!Cells, Cells, Address
  <2>2. \A c \in Cells : data[c[1]][c[2]] \in 0 .. 255
    BY TypeInit, CellByte DEF TypeInv, Byte
  <2> QED BY <2>1, <2>2 DEF Content
<1>3. result = <<"write", Promised!Done>>
  BY DEF Init, Done, Promised!Done
<1> QED BY <1>1, <1>2, <1>3 DEF Promised!Init

LEMMA SpaceAttach ==
    ASSUME MapInv, MapInv', NEW start \in Address, NEW end \in Address, NEW d \in Device,
           Attach(start, end, d)
    PROVE  Promised!Attach(start, d)
<1> DEFINE new == [start |-> start, end |-> end, device |-> d]
           n == Len(mappings)
           ranged == start .. start + Size[d] - 1
<1>1. /\ mappings \in Seq(Mapping) /\ new \in Mapping /\ mappings' = Append(mappings, new)
      /\ start \in Int /\ end \in Int /\ start <= end /\ Size[d] = end - start + 1
      /\ \A i \in DOMAIN mappings : ~Overlaps(start, end, mappings[i])
  <2>1. mappings \in Seq(Mapping) /\ new \in Mapping /\ mappings' = Append(mappings, new)
    BY DEF MapInv, RangesFit, Attach, Mapping
  <2>2. start \in Int /\ end \in Int /\ Size[d] \in Int
    BY BusMapAssumption DEF Address
  <2> QED BY <2>1, <2>2 DEF Attach, AttachRefused, SizeMatches
<1>2. /\ n \in Nat /\ DOMAIN mappings = 1 .. n /\ DOMAIN mappings' = 1 .. n + 1
      /\ \A i \in 1 .. n : mappings'[i] = mappings[i]
      /\ mappings'[n + 1] = new
  BY <1>1
<1>3. new.start = start /\ new.end = end /\ new.device = d
  OBVIOUS
<1> HIDE DEF new, n
<1>4. ranged = start .. end /\ ranged \subseteq Address
  BY <1>1, BusMapAssumption DEF Address
<1> HIDE DEF ranged
<1>5. \A a \in Address : Covers(new, a) <=> a \in ranged
  BY <1>1, <1>3, <1>4 DEF Covers, Address
<1>6. \A a \in ranged : ~Mapped(a)
  <2> SUFFICES ASSUME NEW a \in ranged, NEW i \in DOMAIN mappings, Covers(mappings[i], a)
               PROVE  FALSE
    BY DEF Mapped
  <2>0. mappings[i] \in Mapping
    BY DEF MapInv, RangesFit
  <2>1. mappings[i].start \in Int /\ mappings[i].end \in Int
    BY <2>0, BusMapAssumption DEF Mapping, Address
  <2>2. Overlaps(start, end, mappings[i])
    BY <1>1, <1>4, <2>1 DEF Covers, Overlaps
  <2> QED BY <1>1, <2>2
<1>7. \A a \in Address : Mapped(a)' <=> Mapped(a) \/ a \in ranged
  <2> SUFFICES ASSUME NEW a \in Address PROVE Mapped(a)' <=> Mapped(a) \/ a \in ranged
    OBVIOUS
  <2>1. \A i \in 1 .. n + 1 : i \in 1 .. n \/ i = n + 1
    BY <1>2
  <2>2. n + 1 \in 1 .. n + 1 /\ 1 .. n \subseteq 1 .. n + 1
    BY <1>2
  <2>3. (\E i \in 1 .. n + 1 : Covers(mappings'[i], a))
            <=> (\E i \in 1 .. n : Covers(mappings[i], a)) \/ Covers(new, a)
    <3>1. \A i \in 1 .. n : Covers(mappings'[i], a) <=> Covers(mappings[i], a)
      BY <1>2
    <3>2. Covers(mappings'[n + 1], a) <=> Covers(new, a)
      BY <1>2
    <3> QED BY <2>1, <2>2, <3>1, <3>2
  <2>4. Mapped(a) <=> \E i \in 1 .. n : Covers(mappings[i], a)
    BY <1>2 DEF Mapped
  <2>5. Mapped(a)' <=> \E i \in 1 .. n + 1 : Covers(mappings'[i], a)
    BY <1>2 DEF Mapped, Covers
  <2> QED BY <1>5, <2>3, <2>4, <2>5
<1>8. \A a \in Address : Mapped(a) => Resolve(a)' = Resolve(a)
  <2> SUFFICES ASSUME NEW a \in Address, NEW i \in DOMAIN mappings, Covers(mappings[i], a)
               PROVE  Resolve(a)' = Resolve(a)
    BY DEF Mapped
  <2>1. Resolve(a) = <<mappings[i].device, a - mappings[i].start>>
    BY MapInvLeads DEF Leads
  <2>2. i \in DOMAIN mappings' /\ mappings'[i] = mappings[i] /\ Covers(mappings'[i], a)
    BY <1>2
  <2>3. Leads'
    BY MapInvLeads, PTL
  <2>4. Resolve(a)' = <<mappings'[i].device, a - mappings'[i].start>>
    BY <2>2, <2>3 DEF Leads, Covers
  <2> QED BY <2>1, <2>2, <2>4
<1>9. \A a \in ranged : Resolve(a)' = <<d, a - start>>
  <2> SUFFICES ASSUME NEW a \in ranged PROVE Resolve(a)' = <<d, a - start>>
    OBVIOUS
  <2>1. n + 1 \in DOMAIN mappings' /\ a \in Address /\ Covers(mappings'[n + 1], a)
    BY <1>2, <1>4, <1>5
  <2>2. Leads'
    BY MapInvLeads, PTL
  <2>3. Resolve(a)' = <<mappings'[n + 1].device, a - mappings'[n + 1].start>>
    BY <2>1, <2>2 DEF Leads, Covers
  <2> QED BY <1>2, <1>3, <2>3
<1>10. Promised!Claimed = {a \in Address : Mapped(a)}
  BY DEF Promised!Claimed, Meaning
<1>11. Promised!Fits(start, d)
  BY <1>1, <1>4, <1>6, <1>10, BusMapAssumption DEF Promised!Fits, ranged, Address
<1>12. Meaning' = [a \in Promised!Claimed \cup ranged |->
                      IF a \in Promised!Claimed THEN Meaning[a] ELSE <<d, a - start>>]
  <2>1. {a \in Address : Mapped(a)'} = Promised!Claimed \cup ranged
    BY <1>4, <1>7, <1>10
  <2>2. Meaning' = [a \in {b \in Address : Mapped(b)'} |-> Resolve(a)']
    BY DEF Meaning, Address
  <2>3. \A a \in Promised!Claimed : Meaning[a] = Resolve(a)
    BY <1>10 DEF Meaning
  <2>4. \A a \in Promised!Claimed \cup ranged :
            Resolve(a)' = IF a \in Promised!Claimed THEN Meaning[a] ELSE <<d, a - start>>
    BY <1>8, <1>9, <1>10, <2>3
  <2> QED BY <2>1, <2>2, <2>4, Zenon
<1>13. Content' = Content /\ result' = <<"attach", Promised!Done>>
  BY SameContent DEF Attach, Done, Promised!Done
<1> QED BY <1>11, <1>12, <1>13, Zenon DEF Promised!Attach, ranged

LEMMA SpaceRead ==
    ASSUME MapInv, NEW a \in Address, Read(a)
    PROVE  Promised!Read(a)
<1>1. Promised!Claimed = {b \in Address : Mapped(b)}
  BY DEF Promised!Claimed, Meaning
<1>2. Meaning' = Meaning /\ Content' = Content
  BY SameMeaning, SameContent DEF Read
<1>3. ASSUME Mapped(a) PROVE Content[Meaning[a]] = data[Resolve(a)[1]][Resolve(a)[2]]
  <2>1. Meaning[a] = Resolve(a) /\ Resolve(a) \in Cells
    BY <1>3, ResolveType DEF Meaning
  <2> QED BY <2>1 DEF Content
<1>4. a \in Promised!Claimed <=> Mapped(a)
  BY <1>1
<1>5. result' = <<"read", IF a \in Promised!Claimed THEN Content[Meaning[a]] ELSE 255>>
  BY <1>3, <1>4, Zenon DEF Read
<1> QED BY <1>2, <1>5, Zenon DEF Promised!Read

(* A cell is one place: storing there changes it alone.                    *)
StoredAt(old, c, v) == [old EXCEPT ![c[1]][c[2]] = v]

IsStore(new, old, c, v, e) == new[e[1]][e[2]] = IF e = c THEN v ELSE old[e[1]][e[2]]

LEMMA StoreContent ==
    ASSUME NEW old \in Contents, NEW c \in Cells, NEW v, NEW e \in Cells
    PROVE  IsStore(StoredAt(old, c, v), old, c, v, e)
<1> USE DEF StoredAt, IsStore
<1> DEFINE new == [old EXCEPT ![c[1]][c[2]] = v]
<1>1. /\ c[1] \in Device /\ c[2] \in Offsets(c[1]) /\ c = <<c[1], c[2]>>
      /\ e[1] \in Device /\ e[2] \in Offsets(e[1]) /\ e = <<e[1], e[2]>>
  BY DEF Cells, Offsets
<1>2. old[c[1]] \in [Offsets(c[1]) -> Byte] /\ DOMAIN old = Device
  BY <1>1 DEF Contents
<1>3. CASE e[1] # c[1]
  <2>1. new[e[1]] = old[e[1]]
    BY <1>1, <1>2, <1>3
  <2> QED BY <1>3, <2>1
<1>4. CASE e[1] = c[1]
  <2>1. new[e[1]] = [old[c[1]] EXCEPT ![c[2]] = v]
    BY <1>1, <1>2, <1>4
  <2>2. new[e[1]][e[2]] = IF e[2] = c[2] THEN v ELSE old[c[1]][e[2]]
    BY <1>1, <1>2, <1>4, <2>1
  <2>3. e = c <=> e[2] = c[2]
    BY <1>1, <1>4
  <2> QED BY <1>4, <2>2, <2>3
<1> QED BY <1>3, <1>4

LEMMA SpaceWrite ==
    ASSUME MapInv, data \in Contents, NEW a \in Address, NEW v, Write(a, v)
    PROVE  Promised!Write(a, v)
<1>1. a \in Promised!Claimed <=> Mapped(a)
  BY DEF Promised!Claimed, Meaning
<1>2. Meaning' = Meaning
  BY SameMeaning DEF Write
<1>3. ASSUME Mapped(a) PROVE Meaning[a] = Resolve(a) /\ Resolve(a) \in Cells
  BY <1>3, ResolveType DEF Meaning
<1>4. CASE ~Mapped(a) \/ Resolve(a)[1] \in Rom
  <2>1. data' = data
    BY <1>4 DEF Write, Stored
  <2>2. Content' = Content
    BY <2>1, SameContent
  <2> QED BY <1>1, <1>2, <1>3, <1>4, <2>2, Zenon DEF Promised!Write, Promised!Done, Write, Done
<1>5. CASE Mapped(a) /\ Resolve(a)[1] \notin Rom
  <2> DEFINE c == Resolve(a)
  <2>1. data' = StoredAt(data, c, v)
    BY <1>5 DEF Write, Stored, StoredAt
  <2>2. c \in Cells
    BY <1>3, <1>5
  <2> HIDE DEF c
  <2>3. \A e \in Cells : IsStore(data', data, c, v, e)
    BY <2>1, <2>2, StoreContent
  <2>4. Content' = [e \in Cells |-> data'[e[1]][e[2]]]
    BY DEF Content, Cells, Address
  <2>5. Content' = [Content EXCEPT ![c] = v]
    BY <2>2, <2>3, <2>4 DEF Content, IsStore
  <2>6. Content' = [Content EXCEPT ![Meaning[a]] = v]
    BY <1>3, <1>5, <2>5, Zenon DEF c
  <2> QED BY <1>1, <1>2, <1>3, <1>5, <2>6, Zenon
         DEF Promised!Write, Promised!Done, Write, Done
<1> QED BY <1>4, <1>5

-----------------------------------------------------------------------------
(* What a load leaves.  The first n pairs are the sound ones, the next is  *)
(* not, if there is one; turn k stores at offset (from + k - 1) % Count.   *)

LEMMA NextModulus ==
    ASSUME NEW n \in Nat \ {0}, NEW x \in Nat
    PROVE  ((x % n) + 1) % n = (x + 1) % n
<1> DEFINE q == x \div n
           r == x % n
<1>1. q \in Int /\ r \in 0 .. n - 1 /\ x = n * q + r
  BY SMTT(30)
<1> HIDE DEF q, r
<1>2. CASE r + 1 < n
  <2>1. x + 1 = n * q + (r + 1) /\ r + 1 \in 0 .. n - 1
    BY <1>1, <1>2
  <2>2. (n * q + (r + 1)) % n = r + 1
    BY <1>1, <2>1, SMTT(30)
  <2>3. (r + 1) % n = r + 1
    BY <1>1, <2>1, SMTT(30)
  <2> QED BY <2>1, <2>2, <2>3 DEF r
<1>3. CASE r + 1 = n
  <2>1. x + 1 = n * (q + 1)
    BY <1>1, <1>3, SMTT(30)
  <2>2. (n * (q + 1)) % n = 0 /\ n % n = 0
    BY <1>1, SMTT(30)
  <2> QED BY <1>3, <2>1, <2>2 DEF r
<1> QED BY <1>1, <1>2, <1>3

Sound(pairs, n) ==
    /\ n \in 0 .. Len(pairs)
    /\ \A k \in 1 .. n : ~BadPair(pairs[k])
    /\ n < Len(pairs) => BadPair(pairs[n + 1])

ByteOf(pair) == 16 * pair[1] + pair[2]

(* A sound pair is stored, and the offset moves on.                        *)
LEMMA SoundTurn ==
    ASSUME NEW call, NEW d, NEW progress, ~progress.thrown, NEW pair, ~BadPair(pair)
    PROVE  LoadPair(call, d, progress, pair) =
               [contents |-> Put(call, progress.contents, d, progress.at, ByteOf(pair)),
                at |-> (progress.at + 1) % Count, thrown |-> FALSE]
  BY Zenon DEF LoadPair, ByteOf

LEMMA LoadCounts ==
    ASSUME NEW call, NEW d \in Device, NEW from \in Address,
           NEW pairs \in Seq(Digit \X Digit), NEW f, Loads(f, call, d, from, pairs),
           NEW n, Sound(pairs, n)
    PROVE  \A m \in 0 .. n : ~f[m].thrown /\ f[m].at = (from + m) % Count
<1> DEFINE G == {m \in Nat : m <= n => ~f[m].thrown /\ f[m].at = (from + m) % Count}
<1>0. /\ n \in Nat /\ Len(pairs) \in Nat /\ n <= Len(pairs)
      /\ Count \in Nat \ {0} /\ from \in 0 .. Count - 1 /\ from \in Nat
  BY BusMapAssumption DEF Sound, Address
<1>1. 0 \in G
  <2>1. from % Count = from
    BY <1>0, SmallModulus
  <2> QED BY <1>0, <2>1 DEF Loads
<1>2. ASSUME NEW m \in Nat, m \in G PROVE m + 1 \in G
  <2> SUFFICES ASSUME m + 1 <= n
               PROVE  ~f[m + 1].thrown /\ f[m + 1].at = (from + (m + 1)) % Count
    OBVIOUS
  <2>1. m + 1 \in 1 .. n /\ m + 1 \in 1 .. Len(pairs) /\ (m + 1) - 1 = m /\ m <= n
    BY <1>0
  <2>2. ~f[m].thrown /\ f[m].at = (from + m) % Count
    BY <1>2, <2>1
  <2>3. f[m + 1] = LoadPair(call, d, f[m], pairs[m + 1]) /\ ~BadPair(pairs[m + 1])
    BY <2>1 DEF Loads, Sound
  <2>4. ~f[m + 1].thrown /\ f[m + 1].at = (f[m].at + 1) % Count
    BY <2>2, <2>3, SoundTurn
  <2>5. (((from + m) % Count) + 1) % Count = ((from + m) + 1) % Count
    <3>1. from + m \in Nat
      BY <1>0
    <3> QED BY <1>0, <3>1, NextModulus, Zenon
  <2>6. (from + m) + 1 = from + (m + 1)
    BY <1>0
  <2> QED BY <2>2, <2>4, <2>5, <2>6
<1> HIDE DEF G
<1>3. Nat \subseteq G
  BY <1>1, <1>2, Induction
<1>4. \A m \in 0 .. n : m \in Nat /\ m <= n
  BY <1>0
<1> QED BY <1>3, <1>4 DEF G

(* At a bad pair the loop ends: nothing after it is stored.                *)
LEMMA LoadStops ==
    ASSUME NEW call, NEW d \in Device, NEW from \in Address,
           NEW pairs \in Seq(Digit \X Digit), NEW f \in [0 .. Len(pairs) -> Progress],
           Loads(f, call, d, from, pairs), NEW n, Sound(pairs, n)
    PROVE  \A m \in n + 1 .. Len(pairs) : f[m].thrown /\ f[m].contents = f[n].contents
<1> DEFINE last == Len(pairs)
           G == {m \in Nat : n + 1 + m <= last =>
                    f[n + 1 + m].thrown /\ f[n + 1 + m].contents = f[n].contents}
<1>0. n \in Nat /\ last \in Nat /\ n <= last
  BY DEF Sound
<1> HIDE DEF last
<1>1. 0 \in G
  <2> SUFFICES ASSUME n + 1 <= last
               PROVE  f[n + 1].thrown /\ f[n + 1].contents = f[n].contents
    BY <1>0
  <2>1. n + 1 \in 1 .. last /\ (n + 1) - 1 = n /\ n \in 0 .. n /\ n \in 0 .. last /\ n < last
    BY <1>0
  <2>2. ~f[n].thrown
    BY <2>1, LoadCounts
  <2>3. f[n + 1] = LoadPair(call, d, f[n], pairs[n + 1]) /\ BadPair(pairs[n + 1])
    BY <2>1 DEF Loads, Sound, last
  <2>4. f[n + 1] = [f[n] EXCEPT !.thrown = TRUE]
    BY <2>2, <2>3, Zenon DEF LoadPair
  <2>5. f[n] \in Progress
    BY <2>1 DEF last
  <2> QED BY <2>4, <2>5 DEF Progress
<1>2. ASSUME NEW m \in Nat, m \in G PROVE m + 1 \in G
  <2> SUFFICES ASSUME n + 1 + (m + 1) <= last
               PROVE  /\ f[n + 1 + (m + 1)].thrown
                      /\ f[n + 1 + (m + 1)].contents = f[n].contents
    OBVIOUS
  <2> DEFINE here == n + 1 + m
  <2>1. /\ here + 1 \in 1 .. last /\ (here + 1) - 1 = here /\ here <= last
        /\ n + 1 + (m + 1) = here + 1
    BY <1>0
  <2>2. f[here].thrown /\ f[here].contents = f[n].contents
    BY <1>2, <2>1
  <2> HIDE DEF here
  <2>3. f[here + 1] = LoadPair(call, d, f[here], pairs[here + 1])
    BY <2>1 DEF Loads, last
  <2>4. f[here + 1] = f[here]
    BY <2>2, <2>3, Zenon DEF LoadPair
  <2> QED BY <2>1, <2>2, <2>4
<1> HIDE DEF G
<1>3. Nat \subseteq G
  BY <1>1, <1>2, Induction
<1>4. \A m \in n + 1 .. last : m - (n + 1) \in Nat /\ n + 1 + (m - (n + 1)) = m /\ m <= last
  BY <1>0
<1>5. \A m \in n + 1 .. last : m - (n + 1) \in G
  BY <1>3, <1>4
<1>6. \A m \in n + 1 .. last : f[m].thrown /\ f[m].contents = f[n].contents
  <2> SUFFICES ASSUME NEW m \in n + 1 .. last
               PROVE  f[m].thrown /\ f[m].contents = f[n].contents
    OBVIOUS
  <2> DEFINE k == m - (n + 1)
  <2>1. k \in G /\ n + 1 + k = m /\ m <= last
    BY <1>4, <1>5
  <2> HIDE DEF k
  <2>2. n + 1 + k <= last => f[n + 1 + k].thrown /\ f[n + 1 + k].contents = f[n].contents
    BY <2>1 DEF G
  <2> QED BY <2>1, <2>2
<1> QED BY <1>6 DEF last

(* The turns among the first n that store to cell c, and what c then       *)
(* holds: the byte of the last of them.                                    *)
CellAt(d, from, k) == <<d, (from + k - 1) % Count>>
Hits(c, d, from, n) == {k \in 1 .. n : c = CellAt(d, from, k)}
Latest(S) == CHOOSE k \in S : \A j \in S : j <= k
Held(c, d, from, pairs, n) ==
    IF Hits(c, d, from, n) = {} THEN data[c[1]][c[2]]
    ELSE ByteOf(pairs[Latest(Hits(c, d, from, n))])

HeldSteps(c, d, from, pairs, m) ==
    Held(c, d, from, pairs, m + 1) =
        IF c = CellAt(d, from, m + 1) THEN ByteOf(pairs[m + 1]) ELSE Held(c, d, from, pairs, m)

LEMMA HeldNext ==
    ASSUME NEW c, NEW d, NEW from, NEW pairs, NEW m \in Nat
    PROVE  HeldSteps(c, d, from, pairs, m)
<1> USE DEF HeldSteps
<1> DEFINE hit(k) == c = CellAt(d, from, k)
           H == {k \in 1 .. m : hit(k)}
           I == {k \in 1 .. m + 1 : hit(k)}
<1> HIDE DEF hit
<1>1. CASE ~hit(m + 1)
  <2>1. I = H
    BY <1>1
  <2>2. Hits(c, d, from, m + 1) = Hits(c, d, from, m)
    BY <2>1, Zenon DEF Hits, hit
  <2>3. Held(c, d, from, pairs, m + 1) = Held(c, d, from, pairs, m)
    BY <2>2, Zenon DEF Held
  <2> QED BY <1>1, <2>3, Zenon DEF hit
<1>2. CASE hit(m + 1)
  <2>1. m + 1 \in I /\ \A j \in I : j <= m + 1
    BY <1>2
  <2>2. \A k \in I : (\A j \in I : j <= k) => k = m + 1
    BY <2>1
  <2>3. Latest(I) = m + 1
    <3> HIDE DEF I
    <3> QED BY <2>1, <2>2, Zenon DEF Latest
  <2>4. Hits(c, d, from, m + 1) = I
    BY Zenon DEF Hits, hit
  <2>5. I # {}
    BY <2>1
  <2> HIDE DEF I
  <2>6. Held(c, d, from, pairs, m + 1) = ByteOf(pairs[m + 1])
    BY <2>3, <2>4, <2>5, Zenon DEF Held
  <2> QED BY <1>2, <2>6, Zenon DEF hit
<1> QED BY <1>1, <1>2

Room(d, from, n) == \A k \in 1 .. n : (from + k - 1) % Count < Size[d]
Writes(call, d) == call = "loadRoutine" \/ d \notin Rom

Holds(contents, d, from, pairs, n) ==
    \A e \in Cells : contents[e[1]][e[2]] = Held(e, d, from, pairs, n)

LEMMA LoadFills ==
    ASSUME data \in Contents, NEW call, NEW d \in Device, Writes(call, d), NEW from \in Address,
           NEW pairs \in Seq(Digit \X Digit), NEW f \in [0 .. Len(pairs) -> Progress],
           Loads(f, call, d, from, pairs), NEW n, Sound(pairs, n),
           Room(d, from, Len(pairs))
    PROVE  Holds(f[n].contents, d, from, pairs, n)
<1> DEFINE P(m) == \A e \in Cells : f[m].contents[e[1]][e[2]] = Held(e, d, from, pairs, m)
           G == {m \in Nat : m <= n => P(m)}
<1>0. /\ n \in Nat /\ Len(pairs) \in Nat /\ n <= Len(pairs)
      /\ Count \in Nat \ {0} /\ from \in Nat
  BY BusMapAssumption DEF Sound, Address
<1>1. 0 \in G
  <2>1. f[0].contents = data
    BY DEF Loads
  <2>2. \A e \in Cells : Hits(e, d, from, 0) = {}
    BY DEF Hits
  <2>3. P(0)
    BY <2>1, <2>2, Zenon DEF Held
  <2> QED BY <2>3
<1>2. ASSUME NEW m \in Nat, m \in G PROVE m + 1 \in G
  <2> SUFFICES ASSUME m + 1 <= n, NEW e \in Cells
               PROVE  f[m + 1].contents[e[1]][e[2]] = Held(e, d, from, pairs, m + 1)
    OBVIOUS
  <2>1. /\ m + 1 \in 1 .. n /\ m + 1 \in 1 .. Len(pairs) /\ (m + 1) - 1 = m /\ m <= n
        /\ m \in 0 .. n /\ m \in 0 .. Len(pairs)
    BY <1>0
  <2>2. ~f[m].thrown /\ f[m].at = (from + m) % Count
    BY <2>1, LoadCounts
  <2>3. f[m].contents \in Contents /\ f[m].at \in Address
    BY <2>1 DEF Progress
  <2>4. f[m].contents[e[1]][e[2]] = Held(e, d, from, pairs, m)
    BY <1>2, <2>1
  <2>5. f[m + 1] = LoadPair(call, d, f[m], pairs[m + 1]) /\ ~BadPair(pairs[m + 1])
    BY <2>1 DEF Loads, Sound
  <2> DEFINE cell == CellAt(d, from, m + 1)
             v == ByteOf(pairs[m + 1])
  <2>6. f[m + 1].contents = Put(call, f[m].contents, d, f[m].at, v)
    BY <2>2, <2>5, SoundTurn
  <2>7. f[m + 1].contents = [f[m].contents EXCEPT ![d][f[m].at] = v]
    BY <2>6, Zenon DEF Put, Stored, Writes
  <2>8. from + (m + 1) - 1 = from + m
    BY <1>0
  <2>9. cell \in Cells /\ cell[1] = d /\ cell[2] = f[m].at
    <3>1. cell = <<d, f[m].at>>
      BY <2>2, <2>8, Zenon DEF CellAt
    <3>2. (from + (m + 1) - 1) % Count < Size[d]
      BY <2>1 DEF Room
    <3>3. f[m].at < Size[d]
      BY <2>2, <2>8, <3>2, Zenon
    <3> QED BY <2>3, <3>1, <3>3 DEF Cells
  <2>10. Held(e, d, from, pairs, m + 1) = IF e = cell THEN v ELSE Held(e, d, from, pairs, m)
    <3>1. HeldSteps(e, d, from, pairs, m)
      BY HeldNext
    <3> QED BY <3>1, Zenon DEF HeldSteps
  <2> HIDE DEF v, cell
  <2>11. f[m + 1].contents = StoredAt(f[m].contents, cell, v)
    BY <2>7, <2>9 DEF StoredAt
  <2>12. StoredAt(f[m].contents, cell, v)[e[1]][e[2]]
             = IF e = cell THEN v ELSE f[m].contents[e[1]][e[2]]
    <3>1. IsStore(StoredAt(f[m].contents, cell, v), f[m].contents, cell, v, e)
      BY <2>3, <2>9, StoreContent, Zenon
    <3> QED BY <3>1, Zenon DEF IsStore
  <2> QED BY <2>4, <2>10, <2>11, <2>12, Zenon
<1> HIDE DEF P
<1>3. n \in G
  <2> HIDE DEF G
  <2> QED BY <1>0, <1>1, <1>2, Induction
<1> QED BY <1>0, <1>3 DEF P, Holds

(* A ROM loaded like a RAM ignores every byte.                             *)
LEMMA LoadIgnores ==
    ASSUME NEW call, NEW d \in Device, ~Writes(call, d), NEW from \in Address,
           NEW pairs \in Seq(Digit \X Digit), NEW f \in [0 .. Len(pairs) -> Progress],
           Loads(f, call, d, from, pairs)
    PROVE  f[Len(pairs)].contents = data
<1> DEFINE n == Len(pairs)
           G == {m \in Nat : m <= n => f[m].contents = data}
<1>0. n \in Nat
  OBVIOUS
<1>1. 0 \in G
  BY DEF Loads
<1>2. ASSUME NEW m \in Nat, m \in G PROVE m + 1 \in G
  <2> SUFFICES ASSUME m + 1 <= n PROVE f[m + 1].contents = data
    OBVIOUS
  <2>1. m + 1 \in 1 .. n /\ m \in 0 .. n /\ (m + 1) - 1 = m /\ m <= n
    BY <1>0
  <2>2. f[m].contents = data /\ f[m] \in Progress
    BY <1>2, <2>1
  <2>3. f[m + 1] = LoadPair(call, d, f[m], pairs[m + 1])
    BY <2>1 DEF Loads
  <2>4. CASE f[m].thrown
    BY <2>2, <2>3, <2>4 DEF LoadPair
  <2>5. CASE ~f[m].thrown /\ BadPair(pairs[m + 1])
    <3>1. f[m + 1] = [f[m] EXCEPT !.thrown = TRUE]
      BY <2>3, <2>5, Zenon DEF LoadPair
    <3> QED BY <2>2, <3>1 DEF Progress
  <2>6. CASE ~f[m].thrown /\ ~BadPair(pairs[m + 1])
    <3>1. f[m + 1].contents = Put(call, f[m].contents, d, f[m].at, ByteOf(pairs[m + 1]))
      BY <2>3, <2>6, SoundTurn
    <3> QED BY <2>2, <3>1, Zenon DEF Put, Stored, Writes
  <2> QED BY <2>4, <2>5, <2>6
<1> HIDE DEF n
<1>3. n \in G
  <2> HIDE DEF G
  <2> QED BY <1>0, <1>1, <1>2, Induction
<1> QED BY <1>0, <1>3 DEF n

-----------------------------------------------------------------------------
(* The sound pairs of a text are the bytes the abstract specification      *)
(* takes it to name.                                                       *)

LEMMA SoundExists ==
    ASSUME NEW pairs \in Seq(Digit \X Digit)
    PROVE  \E n : Sound(pairs, n)
<1> DEFINE N == Len(pairs)
           T == {k \in Nat : k < N /\ BadPair(pairs[k + 1])}
<1>0. N \in Nat
  OBVIOUS
<1> HIDE DEF N
<1>1. CASE T = {}
  <2>1. \A k \in 1 .. N : k - 1 \in Nat /\ k - 1 < N /\ (k - 1) + 1 = k
    BY <1>0
  <2>2. \A k \in 1 .. N : ~BadPair(pairs[k])
    BY <1>1, <2>1
  <2>3. N \in 0 .. N /\ ~(N < N)
    BY <1>0
  <2> QED BY <2>2, <2>3 DEF Sound, N
<1>2. CASE T # {}
  <2>1. PICK n \in T : \A k \in T : n <= k
    BY <1>2, LeastNumber
  <2>2. \A k \in 1 .. n : k - 1 \in Nat /\ k - 1 < N /\ (k - 1) + 1 = k /\ ~(n <= k - 1)
    BY <1>0
  <2>3. \A k \in 1 .. n : ~BadPair(pairs[k])
    BY <2>1, <2>2
  <2>4. n \in 0 .. N /\ BadPair(pairs[n + 1])
    BY <1>0
  <2> QED BY <2>3, <2>4 DEF Sound, N
<1> QED BY <1>1, <1>2

LEMMA GreatestNumber ==
    ASSUME NEW n \in Nat, NEW S, S \subseteq 1 .. n, S # {}
    PROVE  Latest(S) \in S
<1> DEFINE T == {j \in Nat : \E k \in S : j = n - k}
<1>1. \A k \in S : n - k \in Nat /\ k \in Int
  OBVIOUS
<1>2. PICK m \in T : \A j \in T : m <= j
  <2>1. T # {} /\ T \subseteq Nat
    BY <1>1
  <2> QED BY <2>1, LeastNumber
<1>3. PICK k \in S : m = n - k
  OBVIOUS
<1>4. \A j \in S : j <= k
  <2> SUFFICES ASSUME NEW j \in S PROVE j <= k
    OBVIOUS
  <2>1. m <= n - j
    BY <1>1, <1>2
  <2> QED BY <1>1, <1>3, <2>1
<1> QED BY <1>4, Zenon DEF Latest

LEMMA DigitsAgree ==
    ASSUME NEW text \in Texts
    PROVE  Promised!Digits[text] = DigitsOf(text)
  BY Zenon DEF Promised!Digits, DigitsOf, Space

LEMMA BadPairIs ==
    ASSUME NEW digits \in Seq(Digit), NEW k \in 1 .. Len(PairsOf(digits))
    PROVE  /\ PairsOf(digits)[k] = <<digits[2 * k - 1], digits[2 * k]>>
           /\ 2 * k - 1 \in 1 .. Len(digits) /\ 2 * k \in 1 .. Len(digits)
           /\ BadPair(PairsOf(digits)[k]) <=> digits[2 * k - 1] >= 16 \/ digits[2 * k] >= 16
<1> DEFINE n == Len(digits) \div 2
<1>1. Len(digits) \in Nat /\ n \in Nat /\ 2 * n <= Len(digits)
  OBVIOUS
<1>2. Len(PairsOf(digits)) = n
  BY <1>1 DEF PairsOf
<1>3. PairsOf(digits)[k] = <<digits[2 * k - 1], digits[2 * k]>>
  BY <1>2 DEF PairsOf
<1> HIDE DEF n
<1>4. 2 * k - 1 \in 1 .. Len(digits) /\ 2 * k \in 1 .. Len(digits)
  BY <1>1, <1>2
<1>5. digits[2 * k - 1] \in Digit /\ digits[2 * k] \in Digit
  BY <1>4, ElementOfSeq
<1>6. \A x \in Digit : x = Other <=> x >= 16
  BY DEF Digit, Other
<1> QED BY <1>3, <1>4, <1>5, <1>6 DEF BadPair

(* The condition under which AddressSpace takes n pairs to be sound.       *)
Names(digits, N, n) ==
    /\ \A k \in 1 .. 2 * n : digits[k] < 16
    /\ n < N => \E k \in {2 * n + 1, 2 * n + 2} : digits[k] >= 16

LEMMA NamesSound ==
    ASSUME NEW digits \in Seq(Digit), NEW n \in 0 .. Len(PairsOf(digits))
    PROVE  Names(digits, Len(PairsOf(digits)), n) <=> Sound(PairsOf(digits), n)
<1> DEFINE pairs == PairsOf(digits)
           N == Len(pairs)
<1>0. N \in Nat /\ n \in Nat /\ n <= N
  <2>1. pairs \in Seq(Digit \X Digit)
    BY PairsType
  <2>2. N \in Nat
    BY <2>1
  <2> QED BY <2>2
<1>1. \A k \in 1 .. N :
          /\ 2 * k - 1 \in 1 .. Len(digits) /\ 2 * k \in 1 .. Len(digits)
          /\ BadPair(pairs[k]) <=> digits[2 * k - 1] >= 16 \/ digits[2 * k] >= 16
  BY BadPairIs
<1>2. \A k \in 1 .. Len(digits) : digits[k] \in Int
  BY ElementOfSeq DEF Digit, Other
<1> HIDE DEF pairs, N
<1>3. (n < N => BadPair(pairs[n + 1]))
          <=> (n < N => \E k \in {2 * n + 1, 2 * n + 2} : digits[k] >= 16)
  <2> SUFFICES ASSUME n < N
               PROVE  BadPair(pairs[n + 1])
                          <=> digits[2 * n + 1] >= 16 \/ digits[2 * n + 2] >= 16
    OBVIOUS
  <2>1. n + 1 \in 1 .. N /\ 2 * (n + 1) - 1 = 2 * n + 1 /\ 2 * (n + 1) = 2 * n + 2
    BY <1>0
  <2> QED BY <1>1, <2>1
<1>4. ASSUME \A k \in 1 .. 2 * n : digits[k] < 16, NEW k \in 1 .. n
      PROVE  ~BadPair(pairs[k])
  <2>1. k \in 1 .. N /\ 2 * k - 1 \in 1 .. 2 * n /\ 2 * k \in 1 .. 2 * n
    BY <1>0
  <2>2. digits[2 * k - 1] < 16 /\ digits[2 * k] < 16
    BY <1>4, <2>1
  <2>3. digits[2 * k - 1] \in Int /\ digits[2 * k] \in Int
    BY <1>1, <1>2, <2>1
  <2>4. ~(digits[2 * k - 1] >= 16) /\ ~(digits[2 * k] >= 16)
    BY <2>2, <2>3
  <2> QED BY <1>1, <2>1, <2>4
<1>5. ASSUME \A k \in 1 .. n : ~BadPair(pairs[k]), NEW j \in 1 .. 2 * n
      PROVE  digits[j] < 16
  <2>1. PICK k \in 1 .. n : j = 2 * k - 1 \/ j = 2 * k
    <3> DEFINE h == (j + 1) \div 2
    <3>1. h \in 1 .. n /\ (j = 2 * h - 1 \/ j = 2 * h)
      BY <1>0
    <3> QED BY <3>1
  <2>2. k \in 1 .. N
    BY <1>0
  <2>3. ~(digits[2 * k - 1] >= 16) /\ ~(digits[2 * k] >= 16)
    BY <1>1, <1>5, <2>2
  <2>4. digits[2 * k - 1] \in Int /\ digits[2 * k] \in Int
    BY <1>1, <1>2, <2>2
  <2>5. digits[2 * k - 1] < 16 /\ digits[2 * k] < 16
    BY <2>3, <2>4
  <2> QED BY <2>1, <2>5
<1>6. n \in 0 .. N
  BY <1>0
<1>7. Names(digits, N, n) => Sound(pairs, n)
  BY <1>3, <1>4, <1>6, Zenon DEF Names, Sound, N
<1>8. Sound(pairs, n) => Names(digits, N, n)
  BY <1>3, <1>5, Zenon DEF Names, Sound, N
<1> QED BY <1>7, <1>8 DEF N, pairs

LEMMA BytesAre ==
    ASSUME NEW text \in Texts
    PROVE  LET pairs == PairsOf(DigitsOf(text))
           IN  /\ Promised!Pairs[text] = Len(pairs)
               /\ \E n : /\ Sound(pairs, n)
                         /\ Promised!Bytes[text] = [k \in 1 .. n |-> ByteOf(pairs[k])]
<1> DEFINE digits == DigitsOf(text)
           pairs == PairsOf(digits)
           N == Len(pairs)
           n == CHOOSE m \in 0 .. N : Names(digits, N, m)
<1>1. digits \in Seq(Digit)
  BY BusMapAssumption, DigitsType
<1>2. Promised!Digits[text] = digits
  BY DigitsAgree
<1> HIDE DEF digits
<1>3. N = Len(digits) \div 2
  BY <1>1 DEF PairsOf
<1>4. Promised!Pairs[text] = N
  BY <1>2, <1>3, Zenon DEF Promised!Pairs
<1>5. pairs \in Seq(Digit \X Digit)
  BY <1>1, PairsType
<1>6. \E m \in 0 .. N : Names(digits, N, m)
  <2>1. PICK m : Sound(pairs, m)
    BY <1>5, SoundExists
  <2>2. m \in 0 .. N
    BY <2>1 DEF Sound
  <2> QED BY <1>1, <2>1, <2>2, NamesSound
<1>7. n \in 0 .. N /\ Names(digits, N, n)
  BY <1>6, Zenon
<1>8. Promised!Bytes[text] = [k \in 1 .. n |-> 16 * digits[2 * k - 1] + digits[2 * k]]
  BY <1>2, <1>4, Zenon DEF Promised!Bytes, Names
<1> HIDE DEF n
<1>9. Sound(pairs, n)
  BY <1>1, <1>7, NamesSound
<1>10. \A k \in 1 .. n : 16 * digits[2 * k - 1] + digits[2 * k] = ByteOf(pairs[k])
  <2> SUFFICES ASSUME NEW k \in 1 .. n
               PROVE  16 * digits[2 * k - 1] + digits[2 * k] = ByteOf(pairs[k])
    OBVIOUS
  <2>1. k \in 1 .. N
    BY <1>5, <1>7
  <2>2. pairs[k] = <<digits[2 * k - 1], digits[2 * k]>>
    BY <1>1, <2>1, BadPairIs
  <2> QED BY <2>2 DEF ByteOf
<1>11. Promised!Bytes[text] = [k \in 1 .. n |-> ByteOf(pairs[k])]
  BY <1>8, <1>10, Zenon
<1> QED BY <1>4, <1>9, <1>11, Zenon DEF digits

(* A load gives its device the bytes the text names, up to the first bad   *)
(* pair, and reports whether there was one.                                *)
SpaceLoads(call, d, from, text) ==
    /\ Promised!Even(text)
    /\ Meaning' = Meaning
    /\ result' = <<call, Promised!Outcome[text]>>
    /\ Content' = IF Writes(call, d) THEN Promised!Filled(d, from, Promised!Bytes[text])
                  ELSE Content

LEMMA FilledIs ==
    ASSUME NEW d, NEW from, NEW pairs, NEW n \in Nat
    PROVE  Promised!Filled(d, from, [k \in 1 .. n |-> ByteOf(pairs[k])])
               = [c \in Cells |-> Held(c, d, from, pairs, n)]
<1> DEFINE bytes == [k \in 1 .. n |-> ByteOf(pairs[k])]
           filled(D, C) ==
               [c \in C |-> IF {k \in D : c = CellAt(d, from, k)} = {} THEN Content[c]
                            ELSE bytes[Latest({k \in D : c = CellAt(d, from, k)})]]
<1>1. Promised!Cells = Cells
  BY DEF Promised!Cells, Cells, Address
<1>2. DOMAIN bytes = 1 .. n
  OBVIOUS
<1>3. ASSUME NEW c \in Cells, Hits(c, d, from, n) # {}
      PROVE  bytes[Latest(Hits(c, d, from, n))] = ByteOf(pairs[Latest(Hits(c, d, from, n))])
  <2>1. Hits(c, d, from, n) \subseteq 1 .. n
    BY DEF Hits
  <2>2. Latest(Hits(c, d, from, n)) \in 1 .. n
    BY <1>3, <2>1, GreatestNumber
  <2> QED BY <2>2, Zenon
<1> HIDE DEF bytes
<1>4. Promised!Filled(d, from, bytes) = filled(1 .. n, Cells)
  <2>1. Promised!Filled(d, from, bytes) = filled(DOMAIN bytes, Promised!Cells)
    BY Zenon DEF Promised!Filled, CellAt, Latest
  <2> HIDE DEF filled
  <2> QED BY <1>1, <1>2, <2>1
<1>5. \A c \in Cells : Content[c] = data[c[1]][c[2]]
  BY Zenon DEF Content
<1>6. \A c \in Cells :
          (IF Hits(c, d, from, n) = {} THEN Content[c] ELSE bytes[Latest(Hits(c, d, from, n))])
              = Held(c, d, from, pairs, n)
  BY <1>3, <1>5, Zenon DEF Held
<1>7. filled(1 .. n, Cells) = [c \in Cells |-> Held(c, d, from, pairs, n)]
  BY <1>6, Zenon DEF Hits
<1> HIDE DEF filled
<1> QED BY <1>4, <1>7, Zenon DEF bytes

LEMMA SpaceLoad ==
    ASSUME data \in Contents, NEW call, NEW d \in Device, NEW from \in Address,
           NEW text \in Texts, Load(call, d, from, text)
    PROVE  SpaceLoads(call, d, from, text)
<1> DEFINE digits == DigitsOf(text)
           pairs == PairsOf(digits)
           N == Len(pairs)
           end == LoadPairs(call, d, from, pairs)
<1>1. digits \in Seq(Digit) /\ pairs \in Seq(Digit \X Digit)
  BY BusMapAssumption, DigitsType, PairsType
<1>2. Promised!Even(text)
  <2>1. Promised!Digits[text] = digits
    BY DigitsAgree
  <2>2. Len(digits) % 2 = 0
    BY DEF Load, OddDigits
  <2> QED BY <2>1, <2>2, Zenon DEF Promised!Even
<1>3. Meaning' = Meaning
  BY SameMeaning DEF Load
<1>4. /\ data' = end.contents
      /\ result' = <<call, IF end.thrown THEN Refused ELSE Done>>
  BY DEF Load
<1>5. Room(d, from, N)
  <2>1. N = Len(digits) \div 2
    BY <1>1 DEF PairsOf
  <2> QED BY <2>1, Zenon DEF Load, CallerFits, Room
<1>6. PICK n : /\ Sound(pairs, n)
               /\ Promised!Bytes[text] = [k \in 1 .. n |-> ByteOf(pairs[k])]
  BY BytesAre, Zenon
<1>7. Promised!Pairs[text] = N
  BY BytesAre, Zenon
<1> HIDE DEF digits, pairs, end
<1>8. PICK f \in [0 .. N -> Progress] : Loads(f, call, d, from, pairs) /\ end = f[N]
  BY <1>1, LoadLoop, Zenon DEF end
<1>9. n \in Nat /\ N \in Nat /\ n <= N
  BY <1>1, <1>6 DEF Sound
<1>10. end.thrown <=> n # N
  <2>1. CASE n = N
    <3>1. N \in 0 .. n
      BY <1>9, <2>1
    <3>2. ~f[N].thrown
      BY <1>1, <1>6, <1>8, <3>1, LoadCounts
    <3> QED BY <1>8, <2>1, <3>2
  <2>2. CASE n # N
    <3>1. N \in n + 1 .. N
      BY <1>9, <2>2
    <3>2. f[N].thrown
      BY <1>1, <1>6, <1>8, <3>1, LoadStops
    <3> QED BY <1>8, <2>2, <3>2
  <2> QED BY <2>1, <2>2
<1>11. end.contents = f[n].contents
  <2>1. CASE n = N
    BY <1>8, <2>1
  <2>2. CASE n # N
    <3>1. N \in n + 1 .. N
      BY <1>9, <2>2
    <3>2. f[N].contents = f[n].contents
      BY <1>1, <1>6, <1>8, <3>1, LoadStops
    <3> QED BY <1>8, <3>2
  <2> QED BY <2>1, <2>2
<1>12. result' = <<call, Promised!Outcome[text]>>
  <2>1. Len(Promised!Bytes[text]) = n
    BY <1>6, <1>9
  <2>2. Promised!Outcome[text] = IF n = N THEN Done ELSE Refused
    BY <1>7, <2>1, Zenon DEF Promised!Outcome, Promised!Done, Promised!Refused, Done, Refused
  <2> QED BY <1>4, <1>10, <2>2, Zenon
<1>13. Content' = [c \in Cells |-> data'[c[1]][c[2]]]
  BY DEF Content, Cells, Address
<1>14. CASE Writes(call, d)
  <2>1. Holds(f[n].contents, d, from, pairs, n)
    BY <1>1, <1>5, <1>6, <1>8, <1>14, LoadFills
  <2>2. \A c \in Cells : data'[c[1]][c[2]] = Held(c, d, from, pairs, n)
    BY <1>4, <1>11, <2>1, Zenon DEF Holds
  <2>3. Content' = [c \in Cells |-> Held(c, d, from, pairs, n)]
    BY <1>13, <2>2, Zenon
  <2>4. Content' = Promised!Filled(d, from, Promised!Bytes[text])
    <3>1. Promised!Filled(d, from, [k \in 1 .. n |-> ByteOf(pairs[k])])
              = [c \in Cells |-> Held(c, d, from, pairs, n)]
      BY <1>9, FilledIs
    <3> QED BY <1>6, <2>3, <3>1, Zenon
  <2> QED BY <1>2, <1>3, <1>12, <1>14, <2>4, Zenon DEF SpaceLoads
<1>15. CASE ~Writes(call, d)
  <2>1. data' = data
    BY <1>1, <1>4, <1>8, <1>15, LoadIgnores
  <2>2. Content' = Content
    BY <2>1, SameContent
  <2> QED BY <1>2, <1>3, <1>12, <1>15, <2>2, Zenon DEF SpaceLoads
<1> QED BY <1>14, <1>15

LEMMA SpaceNext == TypeInv /\ TypeInv' /\ [Next]_vars => [Promised!Next]_(Promised!vars)
<1> SUFFICES ASSUME TypeInv, TypeInv', [Next]_vars PROVE [Promised!Next]_(Promised!vars)
  OBVIOUS
<1>0. MapInv /\ MapInv' /\ data \in Contents
  BY DEF TypeInv
<1>1. CASE AttachSome
  <2>1. PICK start \in Address, end \in Address, d \in Device : Attach(start, end, d)
    BY <1>1 DEF AttachSome
  <2>2. Promised!Attach(start, d)
    BY <1>0, <2>1, SpaceAttach
  <2> QED BY <2>2 DEF Promised!Next, Address
<1>2. CASE AttachThrows \/ LoadThrows
  <2>1. PICK call \in {"attach", "loadProgram", "loadRoutine"} : Refuse(call)
    BY <1>2 DEF AttachThrows, LoadThrows
  <2>2. /\ result'[1] \in {"attach", "loadProgram", "loadRoutine"}
        /\ result'[2] = Promised!Refused
    BY <2>1 DEF Refuse, Refused, Promised!Refused
  <2>3. Meaning' = Meaning /\ Content' = Content
    BY <2>1, SameMeaning, SameContent DEF Refuse
  <2> QED BY <2>2, <2>3, Zenon DEF Promised!Next, Promised!Refuse
<1>3. CASE Use
  <2>1. PICK a \in Address : Read(a) \/ \E v \in Values : Write(a, v)
    BY <1>3 DEF Use
  <2>2. Read(a) => Promised!Read(a)
    BY <1>0, <2>1, SpaceRead
  <2>3. \A v \in Values : Write(a, v) => Promised!Write(a, v)
    BY <1>0, <2>1, SpaceWrite
  <2> QED BY <2>1, <2>2, <2>3, Zenon DEF Promised!Next, Address
<1>4. CASE LoadSome
  <2>1. PICK d \in Device, a \in Address, text \in Texts :
            LoadProgram(d, a, text) \/ LoadRoutine(d, a, text)
    BY <1>4 DEF LoadSome
  <2>2. CASE LoadProgram(d, a, text)
    <3>1. SpaceLoads("loadProgram", d, a, text)
      BY <1>0, <2>1, <2>2, SpaceLoad DEF LoadProgram
    <3>2. Writes("loadProgram", d) <=> d \notin Rom
      BY DEF Writes
    <3>3. d \notin Rom => Promised!LoadProgram(d, a, text)
      BY <3>1, <3>2, Zenon DEF SpaceLoads, Promised!LoadProgram, Promised!Fill
    <3>4. d \in Rom => Promised!LoadIgnored(d, text)
      BY <3>1, <3>2, Zenon DEF SpaceLoads, Promised!LoadIgnored
    <3> QED BY <2>1, <3>3, <3>4, Zenon DEF Promised!Next, Address
  <2>3. CASE LoadRoutine(d, a, text)
    <3>1. (a - RomBase) % Count \in Address
      BY BusMapAssumption DEF Address
    <3>2. d \in Rom /\ SpaceLoads("loadRoutine", d, (a - RomBase) % Count, text)
      BY <1>0, <2>1, <2>3, <3>1, SpaceLoad DEF LoadRoutine
    <3>3. Writes("loadRoutine", d)
      BY DEF Writes
    <3>4. Promised!Install(d, a, text)
      BY <3>2, <3>3, Zenon DEF SpaceLoads, Promised!Install, Promised!Fill
    <3> QED BY <2>1, <3>4, Zenon DEF Promised!Next, Address
  <2> QED BY <2>1, <2>2, <2>3
<1>5. CASE UNCHANGED vars
  <2>1. Meaning' = Meaning /\ Content' = Content /\ result' = result
    BY <1>5, SameMeaning, SameContent DEF vars
  <2> QED BY <2>1, Zenon DEF Promised!vars
<1> QED BY <1>1, <1>2, <1>3, <1>4, <1>5 DEF Next

(* ImplementsAddressSpace: for any devices of any sizes and any texts, the *)
(* list of ranges, the search and the 16-bit offsets are an address space: *)
(* attach claims free addresses and moves none, a byte stays in its cell   *)
(* until it is stored to, and a load puts each byte the text names at the  *)
(* address it belongs to (bus.cpp, ram.cpp, rom.cpp, program_loader.cpp).  *)
THEOREM MapIsAddressSpace == Spec => ImplementsAddressSpace
<1>1. Init => Promised!Init
  BY SpaceInit
<1>2. TypeInv /\ TypeInv' /\ [Next]_vars => [Promised!Next]_(Promised!vars)
  BY SpaceNext
<1> QED BY <1>1, <1>2, TypeInit, TypeNext, PTL DEF Spec, ImplementsAddressSpace, Promised!Spec
=============================================================================
