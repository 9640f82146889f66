----------------------------- MODULE ImageProofs -----------------------------
(***************************************************************************)
(* Proofs about modules LinkLayout and ImageList.                          *)
(*                                                                         *)
(* The links: offsets from app_iram_begin depend only on sizes and         *)
(* alignments as long as app_iram_begin is a multiple of every alignment;  *)
(* the first link makes it one because .bss comes first, wiced-gen-ld.pl   *)
(* by rounding.                                                            *)
(*                                                                         *)
(* The list and the records: what is still to be done, is on the list and  *)
(* is in the HEX records always make up the contents of the ELF file; each *)
(* of the programs only moves bytes from the first to one of the others,   *)
(* and the parts of a section stay in order.  That the records stay within *)
(* the memory of the application, and apart from one another, follows from *)
(* where the last link put the sections.                                   *)
(***************************************************************************)
EXTENDS ImageList, SequenceTheorems, WellFoundedInduction, TLAPS

-----------------------------------------------------------------------------
(* Rounding up. *)

Alignments == {1, 2, 4, 8, 16, 32}

(* Rounding up adds less than the alignment. *)
LEMMA AlignBounds ==
  ASSUME NEW x \in Int, NEW a \in Alignments
  PROVE  AlignUp(x, a) \in Int /\ x <= AlignUp(x, a) /\ AlignUp(x, a) < x + a
BY DEF AlignUp, Alignments

(* Rounding up commutes with a shift by a multiple of 32. *)
LEMMA AlignShift ==
  ASSUME NEW b \in Int, b % 32 = 0, NEW o \in Int, NEW a \in Alignments
  PROVE  AlignUp(b + o, a) = b + AlignUp(o, a)
<1> PICK c \in Int : b = 32 * c
  OBVIOUS
<1>1. CASE a = 1   BY <1>1 DEF AlignUp
<1>2. CASE a = 2   BY <1>2 DEF AlignUp
<1>4. CASE a = 4   BY <1>4 DEF AlignUp
<1>8. CASE a = 8   BY <1>8 DEF AlignUp
<1>16. CASE a = 16 BY <1>16 DEF AlignUp
<1>32. CASE a = 32 BY <1>32 DEF AlignUp
<1> QED BY <1>1, <1>2, <1>4, <1>8, <1>16, <1>32 DEF Alignments

(* What is rounded up to 32 is a multiple of 32. *)
LEMMA AlignTo32 ==
  ASSUME NEW x \in Int
  PROVE  AlignUp(x, 32) % 32 = 0
BY DEF AlignUp

(* A multiple of 32 stays. *)
LEMMA AlignKeeps ==
  ASSUME NEW b \in Int, b % 32 = 0
  PROVE  AlignUp(b, 32) = b
BY DEF AlignUp

-----------------------------------------------------------------------------
(* The inductive invariant of the links. *)

Last == Len(Align)

(* Offsets of the sections from a start that suits every alignment. *)
Layout(off) ==
  /\ off[1] = 0
  /\ \A j \in Index : j + 1 \in Index =>
       off[j + 1] = AlignUp(off[j] + size[j], Align[j + 1])
  /\ \A j \in Index : off[j] + size[j] <= off[Last] + size[Last]

(* The first link, so far. *)
FirstLink ==
  /\ limit = RamEnd - 4 * Patches
  /\ k = 1 => dot = FirstFree
  /\ k > 1 =>
       /\ begin % 32 = 0 /\ FirstFree <= begin /\ dot <= limit
       /\ at[1] = begin /\ dot = at[k - 1] + size[k - 1]
       /\ \A j \in 1..(k - 1) : begin <= at[j] /\ at[j] + size[j] <= dot
       /\ \A j \in 1..(k - 2) : at[j + 1] = AlignUp(at[j] + size[j], Align[j + 1])

(* The map tells the length of a layout, which is short enough to move. *)
Mapped(off) ==
  Layout(off) /\ mapLength = off[Last] + size[Last] /\ mapLength <= RamEnd - 32 - FirstFree

(* A later link, so far: it repeats the layout from the new start. *)
LaterLink(off) ==
  /\ limit = RamEnd
  /\ k = 1 => dot = Start
  /\ k > 1 => begin = Start /\ dot = Start + off[k - 1] + size[k - 1]
  /\ \A j \in 1..(k - 1) : at[j] = Start + off[j]

Moved(off) ==
  /\ begin = Start /\ dot = Start + mapLength
  /\ \A j \in Index : at[j] = Start + off[j]

LinkInv ==
  /\ LinkTypeOK
  /\ links = 0 => pc = "script"
  /\ pc = "failed" => links = 1
  /\ links = 1 /\ pc = "place" => FirstLink
  /\ links > 1 \/ (links = 1 /\ pc \in {"script", "linked"}) =>
       \E off \in [Index -> Nat] :
         /\ Mapped(off)
         /\ links > 1 /\ pc = "place" => LaterLink(off)
         /\ links > 1 /\ pc \in {"linked", "script"} => Moved(off)

(* The sections are numbered from 1, and there is one. *)
LEMMA IndexFacts ==
  /\ Last \in Nat \ {0} /\ Index = 1..Last /\ 1 \in Index /\ Last \in Index
  /\ \A j \in Index : Align[j] \in Alignments
  /\ Align[1] = 32
BY LinkAssumption DEF LinkAssumption, Index, Last, Alignments

(* The computed start is a multiple of 32 and leaves room. *)
LEMMA StartFacts ==
  ASSUME LinkTypeOK
  PROVE  /\ Start \in Int /\ Start % 32 = 0
         /\ Start + mapLength < RamEnd
         /\ RamEnd - mapLength - 32 <= Start
<1> DEFINE x == RamEnd - mapLength - 1
<1>1. x \in Int
  BY LinkAssumption DEF LinkAssumption, LinkTypeOK
<1> HIDE DEF x
<1>2. /\ (x \div 32) * 32 \in Int /\ ((x \div 32) * 32) % 32 = 0
      /\ (x \div 32) * 32 <= x /\ x - 31 <= (x \div 32) * 32
  BY <1>1
<1>3. Start = (x \div 32) * 32
  BY DEF Start, x
<1> QED BY <1>2, <1>3, LinkAssumption DEF LinkAssumption, LinkTypeOK, x

(* What the linker does with a section. *)
LEMMA PlaceFacts ==
  ASSUME LinkTypeOK, Place, NEW here, here = AlignUp(dot, Align[k])
  PROVE  /\ pc = "place" /\ k \in Index /\ size[k] \in Nat /\ here \in Int /\ dot <= here
         /\ at' = [at EXCEPT ![k] = here] /\ dot' = here + size[k]
         /\ begin' = (IF k = 1 THEN here ELSE begin)
         /\ pc' = (IF here + size[k] > limit THEN "failed" ELSE "place")
         /\ k' = k + 1 /\ UNCHANGED <<size, links, limit, mapLength>>
<1>1. k \in Index
  BY IndexFacts DEF LinkTypeOK, Place, Last
<1>2. size[k] \in Nat
  BY <1>1, LinkAssumption DEF LinkTypeOK, LinkAssumption
<1>3. Align[k] \in Alignments /\ dot \in Int
  BY <1>1, IndexFacts DEF LinkTypeOK
<1>4. here \in Int /\ dot <= here
  BY <1>3, AlignBounds
<1> QED BY <1>1, <1>2, <1>4 DEF Place

(* Types are kept. *)
LEMMA LinkTypes ==
  ASSUME LinkTypeOK, [LinkNext]_linkVars
  PROVE  LinkTypeOK'
<1>1. CASE FirstScript
  BY <1>1, LinkAssumption, IndexFacts
  DEF LinkAssumption, LinkTypeOK, FirstScript, Region, Index, Last
<1>2. CASE NextScript
  BY <1>2, LinkAssumption, IndexFacts, StartFacts
  DEF LinkAssumption, LinkTypeOK, NextScript, Region, Index, Last
<1>3. CASE Place
  <2> DEFINE here == AlignUp(dot, Align[k])
  <2>1. here = AlignUp(dot, Align[k])
    OBVIOUS
  <2> HIDE DEF here
  <2>2. /\ k \in Index /\ size[k] \in Nat /\ here \in Int
        /\ at' = [at EXCEPT ![k] = here] /\ dot' = here + size[k]
        /\ begin' = (IF k = 1 THEN here ELSE begin)
        /\ pc' = (IF here + size[k] > limit THEN "failed" ELSE "place")
        /\ k' = k + 1 /\ UNCHANGED <<size, links, limit, mapLength>>
    BY <1>3, <2>1, PlaceFacts
  <2>3. here + size[k] \in Int /\ pc' \in {"failed", "place"}
    BY <2>2
  <2>4. k + 1 \in 1..(Last + 1)
    BY <2>2, IndexFacts
  <2> QED BY <2>2, <2>3, <2>4 DEF LinkTypeOK, Last
<1>4. CASE Placed
  BY <1>4 DEF LinkTypeOK, Placed
<1>5. CASE PostBuild
  BY <1>5 DEF LinkTypeOK, PostBuild
<1>6. CASE UNCHANGED linkVars
  BY <1>6 DEF LinkTypeOK, linkVars
<1> QED BY <1>1, <1>2, <1>3, <1>4, <1>5, <1>6 DEF LinkNext

(* The first link places one more section. *)
LEMMA FirstLinkPlaces ==
  ASSUME LinkTypeOK, FirstLink, Place, pc' = "place"
  PROVE  FirstLink'
<1> DEFINE here == AlignUp(dot, Align[k])
<1>1. here = AlignUp(dot, Align[k])
  OBVIOUS
<1> HIDE DEF here
<1>2. /\ k \in Index /\ size[k] \in Nat /\ here \in Int /\ dot <= here /\ dot \in Int
      /\ at' = [at EXCEPT ![k] = here] /\ dot' = here + size[k]
      /\ begin' = (IF k = 1 THEN here ELSE begin)
      /\ k' = k + 1 /\ UNCHANGED <<size, links, limit, mapLength>>
      /\ at \in [Index -> Int] /\ limit \in Int
  BY <1>1, PlaceFacts DEF LinkTypeOK
<1>3. dot' <= limit
  BY <1>1, <1>2, PlaceFacts DEF LinkTypeOK
<1>4. k \in Nat /\ k >= 1 /\ \A j \in 1..(k - 1) : j \in Index /\ size[j] \in Nat
  <2>1. k \in 1..Last /\ Last \in Nat
    BY <1>2, IndexFacts
  <2>2. \A j \in 1..(k - 1) : j \in Index
    BY <2>1, IndexFacts
  <2>3. \A j \in Index : size[j] \in Nat
    BY LinkAssumption DEF LinkTypeOK, LinkAssumption
  <2> QED BY <2>1, <2>2, <2>3
<1>5. CASE k = 1
  <2>1. here % 32 = 0 /\ FirstFree <= here
    BY <1>1, <1>2, <1>5, IndexFacts, AlignTo32 DEF FirstLink
  <2> QED BY <1>2, <1>3, <1>5, <2>1 DEF FirstLink
<1>6. CASE k > 1
  <2>1. /\ begin' = begin /\ begin % 32 = 0 /\ FirstFree <= begin /\ at[1] = begin
        /\ dot = at[k - 1] + size[k - 1]
        /\ \A j \in 1..(k - 1) : begin <= at[j] /\ at[j] + size[j] <= dot
        /\ \A j \in 1..(k - 2) : at[j + 1] = AlignUp(at[j] + size[j], Align[j + 1])
        /\ limit = RamEnd - 4 * Patches /\ begin \in Int
    BY <1>2, <1>6 DEF FirstLink, LinkTypeOK
  <2>2. \A j \in 1..(k - 1) : at'[j] = at[j]
    BY <1>2, <1>4
  <2>3. at'[k] = here
    BY <1>2
  <2>4. at'[1] = begin'
    BY <1>4, <1>6, <2>1, <2>2
  <2>5. begin <= here
    BY <1>2, <1>4, <1>6, <2>1
  <2>6. ASSUME NEW j \in 1..k
        PROVE  begin <= at'[j] /\ at'[j] + size[j] <= dot'
    <3>1. CASE j = k
      BY <3>1, <1>2, <2>3, <2>5
    <3>2. CASE j # k
      <4>1. j \in 1..(k - 1)
        BY <3>2, <1>4
      <4>2. at'[j] = at[j] /\ begin <= at[j] /\ at[j] + size[j] <= dot
        BY <4>1, <2>1, <2>2
      <4>3. at[j] \in Int /\ size[j] \in Nat
        BY <4>1, <1>2, <1>4
      <4> QED BY <4>2, <4>3, <1>2
    <3> QED BY <3>1, <3>2
  <2>7. ASSUME NEW j \in 1..(k - 1)
        PROVE  at'[j + 1] = AlignUp(at'[j] + size[j], Align[j + 1])
    <3>1. CASE j = k - 1
      <4>1. j + 1 = k /\ at'[j] = at[j]
        BY <3>1, <1>4, <2>2
      <4> QED BY <4>1, <3>1, <1>1, <2>1, <2>3
    <3>2. CASE j # k - 1
      <4>1. j \in 1..(k - 2) /\ j + 1 \in 1..(k - 1)
        BY <3>2, <1>4
      <4> QED BY <4>1, <2>1, <2>2
    <3> QED BY <3>1, <3>2
  <2>8. k' - 1 = k /\ k' - 2 = k - 1 /\ k' > 1 /\ k' # 1
    BY <1>2, <1>4
  <2>9. dot' = at'[k] + size[k]
    BY <1>2, <2>3
  <2>10. /\ \A j \in 1..(k' - 1) : begin' <= at'[j] /\ at'[j] + size'[j] <= dot'
         /\ \A j \in 1..(k' - 2) : at'[j + 1] = AlignUp(at'[j] + size'[j], Align[j + 1])
    BY <1>2, <2>1, <2>6, <2>7, <2>8
  <2> QED BY <1>2, <1>3, <2>1, <2>4, <2>8, <2>9, <2>10 DEF FirstLink, LinkTypeOK
<1> QED BY <1>4, <1>5, <1>6

(* A completed first link has a layout. *)
LEMMA FirstLinkMaps ==
  ASSUME LinkTypeOK, FirstLink, Placed
  PROVE  \E off \in [Index -> Nat] : Mapped(off)'
<1>1. /\ k = Last + 1 /\ k > 1 /\ mapLength' = dot - begin
      /\ UNCHANGED <<size, links, limit, dot, begin, k, at>>
  BY IndexFacts DEF Placed, LinkTypeOK, Last
<1>2. /\ begin % 32 = 0 /\ FirstFree <= begin /\ dot <= limit /\ limit = RamEnd - 4 * Patches
      /\ at[1] = begin /\ dot = at[Last] + size[Last]
      /\ \A j \in Index : begin <= at[j] /\ at[j] + size[j] <= dot
      /\ \A j \in Index : j + 1 \in Index =>
           at[j + 1] = AlignUp(at[j] + size[j], Align[j + 1])
  BY <1>1, IndexFacts DEF FirstLink
<1>3. \A j \in Index : at[j] \in Int /\ size[j] \in Nat
  BY LinkAssumption DEF LinkTypeOK, LinkAssumption
<1>4. begin \in Int /\ dot \in Int /\ limit \in Int
  BY DEF LinkTypeOK
<1>14. \A j \in Index : at[j] - begin \in Nat
  BY <1>2, <1>3, <1>4
<1>15. [j \in Index |-> at[j] - begin] \in [Index -> Nat]
  BY <1>14
<1>5. PICK off \in [Index -> Nat] : off = [j \in Index |-> at[j] - begin]
  BY <1>15
<1>16. 1 \in Index /\ Last \in Index
  BY IndexFacts
<1>17. off[1] = at[1] - begin /\ off[Last] + size[Last] = at[Last] + size[Last] - begin
  BY <1>3, <1>4, <1>5, <1>16
<1>18. at[Last] \in Int /\ size[Last] \in Nat /\ off[Last] \in Nat /\ RamEnd \in Nat /\ FirstFree \in Nat
       /\ Patches \in Nat /\ Patches >= 8
  BY <1>3, <1>16, LinkAssumption DEF LinkAssumption
<1>19. dot = at[Last] + size[Last] /\ dot <= limit /\ FirstFree <= begin /\ limit = RamEnd - 4 * Patches
  BY <1>2
<1>20. mapLength' = dot - begin
  BY <1>1
<1>21. off[Last] + size[Last] = dot - begin
  BY <1>4, <1>17, <1>18, <1>19
<1>6. \A j \in Index : off[j] = at[j] - begin /\ off[j] + size[j] = at[j] + size[j] - begin
  BY <1>3, <1>4, <1>5
<1>13. \A j \in Index : off[j] \in Nat
  OBVIOUS
<1>7. ASSUME NEW j \in Index, j + 1 \in Index
      PROVE  off[j + 1] = AlignUp(off[j] + size[j], Align[j + 1])
  <2>1. off[j] + size[j] \in Int /\ Align[j + 1] \in Alignments
    BY <1>3, <1>13, <1>7, IndexFacts
  <2>2. at[j] + size[j] = begin + (off[j] + size[j])
    BY <1>3, <1>4, <1>6
  <2>3. AlignUp(at[j] + size[j], Align[j + 1])
          = begin + AlignUp(off[j] + size[j], Align[j + 1])
    BY <2>1, <2>2, <1>2, <1>4, AlignShift
  <2>4. AlignUp(off[j] + size[j], Align[j + 1]) \in Int
    BY <2>1, AlignBounds
  <2>5. off[j + 1] = at[j + 1] - begin
    BY <1>6, <1>7
  <2>6. at[j + 1] = AlignUp(at[j] + size[j], Align[j + 1])
    BY <1>2, <1>7
  <2> QED BY <1>4, <2>3, <2>4, <2>5, <2>6
<1>8. off[1] = 0
  BY <1>2, <1>4, <1>17
<1>9. ASSUME NEW j \in Index
      PROVE  off[j] + size[j] <= off[Last] + size[Last]
  <2>1. off[j] + size[j] = at[j] + size[j] - begin /\ at[j] + size[j] <= dot
    BY <1>2, <1>6
  <2>2. at[j] \in Int /\ size[j] \in Nat
    BY <1>3
  <2>3. at[j] + size[j] - begin <= dot - begin
    BY <1>4, <2>1, <2>2
  <2> QED BY <1>21, <2>1, <2>3
<1>10. mapLength' = off[Last] + size[Last]
  BY <1>20, <1>21
<1>11. mapLength' <= RamEnd - 32 - FirstFree
  BY <1>4, <1>18, <1>19, <1>20
<1>12. Mapped(off)'
  BY <1>1, <1>7, <1>8, <1>9, <1>10, <1>11 DEF Mapped, Layout
<1> QED BY <1>5, <1>12

(* A later link places one more section where the layout says. *)
LEMMA LaterLinkPlaces ==
  ASSUME LinkTypeOK, Place, NEW off \in [Index -> Nat], Mapped(off), LaterLink(off)
  PROVE  pc' = "place" /\ LaterLink(off)'
<1> DEFINE here == AlignUp(dot, Align[k])
<1>1. here = AlignUp(dot, Align[k])
  OBVIOUS
<1> HIDE DEF here
<1>2. /\ k \in Index /\ size[k] \in Nat /\ here \in Int
      /\ at' = [at EXCEPT ![k] = here] /\ dot' = here + size[k]
      /\ begin' = (IF k = 1 THEN here ELSE begin)
      /\ pc' = (IF here + size[k] > limit THEN "failed" ELSE "place")
      /\ k' = k + 1 /\ UNCHANGED <<size, links, limit, mapLength>>
      /\ at \in [Index -> Int] /\ mapLength \in Int
  BY <1>1, PlaceFacts DEF LinkTypeOK
<1>3. /\ Start \in Int /\ Start % 32 = 0 /\ Start + mapLength < RamEnd /\ RamEnd \in Int
  BY StartFacts, LinkAssumption DEF LinkAssumption
<1>4. Start' = Start
  BY <1>2 DEF Start
<1>5. /\ k \in Nat /\ k >= 1 /\ k \in 1..Last /\ Last \in Nat
      /\ \A j \in 1..(k - 1) : j \in Index
  <2>1. k \in 1..Last /\ Last \in Nat
    BY <1>2, IndexFacts
  <2> QED BY <2>1, IndexFacts
<1>6. \A j \in Index : off[j] \in Nat /\ size[j] \in Nat
  BY LinkAssumption DEF LinkTypeOK, LinkAssumption
<1>7. here = Start + off[k]
  <2>1. CASE k = 1
    <3>1. here = AlignUp(Start, 32) /\ off[k] = 0
      BY <1>1, <2>1, IndexFacts DEF LaterLink, Mapped, Layout
    <3> QED BY <1>3, <3>1, AlignKeeps
  <2>2. CASE k > 1
    <3>1. k - 1 \in Index /\ (k - 1) + 1 = k
      BY <1>5, <2>2
    <3>2. off[k] = AlignUp(off[k - 1] + size[k - 1], Align[k])
      BY <1>2, <3>1 DEF Mapped, Layout
    <3>3. dot = Start + off[k - 1] + size[k - 1]
      BY <2>2 DEF LaterLink
    <3>4. off[k - 1] \in Nat /\ size[k - 1] \in Nat /\ Align[k] \in Alignments
      BY <1>2, <1>6, <3>1, IndexFacts
    <3>5. dot = Start + (off[k - 1] + size[k - 1])
      BY <1>3, <3>3, <3>4
    <3>6. AlignUp(Start + (off[k - 1] + size[k - 1]), Align[k])
            = Start + AlignUp(off[k - 1] + size[k - 1], Align[k])
      BY <1>3, <3>4, AlignShift
    <3> QED BY <1>1, <3>2, <3>5, <3>6
  <2> QED BY <1>5, <2>1, <2>2
<1>8. off[k] + size[k] <= mapLength
  BY <1>2 DEF Mapped, Layout
<1>9. pc' = "place"
  <2>1. limit = RamEnd /\ off[k] \in Nat
    BY <1>2, <1>6 DEF LaterLink
  <2>2. here + size[k] <= limit
    BY <1>2, <1>3, <1>7, <1>8, <2>1
  <2> QED BY <1>2, <2>1, <2>2, <1>3
<1>10. ASSUME NEW j \in 1..k
       PROVE  at'[j] = Start + off[j]
  <2>1. CASE j = k
    BY <2>1, <1>2, <1>7
  <2>2. CASE j # k
    <3>1. j \in 1..(k - 1)
      BY <2>2, <1>5
    <3>2. at[j] = Start + off[j] /\ j \in Index
      BY <3>1, <1>5 DEF LaterLink
    <3> QED BY <2>2, <3>2, <1>2
  <2> QED BY <2>1, <2>2
<1>11. k' - 1 = k /\ k' > 1 /\ k' # 1
  BY <1>2, <1>5
<1>12. begin' = Start
  <2>1. CASE k = 1
    <3>1. off[k] = 0
      BY <2>1 DEF Mapped, Layout
    <3> QED BY <2>1, <3>1, <1>2, <1>3, <1>7
  <2>2. CASE k # 1
    <3>1. k > 1
      BY <2>2, <1>5
    <3> QED BY <2>2, <3>1, <1>2 DEF LaterLink
  <2> QED BY <2>1, <2>2
<1>13. dot' = Start + off[k] + size[k]
  BY <1>2, <1>7
<1>14. limit' = RamEnd
  BY <1>2 DEF LaterLink
<1>15. LaterLink(off)'
  BY <1>2, <1>4, <1>10, <1>11, <1>12, <1>13, <1>14 DEF LaterLink
<1> QED BY <1>9, <1>15

(* The map of a later link repeats that of the first. *)
LEMMA LaterLinkMaps ==
  ASSUME LinkTypeOK, Placed, NEW off \in [Index -> Nat], Mapped(off), LaterLink(off)
  PROVE  Mapped(off)' /\ Moved(off)'
<1>1. /\ k = Last + 1 /\ k > 1 /\ k - 1 = Last /\ Last \in Index /\ mapLength' = dot - begin
      /\ UNCHANGED <<size, links, limit, dot, begin, k, at>> /\ 1..(k - 1) = Index
  BY IndexFacts DEF Placed, LinkTypeOK, Last
<1>2. /\ begin = Start /\ dot = Start + off[Last] + size[Last] /\ Start \in Int
      /\ mapLength = off[Last] + size[Last]
      /\ \A j \in Index : at[j] = Start + off[j]
  BY <1>1, StartFacts DEF LaterLink, Mapped
<1>3. off[Last] \in Nat /\ size[Last] \in Nat
  BY <1>1, LinkAssumption DEF LinkTypeOK, LinkAssumption
<1>4. dot = Start + mapLength /\ dot - begin = mapLength
  BY <1>2, <1>3
<1>5. mapLength' = mapLength
  BY <1>1, <1>4
<1>6. Start' = Start
  BY <1>5 DEF Start
<1>7. Mapped(off)'
  BY <1>1, <1>5 DEF Mapped, Layout
<1>8. Moved(off)'
  BY <1>1, <1>2, <1>4, <1>5, <1>6 DEF Moved
<1> QED BY <1>7, <1>8

(* The invariant holds at the start, and every step keeps it. *)
LEMMA LinkInvInit == LinkInit => LinkInv
BY IndexFacts, LinkAssumption DEF LinkInit, LinkInv, LinkTypeOK, LinkAssumption, Last

LEMMA LinkInvNext ==
  ASSUME LinkInv, [LinkNext]_linkVars
  PROVE  LinkInv'
<1>1. LinkTypeOK /\ LinkTypeOK' /\ links \in Nat
  BY LinkTypes DEF LinkInv, LinkTypeOK
<1>2. /\ links = 0 => pc = "script"
      /\ pc = "failed" => links = 1
      /\ links = 1 /\ pc = "place" => FirstLink
      /\ links > 1 \/ (links = 1 /\ pc \in {"script", "linked"}) =>
           \E off \in [Index -> Nat] :
             /\ Mapped(off)
             /\ links > 1 /\ pc = "place" => LaterLink(off)
             /\ links > 1 /\ pc \in {"linked", "script"} => Moved(off)
  BY DEF LinkInv
<1>3. CASE FirstScript
  <2>1. /\ links' = 1 /\ pc' = "place" /\ limit' = RamEnd - 4 * Patches
        /\ k' = 1 /\ dot' = FirstFree
    BY <1>3 DEF FirstScript, Region
  <2>2. FirstLink'
    BY <2>1 DEF FirstLink
  <2> QED BY <1>1, <2>1, <2>2 DEF LinkInv
<1>4. CASE NextScript
  <2>1. /\ links > 0 /\ pc = "script" /\ pc' = "place" /\ links' = links + 1
        /\ dot' = Start /\ limit' = RamEnd /\ k' = 1
        /\ UNCHANGED <<size, begin, at, mapLength>>
    BY <1>4 DEF NextScript, Region
  <2>2. PICK off \in [Index -> Nat] : Mapped(off)
    BY <1>1, <1>2, <2>1
  <2>3. Mapped(off)' /\ Start' = Start
    BY <2>1, <2>2 DEF Mapped, Layout, Start
  <2>4. LaterLink(off)'
    BY <2>1, <2>3 DEF LaterLink
  <2>5. links' > 1 /\ links' # 0 /\ links' # 1
    BY <1>1, <2>1
  <2> QED BY <1>1, <2>1, <2>3, <2>4, <2>5 DEF LinkInv
<1>5. CASE Place
  <2>1. pc = "place" /\ pc' \in {"place", "failed"} /\ UNCHANGED <<size, links, mapLength>>
    BY <1>1, <1>5 DEF Place
  <2>2. links # 0 /\ (links = 1 \/ links > 1)
    BY <1>1, <1>2, <2>1
  <2>3. CASE links = 1
    <3>1. pc' = "place" => FirstLink'
      BY <1>1, <1>2, <1>5, <2>1, <2>3, FirstLinkPlaces
    <3> QED BY <1>1, <2>1, <2>3, <3>1 DEF LinkInv
  <2>4. CASE links > 1
    <3>1. PICK off \in [Index -> Nat] : Mapped(off) /\ LaterLink(off)
      BY <1>2, <2>1, <2>4
    <3>2. pc' = "place" /\ LaterLink(off)'
      BY <1>1, <1>5, <3>1, LaterLinkPlaces
    <3>3. Mapped(off)'
      BY <2>1, <3>1 DEF Mapped, Layout
    <3>4. links' > 1 /\ links' # 0 /\ links' # 1
      BY <1>1, <2>1, <2>4
    <3> QED BY <1>1, <3>2, <3>3, <3>4 DEF LinkInv
  <2> QED BY <2>2, <2>3, <2>4
<1>6. CASE Placed
  <2>1. pc = "place" /\ pc' = "linked" /\ links' = links
    BY <1>6 DEF Placed
  <2>2. links # 0 /\ (links = 1 \/ links > 1)
    BY <1>1, <1>2, <2>1
  <2>3. CASE links = 1
    <3>1. \E off \in [Index -> Nat] : Mapped(off)'
      BY <1>1, <1>2, <1>6, <2>1, <2>3, FirstLinkMaps
    <3> QED BY <1>1, <2>1, <2>3, <3>1 DEF LinkInv
  <2>4. CASE links > 1
    <3>1. PICK off \in [Index -> Nat] : Mapped(off) /\ LaterLink(off)
      BY <1>2, <2>1, <2>4
    <3>2. Mapped(off)' /\ Moved(off)'
      BY <1>1, <1>6, <3>1, LaterLinkMaps
    <3>3. links' > 1 /\ links' # 0 /\ links' # 1
      BY <1>1, <2>1, <2>4
    <3> QED BY <1>1, <2>1, <3>2, <3>3 DEF LinkInv
  <2> QED BY <2>2, <2>3, <2>4
<1>7. CASE PostBuild
  <2>1. pc = "linked" /\ pc' = "script"
        /\ UNCHANGED <<size, links, limit, dot, begin, k, at, mapLength>>
    BY <1>7 DEF PostBuild
  <2>2. links # 0 /\ (links = 1 \/ links > 1)
    BY <1>1, <1>2, <2>1
  <2>3. PICK off \in [Index -> Nat] : Mapped(off) /\ (links > 1 => Moved(off))
    BY <1>2, <2>1, <2>2
  <2>4. Mapped(off)' /\ (links > 1 => Moved(off)')
    BY <2>1, <2>3 DEF Mapped, Moved, Layout, Start
  <2> QED BY <1>1, <2>1, <2>2, <2>4 DEF LinkInv
<1>8. CASE UNCHANGED linkVars
  BY <1>8, <1>1, <1>2
  DEF linkVars, LinkInv, FirstLink, LaterLink, Mapped, Moved, Layout, Start
<1> QED BY <1>3, <1>4, <1>5, <1>6, <1>7, <1>8 DEF LinkNext

THEOREM LinkInductive == LinkSpec => []LinkInv
<1>1. LinkInv /\ [LinkNext]_linkVars => LinkInv'
  BY LinkInvNext
<1> QED BY LinkInvInit, <1>1, PTL DEF LinkSpec

-----------------------------------------------------------------------------
(* The results about the links. *)

(* Whatever the sizes and alignments, objects that have linked once fit    *)
(* when bt_post_build.bash moves them against the firmware's area, and     *)
(* every later time.                                                       *)
THEOREM RelinkSucceeds == LinkSpec => []RelinkNeverFails
<1>1. LinkInv => RelinkNeverFails
  BY DEF LinkInv, RelinkNeverFails
<1> QED BY LinkInductive, <1>1, PTL

(* And they come to lie between the sections of the initialisation and the *)
(* firmware's area, touching neither.                                      *)
THEOREM MovedIsBetween == LinkSpec => []MovedBetween
<1>1. LinkInv => MovedBetween
  <2> SUFFICES ASSUME LinkInv, links > 1, pc = "linked"
               PROVE  /\ FirstFree <= begin /\ dot < RamEnd
                      /\ \A s \in Index : begin <= at[s] /\ at[s] + size[s] <= dot
    BY DEF MovedBetween
  <2>1. PICK off \in [Index -> Nat] : Mapped(off) /\ Moved(off)
    BY DEF LinkInv
  <2>2. /\ Start \in Int /\ Start + mapLength < RamEnd /\ RamEnd - mapLength - 32 <= Start
        /\ mapLength \in Int /\ RamEnd \in Nat /\ FirstFree \in Nat
    BY StartFacts, LinkAssumption DEF LinkInv, LinkTypeOK, LinkAssumption
  <2>3. begin = Start /\ dot = Start + mapLength /\ mapLength <= RamEnd - 32 - FirstFree
    BY <2>1 DEF Mapped, Moved
  <2>4. FirstFree <= begin /\ dot < RamEnd
    BY <2>2, <2>3
  <2>5. ASSUME NEW s \in Index
        PROVE  begin <= at[s] /\ at[s] + size[s] <= dot
    <3>1. at[s] = Start + off[s] /\ off[s] + size[s] <= mapLength
      BY <2>1 DEF Moved, Mapped, Layout
    <3>2. off[s] \in Nat /\ size[s] \in Nat
      BY LinkAssumption DEF LinkInv, LinkTypeOK, LinkAssumption
    <3> QED BY <2>2, <2>3, <3>1, <3>2
  <2> QED BY <2>4, <2>5
<1> QED BY LinkInductive, <1>1, PTL

-----------------------------------------------------------------------------
(* The bytes of a list. *)

EntryBytes(e) ==
  IF e = Platform THEN {} ELSE Bytes(e.addr, e.section, e.from, e.len)

InSeq(s) == UNION {EntryBytes(s[i]) : i \in DOMAIN s}

(* A byte of an entry is at some offset of it. *)
LEMMA BytesMember ==
  ASSUME NEW address, NEW section, NEW from, NEW len, NEW x
  PROVE  x \in Bytes(address, section, from, len)
           <=> \E j \in 0..(len - 1) : x = <<address + j, section, from + j>>
BY DEF Bytes

(* A function on 1..N is a sequence. *)
LEMMA FunctionIsSeq ==
  ASSUME NEW S, NEW N \in Nat, NEW f, f = [c \in 1..N |-> f[c]],
         \A c \in 1..N : f[c] \in S
  PROVE  f \in Seq(S)
OBVIOUS

(* A list of one entry. *)
LEMMA OneElement ==
  ASSUME NEW S, NEW e \in S
  PROVE  <<e>> \in Seq(S) /\ Len(<<e>>) = 1 /\ <<e>>[1] = e
OBVIOUS

(* The bytes of no entry, of two lists, of one entry, of a head and a rest. *)
LEMMA InEmpty == InSeq(<<>>) = {}
BY DEF InSeq

LEMMA InConcat ==
  ASSUME NEW S, NEW s \in Seq(S), NEW t \in Seq(S)
  PROVE  InSeq(s \o t) = InSeq(s) \cup InSeq(t)
<1>1. /\ s \o t \in Seq(S) /\ Len(s \o t) = Len(s) + Len(t)
      /\ \A i \in 1..(Len(s) + Len(t)) : (s \o t)[i] = IF i <= Len(s) THEN s[i] ELSE t[i - Len(s)]
  BY ConcatProperties
<1>2. /\ DOMAIN s = 1..Len(s) /\ DOMAIN t = 1..Len(t) /\ DOMAIN (s \o t) = 1..(Len(s) + Len(t))
      /\ Len(s) \in Nat /\ Len(t) \in Nat
  BY <1>1, LenProperties
<1> DEFINE u == s \o t
<1>3. ASSUME NEW x, x \in InSeq(u) PROVE x \in InSeq(s) \cup InSeq(t)
  <2>1. PICK i \in DOMAIN u : x \in EntryBytes(u[i])
    BY <1>3 DEF InSeq
  <2>2. CASE i <= Len(s)
    <3>1. i \in DOMAIN s /\ u[i] = s[i]
      BY <1>1, <1>2, <2>1, <2>2
    <3> QED BY <2>1, <3>1 DEF InSeq
  <2>3. CASE ~(i <= Len(s))
    <3>1. i - Len(s) \in DOMAIN t /\ u[i] = t[i - Len(s)]
      BY <1>1, <1>2, <2>1, <2>3
    <3> QED BY <2>1, <3>1 DEF InSeq
  <2> QED BY <2>2, <2>3
<1>4. ASSUME NEW x, x \in InSeq(s) PROVE x \in InSeq(u)
  <2>1. PICK i \in DOMAIN s : x \in EntryBytes(s[i])
    BY <1>4 DEF InSeq
  <2>2. i \in DOMAIN u /\ u[i] = s[i]
    BY <1>1, <1>2, <2>1
  <2> HIDE DEF u
  <2> QED BY <2>1, <2>2 DEF InSeq
<1>5. ASSUME NEW x, x \in InSeq(t) PROVE x \in InSeq(u)
  <2>1. PICK i \in DOMAIN t : x \in EntryBytes(t[i])
    BY <1>5 DEF InSeq
  <2>2. i + Len(s) \in DOMAIN u /\ u[i + Len(s)] = t[i]
    BY <1>1, <1>2, <2>1
  <2> HIDE DEF u
  <2> QED BY <2>1, <2>2 DEF InSeq
<1> HIDE DEF u
<1>6. InSeq(u) = InSeq(s) \cup InSeq(t)
  BY <1>3, <1>4, <1>5
<1> QED BY <1>6 DEF u

LEMMA InOne ==
  ASSUME NEW e
  PROVE  InSeq(<<e>>) = EntryBytes(e)
<1>1. DOMAIN <<e>> = {1} /\ <<e>>[1] = e
  OBVIOUS
<1> QED BY <1>1 DEF InSeq

(* What a list holds, its head and the rest hold. *)
LEMMA HeadAndTail ==
  ASSUME NEW S, NEW s \in Seq(S), s # <<>>
  PROVE  /\ Head(s) = s[1] /\ Head(s) \in S /\ Tail(s) \in Seq(S)
         /\ Len(s) \in Nat \ {0} /\ Len(Tail(s)) = Len(s) - 1
         /\ DOMAIN s = 1..Len(s) /\ DOMAIN Tail(s) = 1..(Len(s) - 1)
         /\ \A i \in DOMAIN Tail(s) : i + 1 \in DOMAIN s /\ Tail(s)[i] = s[i + 1]
         /\ \A i \in DOMAIN s : i = 1 \/ (i - 1 \in DOMAIN Tail(s) /\ s[i] = Tail(s)[i - 1])
<1>1. /\ Head(s) \in S /\ Tail(s) \in Seq(S) /\ Len(Tail(s)) = Len(s) - 1
      /\ \A i \in 1..Len(Tail(s)) : Tail(s)[i] = s[i + 1]
  BY HeadTailProperties
<1>2. Len(s) \in Nat \ {0} /\ DOMAIN s = 1..Len(s) /\ DOMAIN Tail(s) = 1..(Len(s) - 1)
  BY <1>1, LenProperties, EmptySeq
<1>3. Head(s) = s[1]
  OBVIOUS
<1> QED BY <1>1, <1>2, <1>3

LEMMA InHeadTail ==
  ASSUME NEW S, NEW s \in Seq(S), s # <<>>
  PROVE  InSeq(s) = EntryBytes(Head(s)) \cup InSeq(Tail(s))
<1> DEFINE t == Tail(s)
<1>1. /\ Head(s) = s[1] /\ 1 \in DOMAIN s
      /\ \A i \in DOMAIN t : i + 1 \in DOMAIN s /\ t[i] = s[i + 1]
      /\ \A i \in DOMAIN s : i = 1 \/ (i - 1 \in DOMAIN t /\ s[i] = t[i - 1])
  BY HeadAndTail
<1> HIDE DEF t
<1>2. ASSUME NEW x, x \in InSeq(s) PROVE x \in EntryBytes(s[1]) \cup InSeq(t)
  <2>1. PICK i \in DOMAIN s : x \in EntryBytes(s[i])
    BY <1>2 DEF InSeq
  <2>2. CASE i = 1
    BY <2>1, <2>2
  <2>3. CASE i # 1
    <3>1. i - 1 \in DOMAIN t /\ s[i] = t[i - 1]
      BY <1>1, <2>3
    <3> QED BY <2>1, <3>1 DEF InSeq
  <2> QED BY <2>2, <2>3
<1>3. ASSUME NEW x, x \in EntryBytes(s[1]) PROVE x \in InSeq(s)
  BY <1>1, <1>3 DEF InSeq
<1>4. ASSUME NEW x, x \in InSeq(t) PROVE x \in InSeq(s)
  <2>1. PICK i \in DOMAIN t : x \in EntryBytes(t[i])
    BY <1>4 DEF InSeq
  <2>2. i + 1 \in DOMAIN s /\ t[i] = s[i + 1]
    BY <1>1, <2>1
  <2> QED BY <2>1, <2>2 DEF InSeq
<1> QED BY <1>1, <1>2, <1>3, <1>4 DEF t

-----------------------------------------------------------------------------
(* The sections. *)

SectionNames == STRING \cup {PreInitCfg, ".log_section", ".setup"}

ElfNames == {ElfOrder[n] : n \in DOMAIN ElfOrder}

LEMMA ElfFacts ==
  /\ ElfOrder \in Seq(SectionNames) /\ DOMAIN ElfOrder = 1..Len(ElfOrder)
  /\ Len(ElfOrder) \in Nat /\ Len(ElfOrder) > 1
  /\ ElfOrder[1] = PreInitCfg
  /\ \A n \in 2..Len(ElfOrder) : ElfOrder[n] # PreInitCfg
  /\ \A s \in ElfNames : s \in SectionNames
  /\ \A s \in ElfNames : s \notin {PreInitCfg, ".log_section"} => \E m \in Index : Names[m] = s
  /\ \E n \in DOMAIN ElfOrder : ElfOrder[n] = ".setup"
  /\ \A m, n \in DOMAIN ElfOrder : ElfOrder[m] = ElfOrder[n] => m = n
<1> DEFINE N == Len(Names)
<1>1. /\ N \in Nat /\ Names \in Seq(SectionNames) /\ DOMAIN Names = 1..N /\ Index = 1..N
      /\ \A n \in 1..N : Names[n] \in SectionNames /\ Names[n] \notin {PreInitCfg, ".log_section"}
      /\ \A m, n \in 1..N : Names[m] = Names[n] => m = n
      /\ \E n \in 1..N : Names[n] = ".setup"
  <2>0. STRING \subseteq SectionNames
    BY DEF SectionNames
  <2>1. Names \in Seq(SectionNames) /\ Len(Names) = Len(Align) /\ Align \in Seq({1, 2, 4, 8, 16, 32})
    BY <2>0, SeqMonotonic, ImageAssumption, LinkAssumption DEF ImageAssumption, LinkAssumption
  <2>2. N \in Nat /\ DOMAIN Names = 1..N /\ Index = 1..N
    BY <2>1, LenProperties DEF Index
  <2>3. \A n \in 1..N : Names[n] \in SectionNames
    BY <2>1, ElementOfSeq
  <2> QED BY <2>1, <2>2, <2>3, ImageAssumption DEF ImageAssumption
<1> HIDE DEF N
<1>2. <<PreInitCfg>> \in Seq(SectionNames) /\ <<".log_section">> \in Seq(SectionNames)
  <2>1. PreInitCfg \in SectionNames /\ ".log_section" \in SectionNames
    BY DEF SectionNames
  <2> QED BY <2>1, OneElement
<1> DEFINE u == <<PreInitCfg>> \o Names
<1>3. /\ u \in Seq(SectionNames) /\ Len(u) = N + 1
      /\ \A i \in 1..(N + 1) : u[i] = IF i <= 1 THEN PreInitCfg ELSE Names[i - 1]
  BY <1>1, <1>2, ConcatProperties DEF N
<1> HIDE DEF u
<1>4. /\ ElfOrder \in Seq(SectionNames) /\ Len(ElfOrder) = N + 2
      /\ \A i \in 1..(N + 2) : ElfOrder[i] = IF i <= N + 1 THEN u[i] ELSE ".log_section"
  <2>1. ElfOrder = u \o <<".log_section">>
    BY DEF ElfOrder, u
  <2>2. /\ ElfOrder \in Seq(SectionNames) /\ Len(ElfOrder) = Len(u) + Len(<<".log_section">>)
        /\ \A i \in 1..(Len(u) + Len(<<".log_section">>)) :
             ElfOrder[i] = IF i <= Len(u) THEN u[i] ELSE <<".log_section">>[i - Len(u)]
    BY <1>2, <1>3, <2>1, ConcatProperties
  <2> QED BY <1>1, <1>3, <2>2
<1>5. /\ DOMAIN ElfOrder = 1..(N + 2) /\ N \in Nat
      /\ \A i \in 1..(N + 2) : ElfOrder[i] = IF i = 1 THEN PreInitCfg ELSE
                                              IF i <= N + 1 THEN Names[i - 1] ELSE ".log_section"
  BY <1>1, <1>3, <1>4, LenProperties
<1>6. \A n \in 2..Len(ElfOrder) : ElfOrder[n] # PreInitCfg
  <2> SUFFICES ASSUME NEW n \in 2..(N + 2) PROVE ElfOrder[n] # PreInitCfg
    BY <1>4
  <2>1. CASE n <= N + 1
    BY <1>1, <1>5, <2>1
  <2>2. CASE n = N + 2
    BY <1>1, <1>5, <2>2 DEF PreInitCfg
  <2> QED BY <1>1, <2>1, <2>2
<1>7. \A s \in ElfNames : s \in SectionNames
  BY <1>4, <1>5, ElementOfSeq DEF ElfNames
<1>8. ASSUME NEW s \in ElfNames, s \notin {PreInitCfg, ".log_section"}
      PROVE  \E m \in Index : Names[m] = s
  <2>1. PICK n \in 1..(N + 2) : s = ElfOrder[n]
    BY <1>5 DEF ElfNames
  <2>2. n # 1 /\ n <= N + 1 /\ s = Names[n - 1]
    BY <1>5, <1>8, <2>1
  <2> QED BY <1>1, <2>1, <2>2
<1>9. \E n \in DOMAIN ElfOrder : ElfOrder[n] = ".setup"
  <2>1. PICK n \in 1..N : Names[n] = ".setup"
    BY <1>1
  <2>2. n + 1 \in 1..(N + 2) /\ ElfOrder[n + 1] = ".setup"
    BY <1>1, <1>5, <2>1
  <2> QED BY <1>5, <2>2
<1>10. ASSUME NEW m \in 1..(N + 2), NEW n \in 1..(N + 2), m < n
       PROVE  ElfOrder[m] # ElfOrder[n]
  <2>1. CASE m = 1
    <3>1. n \in 2..Len(ElfOrder) /\ ElfOrder[m] = PreInitCfg
      BY <1>4, <1>5, <1>10, <2>1
    <3> QED BY <1>6, <3>1
  <2>2. CASE m # 1 /\ n <= N + 1
    <3>1. /\ m - 1 \in 1..N /\ n - 1 \in 1..N /\ m - 1 # n - 1
          /\ ElfOrder[m] = Names[m - 1] /\ ElfOrder[n] = Names[n - 1]
      BY <1>5, <1>10, <2>2
    <3> QED BY <1>1, <3>1
  <2>3. CASE m # 1 /\ n = N + 2
    <3>1. m - 1 \in 1..N /\ ElfOrder[m] = Names[m - 1] /\ ElfOrder[n] = ".log_section"
      BY <1>5, <1>10, <2>3
    <3> QED BY <1>1, <3>1
  <2> QED BY <1>5, <2>1, <2>2, <2>3
<1>11. \A m, n \in 1..(N + 2) : ElfOrder[m] = ElfOrder[n] => m = n
  <2>1. \A m, n \in 1..(N + 2) : m < n \/ n < m \/ m = n
    BY <1>5
  <2> QED BY <1>10, <2>1
<1> QED BY <1>1, <1>4, <1>5, <1>6, <1>7, <1>8, <1>9, <1>11

(* Sorting keeps the sections, and the configuration word first. *)
LEMMA SortedFacts ==
  ASSUME direct \in BOOLEAN
  PROVE  /\ SortedOrder \in Seq(SectionNames) /\ SortedOrder # <<>>
         /\ DOMAIN SortedOrder = 1..Len(SortedOrder)
         /\ SortedOrder[1] = PreInitCfg
         /\ \A n \in 2..Len(SortedOrder) : SortedOrder[n] # PreInitCfg
         /\ {SortedOrder[n] : n \in DOMAIN SortedOrder} = ElfNames
         /\ \A m, n \in DOMAIN SortedOrder : SortedOrder[m] = SortedOrder[n] => m = n
<1> DEFINE L == Len(ElfOrder)
           setup == CHOOSE n \in DOMAIN ElfOrder : ElfOrder[n] = ".setup"
           before == SubSeq(ElfOrder, 1, setup - 1)
           behind == SubSeq(ElfOrder, setup + 1, L)
           sorted == before \o behind \o <<".setup">>
<1>1. /\ L \in Nat /\ L > 1 /\ ElfOrder[1] = PreInitCfg /\ ElfOrder \in Seq(SectionNames)
      /\ DOMAIN ElfOrder = 1..L
      /\ \A n \in 2..L : ElfOrder[n] # PreInitCfg
      /\ \A n \in 1..L : ElfOrder[n] \in SectionNames
      /\ \A m, n \in 1..L : ElfOrder[m] = ElfOrder[n] => m = n
  BY ElfFacts, ElementOfSeq
<1>2. setup \in 1..L /\ ElfOrder[setup] = ".setup"
  BY ElfFacts
<1> HIDE DEF setup, L
<1>3. setup > 1
  BY <1>1, <1>2 DEF PreInitCfg
<1>4. /\ before \in Seq(SectionNames) /\ Len(before) = setup - 1
      /\ \A i \in 1..(setup - 1) : before[i] = ElfOrder[i]
  <2>1. \A i \in 1..(setup - 1) : ElfOrder[i] \in SectionNames
    BY <1>1, <1>2
  <2>2. /\ before \in Seq(SectionNames)
        /\ Len(before) = IF 1 <= setup - 1 THEN (setup - 1) - 1 + 1 ELSE 0
        /\ \A i \in 1..((setup - 1) - 1 + 1) : before[i] = ElfOrder[1 + i - 1]
    BY <1>1, <1>2, <2>1, SubSeqProperties
  <2> HIDE DEF before
  <2> QED BY <1>1, <1>2, <1>3, <2>2
<1>5. /\ behind \in Seq(SectionNames) /\ Len(behind) = L - setup
      /\ \A i \in 1..(L - setup) : behind[i] = ElfOrder[setup + i]
  <2>1. \A i \in (setup + 1)..L : ElfOrder[i] \in SectionNames
    BY <1>1, <1>2
  <2>2. /\ behind \in Seq(SectionNames)
        /\ Len(behind) = IF setup + 1 <= L THEN L - (setup + 1) + 1 ELSE 0
        /\ \A i \in 1..(L - (setup + 1) + 1) : behind[i] = ElfOrder[(setup + 1) + i - 1]
    BY <1>1, <1>2, <2>1, SubSeqProperties
  <2> HIDE DEF behind
  <2> QED BY <1>1, <1>2, <2>2
<1> HIDE DEF before, behind
<1>6. /\ sorted \in Seq(SectionNames) /\ Len(sorted) = L
      /\ \A i \in 1..L : sorted[i] = IF i < setup THEN ElfOrder[i] ELSE
                                     IF i < L THEN ElfOrder[i + 1] ELSE ".setup"
  <2> DEFINE u == before \o behind
  <2>1. /\ u \in Seq(SectionNames) /\ Len(u) = L - 1
        /\ \A i \in 1..(L - 1) : u[i] = IF i < setup THEN ElfOrder[i] ELSE ElfOrder[i + 1]
    <3>1. /\ u \in Seq(SectionNames) /\ Len(u) = Len(before) + Len(behind)
          /\ \A i \in 1..(Len(before) + Len(behind)) :
                u[i] = IF i <= Len(before) THEN before[i] ELSE behind[i - Len(before)]
      BY <1>4, <1>5, ConcatProperties
    <3> HIDE DEF u
    <3> QED BY <1>1, <1>2, <1>4, <1>5, <3>1
  <2>2. <<".setup">> \in Seq(SectionNames) /\ Len(<<".setup">>) = 1 /\ <<".setup">>[1] = ".setup"
    <3>1. ".setup" \in SectionNames
      BY DEF SectionNames
    <3> QED BY <3>1, OneElement
  <2> HIDE DEF u
  <2>3. /\ sorted \in Seq(SectionNames) /\ Len(sorted) = Len(u) + Len(<<".setup">>)
        /\ \A i \in 1..(Len(u) + Len(<<".setup">>)) :
              sorted[i] = IF i <= Len(u) THEN u[i] ELSE <<".setup">>[i - Len(u)]
    BY <2>1, <2>2, ConcatProperties DEF u
  <2> HIDE DEF sorted
  <2>4. Len(sorted) = L
    BY <1>1, <2>1, <2>2, <2>3
  <2>5. ASSUME NEW i \in 1..L
        PROVE  sorted[i] = IF i < setup THEN ElfOrder[i] ELSE
                           IF i < L THEN ElfOrder[i + 1] ELSE ".setup"
    <3>1. CASE i < L
      BY <1>1, <1>2, <2>1, <2>2, <2>3, <3>1
    <3>2. CASE i = L
      BY <1>1, <1>2, <2>1, <2>2, <2>3, <3>2
    <3> QED BY <1>1, <3>1, <3>2
  <2> QED BY <2>3, <2>4, <2>5
<1> HIDE DEF sorted
<1>7. DOMAIN sorted = 1..L
  BY <1>6, LenProperties
<1>8. sorted[1] = PreInitCfg
  BY <1>1, <1>2, <1>3, <1>6
<1>9. ASSUME NEW n \in 2..L PROVE sorted[n] # PreInitCfg
  <2>1. CASE n < setup
    BY <1>1, <1>6, <2>1
  <2>2. CASE ~(n < setup) /\ n < L
    <3>1. n \in 1..L /\ n + 1 \in 2..L /\ sorted[n] = ElfOrder[n + 1]
      BY <1>1, <1>6, <2>2
    <3> QED BY <1>1, <3>1
  <2>3. CASE ~(n < setup) /\ ~(n < L)
    BY <1>1, <1>6, <2>3 DEF PreInitCfg
  <2> QED BY <2>1, <2>2, <2>3
<1>10. ASSUME NEW n \in 1..L PROVE \E m \in 1..L : sorted[n] = ElfOrder[m]
  <2>1. CASE n < setup
    BY <1>1, <1>6, <2>1
  <2>2. CASE ~(n < setup) /\ n < L
    <3>1. n + 1 \in 1..L /\ sorted[n] = ElfOrder[n + 1]
      BY <1>1, <1>6, <2>2
    <3> QED BY <3>1
  <2>3. CASE ~(n < setup) /\ ~(n < L)
    BY <1>1, <1>2, <1>6, <2>3
  <2> QED BY <2>1, <2>2, <2>3
<1>11. ASSUME NEW m \in 1..L PROVE \E n \in 1..L : sorted[n] = ElfOrder[m]
  <2>1. CASE m < setup
    BY <1>1, <1>6, <2>1
  <2>2. CASE m = setup
    <3>1. L \in 1..L /\ sorted[L] = ".setup"
      BY <1>1, <1>2, <1>6
    <3> QED BY <1>2, <2>2, <3>1
  <2>3. CASE m > setup
    <3>1. m - 1 \in 1..L /\ ~(m - 1 < setup) /\ m - 1 < L /\ (m - 1) + 1 = m
      BY <1>1, <1>2, <2>3
    <3>2. sorted[m - 1] = ElfOrder[m]
      BY <1>6, <3>1
    <3> QED BY <3>1, <3>2
  <2> QED BY <1>1, <1>2, <2>1, <2>2, <2>3
<1>14. \A m, n \in 1..L : sorted[m] = sorted[n] => m = n
  <2> DEFINE from(i) == IF i < setup THEN i ELSE IF i < L THEN i + 1 ELSE setup
  <2>1. \A i \in 1..L : from(i) \in 1..L /\ sorted[i] = ElfOrder[from(i)]
    BY <1>1, <1>2, <1>6
  <2>2. \A m, n \in 1..L : from(m) = from(n) => m = n
    BY <1>1, <1>2
  <2> HIDE DEF from
  <2> QED BY <1>1, <2>1, <2>2
<1>12. CASE direct
  <2>1. SortedOrder = sorted
    BY <1>12 DEF SortedOrder, sorted, before, behind, setup, L
  <2>2. {sorted[n] : n \in 1..L} = {ElfOrder[m] : m \in 1..L}
    BY <1>10, <1>11
  <2>3. sorted # <<>>
    BY <1>1, <1>6
  <2>4. \A m, n \in DOMAIN sorted : sorted[m] = sorted[n] => m = n
    BY <1>7, <1>14
  <2>5. {sorted[n] : n \in DOMAIN sorted} = ElfNames
    BY <1>1, <1>7, <2>2 DEF ElfNames
  <2>6. \A n \in 2..Len(sorted) : sorted[n] # PreInitCfg
    BY <1>6, <1>9
  <2>7. sorted \in Seq(SectionNames) /\ DOMAIN sorted = 1..Len(sorted)
    BY <1>6, <1>7
  <2> QED BY <1>8, <2>1, <2>3, <2>4, <2>5, <2>6, <2>7
<1>13. CASE ~direct
  <2>1. SortedOrder = ElfOrder
    BY <1>13 DEF SortedOrder
  <2>2. ElfOrder # <<>>
    BY <1>1 DEF L
  <2> QED BY <1>1, <2>1, <2>2 DEF ElfNames, L
<1> QED BY <1>12, <1>13

-----------------------------------------------------------------------------
(* The entries. *)

Entry ==
  [how : {"ENTRY", "DIRECT_LOAD"}, section : SectionNames, addr : Int, from : Nat, len : Nat \ {0}]

Entries == Entry \cup {Platform}

(* A part of a section with contents, at its address. *)
AppEntry(e) ==
  /\ e \in Entry
  /\ e.how = IF direct THEN "DIRECT_LOAD" ELSE "ENTRY"
  /\ e.section \in ElfNames /\ Listed(e.section)
  /\ e.addr = AddressOf(e.section) + e.from
  /\ e.from + e.len <= SizeOf(e.section)

LEMMA PlatformIsNoEntry == Platform \notin Entry
<1> SUFFICES ASSUME Platform \in Entry PROVE FALSE
  OBVIOUS
<1>1. DOMAIN Platform = {"how", "section"}
  BY DEF Platform
<1>2. DOMAIN Platform = {"how", "section", "addr", "from", "len"}
  BY DEF Entry
<1>3. "addr" \notin {"how", "section"}
  OBVIOUS
<1> QED BY <1>1, <1>2, <1>3

LEMMA EntryBytesOf ==
  ASSUME NEW e \in Entry
  PROVE  EntryBytes(e) = Bytes(e.addr, e.section, e.from, e.len)
BY PlatformIsNoEntry DEF EntryBytes

LEMMA PlatformBytes == EntryBytes(Platform) = {}
BY DEF EntryBytes

(* Every section with contents has an address and a size. *)
LEMMA ListedTyped ==
  ASSUME LinkTypeOK, NEW s \in ElfNames, Listed(s)
  PROVE  /\ s \in SectionNames /\ SizeOf(s) \in Nat \ {0} /\ AddressOf(s) \in Int
         /\ s # PreInitCfg => \E n \in Index : AddressOf(s) = at[n] /\ SizeOf(s) = size[n]
<1>1. s \in SectionNames /\ SizeOf(s) > 0 /\ s # ".log_section"
  BY ElfFacts DEF Listed
<1>2. CASE s = PreInitCfg
  BY <1>1, <1>2, ImageAssumption DEF ImageAssumption, SizeOf, AddressOf
<1>3. CASE s # PreInitCfg
  <2>1. \E n \in Index : Names[n] = s
    BY <1>1, <1>3, ElfFacts
  <2>2. Number(s) \in Index
    BY <2>1 DEF Number
  <2>3. SizeOf(s) = size[Number(s)] /\ AddressOf(s) = at[Number(s)]
    BY <1>3 DEF SizeOf, AddressOf
  <2>4. size[Number(s)] \in Nat /\ at[Number(s)] \in Int
    BY <2>2, LinkAssumption DEF LinkTypeOK, LinkAssumption
  <2> QED BY <1>1, <2>2, <2>3, <2>4
<1> QED BY <1>2, <1>3

SectionBytes(s) == IF Listed(s) THEN Bytes(AddressOf(s), s, 0, SizeOf(s)) ELSE {}

InNames(s) == UNION {SectionBytes(s[i]) : i \in DOMAIN s}

LEMMA InElfOf ==
  ASSUME NEW s, {s[n] : n \in DOMAIN s} = ElfNames
  PROVE  InNames(s) = InElf
<1>1. ASSUME NEW x, x \in InNames(s) PROVE x \in InElf
  <2>1. PICK n \in DOMAIN s : x \in SectionBytes(s[n])
    BY <1>1 DEF InNames
  <2>2. PICK m \in DOMAIN ElfOrder : s[n] = ElfOrder[m]
    BY <2>1 DEF ElfNames
  <2> QED BY <2>1, <2>2 DEF SectionBytes, InElf
<1>2. ASSUME NEW x, x \in InElf PROVE x \in InNames(s)
  <2>1. PICK m \in DOMAIN ElfOrder :
          Listed(ElfOrder[m]) /\ x \in Bytes(AddressOf(ElfOrder[m]), ElfOrder[m], 0, SizeOf(ElfOrder[m]))
    BY <1>2 DEF InElf
  <2>2. PICK n \in DOMAIN s : s[n] = ElfOrder[m]
    BY DEF ElfNames
  <2> QED BY <2>1, <2>2 DEF SectionBytes, InNames
<1> QED BY <1>1, <1>2

LEMMA NamesHeadTail ==
  ASSUME NEW S, NEW s \in Seq(S), s # <<>>
  PROVE  InNames(s) = SectionBytes(Head(s)) \cup InNames(Tail(s))
<1> DEFINE t == Tail(s)
<1>1. /\ Head(s) = s[1] /\ 1 \in DOMAIN s
      /\ \A i \in DOMAIN t : i + 1 \in DOMAIN s /\ t[i] = s[i + 1]
      /\ \A i \in DOMAIN s : i = 1 \/ (i - 1 \in DOMAIN t /\ s[i] = t[i - 1])
  BY HeadAndTail
<1> HIDE DEF t
<1>2. ASSUME NEW x, x \in InNames(s) PROVE x \in SectionBytes(s[1]) \cup InNames(t)
  <2>1. PICK i \in DOMAIN s : x \in SectionBytes(s[i])
    BY <1>2 DEF InNames
  <2>2. CASE i = 1
    BY <2>1, <2>2
  <2>3. CASE i # 1
    <3>1. i - 1 \in DOMAIN t /\ s[i] = t[i - 1]
      BY <1>1, <2>3
    <3> QED BY <2>1, <3>1 DEF InNames
  <2> QED BY <2>2, <2>3
<1>3. ASSUME NEW x, x \in SectionBytes(s[1]) PROVE x \in InNames(s)
  BY <1>1, <1>3 DEF InNames
<1>4. ASSUME NEW x, x \in InNames(t) PROVE x \in InNames(s)
  <2>1. PICK i \in DOMAIN t : x \in SectionBytes(t[i])
    BY <1>4 DEF InNames
  <2>2. i + 1 \in DOMAIN s /\ t[i] = s[i + 1]
    BY <1>1, <2>1
  <2> QED BY <2>1, <2>2 DEF InNames
<1> QED BY <1>1, <1>2, <1>3, <1>4 DEF t

(* The number of chunks, and the chunk that an offset is in. *)
LEMMA ChunkCount ==
  ASSUME NEW n \in Nat \ {0}, NEW c \in Nat \ {0}
  PROVE  /\ (n + c - 1) \div c \in Nat
         /\ \A d \in 1..((n + c - 1) \div c) : (d - 1) * c \in Nat /\ (d - 1) * c < n
OBVIOUS

LEMMA ChunkOf ==
  ASSUME NEW n \in Nat \ {0}, NEW c \in Nat \ {0}, NEW f \in 0..(n - 1)
  PROVE  /\ (f \div c) + 1 \in 1..((n + c - 1) \div c)
         /\ (f \div c) * c \in Nat /\ (f \div c) * c <= f /\ f < (f \div c) * c + c
OBVIOUS

(* The entries of a section are parts of it and together the whole of it.  *)
LEMMA SectionInChunks ==
  ASSUME LinkTypeOK, direct \in BOOLEAN, NEW s \in ElfNames, Listed(s),
         NEW list, list = [c \in 1..((SizeOf(s) + Chunk - 1) \div Chunk)
                             |-> ChunkEntry(s, (c - 1) * Chunk)]
  PROVE  /\ list \in Seq(Entries) /\ InSeq(list) = SectionBytes(s)
         /\ \A c \in DOMAIN list : AppEntry(list[c]) /\ list[c].section = s
<1> DEFINE n == SizeOf(s)
           a == AddressOf(s)
           N == (n + Chunk - 1) \div Chunk
<1>1. n \in Nat \ {0} /\ a \in Int /\ s \in SectionNames /\ Chunk \in Nat \ {0}
  BY ListedTyped, ImageAssumption DEF ImageAssumption
<1>2. N \in Nat /\ \A c \in 1..N : (c - 1) * Chunk \in Nat /\ (c - 1) * Chunk < n
  <2> HIDE DEF n
  <2> QED BY <1>1, ChunkCount
<1>3. /\ DOMAIN list = 1..N
      /\ \A c \in 1..N : list[c] = ChunkEntry(s, (c - 1) * Chunk)
  OBVIOUS
<1>4. ASSUME NEW c \in 1..N
      PROVE  /\ AppEntry(list[c]) /\ list[c] \in Entry
             /\ list[c].section = s /\ list[c].from = (c - 1) * Chunk
             /\ list[c].addr = a + list[c].from
             /\ list[c].len = IF n - list[c].from > Chunk THEN Chunk ELSE n - list[c].from
  <2> DEFINE f == (c - 1) * Chunk
             e == list[c]
             l == IF n - f > Chunk THEN Chunk ELSE n - f
             how == IF direct THEN "DIRECT_LOAD" ELSE "ENTRY"
  <2>1. f \in Nat /\ f < n
    BY <1>2
  <2>2. e = [how |-> how, section |-> s, addr |-> a + f, from |-> f, len |-> l]
    BY <1>3 DEF ChunkEntry
  <2>3. l \in Nat \ {0} /\ f + l <= n /\ a + f \in Int
    <3> HIDE DEF f, n, a
    <3> QED BY <1>1, <2>1
  <2>4. how \in {"ENTRY", "DIRECT_LOAD"}
    OBVIOUS
  <2> HIDE DEF f, n, a, l, how, e
  <2>5. e \in Entry
    BY <1>1, <2>1, <2>2, <2>3, <2>4 DEF Entry
  <2>6. e.how = how /\ e.section = s /\ e.addr = a + f /\ e.from = f /\ e.len = l
    BY <2>2
  <2>7. AppEntry(e)
    BY <2>1, <2>3, <2>5, <2>6 DEF AppEntry, a, n, how
  <2> QED BY <2>5, <2>6, <2>7 DEF e, f, l
<1>5. list \in Seq(Entries)
  <2>1. list = [c \in 1..N |-> list[c]] /\ \A c \in 1..N : list[c] \in Entries
    BY <1>3, <1>4 DEF Entries
  <2> HIDE DEF N
  <2> QED BY <1>2, <2>1, FunctionIsSeq
<1>6. ASSUME NEW x, x \in InSeq(list) PROVE x \in SectionBytes(s)
  <2>1. PICK c \in 1..N : x \in EntryBytes(list[c])
    BY <1>3, <1>6 DEF InSeq
  <2> DEFINE e == list[c]
             f == e.from
  <2>2. /\ e \in Entry /\ e.section = s /\ e.addr = a + f
        /\ e.len = IF n - f > Chunk THEN Chunk ELSE n - f
    BY <1>4
  <2>3. PICK j \in 0..(e.len - 1) : x = <<a + f + j, s, f + j>>
    BY <2>1, <2>2, EntryBytesOf, BytesMember
  <2>4. f \in Nat /\ e.len \in Nat
    BY <2>2 DEF Entry
  <2>5. f + j \in 0..(n - 1) /\ a + f + j = a + (f + j) /\ f + j = 0 + (f + j)
    <3> HIDE DEF e, f, n, a
    <3> QED BY <1>1, <2>2, <2>3, <2>4
  <2>6. x = <<a + (f + j), s, 0 + (f + j)>>
    BY <2>3, <2>5
  <2>7. x \in Bytes(a, s, 0, n)
    BY <2>5, <2>6 DEF Bytes
  <2> QED BY <2>7 DEF SectionBytes
<1>7. ASSUME NEW x, x \in SectionBytes(s) PROVE x \in InSeq(list)
  <2>1. PICK g \in 0..(n - 1) : x = <<a + g, s, 0 + g>>
    BY <1>7, BytesMember DEF SectionBytes
  <2> DEFINE c == (g \div Chunk) + 1
             e == list[c]
             f == e.from
  <2>2. c \in 1..N /\ (c - 1) * Chunk \in Nat /\ (c - 1) * Chunk <= g /\ g < (c - 1) * Chunk + Chunk
    <3>1. /\ (g \div Chunk) + 1 \in 1..N /\ (g \div Chunk) * Chunk \in Nat
          /\ (g \div Chunk) * Chunk <= g /\ g < (g \div Chunk) * Chunk + Chunk
      <4> HIDE DEF n
      <4> QED BY <1>1, ChunkOf
    <3>2. c - 1 = g \div Chunk
      BY <1>1, <2>1
    <3> QED BY <3>1, <3>2
  <2>3. /\ e \in Entry /\ e.section = s /\ f = (c - 1) * Chunk /\ e.addr = a + f
        /\ e.len = IF n - f > Chunk THEN Chunk ELSE n - f
    BY <1>4, <2>2
  <2>4. f \in Nat /\ f <= g /\ g < f + Chunk
    BY <2>2, <2>3
  <2> HIDE DEF c
  <2>5. g - f \in 0..(e.len - 1) /\ a + g = e.addr + (g - f) /\ 0 + g = f + (g - f)
    <3> HIDE DEF e, f, n, a
    <3> QED BY <1>1, <2>1, <2>3, <2>4
  <2>6. x \in EntryBytes(e)
    BY <2>1, <2>3, <2>5, EntryBytesOf, BytesMember
  <2> QED BY <1>3, <2>2, <2>6 DEF InSeq
<1> QED BY <1>3, <1>4, <1>5, <1>6, <1>7

-----------------------------------------------------------------------------
(* The records of the HEX file. *)

HexData == [type : {0}, low : Int, section : SectionNames, from : Nat, len : Nat \ {0}]

HexRecords == HexData \cup [type : {4}, upper : Int]

(* Upper, RecordAddress and InHex, of any records. *)
Extended(h, n) == {i \in 1..(n - 1) : h[i].type = 4}

LastUpper(h, E) ==
  IF E = {} THEN 0 ELSE h[CHOOSE i \in E : \A j \in E : j <= i].upper

UpperOf(h, n) == LastUpper(h, Extended(h, n))

Joined(upper, low) == upper * Segment + low

AddressIn(h, i) == Joined(UpperOf(h, i), h[i].low)

DataIn(h) == {i \in DOMAIN h : h[i].type = 0}

HexBytes(h) ==
  UNION {Bytes(AddressIn(h, i), h[i].section, h[i].from, h[i].len) : i \in DataIn(h)}

LEMMA UpperIs == \A n : Upper(n) = UpperOf(hex, n)
BY DEF Upper, UpperOf, LastUpper, Extended

LEMMA HexIs ==
  /\ \A i : RecordAddress(i) = AddressIn(hex, i)
  /\ DataRecords = DataIn(hex) /\ InHex = HexBytes(hex)
<1>1. \A i : RecordAddress(i) = AddressIn(hex, i)
  BY UpperIs DEF RecordAddress, AddressIn, Joined
<1>2. DataRecords = DataIn(hex)
  BY DEF DataRecords, DataIn
<1> QED BY <1>1, <1>2 DEF InHex, HexBytes

(* The least distance from N belongs to the greatest number.               *)
LEMMA GreatestNumber ==
  ASSUME NEW N \in Nat, NEW S \in SUBSET (1..N), S # {}
  PROVE  \E m \in S : \A n \in S : n <= m
<1> DEFINE R == OpToRel(<, Nat)
           F == {N - n : n \in S}
<1>1. IsWellFoundedOn(R, Nat)
  BY NatLessThanWellFounded
<1>2. \A n \in S : n \in Nat /\ N - n \in Nat
  OBVIOUS
<1>3. F \subseteq Nat /\ F # {}
  BY <1>2
<1>4. \A x, y \in Nat : <<x, y>> \in R <=> x < y
  BY DEF OpToRel
<1> HIDE DEF R, F
<1>5. PICK x \in F : \A y \in F : ~(<<y, x>> \in R)
  BY <1>1, <1>3, WFMin
<1>6. PICK m \in S : x = N - m
  BY DEF F
<1>7. ASSUME NEW n \in S PROVE n <= m
  <2>1. N - n \in F
    BY DEF F
  <2>2. ~(N - n < x)
    BY <1>3, <1>4, <1>5, <2>1
  <2> QED BY <1>2, <1>6, <2>2
<1> QED BY <1>7

(* A set that has 0, and with a number below N the next one, has them all. *)
LEMMA UpTo ==
  ASSUME NEW N \in Nat, NEW S, 0 \in S,
         \A n \in 0..(N - 1) : n \in S => n + 1 \in S
  PROVE  \A n \in 0..N : n \in S
<1> DEFINE P == {p \in 1..(N + 1) : \A m \in 0..(p - 1) : m \in S}
<1>1. 1 \in P /\ P \in SUBSET (1..(N + 1)) /\ N + 1 \in Nat
  OBVIOUS
<1>2. PICK p \in P : \A n \in P : n <= p
  <2> HIDE DEF P
  <2> QED BY <1>1, GreatestNumber
<1>3. p \in 1..(N + 1) /\ \A m \in 0..(p - 1) : m \in S
  BY <1>2
<1>4. CASE p = N + 1
  BY <1>3, <1>4
<1>5. CASE p # N + 1
  <2>1. p - 1 \in 0..(N - 1) /\ p - 1 \in S /\ (p - 1) + 1 = p
    BY <1>3, <1>5
  <2>2. p \in S
    BY <2>1
  <2>3. p + 1 \in 1..(N + 1) /\ \A m \in 0..((p + 1) - 1) : m \in 0..(p - 1) \/ m = p
    BY <1>3, <1>5
  <2>4. p + 1 \in P
    BY <1>3, <2>2, <2>3
  <2> QED BY <1>2, <1>3, <2>4
<1> QED BY <1>4, <1>5

(* The address depends on the records before only. *)
LEMMA UpperKept ==
  ASSUME NEW h, NEW g, NEW n \in Nat \ {0}, \A i \in 1..(n - 1) : g[i] = h[i]
  PROVE  UpperOf(g, n) = UpperOf(h, n)
<1>1. Extended(g, n) = Extended(h, n)
  BY DEF Extended
<1> DEFINE E == Extended(h, n)
           last == CHOOSE i \in E : \A j \in E : j <= i
<1>2. CASE E = {}
  BY <1>1, <1>2 DEF UpperOf, LastUpper
<1>3. CASE E # {}
  <2>1. n - 1 \in Nat /\ E \subseteq 1..(n - 1)
    BY DEF Extended
  <2> HIDE DEF E
  <2>2. \E i \in E : \A j \in E : j <= i
    BY <1>3, <2>1, GreatestNumber
  <2>3. last \in E
    BY <2>2
  <2>4. g[last] = h[last]
    BY <2>1, <2>3
  <2>5. UpperOf(g, n) = g[last].upper /\ UpperOf(h, n) = h[last].upper
    BY <1>1, <1>3 DEF UpperOf, LastUpper, E, last
  <2> QED BY <2>4, <2>5
<1> QED BY <1>2, <1>3

(* Behind an extended record its address holds, behind any other the one   *)
(* that held before it.                                                    *)
LEMMA UpperNext ==
  ASSUME NEW h, NEW n \in Nat \ {0}
  PROVE  UpperOf(h, n + 1) = IF h[n].type = 4 THEN h[n].upper ELSE UpperOf(h, n)
<1>1. CASE h[n].type = 4
  <2> DEFINE E == Extended(h, n + 1)
  <2>1. n \in E /\ \A j \in E : j \in Int /\ j <= n
    BY <1>1 DEF Extended
  <2> HIDE DEF E
  <2>2. (CHOOSE i \in E : \A j \in E : j <= i) = n
    <3>1. ASSUME NEW i \in E, \A j \in E : j <= i PROVE i = n
      BY <2>1, <3>1
    <3> QED BY <2>1, <3>1
  <2> QED BY <1>1, <2>1, <2>2 DEF UpperOf, LastUpper, E
<1>2. CASE h[n].type # 4
  <2>1. Extended(h, n + 1) = Extended(h, n)
    BY <1>2 DEF Extended
  <2>2. UpperOf(h, n + 1) = UpperOf(h, n)
    BY <2>1 DEF UpperOf
  <2> QED BY <1>2, <2>2
<1> QED BY <1>1, <1>2

(* The bytes of a data record are where the linker put them, in a section  *)
(* of the application.                                                     *)
GoodData(address, section, from, len) ==
  /\ section \in ElfNames /\ Listed(section) /\ section # PreInitCfg
  /\ address = AddressOf(section) + from
  /\ from + len <= SizeOf(section)

HexGood(h, up) ==
  /\ h \in Seq(HexRecords)
  /\ up = UpperOf(h, Len(h) + 1)
  /\ \A i \in DataIn(h) : GoodData(AddressIn(h, i), h[i].section, h[i].from, h[i].len)

LEMMA EmptyHex == HexGood(<<>>, 0) /\ HexBytes(<<>>) = {}
<1>1. DataIn(<<>>) = {} /\ Len(<<>>) = 0 /\ <<>> \in Seq(HexRecords)
  BY DEF DataIn
<1>2. UpperOf(<<>>, 1) = 0
  BY DEF UpperOf, LastUpper, Extended
<1> QED BY <1>1, <1>2 DEF HexGood, HexBytes

(* One record more. *)
Added(g, h, r) ==
  /\ g \in Seq(HexRecords) /\ Len(g) = Len(h) + 1 /\ g[Len(h) + 1] = r
  /\ \A i \in DataIn(h) : i \in DataIn(g) /\ g[i] = h[i] /\ AddressIn(g, i) = AddressIn(h, i)
  /\ \A i \in DataIn(g) : i \in DataIn(h) \/ (i = Len(h) + 1 /\ r.type = 0)
  /\ r.type = 0 => Len(h) + 1 \in DataIn(g)
  /\ UpperOf(g, Len(h) + 1) = UpperOf(h, Len(h) + 1)
  /\ UpperOf(g, Len(g) + 1) = IF r.type = 4 THEN r.upper ELSE UpperOf(h, Len(h) + 1)

LEMMA RecordAdded ==
  ASSUME NEW h \in Seq(HexRecords), NEW r \in HexRecords,
         NEW g, g = h \o <<r>>
  PROVE  Added(g, h, r)
<1> DEFINE N == Len(h)
<1>1. /\ N \in Nat /\ DOMAIN h = 1..N /\ g \in Seq(HexRecords) /\ Len(g) = N + 1
      /\ DOMAIN g = 1..(N + 1)
      /\ \A i \in 1..N : g[i] = h[i]
      /\ g[N + 1] = r
  <2>1. <<r>> \in Seq(HexRecords) /\ Len(<<r>>) = 1 /\ <<r>>[1] = r
    BY OneElement
  <2>2. /\ g \in Seq(HexRecords) /\ Len(g) = N + Len(<<r>>)
        /\ \A i \in 1..(N + Len(<<r>>)) : g[i] = IF i <= N THEN h[i] ELSE <<r>>[i - N]
    BY <2>1, ConcatProperties
  <2>3. N \in Nat /\ DOMAIN h = 1..N /\ DOMAIN g = 1..Len(g)
    BY <2>2, LenProperties
  <2> HIDE DEF N
  <2> QED BY <2>1, <2>2, <2>3
<1> HIDE DEF N
<1>2. \A n \in 1..(N + 1) : UpperOf(g, n) = UpperOf(h, n)
  <2> TAKE n \in 1..(N + 1)
  <2>1. n \in Nat \ {0} /\ \A i \in 1..(n - 1) : g[i] = h[i]
    BY <1>1
  <2> QED BY <2>1, UpperKept
<1>3. ASSUME NEW i \in DataIn(h)
      PROVE  i \in DataIn(g) /\ g[i] = h[i] /\ AddressIn(g, i) = AddressIn(h, i)
  <2>1. i \in 1..N /\ h[i].type = 0 /\ i \in 1..(N + 1)
    BY <1>1 DEF DataIn
  <2>2. g[i] = h[i] /\ UpperOf(g, i) = UpperOf(h, i)
    BY <1>1, <1>2, <2>1
  <2> QED BY <1>1, <2>1, <2>2 DEF DataIn, AddressIn
<1>4. ASSUME NEW i \in DataIn(g)
      PROVE  i \in DataIn(h) \/ (i = N + 1 /\ r.type = 0)
  BY <1>1 DEF DataIn
<1>5. r.type = 0 => N + 1 \in DataIn(g)
  BY <1>1 DEF DataIn
<1>6. UpperOf(g, (N + 1) + 1) = IF r.type = 4 THEN r.upper ELSE UpperOf(g, N + 1)
  <2>1. N + 1 \in Nat \ {0}
    BY <1>1
  <2>2. UpperOf(g, (N + 1) + 1) = IF g[N + 1].type = 4 THEN g[N + 1].upper ELSE UpperOf(g, N + 1)
    BY <2>1, UpperNext
  <2>3. g[N + 1].type = r.type /\ g[N + 1].upper = r.upper
    BY <1>1
  <2>4. CASE r.type = 4
    BY <2>2, <2>3, <2>4
  <2>5. CASE r.type # 4
    BY <2>2, <2>3, <2>5
  <2> QED BY <2>4, <2>5
<1>7. UpperOf(g, N + 1) = UpperOf(h, N + 1)
  BY <1>1, <1>2
<1> QED BY <1>1, <1>3, <1>4, <1>5, <1>6, <1>7 DEF N, Added

LEMMA ExtendedAdded ==
  ASSUME NEW h, NEW up, HexGood(h, up), NEW to \in Int,
         NEW g, g = h \o <<[type |-> 4, upper |-> to]>>
  PROVE  HexGood(g, to) /\ HexBytes(g) = HexBytes(h)
<1> DEFINE r == [type |-> 4, upper |-> to]
<1>1. r \in HexRecords /\ r.type = 4 /\ r.upper = to /\ r.type # 0
  BY DEF HexRecords
<1>2. g = h \o <<r>> /\ h \in Seq(HexRecords)
  BY DEF HexGood
<1> HIDE DEF r
<1>3. /\ g \in Seq(HexRecords) /\ UpperOf(g, Len(g) + 1) = to
      /\ \A i \in DataIn(h) : i \in DataIn(g) /\ g[i] = h[i] /\ AddressIn(g, i) = AddressIn(h, i)
      /\ \A i \in DataIn(g) : i \in DataIn(h)
  <2>1. Added(g, h, r)
    BY <1>1, <1>2, RecordAdded
  <2> QED BY <1>1, <1>2, <2>1 DEF Added
<1>4. DataIn(g) = DataIn(h)
  BY <1>3
<1> QED BY <1>3, <1>4 DEF HexGood, HexBytes

(* A data record, read behind this upper half, and what it adds. *)
DataFits(r, up) ==
  r \in HexData /\ GoodData(Joined(up, r.low), r.section, r.from, r.len)

DataBytes(r, up) == Bytes(Joined(up, r.low), r.section, r.from, r.len)

LEMMA DataAdded ==
  ASSUME NEW h, NEW up, HexGood(h, up), NEW r, DataFits(r, up),
         NEW g, g = h \o <<r>>
  PROVE  HexGood(g, up) /\ HexBytes(g) = HexBytes(h) \cup DataBytes(r, up)
<1> DEFINE n == Len(h) + 1
           new == Bytes(Joined(up, r.low), r.section, r.from, r.len)
<1>1. r.type = 0 /\ r.type # 4 /\ r \in HexRecords
  BY DEF HexData, HexRecords, DataFits
<1>2. g = h \o <<r>> /\ h \in Seq(HexRecords) /\ up = UpperOf(h, n)
  BY DEF HexGood
<1> HIDE DEF n, new
<1>3. /\ g \in Seq(HexRecords) /\ UpperOf(g, Len(g) + 1) = up
      /\ UpperOf(g, n) = up /\ g[n] = r /\ n \in DataIn(g)
      /\ \A i \in DataIn(h) : i \in DataIn(g) /\ g[i] = h[i] /\ AddressIn(g, i) = AddressIn(h, i)
      /\ \A i \in DataIn(g) : i \in DataIn(h) \/ i = n
  <2>1. Added(g, h, r)
    BY <1>1, <1>2, RecordAdded
  <2> QED BY <1>1, <1>2, <2>1 DEF n, Added
<1>4. AddressIn(g, n) = Joined(up, r.low)
  BY <1>3 DEF AddressIn
<1>5. ASSUME NEW i \in DataIn(g)
      PROVE  GoodData(AddressIn(g, i), g[i].section, g[i].from, g[i].len)
  <2>1. CASE i = n
    BY <1>3, <1>4, <2>1 DEF DataFits
  <2>2. CASE i \in DataIn(h)
    BY <1>3, <2>2 DEF HexGood
  <2> QED BY <1>3, <2>1, <2>2
<1>6. HexBytes(g) = HexBytes(h) \cup new
  <2>1. ASSUME NEW x, x \in HexBytes(g) PROVE x \in HexBytes(h) \cup new
    <3>1. PICK i \in DataIn(g) : x \in Bytes(AddressIn(g, i), g[i].section, g[i].from, g[i].len)
      BY <2>1 DEF HexBytes
    <3>2. CASE i = n
      BY <1>3, <1>4, <3>1, <3>2 DEF new
    <3>3. CASE i \in DataIn(h)
      <4>1. x \in Bytes(AddressIn(h, i), h[i].section, h[i].from, h[i].len)
        BY <1>3, <3>1, <3>3
      <4> QED BY <3>3, <4>1 DEF HexBytes
    <3> QED BY <1>3, <3>2, <3>3
  <2>2. ASSUME NEW x, x \in HexBytes(h) PROVE x \in HexBytes(g)
    <3>1. PICK i \in DataIn(h) : x \in Bytes(AddressIn(h, i), h[i].section, h[i].from, h[i].len)
      BY <2>2 DEF HexBytes
    <3>2. x \in Bytes(AddressIn(g, i), g[i].section, g[i].from, g[i].len) /\ i \in DataIn(g)
      BY <1>3, <3>1
    <3> QED BY <3>2 DEF HexBytes
  <2>3. ASSUME NEW x, x \in new PROVE x \in HexBytes(g)
    <3>1. x \in Bytes(AddressIn(g, n), g[n].section, g[n].from, g[n].len)
      BY <1>3, <1>4, <2>3 DEF new
    <3> QED BY <1>3, <3>1 DEF HexBytes
  <2> QED BY <2>1, <2>2, <2>3
<1> QED BY <1>3, <1>5, <1>6 DEF HexGood, new, DataBytes

-----------------------------------------------------------------------------
(* The inductive invariant. *)

(* What the split leaves on the list. *)
Stays(e) == e = Platform \/ e.section = PreInitCfg

Good(s) == s \in Seq(Entries) /\ \A i \in DOMAIN s : s[i] = Platform \/ AppEntry(s[i])

AllStay(s) == \A i \in DOMAIN s : Stays(s[i])
NoneStays(s) == \A i \in DOMAIN s : ~Stays(s[i])
InOrder(s) == \A i, j \in DOMAIN s : i < j /\ Stays(s[j]) => Stays(s[i])

HasPlatform(s) == \E i \in DOMAIN s : s[i] = Platform

NoHex == hex = <<>> /\ high = 0 /\ offset = 0

ListInv ==
  /\ Good(cgs) /\ InOrder(cgs) /\ HasPlatform(cgs)
  /\ todo \in Seq(SectionNames) /\ \A i \in DOMAIN todo : todo[i] \in ElfNames
  /\ \A i \in DOMAIN todo : todo[i] = PreInitCfg => i = 1 /\ AllStay(cgs)
  /\ InSeq(cgs) \cup InNames(todo) = InElf
  /\ ~moving /\ moved = <<>> /\ NoHex

SplitInv ==
  /\ direct
  /\ Good(cgs) /\ Good(moved) /\ Good(todo)
  /\ InOrder(todo) /\ (moving => NoneStays(todo))
  /\ AllStay(cgs) /\ NoneStays(moved)
  /\ HasPlatform(cgs) \/ HasPlatform(todo)
  /\ InSeq(cgs) \cup InSeq(moved) \cup InSeq(todo) = InElf
  /\ NoHex

(* The bytes of an entry from an offset on. *)
Rest(e, o) == Bytes(e.addr + o, e.section, e.from + o, e.len - o)

HexInv ==
  /\ direct
  /\ Good(cgs) /\ AllStay(cgs) /\ HasPlatform(cgs)
  /\ Good(todo) /\ NoneStays(todo)
  /\ HexGood(hex, high)
  /\ step = "address" => InSeq(cgs) \cup HexBytes(hex) \cup InSeq(todo) = InElf
  /\ step = "lines" =>
       /\ todo # <<>> /\ offset \in 0..Head(todo).len
       /\ high = (Head(todo).addr + offset) \div Segment
       /\ InSeq(cgs) \cup HexBytes(hex) \cup Rest(Head(todo), offset) \cup InSeq(Tail(todo)) = InElf

DoneInv ==
  /\ Good(cgs) /\ HasPlatform(cgs)
  /\ HexGood(hex, high)
  /\ (direct => AllStay(cgs)) /\ (~direct => hex = <<>>)
  /\ InSeq(cgs) \cup HexBytes(hex) = InElf

ImageInv ==
  /\ LinkInv
  /\ direct \in BOOLEAN /\ moving \in BOOLEAN
  /\ step \in {"link", "list", "split", "address", "lines", "done"}
  /\ step # "link" => links > 1 /\ pc = "linked"
  /\ step = "link" => ~moving /\ moved = <<>> /\ NoHex
  /\ step = "list" => ListInv
  /\ step = "split" => SplitInv
  /\ step \in {"address", "lines"} => HexInv
  /\ step = "done" => DoneInv

-----------------------------------------------------------------------------

(* Once the list is begun, sections stay where they are. *)
LEMMA Fixed ==
  ASSUME UNCHANGED <<linkVars, direct>>
  PROVE  /\ \A e : AppEntry(e)' <=> AppEntry(e)
         /\ \A s : Good(s)' <=> Good(s)
         /\ \A h, up : HexGood(h, up)' <=> HexGood(h, up)
         /\ \A s : InNames(s)' = InNames(s)
         /\ InElf' = InElf
<1>1. size' = size /\ at' = at /\ direct' = direct
  BY DEF linkVars
<1>2. \A s : AddressOf(s)' = AddressOf(s) /\ SizeOf(s)' = SizeOf(s)
  BY <1>1 DEF AddressOf, SizeOf
<1>3. \A s : Listed(s)' <=> Listed(s)
  BY <1>2 DEF Listed
<1>4. \A e : AppEntry(e)' <=> AppEntry(e)
  BY <1>1, <1>2, <1>3 DEF AppEntry
<1>5. \A s : Good(s)' <=> Good(s)
  BY <1>4 DEF Good
<1>6. \A a, s, f, l : GoodData(a, s, f, l)' <=> GoodData(a, s, f, l)
  BY <1>2, <1>3 DEF GoodData
<1>7. \A h, up : HexGood(h, up)' <=> HexGood(h, up)
  BY <1>6 DEF HexGood
<1>8. \A s : SectionBytes(s)' = SectionBytes(s)
  BY <1>2, <1>3 DEF SectionBytes
<1>9. \A s : InNames(s)' = InNames(s)
  BY <1>8 DEF InNames
<1>10. InElf' = InElf
  BY <1>2, <1>3 DEF InElf
<1> QED BY <1>4, <1>5, <1>7, <1>9, <1>10

LEMMA LinkFixed == LinkInv /\ UNCHANGED linkVars => LinkInv'
BY LinkInvNext

LEMMA LinkInvTyped == LinkInv => LinkTypeOK
BY DEF LinkInv

LEMMA InitImage == ImageInit => ImageInv
<1> SUFFICES ASSUME ImageInit PROVE ImageInv
  OBVIOUS
<1>1. LinkInv
  BY LinkInvInit DEF ImageInit
<1> QED BY <1>1 DEF ImageInit, ImageInv, NoHex

(* The list begins with the platform. *)
LEMMA GenCgsKeeps == ImageInv /\ GenCgs => ImageInv'
<1> SUFFICES ASSUME ImageInv, GenCgs PROVE ImageInv'
  OBVIOUS
<1>1. /\ UNCHANGED <<linkVars, direct>> /\ LinkInv' /\ direct \in BOOLEAN
      /\ links > 1 /\ pc = "linked" /\ links' = links /\ pc' = pc
      /\ step' = "list" /\ todo' = SortedOrder /\ cgs' = <<Platform>>
      /\ ~moving' /\ moving' = moving /\ moving \in BOOLEAN /\ moved' = <<>> /\ NoHex'
  BY LinkFixed DEF ImageInv, GenCgs, linkVars, NoHex
<1> DEFINE p == <<Platform>>
<1>2. p \in Seq(Entries) /\ Len(p) = 1 /\ DOMAIN p = {1} /\ p[1] = Platform
  <2>1. Platform \in Entries
    BY DEF Entries
  <2> QED BY <2>1, OneElement
<1> HIDE DEF p
<1>3. Good(p) /\ InOrder(p) /\ HasPlatform(p) /\ AllStay(p)
  BY <1>2 DEF Good, InOrder, HasPlatform, AllStay, Stays
<1>4. InSeq(p) = {}
  BY InOne, PlatformBytes DEF p
<1>5. /\ SortedOrder \in Seq(SectionNames)
      /\ \A i \in DOMAIN SortedOrder : SortedOrder[i] \in ElfNames
      /\ \A i \in DOMAIN SortedOrder : SortedOrder[i] = PreInitCfg => i = 1
      /\ InNames(SortedOrder) = InElf
  <2>1. /\ SortedOrder \in Seq(SectionNames) /\ DOMAIN SortedOrder = 1..Len(SortedOrder)
        /\ {SortedOrder[n] : n \in DOMAIN SortedOrder} = ElfNames
        /\ \A n \in 2..Len(SortedOrder) : SortedOrder[n] # PreInitCfg
    BY <1>1, SortedFacts
  <2>2. InNames(SortedOrder) = InElf
    BY <2>1, InElfOf
  <2>3. \A i \in DOMAIN SortedOrder : SortedOrder[i] = PreInitCfg => i = 1
    <3>1. Len(SortedOrder) \in Nat
      BY <2>1, LenProperties
    <3> QED BY <2>1, <3>1
  <2> QED BY <2>1, <2>2, <2>3
<1>6. ListInv'
  <2>1. Good(cgs)' /\ InOrder(cgs)' /\ HasPlatform(cgs)' /\ AllStay(cgs)'
    BY <1>1, <1>3, Fixed DEF p, InOrder, HasPlatform, AllStay
  <2>2. InSeq(cgs)' = {} /\ InNames(todo)' = InElf /\ InElf' = InElf
    BY <1>1, <1>4, <1>5, Fixed DEF p
  <2> QED BY <1>1, <1>5, <2>1, <2>2 DEF ListInv
<1> QED BY <1>1, <1>6 DEF ImageInv

(* A list of two good parts. *)
LEMMA GoodConcat ==
  ASSUME NEW s, NEW t, Good(s), Good(t)
  PROVE  /\ Good(s \o t) /\ InSeq(s \o t) = InSeq(s) \cup InSeq(t)
         /\ HasPlatform(s) \/ HasPlatform(t) => HasPlatform(s \o t)
         /\ AllStay(s) /\ AllStay(t) => AllStay(s \o t)
         /\ NoneStays(s) /\ NoneStays(t) => NoneStays(s \o t)
         /\ InOrder(s) /\ NoneStays(t) => InOrder(s \o t)
<1> DEFINE u == s \o t
           n == Len(s)
           m == Len(t)
<1>1. s \in Seq(Entries) /\ t \in Seq(Entries)
  BY DEF Good
<1>2. /\ n \in Nat /\ m \in Nat /\ DOMAIN s = 1..n /\ DOMAIN t = 1..m /\ DOMAIN u = 1..(n + m)
      /\ u \in Seq(Entries)
      /\ \A i \in 1..(n + m) : u[i] = IF i <= n THEN s[i] ELSE t[i - n]
  <2>1. /\ u \in Seq(Entries) /\ Len(u) = n + m
        /\ \A i \in 1..(n + m) : u[i] = IF i <= n THEN s[i] ELSE t[i - n]
    BY <1>1, ConcatProperties
  <2> QED BY <1>1, <2>1, LenProperties
<1>3. InSeq(u) = InSeq(s) \cup InSeq(t)
  BY <1>1, InConcat
<1> HIDE DEF u, n, m
<1>4. ASSUME NEW i \in DOMAIN u
      PROVE  \/ i \in DOMAIN s /\ u[i] = s[i]
             \/ i - n \in DOMAIN t /\ u[i] = t[i - n] /\ i > n
  BY <1>2
<1>5. Good(u)
  BY <1>2, <1>4 DEF Good
<1>6. /\ AllStay(s) /\ AllStay(t) => AllStay(u)
      /\ NoneStays(s) /\ NoneStays(t) => NoneStays(u)
  BY <1>4 DEF AllStay, NoneStays
<1>7. ASSUME InOrder(s), NoneStays(t) PROVE InOrder(u)
  <2> SUFFICES ASSUME NEW i \in DOMAIN u, NEW j \in DOMAIN u, i < j, Stays(u[j])
               PROVE  Stays(u[i])
    BY DEF InOrder
  <2>1. j \in DOMAIN s /\ u[j] = s[j]
    BY <1>4, <1>7 DEF NoneStays
  <2>2. i \in DOMAIN s /\ u[i] = s[i]
    BY <1>2, <2>1
  <2> QED BY <1>7, <2>1, <2>2 DEF InOrder
<1>8. ASSUME HasPlatform(s) PROVE HasPlatform(u)
  <2>1. \A i \in DOMAIN s : i \in DOMAIN u /\ u[i] = s[i]
    BY <1>2
  <2> QED BY <1>8, <2>1 DEF HasPlatform
<1>9. ASSUME HasPlatform(t) PROVE HasPlatform(u)
  <2>1. \A i \in DOMAIN t : i + n \in DOMAIN u /\ u[i + n] = t[i]
    BY <1>2
  <2> QED BY <1>9, <2>1 DEF HasPlatform
<1> QED BY <1>3, <1>5, <1>6, <1>7, <1>8, <1>9 DEF u

LEMMA GoodOne ==
  ASSUME NEW s, Good(s), NEW e, e = Platform \/ AppEntry(e)
  PROVE  /\ Good(<<e>>) /\ Append(s, e) = s \o <<e>> /\ InSeq(<<e>>) = EntryBytes(e)
         /\ e = Platform => HasPlatform(<<e>>)
         /\ Stays(e) => AllStay(<<e>>)
         /\ ~Stays(e) => NoneStays(<<e>>)
<1>1. e \in Entries /\ s \in Seq(Entries)
  BY DEF Entries, AppEntry, Good
<1>2. <<e>> \in Seq(Entries) /\ DOMAIN <<e>> = {1} /\ <<e>>[1] = e
  BY <1>1, OneElement
<1>3. Append(s, e) = s \o <<e>>
  BY <1>1, AppendIsConcat
<1>4. Good(<<e>>)
  BY <1>2 DEF Good
<1> QED BY <1>2, <1>3, <1>4, InOne DEF HasPlatform, AllStay, NoneStays

(* The head of a good list, and the rest. *)
LEMMA GoodTail ==
  ASSUME NEW s, Good(s), s # <<>>
  PROVE  /\ Head(s) = Platform \/ AppEntry(Head(s))
         /\ Good(Tail(s)) /\ InSeq(s) = EntryBytes(Head(s)) \cup InSeq(Tail(s))
         /\ InOrder(s) => InOrder(Tail(s))
         /\ InOrder(s) /\ ~Stays(Head(s)) => NoneStays(Tail(s))
         /\ NoneStays(s) => ~Stays(Head(s)) /\ NoneStays(Tail(s))
         /\ HasPlatform(s) => Head(s) = Platform \/ HasPlatform(Tail(s))
<1> DEFINE t == Tail(s)
<1>1. s \in Seq(Entries)
  BY DEF Good
<1>2. /\ Head(s) = s[1] /\ t \in Seq(Entries) /\ Len(s) \in Nat \ {0}
      /\ DOMAIN s = 1..Len(s) /\ DOMAIN t = 1..(Len(s) - 1)
      /\ \A i \in DOMAIN t : i + 1 \in DOMAIN s /\ t[i] = s[i + 1]
      /\ \A i \in DOMAIN s : i = 1 \/ (i - 1 \in DOMAIN t /\ s[i] = t[i - 1])
  BY <1>1, HeadAndTail
<1>3. InSeq(s) = EntryBytes(Head(s)) \cup InSeq(t)
  BY <1>1, InHeadTail
<1> HIDE DEF t
<1>4. 1 \in DOMAIN s /\ \A i \in DOMAIN t : 1 < i + 1 /\ i \in Nat
  BY <1>2
<1>5. Good(t) /\ (Head(s) = Platform \/ AppEntry(Head(s)))
  BY <1>2, <1>4 DEF Good
<1>6. ASSUME InOrder(s) PROVE InOrder(t)
  <2>1. \A i, j \in DOMAIN t : i < j => i + 1 < j + 1
    BY <1>2
  <2> QED BY <1>2, <1>6, <2>1 DEF InOrder
<1>7. ASSUME InOrder(s), ~Stays(Head(s)) PROVE NoneStays(t)
  BY <1>2, <1>4, <1>7 DEF InOrder, NoneStays
<1>8. ASSUME NoneStays(s) PROVE ~Stays(Head(s)) /\ NoneStays(t)
  BY <1>2, <1>4, <1>8 DEF NoneStays
<1>9. ASSUME HasPlatform(s) PROVE Head(s) = Platform \/ HasPlatform(t)
  BY <1>2, <1>9 DEF HasPlatform
<1> QED BY <1>3, <1>5, <1>6, <1>7, <1>8, <1>9 DEF t

LEMMA GoodEmpty ==
  /\ Good(<<>>) /\ InSeq(<<>>) = {} /\ AllStay(<<>>) /\ NoneStays(<<>>) /\ ~HasPlatform(<<>>)
<1>1. DOMAIN <<>> = {} /\ <<>> \in Seq(Entries)
  OBVIOUS
<1> QED BY <1>1, InEmpty DEF Good, AllStay, NoneStays, HasPlatform

-----------------------------------------------------------------------------

(* A section goes from what is still to be listed to the list.             *)
LEMMA ListSectionKeeps == ImageInv /\ ListSection => ImageInv'
<1> SUFFICES ASSUME ImageInv, ListSection PROVE ImageInv'
  OBVIOUS
<1> DEFINE s == Head(todo)
           new == [c \in 1..((SizeOf(s) + Chunk - 1) \div Chunk) |-> ChunkEntry(s, (c - 1) * Chunk)]
<1>1. /\ UNCHANGED <<linkVars, direct>> /\ LinkInv' /\ direct \in BOOLEAN /\ LinkTypeOK
      /\ links' > 1 /\ pc' = "linked"
      /\ step = "list" /\ step' = "list" /\ todo # <<>> /\ todo' = Tail(todo)
      /\ ~moving' /\ moving' \in BOOLEAN /\ moved' = <<>> /\ NoHex'
      /\ ListInv
  BY LinkFixed, LinkInvTyped DEF ImageInv, ListSection, ListInv, linkVars, NoHex
<1>2. IF Listed(s) THEN cgs' = cgs \o new ELSE cgs' = cgs
  BY DEF ListSection
<1>3. /\ s = todo[1] /\ todo' \in Seq(SectionNames)
      /\ DOMAIN todo = 1..Len(todo) /\ Len(todo) \in Nat \ {0} /\ DOMAIN todo' = 1..(Len(todo) - 1)
      /\ \A i \in DOMAIN todo' : i + 1 \in DOMAIN todo /\ todo'[i] = todo[i + 1]
      /\ InNames(todo) = SectionBytes(s) \cup InNames(todo')
  <2>1. todo \in Seq(SectionNames)
    BY <1>1 DEF ListInv
  <2> QED BY <1>1, <2>1, HeadAndTail, NamesHeadTail
<1>4. s \in ElfNames /\ (s = PreInitCfg => AllStay(cgs))
  BY <1>1, <1>3 DEF ListInv
<1>5. /\ \A i \in DOMAIN todo' : todo'[i] \in ElfNames
      /\ \A i \in DOMAIN todo' : todo'[i] # PreInitCfg
  <2>1. \A i \in DOMAIN todo' : i + 1 # 1
    BY <1>3
  <2> QED BY <1>1, <1>3, <2>1 DEF ListInv
<1>6. Good(cgs') /\ InOrder(cgs') /\ HasPlatform(cgs') /\ InSeq(cgs') = InSeq(cgs) \cup SectionBytes(s)
  <2>1. CASE ~Listed(s)
    <3>1. cgs' = cgs /\ SectionBytes(s) = {}
      BY <1>2, <2>1 DEF SectionBytes
    <3> QED BY <1>1, <3>1 DEF ListInv
  <2>2. CASE Listed(s)
    <3> HIDE DEF s
    <3>1. /\ new \in Seq(Entries) /\ InSeq(new) = SectionBytes(s)
          /\ \A c \in DOMAIN new : AppEntry(new[c]) /\ new[c].section = s
      BY <1>1, <1>4, <2>2, SectionInChunks
    <3> HIDE DEF new
    <3>2. Good(new) /\ Good(cgs) /\ InOrder(cgs) /\ HasPlatform(cgs) /\ cgs' = cgs \o new
      BY <1>1, <1>2, <2>2, <3>1 DEF Good, ListInv
    <3>3. \A c \in DOMAIN new : new[c] # Platform
      BY <3>1, PlatformIsNoEntry DEF AppEntry
    <3>4. CASE s = PreInitCfg
      <4>1. AllStay(new)
        BY <3>1, <3>4 DEF AllStay, Stays
      <4>2. AllStay(cgs') /\ InOrder(cgs')
        BY <1>4, <3>2, <3>4, <4>1, GoodConcat DEF AllStay, InOrder
      <4> QED BY <3>1, <3>2, <4>2, GoodConcat
    <3>5. CASE s # PreInitCfg
      <4>1. NoneStays(new)
        BY <3>1, <3>3, <3>5 DEF NoneStays, Stays
      <4> QED BY <3>1, <3>2, <4>1, GoodConcat
    <3> QED BY <3>4, <3>5
  <2> QED BY <2>1, <2>2
<1>7. ListInv'
  <2>1. Good(cgs)' /\ InNames(todo)' = InNames(todo') /\ InElf' = InElf
    BY <1>1, <1>6, Fixed
  <2>2. InSeq(cgs') \cup InNames(todo') = InElf
    BY <1>1, <1>3, <1>6 DEF ListInv
  <2> QED BY <1>1, <1>3, <1>5, <1>6, <2>1, <2>2 DEF ListInv
<1> QED BY <1>1, <1>7 DEF ImageInv

LEMMA StartSplitKeeps == ImageInv /\ StartSplit => ImageInv'
<1> SUFFICES ASSUME ImageInv, StartSplit PROVE ImageInv'
  OBVIOUS
<1>1. /\ UNCHANGED <<linkVars, direct>> /\ LinkInv' /\ direct \in BOOLEAN
      /\ links' > 1 /\ pc' = "linked"
      /\ step = "list" /\ todo = <<>>
      /\ ~moving /\ moving' = moving /\ moving \in BOOLEAN /\ moved' = <<>> /\ NoHex'
      /\ ListInv /\ direct' = direct /\ hex' = <<>> /\ high' = 0
  BY LinkFixed DEF ImageInv, StartSplit, ListInv, linkVars, NoHex
<1>2. InSeq(cgs) = InElf
  <2>1. InNames(<<>>) = {}
    BY DEF InNames
  <2> QED BY <1>1, <2>1 DEF ListInv
<1>3. CASE direct
  <2>1. step' = "split" /\ todo' = cgs /\ cgs' = <<>>
    BY <1>3 DEF StartSplit
  <2>2. Good(cgs') /\ Good(moved') /\ Good(todo')
    BY <1>1, <2>1, GoodEmpty DEF ListInv
  <2>3. Good(cgs)' /\ Good(moved)' /\ Good(todo)' /\ InElf' = InElf
    BY <1>1, <2>2, Fixed
  <2>4. /\ InOrder(todo') /\ AllStay(cgs') /\ NoneStays(moved') /\ HasPlatform(todo')
        /\ InSeq(cgs') \cup InSeq(moved') \cup InSeq(todo') = InElf
    BY <1>1, <1>2, <2>1, GoodEmpty DEF ListInv
  <2>5. SplitInv'
    BY <1>1, <1>3, <2>3, <2>4 DEF SplitInv
  <2> QED BY <1>1, <2>1, <2>5 DEF ImageInv
<1>4. CASE ~direct
  <2>1. step' = "done" /\ todo' = todo /\ cgs' = cgs
    BY <1>4 DEF StartSplit
  <2>2. Good(cgs) /\ HasPlatform(cgs) /\ HexGood(hex', high')
    BY <1>1, EmptyHex DEF ListInv
  <2>3. Good(cgs)' /\ HexGood(hex, high)' /\ InElf' = InElf
    BY <1>1, <2>1, <2>2, Fixed
  <2>4. InSeq(cgs') \cup HexBytes(hex') = InElf
    BY <1>1, <1>2, <2>1, EmptyHex
  <2>5. DoneInv'
    BY <1>1, <1>4, <2>1, <2>2, <2>3, <2>4 DEF DoneInv
  <2> QED BY <1>1, <2>1, <2>5 DEF ImageInv
<1> QED BY <1>3, <1>4

(* What is not moved is the platform or the configuration word.            *)
LEMMA MovesTheRest ==
  ASSUME direct, NEW e, e = Platform \/ AppEntry(e), moving => ~Stays(e)
  PROVE  Moves(e) <=> ~Stays(e)
<1>1. CASE e = Platform
  <2>1. e.how # "DIRECT_LOAD"
    BY <1>1 DEF Platform
  <2> QED BY <1>1, <2>1 DEF Moves, Stays
<1>2. CASE AppEntry(e)
  <2>1. e.how = "DIRECT_LOAD" /\ e # Platform
    BY <1>2, PlatformIsNoEntry DEF AppEntry
  <2> QED BY <2>1 DEF Moves, Stays
<1> QED BY <1>1, <1>2

(* An entry goes to one of the two lists.                                  *)
LEMMA SplitEntryKeeps == ImageInv /\ SplitEntry => ImageInv'
<1> SUFFICES ASSUME ImageInv, SplitEntry PROVE ImageInv'
  OBVIOUS
<1> DEFINE e == Head(todo)
<1>1. /\ UNCHANGED <<linkVars, direct>> /\ LinkInv' /\ direct \in BOOLEAN /\ direct' = direct
      /\ links' > 1 /\ pc' = "linked"
      /\ step = "split" /\ step' = "split" /\ todo # <<>> /\ todo' = Tail(todo)
      /\ SplitInv /\ direct /\ NoHex'
  BY LinkFixed DEF ImageInv, SplitEntry, SplitInv, linkVars, NoHex
<1>2. /\ moving' = Moves(e)
      /\ IF moving' THEN moved' = Append(moved, e) /\ cgs' = cgs
                    ELSE cgs' = Append(cgs, e) /\ moved' = moved
  BY DEF SplitEntry
<1>3. /\ Good(todo) /\ Good(cgs) /\ Good(moved) /\ InOrder(todo) /\ (moving => NoneStays(todo))
      /\ AllStay(cgs) /\ NoneStays(moved) /\ (HasPlatform(cgs) \/ HasPlatform(todo))
      /\ InSeq(cgs) \cup InSeq(moved) \cup InSeq(todo) = InElf
  BY <1>1 DEF SplitInv
<1>4. /\ e = Platform \/ AppEntry(e)
      /\ Good(todo') /\ InSeq(todo) = EntryBytes(e) \cup InSeq(todo')
      /\ InOrder(todo') /\ (~Stays(e) => NoneStays(todo')) /\ (moving => ~Stays(e))
      /\ HasPlatform(todo) => e = Platform \/ HasPlatform(todo')
  BY <1>1, <1>3, GoodTail
<1>5. moving' <=> ~Stays(e)
  BY <1>1, <1>2, <1>4, MovesTheRest
<1> HIDE DEF e
<1>6. moving' \in BOOLEAN
  BY <1>2 DEF Moves, ImageInv
<1>7. /\ Good(cgs') /\ Good(moved') /\ AllStay(cgs') /\ NoneStays(moved')
      /\ HasPlatform(cgs') \/ HasPlatform(todo')
      /\ InSeq(cgs') \cup InSeq(moved') \cup InSeq(todo') = InElf
  <2>1. CASE Stays(e)
    <3>1. cgs' = Append(cgs, e) /\ moved' = moved
      BY <1>2, <1>5, <2>1
    <3>2. /\ Good(<<e>>) /\ cgs' = cgs \o <<e>> /\ InSeq(<<e>>) = EntryBytes(e)
          /\ (e = Platform => HasPlatform(<<e>>)) /\ AllStay(<<e>>)
      BY <1>3, <1>4, <2>1, <3>1, GoodOne
    <3>3. /\ Good(cgs') /\ AllStay(cgs') /\ InSeq(cgs') = InSeq(cgs) \cup EntryBytes(e)
          /\ HasPlatform(cgs) \/ e = Platform => HasPlatform(cgs')
      BY <1>3, <3>2, GoodConcat
    <3> QED BY <1>3, <1>4, <3>1, <3>3
  <2>2. CASE ~Stays(e)
    <3>1. moved' = Append(moved, e) /\ cgs' = cgs
      BY <1>2, <1>5, <2>2
    <3>2. Good(<<e>>) /\ moved' = moved \o <<e>> /\ InSeq(<<e>>) = EntryBytes(e) /\ NoneStays(<<e>>)
      BY <1>3, <1>4, <2>2, <3>1, GoodOne
    <3>3. Good(moved') /\ NoneStays(moved') /\ InSeq(moved') = InSeq(moved) \cup EntryBytes(e)
      BY <1>3, <3>2, GoodConcat
    <3>4. e # Platform
      BY <2>2 DEF Stays
    <3> QED BY <1>3, <1>4, <3>1, <3>3, <3>4
  <2> QED BY <2>1, <2>2
<1>8. Good(cgs)' /\ Good(moved)' /\ Good(todo)' /\ InElf' = InElf
  BY <1>1, <1>4, <1>7, Fixed
<1>9. SplitInv'
  BY <1>1, <1>4, <1>5, <1>7, <1>8 DEF SplitInv
<1> QED BY <1>1, <1>6, <1>9 DEF ImageInv

LEMMA StartHexKeeps == ImageInv /\ StartHex => ImageInv'
<1> SUFFICES ASSUME ImageInv, StartHex PROVE ImageInv'
  OBVIOUS
<1>1. /\ UNCHANGED <<linkVars, direct>> /\ LinkInv' /\ direct \in BOOLEAN /\ direct' = direct
      /\ links' > 1 /\ pc' = "linked" /\ moving' \in BOOLEAN
      /\ step = "split" /\ step' = "address" /\ todo = <<>> /\ todo' = moved /\ cgs' = cgs
      /\ hex' = <<>> /\ high' = 0
      /\ SplitInv /\ direct
  BY LinkFixed DEF ImageInv, StartHex, SplitInv, linkVars, NoHex
<1>2. /\ Good(cgs) /\ Good(moved) /\ AllStay(cgs) /\ NoneStays(moved) /\ HasPlatform(cgs)
      /\ InSeq(cgs) \cup InSeq(moved) = InElf
  BY <1>1, GoodEmpty DEF SplitInv
<1>3. HexGood(hex', high') /\ HexBytes(hex') = {}
  BY <1>1, EmptyHex
<1>4. Good(cgs)' /\ Good(todo)' /\ HexGood(hex, high)' /\ InElf' = InElf
  BY <1>1, <1>2, <1>3, Fixed
<1>5. HexInv'
  BY <1>1, <1>2, <1>3, <1>4 DEF HexInv
<1> QED BY <1>1, <1>5 DEF ImageInv

-----------------------------------------------------------------------------

(* An address is its segment and the rest. *)
LEMMA SegmentOf ==
  ASSUME NEW a \in Int
  PROVE  /\ a \div Segment \in Int /\ a % Segment \in Int
         /\ Joined(a \div Segment, a % Segment) = a
<1> DEFINE c == Segment
<1>1. c \in Nat \ {0}
  BY ImageAssumption DEF ImageAssumption
<1> HIDE DEF c
<1>2. a \div c \in Int /\ a % c \in Int /\ (a \div c) * c + (a % c) = a
  BY <1>1
<1> QED BY <1>2 DEF c, Joined

(* A record with a new upper half, if one is needed. *)
LEMMA Reached ==
  ASSUME NEW h, NEW up, HexGood(h, up), NEW a \in Int,
         NEW r, r = IF a \div Segment = up THEN <<>>
                    ELSE <<[type |-> 4, upper |-> a \div Segment]>>
  PROVE  HexGood(h \o r, a \div Segment) /\ HexBytes(h \o r) = HexBytes(h)
<1>1. a \div Segment \in Int
  BY SegmentOf
<1> DEFINE to == a \div Segment
<1> HIDE DEF to
<1>2. CASE to = up
  <2>1. r = <<>> /\ h \in Seq(HexRecords)
    BY <1>2 DEF HexGood, to
  <2>2. h \o r = h
    BY <2>1, ConcatEmptySeq
  <2> QED BY <1>2, <2>2 DEF to
<1>3. CASE to # up
  <2>1. h \o r = h \o <<[type |-> 4, upper |-> to]>>
    BY <1>3 DEF to
  <2>2. HexGood(h \o r, to) /\ HexBytes(h \o r) = HexBytes(h)
    BY <1>1, <2>1, ExtendedAdded DEF to
  <2> QED BY <2>2 DEF to
<1> QED BY <1>2, <1>3

(* The bytes of an entry from the first one on, from one in the middle on, *)
(* and from its end on. *)
LEMMA RestAll ==
  ASSUME NEW e \in Entry
  PROVE  Rest(e, 0) = EntryBytes(e) /\ Rest(e, e.len) = {}
<1>1. e.addr \in Int /\ e.from \in Nat /\ e.len \in Nat
  BY DEF Entry
<1>2. Rest(e, 0) = EntryBytes(e)
  <2>1. e.addr + 0 = e.addr /\ e.from + 0 = e.from /\ e.len - 0 = e.len
    BY <1>1
  <2> QED BY <2>1, EntryBytesOf DEF Rest
<1>3. Rest(e, e.len) = {}
  <2>1. 0..(e.len - e.len - 1) = {}
    BY <1>1
  <2> QED BY <2>1 DEF Rest, Bytes
<1> QED BY <1>2, <1>3

LEMMA RestSplit ==
  ASSUME NEW e \in Entry, NEW o \in Nat, NEW l \in Nat, o + l <= e.len
  PROVE  Rest(e, o) = Bytes(e.addr + o, e.section, e.from + o, l) \cup Rest(e, o + l)
<1> DEFINE a == e.addr  f == e.from  n == e.len  s == e.section
<1>1. a \in Int /\ f \in Nat /\ n \in Nat /\ o + l <= n
  BY DEF Entry
<1> HIDE DEF a, f, n, s
<1>2. ASSUME NEW x, x \in Bytes(a + o, s, f + o, n - o)
      PROVE  x \in Bytes(a + o, s, f + o, l) \/ x \in Bytes(a + (o + l), s, f + (o + l), n - (o + l))
  <2>1. PICK j \in 0..(n - o - 1) : x = <<a + o + j, s, f + o + j>>
    BY <1>2, BytesMember
  <2>2. CASE j < l
    <3>1. j \in 0..(l - 1)
      BY <1>1, <2>2
    <3> QED BY <2>1, <3>1 DEF Bytes
  <2>3. CASE j >= l
    <3>1. /\ j - l \in 0..(n - (o + l) - 1)
          /\ a + o + j = a + (o + l) + (j - l) /\ f + o + j = f + (o + l) + (j - l)
      BY <1>1, <2>3
    <3> QED BY <2>1, <3>1 DEF Bytes
  <2> QED BY <1>1, <2>2, <2>3
<1>3. ASSUME NEW x, x \in Bytes(a + o, s, f + o, l)
      PROVE  x \in Bytes(a + o, s, f + o, n - o)
  <2>1. PICK j \in 0..(l - 1) : x = <<a + o + j, s, f + o + j>>
    BY <1>3, BytesMember
  <2>2. j \in 0..(n - o - 1)
    BY <1>1, <2>1
  <2> QED BY <2>1, <2>2 DEF Bytes
<1>4. ASSUME NEW x, x \in Bytes(a + (o + l), s, f + (o + l), n - (o + l))
      PROVE  x \in Bytes(a + o, s, f + o, n - o)
  <2>1. PICK j \in 0..(n - (o + l) - 1) : x = <<a + (o + l) + j, s, f + (o + l) + j>>
    BY <1>4, BytesMember
  <2>2. /\ j + l \in 0..(n - o - 1)
        /\ a + (o + l) + j = a + o + (j + l) /\ f + (o + l) + j = f + o + (j + l)
    BY <1>1, <2>1
  <2> QED BY <2>1, <2>2 DEF Bytes
<1>5. Bytes(a + o, s, f + o, n - o)
        = Bytes(a + o, s, f + o, l) \cup Bytes(a + (o + l), s, f + (o + l), n - (o + l))
  BY <1>2, <1>3, <1>4
<1> QED BY <1>5 DEF Rest, a, f, n, s

-----------------------------------------------------------------------------

(* What an entry that is turned into records knows about itself.           *)
LEMMA HexHead ==
  ASSUME ImageInv, step \in {"address", "lines"}, todo # <<>>
  PROVE  /\ HexInv /\ direct /\ Head(todo) \in Entry /\ AppEntry(Head(todo))
         /\ Head(todo).section # PreInitCfg
         /\ Head(todo).addr \in Int /\ Head(todo).from \in Nat /\ Head(todo).len \in Nat \ {0}
         /\ Head(todo).section \in SectionNames
         /\ Good(Tail(todo)) /\ NoneStays(Tail(todo))
         /\ InSeq(todo) = EntryBytes(Head(todo)) \cup InSeq(Tail(todo))
<1> DEFINE e == Head(todo)
<1>1. HexInv /\ Good(todo) /\ NoneStays(todo) /\ direct
  BY DEF ImageInv, HexInv
<1>2. /\ e = Platform \/ AppEntry(e)
      /\ Good(Tail(todo)) /\ InSeq(todo) = EntryBytes(e) \cup InSeq(Tail(todo))
      /\ ~Stays(e) /\ NoneStays(Tail(todo))
  BY <1>1, GoodTail
<1> HIDE DEF e
<1>3. AppEntry(e) /\ e \in Entry /\ e.section # PreInitCfg
  BY <1>2 DEF Stays, AppEntry
<1>4. e.addr \in Int /\ e.from \in Nat /\ e.len \in Nat \ {0} /\ e.section \in SectionNames
  BY <1>3 DEF Entry
<1> QED BY <1>1, <1>2, <1>3, <1>4 DEF e

LEMMA HexAddressKeeps == ImageInv /\ HexAddress => ImageInv'
<1> SUFFICES ASSUME ImageInv, HexAddress PROVE ImageInv'
  OBVIOUS
<1> DEFINE e == Head(todo)
<1>1. /\ UNCHANGED <<linkVars, direct>> /\ LinkInv' /\ direct \in BOOLEAN /\ direct' = direct
      /\ links' > 1 /\ pc' = "linked" /\ moving' \in BOOLEAN
      /\ step = "address" /\ step' = "lines" /\ todo # <<>> /\ todo' = todo /\ cgs' = cgs
      /\ offset' = 0 /\ high' = e.addr \div Segment /\ hex' = hex \o Reach(e.addr)
  BY LinkFixed DEF ImageInv, HexAddress, linkVars
<1>2. /\ HexInv /\ direct /\ e \in Entry /\ e.addr \in Int /\ e.len \in Nat \ {0}
      /\ InSeq(todo) = EntryBytes(e) \cup InSeq(Tail(todo))
  BY <1>1, HexHead
<1>3. /\ Good(cgs) /\ AllStay(cgs) /\ HasPlatform(cgs) /\ Good(todo) /\ NoneStays(todo)
      /\ HexGood(hex, high) /\ InSeq(cgs) \cup HexBytes(hex) \cup InSeq(todo) = InElf
  BY <1>1, <1>2 DEF HexInv
<1>4. HexGood(hex', high') /\ HexBytes(hex') = HexBytes(hex)
  BY <1>1, <1>2, <1>3, Reached DEF Reach
<1>5. Good(cgs)' /\ Good(todo)' /\ HexGood(hex, high)' /\ InElf' = InElf
  BY <1>1, <1>3, <1>4, Fixed
<1>6. Rest(e, 0) = EntryBytes(e)
  BY <1>2, RestAll
<1>7. /\ InSeq(cgs') \cup HexBytes(hex') \cup Rest(Head(todo'), offset') \cup InSeq(Tail(todo')) = InElf
      /\ offset' \in 0..Head(todo').len /\ high' = (Head(todo').addr + offset') \div Segment
  <2>1. InSeq(cgs') \cup HexBytes(hex') \cup Rest(Head(todo'), offset') \cup InSeq(Tail(todo')) = InElf
    BY <1>1, <1>2, <1>3, <1>4, <1>6
  <2>2. e.addr + 0 = e.addr /\ 0 \in 0..e.len
    BY <1>2
  <2> QED BY <1>1, <2>1, <2>2
<1>8. HexInv'
  BY <1>1, <1>2, <1>3, <1>5, <1>7 DEF HexInv
<1> QED BY <1>1, <1>8 DEF ImageInv

(* A line of bytes goes from what is still to be written to the records.   *)
LEMMA HexLineKeeps == ImageInv /\ HexLine => ImageInv'
<1> SUFFICES ASSUME ImageInv, HexLine PROVE ImageInv'
  OBVIOUS
<1> DEFINE e == Head(todo)
           rest == e.len - offset
           l == IF rest < Line THEN rest ELSE Line
           a == e.addr + offset
           f == e.from + offset
           r == Data(a % Segment, e, l)
           g == hex \o <<r>>
<1>1. /\ UNCHANGED <<linkVars, direct>> /\ LinkInv' /\ direct \in BOOLEAN /\ direct' = direct
      /\ links' > 1 /\ pc' = "linked" /\ moving' \in BOOLEAN
      /\ step = "lines" /\ step' = "lines" /\ todo' = todo /\ cgs' = cgs
      /\ offset < e.len
  BY LinkFixed DEF ImageInv, HexLine, linkVars
<1>2. HexInv /\ todo # <<>>
  BY <1>1 DEF ImageInv, HexInv
<1>3. /\ direct /\ e \in Entry /\ AppEntry(e) /\ e.section # PreInitCfg /\ e.section \in SectionNames
      /\ e.addr \in Int /\ e.from \in Nat /\ e.len \in Nat \ {0}
  BY <1>1, <1>2, HexHead
<1>4. /\ Good(cgs) /\ AllStay(cgs) /\ HasPlatform(cgs) /\ Good(todo) /\ NoneStays(todo)
      /\ HexGood(hex, high) /\ offset \in 0..e.len /\ high = a \div Segment
      /\ InSeq(cgs) \cup HexBytes(hex) \cup Rest(e, offset) \cup InSeq(Tail(todo)) = InElf
  BY <1>1, <1>2 DEF HexInv
<1>5. hex' = g \o Reach(a + l) /\ high' = (a + l) \div Segment /\ offset' = offset + l
  BY DEF HexLine, AfterLine
<1>6. /\ l \in Nat \ {0} /\ offset \in Nat /\ offset + l <= e.len /\ offset + l \in 0..e.len
      /\ a \in Int /\ a + l \in Int /\ f \in Nat /\ e.addr + (offset + l) = a + l
  <2> DEFINE n == e.len   b == e.addr   m == e.from
  <2>1. Line \in Nat \ {0} /\ n \in Nat /\ offset \in 0..n /\ offset < n /\ b \in Int /\ m \in Nat
    BY <1>1, <1>3, <1>4, ImageAssumption DEF ImageAssumption
  <2> HIDE DEF n, b, m
  <2> QED BY <2>1 DEF n, b, m
<1>7. /\ r \in HexData /\ r.low = a % Segment /\ r.section = e.section /\ r.from = f /\ r.len = l
      /\ Joined(high, r.low) = a
  <2>1. a % Segment \in Int /\ Joined(a \div Segment, a % Segment) = a
    BY <1>6, SegmentOf
  <2>2. r = [type |-> 0, low |-> a % Segment, section |-> e.section, from |-> f, len |-> l]
    BY DEF Data
  <2> HIDE DEF r, a, f, l
  <2>3. r \in HexData
    BY <1>3, <1>6, <2>1, <2>2 DEF HexData
  <2> QED BY <1>4, <2>1, <2>2, <2>3
<1>8. GoodData(a, e.section, f, l)
  <2>1. /\ e.section \in ElfNames /\ Listed(e.section) /\ e.addr = AddressOf(e.section) + e.from
        /\ e.from + e.len <= SizeOf(e.section)
    BY <1>3 DEF AppEntry
  <2>2. AddressOf(e.section) \in Int /\ SizeOf(e.section) \in Nat
    BY <2>1, ListedTyped, LinkInvTyped DEF ImageInv
  <2> DEFINE at0 == AddressOf(e.section)   n == SizeOf(e.section)
  <2>3. a = at0 + f /\ f + l <= n
    <3> DEFINE b == e.addr   m == e.from   len == e.len
    <3>1. /\ at0 \in Int /\ n \in Nat /\ b = at0 + m /\ m + len <= n
          /\ m \in Nat /\ len \in Nat /\ offset \in Nat /\ l \in Nat /\ offset + l <= len
          /\ a = b + offset /\ f = m + offset
      BY <1>3, <1>6, <2>1, <2>2
    <3> HIDE DEF b, m, len, at0, n, l, a, f
    <3> QED BY <3>1
  <2> HIDE DEF a, f, l
  <2> QED BY <1>3, <2>1, <2>3 DEF GoodData
<1> HIDE DEF r, a, f, l
<1>9. HexGood(g, high) /\ HexBytes(g) = HexBytes(hex) \cup Bytes(a, e.section, f, l)
  <2>1. DataFits(r, high)
    BY <1>7, <1>8 DEF DataFits
  <2>2. g = hex \o <<r>> /\ HexGood(hex, high)
    BY <1>4
  <2> HIDE DEF g
  <2>3. HexGood(g, high) /\ HexBytes(g) = HexBytes(hex) \cup DataBytes(r, high)
    BY <2>1, <2>2, DataAdded
  <2>4. DataBytes(r, high) = Bytes(a, e.section, f, l)
    BY <1>7 DEF DataBytes
  <2> QED BY <2>3, <2>4
<1> HIDE DEF g
<1>10. HexGood(hex', high') /\ HexBytes(hex') = HexBytes(g)
  BY <1>5, <1>6, <1>9, Reached DEF Reach
<1>11. Rest(e, offset) = Bytes(a, e.section, f, l) \cup Rest(e, offset + l)
  BY <1>3, <1>6, RestSplit DEF a, f
<1>12. Good(cgs)' /\ Good(todo)' /\ HexGood(hex, high)' /\ InElf' = InElf
  BY <1>1, <1>4, <1>10, Fixed
<1>13. /\ InSeq(cgs') \cup HexBytes(hex') \cup Rest(Head(todo'), offset') \cup InSeq(Tail(todo')) = InElf
       /\ offset' \in 0..Head(todo').len /\ high' = (Head(todo').addr + offset') \div Segment
  <2>1. InSeq(cgs) \cup HexBytes(hex') \cup Rest(e, offset + l) \cup InSeq(Tail(todo)) = InElf
    BY <1>4, <1>9, <1>10, <1>11
  <2> QED BY <1>1, <1>5, <1>6, <2>1
<1>14. HexInv'
  BY <1>1, <1>2, <1>3, <1>4, <1>12, <1>13 DEF HexInv
<1> QED BY <1>1, <1>14 DEF ImageInv

LEMMA HexNextKeeps == ImageInv /\ HexNext => ImageInv'
<1> SUFFICES ASSUME ImageInv, HexNext PROVE ImageInv'
  OBVIOUS
<1> DEFINE e == Head(todo)
<1>1. /\ UNCHANGED <<linkVars, direct>> /\ LinkInv' /\ direct \in BOOLEAN /\ direct' = direct
      /\ links' > 1 /\ pc' = "linked" /\ moving' \in BOOLEAN
      /\ step = "lines" /\ step' = "address" /\ todo' = Tail(todo) /\ cgs' = cgs
      /\ hex' = hex /\ high' = high /\ offset = e.len
  BY LinkFixed DEF ImageInv, HexNext, linkVars
<1>2. HexInv /\ todo # <<>>
  BY <1>1 DEF ImageInv, HexInv
<1>3. /\ direct /\ e \in Entry /\ Good(Tail(todo)) /\ NoneStays(Tail(todo))
  BY <1>1, <1>2, HexHead
<1>4. /\ Good(cgs) /\ AllStay(cgs) /\ HasPlatform(cgs) /\ HexGood(hex, high)
      /\ InSeq(cgs) \cup HexBytes(hex) \cup Rest(e, offset) \cup InSeq(Tail(todo)) = InElf
  BY <1>1, <1>2 DEF HexInv
<1>5. Rest(e, offset) = {}
  BY <1>1, <1>3, RestAll
<1>6. Good(cgs)' /\ Good(todo)' /\ HexGood(hex, high)' /\ InElf' = InElf
  BY <1>1, <1>3, <1>4, Fixed
<1>7. HexInv'
  BY <1>1, <1>3, <1>4, <1>5, <1>6 DEF HexInv
<1> QED BY <1>1, <1>7 DEF ImageInv

LEMMA HexEndKeeps == ImageInv /\ HexEnd => ImageInv'
<1> SUFFICES ASSUME ImageInv, HexEnd PROVE ImageInv'
  OBVIOUS
<1>1. /\ UNCHANGED <<linkVars, direct>> /\ LinkInv' /\ direct \in BOOLEAN /\ direct' = direct
      /\ links' > 1 /\ pc' = "linked" /\ moving' \in BOOLEAN
      /\ step = "address" /\ step' = "done" /\ todo = <<>> /\ cgs' = cgs
      /\ hex' = hex /\ high' = high /\ HexInv
  BY LinkFixed DEF ImageInv, HexEnd, linkVars
<1>2. /\ direct /\ Good(cgs) /\ AllStay(cgs) /\ HasPlatform(cgs) /\ HexGood(hex, high)
      /\ InSeq(cgs) \cup HexBytes(hex) = InElf
  BY <1>1, GoodEmpty DEF HexInv
<1>3. Good(cgs)' /\ HexGood(hex, high)' /\ InElf' = InElf
  BY <1>1, <1>2, Fixed
<1>4. DoneInv'
  BY <1>1, <1>2, <1>3 DEF DoneInv
<1> QED BY <1>1, <1>4 DEF ImageInv

LEMMA LinkStepKeeps == ImageInv /\ step = "link" /\ LinkNext /\ UNCHANGED listVars => ImageInv'
<1> SUFFICES ASSUME ImageInv, step = "link", LinkNext, UNCHANGED listVars PROVE ImageInv'
  OBVIOUS
<1>1. LinkInv'
  BY LinkInvNext DEF ImageInv
<1> QED BY <1>1 DEF ImageInv, listVars, NoHex

LEMMA StutterKeeps == ImageInv /\ UNCHANGED imageVars => ImageInv'
<1> SUFFICES ASSUME ImageInv, UNCHANGED imageVars PROVE ImageInv'
  OBVIOUS
<1>1. /\ UNCHANGED <<linkVars, direct>> /\ LinkInv' /\ UNCHANGED <<links, pc>>
      /\ UNCHANGED listVars
  BY LinkFixed DEF ImageInv, imageVars, linkVars, listVars
<1>2. /\ (Good(cgs)' <=> Good(cgs)) /\ (Good(moved)' <=> Good(moved))
      /\ (HexGood(hex, high)' <=> HexGood(hex, high)) /\ InElf' = InElf
      /\ InNames(todo)' = InNames(todo)
  BY <1>1, Fixed DEF listVars
<1>3. step' = step /\ (NoHex => NoHex')
  BY <1>1 DEF listVars, NoHex
<1>4. ListInv => ListInv'
  BY <1>1, <1>2, <1>3 DEF ListInv, listVars
<1>5. Good(todo)' <=> Good(todo)
  BY <1>1, Fixed DEF listVars
<1>6. SplitInv => SplitInv'
  BY <1>1, <1>2, <1>3, <1>5 DEF SplitInv, listVars
<1>7. HexInv => HexInv'
  BY <1>1, <1>2, <1>3, <1>5 DEF HexInv, listVars
<1>8. DoneInv => DoneInv'
  BY <1>1, <1>2, <1>3 DEF DoneInv, listVars
<1> QED BY <1>1, <1>3, <1>4, <1>6, <1>7, <1>8 DEF ImageInv, listVars

LEMMA ImageKeeps == ImageInv /\ [ImageNext]_imageVars => ImageInv'
BY GenCgsKeeps, ListSectionKeeps, StartSplitKeeps, SplitEntryKeeps, StartHexKeeps,
   HexAddressKeeps, HexLineKeeps, HexNextKeeps, HexEndKeeps, LinkStepKeeps, StutterKeeps
   DEF ImageNext

(* The inductive invariant: list, what is still to be done and records     *)
(* have the contents of the ELF file between them at every step.           *)
THEOREM ImageInductive == ImageSpec => []ImageInv
BY InitImage, ImageKeeps, PTL DEF ImageSpec

-----------------------------------------------------------------------------
(* The results. *)

LEMMA InCgsOf == InCgs = InSeq(cgs)
<1>1. ASSUME NEW x, x \in InCgs PROVE x \in InSeq(cgs)
  <2>1. PICK e \in {cgs[i] : i \in DOMAIN cgs} \ {Platform} : x \in Bytes(e.addr, e.section, e.from, e.len)
    BY <1>1 DEF InCgs
  <2>2. PICK i \in DOMAIN cgs : e = cgs[i]
    BY <2>1
  <2>3. x \in EntryBytes(cgs[i])
    BY <2>1, <2>2 DEF EntryBytes
  <2> QED BY <2>3 DEF InSeq
<1>2. ASSUME NEW x, x \in InSeq(cgs) PROVE x \in InCgs
  <2>1. PICK i \in DOMAIN cgs : x \in EntryBytes(cgs[i])
    BY <1>2 DEF InSeq
  <2>2. cgs[i] # Platform /\ x \in Bytes(cgs[i].addr, cgs[i].section, cgs[i].from, cgs[i].len)
    BY <2>1 DEF EntryBytes
  <2> QED BY <2>2 DEF InCgs
<1> QED BY <1>1, <1>2

(* Whatever the sections, their sizes and the sizes of chunk and line: a   *)
(* loader that has the files gen-cgs and the split have made writes every  *)
(* byte of the linked application, at its address, from one of them.       *)
THEOREM ImageIsWhole == ImageSpec => []ImageWhole
<1>1. ImageInv => ImageWhole
  <2> SUFFICES ASSUME ImageInv, step = "done"
               PROVE  InCgs \cup InHex = InElf /\ InCgs \cap InHex = {}
    BY DEF ImageWhole
  <2>1. DoneInv /\ direct \in BOOLEAN /\ InCgs = InSeq(cgs) /\ InHex = HexBytes(hex)
    BY InCgsOf, HexIs DEF ImageInv
  <2>2. InSeq(cgs) \cap HexBytes(hex) = {}
    <3>1. CASE ~direct
      BY <2>1, <3>1, EmptyHex DEF DoneInv
    <3>2. CASE direct
      <4> SUFFICES ASSUME NEW x, x \in InSeq(cgs), x \in HexBytes(hex) PROVE FALSE
        OBVIOUS
      <4>1. x[2] = PreInitCfg
        <5>1. PICK i \in DOMAIN cgs : x \in EntryBytes(cgs[i])
          BY DEF InSeq
        <5>2. Stays(cgs[i]) /\ cgs[i] # Platform
          BY <2>1, <3>2, <5>1 DEF DoneInv, AllStay, EntryBytes
        <5>3. x \in Bytes(cgs[i].addr, PreInitCfg, cgs[i].from, cgs[i].len)
          BY <5>1, <5>2 DEF Stays, EntryBytes
        <5> QED BY <5>3 DEF Bytes
      <4>2. x[2] # PreInitCfg
        <5>1. PICK i \in DataIn(hex) :
                x \in Bytes(AddressIn(hex, i), hex[i].section, hex[i].from, hex[i].len)
          BY DEF HexBytes
        <5>2. hex[i].section # PreInitCfg
          BY <2>1 DEF DoneInv, HexGood, GoodData
        <5>3. x[2] = hex[i].section
          BY <5>1 DEF Bytes
        <5> QED BY <5>2, <5>3
      <4> QED BY <4>1, <4>2
    <3> QED BY <2>1, <3>1, <3>2
  <2> QED BY <2>1, <2>2 DEF DoneInv
<1> QED BY <1>1, ImageInductive, PTL

(* The links are those of LinkLayout. *)
LEMMA ImageIsLinked == ImageSpec => []MovedBetween
<1>1. ImageInit => LinkInit
  BY DEF ImageInit
<1>2. [ImageNext]_imageVars => [LinkNext]_linkVars
  BY DEF ImageNext, imageVars, GenCgs, ListSection, StartSplit, SplitEntry, StartHex,
         HexAddress, HexLine, HexNext, HexEnd
<1>3. ImageSpec => LinkSpec
  BY <1>1, <1>2, PTL DEF ImageSpec, LinkSpec
<1> QED BY <1>3, MovedIsBetween, PTL

(* The HEX file of a direct-load image writes to the memory of the         *)
(* application only, and the records of the platform are not in it.        *)
THEOREM DirectLoadKeepsToApplication == ImageSpec => []DirectLoadIsApplication
<1>1. ImageInv /\ MovedBetween => DirectLoadIsApplication
  <2> SUFFICES ASSUME ImageInv, MovedBetween, step = "done"
               PROVE  /\ Platform \in {cgs[i] : i \in DOMAIN cgs}
                      /\ \A i \in DataRecords :
                           begin <= RecordAddress(i) /\ RecordAddress(i) + hex[i].len <= RamEnd
    BY DEF DirectLoadIsApplication
  <2>1. DoneInv /\ LinkTypeOK /\ links > 1 /\ pc = "linked"
    BY LinkInvTyped DEF ImageInv
  <2>2. Platform \in {cgs[i] : i \in DOMAIN cgs}
    BY <2>1 DEF DoneInv, HasPlatform
  <2>3. ASSUME NEW i \in DataRecords
        PROVE  begin <= RecordAddress(i) /\ RecordAddress(i) + hex[i].len <= RamEnd
    <3> DEFINE a == RecordAddress(i)   s == hex[i].section   f == hex[i].from   l == hex[i].len
    <3>1. i \in DataIn(hex) /\ GoodData(a, s, f, l) /\ hex[i] \in HexRecords /\ hex[i].type = 0
      <4>1. i \in DataIn(hex) /\ a = AddressIn(hex, i) /\ HexGood(hex, high)
        BY <2>1, HexIs DEF DoneInv
      <4>2. hex \in Seq(HexRecords) /\ i \in DOMAIN hex /\ hex[i].type = 0
        BY <4>1 DEF HexGood, DataIn
      <4>3. i \in 1..Len(hex)
        BY <4>2, LenProperties
      <4> QED BY <4>1, <4>2, <4>3, ElementOfSeq DEF HexGood
    <3>2. f \in Nat /\ l \in Nat
      BY <3>1 DEF HexRecords, HexData
    <3> HIDE DEF a, s, f, l
    <3>3. PICK n \in Index : AddressOf(s) = at[n] /\ SizeOf(s) = size[n]
      BY <2>1, <3>1, ListedTyped DEF GoodData
    <3>4. /\ a = at[n] + f /\ f + l <= size[n]
          /\ begin <= at[n] /\ at[n] + size[n] <= dot /\ dot < RamEnd
      BY <2>1, <3>1, <3>3 DEF GoodData, MovedBetween
    <3>5. at[n] \in Int /\ size[n] \in Nat /\ begin \in Int /\ dot \in Int /\ RamEnd \in Nat
      BY <2>1, LinkAssumption DEF LinkTypeOK, LinkAssumption
    <3>6. begin <= a /\ a + l <= RamEnd
      BY <3>2, <3>4, <3>5
    <3> QED BY <3>6 DEF a, l
  <2> QED BY <2>2, <2>3
<1> QED BY <1>1, ImageIsLinked, ImageInductive, PTL

-----------------------------------------------------------------------------
(* The order of entries and records: of the parts of one section, the      *)
(* earlier one ends before the later one begins.                           *)

Before(e, section, from) == e.section # section \/ e.from + e.len <= from

Follows(e, f) == e = Platform \/ f = Platform \/ Before(e, f.section, f.from)

Ordered(s) == \A i, j \in DOMAIN s : i < j => Follows(s[i], s[j])

AllBefore(s, t) == \A i \in DOMAIN s, j \in DOMAIN t : Follows(s[i], t[j])

HexOrdered(h) == \A i, j \in DataIn(h) : i < j => Before(h[i], h[j].section, h[j].from)

HexBefore(h, section, from) == \A i \in DataIn(h) : Before(h[i], section, from)

HexAllBefore(h, s) ==
  \A j \in DOMAIN s : s[j] = Platform \/ HexBefore(h, s[j].section, s[j].from)

Unlisted(list, s) == \A i \in DOMAIN list : list[i] = Platform \/ list[i].section # s

OrderInv ==
  /\ step = "list" =>
       /\ Ordered(cgs) /\ \A n \in DOMAIN todo : Unlisted(cgs, todo[n])
       /\ \A m, n \in DOMAIN todo : todo[m] = todo[n] => m = n
  /\ step = "split" => Ordered(moved) /\ Ordered(todo) /\ AllBefore(moved, todo)
  /\ step = "address" => Ordered(todo) /\ HexOrdered(hex) /\ HexAllBefore(hex, todo)
  /\ step = "lines" =>
       /\ Ordered(todo) /\ HexOrdered(hex) /\ HexAllBefore(hex, Tail(todo))
       /\ HexBefore(hex, Head(todo).section, Head(todo).from + offset)
  /\ step = "done" => HexOrdered(hex)

(* A list of two parts, and the rest of a list, are in order. *)
LEMMA OrderedConcat ==
  ASSUME NEW s \in Seq(Entries), NEW t \in Seq(Entries),
         Ordered(s), Ordered(t), AllBefore(s, t)
  PROVE  Ordered(s \o t)
<1> DEFINE u == s \o t   n == Len(s)   m == Len(t)
<1>1. /\ n \in Nat /\ m \in Nat /\ DOMAIN s = 1..n /\ DOMAIN t = 1..m /\ DOMAIN u = 1..(n + m)
      /\ \A i \in 1..(n + m) : u[i] = IF i <= n THEN s[i] ELSE t[i - n]
  <2>1. /\ u \in Seq(Entries) /\ Len(u) = n + m
        /\ \A i \in 1..(n + m) : u[i] = IF i <= n THEN s[i] ELSE t[i - n]
    BY ConcatProperties
  <2> QED BY <2>1, LenProperties
<1> HIDE DEF u, n, m
<1> SUFFICES ASSUME NEW i \in DOMAIN u, NEW j \in DOMAIN u, i < j PROVE Follows(u[i], u[j])
  BY DEF Ordered, u
<1>2. CASE j <= n
  <2>1. i \in DOMAIN s /\ j \in DOMAIN s /\ u[i] = s[i] /\ u[j] = s[j]
    BY <1>1, <1>2
  <2> QED BY <2>1 DEF Ordered
<1>3. CASE i <= n /\ j > n
  <2>1. i \in DOMAIN s /\ j - n \in DOMAIN t /\ u[i] = s[i] /\ u[j] = t[j - n]
    BY <1>1, <1>3
  <2> QED BY <2>1 DEF AllBefore
<1>4. CASE i > n
  <2>1. /\ i - n \in DOMAIN t /\ j - n \in DOMAIN t /\ i - n < j - n
        /\ u[i] = t[i - n] /\ u[j] = t[j - n]
    BY <1>1, <1>4
  <2> QED BY <2>1 DEF Ordered
<1> QED BY <1>1, <1>2, <1>3, <1>4

LEMMA OrderedTail ==
  ASSUME NEW s \in Seq(Entries), s # <<>>, Ordered(s)
  PROVE  /\ Ordered(Tail(s)) /\ \A j \in DOMAIN Tail(s) : Follows(Head(s), Tail(s)[j])
         /\ \A t : AllBefore(t, s) => AllBefore(t, Tail(s)) /\ \A i \in DOMAIN t : Follows(t[i], Head(s))
<1> DEFINE t == Tail(s)
<1>1. /\ Head(s) = s[1] /\ 1 \in DOMAIN s /\ DOMAIN s = 1..Len(s) /\ Len(s) \in Nat
      /\ \A i \in DOMAIN t : i \in Nat \ {0} /\ i + 1 \in DOMAIN s /\ t[i] = s[i + 1]
  BY HeadAndTail
<1> HIDE DEF t
<1>2. ASSUME NEW i \in DOMAIN t, NEW j \in DOMAIN t, i < j PROVE Follows(t[i], t[j])
  <2>1. i + 1 \in DOMAIN s /\ j + 1 \in DOMAIN s /\ i + 1 < j + 1
    BY <1>1, <1>2
  <2> QED BY <1>1, <2>1 DEF Ordered
<1>3. ASSUME NEW j \in DOMAIN t PROVE Follows(s[1], t[j])
  <2>1. j + 1 \in DOMAIN s /\ 1 < j + 1
    BY <1>1
  <2> QED BY <1>1, <2>1 DEF Ordered
<1> QED BY <1>1, <1>2, <1>3 DEF Ordered, AllBefore, t

LEMMA OrderedOne ==
  ASSUME NEW e \in Entries
  PROVE  /\ Ordered(<<e>>) /\ <<e>> \in Seq(Entries)
         /\ \A s : (\A i \in DOMAIN s : Follows(s[i], e)) => AllBefore(s, <<e>>)
<1>1. DOMAIN <<e>> = {1} /\ <<e>>[1] = e /\ <<e>> \in Seq(Entries)
  BY OneElement
<1> QED BY <1>1 DEF Ordered, AllBefore

(* The chunks of a section are in order. *)
LEMMA ChunksOrdered ==
  ASSUME LinkTypeOK, NEW s \in ElfNames, Listed(s),
         NEW list, list = [c \in 1..((SizeOf(s) + Chunk - 1) \div Chunk)
                             |-> ChunkEntry(s, (c - 1) * Chunk)]
  PROVE  Ordered(list) /\ \A c \in DOMAIN list : list[c].section = s
<1> DEFINE n == SizeOf(s)
           N == (n + Chunk - 1) \div Chunk
<1>1. n \in Nat \ {0} /\ Chunk \in Nat \ {0}
  BY ListedTyped, ImageAssumption DEF ImageAssumption
<1>2. /\ N \in Nat
      /\ \A d \in 1..N : (d - 1) * Chunk \in Nat /\ (d - 1) * Chunk < n
  <2> HIDE DEF n
  <2> QED BY <1>1, ChunkCount
<1>3. \A c \in DOMAIN list :
        /\ c \in 1..N /\ list[c].section = s /\ list[c].from = (c - 1) * Chunk
        /\ list[c].len = IF n - (c - 1) * Chunk > Chunk THEN Chunk ELSE n - (c - 1) * Chunk
  BY DEF ChunkEntry
<1> HIDE DEF n, N
<1>4. ASSUME NEW c \in DOMAIN list, NEW d \in DOMAIN list, c < d PROVE Follows(list[c], list[d])
  <2>1. c \in 1..N /\ d \in 1..N /\ (c - 1) * Chunk \in Nat /\ (d - 1) * Chunk \in Nat
    BY <1>2, <1>3
  <2>2. (c - 1) * Chunk + Chunk <= (d - 1) * Chunk
    <3>1. c - 1 \in Nat /\ d - 1 \in Nat /\ (c - 1) + 1 <= d - 1
      BY <1>2, <1>4, <2>1
    <3>2. \A x, y \in Nat : x + 1 <= y => x * Chunk + Chunk <= y * Chunk
      <4>1. \A x, y, z \in Nat : x + 1 <= y => x * z + z <= y * z
        OBVIOUS
      <4> QED BY <1>1, <4>1
    <3> QED BY <3>1, <3>2
  <2> DEFINE a == (c - 1) * Chunk   b == (d - 1) * Chunk
  <2>3. /\ list[c].section = s /\ list[d].section = s /\ list[c].from = a /\ list[d].from = b
        /\ list[c].len = IF n - a > Chunk THEN Chunk ELSE n - a
        /\ a \in Nat /\ b \in Nat /\ a + Chunk <= b
    BY <1>3, <2>1, <2>2
  <2> HIDE DEF a, b
  <2>4. list[c].from + list[c].len <= list[d].from
    BY <1>1, <2>3
  <2> QED BY <2>4 DEF Follows, Before
<1> QED BY <1>3, <1>4 DEF Ordered

LEMMA OrderGenCgs == ImageInv /\ OrderInv /\ GenCgs => OrderInv'
<1> SUFFICES ASSUME ImageInv, GenCgs PROVE OrderInv'
  OBVIOUS
<1>1. step' = "list" /\ todo' = SortedOrder /\ cgs' = <<Platform>> /\ direct \in BOOLEAN
  BY DEF GenCgs, ImageInv
<1>2. \A m, n \in DOMAIN SortedOrder : SortedOrder[m] = SortedOrder[n] => m = n
  BY <1>1, SortedFacts
<1>3. DOMAIN <<Platform>> = {1} /\ <<Platform>>[1] = Platform
  OBVIOUS
<1>4. Ordered(cgs') /\ \A i \in DOMAIN cgs' : cgs'[i] = Platform
  BY <1>1, <1>3 DEF Ordered
<1> QED BY <1>1, <1>2, <1>4 DEF OrderInv, Unlisted

(* A section is listed once, in order. *)
LEMMA OrderListSection == ImageInv /\ OrderInv /\ ListSection => OrderInv'
<1> SUFFICES ASSUME ImageInv, OrderInv, ListSection PROVE OrderInv'
  OBVIOUS
<1> DEFINE s == Head(todo)
           new == [c \in 1..((SizeOf(s) + Chunk - 1) \div Chunk) |-> ChunkEntry(s, (c - 1) * Chunk)]
<1>1. /\ step = "list" /\ step' = "list" /\ todo # <<>> /\ todo' = Tail(todo)
      /\ ListInv /\ LinkTypeOK /\ direct \in BOOLEAN
      /\ IF Listed(s) THEN cgs' = cgs \o new ELSE cgs' = cgs
  BY LinkInvTyped DEF ImageInv, ListSection
<1>2. /\ Ordered(cgs) /\ \A n \in DOMAIN todo : Unlisted(cgs, todo[n])
      /\ \A m, n \in DOMAIN todo : todo[m] = todo[n] => m = n
  BY <1>1 DEF OrderInv
<1>3. /\ s = todo[1] /\ 1 \in DOMAIN todo
      /\ \A i \in DOMAIN todo' : i + 1 \in DOMAIN todo /\ todo'[i] = todo[i + 1] /\ i + 1 # 1 /\ i \in Int
      /\ s \in ElfNames
  <2>1. todo \in Seq(SectionNames)
    BY <1>1 DEF ListInv
  <2>2. /\ s = todo[1] /\ 1 \in DOMAIN todo /\ DOMAIN todo' = 1..(Len(todo) - 1)
        /\ \A i \in DOMAIN todo' : i + 1 \in DOMAIN todo /\ todo'[i] = todo[i + 1]
    BY <1>1, <2>1, HeadAndTail
  <2>3. \A i \in DOMAIN todo' : i + 1 # 1 /\ i \in Int
    BY <2>2
  <2> QED BY <1>1, <2>2, <2>3 DEF ListInv
<1>4. /\ \A n \in DOMAIN todo' : Unlisted(cgs, todo'[n]) /\ todo'[n] # s
      /\ \A m, n \in DOMAIN todo' : todo'[m] = todo'[n] => m = n
  <2>1. ASSUME NEW m \in DOMAIN todo', NEW n \in DOMAIN todo', todo'[m] = todo'[n] PROVE m = n
    <3>1. m + 1 = n + 1
      BY <1>2, <1>3, <2>1
    <3> QED BY <1>3, <3>1
  <2> QED BY <1>2, <1>3, <2>1
<1> HIDE DEF s
<1>5. Ordered(cgs') /\ \A i \in DOMAIN cgs' : \/ i \in DOMAIN cgs /\ cgs'[i] = cgs[i]
                                              \/ cgs'[i].section = s
  <2>1. CASE ~Listed(s)
    BY <1>1, <1>2, <2>1
  <2>2. CASE Listed(s)
    <3>0. Ordered(new) /\ \A c \in DOMAIN new : new[c].section = s
      BY <1>1, <1>3, <2>2, ChunksOrdered
    <3>1. new \in Seq(Entries) /\ Ordered(new) /\ \A c \in DOMAIN new : new[c].section = s
      BY <1>1, <1>3, <2>2, <3>0, SectionInChunks DEF Good
    <3> HIDE DEF new
    <3>2. cgs \in Seq(Entries) /\ cgs' = cgs \o new
      BY <1>1, <2>2 DEF ListInv, Good
    <3>3. AllBefore(cgs, new)
      <4>1. Unlisted(cgs, s)
        BY <1>2, <1>3
      <4> QED BY <3>1, <4>1 DEF AllBefore, Follows, Before, Unlisted
    <3>4. Ordered(cgs')
      BY <1>2, <3>1, <3>2, <3>3, OrderedConcat
    <3>5. /\ DOMAIN cgs = 1..Len(cgs) /\ DOMAIN new = 1..Len(new) /\ Len(cgs) \in Nat /\ Len(new) \in Nat
          /\ DOMAIN cgs' = 1..(Len(cgs) + Len(new))
          /\ \A i \in 1..(Len(cgs) + Len(new)) : cgs'[i] = IF i <= Len(cgs) THEN cgs[i] ELSE new[i - Len(cgs)]
      <4>1. /\ cgs' \in Seq(Entries) /\ Len(cgs') = Len(cgs) + Len(new)
            /\ \A i \in 1..(Len(cgs) + Len(new)) :
                  cgs'[i] = IF i <= Len(cgs) THEN cgs[i] ELSE new[i - Len(cgs)]
        BY <3>1, <3>2, ConcatProperties
      <4> QED BY <3>1, <3>2, <4>1, LenProperties
    <3>6. ASSUME NEW i \in DOMAIN cgs'
          PROVE  (i \in DOMAIN cgs /\ cgs'[i] = cgs[i]) \/ cgs'[i].section = s
      <4>1. CASE i <= Len(cgs)
        BY <3>5, <4>1
      <4>2. CASE i > Len(cgs)
        <5>1. i - Len(cgs) \in DOMAIN new /\ cgs'[i] = new[i - Len(cgs)]
          BY <3>5, <4>2
        <5> QED BY <3>1, <5>1
      <4> QED BY <3>5, <4>1, <4>2
    <3> QED BY <3>4, <3>6
  <2> QED BY <2>1, <2>2
<1>6. \A n \in DOMAIN todo' : Unlisted(cgs', todo'[n])
  <2> SUFFICES ASSUME NEW n \in DOMAIN todo', NEW i \in DOMAIN cgs', cgs'[i] # Platform
               PROVE  cgs'[i].section # todo'[n]
    BY DEF Unlisted
  <2> QED BY <1>4, <1>5 DEF Unlisted
<1> QED BY <1>1, <1>4, <1>5, <1>6 DEF OrderInv

LEMMA OrderStartSplit == ImageInv /\ OrderInv /\ StartSplit => OrderInv'
<1> SUFFICES ASSUME ImageInv, OrderInv, StartSplit PROVE OrderInv'
  OBVIOUS
<1>1. /\ step = "list" /\ moved' = <<>> /\ hex' = <<>>
      /\ \/ step' = "split" /\ todo' = cgs
         \/ step' = "done"
  BY DEF ImageInv, StartSplit, ListInv, NoHex
<1>2. Ordered(cgs)
  BY <1>1 DEF OrderInv
<1>3. /\ Ordered(<<>>) /\ \A s : AllBefore(<<>>, s)
      /\ HexOrdered(<<>>)
  BY DEF Ordered, AllBefore, HexOrdered, DataIn
<1> QED BY <1>1, <1>2, <1>3 DEF OrderInv

LEMMA OrderSplitEntry == ImageInv /\ OrderInv /\ SplitEntry => OrderInv'
<1> SUFFICES ASSUME ImageInv, OrderInv, SplitEntry PROVE OrderInv'
  OBVIOUS
<1> DEFINE e == Head(todo)
<1>1. /\ step = "split" /\ step' = "split" /\ todo # <<>> /\ todo' = Tail(todo)
      /\ moved' = Append(moved, e) \/ moved' = moved
      /\ Ordered(moved) /\ Ordered(todo) /\ AllBefore(moved, todo)
      /\ moved \in Seq(Entries) /\ todo \in Seq(Entries)
  BY DEF ImageInv, SplitEntry, SplitInv, OrderInv, Good
<1>2. /\ Ordered(todo') /\ \A j \in DOMAIN todo' : Follows(e, todo'[j])
      /\ AllBefore(moved, todo') /\ \A i \in DOMAIN moved : Follows(moved[i], e)
  BY <1>1, OrderedTail
<1>3. e \in Entries
  BY <1>1, HeadAndTail
<1> HIDE DEF e
<1>4. CASE moved' = moved
  BY <1>1, <1>2, <1>4 DEF OrderInv
<1>5. CASE moved' = Append(moved, e)
  <2>1. moved' = moved \o <<e>>
    BY <1>1, <1>3, <1>5, AppendIsConcat
  <2>2. Ordered(<<e>>) /\ <<e>> \in Seq(Entries) /\ AllBefore(moved, <<e>>)
    BY <1>2, <1>3, OrderedOne
  <2>3. Ordered(moved')
    BY <1>1, <2>1, <2>2, OrderedConcat
  <2>4. \A i \in DOMAIN moved' : moved'[i] = e \/ (i \in DOMAIN moved /\ moved'[i] = moved[i])
    <3>1. /\ DOMAIN moved = 1..Len(moved) /\ Len(moved) \in Nat /\ DOMAIN moved' = 1..(Len(moved) + 1)
          /\ \A i \in 1..Len(moved) : moved'[i] = moved[i]
          /\ moved'[Len(moved) + 1] = e
      BY <1>1, <1>3, <1>5, AppendProperties, LenProperties
    <3> QED BY <3>1
  <2>5. AllBefore(moved', todo')
    BY <1>2, <2>4 DEF AllBefore
  <2> QED BY <1>1, <1>2, <2>3, <2>5 DEF OrderInv
<1> QED BY <1>1, <1>4, <1>5

LEMMA OrderStartHex == ImageInv /\ OrderInv /\ StartHex => OrderInv'
<1> SUFFICES ASSUME ImageInv, OrderInv, StartHex PROVE OrderInv'
  OBVIOUS
<1>1. /\ step' = "address" /\ todo' = moved /\ hex' = <<>> /\ Ordered(moved)
  BY DEF ImageInv, StartHex, SplitInv, NoHex, OrderInv
<1>2. HexOrdered(<<>>) /\ \A s : HexAllBefore(<<>>, s)
  BY DEF HexOrdered, HexAllBefore, HexBefore, DataIn
<1> QED BY <1>1, <1>2 DEF OrderInv

(* One record more, in order. *)
LEMMA OrderAdded ==
  ASSUME NEW h \in Seq(HexRecords), HexOrdered(h), NEW r \in HexRecords,
         r.type = 0 => HexBefore(h, r.section, r.from),
         NEW g, g = h \o <<r>>
  PROVE  /\ HexOrdered(g)
         /\ \A section, from :
              HexBefore(h, section, from) /\ (r.type = 0 => Before(r, section, from))
                => HexBefore(g, section, from)
<1> DEFINE n == Len(h) + 1
<1>1. /\ \A i \in DataIn(g) : (i \in DataIn(h) /\ g[i] = h[i]) \/ (i = n /\ r.type = 0)
      /\ g[n] = r
      /\ \A i \in DataIn(h) : i \in 1..Len(h)
      /\ Len(h) \in Nat
  <2>1. Added(g, h, r)
    BY RecordAdded
  <2>2. DOMAIN h = 1..Len(h) /\ Len(h) \in Nat
    BY LenProperties
  <2> QED BY <2>1, <2>2 DEF Added, DataIn
<1>2. ASSUME NEW i \in DataIn(g), NEW j \in DataIn(g), i < j
      PROVE  Before(g[i], g[j].section, g[j].from)
  <2>1. CASE j = n /\ r.type = 0
    <3>0. i # n
      BY <1>1, <1>2, <2>1
    <3>1. i \in DataIn(h) /\ g[i] = h[i]
      BY <1>1, <3>0
    <3> QED BY <1>1, <2>1, <3>1 DEF HexBefore
  <2>2. CASE j \in DataIn(h) /\ g[j] = h[j]
    <3>1. j \in 1..Len(h) /\ i # n
      BY <1>1, <1>2, <2>2
    <3>2. i \in DataIn(h) /\ g[i] = h[i]
      BY <1>1, <3>1
    <3> QED BY <1>2, <2>2, <3>2 DEF HexOrdered
  <2> QED BY <1>1, <2>1, <2>2
<1>3. ASSUME NEW section, NEW from, HexBefore(h, section, from), r.type = 0 => Before(r, section, from)
      PROVE  HexBefore(g, section, from)
  BY <1>1, <1>3 DEF HexBefore
<1> QED BY <1>2, <1>3 DEF HexOrdered

LEMMA OrderReached ==
  ASSUME NEW h \in Seq(HexRecords), HexOrdered(h), NEW a \in Int
  PROVE  /\ HexOrdered(h \o Reach(a))
         /\ \A section, from : HexBefore(h, section, from) => HexBefore(h \o Reach(a), section, from)
<1>1. CASE Reach(a) = <<>>
  <2>1. h \o Reach(a) = h
    BY <1>1, ConcatEmptySeq
  <2> QED BY <2>1
<1>2. CASE Reach(a) # <<>>
  <2> DEFINE r == [type |-> 4, upper |-> a \div Segment]
  <2>1. Reach(a) = <<r>> /\ r.type # 0
    BY <1>2 DEF Reach
  <2>2. r \in HexRecords
    BY SegmentOf DEF HexRecords
  <2> HIDE DEF r
  <2> QED BY <2>1, <2>2, OrderAdded
<1> QED BY <1>1, <1>2

LEMMA OrderHexAddress == ImageInv /\ OrderInv /\ HexAddress => OrderInv'
<1> SUFFICES ASSUME ImageInv, OrderInv, HexAddress PROVE OrderInv'
  OBVIOUS
<1> DEFINE e == Head(todo)
<1>1. /\ step = "address" /\ step' = "lines" /\ todo # <<>> /\ todo' = todo
      /\ offset' = 0 /\ hex' = hex \o Reach(e.addr)
      /\ Ordered(todo) /\ HexOrdered(hex) /\ HexAllBefore(hex, todo)
  BY DEF HexAddress, OrderInv
<1>2. e \in Entry /\ e.addr \in Int /\ e.from \in Nat /\ hex \in Seq(HexRecords) /\ todo \in Seq(Entries)
  BY <1>1, HexHead DEF HexInv, HexGood, Good
<1>3. /\ HexOrdered(hex')
      /\ \A section, from : HexBefore(hex, section, from) => HexBefore(hex', section, from)
  BY <1>1, <1>2, OrderReached
<1>4. /\ e = todo[1] /\ 1 \in DOMAIN todo
      /\ \A i \in DOMAIN Tail(todo) : i + 1 \in DOMAIN todo /\ Tail(todo)[i] = todo[i + 1]
  BY <1>1, <1>2, HeadAndTail
<1>5. e # Platform /\ e.from + 0 = e.from
  BY <1>2, PlatformIsNoEntry
<1>6. HexBefore(hex', e.section, e.from)
  BY <1>1, <1>3, <1>4, <1>5 DEF HexAllBefore
<1>7. HexAllBefore(hex', Tail(todo))
  BY <1>1, <1>3, <1>4 DEF HexAllBefore
<1> QED BY <1>1, <1>3, <1>5, <1>6, <1>7 DEF OrderInv

LEMMA OrderHexLine == ImageInv /\ OrderInv /\ HexLine => OrderInv'
<1> SUFFICES ASSUME ImageInv, OrderInv, HexLine PROVE OrderInv'
  OBVIOUS
<1> DEFINE e == Head(todo)
           rest == e.len - offset
           l == IF rest < Line THEN rest ELSE Line
           a == e.addr + offset
           f == e.from + offset
           r == Data(a % Segment, e, l)
           g == hex \o <<r>>
<1>1. /\ step = "lines" /\ step' = "lines" /\ todo' = todo /\ offset < e.len
      /\ Ordered(todo) /\ HexOrdered(hex) /\ HexAllBefore(hex, Tail(todo))
      /\ HexBefore(hex, e.section, f)
      /\ hex' = g \o Reach(a + l) /\ offset' = offset + l
  BY DEF HexLine, OrderInv, AfterLine
<1>2. /\ HexInv /\ todo # <<>> /\ hex \in Seq(HexRecords) /\ todo \in Seq(Entries) /\ offset \in 0..e.len
  BY <1>1 DEF ImageInv, HexInv, HexGood, Good
<1>3. /\ e \in Entry /\ e # Platform /\ e.section \in SectionNames
      /\ e.addr \in Int /\ e.from \in Nat /\ e.len \in Nat \ {0}
  BY <1>1, <1>2, HexHead, PlatformIsNoEntry
<1>4. /\ l \in Nat \ {0} /\ a \in Int /\ a + l \in Int /\ f \in Nat
      /\ f + l = e.from + (offset + l) /\ f + l <= e.from + e.len /\ e.from + e.len \in Nat
  <2> DEFINE n == e.len   b == e.addr   m == e.from
  <2>1. Line \in Nat \ {0} /\ n \in Nat /\ offset \in 0..n /\ offset < n /\ b \in Int /\ m \in Nat
    BY <1>1, <1>2, <1>3, ImageAssumption DEF ImageAssumption
  <2> HIDE DEF n, b, m
  <2> QED BY <2>1 DEF n, b, m
<1>5. /\ r \in HexRecords /\ r.section = e.section /\ r.from = f /\ r.len = l
  <2>1. a % Segment \in Int
    BY <1>4, SegmentOf
  <2>2. r = [type |-> 0, low |-> a % Segment, section |-> e.section, from |-> f, len |-> l]
    BY DEF Data
  <2> HIDE DEF r, a, f, l
  <2>3. r \in HexData
    BY <1>3, <1>4, <2>1, <2>2 DEF HexData
  <2> QED BY <2>2, <2>3 DEF HexRecords
<1> HIDE DEF r, a, f, l, g
<1>6. /\ HexOrdered(g)
      /\ \A section, from : HexBefore(hex, section, from) /\ Before(r, section, from)
                              => HexBefore(g, section, from)
  BY <1>1, <1>2, <1>5, OrderAdded DEF g
<1>7. g \in Seq(HexRecords)
  <2>1. <<r>> \in Seq(HexRecords)
    BY <1>5, OneElement
  <2> QED BY <1>2, <2>1, ConcatProperties DEF g
<1>8. /\ HexOrdered(hex')
      /\ \A section, from : HexBefore(g, section, from) => HexBefore(hex', section, from)
  BY <1>1, <1>4, <1>6, <1>7, OrderReached
<1>9. HexBefore(hex', e.section, f + l)
  <2>1. Before(r, e.section, f + l)
    BY <1>4, <1>5 DEF Before
  <2>2. HexBefore(hex, e.section, f + l)
    <3> SUFFICES ASSUME NEW i \in DataIn(hex), hex[i].section = e.section
                 PROVE  hex[i].from + hex[i].len <= f + l
      BY DEF HexBefore, Before
    <3>1. hex[i].from + hex[i].len <= f
      BY <1>1 DEF HexBefore, Before
    <3>2. hex[i].from \in Nat /\ hex[i].len \in Nat
      <4>1. i \in 1..Len(hex) /\ hex[i].type = 0
        BY <1>2, LenProperties DEF DataIn
      <4>2. hex[i] \in HexRecords
        BY <1>2, <4>1, ElementOfSeq
      <4> QED BY <4>1, <4>2 DEF HexRecords, HexData
    <3> QED BY <1>4, <3>1, <3>2
  <2> QED BY <1>6, <1>8, <2>1, <2>2
<1>10. HexAllBefore(hex', Tail(todo))
  <2> SUFFICES ASSUME NEW j \in DOMAIN Tail(todo), Tail(todo)[j] # Platform
               PROVE  HexBefore(hex', Tail(todo)[j].section, Tail(todo)[j].from)
    BY DEF HexAllBefore
  <2> DEFINE t == Tail(todo)[j]
  <2>1. HexBefore(hex, t.section, t.from)
    BY <1>1 DEF HexAllBefore
  <2>2. Follows(e, t)
    BY <1>1, <1>2, OrderedTail
  <2>3. Before(r, t.section, t.from)
    <3>1. CASE t.section # e.section
      BY <1>5, <3>1 DEF Before
    <3>2. CASE t.section = e.section
      <4>1. t.from \in Nat
        <5>1. t \in Entries
          <6>1. Tail(todo) \in Seq(Entries) /\ j \in 1..Len(Tail(todo))
            <7>1. Tail(todo) \in Seq(Entries)
              BY <1>2, HeadTailProperties
            <7> QED BY <7>1, LenProperties
          <6> QED BY <6>1, ElementOfSeq
        <5> QED BY <5>1 DEF Entries, Entry
      <4>2. e.from + e.len <= t.from
        BY <1>3, <2>2, <3>2 DEF Follows, Before
      <4> HIDE DEF e, t
      <4>3. f + l <= t.from
        BY <1>3, <1>4, <4>1, <4>2
      <4> QED BY <1>5, <4>3 DEF Before
    <3> QED BY <3>1, <3>2
  <2> QED BY <1>6, <1>8, <2>1, <2>3
<1> QED BY <1>1, <1>4, <1>8, <1>9, <1>10 DEF OrderInv

LEMMA OrderHexNext == ImageInv /\ OrderInv /\ HexNext => OrderInv'
<1> SUFFICES ASSUME ImageInv, OrderInv, HexNext PROVE OrderInv'
  OBVIOUS
<1>1. /\ step = "lines" /\ step' = "address" /\ todo' = Tail(todo) /\ hex' = hex
      /\ Ordered(todo) /\ HexOrdered(hex) /\ HexAllBefore(hex, Tail(todo))
  BY DEF HexNext, OrderInv
<1>2. todo # <<>> /\ todo \in Seq(Entries)
  BY <1>1 DEF ImageInv, HexInv, Good
<1> QED BY <1>1, <1>2, OrderedTail DEF OrderInv

LEMMA OrderKeeps == ImageInv /\ OrderInv /\ [ImageNext]_imageVars => OrderInv'
<1> SUFFICES ASSUME ImageInv, OrderInv, [ImageNext]_imageVars PROVE OrderInv'
  OBVIOUS
<1>1. CASE UNCHANGED listVars
  BY <1>1 DEF OrderInv, listVars
<1>2. CASE HexEnd
  BY <1>2 DEF HexEnd, OrderInv
<1> QED BY <1>1, <1>2, OrderGenCgs, OrderListSection, OrderStartSplit, OrderSplitEntry,
           OrderStartHex, OrderHexAddress, OrderHexLine, OrderHexNext
    DEF ImageNext, imageVars

LEMMA OrderInductive == ImageSpec => []OrderInv
<1>1. ImageInit => OrderInv
  BY DEF ImageInit, OrderInv
<1> QED BY <1>1, OrderKeeps, ImageInductive, PTL DEF ImageSpec

-----------------------------------------------------------------------------
(* The sections of the linked application, apart from one another. *)

Apart(a, m, b, n) == a + m <= b \/ b + n <= a

(* A layout has its sections one behind the other. *)
LEMMA LayoutAscends ==
  ASSUME LinkTypeOK, NEW off \in [Index -> Nat], Layout(off),
         NEW m \in Index, NEW n \in Index, m < n
  PROVE  off[m] + size[m] <= off[n]
<1>1. Index = 1..Last /\ Last \in Nat /\ \A j \in Index : Align[j] \in Alignments
  BY IndexFacts
<1>2. \A j \in Index : off[j] \in Nat /\ size[j] \in Nat
  BY LinkAssumption DEF LinkTypeOK, LinkAssumption
<1>3. ASSUME NEW j \in Index, j + 1 \in Index PROVE off[j] + size[j] <= off[j + 1]
  <2>1. off[j + 1] = AlignUp(off[j] + size[j], Align[j + 1])
    BY <1>3 DEF Layout
  <2>2. off[j] + size[j] \in Int /\ Align[j + 1] \in Alignments
    BY <1>1, <1>2, <1>3
  <2> QED BY <2>1, <2>2, AlignBounds
<1> DEFINE T == {i \in 1..(n - 1) : i >= m /\ (i = m \/ off[m] + size[m] <= off[i])}
<1>4. m \in T /\ T \in SUBSET (1..(n - 1)) /\ n - 1 \in Nat
  BY <1>1
<1>5. PICK i \in T : \A j \in T : j <= i
  <2> HIDE DEF T
  <2> QED BY <1>4, GreatestNumber
<1>6. i \in 1..(n - 1) /\ i \in Index /\ i + 1 \in Index /\ i + 1 > m /\ off[m] + size[m] <= off[i] + size[i]
  BY <1>1, <1>2, <1>5
<1>7. off[m] + size[m] <= off[i + 1]
  <2>1. off[i] + size[i] <= off[i + 1]
    BY <1>3, <1>6
  <2> DEFINE x == off[m]  y == size[m]  u == off[i]  v == size[i]  w == off[i + 1]
  <2>2. x \in Nat /\ y \in Nat /\ u \in Nat /\ v \in Nat /\ w \in Nat /\ x + y <= u + v /\ u + v <= w
    BY <1>2, <1>6, <2>1
  <2> HIDE DEF x, y, u, v, w
  <2>3. x + y <= w
    BY <2>2
  <2> QED BY <2>3 DEF x, y, w
<1>8. CASE i + 1 = n
  BY <1>7, <1>8
<1>9. CASE i + 1 # n
  <2>1. i + 1 \in 1..(n - 1) /\ i + 1 >= m
    BY <1>1, <1>6, <1>9
  <2>2. i + 1 \in T
    BY <1>7, <2>1
  <2> QED BY <1>5, <1>6, <2>2
<1> QED BY <1>8, <1>9

LEMMA SectionsApart ==
  ASSUME LinkInv, links > 1, pc = "linked",
         NEW s \in ElfNames, NEW t \in ElfNames, Listed(s), Listed(t),
         s # PreInitCfg, t # PreInitCfg, s # t
  PROVE  Apart(AddressOf(s), SizeOf(s), AddressOf(t), SizeOf(t))
<1>1. LinkTypeOK
  BY LinkInvTyped
<1>2. PICK off \in [Index -> Nat] : Layout(off) /\ Moved(off)
  BY DEF LinkInv, Mapped
<1>3. ASSUME NEW u \in ElfNames, Listed(u), u # PreInitCfg
      PROVE  /\ Number(u) \in Index /\ Names[Number(u)] = u
             /\ AddressOf(u) = Start + off[Number(u)] /\ SizeOf(u) = size[Number(u)]
  <2>1. u # ".log_section"
    BY <1>3 DEF Listed
  <2>2. \E n \in Index : Names[n] = u
    BY <1>3, <2>1, ElfFacts
  <2>3. Number(u) \in Index /\ Names[Number(u)] = u
    BY <2>2 DEF Number
  <2>4. SizeOf(u) = size[Number(u)] /\ AddressOf(u) = at[Number(u)]
    BY <1>3 DEF SizeOf, AddressOf
  <2> QED BY <1>2, <2>3, <2>4 DEF Moved
<1> DEFINE m == Number(s)   n == Number(t)
<1>4. m \in Index /\ n \in Index /\ m # n
  BY <1>3
<1> HIDE DEF m, n
<1>5. Index = 1..Last /\ Last \in Nat
  BY IndexFacts
<1>6. off[m] + size[m] <= off[n] \/ off[n] + size[n] <= off[m]
  <2>1. m < n \/ n < m
    BY <1>4, <1>5
  <2> QED BY <1>1, <1>2, <1>4, <2>1, LayoutAscends
<1>7. /\ off[m] \in Nat /\ off[n] \in Nat /\ size[m] \in Nat /\ size[n] \in Nat
      /\ Start \in Int
  BY <1>1, <1>4, StartFacts, LinkAssumption DEF LinkTypeOK, LinkAssumption
<1>8. /\ AddressOf(s) = Start + off[m] /\ SizeOf(s) = size[m]
      /\ AddressOf(t) = Start + off[n] /\ SizeOf(t) = size[n]
  BY <1>3 DEF m, n
<1> DEFINE x == off[m]  y == size[m]  u == off[n]  v == size[n]
<1>9. Apart(Start + x, y, Start + u, v)
  <2>1. x \in Nat /\ y \in Nat /\ u \in Nat /\ v \in Nat /\ Start \in Int /\ (x + y <= u \/ u + v <= x)
    BY <1>6, <1>7
  <2> HIDE DEF x, y, u, v
  <2> DEFINE z == Start
  <2> HIDE DEF z
  <2>2. z \in Int
    BY <2>1 DEF z
  <2>3. Apart(z + x, y, z + u, v)
    BY <2>1, <2>2 DEF Apart
  <2> QED BY <2>3 DEF z
<1> QED BY <1>8, <1>9

==============================================================================
