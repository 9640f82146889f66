----------------------------- MODULE SubDsProofs -----------------------------
(***************************************************************************)
(* Proofs about module SubDs.  The image stays whole while it is packed,   *)
(* because wiced-create-subds.pl only reads what the split has left.  The  *)
(* addresses for the signatures are sums of the lengths on the list.  The  *)
(* sections of the new HCD file survive each other: what the HEX records   *)
(* load is pairwise disjoint (module ImageProofs), so are the sections     *)
(* that records are joined to, and each begins with a whole word, so that  *)
(* the padding of one ends before the next begins.                         *)
(***************************************************************************)
EXTENDS SubDs, ImageProofs

-----------------------------------------------------------------------------
(* The packing. *)

(* wiced-create-subds.pl only reads what the split has left. *)
LEMMA PackingReads == SubSpec => ImageSpec
<1>1. SubInit => ImageInit
  BY DEF SubInit
<1>2. [\/ ImageNext /\ UNCHANGED subVars
       \/ step = "done" /\ SubNext /\ UNCHANGED imageVars]_<<imageVars, subVars>>
        => [ImageNext]_imageVars
  OBVIOUS
<1> QED BY <1>1, <1>2, PTL DEF SubSpec, ImageSpec

(* And so the image is whole when it is packed, and its direct-load part   *)
(* within the memory of the application. *)
THEOREM PackedIsWhole == SubSpec => [](ImageWhole /\ DirectLoadIsApplication)
BY PackingReads, ImageIsWhole, DirectLoadKeepsToApplication, PTL

-----------------------------------------------------------------------------
(* The addresses for the signatures. *)

(* The sum of the first few lengths, as a sum. *)
LEMMA SumOfFew ==
  ASSUME NEW s \in Seq(Nat), Len(s) \in 0..2
  PROVE  SumOf(s) = IF Len(s) = 0 THEN 0 ELSE IF Len(s) = 1 THEN s[1] ELSE s[1] + s[2]
<1> DEFINE f == [n \in 0..Len(s) |-> IF n = 0 THEN 0 ELSE IF n = 1 THEN s[1] ELSE s[1] + s[2]]
           Sums(h) == h = [n \in 0..Len(s) |-> IF n = 0 THEN 0 ELSE h[n - 1] + s[n]]
<1>1. Len(s) \in Nat /\ \A n \in 1..Len(s) : s[n] \in Nat
  BY LenProperties, ElementOfSeq
<1>2. Sums(f)
  BY <1>1
<1>3. Sums(CHOOSE h : Sums(h))
  BY <1>2
<1>4. SumOf(s) = (CHOOSE h : Sums(h))[Len(s)]
  BY DEF SumOf
<1> DEFINE g == CHOOSE h : Sums(h)
<1>5. g = [n \in 0..Len(s) |-> IF n = 0 THEN 0 ELSE g[n - 1] + s[n]]
  BY <1>3
<1> HIDE DEF f, g
<1>6. \A n \in 0..Len(s) : g[n] = IF n = 0 THEN 0 ELSE g[n - 1] + s[n]
  BY <1>5
<1>7. g[0] = 0
  BY <1>1, <1>6
<1>8. 1 <= Len(s) => g[1] = s[1]
  BY <1>1, <1>6, <1>7
<1>9. 2 <= Len(s) => g[2] = g[1] + s[2]
  BY <1>1, <1>6
<1>10. SumOf(s) = g[Len(s)]
  BY <1>4 DEF g
<1>11. CASE Len(s) = 0
  BY <1>7, <1>10, <1>11
<1>12. CASE Len(s) = 1
  BY <1>8, <1>10, <1>12
<1>13. CASE Len(s) = 2
  <2>1. SumOf(s) = g[2] /\ g[2] = g[1] + s[2] /\ g[1] = s[1]
    BY <1>8, <1>9, <1>10, <1>13
  <2> QED BY <1>13, <2>1
<1>14. Len(s) = 0 \/ Len(s) = 1 \/ Len(s) = 2
  OBVIOUS
<1> QED BY <1>11, <1>12, <1>13, <1>14

(* Where the SubDS of the secure part and of the firmware begin: nothing   *)
(* of the application comes before them, and their lengths are those of    *)
(* their files, which the padding leaves alone.                            *)
Begins(n) ==
  DsStart + R4Header + (IF n = 1 THEN 0 ELSE IF n = 2 THEN SecLen ELSE SecLen + FwLen)

SignedInv ==
  /\ appLen \in Nat
  /\ padded \in Seq(Nat) /\ sign \in Seq(Nat)
  /\ Len(padded) \in 0..3 /\ Len(sign) = Len(padded)
  /\ 1 <= Len(padded) => padded[1] = SecLen
  /\ 2 <= Len(padded) => padded[2] = FwLen
  /\ \A n \in 1..Len(padded) : sign[n] = Begins(n)
  /\ listed # <<>> =>
       /\ Len(padded) = 3
       /\ listed = <<SecLen, FwLen, SubHeader + padded[3]>>

(* A file of whole words is not padded. *)
LEMMA WholeWords ==
  /\ \A n \in Nat : PadUp(n) \in Nat
  /\ PadUp(SecLen) = SecLen /\ PadUp(FwLen) = FwLen
BY SubDsAssumption DEF SubDsAssumption, PadUp, PadSize, AlignSize

(* The next address is the end of the SubDS so far. *)
LEMMA SignsAtTheEnd ==
  ASSUME SignedInv, Len(padded) < 3
  PROVE  SignAddress(padded) = Begins(Len(padded) + 1)
<1>1. padded \in Seq(Nat) /\ Len(padded) \in 0..2
  BY DEF SignedInv
<1>2. SumOf(padded) = IF Len(padded) = 0 THEN 0
                      ELSE IF Len(padded) = 1 THEN padded[1] ELSE padded[1] + padded[2]
  BY <1>1, SumOfFew
<1>3. (1 <= Len(padded) => padded[1] = SecLen) /\ (2 <= Len(padded) => padded[2] = FwLen)
  BY DEF SignedInv
<1>4. SumOf(padded) = IF Len(padded) + 1 = 1 THEN 0
                      ELSE IF Len(padded) + 1 = 2 THEN SecLen ELSE SecLen + FwLen
  BY <1>1, <1>2, <1>3
<1> QED BY <1>4 DEF SignAddress, Begins

(* Parsing the file of a package. *)
LEMMA ParseBinKeeps == SignedInv /\ ParseBin => SignedInv'
<1> SUFFICES ASSUME SignedInv, ParseBin PROVE SignedInv'
  OBVIOUS
<1> DEFINE K == Len(padded) + 1   p == PadUp(FileLen(Pkgs[K]))
<1>1. Len(padded) \in 0..2 /\ K \in 1..3 /\ Len(Pkgs) = 3 /\ appLen \in Nat /\ listed = <<>>
  BY DEF ParseBin, SignedInv, Pkgs
<1>2. FileLen(Pkgs[K]) = IF K = 1 THEN SecLen ELSE IF K = 2 THEN FwLen ELSE appLen
  BY <1>1 DEF Pkgs, FileLen
<1>3. FileLen(Pkgs[K]) \in Nat
  BY <1>1, <1>2, SubDsAssumption DEF SubDsAssumption
<1>4. p \in Nat /\ (K = 1 => p = SecLen) /\ (K = 2 => p = FwLen)
  <2> DEFINE len == FileLen(Pkgs[K])
  <2>1. len \in Nat /\ (K = 1 => len = SecLen) /\ (K = 2 => len = FwLen)
    BY <1>2, <1>3
  <2>2. p = PadUp(len)
    OBVIOUS
  <2> HIDE DEF len, K, p
  <2> QED BY <2>1, <2>2, WholeWords
<1>5. SignAddress(padded) = Begins(K) /\ Begins(K) \in Nat
  BY <1>1, SignsAtTheEnd, SubDsAssumption DEF Begins, SubDsAssumption, R4Header
<1>6. /\ padded' = Append(padded, p) /\ sign' = Append(sign, Begins(K))
      /\ UNCHANGED <<appLen, listed>>
  BY <1>5 DEF ParseBin
<1> HIDE DEF p
<1>7. padded \in Seq(Nat) /\ sign \in Seq(Nat) /\ Len(sign) = Len(padded)
  BY DEF SignedInv
<1>8. /\ padded' \in Seq(Nat) /\ Len(padded') = K
      /\ \A n \in 1..K : padded'[n] = IF n = K THEN p ELSE padded[n]
  BY <1>1, <1>4, <1>6, <1>7
<1>9. /\ sign' \in Seq(Nat) /\ Len(sign') = K
      /\ \A n \in 1..K : sign'[n] = IF n = K THEN Begins(K) ELSE sign[n]
  BY <1>1, <1>5, <1>6, <1>7
<1>10. ASSUME NEW n \in 1..K PROVE sign'[n] = Begins(n)
  <2>1. n # K => n \in 1..Len(padded)
    BY <1>1
  <2>2. n # K => sign[n] = Begins(n)
    BY <2>1 DEF SignedInv
  <2>3. sign'[n] = IF n = K THEN Begins(K) ELSE sign[n]
    BY <1>9
  <2> QED BY <2>2, <2>3
<1>11. (1 <= K => padded'[1] = SecLen) /\ (2 <= K => padded'[2] = FwLen)
  BY <1>1, <1>4, <1>8 DEF SignedInv
<1> QED BY <1>1, <1>6, <1>8, <1>9, <1>10, <1>11 DEF SignedInv, Begins

(* Nothing else touches what has been parsed. *)
LEMMA SignedKeeps ==
  SignedInv /\ [SubNext]_<<imageVars, subVars>> => SignedInv'
<1> SUFFICES ASSUME SignedInv, [SubNext]_<<imageVars, subVars>> PROVE SignedInv'
  OBVIOUS
<1>1. CASE UNCHANGED <<appLen, padded, sign, listed>>
  BY <1>1 DEF SignedInv, Begins
<1>2. CASE StartSubDs
  BY <1>2, SubDsAssumption DEF StartSubDs, SignedInv, Begins, SubDsAssumption
<1>3. CASE ParseBin
  BY <1>3, ParseBinKeeps
<1>4. CASE CreateSubDs
  BY <1>4 DEF CreateSubDs, Pkgs, SignedInv, Begins
<1>5. CASE ParseRecord \/ ParsedFw \/ StartHcd
  BY <1>1, <1>5 DEF ParseRecord, ParsedFw, StartHcd
<1>6. ASSUME NEW pkg \in {"FW", "APP"},
             WriteDs(pkg) \/ WrittenSections(pkg) \/ \E n \in left : WriteSection(pkg, n)
      PROVE  SignedInv'
  BY <1>1, <1>6 DEF WriteDs, WrittenSections, WriteSection
<1>7. CASE UNCHANGED <<imageVars, subVars>>
  BY <1>1, <1>7 DEF subVars
<1> QED BY <1>2, <1>3, <1>4, <1>5, <1>6, <1>7 DEF SubNext

LEMMA SignedInductive == SubSpec => []SignedInv
<1>1. SubInit => SignedInv
  BY DEF SubInit, SignedInv
<1>2. SignedInv /\ [\/ ImageNext /\ UNCHANGED subVars
                    \/ step = "done" /\ SubNext /\ UNCHANGED imageVars]_<<imageVars, subVars>>
        => SignedInv'
  <2>1. SignedInv /\ UNCHANGED subVars => SignedInv'
    BY DEF SignedInv, Begins, subVars
  <2> QED BY <2>1, SignedKeeps
<1> QED BY <1>1, <1>2, PTL DEF SubSpec

(* Whatever the lengths of the three files: in the image every SubDS is    *)
(* where wiced-create-subds.pl has the signature made for.                 *)
THEOREM SignedAtItsPlace == SubSpec => []SignedWhereLoaded
<1>1. SignedInv => SignedWhereLoaded
  <2> SUFFICES ASSUME SignedInv, listed # <<>>, NEW n \in DOMAIN Pkgs
               PROVE  sign[n] = DsStart + R4Header + SumOf(SubSeq(listed, 1, n - 1))
    BY DEF SignedWhereLoaded
  <2>1. n \in 1..3 /\ sign[n] = Begins(n)
    BY DEF SignedInv, Pkgs
  <2>2. listed = <<SecLen, FwLen, SubHeader + padded[3]>>
    BY DEF SignedInv
  <2>3. SecLen \in Nat /\ FwLen \in Nat
    BY SubDsAssumption DEF SubDsAssumption
  <2>4. SubSeq(listed, 1, n - 1) \in Seq(Nat) /\ Len(SubSeq(listed, 1, n - 1)) = n - 1
        /\ \A i \in 1..(n - 1) : SubSeq(listed, 1, n - 1)[i] = listed[i]
    <3>1. padded \in Seq(Nat) /\ Len(padded) = 3
      BY DEF SignedInv
    <3>2. SubHeader + padded[3] \in Nat
      <4>1. 3 \in 1..Len(padded)
        BY <3>1
      <4>2. padded[3] \in Nat
        BY <3>1, <4>1, ElementOfSeq
      <4> QED BY <4>2 DEF SubHeader
    <3>3. listed \in Seq(Nat) /\ Len(listed) = 3
      BY <2>2, <2>3, <3>2
    <3>4. \A i \in 1..(n - 1) : listed[i] \in Nat
      <4>1. \A i \in 1..(n - 1) : i \in 1..Len(listed)
        BY <2>1, <3>3
      <4> QED BY <3>3, <4>1, ElementOfSeq
    <3>5. /\ SubSeq(listed, 1, n - 1) \in Seq(Nat)
          /\ Len(SubSeq(listed, 1, n - 1)) = IF 1 <= n - 1 THEN (n - 1) - 1 + 1 ELSE 0
          /\ \A i \in 1..((n - 1) - 1 + 1) : SubSeq(listed, 1, n - 1)[i] = listed[1 + i - 1]
      BY <2>1, <3>4, SubSeqProperties
    <3> HIDE DEF SignedInv
    <3> QED BY <2>1, <3>5
  <2>5. SumOf(SubSeq(listed, 1, n - 1))
          = IF n - 1 = 0 THEN 0
            ELSE IF n - 1 = 1 THEN SubSeq(listed, 1, n - 1)[1]
            ELSE SubSeq(listed, 1, n - 1)[1] + SubSeq(listed, 1, n - 1)[2]
    <3>1. n - 1 \in 0..2
      BY <2>1
    <3> QED BY <2>4, <3>1, SumOfFew
  <2>6. SumOf(SubSeq(listed, 1, n - 1)) = IF n = 1 THEN 0 ELSE IF n = 2 THEN SecLen ELSE SecLen + FwLen
    <3>1. listed[1] = SecLen /\ listed[2] = FwLen
      BY <2>2
    <3> QED BY <2>1, <2>4, <2>5, <3>1
  <2> QED BY <2>1, <2>6 DEF Begins
<1> QED BY <1>1, SignedInductive, PTL

-----------------------------------------------------------------------------
(* The records of the application. *)

PackNames == SectionNames \cup {"patch", "zero"}

HcdRecord == [addr : Nat, section : PackNames, from : Nat, len : Nat \ {0}]

RecordsApart(all) ==
  \A i, j \in DOMAIN all : i # j => Apart(all[i].addr, all[i].len, all[j].addr, all[j].len)

AppRecord(n) ==
  [addr |-> RecordAddress(n), section |-> hex[n].section, from |-> hex[n].from, len |-> hex[n].len]

NextApp(list, n) == IF hex[n].type # 0 THEN list ELSE Append(list, AppRecord(n))

(* The list as it grows with the records of the HEX file. *)
GrowsTo(f, n) == f[0] = <<>> /\ \A i \in 1..n : f[i] = NextApp(f[i - 1], i)

LEMMA AppRecordsGrow ==
  ASSUME hex \in Seq(HexRecords)
  PROVE  \E f : GrowsTo(f, Len(hex)) /\ AppRecords = f[Len(hex)]
<1> DEFINE N == Len(hex)
           S == {n \in 0..N : \E f : GrowsTo(f, n)}
           Eq(h) == h = [n \in 0..N |-> IF n = 0 THEN <<>>
                                        ELSE IF hex[n].type # 0 THEN h[n - 1]
                                        ELSE Append(h[n - 1],
                                               [addr |-> RecordAddress(n), section |-> hex[n].section,
                                                from |-> hex[n].from, len |-> hex[n].len])]
<1>1. N \in Nat
  OBVIOUS
<1> HIDE DEF N
<1>2. 0 \in S
  <2>1. GrowsTo([i \in {0} |-> <<>>], 0)
    BY DEF GrowsTo
  <2> QED BY <1>1, <2>1
<1>3. ASSUME NEW n \in 0..(N - 1), n \in S PROVE n + 1 \in S
  <2>1. PICK f : GrowsTo(f, n)
    BY <1>3
  <2> DEFINE g == [i \in 0..(n + 1) |-> IF i = n + 1 THEN NextApp(f[n], n + 1) ELSE f[i]]
  <2>2. n \in Nat /\ n + 1 \in 0..N
    BY <1>1
  <2>3. /\ g[n + 1] = NextApp(f[n], n + 1)
        /\ \A i \in 0..n : g[i] = f[i]
    BY <2>2
  <2> HIDE DEF g
  <2>4. \A i \in 1..(n + 1) : g[i] = NextApp(g[i - 1], i)
    <3> TAKE i \in 1..(n + 1)
    <3>1. CASE i = n + 1
      <4>1. i - 1 = n /\ n \in 0..n
        BY <2>2, <3>1
      <4> QED BY <2>3, <3>1, <4>1
    <3>2. CASE i # n + 1
      <4>1. i \in 1..n /\ i \in 0..n /\ i - 1 \in 0..n
        BY <2>2, <3>2
      <4> QED BY <2>1, <2>3, <4>1 DEF GrowsTo
    <3> QED BY <3>1, <3>2
  <2>5. g[0] = <<>>
    BY <2>1, <2>2, <2>3 DEF GrowsTo
  <2> QED BY <2>2, <2>4, <2>5 DEF GrowsTo
<1>4. N \in S
  <2>1. \A n \in 0..N : n \in S
    <3> HIDE DEF S
    <3> QED BY <1>1, <1>2, <1>3, UpTo
  <2> QED BY <1>1, <2>1
<1>5. PICK f : GrowsTo(f, N)
  BY <1>4
<1> DEFINE h == [n \in 0..N |-> f[n]]
<1>6. Eq(h)
  <2>1. \A n \in 0..N :
          f[n] = IF n = 0 THEN <<>>
                 ELSE IF hex[n].type # 0 THEN h[n - 1]
                 ELSE Append(h[n - 1], AppRecord(n))
    <3> TAKE n \in 0..N
    <3>1. CASE n = 0
      BY <1>5, <3>1 DEF GrowsTo
    <3>2. CASE n # 0
      <4>1. n \in 1..N /\ n - 1 \in 0..N
        BY <1>1, <3>2
      <4>2. f[n] = NextApp(f[n - 1], n) /\ h[n - 1] = f[n - 1]
        BY <1>5, <4>1 DEF GrowsTo
      <4> QED BY <3>2, <4>2 DEF NextApp
    <3> QED BY <3>1, <3>2
  <2> QED BY <2>1 DEF AppRecord
<1>7. Eq(CHOOSE e : Eq(e))
  <2> HIDE DEF Eq, h
  <2> QED BY <1>6
<1> DEFINE e == CHOOSE x : Eq(x)
<1>8. AppRecords = e[N]
  BY DEF AppRecords, N
<1>9. e = [n \in 0..N |-> IF n = 0 THEN <<>>
                          ELSE IF hex[n].type # 0 THEN e[n - 1]
                          ELSE Append(e[n - 1], AppRecord(n))]
  BY <1>7 DEF AppRecord
<1> HIDE DEF e
<1>10. \A n \in 0..N : e[n] = IF n = 0 THEN <<>>
                              ELSE IF hex[n].type # 0 THEN e[n - 1]
                              ELSE Append(e[n - 1], AppRecord(n))
  BY <1>9
<1>11. GrowsTo(e, N)
  <2>1. e[0] = <<>>
    BY <1>1, <1>10
  <2>2. ASSUME NEW i \in 1..N PROVE e[i] = NextApp(e[i - 1], i)
    <3>1. i \in 0..N /\ i # 0
      OBVIOUS
    <3> QED BY <1>10, <3>1 DEF NextApp
  <2> QED BY <2>1, <2>2 DEF GrowsTo
<1> QED BY <1>8, <1>11 DEF N

(* Every one of them is a data record of the HEX file, and none is there   *)
(* twice.                                                                  *)
From(list, n, m) ==
  /\ m \in [DOMAIN list -> 1..n]
  /\ \A i \in DOMAIN list : hex[m[i]].type = 0 /\ list[i] = AppRecord(m[i])
  /\ \A i, j \in DOMAIN list : m[i] = m[j] => i = j

LEMMA AppRecordsFrom ==
  ASSUME hex \in Seq(HexRecords),
         \A n \in DataIn(hex) : AppRecord(n) \in HcdRecord
  PROVE  AppRecords \in Seq(HcdRecord) /\ \E m : From(AppRecords, Len(hex), m)
<1> DEFINE N == Len(hex)
<1>1. N \in Nat /\ DOMAIN hex = 1..N
  BY LenProperties
<1>2. PICK f : GrowsTo(f, N) /\ AppRecords = f[N]
  BY AppRecordsGrow
<1> HIDE DEF N
<1> DEFINE S == {n \in 0..N : f[n] \in Seq(HcdRecord) /\ \E m : From(f[n], n, m)}
<1>3. 0 \in S
  <2>1. f[0] = <<>> /\ DOMAIN <<>> = {}
    BY <1>2 DEF GrowsTo
  <2>2. From(f[0], 0, [i \in {} |-> 0])
    BY <2>1 DEF From
  <2>3. f[0] \in Seq(HcdRecord)
    BY <2>1
  <2>4. 0 \in 0..N /\ \E m : From(f[0], 0, m)
    BY <1>1, <2>2
  <2> QED BY <2>3, <2>4
<1>4. ASSUME NEW n \in 0..(N - 1), n \in S PROVE n + 1 \in S
  <2>1. /\ n \in Nat /\ n + 1 \in 0..N /\ n + 1 \in 1..N /\ n + 1 \in DOMAIN hex
        /\ f[n + 1] = NextApp(f[n], n + 1) /\ f[n] \in Seq(HcdRecord)
    <3>1. n \in Nat /\ n + 1 \in 0..N /\ n + 1 \in 1..N /\ (n + 1) - 1 = n
      BY <1>1
    <3> QED BY <1>1, <1>2, <1>4, <3>1 DEF GrowsTo
  <2>2. PICK m : From(f[n], n, m)
    BY <1>4
  <2>3. CASE hex[n + 1].type # 0
    <3>1. f[n + 1] = f[n]
      BY <2>1, <2>3 DEF NextApp
    <3>2. From(f[n], n + 1, m)
      <4>1. 1..n \subseteq 1..(n + 1)
        BY <2>1
      <4> QED BY <2>2, <4>1 DEF From
    <3> QED BY <2>1, <3>1, <3>2
  <2>4. CASE hex[n + 1].type = 0
    <3> DEFINE l == f[n]   r == AppRecord(n + 1)   K == Len(l) + 1
               g == [i \in 1..K |-> IF i = K THEN n + 1 ELSE m[i]]
    <3>1. f[n + 1] = Append(l, r)
      BY <2>1, <2>4 DEF NextApp
    <3>2. r \in HcdRecord
      BY <2>1, <2>4 DEF DataIn
    <3>3. DOMAIN l = 1..(K - 1) /\ K \in Nat \ {0}
      BY <2>1, LenProperties
    <3> HIDE DEF r
    <3>4. /\ f[n + 1] \in Seq(HcdRecord) /\ DOMAIN f[n + 1] = 1..K
          /\ \A i \in 1..K : f[n + 1][i] = IF i = K THEN r ELSE l[i]
      <4>1. l \in Seq(HcdRecord)
        BY <2>1
      <4> HIDE DEF l
      <4>2. /\ f[n + 1] \in Seq(HcdRecord) /\ Len(f[n + 1]) = Len(l) + 1
            /\ \A i \in 1..Len(l) : f[n + 1][i] = l[i]
            /\ f[n + 1][Len(l) + 1] = r
        BY <3>1, <3>2, <4>1, AppendProperties
      <4>3. DOMAIN f[n + 1] = 1..Len(f[n + 1]) /\ Len(l) \in Nat
        BY <4>1, <4>2, LenProperties
      <4> QED BY <4>2, <4>3
    <3> HIDE DEF l, K
    <3>5. \A i \in DOMAIN l : m[i] \in 1..n /\ hex[m[i]].type = 0 /\ l[i] = AppRecord(m[i])
      BY <2>2 DEF From, l
    <3>6. \A i, j \in DOMAIN l : m[i] = m[j] => i = j
      BY <2>2 DEF From, l
    <3>7. g \in [1..K -> 1..(n + 1)]
      <4>1. \A i \in 1..K : i = K \/ i \in DOMAIN l
        BY <3>3
      <4>2. n + 1 \in 1..(n + 1) /\ \A j \in 1..n : j \in 1..(n + 1)
        BY <2>1
      <4>3. \A i \in 1..K : (IF i = K THEN n + 1 ELSE m[i]) \in 1..(n + 1)
        BY <3>5, <4>1, <4>2
      <4> QED BY <4>3
    <3>8. \A i \in 1..K : g[i] = IF i = K THEN n + 1 ELSE m[i]
      OBVIOUS
    <3> HIDE DEF g
    <3>9. ASSUME NEW i \in 1..K PROVE hex[g[i]].type = 0 /\ f[n + 1][i] = AppRecord(g[i])
      <4>1. CASE i = K
        BY <2>4, <3>4, <3>8, <4>1 DEF r
      <4>2. CASE i # K
        <5>1. i \in DOMAIN l
          BY <3>3, <4>2
        <5> QED BY <3>4, <3>5, <3>8, <4>2, <5>1
      <4> QED BY <4>1, <4>2
    <3>10. ASSUME NEW i \in 1..K, NEW j \in 1..K, g[i] = g[j] PROVE i = j
      <4>1. \A x \in 1..K : x = K \/ (x \in DOMAIN l /\ g[x] = m[x] /\ m[x] \in 1..n)
        BY <3>3, <3>5, <3>8
      <4>2. g[K] = n + 1 /\ n + 1 \notin 1..n
        BY <2>1, <3>3, <3>8
      <4> QED BY <3>6, <3>10, <4>1, <4>2
    <3>11. From(f[n + 1], n + 1, g)
      BY <3>4, <3>7, <3>9, <3>10 DEF From
    <3> QED BY <2>1, <3>4, <3>11
  <2> QED BY <2>3, <2>4
<1>5. N \in S
  <2>1. \A n \in 0..N : n \in S
    <3> HIDE DEF S
    <3> QED BY <1>1, <1>3, <1>4, UpTo
  <2> QED BY <1>1, <2>1
<1> QED BY <1>2, <1>5 DEF N

(* They are within the memory of the application, and write no byte twice. *)
LEMMA AppRecordsApart ==
  ASSUME ImageInv, OrderInv, MovedBetween, step = "done"
  PROVE  /\ AppRecords \in Seq(HcdRecord) /\ RecordsApart(AppRecords)
         /\ \A i \in DOMAIN AppRecords :
              FirstFree <= AppRecords[i].addr /\ AppRecords[i].addr + AppRecords[i].len <= RamEnd
<1>1. /\ DoneInv /\ LinkTypeOK /\ LinkInv /\ links > 1 /\ pc = "linked"
      /\ HexGood(hex, high) /\ hex \in Seq(HexRecords) /\ HexOrdered(hex)
  BY LinkInvTyped DEF ImageInv, DoneInv, HexGood, OrderInv
<1>2. /\ FirstFree \in Nat /\ RamEnd \in Nat /\ FirstFree <= begin
      /\ begin \in Int /\ dot \in Int /\ dot < RamEnd
  BY <1>1, LinkAssumption DEF LinkAssumption, MovedBetween, LinkTypeOK
<1>3. ASSUME NEW n \in DataIn(hex)
      PROVE  /\ GoodData(RecordAddress(n), hex[n].section, hex[n].from, hex[n].len)
             /\ hex[n].section \in SectionNames /\ hex[n].from \in Nat /\ hex[n].len \in Nat \ {0}
             /\ AddressOf(hex[n].section) \in Int /\ SizeOf(hex[n].section) \in Nat
             /\ RecordAddress(n) \in Nat /\ FirstFree <= RecordAddress(n)
             /\ RecordAddress(n) + hex[n].len <= RamEnd
  <2> DEFINE a == RecordAddress(n)   s == hex[n].section   f == hex[n].from   l == hex[n].len
  <2>1. GoodData(a, s, f, l)
    BY <1>1, HexIs DEF HexGood
  <2>2. s \in SectionNames /\ f \in Nat /\ l \in Nat \ {0}
    <3>1. n \in 1..Len(hex) /\ hex[n].type = 0
      BY <1>1, LenProperties DEF DataIn
    <3>2. hex[n] \in HexRecords
      BY <1>1, <3>1, ElementOfSeq
    <3> QED BY <3>1, <3>2 DEF HexRecords, HexData
  <2> HIDE DEF a, s, f, l
  <2>3. AddressOf(s) \in Int /\ SizeOf(s) \in Nat
    BY <1>1, <2>1, ListedTyped DEF GoodData
  <2>4. PICK i \in Index : AddressOf(s) = at[i] /\ SizeOf(s) = size[i]
    BY <1>1, <2>1, ListedTyped DEF GoodData
  <2>5. a = at[i] + f /\ f + l <= size[i] /\ begin <= at[i] /\ at[i] + size[i] <= dot
    BY <1>1, <2>1, <2>4 DEF GoodData, MovedBetween
  <2>6. at[i] \in Int /\ size[i] \in Nat
    BY <1>1, LinkAssumption DEF LinkTypeOK, LinkAssumption
  <2>7. a \in Nat /\ FirstFree <= a /\ a + l <= RamEnd
    BY <1>2, <2>2, <2>5, <2>6
  <2> QED BY <2>1, <2>2, <2>3, <2>7 DEF a, s, f, l
<1>4. \A n \in DataIn(hex) : AppRecord(n) \in HcdRecord
  BY <1>3 DEF AppRecord, HcdRecord, PackNames
<1>5. PICK m : From(AppRecords, Len(hex), m)
  BY <1>1, <1>4, AppRecordsFrom
<1>6. AppRecords \in Seq(HcdRecord)
  BY <1>1, <1>4, AppRecordsFrom
<1>7. ASSUME NEW i \in DOMAIN AppRecords
      PROVE  /\ m[i] \in DataIn(hex) /\ m[i] \in Nat
             /\ AppRecords[i].addr = RecordAddress(m[i])
             /\ AppRecords[i].len = hex[m[i]].len
  <2>1. m[i] \in 1..Len(hex) /\ hex[m[i]].type = 0 /\ AppRecords[i] = AppRecord(m[i])
    BY <1>5 DEF From
  <2>2. m[i] \in DataIn(hex)
    BY <1>1, <2>1, LenProperties DEF DataIn
  <2> QED BY <2>1, <2>2 DEF AppRecord
<1>8. ASSUME NEW i \in DataIn(hex), NEW j \in DataIn(hex), i \in Nat, j \in Nat, i # j
      PROVE  Apart(RecordAddress(i), hex[i].len, RecordAddress(j), hex[j].len)
  <2> DEFINE a == RecordAddress(i)   s == hex[i].section   f == hex[i].from   l == hex[i].len
             b == RecordAddress(j)   t == hex[j].section   g == hex[j].from   n == hex[j].len
  <2>1. /\ GoodData(a, s, f, l) /\ GoodData(b, t, g, n)
        /\ f \in Nat /\ l \in Nat /\ g \in Nat /\ n \in Nat
        /\ AddressOf(s) \in Int /\ SizeOf(s) \in Nat /\ AddressOf(t) \in Int /\ SizeOf(t) \in Nat
    BY <1>3
  <2>2. s = t => f + l <= g \/ g + n <= f
    <3>1. i < j \/ j < i
      BY <1>8
    <3> QED BY <1>1, <3>1 DEF HexOrdered, Before
  <2> HIDE DEF a, s, f, l, b, t, g, n
  <2>3. /\ a = AddressOf(s) + f /\ f + l <= SizeOf(s)
        /\ b = AddressOf(t) + g /\ g + n <= SizeOf(t)
    BY <2>1 DEF GoodData
  <2> DEFINE u == AddressOf(s)   v == SizeOf(s)   x == AddressOf(t)   y == SizeOf(t)
  <2>4. s # t => Apart(u, v, x, y)
    BY <1>1, <2>1, SectionsApart DEF GoodData
  <2>5. s = t => u = x
    OBVIOUS
  <2> HIDE DEF u, v, x, y
  <2>6. /\ a = u + f /\ f + l <= v /\ b = x + g /\ g + n <= y
        /\ u \in Int /\ v \in Nat /\ x \in Int /\ y \in Nat
    BY <2>1, <2>3 DEF u, v, x, y
  <2>7. s = t => Apart(a, l, b, n)
    BY <2>1, <2>2, <2>5, <2>6 DEF Apart
  <2>8. s # t => Apart(a, l, b, n)
    BY <2>1, <2>4, <2>6 DEF Apart
  <2>9. Apart(a, l, b, n)
    BY <2>7, <2>8
  <2> QED BY <2>9 DEF a, l, b, n
<1>9. RecordsApart(AppRecords)
  <2> SUFFICES ASSUME NEW i \in DOMAIN AppRecords, NEW j \in DOMAIN AppRecords, i # j
               PROVE  Apart(AppRecords[i].addr, AppRecords[i].len, AppRecords[j].addr, AppRecords[j].len)
    BY DEF RecordsApart
  <2>1. m[i] # m[j]
    BY <1>5 DEF From
  <2> QED BY <1>7, <1>8, <2>1
<1> QED BY <1>3, <1>6, <1>7, <1>9

-----------------------------------------------------------------------------
(* The sections that records are joined to. *)

Cells == PackNames \X Nat

Section == [addr : Nat, bytes : Seq(Cells)]

EndOf(s) == s.addr + Len(s.bytes)

Covers(s, r) ==
  /\ s.addr <= r.addr /\ End(r) <= EndOf(s)
  /\ \A j \in 0..(r.len - 1) :
       s.bytes[r.addr + j - s.addr + 1] = <<r.section, r.from + j>>

SectionsParted(list) ==
  \A m, n \in DOMAIN list :
    m # n => Apart(list[m].addr, Len(list[m].bytes), list[n].addr, Len(list[n].bytes))

Covered(list, all, K) ==
  /\ \A r \in 1..K : \E n \in DOMAIN list : Covers(list[n], all[r])
  /\ \A n \in DOMAIN list : \A a \in list[n].addr..(EndOf(list[n]) - 1) :
       \E r \in 1..K : a \in all[r].addr..(End(all[r]) - 1)

(* The sections have the bytes of the first K records and no others. *)
Joins(list, all, K) ==
  /\ K \in 0..Len(all)
  /\ list \in Seq(Section) /\ \A n \in DOMAIN list : Len(list[n].bytes) > 0
  /\ Covered(list, all, K)
  /\ SectionsParted(list)
  /\ K > 0 => list # <<>> /\ EndOf(list[Len(list)]) = End(all[K])
  /\ OnWords(all) => \A n \in DOMAIN list : list[n].addr % AlignSize = 0

LEMMA JoinsNothing ==
  ASSUME NEW all \in Seq(HcdRecord)
  PROVE  Joins(<<>>, all, 0)
<1>1. <<>> \in Seq(Section) /\ DOMAIN <<>> = {} /\ Len(all) \in Nat
  BY LenProperties
<1> QED BY <1>1 DEF Joins, Covered, SectionsParted

LEMMA BytesOfRecord ==
  ASSUME NEW r \in HcdRecord
  PROVE  /\ BytesOf(r) \in Seq(Cells) /\ Len(BytesOf(r)) = r.len
         /\ \A j \in 1..r.len : BytesOf(r)[j] = <<r.section, r.from + j - 1>>
<1> DEFINE n == r.len  s == r.section  f == r.from
<1>1. n \in Nat /\ s \in PackNames /\ f \in Nat
  BY DEF HcdRecord
<1>2. BytesOf(r) = [j \in 1..n |-> <<s, f + j - 1>>]
  BY DEF BytesOf
<1> HIDE DEF n, s, f
<1>3. \A j \in 1..n : <<s, f + j - 1>> \in Cells
  <2>1. \A j \in 1..n : f + j - 1 \in Nat
    BY <1>1
  <2> QED BY <1>1, <2>1 DEF Cells
<1> DEFINE b == [j \in 1..n |-> <<s, f + j - 1>>]
<1>4. b \in [1..n -> Cells]
  BY <1>3
<1>5. b \in Seq(Cells) /\ Len(b) = n
  <2> HIDE DEF b
  <2> QED BY <1>1, <1>4, FunctionIsSeq, LenProperties
<1>6. \A j \in 1..n : b[j] = <<s, f + j - 1>>
  OBVIOUS
<1> QED BY <1>2, <1>5, <1>6 DEF n, s, f

(* The last section gets the record: it begins where the section ends, or  *)
(* the section is a new one.                                               *)
Follower(s, r, t) ==
  /\ t.addr = s.addr /\ EndOf(s) = r.addr
  /\ \A i \in 1..Len(s.bytes) : t.bytes[i] = s.bytes[i]

Grown(new, list, r, N) ==
  /\ new \in Seq(Section) /\ N = Len(new) /\ N \in DOMAIN new
  /\ \A n \in DOMAIN list : n \in DOMAIN new
  /\ \A n \in DOMAIN new : n # N => n \in DOMAIN list /\ new[n] = list[n]
  /\ Covers(new[N], r) /\ EndOf(new[N]) = End(r)
  /\ \/ N \in DOMAIN list /\ N = Len(list) /\ Follower(list[N], r, new[N])
     \/ N \notin DOMAIN list /\ new[N].addr = r.addr /\ ~Continues(list, r)

LEMMA RecordJoins ==
  ASSUME NEW list \in Seq(Section), NEW r \in HcdRecord
  PROVE  \E N : Grown(WithRecord(list, r), list, r, N)
<1> DEFINE b == BytesOf(r)   new == WithRecord(list, r)   N == Len(list)
           a == r.addr   l == r.len   f == r.from   s == r.section
<1>1. /\ N \in Nat /\ DOMAIN list = 1..N /\ \A n \in 1..N : list[n] \in Section
      /\ (list # <<>> => N > 0)
  BY LenProperties, ElementOfSeq
<1>2. /\ b \in Seq(Cells) /\ Len(b) = l /\ \A j \in 1..l : b[j] = <<s, f + j - 1>>
      /\ a \in Nat /\ l \in Nat \ {0} /\ f \in Nat
  BY BytesOfRecord DEF HcdRecord
<1>3. End(r) = a + l /\ \A x : Covers(x, r) <=>
         /\ x.addr <= a /\ a + l <= EndOf(x)
         /\ \A j \in 0..(l - 1) : x.bytes[a + j - x.addr + 1] = <<s, f + j>>
  BY DEF End, Covers
<1>4. CASE Continues(list, r)
  <2> DEFINE last == list[N]   c == last.bytes   joined == [last EXCEPT !.bytes = c \o b]
  <2>1. /\ N \in 1..N /\ last \in Section /\ last.addr + Len(c) = a
        /\ new = [list EXCEPT ![N] = joined]
    BY <1>1, <1>4 DEF Continues, WithRecord
  <2>2. c \in Seq(Cells) /\ last.addr \in Nat /\ Len(c) \in Nat
    BY <2>1, LenProperties DEF Section
  <2>3. /\ c \o b \in Seq(Cells) /\ Len(c \o b) = Len(c) + l
        /\ \A i \in 1..(Len(c) + l) : (c \o b)[i] = IF i <= Len(c) THEN c[i] ELSE b[i - Len(c)]
    <3>1. b \in Seq(Cells) /\ Len(b) = l
      BY <1>2
    <3> HIDE DEF b, c, l
    <3>2. /\ c \o b \in Seq(Cells) /\ Len(c \o b) = Len(c) + Len(b)
          /\ \A i \in 1..(Len(c) + Len(b)) : (c \o b)[i] = IF i <= Len(c) THEN c[i] ELSE b[i - Len(c)]
      BY <2>2, <3>1, ConcatProperties
    <3> QED BY <3>1, <3>2
  <2>4. /\ joined \in Section /\ joined.addr = last.addr /\ joined.bytes = c \o b
    <3>1. DOMAIN last = {"addr", "bytes"}
      BY <2>1 DEF Section
    <3> HIDE DEF b, c
    <3> QED BY <2>1, <2>3, <3>1 DEF Section
  <2> HIDE DEF joined, b
  <2>5. /\ new \in Seq(Section) /\ DOMAIN new = 1..N /\ Len(new) = N /\ new[N] = joined
        /\ \A n \in 1..N : n # N => new[n] = list[n]
    <3>1. new \in [1..N -> Section]
      <4>1. list \in [1..N -> Section]
        BY <1>1
      <4> HIDE DEF new, N, last, c
      <4> QED BY <2>1, <2>4, <4>1
    <3>2. /\ new[N] = joined
          /\ \A n \in 1..N : n # N => new[n] = list[n]
      <4> HIDE DEF new, N, last, c
      <4> QED BY <1>1, <2>1
    <3> HIDE DEF new, N
    <3>3. new \in Seq(Section) /\ Len(new) = N
      BY <1>1, <3>1, FunctionIsSeq, LenProperties
    <3> QED BY <3>1, <3>2, <3>3
  <2>6. EndOf(joined) = a + l /\ joined.addr <= a
    <3> DEFINE x == last.addr  y == Len(c)
    <3>1. x \in Nat /\ y \in Nat /\ x + y = a /\ EndOf(joined) = x + (y + l) /\ joined.addr = x
      BY <2>1, <2>2, <2>3, <2>4 DEF EndOf
    <3> HIDE DEF x, y, a, l
    <3>2. EndOf(joined) = a + l /\ x <= a
      BY <1>2, <3>1
    <3> QED BY <3>1, <3>2
  <2>7. Covers(joined, r)
    <3>1. ASSUME NEW j \in 0..(l - 1)
          PROVE  joined.bytes[a + j - joined.addr + 1] = <<s, f + j>>
      <4> DEFINE x == last.addr  y == Len(c)  i == a + j - x + 1
      <4>1. i \in 1..(y + l) /\ ~(i <= y) /\ i - y = j + 1 /\ j + 1 \in 1..l /\ f + (j + 1) - 1 = f + j
        <5>1. x \in Nat /\ y \in Nat /\ x + y = a /\ l \in Nat /\ f \in Nat /\ j \in Nat
          BY <1>2, <2>1, <2>2
        <5> HIDE DEF x, y, a, l, f
        <5> QED BY <5>1
      <4>2. joined.bytes[i] = b[j + 1]
        <5> HIDE DEF i
        <5> QED BY <2>3, <2>4, <4>1
      <4> HIDE DEF a, f, l
      <4> QED BY <1>2, <2>4, <4>1, <4>2
    <3>2. joined.addr <= a /\ a + l <= EndOf(joined)
      BY <1>2, <2>6
    <3> HIDE DEF a, f, l, s
    <3> QED BY <1>3, <3>1, <3>2
  <2>8. \A i \in 1..Len(c) : joined.bytes[i] = c[i]
    <3> TAKE i \in 1..Len(c)
    <3>1. i \in 1..(Len(c) + l) /\ i <= Len(c)
      BY <1>2, <2>2
    <3> QED BY <2>3, <2>4, <3>1
  <2>9. Follower(last, r, joined)
    BY <2>1, <2>4, <2>8 DEF Follower, EndOf
  <2>10. /\ N \in DOMAIN list /\ EndOf(joined) = End(r) /\ N \in DOMAIN new /\ N = Len(new)
         /\ \A n \in DOMAIN list : n \in DOMAIN new
         /\ \A n \in DOMAIN new : n # N => n \in DOMAIN list /\ new[n] = list[n]
    BY <1>1, <1>3, <2>1, <2>5, <2>6
  <2>11. Grown(new, list, r, N)
    <3> HIDE DEF new
    <3> QED BY <2>5, <2>7, <2>9, <2>10 DEF Grown
  <2> QED BY <2>11
<1>5. CASE ~Continues(list, r)
  <2> DEFINE x == [addr |-> a, bytes |-> b]
  <2>1. new = Append(list, x)
    BY <1>5 DEF WithRecord
  <2>2. x \in Section /\ x.addr = a /\ x.bytes = b
    <3> HIDE DEF b, a
    <3> QED BY <1>2 DEF Section
  <2> HIDE DEF x, b
  <2>3. /\ new \in Seq(Section) /\ Len(new) = N + 1 /\ DOMAIN new = 1..(N + 1)
        /\ new[N + 1] = x /\ \A n \in 1..N : new[n] = list[n]
    <3>1. /\ new \in Seq(Section) /\ Len(new) = N + 1
          /\ new[N + 1] = x /\ \A n \in 1..N : new[n] = list[n]
      BY <2>1, <2>2, AppendProperties
    <3> QED BY <3>1, LenProperties
  <2> HIDE DEF new
  <2>4. Covers(x, r) /\ EndOf(x) = a + l
    <3>1. EndOf(x) = a + l
      BY <1>2, <2>2 DEF EndOf
    <3>2. ASSUME NEW j \in 0..(l - 1) PROVE x.bytes[a + j - x.addr + 1] = <<s, f + j>>
      <4>1. a + j - a + 1 = j + 1 /\ j + 1 \in 1..l /\ f + (j + 1) - 1 = f + j
        <5> HIDE DEF a, l, f
        <5> QED BY <1>2
      <4> HIDE DEF a, l, f
      <4> QED BY <1>2, <2>2, <4>1
    <3>3. x.addr <= a /\ a + l <= EndOf(x)
      BY <1>2, <2>2, <3>1
    <3> HIDE DEF a, f, l, s
    <3> QED BY <1>3, <3>1, <3>2, <3>3
  <2>5. N + 1 \notin DOMAIN list /\ \A n \in 1..(N + 1) : n # N + 1 => n \in 1..N
    BY <1>1
  <2>6. Grown(new, list, r, N + 1)
    <3>1. /\ N + 1 \in DOMAIN new /\ EndOf(x) = End(r)
          /\ \A n \in DOMAIN list : n \in DOMAIN new
          /\ \A n \in DOMAIN new : n # N + 1 => n \in DOMAIN list /\ new[n] = list[n]
      BY <1>1, <1>3, <2>3, <2>4, <2>5
    <3> HIDE DEF N
    <3> QED BY <1>5, <2>2, <2>3, <2>4, <2>5, <3>1 DEF Grown
  <2> QED BY <2>6 DEF new
<1> QED BY <1>4, <1>5

LEMMA FollowerCovers ==
  ASSUME NEW s \in Section, NEW t \in Section, NEW r \in HcdRecord, NEW q \in HcdRecord,
         Follower(s, r, t), EndOf(t) = End(r), Covers(s, q)
  PROVE  Covers(t, q)
<1> DEFINE x == s.addr  y == Len(s.bytes)  a == q.addr  l == q.len
<1>1. x \in Nat /\ y \in Nat /\ a \in Nat /\ l \in Nat /\ r.addr \in Nat /\ r.len \in Nat
  BY LenProperties DEF Section, HcdRecord
<1>2. /\ t.addr = x /\ EndOf(s) = x + y /\ x <= a /\ a + l <= x + y /\ End(q) = a + l
      /\ x + y = r.addr /\ EndOf(t) = r.addr + r.len
  BY DEF Follower, Covers, EndOf, End
<1>3. ASSUME NEW j \in 0..(l - 1) PROVE t.bytes[a + j - t.addr + 1] = <<q.section, q.from + j>>
  <2>1. a + j - x + 1 \in 1..y
    <3> HIDE DEF x, y, a, l
    <3> QED BY <1>1, <1>2
  <2>2. s.bytes[a + j - x + 1] = <<q.section, q.from + j>>
    BY DEF Covers
  <2>3. t.bytes[a + j - x + 1] = s.bytes[a + j - x + 1]
    <3> DEFINE i == a + j - x + 1
    <3>1. i \in 1..Len(s.bytes)
      BY <2>1
    <3>2. \A n \in 1..Len(s.bytes) : t.bytes[n] = s.bytes[n]
      BY DEF Follower
    <3> HIDE DEF i
    <3>3. t.bytes[i] = s.bytes[i]
      BY <3>1, <3>2
    <3> QED BY <3>3 DEF i
  <2> QED BY <1>2, <2>2, <2>3
<1>4. t.addr <= a /\ End(q) <= EndOf(t)
  <2> DEFINE u == r.addr  v == r.len
  <2>1. u \in Nat /\ v \in Nat /\ a + l <= u
    BY <1>1, <1>2
  <2>2. a + l <= u + v
    <3> HIDE DEF u, v, a, l
    <3>1. a \in Nat /\ l \in Nat
      BY <1>1
    <3> QED BY <2>1, <3>1
  <2> QED BY <1>2, <2>2
<1> QED BY <1>3, <1>4 DEF Covers

(* A section that has bytes of the first K records only is apart from what *)
(* each of them is apart from.                                             *)
LEMMA CoveredApart ==
  ASSUME NEW s \in Section, Len(s.bytes) > 0, NEW b \in Nat, NEW n \in Nat \ {0},
         NEW all, NEW K, \A i \in 1..K : all[i] \in HcdRecord /\ Apart(all[i].addr, all[i].len, b, n),
         \A a \in s.addr..(EndOf(s) - 1) : \E i \in 1..K : a \in all[i].addr..(End(all[i]) - 1)
  PROVE  Apart(s.addr, Len(s.bytes), b, n)
<1> DEFINE x == s.addr  y == Len(s.bytes)
           a == IF x < b THEN b ELSE x
<1> SUFFICES ASSUME ~Apart(x, y, b, n) PROVE FALSE
  OBVIOUS
<1>1. x \in Nat /\ y \in Nat /\ y > 0 /\ b \in Nat /\ n \in Nat \ {0} /\ EndOf(s) = x + y
  BY LenProperties DEF Section, EndOf
<1>2. a \in x..(EndOf(s) - 1) /\ b <= a /\ a < b + n /\ a \in Nat
  <2>1. x < b + n /\ b < x + y
    <3> HIDE DEF x, y
    <3> QED BY <1>1 DEF Apart
  <2> HIDE DEF x, y
  <2> QED BY <1>1, <2>1
<1>3. PICK i \in 1..K : a \in all[i].addr..(End(all[i]) - 1)
  <2> HIDE DEF a
  <2> QED BY <1>2
<1> DEFINE u == all[i].addr  v == all[i].len
<1>4. u \in Nat /\ v \in Nat /\ End(all[i]) = u + v /\ Apart(u, v, b, n)
  BY DEF HcdRecord, End
<1> HIDE DEF u, v, a
<1>5. u <= a /\ a < u + v
  BY <1>2, <1>3, <1>4 DEF u, v
<1> QED BY <1>1, <1>2, <1>4, <1>5 DEF Apart

LEMMA JoinStep ==
  ASSUME NEW all \in Seq(HcdRecord), RecordsApart(all),
         NEW list, NEW K, Joins(list, all, K), K < Len(all)
  PROVE  Joins(WithRecord(list, all[K + 1]), all, K + 1)
<1> DEFINE r == all[K + 1]   new == WithRecord(list, r)
<1>1. /\ K \in Nat /\ Len(all) \in Nat /\ K + 1 \in 0..Len(all) /\ r \in HcdRecord
      /\ \A i \in 1..K : all[i] \in HcdRecord /\ Apart(all[i].addr, all[i].len, r.addr, r.len)
  <2>1. /\ K \in Nat /\ Len(all) \in Nat /\ K + 1 \in 1..Len(all) /\ DOMAIN all = 1..Len(all)
        /\ K + 1 \in 0..Len(all)
    BY LenProperties DEF Joins
  <2>2. \A i \in 1..K : i \in 1..Len(all) /\ i # K + 1
    BY <2>1
  <2>3. \A i \in 1..Len(all) : all[i] \in HcdRecord
    BY ElementOfSeq
  <2> QED BY <2>1, <2>2, <2>3 DEF RecordsApart
<1>2. /\ list \in Seq(Section) /\ \A n \in DOMAIN list : list[n] \in Section /\ Len(list[n].bytes) > 0
      /\ Covered(list, all, K) /\ SectionsParted(list)
      /\ K > 0 => list # <<>> /\ EndOf(list[Len(list)]) = End(all[K])
      /\ OnWords(all) => \A n \in DOMAIN list : list[n].addr % AlignSize = 0
  <2>1. list \in Seq(Section)
    BY DEF Joins
  <2>2. \A n \in DOMAIN list : list[n] \in Section
    BY <2>1, LenProperties, ElementOfSeq
  <2> QED BY <2>1, <2>2 DEF Joins
<1>3. PICK N : Grown(new, list, r, N)
  BY <1>1, <1>2, RecordJoins
<1> HIDE DEF new
<1>4. /\ new \in Seq(Section) /\ N = Len(new) /\ N \in DOMAIN new /\ DOMAIN new = 1..N /\ N \in Nat
      /\ \A n \in DOMAIN new : new[n] \in Section
      /\ \A n \in DOMAIN list : n \in DOMAIN new
      /\ \A n \in DOMAIN new : n # N => n \in DOMAIN list /\ new[n] = list[n]
      /\ Covers(new[N], r) /\ EndOf(new[N]) = End(r)
      /\ \/ N \in DOMAIN list /\ N = Len(list) /\ Follower(list[N], r, new[N])
         \/ N \notin DOMAIN list /\ new[N].addr = r.addr /\ ~Continues(list, r)
  <2>1. new \in Seq(Section) /\ N = Len(new)
    BY <1>3 DEF Grown
  <2>2. DOMAIN new = 1..N /\ N \in Nat /\ \A n \in DOMAIN new : new[n] \in Section
    BY <2>1, LenProperties, ElementOfSeq
  <2> QED BY <1>3, <2>1, <2>2 DEF Grown
<1> DEFINE u == new[N].addr  w == Len(new[N].bytes)  b == r.addr  l == r.len
<1>5. /\ u \in Nat /\ w \in Nat /\ b \in Nat /\ l \in Nat \ {0} /\ EndOf(new[N]) = u + w /\ End(r) = b + l
      /\ u <= b /\ u + w = b + l
  <2>1. new[N] \in Section
    BY <1>4
  <2>2. u \in Nat /\ w \in Nat /\ b \in Nat /\ l \in Nat \ {0}
    BY <1>1, <2>1, LenProperties DEF Section, HcdRecord
  <2>3. EndOf(new[N]) = u + w /\ End(r) = b + l
    BY DEF EndOf, End
  <2> QED BY <1>4, <2>2, <2>3 DEF Covers
<1> HIDE DEF u, w, b, l
<1>6. \A n \in DOMAIN new : Len(new[n].bytes) > 0
  <2>1. w > 0
    BY <1>5
  <2> QED BY <1>2, <1>4, <2>1 DEF w
<1>7. ASSUME NEW i \in 1..(K + 1) PROVE \E n \in DOMAIN new : Covers(new[n], all[i])
  <2>1. CASE i = K + 1
    BY <1>4, <2>1
  <2>2. CASE i # K + 1
    <3>1. i \in 1..K
      BY <1>1, <2>2
    <3>2. PICK n \in DOMAIN list : Covers(list[n], all[i])
      BY <1>2, <3>1 DEF Covered
    <3>3. CASE n # N
      BY <1>4, <3>2, <3>3
    <3>4. CASE n = N
      <4>1. Follower(list[N], r, new[N]) /\ list[N] \in Section /\ new[N] \in Section
        BY <1>2, <1>4, <3>2, <3>4
      <4> HIDE DEF r
      <4>2. Covers(new[N], all[i])
        BY <1>1, <1>4, <3>1, <3>2, <3>4, <4>1, FollowerCovers
      <4> QED BY <1>4, <4>2
    <3> QED BY <3>3, <3>4
  <2> QED BY <2>1, <2>2
<1>8. ASSUME NEW n \in DOMAIN new, NEW a \in new[n].addr..(EndOf(new[n]) - 1)
      PROVE  \E i \in 1..(K + 1) : a \in all[i].addr..(End(all[i]) - 1)
  <2>0. 1..K \subseteq 1..(K + 1) /\ K + 1 \in 1..(K + 1)
    BY <1>1
  <2>1. CASE n # N
    <3>1. n \in DOMAIN list /\ a \in list[n].addr..(EndOf(list[n]) - 1)
      BY <1>4, <2>1
    <3> QED BY <1>2, <2>0, <3>1 DEF Covered
  <2>2. CASE n = N
    <3>1. a \in u..(b + l - 1)
      BY <1>5, <2>2 DEF u
    <3>2. CASE a >= b
      <4>1. a \in b..(b + l - 1)
        BY <1>5, <3>1, <3>2
      <4>2. a \in all[K + 1].addr..(End(all[K + 1]) - 1)
        BY <1>5, <4>1 DEF b
      <4> QED BY <2>0, <4>2
    <3>3. CASE ~(a >= b)
      <4>1. N \in DOMAIN list /\ Follower(list[N], r, new[N])
        BY <1>4, <1>5, <3>1, <3>3 DEF u, b
      <4>2. list[N].addr = u /\ EndOf(list[N]) = b
        BY <4>1 DEF Follower, u, b
      <4>3. a \in list[N].addr..(EndOf(list[N]) - 1)
        BY <1>5, <3>1, <3>3, <4>2
      <4> QED BY <1>2, <2>0, <4>1, <4>3 DEF Covered
    <3> QED BY <3>2, <3>3
  <2> QED BY <2>1, <2>2
<1>9. ASSUME NEW n \in DOMAIN new, n # N
      PROVE  Apart(u, w, new[n].addr, Len(new[n].bytes))
  <2> DEFINE x == list[n].addr  y == Len(list[n].bytes)
  <2>1. n \in DOMAIN list /\ list[n] \in Section /\ new[n].addr = x /\ Len(new[n].bytes) = y
    BY <1>2, <1>4, <1>9
  <2>2. x \in Nat /\ y \in Nat /\ y > 0
    BY <1>2, <2>1, LenProperties DEF Section
  <2>3. Apart(x, y, b, l)
    <3>1. Len(list[n].bytes) > 0
      BY <1>2, <2>1
    <3>2. \A a \in list[n].addr..(EndOf(list[n]) - 1) : \E i \in 1..K : a \in all[i].addr..(End(all[i]) - 1)
      BY <1>2, <2>1 DEF Covered
    <3>3. \A i \in 1..K : all[i] \in HcdRecord /\ Apart(all[i].addr, all[i].len, b, l)
      BY <1>1 DEF b, l
    <3> HIDE DEF r
    <3> QED BY <1>5, <2>1, <3>1, <3>2, <3>3, CoveredApart
  <2>4. CASE N \in DOMAIN list /\ Follower(list[N], r, new[N])
    <3> DEFINE o == Len(list[N].bytes)
    <3>1. list[N].addr = u /\ EndOf(list[N]) = b /\ EndOf(list[N]) = u + o /\ o \in Nat
      <4>1. list[N] \in Section
        BY <1>2, <2>4
      <4> QED BY <2>4, <4>1, LenProperties DEF Follower, u, b, EndOf, Section
    <3>2. Apart(u, o, x, y)
      BY <1>2, <1>9, <2>1, <2>4, <3>1 DEF SectionsParted
    <3> HIDE DEF o, x, y
    <3>3. Apart(u, w, x, y)
      BY <1>5, <2>2, <2>3, <3>1, <3>2 DEF Apart
    <3> QED BY <2>1, <3>3
  <2>5. CASE u = b
    <3> HIDE DEF x, y
    <3>1. Apart(u, w, x, y)
      BY <1>5, <2>2, <2>3, <2>5 DEF Apart
    <3> QED BY <2>1, <3>1
  <2> QED BY <1>4, <2>4, <2>5 DEF u, b
<1>10. SectionsParted(new)
  <2> SUFFICES ASSUME NEW m \in DOMAIN new, NEW n \in DOMAIN new, m # n
               PROVE  Apart(new[m].addr, Len(new[m].bytes), new[n].addr, Len(new[n].bytes))
    BY DEF SectionsParted
  <2>1. CASE m = N
    BY <1>9, <2>1 DEF u, w
  <2>2. CASE n = N
    <3>1. Apart(u, w, new[m].addr, Len(new[m].bytes))
      BY <1>9, <2>2
    <3> QED BY <2>2, <3>1 DEF u, w, Apart
  <2>3. CASE m # N /\ n # N
    <3>1. m \in DOMAIN list /\ n \in DOMAIN list /\ new[m] = list[m] /\ new[n] = list[n]
      BY <1>4, <2>3
    <3> QED BY <1>2, <3>1 DEF SectionsParted
  <2> QED BY <2>1, <2>2, <2>3
<1>11. ASSUME OnWords(all), NEW n \in DOMAIN new PROVE new[n].addr % AlignSize = 0
  <2>1. CASE n # N
    BY <1>2, <1>4, <1>11, <2>1
  <2>2. CASE n = N /\ N \in DOMAIN list /\ Follower(list[N], r, new[N])
    BY <1>2, <1>11, <2>2 DEF Follower
  <2>3. CASE n = N /\ new[N].addr = r.addr /\ ~Continues(list, r)
    <3>1. \/ all[K + 1].addr % AlignSize = 0
          \/ K + 1 > 1 /\ all[K + 1].addr = End(all[(K + 1) - 1])
      <4>1. K + 1 \in DOMAIN all
        <5>1. K + 1 \in 1..Len(all)
          BY <1>1
        <5> QED BY <5>1, LenProperties
      <4> QED BY <1>11, <4>1 DEF OnWords
    <3>2. CASE K + 1 > 1 /\ r.addr = End(all[(K + 1) - 1])
      <4>1. K > 0 /\ (K + 1) - 1 = K
        BY <1>1, <3>2
      <4>2. list # <<>> /\ EndOf(list[Len(list)]) = r.addr
        BY <1>2, <3>2, <4>1
      <4>3. Continues(list, r)
        <5> HIDE DEF r
        <5> QED BY <4>2 DEF Continues, EndOf
      <4> QED BY <2>3, <4>3
    <3> QED BY <2>3, <3>1, <3>2
  <2> QED BY <1>4, <2>1, <2>2, <2>3
<1>12. new # <<>> /\ EndOf(new[Len(new)]) = End(all[K + 1])
  <2>1. new # <<>>
    BY <1>4
  <2> QED BY <1>4, <2>1
<1>13. Covered(new, all, K + 1)
  BY <1>7, <1>8 DEF Covered
<1>14. Joins(new, all, K + 1)
  <2> HIDE DEF r
  <2> QED BY <1>1, <1>4, <1>6, <1>10, <1>11, <1>12, <1>13 DEF Joins
<1> QED BY <1>14 DEF new

-----------------------------------------------------------------------------
(* The padding. *)

(* Behind a section that begins with a whole word there is room for it,    *)
(* when what follows begins with a whole word too.                         *)
LEMMA RoomForPadding ==
  ASSUME NEW a \in Nat, NEW n \in Nat, NEW b \in Nat, NEW m \in Nat,
         a % AlignSize = 0, b % AlignSize = 0, Apart(a, n, b, m)
  PROVE  PadUp(n) \in Nat /\ Apart(a, PadUp(n), b, m)
<1>1. /\ PadUp(n) \in Nat /\ PadUp(n) % 4 = 0 /\ n <= PadUp(n) /\ PadUp(n) < n + 4
  BY DEF PadUp, PadSize, AlignSize
<1>2. CASE a + n <= b
  <2> DEFINE p == PadUp(n)
  <2> HIDE DEF p
  <2>1. p \in Nat /\ p % 4 = 0 /\ p < n + 4 /\ a % 4 = 0 /\ b % 4 = 0
    BY <1>1 DEF p, AlignSize
  <2>2. a + p <= b
    BY <1>2, <2>1
  <2> QED BY <1>1, <2>2 DEF Apart, p
<1>3. CASE b + m <= a
  BY <1>1, <1>3 DEF Apart
<1> QED BY <1>2, <1>3 DEF Apart

LEMMA PaddedBytes ==
  ASSUME NEW bytes \in Seq(Cells)
  PROVE  /\ Len(Padded(bytes)) = PadUp(Len(bytes)) /\ Len(bytes) \in Nat
         /\ Len(bytes) <= Len(Padded(bytes)) /\ Len(Padded(bytes)) \in Nat
         /\ \A j \in 1..Len(bytes) : Padded(bytes)[j] = bytes[j]
<1> DEFINE n == Len(bytes)   p == PadSize(n)   z == [j \in 1..p |-> <<"zero", 0>>]
<1>1. n \in Nat /\ p \in Nat /\ PadUp(n) = n + p
  BY LenProperties DEF PadSize, AlignSize, PadUp
<1>2. <<"zero", 0>> \in Cells
  BY DEF Cells, PackNames
<1> HIDE DEF p
<1>3. z \in Seq(Cells) /\ Len(z) = p
  <2>1. z \in [1..p -> Cells]
    BY <1>2
  <2> HIDE DEF z
  <2> QED BY <1>1, <2>1, FunctionIsSeq, LenProperties
<1> HIDE DEF z
<1>4. Padded(bytes) = bytes \o z
  BY DEF Padded, z, p
<1>5. /\ Len(bytes \o z) = n + Len(z)
      /\ \A i \in 1..(n + Len(z)) : (bytes \o z)[i] = IF i <= n THEN bytes[i] ELSE z[i - n]
  BY <1>3, ConcatProperties
<1> HIDE DEF n
<1>6. \A j \in 1..n : (bytes \o z)[j] = bytes[j]
  <2>1. \A j \in 1..n : j \in 1..(n + Len(z)) /\ j <= n
    BY <1>1, <1>3
  <2> QED BY <1>5, <2>1
<1>7. n + p \in Nat /\ n <= n + p
  BY <1>1
<1> QED BY <1>1, <1>3, <1>4, <1>5, <1>6, <1>7 DEF n

-----------------------------------------------------------------------------
(* What is stored. *)

Kept(stored, s) ==
  \A j \in 1..Len(s.bytes) :
    s.addr + j - 1 \in DOMAIN stored /\ stored[s.addr + j - 1] = s.bytes[j]

LEMMA StoredKeeps ==
  ASSUME NEW from \in Nat, NEW bytes, Len(bytes) \in Nat, NEW s \in Section,
         Kept(memory, s), Apart(from, Len(bytes), s.addr, Len(s.bytes))
  PROVE  Kept(Stored(from, bytes), s)
<1> SUFFICES ASSUME NEW j \in 1..Len(s.bytes)
             PROVE  /\ s.addr + j - 1 \in DOMAIN Stored(from, bytes)
                    /\ Stored(from, bytes)[s.addr + j - 1] = s.bytes[j]
  BY DEF Kept
<1> DEFINE a == s.addr + j - 1   x == s.addr   y == Len(s.bytes)   n == Len(bytes)
<1>1. x \in Nat /\ y \in Nat
  BY LenProperties DEF Section
<1>2. a \notin from..(from + Len(bytes) - 1)
  <2>1. a = x + j - 1 /\ j \in 1..y /\ n \in Nat /\ Apart(from, n, x, y)
    OBVIOUS
  <2> HIDE DEF a, x, y, n
  <2>2. a \notin from..(from + n - 1)
    BY <1>1, <2>1 DEF Apart
  <2> QED BY <2>2 DEF n
<1>3. a \in DOMAIN memory /\ memory[a] = s.bytes[j]
  BY DEF Kept
<1> HIDE DEF a
<1>4. a \in DOMAIN Stored(from, bytes) /\ Stored(from, bytes)[a] = s.bytes[j]
  BY <1>2, <1>3 DEF Stored
<1> QED BY <1>4 DEF a

LEMMA StoredGives ==
  ASSUME NEW s \in Section, NEW bytes, bytes = Padded(s.bytes)
  PROVE  Kept(Stored(s.addr, bytes), s)
<1> SUFFICES ASSUME NEW j \in 1..Len(s.bytes)
             PROVE  /\ s.addr + j - 1 \in DOMAIN Stored(s.addr, bytes)
                    /\ Stored(s.addr, bytes)[s.addr + j - 1] = s.bytes[j]
  BY DEF Kept
<1> DEFINE x == s.addr   y == Len(s.bytes)   n == Len(bytes)   a == x + j - 1
<1>1. /\ x \in Nat /\ y \in Nat /\ n \in Nat /\ y <= n /\ bytes[j] = s.bytes[j]
  <2>1. s.bytes \in Seq(Cells) /\ x \in Nat
    BY DEF Section
  <2> QED BY <2>1, PaddedBytes
<1>2. a \in x..(x + n - 1) /\ a - x + 1 = j
  <2>1. j \in 1..y
    OBVIOUS
  <2> HIDE DEF x, y, n
  <2> QED BY <1>1, <2>1
<1> HIDE DEF a
<1>3. a \in DOMAIN Stored(x, bytes) /\ Stored(x, bytes)[a] = bytes[j]
  BY <1>2 DEF Stored
<1> QED BY <1>1, <1>3 DEF a

-----------------------------------------------------------------------------
(* The new HCD file. *)

LEMMA FwRecordsFacts ==
  /\ FwRecords \in Seq(HcdRecord) /\ RecordsApart(FwRecords) /\ OnWords(FwRecords)
  /\ DsStart \in Nat
  /\ \A i \in DOMAIN FwRecords :
       /\ FwRecords[i].addr + FwRecords[i].len <= FirstFree \/ RamEnd <= FwRecords[i].addr
       /\ FwRecords[i].addr + FwRecords[i].len <= DsStart
<1> DEFINE R == [addr : Nat, section : {"patch"}, from : Nat, len : Nat \ {0}]
<1>1. FwRecords \in Seq(R)
  BY SubDsAssumption DEF SubDsAssumption
<1>2. R \subseteq HcdRecord
  BY DEF HcdRecord, PackNames
<1> HIDE DEF R
<1>3. FwRecords \in Seq(HcdRecord)
  BY <1>1, <1>2, SeqMonotonic
<1> QED BY <1>3, SubDsAssumption DEF SubDsAssumption, RecordsApart, Apart, End

(* What is left of a list of records. *)
Suffix(input0, all, n) ==
  /\ input0 \in Seq(HcdRecord) /\ Len(input0) = Len(all) - n
  /\ \A i \in 1..Len(input0) : input0[i] = all[n + i]

FwJoined == Joins(sections["FW"], FwRecords, Len(FwRecords))
AppJoined == Joins(sections["APP"], AppRecords, Len(AppRecords))

FwKept(n) == \A i \in DOMAIN sections["FW"] \ n : Kept(memory, sections["FW"][i])
AppKept(n) == \A i \in DOMAIN sections["APP"] \ n : Kept(memory, sections["APP"][i])

Writing ==
  /\ FwJoined /\ AppJoined
  /\ address \in Nat /\ DsStart <= address /\ Len(files[0]) \in Nat
  /\ \A i \in DOMAIN sections["APP"] : files[i] = Padded(sections["APP"][i].bytes)

PackStages ==
  {"start", "bins", "FW", "APP", "ds FW", "sections FW", "ds APP", "sections APP", "done"}

PackInv ==
  /\ stage \in PackStages /\ (stage # "start" => step = "done")
  /\ stage \notin {"start", "bins"} => Len(padded) = 3
  /\ sections \in [{"FW", "APP"} -> Seq(Section)]
  /\ stage \in {"start", "bins"} => sections["FW"] = <<>> /\ sections["APP"] = <<>>
  /\ stage = "FW" => /\ sections["APP"] = <<>>
                     /\ \E n : Joins(sections["FW"], FwRecords, n) /\ Suffix(input, FwRecords, n)
  /\ stage = "APP" => /\ FwJoined
                      /\ \E n : Joins(sections["APP"], AppRecords, n) /\ Suffix(input, AppRecords, n)
  /\ stage \in {"ds FW", "sections FW", "ds APP", "sections APP"} => Writing
  /\ stage = "sections FW" => left \subseteq DOMAIN sections["FW"] /\ FwKept(left)
  /\ stage = "ds APP" => FwKept({})
  /\ stage = "sections APP" => /\ left \subseteq DOMAIN sections["APP"]
                               /\ OnWords(AppRecords) => FwKept({}) /\ AppKept(left)
  /\ stage = "done" /\ hcd => /\ FwJoined /\ AppJoined
                              /\ OnWords(AppRecords) => FwKept({}) /\ AppKept({})

(* What is known of the image when it is packed. *)
Packing == ImageInv /\ OrderInv /\ MovedBetween /\ step = "done" /\ SignedInv /\ PackInv

LEMMA AppRecordsStay == UNCHANGED imageVars => AppRecords' = AppRecords
BY DEF imageVars, listVars, AppRecords, RecordAddress, Upper

LEMMA SuffixFacts ==
  ASSUME NEW all \in Seq(HcdRecord), NEW n \in 0..Len(all), NEW in, Suffix(in, all, n)
  PROVE  /\ in = <<>> => n = Len(all)
         /\ in # <<>> => n < Len(all) /\ Head(in) = all[n + 1] /\ Suffix(Tail(in), all, n + 1)
<1>1. in \in Seq(HcdRecord) /\ Len(in) = Len(all) - n /\ Len(all) \in Nat /\ n \in Nat
      /\ \A i \in 1..Len(in) : in[i] = all[n + i]
  BY LenProperties DEF Suffix
<1>2. CASE in = <<>>
  <2>1. Len(in) = 0
    BY <1>2
  <2> QED BY <1>1, <1>2, <2>1
<1>3. CASE in # <<>>
  <2>1. /\ Len(in) \in Nat \ {0} /\ Head(in) = in[1] /\ Tail(in) \in Seq(HcdRecord)
        /\ Len(Tail(in)) = Len(in) - 1
        /\ \A i \in 1..Len(Tail(in)) : Tail(in)[i] = in[i + 1]
    BY <1>1, <1>3, HeadTailProperties, EmptySeq, LenProperties
  <2>2. Head(in) = all[n + 1] /\ n < Len(all)
    <3>1. 1 \in 1..Len(in)
      BY <2>1
    <3> QED BY <1>1, <2>1, <3>1
  <2>3. ASSUME NEW i \in 1..Len(Tail(in)) PROVE Tail(in)[i] = all[(n + 1) + i]
    <3>1. i + 1 \in 1..Len(in) /\ n + (i + 1) = (n + 1) + i
      BY <1>1, <2>1
    <3>2. in[i + 1] = all[n + (i + 1)]
      BY <1>1, <3>1
    <3> QED BY <2>1, <3>1, <3>2
  <2>4. Len(Tail(in)) = Len(all) - (n + 1)
    BY <1>1, <2>1
  <2> QED BY <1>3, <2>1, <2>2, <2>3, <2>4 DEF Suffix
<1> QED BY <1>2, <1>3

LEMMA SuffixAll ==
  ASSUME NEW all \in Seq(HcdRecord)
  PROVE  Suffix(all, all, 0)
<1>1. Len(all) \in Nat
  BY LenProperties
<1>2. Len(all) = Len(all) - 0 /\ \A i \in 1..Len(all) : 0 + i = i
  BY <1>1
<1> QED BY <1>2 DEF Suffix

LEMMA PackInit == SubInit => PackInv
<1> SUFFICES ASSUME SubInit PROVE PackInv
  OBVIOUS
<1>1. stage = "start" /\ sections = [pkg \in {"FW", "APP"} |-> <<>>]
  BY DEF SubInit
<1>2. sections \in [{"FW", "APP"} -> Seq(Section)]
  BY <1>1
<1> QED BY <1>1, <1>2 DEF PackInv, PackStages

LEMMA PackWaits ==
  PackInv /\ ImageNext /\ UNCHANGED subVars => PackInv'
<1> SUFFICES ASSUME PackInv, ImageNext, UNCHANGED subVars PROVE PackInv'
  OBVIOUS
<1>1. step # "done"
  BY DEF ImageNext, GenCgs, ListSection, StartSplit, SplitEntry, StartHex, HexAddress,
         HexLine, HexNext, HexEnd
<1>2. stage = "start" /\ stage' = "start" /\ sections' = sections
  BY <1>1 DEF PackInv, subVars
<1> QED BY <1>2 DEF PackInv

LEMMA PackBegins ==
  ASSUME Packing, UNCHANGED imageVars, StartSubDs \/ ParseBin \/ CreateSubDs
  PROVE  PackInv'
<1>0. step' = "done" /\ PackInv
  BY DEF Packing, imageVars, listVars
<1>1. CASE StartSubDs
  BY <1>0, <1>1 DEF StartSubDs, PackInv, PackStages
<1>2. CASE ParseBin
  BY <1>0, <1>2 DEF ParseBin, PackInv, PackStages
<1>3. CASE CreateSubDs
  <2>1. stage = "bins" /\ sections' = sections /\ hcd' = hcd /\ padded' = padded /\ Len(padded) = 3
    BY <1>3 DEF CreateSubDs, Pkgs
  <2>2. sections["FW"] = <<>> /\ sections["APP"] = <<>>
    BY <1>0, <2>1 DEF PackInv
  <2>3. CASE hcd
    <3>1. stage' = "FW" /\ input' = FwRecords
      BY <1>3, <2>3 DEF CreateSubDs
    <3>2. Joins(sections'["FW"], FwRecords, 0) /\ Suffix(input', FwRecords, 0)
      BY <2>1, <2>2, <3>1, FwRecordsFacts, JoinsNothing, SuffixAll
    <3> QED BY <1>0, <2>1, <2>2, <3>1, <3>2 DEF PackInv, PackStages
  <2>4. CASE ~hcd
    <3>1. stage' = "done"
      BY <1>3, <2>4 DEF CreateSubDs
    <3> QED BY <1>0, <2>1, <2>4, <3>1 DEF PackInv, PackStages
  <2> QED BY <2>3, <2>4
<1> QED BY <1>1, <1>2, <1>3

LEMMA AppFacts ==
  ASSUME Packing
  PROVE  AppRecords \in Seq(HcdRecord) /\ RecordsApart(AppRecords)
BY AppRecordsApart DEF Packing

LEMMA PackParses ==
  ASSUME Packing, UNCHANGED imageVars, ParseRecord \/ ParsedFw
  PROVE  PackInv'
<1>0. /\ step' = "done" /\ PackInv /\ AppRecords' = AppRecords
      /\ AppRecords \in Seq(HcdRecord) /\ RecordsApart(AppRecords)
      /\ FwRecords \in Seq(HcdRecord) /\ RecordsApart(FwRecords)
      /\ sections \in [{"FW", "APP"} -> Seq(Section)]
  BY AppFacts, AppRecordsStay, FwRecordsFacts DEF Packing, imageVars, listVars, PackInv
<1>1. \A list, all, n : Joins(list, all, n) => n \in 0..Len(all) /\ list \in Seq(Section)
  BY DEF Joins
<1>2. CASE ParseRecord
  <2>1. /\ stage \in {"FW", "APP"} /\ stage' = stage /\ input # <<>> /\ input' = Tail(input)
        /\ padded' = padded
        /\ sections' = [sections EXCEPT ![stage] = WithRecord(sections[stage], Head(input))]
    BY <1>2 DEF ParseRecord
  <2> DEFINE new == WithRecord(sections[stage], Head(input))
             all == IF stage = "FW" THEN FwRecords ELSE AppRecords
  <2>2. PICK n : Joins(sections[stage], all, n) /\ Suffix(input, all, n)
    BY <1>0, <2>1 DEF PackInv
  <2>3. all \in Seq(HcdRecord) /\ RecordsApart(all)
    BY <1>0
  <2> HIDE DEF all
  <2>4. n < Len(all) /\ Head(input) = all[n + 1] /\ Suffix(Tail(input), all, n + 1)
    BY <1>1, <2>1, <2>2, <2>3, SuffixFacts
  <2>5. Joins(new, all, n + 1)
    BY <2>2, <2>3, <2>4, JoinStep
  <2>6. /\ sections'[stage] = new
        /\ \A p \in {"FW", "APP"} : p # stage => sections'[p] = sections[p]
        /\ sections' \in [{"FW", "APP"} -> Seq(Section)]
    <3>1. new \in Seq(Section)
      BY <1>1, <2>5
    <3> HIDE DEF new
    <3> QED BY <1>0, <2>1, <3>1 DEF new
  <2> HIDE DEF new
  <2>7. CASE stage = "FW"
    <3>1. sections["APP"] = <<>> /\ all = FwRecords
      BY <1>0, <2>7 DEF PackInv, all
    <3>2. sections'["APP"] = <<>> /\ sections'["FW"] = new
      BY <2>6, <2>7, <3>1
    <3>3. Joins(sections'["FW"], FwRecords, n + 1) /\ Suffix(input', FwRecords, n + 1)
      BY <2>1, <2>4, <2>5, <3>1, <3>2
    <3> QED BY <1>0, <2>1, <2>6, <2>7, <3>2, <3>3 DEF PackInv, PackStages
  <2>8. CASE stage = "APP"
    <3>1. FwJoined /\ all = AppRecords
      BY <1>0, <2>8 DEF PackInv, all
    <3>2. sections'["FW"] = sections["FW"] /\ sections'["APP"] = new
      BY <2>6, <2>8
    <3>3. Joins(sections'["APP"], AppRecords, n + 1) /\ Suffix(input', AppRecords, n + 1) /\ FwJoined'
      BY <2>1, <2>4, <2>5, <3>1, <3>2 DEF FwJoined
    <3> QED BY <1>0, <2>1, <2>6, <2>8, <3>3 DEF PackInv, PackStages
  <2> QED BY <2>1, <2>7, <2>8
<1>3. CASE ParsedFw
  <2>1. /\ stage = "FW" /\ input = <<>> /\ stage' = "APP" /\ input' = AppRecords
        /\ sections' = sections /\ padded' = padded
    BY <1>3 DEF ParsedFw
  <2>2. PICK n : Joins(sections["FW"], FwRecords, n) /\ Suffix(input, FwRecords, n)
    BY <1>0, <2>1 DEF PackInv
  <2>3. FwJoined'
    <3>1. n = Len(FwRecords)
      BY <1>0, <1>1, <2>1, <2>2, SuffixFacts
    <3> QED BY <2>1, <2>2, <3>1 DEF FwJoined
  <2>4. sections["APP"] = <<>>
    BY <1>0, <2>1 DEF PackInv
  <2>5. Joins(sections'["APP"], AppRecords, 0) /\ Suffix(input', AppRecords, 0)
    BY <1>0, <2>1, <2>4, JoinsNothing, SuffixAll
  <2> QED BY <1>0, <2>1, <2>3, <2>5 DEF PackInv, PackStages
<1> QED BY <1>2, <1>3

-----------------------------------------------------------------------------
(* Nothing that is written runs over a section that has been.              *)

LEMMA SectionsClear ==
  ASSUME NEW s \in Section, NEW t \in Section, s.addr % AlignSize = 0, t.addr % AlignSize = 0,
         Apart(s.addr, Len(s.bytes), t.addr, Len(t.bytes))
  PROVE  Apart(s.addr, Len(Padded(s.bytes)), t.addr, Len(t.bytes))
<1>1. /\ s.addr \in Nat /\ t.addr \in Nat /\ s.bytes \in Seq(Cells)
      /\ Len(s.bytes) \in Nat /\ Len(t.bytes) \in Nat
  BY LenProperties DEF Section
<1>2. Len(Padded(s.bytes)) = PadUp(Len(s.bytes))
  BY <1>1, PaddedBytes
<1> QED BY <1>1, <1>2, RoomForPadding

LEMMA JoinedFacts ==
  ASSUME NEW all \in Seq(HcdRecord), NEW list, NEW n, Joins(list, all, n), NEW i \in DOMAIN list
  PROVE  /\ list[i] \in Section /\ Len(list[i].bytes) \in Nat \ {0} /\ list[i].addr \in Nat
         /\ \A a \in list[i].addr..(EndOf(list[i]) - 1) :
              \E r \in 1..n : a \in all[r].addr..(End(all[r]) - 1)
         /\ \A r \in 1..n : r \in DOMAIN all /\ all[r] \in HcdRecord
         /\ OnWords(all) => list[i].addr % AlignSize = 0
<1>1. list[i] \in Section
  BY LenProperties, ElementOfSeq DEF Joins
<1>2. Len(list[i].bytes) \in Nat \ {0} /\ list[i].addr \in Nat
  BY <1>1, LenProperties DEF Joins, Section
<1>3. \A r \in 1..n : r \in DOMAIN all /\ all[r] \in HcdRecord
  <2>1. DOMAIN all = 1..Len(all) /\ \A r \in 1..Len(all) : all[r] \in HcdRecord
    BY LenProperties, ElementOfSeq
  <2>2. n \in 0..Len(all) /\ Len(all) \in Nat
    BY LenProperties DEF Joins
  <2> QED BY <2>1, <2>2
<1> QED BY <1>1, <1>2, <1>3 DEF Joins, Covered

(* The sections of the firmware are in front of the DS and outside the     *)
(* memory of the application.                                              *)
LEMMA FwBelowDs ==
  ASSUME FwJoined, NEW i \in DOMAIN sections["FW"]
  PROVE  EndOf(sections["FW"][i]) <= DsStart
<1> DEFINE s == sections["FW"][i]  x == s.addr  y == Len(s.bytes)
<1>1. /\ x \in Nat /\ y \in Nat \ {0} /\ EndOf(s) = x + y
      /\ \A a \in x..(EndOf(s) - 1) :
              \E r \in 1..Len(FwRecords) : a \in FwRecords[r].addr..(End(FwRecords[r]) - 1)
      /\ \A r \in 1..Len(FwRecords) : r \in DOMAIN FwRecords /\ FwRecords[r] \in HcdRecord
  <2>1. FwRecords \in Seq(HcdRecord)
    BY FwRecordsFacts
  <2> QED BY <2>1, JoinedFacts DEF FwJoined, EndOf
<1> HIDE DEF s, x, y
<1>2. x + y - 1 \in x..(EndOf(s) - 1)
  BY <1>1
<1>3. PICK r \in 1..Len(FwRecords) : x + y - 1 \in FwRecords[r].addr..(End(FwRecords[r]) - 1)
  BY <1>1, <1>2
<1> DEFINE u == FwRecords[r].addr  v == FwRecords[r].len
<1>4. u \in Nat /\ v \in Nat /\ End(FwRecords[r]) = u + v /\ u + v <= DsStart /\ DsStart \in Nat
  BY <1>1, <1>3, FwRecordsFacts DEF HcdRecord, End
<1>5. x + y - 1 <= (u + v) - 1
  BY <1>1, <1>3, <1>4
<1> HIDE DEF u, v
<1>6. x + y <= DsStart
  BY <1>1, <1>4, <1>5
<1> QED BY <1>1, <1>6 DEF s

LEMMA FwAppApart ==
  ASSUME Packing, FwJoined, AppJoined,
         NEW i \in DOMAIN sections["FW"], NEW j \in DOMAIN sections["APP"]
  PROVE  /\ Apart(sections["FW"][i].addr, Len(sections["FW"][i].bytes),
                  sections["APP"][j].addr, Len(sections["APP"][j].bytes))
         /\ Apart(sections["APP"][j].addr, Len(sections["APP"][j].bytes),
                  sections["FW"][i].addr, Len(sections["FW"][i].bytes))
<1> DEFINE s == sections["FW"][i]   t == sections["APP"][j]
           M == Len(FwRecords)   N == Len(AppRecords)
<1>1. /\ s \in Section /\ Len(s.bytes) \in Nat \ {0} /\ s.addr \in Nat
      /\ \A a \in s.addr..(EndOf(s) - 1) : \E r \in 1..M : a \in FwRecords[r].addr..(End(FwRecords[r]) - 1)
      /\ \A r \in 1..M : r \in DOMAIN FwRecords /\ FwRecords[r] \in HcdRecord
  <2>1. FwRecords \in Seq(HcdRecord)
    BY FwRecordsFacts
  <2> QED BY <2>1, JoinedFacts DEF FwJoined
<1>2. /\ t \in Section /\ Len(t.bytes) \in Nat \ {0} /\ t.addr \in Nat
      /\ \A a \in t.addr..(EndOf(t) - 1) : \E r \in 1..N : a \in AppRecords[r].addr..(End(AppRecords[r]) - 1)
      /\ \A r \in 1..N : r \in DOMAIN AppRecords /\ AppRecords[r] \in HcdRecord
  <2>1. AppRecords \in Seq(HcdRecord)
    BY AppFacts
  <2> QED BY <2>1, JoinedFacts DEF AppJoined
<1> HIDE DEF s, t, M, N
<1>3. ASSUME NEW q \in 1..N, NEW p \in 1..M
      PROVE  Apart(FwRecords[p].addr, FwRecords[p].len, AppRecords[q].addr, AppRecords[q].len)
  <2> DEFINE a == FwRecords[p].addr  l == FwRecords[p].len  b == AppRecords[q].addr  n == AppRecords[q].len
  <2>1. a \in Nat /\ l \in Nat /\ b \in Nat /\ n \in Nat
    BY <1>1, <1>2 DEF HcdRecord
  <2>2. a + l <= FirstFree \/ RamEnd <= a
    BY <1>1, FwRecordsFacts
  <2>3. FirstFree <= b /\ b + n <= RamEnd
    BY <1>2, AppRecordsApart DEF Packing
  <2>4. FirstFree \in Nat /\ RamEnd \in Nat
    BY LinkAssumption DEF LinkAssumption
  <2> HIDE DEF a, l, b, n
  <2>5. Apart(a, l, b, n)
    BY <2>1, <2>2, <2>3, <2>4 DEF Apart
  <2> QED BY <2>5 DEF a, l, b, n
<1>4. ASSUME NEW q \in 1..N
      PROVE  Apart(AppRecords[q].addr, AppRecords[q].len, s.addr, Len(s.bytes))
  <2> DEFINE b == AppRecords[q].addr  n == AppRecords[q].len
  <2>1. b \in Nat /\ n \in Nat \ {0}
    BY <1>2 DEF HcdRecord
  <2>2. \A p \in 1..M : FwRecords[p] \in HcdRecord /\ Apart(FwRecords[p].addr, FwRecords[p].len, b, n)
    BY <1>1, <1>3
  <2> HIDE DEF b, n
  <2>3. Apart(s.addr, Len(s.bytes), b, n)
    <3>1. Len(s.bytes) > 0
      BY <1>1
    <3> QED BY <1>1, <2>1, <2>2, <3>1, CoveredApart
  <2> QED BY <2>3 DEF Apart, b, n
<1>5. Apart(t.addr, Len(t.bytes), s.addr, Len(s.bytes))
  <2>1. Len(t.bytes) > 0
    BY <1>2
  <2>2. \A q \in 1..N :
          /\ AppRecords[q] \in HcdRecord
          /\ Apart(AppRecords[q].addr, AppRecords[q].len, s.addr, Len(s.bytes))
    BY <1>2, <1>4
  <2> QED BY <1>1, <1>2, <2>1, <2>2, CoveredApart
<1>6. Apart(s.addr, Len(s.bytes), t.addr, Len(t.bytes))
  BY <1>5 DEF Apart
<1> QED BY <1>5, <1>6 DEF s, t

(* A padded section keeps to itself. *)
LEMMA PaddingKeeps ==
  ASSUME NEW s \in Section, NEW t \in Section, s.addr % AlignSize = 0, t.addr % AlignSize = 0,
         Apart(s.addr, Len(s.bytes), t.addr, Len(t.bytes)), Kept(memory, t)
  PROVE  Kept(Stored(s.addr, Padded(s.bytes)), t)
<1>1. Apart(s.addr, Len(Padded(s.bytes)), t.addr, Len(t.bytes))
  BY SectionsClear
<1>2. s.addr \in Nat /\ s.bytes \in Seq(Cells)
  BY DEF Section
<1>3. Len(Padded(s.bytes)) \in Nat
  BY <1>2, PaddedBytes
<1> QED BY <1>1, <1>2, <1>3, StoredKeeps

LEMMA PackStarts ==
  ASSUME Packing, UNCHANGED imageVars, StartHcd
  PROVE  PackInv'
<1>1. /\ step' = "done" /\ PackInv /\ AppRecords' = AppRecords /\ AppRecords \in Seq(HcdRecord)
      /\ stage = "APP" /\ stage' = "ds FW" /\ input = <<>> /\ sections' = sections /\ padded' = padded
      /\ files' = SignedFiles /\ address' = DsStart + R4Header + SubDsLen("SEC")
  BY AppFacts, AppRecordsStay DEF Packing, imageVars, listVars, StartHcd, DsStage
<1>2. FwJoined /\ \E n : Joins(sections["APP"], AppRecords, n) /\ Suffix(input, AppRecords, n)
  BY <1>1 DEF PackInv
<1>3. PICK n : Joins(sections["APP"], AppRecords, n) /\ Suffix(input, AppRecords, n)
  BY <1>2
<1>4. n \in 0..Len(AppRecords)
  BY <1>3 DEF Joins
<1>5. n = Len(AppRecords)
  BY <1>1, <1>3, <1>4, SuffixFacts
<1>6. FwJoined' /\ AppJoined'
  BY <1>1, <1>2, <1>3, <1>5 DEF FwJoined, AppJoined
<1>7. SubDsLen("SEC") \in Nat /\ SubDsLen("APP") \in Nat
  <2>0. Len(padded) = 3
    BY <1>1 DEF PackInv
  <2>1. padded[1] = SecLen /\ appLen \in Nat
    BY <2>0 DEF Packing, SignedInv
  <2>2. SecLen \in Nat
    BY SubDsAssumption DEF SubDsAssumption
  <2>3. PadUp(appLen) \in Nat
    BY <2>1, WholeWords
  <2>4. SubHeader + PadUp(appLen) \in Nat
    BY <2>3 DEF SubHeader
  <2> QED BY <2>1, <2>2, <2>4 DEF SubDsLen
<1>8. address' \in Nat /\ DsStart <= address'
  <2> DEFINE l == SubDsLen("SEC")
  <2>1. R4Header \in Nat
    BY DEF R4Header
  <2>2. l \in Nat /\ DsStart \in Nat
    BY <1>7, FwRecordsFacts
  <2>3. address' = DsStart + R4Header + l
    BY <1>1
  <2> HIDE DEF l
  <2> QED BY <2>1, <2>2, <2>3
<1> DEFINE list == sections["APP"]
<1>9. list \in Seq(Section)
  BY <1>3 DEF Joins
<1>10. files'[0] = Blob("APP", SubDsLen("APP")) /\ \A i \in DOMAIN list : files'[i] = Padded(list[i].bytes)
  <2>1. \A i \in DOMAIN list : i # 0
    BY <1>9, LenProperties
  <2> QED BY <1>1, <2>1 DEF SignedFiles
<1>11. Len(files'[0]) \in Nat
  BY <1>7, <1>10 DEF Blob
<1>12. Writing'
  BY <1>1, <1>6, <1>8, <1>10, <1>11 DEF Writing
<1> QED BY <1>1, <1>12 DEF PackInv, PackStages

LEMMA PackWritesDs ==
  ASSUME Packing, UNCHANGED imageVars, NEW pkg \in {"FW", "APP"}, WriteDs(pkg)
  PROVE  PackInv'
<1>1. /\ step' = "done" /\ PackInv /\ AppRecords' = AppRecords
      /\ stage = DsStage(pkg) /\ stage' = SectionStage(pkg)
      /\ sections' = sections /\ files' = files /\ padded' = padded /\ left' = DOMAIN sections[pkg]
      /\ memory' = Stored(address, files[0]) /\ address' = address + Len(files[0])
  BY AppRecordsStay DEF Packing, imageVars, listVars, WriteDs
<1>2. Writing
  BY <1>1 DEF PackInv, DsStage
<1>3. Writing'
  <2>1. address' \in Nat /\ DsStart <= address'
    BY <1>1, <1>2, FwRecordsFacts DEF Writing
  <2> QED BY <1>1, <1>2, <2>1 DEF Writing, FwJoined, AppJoined
<1>4. CASE pkg = "FW"
  <2>1. stage' = "sections FW" /\ stage = "ds FW" /\ left' = DOMAIN sections["FW"]
    BY <1>1, <1>4 DEF DsStage, SectionStage
  <2>2. FwKept(left)'
    BY <1>1, <2>1 DEF FwKept
  <2> QED BY <1>1, <1>3, <2>1, <2>2 DEF PackInv, PackStages
<1>5. CASE pkg = "APP"
  <2>1. stage' = "sections APP" /\ stage = "ds APP" /\ left' = DOMAIN sections["APP"]
    BY <1>1, <1>5 DEF DsStage, SectionStage
  <2>2. AppKept(left)'
    BY <1>1, <2>1 DEF AppKept
  <2>3. FwKept({})'
    <3>1. ASSUME NEW i \in DOMAIN sections["FW"] PROVE Kept(memory', sections["FW"][i])
      <4> DEFINE s == sections["FW"][i]  x == s.addr  y == Len(s.bytes)
      <4>1. s \in Section /\ y \in Nat /\ x \in Nat
        BY <1>2, FwRecordsFacts, JoinedFacts DEF Writing, FwJoined
      <4>2. x + y <= DsStart
        BY <1>2, FwBelowDs DEF Writing, EndOf
      <4>3. address \in Nat /\ DsStart <= address /\ DsStart \in Nat /\ Len(files[0]) \in Nat
        BY <1>2, FwRecordsFacts DEF Writing
      <4>4. Apart(address, Len(files[0]), x, y)
        <5> HIDE DEF x, y
        <5> QED BY <4>1, <4>2, <4>3 DEF Apart
      <4>5. Kept(memory, s)
        BY <1>1, <2>1 DEF PackInv, FwKept
      <4> HIDE DEF s
      <4> QED BY <1>1, <4>1, <4>3, <4>4, <4>5, StoredKeeps DEF s
    <3> QED BY <1>1, <3>1 DEF FwKept
  <2> QED BY <1>1, <1>3, <2>1, <2>2, <2>3 DEF PackInv, PackStages
<1> QED BY <1>4, <1>5

LEMMA PackWritesSection ==
  ASSUME Packing, UNCHANGED imageVars, NEW pkg \in {"FW", "APP"}, NEW n \in left, WriteSection(pkg, n)
  PROVE  PackInv'
<1> DEFINE list == sections[pkg]   s == list[n]
           all == IF pkg = "FW" THEN FwRecords ELSE AppRecords
<1>1. /\ step' = "done" /\ PackInv /\ AppRecords' = AppRecords
      /\ stage = SectionStage(pkg) /\ stage' = stage
      /\ sections' = sections /\ files' = files /\ padded' = padded /\ left' = left \ {n}
  BY AppRecordsStay DEF Packing, imageVars, listVars, WriteSection
<1>2. Writing /\ FwJoined /\ AppJoined
  BY <1>1 DEF PackInv, SectionStage, Writing
<1>3. left \subseteq DOMAIN list /\ n \in DOMAIN list
  BY <1>1 DEF PackInv, SectionStage
<1>4. /\ FwRecords \in Seq(HcdRecord) /\ AppRecords \in Seq(HcdRecord) /\ OnWords(FwRecords)
      /\ all \in Seq(HcdRecord) /\ Joins(list, all, Len(all))
  BY <1>2, AppFacts, FwRecordsFacts DEF FwJoined, AppJoined
<1>5. s \in Section /\ s.addr \in Nat /\ s.bytes \in Seq(Cells) /\ (OnWords(all) => s.addr % AlignSize = 0)
  <2>1. s \in Section /\ (OnWords(all) => s.addr % AlignSize = 0)
    <3> HIDE DEF all, list
    <3> QED BY <1>3, <1>4, JoinedFacts
  <2> QED BY <2>1 DEF Section
<1>6. memory' = Stored(s.addr, Padded(s.bytes)) /\ address' = address + Len(Padded(s.bytes))
  <2>1. pkg = "APP" => files[n] = Padded(s.bytes)
    BY <1>2, <1>3 DEF Writing
  <2> QED BY <2>1 DEF WriteSection
<1>7. Writing'
  <2>1. Len(Padded(s.bytes)) \in Nat
    BY <1>5, PaddedBytes
  <2> HIDE DEF s
  <2>2. address' \in Nat /\ DsStart <= address'
    BY <1>2, <1>6, <2>1, FwRecordsFacts DEF Writing
  <2> QED BY <1>1, <1>2, <2>2 DEF Writing, FwJoined, AppJoined
<1>8. Kept(memory', s)
  BY <1>5, <1>6, StoredGives
<1>9. ASSUME OnWords(all), NEW i \in DOMAIN list \ left PROVE Kept(memory, list[i]) => Kept(memory', list[i])
  <2>1. i \in DOMAIN list /\ i # n
    OBVIOUS
  <2> HIDE DEF all
  <2>2. list[i] \in Section /\ list[i].addr % AlignSize = 0
    BY <1>4, <1>9, <2>1, JoinedFacts
  <2>3. Apart(s.addr, Len(s.bytes), list[i].addr, Len(list[i].bytes))
    BY <1>3, <1>4, <2>1 DEF Joins, SectionsParted
  <2> HIDE DEF list, s
  <2> QED BY <1>5, <1>6, <1>9, <2>2, <2>3, PaddingKeeps
<1>10. \A i \in DOMAIN list \ (left \ {n}) : i = n \/ i \in DOMAIN list \ left
  OBVIOUS
<1>11. CASE pkg = "FW"
  <2>1. stage = "sections FW" /\ FwKept(left) /\ all = FwRecords /\ list = sections["FW"]
    BY <1>1, <1>11 DEF PackInv, SectionStage
  <2>2. \A i \in DOMAIN list \ (left \ {n}) : Kept(memory', list[i])
    BY <1>4, <1>8, <1>9, <1>10, <2>1 DEF FwKept
  <2>3. FwKept(left)'
    BY <1>1, <2>1, <2>2 DEF FwKept
  <2>4. left' \subseteq DOMAIN sections["FW"]
    BY <1>1, <1>3, <2>1
  <2> QED BY <1>1, <1>7, <2>1, <2>3, <2>4 DEF PackInv, PackStages
<1>12. CASE pkg = "APP"
  <2>1. /\ stage = "sections APP" /\ all = AppRecords /\ list = sections["APP"]
        /\ OnWords(AppRecords) => FwKept({}) /\ AppKept(left)
    BY <1>1, <1>12 DEF PackInv, SectionStage
  <2>2. ASSUME OnWords(AppRecords) PROVE FwKept({})' /\ AppKept(left)'
    <3>1. \A i \in DOMAIN list \ (left \ {n}) : Kept(memory', list[i])
      BY <1>8, <1>9, <1>10, <2>1, <2>2 DEF AppKept
    <3>2. AppKept(left)'
      BY <1>1, <2>1, <3>1 DEF AppKept
    <3>3. ASSUME NEW i \in DOMAIN sections["FW"] PROVE Kept(memory', sections["FW"][i])
      <4> DEFINE t == sections["FW"][i]
      <4>1. t \in Section /\ t.addr % AlignSize = 0
        BY <1>2, <1>4, JoinedFacts DEF FwJoined
      <4>2. Apart(s.addr, Len(s.bytes), t.addr, Len(t.bytes))
        BY <1>2, <1>3, <2>1, FwAppApart
      <4>3. Kept(memory, t)
        BY <2>1, <2>2 DEF FwKept
      <4>4. s.addr % AlignSize = 0
        BY <1>5, <2>1, <2>2
      <4> HIDE DEF s, t
      <4> QED BY <1>5, <1>6, <4>1, <4>2, <4>3, <4>4, PaddingKeeps DEF t
    <3>4. FwKept({})'
      BY <1>1, <3>3 DEF FwKept
    <3> QED BY <3>2, <3>4
  <2>3. left' \subseteq DOMAIN sections["APP"]
    BY <1>1, <1>3, <2>1
  <2> QED BY <1>1, <1>7, <2>1, <2>2, <2>3 DEF PackInv, PackStages
<1> QED BY <1>11, <1>12

LEMMA PackWritten ==
  ASSUME Packing, UNCHANGED imageVars, NEW pkg \in {"FW", "APP"}, WrittenSections(pkg)
  PROVE  PackInv'
<1>1. /\ step' = "done" /\ PackInv /\ AppRecords' = AppRecords
      /\ stage = SectionStage(pkg) /\ left = {}
      /\ stage' = IF pkg = "FW" THEN DsStage("APP") ELSE "done"
      /\ UNCHANGED <<sections, files, padded, memory, address, hcd>>
  BY AppRecordsStay DEF Packing, imageVars, listVars, WrittenSections
<1>2. Writing /\ Writing'
  BY <1>1 DEF PackInv, SectionStage, Writing, FwJoined, AppJoined
<1>3. \A n : (FwKept(n)' <=> \A i \in DOMAIN sections["FW"] \ n : Kept(memory, sections["FW"][i]))
  BY <1>1 DEF FwKept
<1>4. CASE pkg = "FW"
  <2>1. stage = "sections FW" /\ stage' = "ds APP" /\ FwKept({})
    BY <1>1, <1>4 DEF PackInv, SectionStage, DsStage
  <2>2. FwKept({})'
    BY <1>1, <2>1 DEF FwKept
  <2> QED BY <1>1, <1>2, <2>1, <2>2 DEF PackInv, PackStages
<1>5. CASE pkg = "APP"
  <2>1. stage = "sections APP" /\ stage' = "done" /\ (OnWords(AppRecords) => FwKept({}) /\ AppKept({}))
    BY <1>1, <1>5 DEF PackInv, SectionStage
  <2>2. OnWords(AppRecords) => FwKept({})' /\ AppKept({})'
    BY <1>1, <2>1 DEF FwKept, AppKept
  <2>3. FwJoined' /\ AppJoined'
    BY <1>2 DEF Writing
  <2> QED BY <1>1, <2>1, <2>2, <2>3 DEF PackInv, PackStages
<1> QED BY <1>4, <1>5

LEMMA PackKeeps ==
  ASSUME ImageInv, OrderInv, MovedBetween, SignedInv, PackInv,
         [\/ ImageNext /\ UNCHANGED subVars
          \/ step = "done" /\ SubNext /\ UNCHANGED imageVars]_<<imageVars, subVars>>
  PROVE  PackInv'
<1>1. CASE ImageNext /\ UNCHANGED subVars
  BY <1>1, PackWaits
<1>2. CASE step = "done" /\ SubNext /\ UNCHANGED imageVars
  <2>1. Packing
    BY <1>2 DEF Packing
  <2>2. CASE StartSubDs \/ ParseBin \/ CreateSubDs
    BY <1>2, <2>1, <2>2, PackBegins
  <2>3. CASE ParseRecord \/ ParsedFw
    BY <1>2, <2>1, <2>3, PackParses
  <2>4. CASE StartHcd
    BY <1>2, <2>1, <2>4, PackStarts
  <2>5. ASSUME NEW pkg \in {"FW", "APP"},
               WriteDs(pkg) \/ WrittenSections(pkg) \/ \E n \in left : WriteSection(pkg, n)
        PROVE  PackInv'
    BY <1>2, <2>1, <2>5, PackWritesDs, PackWritten, PackWritesSection
  <2> QED BY <1>2, <2>2, <2>3, <2>4, <2>5 DEF SubNext
<1>3. CASE UNCHANGED <<imageVars, subVars>>
  <2>1. AppRecords' = AppRecords /\ step' = step
    BY <1>3, AppRecordsStay DEF imageVars, listVars
  <2>2. UNCHANGED <<stage, padded, sections, input, files, address, left, memory, hcd>>
    BY <1>3 DEF subVars
  <2>3. (FwJoined' <=> FwJoined) /\ (AppJoined' <=> AppJoined) /\ (Writing' <=> Writing)
    BY <2>1, <2>2 DEF FwJoined, AppJoined, Writing
  <2>4. /\ (FwKept(left)' <=> FwKept(left)) /\ (AppKept(left)' <=> AppKept(left))
        /\ (FwKept({})' <=> FwKept({})) /\ (AppKept({})' <=> AppKept({}))
    BY <2>2 DEF FwKept, AppKept
  <2> QED BY <2>1, <2>2, <2>3, <2>4 DEF PackInv
<1> QED BY <1>1, <1>2, <1>3

(* What a section has of a record is in the memory with it. *)
LEMMA RecordKept ==
  ASSUME NEW all \in Seq(HcdRecord), NEW list, Joins(list, all, Len(all)),
         \A i \in DOMAIN list : Kept(memory, list[i]),
         NEW r \in DOMAIN all, NEW j \in 0..(all[r].len - 1)
  PROVE  memory[all[r].addr + j] = <<all[r].section, all[r].from + j>>
<1>1. r \in 1..Len(all) /\ all[r] \in HcdRecord
  BY LenProperties, ElementOfSeq
<1>2. PICK i \in DOMAIN list : Covers(list[i], all[r])
  BY <1>1 DEF Joins, Covered
<1> DEFINE s == list[i]  x == s.addr  y == Len(s.bytes)  a == all[r].addr  l == all[r].len
           p == a + j - x + 1
<1>3. x \in Nat /\ y \in Nat /\ a \in Nat /\ l \in Nat
  BY <1>1, <1>2, JoinedFacts DEF HcdRecord
<1>4. x <= a /\ a + l <= x + y
  BY <1>2 DEF Covers, End, EndOf
<1>5. p \in 1..y /\ x + p - 1 = a + j
  <2>1. j \in 0..(l - 1)
    OBVIOUS
  <2> HIDE DEF x, y, a, l
  <2>2. p = a + j - x + 1
    OBVIOUS
  <2> HIDE DEF p
  <2> QED BY <1>3, <1>4, <2>1, <2>2
<1>6. s.bytes[p] = <<all[r].section, all[r].from + j>>
  BY <1>2 DEF Covers
<1> HIDE DEF p
<1>7. memory[x + p - 1] = s.bytes[p]
  BY <1>2, <1>5 DEF Kept
<1> QED BY <1>5, <1>6, <1>7

(* The sections of firmware and application are all in the memory at the   *)
(* end: no DS and no padding of a section runs over another section.       *)
THEOREM SectionsSurvive == SubSpec => []SectionsKept
<1>1. SubSpec => [](ImageInv /\ OrderInv /\ MovedBetween)
  BY PackingReads, ImageInductive, OrderInductive, ImageIsLinked, PTL
<1>2. SubSpec => []PackInv
  BY <1>1, PackInit, PackKeeps, SignedInductive, PTL DEF SubSpec
<1>3. ImageInv /\ OrderInv /\ MovedBetween /\ SignedInv /\ PackInv => SectionsKept
  <2> SUFFICES ASSUME ImageInv, OrderInv, MovedBetween, SignedInv, PackInv,
                      hcd, stage = "done", OnWords(AppRecords),
                      NEW records \in {FwRecords, AppRecords}, NEW r \in DOMAIN records,
                      NEW j \in 0..(records[r].len - 1)
               PROVE  memory[records[r].addr + j] = <<records[r].section, records[r].from + j>>
    BY DEF SectionsKept
  <2>1. FwJoined /\ AppJoined /\ FwKept({}) /\ AppKept({}) /\ Packing
    BY DEF PackInv, Packing
  <2>2. CASE records = FwRecords
    <3>1. \A i \in DOMAIN sections["FW"] : Kept(memory, sections["FW"][i])
      BY <2>1 DEF FwKept
    <3> QED BY <2>1, <2>2, <3>1, FwRecordsFacts, RecordKept DEF FwJoined
  <2>3. CASE records = AppRecords
    <3>1. \A i \in DOMAIN sections["APP"] : Kept(memory, sections["APP"][i])
      BY <2>1 DEF AppKept
    <3> QED BY <2>1, <2>3, <3>1, AppFacts, RecordKept DEF AppJoined
  <2> QED BY <2>2, <2>3
<1> QED BY <1>1, <1>2, <1>3, SignedInductive, PTL

==============================================================================
