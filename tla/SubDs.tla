-------------------------------- MODULE SubDs --------------------------------
(***************************************************************************)
(* wiced-create-subds.pl.  The configuration ("DS") of the application is  *)
(* put next to those of the secure part and of the firmware: each becomes  *)
(* a SubDS, with the address at which its signature expects it.  cgs makes *)
(* the image from a list of the three.  For a RAM download in one piece    *)
(* (the options --fwhcd, --apphcd and --hcd_ds_sub_out) the script parses  *)
(* the HCD files of firmware and application and writes a new one: a table *)
(* with the offsets of the SubDS, the SubDS, and the sections that are     *)
(* loaded directly.                                                        *)
(*                                                                         *)
(* Left out are the SS, which is copied, the signing itself (--sign=n      *)
(* copies the files too) and the cutting of a block into HCD records.      *)
(***************************************************************************)
EXTENDS ImageList

CONSTANTS
  DsStart,    (* ConfigDSLocation                                          *)
  SecLen,     (* bytes of --secbin                                         *)
  FwLen,      (* bytes of --fwbin                                          *)
  FwDsLen,    (* bytes of the DS in --fwhcd                                *)
  AppLens,    (* bytes that the DS of the application may have             *)
  FwRecords   (* the other records of --fwhcd                              *)

Pkgs == <<"SEC", "FW", "APP">>

AlignSize == 4
R4Header == 8 + 16 + 3 * 12 + 12
SubHeader == 12

End(record) == record.addr + record.len

(* A record begins with a whole word, or where the one before it ends.  An *)
(* object that aligns .text to less than a word, behind an .app_entry that *)
(* is no whole number of words, leaves a gap shorter than the padding.     *)
OnWords(records) ==
  \A r \in DOMAIN records :
    \/ records[r].addr % AlignSize = 0
    \/ r > 1 /\ records[r].addr = End(records[r - 1])

(* The files of the patch are whole words; its records write no byte twice,*)
(* keep out of the memory that the linker script gives the application,    *)
(* and are in front of the DS.                                             *)
SubDsAssumption ==
  /\ DsStart \in Nat /\ FwDsLen \in Nat /\ AppLens \subseteq Nat
  /\ SecLen \in Nat /\ SecLen % AlignSize = 0
  /\ FwLen \in Nat /\ FwLen % AlignSize = 0
  /\ FwRecords \in Seq([addr : Nat, section : {"patch"}, from : Nat, len : Nat \ {0}])
  /\ OnWords(FwRecords)
  /\ \A i, j \in DOMAIN FwRecords :
       i # j => \/ End(FwRecords[i]) <= FwRecords[j].addr
                \/ End(FwRecords[j]) <= FwRecords[i].addr
  /\ \A i \in DOMAIN FwRecords :
       /\ End(FwRecords[i]) <= FirstFree \/ RamEnd <= FwRecords[i].addr
       /\ End(FwRecords[i]) <= DsStart

ASSUME SubDsAssumption

VARIABLES
  hcd,        (* $hcdActive                                                *)
  appLen,     (* bytes of the application's DS                             *)
  stage,      (* where the script is                                       *)
  padded,     (* BIN_LEN_PADDED of the packages parsed so far              *)
  sign,       (* their SUB_DS_SIGN_ADR                                     *)
  listed,     (* the lengths of the SubDS on the list for cgs              *)
  input,      (* what is left of the HCD file that is being parsed         *)
  sections,   (* SECT_0, SECT_1, ... of firmware and application           *)
  files,      (* the files *_ds.enc, *_0.enc, *_1.enc, ...                 *)
  table,      (* the table of the new HCD file                             *)
  address,    (* $address in create_full_hcd_file                          *)
  left,       (* the sections of the package that are still to be written  *)
  memory      (* what loading the new HCD file has stored                  *)

subVars == <<hcd, appLen, stage, padded, sign, listed, input, sections,
             files, table, address, left, memory>>

SubInit ==
  /\ ImageInit
  /\ hcd = FALSE /\ appLen = 0
  /\ stage = "start" /\ padded = <<>> /\ sign = <<>> /\ listed = <<>>
  /\ input = <<>> /\ sections = [pkg \in {"FW", "APP"} |-> <<>>]
  /\ files = <<>> /\ table = <<>> /\ address = 0 /\ left = {} /\ memory = <<>>

-----------------------------------------------------------------------------

SumOf(lengths) ==
  LET upTo[n \in 0..Len(lengths)] ==
        IF n = 0 THEN 0 ELSE upTo[n - 1] + lengths[n]
  IN  upTo[Len(lengths)]

PadSize(n) == (AlignSize - (n % AlignSize)) % AlignSize
PadUp(n) == n + PadSize(n)

(* The command line, and what IntelHexToBin has made of the DS. *)
StartSubDs ==
  /\ stage = "start" /\ stage' = "bins"
  /\ hcd' \in BOOLEAN /\ appLen' \in AppLens
  /\ UNCHANGED <<padded, sign, listed, input, sections, files, table, address,
                 left, memory>>

FileLen(pkg) ==
  CASE pkg = "SEC" -> SecLen [] pkg = "FW" -> FwLen [] pkg = "APP" -> appLen

(* A slip: the SubDS headers are counted once more. *)
SignAddressHeaders(before) ==
  DsStart + R4Header + SumOf(before) + SubHeader * Len(before)

SignAddress(before) == DsStart + R4Header + SumOf(before)

ParseBin ==
  /\ stage = "bins" /\ Len(padded) < Len(Pkgs)
  /\ padded' = Append(padded, PadUp(FileLen(Pkgs[Len(padded) + 1])))
  /\ sign' = Append(sign, SignAddress(padded))
  /\ UNCHANGED <<hcd, appLen, stage, listed, input, sections, files, table,
                 address, left, memory>>

(* The two files of the patch have their SubDS headers already. *)
CreateSubDs ==
  /\ stage = "bins" /\ Len(padded) = Len(Pkgs)
  /\ listed' = <<SecLen, FwLen, SubHeader + padded[3]>>
  /\ IF hcd THEN stage' = "FW" /\ input' = FwRecords
            ELSE stage' = "done" /\ UNCHANGED input
  /\ UNCHANGED <<hcd, appLen, padded, sign, sections, files, table, address,
                 left, memory>>

-----------------------------------------------------------------------------

(* The bytes of a record, and zeros behind them. *)
BytesOf(record) == [j \in 1..record.len |-> <<record.section, record.from + j - 1>>]

Padded(bytes) == bytes \o [j \in 1..PadSize(Len(bytes)) |-> <<"zero", 0>>]

(* A slip: the length with the padding is compared. *)
ContinuesPadded(list, record) ==
  list # <<>> /\ LET last == list[Len(list)]
                 IN  last.addr + Len(Padded(last.bytes)) = record.addr

(* "NEED TO COALESCE CONTIGOUS BLOCKS OF DATA": the record follows on. *)
Continues(list, record) ==
  list # <<>> /\ LET last == list[Len(list)]
                 IN  last.addr + Len(last.bytes) = record.addr

WithRecord(list, record) ==
  IF Continues(list, record)
  THEN [list EXCEPT ![Len(list)].bytes = @ \o BytesOf(record)]
  ELSE Append(list, [addr |-> record.addr, bytes |-> BytesOf(record)])

ParseRecord ==
  /\ stage \in {"FW", "APP"} /\ input # <<>>
  /\ sections' = [sections EXCEPT ![stage] = WithRecord(@, Head(input))]
  /\ input' = Tail(input)
  /\ UNCHANGED <<hcd, appLen, stage, padded, sign, listed, files, table,
                 address, left, memory>>

(* --apphcd was made of the hex file: the same bytes at the same addresses.*)
AppRecords ==
  LET upTo[n \in 0..Len(hex)] ==
        IF n = 0 THEN <<>>
        ELSE IF hex[n].type # 0 THEN upTo[n - 1]
        ELSE Append(upTo[n - 1],
                    [addr |-> RecordAddress(n), section |-> hex[n].section,
                     from |-> hex[n].from, len |-> hex[n].len])
  IN  upTo[Len(hex)]

ParsedFw ==
  /\ stage = "FW" /\ input = <<>>
  /\ stage' = "APP" /\ input' = AppRecords
  /\ UNCHANGED <<hcd, appLen, padded, sign, listed, sections, files, table,
                 address, left, memory>>

-----------------------------------------------------------------------------

(* A SubDS of so many bytes. *)
Blob(pkg, len) == [j \in 1..len |-> <<pkg, j>>]

SubDsLen(pkg) ==
  IF pkg = "SEC" THEN padded[1]
  ELSE SubHeader + PadUp(IF pkg = "FW" THEN FwDsLen ELSE appLen)

Stored(from, bytes) ==
  [a \in DOMAIN memory \cup from..(from + Len(bytes) - 1) |->
     IF a \in from..(from + Len(bytes) - 1) THEN bytes[a - from + 1] ELSE memory[a]]

(* Only the files of the application are made, and named by their number,  *)
(* or "ds".                                                                *)
SignedFiles ==
  LET list == sections["APP"]
  IN  [name \in {0} \cup DOMAIN list |->
         IF name = 0 THEN Blob("APP", SubDsLen("APP")) ELSE Padded(list[name].bytes)]

DsStage(pkg) == IF pkg = "FW" THEN "ds FW" ELSE "ds APP"
SectionStage(pkg) == IF pkg = "FW" THEN "sections FW" ELSE "sections APP"

(* The files, the table and the SubDS of the secure part. *)
StartHcd ==
  /\ stage = "APP" /\ input = <<>>
  /\ files' = SignedFiles
  /\ table' = [n \in DOMAIN Pkgs |->
                 [len |-> SubDsLen(Pkgs[n]),
                  offset |-> SumOf([j \in 1..(n - 1) |-> SubDsLen(Pkgs[j])])]]
  /\ memory' = Stored(DsStart + R4Header, Blob("SEC", SubDsLen("SEC")))
  /\ address' = DsStart + R4Header + SubDsLen("SEC")
  /\ stage' = DsStage("FW")
  /\ UNCHANGED <<hcd, appLen, padded, sign, listed, input, sections, left>>

(* ENC_NAME of the firmware's DS is the name of the application's. *)
WriteDs(pkg) ==
  /\ stage = DsStage(pkg)
  /\ memory' = Stored(address, files[0])
  /\ address' = address + Len(files[0])
  /\ stage' = SectionStage(pkg) /\ left' = DOMAIN sections[pkg]
  /\ UNCHANGED <<hcd, appLen, padded, sign, listed, input, sections, files, table>>

(* The keys of a hash come in any order.  $address moves, though the       *)
(* sections go elsewhere.                                                  *)
WriteSection(pkg, n) ==
  /\ stage = SectionStage(pkg) /\ n \in left
  /\ LET bytes == IF pkg = "APP" THEN files[n] ELSE Padded(sections[pkg][n].bytes)
     IN  /\ memory' = Stored(sections[pkg][n].addr, bytes)
         /\ address' = address + Len(bytes)
  /\ left' = left \ {n}
  /\ UNCHANGED <<hcd, appLen, stage, padded, sign, listed, input, sections,
                 files, table>>

WrittenSections(pkg) ==
  /\ stage = SectionStage(pkg) /\ left = {}
  /\ stage' = IF pkg = "FW" THEN DsStage("APP") ELSE "done"
  /\ UNCHANGED <<hcd, appLen, padded, sign, listed, input, sections, files,
                 table, address, left, memory>>

SubNext ==
  \/ StartSubDs \/ ParseBin \/ CreateSubDs
  \/ ParseRecord \/ ParsedFw \/ StartHcd
  \/ \E pkg \in {"FW", "APP"} :
       WriteDs(pkg) \/ WrittenSections(pkg) \/ \E n \in left : WriteSection(pkg, n)

(* bt_post_build.bash: the script follows the split. *)
SubSpec ==
  /\ SubInit
  /\ [][\/ ImageNext /\ UNCHANGED subVars
        \/ step = "done" /\ SubNext /\ UNCHANGED imageVars]_<<imageVars, subVars>>

-----------------------------------------------------------------------------
(* Properties. *)

(* In the image that cgs makes of the list, the SubDS one behind the other,*)
(* every SubDS is where its signature expects it.                          *)
SignedWhereLoaded ==
  listed # <<>> =>
    \A n \in DOMAIN Pkgs :
      sign[n] = DsStart + R4Header + SumOf(SubSeq(listed, 1, n - 1))

(* The new HCD file loads the directly loaded sections of firmware and     *)
(* application as the old ones did, in whatever order they are written:    *)
(* unless the linker leaves a gap of less than a word, the padding of one  *)
(* never runs over another.                                                *)
SectionsKept ==
  hcd /\ stage = "done" /\ OnWords(AppRecords) =>
    \A records \in {FwRecords, AppRecords} : \A r \in DOMAIN records :
      \A j \in 0..(records[r].len - 1) :
        memory[records[r].addr + j] = <<records[r].section, records[r].from + j>>

(* "Offset ... Number of bytes past the header where the data starts for   *)
(* this record", of the entries of the table.                              *)
TableFindsSubDs ==
  hcd /\ stage = "done" =>
    \A n \in DOMAIN Pkgs : \A j \in 1..table[n].len :
      LET a == DsStart + R4Header + table[n].offset + j - 1
      IN  a \in DOMAIN memory /\ memory[a] = <<Pkgs[n], j>>

==============================================================================
