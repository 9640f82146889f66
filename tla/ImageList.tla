------------------------------ MODULE ImageList ------------------------------
(***************************************************************************)
(* From the linked application to what is downloaded.  wiced-gen-cgs.pl    *)
(* lists the sections of the ELF file in chunks, after the records of the  *)
(* platform.  For an image that is loaded directly, wiced-split-dl-cgs.pl  *)
(* takes the chunks of the application off the list and turns them into    *)
(* Intel HEX records, which bt_post_build.bash merges with what cgs makes  *)
(* of the rest.  The bytes of a section are told apart by their offset.    *)
(*                                                                         *)
(* Overlays, relocations, the execute-in-place area and always-on memory   *)
(* do not occur: wiced-gen-ld.pl emits no such section for this device.    *)
(***************************************************************************)
EXTENDS LinkLayout, FiniteSets

CONSTANTS
  Names,      (* of the output sections, as Align lists them               *)
  PreInit,    (* gp_wiced_app_pre_init_cfg: the word the patch reads first *)
  Chunk,      (* bytes of a list entry: 0xff00                             *)
  Line,       (* bytes of a line of an entry: 16                           *)
  Segment     (* what the address of a HEX record reaches: 0x10000         *)

PreInitCfg == ".pre_init_cfg"

(* The linker script has each section once, and always one for the setup   *)
(* code; the word for the patch and the log are not the application's.     *)
ImageAssumption ==
  /\ Names \in Seq(STRING) /\ Len(Names) = Len(Align)
  /\ \A m, n \in DOMAIN Names : Names[m] = Names[n] => m = n
  /\ \E n \in DOMAIN Names : Names[n] = ".setup"
  /\ \A n \in DOMAIN Names : Names[n] \notin {PreInitCfg, ".log_section"}
  /\ PreInit \in Nat /\ PreInit >= RamEnd
  /\ Line \in Nat \ {0} /\ Chunk \in Nat /\ Segment \in Nat
  /\ Line < Chunk /\ Chunk < Segment

ASSUME ImageAssumption

VARIABLES
  direct,     (* the argument DIRECT_LOAD                                  *)
  step,       (* "link", "list", "split", "address", "lines" or "done"     *)
  todo,       (* the sections, or the entries, that are still to be done   *)
  cgs,        (* the list; what cgs gets after the split                   *)
  moving,     (* $direct_load_lines                                        *)
  moved,      (* the list _direct_load.cgs                                 *)
  offset,     (* bytes of the first entry of todo that are written         *)
  high,       (* $addr_high                                                *)
  hex         (* the HEX records                                           *)

listVars == <<direct, step, todo, cgs, moving, moved, offset, high, hex>>
imageVars == <<linkVars, listVars>>

ElfOrder == <<PreInitCfg>> \o Names \o <<".log_section">>

Number(s) == CHOOSE n \in Index : Names[n] = s

SizeOf(s) == IF s = PreInitCfg THEN 4 ELSE size[Number(s)]
AddressOf(s) == IF s = PreInitCfg THEN PreInit ELSE at[Number(s)]

Platform == [how |-> "ENTRY", section |-> "BT MPAF FRAMEWORK"]

ImageInit ==
  /\ LinkInit /\ direct \in BOOLEAN
  /\ step = "link" /\ todo = <<>> /\ cgs = <<>>
  /\ moving = FALSE /\ moved = <<>>
  /\ offset = 0 /\ high = 0 /\ hex = <<>>

-----------------------------------------------------------------------------

(* preview_sections: with direct load the setup code comes last. *)
SortedOrder ==
  LET setup == CHOOSE n \in DOMAIN ElfOrder : ElfOrder[n] = ".setup"
  IN  IF direct THEN SubSeq(ElfOrder, 1, setup - 1)
                       \o SubSeq(ElfOrder, setup + 1, Len(ElfOrder)) \o <<".setup">>
                ELSE ElfOrder

(* Sections with contents in the ELF file, and not above 0x81000000. *)
Listed(s) == s \notin {".bss", ".log_section"} /\ SizeOf(s) > 0

ChunkEntry(s, from) ==
  [how |-> IF direct THEN "DIRECT_LOAD" ELSE "ENTRY", section |-> s,
   addr |-> AddressOf(s) + from, from |-> from,
   len |-> IF SizeOf(s) - from > Chunk THEN Chunk ELSE SizeOf(s) - from]

GenCgs ==
  /\ step = "link" /\ pc = "linked" /\ links > 1
  /\ step' = "list" /\ todo' = SortedOrder /\ cgs' = <<Platform>>
  /\ UNCHANGED <<linkVars, direct, moving, moved, offset, high, hex>>

ListSection ==
  /\ step = "list" /\ todo # <<>>
  /\ LET s == Head(todo)
     IN  IF Listed(s)
         THEN cgs' = cgs \o [c \in 1..((SizeOf(s) + Chunk - 1) \div Chunk)
                               |-> ChunkEntry(s, (c - 1) * Chunk)]
         ELSE UNCHANGED cgs
  /\ todo' = Tail(todo)
  /\ UNCHANGED <<linkVars, direct, step, moving, moved, offset, high, hex>>

(* Only a direct-load image is split. *)
StartSplit ==
  /\ step = "list" /\ todo = <<>>
  /\ IF direct THEN step' = "split" /\ todo' = cgs /\ cgs' = <<>>
               ELSE step' = "done" /\ UNCHANGED <<todo, cgs>>
  /\ UNCHANGED <<linkVars, direct, moving, moved, offset, high, hex>>

-----------------------------------------------------------------------------

(* A slip: the configuration word is an entry like any other. *)
MovesAny(entry) == moving \/ entry.how = "DIRECT_LOAD"

(* The mode never ends: that would take a line that begins `ENTRY =`, and  *)
(* the entries are written `ENTRY "<name>" =`.                             *)
Moves(entry) ==
  moving \/ (entry.how = "DIRECT_LOAD" /\ entry.section # PreInitCfg)

SplitEntry ==
  /\ step = "split" /\ todo # <<>>
  /\ LET entry == Head(todo)
     IN  /\ moving' = Moves(entry)
         /\ IF moving' THEN moved' = Append(moved, entry) /\ UNCHANGED cgs
                       ELSE cgs' = Append(cgs, entry) /\ UNCHANGED moved
  /\ todo' = Tail(todo)
  /\ UNCHANGED <<linkVars, direct, step, offset, high, hex>>

StartHex ==
  /\ step = "split" /\ todo = <<>>
  /\ step' = "address" /\ todo' = moved
  /\ UNCHANGED <<linkVars, direct, cgs, moving, moved, offset, high, hex>>

(* What the record is for: the bytes of which section, from which one on.  *)
Data(low, entry, len) ==
  [type |-> 0, low |-> low, section |-> entry.section,
   from |-> entry.from + offset, len |-> len]

(* An extended address record, when the upper half of the address changes. *)
Reach(address) ==
  IF address \div Segment = high THEN <<>>
  ELSE <<[type |-> 4, upper |-> address \div Segment]>>

(* The line "Address" of an entry. *)
HexAddress ==
  /\ step = "address" /\ todo # <<>>
  /\ LET address == Head(todo).addr
     IN  /\ hex' = hex \o Reach(address)
         /\ high' = address \div Segment
  /\ offset' = 0 /\ step' = "lines"
  /\ UNCHANGED <<linkVars, direct, todo, cgs, moving, moved>>

(* A slip: after a line no record is written. *)
AfterLineNothing(address) == <<>>

AfterLine(address) == Reach(address)

(* A line of bytes, in one record though it may cross into the next        *)
(* segment, and $addr moves on.                                            *)
HexLine ==
  /\ step = "lines" /\ offset < Head(todo).len
  /\ LET entry   == Head(todo)
         left    == entry.len - offset
         len     == IF left < Line THEN left ELSE Line
         address == entry.addr + offset
     IN  /\ hex' = hex \o <<Data(address % Segment, entry, len)>> \o AfterLine(address + len)
         /\ high' = (address + len) \div Segment
         /\ offset' = offset + len
  /\ UNCHANGED <<linkVars, direct, step, todo, cgs, moving, moved>>

HexNext ==
  /\ step = "lines" /\ offset = Head(todo).len
  /\ step' = "address" /\ todo' = Tail(todo)
  /\ UNCHANGED <<linkVars, direct, cgs, moving, moved, offset, high, hex>>

HexEnd ==
  /\ step = "address" /\ todo = <<>>
  /\ step' = "done"
  /\ UNCHANGED <<linkVars, direct, todo, cgs, moving, moved, offset, high, hex>>

ImageNext ==
  \/ step = "link" /\ LinkNext /\ UNCHANGED listVars
  \/ GenCgs \/ ListSection \/ StartSplit
  \/ SplitEntry \/ StartHex
  \/ HexAddress \/ HexLine \/ HexNext \/ HexEnd

ImageSpec == ImageInit /\ [][ImageNext]_imageVars

-----------------------------------------------------------------------------
(* Properties. *)

(* A loader reads the records in order: data goes to the upper half that   *)
(* the last extended record gave, 0 before the first, and on from there.   *)
Upper(n) ==
  LET extended == {i \in 1..(n - 1) : hex[i].type = 4}
  IN  IF extended = {} THEN 0
      ELSE hex[CHOOSE i \in extended : \A j \in extended : j <= i].upper

DataRecords == {i \in DOMAIN hex : hex[i].type = 0}

RecordAddress(i) == Upper(i) * Segment + hex[i].low

(* The bytes at address, from the given one of a section on. *)
Bytes(address, section, from, len) ==
  {<<address + j, section, from + j>> : j \in 0..(len - 1)}

InCgs == UNION {Bytes(e.addr, e.section, e.from, e.len) :
                  e \in {cgs[i] : i \in DOMAIN cgs} \ {Platform}}

InHex == UNION {Bytes(RecordAddress(i), hex[i].section, hex[i].from, hex[i].len) :
                  i \in DataRecords}

InElf == UNION {Bytes(AddressOf(ElfOrder[n]), ElfOrder[n], 0, SizeOf(ElfOrder[n])) :
                  n \in {m \in DOMAIN ElfOrder : Listed(ElfOrder[m])}}

(* Nothing is lost, moved or changed on the way through list, split and    *)
(* records: what a loader writes is what the linker placed, every byte of  *)
(* every section with contents at its address, from one of the two files.  *)
ImageWhole ==
  step = "done" => InCgs \cup InHex = InElf /\ InCgs \cap InHex = {}

(* The HEX file is merged with the one that is made from the list, so it   *)
(* must keep to the memory of the application: the configuration word and  *)
(* the records of the platform stay on the list.                           *)
DirectLoadIsApplication ==
  step = "done" =>
    /\ Platform \in {cgs[i] : i \in DOMAIN cgs}
    /\ \A i \in DataRecords :
         begin <= RecordAddress(i) /\ RecordAddress(i) + hex[i].len <= RamEnd

==============================================================================
