----------------------------- MODULE LinkLayout ------------------------------
(***************************************************************************)
(* An application is linked at least twice.  The linker script of          *)
(* bt_pre_build.bash puts it behind the sections that only initialisation  *)
(* needs.  bt_post_build.bash reads from the map how long it came out,     *)
(* has wiced-gen-ld.pl compute a start that moves it up against the area   *)
(* of the ROM firmware, and links again; the map is overwritten, and a     *)
(* post-build that is repeated reads the new one.                          *)
(*                                                                         *)
(* Modelled are the two scripts of wiced-gen-ld.pl (LAYOUT=code_from_top)  *)
(* and what the linker does with them, one output section at a time.       *)
(***************************************************************************)
EXTENDS Integers, Sequences

CONSTANTS
  Align,      (* alignment of each output section, in the script's order:  *)
              (* the script's own, or that of an object if it is larger    *)
  Sizes,      (* the sizes that sections may have                          *)
  FirstFree,  (* POST_INIT_SECTION_IN_SRAM, or where the patch ends        *)
  RamEnd,     (* MPAF_SRAM_AREA                                            *)
  Patches,    (* the default of NUM_PATCH_ENTRIES                          *)
  MaxLinks    (* bound: links of one set of objects                        *)

(* .bss comes first, and the script asks for ALIGN (32); objects do not    *)
(* ask for more.                                                           *)
LinkAssumption ==
  /\ Align \in Seq({1, 2, 4, 8, 16, 32}) /\ Align # <<>> /\ Align[1] = 32
  /\ Sizes \subseteq Nat
  /\ FirstFree \in Nat /\ RamEnd \in Nat /\ Patches \in Nat /\ Patches >= 8
  /\ MaxLinks \in Nat

ASSUME LinkAssumption

VARIABLES
  size,       (* of each section                                           *)
  links,      (* how many links have been started                          *)
  limit,      (* where the memory region "ram" ends                        *)
  dot,        (* the linker's location counter                             *)
  begin,      (* app_iram_begin                                            *)
  k,          (* the next section                                          *)
  at,         (* where the last link put each section                      *)
  mapLength,  (* app_iram_length in the map file                           *)
  pc          (* "script", "place", "linked" or "failed"                   *)

linkVars == <<size, links, limit, dot, begin, k, at, mapLength, pc>>

Index == DOMAIN Align

LinkTypeOK ==
  /\ size \in [Index -> Sizes] /\ links \in Nat
  /\ limit \in Int /\ dot \in Int /\ begin \in Int
  /\ k \in 1..(Len(Align) + 1)
  /\ at \in [Index -> Int] /\ mapLength \in Int
  /\ pc \in {"script", "place", "linked", "failed"}

LinkInit ==
  /\ size \in [Index -> Sizes]
  /\ links = 0 /\ limit = 0 /\ dot = 0 /\ begin = 0 /\ k = 1
  /\ at = [s \in Index |-> 0] /\ mapLength = 0
  /\ pc = "script"

-----------------------------------------------------------------------------

(* x rounded up to a multiple of a. *)
AlignUp(x, a) == ((x + a - 1) \div a) * a

Region(origin, end) ==
  /\ pc = "script" /\ pc' = "place"
  /\ links' = links + 1
  /\ dot' = origin /\ limit' = end /\ k' = 1
  /\ UNCHANGED <<size, begin, at, mapLength>>

(* A slip: nothing is set aside for the patch entries. *)
FirstScriptBare == links = 0 /\ Region(FirstFree, RamEnd)

(* bt_pre_build.bash: no SRAM_LENGTH, and the default of patch entries. *)
FirstScript == links = 0 /\ Region(FirstFree, RamEnd - 4 * Patches)

(* A slip: the start is rounded to a word only. *)
StartWord == ((RamEnd - mapLength - 1) \div 4) * 4

(* "avoid loading right up to" the area, "Round down to 32-byte" *)
Start == ((RamEnd - mapLength - 1) \div 32) * 32

(* bt_post_build.bash: SRAM_LENGTH from the map, NUM_PATCH_ENTRIES=0. *)
NextScript == links > 0 /\ Region(Start, RamEnd)

(* The linker gives up when a section ends outside the region. *)
Place ==
  /\ pc = "place" /\ k <= Len(Align)
  /\ LET here == AlignUp(dot, Align[k])
     IN  /\ at' = [at EXCEPT ![k] = here]
         /\ dot' = here + size[k]
         /\ begin' = IF k = 1 THEN here ELSE begin
         /\ pc' = IF here + size[k] > limit THEN "failed" ELSE "place"
  /\ k' = k + 1
  /\ UNCHANGED <<size, links, limit, mapLength>>

(* The map is written. *)
Placed ==
  /\ pc = "place" /\ k > Len(Align)
  /\ mapLength' = dot - begin /\ pc' = "linked"
  /\ UNCHANGED <<size, links, limit, dot, begin, k, at>>

(* bt_post_build.bash, for the first time or again. *)
PostBuild ==
  /\ pc = "linked" /\ links < MaxLinks
  /\ pc' = "script"
  /\ UNCHANGED <<size, links, limit, dot, begin, k, at, mapLength>>

LinkNext == FirstScript \/ NextScript \/ Place \/ Placed \/ PostBuild

LinkSpec == LinkInit /\ [][LinkNext]_linkVars

-----------------------------------------------------------------------------
(* Properties. *)

(* What has linked once links again: the later links never run out of the  *)
(* region that wiced-gen-ld.pl computed from the length of an earlier one. *)
RelinkNeverFails == links > 1 => pc # "failed"

(* The moved application stays below the area of the ROM firmware, clear   *)
(* of it by at least a byte, and above the sections of the initialisation, *)
(* which are still in use while it is loaded.                              *)
MovedBetween ==
  links > 1 /\ pc = "linked" =>
    /\ FirstFree <= begin /\ dot < RamEnd
    /\ \A s \in Index : begin <= at[s] /\ at[s] + size[s] <= dot

==============================================================================
