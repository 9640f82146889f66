--------------------------- MODULE PostBuildProofs ---------------------------
(***************************************************************************)
(* Proofs about PostBuild, for any products, any number of edits, and any  *)
(* tools that fail and makes that are interrupted at any command.          *)
(*                                                                         *)
(* The argument follows the files from command to command.  Whatever       *)
(* fails, what a command finds was either removed when the post-build      *)
(* began or made since, from an ELF file of the current sources (Clean and *)
(* the checked commands see to that), and an image that is kept from an    *)
(* earlier post-build is newer than the ELF file, hence made from it.      *)
(***************************************************************************)
EXTENDS PostBuild, TLAPS

(* The commands, by stage. *)
Cleaned == {"genld", "relink", "objdump", "gencgs"}
Tools == {"split", "genssds", "genssbin", "gendsbin", "gensubds", "genhex"}
Merging == {"extrahex", "mergedirect", "genhcd"}
Moves == {"ds2_move", "code_move", "file_move"}
Merges == {"ds2_merge", "code_merge", "file_merge"}
Hcds == {"ds2_hcd", "code_hcd", "file_hcd"}
Late == Merging \cup {"dm_move", "dm_cat", "ota", "copy"} \cup Moves \cup Merges \cup Hcds
Linked == {"deps", "clean", "genld", "relink", "gencgs", "program"} \cup Tools \cup Late

Contents == SUBSET (Parts \X (0..MaxVersion))
App == <<"app", source>>
Only(f, parts) == \A p \in file[f] : p[1] \in parts


(* The parts of TypeOK. *)
Scalars ==
  /\ product \in Products /\ source \in 1..MaxVersion
  /\ pc \in Commands \cup {"idle"}
  /\ outcome \in {"none", "done", "skipped", "loaded", "failed"}
  /\ target \in {"build", "program", "qprogram"}

FilesTyped == file \in [Files -> Contents] /\ loaded \in Contents

LoaderInHcd == \A f \in Files \ {"hcd"} : <<"loader", 0>> \notin file[f]

(* The ELF file has the code of one version, the current one once it is    *)
(* linked.                                                                 *)
ElfOK ==
  /\ \A p, q \in file["elf"] : p[1] = "app" /\ q[1] = "app" => p = q
  /\ pc \in Linked => App \in file["elf"]
  /\ pc = "objdump" => file["elf"] = {} \/ App \in file["elf"]

(* The direct-load part enters with MergeDirect. *)
Pure ==
  /\ Only("postld", {"layout"})
  /\ \A f \in {"elf", "cgs", "ssds", "ssbin", "dsbin", "subds"} : Only(f, {"app", "layout"})

(* It is made from the list of this post-build. *)
DirectOK ==
  /\ pc \in Cleaned => file["cgs"] = {}
  /\ pc = "split" => file["cgs"] = {} \/ file["cgs"] = file["elf"]
  /\ pc \in (Tools \ {"split"}) \cup {"extrahex", "mergedirect"} /\ "DIRECT" \in extras
       => file["direct"] \subseteq {<<"direct", source>>}

(* The images are those of this post-build. *)
Fresh ==
  /\ pc \in Cleaned \cup Tools => file["hex"] = {}
  /\ pc \in Cleaned \cup Tools \cup Merging => file["hcd"] = {}
  /\ pc \in Late \cup {"program"} => hexNewer

(* An image newer than the ELF file has the direct-load part of its code.  *)
Current(f) == \A p \in file[f] : p[1] = "direct" => <<"app", p[2]>> \in file["elf"]

DirectsCurrent ==
  /\ hexNewer => Current("hex") /\ Current("hcd")
  /\ pc \in Merges \cup {"dm_cat"} => Current("moved")

Ended ==
  /\ outcome \in {"done", "skipped", "loaded"} => pc = "idle"
  /\ outcome \in {"done", "skipped"} => hexNewer /\ App \in file["elf"]
  /\ outcome = "loaded" => \A p \in loaded : p[1] = "direct" => p[2] = source

(* The two images, behind the loader, are one. *)
Same == file["hcd"] \ {<<"loader", 0>>} = file["hex"]

Agree ==
  /\ pc = "dm_move" => Exists("hex") /\ file["hcd"] = file["hex"]
  /\ pc = "dm_cat" => Exists("hex") /\ file["moved"] = file["hex"]
  /\ pc \in Moves \cup {"ota"} => Exists("hex") /\ Same
  /\ pc \in Merges => Exists("moved")
  /\ pc \in Hcds => Exists("hex")
  /\ pc = "copy" => Exists("hex") /\ Exists("hcd") /\ ({"OTA", "failsafe"} \subseteq extras \/ Same)

Inv == /\ TypeOK /\ ElfOK /\ Pure /\ DirectOK /\ Fresh /\ DirectsCurrent /\ Ended /\ Agree
       /\ DownloadsAgree


LEMMA AfterCases ==
  ASSUME TypeOK, NEW result, After(result)
  PROVE  /\ UNCHANGED <<product, source, loaded, file, hexNewer>>
         /\ \/ target = "build" /\ pc' = "idle" /\ outcome' = result /\ target' = "build"
            \/ target = "program" /\ pc' = "deps" /\ outcome' = outcome /\ target' = "qprogram"
            \/ target = "qprogram" /\ pc' = "program" /\ outcome' = outcome /\ target' = "qprogram"
  BY DEF After, TypeOK

LEMMA PureTyped ==
  /\ Scalars /\ hexNewer \in BOOLEAN /\ FilesTyped /\ LoaderInHcd /\ Pure => TypeOK
  /\ Scalars' /\ hexNewer' \in BOOLEAN /\ FilesTyped' /\ LoaderInHcd' /\ Pure' => TypeOK'
  BY DEF Scalars, FilesTyped, LoaderInHcd, Contents, Pure, Only, TypeOK, Files

LEMMA CommandsListed ==
  {"idle", "prebuild", "link", "deps", "clean", "objdump", "gencgs", "genld", "relink",
   "dm_move", "dm_cat", "ota", "copy", "program"} \cup Tools \cup Merging \cup Moves \cup Merges \cup Hcds
    \subseteq Commands \cup {"idle"}
  BY DEF Commands, Sections, Tools, Merging, Moves, Merges, Hcds


Developing == Edit \/ MakeClean \/ Make \/ Interrupt

Linking == PreBuild \/ Link \/ Depend \/ Clean

Relinking == GenLd \/ Relink \/ Objdump \/ GenCgs

Generating == Split \/ GenSsDs \/ GenSsBin \/ GenDsBin \/ GenSubDs \/ GenHex

Combining == MergeExtraHex \/ MergeDirect \/ GenHcd \/ DmMove \/ DmCat

Adding == MoveAway \/ MergeBack \/ HcdAgain

Ending == Ota \/ Copy

Loading == Program

(* The developer edits, cleans, starts or interrupts make. *)
LEMMA DevelopingKeeps ==
  ASSUME Inv, Developing
  PROVE  Inv'
  <1>1. hexNewer' \in BOOLEAN
    BY DEF Inv, TypeOK, Developing, Edit, MakeClean, Make, Interrupt
  <1> USE DEF Inv, TypeOK, Files, Developing, Edit, MakeClean, Make, Interrupt, NoFiles, Exists,
          rest, extras, mayFail, Cleaned, Tools, Merging, Moves, Merges, Hcds, Late, Linked
  <1>2. Scalars'
    BY PostBuildAssumption, CommandsListed DEF Scalars
  <1>3. FilesTyped'
    BY PostBuildAssumption DEF FilesTyped, Contents, Parts, Sections
  <1>4. LoaderInHcd'
    BY DEF LoaderInHcd, Sections, Agree, Pure, Only
  <1>5. ElfOK'
    BY DEF ElfOK, Pure, Only, App
  <1>6. Pure'
    BY DEF Pure, Only
  <1>7. DirectOK'
    BY DEF DirectOK, ElfOK, Pure, Only, App
  <1>8. Fresh'
    BY DEF Fresh
  <1>9. DirectsCurrent'
    BY DEF DirectsCurrent, Current, ElfOK, Pure, DirectOK, Fresh, Only, App
  <1>10. Ended'
    BY DEF Ended, ElfOK, Fresh, DirectsCurrent, Current, App, Download
  <1>11. Agree'
    BY DEF Agree, Same
  <1>12. DownloadsAgree'
    BY DEF DownloadsAgree, Agree, Same, Ended
  <1> QED
    BY <1>1, <1>2, <1>3, <1>4, <1>5, <1>6, <1>7, <1>8, <1>9, <1>10, <1>11, <1>12, PureTyped

(* make links, and the post-build finds what is to be done. *)
LEMMA LinkingKeeps ==
  ASSUME Inv, Linking
  PROVE  Inv'
  <1>1. hexNewer' \in BOOLEAN
    BY DEF Inv, TypeOK, Linking, PreBuild, Link, Depend, Clean, Checked, Skip
  <1> USE DEF Inv, TypeOK, Files, Linking, PreBuild, Link, Depend, Clean, Checked, With, Skip,
          Exists, UpToDate, rest, extras, mayFail, Cleaned, Tools, Merging, Moves, Merges, Hcds,
          Late, Linked
  <1>2. Scalars'
    BY PostBuildAssumption, CommandsListed DEF Scalars
  <1>3. FilesTyped'
    BY PostBuildAssumption DEF FilesTyped, Contents, Parts, Sections
  <1>4. LoaderInHcd'
    BY DEF LoaderInHcd, Sections, Agree, Pure, Only
  <1>5. ElfOK'
    BY DEF ElfOK, Pure, Only, App
  <1>6. Pure'
    BY DEF Pure, Only
  <1>7. DirectOK'
    BY DEF DirectOK, ElfOK, Pure, Only, App
  <1>8. Fresh'
    BY DEF Fresh
  <1>9. DirectsCurrent'
    BY DEF DirectsCurrent, Current, ElfOK, Pure, DirectOK, Fresh, Only, App
  <1>10. Ended'
    BY DEF Ended, ElfOK, Fresh, DirectsCurrent, Current, App, Download
  <1>11. Agree'
    BY DEF Agree, Same
  <1>12. DownloadsAgree'
    BY DEF DownloadsAgree, Agree, Same, Ended
  <1> QED
    BY <1>1, <1>2, <1>3, <1>4, <1>5, <1>6, <1>7, <1>8, <1>9, <1>10, <1>11, <1>12, PureTyped

(* The image is up to date. *)
LEMMA SkippingKeeps ==
  ASSUME Inv, DependSkip
  PROVE  Inv'
  <1>1. /\ UNCHANGED <<product, source, loaded, file, hexNewer>>
        /\ pc = "deps" /\ Exists("hex") /\ hexNewer
        /\ \/ target = "build" /\ pc' = "idle" /\ outcome' = "skipped" /\ target' = "build"
           \/ target = "program" /\ pc' = "deps" /\ outcome' = outcome /\ target' = "qprogram"
           \/ target = "qprogram" /\ pc' = "program" /\ outcome' = outcome /\ target' = "qprogram"
    BY AfterCases DEF Inv, DependSkip, UpToDate
  <1> USE DEF Inv, TypeOK, Files, Exists, rest, extras, mayFail, Cleaned, Tools, Merging, Moves,
          Merges, Hcds, Late, Linked
  <1>2. Scalars'
    BY <1>1, PostBuildAssumption, CommandsListed DEF Scalars
  <1>3. FilesTyped'
    BY <1>1, PostBuildAssumption DEF FilesTyped, Contents, Parts, Sections
  <1>4. LoaderInHcd'
    BY <1>1 DEF LoaderInHcd, Sections, Agree, Pure, Only
  <1>5. ElfOK'
    BY <1>1 DEF ElfOK, Pure, Only, App
  <1>6. Pure'
    BY <1>1 DEF Pure, Only
  <1>7. DirectOK'
    BY <1>1 DEF DirectOK, ElfOK, Pure, Only, App
  <1>8. Fresh'
    BY <1>1 DEF Fresh
  <1>9. DirectsCurrent'
    BY <1>1 DEF DirectsCurrent, Current, ElfOK, Pure, DirectOK, Fresh, Only, App
  <1>10. Ended'
    BY <1>1 DEF Ended, ElfOK, Fresh, DirectsCurrent, Current, App, Download
  <1>11. Agree'
    BY <1>1 DEF Agree, Same
  <1>12. DownloadsAgree'
    BY <1>1 DEF DownloadsAgree, Agree, Same, Ended
  <1> QED
    BY <1>1, <1>2, <1>3, <1>4, <1>5, <1>6, <1>7, <1>8, <1>9, <1>10, <1>11, <1>12, PureTyped

(* The ELF file is linked again and the list for the generator is made. *)
LEMMA RelinkingKeeps ==
  ASSUME Inv, Relinking
  PROVE  Inv'
  <1>1. hexNewer' \in BOOLEAN
    BY DEF Inv, TypeOK, Relinking, GenLd, Relink, Objdump, GenCgs, Checked, Ignored
  <1> USE DEF Inv, TypeOK, Files, Relinking, GenLd, Relink, Objdump, GenCgs, Checked, Ignored, With,
          Version, Exists, rest, extras, mayFail, Cleaned, Tools, Merging, Moves, Merges, Hcds,
          Late, Linked
  <1>2. Scalars'
    BY PostBuildAssumption, CommandsListed DEF Scalars
  <1>3. FilesTyped'
    BY PostBuildAssumption DEF FilesTyped, Contents, Parts, Sections
  <1>4. LoaderInHcd'
    BY DEF LoaderInHcd, Sections, Agree, Pure, Only
  <1>5. ElfOK'
    BY DEF ElfOK, Pure, Only, App
  <1>6. Pure'
    BY DEF Pure, Only
  <1>7. DirectOK'
    BY DEF DirectOK, ElfOK, Pure, Only, App
  <1>8. Fresh'
    BY DEF Fresh
  <1>9. DirectsCurrent'
    BY DEF DirectsCurrent, Current, ElfOK, Pure, DirectOK, Fresh, Only, App
  <1>10. Ended'
    BY DEF Ended, ElfOK, Fresh, DirectsCurrent, Current, App, Download
  <1>11. Agree'
    BY DEF Agree, Same
  <1>12. DownloadsAgree'
    BY DEF DownloadsAgree, Agree, Same, Ended
  <1> QED
    BY <1>1, <1>2, <1>3, <1>4, <1>5, <1>6, <1>7, <1>8, <1>9, <1>10, <1>11, <1>12, PureTyped

(* The image is made from the list. *)
LEMMA GeneratingKeeps ==
  ASSUME Inv, Generating
  PROVE  Inv'
  <1>1. hexNewer' \in BOOLEAN
    BY DEF Inv, TypeOK, Generating, Split, GenSsDs, GenSsBin, GenDsBin, GenSubDs, GenHex, Checked, Ignored, Skip
  <1> USE DEF Inv, TypeOK, Files, Generating, Split, GenSsDs, GenSsBin, GenDsBin, GenSubDs, GenHex,
          Checked, Ignored, Skip, With, CodeOf, Exists, rest, extras, mayFail, Cleaned, Tools,
          Merging, Moves, Merges, Hcds, Late, Linked
  <1>2. Scalars'
    BY PostBuildAssumption, CommandsListed DEF Scalars
  <1>3. FilesTyped'
    BY PostBuildAssumption DEF FilesTyped, Contents, Parts, Sections
  <1>4. LoaderInHcd'
    BY DEF LoaderInHcd, Sections, Agree, Pure, Only
  <1>5. ElfOK'
    BY DEF ElfOK, Pure, Only, App
  <1>6. Pure'
    BY DEF Pure, Only
  <1>7. DirectOK'
    BY DEF DirectOK, ElfOK, Pure, Only, App
  <1>8. Fresh'
    BY DEF Fresh
  <1>9. DirectsCurrent'
    BY DEF DirectsCurrent, Current, ElfOK, Pure, DirectOK, Fresh, Only, App
  <1>10. Ended'
    BY DEF Ended, ElfOK, Fresh, DirectsCurrent, Current, App, Download
  <1>11. Agree'
    BY DEF Agree, Same
  <1>12. DownloadsAgree'
    BY DEF DownloadsAgree, Agree, Same, Ended
  <1> QED
    BY <1>1, <1>2, <1>3, <1>4, <1>5, <1>6, <1>7, <1>8, <1>9, <1>10, <1>11, <1>12, PureTyped

(* The parts that are merged before, and the loader after, the HCD file. *)
LEMMA CombiningKeeps ==
  ASSUME Inv, Combining
  PROVE  Inv'
  <1>1. hexNewer' \in BOOLEAN
    BY DEF Inv, TypeOK, Combining, MergeExtraHex, MergeDirect, GenHcd, DmMove, DmCat, Checked, Ignored, Skip
  <1> USE DEF Inv, TypeOK, Files, Combining, MergeExtraHex, MergeDirect, GenHcd, DmMove, DmCat,
          Checked, Ignored, Skip, With, Add, Exists, rest, extras, mayFail, Cleaned, Tools, Merging,
          Moves, Merges, Hcds, Late, Linked
  <1>2. Scalars'
    BY PostBuildAssumption, CommandsListed DEF Scalars
  <1>3. FilesTyped'
    BY PostBuildAssumption DEF FilesTyped, Contents, Parts, Sections
  <1>4. LoaderInHcd'
    BY DEF LoaderInHcd, Sections, Agree, Pure, Only
  <1>5. ElfOK'
    BY DEF ElfOK, Pure, Only, App
  <1>6. Pure'
    BY DEF Pure, Only
  <1>7. DirectOK'
    BY DEF DirectOK, ElfOK, Pure, Only, App
  <1>8. Fresh'
    BY DEF Fresh
  <1>9. DirectsCurrent'
    BY DEF DirectsCurrent, Current, ElfOK, Pure, DirectOK, Fresh, Only, App
  <1>10. Ended'
    BY DEF Ended, ElfOK, Fresh, DirectsCurrent, Current, App, Download
  <1>11. Agree'
    BY DEF Agree, Same
  <1>12. DownloadsAgree'
    BY DEF DownloadsAgree, Agree, Same, Ended
  <1> QED
    BY <1>1, <1>2, <1>3, <1>4, <1>5, <1>6, <1>7, <1>8, <1>9, <1>10, <1>11, <1>12, PureTyped

(* The three sections that are added to a finished image. *)
LEMMA AddingKeeps ==
  ASSUME Inv, Adding
  PROVE  Inv'
  <1>1. hexNewer' \in BOOLEAN
    BY DEF Inv, TypeOK, Adding, MoveAway, MergeBack, HcdAgain, Checked, Skip
  <1> USE DEF Inv, TypeOK, Files, Adding, MoveAway, MergeBack, HcdAgain, Checked, Skip, With,
          Sections, Section, CodeOf, Exists, rest, extras, mayFail, Cleaned, Tools, Merging, Moves,
          Merges, Hcds, Late, Linked
  <1>2. Scalars'
    BY PostBuildAssumption, CommandsListed DEF Scalars
  <1>3. FilesTyped'
    BY PostBuildAssumption DEF FilesTyped, Contents, Parts
  <1>4. LoaderInHcd'
    BY DEF LoaderInHcd, Agree, Pure, Only
  <1>5. ElfOK'
    BY DEF ElfOK, Pure, Only, App
  <1>6. Pure'
    BY DEF Pure, Only
  <1>7. DirectOK'
    BY DEF DirectOK, ElfOK, Pure, Only, App
  <1>8. Fresh'
    BY DEF Fresh
  <1>9. DirectsCurrent'
    BY DEF DirectsCurrent, Current, ElfOK, Pure, DirectOK, Fresh, Only, App
  <1>10. Ended'
    BY DEF Ended, ElfOK, Fresh, DirectsCurrent, Current, App, Download
  <1>11. Agree'
    BY DEF Agree, Same
  <1>12. DownloadsAgree'
    BY DEF DownloadsAgree, Agree, Same, Ended
  <1> QED
    BY <1>1, <1>2, <1>3, <1>4, <1>5, <1>6, <1>7, <1>8, <1>9, <1>10, <1>11, <1>12, PureTyped

(* The upgrade image, the copies, and what follows. *)
LEMMA EndingKeeps ==
  ASSUME Inv, Ending
  PROVE  Inv'
  <1>1. hexNewer' \in BOOLEAN
    BY AfterCases DEF Inv, TypeOK, Ending, Ota, Copy, Checked, Skip
  <1> USE DEF Inv, TypeOK, Files, Ending, Ota, Copy, Checked, Skip, With, Exists, rest, extras,
          mayFail, Cleaned, Tools, Merging, Moves, Merges, Hcds, Late, Linked
  <1>2. Scalars'
    BY AfterCases, PostBuildAssumption, CommandsListed DEF Scalars
  <1>3. FilesTyped'
    BY AfterCases, PostBuildAssumption DEF FilesTyped, Contents, Parts, Sections
  <1>4. LoaderInHcd'
    BY AfterCases DEF LoaderInHcd, Sections, Agree, Pure, Only
  <1>5. ElfOK'
    BY AfterCases DEF ElfOK, Pure, Only, App
  <1>6. Pure'
    BY AfterCases DEF Pure, Only
  <1>7. DirectOK'
    BY AfterCases DEF DirectOK, ElfOK, Pure, Only, App
  <1>8. Fresh'
    BY AfterCases DEF Fresh
  <1>9. DirectsCurrent'
    BY AfterCases DEF DirectsCurrent, Current, ElfOK, Pure, DirectOK, Fresh, Only, App
  <1>10. Ended'
    BY AfterCases DEF Ended, ElfOK, Fresh, DirectsCurrent, Current, App, Download
  <1>11. Agree'
    BY AfterCases DEF Agree, Same
  <1>12. DownloadsAgree'
    BY AfterCases DEF DownloadsAgree, Agree, Same, Ended
  <1> QED
    BY <1>1, <1>2, <1>3, <1>4, <1>5, <1>6, <1>7, <1>8, <1>9, <1>10, <1>11, <1>12, PureTyped

(* One of the images is loaded. *)
LEMMA LoadingKeeps ==
  ASSUME Inv, Loading
  PROVE  Inv'
  <1>1. hexNewer' \in BOOLEAN
    BY DEF Inv, TypeOK, Loading, Program
  <1> USE DEF Inv, TypeOK, Files, Loading, Program, Exists, Download, rest, extras, mayFail,
          Cleaned, Tools, Merging, Moves, Merges, Hcds, Late, Linked
  <1>2. Scalars'
    BY PostBuildAssumption, CommandsListed DEF Scalars
  <1>3. FilesTyped'
    BY PostBuildAssumption DEF FilesTyped, Contents, Parts, Sections
  <1>4. LoaderInHcd'
    BY DEF LoaderInHcd, Sections, Agree, Pure, Only
  <1>5. ElfOK'
    BY DEF ElfOK, Pure, Only, App
  <1>6. Pure'
    BY DEF Pure, Only
  <1>7. DirectOK'
    BY DEF DirectOK, ElfOK, Pure, Only, App
  <1>8. Fresh'
    BY DEF Fresh
  <1>9. DirectsCurrent'
    BY DEF DirectsCurrent, Current, ElfOK, Pure, DirectOK, Fresh, Only, App
  <1>10. Ended'
    <2>1. pc = "program" /\ pc' = "idle" /\ hexNewer /\ App \in file["elf"]
      BY DEF Fresh, ElfOK
    <2>2. Current("hex") /\ Current("hcd")
      BY <2>1 DEF DirectsCurrent
    <2>3. \A v : <<"app", v>> \in file["elf"] => v = source
      BY <2>1 DEF ElfOK, App
    <2>4. \A p \in file["hex"] \cup file["hcd"] : p[1] = "direct" => p[2] = source
      BY <2>2, <2>3 DEF Current
    <2> QED
      BY <2>1, <2>4 DEF Ended, App
  <1>11. Agree'
    BY DEF Agree, Same
  <1>12. DownloadsAgree'
    BY DEF DownloadsAgree, Agree, Same, Ended
  <1> QED
    BY <1>1, <1>2, <1>3, <1>4, <1>5, <1>6, <1>7, <1>8, <1>9, <1>10, <1>11, <1>12, PureTyped

LEMMA StutterKeeps ==
  ASSUME Inv, UNCHANGED vars
  PROVE  Inv'
  BY DEF Inv, vars, TypeOK, ElfOK, Pure, Only, DirectOK, Fresh, DirectsCurrent, Current, Ended, Agree,
         Same, Exists, DownloadsAgree, App, extras

LEMMA InitInv == Init => Inv
  <1> SUFFICES ASSUME Init
               PROVE  Inv
    OBVIOUS
  <1>1. TypeOK
    <2>1. hexNewer \in BOOLEAN
      BY DEF Init
    <2>2. Scalars
      BY PostBuildAssumption DEF Init, Scalars
    <2>3. \A f \in Files : file[f] = {}
      BY DEF Init, NoFiles
    <2>4. FilesTyped
      BY DEF Init, NoFiles, FilesTyped, Contents
    <2>5. LoaderInHcd /\ Pure
      BY <2>3 DEF Files, LoaderInHcd, Pure, Only
    <2> QED
      BY <2>1, <2>2, <2>4, <2>5, PureTyped
  <1>2. ElfOK /\ Pure /\ DirectOK /\ Fresh
    BY DEF Init, NoFiles, Files, ElfOK, Pure, Only, DirectOK, Fresh, Linked, Cleaned, Tools, Merging,
           Moves, Merges, Hcds, Late
  <1>3. DirectsCurrent /\ Ended /\ Agree /\ DownloadsAgree
    BY DEF Init, NoFiles, Files, DirectsCurrent, Current, Ended, Agree, DownloadsAgree, Merges, Moves, Hcds
  <1> QED
    BY <1>1, <1>2, <1>3 DEF Inv

LEMMA NextKeeps ==
  ASSUME Inv, Next
  PROVE  Inv'
  BY DevelopingKeeps, LinkingKeeps, SkippingKeeps, RelinkingKeeps, GeneratingKeeps, CombiningKeeps,
     AddingKeeps, EndingKeeps, LoadingKeeps
  DEF Next, Developing, Linking, Relinking, Generating, Combining, Adding, Ending, Loading

LEMMA InvHolds == Spec => []Inv
  <1>1. Inv /\ [Next]_vars => Inv'
    BY NextKeeps, StutterKeeps
  <1> QED
    BY InitInv, <1>1, PTL DEF Spec

-----------------------------------------------------------------------------

(* Files hold parts of versions the sources have had, the loader is in no  *)
(* file but the HCD file, the direct-load part neither in the ELF file nor *)
(* in the list for the image generator.                                    *)
THEOREM BuildTyped == Spec => []TypeOK
  BY InvHolds, PTL DEF Inv

(* Whichever tools fail and whenever make is interrupted, a post-build     *)
(* that reports completion leaves two download files that are one image.   *)
THEOREM ImagesAgree == Spec => []DownloadsAgree
  BY InvHolds, PTL DEF Inv

LEMMA InvDirect ==
  ASSUME Inv
  PROVE  DirectCurrent
  <1>1. CASE outcome = "loaded"
    BY <1>1 DEF Inv, Ended, DirectCurrent
  <1>2. CASE outcome \in {"done", "skipped"}
    <2>1. App \in file["elf"] /\ Current("hex")
      BY <1>2 DEF Inv, Ended, DirectsCurrent
    <2>2. \A v : <<"app", v>> \in file["elf"] => v = source
      BY <2>1 DEF Inv, ElfOK, App
    <2> QED
      BY <1>2, <2>1, <2>2 DEF Current, DirectCurrent
  <1> QED
    BY <1>1, <1>2 DEF DirectCurrent

(* Whichever tools fail and whenever make is interrupted, no direct-load   *)
(* part of old code is in an image reported complete or in the device.     *)
THEOREM DirectAlwaysCurrent == Spec => []DirectCurrent
  BY InvHolds, InvDirect, PTL


-----------------------------------------------------------------------------
(***************************************************************************)
(* What a build leaves when no tool fails, for any products without a      *)
(* fail-safe application and without both a loader and a section that is   *)
(* added after it, and for any number of edits and makes.                  *)
(*                                                                         *)
(* On top of what holds whatever fails, the content of each file is known  *)
(* at each command: the words whose commands are done are in it, and       *)
(* nothing else is.                                                        *)
(***************************************************************************)

Base(v) == {<<"app", v>>, <<"layout", v>>}

Asked(words, word, v) == IF word \in words THEN ForWord(word, v) ELSE {}
WithExtra(words, v) == Base(v) \cup Asked(words, "extrahex", v)
WithDirect(words, v) == WithExtra(words, v) \cup Asked(words, "DIRECT", v)
WithDs2(words, v) == WithDirect(words, v) \cup Asked(words, "_APPDS2_", v)
WithCode(words, v) == WithDs2(words, v) \cup Asked(words, "in_code", v)
WithFile(words, v) == WithCode(words, v) \cup Asked(words, "in_file", v)

LoaderOf(words) == IF "_DM_" \in words THEN {<<"loader", 0>>} ELSE {}

(* No fail-safe application, which has an image of its own, and not both a *)
(* loader and a section that is added after it (see LoaderMerged).         *)
Plain(p) ==
  /\ ~({"OTA", "failsafe"} \subseteq p.extras)
  /\ "_DM_" \in p.extras => {"_APPDS2_", "in_code", "in_file"} \cap p.extras = {}

(* The theorems are about sets of products of which those with sound tools *)
(* are plain.                                                              *)
AllPlain == \A p \in Products : ~p.mayFail => Plain(p)

-----------------------------------------------------------------------------
(* The invariant. *)

ElfBuilt ==
  /\ \A p, q \in file["elf"] : p[2] = q[2]
  /\ pc \in {"relink", "objdump", "gencgs"} => file["postld"] = {<<"layout", source>>}
  /\ pc \in {"objdump", "gencgs"} \cup Tools \cup Late => file["elf"] = Base(source)

Chain ==
  /\ pc \in Tools => file["cgs"] = Base(source)
  /\ pc \in (Tools \ {"split"}) \cup {"extrahex", "mergedirect"} /\ "DIRECT" \in extras
       => file["direct"] = {<<"direct", source>>}
  /\ pc \in Tools \ {"split", "genssds"} => file["ssds"] = Base(source)
  /\ pc \in {"gendsbin", "gensubds", "genhex"} => file["ssbin"] = Base(source)
  /\ pc \in {"gensubds", "genhex"} => file["dsbin"] = Base(source)
  /\ pc = "genhex" => file["subds"] = Base(source)

Wanted ==
  /\ \A s \in Sections : pc \in {s.merge, s.hcd} => s.word \in extras
  /\ pc = "dm_cat" => "_DM_" \in extras

HexBuilt ==
  /\ pc = "extrahex" => file["hex"] = Base(source)
  /\ pc = "mergedirect" => file["hex"] = WithExtra(extras, source)
  /\ pc \in {"genhcd", "dm_move", "dm_cat", "ds2_move"} => file["hex"] = WithDirect(extras, source)
  /\ pc = "ds2_merge" => file["moved"] = WithDirect(extras, source)
  /\ pc \in {"ds2_hcd", "code_move"} => file["hex"] = WithDs2(extras, source)
  /\ pc = "code_merge" => file["moved"] = WithDs2(extras, source)
  /\ pc \in {"code_hcd", "file_move"} => file["hex"] = WithCode(extras, source)
  /\ pc = "file_merge" => file["moved"] = WithCode(extras, source)
  /\ pc \in {"file_hcd", "ota", "copy", "program"} => file["hex"] = WithFile(extras, source)

HcdBuilt ==
  /\ pc = "dm_move" => file["hcd"] = file["hex"]
  /\ pc = "dm_cat" => file["moved"] = file["hex"]
  /\ pc \in Moves \cup {"ota", "copy", "program"} => file["hcd"] = file["hex"] \cup LoaderOf(extras)

(* Images kept from an earlier post-build. *)
Before == {"idle", "prebuild", "link", "deps"}

Kept ==
  pc \in Before /\ hexNewer /\ Exists("hex") =>
    \A v \in 1..MaxVersion : <<"app", v>> \in file["elf"] =>
      /\ file["hex"] = WithFile(extras, v)
      /\ file["hcd"] = WithFile(extras, v) \cup LoaderOf(extras)

EndedWell ==
  /\ outcome \in {"done", "skipped"} =>
       /\ file["hex"] = WithFile(extras, source)
       /\ file["hcd"] = WithFile(extras, source) \cup LoaderOf(extras)
  /\ outcome = "loaded" => loaded = WithFile(extras, source) \cup LoaderOf(extras)

Built == ElfBuilt /\ Chain /\ Wanted /\ HexBuilt /\ HcdBuilt /\ Kept /\ EndedWell

Sound == Inv /\ Built /\ ~mayFail /\ Plain(product)

-----------------------------------------------------------------------------

LEMMA BaseIs ==
  \A v : /\ Base(v) # {}
         /\ \A p : p \in Base(v) <=> p = <<"app", v>> \/ p = <<"layout", v>>
  BY DEF Base

LEMMA WordsAdd ==
  \A words, v :
    /\ WithExtra(words, v) = IF "extrahex" \in words THEN Base(v) \cup {<<"extrahex", 0>>} ELSE Base(v)
    /\ WithDirect(words, v) = IF "DIRECT" \in words
                              THEN WithExtra(words, v) \cup {<<"direct", v>>} ELSE WithExtra(words, v)
    /\ WithDs2(words, v) = IF "_APPDS2_" \in words
                           THEN WithDirect(words, v) \cup {<<"ds2", 0>>} ELSE WithDirect(words, v)
    /\ WithCode(words, v) = IF "in_code" \in words
                            THEN WithDs2(words, v) \cup {<<"static", v>>} ELSE WithDs2(words, v)
    /\ WithFile(words, v) = IF "in_file" \in words
                            THEN WithCode(words, v) \cup {<<"static", 0>>} ELSE WithCode(words, v)
  BY DEF WithExtra, WithDirect, WithDs2, WithCode, WithFile, Asked, ForWord

-----------------------------------------------------------------------------
(* One command at a time. *)

LEMMA PreBuildBuilds ==
  ASSUME Sound, PreBuild
  PROVE  Built'
  <1>1. CASE Exists("ld")
    <2>1. /\ pc = "prebuild" /\ pc' = "link" /\ UNCHANGED <<product, source, loaded, outcome>>
          /\ UNCHANGED <<file, hexNewer>>
      BY <1>1 DEF PreBuild, Checked, With, Skip, Exists, rest, extras
    <2>2. \A f \in Files : file'[f] = file[f]
      BY <2>1
    <2>3. ElfBuilt'
      BY <2>1 DEF Sound, Built, ElfBuilt, Tools, Late, Merging, Moves, Merges, Hcds
    <2>4. Chain'
      BY <2>1 DEF Chain, Tools
    <2>5. Wanted'
      BY <2>1 DEF Wanted, Sections
    <2>6. HexBuilt'
      BY <2>1 DEF HexBuilt
    <2>7. HcdBuilt'
      BY <2>1 DEF HcdBuilt, Moves
    <2>8. Kept'
      BY <2>1 DEF Sound, Built, Kept, Before, extras, Exists
    <2>9. EndedWell'
      BY <2>1 DEF Sound, Built, EndedWell, extras
    <2> QED
      BY <2>3, <2>4, <2>5, <2>6, <2>7, <2>8, <2>9 DEF Built
  <1>2. CASE ~Exists("ld")
    <2>1. /\ pc = "prebuild" /\ pc' = "link" /\ UNCHANGED <<product, source, loaded, outcome>>
          /\ hexNewer' = hexNewer
          /\ file' = [file EXCEPT !["ld"] = {<<"layout", source>>}]
      BY <1>2 DEF Sound, PreBuild, Checked, With, Skip, Exists, rest, mayFail, extras
    <2>2. /\ file'["ld"] = {<<"layout", source>>}
          /\ \A f \in Files \ {"ld"} : file'[f] = file[f]
      BY <2>1 DEF Sound, Inv, TypeOK, Files
    <2>3. ElfBuilt'
      BY <2>1 DEF Sound, Built, ElfBuilt, Tools, Late, Merging, Moves, Merges, Hcds
    <2>4. Chain'
      BY <2>1 DEF Chain, Tools
    <2>5. Wanted'
      BY <2>1 DEF Wanted, Sections
    <2>6. HexBuilt'
      BY <2>1 DEF HexBuilt
    <2>7. HcdBuilt'
      BY <2>1 DEF HcdBuilt, Moves
    <2>8. Kept'
      BY <2>1 DEF Sound, Built, Kept, Before, extras, Exists
    <2>9. EndedWell'
      BY <2>1 DEF Sound, Built, EndedWell, extras
    <2> QED
      BY <2>3, <2>4, <2>5, <2>6, <2>7, <2>8, <2>9 DEF Built
  <1> QED
    BY <1>1, <1>2

LEMMA LinkBuilds ==
  ASSUME Sound, Link
  PROVE  Built'
  <1>1. CASE App \in file["elf"]
    <2>1. /\ pc = "link" /\ pc' = "deps" /\ UNCHANGED <<product, source, loaded, outcome>>
          /\ UNCHANGED <<file, hexNewer>>
      BY <1>1 DEF Link, Skip, With, App, rest, extras
    <2>2. \A f \in Files : file'[f] = file[f]
      BY <2>1
    <2>3. ElfBuilt'
      BY <2>1 DEF Sound, Built, ElfBuilt, Tools, Late, Merging, Moves, Merges, Hcds
    <2>4. Chain'
      BY <2>1 DEF Chain, Tools
    <2>5. Wanted'
      BY <2>1 DEF Wanted, Sections
    <2>6. HexBuilt'
      BY <2>1 DEF HexBuilt
    <2>7. HcdBuilt'
      BY <2>1 DEF HcdBuilt, Moves
    <2>8. Kept'
      BY <2>1 DEF Sound, Built, Kept, Before, extras, Exists
    <2>9. EndedWell'
      BY <2>1 DEF Sound, Built, EndedWell, extras
    <2> QED
      BY <2>3, <2>4, <2>5, <2>6, <2>7, <2>8, <2>9 DEF Built
  <1>2. CASE App \notin file["elf"]
    <2>1. /\ pc = "link" /\ pc' = "deps" /\ UNCHANGED <<product, source, loaded, outcome>>
          /\ ~hexNewer'
          /\ file' = [file EXCEPT !["elf"] = {App}]
      BY <1>2 DEF Sound, Link, Skip, With, App, rest, mayFail, extras
    <2>2. /\ file'["elf"] = {App}
          /\ \A f \in Files \ {"elf"} : file'[f] = file[f]
      BY <2>1 DEF Sound, Inv, TypeOK, Files
    <2>3. \A p, q \in {App} : p[2] = q[2]
      OBVIOUS
    <2>4. ElfBuilt'
      BY <2>1, <2>2, <2>3 DEF ElfBuilt, Tools, Late, Merging, Moves, Merges, Hcds, Files
    <2>5. Chain'
      BY <2>1 DEF Chain, Tools
    <2>6. Wanted'
      BY <2>1 DEF Wanted, Sections
    <2>7. HexBuilt'
      BY <2>1 DEF HexBuilt
    <2>8. HcdBuilt'
      BY <2>1 DEF HcdBuilt, Moves
    <2>9. Kept'
      BY <2>1 DEF Kept, Before
    <2>10. EndedWell'
      BY <2>1 DEF Sound, Built, EndedWell, extras
    <2> QED
      BY <2>4, <2>5, <2>6, <2>7, <2>8, <2>9, <2>10 DEF Built
  <1> QED
    BY <1>1, <1>2

LEMMA DependBuilds ==
  ASSUME Sound, Depend
  PROVE  Built'
  <1>1. /\ pc = "deps" /\ pc' = "clean" /\ UNCHANGED <<product, source, loaded, outcome>>
        /\ UNCHANGED <<file, hexNewer>>
    BY DEF Depend, Skip, rest, extras
  <1>2. \A f \in Files : file'[f] = file[f]
    BY <1>1
  <1>3. ElfBuilt'
    BY <1>1 DEF Sound, Built, ElfBuilt, Tools, Late, Merging, Moves, Merges, Hcds
  <1>4. Chain'
    BY <1>1 DEF Chain, Tools
  <1>5. Wanted'
    BY <1>1 DEF Wanted, Sections
  <1>6. HexBuilt'
    BY <1>1 DEF HexBuilt
  <1>7. HcdBuilt'
    BY <1>1 DEF HcdBuilt, Moves
  <1>8. Kept'
    BY <1>1 DEF Kept, Before
  <1>9. EndedWell'
    BY <1>1 DEF Sound, Built, EndedWell, extras
  <1> QED
    BY <1>3, <1>4, <1>5, <1>6, <1>7, <1>8, <1>9 DEF Built

LEMMA CleanBuilds ==
  ASSUME Sound, Clean
  PROVE  Built'
  <1>1. /\ pc = "clean" /\ pc' = "genld" /\ UNCHANGED <<product, source, loaded, outcome>>
        /\ hexNewer' = hexNewer
        /\ file' = [file EXCEPT !["hex"] = {}, !["hcd"] = {}, !["cgs"] = {}]
    BY DEF Clean, rest, extras
  <1>2. /\ file'["hex"] = {}
        /\ file'["hcd"] = {}
        /\ file'["cgs"] = {}
        /\ \A f \in Files \ {"hex", "hcd", "cgs"} : file'[f] = file[f]
    BY <1>1 DEF Sound, Inv, TypeOK, Files
  <1>3. ElfBuilt'
    BY <1>1, <1>2 DEF Sound, Built, ElfBuilt, Tools, Late, Merging, Moves, Merges, Hcds, Files
  <1>4. Chain'
    BY <1>1 DEF Chain, Tools
  <1>5. Wanted'
    BY <1>1 DEF Wanted, Sections
  <1>6. HexBuilt'
    BY <1>1 DEF HexBuilt
  <1>7. HcdBuilt'
    BY <1>1 DEF HcdBuilt, Moves
  <1>8. Kept'
    BY <1>1 DEF Kept, Before
  <1>9. EndedWell'
    BY <1>1, <1>2 DEF Sound, Built, EndedWell, extras, Files, Inv, Ended
  <1> QED
    BY <1>3, <1>4, <1>5, <1>6, <1>7, <1>8, <1>9 DEF Built

LEMMA GenLdBuilds ==
  ASSUME Sound, GenLd
  PROVE  Built'
  <1>1. /\ pc = "genld" /\ pc' = "relink" /\ UNCHANGED <<product, source, loaded, outcome>>
        /\ hexNewer' = hexNewer
        /\ file' = [file EXCEPT !["postld"] = {<<"layout", v>> : v \in Version("elf")}]
    BY DEF Sound, GenLd, Ignored, With, rest, mayFail, extras
  <1>2. /\ file'["postld"] = {<<"layout", v>> : v \in Version("elf")}
        /\ \A f \in Files \ {"postld"} : file'[f] = file[f]
    BY <1>1 DEF Sound, Inv, TypeOK, Files
  <1>3. Version("elf") = {source}
    <2>1. pc \in Linked
      BY <1>1 DEF Linked
    <2>2. App \in file["elf"]
      BY <2>1 DEF Sound, Inv, ElfOK
    <2> QED
      BY <2>2 DEF Sound, Built, ElfBuilt, Version, App
  <1>4. file'["postld"] = {<<"layout", source>>}
    BY <1>2, <1>3
  <1>5. ElfBuilt'
    BY <1>1, <1>2, <1>3, <1>4 DEF Sound, Built, ElfBuilt, Tools, Late, Merging, Moves, Merges,
       Hcds, Files
  <1>6. Chain'
    BY <1>1 DEF Chain, Tools
  <1>7. Wanted'
    BY <1>1 DEF Wanted, Sections
  <1>8. HexBuilt'
    BY <1>1 DEF HexBuilt
  <1>9. HcdBuilt'
    BY <1>1 DEF HcdBuilt, Moves
  <1>10. Kept'
    BY <1>1 DEF Kept, Before
  <1>11. EndedWell'
    BY <1>1 DEF Sound, Built, EndedWell, extras
  <1> QED
    BY <1>5, <1>6, <1>7, <1>8, <1>9, <1>10, <1>11 DEF Built

LEMMA RelinkBuilds ==
  ASSUME Sound, Relink
  PROVE  Built'
  <1>1. pc = "relink" /\ App \in file["elf"] /\ file["postld"] = {<<"layout", source>>}
    BY DEF Sound, Relink, Inv, ElfOK, Linked, Built, ElfBuilt
  <1>2. /\ pc = "relink" /\ pc' = "objdump" /\ UNCHANGED <<product, source, loaded, outcome>>
        /\ ~hexNewer'
        /\ file' = [file EXCEPT !["elf"] = {p \in file["elf"] : p[1] = "app"} \cup file["postld"]]
    BY <1>1 DEF Sound, Relink, With, Exists, rest, mayFail, extras
  <1>3. /\ file'["elf"] = {p \in file["elf"] : p[1] = "app"} \cup file["postld"]
        /\ \A f \in Files \ {"elf"} : file'[f] = file[f]
    BY <1>2 DEF Sound, Inv, TypeOK, Files
  <1>4. {p \in file["elf"] : p[1] = "app"} = {App}
    BY <1>1 DEF Sound, Inv, ElfOK, App
  <1>5. file'["elf"] = Base(source)
    BY <1>1, <1>2, <1>3, <1>4 DEF App, Base
  <1>6. \A p, q \in file'["elf"] : p[2] = q[2]
    BY <1>5, BaseIs
  <1>7. ElfBuilt'
    BY <1>2, <1>3, <1>4, <1>5, <1>6 DEF Sound, Built, ElfBuilt, Tools, Late, Merging, Moves,
       Merges, Hcds, Files
  <1>8. Chain'
    BY <1>2 DEF Chain, Tools
  <1>9. Wanted'
    BY <1>2 DEF Wanted, Sections
  <1>10. HexBuilt'
    BY <1>2 DEF HexBuilt
  <1>11. HcdBuilt'
    BY <1>2 DEF HcdBuilt, Moves
  <1>12. Kept'
    BY <1>2 DEF Kept, Before
  <1>13. EndedWell'
    BY <1>2 DEF Sound, Built, EndedWell, extras
  <1> QED
    BY <1>7, <1>8, <1>9, <1>10, <1>11, <1>12, <1>13 DEF Built

LEMMA ObjdumpBuilds ==
  ASSUME Sound, Objdump
  PROVE  Built'
  <1>1. pc = "objdump" /\ file["elf"] = Base(source) /\ Base(source) # {}
    BY BaseIs DEF Sound, Objdump, Checked, Built, ElfBuilt
  <1>2. /\ pc = "objdump" /\ pc' = "gencgs" /\ UNCHANGED <<product, source, loaded, outcome>>
        /\ UNCHANGED <<file, hexNewer>>
    BY <1>1 DEF Sound, Objdump, Checked, Exists, rest, mayFail, extras
  <1>3. \A f \in Files : file'[f] = file[f]
    BY <1>2
  <1>4. ElfBuilt'
    BY <1>2 DEF Sound, Built, ElfBuilt, Tools, Late, Merging, Moves, Merges, Hcds
  <1>5. Chain'
    BY <1>2 DEF Chain, Tools
  <1>6. Wanted'
    BY <1>2 DEF Wanted, Sections
  <1>7. HexBuilt'
    BY <1>2 DEF HexBuilt
  <1>8. HcdBuilt'
    BY <1>2 DEF HcdBuilt, Moves
  <1>9. Kept'
    BY <1>2 DEF Kept, Before
  <1>10. EndedWell'
    BY <1>2 DEF Sound, Built, EndedWell, extras
  <1> QED
    BY <1>4, <1>5, <1>6, <1>7, <1>8, <1>9, <1>10 DEF Built

LEMMA GenCgsBuilds ==
  ASSUME Sound, GenCgs
  PROVE  Built'
  <1>1. /\ pc = "gencgs" /\ file["elf"] = Base(source) /\ Base(source) # {}
        /\ file["postld"] = {<<"layout", source>>}
    BY BaseIs DEF Sound, GenCgs, Ignored, Built, ElfBuilt
  <1>2. /\ pc = "gencgs" /\ pc' = "split" /\ UNCHANGED <<product, source, loaded, outcome>>
        /\ hexNewer' = hexNewer
        /\ file' = [file EXCEPT !["cgs"] = file["elf"]]
    BY <1>1 DEF Sound, GenCgs, Ignored, With, Exists, rest, mayFail, extras
  <1>3. /\ file'["cgs"] = file["elf"]
        /\ \A f \in Files \ {"cgs"} : file'[f] = file[f]
    BY <1>2 DEF Sound, Inv, TypeOK, Files
  <1>4. ElfBuilt'
    BY <1>2 DEF Sound, Built, ElfBuilt, Tools, Late, Merging, Moves, Merges, Hcds
  <1>5. Chain'
    BY <1>1, <1>2, <1>3 DEF Chain, Tools, extras, Files
  <1>6. Wanted'
    BY <1>2 DEF Wanted, Sections
  <1>7. HexBuilt'
    BY <1>2 DEF HexBuilt
  <1>8. HcdBuilt'
    BY <1>2 DEF HcdBuilt, Moves
  <1>9. Kept'
    BY <1>2 DEF Kept, Before
  <1>10. EndedWell'
    BY <1>2 DEF Sound, Built, EndedWell, extras
  <1> QED
    BY <1>4, <1>5, <1>6, <1>7, <1>8, <1>9, <1>10 DEF Built

LEMMA SplitBuilds ==
  ASSUME Sound, Split
  PROVE  Built'
  <1>1. pc = "split" /\ file["cgs"] = Base(source) /\ Base(source) # {}
    BY BaseIs DEF Sound, Split, Checked, Skip, extras, Built, Chain, Tools
  <1>2. CASE "DIRECT" \in extras
    <2>1. /\ pc = "split" /\ pc' = "genssds" /\ UNCHANGED <<product, source, loaded, outcome>>
          /\ hexNewer' = hexNewer
          /\ file' = [file EXCEPT !["direct"] = CodeOf("cgs", "direct")]
      BY <1>1, <1>2 DEF Sound, Split, Checked, Skip, With, Exists, rest, mayFail, extras
    <2>2. /\ file'["direct"] = CodeOf("cgs", "direct")
          /\ \A f \in Files \ {"direct"} : file'[f] = file[f]
      BY <2>1 DEF Sound, Inv, TypeOK, Files
    <2>3. file'["direct"] = {<<"direct", source>>}
      <3>1. {q \in Base(source) : q[1] = "app"} = {<<"app", source>>}
        BY DEF Base
      <3>2. {p[2] : p \in {<<"app", source>>}} = {source}
        OBVIOUS
      <3> QED
        BY <1>1, <2>2, <3>1, <3>2 DEF CodeOf
    <2>4. ElfBuilt'
      BY <2>1 DEF Sound, Built, ElfBuilt, Tools, Late, Merging, Moves, Merges, Hcds
    <2>5. Chain'
      BY <2>1, <2>2, <2>3 DEF Sound, Built, Chain, Tools, extras, Files
    <2>6. Wanted'
      BY <2>1 DEF Wanted, Sections
    <2>7. HexBuilt'
      BY <2>1 DEF HexBuilt
    <2>8. HcdBuilt'
      BY <2>1 DEF HcdBuilt, Moves
    <2>9. Kept'
      BY <2>1 DEF Kept, Before
    <2>10. EndedWell'
      BY <2>1 DEF Sound, Built, EndedWell, extras
    <2> QED
      BY <2>4, <2>5, <2>6, <2>7, <2>8, <2>9, <2>10 DEF Built
  <1>3. CASE "DIRECT" \notin extras
    <2>1. /\ pc = "split" /\ pc' = "genssds" /\ UNCHANGED <<product, source, loaded, outcome>>
          /\ UNCHANGED <<file, hexNewer>>
      BY <1>3 DEF Split, Checked, Skip, With, Exists, rest, extras
    <2>2. \A f \in Files : file'[f] = file[f]
      BY <2>1
    <2>3. ElfBuilt'
      BY <2>1 DEF Sound, Built, ElfBuilt, Tools, Late, Merging, Moves, Merges, Hcds
    <2>4. Chain'
      BY <1>1, <1>3, <2>1, <2>2 DEF Sound, Built, Chain, Tools, extras, Files, Inv, Ended
    <2>5. Wanted'
      BY <2>1 DEF Wanted, Sections
    <2>6. HexBuilt'
      BY <2>1 DEF HexBuilt
    <2>7. HcdBuilt'
      BY <2>1 DEF HcdBuilt, Moves
    <2>8. Kept'
      BY <2>1 DEF Kept, Before
    <2>9. EndedWell'
      BY <2>1 DEF Sound, Built, EndedWell, extras
    <2> QED
      BY <2>3, <2>4, <2>5, <2>6, <2>7, <2>8, <2>9 DEF Built
  <1> QED
    BY <1>2, <1>3

LEMMA GenSsDsBuilds ==
  ASSUME Sound, GenSsDs
  PROVE  Built'
  <1>1. pc = "genssds" /\ file["cgs"] = Base(source) /\ Base(source) # {}
    BY BaseIs DEF Sound, GenSsDs, Built, Chain, Tools
  <1>2. /\ pc = "genssds" /\ pc' = "genssbin" /\ UNCHANGED <<product, source, loaded, outcome>>
        /\ hexNewer' = hexNewer
        /\ file' = [file EXCEPT !["ssds"] = file["cgs"]]
    BY <1>1 DEF Sound, GenSsDs, With, Exists, rest, mayFail, extras
  <1>3. /\ file'["ssds"] = file["cgs"]
        /\ \A f \in Files \ {"ssds"} : file'[f] = file[f]
    BY <1>2 DEF Sound, Inv, TypeOK, Files
  <1>4. ElfBuilt'
    BY <1>2 DEF Sound, Built, ElfBuilt, Tools, Late, Merging, Moves, Merges, Hcds
  <1>5. Chain'
    BY <1>2, <1>3 DEF Sound, Built, Chain, Tools, extras, Files
  <1>6. Wanted'
    BY <1>2 DEF Wanted, Sections
  <1>7. HexBuilt'
    BY <1>2 DEF HexBuilt
  <1>8. HcdBuilt'
    BY <1>2 DEF HcdBuilt, Moves
  <1>9. Kept'
    BY <1>2 DEF Kept, Before
  <1>10. EndedWell'
    BY <1>2 DEF Sound, Built, EndedWell, extras
  <1> QED
    BY <1>4, <1>5, <1>6, <1>7, <1>8, <1>9, <1>10 DEF Built

LEMMA GenSsBinBuilds ==
  ASSUME Sound, GenSsBin
  PROVE  Built'
  <1>1. pc = "genssbin" /\ file["ssds"] = Base(source) /\ Base(source) # {}
    BY BaseIs DEF Sound, GenSsBin, Ignored, Built, Chain, Tools
  <1>2. /\ pc = "genssbin" /\ pc' = "gendsbin" /\ UNCHANGED <<product, source, loaded, outcome>>
        /\ hexNewer' = hexNewer
        /\ file' = [file EXCEPT !["ssbin"] = file["ssds"]]
    BY <1>1 DEF Sound, GenSsBin, Ignored, With, Exists, rest, mayFail, extras
  <1>3. /\ file'["ssbin"] = file["ssds"]
        /\ \A f \in Files \ {"ssbin"} : file'[f] = file[f]
    BY <1>2 DEF Sound, Inv, TypeOK, Files
  <1>4. ElfBuilt'
    BY <1>2 DEF Sound, Built, ElfBuilt, Tools, Late, Merging, Moves, Merges, Hcds
  <1>5. Chain'
    BY <1>2, <1>3 DEF Sound, Built, Chain, Tools, extras, Files
  <1>6. Wanted'
    BY <1>2 DEF Wanted, Sections
  <1>7. HexBuilt'
    BY <1>2 DEF HexBuilt
  <1>8. HcdBuilt'
    BY <1>2 DEF HcdBuilt, Moves
  <1>9. Kept'
    BY <1>2 DEF Kept, Before
  <1>10. EndedWell'
    BY <1>2 DEF Sound, Built, EndedWell, extras
  <1> QED
    BY <1>4, <1>5, <1>6, <1>7, <1>8, <1>9, <1>10 DEF Built

LEMMA GenDsBinBuilds ==
  ASSUME Sound, GenDsBin
  PROVE  Built'
  <1>1. pc = "gendsbin" /\ file["ssds"] = Base(source) /\ Base(source) # {}
    BY BaseIs DEF Sound, GenDsBin, Ignored, Built, Chain, Tools
  <1>2. /\ pc = "gendsbin" /\ pc' = "gensubds" /\ UNCHANGED <<product, source, loaded, outcome>>
        /\ hexNewer' = hexNewer
        /\ file' = [file EXCEPT !["dsbin"] = file["ssds"]]
    BY <1>1 DEF Sound, GenDsBin, Ignored, With, Exists, rest, mayFail, extras
  <1>3. /\ file'["dsbin"] = file["ssds"]
        /\ \A f \in Files \ {"dsbin"} : file'[f] = file[f]
    BY <1>2 DEF Sound, Inv, TypeOK, Files
  <1>4. ElfBuilt'
    BY <1>2 DEF Sound, Built, ElfBuilt, Tools, Late, Merging, Moves, Merges, Hcds
  <1>5. Chain'
    BY <1>2, <1>3 DEF Sound, Built, Chain, Tools, extras, Files
  <1>6. Wanted'
    BY <1>2 DEF Wanted, Sections
  <1>7. HexBuilt'
    BY <1>2 DEF HexBuilt
  <1>8. HcdBuilt'
    BY <1>2 DEF HcdBuilt, Moves
  <1>9. Kept'
    BY <1>2 DEF Kept, Before
  <1>10. EndedWell'
    BY <1>2 DEF Sound, Built, EndedWell, extras
  <1> QED
    BY <1>4, <1>5, <1>6, <1>7, <1>8, <1>9, <1>10 DEF Built

LEMMA GenSubDsBuilds ==
  ASSUME Sound, GenSubDs
  PROVE  Built'
  <1>1. /\ pc = "gensubds" /\ Base(source) # {}
        /\ file["ssbin"] = Base(source) /\ file["dsbin"] = Base(source)
    BY BaseIs DEF Sound, GenSubDs, Ignored, Built, Chain, Tools
  <1>2. /\ pc = "gensubds" /\ pc' = "genhex" /\ UNCHANGED <<product, source, loaded, outcome>>
        /\ hexNewer' = hexNewer
        /\ file' = [file EXCEPT !["subds"] = file["ssbin"] \cup file["dsbin"]]
    BY <1>1 DEF Sound, GenSubDs, Ignored, With, Exists, rest, mayFail, extras
  <1>3. /\ file'["subds"] = file["ssbin"] \cup file["dsbin"]
        /\ \A f \in Files \ {"subds"} : file'[f] = file[f]
    BY <1>2 DEF Sound, Inv, TypeOK, Files
  <1>4. file["ssbin"] \cup file["dsbin"] = Base(source)
    BY <1>1
  <1>5. ElfBuilt'
    BY <1>2 DEF Sound, Built, ElfBuilt, Tools, Late, Merging, Moves, Merges, Hcds
  <1>6. Chain'
    BY <1>2, <1>3 DEF Sound, Built, Chain, Tools, extras, Files
  <1>7. Wanted'
    BY <1>2 DEF Wanted, Sections
  <1>8. HexBuilt'
    BY <1>2 DEF HexBuilt
  <1>9. HcdBuilt'
    BY <1>2 DEF HcdBuilt, Moves
  <1>10. Kept'
    BY <1>2 DEF Kept, Before
  <1>11. EndedWell'
    BY <1>2 DEF Sound, Built, EndedWell, extras
  <1> QED
    BY <1>5, <1>6, <1>7, <1>8, <1>9, <1>10, <1>11 DEF Built

LEMMA GenHexBuilds ==
  ASSUME Sound, GenHex
  PROVE  Built'
  <1>1. pc = "genhex" /\ file["subds"] = Base(source) /\ Base(source) # {}
    BY BaseIs DEF Sound, GenHex, Built, Chain, Tools
  <1>2. /\ pc = "genhex" /\ pc' = "extrahex" /\ UNCHANGED <<product, source, loaded, outcome>>
        /\ hexNewer'
        /\ file' = [file EXCEPT !["hex"] = file["subds"]]
    BY <1>1 DEF Sound, GenHex, With, Exists, rest, mayFail, extras
  <1>3. /\ file'["hex"] = file["subds"]
        /\ \A f \in Files \ {"hex"} : file'[f] = file[f]
    BY <1>2 DEF Sound, Inv, TypeOK, Files
  <1>4. ElfBuilt'
    BY <1>2 DEF Sound, Built, ElfBuilt, Tools, Late, Merging, Moves, Merges, Hcds
  <1>5. Chain'
    BY <1>2 DEF Sound, Built, Chain, Tools, extras
  <1>6. Wanted'
    BY <1>2 DEF Wanted, Sections
  <1>7. HexBuilt'
    BY <1>1, <1>2, <1>3 DEF HexBuilt, extras, Files
  <1>8. HcdBuilt'
    BY <1>2 DEF HcdBuilt, Moves
  <1>9. Kept'
    BY <1>2 DEF Kept, Before
  <1>10. EndedWell'
    BY <1>1, <1>2, <1>3 DEF Sound, Built, EndedWell, extras, Files, Inv, Ended
  <1> QED
    BY <1>4, <1>5, <1>6, <1>7, <1>8, <1>9, <1>10 DEF Built

LEMMA MergeExtraHexBuilds ==
  ASSUME Sound, MergeExtraHex
  PROVE  Built'
  <1>1. /\ pc = "extrahex" /\ file["hex"] = Base(source) /\ Base(source) # {}
    BY BaseIs, WordsAdd DEF Sound, MergeExtraHex, Ignored, Skip, Built, HexBuilt
  <1>2. CASE "extrahex" \in extras
    <2>1. /\ pc = "extrahex" /\ pc' = "mergedirect" /\ UNCHANGED <<product, source, loaded, outcome>>
          /\ hexNewer' = hexNewer
          /\ file' = [file EXCEPT !["hex"] = file["hex"] \cup {<<"extrahex", 0>>}]
      BY <1>1, <1>2 DEF Sound, MergeExtraHex, Ignored, Skip, Add, With, Exists, rest, mayFail,
         extras
    <2>2. /\ file'["hex"] = file["hex"] \cup {<<"extrahex", 0>>}
          /\ \A f \in Files \ {"hex"} : file'[f] = file[f]
      BY <2>1 DEF Sound, Inv, TypeOK, Files
    <2>3. file'["hex"] = WithExtra(extras, source)
      BY <1>1, <1>2, <2>2, WordsAdd
    <2>4. ElfBuilt'
      BY <2>1 DEF Sound, Built, ElfBuilt, Tools, Late, Merging, Moves, Merges, Hcds
    <2>5. Chain'
      BY <2>1 DEF Sound, Built, Chain, Tools, extras
    <2>6. Wanted'
      BY <2>1 DEF Wanted, Sections
    <2>7. HexBuilt'
      BY <2>1, <2>3 DEF HexBuilt, extras
    <2>8. HcdBuilt'
      BY <2>1 DEF HcdBuilt, Moves
    <2>9. Kept'
      BY <2>1 DEF Kept, Before
    <2>10. EndedWell'
      BY <1>1, <1>2, <2>1, <2>2, <2>3 DEF Sound, Built, EndedWell, extras, Files, Inv, Ended
    <2> QED
      BY <2>4, <2>5, <2>6, <2>7, <2>8, <2>9, <2>10 DEF Built
  <1>3. CASE "extrahex" \notin extras
    <2>1. /\ pc = "extrahex" /\ pc' = "mergedirect" /\ UNCHANGED <<product, source, loaded, outcome>>
          /\ UNCHANGED <<file, hexNewer>>
      BY <1>3 DEF MergeExtraHex, Ignored, Skip, Add, With, Exists, rest, extras
    <2>2. \A f \in Files : file'[f] = file[f]
      BY <2>1
    <2>3. file'["hex"] = WithExtra(extras, source)
      BY <1>1, <1>3, <2>2, WordsAdd DEF Files
    <2>4. ElfBuilt'
      BY <2>1 DEF Sound, Built, ElfBuilt, Tools, Late, Merging, Moves, Merges, Hcds
    <2>5. Chain'
      BY <2>1 DEF Sound, Built, Chain, Tools, extras
    <2>6. Wanted'
      BY <2>1 DEF Wanted, Sections
    <2>7. HexBuilt'
      BY <2>1, <2>3 DEF HexBuilt, extras
    <2>8. HcdBuilt'
      BY <2>1 DEF HcdBuilt, Moves
    <2>9. Kept'
      BY <2>1 DEF Kept, Before
    <2>10. EndedWell'
      BY <2>1 DEF Sound, Built, EndedWell, extras
    <2> QED
      BY <2>4, <2>5, <2>6, <2>7, <2>8, <2>9, <2>10 DEF Built
  <1> QED
    BY <1>2, <1>3

LEMMA MergeDirectBuilds ==
  ASSUME Sound, MergeDirect
  PROVE  Built'
  <1>1. /\ pc = "mergedirect" /\ file["hex"] = WithExtra(extras, source) /\ WithExtra(extras, source) # {}
    BY BaseIs, WordsAdd DEF Sound, MergeDirect, Ignored, Skip, Built, HexBuilt
  <1>2. "DIRECT" \in extras => file["direct"] = {<<"direct", source>>}
    BY <1>1 DEF Sound, Built, Chain
  <1>3. CASE "DIRECT" \in extras
    <2>1. /\ pc = "mergedirect" /\ pc' = "genhcd" /\ UNCHANGED <<product, source, loaded, outcome>>
          /\ hexNewer' = hexNewer
          /\ file' = [file EXCEPT !["hex"] = file["hex"] \cup file["direct"]]
      BY <1>1, <1>2, <1>3 DEF Sound, MergeDirect, Ignored, Skip, Add, With, Exists, rest, mayFail,
         extras
    <2>2. /\ file'["hex"] = file["hex"] \cup file["direct"]
          /\ \A f \in Files \ {"hex"} : file'[f] = file[f]
      BY <2>1 DEF Sound, Inv, TypeOK, Files
    <2>3. file'["hex"] = WithDirect(extras, source)
      BY <1>1, <1>2, <1>3, <2>2, WordsAdd
    <2>4. ElfBuilt'
      BY <2>1 DEF Sound, Built, ElfBuilt, Tools, Late, Merging, Moves, Merges, Hcds
    <2>5. Chain'
      BY <2>1 DEF Chain, Tools
    <2>6. Wanted'
      BY <2>1 DEF Wanted, Sections
    <2>7. HexBuilt'
      BY <2>1, <2>3 DEF HexBuilt, extras
    <2>8. HcdBuilt'
      BY <2>1 DEF HcdBuilt, Moves
    <2>9. Kept'
      BY <2>1 DEF Kept, Before
    <2>10. EndedWell'
      BY <1>1, <1>2, <1>3, <2>1, <2>2, <2>3 DEF Sound, Built, EndedWell, extras, Files, Inv, Ended
    <2> QED
      BY <2>4, <2>5, <2>6, <2>7, <2>8, <2>9, <2>10 DEF Built
  <1>4. CASE "DIRECT" \notin extras
    <2>1. /\ pc = "mergedirect" /\ pc' = "genhcd" /\ UNCHANGED <<product, source, loaded, outcome>>
          /\ UNCHANGED <<file, hexNewer>>
      BY <1>4 DEF MergeDirect, Ignored, Skip, Add, With, Exists, rest, extras
    <2>2. \A f \in Files : file'[f] = file[f]
      BY <2>1
    <2>3. file'["hex"] = WithDirect(extras, source)
      BY <1>1, <1>4, <2>2, WordsAdd DEF Files
    <2>4. ElfBuilt'
      BY <2>1 DEF Sound, Built, ElfBuilt, Tools, Late, Merging, Moves, Merges, Hcds
    <2>5. Chain'
      BY <2>1 DEF Chain, Tools
    <2>6. Wanted'
      BY <2>1 DEF Wanted, Sections
    <2>7. HexBuilt'
      BY <2>1, <2>3 DEF HexBuilt, extras
    <2>8. HcdBuilt'
      BY <2>1 DEF HcdBuilt, Moves
    <2>9. Kept'
      BY <2>1 DEF Kept, Before
    <2>10. EndedWell'
      BY <2>1 DEF Sound, Built, EndedWell, extras
    <2> QED
      BY <2>4, <2>5, <2>6, <2>7, <2>8, <2>9, <2>10 DEF Built
  <1> QED
    BY <1>3, <1>4

LEMMA GenHcdBuilds ==
  ASSUME Sound, GenHcd
  PROVE  Built'
  <1>1. /\ pc = "genhcd" /\ file["hex"] = WithDirect(extras, source) /\ WithDirect(extras, source) # {}
    BY BaseIs, WordsAdd DEF Sound, GenHcd, Checked, Built, HexBuilt
  <1>2. /\ pc = "genhcd" /\ pc' = "dm_move" /\ UNCHANGED <<product, source, loaded, outcome>>
        /\ hexNewer' = hexNewer
        /\ file' = [file EXCEPT !["hcd"] = file["hex"]]
    BY <1>1 DEF Sound, GenHcd, Checked, With, Exists, rest, mayFail, extras
  <1>3. /\ file'["hcd"] = file["hex"]
        /\ \A f \in Files \ {"hcd"} : file'[f] = file[f]
    BY <1>2 DEF Sound, Inv, TypeOK, Files
  <1>4. ElfBuilt'
    BY <1>2 DEF Sound, Built, ElfBuilt, Tools, Late, Merging, Moves, Merges, Hcds
  <1>5. Chain'
    BY <1>2 DEF Chain, Tools
  <1>6. Wanted'
    BY <1>2 DEF Wanted, Sections
  <1>7. HexBuilt'
    BY <1>2 DEF Sound, Built, HexBuilt, extras
  <1>8. HcdBuilt'
    BY <1>2, <1>3 DEF HcdBuilt, Moves, extras, Files
  <1>9. Kept'
    BY <1>2 DEF Kept, Before
  <1>10. EndedWell'
    BY <1>1, <1>2, <1>3 DEF Sound, Built, EndedWell, extras, Files, Inv, Ended
  <1> QED
    BY <1>4, <1>5, <1>6, <1>7, <1>8, <1>9, <1>10 DEF Built

LEMMA DmMoveBuilds ==
  ASSUME Sound, DmMove
  PROVE  Built'
  <1>1. CASE "_DM_" \in extras
    <2>1. /\ pc = "dm_move" /\ pc' = "dm_cat" /\ UNCHANGED <<product, source, loaded, outcome>>
          /\ hexNewer' = hexNewer
          /\ file' = [file EXCEPT !["moved"] = file["hcd"], !["hcd"] = {}]
      BY <1>1 DEF Sound, DmMove, Checked, Skip, With, rest, mayFail, extras
    <2>2. /\ file'["moved"] = file["hcd"]
          /\ file'["hcd"] = {}
          /\ \A f \in Files \ {"moved", "hcd"} : file'[f] = file[f]
      BY <2>1 DEF Sound, Inv, TypeOK, Files
    <2>3. ElfBuilt'
      BY <2>1, <2>2 DEF Sound, Built, ElfBuilt, Tools, Late, Merging, Moves, Merges, Hcds, Files
    <2>4. Chain'
      BY <2>1 DEF Chain, Tools
    <2>5. Wanted'
      BY <1>1, <2>1, <2>2 DEF Sound, Built, Wanted, Sections, extras, Files, Inv, Ended
    <2>6. HexBuilt'
      BY <2>1, <2>2 DEF Sound, Built, HexBuilt, extras, Files
    <2>7. HcdBuilt'
      BY <2>1, <2>2 DEF Sound, Built, HcdBuilt, Moves, extras, Files
    <2>8. Kept'
      BY <2>1 DEF Kept, Before
    <2>9. EndedWell'
      BY <1>1, <2>1, <2>2 DEF Sound, Built, EndedWell, extras, Files, Inv, Ended
    <2> QED
      BY <2>3, <2>4, <2>5, <2>6, <2>7, <2>8, <2>9 DEF Built
  <1>2. CASE "_DM_" \notin extras
    <2>1. /\ pc = "dm_move" /\ pc' = "ds2_move" /\ UNCHANGED <<product, source, loaded, outcome>>
          /\ UNCHANGED <<file, hexNewer>>
      BY <1>2 DEF DmMove, Checked, Skip, With, rest, extras
    <2>2. \A f \in Files : file'[f] = file[f]
      BY <2>1
    <2>3. LoaderOf(extras) = {}
      BY <1>2 DEF LoaderOf
    <2>4. ElfBuilt'
      BY <2>1 DEF Sound, Built, ElfBuilt, Tools, Late, Merging, Moves, Merges, Hcds
    <2>5. Chain'
      BY <2>1 DEF Chain, Tools
    <2>6. Wanted'
      BY <2>1 DEF Wanted, Sections
    <2>7. HexBuilt'
      BY <2>1 DEF Sound, Built, HexBuilt, extras
    <2>8. HcdBuilt'
      BY <2>1, <2>2, <2>3 DEF Sound, Built, HcdBuilt, Moves, extras, Files
    <2>9. Kept'
      BY <2>1 DEF Kept, Before
    <2>10. EndedWell'
      BY <2>1 DEF Sound, Built, EndedWell, extras
    <2> QED
      BY <2>4, <2>5, <2>6, <2>7, <2>8, <2>9, <2>10 DEF Built
  <1> QED
    BY <1>1, <1>2

LEMMA DmCatBuilds ==
  ASSUME Sound, DmCat
  PROVE  Built'
  <1>1. /\ pc = "dm_cat" /\ pc' = "ds2_move" /\ UNCHANGED <<product, source, loaded, outcome>>
        /\ hexNewer' = hexNewer
        /\ file' = [file EXCEPT !["hcd"] = file["moved"] \cup {<<"loader", 0>>}]
    BY DEF Sound, DmCat, Checked, With, rest, mayFail, extras
  <1>2. /\ file'["hcd"] = file["moved"] \cup {<<"loader", 0>>}
        /\ \A f \in Files \ {"hcd"} : file'[f] = file[f]
    BY <1>1 DEF Sound, Inv, TypeOK, Files
  <1>3. LoaderOf(extras) = {<<"loader", 0>>}
    BY <1>1 DEF Sound, Built, Wanted, LoaderOf
  <1>4. ElfBuilt'
    BY <1>1 DEF Sound, Built, ElfBuilt, Tools, Late, Merging, Moves, Merges, Hcds
  <1>5. Chain'
    BY <1>1 DEF Chain, Tools
  <1>6. Wanted'
    BY <1>1 DEF Wanted, Sections
  <1>7. HexBuilt'
    BY <1>1 DEF Sound, Built, HexBuilt, extras
  <1>8. HcdBuilt'
    BY <1>1, <1>2, <1>3 DEF Sound, Built, HcdBuilt, Moves, extras, Files
  <1>9. Kept'
    BY <1>1 DEF Kept, Before
  <1>10. EndedWell'
    BY <1>1, <1>2, <1>3 DEF Sound, Built, EndedWell, extras, Files, Inv, Ended
  <1> QED
    BY <1>4, <1>5, <1>6, <1>7, <1>8, <1>9, <1>10 DEF Built

LEMMA MoveAwayBuilds ==
  ASSUME Sound, MoveAway
  PROVE  Built'
  <1>1. CASE pc = "ds2_move" /\ "_APPDS2_" \in extras
    <2>1. /\ pc = "ds2_move" /\ pc' = "ds2_merge" /\ UNCHANGED <<product, source, loaded, outcome>>
          /\ hexNewer' = hexNewer
          /\ file' = [file EXCEPT !["moved"] = file["hex"], !["hex"] = {}, !["hcd"] = {}]
      BY <1>1 DEF Sound, MoveAway, Checked, Skip, With, Sections, rest, mayFail, extras
    <2>2. /\ file'["moved"] = file["hex"]
          /\ file'["hex"] = {}
          /\ file'["hcd"] = {}
          /\ \A f \in Files \ {"moved", "hex", "hcd"} : file'[f] = file[f]
      BY <2>1 DEF Sound, Inv, TypeOK, Files
    <2>3. ElfBuilt'
      BY <2>1, <2>2 DEF Sound, Built, ElfBuilt, Tools, Late, Merging, Moves, Merges, Hcds, Files
    <2>4. Chain'
      BY <2>1 DEF Chain, Tools
    <2>5. Wanted'
      BY <1>1, <2>1, <2>2 DEF Sound, Built, Wanted, Sections, extras, Files, Inv, Ended
    <2>6. HexBuilt'
      BY <2>1, <2>2 DEF Sound, Built, HexBuilt, extras, Files
    <2>7. HcdBuilt'
      BY <2>1 DEF HcdBuilt, Moves
    <2>8. Kept'
      BY <2>1 DEF Kept, Before
    <2>9. EndedWell'
      BY <1>1, <2>1, <2>2 DEF Sound, Built, EndedWell, extras, Files, Inv, Ended
    <2> QED
      BY <2>3, <2>4, <2>5, <2>6, <2>7, <2>8, <2>9 DEF Built
  <1>2. CASE pc = "ds2_move" /\ "_APPDS2_" \notin extras
    <2>1. /\ pc = "ds2_move" /\ pc' = "code_move" /\ UNCHANGED <<product, source, loaded, outcome>>
          /\ UNCHANGED <<file, hexNewer>>
      BY <1>2 DEF MoveAway, Checked, Skip, With, Sections, rest, extras
    <2>2. \A f \in Files : file'[f] = file[f]
      BY <2>1
    <2>3. WithDs2(extras, source) = WithDirect(extras, source)
      BY <1>2, WordsAdd
    <2>4. ElfBuilt'
      BY <2>1 DEF Sound, Built, ElfBuilt, Tools, Late, Merging, Moves, Merges, Hcds
    <2>5. Chain'
      BY <2>1 DEF Chain, Tools
    <2>6. Wanted'
      BY <2>1 DEF Wanted, Sections
    <2>7. HexBuilt'
      BY <2>1, <2>2, <2>3 DEF Sound, Built, HexBuilt, extras, Files
    <2>8. HcdBuilt'
      BY <2>1 DEF Sound, Built, HcdBuilt, Moves, extras
    <2>9. Kept'
      BY <2>1 DEF Kept, Before
    <2>10. EndedWell'
      BY <2>1 DEF Sound, Built, EndedWell, extras
    <2> QED
      BY <2>4, <2>5, <2>6, <2>7, <2>8, <2>9, <2>10 DEF Built
  <1>3. CASE pc = "code_move" /\ "in_code" \in extras
    <2>1. /\ pc = "code_move" /\ pc' = "code_merge" /\ UNCHANGED <<product, source, loaded, outcome>>
          /\ hexNewer' = hexNewer
          /\ file' = [file EXCEPT !["moved"] = file["hex"], !["hex"] = {}, !["hcd"] = {}]
      BY <1>3 DEF Sound, MoveAway, Checked, Skip, With, Sections, rest, mayFail, extras
    <2>2. /\ file'["moved"] = file["hex"]
          /\ file'["hex"] = {}
          /\ file'["hcd"] = {}
          /\ \A f \in Files \ {"moved", "hex", "hcd"} : file'[f] = file[f]
      BY <2>1 DEF Sound, Inv, TypeOK, Files
    <2>3. ElfBuilt'
      BY <2>1, <2>2 DEF Sound, Built, ElfBuilt, Tools, Late, Merging, Moves, Merges, Hcds, Files
    <2>4. Chain'
      BY <2>1 DEF Chain, Tools
    <2>5. Wanted'
      BY <1>3, <2>1, <2>2 DEF Sound, Built, Wanted, Sections, extras, Files, Inv, Ended
    <2>6. HexBuilt'
      BY <2>1, <2>2 DEF Sound, Built, HexBuilt, extras, Files
    <2>7. HcdBuilt'
      BY <2>1 DEF HcdBuilt, Moves
    <2>8. Kept'
      BY <2>1 DEF Kept, Before
    <2>9. EndedWell'
      BY <1>3, <2>1, <2>2 DEF Sound, Built, EndedWell, extras, Files, Inv, Ended
    <2> QED
      BY <2>3, <2>4, <2>5, <2>6, <2>7, <2>8, <2>9 DEF Built
  <1>4. CASE pc = "code_move" /\ "in_code" \notin extras
    <2>1. /\ pc = "code_move" /\ pc' = "file_move" /\ UNCHANGED <<product, source, loaded, outcome>>
          /\ UNCHANGED <<file, hexNewer>>
      BY <1>4 DEF MoveAway, Checked, Skip, With, Sections, rest, extras
    <2>2. \A f \in Files : file'[f] = file[f]
      BY <2>1
    <2>3. WithCode(extras, source) = WithDs2(extras, source)
      BY <1>4, WordsAdd
    <2>4. ElfBuilt'
      BY <2>1 DEF Sound, Built, ElfBuilt, Tools, Late, Merging, Moves, Merges, Hcds
    <2>5. Chain'
      BY <2>1 DEF Chain, Tools
    <2>6. Wanted'
      BY <2>1 DEF Wanted, Sections
    <2>7. HexBuilt'
      BY <2>1, <2>2, <2>3 DEF Sound, Built, HexBuilt, extras, Files
    <2>8. HcdBuilt'
      BY <2>1 DEF Sound, Built, HcdBuilt, Moves, extras
    <2>9. Kept'
      BY <2>1 DEF Kept, Before
    <2>10. EndedWell'
      BY <2>1 DEF Sound, Built, EndedWell, extras
    <2> QED
      BY <2>4, <2>5, <2>6, <2>7, <2>8, <2>9, <2>10 DEF Built
  <1>5. CASE pc = "file_move" /\ "in_file" \in extras
    <2>1. /\ pc = "file_move" /\ pc' = "file_merge" /\ UNCHANGED <<product, source, loaded, outcome>>
          /\ hexNewer' = hexNewer
          /\ file' = [file EXCEPT !["moved"] = file["hex"], !["hex"] = {}, !["hcd"] = {}]
      BY <1>5 DEF Sound, MoveAway, Checked, Skip, With, Sections, rest, mayFail, extras
    <2>2. /\ file'["moved"] = file["hex"]
          /\ file'["hex"] = {}
          /\ file'["hcd"] = {}
          /\ \A f \in Files \ {"moved", "hex", "hcd"} : file'[f] = file[f]
      BY <2>1 DEF Sound, Inv, TypeOK, Files
    <2>3. ElfBuilt'
      BY <2>1, <2>2 DEF Sound, Built, ElfBuilt, Tools, Late, Merging, Moves, Merges, Hcds, Files
    <2>4. Chain'
      BY <2>1 DEF Chain, Tools
    <2>5. Wanted'
      BY <1>5, <2>1, <2>2 DEF Sound, Built, Wanted, Sections, extras, Files, Inv, Ended
    <2>6. HexBuilt'
      BY <2>1, <2>2 DEF Sound, Built, HexBuilt, extras, Files
    <2>7. HcdBuilt'
      BY <2>1 DEF HcdBuilt, Moves
    <2>8. Kept'
      BY <2>1 DEF Kept, Before
    <2>9. EndedWell'
      BY <1>5, <2>1, <2>2 DEF Sound, Built, EndedWell, extras, Files, Inv, Ended
    <2> QED
      BY <2>3, <2>4, <2>5, <2>6, <2>7, <2>8, <2>9 DEF Built
  <1>6. CASE pc = "file_move" /\ "in_file" \notin extras
    <2>1. /\ pc = "file_move" /\ pc' = "ota" /\ UNCHANGED <<product, source, loaded, outcome>>
          /\ UNCHANGED <<file, hexNewer>>
      BY <1>6 DEF MoveAway, Checked, Skip, With, Sections, rest, extras
    <2>2. \A f \in Files : file'[f] = file[f]
      BY <2>1
    <2>3. WithFile(extras, source) = WithCode(extras, source)
      BY <1>6, WordsAdd
    <2>4. ElfBuilt'
      BY <2>1 DEF Sound, Built, ElfBuilt, Tools, Late, Merging, Moves, Merges, Hcds
    <2>5. Chain'
      BY <2>1 DEF Chain, Tools
    <2>6. Wanted'
      BY <2>1 DEF Wanted, Sections
    <2>7. HexBuilt'
      BY <2>1, <2>2, <2>3 DEF Sound, Built, HexBuilt, extras, Files
    <2>8. HcdBuilt'
      BY <2>1 DEF Sound, Built, HcdBuilt, Moves, extras
    <2>9. Kept'
      BY <2>1 DEF Kept, Before
    <2>10. EndedWell'
      BY <2>1 DEF Sound, Built, EndedWell, extras
    <2> QED
      BY <2>4, <2>5, <2>6, <2>7, <2>8, <2>9, <2>10 DEF Built
  <1> QED
    BY <1>1, <1>2, <1>3, <1>4, <1>5, <1>6 DEF Sound, MoveAway, Checked, Skip, Sections, extras

LEMMA MergeBackBuilds ==
  ASSUME Sound, MergeBack
  PROVE  Built'
  <1>1. PICK s \in Sections :
         /\ pc = s.merge /\ UNCHANGED rest
         /\ \/ /\ Section(s.word) # {} /\ pc' = s.hcd
               /\ file' = [file EXCEPT !["hex"] = file["moved"] \cup Section(s.word)]
               /\ hexNewer' = TRUE /\ UNCHANGED outcome
            \/ Section(s.word) = {}
    BY DEF Sound, MergeBack, With, mayFail
  <1>2. /\ pc \in {"ds2_merge", "code_merge", "file_merge"}
        /\ pc = "ds2_merge" => s.hcd = "ds2_hcd" /\ s.word = "_APPDS2_"
        /\ pc = "code_merge" => s.hcd = "code_hcd" /\ s.word = "in_code"
        /\ pc = "file_merge" => s.hcd = "file_hcd" /\ s.word = "in_file"
    BY <1>1 DEF Sections
  <1>3. /\ Section("_APPDS2_") = {<<"ds2", 0>>} /\ Section("in_file") = {<<"static", 0>>}
        /\ Section("in_code") = CodeOf("elf", "static")
    BY DEF Section
  <1>4. pc = "code_merge" => CodeOf("elf", "static") = {<<"static", source>>}
    <2>1. {q \in Base(source) : q[1] = "app"} = {<<"app", source>>}
      BY DEF Base
    <2>2. {p[2] : p \in {<<"app", source>>}} = {source}
      OBVIOUS
    <2> QED
      BY <2>1, <2>2 DEF CodeOf, Sound, Built, ElfBuilt, Late, Merges
  <1>5. CASE pc = "ds2_merge"
    <2>1. /\ pc = "ds2_merge" /\ pc' = "ds2_hcd" /\ UNCHANGED <<product, source, loaded, outcome>>
          /\ hexNewer'
          /\ file' = [file EXCEPT !["hex"] = file["moved"] \cup {<<"ds2", 0>>}]
      BY <1>1, <1>2, <1>3, <1>4, <1>5 DEF rest
    <2>2. /\ file'["hex"] = file["moved"] \cup {<<"ds2", 0>>}
          /\ \A f \in Files \ {"hex"} : file'[f] = file[f]
      BY <2>1 DEF Sound, Inv, TypeOK, Files
    <2>3. "_APPDS2_" \in extras
      BY <1>1, <1>2, <1>3, <1>4, <1>5 DEF Sound, Built, Wanted, Sections
    <2>4. file'["hex"] = WithDs2(extras, source)
      BY <1>1, <1>2, <1>3, <1>4, <1>5, <2>2, <2>3, WordsAdd DEF Sound, Built, HexBuilt
    <2>5. ElfBuilt'
      BY <2>1 DEF Sound, Built, ElfBuilt, Tools, Late, Merging, Moves, Merges, Hcds
    <2>6. Chain'
      BY <2>1 DEF Chain, Tools
    <2>7. Wanted'
      BY <2>1, <2>3, <2>4 DEF Wanted, Sections, extras
    <2>8. HexBuilt'
      BY <2>1, <2>3, <2>4 DEF HexBuilt, extras
    <2>9. HcdBuilt'
      BY <2>1 DEF HcdBuilt, Moves
    <2>10. Kept'
      BY <2>1 DEF Kept, Before
    <2>11. EndedWell'
      BY <1>1, <1>2, <1>3, <1>4, <1>5, <2>1, <2>2, <2>3, <2>4 DEF Sound, Built, EndedWell, extras,
         Files, Inv, Ended
    <2> QED
      BY <2>5, <2>6, <2>7, <2>8, <2>9, <2>10, <2>11 DEF Built
  <1>6. CASE pc = "code_merge"
    <2>1. /\ pc = "code_merge" /\ pc' = "code_hcd" /\ UNCHANGED <<product, source, loaded, outcome>>
          /\ hexNewer'
          /\ file' = [file EXCEPT !["hex"] = file["moved"] \cup {<<"static", source>>}]
      BY <1>1, <1>2, <1>3, <1>4, <1>6 DEF rest
    <2>2. /\ file'["hex"] = file["moved"] \cup {<<"static", source>>}
          /\ \A f \in Files \ {"hex"} : file'[f] = file[f]
      BY <2>1 DEF Sound, Inv, TypeOK, Files
    <2>3. "in_code" \in extras
      BY <1>1, <1>2, <1>3, <1>4, <1>6 DEF Sound, Built, Wanted, Sections
    <2>4. file'["hex"] = WithCode(extras, source)
      BY <1>1, <1>2, <1>3, <1>4, <1>6, <2>2, <2>3, WordsAdd DEF Sound, Built, HexBuilt
    <2>5. ElfBuilt'
      BY <2>1 DEF Sound, Built, ElfBuilt, Tools, Late, Merging, Moves, Merges, Hcds
    <2>6. Chain'
      BY <2>1 DEF Chain, Tools
    <2>7. Wanted'
      BY <2>1, <2>3, <2>4 DEF Wanted, Sections, extras
    <2>8. HexBuilt'
      BY <2>1, <2>3, <2>4 DEF HexBuilt, extras
    <2>9. HcdBuilt'
      BY <2>1 DEF HcdBuilt, Moves
    <2>10. Kept'
      BY <2>1 DEF Kept, Before
    <2>11. EndedWell'
      BY <1>1, <1>2, <1>3, <1>4, <1>6, <2>1, <2>2, <2>3, <2>4 DEF Sound, Built, EndedWell, extras,
         Files, Inv, Ended
    <2> QED
      BY <2>5, <2>6, <2>7, <2>8, <2>9, <2>10, <2>11 DEF Built
  <1>7. CASE pc = "file_merge"
    <2>1. /\ pc = "file_merge" /\ pc' = "file_hcd" /\ UNCHANGED <<product, source, loaded, outcome>>
          /\ hexNewer'
          /\ file' = [file EXCEPT !["hex"] = file["moved"] \cup {<<"static", 0>>}]
      BY <1>1, <1>2, <1>3, <1>4, <1>7 DEF rest
    <2>2. /\ file'["hex"] = file["moved"] \cup {<<"static", 0>>}
          /\ \A f \in Files \ {"hex"} : file'[f] = file[f]
      BY <2>1 DEF Sound, Inv, TypeOK, Files
    <2>3. "in_file" \in extras
      BY <1>1, <1>2, <1>3, <1>4, <1>7 DEF Sound, Built, Wanted, Sections
    <2>4. file'["hex"] = WithFile(extras, source)
      BY <1>1, <1>2, <1>3, <1>4, <1>7, <2>2, <2>3, WordsAdd DEF Sound, Built, HexBuilt
    <2>5. ElfBuilt'
      BY <2>1 DEF Sound, Built, ElfBuilt, Tools, Late, Merging, Moves, Merges, Hcds
    <2>6. Chain'
      BY <2>1 DEF Chain, Tools
    <2>7. Wanted'
      BY <2>1, <2>3, <2>4 DEF Wanted, Sections, extras
    <2>8. HexBuilt'
      BY <2>1, <2>3, <2>4 DEF HexBuilt, extras
    <2>9. HcdBuilt'
      BY <2>1 DEF HcdBuilt, Moves
    <2>10. Kept'
      BY <2>1 DEF Kept, Before
    <2>11. EndedWell'
      BY <2>1, <2>2, <2>3, <2>4 DEF Sound, Built, EndedWell, extras, Files
    <2> QED
      BY <2>5, <2>6, <2>7, <2>8, <2>9, <2>10, <2>11 DEF Built
  <1> QED
    BY <1>1, <1>2, <1>3, <1>4, <1>5, <1>6, <1>7

LEMMA HcdAgainBuilds ==
  ASSUME Sound, HcdAgain
  PROVE  Built'
  <1>1. PICK s \in Sections :
         /\ pc = s.hcd /\ pc' = s.next
         /\ UNCHANGED <<product, source, loaded, outcome>> /\ hexNewer' = hexNewer
         /\ file' = [file EXCEPT !["hcd"] = file["hex"]]
    BY DEF Sound, HcdAgain, Checked, With, rest, mayFail
  <1>2. /\ pc \in {"ds2_hcd", "code_hcd", "file_hcd"}
        /\ pc = "ds2_hcd" => s.next = "code_move"
        /\ pc = "code_hcd" => s.next = "file_move"
        /\ pc = "file_hcd" => s.next = "ota"
    BY <1>1 DEF Sections
  <1>3. CASE pc = "ds2_hcd"
    <2>1. /\ pc = "ds2_hcd" /\ pc' = "code_move" /\ UNCHANGED <<product, source, loaded, outcome>>
          /\ hexNewer' = hexNewer
          /\ file' = [file EXCEPT !["hcd"] = file["hex"]]
      BY <1>1, <1>2, <1>3
    <2>2. /\ file'["hcd"] = file["hex"]
          /\ \A f \in Files \ {"hcd"} : file'[f] = file[f]
      BY <2>1 DEF Sound, Inv, TypeOK, Files
    <2>3. LoaderOf(extras) = {}
      BY <1>1, <1>2, <1>3 DEF Sound, Built, Wanted, Sections, Plain, LoaderOf, extras
    <2>4. ElfBuilt'
      BY <2>1 DEF Sound, Built, ElfBuilt, Tools, Late, Merging, Moves, Merges, Hcds
    <2>5. Chain'
      BY <2>1 DEF Chain, Tools
    <2>6. Wanted'
      BY <2>1 DEF Wanted, Sections
    <2>7. HexBuilt'
      BY <2>1 DEF Sound, Built, HexBuilt, extras
    <2>8. HcdBuilt'
      BY <2>1, <2>2, <2>3 DEF HcdBuilt, Moves, extras, Files
    <2>9. Kept'
      BY <2>1 DEF Kept, Before
    <2>10. EndedWell'
      BY <2>1, <2>2, <2>3 DEF Sound, Built, EndedWell, extras, Files
    <2> QED
      BY <2>4, <2>5, <2>6, <2>7, <2>8, <2>9, <2>10 DEF Built
  <1>4. CASE pc = "code_hcd"
    <2>1. /\ pc = "code_hcd" /\ pc' = "file_move" /\ UNCHANGED <<product, source, loaded, outcome>>
          /\ hexNewer' = hexNewer
          /\ file' = [file EXCEPT !["hcd"] = file["hex"]]
      BY <1>1, <1>2, <1>4
    <2>2. /\ file'["hcd"] = file["hex"]
          /\ \A f \in Files \ {"hcd"} : file'[f] = file[f]
      BY <2>1 DEF Sound, Inv, TypeOK, Files
    <2>3. LoaderOf(extras) = {}
      BY <1>1, <1>2, <1>4 DEF Sound, Built, Wanted, Sections, Plain, LoaderOf, extras
    <2>4. ElfBuilt'
      BY <2>1 DEF Sound, Built, ElfBuilt, Tools, Late, Merging, Moves, Merges, Hcds
    <2>5. Chain'
      BY <2>1 DEF Chain, Tools
    <2>6. Wanted'
      BY <2>1 DEF Wanted, Sections
    <2>7. HexBuilt'
      BY <2>1 DEF Sound, Built, HexBuilt, extras
    <2>8. HcdBuilt'
      BY <2>1, <2>2, <2>3 DEF HcdBuilt, Moves, extras, Files
    <2>9. Kept'
      BY <2>1 DEF Kept, Before
    <2>10. EndedWell'
      BY <2>1, <2>2, <2>3 DEF Sound, Built, EndedWell, extras, Files
    <2> QED
      BY <2>4, <2>5, <2>6, <2>7, <2>8, <2>9, <2>10 DEF Built
  <1>5. CASE pc = "file_hcd"
    <2>1. /\ pc = "file_hcd" /\ pc' = "ota" /\ UNCHANGED <<product, source, loaded, outcome>>
          /\ hexNewer' = hexNewer
          /\ file' = [file EXCEPT !["hcd"] = file["hex"]]
      BY <1>1, <1>2, <1>5
    <2>2. /\ file'["hcd"] = file["hex"]
          /\ \A f \in Files \ {"hcd"} : file'[f] = file[f]
      BY <2>1 DEF Sound, Inv, TypeOK, Files
    <2>3. LoaderOf(extras) = {}
      BY <1>1, <1>2, <1>5 DEF Sound, Built, Wanted, Sections, Plain, LoaderOf, extras
    <2>4. ElfBuilt'
      BY <2>1 DEF Sound, Built, ElfBuilt, Tools, Late, Merging, Moves, Merges, Hcds
    <2>5. Chain'
      BY <2>1 DEF Chain, Tools
    <2>6. Wanted'
      BY <2>1 DEF Wanted, Sections
    <2>7. HexBuilt'
      BY <2>1 DEF Sound, Built, HexBuilt, extras
    <2>8. HcdBuilt'
      BY <2>1, <2>2, <2>3 DEF HcdBuilt, Moves, extras, Files
    <2>9. Kept'
      BY <2>1 DEF Kept, Before
    <2>10. EndedWell'
      BY <2>1, <2>2, <2>3 DEF Sound, Built, EndedWell, extras, Files
    <2> QED
      BY <2>4, <2>5, <2>6, <2>7, <2>8, <2>9, <2>10 DEF Built
  <1> QED
    BY <1>1, <1>2, <1>3, <1>4, <1>5

LEMMA OtaBuilds ==
  ASSUME Sound, Ota
  PROVE  Built'
  <1>1. /\ pc = "ota" /\ pc' = "copy" /\ UNCHANGED <<product, source, loaded, outcome>>
        /\ UNCHANGED <<file, hexNewer>>
    BY DEF Sound, Ota, Checked, Skip, With, Plain, rest, mayFail, extras
  <1>2. \A f \in Files : file'[f] = file[f]
    BY <1>1
  <1>3. ElfBuilt'
    BY <1>1 DEF Sound, Built, ElfBuilt, Tools, Late, Merging, Moves, Merges, Hcds
  <1>4. Chain'
    BY <1>1 DEF Chain, Tools
  <1>5. Wanted'
    BY <1>1 DEF Wanted, Sections
  <1>6. HexBuilt'
    BY <1>1 DEF Sound, Built, HexBuilt, extras
  <1>7. HcdBuilt'
    BY <1>1 DEF Sound, Built, HcdBuilt, Moves, extras
  <1>8. Kept'
    BY <1>1 DEF Kept, Before
  <1>9. EndedWell'
    BY <1>1 DEF Sound, Built, EndedWell, extras
  <1> QED
    BY <1>3, <1>4, <1>5, <1>6, <1>7, <1>8, <1>9 DEF Built

LEMMA DevelopBuilds ==
  ASSUME Sound, Edit \/ Make \/ Interrupt
  PROVE  Built'
  <1>1. /\ pc = "idle" /\ pc' \in {"idle", "prebuild"} /\ outcome' = "none"
        /\ UNCHANGED <<product, file, hexNewer>>
    BY DEF Sound, Edit, Make, Interrupt, mayFail
  <1>2. ElfBuilt' /\ Chain' /\ Wanted'
    BY <1>1 DEF Sound, Built, ElfBuilt, Chain, Wanted, Tools, Late, Merging, Moves, Merges, Hcds, Sections
  <1>3. HexBuilt' /\ HcdBuilt' /\ EndedWell'
    BY <1>1 DEF HexBuilt, HcdBuilt, EndedWell, Moves
  <1>4. Kept'
    BY <1>1 DEF Sound, Built, Kept, Before, Exists, extras
  <1> QED
    BY <1>2, <1>3, <1>4 DEF Built

LEMMA MakeCleanBuilds ==
  ASSUME Sound, MakeClean
  PROVE  Built'
  <1>1. pc' = "idle" /\ outcome' = "none" /\ \A f \in Files : file'[f] = {}
    BY DEF MakeClean, NoFiles
  <1>2. ElfBuilt' /\ Chain' /\ Wanted'
    BY <1>1 DEF ElfBuilt, Chain, Wanted, Tools, Late, Merging, Moves, Merges, Hcds, Sections, Files
  <1>3. HexBuilt' /\ HcdBuilt' /\ EndedWell' /\ Kept'
    BY <1>1 DEF HexBuilt, HcdBuilt, EndedWell, Moves, Kept, Exists, Files
  <1> QED
    BY <1>2, <1>3 DEF Built

(* A post-build that ends, whether it made the image or skipped it. *)
LEMMA AfterBuilds ==
  ASSUME Sound, NEW result, result \in {"done", "skipped"}, After(result), pc # "idle",
         App \in file["elf"],
         file["hex"] = WithFile(extras, source),
         file["hcd"] = WithFile(extras, source) \cup LoaderOf(extras)
  PROVE  Built'
  <1>1. /\ UNCHANGED <<product, source, loaded, file, hexNewer>>
        /\ \/ pc' = "idle" /\ outcome' = result
           \/ pc' \in {"deps", "program"} /\ outcome' = outcome
    BY AfterCases DEF Sound, Inv
  <1>2. outcome \notin {"done", "skipped", "loaded"}
    BY DEF Sound, Inv, Ended
  <1>3. \A v : <<"app", v>> \in file["elf"] => v = source
    BY DEF Sound, Inv, ElfOK, App
  <1>4. ElfBuilt' /\ Chain' /\ Wanted'
    BY <1>1 DEF Sound, Built, ElfBuilt, Chain, Wanted, Tools, Late, Merging, Moves, Merges, Hcds, Sections
  <1>5. HexBuilt' /\ HcdBuilt'
    BY <1>1 DEF HexBuilt, HcdBuilt, Moves, extras
  <1>6. EndedWell'
    BY <1>1, <1>2 DEF EndedWell, extras
  <1>7. Kept'
    BY <1>1, <1>3 DEF Kept, extras
  <1> QED
    BY <1>4, <1>5, <1>6, <1>7 DEF Built

LEMMA CopyBuilds ==
  ASSUME Sound, Copy
  PROVE  Built'
  <1>1. pc = "copy" /\ After("done")
    BY DEF Sound, Copy, mayFail
  <1>2. App \in file["elf"]
    BY <1>1 DEF Sound, Inv, ElfOK, Linked, Late
  <1>3. file["hex"] = WithFile(extras, source)
    BY <1>1 DEF Sound, Built, HexBuilt
  <1>4. file["hcd"] = WithFile(extras, source) \cup LoaderOf(extras)
    BY <1>1, <1>3 DEF Sound, Built, HcdBuilt
  <1> QED
    BY <1>1, <1>2, <1>3, <1>4, AfterBuilds

LEMMA DependSkipBuilds ==
  ASSUME Sound, DependSkip
  PROVE  Built'
  <1>1. pc = "deps" /\ hexNewer /\ Exists("hex") /\ After("skipped")
    BY DEF DependSkip, UpToDate
  <1>2. App \in file["elf"] /\ source \in 1..MaxVersion
    BY <1>1 DEF Sound, Inv, ElfOK, Linked, TypeOK
  <1>3. /\ file["hex"] = WithFile(extras, source)
        /\ file["hcd"] = WithFile(extras, source) \cup LoaderOf(extras)
    BY <1>1, <1>2 DEF Sound, Built, Kept, Before, App
  <1> QED
    BY <1>1, <1>2, <1>3, AfterBuilds

LEMMA ProgramBuilds ==
  ASSUME Sound, Program
  PROVE  Built'
  <1>1. /\ pc = "program" /\ pc' = "idle" /\ UNCHANGED <<product, source, file, hexNewer>>
        /\ \/ outcome' = "loaded" /\ loaded' = file[Download]
           \/ outcome' = "failed"
    BY DEF Program
  <1>2. /\ file["hex"] = WithFile(extras, source)
        /\ file["hcd"] = WithFile(extras, source) \cup LoaderOf(extras)
    BY <1>1 DEF Sound, Built, HexBuilt, HcdBuilt
  <1>3. App \in file["elf"]
    BY <1>1 DEF Sound, Inv, ElfOK, Linked
  <1>4. \A v : <<"app", v>> \in file["elf"] => v = source
    BY <1>3 DEF Sound, Inv, ElfOK, App
  <1>5. ElfBuilt' /\ Chain' /\ Wanted'
    BY <1>1 DEF Sound, Built, ElfBuilt, Chain, Wanted, Tools, Late, Merging, Moves, Merges, Hcds, Sections
  <1>6. HexBuilt' /\ HcdBuilt'
    BY <1>1 DEF HexBuilt, HcdBuilt, Moves
  <1>7. EndedWell'
    <2>1. Download = "hex" => LoaderOf(extras) = {}
      BY DEF Download, LoaderOf
    <2>2. Download \in {"hex", "hcd"}
      BY DEF Download
    <2> QED
      BY <1>1, <1>2, <2>1, <2>2 DEF EndedWell, extras
  <1>8. Kept'
    BY <1>1, <1>2, <1>4 DEF Kept, extras
  <1> QED
    BY <1>5, <1>6, <1>7, <1>8 DEF Built

LEMMA NextBuilds ==
  ASSUME Sound, Next
  PROVE  Built'
  BY DevelopBuilds, MakeCleanBuilds, PreBuildBuilds, LinkBuilds, DependSkipBuilds, DependBuilds,
     CleanBuilds, GenLdBuilds, RelinkBuilds, ObjdumpBuilds, GenCgsBuilds, SplitBuilds, GenSsDsBuilds,
     GenSsBinBuilds, GenDsBinBuilds, GenSubDsBuilds, GenHexBuilds, MergeExtraHexBuilds,
     MergeDirectBuilds, GenHcdBuilds, DmMoveBuilds, DmCatBuilds, MoveAwayBuilds, MergeBackBuilds,
     HcdAgainBuilds, OtaBuilds, CopyBuilds, ProgramBuilds
  DEF Next

LEMMA StutterBuilds ==
  ASSUME Sound, UNCHANGED vars
  PROVE  Built'
  <1> USE DEF Sound, Built, vars, extras
  <1>1. ElfBuilt' /\ Chain' /\ Wanted'
    BY DEF ElfBuilt, Chain, Wanted
  <1>2. HexBuilt' /\ HcdBuilt'
    BY DEF HexBuilt, HcdBuilt
  <1>3. Kept' /\ EndedWell'
    BY DEF Kept, EndedWell, Exists
  <1> QED
    BY <1>1, <1>2, <1>3

LEMMA InitBuilt == Init => Built
  <1> SUFFICES ASSUME Init
               PROVE  Built
    OBVIOUS
  <1>1. pc = "idle" /\ outcome = "none" /\ \A f \in Files : file[f] = {}
    BY DEF Init, NoFiles
  <1>2. ElfBuilt /\ Chain /\ Wanted
    BY <1>1 DEF ElfBuilt, Chain, Wanted, Tools, Late, Merging, Moves, Merges, Hcds, Sections, Files
  <1>3. HexBuilt /\ HcdBuilt /\ EndedWell /\ Kept
    BY <1>1 DEF HexBuilt, HcdBuilt, EndedWell, Moves, Kept, Exists, Files
  <1> QED
    BY <1>2, <1>3 DEF Built

-----------------------------------------------------------------------------

LEMMA BuiltHolds ==
  ASSUME AllPlain
  PROVE  Spec => [](Inv /\ (~mayFail => Built))
  <1> DEFINE I == Inv /\ (~mayFail => Built)
  <1>1. Init => I
    BY InitInv, InitBuilt
  <1>2. I /\ [Next]_vars => I'
    <2> SUFFICES ASSUME I, [Next]_vars, ~mayFail'
                 PROVE  Inv' /\ Built'
      BY NextKeeps, StutterKeeps
    <2>1. product' = product
      <3>1. CASE UNCHANGED vars
        BY <3>1 DEF vars
      <3>2. CASE Next
        BY <3>2 DEF Next, rest, Edit, MakeClean, Make, Interrupt, PreBuild, Link, DependSkip, After,
             Depend, Clean, GenLd, Relink, Objdump, GenCgs, Split, GenSsDs, GenSsBin, GenDsBin, GenSubDs,
             GenHex, MergeExtraHex, MergeDirect, GenHcd, DmMove, DmCat, MoveAway, MergeBack, HcdAgain,
             Ota, Copy, Program, Checked, Ignored, Skip
      <3> QED
        BY <3>1, <3>2
    <2>2. ~mayFail /\ Inv /\ Built
      BY <2>1 DEF mayFail
    <2>3. product \in Products
      BY <2>2 DEF Inv, TypeOK
    <2>4. Sound
      BY <2>2, <2>3 DEF Sound, AllPlain, mayFail
    <2> QED
      BY <2>2, <2>4, NextKeeps, StutterKeeps, NextBuilds, StutterBuilds
  <1> QED
    BY <1>1, <1>2, PTL DEF Spec

LEMMA WordsAll ==
  \A words : words \subseteq Words =>
    \A v : Base(v) \cup UNION {ForWord(word, v) : word \in words} = WithFile(words, v)
  <1> SUFFICES ASSUME NEW words, words \subseteq Words, NEW v
               PROVE  Base(v) \cup UNION {ForWord(word, v) : word \in words} = WithFile(words, v)
    OBVIOUS
  <1>1. /\ ForWord("DIRECT", v) = {<<"direct", v>>}
        /\ ForWord("_APPDS2_", v) = {<<"ds2", 0>>}
        /\ ForWord("in_code", v) = {<<"static", v>>}
        /\ ForWord("in_file", v) = {<<"static", 0>>}
        /\ ForWord("extrahex", v) = {<<"extrahex", 0>>}
        /\ ForWord("_DM_", v) = {} /\ ForWord("OTA", v) = {} /\ ForWord("failsafe", v) = {}
    BY DEF ForWord
  <1>2. WithFile(words, v) = Base(v) \cup Asked(words, "extrahex", v) \cup Asked(words, "DIRECT", v)
          \cup Asked(words, "_APPDS2_", v) \cup Asked(words, "in_code", v) \cup Asked(words, "in_file", v)
    BY DEF WithFile, WithCode, WithDs2, WithDirect, WithExtra
  <1>3. UNION {ForWord(word, v) : word \in words} =
          Asked(words, "extrahex", v) \cup Asked(words, "DIRECT", v)
          \cup Asked(words, "_APPDS2_", v) \cup Asked(words, "in_code", v) \cup Asked(words, "in_file", v)
    BY <1>1 DEF Asked, Words
  <1> QED
    BY <1>2, <1>3

LEMMA ImageIs ==
  ASSUME Inv
  PROVE  Image(source) = WithFile(extras, source) /\ Loader = LoaderOf(extras)
  <1>1. extras \subseteq Words
    BY PostBuildAssumption DEF Inv, TypeOK, extras
  <1> QED
    BY <1>1, WordsAll DEF Image, Base, Loader, LoaderOf

(* If the tools are sound and the product is plain, a make that ends well, *)
(* the one that skips the post-build included, leaves the complete image   *)
(* of the sources, however many edits, interrupted or complete makes and   *)
(* `make clean' came before.                                               *)
THEOREM ImageComplete ==
  ASSUME AllPlain
  PROVE  Spec => []CompleteImage
  <1>1. Inv /\ (~mayFail => Built) => CompleteImage
    BY ImageIs DEF Built, EndedWell, CompleteImage
  <1> QED
    BY BuiltHolds, <1>1, PTL

(* And the HCD file is that image, behind the loader where the life cycle  *)
(* asks for one.                                                           *)
THEOREM HcdComplete ==
  ASSUME AllPlain
  PROVE  Spec => []CompleteHcd
  <1>1. Inv /\ (~mayFail => Built) => CompleteHcd
    BY ImageIs DEF Built, EndedWell, CompleteHcd
  <1> QED
    BY BuiltHolds, <1>1, PTL

(* And a successful `make program' has loaded that image: the two runs of  *)
(* the post-build and the choice of the file at download agree with what   *)
(* was asked for when it was built.                                        *)
THEOREM ProgramLoads ==
  ASSUME AllPlain
  PROVE  Spec => []ProgramLoadsSources
  <1>1. Inv /\ (~mayFail => Built) => ProgramLoadsSources
    BY ImageIs DEF Built, EndedWell, ProgramLoadsSources
  <1> QED
    BY BuiltHolds, <1>1, PTL

==============================================================================
