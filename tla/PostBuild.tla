------------------------------ MODULE PostBuild ------------------------------
(***************************************************************************)
(* The build of an application image: make links the ELF file after        *)
(* make/scripts/bt_pre_build.bash, and make/scripts/bt_post_build.bash     *)
(* turns it into the download images (_download.hex and _download.hcd).    *)
(* `make program' builds, then make/scripts/bt_program.bash loads one of   *)
(* the two into the device.                                                *)
(* The tools are external.  If mayFail is TRUE each of them may fail, and  *)
(* make may be interrupted between two commands; the script runs most of   *)
(* them under "set +e" and never looks at the result.                      *)
(*                                                                         *)
(* A file is the set of <<part, version>> pairs that went into it, {} when *)
(* it does not exist.                                                      *)
(***************************************************************************)
EXTENDS Naturals

CONSTANTS
  MaxVersion, (* bound: versions of the sources                           *)
  Products    (* what is built: the words in --extras, whether there is   *)
              (* an --extrahex or a --failsafe, and whether tools fail    *)

Words == {"DIRECT", "_DM_", "_APPDS2_", "in_code", "in_file", "OTA",
          "failsafe", "extrahex"}

ASSUME PostBuildAssumption ==
  /\ MaxVersion \in Nat \ {0}
  /\ Products \subseteq [extras : SUBSET Words, mayFail : BOOLEAN]

VARIABLES
  product,   (* the one of this project                                   *)
  source,    (* version of the sources                                    *)
  file,      (* the build directory                                       *)
  hexNewer,  (* _download.hex is newer than the ELF file                  *)
  pc,        (* the next command; "idle" when make is not running         *)
  outcome,   (* of the last make: "done", "skipped", "loaded" or "failed" *)
  target,    (* of this make; "qprogram" once the build is done           *)
  loaded     (* history: what this make has put into the device           *)

vars == <<product, source, file, hexNewer, pc, outcome, target, loaded>>
rest == <<product, source, target, loaded>>

extras == product.extras
mayFail == product.mayFail

Files == {"ld", "elf", "postld", "cgs", "direct", "ssds", "ssbin", "dsbin",
          "subds", "hex", "moved", "hcd"}

Parts == {"app", "layout", "direct", "extrahex", "loader", "ds2", "static", "failsafe"}

(* The three sections that are added to a finished image alike: the word   *)
(* that asks for the section, and the commands of its block.               *)
Sections == {
  [word |-> "_APPDS2_", move |-> "ds2_move",  merge |-> "ds2_merge",
   hcd |-> "ds2_hcd",  next |-> "code_move"],
  [word |-> "in_code",  move |-> "code_move", merge |-> "code_merge",
   hcd |-> "code_hcd", next |-> "file_move"],
  [word |-> "in_file",  move |-> "file_move", merge |-> "file_merge",
   hcd |-> "file_hcd", next |-> "ota"]}

Commands == {"prebuild", "link", "deps", "clean", "genld", "relink", "objdump",
             "gencgs", "split", "genssds", "genssbin", "gendsbin", "gensubds",
             "genhex", "extrahex", "mergedirect", "genhcd", "dm_move", "dm_cat",
             "ota", "copy", "program"}
            \cup UNION {{s.move, s.merge, s.hcd} : s \in Sections}

TypeOK ==
  /\ product \in Products /\ source \in 1..MaxVersion
  /\ file \in [Files -> SUBSET (Parts \X (0..MaxVersion))]
  /\ hexNewer \in BOOLEAN
  /\ pc \in Commands \cup {"idle"}
  /\ outcome \in {"none", "done", "skipped", "loaded", "failed"}
  /\ target \in {"build", "program", "qprogram"}
  /\ loaded \in SUBSET (Parts \X (0..MaxVersion))
  /\ \A f \in Files \ {"hcd"} : <<"loader", 0>> \notin file[f]
  /\ \A v \in 1..MaxVersion : <<"direct", v>> \notin file["elf"] \cup file["cgs"]

NoFiles == [f \in Files |-> {}]

Exists(f) == file[f] # {}

Init ==
  /\ product \in Products
  /\ source = 1 /\ file = NoFiles /\ hexNewer = FALSE
  /\ pc = "idle" /\ outcome = "none"
  /\ target = "build" /\ loaded = {}

-----------------------------------------------------------------------------

(* A command whose result counts ("set -e"), and one whose result does not.*)
(* A tool that fails has written nothing.                                  *)
Checked(from, to, needs, files) ==
  /\ pc = from
  /\ \/ needs /\ file' = files /\ pc' = to /\ UNCHANGED outcome
     \/ (mayFail \/ ~needs) /\ pc' = "idle" /\ outcome' = "failed" /\ UNCHANGED file
  /\ UNCHANGED <<rest, hexNewer>>

Ignored(from, to, needs, files) ==
  /\ pc = from /\ pc' = to
  /\ \/ needs /\ file' = files
     \/ (mayFail \/ ~needs) /\ UNCHANGED file
  /\ UNCHANGED <<rest, hexNewer, outcome>>

Skip(from, to) ==
  /\ pc = from /\ pc' = to
  /\ UNCHANGED <<rest, file, hexNewer, outcome>>

With(f, content) == [file EXCEPT ![f] = content]

Version(f) == {part[2] : part \in file[f]}

CodeOf(f, part) == {<<part, v>> : v \in {p[2] : p \in {q \in file[f] : q[1] = "app"}}}

-----------------------------------------------------------------------------

(* The developer. *)
Edit ==
  /\ pc = "idle" /\ source < MaxVersion
  /\ source' = source + 1 /\ outcome' = "none" /\ loaded' = {}
  /\ UNCHANGED <<product, file, hexNewer, pc, target>>

MakeClean ==
  /\ pc = "idle" /\ file' = NoFiles /\ hexNewer' = FALSE /\ outcome' = "none"
  /\ loaded' = {}
  /\ UNCHANGED <<product, source, target, pc>>

Make ==
  /\ pc = "idle" /\ pc' = "prebuild"
  /\ outcome' = "none" /\ target' \in {"build", "program"} /\ loaded' = {}
  /\ UNCHANGED <<product, source, file, hexNewer>>

Interrupt ==
  /\ mayFail /\ pc # "idle"
  /\ pc' = "idle" /\ outcome' = "failed"
  /\ UNCHANGED <<rest, file, hexNewer>>

(* bt_pre_build.bash: an existing linker script is kept. *)
PreBuild ==
  \/ Exists("ld") /\ Skip("prebuild", "link")
  \/ /\ ~Exists("ld")
     /\ Checked("prebuild", "link", TRUE, With("ld", {<<"layout", source>>}))

(* make links if the sources have changed since it last did. *)
Link ==
  \/ <<"app", source>> \in file["elf"] /\ Skip("link", "deps")
  \/ /\ <<"app", source>> \notin file["elf"] /\ pc = "link"
     /\ \/ file' = With("elf", {<<"app", source>>}) /\ hexNewer' = FALSE
           /\ pc' = "deps" /\ UNCHANGED outcome
        \/ mayFail /\ pc' = "idle" /\ outcome' = "failed" /\ UNCHANGED <<file, hexNewer>>
     /\ UNCHANGED rest

-----------------------------------------------------------------------------

(* What follows a post-build that ended well.  qprogram wants a file       *)
(* <app>.hex, which no rule makes, so its recipe, the post-build, is run a *)
(* second time.                                                            *)
After(result) ==
  /\ CASE target = "build"    -> pc' = "idle" /\ outcome' = result /\ UNCHANGED target
       [] target = "program"  -> pc' = "deps" /\ target' = "qprogram" /\ UNCHANGED outcome
       [] target = "qprogram" -> pc' = "program" /\ UNCHANGED <<outcome, target>>
  /\ UNCHANGED <<product, source, loaded, file, hexNewer>>

(* "check dependencies - only rebuild when needed" *)
(* A slip: the times are not compared. *)
UpToDateExists == Exists("hex")

UpToDate == Exists("hex") /\ hexNewer

DependSkip == pc = "deps" /\ UpToDate /\ After("skipped")

Depend == ~UpToDate /\ Skip("deps", "clean")

(* A slip: the list for the image generator stays. *)
CleanKeepsCgs ==
  /\ pc = "clean" /\ pc' = "genld"
  /\ file' = [file EXCEPT !["hex"] = {}, !["hcd"] = {}]
  /\ UNCHANGED <<rest, hexNewer, outcome>>

Clean ==
  /\ pc = "clean" /\ pc' = "genld"
  /\ file' = [file EXCEPT !["hex"] = {}, !["hcd"] = {}, !["cgs"] = {}]
  /\ UNCHANGED <<rest, hexNewer, outcome>>

GenLd == Ignored("genld", "relink", TRUE,
                 With("postld", {<<"layout", v>> : v \in Version("elf")}))

(* The ELF file is linked again, in place.  A linker that fails late takes *)
(* its output away.                                                        *)
Relink ==
  /\ pc = "relink" /\ pc' = "objdump"
  /\ \/ /\ Exists("postld") /\ hexNewer' = FALSE
        /\ file' = With("elf", {p \in file["elf"] : p[1] = "app"} \cup file["postld"])
     \/ mayFail /\ file' = With("elf", {}) /\ hexNewer' = FALSE
     \/ (mayFail \/ ~Exists("postld")) /\ UNCHANGED <<file, hexNewer>>
  /\ UNCHANGED <<rest, outcome>>

Objdump == Checked("objdump", "gencgs", Exists("elf"), file)

GenCgs == Ignored("gencgs", "split", Exists("elf") /\ Exists("postld"),
                  With("cgs", file["elf"]))

(* wiced-split-dl-cgs.pl *)
Split ==
  IF "DIRECT" \in extras
  THEN Checked("split", "genssds", Exists("cgs"),
               With("direct", CodeOf("cgs", "direct")))
  ELSE Skip("split", "genssds")

(* A result is looked at only by whether the file exists. *)
GenSsDs ==
  \/ /\ pc = "genssds" /\ Exists("cgs")
     /\ file' = With("ssds", file["cgs"]) /\ pc' = "genssbin"
     /\ UNCHANGED <<rest, hexNewer, outcome>>
  \/ /\ pc = "genssds" /\ (mayFail \/ ~Exists("cgs"))
     /\ IF Exists("ssds") THEN pc' = "genssbin" /\ UNCHANGED outcome
                          ELSE pc' = "idle" /\ outcome' = "failed"
     /\ UNCHANGED <<rest, file, hexNewer>>

GenSsBin == Ignored("genssbin", "gendsbin", Exists("ssds"), With("ssbin", file["ssds"]))

GenDsBin == Ignored("gendsbin", "gensubds", Exists("ssds"), With("dsbin", file["ssds"]))

GenSubDs == Ignored("gensubds", "genhex", Exists("ssbin") /\ Exists("dsbin"),
                    With("subds", file["ssbin"] \cup file["dsbin"]))

GenHex ==
  \/ /\ pc = "genhex" /\ Exists("subds")
     /\ file' = With("hex", file["subds"]) /\ hexNewer' = TRUE /\ pc' = "extrahex"
     /\ UNCHANGED <<rest, outcome>>
  \/ /\ pc = "genhex" /\ (mayFail \/ ~Exists("subds"))
     /\ IF Exists("hex") THEN pc' = "extrahex" /\ UNCHANGED outcome
                         ELSE pc' = "idle" /\ outcome' = "failed"
     /\ UNCHANGED <<rest, file, hexNewer>>

-----------------------------------------------------------------------------

Add(content) == With("hex", file["hex"] \cup content)

MergeExtraHex ==
  IF "extrahex" \in extras
  THEN Ignored("extrahex", "mergedirect", Exists("hex"), Add({<<"extrahex", 0>>}))
  ELSE Skip("extrahex", "mergedirect")

MergeDirect ==
  IF "DIRECT" \in extras
  THEN Ignored("mergedirect", "genhcd", Exists("direct"), Add(file["direct"]))
  ELSE Skip("mergedirect", "genhcd")

(* A slip: its result is not looked at. *)
GenHcdIgnored == Ignored("genhcd", "dm_move", Exists("hex"), With("hcd", file["hex"]))

GenHcd == Checked("genhcd", "dm_move", Exists("hex"), With("hcd", file["hex"]))

(* The loader for the DM life cycle goes in front of the HCD file. *)
DmMove ==
  IF "_DM_" \in extras
  THEN Checked("dm_move", "dm_cat", TRUE, [With("moved", file["hcd"]) EXCEPT !["hcd"] = {}])
  ELSE Skip("dm_move", "ds2_move")

(* Slips: the loader is left out; the output goes to the wrong name. *)
DmCatBare == Checked("dm_cat", "ds2_move", TRUE, With("hcd", file["moved"]))

DmCatHex == Checked("dm_cat", "ds2_move", TRUE,
                    With("hex", file["moved"] \cup {<<"loader", 0>>}))

DmCat == Checked("dm_cat", "ds2_move", TRUE,
                 With("hcd", file["moved"] \cup {<<"loader", 0>>}))

(* The second data section, static data from the ELF file, and static data *)
(* from a file: each moves the image away, merges it back, and makes the   *)
(* HCD file again.                                                         *)
Section(word) ==
  CASE word = "_APPDS2_" -> {<<"ds2", 0>>}
    [] word = "in_code"  -> CodeOf("elf", "static")
    [] word = "in_file"  -> {<<"static", 0>>}

MoveAway == \E s \in Sections :
  IF s.word \in extras
  THEN Checked(s.move, s.merge, TRUE,
               [With("moved", file["hex"]) EXCEPT !["hex"] = {}, !["hcd"] = {}])
  ELSE Skip(s.move, s.next)

MergeBack == \E s \in Sections :
  /\ pc = s.merge
  /\ LET section == Section(s.word)
     IN  \/ /\ section # {} /\ pc' = s.hcd
            /\ file' = With("hex", file["moved"] \cup section) /\ hexNewer' = TRUE
            /\ UNCHANGED outcome
         \/ /\ (mayFail \/ section = {}) /\ pc' = "idle" /\ outcome' = "failed"
            /\ UNCHANGED <<file, hexNewer>>
  /\ UNCHANGED rest

HcdAgain == \E s \in Sections :
  Checked(s.hcd, s.next, TRUE, With("hcd", file["hex"]))

(* The upgrade image is a file of its own.  With a fail-safe application,  *)
(* the image it is made from replaces the download image.                  *)
Ota ==
  IF "OTA" \in extras /\ "DIRECT" \notin extras
  THEN IF "failsafe" \in extras
       THEN Checked("ota", "copy", Exists("cgs"),
                    With("hex", file["cgs"] \cup {<<"failsafe", 0>>}))
       ELSE Checked("ota", "copy", TRUE, file)
  ELSE Skip("ota", "copy")

Copy ==
  /\ pc = "copy"
  /\ \/ After("done")
     \/ /\ mayFail /\ pc' = "idle" /\ outcome' = "failed"
        /\ UNCHANGED <<rest, file, hexNewer>>

-----------------------------------------------------------------------------

(* A slip: the life cycle is not looked at. *)
DownloadDirect == IF "DIRECT" \in extras THEN "hcd" ELSE "hex"

(* Only files for the flash are loaded as hex. *)
Download == IF {"DIRECT", "_DM_"} \cap extras # {} THEN "hcd" ELSE "hex"

(* bt_program.bash: whether the hex file exists is asked, then ChipLoad or *)
(* MbtP gets the file it loads.                                            *)
Program ==
  /\ pc = "program" /\ pc' = "idle"
  /\ \/ /\ Exists("hex") /\ Exists(Download)
        /\ loaded' = file[Download] /\ outcome' = "loaded"
     \/ /\ mayFail \/ ~Exists("hex") \/ ~Exists(Download)
        /\ outcome' = "failed" /\ UNCHANGED loaded
  /\ UNCHANGED <<product, source, target, file, hexNewer>>

Next ==
  \/ Edit \/ MakeClean \/ Make \/ Interrupt
  \/ PreBuild \/ Link \/ DependSkip \/ Depend \/ Clean
  \/ GenLd \/ Relink \/ Objdump \/ GenCgs \/ Split
  \/ GenSsDs \/ GenSsBin \/ GenDsBin \/ GenSubDs \/ GenHex
  \/ MergeExtraHex \/ MergeDirect \/ GenHcd \/ DmMove \/ DmCat
  \/ MoveAway \/ MergeBack \/ HcdAgain
  \/ Ota \/ Copy \/ Program

Spec == Init /\ [][Next]_vars

-----------------------------------------------------------------------------
(* Properties. *)

(* What the words ask for, built from sources of version v. *)
ForWord(word, v) ==
  CASE word = "DIRECT"   -> {<<"direct", v>>}
    [] word = "_APPDS2_" -> {<<"ds2", 0>>}
    [] word = "in_code"  -> {<<"static", v>>}
    [] word = "in_file"  -> {<<"static", 0>>}
    [] word = "extrahex" -> {<<"extrahex", 0>>}
    [] OTHER             -> {}

Image(v) == {<<"app", v>>, <<"layout", v>>}
            \cup UNION {ForWord(word, v) : word \in extras}

Loader == IF "_DM_" \in extras THEN {<<"loader", 0>>} ELSE {}

(* When no tool fails, a make that ends well, the one that skips the       *)
(* post-build included, leaves the complete hex image of the sources.      *)
CompleteImage ==
  outcome \in {"done", "skipped"} /\ ~mayFail => file["hex"] = Image(source)

(* And the HCD file is that image behind the loader the life cycle needs.  *)
CompleteHcd ==
  outcome \in {"done", "skipped"} /\ ~mayFail => file["hcd"] = Image(source) \cup Loader

(* Whatever fails, a post-build that reports completion leaves both        *)
(* download files, and they are one image: behind the loader the HCD file  *)
(* is the hex file.  (With a fail-safe application they differ on purpose.)*)
DownloadsAgree ==
  outcome = "done" =>
    /\ Exists("hex") /\ Exists("hcd")
    /\ {"OTA", "failsafe"} \subseteq extras
       \/ file["hcd"] \ {<<"loader", 0>>} = file["hex"]

(* Whatever fails or is interrupted, the direct-load part merged, and the  *)
(* one that a successful `make program' loads, is made from the current    *)
(* code: its input is removed first and its tool's result is looked at.    *)
DirectCurrent ==
  LET final == IF outcome = "loaded" THEN loaded ELSE file["hex"]
  IN  outcome \in {"done", "skipped", "loaded"} =>
        \A part \in final : part[1] = "direct" => part[2] = source

(* With sound tools a successful `make program', after any edits and makes *)
(* before, has loaded the image of the sources, through the loader where   *)
(* the life cycle asks for one: what is downloaded is what was asked for   *)
(* when it was built.                                                      *)
ProgramLoadsSources ==
  outcome = "loaded" /\ ~mayFail =>
    loaded = Image(source) \cup Loader

(* "only rebuild when needed": what is skipped was not needed; the image   *)
(* is there in full.                                                       *)
SkipOnlyWhenComplete ==
  outcome = "skipped" => Exists("hcd") /\ file["hex"] = Image(source)

(* "Merge DM loader": the HCD file of a DM life cycle device has it.       *)
LoaderMerged ==
  outcome = "done" => Loader \subseteq file["hcd"]

==============================================================================
