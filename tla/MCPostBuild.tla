----------------------------- MODULE MCPostBuild -----------------------------
(* Products for PostBuild.  DIRECT is the default. *)
EXTENDS PostBuild

Sound(extraWords) == [extras |-> extraWords, mayFail |-> FALSE]
Faulty(extraWords) == [extras |-> extraWords, mayFail |-> TRUE]

(* With sound tools every kind of product, with faulty ones those whose    *)
(* parts come from different tools.                                        *)
MCProducts ==
  {Sound({"DIRECT"}), Sound({"DIRECT", "_DM_", "extrahex"}), Sound({"_DM_"}),
   Sound({"_APPDS2_", "OTA"}), Sound({"DIRECT", "in_code", "in_file"}),
   Sound({"OTA", "extrahex"}),
   Faulty({"DIRECT", "_DM_"}), Faulty({"in_file"}), Faulty({"OTA", "failsafe"})}

MCDefault == {Faulty({"DIRECT"})}

MCLoaderAndSection == {Sound({"DIRECT", "_DM_", "in_code"})}

==============================================================================
