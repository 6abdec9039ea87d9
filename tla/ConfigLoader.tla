----------------------------- MODULE ConfigLoader -----------------------------
(***************************************************************************)
(* Loader.Load of internal/config/loader.go: the defaults, then the global *)
(* and the project file, then the flags, then the key from the credential  *)
(* store.  The files are read one after the other and may be edited         *)
(* meanwhile.                                                               *)
(*                                                                         *)
(* A string is kept as far as Load looks at it: a mode is valid or not, and *)
(* "empty" and "spaces" stand for the strings that TrimSpace makes empty.  *)
(***************************************************************************)

CONSTANTS ModeNames,   \* strings given as a mode
          ModelNames,  \* strings given as a model id
          Other,       \* fields that a file may have and may not
          Keys,        \* what the credential store may return
          Unset        \* a field, a flag that is not there

VARIABLES files,     \* files[s]: what is at the path of layer s
          defaults,  \* Loader.Defaults
          flags,     \* CLIOverrides
          pc,        \* the step of Load, or its result
          config,    \* the configuration so far
          read,      \* history: read[s], the layer that was read
          key        \* the key of a resolved configuration, or Unset

vars == <<files, defaults, flags, pc, config, read, key>>

-----------------------------------------------------------------------------
Sources == {"global", "project"}
Blank == {"empty", "spaces"}
ValidModes == {"workspace", "readonly", "benchmark"}
Modes == ModeNames \cup ValidModes \cup Blank
Models == ModelNames \cup Blank

Config == [mode : Modes, model_id : Models]
Layer == [mode : Modes \cup {Unset}, model_id : Models \cup {Unset}]
NoLayer == [mode |-> Unset, model_id |-> Unset]

\* A file: none, one that cannot be read or is not one JSON object, or an
\* object, in which null and values that are no strings may be among the
\* fields it may have, with the other fields that it has.
Contents == [kind : {"absent", "unusable", "object"},
             mode : Modes \cup {Unset, "null", "number"},
             model_id : Models \cup {Unset, "null", "number"},
             others : SUBSET Other]

Step(next) == pc' = next /\ UNCHANGED <<files, defaults, flags>>
Fail == Step("failed") /\ UNCHANGED <<config, read, key>>

Merge(c, l) == [f \in {"mode", "model_id"} |->
                  IF l[f] = Unset THEN c[f] ELSE l[f]]

Init == /\ files \in [Sources -> Contents]
        /\ defaults \in Config /\ flags \in Layer
        /\ pc = "start" /\ config = defaults
        /\ read = [s \in Sources |-> NoLayer] /\ key = Unset

\* The roots of the two paths, which may be missing, and the defaults.
Base == [mode |-> IF defaults.mode = "empty" THEN "workspace" ELSE defaults.mode,
         model_id |-> defaults.model_id]
Start == /\ pc = "start"
         /\ \/ Fail
            \/ /\ Base.mode \in ValidModes
               /\ config' = Base
               /\ Step("global") /\ UNCHANGED <<read, key>>

\* readLayer turns a file down for any field it does not know and any value
\* that is not a string.
Usable(f) == /\ f.kind = "object"
             /\ f.others = {}
             /\ {f.mode, f.model_id} \cap {"null", "number"} = {}

\* readLayer, applyLayer and the check of the mode that results.
ReadLayer(s, next) ==
  /\ pc = s
  /\ \/ files[s].kind = "absent"
        /\ Step(next) /\ UNCHANGED <<config, read, key>>
     \/ /\ Usable(files[s])
        /\ LET layer == [mode |-> files[s].mode, model_id |-> files[s].model_id]
               merged == Merge(config, layer) IN
           /\ merged.mode \in ValidModes
           /\ config' = merged /\ read' = [read EXCEPT ![s] = layer]
        /\ Step(next) /\ UNCHANGED key
     \/ /\ files[s].kind # "absent"
        /\ Usable(files[s]) =>
             files[s].mode # Unset /\ files[s].mode \notin ValidModes
        /\ Fail

ReadGlobal == ReadLayer("global", "project")
ReadProject == ReadLayer("project", "flags")

\* applyOverrides: a flag that is given must not be blank.
ApplyOverrides ==
  LET merged == Merge(config, flags)
      good == /\ flags.mode \notin Blank /\ flags.model_id \notin Blank
              /\ merged.mode \in ValidModes
  IN /\ pc = "flags"
     /\ \/ ~good /\ Fail
        \/ good /\ config' = merged /\ Step("key") /\ UNCHANGED <<read, key>>

\* OpenRouterAPIKey may fail, and must not return a blank key.
GetKey == /\ pc = "key"
          /\ \/ Fail
             \/ /\ key' \in Keys \ Blank
                /\ Step("resolved") /\ UNCHANGED <<config, read>>

\* Somebody edits, creates or deletes a file.
Edit(s) == /\ \E f \in Contents : files' = [files EXCEPT ![s] = f]
           /\ UNCHANGED <<defaults, flags, pc, config, read, key>>

Finished == pc \in {"resolved", "failed"} /\ UNCHANGED vars

Next == \/ Start \/ ReadGlobal \/ ReadProject \/ ApplyOverrides \/ GetKey
        \/ \E s \in Sources : Edit(s)
        \/ Finished

Spec == Init /\ [][Next]_vars

-----------------------------------------------------------------------------
(* Properties.                                                              *)

\* types.go:29-36, loader.go:29-89: nothing is resolved from a layer that is
\* wrong by itself, even where a later layer would have replaced its value.
FailClosed ==
  pc = "resolved" =>
    /\ config.mode \in ValidModes /\ key \in Keys \ Blank
    /\ \A s \in Sources : read[s].mode \in ValidModes \cup {Unset}
    /\ flags.mode \in ValidModes \cup {Unset}
    /\ flags.model_id \notin Blank

\* Each field is that of the last layer that has it, whatever the files have
\* become since they were read.
LastLayerWins ==
  pc = "resolved" =>
    \A f \in {"mode", "model_id"} :
      LET project == read["project"]
          global == read["global"]
      IN \/ flags[f] # Unset /\ config[f] = flags[f]
         \/ flags[f] = Unset /\ project[f] # Unset /\ config[f] = project[f]
         \/ /\ flags[f] = Unset /\ project[f] = Unset /\ global[f] # Unset
            /\ config[f] = global[f]
         \/ /\ {flags[f], project[f], global[f]} = {Unset}
            /\ config[f] = Base[f]
=============================================================================
