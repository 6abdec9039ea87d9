----------------------------- MODULE ConfigProofs -----------------------------
(* Proofs about the loading of the configuration, for any strings, files    *)
(* and edits of them.                                                       *)
EXTENDS ConfigLoader, TLAPS

\* The layers merged onto the defaults so far.
Global == Merge(Base, read["global"])
Project == Merge(Global, read["project"])

\* No layer that has been read has a mode that is not valid.
ValidRead == \A s \in Sources : read[s].mode \in ValidModes \cup {Unset}

\* Where Load is decides which layers have been merged.
LoadInv ==
  /\ defaults \in Config
  /\ pc \in {"start", "global", "project", "flags", "key", "resolved", "failed"}
  /\ pc = "start" => read = [s \in Sources |-> NoLayer]
  /\ pc = "global" => /\ read = [s \in Sources |-> NoLayer]
                      /\ config = Base /\ config.mode \in ValidModes
  /\ pc = "project" => /\ read["project"] = NoLayer /\ ValidRead
                       /\ DOMAIN read = Sources
                       /\ config = Global /\ config.mode \in ValidModes
  /\ pc = "flags" => /\ ValidRead /\ config = Project
                     /\ config.mode \in ValidModes
  /\ pc \in {"key", "resolved"} =>
       /\ ValidRead /\ config = Merge(Project, flags)
       /\ config.mode \in ValidModes
       /\ flags.mode \in ValidModes \cup {Unset} /\ flags.model_id \notin Blank
  /\ pc = "resolved" => key \in Keys \ Blank

\* A layer that is not there changes nothing.
LEMMA MergeNothing ==
  ASSUME NEW c, c = [f \in {"mode", "model_id"} |-> c[f]]
  PROVE  Merge(c, NoLayer) = c
BY DEF Merge, NoLayer

LEMMA BaseType == Base = [f \in {"mode", "model_id"} |-> Base[f]]
BY DEF Base

\* What a merge makes of the two fields.
LEMMA MergeFields ==
  ASSUME NEW c, NEW l
  PROVE  /\ Merge(c, l) = [f \in {"mode", "model_id"} |-> Merge(c, l)[f]]
         /\ \A f \in {"mode", "model_id"} :
              Merge(c, l)[f] = IF l[f] = Unset THEN c[f] ELSE l[f]
         /\ Merge(c, l).mode = IF l.mode = Unset THEN c.mode ELSE l.mode
BY DEF Merge

LEMMA LoadInit == Init => LoadInv
BY DEF Init, LoadInv

LEMMA LoadStart == LoadInv /\ Start => LoadInv'
BY DEF LoadInv, Start, Fail, Step, Base, Config, Modes

LEMMA LoadGlobal == LoadInv /\ ReadGlobal => LoadInv'
<1> SUFFICES ASSUME LoadInv, ReadGlobal PROVE LoadInv'
  OBVIOUS
<1>1. /\ pc = "global" /\ UNCHANGED <<defaults, flags>> /\ defaults \in Config
      /\ read = [s \in Sources |-> NoLayer] /\ config = Base
      /\ config.mode \in ValidModes
  BY DEF LoadInv, ReadGlobal, ReadLayer, Fail, Step
<1>2. CASE pc' = "failed"
  BY <1>1, <1>2 DEF LoadInv
<1>3. CASE pc' = "project" /\ UNCHANGED <<config, read>>
  <2>1. Global' = Merge(Base, NoLayer)
    BY <1>1, <1>3 DEF Global, Base, Merge, Sources
  <2>2. Global' = Base
    BY <1>1, <2>1, BaseType, MergeNothing
  <2>3. read["project"] = NoLayer /\ ValidRead /\ DOMAIN read = Sources
    BY <1>1 DEF ValidRead, Sources, NoLayer
  <2> QED
    BY <1>1, <1>3, <2>2, <2>3 DEF LoadInv, ValidRead
<1>4. CASE pc' = "project" /\ ~UNCHANGED <<config, read>>
  <2> DEFINE layer == [mode |-> files["global"].mode,
                       model_id |-> files["global"].model_id]
  <2>1. /\ config' = Merge(config, layer) /\ config'.mode \in ValidModes
        /\ read' = [read EXCEPT !["global"] = layer]
    BY <1>4 DEF ReadGlobal, ReadLayer, Fail, Step
  <2>2. /\ read'["global"] = layer /\ read'["project"] = NoLayer
        /\ DOMAIN read' = Sources
    BY <1>1, <2>1 DEF Sources
  <2>3. layer.mode \in ValidModes \cup {Unset}
    BY <2>1, MergeFields
  <2>4. ValidRead'
    BY <2>2, <2>3 DEF ValidRead, Sources, NoLayer
  <2>5. config' = Global'
    BY <1>1, <2>1, <2>2 DEF Global, Base, Merge
  <2> QED
    BY <1>1, <1>4, <2>1, <2>2, <2>4, <2>5 DEF LoadInv
<1> QED
  BY <1>2, <1>3, <1>4 DEF ReadGlobal, ReadLayer, Fail, Step

LEMMA LoadProject == LoadInv /\ ReadProject => LoadInv'
<1> SUFFICES ASSUME LoadInv, ReadProject PROVE LoadInv'
  OBVIOUS
<1>1. /\ pc = "project" /\ UNCHANGED <<defaults, flags>> /\ defaults \in Config
      /\ read["project"] = NoLayer /\ ValidRead /\ DOMAIN read = Sources
      /\ config = Global /\ config.mode \in ValidModes
  BY DEF LoadInv, ReadProject, ReadLayer, Fail, Step
<1>2. CASE pc' = "failed"
  BY <1>1, <1>2 DEF LoadInv
<1>3. CASE pc' = "flags" /\ UNCHANGED <<config, read>>
  <2>1. Project' = Merge(Global, NoLayer)
    BY <1>1, <1>3 DEF Project, Global, Base, Merge
  <2>2. Global = [f \in {"mode", "model_id"} |-> Global[f]]
    BY MergeFields DEF Global
  <2>3. Project' = Global
    BY <2>1, <2>2, MergeNothing
  <2> QED
    BY <1>1, <1>3, <2>3 DEF LoadInv, ValidRead
<1>4. CASE pc' = "flags" /\ ~UNCHANGED <<config, read>>
  <2> DEFINE layer == [mode |-> files["project"].mode,
                       model_id |-> files["project"].model_id]
  <2>1. /\ config' = Merge(config, layer) /\ config'.mode \in ValidModes
        /\ read' = [read EXCEPT !["project"] = layer]
    BY <1>4 DEF ReadProject, ReadLayer, Fail, Step
  <2>2. read'["project"] = layer /\ read'["global"] = read["global"]
    BY <1>1, <2>1 DEF Sources
  <2>3. layer.mode \in ValidModes \cup {Unset}
    BY <2>1, MergeFields
  <2>4. ValidRead'
    BY <1>1, <2>2, <2>3 DEF ValidRead, Sources
  <2>5. config' = Project'
    BY <1>1, <2>1, <2>2 DEF Project, Global, Base, Merge
  <2> QED
    BY <1>1, <1>4, <2>1, <2>4, <2>5 DEF LoadInv
<1> QED
  BY <1>2, <1>3, <1>4 DEF ReadProject, ReadLayer, Fail, Step

LEMMA LoadRest == LoadInv /\ (ApplyOverrides \/ GetKey) => LoadInv'
<1> SUFFICES ASSUME LoadInv, ApplyOverrides \/ GetKey PROVE LoadInv'
  OBVIOUS
<1>1. /\ UNCHANGED <<defaults, flags, read>> /\ defaults \in Config
      /\ Project' = Project /\ ValidRead /\ ValidRead'
  BY DEF LoadInv, ApplyOverrides, GetKey, Fail, Step, ValidRead,
         Project, Global, Base, Merge
<1>2. CASE pc' = "failed"
  BY <1>1, <1>2 DEF LoadInv
<1>3. CASE pc' = "key"
  <2>1. /\ config' = Merge(Project, flags) /\ config'.mode \in ValidModes
        /\ flags.mode \notin Blank /\ flags.model_id \notin Blank
    BY <1>3 DEF LoadInv, ApplyOverrides, GetKey, Fail, Step
  <2>2. flags.mode \in ValidModes \cup {Unset}
    BY <2>1, MergeFields
  <2>3. Merge(Project, flags)' = Merge(Project, flags)
    BY <1>1 DEF Merge
  <2> QED
    BY <1>1, <1>3, <2>1, <2>2, <2>3 DEF LoadInv
<1>4. CASE pc' = "resolved"
  <2>1. /\ config' = config /\ pc = "key" /\ key' \in Keys \ Blank
    BY <1>4 DEF ApplyOverrides, GetKey, Fail, Step
  <2>2. Merge(Project, flags)' = Merge(Project, flags)
    BY <1>1 DEF Merge
  <2> QED
    BY <1>1, <1>4, <2>1, <2>2 DEF LoadInv
<1> QED
  BY <1>2, <1>3, <1>4 DEF ApplyOverrides, GetKey, Fail, Step

LEMMA LoadStep == LoadInv /\ [Next]_vars => LoadInv'
<1> SUFFICES ASSUME LoadInv, [Next]_vars PROVE LoadInv'
  OBVIOUS
<1>1. CASE UNCHANGED <<defaults, flags, pc, config, read, key>>
  BY <1>1 DEF LoadInv, ValidRead, Project, Global, Base, Merge
<1>2. CASE \E s \in Sources : Edit(s)
  BY <1>1, <1>2 DEF Edit
<1>3. CASE UNCHANGED vars \/ Finished
  BY <1>1, <1>3 DEF vars, Finished
<1> QED
  BY <1>2, <1>3, LoadStart, LoadGlobal, LoadProject, LoadRest DEF Next

\* A configuration is resolved only from layers each of which is valid by
\* itself, however the files change while they are read.
THEOREM LoadFailsClosed == Spec => []FailClosed
<1>1. LoadInv => FailClosed
  BY DEF LoadInv, FailClosed, ValidRead
<1> QED
  BY <1>1, LoadInit, LoadStep, PTL DEF Spec

\* Flags come before the project, the project before the user, the user before
\* the defaults, field by field.
THEOREM LoadLayers == Spec => []LastLayerWins
<1>1. LoadInv => LastLayerWins
  <2> SUFFICES ASSUME LoadInv, pc = "resolved",
                      NEW f \in {"mode", "model_id"}
               PROVE  LET project == read["project"]
                          global == read["global"]
                      IN \/ flags[f] # Unset /\ config[f] = flags[f]
                         \/ /\ flags[f] = Unset /\ project[f] # Unset
                            /\ config[f] = project[f]
                         \/ /\ flags[f] = Unset /\ project[f] = Unset
                            /\ global[f] # Unset /\ config[f] = global[f]
                         \/ /\ {flags[f], project[f], global[f]} = {Unset}
                            /\ config[f] = Base[f]
    BY DEF LastLayerWins
  <2>1. config[f] = IF flags[f] = Unset THEN Project[f] ELSE flags[f]
    BY MergeFields DEF LoadInv
  <2>2. Project[f] = IF read["project"][f] = Unset THEN Global[f]
                                                   ELSE read["project"][f]
    BY MergeFields DEF Project
  <2>3. Global[f] = IF read["global"][f] = Unset THEN Base[f]
                                                 ELSE read["global"][f]
    BY MergeFields DEF Global
  <2> QED
    BY <2>1, <2>2, <2>3
<1> QED
  BY <1>1, LoadInit, LoadStep, PTL DEF Spec
=============================================================================
