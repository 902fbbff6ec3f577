---------------------------- MODULE MCSignalState ----------------------------
\* Instances of SignalState for TLC: a level and its alarm; a level and a pump.
EXTENDS SignalState, TLC

Level == [kind |-> "level", of |-> "LIT1"]
Cmd == [kind |-> "cmd", of |-> "P1"]
Fault == Of("fault", Cmd)
Plant == [kind |-> "plant", of |-> "PLANT"]

LevelTags == {Level, Of("alarm", Level), Plant}
PlantTags == LevelTags \cup {Fault, Cmd, Of("status", Cmd), Of("running", Cmd)}
PlantInputs == {Level, Fault, Cmd}

\* IO mappings bring what is wired, programs add the plant fault and the command.
LevelRows == {{}, {Level}}
LevelProgram == {{Plant}}
PlantRows == {PlantTags \ {Plant, Cmd, Of("alarm", Level)}}
PlantProgram == {{Cmd, Plant}}
Symmetry == Permutations(Projects) \cup Permutations(Requests)
RequestSymmetry == Permutations(Requests)
=============================================================================
