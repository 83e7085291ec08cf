---------------------------- MODULE MCContainer ----------------------------
(* A source of eleven frames: three overview columns, three tiles of two   *)
(* detail columns, the last column of each short.                          *)
EXTENDS Container

(* sizeof the structures on x86-64.                                        *)
StructureSizes ==
    [result |-> 832, span |-> 40, column |-> 10, tile |-> 80, interval |-> 16,
     candidate |-> 16, range |-> 24, segment |-> 104, s6 |-> 272, beat |-> 40]

Tempo(state) == [state |-> state, value |-> 120, candidates |-> 2]
Local(state) == [state |-> state, value |-> 120]
Global(state, segments, beats, revision) ==
    [state |-> state, segments |-> [i \in 1..segments |-> state], beats |-> beats,
     revision |-> [state |-> revision, id |-> 1]]

MCTexts == {None, <<[key |-> 1, size |-> 23], [key |-> 5, size |-> 0]>>,
          <<[key |-> 2, size |-> 24], [key |-> 7, size |-> 256]>>}

(* Tempo, local grid and global grid of a session.                         *)
Grids(completed) ==
    {<<None, None, None>>, <<Tempo("provisional"), None, None>>,
     <<Tempo("stable"), Local("stable"), Global("stable", 1, 0, "applied")>>}
    \cup (IF completed THEN {<<Tempo("final"), Local("final"), Global("final", 2, 3, "applied")>>}
          ELSE {<<Tempo("stable"), Local("provisional"), Global("stable", 2, 3, "pending")>>})

(* Session, total, overview columns, and runs of detail columns <<tile,    *)
(* first, count>>.                                                         *)
Progress ==
    {<<"active", Unknown, {0}, <<<<0, 0, 2>>>> >>,
     <<"active", 11, {0, 2}, <<>> >>,
     <<"active", 11, {1}, <<<<0, 1, 1>>, <<2, 0, 2>>>> >>,
     <<"draining", 11, {0, 1}, <<<<0, 0, 2>>, <<2, 1, 1>>>> >>,
     <<"completed", 11, {0, 1, 2}, <<<<0, 0, 2>>, <<2, 0, 2>>>> >>,
     <<"completed", 11, {0, 1, 2}, <<<<1, 0, 1>>>> >>}

SavedResults ==
    UNION {{Snapshot(p[1], p[2], p[3], p[4], m, g[1], g[2], g[3])
              : m \in MCTexts, g \in Grids(p[1] = "completed")} : p \in Progress}
=============================================================================
