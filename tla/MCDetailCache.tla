------------------------------ MODULE MCDetailCache ------------------------------
(* An instance of DetailCache: tiles of three columns of two frames, the    *)
(* last column of the track one frame short.                                *)
EXTENDS DetailCache

Block(first, count) == [first |-> first, count |-> count]
Region(first, end, priority, deadline) ==
    [first |-> first, end |-> end, priority |-> priority, deadline |-> deadline]
Focus(playhead, behind, ahead) ==
    [playhead |-> playhead, behind |-> behind, ahead |-> ahead, priority |-> 1]

CacheBlocks == {Block(0, 2), Block(4, 4), Block(4, 2), Block(8, 2), Block(12, 1)}
CacheRegions == {Region(4, 8, 2, 0)}
CacheFoci == {Focus(12, 0, 1)}

================================================================================
