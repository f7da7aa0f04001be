------------------------------ MODULE MCLayout ------------------------------
(***************************************************************************)
(* Small instances of Layout: a page of a few pixels, and jobs that fit it *)
(* with room, exactly, after scaling, and not at all.                      *)
(***************************************************************************)
EXTENDS Layout

MCJobs ==
  {[photo_w |-> s[1], photo_h |-> s[2], cols |-> g[1], rows |-> g[2],
    gap |-> gap, padding |-> padding, border |-> border, bleed |-> bleed,
    mark |-> m[1], thickness |-> m[2], offset |-> m[3]] :
     s \in {<<3, 2>>, <<7, 4>>}, g \in {<<1, 1>>, <<2, 2>>, <<3, 1>>},
     gap \in {0, 2, 6}, padding \in {0, 1}, border \in {0, 1}, bleed \in {0, 2},
     m \in {<<0, 0, 0>>, <<3, 0, 1>>, <<2, 2, 0>>}}

MCGarbage == {[x |-> 0, y |-> 0, w |-> 0, h |-> 0], [x |-> 9, y |-> -1, w |-> 5, h |-> 3]}

=============================================================================
