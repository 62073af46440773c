------------------------------- MODULE MCTown -------------------------------
(***************************************************************************)
(* The town of town0.js; the same with its cottage moved and a footpath to *)
(* it; one with a patch of Mudstone_Gray whose corners touch, for which    *)
(* there is no tile; and one with an object that has no picture.           *)
(***************************************************************************)
EXTENDS Town

Moved == [town0 EXCEPT !.objects[7] = <<"cottage_small", 225, 565>>,
                       !.ground.layers[1].shapes = @ \cup {seg(225, 570, 290, 460, 17)}]
Ragged == [town0 EXCEPT !.ground.layers =
             Append(@, [terrain |-> "Mudstone_Gray", shapes |-> {rect(30, 30, 45, 45), rect(60, 60, 75, 75)}])]
Unknown == [town0 EXCEPT !.objects = Append(@, <<"house_tower", 450, 60>>)]

MCLayouts == [town |-> town0, moved |-> Moved, ragged |-> Ragged, unknown |-> Unknown]

\* A rock in the dungeon, or none.
MCHandRows == { {}, {"rock"} }
==============================================================================
