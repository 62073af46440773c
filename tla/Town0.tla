-------------------------------- MODULE Town0 --------------------------------
(***************************************************************************)
(* tools/town/town0.js, the layout of the town (map 0), and the places of  *)
(* the server's tables that lie in it.  Positions are world positions in   *)
(* tenths of a cell; an object stands with the middle of its foot line at  *)
(* x, y.  The trees (lines 38..41) are painted on top and block nothing.   *)
(***************************************************************************)
EXTENDS Integers, Sequences

ell(cx, cy, rx, ry) == [kind |-> "ell", at |-> <<cx, cy, rx, ry>>]
rect(x0, y0, x1, y1) == [kind |-> "rect", at |-> <<x0, y0, x1, y1>>]
seg(x0, y0, x1, y1, r) == [kind |-> "seg", at |-> <<x0, y0, x1, y1, r>>]

\* The ground: one base terrain and the layers that lie on it, the last on top.
ground ==
  [ base |-> "Dirt_Brown",
    layers |-> <<
      [terrain |-> "Dirt_Tan",
       shapes |-> {ell(200, 420, 50, 30), ell(440, 90, 40, 25), ell(100, 250, 35, 25)}],
      [terrain |-> "Grass", shapes |-> {ell(585, 580, 45, 40), ell(530, 540, 75, 55)}],
      [terrain |-> "Soil", shapes |-> {rect(25, 385, 105, 445)}],
      [terrain |-> "Stone_Tan",
       shapes |-> { ell(300, 300, 95, 70), rect(300, 280, 585, 320), rect(280, -10, 320, 300),
                    rect(120, 280, 300, 315), rect(280, 300, 315, 470) }],
      [terrain |-> "Water", shapes |-> {ell(535, 540, 46, 30)}] >> ]

\* The eight houses, then what stands on the square and around the houses.
objects == <<
  <<"house_lshape", 90, 175>>, <<"house_gate", 300, 165>>, <<"house_dormer", 505, 195>>,
  <<"house_twostory", 70, 350>>, <<"house_annex", 510, 445>>, <<"house_dormer", 135, 560>>,
  <<"cottage_small", 250, 565>>, <<"house_lshape", 395, 570>>,
  <<"well", 235, 258>>, <<"stall_green", 365, 248>>, <<"stall_orange", 230, 365>>,
  <<"stall_grey", 375, 372>>, <<"barrels3", 410, 270>>, <<"barrels2", 195, 230>>,
  <<"cart", 436, 366>>, <<"table", 336, 378>>, <<"signpost", 466, 274>>, <<"barrels2", 334, 232>>,
  <<"firewood", 156, 193>>, <<"barrels3", 196, 178>>, <<"firewood", 126, 362>>,
  <<"hay_square", 124, 416>>, <<"wheelbarrow", 146, 456>>, <<"scarecrow", 65, 418>>,
  <<"hay_round", 22, 452>>, <<"barrels2", 442, 452>>, <<"firewood", 576, 452>>,
  <<"barrels3", 572, 206>>, <<"hay_square", 448, 214>>, <<"hay_round", 32, 505>>,
  <<"barrels2", 68, 516>>, <<"barrels2", 318, 572>>, <<"firewood", 478, 578>>,
  <<"table", 185, 92>>, <<"barrels3", 405, 82>> >>

town0 == [mapId |-> 0, cells |-> 40, ground |-> ground, objects |-> objects]

\* Run/bin/MapTable.csv, PortalTable.csv, NpcTable.csv: the cells of the town that have
\* to stay free, the start area, both ends of the portals and the three shopkeepers.
startArea == (27 .. 33) \X (27 .. 33)
places == { <<55, 30>>, <<52, 30>>, <<23, 38>>, <<36, 26>>, <<37, 39>> }
==============================================================================
