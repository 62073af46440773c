------------------------------- MODULE Terrain -------------------------------
(***************************************************************************)
(* tools/town/src/terrain-v7.tsx: the tiles the town's ground is made of.  *)
(* Every tile says which terrain is at its four corners, in the order      *)
(* <<left top, right top, left bottom, right bottom>>; None where there is *)
(* nothing.  The sheet is 32 tiles wide and is drawn in families: around a *)
(* fill of one terrain lie the tiles of its border to one other, always at *)
(* the same distances.  The rows of three terrains (lines 742..837) are    *)
(* never looked up and not modelled.                                       *)
(***************************************************************************)
EXTENDS Integers, Sequences, FiniteSets, SequencesExt, FiniteSetsExt, TLC

None == -1

\* <terraintypes>: the terrains by number, from 0.
terrains == <<
  "Dirt_Tan", "Dirt_Brown", "Dirt_Dark", "Rock_White", "Rock_Gray", "Rock_Dark",
  "Rock_Black", "Hole_Brown", "Hole_Black", "Mud_Brown", "Grass", "Grass_Light",
  "Grass_Dark", "Grass_Dead", "Soil", "Sand", "Snow_1", "Snow_2", "Gravel_1",
  "Dirt_Roots", "Water_Shallows_Dirt", "Water", "Water_Deep", "Water_Purple",
  "Water_Green", "Lava", "Water_Shallows_Sand", "Ice", "Ice_Melting", "Earth_Cracked",
  "Stone_White", "Stone_Tan", "Mudstone_Gray", "Mudstone_Brown" >>

Number(name) == (CHOOSE i \in DOMAIN terrains : terrains[i] = name) - 1

\* Where the border tiles lie, seen from the fill: 1 is the inner terrain.
Around ==
  { <<<<0, 0, 0, 1>>, -33>>, <<<<0, 0, 1, 1>>, -32>>, <<<<0, 0, 1, 0>>, -31>>,
    <<<<0, 1, 0, 1>>, -1>>,                           <<<<1, 0, 1, 0>>, 1>>,
    <<<<0, 1, 0, 0>>, 31>>,  <<<<1, 1, 0, 0>>, 32>>,  <<<<1, 0, 0, 0>>, 33>>,
    <<<<1, 1, 1, 0>>, -96>>, <<<<1, 1, 0, 1>>, -95>>,
    <<<<1, 0, 1, 1>>, -64>>, <<<<0, 1, 1, 1>>, -63>> }

\* The two tiles on which only opposite corners are of the inner terrain.
Diagonal(down, up) == { <<<<1, 0, 0, 1>>, down>>, <<<<0, 1, 1, 0>>, up>> }

\* <<id, corners>> of a family's tiles.
Border(fill, in, out, places) ==
  { <<fill + p[2], [k \in 1 .. 4 |-> IF p[1][k] = 1 THEN in ELSE out]>> : p \in places }

Fill(t, ids) == { <<id, <<t, t, t, t>>>> : id \in ids }

Family(fill, in, out) == Border(fill, in, out, Around \cup Diagonal(96, 95))

\* Lines 40..214: ten terrains, then the other fills of nine of them.
Earths ==
  UNION { Family(97 + 3 * t, t, None) \cup Fill(t, {97 + 3 * t}) : t \in 0 .. 9 }
  \cup UNION { Fill(t, (160 + 3 * t) .. (162 + 3 * t)) : t \in {0, 1, 2, 3, 4, 5, 6, 9} }
  \cup { <<209, <<None, None, 5, None>>>> }

\* Lines 215..393: the next ten.
Greens ==
  UNION { Family(291 + 3 * t, t, None) \cup Fill(t, {291 + 3 * t}) : t \in 10 .. 19 }
  \cup UNION { Fill(t, (354 + 3 * t) .. (356 + 3 * t)) : t \in {10, 11, 12, 13, 15, 16, 17, 19} }
  \cup Fill(18, {408, 409}) \cup Fill(10, {418}) \cup Fill(11, {421}) \cup Fill(13, {427})

\* Lines 394..593: waters and lava, and the shores of waters in others.
Waters ==
  UNION { Family(485 + 3 * t, t, None) \cup Fill(t, {485 + 3 * t}) : t \in 20 .. 25 }
  \cup UNION { Fill(t, (548 + 3 * t) .. (550 + 3 * t)) : t \in 20 .. 25 }
  \cup Family(563, 22, 21) \cup Family(566, 21, 20) \cup Family(569, 21, 26) \cup Family(572, 21, 27)
  \cup Fill(22, {563, 626, 627, 628}) \cup Fill(21, {566, 569, 572})
  \cup Fill(20, {663}) \cup Fill(28, {681, 713})

\* Lines 562..741: beaches and stones.  Mudstone_Gray has no tile <<32, None, None,
\* 32>>: the one in its place has another corner.
Stones ==
  UNION { Family(697 + 3 * t, t, None) \cup Fill(t, {697 + 3 * t}) : t \in 29 .. 31 }
  \cup Border(793, 32, None, Around \cup {<<<<0, 1, 1, 0>>, 95>>, <<<<0, 0, 0, 1>>, 96>>})
  \cup Fill(32, {793}) \cup Family(796, 33, None) \cup Fill(33, {796})
  \cup UNION { Fill(t, (760 + 3 * t) .. (762 + 3 * t)) : t \in 29 .. 33 }

Beaches ==
  Border(769, 15, 21, Around \cup Diagonal(63, 64))
  \cup Border(772, 15, 26, Around \cup Diagonal(63, 64))
  \cup Border(775, 16, 27, Around \cup Diagonal(95, 96))
  \cup Border(778, 16, 28, Around \cup Diagonal(95, 96))
  \cup Border(781, 16, 21, Around \cup Diagonal(95, 96))
  \cup Fill(15, {769, 772}) \cup Fill(16, {775, 778, 781})
  \cup Fill(26, {837, 867, 868}) \cup Fill(27, 838 .. 840) \cup Fill(28, 841 .. 843)

\* Lines 838..972: what lies in grass.  One corner of a soil tile is left out.
Grasslands ==
  (Border(1130, 14, 10, Around \cup Diagonal(96, 95)) \ {<<1066, <<14, 10, 14, 14>>>>})
  \cup {<<1066, <<None, 10, 14, 14>>>>} \cup Fill(14, {1130})
  \cup UNION { Border(f[1], f[2], 10, Around \cup Diagonal(63, 64)) \cup Fill(f[2], {f[1]})
                 : f \in {<<1348, 30>>, <<1351, 31>>, <<1354, 32>>, <<1360, 33>>} }
  \cup UNION { Border(f[1], 20, f[2], Around \cup Diagonal(64, 63)) \cup Fill(20, {f[1]})
                 : f \in {<<1363, 10>>, <<1366, 12>>} }
  \cup UNION { Border(f[1], 19, f[2], Around \cup Diagonal(63, 64)) \cup Fill(19, {f[1]})
                 : f \in {<<1369, 10>>, <<1372, 12>>} }

Tiles == Earths \cup Greens \cup Waters \cup Stones \cup Beaches \cup Grasslands

\* The file gives every tile a number of its own.
ASSUME TilesAssumption ==
  /\ IsFiniteSet(Tiles)
  /\ \A t \in Tiles : t[1] \in Nat
  /\ Cardinality({ t[1] : t \in Tiles }) = Cardinality(Tiles)

\* A function as a table: the comparison makes TLC evaluate it once and for all.
Tabled(f) == CHOOSE g \in {f} : g = f

\* The corners of a tile by its id.
CornersOf == Tabled([id \in { t[1] : t \in Tiles } |-> (CHOOSE t \in Tiles : t[1] = id)[2]])

\* The numbers of a set, the smallest first.
InOrder(S) == [n \in 1 .. Cardinality(S) |-> CHOOSE x \in S : Cardinality({ y \in S : y < x }) = n - 1]

\* build.js: byKey[key], the tiles with these corners in the order of the file.
byKey(key) == InOrder({ t[1] : t \in { u \in Tiles : u[2] = key } })
==============================================================================
