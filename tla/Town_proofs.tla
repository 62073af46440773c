----------------------------- MODULE Town_proofs -----------------------------
(***************************************************************************)
(* The tools of the town, proved for any layouts, any rows written by hand *)
(* and any number of edits: after a build the walls stand under the        *)
(* houses, a page that loads while nobody writes shows both at the same    *)
(* place, and the ground has no seams.                                     *)
(*                                                                         *)
(* First what the two programs compute for one layout, then who may have   *)
(* written which file when.                                                *)
(***************************************************************************)
EXTENDS Town, FiniteSetTheorems, TLAPS

LEMMA TabledIs ==
  ASSUME NEW f
  PROVE  Tabled(f) = f
  BY DEF Tabled

-----------------------------------------------------------------------------
(* The walls of one layout. *)

\* blocks.js knows the walls of every house build.js can draw.
LEMMA HousesHaveWalls ==
  DOMAIN FOOTPRINT = HouseNames
  BY DEF FOOTPRINT, HouseNames

LEMMA WallsAreSpans ==
  ASSUME NEW n \in HouseNames, NEW s \in ToSet(FOOTPRINT[n])
  PROVE  s[1] \in Int /\ s[2] \in Int
  BY DEF FOOTPRINT, HouseNames, ToSet

\* cellSpan takes exactly the cells whose middle lies between a and b.
LEMMA CellSpanIs ==
  ASSUME NEW a \in Int, NEW b \in Int, NEW c \in Int
  PROVE  /\ cellSpan(a, b)[1] \in Int /\ cellSpan(a, b)[2] \in Int
         /\ c \in cellSpan(a, b)[1] .. cellSpan(a, b)[2] <=> 100 * c + 50 \in a .. b
  BY DEF cellSpan

LEMMA RowsOf ==
  ASSUME NEW p \in Plans
  PROVE  Rows[p] = townRows(Layouts[p])
  BY SMTT(60), ZenonT(60), TabledIs DEF Rows

\* The row of one stretch s of the walls of object o.
RowOf(o, s) ==
  [x0 |-> cellSpan(10 * o[2] + s[1], 10 * o[2] + s[2])[1],
   y0 |-> cellSpan(10 * o[3] - DEPTH, 10 * o[3])[1],
   x1 |-> cellSpan(10 * o[2] + s[1], 10 * o[2] + s[2])[2],
   y1 |-> cellSpan(10 * o[3] - DEPTH, 10 * o[3])[2]]

LEMMA TownRowsAre ==
  ASSUME NEW plan, NEW r
  PROVE  r \in townRows(plan) <=>
           /\ \E k \in DOMAIN plan.objects :
                /\ plan.objects[k][1] \in HouseNames
                /\ \E s \in ToSet(FOOTPRINT[plan.objects[k][1]]) : r = RowOf(plan.objects[k], s)
           /\ r.x0 <= r.x1 /\ r.y0 <= r.y1
  BY SMTT(60), ZenonT(60), HousesHaveWalls DEF townRows, RowOf

\* A cell of a row is a cell whose middle is under that stretch, and such a cell lies on
\* the map.
LEMMA UnderOneWall ==
  ASSUME NEW p \in Plans, NEW k \in DOMAIN Layouts[p].objects, NEW o, o = Layouts[p].objects[k],
         o[1] \in HouseNames, NEW s \in ToSet(FOOTPRINT[o[1]]), NEW r, r = RowOf(o, s),
         NEW x \in Int, NEW y \in Int
  PROVE  /\ r.x0 \in Int /\ r.x1 \in Int /\ r.y0 \in Int /\ r.y1 \in Int
         /\ (x \in r.x0 .. r.x1 /\ y \in r.y0 .. r.y1) <=>
              /\ 100 * y + 50 \in (10 * o[3] - 300) .. (10 * o[3])
              /\ 100 * x + 50 \in (10 * o[2] + s[1]) .. (10 * o[2] + s[2])
         /\ x \in r.x0 .. r.x1 /\ y \in r.y0 .. r.y1 => x \in Side /\ y \in Side
  <1>1. /\ o[2] \in Int /\ o[3] \in Int
        /\ 0 <= 10 * o[3] - DEPTH /\ 10 * o[3] <= 6000
        /\ 0 <= 10 * o[2] + s[1] /\ 10 * o[2] + s[2] <= 6000
    BY LayoutsAssumption
  <1>2. s[1] \in Int /\ s[2] \in Int
    BY WallsAreSpans
  <1> DEFINE a == 10 * o[2] + s[1]
             b == 10 * o[2] + s[2]
             c == 10 * o[3] - DEPTH
             d == 10 * o[3]
  <1>3. a \in Int /\ b \in Int /\ c \in Int /\ d \in Int
    BY SMTT(60), ZenonT(60), <1>1, <1>2 DEF DEPTH
  <1>4. /\ r.x0 = cellSpan(a, b)[1] /\ r.x1 = cellSpan(a, b)[2]
        /\ r.y0 = cellSpan(c, d)[1] /\ r.y1 = cellSpan(c, d)[2]
    BY DEF RowOf
  <1>5. /\ r.x0 \in Int /\ r.x1 \in Int
        /\ x \in r.x0 .. r.x1 <=> 100 * x + 50 \in a .. b
    <2> HIDE DEF a, b, c, d
    <2>1. QED
      BY <1>3, <1>4, CellSpanIs
  <1>6. /\ r.y0 \in Int /\ r.y1 \in Int
        /\ y \in r.y0 .. r.y1 <=> 100 * y + 50 \in c .. d
    <2> HIDE DEF a, b, c, d
    <2>1. QED
      BY SMTT(60), ZenonT(60), <1>3, <1>4, CellSpanIs
  <1>7. /\ x \in r.x0 .. r.x1 => x \in Side
        /\ y \in r.y0 .. r.y1 => y \in Side
    BY <1>1, <1>2, <1>5, <1>6 DEF Side, DEPTH
  <1>8. QED
    BY SMTT(60), ZenonT(60), <1>5, <1>6, <1>7 DEF DEPTH

\* The rows blocks.js writes for a layout block the cells under the walls of the houses
\* of that layout, and no other.
LEMMA RowsAreTheWalls ==
  ASSUME NEW p \in Plans
  PROVE  Blocked({p}) = WallCells(p)
  <1>1. \A c : c \in Blocked({p}) <=>
                 \E r \in townRows(Layouts[p]) : c \in (r.x0 .. r.x1) \X (r.y0 .. r.y1)
    BY SMTT(60), ZenonT(60), RowsOf DEF Blocked
  <1>2. ASSUME NEW c \in Blocked({p})
        PROVE  c \in WallCells(p)
    <2>1. PICK r \in townRows(Layouts[p]) : c \in (r.x0 .. r.x1) \X (r.y0 .. r.y1)
      BY <1>1
    <2>2. PICK k \in DOMAIN Layouts[p].objects :
             /\ Layouts[p].objects[k][1] \in HouseNames
             /\ \E s \in ToSet(FOOTPRINT[Layouts[p].objects[k][1]]) : r = RowOf(Layouts[p].objects[k], s)
      BY SMTT(60), ZenonT(60), TownRowsAre
    <2> DEFINE o == Layouts[p].objects[k]
    <2>3. PICK s \in ToSet(FOOTPRINT[o[1]]) : r = RowOf(o, s)
      BY <2>2
    <2>4. c[1] \in r.x0 .. r.x1 /\ c[2] \in r.y0 .. r.y1 /\ c = <<c[1], c[2]>>
      BY <2>1
    <2>5. c[1] \in Int /\ c[2] \in Int
      BY <2>4
    <2>6. /\ c[1] \in Side /\ c[2] \in Side
          /\ 100 * c[2] + 50 \in (10 * o[3] - 300) .. (10 * o[3])
          /\ 100 * c[1] + 50 \in (10 * o[2] + s[1]) .. (10 * o[2] + s[2])
      <3> HIDE DEF o
      <3>1. o = Layouts[p].objects[k] /\ o[1] \in HouseNames
        BY <2>2 DEF o
      <3> DEFINE x == c[1]
                 y == c[2]
      <3> HIDE DEF x, y
      <3>2. x \in Int /\ y \in Int /\ x \in r.x0 .. r.x1 /\ y \in r.y0 .. r.y1
        BY <2>4, <2>5 DEF x, y
      <3>3. /\ x \in Side /\ y \in Side
            /\ 100 * y + 50 \in (10 * o[3] - 300) .. (10 * o[3])
            /\ 100 * x + 50 \in (10 * o[2] + s[1]) .. (10 * o[2] + s[2])
        BY SMTT(60), <2>3, <3>1, <3>2, UnderOneWall
      <3>4. QED
        BY <3>3 DEF x, y
    <2>7. c \in Side \X Side
      BY <2>4, <2>6
    <2>8. QED
      BY ZenonT(60), SMTT(60), <2>2, <2>3, <2>6, <2>7 DEF WallCells
  <1>3. ASSUME NEW c \in WallCells(p)
        PROVE  c \in Blocked({p})
    <2>1. c \in Side \X Side
      BY DEF WallCells
    <2>2. PICK k \in DOMAIN Layouts[p].objects :
             /\ Layouts[p].objects[k][1] \in HouseNames
             /\ 100 * c[2] + 50 \in (10 * Layouts[p].objects[k][3] - 300) .. (10 * Layouts[p].objects[k][3])
             /\ \E s \in ToSet(FOOTPRINT[Layouts[p].objects[k][1]]) :
                  100 * c[1] + 50 \in (10 * Layouts[p].objects[k][2] + s[1])
                                       .. (10 * Layouts[p].objects[k][2] + s[2])
      BY SMTT(60), ZenonT(60) DEF WallCells
    <2> DEFINE o == Layouts[p].objects[k]
    <2>3. PICK s \in ToSet(FOOTPRINT[o[1]]) :
             100 * c[1] + 50 \in (10 * o[2] + s[1]) .. (10 * o[2] + s[2])
      BY <2>2
    <2> DEFINE r == RowOf(o, s)
    <2>4. c[1] \in Int /\ c[2] \in Int /\ c = <<c[1], c[2]>>
      BY <2>1 DEF Side
    <2>5. o = Layouts[p].objects[k] /\ o[1] \in HouseNames
      BY SMTT(60), ZenonT(60), <2>2
    <2>6. /\ c[1] \in r.x0 .. r.x1 /\ c[2] \in r.y0 .. r.y1
          /\ r.x0 \in Int /\ r.x1 \in Int /\ r.y0 \in Int /\ r.y1 \in Int
      <3>1. 100 * c[2] + 50 \in (10 * o[3] - 300) .. (10 * o[3])
        BY <2>2
      <3>2. r = RowOf(o, s)
        OBVIOUS
      <3> HIDE DEF o, r
      <3>3. QED
        BY <2>3, <2>4, <2>5, <3>1, <3>2, UnderOneWall
    <2>7. r.x0 <= r.x1 /\ r.y0 <= r.y1
      <3> HIDE DEF r
      <3>1. QED
        BY <2>6
    <2>8. r \in townRows(Layouts[p])
      BY <2>5, <2>7, TownRowsAre
    <2>9. c \in (r.x0 .. r.x1) \X (r.y0 .. r.y1)
      <3> HIDE DEF r
      <3>1. QED
        BY <2>4, <2>6
    <2>10. QED
      BY <1>1, <2>8, <2>9
  <1>4. QED
    BY <1>2, <1>3

LEMMA SameWallsIs ==
  ASSUME NEW p \in Plans
  PROVE  SameWalls[{p}, p]
  <1> DEFINE f == [x \in (SUBSET Plans) \X Plans |-> Blocked(x[1]) = WallCells(x[2])]
  <1>1. SameWalls = f
    BY TabledIs DEF SameWalls
  <1>2. <<{p}, p>> \in (SUBSET Plans) \X Plans
    OBVIOUS
  <1>3. f[<<{p}, p>>] <=> Blocked({p}) = WallCells(p)
    BY ZenonT(30), <1>2
  <1> HIDE DEF f
  <1>4. QED
    BY ZenonT(60), <1>1, <1>3, RowsAreTheWalls

-----------------------------------------------------------------------------
(* Who may have written what. *)

Table == [there : BOOLEAN, head : BOOLEAN, town : SUBSET Plans, rest : HandRows \cup {{}}]

BuildState == [at : {"off", "ground", "draws", "opens", "writes", "calls", "waits"},
               plan : Plans \cup {NoPicture}]

BlocksState == [at : {"off", "loads", "reads", "opens", "writes"},
                plan : Plans \cup {NoPicture}, had : Table]

PageState == [at : {"off", "asks", "draws", "shown"}, picture : Plans \cup {NoPicture},
              town : SUBSET Plans, quiet : BOOLEAN]

TownTypes ==
  /\ layout \in Plans /\ picture \in Plans \cup {NoPicture}
  /\ table \in Table /\ build \in BuildState /\ blocks \in [Runs -> BlocksState]
  /\ page \in PageState /\ others \in HandRows \cup {{}}
  /\ calm \in BOOLEAN /\ lost \in BOOLEAN

\* Who runs has read a layout, build.js one whose ground it could draw, and blocks.js is run
\* by a build that waits for it.
Running ==
  /\ build.at # "off" => build.plan \in Plans
  /\ build.at \in {"draws", "opens", "writes", "calls", "waits"} => GroundFits[build.plan]
  /\ picture \in Plans => GroundFits[picture]
  /\ \A r \in Runs : blocks[r].at \in {"reads", "opens", "writes"} => blocks[r].plan \in Plans
  /\ blocks["build"].at # "off" => build.at = "waits"

\* Since the last build began nobody changed the layout, stopped anything, or ran two
\* blocks.js at a time: what the programs hold and have written is the layout's.
Calm ==
  /\ build.at # "off" => build.plan = layout
  /\ build.at \in {"calls", "waits", "off"} => picture = layout
  /\ build.at \in {"waits", "off"} =>
       /\ \A r \in Runs : blocks[r].at \in {"reads", "opens", "writes"} => blocks[r].plan = layout
       /\ blocks["build"].at # "off" => blocks["hand"].at = "off"
       /\ blocks["build"].at = "off" /\ blocks["hand"].at # "writes" =>
            table.there /\ table.town = {layout}

\* A table that has all that was written into it by hand.
Complete(t) == IF t.there THEN t.head /\ t.rest = others ELSE t.rest = {} /\ others = {}

\* As long as no row of another map may have been lost, one blocks.js runs at a time, and it
\* has read all of the table before it empties it.
NothingLost ==
  /\ blocks["build"].at = "off" \/ blocks["hand"].at = "off"
  /\ (\A r \in Runs : blocks[r].at # "writes") => Complete(table)
  /\ \A r \in Runs : blocks[r].at \in {"opens", "writes"} => Complete(blocks[r].had)

\* The page's copy is of now, and so are the files it has still to read.
Undisturbed ==
  /\ page.at \in {"asks", "draws"} => picture \in Plans /\ table.there /\ table.town = {picture}
  /\ page.at = "draws" => page.picture = picture
  /\ page.at = "shown" => page.picture \in Plans /\ page.town = {page.picture}

TownInv ==
  /\ TownTypes /\ Running
  /\ calm => Calm
  /\ ~lost => NothingLost
  /\ cache = NoPicture
  /\ page.quiet => Undisturbed

LEMMA InitTidy ==
  Init => TownInv
  <1> SUFFICES ASSUME Init
               PROVE  TownInv
    OBVIOUS
  <1>1. PICK p \in { q \in Plans : GroundFits[q] /\ ObjectsDrawn(q) }, rs \in HandRows :
           /\ layout = p /\ picture = p
           /\ table = [there |-> TRUE, head |-> TRUE, town |-> {p}, rest |-> rs]
           /\ others = rs
    BY DEF Init
  <1>2. TownTypes
    BY <1>1 DEF Init, TownTypes, Table, BuildState, BlocksState, PageState, NoBuild, Idle, NoFile
  <1>3. Running /\ Calm /\ NothingLost
    BY <1>1 DEF Init, Running, Calm, NothingLost, Complete, NoBuild, Idle, Runs
  <1>4. cache = NoPicture /\ ~page.quiet
    BY DEF Init
  <1>5. QED
    BY <1>2, <1>3, <1>4 DEF TownInv

LEMMA EditsTidy ==
  ASSUME TownInv, Edit \/ EditOthers \/ DeleteTable
  PROVE  TownInv'
  <1>1. CASE Edit
    BY ZenonT(120), <1>1
       DEF Edit, TownInv, TownTypes, Running, Calm, NothingLost, Complete, Undisturbed
  <1>2. CASE EditOthers
    <2>1. TownTypes'
      BY ZenonT(60), <1>2 DEF EditOthers, TownInv, TownTypes, Table, PageState, Disturbed
    <2>2. Running' /\ (calm => Calm)'
      BY ZenonT(60), <1>2 DEF EditOthers, TownInv, TownTypes, Table, Running, Calm
    <2>3. (~lost => NothingLost)'
      BY ZenonT(60), <1>2
         DEF EditOthers, TownInv, TownTypes, Table, NothingLost, Complete, BlocksIdle, Runs
    <2>4. cache' = NoPicture /\ (page.quiet => Undisturbed)'
      BY ZenonT(60), <1>2
         DEF EditOthers, TownInv, TownTypes, Table, PageState, Disturbed, Undisturbed
    <2>5. QED
      BY <2>1, <2>2, <2>3, <2>4 DEF TownInv
  <1>3. CASE DeleteTable
    <2>1. TownTypes'
      BY <1>3 DEF DeleteTable, TownInv, TownTypes, Table, PageState, Disturbed, NoFile
    <2>2. Running' /\ (calm => Calm)'
      BY <1>3 DEF DeleteTable, TownInv, TownTypes, Table, Running, Calm
    <2>3. (~lost => NothingLost)'
      BY <1>3 DEF DeleteTable, TownInv, TownTypes, Table, NothingLost, Complete, BlocksIdle,
         Runs, NoFile
    <2>4. cache' = NoPicture /\ (page.quiet => Undisturbed)'
      BY <1>3 DEF DeleteTable, TownInv, TownTypes, Table, PageState, Disturbed, Undisturbed
    <2>5. QED
      BY <2>1, <2>2, <2>3, <2>4 DEF TownInv
  <1>4. QED
    BY <1>1, <1>2, <1>3

LEMMA BuildTidy ==
  ASSUME TownInv, BuildStart \/ BuildGround \/ BuildDraws \/ BuildDrawsNot \/ BuildOpens \/ BuildWrites
         \/ BuildCalls \/ BuildEnds
  PROVE  TownInv'
  <1>1. CASE BuildStart
    <2>1. TownTypes'
      BY <1>1 DEF BuildStart, TownInv, TownTypes, BuildState
    <2>2. Running'
      BY <1>1 DEF BuildStart, TownInv, TownTypes, BuildState, BlocksState, Running, Runs
    <2>3. (calm => Calm)'
      BY <1>1
         DEF BuildStart, TownInv, TownTypes, Table, BuildState, BlocksState, Running, Calm, Runs
    <2>4. (~lost => NothingLost)'
      BY <1>1 DEF BuildStart, TownInv, TownTypes, Table, BlocksState, NothingLost, Complete, Runs
    <2>5. cache' = NoPicture /\ (page.quiet => Undisturbed)'
      BY <1>1 DEF BuildStart, TownInv, TownTypes, Table, PageState, Disturbed, Undisturbed
    <2>6. QED
      BY <2>1, <2>2, <2>3, <2>4, <2>5 DEF TownInv
  <1>2. CASE BuildGround
    <2>1. TownTypes'
      <3>1. build' \in BuildState
        BY <1>2 DEF BuildGround, BuildFails, NoBuild, TownInv, TownTypes, BuildState
      <3>2. calm' \in BOOLEAN
        BY <1>2 DEF BuildGround, BuildFails, TownInv, TownTypes
      <3>3. QED
        BY <1>2, <3>1, <3>2 DEF BuildGround, BuildFails, TownInv, TownTypes
    <2>2. Running'
      BY <1>2 DEF BuildGround, BuildFails, NoBuild, TownInv, TownTypes, BuildState, BlocksState,
         Running, Runs
    <2>3. (calm => Calm)'
      BY ZenonT(60), <1>2 DEF BuildGround, BuildFails, NoBuild, TownInv, TownTypes, Table,
         BuildState, BlocksState, Running, Calm, Runs
    <2>4. (~lost => NothingLost)'
      BY <1>2 DEF BuildGround, BuildFails, NoBuild, TownInv, TownTypes, Table, BlocksState,
         NothingLost, Complete, Runs
    <2>5. cache' = NoPicture /\ (page.quiet => Undisturbed)'
      BY <1>2 DEF BuildGround, BuildFails, NoBuild, TownInv, TownTypes, Table, PageState,
         Disturbed, Undisturbed
    <2>6. QED
      BY <2>1, <2>2, <2>3, <2>4, <2>5 DEF TownInv
  <1>3. CASE BuildDraws
    <2>1. TownTypes'
      BY <1>3 DEF BuildDraws, TownInv, TownTypes, BuildState
    <2>2. Running'
      BY <1>3 DEF BuildDraws, TownInv, TownTypes, BuildState, BlocksState, Running, Runs
    <2>3. (calm => Calm)'
      BY <1>3
         DEF BuildDraws, TownInv, TownTypes, Table, BuildState, BlocksState, Running, Calm, Runs
    <2>4. (~lost => NothingLost)'
      BY <1>3 DEF BuildDraws, TownInv, TownTypes, Table, BlocksState, NothingLost, Complete, Runs
    <2>5. cache' = NoPicture /\ (page.quiet => Undisturbed)'
      BY <1>3 DEF BuildDraws, TownInv, TownTypes, Table, PageState, Disturbed, Undisturbed
    <2>6. QED
      BY <2>1, <2>2, <2>3, <2>4, <2>5 DEF TownInv
  <1>4. CASE BuildDrawsNot
    <2>1. TownTypes'
      BY <1>4 DEF BuildDrawsNot, BuildFails, NoBuild, TownInv, TownTypes, BuildState
    <2>2. Running'
      BY <1>4 DEF BuildDrawsNot, BuildFails, NoBuild, TownInv, TownTypes, BuildState,
         BlocksState, Running, Runs
    <2>3. (calm => Calm)'
      BY <1>4 DEF BuildDrawsNot, BuildFails, NoBuild, TownInv, TownTypes, Table, BuildState,
         BlocksState, Running, Calm, Runs
    <2>4. (~lost => NothingLost)'
      BY <1>4 DEF BuildDrawsNot, BuildFails, NoBuild, TownInv, TownTypes, Table, BlocksState,
         NothingLost, Complete, Runs
    <2>5. cache' = NoPicture /\ (page.quiet => Undisturbed)'
      BY <1>4 DEF BuildDrawsNot, BuildFails, NoBuild, TownInv, TownTypes, Table, PageState,
         Disturbed, Undisturbed
    <2>6. QED
      BY <2>1, <2>2, <2>3, <2>4, <2>5 DEF TownInv
  <1>5. CASE BuildOpens
    <2>1. TownTypes'
      BY <1>5 DEF BuildOpens, TownInv, TownTypes, BuildState, PageState, Disturbed
    <2>2. Running'
      BY <1>5, LayoutsAssumption
         DEF BuildOpens, TownInv, TownTypes, BuildState, BlocksState, Running, Runs
    <2>3. (calm => Calm)'
      BY <1>5
         DEF BuildOpens, TownInv, TownTypes, Table, BuildState, BlocksState, Running, Calm, Runs
    <2>4. (~lost => NothingLost)'
      BY <1>5 DEF BuildOpens, TownInv, TownTypes, Table, BlocksState, NothingLost, Complete, Runs
    <2>5. cache' = NoPicture /\ (page.quiet => Undisturbed)'
      BY <1>5 DEF BuildOpens, TownInv, TownTypes, Table, PageState, Disturbed, Undisturbed
    <2>6. QED
      BY <2>1, <2>2, <2>3, <2>4, <2>5 DEF TownInv
  <1>6. CASE BuildWrites
    <2>1. TownTypes'
      BY <1>6 DEF BuildWrites, TownInv, TownTypes, BuildState, PageState, Disturbed
    <2>2. Running'
      BY <1>6 DEF BuildWrites, TownInv, TownTypes, BuildState, BlocksState, Running, Runs
    <2>3. (calm => Calm)'
      BY <1>6
         DEF BuildWrites, TownInv, TownTypes, Table, BuildState, BlocksState, Running, Calm, Runs
    <2>4. (~lost => NothingLost)'
      BY <1>6 DEF BuildWrites, TownInv, TownTypes, Table, BlocksState, NothingLost, Complete, Runs
    <2>5. cache' = NoPicture /\ (page.quiet => Undisturbed)'
      BY <1>6 DEF BuildWrites, TownInv, TownTypes, Table, PageState, Disturbed, Undisturbed
    <2>6. QED
      BY <2>1, <2>2, <2>3, <2>4, <2>5 DEF TownInv
  <1>7. CASE BuildCalls
    <2>1. TownTypes'
      BY <1>7 DEF BuildCalls, TownInv, TownTypes, BuildState, BlocksState, Runs
    <2>2. Running'
      BY <1>7 DEF BuildCalls, TownInv, TownTypes, BuildState, BlocksState, Running, Runs
    <2>3. (calm => Calm)'
      BY ZenonT(60), <1>7
         DEF BuildCalls, TownInv, TownTypes, Table, BuildState, BlocksState, Running, Calm, Runs
    <2>4. (~lost => NothingLost)'
      <3>1. ~lost' => ~lost /\ blocks["hand"].at = "off"
        BY <1>7 DEF BuildCalls, TownInv, TownTypes
      <3>2. /\ blocks'["hand"] = blocks["hand"]
            /\ blocks'["build"] = [blocks["build"] EXCEPT !.at = "loads"]
            /\ blocks["build"].at = "off"
        BY <1>7 DEF BuildCalls, TownInv, TownTypes, Running, Runs
      <3>3. blocks'["build"].at = "loads"
        BY <3>2 DEF TownInv, TownTypes, BlocksState, Runs
      <3>4. table' = table /\ others' = others
        BY <1>7 DEF BuildCalls
      <3>5. QED
        BY <3>1, <3>2, <3>3, <3>4 DEF TownInv, NothingLost, Complete, Runs
    <2>5. cache' = NoPicture /\ (page.quiet => Undisturbed)'
      BY <1>7 DEF BuildCalls, TownInv, TownTypes, Table, PageState, Disturbed, Undisturbed
    <2>6. QED
      BY <2>1, <2>2, <2>3, <2>4, <2>5 DEF TownInv
  <1>8. CASE BuildEnds
    <2>1. TownTypes'
      BY <1>8 DEF BuildEnds, NoBuild, TownInv, TownTypes, BuildState
    <2>2. Running'
      BY <1>8 DEF BuildEnds, NoBuild, TownInv, TownTypes, BuildState, BlocksState, Running, Runs
    <2>3. (calm => Calm)'
      BY <1>8 DEF BuildEnds, NoBuild, TownInv, TownTypes, Table, BuildState, BlocksState,
         Running, Calm, Runs
    <2>4. (~lost => NothingLost)'
      BY <1>8 DEF BuildEnds, NoBuild, TownInv, TownTypes, Table, BlocksState, NothingLost,
         Complete, Runs
    <2>5. cache' = NoPicture /\ (page.quiet => Undisturbed)'
      BY <1>8 DEF BuildEnds, NoBuild, TownInv, TownTypes, Table, PageState, Disturbed, Undisturbed
    <2>6. QED
      BY <2>1, <2>2, <2>3, <2>4, <2>5 DEF TownInv
  <1>9. QED
    BY <1>1, <1>2, <1>3, <1>4, <1>5, <1>6, <1>7, <1>8

LEMMA BlocksTidy ==
  ASSUME TownInv, NEW r \in Runs, BlocksLoad(r) \/ BlocksRead(r) \/ BlocksOpen(r) \/ BlocksWrite(r) \/ Stop(r)
  PROVE  TownInv'
  <1>1. CASE BlocksLoad(r)
    <2>1. TownTypes'
      BY ZenonT(120), <1>1 DEF BlocksLoad, TownInv, TownTypes, BlocksState
    <2>2. Running'
      BY <1>1 DEF BlocksLoad, TownInv, TownTypes, BuildState, BlocksState, Running, Runs
    <2>3. (calm => Calm)'
      BY <1>1
         DEF BlocksLoad, TownInv, TownTypes, Table, BuildState, BlocksState, Running, Calm, Runs
    <2>4. (~lost => NothingLost)'
      BY ZenonT(60), SMTT(60), <1>1
         DEF BlocksLoad, TownInv, TownTypes, Table, BlocksState, NothingLost, Complete, Runs
    <2>5. cache' = NoPicture /\ (page.quiet => Undisturbed)'
      BY <1>1 DEF BlocksLoad, TownInv, TownTypes, Table, PageState, Disturbed, Undisturbed
    <2>6. QED
      BY <2>1, <2>2, <2>3, <2>4, <2>5 DEF TownInv
  <1>2. CASE BlocksRead(r)
    <2>1. TownTypes'
      BY ZenonT(60), <1>2 DEF BlocksRead, TownInv, TownTypes, BlocksState
    <2>2. Running'
      BY <1>2 DEF BlocksRead, TownInv, TownTypes, BuildState, BlocksState, Running, Runs
    <2>3. (calm => Calm)'
      BY <1>2
         DEF BlocksRead, TownInv, TownTypes, Table, BuildState, BlocksState, Running, Calm, Runs
    <2>4. (~lost => NothingLost)'
      BY <1>2 DEF BlocksRead, TownInv, TownTypes, Table, BlocksState, NothingLost, Complete, Runs
    <2>5. cache' = NoPicture /\ (page.quiet => Undisturbed)'
      BY <1>2 DEF BlocksRead, TownInv, TownTypes, Table, PageState, Disturbed, Undisturbed
    <2>6. QED
      BY <2>1, <2>2, <2>3, <2>4, <2>5 DEF TownInv
  <1>3. CASE BlocksOpen(r)
    <2>1. TownTypes'
      BY ZenonT(120), <1>3 DEF BlocksOpen, Emptied, NoFile, TownInv, TownTypes, BlocksState,
         Table, PageState, Disturbed
    <2>2. Running'
      BY <1>3 DEF BlocksOpen, Emptied, NoFile, TownInv, TownTypes, BuildState, BlocksState,
         Running, Runs
    <2>3. (calm => Calm)'
      BY <1>3 DEF BlocksOpen, Emptied, NoFile, TownInv, TownTypes, Table, BuildState,
         BlocksState, Running, Calm, Runs
    <2>4. (~lost => NothingLost)'
      BY <1>3 DEF BlocksOpen, Emptied, NoFile, TownInv, TownTypes, Table, BlocksState,
         NothingLost, Complete, Runs
    <2>5. cache' = NoPicture /\ (page.quiet => Undisturbed)'
      BY <1>3 DEF BlocksOpen, Emptied, NoFile, TownInv, TownTypes, Table, PageState, Disturbed,
         Undisturbed
    <2>6. QED
      BY <2>1, <2>2, <2>3, <2>4, <2>5 DEF TownInv
  <1>4. CASE BlocksWrite(r)
    <2>1. TownTypes'
      BY ZenonT(120), <1>4 DEF BlocksWrite, written, Idle, NoFile, TownInv, TownTypes,
         BlocksState, Table, Running, PageState, Disturbed
    <2>2. Running'
      BY ZenonT(60), SMTT(60), <1>4 DEF BlocksWrite, written, Idle, NoFile, TownInv, TownTypes,
         BuildState, BlocksState, Running, Runs
    <2>3. (calm => Calm)'
      BY <1>4 DEF BlocksWrite, written, Idle, NoFile, TownInv, TownTypes, Table, BuildState,
         BlocksState, Running, Calm, Runs
    <2>4. (~lost => NothingLost)'
      BY ZenonT(60), <1>4 DEF BlocksWrite, written, Idle, NoFile, TownInv, TownTypes, Table,
         BlocksState, NothingLost, Complete, Runs
    <2>5. cache' = NoPicture /\ (page.quiet => Undisturbed)'
      BY <1>4 DEF BlocksWrite, written, Idle, NoFile, TownInv, TownTypes, Table, PageState,
         Disturbed, Undisturbed
    <2>6. QED
      BY <2>1, <2>2, <2>3, <2>4, <2>5 DEF TownInv
  <1>5. CASE Stop(r)
    <2>1. TownTypes'
      BY <1>5 DEF Stop, Idle, NoBuild, NoFile, TownInv, TownTypes, BlocksState, BuildState, Table
    <2>2. Running'
      BY <1>5 DEF Stop, Idle, NoBuild, NoFile, TownInv, TownTypes, BuildState, BlocksState,
         Running, Runs
    <2>3. (calm => Calm)'
      BY <1>5 DEF Stop, Idle, NoBuild, NoFile, TownInv, TownTypes, Table, BuildState,
         BlocksState, Running, Calm, Runs
    <2>4. (~lost => NothingLost)'
      BY <1>5 DEF Stop, Idle, NoBuild, NoFile, TownInv, TownTypes, Table, BlocksState,
         NothingLost, Complete, Runs
    <2>5. cache' = NoPicture /\ (page.quiet => Undisturbed)'
      BY <1>5 DEF Stop, Idle, NoBuild, NoFile, TownInv, TownTypes, Table, PageState, Disturbed,
         Undisturbed
    <2>6. QED
      BY <2>1, <2>2, <2>3, <2>4, <2>5 DEF TownInv
  <1>6. QED
    BY <1>1, <1>2, <1>3, <1>4, <1>5

LEMMA PageTidy ==
  ASSUME TownInv, HandStart \/ PageReload \/ PageDraws \/ PageFetches
  PROVE  TownInv'
  <1>1. CASE HandStart
    <2>1. TownTypes'
      BY <1>1 DEF HandStart, TownInv, TownTypes, BlocksState, Runs
    <2>2. Running'
      BY <1>1 DEF HandStart, TownInv, TownTypes, BuildState, BlocksState, Running, Runs
    <2>3. (calm => Calm)'
      BY ZenonT(60), <1>1
         DEF HandStart, TownInv, TownTypes, Table, BuildState, BlocksState, Running, Calm, Runs
    <2>4. (~lost => NothingLost)'
      BY ZenonT(60), <1>1
         DEF HandStart, TownInv, TownTypes, Table, BlocksState, NothingLost, Complete, Runs
    <2>5. cache' = NoPicture /\ (page.quiet => Undisturbed)'
      BY <1>1 DEF HandStart, TownInv, TownTypes, Table, PageState, Disturbed, Undisturbed
    <2>6. QED
      BY <2>1, <2>2, <2>3, <2>4, <2>5 DEF TownInv
  <1>2. CASE PageReload
    <2>1. TownTypes'
      BY <1>2 DEF PageReload, AtRest, BlocksIdle, Running, Calm, TownInv, TownTypes, PageState
    <2>2. Running'
      BY <1>2 DEF PageReload, AtRest, BlocksIdle, Running, Calm, TownInv, TownTypes, BuildState,
         BlocksState, Running, Runs
    <2>3. (calm => Calm)'
      BY <1>2 DEF PageReload, AtRest, BlocksIdle, Running, Calm, TownInv, TownTypes, Table,
         BuildState, BlocksState, Running, Calm, Runs
    <2>4. (~lost => NothingLost)'
      BY <1>2 DEF PageReload, AtRest, BlocksIdle, Running, Calm, TownInv, TownTypes, Table,
         BlocksState, NothingLost, Complete, Runs
    <2>5. cache' = NoPicture /\ (page.quiet => Undisturbed)'
      <3>1. page' = [at |-> "asks", picture |-> NoPicture, town |-> {}, quiet |-> AtRest]
            /\ cache' = cache /\ picture' = picture /\ table' = table
        BY <1>2 DEF PageReload
      <3>2. page'.quiet => AtRest /\ page'.at = "asks"
        BY <3>1
      <3>3. AtRest => picture \in Plans /\ table.there /\ table.town = {picture}
        BY DEF AtRest, BlocksIdle, TownInv, TownTypes, Calm, Runs
      <3>4. QED
        BY <3>1, <3>2, <3>3 DEF TownInv, Undisturbed
    <2>6. QED
      BY <2>1, <2>2, <2>3, <2>4, <2>5 DEF TownInv
  <1>3. CASE PageDraws
    <2>1. TownTypes'
      BY ZenonT(120), <1>3 DEF PageDraws, answer, TownInv, TownTypes, PageState
    <2>2. Running'
      BY <1>3 DEF PageDraws, answer, TownInv, TownTypes, BuildState, BlocksState, Running, Runs
    <2>3. (calm => Calm)'
      BY <1>3 DEF PageDraws, answer, TownInv, TownTypes, Table, BuildState, BlocksState, Running,
         Calm, Runs
    <2>4. (~lost => NothingLost)'
      BY <1>3
         DEF PageDraws, answer, TownInv, TownTypes, Table, BlocksState, NothingLost, Complete, Runs
    <2>5. cache' = NoPicture /\ (page.quiet => Undisturbed)'
      <3>1. /\ page.at = "asks" /\ picture' = picture /\ table' = table
            /\ page' = [page EXCEPT !.at = "draws", !.picture = picture]
            /\ cache' = NoPicture
        BY <1>3 DEF PageDraws, answer, TownInv
      <3>2. page'.at = "draws" /\ page'.picture = picture /\ page'.quiet = page.quiet
        BY <3>1 DEF TownInv, TownTypes, PageState
      <3>3. QED
        BY <3>1, <3>2 DEF TownInv, Undisturbed
    <2>6. QED
      BY <2>1, <2>2, <2>3, <2>4, <2>5 DEF TownInv
  <1>4. CASE PageFetches
    <2>1. TownTypes'
      <3> DEFINE walls == IF table.there THEN table.town ELSE {}
      <3> DEFINE a == answer(table.there, table.town)
      <3>1. page' = [page EXCEPT !.at = "shown", !.town = walls]
        <4>1. table.there \in BOOLEAN
          BY DEF TownInv, TownTypes, Table
        <4>2. (IF a.status = 200 THEN a.body ELSE {}) = walls
          BY <4>1 DEF answer
        <4>3. page' = [page EXCEPT !.at = "shown", !.town = IF a.status = 200 THEN a.body ELSE {}]
          BY <1>4 DEF PageFetches
        <4>4. QED
          BY <4>2, <4>3
      <3>2. walls \in SUBSET Plans
        BY DEF TownInv, TownTypes, Table
      <3>3. page' \in PageState
        <4> HIDE DEF walls
        <4>1. QED
          BY <3>1, <3>2 DEF TownInv, TownTypes, PageState
      <3>4. QED
        BY <1>4, <3>3 DEF PageFetches, TownInv, TownTypes
    <2>2. Running'
      BY <1>4 DEF PageFetches, answer, TownInv, TownTypes, BuildState, BlocksState, Running, Runs
    <2>3. (calm => Calm)'
      BY <1>4 DEF PageFetches, answer, TownInv, TownTypes, Table, BuildState, BlocksState,
         Running, Calm, Runs
    <2>4. (~lost => NothingLost)'
      BY <1>4 DEF PageFetches, answer, TownInv, TownTypes, Table, BlocksState, NothingLost,
         Complete, Runs
    <2>5. cache' = NoPicture /\ (page.quiet => Undisturbed)'
      BY <1>4 DEF PageFetches, answer, TownInv, TownTypes, Table, PageState, Disturbed, Undisturbed
    <2>6. QED
      BY <2>1, <2>2, <2>3, <2>4, <2>5 DEF TownInv
  <1>5. QED
    BY <1>1, <1>2, <1>3, <1>4

LEMMA StepTidy ==
  TownInv /\ [Next]_vars => TownInv'
  <1> SUFFICES ASSUME TownInv, [Next]_vars
               PROVE  TownInv'
    OBVIOUS
  <1>1. CASE Next
    BY <1>1, EditsTidy, BuildTidy, BlocksTidy, PageTidy DEF Next
  <1>2. CASE UNCHANGED vars
    BY <1>2 DEF vars, TownInv, TownTypes, Running, Calm, NothingLost, Complete, Undisturbed
  <1>3. QED
    BY <1>1, <1>2

LEMMA TownIsTidy ==
  TownSpec => []TownInv
  BY InitTidy, StepTidy, PTL DEF TownSpec

-----------------------------------------------------------------------------
(* The theorems. *)

\* When a build has gone through and nobody meddled since it began, the picture is the
\* layout's, the rows of the town are exactly the cells under the walls it shows, and the
\* header and the rows of other maps are as they were written by hand.
THEOREM WallsStayUnderHouses ==
  TownSpec => []WallsFollowHouses
  <1>1. TownInv => WallsFollowHouses
    <2> SUFFICES ASSUME TownInv, AtRest
                 PROVE  /\ picture = layout
                        /\ SameWalls[table.town, picture]
                        /\ table.head
                        /\ table.rest = others
      BY ZenonT(60) DEF WallsFollowHouses
    <2>1. /\ picture = layout /\ layout \in Plans
          /\ table.there /\ table.town = {layout}
      BY DEF AtRest, BlocksIdle, TownInv, TownTypes, Calm, Runs
    <2>2. table.head /\ table.rest = others
      BY <2>1 DEF AtRest, BlocksIdle, TownInv, TownTypes, NothingLost, Complete, Runs
    <2>3. SameWalls[table.town, picture]
      BY ZenonT(60), <2>1, SameWallsIs
    <2>4. QED
      BY ZenonT(60), <2>1, <2>2, <2>3
  <1>2. QED
    BY <1>1, TownIsTidy, PTL

\* A page loaded while nobody wrote the files shows the walls where it draws the houses,
\* whatever it had loaded before: nothing is kept by the browser.
THEOREM PagesShowTheTown ==
  TownSpec => []PageShowsTheTown
  <1>1. TownInv => PageShowsTheTown
    <2> SUFFICES ASSUME TownInv, page.at = "shown", page.quiet
                 PROVE  page.picture \in Plans /\ SameWalls[page.town, page.picture]
      BY ZenonT(60) DEF PageShowsTheTown
    <2>1. page.picture \in Plans /\ page.town = {page.picture}
      BY DEF TownInv, Undisturbed
    <2>2. QED
      BY ZenonT(60), <2>1, SameWallsIs
  <1>2. QED
    BY <1>1, TownIsTidy, PTL
-----------------------------------------------------------------------------
(* The ground of one layout. *)

LEMMA TilesHaveNumbers ==
  ASSUME NEW t \in Tiles, NEW u \in Tiles, t[1] = u[1]
  PROVE  t = u
  <1> DEFINE Ids == { v[1] : v \in Tiles }
             f == [v \in Tiles |-> v[1]]
  <1>1. f \in Surjection(Tiles, Ids)
    BY DEF Surjection
  <1>2. f \in Injection(Tiles, Ids)
    <2> HIDE DEF f
    <2>1. Cardinality(Ids) = Cardinality(Tiles) /\ IsFiniteSet(Tiles)
      BY TilesAssumption
    <2> HIDE DEF Ids
    <2>2. QED
      BY <1>1, <2>1, FS_Surjection
  <1>3. f[t] = t[1] /\ f[u] = u[1]
    OBVIOUS
  <1> HIDE DEF f, Ids
  <1>4. QED
    BY <1>2, <1>3 DEF Injection, IsInjective

\* A tile has the corners it is found by.
LEMMA CornersOfTile ==
  ASSUME NEW t \in Tiles
  PROVE  CornersOf[t[1]] = t[2]
  <1> DEFINE f == [id \in { u[1] : u \in Tiles } |-> (CHOOSE u \in Tiles : u[1] = id)[2]]
  <1>1. CornersOf = f
    BY TabledIs DEF CornersOf
  <1>2. f[t[1]] = (CHOOSE u \in Tiles : u[1] = t[1])[2]
    OBVIOUS
  <1>3. (CHOOSE u \in Tiles : u[1] = t[1]) = t
    <2>1. /\ (CHOOSE u \in Tiles : u[1] = t[1]) \in Tiles
          /\ (CHOOSE u \in Tiles : u[1] = t[1])[1] = t[1]
      OBVIOUS
    <2>2. QED
      BY <2>1, TilesHaveNumbers
  <1>4. QED
    BY <1>1, <1>2, <1>3

\* In a finite set of numbers each place is taken.
LEMMA PlaceTaken ==
  ASSUME NEW S, IsFiniteSet(S), S \subseteq Int, NEW n \in 1 .. Cardinality(S)
  PROVE  \E x \in S : Cardinality({ y \in S : y < x }) = n - 1
  <1> DEFINE Below(x) == { y \in S : y < x }
             c == Cardinality(S)
             f == [x \in S |-> Cardinality(Below(x)) + 1]
  <1>1. c \in Nat
    BY FS_CardinalityType
  <1>2. \A x \in S : IsFiniteSet(Below(x)) /\ Cardinality(Below(x)) \in Nat
    BY FS_Subset, FS_CardinalityType
  <1>3. \A x \in S : Cardinality(Below(x)) + 1 \in 1 .. c
    <2> SUFFICES ASSUME NEW x \in S
                 PROVE  Cardinality(Below(x)) + 1 \in 1 .. c
      OBVIOUS
    <2>1. Below(x) \in SUBSET S /\ x \notin Below(x)
      OBVIOUS
    <2> HIDE DEF Below
    <2>2. Cardinality(Below(x)) <= c /\ Cardinality(Below(x)) # c
      BY <2>1, FS_Subset
    <2>3. QED
      BY <1>1, <1>2, <2>2
  <1>4. \A x, z \in S : x < z => Cardinality(Below(x)) # Cardinality(Below(z))
    <2> SUFFICES ASSUME NEW x \in S, NEW z \in S, x < z
                 PROVE  Cardinality(Below(x)) # Cardinality(Below(z))
      OBVIOUS
    <2>1. Below(x) \in SUBSET Below(z) /\ x \in Below(z) /\ x \notin Below(x)
      <3>1. x \in Int /\ z \in Int
        OBVIOUS
      <3>2. \A y \in S : y < x => y < z
        BY <3>1
      <3>3. ~ (x < x)
        BY <3>1
      <3>4. QED
        BY <3>2, <3>3
    <2> HIDE DEF Below
    <2>2. QED
      BY <1>2, <2>1, FS_Subset
  <1>5. f \in Injection(S, 1 .. c)
    <2>1. f \in [S -> 1 .. c]
      BY <1>3
    <2>2. \A x, z \in S : f[x] = f[z] => x = z
      <3> SUFFICES ASSUME NEW x \in S, NEW z \in S, f[x] = f[z]
                   PROVE  x = z
        OBVIOUS
      <3>1. Cardinality(Below(x)) = Cardinality(Below(z))
        BY <1>2
      <3> HIDE DEF f, Below
      <3>2. x \in Int /\ z \in Int
        OBVIOUS
      <3>3. QED
        BY <1>4, <3>1, <3>2
    <2>3. QED
      BY <2>1, <2>2 DEF Injection, IsInjective
  <1>6. IsFiniteSet(1 .. c) /\ Cardinality(1 .. c) = c
    BY <1>1, FS_Interval
  <1>7. f \in Surjection(S, 1 .. c)
    <2> HIDE DEF f
    <2>1. QED
      BY <1>5, <1>6, FS_Injection
  <1>8. PICK x \in S : f[x] = n
    BY <1>7 DEF Surjection
  <1>9. Cardinality(Below(x)) = n - 1
    <2>1. f[x] = Cardinality(Below(x)) + 1
      OBVIOUS
    <2> HIDE DEF f, Below
    <2>2. QED
      BY <1>2, <1>8, <2>1
  <1>10. QED
    BY <1>9

LEMMA InOrderIs ==
  ASSUME NEW S, IsFiniteSet(S), S \subseteq Int
  PROVE  LET q == InOrder(S)
         IN  /\ q \in Seq(S)
             /\ q # <<>> => Len(q) \in Nat \ {0}
  <1> DEFINE q == InOrder(S)
             c == Cardinality(S)
  <1>1. c \in Nat
    BY FS_CardinalityType
  <1>2. q = [n \in 1 .. c |-> CHOOSE x \in S : Cardinality({ y \in S : y < x }) = n - 1]
    BY DEF InOrder
  <1>3. \A n \in 1 .. c : (CHOOSE x \in S : Cardinality({ y \in S : y < x }) = n - 1) \in S
    BY PlaceTaken
  <1>4. q \in [1 .. c -> S]
    BY <1>2, <1>3
  <1> HIDE DEF q, c
  <1>5. q \in Seq(S) /\ Len(q) = c
    BY <1>1, <1>4
  <1>6. QED
    BY <1>1, <1>5 DEF q

LEMMA DivModIs ==
  ASSUME NEW N \in Nat \ {0}, NEW a \in Nat
  PROVE  /\ a \div N \in Nat /\ a % N \in 0 .. N - 1
         /\ a = N * (a \div N) + (a % N)
  OBVIOUS
LEMMA DivModUnique ==
  ASSUME NEW N \in Nat \ {0}, NEW q \in Nat, NEW r \in 0 .. N - 1
  PROVE  (N * q + r) \div N = q /\ (N * q + r) % N = r
  <1> DEFINE a == N * q + r
             u == a \div N
             v == a % N
  <1>1. a \in Nat /\ N * q \in Nat
    OBVIOUS
  <1>2. u \in Nat /\ v \in 0 .. N - 1 /\ a = N * u + v
    <2> HIDE DEF a
    <2>1. QED
      BY <1>1, DivModIs
  <1>3. N * u + v = N * q + r
    BY <1>2
  <1> HIDE DEF u, v, a
  <1>4. ASSUME u < q PROVE FALSE
    <2>1. PICK d \in Nat : q = u + 1 + d
      <3>1. q - u - 1 \in Nat /\ q = u + 1 + (q - u - 1)
        BY <1>2, <1>4
      <3>2. QED
        BY <3>1
    <2>2. N * q = N * u + N + N * d /\ N * d >= 0 /\ N * u \in Int
      BY <1>2, <2>1
    <2>3. QED
      BY <1>1, <1>2, <1>3, <2>2
  <1>5. ASSUME q < u PROVE FALSE
    <2>1. PICK d \in Nat : u = q + 1 + d
      <3>1. u - q - 1 \in Nat /\ u = q + 1 + (u - q - 1)
        BY <1>2, <1>5
      <3>2. QED
        BY <3>1
    <2>2. N * u = N * q + N + N * d /\ N * d >= 0
      BY <1>2, <2>1
    <2>3. QED
      BY <1>1, <1>2, <1>3, <2>2
  <1>6. u = q
    BY <1>2, <1>4, <1>5
  <1>7. v = r
    BY <1>1, <1>2, <1>3, <1>6
  <1>8. QED
    BY <1>6, <1>7 DEF u, v, a

\* What is found by some corners has these corners, whichever of the tiles is taken.
LEMMA NthIs ==
  ASSUME NEW key, NEW i \in Nat, nth(byKey(key), i) # Missing
  PROVE  /\ nth(byKey(key), i) \in Nat
         /\ CornersOf[nth(byKey(key), i)] = key
  <1> DEFINE Found == { u \in Tiles : u[2] = key }
             S == { t[1] : t \in Found }
             q == InOrder(S)
  <1>1. S \subseteq Nat
    BY TilesAssumption
  <1>2. IsFiniteSet(S)
    <2> DEFINE f == [t \in Found |-> t[1]]
    <2>1. f \in Surjection(Found, S)
      BY DEF Surjection
    <2>2. IsFiniteSet(Found)
      BY TilesAssumption, FS_Subset
    <2> HIDE DEF f, S, Found
    <2>3. QED
      BY <2>1, <2>2, FS_Surjection
  <1>3. byKey(key) = q
    BY DEF byKey
  <1>4. q \in Seq(S) /\ (q # <<>> => Len(q) \in Nat \ {0})
    <2> HIDE DEF S
    <2>1. S \subseteq Int
      BY <1>1
    <2>2. QED
      BY <1>2, <2>1, InOrderIs
  <1>5. nth(q, i) \in S
    <2> HIDE DEF q, S
    <2>1. q # <<>> /\ nth(q, i) = q[(i % Len(q)) + 1]
      BY <1>3 DEF nth
    <2>2. i % Len(q) \in 0 .. Len(q) - 1
      BY <1>4, <2>1, DivModIs
    <2>3. (i % Len(q)) + 1 \in 1 .. Len(q)
      BY <1>4, <2>1, <2>2
    <2>4. QED
      BY <1>4, <2>1, <2>3
  <1>6. PICK t \in Tiles : t[2] = key /\ nth(q, i) = t[1]
    BY <1>5
  <1>7. QED
    BY <1>3, <1>6, TilesAssumption, CornersOfTile

-----------------------------------------------------------------------------
(* Tiles that touch. *)

Bare == <<None, None, None, None>>

\* The terrain of a layer at a corner of the grid.
At(L, i, j) == IF inLayer(L, i, j) THEN Number(L.terrain) ELSE None

LEMMA KeyIs ==
  ASSUME NEW L, NEW x, NEW y
  PROVE  /\ keyAt(L, x, y)[1] = At(L, x, y)
         /\ keyAt(L, x, y)[2] = At(L, x + 1, y)
         /\ keyAt(L, x, y)[3] = At(L, x, y + 1)
         /\ keyAt(L, x, y)[4] = At(L, x + 1, y + 1)
  BY DEF keyAt, At

\* A tile that is not missing shows the terrain of its corners.
LEMMA TileShows ==
  ASSUME NEW L, NEW x \in Nat, NEW y \in Nat, NEW g, NEW i,
         g[i] = tileAt(L, x, y), g[i] # Missing
  PROVE  CornersAt(g, i) = keyAt(L, x, y)
  <1>1. CASE keyAt(L, x, y) = Bare
    <2>1. g[i] = None
      BY <1>1 DEF tileAt, Bare
    <2>2. QED
      BY <1>1, <2>1 DEF CornersAt, Bare
  <1>2. CASE keyAt(L, x, y) # Bare
    <2> DEFINE n == x * 31 + y * 17
    <2>1. g[i] = nth(byKey(keyAt(L, x, y)), n) /\ n \in Nat
      BY <1>2 DEF tileAt, Bare
    <2> HIDE DEF n
    <2>2. g[i] \in Nat /\ CornersOf[g[i]] = keyAt(L, x, y)
      BY <2>1, NthIs
    <2>3. g[i] # None
      BY <2>2 DEF None
    <2>4. QED
      BY <2>2, <2>3 DEF CornersAt
  <1>3. QED
    BY <1>1, <1>2

\* The neighbours of a tile, on the right and below.
LEMMA Neighbours ==
  ASSUME NEW N \in Nat \ {0}, NEW i \in 0 .. N * N - 1
  PROVE  /\ i % N \in Nat /\ i \div N \in Nat
         /\ i % N # N - 1 => /\ i + 1 \in 0 .. N * N - 1
                             /\ (i + 1) % N = (i % N) + 1 /\ (i + 1) \div N = i \div N
         /\ i \div N # N - 1 => /\ i + N \in 0 .. N * N - 1
                                /\ (i + N) % N = i % N /\ (i + N) \div N = (i \div N) + 1
  <1> DEFINE q == i \div N
             r == i % N
  <1>1. i \in Nat /\ N * N \in Nat
    OBVIOUS
  <1>2. q \in Nat /\ r \in 0 .. N - 1 /\ i = N * q + r /\ N * q \in Nat
    <2>1. q \in Nat /\ r \in 0 .. N - 1 /\ i = N * q + r
      BY <1>1, DivModIs
    <2> HIDE DEF q, r
    <2>2. QED
      BY <2>1
  <1> HIDE DEF q, r
  <1>3. q <= N - 1
    <2> SUFFICES ASSUME q >= N
                 PROVE  FALSE
      BY <1>2
    <2>1. N * q >= N * N
      BY <1>2
    <2>2. QED
      BY <1>1, <1>2, <2>1
  <1>4. ASSUME r # N - 1
        PROVE  i + 1 \in 0 .. N * N - 1 /\ (i + 1) % N = r + 1 /\ (i + 1) \div N = q
    <2>1. r + 1 \in 0 .. N - 1 /\ i + 1 = N * q + (r + 1)
      BY <1>2, <1>4
    <2>2. N * q <= N * N - N
      <3>1. N * q <= N * (N - 1)
        BY <1>2, <1>3
      <3>2. QED
        BY <3>1
    <2>3. i + 1 \in 0 .. N * N - 1
      BY <1>1, <1>2, <2>1, <2>2
    <2>4. (N * q + (r + 1)) \div N = q /\ (N * q + (r + 1)) % N = r + 1
      BY <1>2, <2>1, DivModUnique
    <2>5. QED
      BY <2>1, <2>3, <2>4
  <1>5. ASSUME q # N - 1
        PROVE  i + N \in 0 .. N * N - 1 /\ (i + N) % N = r /\ (i + N) \div N = q + 1
    <2>1. q + 1 \in Nat /\ i + N = N * (q + 1) + r
      BY <1>2
    <2>2. N * (q + 1) <= N * N - N
      <3>1. q + 1 <= N - 1
        BY <1>2, <1>3, <1>5
      <3>2. N * (q + 1) <= N * (N - 1)
        BY <1>2, <3>1
      <3>3. QED
        BY <3>2
    <2>3. i + N \in 0 .. N * N - 1
      BY <1>1, <1>2, <2>1, <2>2
    <2>4. (N * (q + 1) + r) \div N = q + 1 /\ (N * (q + 1) + r) % N = r
      BY <1>2, <2>1, DivModUnique
    <2>5. QED
      BY <2>1, <2>3, <2>4
  <1>6. QED
    BY <1>2, <1>4, <1>5 DEF q, r

\* Two tiles of g that touch differ at a corner they share.
Cut(g, N) ==
  \E i \in DOMAIN g :
    \/ /\ i % N # N - 1
       /\ \/ CornersAt(g, i)[2] # CornersAt(g, i + 1)[1]
          \/ CornersAt(g, i)[4] # CornersAt(g, i + 1)[3]
    \/ /\ i \div N # N - 1
       /\ \/ CornersAt(g, i)[3] # CornersAt(g, i + N)[1]
          \/ CornersAt(g, i)[4] # CornersAt(g, i + N)[2]

\* g is the layer L drawn on a square of N tiles, none of them missing.
Drawn(g, L, N) ==
  /\ DOMAIN g = 0 .. N * N - 1
  /\ \A i \in 0 .. N * N - 1 : g[i] = tileAt(L, i % N, i \div N) /\ g[i] # Missing

LEMMA LayerSeamless ==
  ASSUME NEW N \in Nat \ {0}, NEW L, NEW g, Drawn(g, L, N)
  PROVE  ~ Cut(g, N)
  <1>1. ASSUME NEW i \in 0 .. N * N - 1
        PROVE  CornersAt(g, i) = keyAt(L, i % N, i \div N)
    <2> DEFINE x == i % N
               y == i \div N
    <2>1. x \in Nat /\ y \in Nat
      BY Neighbours
    <2>2. g[i] = tileAt(L, x, y) /\ g[i] # Missing
      BY Zenon DEF Drawn
    <2> HIDE DEF x, y
    <2>3. CornersAt(g, i) = keyAt(L, x, y)
      BY <2>1, <2>2, TileShows
    <2>4. QED
      BY <2>3 DEF x, y
  <1> SUFFICES ASSUME NEW i \in 0 .. N * N - 1
               PROVE  /\ i % N # N - 1 => /\ CornersAt(g, i)[2] = CornersAt(g, i + 1)[1]
                                          /\ CornersAt(g, i)[4] = CornersAt(g, i + 1)[3]
                      /\ i \div N # N - 1 => /\ CornersAt(g, i)[3] = CornersAt(g, i + N)[1]
                                             /\ CornersAt(g, i)[4] = CornersAt(g, i + N)[2]
    BY DEF Cut, Drawn
  <1> DEFINE x == i % N
             y == i \div N
  <1>2. x \in Nat /\ y \in Nat /\ CornersAt(g, i) = keyAt(L, x, y)
    BY <1>1, Neighbours
  <1>3. x # N - 1 => CornersAt(g, i + 1) = keyAt(L, x + 1, y)
    <2> SUFFICES ASSUME x # N - 1
                 PROVE  CornersAt(g, i + 1) = keyAt(L, x + 1, y)
      OBVIOUS
    <2>1. i + 1 \in 0 .. N * N - 1 /\ (i + 1) % N = x + 1 /\ (i + 1) \div N = y
      BY Neighbours
    <2>2. CornersAt(g, i + 1) = keyAt(L, (i + 1) % N, (i + 1) \div N)
      BY <1>1, <2>1
    <2> HIDE DEF x, y
    <2>3. QED
      BY <2>1, <2>2
  <1>4. y # N - 1 => CornersAt(g, i + N) = keyAt(L, x, y + 1)
    <2> SUFFICES ASSUME y # N - 1
                 PROVE  CornersAt(g, i + N) = keyAt(L, x, y + 1)
      OBVIOUS
    <2>1. i + N \in 0 .. N * N - 1 /\ (i + N) % N = x /\ (i + N) \div N = y + 1
      BY Neighbours
    <2>2. CornersAt(g, i + N) = keyAt(L, (i + N) % N, (i + N) \div N)
      BY <1>1, <2>1
    <2> HIDE DEF x, y
    <2>3. QED
      BY <2>1, <2>2
  <1> HIDE DEF x, y
  <1>5. x # N - 1 => /\ CornersAt(g, i)[2] = CornersAt(g, i + 1)[1]
                     /\ CornersAt(g, i)[4] = CornersAt(g, i + 1)[3]
    <2>1. keyAt(L, x, y)[2] = At(L, x + 1, y) /\ keyAt(L, x, y)[4] = At(L, x + 1, y + 1)
      BY KeyIs
    <2> DEFINE next == x + 1
    <2>2. keyAt(L, next, y)[1] = At(L, next, y) /\ keyAt(L, next, y)[3] = At(L, next, y + 1)
      <3> HIDE DEF next
      <3>1. QED
        BY KeyIs
    <2>3. QED
      BY <1>2, <1>3, <2>1, <2>2
  <1>6. y # N - 1 => /\ CornersAt(g, i)[3] = CornersAt(g, i + N)[1]
                     /\ CornersAt(g, i)[4] = CornersAt(g, i + N)[2]
    <2>1. keyAt(L, x, y)[3] = At(L, x, y + 1) /\ keyAt(L, x, y)[4] = At(L, x + 1, y + 1)
      BY KeyIs
    <2> DEFINE next == y + 1
    <2>2. keyAt(L, x, next)[1] = At(L, x, next) /\ keyAt(L, x, next)[2] = At(L, x + 1, next)
      <3> HIDE DEF next
      <3>1. QED
        BY KeyIs
    <2>3. QED
      BY <1>2, <1>4, <2>1, <2>2
  <1>7. QED
    BY <1>5, <1>6 DEF x, y

\* A ground that a build accepts has no seams.
LEMMA SeamlessIs ==
  ASSUME NEW p \in Plans, GroundFits[p]
  PROVE  Seamless[p]
  <1> DEFINE plan == Layouts[p]
             N == plan.cells
             fill == fillOf(Number(plan.ground.base))
             base == [i \in 0 .. N * N - 1 |-> nth(fill, i * 7919)]
             layers == plan.ground.layers
             layer(k) == [i \in 0 .. N * N - 1 |-> tileAt(layers[k], i % N, i \div N)]
             over == [k \in DOMAIN layers |-> layer(k)]
  <1>1. N \in Nat \ {0} /\ layers \in Seq(ToSet(layers))
    BY SMTT(60), LayoutsAssumption
  <1>2. Ground[p] = << base >> \o over
    <2>1. Ground = [q \in Plans |-> tileLayers(Layouts[q])]
      BY SMTT(60), ZenonT(60), TabledIs DEF Ground
    <2>2. Ground[p] = tileLayers(plan)
      BY <2>1
    <2>3. tileLayers(plan) = << base >> \o [k \in DOMAIN layers |-> Tabled(layer(k))]
      BY SMTT(60), ZenonT(60) DEF tileLayers
    <2>4. \A k \in DOMAIN layers : Tabled(layer(k)) = layer(k)
      <3> HIDE DEF layer
      <3>1. QED
        BY TabledIs
    <2> HIDE DEF plan, base, layer
    <2>5. QED
      BY SMTT(60), ZenonT(60), <2>2, <2>3, <2>4
  <1>3. \A k \in DOMAIN Ground[p] : \A i \in DOMAIN Ground[p][k] : Ground[p][k][i] # Missing
    <2> DEFINE fits(q) == /\ TerrainsKnown(Layouts[q]) /\ ShapesKnown(Layouts[q])
                          /\ \A k \in DOMAIN Ground[q] : \A i \in DOMAIN Ground[q][k] :
                               Ground[q][k][i] # Missing
    <2>1. GroundFits = [q \in Plans |-> fits(q)]
      BY TabledIs DEF GroundFits
    <2> HIDE DEF fits
    <2>2. fits(p)
      BY <2>1
    <2>3. QED
      BY <2>2 DEF fits
  <1> DEFINE G == Ground[p]
  <1>4. /\ DOMAIN G = 1 .. Len(layers) + 1 /\ Len(layers) \in Nat
        /\ G[1] = base /\ \A k \in 1 .. Len(layers) : G[k + 1] = layer(k)
    <2>1. over \in Seq({ layer(k) : k \in DOMAIN layers }) /\ Len(over) = Len(layers)
      <3>1. DOMAIN layers = 1 .. Len(layers) /\ Len(layers) \in Nat
        BY <1>1
      <3> HIDE DEF layer, layers
      <3>2. QED
        BY <3>1
    <2>2. DOMAIN layers = 1 .. Len(layers) /\ Len(layers) \in Nat
      BY <1>1
    <2>3. \A k \in 1 .. Len(layers) : over[k] = layer(k)
      BY <2>2
    <2> HIDE DEF base, over, layers, layer, G
    <2>4. G = << base >> \o over
      BY <1>2 DEF G
    <2>5. QED
      BY <2>1, <2>2, <2>3, <2>4
  <1>5. \A k \in 1 .. Len(layers) : ~ Cut(G[k + 1], N)
    <2> SUFFICES ASSUME NEW k \in 1 .. Len(layers)
                 PROVE  ~ Cut(G[k + 1], N)
      OBVIOUS
    <2>1. G[k + 1] = layer(k) /\ k + 1 \in DOMAIN G
      BY <1>4
    <2>2. Drawn(G[k + 1], layers[k], N)
      BY <1>3, <2>1 DEF Drawn
    <2> HIDE DEF G, N, layers
    <2>3. QED
      BY <1>1, <2>2, LayerSeamless
  <1>6. \A i \in 0 .. N * N - 1 :
          /\ G[1][i] # None
          /\ CornersAt(G[1], i) = [c \in 1 .. 4 |-> Number(plan.ground.base)]
    <2> SUFFICES ASSUME NEW i \in 0 .. N * N - 1
                 PROVE  /\ G[1][i] # None
                        /\ CornersAt(G[1], i) = [c \in 1 .. 4 |-> Number(plan.ground.base)]
      OBVIOUS
    <2> DEFINE t == Number(plan.ground.base)
               n == i * 7919
    <2>1. n \in Nat
      BY <1>1
    <2>2. G[1] = base /\ 1 \in DOMAIN G
      BY SMTT(60), <1>4
    <2>3. base[i] = nth(fill, n) /\ i \in DOMAIN base
      OBVIOUS
    <2>4. G[1][i] # Missing
      <3> HIDE DEF base
      <3>1. 1 \in DOMAIN Ground[p] /\ i \in DOMAIN Ground[p][1]
        BY <2>2, <2>3
      <3>2. QED
        BY <1>3, <3>1
    <2>5. G[1][i] = nth(byKey(<<t, t, t, t>>), n)
      BY <2>2, <2>3 DEF fillOf
    <2> HIDE DEF t, n, G
    <2>6. G[1][i] \in Nat /\ CornersOf[G[1][i]] = <<t, t, t, t>>
      BY <2>1, <2>4, <2>5, NthIs
    <2>7. G[1][i] # None
      BY <2>6 DEF None
    <2>8. CornersAt(G[1], i) = <<t, t, t, t>>
      BY <2>6, <2>7 DEF CornersAt
    <2>9. CornersAt(G[1], i) = [c \in 1 .. 4 |-> t]
      BY <2>8
    <2>10. QED
      BY <2>7, <2>9 DEF t
  <1>7. DOMAIN G[1] = 0 .. N * N - 1
    BY <1>4
  <1>8. ~ Cut(G[1], N)
    <2> HIDE DEF G, N
    <2> DEFINE t == Number(plan.ground.base)
    <2> HIDE DEF t
    <2> SUFFICES ASSUME NEW i \in 0 .. N * N - 1
                 PROVE  /\ i % N # N - 1 => i + 1 \in 0 .. N * N - 1
                        /\ i \div N # N - 1 => i + N \in 0 .. N * N - 1
      <3>1. \A i \in 0 .. N * N - 1 : CornersAt(G[1], i) = [c \in 1 .. 4 |-> t]
        BY <1>6 DEF t
      <3>2. QED
        BY <1>7, <3>1 DEF Cut
    <2>1. QED
      BY <1>1, Neighbours
  <1>9. \A k \in DOMAIN G : ~ Cut(G[k], N)
    <2> SUFFICES ASSUME NEW k \in DOMAIN G, k # 1
                 PROVE  ~ Cut(G[k], N)
      BY <1>8
    <2>1. k - 1 \in 1 .. Len(layers) /\ k = (k - 1) + 1
      <3> HIDE DEF G, layers
      <3>1. QED
        BY <1>4
    <2>2. QED
      BY <1>5, <2>1
  <1>10. QED
    <2> DEFINE whole(q) == /\ GroundFits[q]
                           /\ \A i \in DOMAIN Ground[q][1] : Ground[q][1][i] # None
                           /\ \A k \in DOMAIN Ground[q] : ~ Cut(Ground[q][k], Layouts[q].cells)
    <2>1. Seamless = [q \in Plans |-> whole(q)]
      BY TabledIs DEF Seamless, Cut
    <2>2. \A i \in DOMAIN G[1] : G[1][i] # None
      BY <1>6, <1>7
    <2>3. whole(p)
      BY <1>9, <2>2
    <2> HIDE DEF whole
    <2>4. QED
      BY <2>1, <2>3

\* build.js: whatever the layouts are, a town that is shown has been through the checks of
\* tileLayers, so the base lies everywhere and no two tiles of a layer that touch show
\* different terrains at a corner they share.
THEOREM GroundHasNoSeams == TownSpec => []NoSeams
  <1>1. TownInv => NoSeams
    BY SeamlessIs DEF TownInv, Running, NoSeams
  <1>2. QED
    BY <1>1, TownIsTidy, PTL
=============================================================================
