-------------------------------- MODULE Town --------------------------------
(***************************************************************************)
(* How the town is made and shown: tools/town/build.js draws town0.js into *)
(* assets/town.js and then runs tools/town/blocks.js, which writes the     *)
(* cells under the houses' walls into Run/bin/BlockTable.csv; serve.js     *)
(* hands both files to the page.  The programs run beside a developer who  *)
(* edits the layout and the table, runs blocks.js by hand and stops what   *)
(* runs.  writeFileSync empties a file before it fills it.  The pictures   *)
(* themselves, cut out by a headless Chrome, are left out: that step only  *)
(* succeeds or fails.                                                      *)
(***************************************************************************)
EXTENDS Terrain, Town0

CONSTANTS Layouts,      \* the layouts town0.js may have, by name
          HandRows,     \* the sets of rows of other maps a developer may write
          MaxEdits      \* a bound on what the developer does

VARIABLES layout,       \* the layout in town0.js
          picture,      \* the layout assets/town.js shows, or NoPicture
          table,        \* BlockTable.csv
          build,        \* build.js: where it is and the layout it read
          blocks,       \* blocks.js, as run by build.js and by hand
          page,         \* live.html in a browser
          cache,        \* what the browser kept of assets/town.js
          others,       \* history: the rows of other maps as last written by hand
          calm,         \* history: nothing went wrong since the last build began
          lost,         \* history: rows of other maps may have been lost
          edits

vars == <<layout, picture, table, build, blocks, page, cache, others, calm, lost, edits>>

Plans == DOMAIN Layouts
NoPicture == "none"
Runs == {"build", "hand"}

-----------------------------------------------------------------------------
\* build.js: the ground.

\* 32 pixels, one tile of the ground, are 1.5 cells.
U == 15

\* The names of the pictures: the houses cut out of PREVIEW, the cottage, PROPS.
HouseNames == { "house_lshape", "house_twostory", "house_annex", "house_gate",
                "house_dormer", "cottage_small" }
PROPS == { "well", "wheelbarrow", "hay_square", "hay_round", "firewood", "scarecrow", "barrels2",
           "barrels3", "stall_grey", "stall_orange", "stall_green", "cart", "table", "signpost" }

\* Whether (x, y) is at most the last of a away from the segment its first four name: from
\* one end, or from the line where it is nearest.  No point is near one without length.
nearSegment(a, x, y) ==
  LET abs(n) == IF n < 0 THEN -n ELSE n
      dx == a[3] - a[1]
      dy == a[4] - a[2]
      r == a[5]
      long == dx ^ 2 + dy ^ 2
      along == (x - a[1]) * dx + (y - a[2]) * dy
      off == (x - a[1]) * dy - (y - a[2]) * dx
  IN  /\ long > 0 /\ r >= 0
      /\ \/ along <= 0 /\ (x - a[1]) ^ 2 + (y - a[2]) ^ 2 <= r ^ 2
         \/ along >= long /\ (x - a[3]) ^ 2 + (y - a[4]) ^ 2 <= r ^ 2
         \/ /\ along \in 0 .. long /\ abs(off) <= r * (abs(dx) + abs(dy))
            /\ off ^ 2 <= r ^ 2 * long

\* The first test of an ellipse, as that of abs(off) above, bounds the squares of the second;
\* it holds whenever the second does.
inShape(s, x, y) ==
  LET a == s.at IN
  \/ /\ s.kind = "ell"
     /\ x \in (a[1] - a[3]) .. (a[1] + a[3]) /\ y \in (a[2] - a[4]) .. (a[2] + a[4])
     /\ ((x - a[1]) * a[4]) ^ 2 + ((y - a[2]) * a[3]) ^ 2 <= (a[3] * a[4]) ^ 2
  \/ s.kind = "rect" /\ x \in a[1] .. a[3] /\ y \in a[2] .. a[4]
  \/ s.kind = "seg" /\ nearSegment(a, x, y)

\* Whether the corner (i, j) of the ground's grid is inside a layer's shapes.
inLayer(L, i, j) == \E s \in L.shapes : inShape(s, i * U, j * U)

\* MUTANT of keyAt: the corners column by column.
keyByColumns(L, x, y) ==
  [k \in 1 .. 4 |-> LET c == << <<x, y>>, <<x, y + 1>>, <<x + 1, y>>, <<x + 1, y + 1>> >>[k]
                    IN  IF inLayer(L, c[1], c[2]) THEN Number(L.terrain) ELSE None]

\* The terrain at the four corners of tile (x, y), in the order of the tile table.
keyAt(L, x, y) ==
  [k \in 1 .. 4 |-> LET c == << <<x, y>>, <<x + 1, y>>, <<x, y + 1>>, <<x + 1, y + 1>> >>[k]
                    IN  IF inLayer(L, c[1], c[2]) THEN Number(L.terrain) ELSE None]

Missing == -2

\* The i-th of the tiles with some corners, beginning again after the last.
nth(ids, i) == IF ids = <<>> THEN Missing ELSE ids[(i % Len(ids)) + 1]

fillOf(t) == byKey(<<t, t, t, t>>)

\* One tile of a layer: none outside the shapes, else one of those with its corners.
tileAt(L, x, y) ==
  LET key == keyAt(L, x, y)
  IN  IF key = <<None, None, None, None>> THEN None ELSE nth(byKey(key), x * 31 + y * 17)

\* tileLayers: the base everywhere and the layers on it, row by row.
tileLayers(plan) ==
  LET N == plan.cells
      baseFill == fillOf(Number(plan.ground.base))
      over == [k \in DOMAIN plan.ground.layers |->
                 Tabled([i \in 0 .. N * N - 1 |-> tileAt(plan.ground.layers[k], i % N, i \div N)])]
  IN  << [i \in 0 .. N * N - 1 |-> nth(baseFill, i * 7919)] >> \o over

Ground == Tabled([p \in Plans |-> tileLayers(Layouts[p])])

\* Terrains have names of terrain-v7.tsx.
TerrainsKnown(plan) ==
  {plan.ground.base} \cup { L.terrain : L \in ToSet(plan.ground.layers) } \subseteq ToSet(terrains)

\* Shapes are of one of the three kinds.  (Of an unknown one that the shapes before it cover
\* everywhere the code takes no notice.)
ShapesKnown(plan) ==
  \A k \in DOMAIN plan.ground.layers : \A s \in plan.ground.layers[k].shapes :
    s.kind \in {"ell", "rect", "seg"}

\* What stops a build before the pictures are made, and after it.
GroundFits ==
  Tabled([p \in Plans |->
            /\ TerrainsKnown(Layouts[p]) /\ ShapesKnown(Layouts[p])
            /\ \A k \in DOMAIN Ground[p] : \A i \in DOMAIN Ground[p][k] : Ground[p][k][i] # Missing])
ObjectsDrawn(p) == \A k \in DOMAIN Layouts[p].objects : Layouts[p].objects[k][1] \in HouseNames \cup PROPS

-----------------------------------------------------------------------------
\* blocks.js: the cells under the walls, in hundredths of a cell.

\* MUTANT of FOOTPRINT: the gate house without its gate.
FOOTPRINTWithoutGate ==
  [ house_gate |-> << <<-1095, 1085>> >>, house_lshape |-> << <<-659, 705>> >>,
    house_dormer |-> << <<-656, 675>> >>, house_twostory |-> << <<-359, 373>> >>,
    house_annex |-> << <<-274, 288>> >>, cottage_small |-> << <<-216, 211>> >> ]

\* Where the walls of a house's picture meet the ground, left and right of its middle.
FOOTPRINT ==
  [ house_gate |-> << <<-1095, -232>>, <<220, 1085>> >>, house_lshape |-> << <<-659, 705>> >>,
    house_dormer |-> << <<-656, 675>> >>, house_twostory |-> << <<-359, 373>> >>,
    house_annex |-> << <<-274, 288>> >>, cottage_small |-> << <<-216, 211>> >> ]

DEPTH == 300

\* The cells whose middle lies between a and b: Math.ceil(a - 0.5), Math.floor(b - 0.5).
cellSpan(a, b) == <<-((50 - a) \div 100), (b - 50) \div 100>>

townRows(plan) ==
  { r \in UNION { LET o  == plan.objects[k]
                      ys == cellSpan(10 * o[3] - DEPTH, 10 * o[3])
                  IN  { LET xs == cellSpan(10 * o[2] + s[1], 10 * o[2] + s[2])
                        IN  [x0 |-> xs[1], y0 |-> ys[1], x1 |-> xs[2], y1 |-> ys[2]]
                          : s \in ToSet(FOOTPRINT[o[1]]) }
                  : k \in { j \in DOMAIN plan.objects : plan.objects[j][1] \in DOMAIN FOOTPRINT } }
      : r.x0 <= r.x1 /\ r.y0 <= r.y1 }

\* A layout: a square of ground with layers in an order, and houses whose walls lie on the
\* town's 60 cells (the server refuses rows that leave the map, BlockTable.cpp:61).
ASSUME LayoutsAssumption ==
  NoPicture \notin Plans /\ \A p \in Plans :
    /\ Layouts[p].cells \in Nat \ {0}
    /\ Layouts[p].ground.layers \in Seq(ToSet(Layouts[p].ground.layers))
    /\ \A k \in DOMAIN Layouts[p].objects :
         LET o == Layouts[p].objects[k]
         IN  o[1] \in HouseNames =>
               /\ o[2] \in Int /\ o[3] \in Int
               /\ 0 <= 10 * o[3] - DEPTH /\ 10 * o[3] <= 6000
               /\ \A s \in ToSet(FOOTPRINT[o[1]]) :
                    0 <= 10 * o[2] + s[1] /\ 10 * o[2] + s[2] <= 6000

Rows == Tabled([p \in Plans |-> townRows(Layouts[p])])

\* A table file: whether it is there and begins with its header, the layouts whose rows are
\* its rows of the town, and its rows of other maps.
NoFile == [there |-> FALSE, head |-> FALSE, town |-> {}, rest |-> {}]
Emptied == [NoFile EXCEPT !.there = TRUE]

\* MUTANT of written: the old rows of the town are kept.
writtenAfterAll(had, p) ==
  [there |-> TRUE, head |-> had.head \/ ~had.there, town |-> had.town \cup {p}, rest |-> had.rest]

\* What blocks.js writes: what it read without the town's rows, or HEADER if there was no
\* file, and the rows of its layout.
written(had, p) == [there |-> TRUE, head |-> had.head \/ ~had.there, town |-> {p}, rest |-> had.rest]

-----------------------------------------------------------------------------
NoBuild == [at |-> "off", plan |-> NoPicture]
Idle == [at |-> "off", plan |-> NoPicture, had |-> NoFile]

BlocksIdle == \A r \in Runs : blocks[r].at = "off"
AtRest == calm /\ ~lost /\ build.at = "off" /\ BlocksIdle

Init ==
  /\ \E p \in { q \in Plans : GroundFits[q] /\ ObjectsDrawn(q) }, rs \in HandRows :
       /\ layout = p /\ picture = p
       /\ table = [there |-> TRUE, head |-> TRUE, town |-> {p}, rest |-> rs]
       /\ others = rs
  /\ build = NoBuild
  /\ blocks = [r \in Runs |-> Idle]
  /\ page = [at |-> "off", picture |-> NoPicture, town |-> {}, quiet |-> FALSE]
  /\ cache = NoPicture
  /\ calm = TRUE /\ lost = FALSE /\ edits = 0

\* The page is loading while somebody changes a file.
Disturbed == page' = [page EXCEPT !.quiet = @ /\ page.at \notin {"asks", "draws"}]

\* A developer changes town0.js.
Edit ==
  /\ edits < MaxEdits
  /\ \E p \in Plans \ {layout} : layout' = p
  /\ edits' = edits + 1 /\ calm' = FALSE
  /\ UNCHANGED <<picture, table, build, blocks, page, cache, others, lost>>

\* A developer writes the rows of the other maps; blocks.js overwrites them if it has
\* already read the table.
EditOthers ==
  /\ edits < MaxEdits /\ table.there
  /\ \E rs \in HandRows :
       /\ table' = [table EXCEPT !.head = TRUE, !.rest = rs]
       /\ others' = rs
  /\ lost' = (~BlocksIdle /\ (lost \/ \E r \in Runs : blocks[r].at \in {"opens", "writes"}))
  /\ edits' = edits + 1 /\ Disturbed
  /\ UNCHANGED <<layout, picture, build, blocks, cache, calm>>

\* A developer deletes the table.
DeleteTable ==
  /\ edits < MaxEdits /\ table.there /\ BlocksIdle
  /\ table' = NoFile /\ others' = {} /\ lost' = FALSE
  /\ edits' = edits + 1 /\ calm' = FALSE /\ Disturbed
  /\ UNCHANGED <<layout, picture, build, blocks, cache>>

-----------------------------------------------------------------------------
\* build.js.

BuildStart ==
  /\ build.at = "off"
  /\ build' = [at |-> "ground", plan |-> layout]
  /\ calm' = TRUE
  /\ UNCHANGED <<layout, picture, table, blocks, page, cache, others, lost, edits>>

\* fail(...): the process ends, and so does what it runs.
BuildFails ==
  /\ build' = NoBuild /\ calm' = FALSE
  /\ UNCHANGED <<layout, picture, table, blocks, page, cache, others, lost, edits>>

BuildGround ==
  /\ build.at = "ground"
  /\ IF GroundFits[build.plan]
     THEN /\ build' = [build EXCEPT !.at = "draws"]
          /\ UNCHANGED <<layout, picture, table, blocks, page, cache, others, calm, lost, edits>>
     ELSE BuildFails

\* Chrome has made the pictures and every object has one.
BuildDraws ==
  /\ build.at = "draws" /\ ObjectsDrawn(build.plan)
  /\ build' = [build EXCEPT !.at = "opens"]
  /\ UNCHANGED <<layout, picture, table, blocks, page, cache, others, calm, lost, edits>>

\* Chrome is not there, is too slow or reports an error, or an object has no picture.
BuildDrawsNot == build.at = "draws" /\ BuildFails

\* writeFileSync(town.js): emptied, then filled.
BuildOpens ==
  /\ build.at = "opens"
  /\ picture' = NoPicture /\ build' = [build EXCEPT !.at = "writes"] /\ Disturbed
  /\ UNCHANGED <<layout, table, blocks, cache, others, calm, lost, edits>>

BuildWrites ==
  /\ build.at = "writes"
  /\ picture' = build.plan /\ build' = [build EXCEPT !.at = "calls"] /\ Disturbed
  /\ UNCHANGED <<layout, table, blocks, cache, others, calm, lost, edits>>

\* execFileSync(blocks.js), a new process: while another runs, either may read what the
\* other has emptied.
BuildCalls ==
  /\ build.at = "calls"
  /\ build' = [build EXCEPT !.at = "waits"]
  /\ blocks' = [blocks EXCEPT !["build"].at = "loads"]
  /\ lost' = (lost \/ blocks["hand"].at # "off")
  /\ calm' = (calm /\ blocks["hand"].at = "off")
  /\ UNCHANGED <<layout, picture, table, page, cache, others, edits>>

BuildEnds ==
  /\ build.at = "waits" /\ blocks["build"].at = "off"
  /\ build' = NoBuild
  /\ UNCHANGED <<layout, picture, table, blocks, page, cache, others, calm, lost, edits>>

-----------------------------------------------------------------------------
\* blocks.js: its own require('./town0.js'), readLines, writeFileSync.

HandStart ==
  /\ blocks["hand"].at = "off"
  /\ blocks' = [blocks EXCEPT !["hand"].at = "loads"]
  /\ lost' = (lost \/ blocks["build"].at # "off")
  /\ calm' = (calm /\ blocks["build"].at = "off")
  /\ UNCHANGED <<layout, picture, table, build, page, cache, others, edits>>

BlocksLoad(r) ==
  /\ blocks[r].at = "loads"
  /\ blocks' = [blocks EXCEPT ![r].at = "reads", ![r].plan = layout]
  /\ UNCHANGED <<layout, picture, table, build, page, cache, others, calm, lost, edits>>

BlocksRead(r) ==
  /\ blocks[r].at = "reads"
  /\ blocks' = [blocks EXCEPT ![r].at = "opens", ![r].had = table]
  /\ UNCHANGED <<layout, picture, table, build, page, cache, others, calm, lost, edits>>

BlocksOpen(r) ==
  /\ blocks[r].at = "opens"
  /\ table' = Emptied /\ blocks' = [blocks EXCEPT ![r].at = "writes"] /\ Disturbed
  /\ UNCHANGED <<layout, picture, build, cache, others, calm, lost, edits>>

BlocksWrite(r) ==
  /\ blocks[r].at = "writes"
  /\ table' = written(blocks[r].had, blocks[r].plan)
  /\ blocks' = [blocks EXCEPT ![r] = Idle] /\ Disturbed
  /\ UNCHANGED <<layout, picture, build, cache, others, calm, lost, edits>>

\* Ctrl-C: build.js ends together with the blocks.js it runs; an emptied table stays so.
Stop(r) ==
  /\ blocks[r].at # "off" \/ (r = "build" /\ build.at # "off")
  /\ blocks' = [blocks EXCEPT ![r] = Idle]
  /\ build' = IF r = "build" THEN NoBuild ELSE build
  /\ lost' = (lost \/ blocks[r].at = "writes")
  /\ calm' = FALSE
  /\ UNCHANGED <<layout, picture, table, page, cache, others, edits>>

-----------------------------------------------------------------------------
\* serve.js and live.html.

\* MUTANT of answer: nothing said about caching.
answerAsIs(there, body) == [status |-> IF there THEN 200 ELSE 404, cacheControl |-> "", body |-> body]

\* What serve.js answers for a file.
answer(there, body) ==
  IF there THEN [status |-> 200, cacheControl |-> "no-store", body |-> body]
  ELSE [status |-> 404, cacheControl |-> "", body |-> body]

\* The page is opened or loaded again.
PageReload ==
  /\ page' = [at |-> "asks", picture |-> NoPicture, town |-> {}, quiet |-> AtRest]
  /\ UNCHANGED <<layout, picture, table, build, blocks, cache, others, calm, lost, edits>>

\* <script src="assets/town.js">: the browser's copy if it kept one; window.TOWN stays
\* undefined when the file is empty.
PageDraws ==
  /\ page.at = "asks"
  /\ LET a == answer(TRUE, picture)
         kept == IF a.cacheControl = "no-store" THEN NoPicture ELSE a.body
     IN  IF cache = NoPicture
         THEN page' = [page EXCEPT !.at = "draws", !.picture = a.body] /\ cache' = kept
         ELSE page' = [page EXCEPT !.at = "draws", !.picture = cache] /\ UNCHANGED cache
  /\ UNCHANGED <<layout, picture, table, build, blocks, others, calm, lost, edits>>

\* fetch('/data/BlockTable.csv', {cache: 'no-store'}): no table, no walls.
PageFetches ==
  /\ page.at = "draws"
  /\ LET a == answer(table.there, table.town)
     IN  page' = [page EXCEPT !.at = "shown", !.town = IF a.status = 200 THEN a.body ELSE {}]
  /\ UNCHANGED <<layout, picture, table, build, blocks, cache, others, calm, lost, edits>>

-----------------------------------------------------------------------------
Next ==
  \/ Edit \/ EditOthers \/ DeleteTable
  \/ BuildStart \/ BuildGround \/ BuildDraws \/ BuildDrawsNot
  \/ BuildOpens \/ BuildWrites \/ BuildCalls \/ BuildEnds
  \/ HandStart
  \/ \E r \in Runs : BlocksLoad(r) \/ BlocksRead(r) \/ BlocksOpen(r) \/ BlocksWrite(r) \/ Stop(r)
  \/ PageReload \/ PageDraws \/ PageFetches

TownSpec == Init /\ [][Next]_vars

-----------------------------------------------------------------------------
\* Properties.

Side == 0 .. 59

\* The cells whose middle is under a wall of the houses of a layout, from the foot line up
\* to the height of a character.
WallCells(p) ==
  LET hs == { k \in DOMAIN Layouts[p].objects : Layouts[p].objects[k][1] \in HouseNames }
      under(c, o) == /\ 100 * c[2] + 50 \in (10 * o[3] - 300) .. (10 * o[3])
                     /\ \E s \in ToSet(FOOTPRINT[o[1]]) :
                          100 * c[1] + 50 \in (10 * o[2] + s[1]) .. (10 * o[2] + s[2])
  IN  { c \in Side \X Side : \E k \in hs : under(c, Layouts[p].objects[k]) }

\* The cells blocked by the rows of some layouts.
Blocked(ps) == UNION { (r.x0 .. r.x1) \X (r.y0 .. r.y1) : r \in UNION { Rows[p] : p \in ps } }

\* Whether the rows of some layouts block exactly the cells under a layout's walls.
SameWalls == Tabled([x \in (SUBSET Plans) \X Plans |-> Blocked(x[1]) = WallCells(x[2])])

\* blocks.js, build.js's last line: when a build has gone through and nobody meddled, the
\* picture is the layout's, the town's rows are exactly the cells under the walls it shows,
\* and the header and the rows of other maps are as they were written by hand.
WallsFollowHouses ==
  AtRest => /\ picture = layout
            /\ SameWalls[table.town, picture]
            /\ table.head
            /\ table.rest = others

\* serve.js, live.html: a page loaded while nobody changed a file shows the walls where it
\* draws the houses, whatever was loaded before and is built after.
PageShowsTheTown ==
  page.at = "shown" /\ page.quiet =>
    page.picture \in Plans /\ SameWalls[page.town, page.picture]

\* build.js's ground: the base lies everywhere, and in every layer of the ground that
\* is shown two tiles that touch have the same terrain at the corners they share.
CornersAt(g, i) == IF g[i] = None THEN <<None, None, None, None>> ELSE CornersOf[g[i]]

Seamless ==
  Tabled([p \in Plans |->
  LET N == Layouts[p].cells
      cut(g) == \E i \in DOMAIN g :
        \/ /\ i % N # N - 1
           /\ \/ CornersAt(g, i)[2] # CornersAt(g, i + 1)[1]
              \/ CornersAt(g, i)[4] # CornersAt(g, i + 1)[3]
        \/ /\ i \div N # N - 1
           /\ \/ CornersAt(g, i)[3] # CornersAt(g, i + N)[1]
              \/ CornersAt(g, i)[4] # CornersAt(g, i + N)[2]
  IN  /\ GroundFits[p]
      /\ \A i \in DOMAIN Ground[p][1] : Ground[p][1][i] # None
      /\ \A k \in DOMAIN Ground[p] : ~cut(Ground[p][k])])

NoSeams == picture \in Plans => Seamless[picture]

\* The cells of free that are reached from start, in at most 30 straight walks of up to 4
\* cells.
Reached(start, free) ==
  LET ahead(c, d) == { n \in 1 .. 4 : \A m \in 1 .. n : <<c[1] + m * d[1], c[2] + m * d[2]>> \in free }
      around(c) == UNION { { <<c[1] + n * d[1], c[2] + n * d[2]>> : n \in ahead(c, d) }
                           : d \in {<<0, 1>>, <<1, 0>>, <<0, -1>>, <<-1, 0>>} }
      wave(s, n) == LET front == UNION { around(c) : c \in s.front } \ s.seen
                    IN  [seen |-> s.seen \cup front, front |-> front]
  IN  FoldLeftDomain(wave, [seen |-> start, front |-> start], [n \in 1 .. 30 |-> n]).seen

\* The cells of the town that are paved: their middle is on stone.
Paved ==
  { c \in Side \X Side : \E k \in DOMAIN ground.layers :
      /\ ground.layers[k].terrain = "Stone_Tan"
      /\ \E s \in ground.layers[k].shapes : inShape(s, 10 * c[1] + 5, 10 * c[2] + 5) }

\* Whether where people appear, leave and trade and every paved cell is free, and every free
\* cell can be walked to.
Walkable ==
  Tabled([ps \in SUBSET Plans |->
            LET free == (Side \X Side) \ Blocked(ps)
            IN  startArea \cup places \cup Paved \subseteq free /\ Reached(startArea, free) = free])

\* BlockTable.csv's header, blocks.js's gate: after a build, where people appear, leave and
\* trade is free and so is every paved cell, also under the gate, and nobody is walled in.
TownWalkable == AtRest => Walkable[table.town]
==============================================================================
