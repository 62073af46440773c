\* The tools of the town and the page, on the real layout and three others.
SPECIFICATION TownSpec
CONSTANTS
  Layouts <- MCLayouts
  HandRows <- MCHandRows
  MaxEdits = 2
INVARIANTS
  WallsFollowHouses
  PageShowsTheTown
  NoSeams
  TownWalkable
