CONSTANTS
  Width = 2
  Coord = {0, 1, 2}
  Space = {s1, s2}
  Hop = {n1}
  None = none
  MaxRoutes = 2
SPECIFICATION Spec
INVARIANTS TypeOK PrefixTestIsContains LookupCorrect MostSpecificWins
