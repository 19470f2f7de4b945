CONSTANTS
  Imports = {i1}
  Server = Server
  Nothing = Nothing
  Tasks = {t1, t2}
  MaxVersion = 1
  Home = {i1, Server}
SPECIFICATION BindingsSpec
SYMMETRY Symmetry
INVARIANTS ActiveIsShown CurrentIndexIsTrue
PROPERTIES FrozenOnlyByRace
