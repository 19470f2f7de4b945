\* One inspection, two tasks, two mods of one package.
CONSTANTS
  Inspections = {i1}
  Tasks = {t1, t2}
  Mods = {m1, m2}
  NoMod = NoMod
SPECIFICATION LibrarySpec
SYMMETRY Symmetry
INVARIANTS StagingKept QuietSettings
PROPERTIES FailedInstallRestores InstallKeepsOne
CONSTRAINT Bound
