SPECIFICATION Spec
CONSTANTS
  Chaser = Chaser
  vitrine = vitrine
  cif = cif
  MatPLC = MatPLC
  Module = {Chaser, vitrine, cif}
  Name <- DemoNames
  Config <- Demos
  SemMax = 3
  DeathsMax = 2
INVARIANT TypeOK
INVARIANT LockStep
 
INVARIANT TokensKept
 
PROPERTY TurnsGoOn
