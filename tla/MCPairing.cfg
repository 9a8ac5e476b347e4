SPECIFICATION Spec
CONSTANTS
  Browsers = {alice, bob}
  Codes = {c1, c2}
  Nobody = Nobody
  Plain = {2}
  MaxAttempts = 3
  MaxCrashes = 1
SYMMETRY Symmetry
CHECK_DEADLOCK FALSE
INVARIANTS TypeOK AckedIsDurable PairedMatchesRecord
PROPERTY RefinesCodes
