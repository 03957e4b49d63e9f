\* Every choice of sinks, of which any may fail to open and one to write.
SPECIFICATION Spec
CONSTANTS
  Main = Main
  Scan = Scan
  Level = {0, 1}
  Unreliable = {"sqlite"}
  MaxLines = 2
  None = None
INVARIANTS
  LogInv
  LinesKept
  SinksAgree
PROPERTIES
  LogRaceFree
