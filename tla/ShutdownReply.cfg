CONSTANTS
  c1 = c1
  CtrlC = none
  Demo = demo
  Conns = {c1, demo}
  Kinds = {"edit", "shutdown"}
  MaxFrames = 1
  ScriptLength = 0
  Faults = {}
CHECK_DEADLOCK FALSE
SPECIFICATION ProcessSpec
INVARIANTS
  ShutdownIsAnswered
