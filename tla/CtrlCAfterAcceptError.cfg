CONSTANTS
  c1 = c1
  CtrlC = ctrlc
  Demo = demo
  Conns = {c1, ctrlc, demo}
  Kinds = {"edit", "shutdown"}
  MaxFrames = 1
  ScriptLength = 0
  Faults = {"accept"}
CHECK_DEADLOCK FALSE
SPECIFICATION ProcessSpec
PROPERTIES
  CtrlCStops
