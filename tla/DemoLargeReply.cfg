CONSTANTS
  c1 = c1
  CtrlC = none
  Demo = demo
  Conns = {c1, demo}
  Kinds = {"edit", "large", "shutdown"}
  MaxFrames = 3
  ScriptLength = 2
  Faults = {}
CHECK_DEADLOCK FALSE
SPECIFICATION ProcessSpec
PROPERTIES
  DemoTerminates
