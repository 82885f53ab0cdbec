CONSTANTS
  c1 = c1
  CtrlC = ctrlc
  Demo = demo
  Conns = {c1, ctrlc, demo}
  Kinds = {"edit", "large", "shutdown"}
  MaxFrames = 3
  ScriptLength = 2
  Faults = {"write", "connect"}
CHECK_DEADLOCK FALSE
SPECIFICATION ProcessSpec
INVARIANTS
  DemoSuccess
  DemoIsAnswered
PROPERTIES
  CtrlCStops
  DemoStops
