SPECIFICATION Spec
CONSTANTS
  Kinds = {"png", "once", "tile", "render", "extra", "extraRender", "function", "functionText", "text", "style", "check", "variable", "reduce", "extent", "pairs"}
  Moments = {1, 2}
  Sizes = {1, 3}
  LogCap = 4
  MaxSteps = 4
INVARIANTS TypeOK ErrorExplained CutIsMarked LogBounded
