SPECIFICATION Spec
CONSTANTS
  VGA_WIDTH = 2
  VGA_HEIGHT = 2
  SCROLLBACK_LINES = 4
  Glyphs = {"a", "b"}
  Steps = {1, 2}
  SHELL_BUFFER_SIZE = 4
INVARIANTS
  TypeOK
  ScrolledViewMatches
  LiveViewMatches
  BelowCursorBlank
