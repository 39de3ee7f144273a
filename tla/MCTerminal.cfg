SPECIFICATION Spec
CONSTANTS
  VGA_WIDTH = 3
  VGA_HEIGHT = 3
  con_cols = 5
  con_rows = 4
  SCROLLBACK_LINES = 5
  MAX_LINES = 3
  LINE_CAP = 5
  MAX_FILE_SIZE = 8
  GUTTER_WIDTH = 2
  KeyLimit = 2
  Worlds <- MCWorlds
  Texts <- MCTexts
  TypedKeys <- MCTypedKeys
  Commands <- MCCommands
CHECK_DEADLOCK FALSE
INVARIANT DisplaysAgree
 
INVARIANT UnmodifiedIsSaved
PROPERTY TextImplemented
