SPECIFICATION FairSpec
CONSTANTS
  KEYBOARD_BUFFER_SIZE = 3
  SESSIONS <- SafeSessions
  WIRE = 2
 
PROPERTY GetcharReturns
