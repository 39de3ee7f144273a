CONSTANTS
BYTE = 16
PRINTABLE <- MCPrintable
PROSE <- MCProse
CODE <- MCCode
HASH_SIZE = 4
HASH_WAYS = 2
MAX_INPUT = 8
Bases = {"a"}
Commands <- MCCommands
Sources <- MCSources
Rewrites <- MCRewrites
Programs <- MCPrograms
Damages <- MCDamages
Changes = 1
Runs = 3
CHECK_DEADLOCK FALSE
SPECIFICATION Spec
INVARIANT NeverWrong
INVARIANT Lossless
INVARIANT LoaderAgrees
