CONSTANTS
  Described <- MCDescribed
  MaxProperties = 3
  Payloads <- MCPayloads
SPECIFICATION Spec
INVARIANTS TypeOK WholeDumpIsRead CutDumpIsRead
PROPERTIES EntriesAdvance
\* The parser is done with its payload.
CHECK_DEADLOCK FALSE
