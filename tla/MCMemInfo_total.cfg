SPECIFICATION InfoSpec
CONSTANTS
  BYTE_PER_KB = 1024
  MaxPids = 3
  MaxNodes = 2
  NoAnswer = NoAnswer
  SmapsFiles <- MCSmapsFiles
  DevRecords <- MCDevRecords
  DmaSums <- MCDmaSums
PROPERTY DocumentedTotal
