SPECIFICATION Spec
CONSTANTS
  OurTypes <- MCOurTypes
  CommandLine <- MCCommandLine
  File <- MCFile
  Row <- MCRow
  Served <- MCServed
  Invocation <- MCInvocation
  Org <- MCOrg
  Prefix <- MCPrefix
  Production = "axt"
  Key <- MCKey
  Builtin = "builtin"
INVARIANTS LiteralStaysPositional NothingIsPassedOver EveryReaderAgrees ReportReadsBack OnlyThisLog
CHECK_DEADLOCK FALSE
