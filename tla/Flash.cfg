SPECIFICATION FlashSpec
CONSTANTS
  TSize = 64
  Word = 128
  WrenTries = 2
  MaxCalls = 2
  Requests <- MCRequests
  Page = 2
  Sector = 4
  PSize = 8
  PWord = 16
  Window = 2
  Writes <- MCWrites
  Contents <- MCContents
  MaxWrites = 2
  Setups <- MCSetups
  MaxOps = 2
INVARIANTS EraseConfined EraseComplete WriteConfined WriteVerified SmartPreserves Framed WidthsAgree ReadsData
PROPERTY EraseReturns
CHECK_DEADLOCK FALSE
